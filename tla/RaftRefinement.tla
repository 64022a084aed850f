--------------------------- MODULE RaftRefinement ---------------------------
(***************************************************************************)
(* Raft as an implementation of the abstract replicated log.               *)
(***************************************************************************)
EXTENDS Raft

\* What the observer has seen certified is chosen.
chosen == [i \in 1..Len(committed) |-> committed[i].entry]

\* A member has learned the committed prefix of its medium.
committed_prefix(d) ==
  [i \in 1..d.commit |-> IF i <= Len(d.log) THEN d.log[i] ELSE Nil]
learned == [n \in Node |-> committed_prefix(disk[n])]

Log == INSTANCE ReplicatedLog WITH chosen <- chosen, learned <- learned

\* Raft implements it: elections, repairs, crashes and failed writes only ever
\* let the chosen sequence grow, and no medium takes back or changes an entry
\* it has once recorded as committed.
ImplementsReplicatedLog == Log!Spec
=============================================================================
