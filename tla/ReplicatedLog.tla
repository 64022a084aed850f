---------------------------- MODULE ReplicatedLog ----------------------------
(***************************************************************************)
(* What a replicated log promises, whatever the protocol: one sequence of  *)
(* chosen entries that only grows, of which every member has learned a     *)
(* prefix that only grows.  Raft and ReferenceModel implement it.          *)
(***************************************************************************)
EXTENDS Naturals, Sequences

CONSTANTS Node, Entry

VARIABLES
  chosen,   \* the entries chosen so far, in log order
  learned   \* learned[n]: the entries member n knows to be chosen

vars == <<chosen, learned>>

Extends(t, s) ==
  /\ Len(s) <= Len(t)
  /\ SubSeq(t, 1, Len(s)) = s

Init ==
  /\ chosen = << >>
  /\ learned = [n \in Node |-> << >>]

\* Entries are chosen, and a member may learn some of them in the same step.
Choose ==
  /\ chosen' \in Seq(Entry)
  /\ Extends(chosen', chosen)
  /\ \/ learned' = learned
     \/ \E n \in Node : \E k \in Len(learned[n])..Len(chosen') :
          learned' = [learned EXCEPT ![n] = SubSeq(chosen', 1, k)]

Next == Choose

Spec == Init /\ [][Next]_vars

\* Two members never know different entries at one index.
Agreement ==
  \A m, n \in Node : Extends(learned[m], learned[n]) \/ Extends(learned[n], learned[m])
=============================================================================
