------------------------------- MODULE MCWal --------------------------------
(* Wal with the batches of one member over two terms and three log indices. *)
EXTENDS Wal

CONSTANTS A, B

Hard(term, vote) == [term |-> term, vote |-> vote]
Item(index, term) == [index |-> index, term |-> term]

\* A vote, a rival vote of the same term, an append, the repair of a conflict
\* in a later term, and a commit.
VoteA == [EmptyBatch EXCEPT !.hard_state = Hard(1, A)]
VoteB == [EmptyBatch EXCEPT !.hard_state = Hard(1, B)]
First == [EmptyBatch EXCEPT !.entries = <<Item(1, 1)>>]
Repair == [EmptyBatch EXCEPT !.hard_state = Hard(2, Nil), !.truncate_from = 1,
                             !.entries = <<Item(1, 2), Item(2, 2), Item(3, 2)>>]
Commit == [EmptyBatch EXCEPT !.commit_index = 1]
MCBatch == {VoteA, VoteB, First, Repair, Commit}

\* Power losses under either policy, and stops with I/O errors anywhere.
OneKindOfFault ==
  {[flush_every |-> TRUE, faults |-> {"power", "append_error"}],
   [flush_every |-> FALSE, faults |-> {"power", "append_error"}],
   [flush_every |-> FALSE, faults |-> {"stop", "open_error", "append_error"}]}

\* A process stops, and then the power fails.
StopsAndPower == {[flush_every |-> TRUE, faults |-> {"stop", "power"}]}
=============================================================================
