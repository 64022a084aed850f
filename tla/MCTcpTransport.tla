--------------------------- MODULE MCTcpTransport ---------------------------
(* Instances of TcpTransport for TLC.                                      *)
EXTENDS TcpTransport

Bounds(endpoints_, frames_, faults_, partitions_, early_, length_like_) ==
  [endpoints |-> endpoints_, frames |-> frames_, faults |-> faults_,
   partitions |-> partitions_, early |-> early_, length_like |-> length_like_]

\* Members that both connect: one failure or restart; a partition that heals; frames and
\* one cut.  One member connects: frames with a loss and a cut; frames with a loss and a
\* delay that passes early; two failures; a failure and a partition that heals.
FailHealPressure ==
  {Bounds({1, 2}, 0, 1, 0, 0, {}), Bounds({1, 2}, 0, 0, 2, 0, {}),
   Bounds({1, 2}, 2, 0, 1, 0, {1}),
   Bounds({1}, 2, 1, 1, 0, {1}), Bounds({2}, 2, 1, 0, 1, {1}),
   Bounds({1}, 0, 2, 0, 1, {}), Bounds({1}, 0, 1, 2, 0, {})}

\* A partition that is lifted before the I/O thread has seen it.
ShortPartition == {Bounds({1}, 2, 0, 2, 0, {}), Bounds({1}, 2, 0, 2, 0, {2})}
=============================================================================
