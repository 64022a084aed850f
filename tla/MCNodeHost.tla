----------------------------- MODULE MCNodeHost -----------------------------
(* Instances of NodeHost for TLC.                                          *)
EXTENDS NodeHost

AllFaults == {"append", "flush", "tcp", "encode", "stop"}

\* Group commit, one flush per append with a deferral queue that overflows, and either
\* with a timer that is armed several times.
Modes ==
  {[grouped |-> TRUE, leader |-> TRUE, max_deferred |-> 3, tokens |-> 2,
    messages |-> 1, generations |-> 3, faults |-> AllFaults],
   [grouped |-> FALSE, leader |-> TRUE, max_deferred |-> 1, tokens |-> 3,
    messages |-> 1, generations |-> 3, faults |-> AllFaults],
   [grouped |-> TRUE, leader |-> FALSE, max_deferred |-> 2, tokens |-> 0,
    messages |-> 2, generations |-> 5, faults |-> {"flush"}],
   [grouped |-> FALSE, leader |-> FALSE, max_deferred |-> 1, tokens |-> 0,
    messages |-> 2, generations |-> 5, faults |-> {"stop"}]}

\* Group commit whose flush may fail, and a peer that never stops sending.
FailingAndFlooded ==
  {[grouped |-> TRUE, leader |-> FALSE, max_deferred |-> 2, tokens |-> 0,
    messages |-> 2, generations |-> 1, faults |-> {"flush", "stop"}],
   [grouped |-> FALSE, leader |-> TRUE, max_deferred |-> 1, tokens |-> 2,
    messages |-> 0, generations |-> 2, faults |-> {}]}

\* A peer that sends during an operation, and a deferral queue for one event.
Overflowing ==
  {[grouped |-> FALSE, leader |-> TRUE, max_deferred |-> 1, tokens |-> 1,
    messages |-> 2, generations |-> 3, faults |-> {}]}
=============================================================================
