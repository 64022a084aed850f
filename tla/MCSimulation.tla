---------------------------- MODULE MCSimulation ----------------------------
(* Instances of Cluster and of the Simulator in it for TLC: the adapter    *)
(* with its cores, and the simulator with a caller that makes any call, as *)
(* the tests of the simulator do.                                          *)
EXTENDS Cluster

-----------------------------------------------------------------------------
(* The adapter.                                                            *)

\* Frames of three bytes on one device that crashes and fails,
Storage == [direct |-> FALSE, nodes |-> {1}, leader |-> 0, timers |-> {"timer"}, tags |-> {},
            frames |-> {}, writes |-> {3}, delays |-> {1}, pending |-> 2, total |-> 12,
            file |-> 9, faults |-> 4, max_deferred |-> 1, ops |-> 3, generations |-> 4]
\* two members that start, with timers, messages and writes,
Starting == [Storage EXCEPT !.nodes = {1, 2}, !.frames = {1}, !.writes = {1}, !.pending = 3,
                            !.total = 11, !.file = 3, !.faults = 2, !.ops = 4]
\* and two members with a leader and its clients.
Leading == [Starting EXCEPT !.leader = 1, !.total = 9, !.faults = 1]

-----------------------------------------------------------------------------
(* The simulator alone.                                                    *)

\* One device and its crashes,
Device == [Storage EXCEPT !.direct = TRUE, !.timers = {}, !.writes = {2}, !.delays = {0, 1},
                          !.pending = 3, !.total = 5, !.file = 4, !.faults = 2,
                          !.generations = 0]
\* two nodes that send to each other,
Network == [Device EXCEPT !.nodes = {1, 2}, !.frames = {1, 2}, !.writes = {}, !.pending = 2,
                          !.total = 4, !.file = 0, !.faults = 1]
\* and two timers beside a user event.
Timers == [Device EXCEPT !.timers = {"election", "heartbeat"}, !.tags = {1}, !.writes = {},
                         !.pending = 2, !.total = 4, !.file = 0]

EachPart == {Storage, Starting, Leading, Device, Network, Timers}

MCNext ==
  \/ ~setup.direct /\ Next
  \/ setup.direct /\ Sim!Next /\ UNCHANGED adapter

MCSpec == Init /\ [][MCNext]_vars

-----------------------------------------------------------------------------
(* The properties of module Simulator, whoever calls it.                   *)

\* The byte counters of the links and of the network equal the frames in the queue and
\* stay in their limits (release_network_bytes).
BytesAccounted == Sim!BytesAccounted

\* A timer that was armed, and has not fired or been cancelled since, has exactly one
\* event that next() will return, and no other timer has one (arm_timer, next).
TimersKept == Sim!TimersKept

\* A flush completes after every write that was submitted before it (storage_start).
FlushIsBarrier == [][Sim!FlushBarrier]_vars

\* Flushed bytes stay at the front of the stable bytes over crashes and failed writes, and
\* a crash leaves a prefix of what the device was given (crash_node).
CrashLeavesPrefix == [][Sim!PrefixLeft]_vars
=============================================================================
