------------------------------ MODULE RaftCore ------------------------------
(***************************************************************************)
(* The contract of a RaftNode (src/src/raft.cpp) with its host: operations *)
(* are numbered and at most one is outstanding; other events are deferred  *)
(* in a bounded queue meanwhile and drained in order afterwards; a timer   *)
(* carries a generation, is checked when it is dispatched and is armed     *)
(* again at once or by the continuation of an operation; a failed          *)
(* operation stops the node.                                               *)
(*                                                                         *)
(* An operator returns the set of the possible reactions of a node, each a *)
(* new state with the effects emitted so far.  Which reaction is taken     *)
(* depends on the protocol, which module Raft describes.  "The timer" is   *)
(* the one that the role of the node waits for: the election timer, or the *)
(* heartbeat timer of a leader.                                            *)
(***************************************************************************)
EXTENDS Naturals, SequencesExt

CONSTANTS
  MaxDeferred,          \* max_deferred_events
  MaxOps,               \* bound: storage operations
  MaxGeneration         \* bound: generations of the timer

Message == [kind |-> "message"]
Timer(generation) == [kind |-> "timer", generation |-> generation]
Client(token) == [kind |-> "client", token |-> token]
Complete(op, success) == [kind |-> "complete", op |-> op, success |-> success]

\* Effects; needs is the last operation completed when the effect is emitted.
Persist(op, commit) == [kind |-> "persist", op |-> op, commit |-> commit]
Send(r) == [kind |-> "send", needs |-> r.done]
Schedule(r) == [kind |-> "timer", needs |-> r.done, generation |-> r.generation]
Reply(r, token) == [kind |-> "reply", needs |-> r.done, token |-> token]

Emit(x, effect) == [x EXCEPT !.effects = Append(@, effect)]
Sends(x) == Emit(x, Send(x.raft))

\* ++election_generation_, ++heartbeat_generation_ without a new timer
Cancels(x) ==
  IF x.raft.generation >= MaxGeneration THEN x ELSE [x EXCEPT !.raft.generation = @ + 1]

\* schedule_election, schedule_heartbeat
Rearms(x) ==
  IF x.raft.generation >= MaxGeneration THEN x
  ELSE LET y == Cancels(x) IN Emit(y, Schedule(y.raft))

\* begin_persist, with a continuation that re-arms the timer or does not
Persists(x, commit, rearm) ==
  IF x.raft.next_op > MaxOps THEN {}
  ELSE {Emit([x EXCEPT !.raft.op = x.raft.next_op, !.raft.next_op = @ + 1,
                       !.raft.rearm = rearm, !.raft.commit = commit],
             Persist(x.raft.next_op, commit))}

\* replies to a set of tokens, in some fixed order
Replies(x, tokens) ==
  FoldLeft(LAMBDA y, t : Emit(y, Reply(x.raft, t)), x, SetToSeq(tokens))

\* Mutant: the timer is not armed again after the hard state is written.
OnSuccess_NoRearm(x) ==
  LET y == [x EXCEPT !.raft.done = x.raft.op, !.raft.op = 0, !.raft.rearm = FALSE]
  IN {Sends(IF x.raft.commit THEN [Replies(y, y.raft.clients) EXCEPT !.raft.clients = {}]
            ELSE y)}

\* on_storage_complete and the continuation: the reply or the sends that waited,
\* the answers to clients when a commit index was recorded, and, of a leader, the
\* next commit index (maybe_advance_commit).
OnSuccess(x) ==
  LET y == [x EXCEPT !.raft.done = x.raft.op, !.raft.op = 0]
      z == Sends(IF x.raft.rearm THEN Rearms([y EXCEPT !.raft.rearm = FALSE]) ELSE y)
      answered == IF x.raft.commit
                  THEN [Replies(z, z.raft.clients) EXCEPT !.raft.clients = {}] ELSE z
  IN {answered} \cup IF x.raft.leader THEN Persists(answered, TRUE, FALSE) ELSE {}

\* fail_storage
OnFailure(x) ==
  LET waiting == x.raft.clients
        \cup {e.token : e \in {d \in Range(x.raft.deferred) : d.kind = "client"}}
  IN {Replies([x EXCEPT !.raft.op = 0, !.raft.up = FALSE, !.raft.leader = FALSE,
                        !.raft.clients = {}, !.raft.deferred = << >>,
                        !.raft.generation = @ + 1], waiting)}

\* A role change: the timer of the old role is invalidated, that of the new one is armed
\* when the batch is durable (become_leader; step_down for a higher term).
ChangesRole(x, commit) == Persists([Cancels(x) EXCEPT !.raft.leader = ~@], commit, TRUE)

\* on_timer: a heartbeat, or an election, which arms the timer again when the hard state
\* is durable (and writes nothing once the bound on operations is reached).
OnTimer(x) ==
  IF x.raft.leader \/ x.raft.next_op > MaxOps THEN {Rearms(Sends(x))}
  ELSE Persists(x, FALSE, TRUE)

\* on_message: nothing or an answer at once; a leader may record a commit index or step
\* down; another node may arm its timer, at once or after a batch, or become leader.
OnMessage(x) ==
  {x, Sends(x)} \cup
    IF x.raft.leader
    THEN Persists(x, TRUE, FALSE) \cup UNION {ChangesRole(x, commit) : commit \in BOOLEAN}
    ELSE {Sends(Rearms(x))} \cup UNION {Persists(x, commit, TRUE) : commit \in BOOLEAN}
           \cup ChangesRole(x, FALSE)

\* on_client_request: an answer at once, or a new entry of a leader
OnClient(x, token) ==
  {Emit(x, Reply(x.raft, token))}
    \cup IF x.raft.leader
         THEN Persists([x EXCEPT !.raft.clients = @ \cup {token}], FALSE, FALSE) ELSE {}

dispatch(x, event) ==
  CASE event.kind = "complete" ->
         IF event.op # x.raft.op THEN {x}
         ELSE IF event.success THEN OnSuccess(x) ELSE OnFailure(x)
    [] event.kind = "timer" ->
         IF event.generation # x.raft.generation THEN {x} ELSE OnTimer(x)
    [] event.kind = "message" -> OnMessage(x)
    [] event.kind = "client" -> OnClient(x, event.token)

\* Mutant: a client that finds the deferral queue full gets no answer.
step_DropsClient(r, event) ==
  LET x == [raft |-> r, effects |-> << >>]
  IN CASE r.op # 0 /\ event.kind # "complete" ->
            IF Len(r.deferred) >= MaxDeferred THEN {x}
            ELSE {[x EXCEPT !.raft.deferred = Append(@, event)]}
       [] OTHER -> dispatch(x, event)

\* RaftNode::step: an event that arrives during an operation is deferred, or
\* dropped when the queue is full; otherwise it is handled, and then deferred
\* events are, until one starts an operation.  The ghost field dropped is the
\* generation of the last timer that was dropped.
step(r, event) ==
  LET x == [raft |-> r, effects |-> << >>]
      drained(set, e) ==
        UNION {IF y.raft.op # 0 \/ ~y.raft.up
               THEN {[y EXCEPT !.raft.deferred = Append(@, e)]}
               ELSE dispatch(y, e) : y \in set}
      handled(y) == FoldLeft(drained, {[y EXCEPT !.raft.deferred = << >>]},
                             y.raft.deferred)
  IN CASE r.op # 0 /\ event.kind # "complete" ->
            IF Len(r.deferred) >= MaxDeferred
            THEN {CASE event.kind = "client" -> Emit(x, Reply(r, event.token))
                    [] event.kind = "timer" -> [x EXCEPT !.raft.dropped = event.generation]
                    [] OTHER -> x}
            ELSE {[x EXCEPT !.raft.deferred = Append(@, event)]}
       [] ~r.up /\ event.kind # "complete" ->
            {IF event.kind = "client" THEN Emit(x, Reply(r, event.token)) ELSE x}
       [] OTHER -> UNION {handled(y) : y \in dispatch(x, event)}

\* A new node and RaftNode::start
NewRaft ==
  [up |-> TRUE, leader |-> FALSE, op |-> 0, next_op |-> 1, done |-> 0, commit |-> FALSE,
   rearm |-> FALSE, generation |-> 0, dropped |-> 0, clients |-> {}, deferred |-> << >>]

start == Rearms([raft |-> NewRaft, effects |-> << >>])

=============================================================================
