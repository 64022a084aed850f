--------------------------- MODULE RaftStepProofs ---------------------------
(***************************************************************************)
(* Proofs about Raft, third part: every step is a step of one node of one  *)
(* of few kinds.  A kind says what the step does to the node's log, role   *)
(* and peers, to media and to messages; the arguments on logs use the      *)
(* kinds and not the handlers.  Every kind preserves the invariant on      *)
(* logs.  Then what running nodes and waiting clients rely on: a timer     *)
(* that fires, and a log with the command at the index waited for.         *)
(***************************************************************************)
EXTENDS RaftBaseProofs

\* The leaves are proved with Zenon unless they cite another prover.
USE Zenon

-----------------------------------------------------------------------------
(* Every step is of one of these kinds *)

\* A reply, at once or behind its batch.
LEMMA ReplyOut ==
  ASSUME TypeOK, NEW n \in Node, pending_storage[n] = Nil, NEW batch, NEW rearm,
         NEW w \in Message, persist_then_reply(n, batch, Reply(rearm, w))
  PROVE  /\ Replies(n, w)
         /\ msgs \subseteq msgs'
         /\ \A q \in Node \ {n} : pending_storage'[q] = pending_storage[q]
<1>1. Reply(rearm, w).message = w /\ w # Nil
  BY NilAssumption DEF Reply
<1>2. CASE batch = EmptyBatch
  <2>1. pending_storage' = pending_storage /\ msgs' = msgs \cup {w}
    BY <1>1, <1>2 DEF persist_then_reply, run_reply
  <2> QED
    BY <2>1 DEF Replies
<1>3. CASE batch # EmptyBatch
  <2>1. msgs' = msgs /\ begin_persist(n, batch, Reply(rearm, w))
    BY <1>3 DEF persist_then_reply
  <2>2. /\ pending_storage'[n] = [batch |-> batch, after_success |-> Reply(rearm, w)]
        /\ \A q \in Node \ {n} : pending_storage'[q] = pending_storage[q]
    BY <2>1, VariableTypes DEF begin_persist
  <2>3. Waiting(n)' = w
    BY <2>2, <1>1, SMT DEF Waiting
  <2> QED
    BY <2>1, <2>2, <2>3 DEF Replies
<1> QED
  BY <1>2, <1>3

\* A batch after which a closure runs that sends no reply.
LEMMA ResumeSilent ==
  ASSUME TypeOK, NEW n \in Node, NEW batch, NEW after, after.message = Nil,
         begin_persist(n, batch, after)
  PROVE  /\ Waiting(n)' = Nil
         /\ \A q \in Node \ {n} : pending_storage'[q] = pending_storage[q]
<1>1. pending_storage' = [pending_storage EXCEPT
                            ![n] = [batch |-> batch, after_success |-> after]]
  BY DEF begin_persist
<1>2. /\ pending_storage'[n] = [batch |-> batch, after_success |-> after]
      /\ \A q \in Node \ {n} : pending_storage'[q] = pending_storage[q]
  BY <1>1, VariableTypes
<1>3. Waiting(n)' = Nil
  BY <1>2, SMT DEF Waiting
<1> QED
  BY <1>2, <1>3

\* A step that changes nothing but messages, timers and votes counted.
LEMMA StepOfUnchanged ==
  ASSUME NEW n \in Node, msgs \subseteq msgs',
         UNCHANGED <<hard_vars, log_vars, role, leader_ready, readiness_index, peers,
                     pending_storage, disk, elected>>
  PROVE  StepOf(n)
  BY DEF StepOf, OthersKept, hard_vars, log_vars

\* Idle nodes answer requests of past terms.
LEMMA StaleStep ==
  ASSUME TypeOK, NEW n \in Node, NEW m \in msgs, Idle(n),
         on_request_vote_stale(n, m) \/ on_append_entries_stale(n, m)
  PROVE  StepOf(n) /\ Answers(n)
<1>1. /\ UNCHANGED <<hard_vars, log_vars, role_vars, peers, pending_storage, disk, ghost_vars>>
      /\ \E w : Denial(w) /\ msgs' = msgs \cup {w}
  <2>1. CASE on_request_vote_stale(n, m)
    <3> DEFINE w == VoteResponse(n, m.from, current_term[n], FALSE)
    <3>1. w.type = "RequestVoteResponse" /\ w.vote_granted = FALSE
      BY DEF VoteResponse
    <3>2. msgs' = msgs \cup {w}
      BY <2>1 DEF on_request_vote_stale
    <3> HIDE DEF w
    <3>3. Denial(w)
      BY <3>1 DEF Denial
    <3> QED
      BY <2>1, <3>2, <3>3 DEF on_request_vote_stale, peer_vars
  <2>2. CASE on_append_entries_stale(n, m)
    <3> DEFINE w == AppendResponse(n, m, current_term[n], FALSE, 0, Len(log[n]) + 1, 0)
    <3>1. w.type = "AppendEntriesResponse" /\ w.success = FALSE
      BY DEF AppendResponse
    <3>2. msgs' = msgs \cup {w}
      BY <2>2 DEF on_append_entries_stale
    <3> HIDE DEF w
    <3>3. Denial(w)
      BY <3>1 DEF Denial
    <3> QED
      BY <2>2, <3>2, <3>3 DEF on_append_entries_stale, peer_vars
  <2> QED
    BY <2>1, <2>2
<1>2. StepOf(n)
  BY <1>1, StepOfUnchanged DEF role_vars, ghost_vars
<1>3. pending_storage'[n] = Nil
  BY <1>1 DEF Idle
<1>4. \E w : Denial(w) /\ Replies(n, w)
  BY <1>1, <1>3 DEF Replies
<1>5. Answers(n)
  BY <1>1, <1>4 DEF Answers, SameOffice, GhostsKept, hard_vars, log_vars, role_vars, ghost_vars
<1> QED
  BY <1>2, <1>5

LEMMA StepDownOffice ==
  ASSUME TypeOK, NEW n \in Node, NEW hint, step_down(n, hint)
  PROVE  /\ Follows(n)
         /\ \A q \in Node \ {n} :
              /\ role'[q] = role[q] /\ peers'[q] = peers[q]
              /\ leader_ready'[q] = leader_ready[q] /\ readiness_index'[q] = readiness_index[q]
<1>1. /\ role'[n] = "follower" /\ leader_ready'[n] = FALSE
      /\ \A q \in Node \ {n} : role'[q] = role[q] /\ leader_ready'[q] = leader_ready[q]
  BY VariableTypes DEF step_down
<1>2. \A q \in Node \ {n} : peers'[q] = peers[q] /\ readiness_index'[q] = readiness_index[q]
  BY VariableTypes DEF step_down
<1> QED
  BY <1>1, <1>2 DEF Follows

\* A step of n that moves its hard state and its role.
LEMMA StepOfOffice ==
  ASSUME NEW n \in Node, msgs \subseteq msgs',
         UNCHANGED <<log_vars, disk, elected>>,
         \A q \in Node \ {n} :
           /\ role'[q] = role[q] /\ peers'[q] = peers[q]
           /\ leader_ready'[q] = leader_ready[q] /\ readiness_index'[q] = readiness_index[q],
         \A q \in Node \ {n} :
           /\ current_term'[q] = current_term[q] /\ voted_for'[q] = voted_for[q]
           /\ pending_storage'[q] = pending_storage[q]
  PROVE  StepOf(n)
  BY DEF StepOf, OthersKept, log_vars

LEMMA VoteCurrentStep ==
  ASSUME TypeOK, NEW n \in Node, NEW m \in msgs, m.type = "RequestVote", Idle(n),
         on_request_vote_current(n, m)
  PROVE  StepOf(n) /\ Answers(n)
<1> DEFINE higher == m.term > current_term[n]
           vote == IF higher THEN Nil ELSE voted_for[n]
           grant == /\ can_vote(vote, m.from)
                    /\ candidate_is_up_to_date(log[n], m.last_log_index, m.last_log_term)
           new_vote == IF grant THEN m.from ELSE vote
           hs == IF higher \/ new_vote # vote THEN [term |-> m.term, vote |-> new_vote] ELSE Nil
           batch == [EmptyBatch EXCEPT !.hard_state = hs]
           rearm == vote_rearms(n, grant)
           w == VoteResponse(n, m.from, m.term, grant)
<1>1. /\ m.term >= current_term[n]
      /\ IF higher THEN step_down(n, Nil) ELSE UNCHANGED <<role_vars, peers, heartbeat_timer>>
      /\ current_term' = [current_term EXCEPT ![n] = m.term]
      /\ voted_for' = [voted_for EXCEPT ![n] = new_vote]
      /\ persist_then_reply(n, batch, Reply(rearm, w))
      /\ UNCHANGED <<log_vars, next_rpc_id, ghost_vars, pending_clients, disk, bound_vars>>
  BY DEF on_request_vote_current
<1>2. m.from \in Node /\ m.term \in Nat /\ current_term[n] \in Nat
  BY MessageType, VariableTypes
<1>3. pending_storage[n] = Nil
  BY DEF Idle
<1>4. /\ w.type = "RequestVoteResponse" /\ w.from = n /\ w.to = m.from
      /\ w.term = m.term /\ w.vote_granted = grant
  BY DEF VoteResponse
<1>5. w \in Message
  <2>1. grant \in BOOLEAN
    OBVIOUS
  <2> HIDE DEF grant
  <2> QED
    BY <1>2, <2>1 DEF VoteResponse, Message, RequestVoteResponseMsg
<1>6. current_term'[n] = m.term
      /\ \A q \in Node \ {n} : current_term'[q] = current_term[q] /\ voted_for'[q] = voted_for[q]
  <2> HIDE DEF new_vote
  <2> QED
    BY <1>1, VariableTypes
<1>7. \/ Denial(w)
      \/ Grants(n, m, w)
  <2>1. CASE grant
    <3>1. w.vote_granted = TRUE
      BY <1>4, <2>1
    <3>2. candidate_is_up_to_date(log[n], m.last_log_index, m.last_log_term)
      BY <2>1
    <3> HIDE DEF w
    <3> QED
      BY <1>4, <1>6, <3>1, <3>2 DEF Grants
  <2>2. CASE ~grant
    <3>1. w.vote_granted = FALSE
      BY <1>4, <2>2
    <3> HIDE DEF w
    <3> QED
      BY <1>4, <3>1 DEF Denial
  <2> QED
    BY <2>1, <2>2
<1>8. /\ \A q \in Node \ {n} :
           /\ role'[q] = role[q] /\ peers'[q] = peers[q]
           /\ leader_ready'[q] = leader_ready[q] /\ readiness_index'[q] = readiness_index[q]
      /\ SameOffice(n) \/ (Follows(n) /\ current_term'[n] >= current_term[n])
  <2>1. CASE higher
    BY <1>1, <1>6, <2>1, StepDownOffice
  <2>2. CASE ~higher
    <3>1. m.term = current_term[n]
      BY <1>1, <1>2, <2>2, SMT
    <3>2. UNCHANGED <<role, leader_ready, readiness_index, peers>>
      BY <1>1, <2>2 DEF role_vars
    <3> QED
      BY <1>6, <3>1, <3>2 DEF SameOffice
  <2> QED
    BY <2>1, <2>2
<1> HIDE DEF w, batch, rearm
<1>9. /\ Replies(n, w) /\ msgs \subseteq msgs'
      /\ \A q \in Node \ {n} : pending_storage'[q] = pending_storage[q]
  BY <1>1, <1>3, <1>5, ReplyOut
<1>10. UNCHANGED <<log, commit_index, last_applied, disk, elected, committed, log_vars>>
  BY <1>1 DEF log_vars, ghost_vars
<1>11. StepOf(n)
  BY <1>6, <1>8, <1>9, <1>10, StepOfOffice
<1>12. \/ \E u : Denial(u) /\ Replies(n, u)
       \/ \E u : Grants(n, m, u) /\ Replies(n, u)
  BY <1>7, <1>9
<1>13. Answers(n)
  BY <1>8, <1>10, <1>12 DEF Answers, GhostsKept
<1> QED
  BY <1>11, <1>13

\* An answer of a later term makes the node a follower.
LEMMA HigherResponseStep ==
  ASSUME TypeOK, NEW n \in Node, NEW m \in msgs, Idle(n), on_higher_term_response(n, m)
  PROVE  StepOf(n) /\ Answers(n)
<1>1. /\ m.term > current_term[n] /\ step_down(n, Nil)
      /\ current_term' = [current_term EXCEPT ![n] = m.term]
      /\ voted_for' = [voted_for EXCEPT ![n] = Nil]
      /\ UNCHANGED <<log_vars, ghost_vars, disk, msgs>>
      /\ \E batch : begin_persist(n, batch, Reply(TRUE, Nil))
  BY DEF on_higher_term_response
<1>2. Reply(TRUE, Nil).message = Nil
  BY DEF Reply
<1>3. /\ Waiting(n)' = Nil
      /\ \A q \in Node \ {n} : pending_storage'[q] = pending_storage[q]
  BY <1>1, <1>2, ResumeSilent
<1>4. /\ current_term'[n] = m.term
      /\ \A q \in Node \ {n} : current_term'[q] = current_term[q] /\ voted_for'[q] = voted_for[q]
  BY <1>1, VariableTypes
<1>5. current_term'[n] >= current_term[n]
  <2>1. m.term \in Nat /\ current_term[n] \in Nat
    BY MessageType, VariableTypes
  <2> QED
    BY <1>1, <1>4, <2>1, SMT
<1>6. StepOf(n)
  BY <1>1, <1>3, <1>4, StepDownOffice, StepOfOffice DEF ghost_vars
<1>7. Follows(n)
  BY <1>1, StepDownOffice
<1>8. Answers(n)
  BY <1>1, <1>3, <1>5, <1>7 DEF Answers, Silent, GhostsKept, log_vars, ghost_vars
<1> QED
  BY <1>6, <1>8

\* A vote that makes no quorum, and a leader's election timer.
LEMMA CountStep ==
  ASSUME TypeOK, NEW n \in Node, NEW m \in msgs, Idle(n), receive_vote(n, m),
         ~IsQuorum(votes_received[n] \cup {m.from})
  PROVE  StepOf(n) /\ Answers(n)
<1>1. UNCHANGED <<hard_vars, log_vars, role, leader_ready, readiness_index, peers,
                  pending_storage, disk, elected, committed, msgs>>
  BY DEF receive_vote, log_vars
<1>2. StepOf(n)
  BY <1>1, StepOfUnchanged
<1>3. Silent(n)
  BY <1>1 DEF Silent, Idle
<1> QED
  BY <1>1, <1>2, <1>3 DEF Answers, SameOffice, GhostsKept, hard_vars, log_vars

LEMMA TimerLeaderStep ==
  ASSUME TypeOK, NEW n \in Node, on_election_timer_leader(n)
  PROVE  StepOf(n) /\ Answers(n)
<1>1. /\ UNCHANGED <<hard_vars, log_vars, role, leader_ready, readiness_index, peers,
                     pending_storage, disk, elected, committed, msgs>>
      /\ Idle(n)
  BY DEF on_election_timer_leader, role_vars, peer_vars, ghost_vars
<1>2. StepOf(n)
  BY <1>1, StepOfUnchanged
<1>3. Silent(n)
  BY <1>1 DEF Silent, Idle
<1> QED
  BY <1>1, <1>2, <1>3 DEF Answers, SameOffice, GhostsKept, hard_vars, log_vars

\* The sender of an AppendEntries is adopted.
LEMMA AdoptLeaderOffice ==
  ASSUME TypeOK, NEW n \in Node, NEW m, m.term \in Nat, m.term >= current_term[n],
         adopt_leader(n, m), adopt_term(n, m.term)
  PROVE  /\ \/ Follows(n)
            \/ /\ role[n] = "follower" /\ role'[n] = "follower" /\ m.term = current_term[n]
               /\ peers'[n] = peers[n] /\ leader_ready'[n] = leader_ready[n]
               /\ readiness_index'[n] = readiness_index[n]
         /\ current_term'[n] = m.term
         /\ \A q \in Node \ {n} :
              /\ role'[q] = role[q] /\ peers'[q] = peers[q]
              /\ leader_ready'[q] = leader_ready[q] /\ readiness_index'[q] = readiness_index[q]
         /\ \A q \in Node \ {n} :
              current_term'[q] = current_term[q] /\ voted_for'[q] = voted_for[q]
<1>1. /\ current_term'[n] = m.term
      /\ \A q \in Node \ {n} : current_term'[q] = current_term[q] /\ voted_for'[q] = voted_for[q]
  BY VariableTypes DEF adopt_term
<1>2. CASE m.term > current_term[n] \/ role[n] # "follower"
  BY <1>1, <1>2, StepDownOffice DEF adopt_leader
<1>3. CASE ~(m.term > current_term[n] \/ role[n] # "follower")
  <2>1. UNCHANGED <<role, peers, leader_ready, readiness_index>>
    BY <1>3 DEF adopt_leader
  <2>2. m.term = current_term[n]
    <3>1. current_term[n] \in Nat
      BY VariableTypes
    <3> QED
      BY <1>3, <3>1, SMT
  <2> QED
    BY <1>1, <1>3, <2>1, <2>2
<1> QED
  BY <1>2, <1>3

LEMMA RejectStep ==
  ASSUME TypeOK, NEW n \in Node, NEW m \in msgs, m.type = "AppendEntries", Idle(n),
         on_append_entries_reject(n, m)
  PROVE  StepOf(n) /\ Answers(n)
<1> DEFINE reply(ci, ct) == AppendResponse(n, m, m.term, FALSE, 0, ci, ct)
<1>1. /\ m.term >= current_term[n] /\ adopt_term(n, m.term) /\ adopt_leader(n, m)
      /\ UNCHANGED <<log_vars, ghost_vars, disk>>
      /\ \E batch : \/ persist_then_reply(n, batch, Reply(TRUE, reply(Len(log[n]) + 1, 0)))
                    \/ \E first \in 1..m.prev_log_index :
                         persist_then_reply(n, batch,
                           Reply(TRUE, reply(first, term_at(log[n], m.prev_log_index))))
  BY DEF on_append_entries_reject
<1>2. /\ m \in AppendEntriesMsg /\ m.from \in Node /\ m.term \in Nat /\ m.rpc_id \in Nat
      /\ m.prev_log_index \in Nat
  BY MessageType DEF AppendEntriesMsg
<1>3. ASSUME NEW ci \in Nat, NEW ct \in Nat
      PROVE  reply(ci, ct) \in Message /\ Denial(reply(ci, ct))
  <2>1. reply(ci, ct) \in Message
    BY <1>2, <1>3 DEF AppendResponse, Message, AppendEntriesResponseMsg
  <2>2. reply(ci, ct).type = "AppendEntriesResponse" /\ reply(ci, ct).success = FALSE
    BY DEF AppendResponse
  <2> QED
    BY <2>1, <2>2 DEF Denial
<1>4. /\ Len(log[n]) + 1 \in Nat /\ 0 \in Nat /\ term_at(log[n], m.prev_log_index) \in Nat
      /\ \A first \in 1..m.prev_log_index : first \in Nat
  <2>1. log[n] \in Seq(Entry) /\ m.prev_log_index \in Int
    BY <1>2, VariableTypes, SMT
  <2>2. term_at(log[n], m.prev_log_index) \in Nat
    BY <2>1, TermAtType
  <2> QED
    BY <1>2, <2>1, <2>2, SMT
<1> HIDE DEF reply
<1>5. \E batch, w : /\ w \in Message /\ Denial(w)
                    /\ persist_then_reply(n, batch, Reply(TRUE, w))
  BY <1>1, <1>3, <1>4
<1>6. /\ \E w : Denial(w) /\ Replies(n, w)
      /\ msgs \subseteq msgs'
      /\ \A q \in Node \ {n} : pending_storage'[q] = pending_storage[q]
  BY <1>5, ReplyOut DEF Idle
<1>7. StepOf(n)
  BY <1>1, <1>2, <1>6, AdoptLeaderOffice, StepOfOffice DEF ghost_vars
<1>8. SameOffice(n) \/ (Follows(n) /\ current_term'[n] >= current_term[n])
  <2>1. current_term'[n] = m.term
    BY <1>1, <1>2, AdoptLeaderOffice
  <2> QED
    BY <1>1, <1>2, <2>1, AdoptLeaderOffice DEF SameOffice
<1>9. Answers(n)
  BY <1>1, <1>6, <1>8 DEF Answers, GhostsKept, log_vars, ghost_vars
<1> QED
  BY <1>7, <1>9

LEMMA CampaignStep ==
  ASSUME TypeOK, NEW n \in Node, begin_election(n)
  PROVE  StepOf(n) /\ Campaigns(n)
<1>1. /\ Idle(n) /\ UNCHANGED <<log_vars, disk, msgs, ghost_vars>>
      /\ role' = [role EXCEPT ![n] = "candidate"]
      /\ current_term' = [current_term EXCEPT ![n] = @ + 1]
      /\ voted_for' = [voted_for EXCEPT ![n] = n]
      /\ leader_ready' = [leader_ready EXCEPT ![n] = FALSE]
      /\ readiness_index' = [readiness_index EXCEPT ![n] = 0]
      /\ peers' = [peers EXCEPT ![n] = NoPeers]
      /\ \E batch : begin_persist(n, batch, Resume("begin_election"))
  BY DEF begin_election
<1>2. Resume("begin_election").message = Nil
  BY DEF Resume
<1>3. /\ Waiting(n)' = Nil
      /\ \A q \in Node \ {n} : pending_storage'[q] = pending_storage[q]
  BY <1>1, <1>2, ResumeSilent
<1>4. /\ role'[n] = "candidate" /\ leader_ready'[n] = FALSE
      /\ \A q \in Node \ {n} :
           /\ role'[q] = role[q] /\ peers'[q] = peers[q]
           /\ leader_ready'[q] = leader_ready[q] /\ readiness_index'[q] = readiness_index[q]
  BY <1>1, VariableTypes
<1>5. /\ current_term'[n] = current_term[n] + 1
      /\ \A q \in Node \ {n} : current_term'[q] = current_term[q] /\ voted_for'[q] = voted_for[q]
  BY <1>1, VariableTypes
<1>6. StepOf(n)
  BY <1>1, <1>3, <1>4, <1>5, StepOfOffice DEF ghost_vars
<1>7. Campaigns(n)
  BY <1>1, <1>3, <1>4, <1>5 DEF Campaigns, Silent, GhostsKept, log_vars, ghost_vars
<1> QED
  BY <1>6, <1>7

LEMMA WinStep ==
  ASSUME TypeOK, NEW n \in Node, NEW m \in msgs, Idle(n), receive_vote(n, m),
         IsQuorum(votes_received[n] \cup {m.from})
  PROVE  StepOf(n) /\ Wins(n)
<1>1. /\ become_leader(n) /\ role[n] = "candidate"
      /\ UNCHANGED <<hard_vars, commit_index, last_applied, durable_last_log_index,
                     committed, disk, msgs>>
  BY DEF receive_vote
<1>2. /\ elected' = elected \cup {<<current_term[n], n>>}
      /\ leader_ready' = [leader_ready EXCEPT ![n] = FALSE]
  BY <1>1 DEF become_leader
<1>3. /\ leader_ready'[n] = FALSE
      /\ \A q \in Node \ {n} : leader_ready'[q] = leader_ready[q]
  BY <1>2, VariableTypes
<1> DEFINE no_op == [term |-> current_term[n], command |-> Nil]
           others == \A q \in Node \ {n} :
                       /\ role'[q] = role[q] /\ log'[q] = log[q] /\ peers'[q] = peers[q]
                       /\ readiness_index'[q] = readiness_index[q]
                       /\ pending_storage'[q] = pending_storage[q]
           leads == /\ role'[n] = "leader" /\ can_append(n) /\ log'[n] = Append(log[n], no_op)
                    /\ readiness_index'[n] = Len(log[n]) + 1
                    /\ \A p \in Node : peers'[n][p].match_index = 0 /\ peers'[n][p].inflight = Nil
           follows == role'[n] = "follower" /\ log'[n] = log[n]
<1>4. ASSUME can_append(n)
      PROVE  leads /\ others /\ Silent(n)
  <2>1. /\ role' = [role EXCEPT ![n] = "leader"]
        /\ log' = [log EXCEPT ![n] = Append(@, no_op)]
        /\ readiness_index' = [readiness_index EXCEPT ![n] = Len(log[n]) + 1]
        /\ \E batch : begin_persist(n, batch, Resume("become_leader"))
    BY <1>1, <1>4 DEF become_leader
  <2>2. peers' = [peers EXCEPT ![n] =
                    [p \in Node |-> NewProgress(durable_last_log_index[n] + 1)]]
    BY <1>1, <1>4 DEF become_leader
  <2>3. Resume("become_leader").message = Nil
    BY SMT DEF Resume
  <2>4. /\ Waiting(n)' = Nil
        /\ \A q \in Node \ {n} : pending_storage'[q] = pending_storage[q]
    BY <2>1, <2>3, ResumeSilent
  <2>5. /\ role'[n] = "leader" /\ log'[n] = Append(log[n], no_op)
        /\ readiness_index'[n] = Len(log[n]) + 1
        /\ \A q \in Node \ {n} : /\ role'[q] = role[q] /\ log'[q] = log[q]
                                 /\ readiness_index'[q] = readiness_index[q]
    <3> HIDE DEF no_op
    <3> QED
      BY <2>1, VariableTypes
  <2>6. /\ \A q \in Node \ {n} : peers'[q] = peers[q]
        /\ peers'[n] = [p \in Node |-> NewProgress(durable_last_log_index[n] + 1)]
    BY <2>2, VariableTypes
  <2>7. \A p \in Node : peers'[n][p].match_index = 0 /\ peers'[n][p].inflight = Nil
    <3>1. ASSUME NEW p \in Node
          PROVE  peers'[n][p] = NewProgress(durable_last_log_index[n] + 1)
      BY <2>6, <3>1
    <3>2. ASSUME NEW i
          PROVE  NewProgress(i).match_index = 0 /\ NewProgress(i).inflight = Nil
      BY SMT DEF NewProgress
    <3> QED
      BY <3>1, <3>2
  <2>8. others /\ Silent(n)
    BY <1>1, <2>4, <2>5, <2>6 DEF Silent
  <2> QED
    BY <1>4, <2>5, <2>7, <2>8
<1>5. ASSUME ~can_append(n)
      PROVE  follows /\ others /\ Silent(n)
  <2>1. /\ role' = [role EXCEPT ![n] = "follower"]
        /\ peers' = [peers EXCEPT ![n] = NoPeers]
        /\ readiness_index' = [readiness_index EXCEPT ![n] = 0]
        /\ UNCHANGED <<log, pending_storage>>
    BY <1>1, <1>5 DEF become_leader
  <2>2. follows /\ others
    BY <2>1, VariableTypes
  <2>3. Silent(n)
    BY <1>1, <2>1 DEF Silent, Idle
  <2> QED
    BY <2>2, <2>3
<1>6. (leads \/ follows) /\ others /\ Silent(n)
  BY <1>4, <1>5
<1>7. StepOf(n)
  <2> HIDE DEF leads, follows
  <2> QED
    BY <1>1, <1>2, <1>3, <1>6 DEF StepOf, OthersKept, hard_vars
<1>8. Wins(n)
  BY <1>1, <1>2, <1>3, <1>6 DEF Wins, hard_vars
<1> QED
  BY <1>7, <1>8, SMT

LEMMA AcceptStep ==
  ASSUME TypeOK, NEW n \in Node, NEW m \in msgs, m.type = "AppendEntries", Idle(n),
         on_append_entries_accept(n, m)
  PROVE  /\ StepOf(n)
         /\ Stops(n) \/ \E k \in 0..Len(m.entries) : Accepts(n, m, k)
<1>1. /\ m \in AppendEntriesMsg /\ m.from \in Node /\ m.term \in Nat /\ m.rpc_id \in Nat
      /\ m.prev_log_index \in Nat /\ m.entries \in Seq(Entry)
  BY MessageType DEF AppendEntriesMsg
<1> DEFINE at(k) == m.prev_log_index + k + 1
           new(k) == SubSeq(m.entries, k + 1, Len(m.entries))
           match == m.prev_log_index + Len(m.entries)
           fails(k) == /\ new(k) # << >> /\ at(k) <= commit_index[n]
                       /\ fail_storage(n)
                       /\ readiness_index' = [readiness_index EXCEPT ![n] = 0]
                       /\ UNCHANGED <<log, commit_index, msgs>>
           grows(k) == IF new(k) = << >> THEN log[n] ELSE SubSeq(log[n], 1, at(k) - 1) \o new(k)
           message == AppendResponse(n, m, m.term, TRUE, match, 0, 0)
           accepts(k) ==
             /\ ~(new(k) # << >> /\ at(k) <= commit_index[n])
             /\ adopt_leader(n, m)
             /\ log' = [log EXCEPT ![n] = grows(k)]
             /\ commit_index' = [commit_index EXCEPT ![n] = max(@, learned_commit(m, match))]
             /\ \E batch : persist_then_reply(n, batch, Reply(TRUE, message))
<1>2. /\ m.term >= current_term[n] /\ ~missing(n, m) /\ ~mismatch(n, m)
      /\ adopt_term(n, m.term)
      /\ UNCHANGED <<last_applied, durable_last_log_index, ghost_vars, disk>>
  BY DEF on_append_entries_accept
<1>3. PICK k \in 0..Len(m.entries) : incoming(n, m, k) /\ (fails(k) \/ accepts(k))
  BY DEF on_append_entries_accept
<1>4. /\ current_term'[n] = m.term
      /\ \A q \in Node \ {n} : current_term'[q] = current_term[q] /\ voted_for'[q] = voted_for[q]
  BY <1>2, VariableTypes DEF adopt_term
<1>5. Matches(n, m, k)
  BY <1>2, <1>3 DEF Matches
<1>6. CASE fails(k)
  <2>1. /\ role'[n] = "unavailable" /\ pending_storage'[n] = Nil /\ leader_ready'[n] = FALSE
        /\ \A q \in Node \ {n} : /\ role'[q] = role[q] /\ leader_ready'[q] = leader_ready[q]
                                 /\ pending_storage'[q] = pending_storage[q]
    BY <1>6, VariableTypes DEF fail_storage
  <2>2. \A q \in Node \ {n} : /\ peers'[q] = peers[q]
                              /\ readiness_index'[q] = readiness_index[q]
    BY <1>6, VariableTypes DEF fail_storage
  <2>3. UNCHANGED <<log, commit_index, msgs, elected, committed>>
    BY <1>2, <1>6 DEF ghost_vars
  <2>4. StepOf(n)
    BY <1>2, <1>4, <2>1, <2>2, <2>3 DEF StepOf, OthersKept
  <2>5. Overwrites(n, m, k)
    BY <1>6 DEF Overwrites
  <2>6. ~Live(n)' /\ Live(n)
    BY <2>1 DEF Live, LiveRole, Idle
  <2>7. Stops(n)
    BY <1>5, <2>1, <2>3, <2>5, <2>6 DEF Stops, GhostsKept
  <2> QED
    BY <2>4, <2>7, SMT
<1>7. CASE accepts(k)
  <2>1. message \in Message
    <3>1. match \in Nat
      BY <1>1, SMT
    <3> HIDE DEF match
    <3> QED
      BY <1>1, <3>1, SMT DEF AppendResponse, Message, AppendEntriesResponseMsg
  <2>2. /\ Replies(n, message) /\ msgs \subseteq msgs'
        /\ \A q \in Node \ {n} : pending_storage'[q] = pending_storage[q]
    <3> HIDE DEF message
    <3> QED
      BY <1>7, <2>1, ReplyOut DEF Idle
  <2>3. at(k) - 1 = m.prev_log_index + k
    BY <1>1, SMT
  <2>4. grows(k) = Accepted(n, m, k)
    BY <2>3 DEF Accepted
  <2>5. /\ log'[n] = Accepted(n, m, k)
        /\ commit_index'[n] = max(commit_index[n], learned_commit(m, match))
        /\ \A q \in Node \ {n} : log'[q] = log[q] /\ commit_index'[q] = commit_index[q]
    <3> HIDE DEF grows, match
    <3> QED
      BY <1>7, <2>4, VariableTypes
  <2>6. ~Overwrites(n, m, k)
    BY <1>7 DEF Overwrites
  <2>7. StepOf(n)
    <3>1. /\ \A q \in Node \ {n} :
               /\ role'[q] = role[q] /\ peers'[q] = peers[q]
               /\ leader_ready'[q] = leader_ready[q] /\ readiness_index'[q] = readiness_index[q]
          /\ UNCHANGED <<last_applied, durable_last_log_index, disk, elected>>
      BY <1>1, <1>2, <1>7, AdoptLeaderOffice DEF ghost_vars
    <3> QED
      BY <1>4, <2>2, <2>5, <3>1 DEF StepOf, OthersKept
  <2>8. /\ role'[n] = "follower"
        /\ leader_ready'[n] = FALSE \/ (role[n] = "follower" /\ leader_ready'[n] = leader_ready[n])
    BY <1>1, <1>2, <1>7, AdoptLeaderOffice DEF Follows
  <2>9. disk' = disk /\ last_applied' = last_applied /\ GhostsKept
    BY <1>2 DEF GhostsKept, ghost_vars
  <2>10. Accepts(n, m, k)
    BY <1>4, <1>5, <2>2, <2>5, <2>6, <2>8, <2>9 DEF Accepts
  <2> QED
    BY <2>7, <2>10, SMT
<1> QED
  BY <1>3, <1>6, <1>7

LEMMA ClientRequestStep ==
  ASSUME TypeOK, NEW n \in Node, NEW command \in Command, on_client_request(n, command)
  PROVE  StepOf(n) /\ \E e : Appends(n, e)
<1> DEFINE e == [term |-> current_term[n], command |-> command]
<1>1. /\ Idle(n) /\ role[n] = "leader"
      /\ log' = [log EXCEPT ![n] = Append(@, e)]
      /\ \E batch : begin_persist(n, batch, Resume("on_client_request"))
      /\ UNCHANGED <<hard_vars, commit_index, last_applied, durable_last_log_index,
                     role_vars, peer_vars, ghost_vars, disk, msgs>>
  BY DEF on_client_request
<1>2. e \in Entry /\ e.term = current_term[n]
  BY VariableTypes, SMT DEF Entry
<1> HIDE DEF e
<1>3. Resume("on_client_request").message = Nil
  BY SMT DEF Resume
<1>4. /\ Waiting(n)' = Nil
      /\ \A q \in Node \ {n} : pending_storage'[q] = pending_storage[q]
  BY <1>1, <1>3, ResumeSilent
<1>5. log'[n] = Append(log[n], e) /\ \A q \in Node \ {n} : log'[q] = log[q]
  BY <1>1, VariableTypes
<1>6. StepOf(n)
  BY <1>1, <1>4, <1>5 DEF StepOf, OthersKept, hard_vars, role_vars, peer_vars, ghost_vars
<1>7. SameOffice(n) /\ GhostsKept /\ Silent(n)
  BY <1>1, <1>4 DEF SameOffice, GhostsKept, Silent, hard_vars, role_vars, peer_vars,
                           ghost_vars
<1>8. can_append(n)
  <2>1. MaxUncommitted - uncommitted_entry_count(n) > 1
    BY DEF on_client_request, can_append_client
  <2>2. uncommitted_entry_count(n) \in Int
    BY VariableTypes, SMT DEF uncommitted_entry_count
  <2> QED
    BY <2>1, <2>2, BoundAssumption, SMT DEF can_append
<1>9. Appends(n, e)
  BY <1>1, <1>2, <1>5, <1>7, <1>8 DEF Appends
<1> QED
  BY <1>6, <1>9

\* What the medium of the other nodes shows of a failure of n.
LEMMA StorageFailureStep ==
  ASSUME TypeOK, LocalInv, NEW n \in Node, on_storage_failure(n)
  PROVE  StepOf(n) /\ Stops(n)
<1>1. /\ pending_storage[n] # Nil /\ fail_storage(n)
      /\ disk' \in {disk, [disk EXCEPT ![n] = ApplyBatch(@, pending_storage[n].batch)]}
      /\ UNCHANGED <<hard_vars, log_vars, readiness_index, msgs, ghost_vars>>
  BY DEF on_storage_failure
<1>2. /\ role'[n] = "unavailable" /\ pending_storage'[n] = Nil /\ leader_ready'[n] = FALSE
      /\ \A q \in Node \ {n} : /\ role'[q] = role[q] /\ leader_ready'[q] = leader_ready[q]
                               /\ pending_storage'[q] = pending_storage[q]
                               /\ peers'[q] = peers[q]
  BY <1>1, VariableTypes DEF fail_storage
<1>3. \A q \in Node \ {n} : disk'[q] = disk[q]
  BY <1>1, MediumType
<1>4. StepOf(n)
  BY <1>1, <1>2, <1>3 DEF StepOf, OthersKept, hard_vars, log_vars, ghost_vars
<1>5. ~Live(n)'
  BY <1>2, SMT DEF Live, LiveRole
<1>6. Stops(n)
  BY <1>1, <1>2, <1>5 DEF Stops, GhostsKept, ghost_vars
<1> QED
  BY <1>4, <1>6, SMT

LEMMA CrashStep ==
  ASSUME TypeOK, LocalInv, NEW n \in Node, crash(n)
  PROVE  StepOf(n) /\ Stops(n)
<1>1. /\ disk' \in IF pending_storage[n] = Nil THEN {disk}
                   ELSE {disk, [disk EXCEPT ![n] = ApplyBatch(@, pending_storage[n].batch)]}
      /\ UNCHANGED <<msgs, ghost_vars>>
  BY DEF crash
<1>2. \A q \in Node \ {n} : disk'[q] = disk[q]
  <2>1. CASE pending_storage[n] = Nil
    BY <1>1, <2>1
  <2>2. CASE pending_storage[n] # Nil
    BY <1>1, <2>2, MediumType
  <2> QED
    BY <2>1, <2>2, SMT
<1>3. /\ role'[n] = "down" /\ pending_storage'[n] = Nil /\ leader_ready'[n] = FALSE
      /\ \A q \in Node \ {n} : /\ role'[q] = role[q] /\ leader_ready'[q] = leader_ready[q]
                               /\ pending_storage'[q] = pending_storage[q]
                               /\ peers'[q] = peers[q]
                               /\ readiness_index'[q] = readiness_index[q]
  <2>1. /\ role' = [role EXCEPT ![n] = "down"]
        /\ pending_storage' = [pending_storage EXCEPT ![n] = Nil]
        /\ leader_ready' = [leader_ready EXCEPT ![n] = FALSE]
        /\ peers' = [peers EXCEPT ![n] = NoPeers]
        /\ readiness_index' = [readiness_index EXCEPT ![n] = 0]
    BY DEF crash
  <2> QED
    BY <2>1, VariableTypes
<1>4. \A q \in Node \ {n} :
        /\ current_term'[q] = current_term[q] /\ voted_for'[q] = voted_for[q]
        /\ log'[q] = log[q] /\ commit_index'[q] = commit_index[q]
        /\ last_applied'[q] = last_applied[q]
        /\ durable_last_log_index'[q] = durable_last_log_index[q]
  <2>1. /\ current_term' = [current_term EXCEPT ![n] = 0]
        /\ voted_for' = [voted_for EXCEPT ![n] = Nil]
        /\ log' = [log EXCEPT ![n] = << >>]
        /\ commit_index' = [commit_index EXCEPT ![n] = 0]
        /\ last_applied' = [last_applied EXCEPT ![n] = 0]
        /\ durable_last_log_index' = [durable_last_log_index EXCEPT ![n] = 0]
    BY DEF crash
  <2> QED
    BY <2>1, VariableTypes
<1>5. StepOf(n)
  BY <1>1, <1>2, <1>3, <1>4 DEF StepOf, OthersKept, ghost_vars
<1>6. ~Live(n)'
  BY <1>3, SMT DEF Live, LiveRole
<1>7. Stops(n)
  BY <1>1, <1>3, <1>6 DEF Stops, GhostsKept, ghost_vars
<1> QED
  BY <1>5, <1>7, SMT

LEMMA RestartStep ==
  ASSUME TypeOK, LocalInv, NEW n \in Node, restart(n)
  PROVE  StepOf(n) /\ Restarts(n)
<1>1. /\ role[n] = "down"
      /\ role' = [role EXCEPT ![n] = "follower"]
      /\ current_term' = [current_term EXCEPT ![n] = disk[n].term]
      /\ voted_for' = [voted_for EXCEPT ![n] = disk[n].vote]
      /\ log' = [log EXCEPT ![n] = disk[n].log]
      /\ commit_index' = [commit_index EXCEPT ![n] = disk[n].commit]
      /\ last_applied' = [last_applied EXCEPT ![n] = disk[n].commit]
      /\ durable_last_log_index' = [durable_last_log_index EXCEPT ![n] = Len(disk[n].log)]
      /\ UNCHANGED <<leader_ready, readiness_index, peers, ghost_vars, pending_storage, disk, msgs>>
  BY DEF restart, peer_vars
<1>2. ~Live(n)
  BY <1>1, SMT DEF Live, LiveRole
<1>3. pending_storage[n] = Nil
  BY <1>2 DEF LocalInv, ShapeInv
<1>4. /\ role'[n] = "follower" /\ current_term'[n] = disk[n].term /\ log'[n] = disk[n].log
      /\ commit_index'[n] = disk[n].commit
  BY <1>1, VariableTypes
<1>5. \A q \in Node \ {n} :
        /\ role'[q] = role[q] /\ current_term'[q] = current_term[q]
        /\ voted_for'[q] = voted_for[q] /\ log'[q] = log[q]
        /\ commit_index'[q] = commit_index[q] /\ last_applied'[q] = last_applied[q]
        /\ durable_last_log_index'[q] = durable_last_log_index[q]
  BY <1>1, VariableTypes
<1>6. StepOf(n)
  BY <1>1, <1>5 DEF StepOf, OthersKept, ghost_vars
<1>7. Restarts(n)
  BY <1>1, <1>2, <1>3, <1>4 DEF Restarts, GhostsKept, Silent, ghost_vars
<1> QED
  BY <1>6, <1>7, SMT

\* What send_appends sends, and what it records.
LEMMA SendStep ==
  ASSUME TypeOK, NEW n \in Node, NEW S \in SUBSET Node, NEW progress \in [Node -> PeerProgress],
         send_appends(n, S, progress, Len(log[n]))
  PROVE  /\ Sent(n, progress)
         /\ msgs \subseteq msgs'
         /\ \A q \in Node \ {n} : peers'[q] = peers[q]
<1> DEFINE last == Len(log[n])
           rpc(p) == AppendEntriesTo(n, p, progress[p], last)
           targets == {p \in S \ {n} : progress[p].inflight = Nil}
           after == [p \in Node |-> IF p \in targets THEN SentProgress(n, p, progress[p], last)
                                    ELSE progress[p]]
<1>1. /\ peers' = [peers EXCEPT ![n] = after]
      /\ msgs' = msgs \cup {rpc(p) : p \in targets}
  BY DEF send_appends
<1>2. peers'[n] = after /\ \A q \in Node \ {n} : peers'[q] = peers[q]
  <2> HIDE DEF after
  <2> QED
    BY <1>1, VariableTypes
<1>3. \A p \in Node \ {n} :
        \/ peers'[n][p] = progress[p]
        \/ peers'[n][p] = SentProgress(n, p, progress[p], last) /\ rpc(p) \in msgs'
  <2> SUFFICES ASSUME NEW p \in Node \ {n}
               PROVE  \/ peers'[n][p] = progress[p]
                      \/ peers'[n][p] = SentProgress(n, p, progress[p], last) /\ rpc(p) \in msgs'
    BY SMT
  <2>1. peers'[n][p] = IF p \in targets THEN SentProgress(n, p, progress[p], last)
                       ELSE progress[p]
    BY <1>2
  <2>2. p \in targets => rpc(p) \in msgs'
    BY <1>1
  <2> HIDE DEF targets, rpc
  <2> QED
    BY <2>1, <2>2
<1>4. \A m \in msgs' : m \in msgs \/ \E p \in Node \ {n} : m = rpc(p)
  <2>1. targets \subseteq Node \ {n}
    BY SMT
  <2> HIDE DEF targets, rpc
  <2> QED
    BY <1>1, <2>1
<1> QED
  BY <1>1, <1>2, <1>3, <1>4 DEF Sent

\* A commit index that moves, or does not.
LEMMA CommitStep ==
  ASSUME TypeOK, NEW n \in Node, NEW progress, maybe_advance_commit(n, progress, Len(log[n]))
  PROVE  /\ Commits(n, progress)
         /\ pending_storage'[n] = Nil \/ Waiting(n)' = Nil
         /\ \A q \in Node \ {n} : /\ pending_storage'[q] = pending_storage[q]
                                  /\ commit_index'[q] = commit_index[q]
<1> DEFINE last == Len(log[n])
           more(target) == [i \in 1..max(0, target - Len(committed)) |->
                              [entry |-> log[n][Len(committed) + i], term |-> current_term[n]]]
<1>1. CASE cannot_advance_commit(n, progress, last)
  <2>1. /\ pending_storage' = [pending_storage EXCEPT ![n] = Nil]
        /\ UNCHANGED <<commit_index, committed>>
    BY <1>1 DEF maybe_advance_commit
  <2>2. pending_storage'[n] = Nil /\ \A q \in Node \ {n} : pending_storage'[q] = pending_storage[q]
    BY <2>1, VariableTypes
  <2> QED
    BY <2>1, <2>2 DEF Commits
<1>2. CASE ~cannot_advance_commit(n, progress, last)
  <2>1. PICK target \in (commit_index[n] + 1)..last :
          /\ Committable(n, progress, last, target)
          /\ commit_index' = [commit_index EXCEPT ![n] = target]
          /\ begin_persist(n, [EmptyBatch EXCEPT !.commit_index = target],
                           Resume("maybe_advance_commit"))
          /\ committed' = committed \o more(target)
    BY <1>2 DEF maybe_advance_commit
  <2>2. commit_index'[n] = target /\ \A q \in Node \ {n} : commit_index'[q] = commit_index[q]
    BY <2>1, VariableTypes
  <2>3. Resume("maybe_advance_commit").message = Nil
    BY SMT DEF Resume
  <2>4. /\ Waiting(n)' = Nil
        /\ \A q \in Node \ {n} : pending_storage'[q] = pending_storage[q]
    BY <2>1, <2>3, ResumeSilent
  <2>5. Commits(n, progress)
    BY <2>1, <2>2 DEF Commits
  <2> QED
    BY <2>2, <2>4, <2>5
<1> QED
  BY <1>1, <1>2, SMT

\* With nothing heard, what a leader counts stays.
LEMMA HeardNothing ==
  ASSUME NEW n \in Node, NEW progress,
         \A p \in Node : /\ progress[p].match_index = peers[n][p].match_index
                         /\ progress[p].inflight \in {Nil, peers[n][p].inflight}
  PROVE  Heard(n, progress)
  BY DEF Heard

LEMMA HeartbeatStep ==
  ASSUME TypeOK, LocalInv, NEW n \in Node, on_heartbeat_timer(n)
  PROVE  StepOf(n) /\ Leads(n)
<1> DEFINE progress == [p \in Node |-> AgedProgress(peers[n][p])]
<1>1. /\ Idle(n) /\ role[n] = "leader"
      /\ send_appends(n, Node, progress, durable_last_log_index[n])
      /\ UNCHANGED <<hard_vars, log_vars, role_vars, ghost_vars, pending_storage, disk>>
  BY DEF on_heartbeat_timer
<1>2. /\ durable_last_log_index[n] = Len(log[n]) /\ disk[n].log = log[n]
      /\ disk[n].term = current_term[n]
  BY <1>1, IdleNode DEF IdleInv
<1>3. peers[n] \in [Node -> PeerProgress]
  BY VariableTypes
<1>4. ASSUME NEW p \in Node
      PROVE  /\ AgedProgress(peers[n][p]) \in PeerProgress
             /\ AgedProgress(peers[n][p]).match_index = peers[n][p].match_index
             /\ AgedProgress(peers[n][p]).inflight \in {Nil, peers[n][p].inflight}
  <2> DEFINE old == peers[n][p]
  <2>1. old \in PeerProgress
    BY <1>3, <1>4, SMT
  <2>2. /\ old.age + 1 \in Nat
        /\ old.next_index \in Nat /\ old.match_index \in Nat
        /\ old.inflight \in InflightAppend \cup {Nil}
    BY <2>1, SMT DEF PeerProgress
  <2> HIDE DEF old
  <2>3. /\ [old EXCEPT !.inflight = Nil, !.age = 0] \in PeerProgress
        /\ [old EXCEPT !.age = @ + 1] \in PeerProgress
    BY <2>1, <2>2 DEF PeerProgress
  <2>4. /\ [old EXCEPT !.inflight = Nil, !.age = 0].match_index = old.match_index
        /\ [old EXCEPT !.inflight = Nil, !.age = 0].inflight = Nil
        /\ [old EXCEPT !.age = @ + 1].match_index = old.match_index
        /\ [old EXCEPT !.age = @ + 1].inflight = old.inflight
    BY <2>1 DEF PeerProgress
  <2>5. /\ AgedProgress(old) \in PeerProgress
        /\ AgedProgress(old).match_index = old.match_index
        /\ AgedProgress(old).inflight \in {Nil, old.inflight}
    BY <2>1, <2>3, <2>4 DEF AgedProgress
  <2> QED
    BY <2>5 DEF old
<1>5. /\ progress \in [Node -> PeerProgress]
      /\ \A p \in Node : /\ progress[p].match_index = peers[n][p].match_index
                         /\ progress[p].inflight \in {Nil, peers[n][p].inflight}
  BY <1>4
<1> HIDE DEF progress
<1>6. /\ Sent(n, progress) /\ msgs \subseteq msgs'
      /\ \A q \in Node \ {n} : peers'[q] = peers[q]
  <2>1. send_appends(n, Node, progress, Len(log[n])) /\ Node \in SUBSET Node
    BY <1>1, <1>2, SMT
  <2> QED
    BY <1>5, <2>1, SendStep
<1>7. Heard(n, progress) /\ Commits(n, progress)
  BY <1>1, <1>5, HeardNothing DEF Commits, log_vars, ghost_vars
<1>8. StepOf(n)
  BY <1>1, <1>6 DEF StepOf, OthersKept, hard_vars, log_vars, role_vars, ghost_vars
<1>9. last_applied'[n] >= last_applied[n]
  BY <1>1, VariableTypes, SMT DEF log_vars
<1>10. Leads(n)
  <2>1. /\ role' = role /\ current_term' = current_term /\ log' = log /\ disk' = disk
        /\ elected' = elected /\ readiness_index' = readiness_index
        /\ leader_ready' = leader_ready /\ pending_storage'[n] = Nil
    BY <1>1 DEF hard_vars, log_vars, role_vars, ghost_vars, Idle
  <2> QED
    BY <1>1, <1>2, <1>5, <1>6, <1>7, <1>9, <2>1 DEF Leads
<1> QED
  BY <1>8, <1>10, SMT

LEMMA AppendSuccessStep ==
  ASSUME TypeOK, LocalInv, NEW n \in Node, NEW m \in msgs, m.type = "AppendEntriesResponse",
         Idle(n), role[n] = "leader", m.term = current_term[n], m.success = TRUE,
         peers[n][m.from].inflight # Nil, on_append_success(n, m.from, m),
         UNCHANGED <<hard_vars, log, last_applied, durable_last_log_index, role_vars,
                     elected, disk>>
  PROVE  StepOf(n) /\ Leads(n)
<1> DEFINE p == m.from
           old == peers[n][p]
           sent == old.inflight
           idle == [old EXCEPT !.inflight = Nil, !.age = 0]
           match == max(idle.match_index, sent.last_index)
           confirmed == m.match_index >= sent.last_index
           fresh == [idle EXCEPT !.match_index = match, !.next_index = match + 1]
           new == IF confirmed THEN fresh ELSE idle
           progress == [peers[n] EXCEPT ![p] = new]
           last == durable_last_log_index[n]
           lacks == confirmed /\ cannot_advance_commit(n, progress, last) /\ match < last
           S == IF lacks THEN {p} ELSE {}
<1>1. /\ IF confirmed THEN maybe_advance_commit(n, progress, last)
         ELSE UNCHANGED <<commit_index, committed, pending_storage>>
      /\ send_appends(n, S, progress, last)
  BY DEF on_append_success
<1>2. /\ p \in Node /\ peers[n] \in [Node -> PeerProgress] /\ old \in PeerProgress
  BY MessageType, VariableTypes
<1>3. old.match_index \in Nat /\ sent \in InflightAppend
  BY <1>2 DEF PeerProgress
<1>4. idle \in PeerProgress /\ idle.match_index = old.match_index /\ idle.inflight = Nil
  BY <1>2 DEF PeerProgress
<1>5. match \in Nat
  <2>1. sent.last_index \in Nat
    BY <1>3 DEF InflightAppend
  <2> HIDE DEF sent, idle, old
  <2> QED
    BY <1>3, <1>4, <2>1, SMT DEF max
<1>6. /\ fresh \in PeerProgress /\ fresh.match_index = max(old.match_index, sent.last_index)
      /\ fresh.inflight = Nil
  <2>1. match = max(old.match_index, sent.last_index)
    BY <1>4
  <2>2. match + 1 \in Nat
    BY <1>5, SMT
  <2> HIDE DEF idle, match
  <2>3. fresh \in PeerProgress /\ fresh.match_index = match /\ fresh.inflight = Nil
    BY <1>4, <1>5, <2>2 DEF PeerProgress
  <2> QED
    BY <2>1, <2>3
<1>7. /\ new \in PeerProgress /\ new.inflight = Nil
      /\ \/ new.match_index = old.match_index
         \/ m.match_index >= sent.last_index /\ new.match_index = max(old.match_index, sent.last_index)
  <2> HIDE DEF fresh, idle
  <2> QED
    BY <1>4, <1>6
<1> HIDE DEF new
<1>8. /\ progress \in [Node -> PeerProgress] /\ progress[p] = new
      /\ \A r \in Node \ {p} : progress[r] = peers[n][r]
  BY <1>2, <1>7, SMT
<1>9. S \in SUBSET Node
  BY <1>2
<1> HIDE DEF progress, S
<1>10. Heard(n, progress)
  <2>1. ASSUME NEW r \in Node, r # p
        PROVE  /\ progress[r].inflight \in {Nil, peers[n][r].inflight}
               /\ progress[r].match_index = peers[n][r].match_index
    BY <1>8, <2>1
  <2>2. /\ progress[p].inflight \in {Nil, old.inflight}
        /\ \/ progress[p].match_index = old.match_index
           \/ \E a \in msgs :
               /\ a.type = "AppendEntriesResponse" /\ a.success = TRUE
               /\ a.from = p /\ a.term = current_term[n]
               /\ old.inflight # Nil /\ a.match_index >= old.inflight.last_index
               /\ progress[p].match_index = max(old.match_index, old.inflight.last_index)
    BY <1>7, <1>8
  <2> HIDE DEF p
  <2> QED
    BY <2>1, <2>2 DEF Heard
<1>11. /\ last = Len(log[n]) /\ disk[n].log = log[n] /\ disk[n].term = current_term[n]
  BY IdleNode DEF IdleInv
<1>12. /\ Sent(n, progress) /\ msgs \subseteq msgs'
       /\ \A q \in Node \ {n} : peers'[q] = peers[q]
  BY <1>1, <1>8, <1>9, <1>11, SendStep
<1>13. /\ Commits(n, progress)
       /\ pending_storage'[n] = Nil \/ Waiting(n)' = Nil
       /\ \A q \in Node \ {n} : /\ pending_storage'[q] = pending_storage[q]
                                /\ commit_index'[q] = commit_index[q]
  <2>1. CASE confirmed
    BY <1>1, <1>11, <2>1, CommitStep
  <2>2. CASE ~confirmed
    BY <1>1, <2>2 DEF Commits, Idle
  <2> QED
    BY <2>1, <2>2
<1>14. StepOf(n)
  BY <1>12, <1>13 DEF StepOf, OthersKept, hard_vars, role_vars
<1>15. last_applied'[n] >= last_applied[n]
  BY VariableTypes, SMT
<1>16. Leads(n)
  <2>1. /\ role' = role /\ current_term' = current_term
        /\ readiness_index' = readiness_index /\ leader_ready' = leader_ready
    BY DEF hard_vars, role_vars
  <2> QED
    BY <1>8, <1>10, <1>11, <1>12, <1>13, <1>15, <2>1 DEF Leads
<1> QED
  BY <1>14, <1>16, SMT

LEMMA AppendFailureStep ==
  ASSUME TypeOK, LocalInv, NEW n \in Node, NEW m \in msgs, Idle(n), role[n] = "leader",
         m.conflict_index \in Nat, on_append_failure(n, m.from, m),
         UNCHANGED <<hard_vars, log, last_applied, durable_last_log_index, role_vars,
                     elected, disk>>
  PROVE  StepOf(n) /\ Leads(n)
<1> DEFINE p == m.from
           old == peers[n][p]
           last == durable_last_log_index[n]
           hinted(i) == IF m.conflict_term # 0 /\ i > 0 THEN i + 1 ELSE m.conflict_index
           back(i) == IF hinted(i) = 0 THEN max(1, old.next_index - 1) ELSE hinted(i)
           next(i) == max(min(back(i), last + 1), old.match_index + 1)
           fresh(i) == [old EXCEPT !.next_index = next(i), !.inflight = Nil, !.age = 0]
<1>1. PICK i \in 0..Len(log[n]) : send_appends(n, {p}, [peers[n] EXCEPT ![p] = fresh(i)], last)
  BY DEF on_append_failure
<1>2. UNCHANGED <<commit_index, committed, pending_storage>>
  BY SMT DEF on_append_failure
<1>3. /\ p \in Node /\ peers[n] \in [Node -> PeerProgress] /\ old \in PeerProgress
      /\ last \in Nat /\ Len(log[n]) \in Nat
  <2>1. p \in Node
    BY MessageType
  <2>2. /\ peers[n] \in [Node -> PeerProgress] /\ last \in Nat /\ log[n] \in Seq(Entry)
    BY VariableTypes
  <2>3. Len(log[n]) \in Nat
    BY <2>2, SMT
  <2> QED
    BY <2>1, <2>2, <2>3
<1>4. old.next_index \in Nat /\ old.match_index \in Nat
  BY <1>3 DEF PeerProgress
<1>5. next(i) \in Nat
  <2>1. i \in Nat
    BY <1>3, SMT
  <2>2. hinted(i) \in Nat
    <3>1. i + 1 \in Nat
      BY <2>1, SMT
    <3> QED
      BY <3>1
  <2> HIDE DEF old, last, hinted
  <2> QED
    BY <1>3, <1>4, <2>2, BackedOffType
<1> HIDE DEF next
<1>6. /\ fresh(i) \in PeerProgress /\ fresh(i).match_index = old.match_index
      /\ fresh(i).inflight = Nil
  <2> HIDE DEF old
  <2> QED
    BY <1>3, <1>5 DEF PeerProgress
<1> DEFINE progress == [peers[n] EXCEPT ![p] = fresh(i)]
<1> HIDE DEF fresh
<1>7. /\ progress \in [Node -> PeerProgress] /\ progress[p] = fresh(i)
      /\ \A r \in Node \ {p} : progress[r] = peers[n][r]
  BY <1>3, <1>6, SMT
<1>8. send_appends(n, {p}, progress, last)
  BY <1>1, SMT
<1> HIDE DEF progress
<1>9. Heard(n, progress)
  <2>1. \A r \in Node : /\ progress[r].match_index = peers[n][r].match_index
                        /\ progress[r].inflight \in {Nil, peers[n][r].inflight}
    BY <1>6, <1>7
  <2> QED
    BY <2>1, HeardNothing
<1>10. /\ last = Len(log[n]) /\ disk[n].log = log[n] /\ disk[n].term = current_term[n]
  BY IdleNode DEF IdleInv
<1>11. /\ Sent(n, progress) /\ msgs \subseteq msgs'
       /\ \A q \in Node \ {n} : peers'[q] = peers[q]
  <2>1. {p} \in SUBSET Node
    BY <1>3, SMT
  <2> QED
    BY <1>7, <1>8, <1>10, <2>1, SendStep
<1>12. Commits(n, progress) /\ pending_storage'[n] = Nil
  BY <1>2 DEF Commits, Idle
<1>13. StepOf(n)
  BY <1>2, <1>11 DEF StepOf, OthersKept, hard_vars, role_vars
<1>14. last_applied'[n] >= last_applied[n]
  BY VariableTypes, SMT
<1>15. Leads(n)
  <2>1. /\ role' = role /\ current_term' = current_term
        /\ readiness_index' = readiness_index /\ leader_ready' = leader_ready
    BY DEF hard_vars, role_vars
  <2> QED
    BY <1>7, <1>9, <1>10, <1>11, <1>12, <1>14, <2>1 DEF Leads
<1> QED
  BY <1>13, <1>15, SMT

\* What a completed batch leaves on the medium, and what it does not touch.
LEMMA CompletionStep ==
  ASSUME TypeOK, LocalInv, NEW n \in Node, Live(n), pending_storage[n] # Nil, Durable(n)
  PROVE  /\ disk'[n].log = log[n] /\ disk'[n].term = current_term[n]
         /\ \A q \in Node \ {n} : /\ disk'[q] = disk[q]
                                  /\ durable_last_log_index'[q] = durable_last_log_index[q]
         /\ pending_storage' = [pending_storage EXCEPT ![n] = Nil] =>
              /\ pending_storage'[n] = Nil
              /\ \A q \in Node \ {n} : pending_storage'[q] = pending_storage[q]
<1>1. /\ disk'[n].log = log[n] /\ disk'[n].term = current_term[n]
      /\ \A q \in Node \ {n} : /\ disk'[q] = disk[q]
                               /\ durable_last_log_index'[q] = durable_last_log_index[q]
  BY DurableIsMemory DEF IdleInv
<1>2. pending_storage' = [pending_storage EXCEPT ![n] = Nil] =>
        /\ pending_storage'[n] = Nil
        /\ \A q \in Node \ {n} : pending_storage'[q] = pending_storage[q]
  BY VariableTypes
<1> QED
  BY <1>1, <1>2, SMT

\* A batch without entries leaves the log as it is on the medium.
LEMMA NoEntriesDurable ==
  ASSUME TypeOK, LocalInv, NEW n \in Node, Live(n), pending_storage[n] # Nil,
         Kind(n) \in {"begin_election", "maybe_advance_commit"}
  PROVE  durable_last_log_index[n] = Len(log[n])
<1>1. NodeInv(n) /\ ShapeInv(n)
  BY DEF LocalInv
<1>2. /\ Kind(n) # "reply"
  BY SMT
<1>3. log[n] = disk[n].log \o << >> /\ durable_last_log_index[n] = Len(disk[n].log)
  BY <1>1, <1>2 DEF NodeInv, BatchInv, ShapeInv
<1>4. disk[n] \in DiskState
  BY VariableTypes, SMT
<1>5. disk[n].log \in Seq(Entry)
  BY <1>4, SMT DEF DiskState
<1>6. log[n] = disk[n].log
  BY <1>3, <1>5, SMT
<1> QED
  BY <1>3, <1>6

LEMMA CompleteReplyStep ==
  ASSUME TypeOK, LocalInv, NEW n \in Node, complete_reply(n)
  PROVE  StepOf(n) /\ Completes(n)
<1>1. /\ Live(n) /\ pending_storage[n] # Nil /\ Durable(n)
      /\ pending_storage' = [pending_storage EXCEPT ![n] = Nil]
      /\ run_reply(n, pending_storage[n].after_success)
      /\ UNCHANGED <<hard_vars, log, commit_index, role_vars, peer_vars, ghost_vars>>
  BY DEF complete_reply, Resumes, Live
<1>2. /\ last_applied'[n] = commit_index[n]
      /\ \A q \in Node \ {n} : last_applied'[q] = last_applied[q]
  <2>1. CASE pending_storage[n].batch.commit_index # 0
    BY <1>1, <2>1, AppliedIsCommitted DEF complete_reply
  <2>2. CASE pending_storage[n].batch.commit_index = 0
    <3>1. UNCHANGED <<last_applied, pending_clients>>
      BY <2>2 DEF complete_reply
    <3> QED
      BY <1>1, <2>2, <3>1, AppliedIsCommitted
  <2> QED
    BY <2>1, <2>2
<1>3. last_applied'[n] >= last_applied[n]
  <2>1. NodeInv(n)
    BY <1>1 DEF LocalInv
  <2>2. last_applied[n] = disk[n].commit /\ commit_index[n] >= disk[n].commit
    BY <1>1, <2>1 DEF NodeInv, BatchInv
  <2> QED
    BY <1>2, <2>2
<1>4. /\ disk'[n].log = log[n] /\ disk'[n].term = current_term[n]
      /\ \A q \in Node \ {n} : /\ disk'[q] = disk[q]
                               /\ durable_last_log_index'[q] = durable_last_log_index[q]
      /\ pending_storage'[n] = Nil
      /\ \A q \in Node \ {n} : pending_storage'[q] = pending_storage[q]
  BY <1>1, CompletionStep
<1>5. msgs' = msgs \/ (Waiting(n) # Nil /\ msgs' = msgs \cup {Waiting(n)})
  BY <1>1 DEF run_reply, Waiting
<1>6. StepOf(n)
  BY <1>1, <1>2, <1>4, <1>5
  DEF StepOf, OthersKept, hard_vars, role_vars, peer_vars, ghost_vars
<1>7. Completes(n)
  BY <1>1, <1>3, <1>4, <1>5
  DEF Completes, SameOffice, GhostsKept, hard_vars, role_vars, peer_vars, ghost_vars
<1> QED
  BY <1>6, <1>7, SMT

LEMMA CompleteElectionStep ==
  ASSUME TypeOK, LocalInv, NEW n \in Node, complete_election(n)
  PROVE  StepOf(n) /\ Completes(n)
<1>1. /\ Live(n) /\ pending_storage[n] # Nil /\ Durable(n) /\ Kind(n) = "begin_election"
      /\ pending_storage' = [pending_storage EXCEPT ![n] = Nil]
      /\ msgs' = msgs \cup {VoteRequest(n, p) : p \in Node \ {n}}
      /\ UNCHANGED <<hard_vars, log, commit_index, last_applied, role_vars, peer_vars, ghost_vars>>
  BY DEF complete_election, Resumes, Live, Kind
<1>2. role[n] = "candidate"
  <2>1. ShapeInv(n)
    BY DEF LocalInv
  <2> QED
    BY <1>1, <2>1 DEF ShapeInv
<1>3. durable_last_log_index[n] = Len(log[n])
  BY <1>1, NoEntriesDurable, SMT
<1>4. /\ disk'[n].log = log[n] /\ disk'[n].term = current_term[n]
      /\ \A q \in Node \ {n} : /\ disk'[q] = disk[q]
                               /\ durable_last_log_index'[q] = durable_last_log_index[q]
      /\ pending_storage'[n] = Nil
      /\ \A q \in Node \ {n} : pending_storage'[q] = pending_storage[q]
  BY <1>1, CompletionStep
<1>5. last_applied'[n] >= last_applied[n]
  BY <1>1, VariableTypes, SMT
<1>6. StepOf(n)
  BY <1>1, <1>4 DEF StepOf, OthersKept, hard_vars, role_vars, peer_vars, ghost_vars
<1>7. Completes(n)
  BY <1>1, <1>2, <1>3, <1>4, <1>5
  DEF Completes, SameOffice, GhostsKept, hard_vars, role_vars, peer_vars, ghost_vars
<1> QED
  BY <1>6, <1>7, SMT

LEMMA CompleteAppendStep ==
  ASSUME TypeOK, LocalInv, NEW n \in Node, complete_append(n)
  PROVE  StepOf(n) /\ Leads(n)
<1>1. /\ Live(n) /\ pending_storage[n] # Nil /\ Durable(n)
      /\ Kind(n) \in {"become_leader", "on_client_request"}
      /\ send_appends(n, Node, peers[n], Len(log[n]))
      /\ maybe_advance_commit(n, peers[n], Len(log[n]))
      /\ UNCHANGED <<hard_vars, log, last_applied, role_vars, elected>>
  BY DEF complete_append, Resumes, Live, Kind
<1>2. role[n] = "leader"
  <2>1. ShapeInv(n)
    BY DEF LocalInv
  <2> QED
    BY <1>1, <2>1 DEF ShapeInv
<1>3. peers[n] \in [Node -> PeerProgress] /\ Node \in SUBSET Node
  BY VariableTypes
<1>4. /\ Sent(n, peers[n]) /\ msgs \subseteq msgs'
      /\ \A q \in Node \ {n} : peers'[q] = peers[q]
  BY <1>1, <1>3, SendStep
<1>5. /\ Commits(n, peers[n])
      /\ pending_storage'[n] = Nil \/ Waiting(n)' = Nil
      /\ \A q \in Node \ {n} : /\ pending_storage'[q] = pending_storage[q]
                               /\ commit_index'[q] = commit_index[q]
  BY <1>1, CommitStep
<1>6. /\ disk'[n].log = log[n] /\ disk'[n].term = current_term[n]
      /\ \A q \in Node \ {n} : /\ disk'[q] = disk[q]
                               /\ durable_last_log_index'[q] = durable_last_log_index[q]
  BY <1>1, CompletionStep
<1>7. Heard(n, peers[n])
  BY DEF Heard
<1>8. last_applied'[n] >= last_applied[n]
  BY <1>1, VariableTypes, SMT
<1>9. StepOf(n)
  BY <1>1, <1>4, <1>5, <1>6 DEF StepOf, OthersKept, hard_vars, role_vars
<1>10. Leads(n)
  <2>1. /\ role' = role /\ current_term' = current_term
        /\ readiness_index' = readiness_index /\ leader_ready' = leader_ready
    BY <1>1 DEF hard_vars, role_vars
  <2> QED
    BY <1>1, <1>2, <1>3, <1>4, <1>5, <1>6, <1>7, <1>8, <2>1 DEF Leads
<1> QED
  BY <1>9, <1>10, SMT

LEMMA CompleteCommitStep ==
  ASSUME TypeOK, LocalInv, NEW n \in Node, complete_commit(n)
  PROVE  StepOf(n) /\ Leads(n)
<1>1. /\ Live(n) /\ pending_storage[n] # Nil /\ Durable(n)
      /\ Kind(n) = "maybe_advance_commit"
      /\ apply_committed(n)
      /\ leader_ready' = IF readiness_index[n] # 0 /\ commit_index[n] >= readiness_index[n]
                         THEN [leader_ready EXCEPT ![n] = TRUE] ELSE leader_ready
      /\ send_appends(n, Node, peers[n], durable_last_log_index[n])
      /\ pending_storage' = [pending_storage EXCEPT ![n] = Nil]
      /\ UNCHANGED <<hard_vars, log, commit_index, role, readiness_index, ghost_vars>>
  BY DEF complete_commit, Resumes, Live, Kind
<1>2. role[n] = "leader"
  <2>1. ShapeInv(n)
    BY DEF LocalInv
  <2> QED
    BY <1>1, <2>1 DEF ShapeInv
<1>3. peers[n] \in [Node -> PeerProgress] /\ Node \in SUBSET Node
  BY VariableTypes
<1>4. durable_last_log_index[n] = Len(log[n])
  BY <1>1, NoEntriesDurable, SMT
<1>5. /\ Sent(n, peers[n]) /\ msgs \subseteq msgs'
      /\ \A q \in Node \ {n} : peers'[q] = peers[q]
  BY <1>1, <1>3, <1>4, SendStep
<1>6. Heard(n, peers[n]) /\ Commits(n, peers[n])
  BY <1>1 DEF Heard, Commits, ghost_vars
<1>7. /\ disk'[n].log = log[n] /\ disk'[n].term = current_term[n]
      /\ \A q \in Node \ {n} : /\ disk'[q] = disk[q]
                               /\ durable_last_log_index'[q] = durable_last_log_index[q]
      /\ pending_storage'[n] = Nil
      /\ \A q \in Node \ {n} : pending_storage'[q] = pending_storage[q]
  BY <1>1, CompletionStep
<1>8. /\ last_applied'[n] = commit_index[n]
      /\ \A q \in Node \ {n} : last_applied'[q] = last_applied[q]
  BY <1>1, AppliedIsCommitted
<1>9. last_applied'[n] >= last_applied[n]
  <2>1. NodeInv(n)
    BY <1>1 DEF LocalInv
  <2>2. last_applied[n] = disk[n].commit /\ commit_index[n] >= disk[n].commit
    BY <1>1, <2>1 DEF NodeInv, BatchInv
  <2> QED
    BY <1>8, <2>2
<1>10. /\ leader_ready'[n] = leader_ready[n] \/ last_applied'[n] >= readiness_index[n]
       /\ \A q \in Node \ {n} : leader_ready'[q] = leader_ready[q]
  BY <1>1, <1>8, VariableTypes
<1>11. StepOf(n)
  BY <1>1, <1>5, <1>7, <1>8, <1>10 DEF StepOf, OthersKept, hard_vars, ghost_vars
<1>12. Leads(n)
  <2>1. /\ role' = role /\ current_term' = current_term /\ elected' = elected
        /\ readiness_index' = readiness_index
    BY <1>1 DEF hard_vars, ghost_vars
  <2> QED
    BY <1>1, <1>2, <1>3, <1>5, <1>6, <1>7, <1>9, <1>10, <2>1 DEF Leads
<1> QED
  BY <1>11, <1>12, SMT

LEMMA MessageStep ==
  ASSUME TypeOK, LocalInv, NEW n \in Node, NEW m \in msgs, on_message(n, m)
  PROVE  StepOf(n) /\ StepKind(n)
<1>1. CASE on_request_vote(n, m)
  BY <1>1, StaleStep, VoteCurrentStep DEF on_request_vote, StepKind
<1>2. CASE on_request_vote_response(n, m)
  <2>1. CASE on_higher_term_response(n, m)
    BY <1>2, <2>1, HigherResponseStep DEF on_request_vote_response, StepKind
  <2>2. CASE receive_vote(n, m)
    BY <1>2, <2>2, CountStep, WinStep DEF on_request_vote_response, StepKind
  <2> QED
    BY <1>2, <2>1, <2>2 DEF on_request_vote_response
<1>3. CASE on_append_entries(n, m)
  BY <1>3, StaleStep, RejectStep, AcceptStep DEF on_append_entries, StepKind
<1>4. CASE on_append_entries_response(n, m)
  <2>1. /\ Idle(n) /\ m.type = "AppendEntriesResponse" /\ m.conflict_index \in Nat
        /\ m.success \in BOOLEAN
    <3>1. m \in AppendEntriesResponseMsg
      BY <1>4, MessageType DEF on_append_entries_response
    <3> QED
      BY <1>4, <3>1 DEF on_append_entries_response, AppendEntriesResponseMsg
  <2>2. CASE on_higher_term_response(n, m)
    BY <2>1, <2>2, HigherResponseStep DEF StepKind
  <2>3. CASE ~on_higher_term_response(n, m)
    <3>1. /\ role[n] = "leader" /\ m.term = current_term[n]
          /\ peers[n][m.from].inflight # Nil
          /\ IF m.success THEN on_append_success(n, m.from, m)
             ELSE on_append_failure(n, m.from, m)
          /\ UNCHANGED <<hard_vars, log, last_applied, durable_last_log_index, role_vars,
                         elected, disk>>
      BY <1>4, <2>3 DEF on_append_entries_response
    <3>2. CASE m.success
      <4>1. m.success = TRUE
        BY <2>1, <3>2, SMT
      <4> QED
        BY <2>1, <3>1, <3>2, <4>1, AppendSuccessStep DEF StepKind
    <3>3. CASE ~m.success
      BY <2>1, <3>1, <3>3, AppendFailureStep DEF StepKind
    <3> QED
      BY <3>2, <3>3, SMT
  <2> QED
    BY <2>2, <2>3
<1> QED
  BY <1>1, <1>2, <1>3, <1>4 DEF on_message

LEMMA NextStep ==
  ASSUME TypeOK, LocalInv, [Next]_vars
  PROVE  \/ UNCHANGED vars
         \/ \E n \in Node : StepOf(n) /\ StepKind(n)
<1>1. ASSUME NEW m \in msgs, on_message(m.to, m)
      PROVE  \E n \in Node : StepOf(n) /\ StepKind(n)
  <2>1. m.to \in Node
    BY MessageType
  <2> QED
    BY <1>1, <2>1, MessageStep
<1>2. ASSUME NEW n \in Node, on_storage_complete(n)
      PROVE  StepOf(n) /\ StepKind(n)
  BY <1>2, CompleteReplyStep, CompleteElectionStep, CompleteAppendStep, CompleteCommitStep,
     StorageFailureStep DEF on_storage_complete, StepKind
<1>3. ASSUME NEW n \in Node, NEW c \in Command, on_client_request(n, c)
      PROVE  StepOf(n) /\ StepKind(n)
  BY <1>3, ClientRequestStep DEF StepKind
<1>4. ASSUME NEW n \in Node,
             begin_election(n) \/ on_election_timer_leader(n) \/ on_heartbeat_timer(n)
      PROVE  StepOf(n) /\ StepKind(n)
  BY <1>4, CampaignStep, TimerLeaderStep, HeartbeatStep DEF StepKind
<1>5. ASSUME NEW n \in Node, crash(n) \/ restart(n)
      PROVE  StepOf(n) /\ StepKind(n)
  BY <1>5, CrashStep, RestartStep DEF StepKind
<1> QED
  BY <1>1, <1>2, <1>3, <1>4, <1>5 DEF Next

-----------------------------------------------------------------------------
(* The invariant on logs: what holds for every kind of step *)

LEMMA RootedGrows ==
  ASSUME NEW H \in History, NEW G \in History, Grows(H, G), NEW l \in Seq(Entry), Rooted(H, l)
  PROVE  Rooted(G, l)
<1> SUFFICES ASSUME NEW i \in 1..Len(l)
             PROVE  Agree(l, G[l[i].term], i)
  BY DEF Rooted
<1>1. i \in Nat /\ l[i].term \in Nat
  BY EntryType, SMT
<1>2. Agree(l, H[l[i].term], i)
  BY DEF Rooted
<1> QED
  BY <1>1, <1>2, AgreeGrows

\* A log that is a prefix of one leader's log.
LEMMA PrefixRooted ==
  ASSUME NEW H \in History, NEW t \in Nat, Rooted(H, H[t]), Within(H[t], t),
         NEW l \in Seq(Entry), Agree(l, H[t], Len(l))
  PROVE  Rooted(H, l) /\ Within(l, t)
<1>1. H[t] \in Seq(Entry) /\ Len(H[t]) \in Nat /\ Len(l) \in Nat /\ Len(l) <= Len(H[t])
  BY HistoryType, SMT DEF Agree
<1>2. ASSUME NEW i \in 1..Len(l)
      PROVE  Agree(l, H[l[i].term], i) /\ l[i].term <= t
  <2>1. i \in Nat /\ i \in 1..Len(H[t]) /\ l[i] = H[t][i] /\ l[i].term \in Nat
    BY <1>1, <1>2, EntryType, SMT DEF Agree
  <2>2. Agree(H[t], H[l[i].term], i) /\ l[i].term <= t
    BY <2>1 DEF Rooted, Within
  <2>3. Agree(l, H[t], i)
    BY <1>1, <2>1, AgreeDown, SMT
  <2>4. H[l[i].term] \in Seq(Entry)
    BY <2>1, HistoryType
  <2>5. Agree(l, H[l[i].term], i)
    BY <1>1, <2>1, <2>2, <2>3, <2>4, AgreeSymmetric, AgreeJoin, SMT
  <2> QED
    BY <2>2, <2>5
<1> QED
  BY <1>2 DEF Rooted, Within

\* A segment stays one when its leader appends.
LEMMA SegmentGrows ==
  ASSUME NEW H \in History, NEW G \in History, Grows(H, G), NEW m \in AppendEntriesMsg,
         Segment(H, m), elected \subseteq elected'
  PROVE  Segment(G, m)'
<1>1. /\ m.term \in Nat /\ m.prev_log_index \in Nat /\ m.entries \in Seq(Entry)
      /\ Len(m.entries) \in Nat
  BY SMT DEF AppendEntriesMsg
<1> DEFINE h == H[m.term]
           g == G[m.term]
<1>2. h \in Seq(Entry) /\ g \in Seq(Entry) /\ Len(h) \in Nat /\ Len(g) \in Nat
  BY <1>1, HistoryType
<1>3. Agree(g, h, Len(h))
  BY <1>1 DEF Grows
<1>4. Len(h) <= Len(g) /\ \A i \in 1..Len(h) : g[i] = h[i]
  BY <1>3 DEF Agree
<1>5. /\ <<m.term, m.from>> \in elected
      /\ m.prev_log_index + Len(m.entries) <= Len(h)
      /\ m.prev_log_term = term_at(h, m.prev_log_index)
      /\ \A i \in 1..Len(m.entries) : m.entries[i] = h[m.prev_log_index + i]
  BY DEF Segment
<1> HIDE DEF h, g
<1>6. term_at(g, m.prev_log_index) = term_at(h, m.prev_log_index)
  BY <1>1, <1>2, <1>4, <1>5, SMT DEF term_at
<1>7. \A i \in 1..Len(m.entries) : m.entries[i] = g[m.prev_log_index + i]
  <2>1. ASSUME NEW i \in 1..Len(m.entries)
        PROVE  m.entries[i] = g[m.prev_log_index + i]
    <3>1. m.prev_log_index + i \in 1..Len(h)
      BY <1>1, <1>2, <1>5, <2>1, SMT
    <3> QED
      BY <1>4, <1>5, <2>1, <3>1
  <2> QED
    BY <2>1
<1>8. m.prev_log_index + Len(m.entries) <= Len(g)
  BY <1>1, <1>2, <1>4, <1>5, SMT
<1> QED
  BY <1>5, <1>6, <1>7, <1>8 DEF Segment, g

\* A step after which leaders other than n have the logs they had.
NewHistory(H, G, n) ==
  /\ Grows(H, G)
  /\ \A t \in Nat : G[t] = H[t] \/ <<t, n>> \in elected'
  /\ \A e \in elected' : e \in elected \/ (e = <<current_term[n], n>> /\ Idle(n))

LEMMA OthersLog ==
  ASSUME NEW n \in Node, Step(n), NEW H \in History, LogInv(H),
         NEW G \in History, NewHistory(H, G, n), NEW q \in Node \ {n}
  PROVE  MemoryInv(G, q)' /\ ResponseInv(q)'
<1>1. /\ role'[q] = role[q] /\ current_term'[q] = current_term[q] /\ log'[q] = log[q]
      /\ pending_storage'[q] = pending_storage[q]
      /\ elected \subseteq elected'
  BY DEF Step, StepOf, OthersKept
<1>2. MemoryInv(H, q) /\ ResponseInv(q)
  BY DEF LogInv
<1>3. log[q] \in Seq(Entry) /\ current_term[q] \in Nat
  BY StateType DEF Step, Sound
<1>4. Live(q) => Rooted(G, log[q])
  BY <1>2, <1>3, RootedGrows DEF MemoryInv, NewHistory
<1>5. role[q] = "leader" => log[q] = G[current_term[q]]
  <2> SUFFICES ASSUME role[q] = "leader"
               PROVE  log[q] = G[current_term[q]]
    OBVIOUS
  <2>1. <<current_term[q], q>> \in elected'
    BY <1>1, <1>2 DEF MemoryInv
  <2>2. ElectionSafety'
    BY DEF Step, Sound
  <2>3. <<current_term[q], n>> \notin elected'
    <3> SUFFICES ASSUME <<current_term[q], n>> \in elected'
                 PROVE  FALSE
      OBVIOUS
    <3>1. <<current_term[q], n>>[1] = <<current_term[q], q>>[1]
      OBVIOUS
    <3>2. <<current_term[q], n>> = <<current_term[q], q>>
      BY <2>1, <2>2, <3>1 DEF ElectionSafety
    <3> QED
      BY <3>2
  <2> QED
    BY <1>2, <1>3, <2>3 DEF MemoryInv, NewHistory
<1>6. role[q] = "candidate" => <<current_term[q], q>> \notin elected'
  <2> DEFINE own == <<current_term[q], q>>
             won == <<current_term[n], n>>
  <2>1. own # won
    OBVIOUS
  <2>2. role[q] = "candidate" => own \notin elected
    BY <1>2 DEF MemoryInv
  <2>3. \A e \in elected' : e \in elected \/ e = won
    BY DEF NewHistory
  <2> HIDE DEF own, won
  <2>4. role[q] = "candidate" => own \notin elected'
    BY <2>1, <2>2, <2>3
  <2> QED
    BY <2>4 DEF own
<1>7. MemoryInv(G, q)'
  BY <1>1, <1>2, <1>4, <1>5, <1>6 DEF MemoryInv, Live
<1>8. ResponseInv(q)'
  BY <1>1, <1>2 DEF ResponseInv, Waiting
<1> QED
  BY <1>7, <1>8

LEMMA DiskLog ==
  ASSUME NEW n \in Node, Step(n), NEW H \in History, LogInv(H), NEW G \in History, Grows(H, G),
         NEW q \in Node
  PROVE  DiskInv(G, q)'
<1>1. DiskInv(H, q) /\ MemoryInv(H, q)
  BY DEF LogInv
<1>2. log[q] \in Seq(Entry) /\ disk[q].log \in Seq(Entry)
  BY StateType DEF Step, Sound
<1>3. /\ Rooted(G, disk[q].log)
      /\ Live(q) => Rooted(G, log[q])
  BY <1>1, <1>2, RootedGrows DEF DiskInv, MemoryInv
<1>4. CASE disk'[q] = disk[q]
  BY <1>1, <1>3, <1>4 DEF DiskInv
<1>5. CASE Live(q) /\ disk'[q].term = current_term[q] /\ disk'[q].log = log[q]
  BY <1>1, <1>3, <1>5 DEF DiskInv, MemoryInv
<1> QED
  BY <1>4, <1>5 DEF Step, MediumKept

LEMMA ElectedDiskStep ==
  ASSUME NEW n \in Node, Step(n), NEW H, LogInv(H), NEW G, NewHistory(H, G, n)
  PROVE  ElectedDisk'
<1> SUFFICES ASSUME NEW e \in elected'
             PROVE  e[1] <= disk'[e[2]].term
  BY DEF ElectedDisk
<1>1. e \in Nat \X Node
  BY TypesNext, VariableTypes DEF Step, Sound
<1>2. e[1] \in Nat /\ e[2] \in Node
  BY <1>1
<1>3. disk[e[2]].term \in Nat /\ disk'[e[2]].term \in Nat
  <2>1. TypeOK /\ TypeOK'
    BY DEF Step, Sound
  <2>2. disk[e[2]] \in DiskState /\ disk'[e[2]] \in DiskState
    BY <1>2, <2>1, TypesNext, VariableTypes
  <2> QED
    BY <2>2 DEF DiskState
<1>4. disk'[e[2]].term >= disk[e[2]].term
  BY <1>2 DEF Step, MediumKept
<1>5. e[1] <= disk[e[2]].term
  <2>1. CASE e \in elected
    BY <2>1 DEF LogInv, ElectedDisk
  <2>2. CASE e = <<current_term[n], n>> /\ Idle(n)
    <3>1. disk[n].term = current_term[n]
      BY <2>2, IdleDisk DEF Idle, Live, Step
    <3> QED
      BY <1>2, <2>2, <3>1, SMT
  <2> QED
    BY <2>1, <2>2 DEF NewHistory
<1> QED
  BY <1>2, <1>3, <1>4, <1>5, SMT

\* It is enough to look at the node that takes the step and at new messages.
LEMMA LogStep ==
  ASSUME NEW n \in Node, Step(n), NEW H \in History, LogInv(H),
         NEW G \in History, NewHistory(H, G, n), HistoryInv(G)', MemoryInv(G, n)', ResponseInv(n)',
         \A m \in msgs' : m.type = "AppendEntries" => m \in msgs \/ Segment(G, m)'
  PROVE  LogInv(G)'
<1>1. \A q \in Node : MemoryInv(G, q)' /\ ResponseInv(q)'
  BY OthersLog
<1>2. \A q \in Node : DiskInv(G, q)'
  BY DiskLog DEF NewHistory
<1>3. ElectedDisk'
  BY ElectedDiskStep
<1>4. ASSUME NEW m \in msgs', m.type = "AppendEntries"
      PROVE  Segment(G, m)'
  <2>1. CASE m \in msgs
    <3>1. m \in AppendEntriesMsg
      BY <1>4, <2>1, MessageType DEF Step, Sound
    <3>2. Segment(H, m)
      BY <1>4, <2>1 DEF LogInv
    <3>3. Grows(H, G) /\ elected \subseteq elected'
      BY DEF NewHistory, Step, StepOf
    <3> QED
      BY <3>1, <3>2, <3>3, SegmentGrows
  <2> QED
    BY <1>4, <2>1
<1> QED
  BY <1>1, <1>2, <1>3, <1>4 DEF LogInv

-----------------------------------------------------------------------------
(* Steps after which every leader's log is what it was *)

LEMMA QuietLog ==
  ASSUME NEW n \in Node, Step(n), NEW H \in History, LogInv(H), elected' = elected,
         MemoryInv(H, n)', ResponseInv(n)',
         \A m \in msgs' : m.type = "AppendEntries" => m \in msgs \/ Segment(H, m)'
  PROVE  LogInv(H)'
<1>1. NewHistory(H, H, n)
  BY GrowsReflexive DEF NewHistory
<1>2. HistoryInv(H)'
  BY DEF LogInv, HistoryInv
<1> QED
  BY <1>1, <1>2, LogStep

LEMMA SilentLog ==
  ASSUME NEW n \in Node, Silent(n)
  PROVE  ResponseInv(n)' /\ \A m \in msgs' : m \in msgs
  BY DEF Silent, ResponseInv

LEMMA WithinLater ==
  ASSUME NEW l \in Seq(Entry), NEW t \in Nat, NEW u \in Nat, t <= u, Within(l, t)
  PROVE  Within(l, u)
<1> SUFFICES ASSUME NEW i \in 1..Len(l)
             PROVE  l[i].term <= u
  BY DEF Within
<1>1. l[i].term \in Nat
  BY EntryType
<1>2. l[i].term <= t
  BY DEF Within
<1> QED
  BY <1>1, <1>2, SMT

LEMMA AnswersLog ==
  ASSUME NEW n \in Node, Step(n), NEW H \in History, LogInv(H), Answers(n)
  PROVE  LogInv(H)'
<1>1. /\ Live(n) /\ elected' = elected /\ log'[n] = log[n]
      /\ SameOffice(n) \/ (Follows(n) /\ current_term'[n] >= current_term[n])
      /\ \/ Silent(n)
         \/ \E w : Denial(w) /\ Replies(n, w)
         \/ \E m \in msgs : \E w : Grants(n, m, w) /\ Replies(n, w)
  BY DEF Answers, GhostsKept, Idle, Live
<1>2. ResponseInv(n)' /\ \A m \in msgs' : m.type = "AppendEntries" => m \in msgs
  <2>1. \A w : Denial(w) => w.type # "AppendEntries"
    BY DEF Denial
  <2>2. \A m, w : Grants(n, m, w) => w.type # "AppendEntries"
    BY DEF Grants
  <2> QED
    BY <1>1, <2>1, <2>2, SilentLog, RepliesLog
<1>3. MemoryInv(H, n)
  BY DEF LogInv
<1>4. CASE SameOffice(n)
  <2>1. role'[n] = role[n] /\ current_term'[n] = current_term[n]
    BY <1>4 DEF SameOffice
  <2>2. MemoryInv(H, n)'
    BY <1>1, <1>3, <2>1 DEF MemoryInv, Live
  <2> QED
    BY <1>1, <1>2, <2>2, QuietLog
<1>5. CASE Follows(n) /\ current_term'[n] >= current_term[n]
  <2>1. role'[n] # "leader" /\ role'[n] # "candidate"
    BY <1>5 DEF Follows
  <2>2. log[n] \in Seq(Entry) /\ current_term[n] \in Nat /\ current_term'[n] \in Nat
    BY StateType, TypesNext, VariableTypes DEF Step, Sound
  <2>3. Within(log[n], current_term[n])
    BY <1>1, <1>3 DEF MemoryInv
  <2>4. Within(log[n], current_term'[n])
    BY <1>5, <2>2, <2>3, WithinLater
  <2>5. MemoryInv(H, n)'
    BY <1>1, <1>3, <2>1, <2>4 DEF MemoryInv
  <2> QED
    BY <1>1, <1>2, <2>5, QuietLog
<1> QED
  BY <1>1, <1>4, <1>5

LEMMA CampaignsLog ==
  ASSUME NEW n \in Node, Step(n), NEW H \in History, LogInv(H), Campaigns(n)
  PROVE  LogInv(H)'
<1>1. /\ Live(n) /\ pending_storage[n] = Nil /\ elected' = elected /\ log'[n] = log[n] /\ Silent(n)
      /\ role'[n] = "candidate" /\ current_term'[n] = current_term[n] + 1
  BY DEF Campaigns, GhostsKept, Idle, Live
<1>2. log[n] \in Seq(Entry) /\ current_term[n] \in Nat
  BY StateType DEF Step, Sound
<1>3. Rooted(H, log[n]) /\ Within(log[n], current_term[n])
  BY <1>1 DEF LogInv, MemoryInv
<1>4. Within(log[n], current_term[n] + 1)
  BY <1>2, <1>3, WithinLater, SMT
<1>5. disk[n].term = current_term[n]
  BY <1>1, IdleDisk DEF Step
<1>6. <<current_term[n] + 1, n>> \notin elected
  <2> SUFFICES ASSUME NEW e \in elected, e = <<current_term[n] + 1, n>>
               PROVE  FALSE
    OBVIOUS
  <2>1. e[1] <= disk[e[2]].term
    BY DEF LogInv, ElectedDisk
  <2> QED
    BY <1>2, <1>5, <2>1, SMT
<1>7. MemoryInv(H, n)'
  <2>1. role'[n] # "leader"
    BY <1>1
  <2> QED
    BY <1>1, <1>3, <1>4, <1>6, <2>1 DEF MemoryInv
<1>8. ResponseInv(n)' /\ \A m \in msgs' : m \in msgs
  BY <1>1, SilentLog
<1> QED
  BY <1>1, <1>7, <1>8, QuietLog

LEMMA StopsLog ==
  ASSUME NEW n \in Node, Step(n), NEW H \in History, LogInv(H), Stops(n)
  PROVE  LogInv(H)'
<1>1. ~Live(n)' /\ msgs' = msgs /\ elected' = elected /\ pending_storage'[n] = Nil
  BY DEF Stops, GhostsKept
<1>2. role'[n] # "leader" /\ role'[n] # "candidate"
  BY <1>1 DEF Live, LiveRole
<1>3. MemoryInv(H, n)' /\ ResponseInv(n)'
  BY <1>1, <1>2 DEF MemoryInv, ResponseInv
<1> QED
  BY <1>1, <1>3, QuietLog

LEMMA RestartsLog ==
  ASSUME NEW n \in Node, Step(n), NEW H \in History, LogInv(H), Restarts(n)
  PROVE  LogInv(H)'
<1>1. /\ role'[n] = "follower" /\ elected' = elected /\ Silent(n)
      /\ current_term'[n] = disk[n].term /\ log'[n] = disk[n].log
  BY DEF Restarts, GhostsKept
<1>2. role'[n] # "leader" /\ role'[n] # "candidate"
  BY <1>1
<1>3. DiskInv(H, n)
  BY DEF LogInv
<1>4. MemoryInv(H, n)'
  BY <1>1, <1>2, <1>3 DEF MemoryInv, DiskInv
<1>5. ResponseInv(n)' /\ \A m \in msgs' : m \in msgs
  BY <1>1, SilentLog
<1> QED
  BY <1>1, <1>4, <1>5, QuietLog

LEMMA CompletesLog ==
  ASSUME NEW n \in Node, Step(n), NEW H \in History, LogInv(H), Completes(n)
  PROVE  LogInv(H)'
<1>1. /\ role'[n] = role[n] /\ current_term'[n] = current_term[n] /\ log'[n] = log[n]
      /\ elected' = elected /\ pending_storage[n] # Nil /\ pending_storage'[n] = Nil
  BY DEF Completes, SameOffice, GhostsKept
<1>2. MemoryInv(H, n) /\ ResponseInv(n)
  BY DEF LogInv
<1>3. MemoryInv(H, n)' /\ ResponseInv(n)'
  BY <1>1, <1>2 DEF MemoryInv, Live, ResponseInv
<1>4. \A m \in msgs' : m.type = "AppendEntries" => m \in msgs
  <2>1. \A p : VoteRequest(n, p).type # "AppendEntries"
    BY DEF VoteRequest
  <2>2. \/ msgs' = msgs
        \/ Waiting(n) # Nil /\ msgs' = msgs \cup {Waiting(n)}
        \/ msgs' = msgs \cup {VoteRequest(n, p) : p \in Node \ {n}}
    BY DEF Completes
  <2> QED
    BY <1>1, <1>2, <2>1, <2>2 DEF ResponseInv
<1> QED
  BY <1>1, <1>3, <1>4, QuietLog

\* What a leader sends is a segment of its log.
LEMMA SentSegment ==
  ASSUME TypeOK, NEW n \in Node, NEW p \in Node, NEW progress \in PeerProgress,
         NEW m, m = AppendEntriesTo(n, p, progress, Len(log[n])),
         NEW H \in History, log[n] = H[current_term[n]], <<current_term[n], n>> \in elected
  PROVE  Segment(H, m)
<1> DEFINE last == Len(log[n])
           next == ClampedNext(progress, last)
           sent == SentLast(progress, last)
<1>1. log[n] \in Seq(Entry) /\ last \in Nat
  BY StateType
<1>2. next \in Nat /\ next >= 1 /\ next <= last + 1
  BY <1>1, SMT DEF ClampedNext, min, max, PeerProgress
<1>3. sent \in Nat /\ sent <= last /\ sent >= next - 1
  BY <1>1, <1>2, BoundAssumption, SMT DEF SentLast, min
<1>4. /\ m.term = current_term[n] /\ m.from = n /\ m.prev_log_index = next - 1
      /\ m.prev_log_term = term_at(log[n], next - 1)
      /\ m.entries = SubSeq(log[n], next, sent)
  BY DEF AppendEntriesTo
<1> HIDE DEF last, next, sent
<1>5. /\ Len(m.entries) = sent - next + 1
      /\ \A i \in 1..(sent - next + 1) : m.entries[i] = log[n][next + i - 1]
  <2>1. next \in Int /\ sent \in Int /\ \A i \in next..sent : log[n][i] \in Entry
    BY <1>1, <1>2, <1>3, SMT DEF last
  <2>2. /\ Len(SubSeq(log[n], next, sent)) = IF next <= sent THEN sent - next + 1 ELSE 0
        /\ \A i \in 1..(sent - next + 1) : SubSeq(log[n], next, sent)[i] = log[n][next + i - 1]
    BY <2>1, SMT
  <2>3. (IF next <= sent THEN sent - next + 1 ELSE 0) = sent - next + 1
    BY <1>2, <1>3, SMT
  <2> QED
    BY <1>4, <2>2, <2>3
<1>6. m.prev_log_index + Len(m.entries) <= Len(log[n])
  BY <1>1, <1>2, <1>3, <1>4, <1>5, SMT DEF last
<1>7. \A i \in 1..Len(m.entries) : m.entries[i] = log[n][m.prev_log_index + i]
  <2>1. ASSUME NEW i \in 1..Len(m.entries)
        PROVE  m.entries[i] = log[n][m.prev_log_index + i]
    <3>1. m.prev_log_index + i = next + i - 1
      BY <1>2, <1>4, <2>1, SMT
    <3> QED
      BY <1>5, <2>1, <3>1
  <2> QED
    BY <2>1
<1> QED
  BY <1>4, <1>6, <1>7 DEF Segment

LEMMA LeadsLog ==
  ASSUME NEW n \in Node, Step(n), NEW H \in History, LogInv(H), Leads(n)
  PROVE  LogInv(H)'
<1>1. /\ role[n] = "leader" /\ role'[n] = "leader"
      /\ current_term'[n] = current_term[n] /\ log'[n] = log[n] /\ elected' = elected
      /\ pending_storage'[n] = Nil \/ Waiting(n)' = Nil
  BY DEF Leads
<1>2. MemoryInv(H, n)
  BY DEF LogInv
<1>3. MemoryInv(H, n)' /\ ResponseInv(n)'
  BY <1>1, <1>2 DEF MemoryInv, Live, ResponseInv
<1>4. PICK progress \in [Node -> PeerProgress] : Sent(n, progress)
  BY DEF Leads
<1>5. ASSUME NEW m \in msgs', m \notin msgs
      PROVE  Segment(H, m)'
  <2>1. PICK p \in Node \ {n} : m = AppendEntriesTo(n, p, progress[p], Len(log[n]))
    BY <1>4, <1>5 DEF Sent
  <2>2. log[n] = H[current_term[n]] /\ <<current_term[n], n>> \in elected
    BY <1>1, <1>2 DEF MemoryInv
  <2>3. progress[p] \in PeerProgress
    BY <1>4, <2>1
  <2>4. Segment(H, m)
    BY <2>1, <2>2, <2>3, SentSegment DEF Step, Sound
  <2> QED
    BY <1>1, <2>4 DEF Segment
<1> QED
  BY <1>1, <1>3, <1>5, QuietLog

LEMMA AcceptsLog ==
  ASSUME NEW n \in Node, Step(n), NEW H \in History, LogInv(H),
         NEW m \in msgs, NEW k \in 0..Len(m.entries), Accepts(n, m, k)
  PROVE  LogInv(H)'
<1> DEFINE match == m.prev_log_index + Len(m.entries)
           w == AppendResponse(n, m, m.term, TRUE, match, 0, 0)
<1>1. /\ Live(n) /\ elected' = elected /\ Matches(n, m, k)
      /\ role'[n] = "follower" /\ current_term'[n] = m.term
      /\ log'[n] = Accepted(n, m, k) /\ Replies(n, w)
  BY DEF Accepts, GhostsKept, Idle, Live
<1>2. m.type = "AppendEntries" /\ m.term >= current_term[n]
  BY <1>1 DEF Matches
<1>3. m \in AppendEntriesMsg /\ m.term \in Nat
  BY <1>2, MessageType DEF Step, Sound
<1>4. Segment(H, m) /\ HistoryInv(H) /\ Rooted(H, log[n]) /\ Within(log[n], current_term[n])
  BY <1>1, <1>2 DEF LogInv, MemoryInv
<1> HIDE DEF w
<1>5. /\ log'[n] \in Seq(Entry) /\ Agree(log'[n], H[m.term], match)
      /\ log'[n] = log[n] \/ Len(log'[n]) = match
  <2> DEFINE l == Accepted(n, m, k)
  <2>1. TypeOK /\ match = m.prev_log_index + Len(m.entries) /\ l = Accepted(n, m, k)
    BY DEF Step, Sound
  <2>2. log'[n] = l
    BY <1>1
  <2> HIDE DEF l, match
  <2>3. l \in Seq(Entry) /\ Agree(l, H[m.term], match) /\ (l = log[n] \/ Len(l) = match)
    BY <1>1, <1>3, <1>4, <2>1, AcceptedAgrees, SMT
  <2> QED
    BY <2>2, <2>3
<1>6. Rooted(H, log'[n]) /\ Within(log'[n], m.term)
  <2>1. CASE log'[n] = log[n]
    <3>1. log[n] \in Seq(Entry) /\ current_term[n] \in Nat
      BY StateType DEF Step, Sound
    <3>2. Within(log[n], m.term)
      BY <1>2, <1>3, <1>4, <3>1, WithinLater
    <3> QED
      BY <1>4, <2>1, <3>2
  <2>2. CASE Len(log'[n]) = match
    BY <1>3, <1>4, <1>5, <2>2, PrefixRooted DEF HistoryInv
  <2> QED
    BY <1>5, <2>1, <2>2
<1>7. MemoryInv(H, n)'
  <2>1. role'[n] # "leader" /\ role'[n] # "candidate"
    BY <1>1
  <2> QED
    BY <1>1, <1>6, <2>1 DEF MemoryInv
<1>8. ResponseInv(n)' /\ \A a \in msgs' : a.type = "AppendEntries" => a \in msgs
  <2>1. w.type # "AppendEntries"
    BY DEF AppendResponse, w
  <2> QED
    BY <1>1, <2>1, RepliesLog
<1> QED
  BY <1>1, <1>7, <1>8, QuietLog

-----------------------------------------------------------------------------
(* Steps with which a leader's log grows *)

LEMMA HistoryExtended ==
  ASSUME TypeOK, NEW n \in Node, NEW H \in History, HistoryInv(H), Rooted(H, log[n]),
         Within(log[n], current_term[n]), Agree(log[n], H[current_term[n]], Len(H[current_term[n]])),
         NewEntry(n), NEW G, Extended(H, G, n), <<current_term[n], n>> \in elected', StepOf(n)
  PROVE  /\ G \in History /\ G[current_term[n]] = log'[n]
         /\ \A t \in Nat \ {current_term[n]} : G[t] = H[t]
         /\ Grows(H, G) /\ Rooted(G, log'[n]) /\ Within(log'[n], current_term[n])
         /\ HistoryInv(G)'
<1> DEFINE U == current_term[n]
           l == log[n]
           k == log'[n]
<1>a. /\ U \in Nat /\ l \in Seq(Entry) /\ Rooted(H, l) /\ Within(l, U) /\ Agree(l, H[U], Len(H[U]))
      /\ G = [H EXCEPT ![U] = k] /\ <<U, n>> \in elected' /\ elected \subseteq elected'
  BY StateType DEF Extended, StepOf
<1>b. /\ k \in Seq(Entry) /\ Agree(k, l, Len(l))
      /\ \A i \in 1..Len(k) : i \in 1..Len(l) \/ (i = Len(k) /\ k[i].term = U)
  BY NewEntryAgrees
<1> HIDE DEF U, l, k
<1>1. Len(l) \in Nat /\ Len(k) \in Nat
  BY <1>a, <1>b, SMT
<1>2. G \in History /\ G[U] = k /\ \A t \in Nat \ {U} : G[t] = H[t]
  BY <1>a, <1>b DEF History
<1>4. Grows(H, G)
  <2> SUFFICES ASSUME NEW t \in Nat
               PROVE  Agree(G[t], H[t], Len(H[t]))
    BY DEF Grows
  <2>1. H[t] \in Seq(Entry) /\ Len(H[t]) \in Nat
    BY HistoryType
  <2>2. CASE t = U
    <3>1. Len(H[t]) <= Len(l)
      BY <1>a, <2>2 DEF Agree
    <3>2. Agree(k, l, Len(H[t]))
      BY <1>1, <1>a, <1>b, <2>1, <3>1, AgreeDown
    <3>3. Agree(H[t], l, Len(H[t]))
      BY <1>a, <2>2, AgreeSymmetric
    <3>4. Agree(k, H[t], Len(H[t]))
      BY <1>a, <1>b, <2>1, <3>2, <3>3, AgreeJoin
    <3> QED
      BY <1>2, <2>2, <3>4
  <2>3. CASE t # U
    BY <1>2, <2>1, <2>3, SMT DEF Agree
  <2> QED
    BY <2>2, <2>3
<1>5. ASSUME NEW i \in 1..Len(l)
      PROVE  k[i].term <= U /\ Agree(k, H[k[i].term], i)
  <2>1. i \in Nat /\ i <= Len(l) /\ k[i] = l[i] /\ l[i].term \in Nat
    BY <1>1, <1>5, <1>a, <1>b, EntryType, SMT DEF Agree
  <2>2. l[i].term <= U /\ Agree(l, H[l[i].term], i)
    BY <1>5, <1>a DEF Within, Rooted
  <2>3. Agree(k, l, i)
    BY <1>1, <1>a, <1>b, <2>1, AgreeDown
  <2>4. H[l[i].term] \in Seq(Entry)
    BY <2>1, HistoryType
  <2>5. Agree(H[l[i].term], l, i)
    BY <2>2, AgreeSymmetric
  <2>6. Agree(k, H[l[i].term], i)
    BY <1>a, <1>b, <2>1, <2>3, <2>4, <2>5, AgreeJoin
  <2> QED
    BY <2>1, <2>2, <2>6
<1>6. Rooted(G, k)
  <2> SUFFICES ASSUME NEW i \in 1..Len(k)
               PROVE  Agree(k, G[k[i].term], i)
    BY DEF Rooted
  <2>1. i \in Nat /\ k[i].term \in Nat
    BY <1>b, EntryType, SMT
  <2>2. CASE i \in 1..Len(l)
    <3>1. Agree(k, H[k[i].term], i)
      BY <1>5, <2>2
    <3> QED
      BY <1>b, <1>2, <1>4, <2>1, <3>1, AgreeGrows
  <2>3. CASE i = Len(k) /\ k[i].term = U
    <3>1. Agree(k, k, Len(k))
      BY <1>1, SMT DEF Agree
    <3> QED
      BY <1>2, <2>3, <3>1
  <2> QED
    BY <1>b, <2>2, <2>3
<1>7. Within(k, U)
  <2> SUFFICES ASSUME NEW i \in 1..Len(k)
               PROVE  k[i].term <= U
    BY DEF Within
  <2>1. CASE i \in 1..Len(l)
    BY <1>5, <2>1
  <2>2. CASE k[i].term = U
    BY <1>a, <2>2, SMT
  <2> QED
    BY <1>b, <2>1, <2>2
<1>8. HistoryInv(G)'
  <2> SUFFICES ASSUME NEW t \in Nat
               PROVE  /\ Rooted(G, G[t]) /\ Within(G[t], t)
                      /\ G[t] # << >> => \E q \in Node : <<t, q>> \in elected'
    BY DEF HistoryInv
  <2>1. CASE t = U
    BY <1>a, <1>2, <1>6, <1>7, <2>1
  <2>2. CASE t # U
    <3>1. G[t] = H[t] /\ H[t] \in Seq(Entry)
      BY <1>2, <2>2, HistoryType
    <3>2. /\ Rooted(H, H[t]) /\ Within(H[t], t)
          /\ H[t] # << >> => \E q \in Node : <<t, q>> \in elected
      BY DEF HistoryInv
    <3>3. Rooted(G, H[t])
      BY <1>2, <1>4, <3>1, <3>2, RootedGrows
    <3>4. H[t] # << >> => \E q \in Node : <<t, q>> \in elected'
      BY <1>a, <3>2
    <3> QED
      BY <3>1, <3>2, <3>3, <3>4
  <2> QED
    BY <2>1, <2>2
<1> QED
  BY <1>2, <1>4, <1>6, <1>7, <1>8 DEF U, k

\* A term has no log before its leader is elected.
LEMMA NoLogYet ==
  ASSUME NEW n \in Node, Step(n), NEW H \in History, LogInv(H), Wins(n)
  PROVE  H[current_term[n]] = << >>
<1> SUFFICES ASSUME H[current_term[n]] # << >>
             PROVE  FALSE
  OBVIOUS
<1> DEFINE U == current_term[n]
           won == <<U, n>>
<1>1. U \in Nat /\ elected \subseteq elected' /\ ElectionSafety'
  BY StateType DEF Step, Sound, StepOf
<1>2. PICK q \in Node : <<U, q>> \in elected
  BY <1>1 DEF LogInv, HistoryInv
<1>3. won \in elected' /\ won \notin elected
  BY DEF Wins, LogInv, MemoryInv
<1>4. <<U, q>>[1] = won[1]
  OBVIOUS
<1>5. <<U, q>> = won
  <2> DEFINE seen == <<U, q>>
  <2>1. seen \in elected' /\ seen[1] = won[1]
    BY <1>1, <1>2, <1>4
  <2> HIDE DEF seen, won
  <2>2. seen = won
    BY <1>1, <1>3, <2>1 DEF ElectionSafety
  <2> QED
    BY <2>2 DEF seen
<1> QED
  BY <1>2, <1>3, <1>5

\* A winner appends a no-op; one that cannot steps down at once.
LEMMA WinsLog ==
  ASSUME NEW n \in Node, Step(n), NEW H \in History, LogInv(H), Wins(n), NEW G, Extended(H, G, n)
  PROVE  G \in History /\ NewHistory(H, G, n) /\ LogInv(G)'
<1> DEFINE U == current_term[n]
           won == <<U, n>>
<1>1. /\ Idle(n) /\ Silent(n) /\ role[n] = "candidate" /\ current_term'[n] = U
      /\ elected' = elected \cup {won} /\ role'[n] \in {"leader", "follower"}
  BY DEF Wins
<1>2. U \in Nat /\ log[n] \in Seq(Entry)
  BY StateType DEF Step, Sound
<1>3. NewEntry(n)
  BY <1>2, NoopType DEF Wins, NewEntry
<1>4. Rooted(H, log[n]) /\ Within(log[n], U) /\ HistoryInv(H)
  BY <1>1 DEF LogInv, MemoryInv, Idle, Live
<1>5. H[U] = << >>
  BY NoLogYet
<1>6. Agree(log[n], H[U], Len(H[U]))
  BY <1>2, <1>5, SMT DEF Agree
<1>7. won \in elected'
  BY <1>1
<1> HIDE DEF U, won
<1>8. /\ G \in History /\ G[U] = log'[n] /\ \A t \in Nat \ {U} : G[t] = H[t]
      /\ Grows(H, G) /\ Rooted(G, log'[n]) /\ Within(log'[n], U) /\ HistoryInv(G)'
  <2>1. /\ TypeOK /\ HistoryInv(H) /\ Rooted(H, log[n]) /\ Within(log[n], current_term[n])
        /\ Agree(log[n], H[current_term[n]], Len(H[current_term[n]]))
        /\ <<current_term[n], n>> \in elected' /\ StepOf(n)
    BY <1>4, <1>6, <1>7 DEF Step, Sound, U, won
  <2> QED
    BY <1>3, <2>1, HistoryExtended, SMT DEF U
<1>9. NewHistory(H, G, n)
  <2>1. \A t \in Nat : G[t] = H[t] \/ <<t, n>> \in elected'
    BY <1>7, <1>8 DEF won
  <2>2. \A c \in elected' : c \in elected \/ c = won
    BY <1>1
  <2> QED
    BY <1>1, <1>8, <2>1, <2>2 DEF NewHistory, won, U
<1>10. MemoryInv(G, n)'
  <2>1. role'[n] # "candidate"
    BY <1>1
  <2> QED
    BY <1>1, <1>7, <1>8, <2>1 DEF MemoryInv, won
<1>11. ResponseInv(n)' /\ \A m \in msgs' : m \in msgs
  BY <1>1, SilentLog
<1> QED
  BY <1>8, <1>9, <1>10, <1>11, LogStep

LEMMA AppendsLog ==
  ASSUME NEW n \in Node, Step(n), NEW H \in History, LogInv(H), NEW e, Appends(n, e),
         NEW G, Extended(H, G, n)
  PROVE  G \in History /\ NewHistory(H, G, n) /\ LogInv(G)'
<1> DEFINE U == current_term[n]
           won == <<U, n>>
<1>1. /\ Idle(n) /\ Silent(n) /\ role[n] = "leader" /\ role'[n] = role[n]
      /\ current_term'[n] = U /\ elected' = elected
      /\ e \in Entry /\ e.term = U /\ log'[n] = Append(log[n], e)
  BY DEF Appends, SameOffice, GhostsKept
<1>2. U \in Nat /\ log[n] \in Seq(Entry) /\ Len(log[n]) \in Nat
  BY StateType DEF Step, Sound
<1>3. Rooted(H, log[n]) /\ Within(log[n], U) /\ HistoryInv(H) /\ log[n] = H[U] /\ won \in elected
  BY <1>1 DEF LogInv, MemoryInv, Idle, Live
<1>4. Agree(log[n], H[U], Len(H[U]))
  BY <1>2, <1>3, SMT DEF Agree
<1>5. won \in elected' /\ elected \subseteq elected'
  BY <1>1, <1>3
<1> HIDE DEF U, won
<1>6. /\ G \in History /\ G[U] = log'[n] /\ \A t \in Nat \ {U} : G[t] = H[t]
      /\ Grows(H, G) /\ Rooted(G, log'[n]) /\ Within(log'[n], U) /\ HistoryInv(G)'
  <2>1. /\ TypeOK /\ HistoryInv(H) /\ Rooted(H, log[n]) /\ Within(log[n], current_term[n])
        /\ Agree(log[n], H[current_term[n]], Len(H[current_term[n]]))
        /\ NewEntry(n) /\ <<current_term[n], n>> \in elected' /\ StepOf(n)
    BY <1>1, <1>3, <1>4, <1>5 DEF Step, Sound, U, won, NewEntry
  <2> QED
    BY <2>1, HistoryExtended, SMT DEF U
<1>7. NewHistory(H, G, n)
  <2>1. \A t \in Nat : G[t] = H[t] \/ <<t, n>> \in elected'
    BY <1>5, <1>6 DEF won
  <2> QED
    BY <1>1, <1>6, <2>1 DEF NewHistory
<1>8. MemoryInv(G, n)'
  <2>1. role'[n] = "leader" /\ role'[n] # "candidate"
    BY <1>1
  <2> QED
    BY <1>1, <1>5, <1>6, <2>1 DEF MemoryInv, won
<1>9. ResponseInv(n)' /\ \A m \in msgs' : m \in msgs
  BY <1>1, SilentLog
<1> QED
  BY <1>6, <1>7, <1>8, <1>9, LogStep

-----------------------------------------------------------------------------
(* Timers and clients *)

\* No running node is stranded, stated of one node (TimerOwned).
TimerInv(n) ==
  Live(n) =>
    IF role[n] = "leader"
    THEN heartbeat_timer[n] \/ (pending_storage[n] # Nil /\ Kind(n) = "become_leader")
    ELSE \/ election_timer[n]
         \/ /\ pending_storage[n] # Nil
            /\ pending_storage[n].after_success.rearm \/ Kind(n) = "begin_election"

\* Waiting clients wait for what they asked for, and for nothing while the node is down.
ClientInv(n) ==
  /\ role[n] = "down" => pending_clients[n] = {}
  /\ \A c \in pending_clients[n] :
       /\ c.index \in 1..Len(log[n])
       /\ log[n][c.index].command = c.command

ServiceInv == \A n \in Node : TimerInv(n) /\ ClientInv(n)

\* What a step of n leaves of the other nodes.
ServiceKept(q) ==
  /\ role'[q] = role[q] /\ pending_storage'[q] = pending_storage[q]
  /\ election_timer'[q] = election_timer[q] /\ heartbeat_timer'[q] = heartbeat_timer[q]
  /\ pending_clients'[q] = pending_clients[q] /\ log'[q] = log[q]

-----------------------------------------------------------------------------
(* Waiting clients *)

LEMMA ClientsKept ==
  ASSUME NEW n \in Node, ClientInv(n), log'[n] = log[n],
         pending_clients'[n] \subseteq pending_clients[n],
         role'[n] = "down" => role[n] = "down"
  PROVE  ClientInv(n)'
  BY DEF ClientInv

LEMMA ClientsExtended ==
  ASSUME TypeOK, NEW n \in Node, ClientInv(n), NEW e \in Entry, log'[n] = Append(log[n], e),
         role'[n] # "down",
         \A c \in pending_clients'[n] : \/ c \in pending_clients[n]
                                        \/ c = [index |-> Len(log[n]) + 1, command |-> e.command]
  PROVE  ClientInv(n)'
<1>1. log[n] \in Seq(Entry)
  BY VariableTypes, SMT
<1>2. /\ Len(log'[n]) = Len(log[n]) + 1 /\ Len(log[n]) \in Nat
      /\ log'[n][Len(log[n]) + 1] = e
      /\ \A i \in 1..Len(log[n]) : log'[n][i] = log[n][i]
  BY <1>1, SMT
<1>3. \A c \in pending_clients[n] : /\ c.index \in 1..Len(log[n])
                                    /\ log[n][c.index].command = c.command
  BY DEF ClientInv
<1>4. ASSUME NEW c \in pending_clients'[n]
      PROVE  c.index \in 1..Len(log'[n]) /\ log'[n][c.index].command = c.command
  <2>1. CASE c \in pending_clients[n]
    BY <1>2, <1>3, <2>1, SMT
  <2>2. CASE c = [index |-> Len(log[n]) + 1, command |-> e.command]
    BY <1>2, <2>2, SMT
  <2> QED
    BY <2>1, <2>2, SMT
<1> QED
  BY <1>4 DEF ClientInv

\* A follower that replaces its log from index at on has told the clients that
\* waited for what it removes.
LEMMA ClientsReplaced ==
  ASSUME TypeOK, NEW n \in Node, ClientInv(n), NEW new \in Seq(Entry), NEW at \in Nat \ {0},
         at <= Len(log[n]) + 1,
         log'[n] = SubSeq(log[n], 1, at - 1) \o new,
         pending_clients'[n] \subseteq pending_clients[n],
         \A c \in pending_clients'[n] : c.index < at,
         role'[n] # "down"
  PROVE  ClientInv(n)'
<1>1. log[n] \in Seq(Entry)
  BY VariableTypes, SMT
<1>2. /\ Len(log'[n]) = at - 1 + Len(new) /\ Len(log[n]) \in Nat /\ Len(new) \in Nat
      /\ \A i \in 1..(at - 1) : log'[n][i] = log[n][i]
  <2> DEFINE kept == SubSeq(log[n], 1, at - 1)
  <2>1. kept \in Seq(Entry) /\ Len(kept) = at - 1 /\ \A i \in 1..(at - 1) : kept[i] = log[n][i]
    BY <1>1, SMT
  <2> HIDE DEF kept
  <2>2. log'[n] = kept \o new
    BY SMT DEF kept
  <2>3. Len(log'[n]) = Len(kept) + Len(new) /\ \A i \in 1..Len(kept) : log'[n][i] = kept[i]
    BY <2>1, <2>2, SMT
  <2> QED
    BY <1>1, <2>1, <2>3, SMT
<1>3. \A c \in pending_clients'[n] : /\ c.index \in 1..Len(log[n])
                                     /\ log[n][c.index].command = c.command
  BY DEF ClientInv
<1>4. ASSUME NEW c \in pending_clients'[n]
      PROVE  c.index \in 1..Len(log'[n]) /\ log'[n][c.index].command = c.command
  <2>1. c.index \in 1..(at - 1)
    BY <1>2, <1>3, SMT
  <2>2. c.index \in 1..Len(log'[n])
    BY <1>2, <2>1, SMT
  <2>3. log'[n][c.index] = log[n][c.index]
    BY <1>2, <2>1
  <2> QED
    BY <1>3, <2>2, <2>3
<1> QED
  BY <1>4 DEF ClientInv

-----------------------------------------------------------------------------
(* One node moves *)

Service(n) ==
  TimerInv(n)' /\ ClientInv(n)' /\ \A q \in Node \ {n} : ServiceKept(q)

LEMMA ServiceTypes ==
  ASSUME TypeOK
  PROVE  /\ role \in [Node -> Role] /\ log \in [Node -> Seq(Entry)]
         /\ election_timer \in [Node -> BOOLEAN] /\ heartbeat_timer \in [Node -> BOOLEAN]
         /\ pending_storage \in [Node -> PendingStorage \cup {Nil}]
         /\ pending_clients \in [Node -> SUBSET [index : Nat, command : Command]]
  BY VariableTypes

LEMMA PendingIsSome ==
  ASSUME NEW b \in PersistBatch, NEW a \in Continuation, NEW p,
         p = [batch |-> b, after_success |-> a]
  PROVE  p # Nil /\ p.after_success = a
<1>1. p \in PendingStorage
  BY DEF PendingStorage
<1>2. p # Nil
  BY <1>1, NilAssumption
<1> QED
  BY <1>2

\* A step that leaves roles, timers, storage, clients and logs alone.
LEMMA ServiceUnchanged ==
  ASSUME NEW n \in Node, TimerInv(n), ClientInv(n),
         UNCHANGED <<role, log, pending_storage, pending_clients, timer_vars>>
  PROVE  Service(n)
  BY DEF Service, ServiceKept, TimerInv, ClientInv, Live, Kind, timer_vars

LEMMA StaleService ==
  ASSUME NEW n \in Node, TimerInv(n), ClientInv(n), NEW m,
         on_request_vote_stale(n, m) \/ on_append_entries_stale(n, m)
  PROVE  Service(n)
<1>1. UNCHANGED <<role, log, pending_storage, pending_clients, timer_vars>>
  BY DEF on_request_vote_stale, on_append_entries_stale, role_vars, log_vars
<1> QED
  BY <1>1, ServiceUnchanged

LEMMA BeginElectionService ==
  ASSUME TypeOK, NEW n \in Node, ClientInv(n), begin_election(n)
  PROVE  Service(n)
<1> DEFINE hs == [term |-> current_term[n] + 1, vote |-> n]
           batch == [EmptyBatch EXCEPT !.hard_state = hs]
           pending == [batch |-> batch, after_success |-> Resume("begin_election")]
<1>1. hs \in HardState
  BY VariableTypes, SMT DEF HardState
<1>2. Resume("begin_election") \in Continuation /\ Resume("begin_election").kind = "begin_election"
  BY DEF Resume, Continuation
<1>3. batch \in PersistBatch
  BY <1>1, HardStateBatch
<1>4. pending # Nil /\ pending.after_success.kind = "begin_election"
  BY <1>2, <1>3, PendingIsSome
<1>5. pending_storage' = [pending_storage EXCEPT ![n] = pending]
  BY DEF begin_election, begin_persist
<1> HIDE DEF pending
<1>6. pending_storage'[n] = pending /\ \A q \in Node \ {n} : pending_storage'[q] = pending_storage[q]
  BY <1>5, ServiceTypes
<1>7. /\ role'[n] = "candidate" /\ log' = log /\ pending_clients' = pending_clients
      /\ \A q \in Node \ {n} : /\ role'[q] = role[q]
                               /\ election_timer'[q] = election_timer[q]
                               /\ heartbeat_timer'[q] = heartbeat_timer[q]
  BY ServiceTypes DEF begin_election, log_vars
<1>8. TimerInv(n)'
  BY <1>4, <1>6, <1>7 DEF TimerInv, Kind
<1>9. ClientInv(n)'
  BY <1>7, ClientsKept
<1> QED
  BY <1>6, <1>7, <1>8, <1>9 DEF Service, ServiceKept

LEMMA LeaderTimerService ==
  ASSUME TypeOK, NEW n \in Node, TimerInv(n), ClientInv(n),
         on_election_timer_leader(n) \/ on_heartbeat_timer(n)
  PROVE  Service(n)
<1>1. /\ role[n] = "leader" /\ pending_storage[n] = Nil /\ Live(n)
      /\ UNCHANGED <<role, log, pending_storage, pending_clients, heartbeat_timer>>
      /\ \A q \in Node \ {n} : election_timer'[q] = election_timer[q]
  BY ServiceTypes DEF on_election_timer_leader, on_heartbeat_timer, Idle, Live,
                             role_vars, log_vars, timer_vars
<1>2. TimerInv(n)'
  BY <1>1 DEF TimerInv, Kind, Live
<1>3. ClientInv(n)'
  BY <1>1, ClientsKept
<1> QED
  BY <1>1, <1>2, <1>3 DEF Service, ServiceKept

LEMMA ClientRequestService ==
  ASSUME TypeOK, NEW n \in Node, TimerInv(n), ClientInv(n), NEW command \in Command,
         on_client_request(n, command)
  PROVE  Service(n)
<1> DEFINE e == [term |-> current_term[n], command |-> command]
           c == [index |-> Len(log[n]) + 1, command |-> command]
<1>1. e \in Entry /\ e.command = command
  BY VariableTypes, SMT DEF Entry
<1>2. /\ role[n] = "leader" /\ pending_storage[n] = Nil /\ Live(n)
      /\ log' = [log EXCEPT ![n] = Append(@, e)]
      /\ pending_clients' = [pending_clients EXCEPT ![n] = @ \cup {c}]
      /\ UNCHANGED <<role, election_timer, heartbeat_timer>>
      /\ \A q \in Node \ {n} : pending_storage'[q] = pending_storage[q]
  BY ServiceTypes DEF on_client_request, begin_persist, Idle, Live, role_vars, timer_vars
<1> HIDE DEF e, c
<1>3. log'[n] = Append(log[n], e) /\ pending_clients'[n] = pending_clients[n] \cup {c}
  BY <1>2, ServiceTypes
<1>4. \A q \in Node \ {n} : log'[q] = log[q] /\ pending_clients'[q] = pending_clients[q]
  BY <1>2, ServiceTypes
<1>5. TimerInv(n)'
  BY <1>2 DEF TimerInv, Kind, Live
<1>6. c = [index |-> Len(log[n]) + 1, command |-> e.command]
  BY <1>1 DEF c
<1>7. ClientInv(n)'
  BY <1>1, <1>2, <1>3, <1>6, ClientsExtended, SMT
<1> QED
  BY <1>2, <1>4, <1>5, <1>7 DEF Service, ServiceKept

-----------------------------------------------------------------------------
(* Replies *)

\* An election timer that is live stays live, and a reply that re-arms it has done so
\* or does it when its batch is durable.
LEMMA ReplyService ==
  ASSUME TypeOK, NEW n \in Node, NEW batch \in PersistBatch,
         NEW rearm \in BOOLEAN, NEW message \in Message \cup {Nil},
         persist_then_reply(n, batch, Reply(rearm, message)),
         election_timer[n] \/ rearm
  PROVE  /\ election_timer'[n] \/ (pending_storage'[n] # Nil
                                    /\ pending_storage'[n].after_success.rearm)
         /\ \A q \in Node \ {n} : /\ pending_storage'[q] = pending_storage[q]
                                  /\ election_timer'[q] = election_timer[q]
<1> DEFINE a == Reply(rearm, message)
           pending == [batch |-> batch, after_success |-> a]
<1>1. a \in Continuation /\ a.rearm = rearm
  BY DEF Reply, Continuation
<1>2. pending # Nil /\ pending.after_success = a
  BY <1>1, PendingIsSome
<1>3. CASE batch = EmptyBatch
  BY <1>1, <1>3, ServiceTypes DEF persist_then_reply, run_reply
<1>4. CASE batch # EmptyBatch
  <2>1. /\ pending_storage' = [pending_storage EXCEPT ![n] = pending]
        /\ election_timer' = election_timer
    BY <1>4 DEF persist_then_reply, begin_persist
  <2> HIDE DEF pending, a
  <2>2. /\ pending_storage'[n] = pending
        /\ \A q \in Node \ {n} : pending_storage'[q] = pending_storage[q]
    BY <2>1, ServiceTypes
  <2> QED
    BY <1>1, <1>2, <2>1, <2>2
<1> QED
  BY <1>3, <1>4

\* A node that has stepped down, or stays what it is, and replies.
Office(n) ==
  /\ \A q \in Node \ {n} : role'[q] = role[q] /\ heartbeat_timer'[q] = heartbeat_timer[q]
  /\ \/ role'[n] = "follower"
     \/ role'[n] = role[n] /\ heartbeat_timer'[n] = heartbeat_timer[n]

LEMMA OfficeService ==
  ASSUME NEW n \in Node, TimerInv(n), ClientInv(n)', Idle(n), Office(n),
         role'[n] # "leader" =>
           election_timer'[n] \/ (pending_storage'[n] # Nil
                                    /\ pending_storage'[n].after_success.rearm),
         \A q \in Node \ {n} : /\ pending_storage'[q] = pending_storage[q]
                              /\ election_timer'[q] = election_timer[q]
                              /\ log'[q] = log[q]
                              /\ pending_clients'[q] = pending_clients[q]
  PROVE  Service(n)
<1>1. TimerInv(n)'
  BY DEF Office, TimerInv, Live, Kind, Idle, LiveRole
<1> QED
  BY <1>1 DEF Office, Service, ServiceKept

LEMMA StepDownLeavesOffice ==
  ASSUME TypeOK, NEW n \in Node, NEW hint, step_down(n, hint)
  PROVE  Office(n) /\ role'[n] = "follower"
  BY ServiceTypes DEF step_down, Office

LEMMA VoteService ==
  ASSUME TypeOK, NEW n \in Node, TimerInv(n), ClientInv(n), NEW m \in msgs,
         Idle(n), m.type = "RequestVote", on_request_vote_current(n, m)
  PROVE  Service(n)
<1> DEFINE higher == m.term > current_term[n]
           vote == IF higher THEN Nil ELSE voted_for[n]
           grant == /\ can_vote(vote, m.from)
                    /\ candidate_is_up_to_date(log[n], m.last_log_index, m.last_log_term)
           new_vote == IF grant THEN m.from ELSE vote
           hs == IF higher \/ new_vote # vote THEN [term |-> m.term, vote |-> new_vote] ELSE Nil
           batch == [EmptyBatch EXCEPT !.hard_state = hs]
           rearm == vote_rearms(n, grant)
           reply == VoteResponse(n, m.from, m.term, grant)
<1>1. m.from \in Node /\ m.term \in Nat
  BY MessageType
<1>2. grant \in BOOLEAN /\ rearm \in BOOLEAN
  BY DEF can_vote, candidate_is_up_to_date, vote_rearms
<1>3. reply \in Message
  BY <1>1, <1>2 DEF VoteResponse, Message, RequestVoteResponseMsg
<1>4. hs \in HardState \cup {Nil}
  BY <1>1, VariableTypes DEF HardState
<1>5. batch \in PersistBatch
  BY <1>4, HardStateBatch
<1>6. /\ persist_then_reply(n, batch, Reply(rearm, reply))
      /\ IF higher THEN step_down(n, Nil)
         ELSE UNCHANGED <<role_vars, peers, heartbeat_timer>>
      /\ log' = log /\ pending_clients' = pending_clients
  BY DEF on_request_vote_current, log_vars
<1>7. Office(n)
  BY <1>6, StepDownLeavesOffice DEF Office, role_vars
<1>8. ClientInv(n)'
  BY <1>6, <1>7, ClientsKept DEF Office, Idle, LiveRole
<1>9. role[n] # "leader" => election_timer[n]
  BY DEF TimerInv, Live, Idle
<1>10. role[n] = "leader" => rearm
  BY DEF vote_rearms
<1> HIDE DEF higher, vote, grant, new_vote, hs, batch, rearm, reply
<1> QED
  BY <1>2, <1>3, <1>5, <1>6, <1>7, <1>8, <1>9, <1>10, ReplyService, OfficeService

LEMMA HigherResponseService ==
  ASSUME TypeOK, NEW n \in Node, TimerInv(n), ClientInv(n), NEW m \in msgs,
         Idle(n), on_higher_term_response(n, m)
  PROVE  Service(n)
<1> DEFINE hs == [term |-> m.term, vote |-> Nil]
           batch == [EmptyBatch EXCEPT !.hard_state = hs]
           pending == [batch |-> batch, after_success |-> Reply(TRUE, Nil)]
<1>1. m.term \in Nat
  BY MessageType
<1>2. hs \in HardState
  BY <1>1 DEF HardState
<1>3. batch \in PersistBatch
  BY <1>2, HardStateBatch
<1>4. Reply(TRUE, Nil) \in Continuation /\ Reply(TRUE, Nil).rearm = TRUE
  BY DEF Reply, Continuation
<1>5. pending # Nil /\ pending.after_success = Reply(TRUE, Nil)
  BY <1>3, <1>4, PendingIsSome
<1>6. /\ pending_storage' = [pending_storage EXCEPT ![n] = pending]
      /\ log' = log /\ pending_clients' = pending_clients /\ election_timer' = election_timer
      /\ step_down(n, Nil)
  BY DEF on_higher_term_response, begin_persist, log_vars
<1> HIDE DEF pending
<1>7. /\ pending_storage'[n] = pending
      /\ \A q \in Node \ {n} : pending_storage'[q] = pending_storage[q]
  BY <1>6, ServiceTypes
<1>8. Office(n) /\ role'[n] = "follower"
  BY <1>6, StepDownLeavesOffice
<1>9. ClientInv(n)'
  BY <1>6, <1>8, ClientsKept
<1> QED
  BY <1>4, <1>5, <1>6, <1>7, <1>8, <1>9, OfficeService

LEMMA AdoptLeaderLeavesOffice ==
  ASSUME TypeOK, NEW n \in Node, NEW m, adopt_leader(n, m)
  PROVE  Office(n) /\ role'[n] = "follower"
<1>1. CASE m.term > current_term[n] \/ role[n] # "follower"
  BY <1>1, StepDownLeavesOffice DEF adopt_leader
<1>2. CASE ~(m.term > current_term[n] \/ role[n] # "follower")
  BY <1>2 DEF adopt_leader, Office
<1> QED
  BY <1>1, <1>2

LEMMA AppendReplyType ==
  ASSUME TypeOK, NEW n \in Node, NEW m \in msgs, m.type = "AppendEntries"
  PROVE  /\ AdoptedHardState(n, m.term) \in HardState \cup {Nil}
         /\ \A success \in BOOLEAN, match \in Nat, index \in Nat, term \in Nat :
              AppendResponse(n, m, m.term, success, match, index, term) \in Message
<1>1. m \in AppendEntriesMsg
  BY MessageType
<1>2. m.term \in Nat /\ m.from \in Node /\ m.rpc_id \in Nat
  BY <1>1 DEF AppendEntriesMsg
<1>3. AdoptedHardState(n, m.term) \in HardState \cup {Nil}
  BY <1>2 DEF AdoptedHardState, HardState
<1> QED
  BY <1>2, <1>3 DEF AppendResponse, Message, AppendEntriesResponseMsg

LEMMA RejectService ==
  ASSUME TypeOK, NEW n \in Node, TimerInv(n), ClientInv(n), NEW m \in msgs,
         Idle(n), m.type = "AppendEntries", on_append_entries_reject(n, m)
  PROVE  Service(n)
<1> DEFINE batch == [EmptyBatch EXCEPT !.hard_state = AdoptedHardState(n, m.term)]
<1>1. batch \in PersistBatch
  BY AppendReplyType, HardStateBatch
<1>2. /\ adopt_leader(n, m) /\ log' = log /\ pending_clients' = pending_clients
  BY DEF on_append_entries_reject, log_vars
<1>3. PICK message \in Message : persist_then_reply(n, batch, Reply(TRUE, message))
  <2>1. log[n] \in Seq(Entry) /\ Len(log[n]) + 1 \in Nat
    BY VariableTypes, SMT
  <2>2. CASE persist_then_reply(n, batch, Reply(TRUE,
               AppendResponse(n, m, m.term, FALSE, 0, Len(log[n]) + 1, 0)))
    BY <2>1, <2>2, AppendReplyType
  <2>3. CASE \E first \in 1..m.prev_log_index :
               persist_then_reply(n, batch, Reply(TRUE,
                 AppendResponse(n, m, m.term, FALSE, 0, first,
                                term_at(log[n], m.prev_log_index))))
    <3>1. PICK first \in 1..m.prev_log_index :
               persist_then_reply(n, batch, Reply(TRUE,
                 AppendResponse(n, m, m.term, FALSE, 0, first,
                                term_at(log[n], m.prev_log_index))))
      BY <2>3
    <3>2. m.prev_log_index \in Nat
      BY MessageType DEF AppendEntriesMsg
    <3>3. first \in Nat /\ m.prev_log_index \in Int
      BY <3>2, SMT
    <3> QED
      BY <2>1, <3>1, <3>3, TermAtType, AppendReplyType
  <2> QED
    BY <2>2, <2>3 DEF on_append_entries_reject
<1>4. Office(n) /\ role'[n] = "follower"
  BY <1>2, AdoptLeaderLeavesOffice
<1>5. ClientInv(n)'
  BY <1>2, <1>4, ClientsKept
<1> HIDE DEF batch
<1> QED
  BY <1>1, <1>2, <1>3, <1>4, <1>5, ReplyService, OfficeService

\* A node that stops has told the waiting clients.
LEMMA FailStorageService ==
  ASSUME TypeOK, NEW n \in Node, fail_storage(n), log' = log
  PROVE  Service(n)
<1>1. /\ role'[n] = "unavailable" /\ pending_clients'[n] = {}
      /\ \A q \in Node \ {n} : ServiceKept(q)
  BY ServiceTypes DEF fail_storage, ServiceKept
<1> QED
  BY <1>1 DEF Service, TimerInv, ClientInv, Live, LiveRole

LEMMA AcceptService ==
  ASSUME TypeOK, NEW n \in Node, TimerInv(n), ClientInv(n), NEW m \in msgs,
         Idle(n), m.type = "AppendEntries", on_append_entries_accept(n, m)
  PROVE  Service(n)
<1> DEFINE at(k) == m.prev_log_index + k + 1
           new(k) == SubSeq(m.entries, k + 1, Len(m.entries))
           truncates(k) == new(k) # << >> /\ at(k) <= Len(log[n])
           match == m.prev_log_index + Len(m.entries)
           new_commit == learned_commit(m, match)
           batch(k) == [hard_state    |-> AdoptedHardState(n, m.term),
                        truncate_from |-> IF truncates(k) THEN at(k) ELSE 0,
                        entries       |-> new(k),
                        commit_index  |-> IF new_commit > commit_index[n]
                                          THEN new_commit ELSE 0]
           stops(k) == new(k) # << >> /\ at(k) <= commit_index[n]
<1>1. PICK k \in 0..Len(m.entries) :
        /\ ~missing(n, m) /\ incoming(n, m, k)
        /\ stops(k) => fail_storage(n) /\ log' = log
        /\ ~stops(k) =>
             /\ adopt_leader(n, m)
             /\ log' = [log EXCEPT ![n] =
                          IF new(k) = << >> THEN @ ELSE SubSeq(@, 1, at(k) - 1) \o new(k)]
             /\ pending_clients' = IF truncates(k) THEN remove_pending_from(n, at(k))
                                   ELSE pending_clients
             /\ persist_then_reply(n, batch(k), Reply(TRUE,
                  AppendResponse(n, m, m.term, TRUE, match, 0, 0)))
  BY DEF on_append_entries_accept
<1>2. m \in AppendEntriesMsg
  BY MessageType
<1>3. /\ at(k) \in Nat \ {0} /\ at(k) <= Len(log[n]) + 1 /\ new(k) \in Seq(Entry)
      /\ at(k) > Len(log[n]) => SubSeq(log[n], 1, at(k) - 1) = log[n]
  <2>1. /\ at(k) \in Nat \ {0} /\ at(k) - 1 <= Len(log[n]) /\ new(k) \in Seq(Entry)
        /\ at(k) > Len(log[n]) => SubSeq(log[n], 1, at(k) - 1) = log[n]
    BY <1>1, <1>2, AcceptedSuffix
  <2>2. log[n] \in Seq(Entry)
    BY VariableTypes, SMT
  <2> HIDE DEF at, new
  <2> QED
    BY <2>1, <2>2, SMT
<1>4. match \in Nat /\ new_commit \in Nat
  BY <1>2, SMT DEF AppendEntriesMsg, learned_commit, min
<1> HIDE DEF at, new, match, new_commit
<1>5. batch(k) \in PersistBatch
  BY <1>3, <1>4, AppendReplyType DEF PersistBatch
<1>6. CASE stops(k)
  BY <1>1, <1>6, FailStorageService
<1>7. CASE ~stops(k)
  <2>1. Office(n) /\ role'[n] = "follower"
    BY <1>1, <1>7, AdoptLeaderLeavesOffice
  <2>2. /\ log'[n] = IF new(k) = << >> THEN log[n] ELSE SubSeq(log[n], 1, at(k) - 1) \o new(k)
        /\ pending_clients'[n] = IF truncates(k) THEN {c \in pending_clients[n] : c.index < at(k)}
                                 ELSE pending_clients[n]
        /\ \A q \in Node \ {n} : log'[q] = log[q] /\ pending_clients'[q] = pending_clients[q]
    <3> HIDE DEF truncates, batch, stops
    <3> QED
      BY <1>1, <1>7, ServiceTypes DEF remove_pending_from
  <2>3. ClientInv(n)'
    <3>1. CASE new(k) = << >>
      BY <2>1, <2>2, <3>1, ClientsKept DEF truncates
    <3>2. CASE new(k) # << >>
      <4>1. \A c \in pending_clients'[n] : c.index < at(k)
        <5>1. CASE truncates(k)
          BY <2>2, <5>1
        <5>2. CASE ~truncates(k)
          <6>1. at(k) > Len(log[n]) /\ pending_clients'[n] = pending_clients[n]
            <7>1. log[n] \in Seq(Entry) /\ ~(at(k) <= Len(log[n]))
              BY <3>2, <5>2, ServiceTypes DEF truncates
            <7>2. at(k) > Len(log[n])
              BY <1>3, <7>1, SMT
            <7> QED
              BY <2>2, <5>2, <7>2
          <6>2. \A c \in pending_clients[n] : c.index \in 1..Len(log[n])
            BY DEF ClientInv
          <6>3. Len(log[n]) \in Nat
            BY ServiceTypes, SMT
          <6> QED
            BY <1>3, <6>1, <6>2, <6>3, SMT
        <5> QED
          BY <5>1, <5>2
      <4>2. pending_clients'[n] \subseteq pending_clients[n]
        BY <2>2
      <4>3. log'[n] = SubSeq(log[n], 1, at(k) - 1) \o new(k)
        BY <2>2, <3>2
      <4> QED
        BY <1>3, <2>1, <4>1, <4>2, <4>3, ClientsReplaced
    <3> QED
      BY <3>1, <3>2
  <2>4. AppendResponse(n, m, m.term, TRUE, match, 0, 0) \in Message
    BY <1>4, AppendReplyType
  <2>5. persist_then_reply(n, batch(k), Reply(TRUE,
          AppendResponse(n, m, m.term, TRUE, match, 0, 0)))
    BY <1>1, <1>7
  <2> HIDE DEF batch, stops, truncates
  <2> QED
    BY <1>5, <2>1, <2>2, <2>3, <2>4, <2>5, ReplyService, OfficeService
<1> QED
  BY <1>6, <1>7

-----------------------------------------------------------------------------
(* Elections and acknowledgements *)

LEMMA ReceiveVoteService ==
  ASSUME TypeOK, NEW n \in Node, TimerInv(n), ClientInv(n), NEW m,
         Idle(n), receive_vote(n, m)
  PROVE  Service(n)
<1> DEFINE no_op == [term |-> current_term[n], command |-> Nil]
           batch == [EmptyBatch EXCEPT !.entries = <<no_op>>]
           pending == [batch |-> batch, after_success |-> Resume("become_leader")]
<1>1. /\ role[n] = "candidate" /\ pending_clients' = pending_clients
      /\ heartbeat_timer' = heartbeat_timer
  BY DEF receive_vote
<1>2. election_timer[n]
  BY <1>1 DEF TimerInv, Live, Idle
<1>3. CASE ~IsQuorum(votes_received[n] \cup {m.from})
  <2>1. UNCHANGED <<role, log, pending_storage, pending_clients, timer_vars>>
    BY <1>3 DEF receive_vote, timer_vars
  <2> QED
    BY <2>1, ServiceUnchanged
<1>4. CASE IsQuorum(votes_received[n] \cup {m.from}) /\ ~can_append(n)
  <2>1. /\ role' = [role EXCEPT ![n] = "follower"]
        /\ election_timer' = [election_timer EXCEPT ![n] = TRUE]
        /\ UNCHANGED <<log, pending_storage>>
    BY <1>4 DEF receive_vote, become_leader
  <2>2. /\ role'[n] = "follower" /\ election_timer'[n] = TRUE
        /\ \A q \in Node \ {n} : role'[q] = role[q] /\ election_timer'[q] = election_timer[q]
    BY <2>1, ServiceTypes
  <2>3. ClientInv(n)'
    BY <1>1, <2>1, <2>2, ClientsKept
  <2> QED
    BY <1>1, <2>1, <2>2, <2>3 DEF Service, ServiceKept, TimerInv
<1>5. CASE IsQuorum(votes_received[n] \cup {m.from}) /\ can_append(n)
  <2>1. no_op \in Entry /\ no_op.command = Nil
    BY VariableTypes DEF Entry
  <2>2. batch \in PersistBatch
    <3> HIDE DEF no_op
    <3>1. <<no_op>> \in Seq(Entry)
      BY <2>1, SMT
    <3> QED
      BY <3>1, EntriesBatch
  <2>3. Resume("become_leader") \in Continuation /\ Resume("become_leader").kind = "become_leader"
    BY DEF Resume, Continuation
  <2>4. pending # Nil /\ pending.after_success.kind = "become_leader"
    BY <2>2, <2>3, PendingIsSome
  <2>5. /\ role' = [role EXCEPT ![n] = "leader"]
        /\ election_timer' = [election_timer EXCEPT ![n] = FALSE]
        /\ log' = [log EXCEPT ![n] = Append(@, no_op)]
        /\ pending_storage' = [pending_storage EXCEPT ![n] = pending]
    BY <1>5 DEF receive_vote, become_leader, begin_persist
  <2> HIDE DEF pending, no_op
  <2>6. /\ role'[n] = "leader" /\ log'[n] = Append(log[n], no_op)
        /\ pending_storage'[n] = pending
        /\ \A q \in Node \ {n} : /\ role'[q] = role[q] /\ election_timer'[q] = election_timer[q]
                                 /\ log'[q] = log[q] /\ pending_storage'[q] = pending_storage[q]
    BY <2>5, ServiceTypes
  <2>7. ClientInv(n)'
    BY <1>1, <2>1, <2>6, ClientsExtended, SMT
  <2>8. TimerInv(n)'
    BY <2>4, <2>6 DEF TimerInv, Kind
  <2> QED
    BY <1>1, <2>6, <2>7, <2>8 DEF Service, ServiceKept
<1> QED
  BY <1>3, <1>4, <1>5

LEMMA AdvanceOthers ==
  ASSUME TypeOK, NEW n \in Node, NEW progress, NEW last, maybe_advance_commit(n, progress, last)
  PROVE  \A q \in Node \ {n} : pending_storage'[q] = pending_storage[q]
<1>1. \E p : pending_storage' = [pending_storage EXCEPT ![n] = p]
  BY DEF maybe_advance_commit, begin_persist
<1> QED
  BY <1>1, ServiceTypes

\* A leader that stays one, with its heartbeat.
LEMMA LeaderService ==
  ASSUME NEW n \in Node, ClientInv(n), role[n] = "leader", heartbeat_timer'[n],
         role' = role, log' = log, election_timer' = election_timer,
         pending_clients'[n] \subseteq pending_clients[n],
         \A q \in Node \ {n} : /\ pending_storage'[q] = pending_storage[q]
                              /\ heartbeat_timer'[q] = heartbeat_timer[q]
                              /\ pending_clients'[q] = pending_clients[q]
  PROVE  Service(n)
<1>1. ClientInv(n)'
  BY ClientsKept
<1>2. TimerInv(n)'
  BY DEF TimerInv
<1> QED
  BY <1>1, <1>2 DEF Service, ServiceKept

LEMMA AppendResponseService ==
  ASSUME TypeOK, NEW n \in Node, TimerInv(n), ClientInv(n), NEW m \in msgs,
         on_append_entries_response(n, m)
  PROVE  Service(n)
<1>1. CASE on_higher_term_response(n, m)
  BY <1>1, HigherResponseService DEF on_append_entries_response
<1>2. CASE ~on_higher_term_response(n, m)
  <2>1. /\ Idle(n) /\ role[n] = "leader"
        /\ on_append_success(n, m.from, m) \/ on_append_failure(n, m.from, m)
        /\ UNCHANGED <<log, role_vars, timer_vars, pending_clients>>
    BY <1>2 DEF on_append_entries_response
  <2>2. heartbeat_timer[n]
    BY <2>1 DEF TimerInv, Live, Idle
  <2>3. \A q \in Node \ {n} : pending_storage'[q] = pending_storage[q]
    BY <2>1, AdvanceOthers DEF on_append_success, on_append_failure
  <2> QED
    BY <2>1, <2>2, <2>3, LeaderService DEF role_vars, timer_vars
<1> QED
  BY <1>1, <1>2

-----------------------------------------------------------------------------
(* Storage, crash and restart *)

LEMMA ApplyClients ==
  ASSUME TypeOK, NEW n \in Node,
         apply_committed(n) \/ pending_clients' = pending_clients
  PROVE  /\ pending_clients'[n] \subseteq pending_clients[n]
         /\ \A q \in Node \ {n} : pending_clients'[q] = pending_clients[q]
  BY ServiceTypes DEF apply_committed

LEMMA CompleteReplyService ==
  ASSUME TypeOK, NEW n \in Node, TimerInv(n), ClientInv(n), complete_reply(n)
  PROVE  Service(n)
<1> DEFINE a == pending_storage[n].after_success
<1>1. /\ Live(n) /\ Kind(n) = "reply"
      /\ UNCHANGED <<role, log, heartbeat_timer>>
      /\ pending_storage' = [pending_storage EXCEPT ![n] = Nil]
      /\ election_timer' = IF a.rearm THEN [election_timer EXCEPT ![n] = TRUE] ELSE election_timer
      /\ apply_committed(n) \/ pending_clients' = pending_clients
  BY DEF complete_reply, Resumes, run_reply, Kind, Live, role_vars
<1>2. /\ a.rearm \/ election_timer[n] => election_timer'[n]
      /\ \A q \in Node \ {n} : /\ election_timer'[q] = election_timer[q]
                               /\ pending_storage'[q] = pending_storage[q]
  BY <1>1, ServiceTypes
<1>3. IF role[n] = "leader" THEN heartbeat_timer[n] ELSE election_timer[n] \/ a.rearm
  <2>1. "reply" # "become_leader" /\ "reply" # "begin_election"
    BY SMT
  <2> QED
    BY <1>1, <2>1 DEF TimerInv
<1>4. TimerInv(n)'
  BY <1>1, <1>2, <1>3 DEF TimerInv
<1>5. ClientInv(n)'
  BY <1>1, ApplyClients, ClientsKept
<1> QED
  BY <1>1, <1>2, <1>4, <1>5, ApplyClients DEF Service, ServiceKept

LEMMA CompleteElectionService ==
  ASSUME TypeOK, NEW n \in Node, ShapeInv(n), ClientInv(n), complete_election(n)
  PROVE  Service(n)
<1>1. /\ role[n] = "candidate"
      /\ UNCHANGED <<role, log, heartbeat_timer, pending_clients>>
      /\ pending_storage' = [pending_storage EXCEPT ![n] = Nil]
      /\ election_timer' = [election_timer EXCEPT ![n] = TRUE]
  BY DEF complete_election, Resumes, ShapeInv, Kind, role_vars
<1>2. /\ election_timer'[n]
      /\ \A q \in Node \ {n} : /\ election_timer'[q] = election_timer[q]
                               /\ pending_storage'[q] = pending_storage[q]
  BY <1>1, ServiceTypes
<1>3. TimerInv(n)'
  BY <1>1, <1>2 DEF TimerInv
<1>4. ClientInv(n)'
  BY <1>1, ClientsKept
<1> QED
  BY <1>1, <1>2, <1>3, <1>4 DEF Service, ServiceKept

LEMMA CompleteAppendService ==
  ASSUME TypeOK, NEW n \in Node, ShapeInv(n), TimerInv(n), ClientInv(n), complete_append(n)
  PROVE  Service(n)
<1>1. /\ role[n] = "leader" /\ Live(n)
      /\ Kind(n) \in {"become_leader", "on_client_request"} /\ pending_storage[n] # Nil
      /\ UNCHANGED <<role, log, election_timer, pending_clients>>
      /\ heartbeat_timer' = IF Kind(n) = "become_leader"
                            THEN [heartbeat_timer EXCEPT ![n] = TRUE] ELSE heartbeat_timer
      /\ maybe_advance_commit(n, peers[n], Len(log[n]))
  BY DEF complete_append, Resumes, ShapeInv, Kind, Live, role_vars
<1>2. /\ heartbeat_timer'[n]
      /\ \A q \in Node \ {n} : heartbeat_timer'[q] = heartbeat_timer[q]
  BY <1>1, ServiceTypes DEF TimerInv
<1> QED
  BY <1>1, <1>2, AdvanceOthers, LeaderService

LEMMA CompleteCommitService ==
  ASSUME TypeOK, NEW n \in Node, ShapeInv(n), TimerInv(n), ClientInv(n), complete_commit(n)
  PROVE  Service(n)
<1>1. /\ role[n] = "leader" /\ Live(n) /\ Kind(n) = "maybe_advance_commit"
      /\ UNCHANGED <<role, log, timer_vars>> /\ apply_committed(n)
      /\ pending_storage' = [pending_storage EXCEPT ![n] = Nil]
  BY DEF complete_commit, Resumes, ShapeInv, Kind, Live
<1>2. heartbeat_timer[n]
  BY <1>1 DEF TimerInv
<1>3. \A q \in Node \ {n} : pending_storage'[q] = pending_storage[q]
  BY <1>1, ServiceTypes
<1> QED
  BY <1>1, <1>2, <1>3, ApplyClients, LeaderService DEF timer_vars

LEMMA CrashService ==
  ASSUME TypeOK, NEW n \in Node, crash(n)
  PROVE  Service(n)
<1>1. /\ role'[n] = "down" /\ pending_clients'[n] = {}
      /\ \A q \in Node \ {n} : ServiceKept(q)
  BY ServiceTypes DEF crash, ServiceKept
<1> QED
  BY <1>1 DEF Service, TimerInv, ClientInv, Live, LiveRole

LEMMA RestartService ==
  ASSUME TypeOK, NEW n \in Node, ClientInv(n), restart(n)
  PROVE  Service(n)
<1>1. /\ role'[n] = "follower" /\ election_timer'[n] /\ pending_clients'[n] = {}
      /\ \A q \in Node \ {n} : ServiceKept(q)
  BY ServiceTypes DEF restart, ServiceKept, ClientInv
<1> QED
  BY <1>1 DEF Service, TimerInv, ClientInv

LEMMA StorageService ==
  ASSUME TypeOK, NEW n \in Node, ShapeInv(n), TimerInv(n), ClientInv(n), on_storage_complete(n)
  PROVE  Service(n)
<1>1. on_storage_failure(n) => fail_storage(n) /\ log' = log
  BY DEF on_storage_failure, log_vars
<1> QED
  BY <1>1, CompleteReplyService, CompleteElectionService, CompleteAppendService,
     CompleteCommitService, FailStorageService DEF on_storage_complete

LEMMA MessageService ==
  ASSUME TypeOK, NEW m \in msgs, TimerInv(m.to), ClientInv(m.to), on_message(m.to, m)
  PROVE  m.to \in Node /\ Service(m.to)
<1>1. m.to \in Node
  BY MessageType
<1>2. CASE on_request_vote(m.to, m)
  BY <1>1, <1>2, StaleService, VoteService DEF on_request_vote
<1>3. CASE on_request_vote_response(m.to, m)
  BY <1>1, <1>3, HigherResponseService, ReceiveVoteService DEF on_request_vote_response
<1>4. CASE on_append_entries(m.to, m)
  BY <1>1, <1>4, StaleService, RejectService, AcceptService DEF on_append_entries
<1>5. CASE on_append_entries_response(m.to, m)
  BY <1>1, <1>5, AppendResponseService
<1> QED
  BY <1>1, <1>2, <1>3, <1>4, <1>5 DEF on_message

LEMMA NextService ==
  ASSUME TypeOK, LocalInv, ServiceInv, [Next]_vars
  PROVE  ServiceInv'
<1>1. CASE UNCHANGED vars
  BY <1>1 DEF ServiceInv, TimerInv, ClientInv, Live, Kind, vars, role_vars, log_vars,
                     timer_vars
<1>2. CASE Next
  <2>1. \A m \in msgs : m.to \in Node
    BY MessageType
  <2>2. PICK n \in Node : Service(n)
    <3>1. CASE \E m \in msgs : on_message(m.to, m)
      BY <2>1, <3>1, MessageService DEF ServiceInv
    <3>2. ASSUME NEW n \in Node, begin_election(n)
          PROVE  Service(n)
      BY <3>2, BeginElectionService DEF ServiceInv
    <3>3. ASSUME NEW n \in Node, on_election_timer_leader(n) \/ on_heartbeat_timer(n)
          PROVE  Service(n)
      BY <3>3, LeaderTimerService DEF ServiceInv
    <3>4. ASSUME NEW n \in Node, NEW c \in Command, on_client_request(n, c)
          PROVE  Service(n)
      BY <3>4, ClientRequestService DEF ServiceInv
    <3>5. ASSUME NEW n \in Node, on_storage_complete(n) \/ crash(n) \/ restart(n)
          PROVE  Service(n)
      BY <3>5, StorageService, CrashService, RestartService DEF ServiceInv, LocalInv
    <3> QED
      BY <1>2, <3>1, <3>2, <3>3, <3>4, <3>5 DEF Next
  <2>3. ASSUME NEW q \in Node \ {n}
        PROVE  TimerInv(q)' /\ ClientInv(q)'
    <3>1. TimerInv(q) /\ ClientInv(q)
      BY DEF ServiceInv
    <3>2. ServiceKept(q)
      BY <2>2 DEF Service
    <3>3. TimerInv(q)'
      BY <3>1, <3>2 DEF ServiceKept, TimerInv, Live, Kind
    <3>4. ClientInv(q)'
      BY <3>1, <3>2 DEF ServiceKept, ClientInv
    <3> QED
      BY <3>3, <3>4
  <2> QED
    BY <2>2, <2>3 DEF Service, ServiceInv
<1> QED
  BY <1>1, <1>2

LEMMA InitService == Init => ServiceInv
  BY DEF Init, ServiceInv, TimerInv, ClientInv

LEMMA ServiceIsInv == TypeOK /\ ServiceInv => TimerOwned /\ PendingClientsMatchLog
<1> SUFFICES ASSUME TypeOK, ServiceInv
             PROVE  TimerOwned /\ PendingClientsMatchLog
  OBVIOUS
<1>1. TimerOwned
  BY DEF ServiceInv, TimerInv, TimerOwned, Live, Kind
<1>2. ASSUME NEW n \in Node, NEW c \in pending_clients[n]
      PROVE  c.index <= Len(log[n]) /\ log[n][c.index].command = c.command
  <2>1. c.index \in 1..Len(log[n]) /\ log[n][c.index].command = c.command
    BY <1>2 DEF ServiceInv, ClientInv
  <2>2. Len(log[n]) \in Nat
    BY ServiceTypes, SMT
  <2> QED
    BY <2>1, <2>2, SMT
<1> QED
  BY <1>1, <1>2 DEF PendingClientsMatchLog
=============================================================================
