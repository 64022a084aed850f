--------------------------- MODULE RaftBaseProofs ---------------------------
(***************************************************************************)
(* Proofs about Raft, first part: facts about operators, messages, media   *)
(* and logs that the other parts use.                                      *)
(***************************************************************************)
EXTENDS RaftInvariants, TLAPS

\* The leaves are proved with Zenon unless they cite another prover.
USE Zenon

\* The types of the variables, in a state and after a step.
LEMMA VariableTypes == TypeOK <=>
  /\ role \in [Node -> Role]
  /\ current_term \in [Node -> Nat]
  /\ voted_for \in [Node -> Node \cup {Nil}]
  /\ log \in [Node -> Seq(Entry)]
  /\ commit_index \in [Node -> Nat]
  /\ last_applied \in [Node -> Nat]
  /\ durable_last_log_index \in [Node -> Nat]
  /\ leader_hint \in [Node -> Node \cup {Nil}]
  /\ leader_ready \in [Node -> BOOLEAN]
  /\ readiness_index \in [Node -> Nat]
  /\ votes_received \in [Node -> SUBSET Node]
  /\ peers \in [Node -> [Node -> PeerProgress]]
  /\ next_rpc_id \in [Node -> [Node -> Nat]]
  /\ pending_clients \in [Node -> SUBSET [index : Nat, command : Command]]
  /\ pending_storage \in [Node -> PendingStorage \cup {Nil}]
  /\ election_timer \in [Node -> BOOLEAN]
  /\ heartbeat_timer \in [Node -> BOOLEAN]
  /\ disk \in [Node -> DiskState]
  /\ msgs \subseteq Message
  /\ elected \subseteq Nat \X Node
  /\ committed \in Seq([entry : Entry, term : Nat])
  /\ elections \in Nat
  /\ late \in Nat
  /\ faults \in Nat
  BY DEF TypeOK

LEMMA TypesNext == TypeOK' <=>
  /\ role' \in [Node -> Role]
  /\ current_term' \in [Node -> Nat]
  /\ voted_for' \in [Node -> Node \cup {Nil}]
  /\ log' \in [Node -> Seq(Entry)]
  /\ commit_index' \in [Node -> Nat]
  /\ last_applied' \in [Node -> Nat]
  /\ durable_last_log_index' \in [Node -> Nat]
  /\ leader_hint' \in [Node -> Node \cup {Nil}]
  /\ leader_ready' \in [Node -> BOOLEAN]
  /\ readiness_index' \in [Node -> Nat]
  /\ votes_received' \in [Node -> SUBSET Node]
  /\ peers' \in [Node -> [Node -> PeerProgress]]
  /\ next_rpc_id' \in [Node -> [Node -> Nat]]
  /\ pending_clients' \in [Node -> SUBSET [index : Nat, command : Command]]
  /\ pending_storage' \in [Node -> PendingStorage \cup {Nil}]
  /\ election_timer' \in [Node -> BOOLEAN]
  /\ heartbeat_timer' \in [Node -> BOOLEAN]
  /\ disk' \in [Node -> DiskState]
  /\ msgs' \subseteq Message
  /\ elected' \subseteq Nat \X Node
  /\ committed' \in Seq([entry : Entry, term : Nat])
  /\ elections' \in Nat
  /\ late' \in Nat
  /\ faults' \in Nat
  BY DEF TypeOK

LEMMA SeqElement ==
  ASSUME NEW S, NEW s \in Seq(S), NEW i \in 1..Len(s)
  PROVE  s[i] \in S
  BY SMT

-----------------------------------------------------------------------------
(* Operators, messages and media *)

LEMMA ApplyBatchIsMemory ==
  ASSUME TypeOK, NEW n \in Node, pending_storage[n] # Nil, NodeInv(n)
  PROVE  ApplyBatch(disk[n], pending_storage[n].batch) =
           [term |-> current_term[n], vote |-> voted_for[n],
            log |-> log[n], commit |-> commit_index[n]]
<1> DEFINE b == pending_storage[n].batch
           a == ApplyBatch(disk[n], b)
<1>1. b \in PersistBatch
  BY VariableTypes DEF PendingStorage
<1>2. b.hard_state # Nil => b.hard_state.term = current_term[n] /\ b.hard_state.vote = voted_for[n]
  BY DEF NodeInv, BatchInv
<1>3. a = [term |-> a.term, vote |-> a.vote, log |-> a.log, commit |-> a.commit]
  BY DEF ApplyBatch
<1>4. a.term = current_term[n] /\ a.vote = voted_for[n]
  BY <1>2 DEF ApplyBatch, NodeInv, BatchInv
<1>5. a.log = log[n] /\ a.commit = commit_index[n]
  BY DEF ApplyBatch, NodeInv, BatchInv
<1> QED
  BY <1>3, <1>4, <1>5

LEMMA TermAtType ==
  ASSUME NEW l \in Seq(Entry), NEW i \in Int
  PROVE  term_at(l, i) \in Nat
<1>1. i \in 1..Len(l) => l[i] \in Entry
  BY SMT
<1>2. \A e \in Entry : e.term \in Nat
  BY DEF Entry
<1> QED
  BY <1>1, <1>2 DEF term_at

LEMMA SubSeqType ==
  ASSUME NEW S, NEW s \in Seq(S), NEW a \in Nat \ {0}, NEW b \in Int, b <= Len(s)
  PROVE  SubSeq(s, a, b) \in Seq(S)
<1>1. \A i \in a..b : s[i] \in S
  BY SMT
<1> QED
  BY <1>1, SMT

LEMMA EmptyBatchType == EmptyBatch \in PersistBatch
  BY SMT DEF EmptyBatch, PersistBatch

\* The batches that hold one thing.
LEMMA HardStateBatch ==
  ASSUME NEW hs \in HardState \cup {Nil}, NEW b, b = [EmptyBatch EXCEPT !.hard_state = hs]
  PROVE  /\ b \in PersistBatch
         /\ b.hard_state = hs /\ b.truncate_from = 0
         /\ b.entries = << >> /\ b.commit_index = 0
<1>1. /\ EmptyBatch.truncate_from = 0 /\ EmptyBatch.entries = << >>
      /\ EmptyBatch.commit_index = 0
  BY DEF EmptyBatch
<1> QED
  BY <1>1, EmptyBatchType DEF PersistBatch

LEMMA EntriesBatch ==
  ASSUME NEW es \in Seq(Entry), NEW b, b = [EmptyBatch EXCEPT !.entries = es]
  PROVE  /\ b \in PersistBatch
         /\ b.hard_state = Nil /\ b.truncate_from = 0
         /\ b.entries = es /\ b.commit_index = 0
  BY DEF EmptyBatch, PersistBatch

LEMMA MessageType ==
  ASSUME TypeOK, NEW m \in msgs
  PROVE  /\ m.from \in Node /\ m.to \in Node /\ m.term \in Nat
         /\ m.type = "RequestVote" => m \in RequestVoteMsg
         /\ m.type = "RequestVoteResponse" => m \in RequestVoteResponseMsg
         /\ m.type = "AppendEntries" => m \in AppendEntriesMsg
         /\ m.type = "AppendEntriesResponse" => m \in AppendEntriesResponseMsg
<1>1. m \in Message
  BY VariableTypes
<1> QED
  BY <1>1 DEF Message, RequestVoteMsg, RequestVoteResponseMsg, AppendEntriesMsg,
              AppendEntriesResponseMsg

LEMMA IdleNode ==
  ASSUME TypeOK, LocalInv, NEW n \in Node, Idle(n)
  PROVE  /\ pending_storage[n] = Nil /\ role[n] \in LiveRole
         /\ IdleInv(current_term[n], voted_for[n], log[n], commit_index[n], disk[n])
         /\ durable_last_log_index[n] = Len(disk[n].log)
         /\ last_applied[n] = disk[n].commit
         /\ disk[n] \in DiskState
         /\ disk[n].term \in Nat /\ disk[n].vote \in Node \cup {Nil}
         /\ disk[n].log \in Seq(Entry) /\ disk[n].commit \in Nat
<1>1. /\ pending_storage[n] = Nil /\ role[n] \in LiveRole /\ NodeInv(n)
  BY DEF LocalInv, Idle, Live
<1>2. disk[n] \in DiskState
  BY VariableTypes
<1>3. /\ disk[n].term \in Nat /\ disk[n].vote \in Node \cup {Nil}
      /\ disk[n].log \in Seq(Entry) /\ disk[n].commit \in Nat
  BY <1>2 DEF DiskState
<1> QED
  BY <1>1, <1>2, <1>3 DEF NodeInv

LEMMA BackedOffType ==
  ASSUME NEW hinted \in Nat, NEW next \in Nat, NEW match \in Nat, NEW last \in Nat
  PROVE  max(min(IF hinted = 0 THEN max(1, next - 1) ELSE hinted, last + 1), match + 1) \in Nat
  BY SMT DEF max, min

\* The log and the batch of an accepted AppendEntries.
LEMMA AcceptedSuffix ==
  ASSUME TypeOK, NEW n \in Node, NEW m \in AppendEntriesMsg, NEW k \in 0..Len(m.entries),
         ~missing(n, m), incoming(n, m, k)
  PROVE  LET at == m.prev_log_index + k + 1
             new == SubSeq(m.entries, k + 1, Len(m.entries))
         IN /\ at \in Nat \ {0} /\ at - 1 <= Len(log[n])
            /\ new \in Seq(Entry)
            /\ SubSeq(log[n], 1, at - 1) \o new \in Seq(Entry)
            /\ at > Len(log[n]) => SubSeq(log[n], 1, at - 1) = log[n]
<1> DEFINE at == m.prev_log_index + k + 1
           new == SubSeq(m.entries, k + 1, Len(m.entries))
<1>1. /\ m.prev_log_index \in Nat /\ m.entries \in Seq(Entry) /\ k \in Nat
      /\ log[n] \in Seq(Entry) /\ Len(log[n]) \in Nat
  BY VariableTypes, SMTT(30) DEF AppendEntriesMsg
<1>2. at \in Nat \ {0}
  BY <1>1, SMT
<1>3. at - 1 <= Len(log[n])
  <2>1. CASE k = 0
    BY <1>1, <2>1, SMT DEF missing
  <2>2. CASE k # 0
    <3>1. m.prev_log_index + k <= Len(log[n])
      BY <1>1, <2>2, SMT DEF incoming
    <3> QED
      BY <1>1, <3>1, SMT
  <2> QED
    BY <2>1, <2>2
<1>4. new \in Seq(Entry)
  BY <1>1, SubSeqType, SMT
<1>5. SubSeq(log[n], 1, at - 1) \in Seq(Entry)
  <2>1. at - 1 \in Int
    BY <1>2, SMT
  <2> HIDE DEF at
  <2> QED
    BY <1>1, <1>3, <2>1, SubSeqType, SMT
<1>6. at > Len(log[n]) => SubSeq(log[n], 1, at - 1) = log[n]
  <2> HIDE DEF at
  <2>1. at > Len(log[n]) => at - 1 = Len(log[n])
    BY <1>1, <1>2, <1>3, SMT
  <2> QED
    BY <1>1, <2>1, SMT
<1> HIDE DEF at, new
<1>7. SubSeq(log[n], 1, at - 1) \o new \in Seq(Entry)
  BY <1>4, <1>5, SMT
<1> QED
  BY <1>2, <1>3, <1>4, <1>6, <1>7 DEF at, new

\* Once the outstanding batch is on the medium, the medium holds memory.
LEMMA DurableIsMemory ==
  ASSUME TypeOK, LocalInv, NEW n \in Node, Live(n), pending_storage[n] # Nil, Durable(n)
  PROVE  /\ disk' \in [Node -> DiskState]
         /\ durable_last_log_index' \in [Node -> Nat]
         /\ \A q \in Node \ {n} : /\ disk'[q] = disk[q]
                                  /\ durable_last_log_index'[q] = durable_last_log_index[q]
         /\ IdleInv(current_term[n], voted_for[n], log[n], commit_index[n], disk'[n])
         /\ durable_last_log_index'[n] = Len(disk'[n].log)
<1> DEFINE memory == [term |-> current_term[n], vote |-> voted_for[n],
                      log |-> log[n], commit |-> commit_index[n]]
           b == pending_storage[n].batch
<1>1. NodeInv(n)
  BY DEF LocalInv
<1>2. disk' = [disk EXCEPT ![n] = memory]
  BY <1>1, ApplyBatchIsMemory DEF Durable
<1>3. memory \in DiskState
  BY VariableTypes DEF DiskState
<1>4. memory.term = current_term[n] /\ memory.vote = voted_for[n] /\ memory.log = log[n]
      /\ memory.commit = commit_index[n]
  OBVIOUS
<1> HIDE DEF memory
<1>5. /\ disk' \in [Node -> DiskState] /\ disk'[n] = memory
      /\ \A q \in Node \ {n} : disk'[q] = disk[q]
  BY <1>2, <1>3, VariableTypes
<1>6. IdleInv(current_term[n], voted_for[n], log[n], commit_index[n], disk'[n])
  BY <1>4, <1>5 DEF IdleInv
<1>7. log[n] \in Seq(Entry) /\ disk[n].log \in Seq(Entry) /\ durable_last_log_index \in [Node -> Nat]
  <2>1. log[n] \in Seq(Entry) /\ disk[n] \in DiskState
    BY VariableTypes
  <2> QED
    BY <2>1, VariableTypes DEF DiskState
<1>8. CASE b.truncate_from # 0 \/ b.entries # << >>
  <2>1. durable_last_log_index' = [durable_last_log_index EXCEPT ![n] = Len(log[n])]
    BY <1>8 DEF Durable
  <2>2. /\ durable_last_log_index' \in [Node -> Nat]
        /\ durable_last_log_index'[n] = Len(log[n])
        /\ \A q \in Node \ {n} : durable_last_log_index'[q] = durable_last_log_index[q]
    BY <1>7, <2>1, SMT
  <2> QED
    BY <1>4, <1>5, <1>6, <2>2
<1>9. CASE ~(b.truncate_from # 0 \/ b.entries # << >>)
  <2>1. durable_last_log_index' = durable_last_log_index
    BY <1>9 DEF Durable
  <2>2. log[n] = disk[n].log \o << >> /\ durable_last_log_index[n] = Len(disk[n].log)
    BY <1>1, <1>9 DEF NodeInv, BatchInv
  <2>3. log[n] = disk[n].log
    BY <1>7, <2>2, SMT
  <2> QED
    BY <1>4, <1>5, <1>6, <1>7, <2>1, <2>2, <2>3
<1> QED
  BY <1>8, <1>9

\* The state machine reaches the commit index with the batch that persists it.
LEMMA AppliedIsCommitted ==
  ASSUME TypeOK, LocalInv, NEW n \in Node, Live(n), pending_storage[n] # Nil
  PROVE  /\ apply_committed(n) =>
              /\ last_applied' \in [Node -> Nat]
              /\ last_applied'[n] = commit_index[n]
              /\ \A q \in Node \ {n} : last_applied'[q] = last_applied[q]
              /\ pending_clients' \in [Node -> SUBSET [index : Nat, command : Command]]
         /\ pending_storage[n].batch.commit_index = 0 => last_applied[n] = commit_index[n]
<1>1. NodeInv(n)
  BY DEF LocalInv
<1>2. /\ last_applied[n] = disk[n].commit /\ commit_index[n] >= disk[n].commit
      /\ pending_storage[n].batch.commit_index = 0 => commit_index[n] = disk[n].commit
  BY <1>1 DEF NodeInv, BatchInv
<1>3. last_applied[n] \in Nat /\ commit_index[n] \in Nat
  BY VariableTypes
<1>4. max(last_applied[n], commit_index[n]) = commit_index[n]
  BY <1>2, <1>3, SMT DEF max
<1>5. ASSUME apply_committed(n)
      PROVE  /\ last_applied' \in [Node -> Nat]
             /\ last_applied'[n] = commit_index[n]
             /\ \A q \in Node \ {n} : last_applied'[q] = last_applied[q]
  <2>1. last_applied' = [last_applied EXCEPT ![n] = commit_index[n]]
    BY <1>4, <1>5 DEF apply_committed
  <2> QED
    BY <1>3, <2>1, VariableTypes
<1>6. ASSUME apply_committed(n)
      PROVE  pending_clients' \in [Node -> SUBSET [index : Nat, command : Command]]
  BY <1>6, VariableTypes DEF apply_committed
<1> QED
  BY <1>2, <1>5, <1>6

\* What a failed or interrupted operation may leave on the medium.
LEMMA MediumType ==
  ASSUME TypeOK, LocalInv, NEW n \in Node, pending_storage[n] # Nil,
         disk' \in {disk, [disk EXCEPT ![n] = ApplyBatch(@, pending_storage[n].batch)]}
  PROVE  /\ disk' \in [Node -> DiskState]
         /\ \A q \in Node \ {n} : disk'[q] = disk[q]
         /\ disk'[n] \in {disk[n], [term |-> current_term[n], vote |-> voted_for[n],
                                    log |-> log[n], commit |-> commit_index[n]]}
<1> DEFINE memory == [term |-> current_term[n], vote |-> voted_for[n],
                      log |-> log[n], commit |-> commit_index[n]]
<1>1. NodeInv(n)
  BY DEF LocalInv, ShapeInv
<1>2. disk' \in {disk, [disk EXCEPT ![n] = memory]}
  BY <1>1, ApplyBatchIsMemory
<1>3. memory \in DiskState
  BY VariableTypes DEF DiskState
<1> HIDE DEF memory
<1>4. disk \in [Node -> DiskState]
  BY VariableTypes
<1> DEFINE goal == /\ disk' \in [Node -> DiskState]
                   /\ \A q \in Node \ {n} : disk'[q] = disk[q]
                   /\ disk'[n] \in {disk[n], memory}
<1>5. ASSUME disk' = disk PROVE goal
  BY <1>4, <1>5
<1>6. ASSUME disk' = [disk EXCEPT ![n] = memory] PROVE goal
  <2>1. disk' \in [Node -> DiskState]
    BY <1>3, <1>4, <1>6
  <2>2. \A q \in Node \ {n} : disk'[q] = disk[q]
    BY <1>4, <1>6
  <2>3. disk'[n] = memory
    BY <1>4, <1>6
  <2> QED
    BY <2>1, <2>2, <2>3
<1>7. goal
  BY <1>2, <1>5, <1>6
<1> QED
  BY <1>7 DEF memory

\* A step changes a medium only by putting the outstanding batch on it.
LEMMA MediumStep ==
  ASSUME TypeOK, [Next]_vars, NEW q \in Node
  PROVE  \/ disk'[q] = disk[q]
         \/ pending_storage[q] # Nil /\ disk'[q] = ApplyBatch(disk[q], pending_storage[q].batch)
<1> DEFINE kept == disk'[q] = disk[q]
           written(n) == /\ pending_storage[n] # Nil
                         /\ disk' = [disk EXCEPT ![n] = ApplyBatch(@, pending_storage[n].batch)]
<1>1. ASSUME NEW n \in Node, written(n)
      PROVE  kept \/ (pending_storage[q] # Nil
                       /\ disk'[q] = ApplyBatch(disk[q], pending_storage[q].batch))
  BY <1>1, VariableTypes
<1>2. ASSUME NEW m \in msgs, NEW n \in Node, on_message(n, m)
      PROVE  kept
  <2>1. CASE on_request_vote(n, m)
    BY <2>1 DEF on_request_vote, on_request_vote_stale, on_request_vote_current
  <2>2. CASE on_request_vote_response(n, m)
    BY <2>2 DEF on_request_vote_response, on_higher_term_response, receive_vote
  <2>3. CASE on_append_entries(n, m)
    BY <2>3 DEF on_append_entries, on_append_entries_stale, on_append_entries_reject,
                       on_append_entries_accept
  <2>4. CASE on_append_entries_response(n, m)
    BY <2>4 DEF on_append_entries_response, on_higher_term_response
  <2> QED
    BY <1>2, <2>1, <2>2, <2>3, <2>4 DEF on_message
<1>3. ASSUME NEW n \in Node, on_storage_complete(n)
      PROVE  kept \/ written(n)
  <2>1. CASE complete_reply(n) \/ complete_election(n) \/ complete_append(n) \/ complete_commit(n)
    BY <2>1 DEF complete_reply, complete_election, complete_append, complete_commit,
                       Resumes, Durable
  <2>2. CASE on_storage_failure(n)
    BY <2>2 DEF on_storage_failure
  <2> QED
    BY <1>3, <2>1, <2>2 DEF on_storage_complete
<1>4. ASSUME NEW n \in Node, NEW c \in Command, on_client_request(n, c)
      PROVE  kept
  BY <1>4 DEF on_client_request
<1>5. ASSUME NEW n \in Node,
             begin_election(n) \/ on_election_timer_leader(n) \/ on_heartbeat_timer(n) \/ restart(n)
      PROVE  kept
  BY <1>5 DEF begin_election, on_election_timer_leader, on_heartbeat_timer, restart
<1>6. ASSUME NEW n \in Node, crash(n)
      PROVE  kept \/ written(n)
  BY <1>6 DEF crash
<1>7. ASSUME UNCHANGED vars
      PROVE  kept
  BY <1>7 DEF vars
<1> HIDE DEF kept, written
<1>8. ASSUME NEW m \in msgs
      PROVE  m.to \in Node
  BY MessageType
<1>9. kept \/ \E n \in Node : written(n)
  <2>1. ASSUME NEW m \in msgs, on_message(m.to, m)
        PROVE  kept
    BY <1>2, <1>8, <2>1
  <2>2. CASE Next
    BY <1>3, <1>4, <1>5, <1>6, <2>1, <2>2 DEF Next
  <2> QED
    BY <1>7, <2>2
<1> QED
  BY <1>1, <1>9 DEF kept

LEMMA HardStateStep ==
  ASSUME TypeOK, LocalInv, [Next]_vars, NEW q \in Node
  PROVE  /\ disk'[q].term >= disk[q].term
         /\ disk'[q].term = disk[q].term => disk[q].vote \in {Nil, disk'[q].vote}
<1>1. disk[q].term \in Nat /\ current_term[q] \in Nat
  BY VariableTypes DEF DiskState
<1>2. CASE disk'[q] = disk[q]
  BY SMTT(30), <1>1, <1>2
<1>3. CASE pending_storage[q] # Nil /\ disk'[q] = ApplyBatch(disk[q], pending_storage[q].batch)
  <2> DEFINE b == pending_storage[q].batch
  <2>1. NodeInv(q)
    BY <1>3 DEF LocalInv, ShapeInv
  <2>2. disk'[q].term = current_term[q] /\ disk'[q].vote = voted_for[q]
    <3>1. disk'[q] = [term |-> current_term[q], vote |-> voted_for[q],
                      log |-> log[q], commit |-> commit_index[q]]
      BY <1>3, <2>1, ApplyBatchIsMemory
    <3> QED
      BY <3>1, SMT
  <2>3. \/ current_term[q] = disk[q].term /\ voted_for[q] = disk[q].vote
        \/ current_term[q] > disk[q].term
        \/ current_term[q] = disk[q].term /\ disk[q].vote = Nil
    BY <1>3, <2>1 DEF NodeInv, BatchInv
  <2> QED
    BY <1>1, <2>2, <2>3, SMT
<1> QED
  BY <1>2, <1>3, MediumStep

-----------------------------------------------------------------------------
(* Logs and histories *)

LEMMA EntryType ==
  ASSUME NEW l \in Seq(Entry)
  PROVE  /\ Len(l) \in Nat
         /\ \A i \in 1..Len(l) : l[i] \in Entry /\ l[i].term \in Nat
<1>1. Len(l) \in Nat /\ \A i \in 1..Len(l) : l[i] \in Entry
  BY SMT
<1> QED
  BY <1>1 DEF Entry

LEMMA HistoryType ==
  ASSUME NEW H \in History, NEW t \in Nat
  PROVE  H[t] \in Seq(Entry) /\ Len(H[t]) \in Nat
<1>1. H[t] \in Seq(Entry)
  BY DEF History
<1> QED
  BY <1>1, SMT

LEMMA AgreeJoin ==
  ASSUME NEW l \in Seq(Entry), NEW h \in Seq(Entry), NEW k \in Seq(Entry), NEW c \in Nat,
         Agree(l, h, c), Agree(k, h, c)
  PROVE  Agree(l, k, c)
  BY DEF Agree

LEMMA AgreeDown ==
  ASSUME NEW l \in Seq(Entry), NEW h \in Seq(Entry), NEW c \in Nat, NEW d \in Nat,
         d <= c, Agree(l, h, c)
  PROVE  Agree(l, h, d)
<1>1. Len(l) \in Nat /\ Len(h) \in Nat
  BY SMT
<1> QED
  BY <1>1, SMT DEF Agree

LEMMA AgreeSymmetric ==
  ASSUME NEW l, NEW h, NEW c, Agree(l, h, c)
  PROVE  Agree(h, l, c)
  BY DEF Agree

\* What agrees with a log agrees with what it has grown to.
LEMMA AgreeGrows ==
  ASSUME NEW H \in History, NEW G \in History, Grows(H, G), NEW t \in Nat,
         NEW l \in Seq(Entry), NEW c \in Nat, Agree(l, H[t], c)
  PROVE  Agree(l, G[t], c)
<1>1. /\ H[t] \in Seq(Entry) /\ G[t] \in Seq(Entry)
      /\ Len(H[t]) \in Nat /\ Len(G[t]) \in Nat /\ Len(l) \in Nat
  BY HistoryType, SMT
<1>2. Agree(G[t], H[t], Len(H[t]))
  BY DEF Grows
<1>3. c <= Len(H[t])
  BY DEF Agree
<1>4. Agree(G[t], H[t], c)
  BY <1>1, <1>2, <1>3, AgreeDown
<1> QED
  BY <1>1, <1>4, AgreeJoin

LEMMA GrowsReflexive ==
  ASSUME NEW H \in History
  PROVE  Grows(H, H)
<1>1. ASSUME NEW t \in Nat
      PROVE  Agree(H[t], H[t], Len(H[t]))
  BY <1>1, HistoryType, SMT DEF Agree
<1> QED
  BY <1>1 DEF Grows

\* Rooted logs that agree on the term of an index agree up to it.
LEMMA OneRoot ==
  ASSUME NEW H \in History, NEW l \in Seq(Entry), NEW k \in Seq(Entry),
         Rooted(H, l), Rooted(H, k), NEW i \in Nat, i <= Len(l), i <= Len(k),
         term_at(l, i) = term_at(k, i)
  PROVE  Agree(l, k, i)
<1>1. CASE i = 0
  BY <1>1, SMT DEF Agree
<1>2. CASE i # 0
  <2>1. i \in 1..Len(l) /\ i \in 1..Len(k)
    BY <1>2, SMT
  <2>2. l[i].term = k[i].term
    BY <2>1 DEF term_at
  <2>3. Agree(l, H[l[i].term], i) /\ Agree(k, H[k[i].term], i)
    BY <2>1 DEF Rooted
  <2>4. H[l[i].term] \in Seq(Entry)
    BY <2>1, EntryType, HistoryType
  <2> QED
    BY <2>2, <2>3, <2>4, AgreeJoin
<1> QED
  BY <1>1, <1>2

\* With no operation outstanding, memory is on the medium.
LEMMA IdleDisk ==
  ASSUME Sound, NEW n \in Node, Live(n), pending_storage[n] = Nil
  PROVE  /\ disk[n].term = current_term[n] /\ disk[n].log = log[n]
         /\ disk[n].commit = commit_index[n]
<1>1. NodeInv(n)
  BY DEF Sound, LocalInv
<1> QED
  BY <1>1 DEF NodeInv, IdleInv

LEMMA StateType ==
  ASSUME TypeOK, NEW n \in Node
  PROVE  /\ log[n] \in Seq(Entry) /\ Len(log[n]) \in Nat /\ current_term[n] \in Nat
         /\ disk[n].log \in Seq(Entry) /\ Len(disk[n].log) \in Nat /\ disk[n].term \in Nat
         /\ commit_index[n] \in Nat /\ disk[n].commit \in Nat
<1>1. disk[n] \in DiskState /\ log[n] \in Seq(Entry) /\ current_term[n] \in Nat
      /\ commit_index[n] \in Nat
  BY VariableTypes
<1>2. disk[n].log \in Seq(Entry) /\ disk[n].term \in Nat /\ disk[n].commit \in Nat
  BY <1>1 DEF DiskState
<1> QED
  BY <1>1, <1>2, SMT

LEMMA RepliesLog ==
  ASSUME NEW n \in Node, NEW w, Replies(n, w), w.type # "AppendEntries"
  PROVE  ResponseInv(n)' /\ \A m \in msgs' : m.type = "AppendEntries" => m \in msgs
  BY DEF Replies, ResponseInv

\* The log that results from an AppendEntries agrees with the leader's.
LEMMA AcceptedAgrees ==
  ASSUME TypeOK, NEW H \in History, HistoryInv(H), NEW n \in Node, Rooted(H, log[n]),
         NEW m \in AppendEntriesMsg, Segment(H, m), NEW k \in 0..Len(m.entries), Matches(n, m, k),
         NEW match, match = m.prev_log_index + Len(m.entries), NEW l, l = Accepted(n, m, k)
  PROVE  /\ Agree(log[n], H[m.term], m.prev_log_index + k)
         /\ l \in Seq(Entry) /\ Agree(l, H[m.term], match)
         /\ l = log[n] \/ Len(l) = match
         /\ k = Len(m.entries) => l = log[n]
         /\ k # Len(m.entries) => /\ SubSeq(m.entries, k + 1, Len(m.entries)) # << >>
                                  /\ Len(l) = match
                                  /\ \A i \in 1..(m.prev_log_index + k) : l[i] = log[n][i]
<1> DEFINE prev == m.prev_log_index
           es == m.entries
           h == H[m.term]
           new == SubSeq(es, k + 1, Len(es))
<1>1. /\ m.term \in Nat /\ prev \in Nat /\ es \in Seq(Entry) /\ Len(es) \in Nat
      /\ k \in Nat /\ k <= Len(es) /\ match = prev + Len(es)
  BY SMT DEF AppendEntriesMsg
<1>2. h \in Seq(Entry) /\ Len(h) \in Nat /\ log[n] \in Seq(Entry) /\ Len(log[n]) \in Nat
  BY <1>1, HistoryType, StateType
<1>3. /\ match <= Len(h) /\ m.prev_log_term = term_at(h, prev)
      /\ \A i \in 1..Len(es) : es[i] = h[prev + i]
  BY DEF Segment
<1>4. prev <= Len(log[n])
  BY <1>1, <1>2, SMT DEF Matches, missing
<1>5. term_at(log[n], prev) = m.prev_log_term
  BY DEF Matches, mismatch
<1>6. \A i \in 1..k : prev + i <= Len(log[n]) /\ log[n][prev + i] = es[i]
  BY DEF Matches, incoming
<1> HIDE DEF prev, es, h
<1>7. Agree(log[n], h, prev)
  <2>1. Rooted(H, h) /\ prev <= Len(h)
    BY <1>1, <1>2, <1>3, SMT DEF HistoryInv, h
  <2> QED
    BY <1>1, <1>2, <1>3, <1>4, <1>5, <2>1, OneRoot
<1>8. Agree(log[n], h, prev + k)
  <2>1. prev + k <= Len(h)
    BY <1>1, <1>2, <1>3, SMT
  <2>2. prev + k <= Len(log[n])
    <3>1. CASE k = 0
      BY <1>1, <1>2, <1>4, <3>1, SMT
    <3>2. CASE k # 0
      BY <1>1, <1>6, <3>2, SMT
    <3> QED
      BY <3>1, <3>2
  <2>3. ASSUME NEW i \in 1..(prev + k)
        PROVE  log[n][i] = h[i]
    <3>1. CASE i <= prev
      BY <1>1, <1>7, <2>3, <3>1, SMT DEF Agree
    <3>2. CASE i > prev
      <4>1. i - prev \in 1..k /\ i - prev \in 1..Len(es) /\ prev + (i - prev) = i
        BY <1>1, <2>3, <3>2, SMT
      <4>2. log[n][prev + (i - prev)] = es[i - prev] /\ es[i - prev] = h[prev + (i - prev)]
        BY <1>3, <1>6, <4>1
      <4> QED
        BY <4>1, <4>2
    <3> QED
      BY <1>1, <2>3, <3>1, <3>2, SMT
  <2> QED
    BY <2>1, <2>2, <2>3 DEF Agree
<1>9. new \in Seq(Entry) /\ Len(new) = Len(es) - k
      /\ \A i \in 1..(Len(es) - k) : new[i] = es[k + i]
  <2>1. k + 1 \in Int /\ Len(es) \in Int /\ \A i \in (k + 1)..Len(es) : es[i] \in Entry
    BY <1>1, SMT
  <2>2. /\ new \in Seq(Entry)
        /\ Len(new) = IF k + 1 <= Len(es) THEN Len(es) - (k + 1) + 1 ELSE 0
        /\ \A i \in 1..(Len(es) - (k + 1) + 1) : new[i] = es[(k + 1) + i - 1]
    <3> HIDE DEF new
    <3> QED
      BY <2>1, SMT DEF new
  <2> HIDE DEF new
  <2>3. Len(new) = Len(es) - k
    BY <1>1, <2>2, SMT
  <2>4. ASSUME NEW i \in 1..(Len(es) - k)
        PROVE  new[i] = es[k + i]
    <3>1. i \in 1..(Len(es) - (k + 1) + 1) /\ (k + 1) + i - 1 = k + i
      BY <1>1, <2>4, SMT
    <3> QED
      BY <2>2, <3>1
  <2> QED
    BY <2>2, <2>3, <2>4
<1> HIDE DEF new
<1>10. CASE k = Len(es)
  <2>1. new = << >>
    BY <1>1, <1>9, <1>10, SMT
  <2>2. l = log[n]
    BY <2>1 DEF Accepted, new, es
  <2> QED
    BY <1>1, <1>2, <1>8, <1>10, <2>2 DEF h, es, prev
<1>11. CASE k # Len(es)
  <2>1. new # << >>
    <3>1. Len(new) # 0
      BY <1>1, <1>9, <1>11, SMT
    <3> QED
      BY <3>1, SMT
  <2> DEFINE kept == SubSeq(log[n], 1, prev + k)
  <2>2. l = kept \o new
    BY <2>1 DEF Accepted, new, es, prev
  <2>3. prev + k \in Nat /\ prev + k <= Len(log[n]) /\ prev + k <= Len(h)
    BY <1>1, <1>8, SMT DEF Agree
  <2>4. /\ kept \in Seq(Entry) /\ Len(kept) = prev + k
        /\ \A i \in 1..(prev + k) : kept[i] = log[n][i]
    <3> DEFINE c == prev + k
    <3>1. c \in Nat /\ c <= Len(log[n])
      BY <2>3
    <3> HIDE DEF c
    <3>2. \A i \in 1..c : log[n][i] \in Entry
      BY <1>2, <3>1, SMT
    <3>3. /\ SubSeq(log[n], 1, c) \in Seq(Entry)
          /\ Len(SubSeq(log[n], 1, c)) = IF 1 <= c THEN c - 1 + 1 ELSE 0
          /\ \A i \in 1..(c - 1 + 1) : SubSeq(log[n], 1, c)[i] = log[n][1 + i - 1]
      BY <3>1, <3>2, SMT
    <3>4. /\ Len(SubSeq(log[n], 1, c)) = c
          /\ \A i \in 1..c : SubSeq(log[n], 1, c)[i] = log[n][i]
      BY <3>1, <3>3, SMT
    <3> QED
      BY <3>3, <3>4 DEF c
  <2> HIDE DEF kept
  <2>5. /\ l \in Seq(Entry) /\ Len(l) = Len(kept) + Len(new)
        /\ \A i \in 1..(Len(kept) + Len(new)) :
             l[i] = IF i <= Len(kept) THEN kept[i] ELSE new[i - Len(kept)]
    <3>1. kept \in Seq(Entry) /\ new \in Seq(Entry)
      BY <1>9, <2>4
    <3>2. /\ kept \o new \in Seq(Entry) /\ Len(kept \o new) = Len(kept) + Len(new)
          /\ \A i \in 1..(Len(kept) + Len(new)) :
               (kept \o new)[i] = IF i <= Len(kept) THEN kept[i] ELSE new[i - Len(kept)]
      BY <3>1, SMT
    <3> QED
      BY <2>2, <3>2
  <2>6. Len(l) = match
    BY <1>1, <1>9, <2>4, <2>5, SMT
  <2>7. \A i \in 1..(prev + k) : l[i] = log[n][i]
    <3>1. ASSUME NEW i \in 1..(prev + k)
          PROVE  l[i] = log[n][i]
      <4>1. i \in 1..(Len(kept) + Len(new)) /\ i <= Len(kept)
        BY <1>1, <1>9, <2>4, <3>1, SMT
      <4> QED
        BY <2>4, <2>5, <3>1, <4>1
    <3> QED
      BY <3>1
  <2>8. ASSUME NEW i \in 1..match
        PROVE  l[i] = h[i]
    <3>1. CASE i <= prev + k
      <4>1. i \in 1..(prev + k)
        BY <1>1, <2>8, <3>1, SMT
      <4> QED
        BY <1>8, <2>7, <4>1 DEF Agree
    <3>2. CASE i > prev + k
      <4> DEFINE j == i - (prev + k)
      <4>1. /\ i \in 1..(Len(kept) + Len(new)) /\ ~(i <= Len(kept)) /\ i - Len(kept) = j
            /\ j \in 1..(Len(es) - k) /\ k + j \in 1..Len(es) /\ prev + (k + j) = i
        <5>1. Len(kept) = prev + k /\ Len(new) = Len(es) - k
          BY <1>9, <2>4
        <5>2. i \in Int /\ 1 <= i /\ i <= prev + Len(es) /\ i > prev + k
          BY <1>1, <2>8, <3>2, SMT
        <5> QED
          BY <1>1, <5>1, <5>2, SMT
      <4> HIDE DEF j
      <4>2. l[i] = new[j]
        BY <2>5, <4>1
      <4>3. new[j] = es[k + j]
        BY <1>9, <4>1
      <4>4. es[k + j] = h[i]
        BY <1>3, <4>1
      <4> QED
        BY <4>2, <4>3, <4>4
    <3> QED
      BY <1>1, <2>8, <3>1, <3>2, SMT
  <2>9. Agree(l, h, match)
    <3>1. match <= Len(l)
      BY <1>1, <2>6, SMT
    <3> QED
      BY <1>3, <2>8, <3>1 DEF Agree
  <2> QED
    BY <1>8, <1>11, <2>1, <2>5, <2>6, <2>7, <2>9 DEF h, es, prev, new
<1> QED
  BY <1>10, <1>11

LEMMA NewEntryAgrees ==
  ASSUME TypeOK, NEW n \in Node, NewEntry(n)
  PROVE  /\ log'[n] \in Seq(Entry) /\ Len(log'[n]) \in Nat
         /\ Len(log'[n]) = Len(log[n]) \/ Len(log'[n]) = Len(log[n]) + 1
         /\ Agree(log'[n], log[n], Len(log[n]))
         /\ \A i \in 1..Len(log'[n]) :
              i \in 1..Len(log[n]) \/ (i = Len(log'[n]) /\ log'[n][i].term = current_term[n])
<1>1. log[n] \in Seq(Entry) /\ Len(log[n]) \in Nat
  BY StateType
<1>2. CASE log'[n] = log[n]
  BY <1>1, <1>2, SMT DEF Agree
<1>3. ASSUME NEW e \in Entry, e.term = current_term[n], log'[n] = Append(log[n], e)
      PROVE  /\ log'[n] \in Seq(Entry) /\ Len(log'[n]) = Len(log[n]) + 1
             /\ log'[n][Len(log[n]) + 1] = e
             /\ \A i \in 1..Len(log[n]) : log'[n][i] = log[n][i]
  BY <1>1, <1>3, SMT
<1>4. ASSUME NEW e \in Entry, e.term = current_term[n], log'[n] = Append(log[n], e)
      PROVE  /\ Agree(log'[n], log[n], Len(log[n]))
             /\ \A i \in 1..Len(log'[n]) :
                  i \in 1..Len(log[n]) \/ (i = Len(log'[n]) /\ log'[n][i].term = current_term[n])
  BY <1>1, <1>3, <1>4, SMT DEF Agree
<1> QED
  BY <1>1, <1>2, <1>3, <1>4, SMT DEF NewEntry

LEMMA NoopType ==
  ASSUME NEW t \in Nat
  PROVE  [term |-> t, command |-> Nil] \in Entry
  BY DEF Entry

\* No term has had a leader when the cluster starts.
LEMMA InitLog ==
  ASSUME Init, NEW H, H = [t \in Nat |-> << >>]
  PROVE  H \in History /\ LogInv(H)
<1>1. H \in History /\ \A t \in Nat : H[t] = << >>
  BY SMT DEF History
<1>2. Rooted(H, << >>) /\ \A t : Within(<< >>, t)
  BY SMT DEF Rooted, Within
<1>3. HistoryInv(H)
  BY <1>1, <1>2 DEF HistoryInv
<1>4. elected = {} /\ msgs = {}
  BY DEF Init
<1>5. ASSUME NEW n \in Node
      PROVE  MemoryInv(H, n) /\ DiskInv(H, n) /\ ResponseInv(n)
  <2>1. /\ role[n] # "leader" /\ role[n] # "candidate" /\ log[n] = << >>
        /\ disk[n].log = << >> /\ pending_storage[n] = Nil
    BY DEF Init
  <2> QED
    BY <1>2, <2>1 DEF MemoryInv, DiskInv, ResponseInv
<1> QED
  BY <1>1, <1>3, <1>4, <1>5 DEF LogInv, ElectedDisk

LEMMA SubSeqAgrees ==
  ASSUME NEW l \in Seq(Entry), NEW k \in Seq(Entry), NEW c \in Nat, Agree(l, k, c)
  PROVE  SubSeq(l, 1, c) = SubSeq(k, 1, c)
<1>1. c <= Len(l) /\ c <= Len(k) /\ \A i \in 1..c : l[i] = k[i]
  BY DEF Agree
<1>2. ASSUME NEW s \in Seq(Entry), c <= Len(s)
      PROVE  /\ SubSeq(s, 1, c) \in Seq(Entry) /\ Len(SubSeq(s, 1, c)) = c
             /\ \A i \in 1..c : SubSeq(s, 1, c)[i] = s[i]
  <2>1. \A i \in 1..c : s[i] \in Entry
    BY <1>2, SMT
  <2>2. /\ SubSeq(s, 1, c) \in Seq(Entry)
        /\ Len(SubSeq(s, 1, c)) = IF 1 <= c THEN c - 1 + 1 ELSE 0
        /\ \A i \in 1..(c - 1 + 1) : SubSeq(s, 1, c)[i] = s[1 + i - 1]
    BY <2>1, SMT
  <2> QED
    BY <2>2, SMT
<1> DEFINE a == SubSeq(l, 1, c)
           b == SubSeq(k, 1, c)
<1>3. /\ a \in Seq(Entry) /\ Len(a) = c /\ \A i \in 1..c : a[i] = l[i]
      /\ b \in Seq(Entry) /\ Len(b) = c /\ \A i \in 1..c : b[i] = k[i]
  BY <1>1, <1>2
<1> HIDE DEF a, b
<1>4. Len(a) = Len(b) /\ \A i \in 1..Len(a) : a[i] = b[i]
  BY <1>1, <1>3
<1>5. a = b
  BY <1>3, <1>4, SMT
<1> QED
  BY <1>5 DEF a, b

LEMMA InvariantIsLogMatching ==
  ASSUME TypeOK, NEW H \in History, LogInv(H)
  PROVE  LogMatching
<1> SUFFICES ASSUME NEW m \in Node, NEW n \in Node,
                    NEW i \in 1..min(Len(disk[m].log), Len(disk[n].log)),
                    disk[m].log[i].term = disk[n].log[i].term
             PROVE  SubSeq(disk[m].log, 1, i) = SubSeq(disk[n].log, 1, i)
  BY DEF LogMatching
<1> DEFINE l == disk[m].log
           k == disk[n].log
<1>1. l \in Seq(Entry) /\ k \in Seq(Entry) /\ Len(l) \in Nat /\ Len(k) \in Nat
  BY StateType
<1>2. i \in Nat /\ i # 0 /\ i <= Len(l) /\ i <= Len(k)
  BY <1>1, SMT DEF min
<1>3. Rooted(H, l) /\ Rooted(H, k)
  BY DEF LogInv, DiskInv
<1>4. term_at(l, i) = term_at(k, i)
  BY <1>2, SMT DEF term_at
<1> HIDE DEF l, k
<1>5. Agree(l, k, i)
  BY <1>1, <1>2, <1>3, <1>4, OneRoot
<1>6. SubSeq(l, 1, i) = SubSeq(k, 1, i)
  BY <1>1, <1>2, <1>5, SubSeqAgrees
<1> QED
  BY <1>6 DEF l, k
=============================================================================
