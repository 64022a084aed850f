-------------------------- MODULE RaftSafetyProofs --------------------------
(***************************************************************************)
(* Proofs about Raft, last part: every step of the system is a step for    *)
(* which the other parts show that the invariants are kept; so Raft keeps  *)
(* its promises, and it implements the replicated log.                     *)
(***************************************************************************)
EXTENDS RaftProofs, RaftStepProofs, RaftCommitProofs, RaftPromiseProofs,
        FiniteSetTheorems

\* The leaves are proved with Zenon unless they cite another prover.
USE Zenon

LEMMA QuorumsIntersect ==
  ASSUME NEW P \in SUBSET Node, NEW Q \in SUBSET Node, IsQuorum(P), IsQuorum(Q)
  PROVE  \E v \in P : v \in Q
<1>1. /\ Cardinality(Node) \in Nat
      /\ Cardinality(P) \in Nat /\ Cardinality(Q) \in Nat
  BY NodeAssumption, FS_CardinalityType, FS_Subset, SMT
<1>2. Cardinality(P) + Cardinality(Q) > Cardinality(Node)
  BY <1>1, SMT DEF IsQuorum, quorum_size
<1>3. P \cap Q # {}
  BY <1>2, NodeAssumption, FS_MajoritiesIntersect, SMT
<1> QED
  BY <1>3, SMT

LEMMA QuorumsDoMeet == QuorumsMeet
<1>1. ASSUME NEW v \in Node
      PROVE  ~IsQuorum({v})
  <2>1. Cardinality({v}) = 1
    BY FS_Singleton
  <2>2. Cardinality(Node) \in Nat
    BY NodeAssumption, FS_CardinalityType, SMT
  <2>3. {v} \subseteq Node /\ {v} # Node
    BY NodeAssumption, SMT
  <2>4. Cardinality({v}) <= Cardinality(Node) /\ Cardinality({v}) # Cardinality(Node)
    BY <2>3, NodeAssumption, FS_Subset
  <2> QED
    BY <2>1, <2>2, <2>4, SMT DEF IsQuorum, quorum_size
<1> QED
  BY <1>1, QuorumsIntersect DEF QuorumsMeet

\* The invariants of the earlier parts.
BaseInv == TypeOK /\ LocalInv /\ ElectionInv

LEMMA BaseIsSound == (BaseInv => Sound) /\ (BaseInv' => Sound')
<1>1. BaseInv => Sound
  BY InvariantIsElectionSafety, QuorumsDoMeet DEF BaseInv, Sound
<1> QED
  BY <1>1, PTL

LEMMA BaseInductive == Spec => []BaseInv
<1>1. Init => ElectionInv
  BY InitElection, SMT
<1>2. (TypeOK /\ LocalInv) /\ (TypeOK /\ LocalInv)' /\ ElectionInv /\ [Next]_vars => ElectionInv'
  BY NextElection, SMT
<1> QED
  BY <1>1, <1>2, Inductive, PTL DEF Spec, BaseInv

LEMMA MediumIsKept ==
  ASSUME TypeOK, LocalInv, [Next]_vars, NEW q \in Node
  PROVE  MediumKept(q)
<1>1. disk'[q].term >= disk[q].term
  BY HardStateStep
<1>2. disk[q].commit \in Nat /\ disk[q].commit >= disk[q].commit
  BY StateType, SMT
<1>3. CASE disk'[q] = disk[q]
  BY <1>1, <1>2, <1>3 DEF MediumKept
<1>4. CASE pending_storage[q] # Nil /\ disk'[q] = ApplyBatch(disk[q], pending_storage[q].batch)
  <2>1. Live(q) /\ NodeInv(q)
    BY <1>4 DEF LocalInv, ShapeInv
  <2>2. disk'[q] = [term |-> current_term[q], vote |-> voted_for[q],
                    log |-> log[q], commit |-> commit_index[q]]
    BY <1>4, <2>1, ApplyBatchIsMemory
  <2>3. disk'[q].term = current_term[q] /\ disk'[q].log = log[q] /\ disk'[q].commit = commit_index[q]
    BY <2>2, SMT
  <2>4. commit_index[q] >= disk[q].commit
    BY <1>4, <2>1 DEF NodeInv, BatchInv
  <2> QED
    BY <1>1, <1>4, <2>1, <2>3, <2>4 DEF MediumKept
<1> QED
  BY <1>3, <1>4, MediumStep

\* Every step of the system is one of the kinds, or changes nothing.
LEMMA EveryStep ==
  ASSUME BaseInv, BaseInv', [Next]_vars
  PROVE  \/ UNCHANGED vars
         \/ \E n \in Node : Step(n) /\ StepKind(n)
<1>1. TypeOK /\ LocalInv
  BY DEF BaseInv
<1>2. \A q \in Node : MediumKept(q)
  BY <1>1, MediumIsKept
<1>3. Sound /\ Sound'
  BY BaseIsSound
<1> QED
  BY <1>1, <1>2, <1>3, NextStep DEF Step

\* A step that adds nothing to the log of a leader keeps the history.
LEMMA SameHistory ==
  ASSUME NEW n \in Node, Step(n), NEW H \in History, LogInv(H), CommitInv(H),
         \/ Answers(n) \/ Campaigns(n) \/ Stops(n) \/ Restarts(n) \/ Leads(n) \/ Completes(n)
         \/ \E m \in msgs : \E k \in 0..Len(m.entries) : Accepts(n, m, k)
  PROVE  LogInv(H)' /\ CommitInv(H)'
<1>1. LogInv(H)' => Base(H, H, n)
  BY GrowsReflexive DEF Base
<1>2. CASE Answers(n)
  BY <1>1, <1>2, AnswersLog, AnswersCommit
<1>3. CASE Campaigns(n)
  BY <1>1, <1>3, CampaignsLog, CampaignsCommit
<1>4. CASE Stops(n)
  BY <1>1, <1>4, StopsLog, StopsCommit
<1>5. CASE Restarts(n)
  BY <1>1, <1>5, RestartsLog, RestartsCommit
<1>6. CASE Leads(n)
  BY <1>1, <1>6, LeadsLog, LeadsCommit
<1>7. CASE Completes(n)
  BY <1>1, <1>7, CompletesLog, CompletesCommit
<1>8. ASSUME NEW m \in msgs, NEW k \in 0..Len(m.entries), Accepts(n, m, k)
      PROVE  LogInv(H)' /\ CommitInv(H)'
  BY <1>1, <1>8, AcceptsLog, AcceptsCommit
<1> QED
  BY <1>2, <1>3, <1>4, <1>5, <1>6, <1>7, <1>8

LEMMA LongerHistory ==
  ASSUME NEW n \in Node, Step(n), NEW H \in History, LogInv(H), CommitInv(H),
         Wins(n) \/ \E e : Appends(n, e)
  PROVE  \E G \in History : LogInv(G)' /\ CommitInv(G)'
<1>1. PICK G : Extended(H, G, n)
  BY DEF Extended
<1>2. CASE Wins(n)
  <2>1. G \in History /\ NewHistory(H, G, n) /\ LogInv(G)'
    BY <1>1, <1>2, WinsLog
  <2>2. Base(H, G, n)
    BY <2>1 DEF Base, NewHistory
  <2> QED
    BY <1>1, <1>2, <2>1, <2>2, WinsCommit
<1>3. ASSUME NEW e, Appends(n, e)
      PROVE  G \in History /\ LogInv(G)' /\ CommitInv(G)'
  <2>1. G \in History /\ NewHistory(H, G, n) /\ LogInv(G)'
    BY <1>1, <1>3, AppendsLog
  <2>2. Base(H, G, n)
    BY <2>1 DEF Base, NewHistory
  <2> QED
    BY <1>3, <2>1, <2>2, AppendsCommit
<1> QED
  BY <1>2, <1>3

LEMMA StepSafety ==
  ASSUME NEW n \in Node, Step(n), SafetyInv, StepKind(n)
  PROVE  SafetyInv'
<1>1. PICK H \in History : LogInv(H) /\ CommitInv(H)
  BY DEF SafetyInv
<1>2. \E G \in History : LogInv(G)' /\ CommitInv(G)'
  BY <1>1, SameHistory, LongerHistory DEF StepKind
<1>3. ReadyInv'
  BY ReadyStep DEF SafetyInv
<1>4. BoundInv'
  BY <1>1, BoundStep DEF SafetyInv
<1> QED
  BY <1>2, <1>3, <1>4 DEF SafetyInv

\* The inductive invariant of Raft.
LEMMA SafetyInductive == Spec => [](BaseInv /\ SafetyInv)
<1>1. Init => SafetyInv
  BY InitSafety, SMT
<1>2. BaseInv /\ BaseInv' /\ SafetyInv /\ [Next]_vars => SafetyInv'
  BY EveryStep, StepSafety, StutterSafety
<1> QED
  BY <1>1, <1>2, BaseInductive, PTL DEF Spec

LEMMA Promises ==
  BaseInv /\ SafetyInv => /\ LogMatching /\ LeaderCompleteness /\ MatchIsDurable
                          /\ ReadyLeaderIsCurrent /\ UncommittedBounded
  BY BaseIsSound, SafetyConclusions

\* Timers and waiting clients.
LEMMA ServiceInductive == Spec => [](TypeOK /\ ServiceInv)
<1>1. (TypeOK /\ LocalInv) /\ ServiceInv /\ [Next]_vars => ServiceInv'
  BY NextService
<1> QED
  BY <1>1, InitService, Inductive, PTL DEF Spec

-----------------------------------------------------------------------------
(* What Raft promises *)

\* For any membership, any number of campaigns, crashes, restarts, failed
\* writes, and lost, repeated and late messages: no two members ever win the
\* election of one term (on_request_vote persists a vote before it reveals it,
\* on_request_vote_response counts the votes of one term).
THEOREM OneLeaderPerTerm == Spec => []ElectionSafety
<1>1. Init => ElectionInv
  BY InitElection, SMT
<1>2. (TypeOK /\ LocalInv) /\ (TypeOK /\ LocalInv)' /\ ElectionInv /\ [Next]_vars
        => ElectionInv'
  BY NextElection, SMT
<1>3. TypeOK /\ ElectionInv => ElectionSafety
  BY InvariantIsElectionSafety, QuorumsDoMeet, SMT
<1> QED
  BY <1>1, <1>2, <1>3, Inductive, PTL DEF Spec

\* For any membership and any number of faults: two media whose entries at an
\* index have one term hold the same log up to it (on_append_entries checks the
\* term before the entries it takes, and truncates only where terms differ).
THEOREM LogsMatch == Spec => []LogMatching
  BY SafetyInductive, Promises, PTL

\* For any membership and any number of elections and faults: a leader has every
\* entry that it or an earlier leader committed (candidate_is_up_to_date keeps
\* others from winning, maybe_advance_commit counts entries of its term only).
THEOREM LeadersComplete == Spec => []LeaderCompleteness
  BY SafetyInductive, Promises, PTL

\* However answers are lost, repeated, late or out of order: what a leader counts
\* as replicated by a peer is on the peer's medium and on its own
\* (on_append_entries_response, on_storage_complete).
THEOREM ReplicationDurable == Spec => []MatchIsDurable
  BY SafetyInductive, Promises, PTL

\* A leader that accepts commands has applied whatever an earlier leader
\* committed (become_leader waits for the no-op of its term).
THEOREM ReadyLeadersCurrent == Spec => []ReadyLeaderIsCurrent
  BY SafetyInductive, Promises, PTL

\* For any max_uncommitted_entries: no running node has more uncommitted entries,
\* though followers do not check (become_leader, on_client_request).
THEOREM SuffixBounded == Spec => []UncommittedBounded
  BY SafetyInductive, Promises, PTL

\* The guard of on_append_entries against an overwrite of committed entries
\* never fires: a node stops serving only when its storage fails.
THEOREM StorageStopsNode == Spec => OnlyStorageStopsNode
<1> DEFINE stopped == \A n \in Node : role[n] \in LiveRole /\ role'[n] = "unavailable"
                                        => pending_storage[n] # Nil
<1>1. BaseInv /\ SafetyInv /\ BaseInv' /\ [Next]_vars => [stopped]_vars
  <2> SUFFICES ASSUME BaseInv, SafetyInv, BaseInv', [Next]_vars, ~UNCHANGED vars,
                      NEW q \in Node, Live(q), role'[q] = "unavailable"
               PROVE  pending_storage[q] # Nil
    BY DEF Live
  <2>1. PICK n \in Node : Step(n) /\ StepKind(n)
    BY EveryStep
  <2>2. role[q] # role'[q]
    BY SMT DEF Live, LiveRole
  <2>3. q = n
    BY <2>1, <2>2 DEF Step, StepOf, OthersKept
  <2> QED
    BY <2>1, <2>3, StopReason
<1> QED
  BY <1>1, SafetyInductive, PTL DEF Spec, OnlyStorageStopsNode

\* No running node is ever stranded, whatever is lost, late or fails: a leader
\* keeps its heartbeat, any other node has an election timer that fires or an
\* operation outstanding that ends by arming one (persist_then_reply,
\* begin_election, become_leader, step_down).
THEOREM NodesKeepTimers == Spec => []TimerOwned
  BY ServiceInductive, ServiceIsInv, PTL

\* A client that waits at an index waits for the command it sent, however often
\* its leader is deposed and logs are cut (on_client_request,
\* remove_pending_from, apply_committed).
THEOREM ClientsAnswered == Spec => []PendingClientsMatchLog
  BY ServiceInductive, ServiceIsInv, PTL

\* Raft implements the replicated log for any membership and whatever fails:
\* there is one sequence of committed entries, it only grows, and what a medium
\* has recorded as committed is a prefix of it that is never taken back
\* (maybe_advance_commit, on_append_entries, restart).
THEOREM Refinement == Spec => ImplementsReplicatedLog
<1>1. Init => Log!Init
  BY InitRefines, SMT
<1>2. BaseInv /\ SafetyInv /\ (BaseInv /\ SafetyInv)' /\ [Next]_vars => [Log!Next]_<<chosen, learned>>
  <2> SUFFICES ASSUME BaseInv, SafetyInv, BaseInv', SafetyInv', [Next]_vars
               PROVE  [Log!Next]_<<chosen, learned>>
    OBVIOUS
  <2>1. LearnedInv /\ LearnedInv'
    BY BaseIsSound, SafetyIsLearned
  <2>2. CASE UNCHANGED vars
    BY <2>2 DEF vars, ghost_vars, chosen, learned, committed_prefix
  <2>3. ASSUME NEW n \in Node, Step(n), StepKind(n)
        PROVE  Log!Next
    BY <2>1, <2>3, StepRefines
  <2> QED
    BY <2>2, <2>3, EveryStep
<1> QED
  BY <1>1, <1>2, SafetyInductive, PTL DEF Spec, ImplementsReplicatedLog, Log!Spec, Log!vars

=============================================================================
