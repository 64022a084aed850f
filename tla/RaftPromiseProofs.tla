------------------------- MODULE RaftPromiseProofs --------------------------
(***************************************************************************)
(* Proofs about Raft, sixth part: what follows from the invariant on what  *)
(* is committed: a complete leader, replication that is durable, a ready   *)
(* leader that is current, a bounded suffix, and an abstract log that      *)
(* only grows.                                                             *)
(***************************************************************************)
EXTENDS RaftLogProofs, RaftRefinement

\* The leaves are proved with Zenon unless they cite another prover.
USE Zenon

-----------------------------------------------------------------------------
(* What the invariant says *)

\* Nothing is sent, committed or led when the cluster starts.
LEMMA InitCommit ==
  ASSUME Init, NEW H \in History
  PROVE  CommitInv(H)
<1>1. msgs = {} /\ elected = {} /\ committed = << >>
  BY DEF Init
<1>2. Len(committed) = 0 /\ 1..Len(committed) = {}
  BY <1>1, SMT
<1>3. ASSUME NEW q \in Node
      PROVE  /\ commit_index[q] = 0 /\ disk[q].commit = 0
             /\ pending_storage[q] = Nil /\ role[q] # "leader"
  BY SMT DEF Init
<1>4. ASSUME NEW l, NEW t, NEW k, k = 0
      PROVE  Known(H, l, k, t)
  BY <1>2, <1>4, SMT DEF Known
<1>5. KnownInv(H)
  BY <1>1, <1>3, <1>4 DEF KnownInv
<1>6. ASSUME NEW q \in Node
      PROVE  WaitInv(H, q) /\ PeerInv(q)
  BY <1>3 DEF WaitInv, PeerInv
<1>7. AckInv(H) /\ ElectedInv(H) /\ VoteInv(H) /\ CommittedInv(H)
  BY <1>1, <1>2 DEF AckInv, ElectedInv, VoteInv, CommittedInv
<1> QED
  BY <1>5, <1>6, <1>7 DEF CommitInv

\* No leader has a node overwrite what the node knows to be committed.
LEMMA NeverOverwrites ==
  ASSUME Sound, NEW H \in History, LogInv(H), CommitInv(H), NEW n \in Node, Live(n), NEW m \in msgs,
         NEW k \in 0..Len(m.entries), Matches(n, m, k)
  PROVE  ~Overwrites(n, m, k)
<1> DEFINE prev == m.prev_log_index
           new == SubSeq(m.entries, k + 1, Len(m.entries))
<1> SUFFICES ASSUME new # << >>, prev + k + 1 <= commit_index[n]
             PROVE  FALSE
  BY DEF Overwrites
<1>1. m.type = "AppendEntries" /\ m \in AppendEntriesMsg /\ TypeOK /\ m.term >= current_term[n]
      /\ incoming(n, m, k)
  BY MessageType DEF Matches, Sound
<1>2. m.term \in Nat /\ prev \in Nat /\ m.entries \in Seq(Entry) /\ Len(m.entries) \in Nat /\ k \in Nat
  BY <1>1, SMT DEF AppendEntriesMsg
<1>3. k # Len(m.entries)
  <2> SUFFICES ASSUME k = Len(m.entries)
               PROVE  FALSE
    BY SMT
  <2>1. k + 1 \in Int /\ Len(m.entries) \in Int /\ Len(m.entries) < k + 1
    BY <1>2, SMT
  <2> QED
    BY <2>1, SMT
<1>4. Segment(H, m) /\ <<m.term, m.from>> \in elected
  BY <1>1 DEF LogInv, Segment
<1>5. log[n] \in Seq(Entry) /\ current_term[n] \in Nat /\ commit_index[n] \in Nat
  BY <1>1, StateType
<1>6. PICK d : d = commit_index[n]
  OBVIOUS
<1>7. d # 0 /\ prev + k < d /\ d \in Nat
  BY <1>2, <1>5, <1>6, SMT
<1>8. PICK s \in Nat, c \in Nat : s <= current_term[n] /\ d <= c /\ Chosen(H, s, c) /\ Agree(log[n], H[s], d)
  BY <1>6, <1>7 DEF CommitInv, KnownInv, Known
<1>9. s <= m.term
  BY <1>1, <1>2, <1>5, <1>8, SMT
<1>10. Own(H, s, c) /\ ~Dead(s, c)
  BY <1>8, ChosenAlive DEF Chosen
<1>11. Agree(log[n], H[m.term], d)
  BY <1>2, <1>4, <1>5, <1>7, <1>8, <1>9, <1>10, LeaderAgrees DEF CommitInv
<1>12. d <= prev + k
  BY <1>1, <1>3, <1>4, <1>7, <1>11, Parts
<1> QED
  BY <1>2, <1>7, <1>12, SMT

LEMMA CommittedHeld ==
  ASSUME Sound, NEW H \in History, CommitInv(H), NEW u \in Nat, NEW q, <<u, q>> \in elected,
         NEW i \in 1..Len(committed), committed[i].term <= u
  PROVE  /\ i \in Nat /\ i # 0 /\ committed[i].term \in Nat
         /\ committed[i].entry = H[committed[i].term][i]
         /\ Agree(H[u], H[committed[i].term], i)
<1>1. committed[i].term \in Nat /\ i \in Nat /\ i # 0
  BY CommittedType DEF Sound
<1>2. PICK s : s = committed[i].term
  OBVIOUS
<1>3. PICK c \in Nat : i <= c /\ Chosen(H, s, c) /\ committed[i].entry = H[s][i]
  BY <1>2 DEF CommitInv, CommittedInv, CommittedEntry
<1>4. Own(H, s, c) /\ ~Dead(s, c) /\ s \in Nat /\ s <= u
  BY <1>1, <1>2, <1>3, ChosenAlive DEF Chosen
<1>5. Agree(H[u], H[s], c)
  BY <1>4, LeaderHolds DEF CommitInv
<1>6. Agree(H[u], H[s], i)
  BY <1>1, <1>3, <1>4, <1>5, HistoryType, AgreeDown, SMT
<1> QED
  BY <1>1, <1>2, <1>3, <1>6

LEMMA InvariantIsLeaderCompleteness ==
  ASSUME Sound, NEW H \in History, LogInv(H), CommitInv(H)
  PROVE  LeaderCompleteness
<1> SUFFICES ASSUME NEW n \in Node, role[n] = "leader", NEW i \in 1..Len(committed),
                    committed[i].term <= current_term[n]
             PROVE  Holds(log[n], i, committed[i].entry)
  BY DEF LeaderCompleteness
<1>1. <<current_term[n], n>> \in elected /\ log[n] = H[current_term[n]] /\ current_term[n] \in Nat
  BY StateType DEF LogInv, MemoryInv, Sound
<1>2. /\ i \in Nat /\ i # 0 /\ committed[i].entry = H[committed[i].term][i]
      /\ Agree(log[n], H[committed[i].term], i)
  BY <1>1, CommittedHeld
<1>3. i \in 1..i
  BY <1>2, SMT
<1> QED
  BY <1>2, <1>3 DEF Agree, Holds

\* What a leader has acknowledged of its own term is on its medium.
LEMMA AckOnDisk ==
  ASSUME TypeOK, NEW H \in History, AckInv(H), NEW v \in Node, NEW t \in Nat, NEW c \in Nat, Acked(v, t, c),
         disk[v].term = t
  PROVE  Agree(disk[v].log, H[t], c)
<1>1. PICK a \in msgs : AckMsg(a) /\ a.from = v /\ a.term = t /\ c <= AckIndex(a)
  BY DEF Acked
<1>2. Agree(disk[v].log, H[t], AckIndex(a)) /\ AckIndex(a) \in Nat
  BY <1>1, AckType DEF AckInv, Keeps
<1>3. disk[v].log \in Seq(Entry) /\ H[t] \in Seq(Entry)
  BY StateType, HistoryType, SMT
<1> QED
  BY <1>1, <1>2, <1>3, AgreeDown

\* A medium is never ahead of a live node.
LEMMA DiskBehind ==
  ASSUME Sound, NEW n \in Node, Live(n)
  PROVE  disk[n].term <= current_term[n] /\ durable_last_log_index[n] = Len(disk[n].log)
<1>1. NodeInv(n)
  BY DEF Sound, LocalInv
<1>2. disk[n].term \in Nat /\ current_term[n] \in Nat
  BY StateType DEF Sound
<1>3. \/ current_term[n] = disk[n].term
      \/ current_term[n] > disk[n].term
  BY <1>1 DEF NodeInv, IdleInv, BatchInv
<1> QED
  BY <1>1, <1>2, <1>3, SMT DEF NodeInv

LEMMA InvariantIsMatchDurable ==
  ASSUME Sound, NEW H \in History, LogInv(H), CommitInv(H)
  PROVE  MatchIsDurable
<1> SUFFICES ASSUME NEW n \in Node, NEW p \in Node, role[n] = "leader", p # n,
                    disk[p].term = current_term[n], NEW match, match = peers[n][p].match_index
             PROVE  /\ match <= durable_last_log_index[n]
                    /\ match <= Len(disk[p].log)
                    /\ SubSeq(disk[p].log, 1, match) = SubSeq(log[n], 1, match)
  BY DEF MatchIsDurable
<1>1. PICK t : t = current_term[n]
  OBVIOUS
<1>2. /\ TypeOK /\ t \in Nat /\ <<t, n>> \in elected /\ log[n] = H[t] /\ log[n] \in Seq(Entry)
      /\ disk[p].log \in Seq(Entry) /\ disk[n].log \in Seq(Entry) /\ Len(disk[p].log) \in Nat
      /\ Len(disk[n].log) \in Nat /\ disk[n].term \in Nat /\ AckInv(H) /\ PeerInv(n)
  BY <1>1, StateType DEF Sound, LogInv, MemoryInv, CommitInv
<1>3. match \in Nat
  <2>1. peers[n][p] \in PeerProgress
    BY <1>2, VariableTypes, SMT
  <2> QED
    BY <2>1, SMT DEF PeerProgress
<1>4. Live(n)
  BY SMT DEF Live, LiveRole
<1>5. disk[n].term = t /\ durable_last_log_index[n] = Len(disk[n].log)
  <2>1. <<t, n>>[1] <= disk[<<t, n>>[2]].term
    BY <1>2 DEF LogInv, ElectedDisk
  <2>2. t <= disk[n].term
    BY <2>1, SMT
  <2>3. disk[n].term <= t /\ durable_last_log_index[n] = Len(disk[n].log)
    BY <1>1, <1>4, DiskBehind
  <2> QED
    BY <1>2, <2>2, <2>3, SMT
<1>6. CASE match = 0
  <2>1. SubSeq(disk[p].log, 1, 0) = << >> /\ SubSeq(log[n], 1, 0) = << >>
    BY SMT
  <2> QED
    BY <1>2, <1>5, <1>6, <2>1, SMT
<1>7. CASE match # 0
  <2>1. match > 0
    BY <1>3, <1>7, SMT
  <2>2. Acked(p, t, match) /\ Acked(n, t, match)
    BY <1>1, <1>2, <2>1 DEF PeerInv
  <2>3. Agree(disk[p].log, H[t], match) /\ Agree(disk[n].log, H[t], match)
    BY <1>1, <1>2, <1>3, <1>5, <2>2, AckOnDisk
  <2>4. SubSeq(disk[p].log, 1, match) = SubSeq(log[n], 1, match)
    BY <1>2, <1>3, <2>3, SubSeqAgrees
  <2> QED
    BY <1>5, <2>3, <2>4 DEF Agree
<1> QED
  BY <1>6, <1>7

-----------------------------------------------------------------------------
(* A leader that is ready *)

\* The no-op of its term, at which a leader becomes ready, is in its log.
ReadyNode(n) ==
  /\ leader_ready[n] => role[n] = "leader" /\ last_applied[n] >= readiness_index[n]
  /\ role[n] = "leader" =>
       /\ readiness_index[n] \in 1..Len(log[n])
       /\ log[n][readiness_index[n]].term = current_term[n]

ReadyInv == \A n \in Node : ReadyNode(n)

LEMMA AppendedEntry ==
  ASSUME NEW l \in Seq(Entry), NEW e \in Entry
  PROVE  /\ Len(l) + 1 \in 1..Len(Append(l, e)) /\ Append(l, e)[Len(l) + 1] = e
         /\ \A r \in 1..Len(l) : r \in 1..Len(Append(l, e)) /\ Append(l, e)[r] = l[r]
  BY SMT

LEMMA ReadyKept ==
  ASSUME NEW n \in Node, Step(n), ReadyNode(n), SameOffice(n), last_applied'[n] >= last_applied[n],
         log'[n] = log[n] \/ \E e \in Entry : log'[n] = Append(log[n], e)
  PROVE  ReadyNode(n)'
<1>1. /\ role'[n] = role[n] /\ current_term'[n] = current_term[n] /\ leader_ready'[n] = leader_ready[n]
      /\ readiness_index'[n] = readiness_index[n]
  BY DEF SameOffice
<1>2. log[n] \in Seq(Entry)
  BY StateType DEF Step, Sound
<1>3. readiness_index[n] \in Nat /\ last_applied[n] \in Nat /\ last_applied'[n] \in Nat
  BY TypesNext, VariableTypes, SMT DEF Step, Sound
<1>4. last_applied[n] >= readiness_index[n] => last_applied'[n] >= readiness_index[n]
  BY <1>3, SMT
<1>5. ASSUME NEW r \in 1..Len(log[n])
      PROVE  r \in 1..Len(log'[n]) /\ log'[n][r] = log[n][r]
  <2>1. CASE log'[n] = log[n]
    BY <1>5, <2>1, SMT
  <2>2. ASSUME NEW e \in Entry, log'[n] = Append(log[n], e)
        PROVE  r \in 1..Len(log'[n]) /\ log'[n][r] = log[n][r]
    <3>1. r \in 1..Len(Append(log[n], e)) /\ Append(log[n], e)[r] = log[n][r]
      BY <1>2, <1>5, <2>2, AppendedEntry, SMT
    <3> QED
      BY <2>2, <3>1
  <2> QED
    BY <2>1, <2>2
<1> QED
  BY <1>1, <1>4, <1>5 DEF ReadyNode

\* A node that does not lead, or no longer leads, is not ready.
Yields(n) ==
  /\ role'[n] # "leader"
  /\ leader_ready'[n] = FALSE \/ (role[n] # "leader" /\ leader_ready'[n] = leader_ready[n])

LEMMA ReadyYields ==
  ASSUME NEW n, ReadyNode(n), Yields(n)
  PROVE  ReadyNode(n)'
  BY DEF Yields, ReadyNode

LEMMA ReadyStep ==
  ASSUME NEW n \in Node, Step(n), ReadyInv, StepKind(n)
  PROVE  ReadyInv'
<1>1. ReadyNode(n)
  BY DEF ReadyInv
<1>2. ASSUME NEW q \in Node, q # n
      PROVE  ReadyNode(q)'
  <2>1. /\ role'[q] = role[q] /\ current_term'[q] = current_term[q] /\ log'[q] = log[q]
        /\ last_applied'[q] = last_applied[q] /\ leader_ready'[q] = leader_ready[q]
        /\ readiness_index'[q] = readiness_index[q]
    BY <1>2 DEF Step, StepOf, OthersKept
  <2>2. ReadyNode(q)
    BY DEF ReadyInv
  <2> QED
    BY <2>1, <2>2 DEF ReadyNode
<1> SUFFICES ReadyNode(n)'
  BY <1>2 DEF ReadyInv
<1>3. Yields(n) => ReadyNode(n)'
  BY <1>1, ReadyYields
<1>4. last_applied[n] \in Nat /\ last_applied[n] >= last_applied[n]
  BY TypesNext, VariableTypes, SMT DEF Step, Sound
<1>5. CASE Answers(n)
  <2>1. Follows(n) => Yields(n)
    BY SMT DEF Follows, Yields
  <2>2. SameOffice(n) => ReadyNode(n)'
    BY <1>1, <1>4, <1>5, ReadyKept DEF Answers
  <2> QED
    BY <1>3, <1>5, <2>1, <2>2 DEF Answers
<1>6. CASE Campaigns(n)
  <2>1. role'[n] = "candidate" /\ leader_ready'[n] = FALSE
    BY <1>6 DEF Campaigns
  <2>2. Yields(n)
    BY <2>1, SMT DEF Yields
  <2> QED
    BY <1>3, <2>2
<1>7. CASE Wins(n)
  <2>1. CASE role'[n] = "follower"
    <3>1. leader_ready'[n] = FALSE
      BY <1>7 DEF Wins
    <3>2. Yields(n)
      BY <2>1, <3>1, SMT DEF Yields
    <3> QED
      BY <1>3, <3>2
  <2>2. CASE /\ log'[n] = Append(log[n], [term |-> current_term[n], command |-> Nil])
             /\ readiness_index'[n] = Len(log[n]) + 1
    <3>1. [term |-> current_term[n], command |-> Nil] \in Entry /\ log[n] \in Seq(Entry)
      BY StateType, NoopType DEF Step, Sound
    <3>0. PICK e : e = [term |-> current_term[n], command |-> Nil]
      OBVIOUS
    <3>2. /\ Len(log[n]) + 1 \in 1..Len(Append(log[n], e))
          /\ Append(log[n], e)[Len(log[n]) + 1] = e
      BY <3>0, <3>1, AppendedEntry, SMT
    <3>5. log'[n] = Append(log[n], e)
      BY <2>2, <3>0
    <3>6. Len(log[n]) + 1 \in 1..Len(log'[n]) /\ log'[n][Len(log[n]) + 1] = e
      BY <3>2, <3>5
    <3>3. log'[n][Len(log[n]) + 1].term = current_term[n]
      BY <3>0, <3>6, SMT
    <3>4. leader_ready'[n] = FALSE /\ current_term'[n] = current_term[n]
      BY <1>7 DEF Wins
    <3>7. ~leader_ready'[n]
      BY <3>4, SMT
    <3> QED
      BY <2>2, <3>3, <3>4, <3>6, <3>7 DEF ReadyNode
  <2> QED
    BY <1>7, <2>1, <2>2 DEF Wins
<1>8. CASE Stops(n)
  <2>1. ~Live(n)' /\ leader_ready'[n] = FALSE
    BY <1>8 DEF Stops
  <2>2. Yields(n)
    BY <2>1, SMT DEF Yields, Live, LiveRole
  <2> QED
    BY <1>3, <2>2
<1>9. CASE Restarts(n)
  <2>1. ~Live(n) /\ role'[n] = "follower" /\ leader_ready'[n] = leader_ready[n]
    BY <1>9 DEF Restarts
  <2>2. Yields(n)
    BY <2>1, SMT DEF Yields, Live, LiveRole
  <2> QED
    BY <1>3, <2>2
<1>10. CASE Leads(n)
  <2>1. /\ role[n] = "leader" /\ role'[n] = "leader" /\ current_term'[n] = current_term[n]
        /\ log'[n] = log[n] /\ readiness_index'[n] = readiness_index[n]
        /\ last_applied'[n] >= last_applied[n]
        /\ leader_ready'[n] = leader_ready[n] \/ last_applied'[n] >= readiness_index[n]
    BY <1>10 DEF Leads
  <2>2. readiness_index[n] \in Nat /\ last_applied[n] \in Nat /\ last_applied'[n] \in Nat
    BY TypesNext, VariableTypes, SMT DEF Step, Sound
  <2>3. last_applied[n] >= readiness_index[n] => last_applied'[n] >= readiness_index[n]
    BY <2>1, <2>2, SMT
  <2>4. leader_ready'[n] => last_applied'[n] >= readiness_index[n]
    BY <1>1, <2>1, <2>3 DEF ReadyNode
  <2> QED
    BY <1>1, <2>1, <2>4 DEF ReadyNode
<1>11. CASE Completes(n)
  <2>1. SameOffice(n) /\ log'[n] = log[n] /\ last_applied'[n] >= last_applied[n]
    BY <1>11 DEF Completes
  <2> QED
    BY <1>1, <2>1, ReadyKept
<1>12. ASSUME NEW m \in msgs, NEW k \in 0..Len(m.entries), Accepts(n, m, k)
       PROVE  ReadyNode(n)'
  <2>1. /\ role'[n] = "follower"
        /\ leader_ready'[n] = FALSE \/ (role[n] = "follower" /\ leader_ready'[n] = leader_ready[n])
    BY <1>12 DEF Accepts
  <2>2. Yields(n)
    BY <2>1, SMT DEF Yields
  <2> QED
    BY <1>3, <2>2
<1>13. ASSUME NEW e, Appends(n, e)
       PROVE  ReadyNode(n)'
  <2>1. /\ SameOffice(n) /\ e \in Entry /\ log'[n] = Append(log[n], e)
        /\ last_applied'[n] >= last_applied[n]
    BY <1>4, <1>13 DEF Appends
  <2> QED
    BY <1>1, <2>1, ReadyKept
<1> QED
  BY <1>5, <1>6, <1>7, <1>8, <1>9, <1>10, <1>11, <1>12, <1>13 DEF StepKind

\* The leader's no-op lies behind everything that earlier leaders committed.
LEMMA InvariantIsReadyCurrent ==
  ASSUME Sound, NEW H \in History, LogInv(H), CommitInv(H), ReadyInv
  PROVE  ReadyLeaderIsCurrent
<1> SUFFICES ASSUME NEW n \in Node, leader_ready[n], NEW i \in 1..Len(committed),
                    committed[i].term < current_term[n], ~(last_applied[n] >= i)
             PROVE  FALSE
  BY DEF ReadyLeaderIsCurrent
<1>1. PICK r, s, t : r = readiness_index[n] /\ s = committed[i].term /\ t = current_term[n]
  OBVIOUS
<1>2. /\ role[n] = "leader" /\ last_applied[n] >= r /\ r \in 1..Len(log[n])
      /\ log[n][r].term = t
  BY <1>1 DEF ReadyInv, ReadyNode
<1>3. /\ <<t, n>> \in elected /\ log[n] = H[t] /\ t \in Nat /\ log[n] \in Seq(Entry)
      /\ HistoryInv(H)
  BY <1>1, <1>2, StateType DEF LogInv, MemoryInv, Sound
<1>4. s \in Nat /\ i \in Nat /\ s < t /\ s <= t
  BY <1>1, <1>3, CommittedType, SMT DEF Sound
<1>5. Agree(H[t], H[s], i)
  BY <1>1, <1>3, <1>4, CommittedHeld
<1>6. last_applied[n] \in Nat /\ r \in Nat
  BY <1>1, VariableTypes, SMT DEF Sound
<1>7. r \in 1..i
  BY <1>2, <1>3, <1>4, <1>6, SMT
<1>8. H[s] \in Seq(Entry) /\ Len(H[s]) \in Nat /\ i <= Len(H[s]) /\ H[t][r] = H[s][r]
  BY <1>4, <1>5, <1>7, HistoryType DEF Agree
<1>9. r \in 1..Len(H[s])
  BY <1>4, <1>7, <1>8, SMT
<1>10. Within(H[s], s)
  BY <1>3, <1>4 DEF HistoryInv
<1>11. H[s][r].term <= s
  BY <1>9, <1>10 DEF Within
<1>12. t <= s
  BY <1>2, <1>3, <1>8, <1>11
<1> QED
  BY <1>3, <1>4, <1>12, SMT

-----------------------------------------------------------------------------
(* The bound on uncommitted entries *)

Bounded(last, commit) == last <= commit + MaxUncommitted

BoundInv ==
  /\ \A n \in Node : /\ Live(n) => Bounded(Len(log[n]), commit_index[n])
                     /\ Bounded(Len(disk[n].log), disk[n].commit)
  /\ \A m \in msgs : m.type = "AppendEntries" => Bounded(AckIndex(m), m.leader_commit)

\* It is enough to look at the memory of the node that takes the step and at
\* what it sends.
LEMMA BoundKept ==
  ASSUME NEW n \in Node, Step(n), BoundInv,
         Live(n)' => Bounded(Len(log'[n]), commit_index'[n]),
         \A m \in msgs' : m.type = "AppendEntries" => m \in msgs \/ Bounded(AckIndex(m), m.leader_commit)
  PROVE  BoundInv'
<1>1. ASSUME NEW q \in Node, q # n, Live(q)'
      PROVE  Bounded(Len(log'[q]), commit_index'[q])
  BY <1>1 DEF BoundInv, Step, StepOf, OthersKept, Live
<1>2. ASSUME NEW q \in Node
      PROVE  Bounded(Len(disk'[q].log), disk'[q].commit)
  <2>1. CASE disk'[q] = disk[q]
    BY <2>1 DEF BoundInv
  <2>2. CASE Live(q) /\ disk'[q].log = log[q] /\ disk'[q].commit = commit_index[q]
    BY <2>2 DEF BoundInv
  <2> QED
    BY <2>1, <2>2 DEF Step, MediumKept
<1>3. ASSUME NEW m \in msgs', m.type = "AppendEntries"
      PROVE  Bounded(AckIndex(m), m.leader_commit)
  BY <1>3 DEF BoundInv
<1> QED
  BY <1>1, <1>2, <1>3 DEF BoundInv, Bounded

LEMMA BoundAppended ==
  ASSUME TypeOK, NEW n \in Node, can_append(n), NEW e \in Entry
  PROVE  Bounded(Len(Append(log[n], e)), commit_index[n])
<1>1. log[n] \in Seq(Entry) /\ Len(log[n]) \in Nat /\ commit_index[n] \in Nat /\ MaxUncommitted \in Nat
  BY StateType, BoundAssumption, SMT
<1>2. Len(Append(log[n], e)) = Len(log[n]) + 1
  BY <1>1, SMT
<1>3. Len(log[n]) - commit_index[n] < MaxUncommitted
  BY DEF can_append, uncommitted_entry_count
<1>4. Len(log[n]) + 1 <= commit_index[n] + MaxUncommitted
  BY <1>1, <1>3, SMT
<1> QED
  BY <1>2, <1>4 DEF Bounded

LEMMA BoundAccepted ==
  ASSUME NEW n \in Node, Step(n), NEW H \in History, LogInv(H), BoundInv,
         NEW m \in msgs, NEW k \in 0..Len(m.entries), Accepts(n, m, k)
  PROVE  BoundInv'
<1>1. PICK match, l : match = m.prev_log_index + Len(m.entries) /\ l = Accepted(n, m, k)
  OBVIOUS
<1>2. /\ Idle(n) /\ Matches(n, m, k) /\ m.type = "AppendEntries" /\ log'[n] = l
      /\ commit_index'[n] = max(commit_index[n], learned_commit(m, match))
      /\ Replies(n, AppendResponse(n, m, m.term, TRUE, match, 0, 0))
  BY <1>1 DEF Accepts, Matches
<1>3. TypeOK /\ m \in AppendEntriesMsg /\ Segment(H, m) /\ HistoryInv(H) /\ Rooted(H, log[n]) /\ Live(n)
  BY <1>2, MessageType DEF Step, Sound, LogInv, MemoryInv, Idle, Live
<1>4. l \in Seq(Entry) /\ (l = log[n] \/ Len(l) = match)
  BY <1>1, <1>2, <1>3, AcceptedAgrees, SMT
<1>5. /\ match \in Nat /\ m.leader_commit \in Nat /\ commit_index[n] \in Nat /\ Len(log[n]) \in Nat
      /\ MaxUncommitted \in Nat
  <2>1. m.prev_log_index \in Nat /\ Len(m.entries) \in Nat /\ m.leader_commit \in Nat
    BY <1>3, SMT DEF AppendEntriesMsg
  <2>2. commit_index[n] \in Nat /\ Len(log[n]) \in Nat
    BY <1>3, StateType
  <2> QED
    BY <1>1, <2>1, <2>2, BoundAssumption, SMT
<1>6. Len(log[n]) <= commit_index[n] + MaxUncommitted
  BY <1>3 DEF BoundInv, Bounded
<1>7. match <= m.leader_commit + MaxUncommitted
  BY <1>1, <1>2 DEF BoundInv, Bounded, AckIndex
<1>8. /\ Len(log[n]) <= max(commit_index[n], learned_commit(m, match)) + MaxUncommitted
      /\ match <= max(commit_index[n], learned_commit(m, match)) + MaxUncommitted
  BY <1>5, <1>6, <1>7, SMT DEF max, learned_commit, min
<1>9. Bounded(Len(log'[n]), commit_index'[n])
  BY <1>2, <1>4, <1>8 DEF Bounded
<1>10. AppendResponse(n, m, m.term, TRUE, match, 0, 0).type # "AppendEntries"
  BY SMT DEF AppendResponse
<1>11. \A a \in msgs' : a.type = "AppendEntries" => a \in msgs
  BY <1>2, <1>10, RepliesLog
<1> QED
  BY <1>9, <1>11, BoundKept

LEMMA BoundLeads ==
  ASSUME NEW n \in Node, Step(n), BoundInv, Leads(n)
  PROVE  BoundInv'
<1>1. role[n] = "leader" /\ log'[n] = log[n]
  BY DEF Leads
<1>2. PICK progress \in [Node -> PeerProgress] : Sent(n, progress) /\ Commits(n, progress)
  BY DEF Leads
<1>3. TypeOK /\ Len(log[n]) \in Nat /\ commit_index[n] \in Nat /\ MaxUncommitted \in Nat
  BY StateType, BoundAssumption, SMT DEF Step, Sound
<1>4. Live(n)
  BY <1>1, SMT DEF Live, LiveRole
<1>5. Len(log[n]) <= commit_index[n] + MaxUncommitted
  BY <1>4 DEF BoundInv, Bounded
<1>6. commit_index'[n] \in Nat /\ commit_index'[n] >= commit_index[n]
  <2>1. \/ commit_index'[n] = commit_index[n]
        \/ commit_index'[n] \in (commit_index[n] + 1)..Len(log[n])
    BY <1>2 DEF Commits
  <2> QED
    BY <1>3, <2>1, SMT
<1>7. Bounded(Len(log'[n]), commit_index'[n])
  BY <1>1, <1>3, <1>5, <1>6, SMT DEF Bounded
<1>8. ASSUME NEW m \in msgs', m \notin msgs
      PROVE  Bounded(AckIndex(m), m.leader_commit)
  <2>1. PICK p \in Node \ {n} : m = AppendEntriesTo(n, p, progress[p], Len(log[n]))
    BY <1>2, <1>8 DEF Sent
  <2>2. progress[p] \in PeerProgress /\ p \in Node
    BY <1>2, <2>1, SMT
  <2>3. Rpc(n, m, SentLast(progress[p], Len(log[n])))
    BY <1>3, <2>1, <2>2, SentIndex
  <2>4. PICK last : last = SentLast(progress[p], Len(log[n]))
    OBVIOUS
  <2>5. AckIndex(m) = last /\ last \in Nat /\ last <= Len(log[n]) /\ m.leader_commit = commit_index[n]
    BY <2>3, <2>4 DEF Rpc
  <2> QED
    BY <1>3, <1>5, <2>5, SMT DEF Bounded
<1> QED
  BY <1>7, <1>8, BoundKept

LEMMA BoundStep ==
  ASSUME NEW n \in Node, Step(n), NEW H \in History, LogInv(H), BoundInv, StepKind(n)
  PROVE  BoundInv'
<1>1. TypeOK
  BY DEF Step, Sound
<1>2. ASSUME Live(n), log'[n] = log[n], commit_index'[n] = commit_index[n],
             \A m \in msgs' : m.type = "AppendEntries" => m \in msgs
      PROVE  BoundInv'
  BY <1>2, BoundKept DEF BoundInv
<1>3. Silent(n) => \A m \in msgs' : m \in msgs
  BY DEF Silent
<1>4. Idle(n) => Live(n)
  BY DEF Idle, Live
<1>5. CASE Answers(n)
  <2>1. \A w : Denial(w) => w.type # "AppendEntries"
    BY SMT DEF Denial
  <2>2. \A m, w : Grants(n, m, w) => w.type # "AppendEntries"
    BY SMT DEF Grants
  <2>3. \/ Silent(n)
        \/ \E w : Denial(w) /\ Replies(n, w)
        \/ \E m \in msgs : \E w : Grants(n, m, w) /\ Replies(n, w)
    BY <1>5 DEF Answers
  <2>4. \A m \in msgs' : m.type = "AppendEntries" => m \in msgs
    BY <1>3, <2>1, <2>2, <2>3, RepliesLog
  <2>5. Idle(n) /\ log'[n] = log[n] /\ commit_index'[n] = commit_index[n]
    BY <1>5 DEF Answers
  <2> QED
    BY <1>2, <1>4, <2>4, <2>5
<1>6. CASE Campaigns(n)
  <2>1. Idle(n) /\ log'[n] = log[n] /\ commit_index'[n] = commit_index[n] /\ Silent(n)
    BY <1>6 DEF Campaigns
  <2> QED
    BY <1>2, <1>3, <1>4, <2>1
<1>7. CASE Wins(n)
  <2>1. Idle(n) /\ Silent(n) /\ commit_index'[n] = commit_index[n]
    BY <1>7 DEF Wins
  <2>2. CASE log'[n] = log[n]
    BY <1>2, <1>3, <1>4, <2>1, <2>2
  <2>3. CASE can_append(n) /\ log'[n] = Append(log[n], [term |-> current_term[n], command |-> Nil])
    <3>1. [term |-> current_term[n], command |-> Nil] \in Entry
      BY <1>1, StateType, NoopType
    <3>2. Bounded(Len(log'[n]), commit_index'[n])
      BY <1>1, <2>1, <2>3, <3>1, BoundAppended
    <3> QED
      BY <1>3, <2>1, <3>2, BoundKept
  <2> QED
    BY <1>7, <2>2, <2>3 DEF Wins
<1>8. CASE Stops(n)
  <2>1. ~Live(n)' /\ msgs' = msgs
    BY <1>8 DEF Stops
  <2> QED
    BY <2>1, BoundKept
<1>9. CASE Restarts(n)
  <2>1. Silent(n) /\ log'[n] = disk[n].log /\ commit_index'[n] = disk[n].commit
    BY <1>9 DEF Restarts
  <2>2. Bounded(Len(log'[n]), commit_index'[n])
    BY <2>1 DEF BoundInv
  <2> QED
    BY <1>3, <2>1, <2>2, BoundKept
<1>10. CASE Leads(n)
  BY <1>10, BoundLeads
<1>11. CASE Completes(n)
  <2>1. Live(n) /\ log'[n] = log[n] /\ commit_index'[n] = commit_index[n]
    BY <1>11 DEF Completes
  <2>2. \A m \in msgs' : m.type = "AppendEntries" => m \in msgs
    <3>1. \A p : VoteRequest(n, p).type # "AppendEntries"
      BY SMT DEF VoteRequest
    <3>2. pending_storage[n] # Nil
          /\ \/ msgs' = msgs
             \/ Waiting(n) # Nil /\ msgs' = msgs \cup {Waiting(n)}
             \/ msgs' = msgs \cup {VoteRequest(n, p) : p \in Node \ {n}}
      BY <1>11 DEF Completes
    <3>3. ResponseInv(n)
      BY DEF LogInv
    <3> QED
      BY <3>1, <3>2, <3>3 DEF ResponseInv
  <2> QED
    BY <1>2, <2>1, <2>2
<1>12. ASSUME NEW m \in msgs, NEW k \in 0..Len(m.entries), Accepts(n, m, k)
       PROVE  BoundInv'
  BY <1>12, BoundAccepted
<1>13. ASSUME NEW e, Appends(n, e)
       PROVE  BoundInv'
  <2>1. /\ Silent(n) /\ can_append(n) /\ e \in Entry /\ log'[n] = Append(log[n], e)
        /\ commit_index'[n] = commit_index[n]
    BY <1>13 DEF Appends
  <2>2. Bounded(Len(log'[n]), commit_index'[n])
    BY <1>1, <2>1, BoundAppended
  <2> QED
    BY <1>3, <2>1, <2>2, BoundKept
<1> QED
  BY <1>5, <1>6, <1>7, <1>8, <1>9, <1>10, <1>11, <1>12, <1>13 DEF StepKind

LEMMA InvariantIsBounded ==
  ASSUME TypeOK, BoundInv
  PROVE  UncommittedBounded
<1> SUFFICES ASSUME NEW n \in Node, Live(n)
             PROVE  Len(log[n]) - commit_index[n] <= MaxUncommitted
  BY DEF UncommittedBounded, uncommitted_entry_count, Live
<1>1. Len(log[n]) \in Nat /\ commit_index[n] \in Nat /\ MaxUncommitted \in Nat
  BY StateType, BoundAssumption, SMT
<1>2. Len(log[n]) <= commit_index[n] + MaxUncommitted
  BY DEF BoundInv, Bounded
<1> QED
  BY <1>1, <1>2, SMT

-----------------------------------------------------------------------------
(* The whole invariant *)

SafetyInv ==
  /\ \E H \in History : LogInv(H) /\ CommitInv(H)
  /\ ReadyInv
  /\ BoundInv

LEMMA InitSafety ==
  ASSUME Init
  PROVE  SafetyInv
<1>1. PICK H : H = [t \in Nat |-> << >>]
  OBVIOUS
<1>2. H \in History /\ LogInv(H)
  BY <1>1, InitLog
<1>3. CommitInv(H)
  BY <1>2, InitCommit
<1>4. msgs = {}
  BY DEF Init
<1>5. ASSUME NEW n \in Node
      PROVE  /\ role[n] # "leader" /\ leader_ready[n] = FALSE /\ log[n] = << >> /\ commit_index[n] = 0
             /\ disk[n].log = << >> /\ disk[n].commit = 0
  BY SMT DEF Init
<1>6. ReadyInv
  BY <1>5 DEF ReadyInv, ReadyNode
<1>7. Bounded(Len(<< >>), 0)
  BY BoundAssumption, SMT DEF Bounded
<1>8. BoundInv
  BY <1>4, <1>5, <1>7 DEF BoundInv
<1> QED
  BY <1>2, <1>3, <1>6, <1>8 DEF SafetyInv

LEMMA SafetyConclusions ==
  ASSUME Sound, SafetyInv
  PROVE  /\ LogMatching /\ LeaderCompleteness /\ MatchIsDurable /\ ReadyLeaderIsCurrent
         /\ UncommittedBounded
<1>1. PICK H \in History : LogInv(H) /\ CommitInv(H)
  BY DEF SafetyInv
<1>2. TypeOK /\ ReadyInv /\ BoundInv
  BY DEF Sound, SafetyInv
<1> QED
  BY <1>1, <1>2, InvariantIsLogMatching, InvariantIsLeaderCompleteness, InvariantIsMatchDurable,
     InvariantIsReadyCurrent, InvariantIsBounded

\* A node stops for a failed storage operation only.
LEMMA StopReason ==
  ASSUME NEW n \in Node, Step(n), SafetyInv, StepKind(n), Live(n), role'[n] = "unavailable"
  PROVE  pending_storage[n] # Nil
<1>1. PICK H \in History : LogInv(H) /\ CommitInv(H)
  BY DEF SafetyInv
<1>2. \A m \in msgs : \A k \in 0..Len(m.entries) : Matches(n, m, k) => ~Overwrites(n, m, k)
  BY <1>1, NeverOverwrites DEF Step
<1>3. Stops(n)
  <2>1. /\ role'[n] # "follower" /\ role'[n] # "candidate" /\ role'[n] # "leader" /\ role'[n] # role[n]
        /\ role'[n] # "down"
    BY SMT DEF Live, LiveRole
  <2> QED
    BY <2>1 DEF StepKind, Answers, SameOffice, Follows, Campaigns, Wins, Restarts, Leads,
                       Completes, Accepts, Appends
<1>4. role'[n] # "down"
  BY SMT
<1> QED
  BY <1>2, <1>3, <1>4 DEF Stops

-----------------------------------------------------------------------------
(* What media record as committed *)

\* Entries are only added to what is committed.
LEMMA StepGrows ==
  ASSUME NEW n \in Node, Step(n), StepKind(n)
  PROVE  CommittedGrows
<1>1. CASE Leads(n)
  <2>1. PICK progress \in [Node -> PeerProgress] : Commits(n, progress)
    BY <1>1 DEF Leads
  <2>2. ASSUME NEW target \in (commit_index[n] + 1)..Len(log[n]), Certifies(n, target)
        PROVE  CommittedGrows
    <3>1. TypeOK /\ Len(log[n]) \in Nat /\ commit_index[n] \in Nat
      BY StateType DEF Step, Sound
    <3>2. target \in Nat /\ target <= Len(log[n])
      BY <2>2, <3>1, SMT
    <3> QED
      BY <2>2, <3>1, <3>2, CommitGrows
  <2> QED
    BY <2>1, <2>2, CommittedKept DEF Commits, Certifies, Certified
<1>2. CASE ~Leads(n)
  <2>1. committed' = committed
    BY <1>2 DEF StepKind, Answers, Campaigns, Wins, Stops, Restarts, Completes, Accepts, Appends,
                       GhostsKept
  <2> QED
    BY <2>1, CommittedKept
<1> QED
  BY <1>1, <1>2, SMT

\* The logs of leaders have the same chosen entries.
LEMMA ChosenAgree ==
  ASSUME Sound, NEW H \in History, HistoryInv(H), ElectedInv(H), NEW s \in Nat, NEW c \in Nat, Chosen(H, s, c),
         NEW t \in Nat, NEW d \in Nat, Chosen(H, t, d), NEW i \in 1..c, i <= d, t <= s
  PROVE  H[s][i] = H[t][i]
<1>1. Own(H, s, c) /\ Own(H, t, d) /\ ~Dead(t, d)
  BY ChosenAlive DEF Chosen
<1>2. H[s] # << >>
  BY <1>1, SMT DEF Own
<1>3. PICK q \in Node : <<s, q>> \in elected
  BY <1>2 DEF HistoryInv
<1>4. Agree(H[s], H[t], d)
  BY <1>1, <1>3, LeaderHolds
<1>5. i \in 1..d
  BY SMT
<1> QED
  BY <1>4, <1>5 DEF Agree

\* What a medium records as committed is committed.
LEMMA LearnedIsCommitted ==
  ASSUME Sound, SafetyInv, NEW n \in Node, NEW i \in 1..disk[n].commit
  PROVE  i \in 1..Len(committed) /\ i <= Len(disk[n].log) /\ disk[n].log[i] = committed[i].entry
<1>1. PICK H \in History : LogInv(H) /\ CommitInv(H)
  BY DEF SafetyInv
<1>2. PICK l, k : l = disk[n].log /\ k = disk[n].commit
  OBVIOUS
<1>3. TypeOK /\ l \in Seq(Entry) /\ Len(l) \in Nat /\ k \in Nat /\ Len(committed) \in Nat
  <2>1. committed \in Seq([entry : Entry, term : Nat])
    BY VariableTypes DEF Sound
  <2>2. Len(committed) \in Nat
    BY <2>1, SMT
  <2> QED
    BY <1>2, <2>2, StateType DEF Sound
<1>4. i \in 1..k
  BY <1>2
<1>5. i \in Nat /\ i # 0 /\ i <= k /\ k # 0
  BY <1>3, <1>4, SMT
<1>6. HistoryInv(H) /\ ElectedInv(H) /\ Known(H, l, k, disk[n].term) /\ CommittedInv(H)
  BY <1>1, <1>2 DEF LogInv, CommitInv, KnownInv
<1>7. i \in 1..Len(committed)
  <2>1. k <= Len(committed)
    BY <1>6 DEF Known
  <2> QED
    BY <1>3, <1>5, <2>1, SMT
<1>8. PICK s \in Nat, c \in Nat : k <= c /\ Chosen(H, s, c) /\ Agree(l, H[s], k)
  BY <1>5, <1>6 DEF Known
<1>9. PICK t : t = committed[i].term
  OBVIOUS
<1>10. PICK d \in Nat : i <= d /\ Chosen(H, t, d) /\ committed[i].entry = H[t][i]
  BY <1>6, <1>7, <1>9 DEF CommittedInv, CommittedEntry
<1>11. t \in Nat
  BY <1>3, <1>7, <1>9, CommittedType
<1>12. i <= c /\ i \in 1..c /\ i \in 1..d
  BY <1>3, <1>5, <1>8, <1>10, SMT
<1>13. H[s][i] = H[t][i]
  <2>1. CASE t <= s
    BY <1>6, <1>8, <1>10, <1>11, <1>12, <2>1, ChosenAgree, SMT
  <2>2. CASE s <= t
    BY <1>6, <1>8, <1>10, <1>11, <1>12, <2>2, ChosenAgree, SMT
  <2> QED
    BY <1>8, <1>11, <2>1, <2>2, SMT
<1>14. l[i] = H[s][i] /\ k <= Len(l)
  BY <1>4, <1>8 DEF Agree
<1>15. i <= Len(l)
  BY <1>3, <1>5, <1>14, SMT
<1> QED
  BY <1>2, <1>7, <1>10, <1>13, <1>14, <1>15

-----------------------------------------------------------------------------
(* Steps that change nothing *)

LEMMA StutterSafety ==
  ASSUME SafetyInv, UNCHANGED vars
  PROVE  SafetyInv'
<1>1. /\ role' = role /\ current_term' = current_term /\ log' = log /\ commit_index' = commit_index
      /\ last_applied' = last_applied /\ leader_ready' = leader_ready
      /\ readiness_index' = readiness_index /\ peers' = peers /\ pending_storage' = pending_storage
      /\ disk' = disk /\ msgs' = msgs /\ elected' = elected /\ committed' = committed
  BY DEF vars, hard_vars, log_vars, role_vars, peer_vars, ghost_vars
<1>2. ReadyInv' /\ BoundInv'
  BY <1>1 DEF SafetyInv, ReadyInv, ReadyNode, BoundInv, Live
<1>3. PICK H \in History : LogInv(H) /\ CommitInv(H)
  BY DEF SafetyInv
<1>4. LogInv(H)'
  <2>1. HistoryInv(H)' /\ ElectedDisk'
    BY <1>1, <1>3 DEF LogInv, HistoryInv, ElectedDisk
  <2>2. \A n \in Node : MemoryInv(H, n)' /\ DiskInv(H, n)' /\ ResponseInv(n)'
    BY <1>1, <1>3 DEF LogInv, MemoryInv, DiskInv, ResponseInv, Live, Waiting
  <2>3. \A m \in msgs' : m.type = "AppendEntries" => Segment(H, m)'
    BY <1>1, <1>3 DEF LogInv, Segment
  <2> QED
    BY <2>1, <2>2, <2>3 DEF LogInv
<1>5. ASSUME NEW v, NEW t, NEW c
      PROVE  /\ Acked(v, t, c)' <=> Acked(v, t, c)
             /\ Dead(t, c)' <=> Dead(t, c)
             /\ Chosen(H, t, c)' <=> Chosen(H, t, c)
  BY <1>1 DEF Acked, Dead, Chosen
<1>6. ASSUME NEW l, NEW t, NEW c
      PROVE  /\ Safe(H, l, t, c)' <=> Safe(H, l, t, c)
             /\ Known(H, l, c, t)' <=> Known(H, l, c, t)
  BY <1>1, <1>5 DEF Safe, Known
<1>7. AckInv(H)'
  <2>1. ASSUME NEW m, NEW l, NEW t
        PROVE  Keeps(H, m, l, t) => Keeps(H, m, l, t)'
    BY <1>6 DEF Keeps
  <2> QED
    BY <1>1, <1>3, <2>1 DEF CommitInv, AckInv, Live
<1>8. ElectedInv(H)'
  BY <1>1, <1>3, <1>5 DEF CommitInv, ElectedInv, ElectedLog
<1>9. VoteInv(H)'
  <2>1. ASSUME NEW b, NEW l
        PROVE  Backs(H, b, l) => Backs(H, b, l)'
    BY <1>1, <1>6 DEF Backs
  <2> QED
    BY <1>1, <1>3, <2>1 DEF CommitInv, VoteInv, BallotLog, Standing
<1>10. CommittedInv(H)' /\ KnownInv(H)'
  BY <1>1, <1>3, <1>5, <1>6 DEF CommitInv, CommittedInv, CommittedEntry, KnownInv, Live
<1>11. \A q \in Node : WaitInv(H, q)' /\ PeerInv(q)'
  <2>1. ASSUME NEW q \in Node
        PROVE  WaitInv(H, q)'
    BY <1>1, <1>3, <2>1 DEF CommitInv, WaitInv, Waiting, Asks, Ballot, AckMsg, AckIndex, Agree
  <2>2. ASSUME NEW q \in Node
        PROVE  PeerInv(q)'
    BY <1>1, <1>3, <1>5, <2>2 DEF CommitInv, PeerInv
  <2> QED
    BY <2>1, <2>2, SMT
<1> QED
  BY <1>2, <1>3, <1>4, <1>7, <1>8, <1>9, <1>10, <1>11 DEF SafetyInv, CommitInv

-----------------------------------------------------------------------------
(* The abstract replicated log *)

LearnedInv ==
  \A n \in Node : \A i \in 1..disk[n].commit :
    i \in 1..Len(committed) /\ i <= Len(disk[n].log) /\ disk[n].log[i] = committed[i].entry

\* The abstract state is made of sequences of entries.
ChosenSeq ==
  /\ chosen \in Seq(Entry) /\ Len(chosen) = Len(committed) /\ Len(committed) \in Nat
  /\ \A i \in 1..Len(committed) : chosen[i] = committed[i].entry

LearnedSeq ==
  \A n \in Node :
    LET prefix == committed_prefix(disk[n])
    IN /\ prefix \in Seq(Entry) /\ Len(prefix) = disk[n].commit
       /\ disk[n].commit \in Nat /\ disk[n].commit <= Len(committed)
       /\ \A i \in 1..disk[n].commit : prefix[i] = committed[i].entry

LEMMA SafetyIsLearned == (Sound /\ SafetyInv => LearnedInv) /\ ((Sound /\ SafetyInv)' => LearnedInv')
<1>1. Sound /\ SafetyInv => LearnedInv
  BY LearnedIsCommitted DEF LearnedInv
<1> QED
  BY <1>1, PTL

LEMMA PrefixIs ==
  ASSUME NEW S, NEW s \in Seq(S), NEW t \in Seq(S), Len(t) <= Len(s), \A i \in 1..Len(t) : t[i] = s[i]
  PROVE  SubSeq(s, 1, Len(t)) = t
<1>1. PICK k : k = Len(t)
  OBVIOUS
<1>2. k \in Nat /\ k <= Len(s) /\ \A i \in 1..k : s[i] \in S
  BY <1>1, SMT
<1>3. /\ SubSeq(s, 1, k) \in Seq(S)
      /\ Len(SubSeq(s, 1, k)) = IF 1 <= k THEN k - 1 + 1 ELSE 0
      /\ \A i \in 1..(k - 1 + 1) : SubSeq(s, 1, k)[i] = s[1 + i - 1]
  BY <1>2, SMT
<1>4. Len(SubSeq(s, 1, k)) = k /\ \A i \in 1..k : SubSeq(s, 1, k)[i] = s[i]
  BY <1>2, <1>3, SMT
<1>5. /\ Len(SubSeq(s, 1, k)) = Len(t)
      /\ \A i \in 1..Len(SubSeq(s, 1, k)) : SubSeq(s, 1, k)[i] = t[i]
  BY <1>1, <1>4
<1>6. SubSeq(s, 1, k) = t
  BY <1>3, <1>5, SMT
<1> QED
  BY <1>1, <1>6

LEMMA ChosenType == (TypeOK => ChosenSeq) /\ (TypeOK' => ChosenSeq')
<1>1. TypeOK => ChosenSeq
  <2> SUFFICES ASSUME TypeOK
               PROVE  ChosenSeq
    BY SMT
  <2>1. committed \in Seq([entry : Entry, term : Nat])
    BY VariableTypes
  <2>2. Len(committed) \in Nat /\ chosen \in [1..Len(committed) -> Entry]
    BY <2>1, CommittedType, SMT DEF chosen
  <2>3. chosen \in Seq(Entry) /\ Len(chosen) = Len(committed)
    BY <2>2, FunctionSeq
  <2>4. \A i \in 1..Len(committed) : chosen[i] = committed[i].entry
    BY SMT DEF chosen
  <2> QED
    BY <2>2, <2>3, <2>4 DEF ChosenSeq
<1> QED
  BY <1>1, PTL

LEMMA LearnedType == (TypeOK /\ LearnedInv => LearnedSeq) /\ ((TypeOK /\ LearnedInv)' => LearnedSeq')
<1>1. TypeOK /\ LearnedInv => LearnedSeq
  <2> SUFFICES ASSUME TypeOK, LearnedInv, NEW n \in Node
               PROVE  /\ committed_prefix(disk[n]) \in Seq(Entry)
                      /\ Len(committed_prefix(disk[n])) = disk[n].commit /\ disk[n].commit \in Nat
                      /\ disk[n].commit <= Len(committed)
                      /\ \A i \in 1..disk[n].commit : committed_prefix(disk[n])[i] = committed[i].entry
    BY DEF LearnedSeq
  <2>1. PICK d, k : d = disk[n] /\ k = d.commit
    OBVIOUS
  <2>2. k \in Nat /\ Len(committed) \in Nat
    <3>1. committed \in Seq([entry : Entry, term : Nat])
      BY VariableTypes
    <3>2. Len(committed) \in Nat
      BY <3>1, SMT
    <3> QED
      BY <2>1, <3>2, StateType
  <2>3. ASSUME NEW i \in 1..k
        PROVE  /\ i \in 1..Len(committed) /\ i <= Len(d.log) /\ d.log[i] = committed[i].entry
               /\ committed[i].entry \in Entry
    BY <2>1, <2>3, CommittedType DEF LearnedInv
  <2>4. \A i \in 1..k : committed_prefix(d)[i] = committed[i].entry
    BY <2>1, <2>3, SMT DEF committed_prefix
  <2>5. committed_prefix(d) \in [1..k -> Entry]
    BY <2>1, <2>3, SMT DEF committed_prefix
  <2>6. committed_prefix(d) \in Seq(Entry) /\ Len(committed_prefix(d)) = k
    BY <2>2, <2>5, FunctionSeq
  <2>7. k <= Len(committed)
    <3>1. CASE k = 0
      BY <2>2, <3>1, SMT
    <3>2. CASE k # 0
      <4>1. k \in 1..k
        BY <2>2, <3>2, SMT
      <4>2. k \in 1..Len(committed)
        BY <2>3, <4>1
      <4> QED
        BY <4>2, SMT
    <3> QED
      BY <3>1, <3>2, SMT
  <2> QED
    BY <2>1, <2>2, <2>4, <2>6, <2>7
<1> QED
  BY <1>1, PTL

LEMMA InitRefines ==
  ASSUME Init
  PROVE  Log!Init
<1>1. committed = << >> /\ \A n \in Node : disk[n].commit = 0
  BY SMT DEF Init
<1>2. chosen = << >>
  BY <1>1, SMT DEF chosen
<1>3. \A n \in Node : committed_prefix(disk[n]) = << >>
  BY <1>1, SMT DEF committed_prefix
<1>4. learned = [n \in Node |-> << >>]
  BY <1>3 DEF learned
<1> QED
  BY <1>2, <1>4 DEF Log!Init

\* A step lets the chosen entries grow, and the node that takes it may learn of
\* more of them.
LEMMA StepRefines ==
  ASSUME NEW n \in Node, Step(n), StepKind(n), LearnedInv, LearnedInv'
  PROVE  Log!Next
<1>1. TypeOK /\ TypeOK' /\ disk'[n].commit >= disk[n].commit
  BY DEF Step, Sound, MediumKept
<1>2. ChosenSeq /\ ChosenSeq' /\ LearnedSeq /\ LearnedSeq'
  BY <1>1, ChosenType, LearnedType
<1>3. PICK C, D, k : C = chosen /\ D = chosen' /\ k = disk'[n].commit
  OBVIOUS
<1>4. /\ C \in Seq(Entry) /\ Len(C) = Len(committed) /\ Len(committed) \in Nat
      /\ \A i \in 1..Len(committed) : C[i] = committed[i].entry
      /\ D \in Seq(Entry) /\ Len(D) = Len(committed') /\ Len(committed') \in Nat
      /\ \A i \in 1..Len(committed') : D[i] = committed'[i].entry
  BY <1>2, <1>3 DEF ChosenSeq
<1>5. Len(committed) <= Len(committed') /\ \A i \in 1..Len(committed) : committed'[i] = committed[i]
  BY StepGrows DEF CommittedGrows
<1>6. Len(C) <= Len(D) /\ SubSeq(D, 1, Len(C)) = C
  <2>1. ASSUME NEW i \in 1..Len(C)
        PROVE  C[i] = D[i]
    <3>1. i \in 1..Len(committed) /\ i \in 1..Len(committed')
      BY <1>4, <1>5, <2>1, SMT
    <3> QED
      BY <1>4, <1>5, <3>1
  <2>2. Len(C) <= Len(D)
    BY <1>4, <1>5
  <2> QED
    BY <1>4, <2>1, <2>2, PrefixIs
<1>7. /\ committed_prefix(disk'[n]) \in Seq(Entry) /\ Len(committed_prefix(disk'[n])) = k /\ k \in Nat
      /\ k <= Len(committed') /\ \A i \in 1..k : committed_prefix(disk'[n])[i] = committed'[i].entry
  BY <1>2, <1>3 DEF LearnedSeq, committed_prefix
<1>8. committed_prefix(disk'[n]) = SubSeq(D, 1, k)
  <2>1. PICK t : t = committed_prefix(disk'[n])
    OBVIOUS
  <2>2. t \in Seq(Entry) /\ Len(t) = k
    BY <1>7, <2>1
  <2>3. ASSUME NEW i \in 1..k
        PROVE  t[i] = D[i]
    <3>1. i \in 1..Len(committed')
      BY <1>4, <1>7, <2>3, SMT
    <3> QED
      BY <1>4, <1>7, <2>1, <3>1
  <2>4. k <= Len(D)
    BY <1>4, <1>7
  <2> QED
    BY <1>4, <2>1, <2>2, <2>3, <2>4, PrefixIs
<1>9. learned' = [learned EXCEPT ![n] = SubSeq(D, 1, k)]
  <2>1. learned' = [q \in Node |-> committed_prefix(disk'[q])]
    BY DEF learned, committed_prefix
  <2>2. \A q \in Node \ {n} : disk'[q] = disk[q]
    BY DEF Step, StepOf, OthersKept
  <2> QED
    BY <1>8, <2>1, <2>2 DEF learned
<1>10. k \in Len(learned[n])..Len(D)
  <2>1. learned[n] = committed_prefix(disk[n])
    BY SMT DEF learned
  <2>2. Len(learned[n]) = disk[n].commit /\ disk[n].commit \in Nat
    BY <1>2, <2>1 DEF LearnedSeq
  <2> QED
    BY <1>1, <1>3, <1>4, <1>7, <2>2, SMT
<1>11. Log!Choose
  BY <1>3, <1>4, <1>6, <1>9, <1>10 DEF Log!Choose, Log!Extends
<1> QED
  BY <1>11 DEF Log!Next
=============================================================================
