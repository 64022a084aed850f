-------------------------- MODULE RaftCommitProofs --------------------------
(***************************************************************************)
(* Proofs about Raft, fifth part: every kind of step preserves the         *)
(* invariant on what is committed.                                         *)
(***************************************************************************)
EXTENDS RaftLogProofs

\* The leaves are proved with Zenon unless they cite another prover.
USE Zenon

-----------------------------------------------------------------------------
(* The inductive invariant *)

\* What a step does to the node that takes it.
MemoryKeeps(G, n) ==
  Live(n)' => /\ \A m \in msgs : AckMsg(m) /\ m.from = n => Keeps(G, m, log[n], current_term[n])'
              /\ Known(G, log[n], commit_index[n], current_term[n])'

NewMessages(G, n) ==
  /\ \A b \in msgs' : Ballot(b) => b \in msgs \/ FreshBallot(n, b)
  /\ \A m \in msgs' : m.type = "AppendEntries" =>
       m \in msgs \/ Known(G, G[m.term], m.leader_commit, m.term)'

LEMMA InvariantStep ==
  ASSUME NEW H, NEW G, NEW n \in Node, Move(H, G, n), CommitInv(H), MemoryKeeps(G, n),
         NewMessages(G, n), StandsAs(n), WaitInv(G, n)', PeerInv(n)', CommittedGrows,
         \A e \in elected' : e \in elected \/ ElectedLog(G, e)',
         \A i \in 1..Len(committed') : i \in 1..Len(committed) \/ CommittedEntry(G, i)'
  PROVE  CommitInv(G)'
<1>1. /\ AckInv(H) /\ ElectedInv(H) /\ VoteInv(H) /\ CommittedInv(H) /\ KnownInv(H)
      /\ \A q \in Node : WaitInv(H, q)
      /\ \A q \in Node : PeerInv(q)
  BY DEF CommitInv
<1>2. AckInv(G)'
  BY <1>1, AckStep DEF MemoryKeeps
<1>3. ElectedInv(G)'
  BY <1>1, ElectedStep
<1>4. VoteInv(G)'
  BY <1>1, VoteStep DEF NewMessages
<1>5. CommittedInv(G)'
  BY <1>1, CommittedStep
<1>6. KnownInv(G)'
  BY <1>1, KnownInvStep DEF MemoryKeeps, NewMessages
<1>7. (\A q \in Node : WaitInv(G, q)') /\ \A q \in Node : PeerInv(q)'
  BY <1>1, WaitStep, PeerStep DEF Move
<1> QED
  BY <1>2, <1>3, <1>4, <1>5, <1>6, <1>7 DEF CommitInv

LEMMA IdleDiskNext ==
  ASSUME NEW n \in Node, Step(n), Live(n)', pending_storage'[n] = Nil
  PROVE  disk'[n].term = current_term'[n] /\ disk'[n].log = log'[n]
<1>1. NodeInv(n)'
  BY DEF Step, Sound, LocalInv
<1> QED
  BY <1>1 DEF NodeInv, IdleInv

\* A log k that agrees with whatever l agrees with.
Follow(l, k) == \A h \in Seq(Entry) : \A c \in Nat : Agree(l, h, c) => Agree(k, h, c)

LEMMA KeepsFollow ==
  ASSUME NEW H \in History, NEW m, m.term \in Nat, AckIndex(m) \in Nat, NEW l, NEW k, Follow(l, k),
         NEW t \in Nat, Keeps(H, m, l, t)
  PROVE  Keeps(H, m, k, t)
<1>1. H[m.term] \in Seq(Entry) /\ H[t] \in Seq(Entry)
  BY HistoryType
<1>2. \A c \in 1..AckIndex(m) : c \in Nat
  BY SMT
<1> QED
  BY <1>1, <1>2 DEF Keeps, Safe, Follow

LEMMA KnownFollow ==
  ASSUME NEW H \in History, NEW l, NEW k, Follow(l, k), NEW c \in Nat, NEW t, Known(H, l, c, t)
  PROVE  Known(H, k, c, t)
<1>1. \A s \in Nat : H[s] \in Seq(Entry)
  BY HistoryType
<1> QED
  BY <1>1 DEF Known, Follow

LEMMA ExtendedFollows ==
  ASSUME TypeOK, NEW n \in Node, NewEntry(n)
  PROVE  Follow(log[n], log'[n])
  BY ExtendedAgrees DEF Follow

\* The log stays or grows by an entry, and the term does not go back.
LEMMA KeepsKept ==
  ASSUME NEW H, NEW G, NEW n \in Node, Move(H, G, n), CommitInv(H), Live(n),
         NewEntry(n), current_term'[n] >= current_term[n]
  PROVE  \A m \in msgs : AckMsg(m) /\ m.from = n => Keeps(G, m, log[n], current_term[n])'
<1> SUFFICES ASSUME NEW m \in msgs, AckMsg(m), m.from = n
             PROVE  Keeps(G, m, log[n], current_term[n])'
  OBVIOUS
<1>1. PICK l, t, u : l = log'[n] /\ t = current_term[n] /\ u = current_term'[n]
  OBVIOUS
<1>2. /\ l \in Seq(Entry) /\ t \in Nat /\ u \in Nat /\ t <= u /\ H \in History /\ TypeOK
      /\ m.term \in Nat /\ AckIndex(m) \in Nat
  <2>1. /\ l \in Seq(Entry) /\ t \in Nat /\ u \in Nat /\ H \in History /\ TypeOK
        /\ m.term \in Nat /\ AckIndex(m) \in Nat
    BY <1>1, Types DEF Move, Typed, Step, Sound
  <2> QED
    BY <1>1, <2>1
<1>3. AckInv(H) /\ Keeps(H, m, log[n], t)
  BY <1>1 DEF CommitInv, AckInv
<1>4. Keeps(H, m, l, t)
  BY <1>1, <1>2, <1>3, ExtendedFollows, KeepsFollow
<1>5. Keeps(H, m, l, u)
  BY <1>2, <1>4, KeepsLater
<1>6. Keeps(G, m, l, u)'
  BY <1>2, <1>3, <1>5, KeepsStep
<1> QED
  BY <1>1, <1>6 DEF Keeps, Safe

LEMMA KnownKept ==
  ASSUME NEW H, NEW G, NEW n \in Node, Move(H, G, n), CommitInv(H), Live(n), CommittedGrows,
         NewEntry(n), current_term'[n] >= current_term[n], commit_index'[n] = commit_index[n]
  PROVE  Known(G, log[n], commit_index[n], current_term[n])'
<1>1. PICK l, t, u, k : l = log'[n] /\ t = current_term[n] /\ u = current_term'[n] /\ k = commit_index'[n]
  OBVIOUS
<1>2. /\ l \in Seq(Entry) /\ t \in Nat /\ u \in Nat /\ t <= u /\ H \in History /\ TypeOK /\ k \in Nat
  <2>1. l \in Seq(Entry) /\ t \in Nat /\ u \in Nat /\ H \in History /\ TypeOK /\ k \in Nat
    BY <1>1, Types DEF Move, Typed, Step, Sound
  <2> QED
    BY <1>1, <2>1
<1>3. Known(H, log[n], k, t)
  BY <1>1 DEF CommitInv, KnownInv
<1>4. Known(H, l, k, t)
  BY <1>1, <1>2, <1>3, ExtendedFollows, KnownFollow
<1>5. Known(G, l, k, u)'
  BY <1>2, <1>4, KnownStep
<1> QED
  BY <1>1, <1>5 DEF Known

\* The leader of its term has the peers it had.
LEMMA PeersKept ==
  ASSUME NEW n \in Node, Step(n), PeerInv(n), role'[n] = role[n], current_term'[n] = current_term[n],
         peers'[n] = peers[n]
  PROVE  PeerInv(n)'
<1>1. PICK t, P : t = current_term[n] /\ P = peers[n]
  OBVIOUS
<1>2. current_term'[n] = t /\ peers'[n] = P
  BY <1>1
<1>3. ASSUME role'[n] = "leader", NEW p \in Node \ {n}
      PROVE  /\ P[p].match_index > 0 =>
                  Acked(p, t, P[p].match_index)' /\ Acked(n, t, P[p].match_index)'
             /\ P[p].inflight # Nil => Acked(n, t, P[p].inflight.last_index)'
  <2>1. /\ P[p].match_index > 0 => Acked(p, t, P[p].match_index) /\ Acked(n, t, P[p].match_index)
        /\ P[p].inflight # Nil => Acked(n, t, P[p].inflight.last_index)
    BY <1>1, <1>3 DEF PeerInv
  <2> QED
    BY <2>1, AckedStep
<1> QED
  BY <1>2, <1>3 DEF PeerInv, Acked

LEMMA SilentWait ==
  ASSUME NEW G, NEW n \in Node, Silent(n)
  PROVE  WaitInv(G, n)'
  BY DEF Silent, WaitInv

-----------------------------------------------------------------------------
(* The kinds of steps *)

\* A step for which the invariant on logs is known to hold.
Base(H, G, n) ==
  Step(n) /\ H \in History /\ G \in History /\ Grows(H, G) /\ LogInv(H) /\ LogInv(G)'

LEMMA SilentMove ==
  ASSUME NEW H, NEW G, NEW n \in Node, Base(H, G, n), msgs' = msgs
  PROVE  Move(H, G, n) /\ NewMessages(G, n)
  BY DEF Base, Move, NewMessages

LEMMA PlainStep ==
  ASSUME NEW H, NEW G, NEW n \in Node, Move(H, G, n), CommitInv(H), MemoryKeeps(G, n),
         NewMessages(G, n), StandsAs(n), WaitInv(G, n)', PeerInv(n)', GhostsKept
  PROVE  CommitInv(G)'
<1>1. CommittedGrows
  BY CommittedKept DEF Move, GhostsKept
<1>2. /\ \A e \in elected' : e \in elected
      /\ \A i \in 1..Len(committed') : i \in 1..Len(committed)
  BY DEF GhostsKept
<1> QED
  BY <1>1, <1>2, InvariantStep

\* The commit index stays, and the log stays or grows by an entry.
LEMMA PlainMemory ==
  ASSUME NEW H, NEW G, NEW n \in Node, Move(H, G, n), CommitInv(H), Live(n), committed' = committed,
         NewEntry(n), current_term'[n] >= current_term[n], commit_index'[n] = commit_index[n]
  PROVE  MemoryKeeps(G, n)
  BY CommittedKept, KeepsKept, KnownKept DEF Move, MemoryKeeps

\* A reply that is no acknowledgment.
LEMMA RepliesMove ==
  ASSUME NEW H, NEW n \in Node, Base(H, H, n), NEW w, ~AckMsg(w), Replies(n, w), Live(n),
         Live(n)', log'[n] = log[n],
         Ballot(w) => /\ w.type = "RequestVoteResponse" /\ w.from = n /\ w.term = current_term'[n]
                      /\ \E m \in msgs : Asks(m, w, log[n])
  PROVE  Move(H, H, n) /\ NewMessages(H, n) /\ WaitInv(H, n)'
<1>1. \A m \in msgs' : m \in msgs \/ m = w
  BY SMT DEF Replies
<1>2. w.type # "AppendEntries"
  BY DEF AckMsg
<1>3. Move(H, H, n)
  BY <1>1 DEF Base, Move
<1>4. CASE pending_storage'[n] = Nil
  <2>1. disk'[n].term = current_term'[n]
    BY <1>4, IdleDiskNext DEF Base
  <2>2. Ballot(w) => FreshBallot(n, w)
    BY <2>1 DEF FreshBallot
  <2>3. WaitInv(H, n)'
    BY <1>4 DEF WaitInv
  <2>4. NewMessages(H, n)
    <3>1. \A b \in msgs' : Ballot(b) => b \in msgs \/ FreshBallot(n, b)
      BY <1>1, <2>2
    <3>2. \A m \in msgs' : m.type = "AppendEntries" => m \in msgs
      BY <1>1, <1>2
    <3> QED
      BY <3>1, <3>2 DEF NewMessages
  <2> QED
    BY <1>3, <2>3, <2>4
<1>5. CASE msgs' = msgs /\ Waiting(n)' = w
  <2>1. WaitInv(H, n)'
    BY <1>5 DEF WaitInv, Ballot, AckMsg, Asks
  <2> QED
    BY <1>3, <1>5, <2>1 DEF NewMessages
<1> QED
  BY <1>4, <1>5 DEF Replies

LEMMA AnswersCommit ==
  ASSUME NEW H, NEW n \in Node, Base(H, H, n), CommitInv(H), Answers(n)
  PROVE  CommitInv(H)'
<1>1. /\ Live(n) /\ GhostsKept /\ log'[n] = log[n] /\ commit_index'[n] = commit_index[n]
      /\ committed' = committed
      /\ SameOffice(n) \/ (Follows(n) /\ current_term'[n] >= current_term[n])
      /\ \/ Silent(n)
         \/ \E w : Denial(w) /\ Replies(n, w)
         \/ \E m \in msgs : \E w : Grants(n, m, w) /\ Replies(n, w)
  BY DEF Answers, GhostsKept, Idle, Live
<1>2. Live(n)'
  BY <1>1 DEF SameOffice, Follows, Live, LiveRole
<1>3. current_term'[n] >= current_term[n]
  <2>1. current_term[n] \in Nat
    BY Types DEF Base, Typed
  <2> QED
    BY <1>1, <2>1, SMT DEF SameOffice
<1>4. StandsAs(n)
  <2>1. Follows(n) => role'[n] # "candidate"
    BY DEF Follows
  <2> QED
    BY <1>1, <2>1 DEF StandsAs, SameOffice
<1>5. PeerInv(n)'
  <2>1. CASE SameOffice(n)
    BY <2>1, PeersKept DEF SameOffice, Base, CommitInv
  <2>2. CASE role'[n] # "leader"
    BY <2>2 DEF PeerInv
  <2>3. Follows(n) => role'[n] # "leader"
    BY DEF Follows
  <2> QED
    BY <1>1, <2>1, <2>2, <2>3
<1>6. Move(H, H, n) /\ NewMessages(H, n) /\ WaitInv(H, n)'
  <2>1. CASE Silent(n)
    BY <2>1, SilentMove, SilentWait DEF Silent
  <2>2. ASSUME NEW w, Denial(w), Replies(n, w)
        PROVE  Move(H, H, n) /\ NewMessages(H, n) /\ WaitInv(H, n)'
    <3>1. ~AckMsg(w) /\ ~Ballot(w)
      BY <2>2 DEF Denial, AckMsg, Ballot
    <3> QED
      BY <1>1, <1>2, <2>2, <3>1, RepliesMove
  <2>3. ASSUME NEW m \in msgs, NEW w, Grants(n, m, w), Replies(n, w)
        PROVE  Move(H, H, n) /\ NewMessages(H, n) /\ WaitInv(H, n)'
    <3>1. ~AckMsg(w)
      BY <2>3 DEF Grants, AckMsg
    <3>2. /\ w.type = "RequestVoteResponse" /\ w.from = n /\ w.term = current_term'[n]
          /\ Asks(m, w, log[n])
      BY <2>3 DEF Grants, Asks
    <3> QED
      BY <1>1, <1>2, <2>3, <3>1, <3>2, RepliesMove
  <2> QED
    BY <1>1, <2>1, <2>2, <2>3
<1>7. MemoryKeeps(H, n)
  BY <1>1, <1>3, <1>6, PlainMemory DEF NewEntry
<1> QED
  BY <1>1, <1>4, <1>5, <1>6, <1>7, PlainStep

LEMMA CampaignsCommit ==
  ASSUME NEW H, NEW n \in Node, Base(H, H, n), CommitInv(H), Campaigns(n)
  PROVE  CommitInv(H)'
<1>1. /\ Live(n) /\ pending_storage[n] = Nil /\ GhostsKept /\ Silent(n) /\ msgs' = msgs
      /\ disk' = disk /\ committed' = committed /\ log'[n] = log[n]
      /\ commit_index'[n] = commit_index[n] /\ role'[n] = "candidate"
      /\ current_term'[n] = current_term[n] + 1
  BY DEF Campaigns, GhostsKept, Idle, Live, Silent
<1>2. current_term[n] \in Nat /\ disk[n].term = current_term[n]
  BY <1>1, Types, IdleDisk DEF Base, Typed, Step
<1>3. current_term'[n] >= current_term[n] /\ disk'[n].term < current_term'[n] /\ role'[n] # "leader"
  BY <1>1, <1>2, SMT
<1>4. Move(H, H, n) /\ NewMessages(H, n) /\ WaitInv(H, n)' /\ PeerInv(n)' /\ StandsAs(n)
  BY <1>1, <1>3, SilentMove, SilentWait DEF PeerInv, StandsAs
<1>5. MemoryKeeps(H, n)
  BY <1>1, <1>3, <1>4, PlainMemory DEF NewEntry
<1> QED
  BY <1>1, <1>4, <1>5, PlainStep

LEMMA WinsCommit ==
  ASSUME NEW H, NEW G, NEW n \in Node, Base(H, G, n), CommitInv(H), Wins(n), Extended(H, G, n)
  PROVE  CommitInv(G)'
<1>1. /\ Live(n) /\ Silent(n) /\ msgs' = msgs /\ committed' = committed
      /\ commit_index'[n] = commit_index[n] /\ current_term'[n] = current_term[n]
      /\ elected' = elected \cup {<<current_term[n], n>>}
      /\ \/ /\ role'[n] = "leader"
            /\ \A p \in Node : peers'[n][p].match_index = 0 /\ peers'[n][p].inflight = Nil
         \/ role'[n] = "follower"
  BY DEF Wins, Idle, Live, Silent
<1>2. current_term'[n] >= current_term[n]
  BY <1>1, Types, SMT DEF Base, Typed
<1>3. Move(H, G, n) /\ NewMessages(G, n) /\ WaitInv(G, n)'
  BY <1>1, SilentMove, SilentWait
<1>4. PeerInv(n)' /\ StandsAs(n)
  <2>1. role'[n] # "candidate"
    BY <1>1, SMT
  <2>2. role'[n] = "follower" => role'[n] # "leader"
    BY SMT
  <2>3. \A k : k = 0 => ~(k > 0)
    BY SMT
  <2> QED
    BY <1>1, <2>1, <2>2, <2>3 DEF PeerInv, StandsAs
<1>5. NewEntry(n)
  BY WinsNewEntry DEF Base, Step, Sound
<1>6. MemoryKeeps(G, n)
  BY <1>1, <1>2, <1>3, <1>5, PlainMemory
<1>7. \A e \in elected' : e \in elected \/ ElectedLog(G, e)'
  <2>1. \A e \in elected' : e \in elected \/ e = <<current_term[n], n>>
    BY <1>1
  <2>2. ASSUME NEW e, e = <<current_term[n], n>>
        PROVE  ElectedLog(G, e)'
    BY <1>3, <2>2, WinnerLog DEF CommitInv
  <2> QED
    BY <2>1, <2>2
<1>8. CommittedGrows /\ \A i \in 1..Len(committed') : i \in 1..Len(committed)
  BY <1>1, CommittedKept DEF Base
<1> QED
  BY <1>3, <1>4, <1>6, <1>7, <1>8, InvariantStep

LEMMA AppendsCommit ==
  ASSUME NEW H, NEW G, NEW n \in Node, Base(H, G, n), CommitInv(H), NEW e, Appends(n, e)
  PROVE  CommitInv(G)'
<1>1. /\ Live(n) /\ Silent(n) /\ msgs' = msgs /\ GhostsKept /\ committed' = committed
      /\ commit_index'[n] = commit_index[n] /\ current_term'[n] = current_term[n]
      /\ role[n] = "leader" /\ role'[n] = role[n] /\ peers'[n] = peers[n] /\ NewEntry(n)
  BY DEF Appends, SameOffice, GhostsKept, Idle, Live, Silent, NewEntry
<1>2. current_term'[n] >= current_term[n] /\ role'[n] # "candidate"
  BY <1>1, Types, SMT DEF Base, Typed
<1>3. Move(H, G, n) /\ NewMessages(G, n) /\ WaitInv(G, n)' /\ StandsAs(n)
  BY <1>1, <1>2, SilentMove, SilentWait DEF StandsAs
<1>4. PeerInv(n)'
  BY <1>1, PeersKept DEF Base, CommitInv
<1>5. MemoryKeeps(G, n)
  BY <1>1, <1>2, <1>3, PlainMemory
<1> QED
  BY <1>1, <1>3, <1>4, <1>5, PlainStep

LEMMA StopsCommit ==
  ASSUME NEW H, NEW n \in Node, Base(H, H, n), CommitInv(H), Stops(n)
  PROVE  CommitInv(H)'
<1>1. ~Live(n)' /\ msgs' = msgs /\ GhostsKept /\ pending_storage'[n] = Nil
  BY DEF Stops
<1>2. role'[n] # "candidate" /\ role'[n] # "leader"
  BY <1>1, SMT DEF Live, LiveRole
<1>3. /\ Move(H, H, n) /\ NewMessages(H, n) /\ WaitInv(H, n)' /\ PeerInv(n)' /\ StandsAs(n)
      /\ MemoryKeeps(H, n)
  BY <1>1, <1>2, SilentMove DEF WaitInv, PeerInv, StandsAs, MemoryKeeps
<1> QED
  BY <1>1, <1>3, PlainStep

LEMMA RestartsCommit ==
  ASSUME NEW H, NEW n \in Node, Base(H, H, n), CommitInv(H), Restarts(n)
  PROVE  CommitInv(H)'
<1>1. /\ role'[n] = "follower" /\ msgs' = msgs /\ GhostsKept /\ Silent(n) /\ committed' = committed
      /\ current_term'[n] = disk[n].term /\ log'[n] = disk[n].log
      /\ commit_index'[n] = disk[n].commit
  BY DEF Restarts, Silent, GhostsKept
<1>2. role'[n] # "candidate" /\ role'[n] # "leader"
  BY <1>1, SMT
<1>3. Move(H, H, n) /\ NewMessages(H, n) /\ WaitInv(H, n)' /\ PeerInv(n)' /\ StandsAs(n)
  BY <1>1, <1>2, SilentMove, SilentWait DEF PeerInv, StandsAs
<1>4. PICK l, t, k : l = disk[n].log /\ t = disk[n].term /\ k = disk[n].commit
  OBVIOUS
<1>5. l \in Seq(Entry) /\ t \in Nat /\ k \in Nat
  BY <1>4, Types DEF Base, Typed
<1>6. log'[n] = l /\ current_term'[n] = t /\ commit_index'[n] = k
  BY <1>1, <1>4
<1>7. ASSUME NEW m \in msgs, AckMsg(m), m.from = n
      PROVE  Keeps(H, m, log[n], current_term[n])'
  <2>1. Keeps(H, m, l, t) /\ AckInv(H)
    BY <1>4, <1>7 DEF CommitInv, AckInv
  <2>2. Keeps(H, m, l, t)'
    BY <1>3, <1>5, <1>7, <2>1, KeepsStep
  <2> QED
    BY <1>6, <2>2 DEF Keeps, Safe
<1>8. Known(H, log[n], commit_index[n], current_term[n])'
  <2>1. Known(H, l, k, t) /\ t <= t
    BY <1>4, <1>5, SMT DEF CommitInv, KnownInv
  <2>2. CommittedGrows
    BY <1>1, CommittedKept DEF Base
  <2>3. Known(H, l, k, t)'
    BY <1>3, <1>5, <2>1, <2>2, KnownStep
  <2> QED
    BY <1>6, <2>3 DEF Known
<1>9. MemoryKeeps(H, n)
  BY <1>7, <1>8 DEF MemoryKeeps
<1> QED
  BY <1>1, <1>3, <1>9, PlainStep

LEMMA CompletesCommit ==
  ASSUME NEW H, NEW n \in Node, Base(H, H, n), CommitInv(H), Completes(n)
  PROVE  CommitInv(H)'
<1>1. /\ Live(n) /\ GhostsKept /\ committed' = committed /\ pending_storage'[n] = Nil
      /\ role'[n] = role[n] /\ current_term'[n] = current_term[n] /\ peers'[n] = peers[n]
      /\ log'[n] = log[n] /\ commit_index'[n] = commit_index[n] /\ pending_storage[n] # Nil
      /\ disk'[n].log = log[n] /\ disk'[n].term = current_term[n]
      /\ \/ msgs' = msgs
         \/ Waiting(n) # Nil /\ msgs' = msgs \cup {Waiting(n)}
         \/ /\ durable_last_log_index[n] = Len(log[n])
            /\ msgs' = msgs \cup {VoteRequest(n, p) : p \in Node \ {n}}
  BY DEF Completes, SameOffice, GhostsKept
<1>2. Live(n)' /\ StandsAs(n) /\ WaitInv(H, n)'
  BY <1>1 DEF Live, StandsAs, WaitInv
<1>3. current_term'[n] >= current_term[n]
  BY <1>1, Types, SMT DEF Base, Typed
<1>4. PeerInv(n)'
  BY <1>1, PeersKept DEF Base, CommitInv
<1>5. ASSUME NEW m \in msgs', m \notin msgs
      PROVE  /\ m.type # "AppendEntries"
             /\ AckMsg(m) => FreshAck(H, n, m)
             /\ Ballot(m) => FreshBallot(n, m)
  <2>1. CASE Waiting(n) # Nil /\ m = Waiting(n)
    <3>1. m.type # "AppendEntries"
      BY <1>1, <2>1 DEF Base, LogInv, ResponseInv
    <3>2. WaitInv(H, n) /\ ReplyInv(n)
      BY DEF CommitInv, Base, Step, Sound, ElectionInv
    <3>3. AckMsg(m) => /\ m.from = n /\ m.term = current_term[n]
                       /\ Agree(log[n], H[current_term[n]], AckIndex(m))
      BY <1>1, <2>1, <3>2 DEF WaitInv
    <3>4. Ballot(m) => /\ m.from = n /\ m.term = current_term[n]
                       /\ m.type = "RequestVoteResponse"
                       /\ \E a \in msgs : Asks(a, m, log[n])
      BY <1>1, <2>1, <3>2 DEF WaitInv, ReplyInv
    <3> QED
      BY <1>1, <1>2, <3>1, <3>3, <3>4 DEF FreshAck, FreshBallot
  <2>2. ASSUME NEW p \in Node, m = VoteRequest(n, p), durable_last_log_index[n] = Len(log[n])
        PROVE  /\ m.type # "AppendEntries"
               /\ AckMsg(m) => FreshAck(H, n, m)
               /\ Ballot(m) => FreshBallot(n, m)
    <3>1. /\ m.type = "RequestVote" /\ m.from = n /\ m.term = current_term[n]
          /\ Tells(m, log[n])
      BY <2>2, SMT DEF VoteRequest, Tells
    <3>2. m.type # "AppendEntries" /\ ~AckMsg(m)
      BY <3>1, SMT DEF AckMsg
    <3>3. FreshBallot(n, m)
      BY <1>1, <3>1 DEF FreshBallot
    <3> QED
      BY <3>2, <3>3, SMT
  <2> QED
    BY <1>1, <1>5, <2>1, <2>2, SMT
<1>6. Move(H, H, n) /\ NewMessages(H, n)
  BY <1>5 DEF Base, Move, NewMessages
<1>7. MemoryKeeps(H, n)
  BY <1>1, <1>3, <1>6, PlainMemory DEF NewEntry
<1> QED
  BY <1>1, <1>2, <1>4, <1>6, <1>7, PlainStep

\* What the leader n of its term holds of its peers.
Matched(n, progress) ==
  \A p \in Node \ {n} :
    /\ progress[p].match_index > 0 =>
         /\ Acked(p, current_term[n], progress[p].match_index)
         /\ Acked(n, current_term[n], progress[p].match_index)
    /\ progress[p].inflight # Nil => Acked(n, current_term[n], progress[p].inflight.last_index)

LEMMA HeardMatched ==
  ASSUME TypeOK, NEW n \in Node, role[n] = "leader", PeerInv(n), NEW progress, Heard(n, progress)
  PROVE  Matched(n, progress)
<1> SUFFICES ASSUME NEW p \in Node \ {n}
             PROVE  /\ progress[p].match_index > 0 =>
                         /\ Acked(p, current_term[n], progress[p].match_index)
                         /\ Acked(n, current_term[n], progress[p].match_index)
                    /\ progress[p].inflight # Nil =>
                         Acked(n, current_term[n], progress[p].inflight.last_index)
  BY DEF Matched
<1>1. PICK old, t : old = peers[n][p] /\ t = current_term[n]
  OBVIOUS
<1>2. /\ old.match_index > 0 => Acked(p, t, old.match_index) /\ Acked(n, t, old.match_index)
      /\ old.inflight # Nil => Acked(n, t, old.inflight.last_index)
  BY <1>1 DEF PeerInv
<1>3. /\ progress[p].inflight = Nil \/ progress[p].inflight = old.inflight
      /\ \/ progress[p].match_index = old.match_index
         \/ \E a \in msgs :
              /\ a.type = "AppendEntriesResponse" /\ a.success = TRUE /\ a.from = p /\ a.term = t
              /\ old.inflight # Nil /\ a.match_index >= old.inflight.last_index
              /\ progress[p].match_index = max(old.match_index, old.inflight.last_index)
  BY <1>1 DEF Heard
<1>4. CASE progress[p].match_index = old.match_index
  BY <1>1, <1>2, <1>3, <1>4
<1>5. ASSUME NEW a \in msgs, a.type = "AppendEntriesResponse", a.success = TRUE, a.from = p, a.term = t,
             old.inflight # Nil, a.match_index >= old.inflight.last_index,
             progress[p].match_index = max(old.match_index, old.inflight.last_index)
      PROVE  progress[p].match_index > 0 =>
               Acked(p, t, progress[p].match_index) /\ Acked(n, t, progress[p].match_index)
  <2>1. AckMsg(a) /\ AckIndex(a) = a.match_index
    BY <1>5, SMT DEF AckMsg, AckIndex
  <2>2. old.inflight.last_index <= AckIndex(a)
    <3>1. old \in PeerProgress
      BY <1>1, VariableTypes, SMT
    <3>2. old.inflight.last_index \in Nat
      BY <1>5, <3>1, SMT DEF PeerProgress, InflightAppend
    <3>3. a.match_index \in Nat
      BY <1>5, <2>1, AckType, SMT
    <3> QED
      BY <1>5, <2>1, <3>2, <3>3, SMT
  <2>3. Acked(p, t, old.inflight.last_index)
    BY <1>5, <2>1, <2>2 DEF Acked
  <2>4. \/ progress[p].match_index = old.match_index
        \/ progress[p].match_index = old.inflight.last_index
    BY <1>5 DEF max
  <2> QED
    BY <1>2, <1>5, <2>3, <2>4
<1> QED
  BY <1>1, <1>2, <1>3, <1>4, <1>5

\* What a leader may commit is chosen.
LEMMA CommittableChosen ==
  ASSUME Sound, NEW n \in Node, NEW H, log[n] = H[current_term[n]],
         NEW progress \in [Node -> PeerProgress], Matched(n, progress),
         NEW target, Committable(n, progress, Len(log[n]), target)
  PROVE  target \in Nat \ {0} /\ target <= Len(log[n]) /\ Chosen(H, current_term[n], target)
<1> DEFINE T == current_term[n]
           Q == {n} \cup {p \in Node \ {n} : progress[p].match_index >= target}
<1>1. TypeOK /\ T \in Nat /\ commit_index[n] \in Nat /\ log[n] \in Seq(Entry) /\ Len(log[n]) \in Nat
  BY StateType DEF Sound
<1>2. target \in (commit_index[n] + 1)..Len(log[n]) /\ term_at(log[n], target) = T /\ IsQuorum(Q)
  BY DEF Committable
<1>3. target \in Nat \ {0} /\ target \in Nat /\ target <= Len(log[n]) /\ target \in 1..Len(log[n])
  BY <1>1, <1>2, SMT
<1>4. Own(H, T, target)
  BY <1>2, <1>3 DEF Own, term_at
<1>5. ASSUME NEW p \in Node \ {n}, progress[p].match_index >= target
      PROVE  Acked(p, T, target) /\ Acked(n, T, target)
  <2>1. progress[p].match_index \in Nat
    BY <1>5, SMT DEF PeerProgress
  <2>2. progress[p].match_index > 0 /\ target <= progress[p].match_index
    BY <1>3, <1>5, <2>1, SMT
  <2>3. Acked(p, T, progress[p].match_index) /\ Acked(n, T, progress[p].match_index)
    BY <2>2 DEF Matched
  <2> QED
    BY <1>1, <1>3, <2>1, <2>2, <2>3, AckedDown
<1>6. PICK p \in Node \ {n} : progress[p].match_index >= target
  <2> SUFFICES ASSUME \A p \in Node \ {n} : ~(progress[p].match_index >= target)
               PROVE  FALSE
    OBVIOUS
  <2>1. Q = {n}
    BY SMT
  <2> QED
    BY <1>2, <2>1 DEF Sound, QuorumsMeet
<1>7. \A v \in Q : Acked(v, T, target)
  BY <1>5, <1>6
<1>8. Q \in SUBSET Node
  BY SMT
<1> QED
  BY <1>2, <1>3, <1>4, <1>7, <1>8 DEF Chosen

\* What the leader sends are acknowledgments of its own.
LEMMA LeadsMove ==
  ASSUME NEW H, NEW n \in Node, Base(H, H, n), Leads(n), NEW progress \in [Node -> PeerProgress],
         Sent(n, progress)
  PROVE  Move(H, H, n)
<1> SUFFICES ASSUME NEW m \in msgs', AckMsg(m), m \notin msgs
             PROVE  FreshAck(H, n, m)
  BY DEF Base, Move
<1>1. /\ role[n] = "leader" /\ role'[n] = "leader" /\ current_term'[n] = current_term[n]
      /\ log'[n] = log[n] /\ disk'[n].log = log[n] /\ disk'[n].term = current_term[n]
  BY DEF Leads
<1>2. PICK p \in Node \ {n} : m = AppendEntriesTo(n, p, progress[p], Len(log[n]))
  BY DEF Sent
<1>3. progress[p] \in PeerProgress /\ TypeOK
  BY <1>2, SMT DEF Base, Step, Sound
<1>4. m.type = "AppendEntries" /\ m.from = n /\ m.term = current_term[n]
  <2>1. Rpc(n, m, SentLast(progress[p], Len(log[n])))
    BY <1>2, <1>3, SentIndex
  <2> QED
    BY <2>1 DEF Rpc
<1>5. log[n] = H[current_term[n]] /\ log[n] \in Seq(Entry)
  BY <1>1, Types DEF Base, LogInv, MemoryInv, Typed
<1>6. AckIndex(m) \in Nat /\ AckIndex(m) <= Len(log[n])
  <2>1. AckIndex(m) \in Nat
    BY Types DEF Base, Typed
  <2>2. Segment(H, m)'
    BY <1>4 DEF Base, LogInv
  <2>3. AckIndex(m) <= Len(H[m.term])
    BY <1>4, <2>2 DEF Segment, AckIndex
  <2> QED
    BY <1>4, <1>5, <2>1, <2>3
<1>7. Agree(log'[n], H[m.term], AckIndex(m))
  BY <1>1, <1>4, <1>5, <1>6 DEF Agree
<1>8. Live(n)'
  BY <1>1, SMT DEF Live, LiveRole
<1> QED
  BY <1>1, <1>4, <1>7, <1>8 DEF FreshAck

LEMMA LeadsPeers ==
  ASSUME NEW n \in Node, Step(n), current_term'[n] = current_term[n],
         NEW progress \in [Node -> PeerProgress], Matched(n, progress), Sent(n, progress)
  PROVE  PeerInv(n)'
<1>1. PICK t, P : t = current_term[n] /\ P = peers'[n]
  OBVIOUS
<1>2. ASSUME NEW p \in Node \ {n}
      PROVE  /\ P[p].match_index > 0 =>
                  Acked(p, t, P[p].match_index)' /\ Acked(n, t, P[p].match_index)'
             /\ P[p].inflight # Nil => Acked(n, t, P[p].inflight.last_index)'
  <2>1. /\ progress[p].match_index > 0 =>
             Acked(p, t, progress[p].match_index) /\ Acked(n, t, progress[p].match_index)
        /\ progress[p].inflight # Nil => Acked(n, t, progress[p].inflight.last_index)
    BY <1>1 DEF Matched
  <2>2. /\ progress[p].match_index > 0 =>
             Acked(p, t, progress[p].match_index)' /\ Acked(n, t, progress[p].match_index)'
        /\ progress[p].inflight # Nil => Acked(n, t, progress[p].inflight.last_index)'
    BY <2>1, AckedStep
  <2>3. CASE P[p] = progress[p]
    BY <2>2, <2>3
  <2>4. CASE /\ P[p] = SentProgress(n, p, progress[p], Len(log[n]))
             /\ AppendEntriesTo(n, p, progress[p], Len(log[n])) \in msgs'
    <3>1. progress[p] \in PeerProgress
      BY SMT
    <3>2. /\ P[p].match_index = progress[p].match_index
          /\ P[p].inflight.last_index = SentLast(progress[p], Len(log[n]))
      BY <2>4, <3>1, SMT DEF SentProgress, PeerProgress
    <3>3. PICK m \in msgs' : m = AppendEntriesTo(n, p, progress[p], Len(log[n]))
      BY <2>4
    <3>4. /\ AckMsg(m) /\ m.from = n /\ m.term = t
          /\ AckIndex(m) = P[p].inflight.last_index /\ AckIndex(m) \in Nat
      <4>1. Rpc(n, m, SentLast(progress[p], Len(log[n])))
        BY <3>1, <3>3, SentIndex DEF Step, Sound
      <4> QED
        BY <1>1, <3>2, <4>1 DEF Rpc
    <3>5. P[p].inflight.last_index <= AckIndex(m)
      BY <3>4, SMT
    <3>6. Acked(n, t, P[p].inflight.last_index)'
      BY <3>3, <3>4, <3>5 DEF Acked, AckMsg, AckIndex
    <3> QED
      BY <2>2, <3>2, <3>6
  <2> QED
    BY <1>1, <2>3, <2>4 DEF Sent
<1>3. current_term'[n] = t /\ peers'[n] = P
  BY <1>1
<1> QED
  BY <1>2, <1>3 DEF PeerInv, Acked

LEMMA CommitsKnown ==
  ASSUME NEW H, NEW n \in Node, Move(H, H, n), CommitInv(H), Live(n), log[n] = H[current_term[n]],
         current_term'[n] = current_term[n], log'[n] = log[n],
         NEW progress \in [Node -> PeerProgress], Matched(n, progress), Commits(n, progress)
  PROVE  /\ CommittedGrows
         /\ Known(H, log[n], commit_index[n], current_term[n])'
         /\ \A i \in 1..Len(committed') : i \in 1..Len(committed) \/ CommittedEntry(H, i)'
<1>1. /\ Sound /\ TypeOK /\ H \in History /\ log[n] \in Seq(Entry) /\ current_term[n] \in Nat
      /\ Len(log[n]) \in Nat
  BY Types DEF Move, Step, Sound, Typed
<1>2. current_term'[n] >= current_term[n]
  BY <1>1, SMT
<1>3. CASE commit_index'[n] = commit_index[n] /\ committed' = committed
  <2>1. CommittedGrows
    BY <1>3, CommittedKept DEF Move
  <2>2. Known(H, log[n], commit_index[n], current_term[n])'
    BY <1>2, <1>3, <2>1, KnownKept DEF NewEntry
  <2> QED
    BY <1>3, <2>1, <2>2
<1>4. ASSUME NEW target, Committable(n, progress, Len(log[n]), target), commit_index'[n] = target,
             Certifies(n, target)
      PROVE  /\ CommittedGrows
             /\ Known(H, log[n], commit_index[n], current_term[n])'
             /\ \A i \in 1..Len(committed') : i \in 1..Len(committed) \/ CommittedEntry(H, i)'
  <2>1. PICK t, l : t = current_term[n] /\ l = log[n]
    OBVIOUS
  <2>2. target \in Nat \ {0} /\ target <= Len(log[n]) /\ Chosen(H, t, target)
    BY <1>1, <1>4, <2>1, CommittableChosen
  <2>3. target \in Nat /\ target <= Len(l) /\ t \in Nat /\ l = H[t] /\ t <= t /\ target <= target
    BY <1>1, <2>1, <2>2, SMT
  <2>4. Chosen(H, t, target)'
    BY <2>2, <2>3, ChosenStep
  <2>5. /\ CommittedGrows /\ target <= Len(committed')
        /\ \A i \in 1..Len(committed') : i \in 1..Len(committed) \/
             /\ i \in Nat /\ i <= target
             /\ committed'[i].entry = l[i] /\ committed'[i].term = t
    <3>1. /\ CommittedGrows /\ target <= Len(committed')
          /\ \A i \in 1..Len(committed') : i \in 1..Len(committed) \/
               /\ i \in Nat /\ i <= target
               /\ committed'[i].entry = log[n][i] /\ committed'[i].term = current_term[n]
      BY <1>1, <1>4, <2>2, <2>3, CommitGrows, SMT
    <3> QED
      BY <2>1, <3>1
  <2>6. Agree(l, H[t], target)
    BY <2>3 DEF Agree
  <2>7. Known(H, l, target, t)'
    BY <2>3, <2>4, <2>5, <2>6 DEF Known
  <2>8. Known(H, log[n], commit_index[n], current_term[n])'
    <3>1. log'[n] = l /\ commit_index'[n] = target /\ current_term'[n] = t
      BY <1>4, <2>1
    <3> QED
      BY <2>7, <3>1 DEF Known
  <2>9. ASSUME NEW i \in 1..Len(committed'), i \notin 1..Len(committed)
        PROVE  CommittedEntry(H, i)'
    <3>1. i <= target /\ committed'[i].entry = H[t][i] /\ committed'[i].term = t
      BY <2>3, <2>5, <2>9
    <3> QED
      BY <2>3, <2>4, <3>1 DEF CommittedEntry, Chosen, Acked
  <2> QED
    BY <2>5, <2>8, <2>9
<1> QED
  BY <1>3, <1>4 DEF Commits, Certifies, Certified

LEMMA LeadsCommit ==
  ASSUME NEW H, NEW n \in Node, Base(H, H, n), CommitInv(H), Leads(n)
  PROVE  CommitInv(H)'
<1>1. /\ role[n] = "leader" /\ role'[n] = "leader" /\ current_term'[n] = current_term[n]
      /\ log'[n] = log[n] /\ elected' = elected
      /\ pending_storage'[n] = Nil \/ Waiting(n)' = Nil
  BY DEF Leads
<1>2. PICK progress \in [Node -> PeerProgress] :
        Heard(n, progress) /\ Sent(n, progress) /\ Commits(n, progress)
  BY DEF Leads
<1>3. /\ TypeOK /\ Step(n) /\ H \in History /\ current_term[n] \in Nat /\ log[n] \in Seq(Entry)
      /\ commit_index[n] \in Nat
  BY Types DEF Base, Step, Sound, Typed
<1>4. Live(n) /\ Live(n)' /\ role'[n] # "candidate" /\ current_term'[n] >= current_term[n]
  <2>1. role[n] = "leader" /\ role'[n] = "leader" /\ current_term'[n] = current_term[n]
        /\ current_term[n] \in Nat
    BY <1>1, <1>3
  <2> QED
    BY <2>1, SMT DEF Live, LiveRole
<1>5. log[n] = H[current_term[n]]
  BY <1>1 DEF Base, LogInv, MemoryInv
<1>6. Matched(n, progress)
  BY <1>1, <1>2, <1>3, HeardMatched DEF CommitInv
<1>7. Move(H, H, n) /\ PeerInv(n)'
  BY <1>1, <1>2, <1>3, <1>6, LeadsMove, LeadsPeers
<1>8. WaitInv(H, n)' /\ StandsAs(n)
  BY <1>1, <1>4 DEF WaitInv, StandsAs
<1>9. /\ CommittedGrows
      /\ Known(H, log[n], commit_index[n], current_term[n])'
      /\ \A i \in 1..Len(committed') : i \in 1..Len(committed) \/ CommittedEntry(H, i)'
  BY <1>1, <1>2, <1>4, <1>5, <1>6, <1>7, CommitsKnown
<1>10. MemoryKeeps(H, n)
  BY <1>1, <1>4, <1>7, <1>9, KeepsKept DEF MemoryKeeps, NewEntry
<1>11. NewMessages(H, n)
  <2>1. ASSUME NEW m \in msgs', m \notin msgs
        PROVE  ~Ballot(m) /\ Known(H, H[m.term], m.leader_commit, m.term)'
    <3>1. PICK p \in Node \ {n} : m = AppendEntriesTo(n, p, progress[p], Len(log[n]))
      BY <1>2, <2>1 DEF Sent
    <3>2. progress[p] \in PeerProgress /\ p \in Node
      BY <1>2, <3>1, SMT
    <3>3. Rpc(n, m, SentLast(progress[p], Len(log[n])))
      BY <1>3, <3>1, <3>2, SentIndex
    <3>4. PICK t, k : t = current_term[n] /\ k = commit_index[n]
      OBVIOUS
    <3>5. ~Ballot(m) /\ m.term = t /\ m.leader_commit = k
      BY <3>3, <3>4 DEF Rpc
    <3>6. t \in Nat /\ k \in Nat /\ H[t] \in Seq(Entry) /\ t <= t
      BY <1>3, <3>4, HistoryType, SMT
    <3>7. Known(H, H[t], k, t)
      BY <1>4, <1>5, <3>4 DEF CommitInv, KnownInv
    <3>8. Known(H, H[t], k, t)'
      BY <1>7, <1>9, <3>6, <3>7, KnownStep
    <3> QED
      BY <3>5, <3>8 DEF Known
  <2> QED
    BY <2>1 DEF NewMessages
<1>12. \A e \in elected' : e \in elected
  BY <1>1
<1> QED
  BY <1>7, <1>8, <1>9, <1>10, <1>11, <1>12, InvariantStep

-----------------------------------------------------------------------------
(* A follower accepts entries *)

\* Where the log agrees with the leader's, so does the one that results.
LEMMA AcceptedFollows ==
  ASSUME TypeOK, NEW H \in History, HistoryInv(H), NEW n \in Node, Rooted(H, log[n]),
         NEW m \in AppendEntriesMsg, Segment(H, m), NEW k \in 0..Len(m.entries), Matches(n, m, k),
         NEW c \in Nat, Agree(log[n], H[m.term], c), NEW l, l = Accepted(n, m, k)
  PROVE  Agree(l, H[m.term], c)
<1> DEFINE prev == m.prev_log_index
           es == m.entries
           h == H[m.term]
<1>1. m.term \in Nat /\ prev \in Nat /\ es \in Seq(Entry) /\ Len(es) \in Nat /\ k \in Nat /\ k <= Len(es)
  BY SMT DEF AppendEntriesMsg
<1>2. h \in Seq(Entry) /\ Len(h) \in Nat
  BY <1>1, HistoryType, SMT
<1>3. PICK match : match = prev + Len(es)
  OBVIOUS
<1>4. l \in Seq(Entry) /\ Agree(l, h, match) /\ (k = Len(es) => l = log[n])
  BY <1>3, AcceptedAgrees, SMT
<1>5. CASE k = Len(es)
  BY <1>4, <1>5
<1>6. CASE k # Len(es)
  <2>1. c <= prev + k
    BY <1>6, Parts DEF Matches
  <2>2. match \in Nat /\ c <= match
    BY <1>1, <1>3, <2>1, SMT
  <2> QED
    BY <1>2, <1>4, <2>2, AgreeDown
<1> QED
  BY <1>5, <1>6, SMT

\* An AppendEntries of the term and what results from it.
Accepting(H, n, m, l) ==
  /\ H \in History /\ m.term \in Nat /\ l \in Seq(Entry) /\ log[n] \in Seq(Entry)
  /\ <<m.term, m.from>> \in elected
  /\ \A c \in Nat : Agree(log[n], H[m.term], c) => Agree(l, H[m.term], c)

\* An entry of an earlier leader that is not dead and in the log stays.
LEMMA AcceptedStays ==
  ASSUME NEW H, ElectedInv(H), NEW n \in Node, NEW m, NEW l, Accepting(H, n, m, l),
         NEW s \in Nat, s <= m.term, NEW c \in Nat, Own(H, s, c), ~Dead(s, c),
         NEW d \in Nat, d <= c, Agree(log[n], H[s], d)
  PROVE  Agree(l, H[s], d)
<1>1. /\ H \in History /\ m.term \in Nat /\ l \in Seq(Entry) /\ log[n] \in Seq(Entry)
      /\ <<m.term, m.from>> \in elected
      /\ \A j \in Nat : Agree(log[n], H[m.term], j) => Agree(l, H[m.term], j)
  BY DEF Accepting
<1>2. H[s] \in Seq(Entry) /\ H[m.term] \in Seq(Entry)
  BY <1>1, HistoryType, SMT
<1>3. Agree(log[n], H[m.term], d) /\ Agree(H[s], H[m.term], d)
  BY <1>1, LeaderAgrees
<1> QED
  BY <1>1, <1>2, <1>3, AgreeJoin

LEMMA AcceptedKeeps ==
  ASSUME NEW H, ElectedInv(H), NEW n \in Node, NEW m, NEW l, Accepting(H, n, m, l),
         NEW t \in Nat, t <= m.term, NEW a, a.term \in Nat, AckIndex(a) \in Nat, Keeps(H, a, log[n], t)
  PROVE  Keeps(H, a, l, m.term)
<1>1. m.term \in Nat /\ a.term <= t
  BY DEF Accepting, Keeps
<1>2. a.term <= m.term /\ (a.term = m.term => a.term = t)
  BY <1>1, SMT
<1>3. a.term = m.term => Agree(l, H[m.term], AckIndex(a))
  BY <1>2 DEF Accepting, Keeps
<1>4. ASSUME NEW c \in 1..AckIndex(a), Own(H, a.term, c)
      PROVE  Safe(H, l, a.term, c)
  <2>1. c \in Nat /\ c <= c
    BY <1>4, SMT
  <2>2. Agree(log[n], H[a.term], c) \/ Dead(a.term, c)
    BY <1>4 DEF Keeps, Safe
  <2>3. ~Dead(a.term, c) => Agree(l, H[a.term], c)
    BY <1>2, <1>4, <2>1, <2>2, AcceptedStays
  <2> QED
    BY <2>3 DEF Safe
<1> QED
  BY <1>2, <1>3, <1>4 DEF Keeps

\* What is known to be committed stays.
LEMMA AcceptedKnown ==
  ASSUME Sound, NEW H, ElectedInv(H), NEW n \in Node, NEW m, NEW l, Accepting(H, n, m, l),
         NEW t \in Nat, t <= m.term, NEW d \in Nat, Known(H, log[n], d, t)
  PROVE  Known(H, l, d, m.term)
<1>1. m.term \in Nat
  BY DEF Accepting
<1>2. ASSUME NEW s \in Nat, NEW c \in Nat, s <= t, d <= c, Chosen(H, s, c), Agree(log[n], H[s], d)
      PROVE  s <= m.term /\ Agree(l, H[s], d)
  <2>1. s <= m.term
    BY <1>1, <1>2, SMT
  <2>2. Own(H, s, c) /\ ~Dead(s, c)
    BY <1>2, ChosenAlive DEF Chosen
  <2> QED
    BY <1>2, <2>1, <2>2, AcceptedStays
<1> QED
  BY <1>2 DEF Known

\* What the leader tells is committed, as far as the log now agrees with its.
LEMMA LearnedKnown ==
  ASSUME NEW H \in History, NEW t \in Nat, NEW l \in Seq(Entry), NEW match \in Nat, Agree(l, H[t], match),
         NEW j \in Nat, Known(H, H[t], j, t), NEW d \in Nat, d <= j, d <= match, Len(committed) \in Nat
  PROVE  Known(H, l, d, t)
<1>1. d <= Len(committed)
  <2>1. j <= Len(committed)
    BY DEF Known
  <2> QED
    BY <2>1, SMT
<1>2. H[t] \in Seq(Entry)
  BY HistoryType, SMT
<1>3. j = 0 => d = 0
  BY SMT
<1>4. ASSUME NEW s \in Nat, NEW c \in Nat, s <= t, j <= c, Chosen(H, s, c), Agree(H[t], H[s], j)
      PROVE  d <= c /\ Agree(l, H[s], d)
  <2>1. d <= c
    BY <1>4, SMT
  <2>2. H[s] \in Seq(Entry)
    BY HistoryType, SMT
  <2>3. Agree(l, H[t], d) /\ Agree(H[t], H[s], d)
    BY <1>2, <1>4, <2>2, AgreeDown, SMT
  <2>4. Agree(H[s], H[t], d)
    BY <2>3, AgreeSymmetric
  <2> QED
    BY <1>2, <2>1, <2>2, <2>3, <2>4, AgreeJoin
<1> QED
  BY <1>1, <1>3, <1>4 DEF Known

\* What an AppendEntries that matches makes of the log.
LEMMA MatchesAccepting ==
  ASSUME TypeOK, NEW H \in History, LogInv(H), NEW n \in Node, Live(n), NEW m \in msgs,
         NEW k \in 0..Len(m.entries), Matches(n, m, k), NEW l, l = Accepted(n, m, k)
  PROVE  /\ m \in AppendEntriesMsg /\ Accepting(H, n, m, l)
         /\ \A match : match = m.prev_log_index + Len(m.entries) => Agree(l, H[m.term], match)
<1>1. m.type = "AppendEntries" /\ m \in AppendEntriesMsg
  BY MessageType DEF Matches
<1>2. m.term \in Nat
  BY <1>1, SMT DEF AppendEntriesMsg
<1>3. HistoryInv(H) /\ Rooted(H, log[n]) /\ Segment(H, m)
  BY <1>1 DEF LogInv, MemoryInv
<1>4. log[n] \in Seq(Entry)
  BY StateType
<1>5. <<m.term, m.from>> \in elected
  BY <1>3 DEF Segment
<1>6. ASSUME NEW match, match = m.prev_log_index + Len(m.entries)
      PROVE  l \in Seq(Entry) /\ Agree(l, H[m.term], match)
  BY <1>1, <1>3, <1>6, AcceptedAgrees, SMT
<1>7. l \in Seq(Entry)
  BY <1>6
<1>8. ASSUME NEW c \in Nat, Agree(log[n], H[m.term], c)
      PROVE  Agree(l, H[m.term], c)
  BY <1>1, <1>3, <1>8, AcceptedFollows
<1> QED
  BY <1>1, <1>2, <1>4, <1>5, <1>6, <1>7, <1>8 DEF Accepting

\* The answer that goes out at once, or waits for the batch.
LEMMA AcceptsReply ==
  ASSUME NEW H, NEW n \in Node, Base(H, H, n), NEW w, w.type = "AppendEntriesResponse",
         w.from = n, w.term = current_term'[n], AckIndex(w) \in Nat,
         Agree(log'[n], H[w.term], AckIndex(w)), Replies(n, w), Live(n)'
  PROVE  Move(H, H, n) /\ NewMessages(H, n) /\ WaitInv(H, n)'
<1>1. \A m \in msgs' : m \in msgs \/ m = w
  BY SMT DEF Replies
<1>2. w.type # "AppendEntries" /\ ~Ballot(w)
  BY SMT DEF Ballot
<1>3. NewMessages(H, n)
  BY <1>1, <1>2 DEF NewMessages
<1>4. CASE msgs' = msgs \cup {w} /\ pending_storage'[n] = Nil
  <2>1. disk'[n].term = current_term'[n] /\ disk'[n].log = log'[n]
    BY <1>4, IdleDiskNext DEF Base
  <2>2. FreshAck(H, n, w)
    BY <2>1 DEF FreshAck
  <2>3. \A m \in msgs' : AckMsg(m) => m \in msgs \/ FreshAck(H, n, m)
    BY <1>1, <2>2
  <2> QED
    BY <1>3, <1>4, <2>3 DEF Base, Move, WaitInv
<1>5. CASE msgs' = msgs /\ Waiting(n)' = w
  <2>1. WaitInv(H, n)'
    BY <1>2, <1>5 DEF WaitInv, Ballot, AckMsg, AckIndex
  <2> QED
    BY <1>3, <1>5, <2>1, SilentMove
<1> QED
  BY <1>4, <1>5 DEF Replies

LEMMA AcceptsCommit ==
  ASSUME NEW H, NEW n \in Node, Base(H, H, n), CommitInv(H),
         NEW m \in msgs, NEW k \in 0..Len(m.entries), Accepts(n, m, k)
  PROVE  CommitInv(H)'
<1>1. PICK match, w : /\ match = m.prev_log_index + Len(m.entries)
                      /\ w = AppendResponse(n, m, m.term, TRUE, match, 0, 0)
  OBVIOUS
<1>2. /\ Live(n) /\ GhostsKept /\ committed' = committed /\ Matches(n, m, k)
      /\ role'[n] = "follower" /\ current_term'[n] = m.term /\ log'[n] = Accepted(n, m, k)
      /\ commit_index'[n] = max(commit_index[n], learned_commit(m, match))
      /\ Replies(n, w)
  BY <1>1 DEF Accepts, GhostsKept, Idle, Live
<1>3. PICK l : l = log'[n]
  OBVIOUS
<1>4. /\ TypeOK /\ Sound /\ H \in History /\ LogInv(H) /\ l \in Seq(Entry)
      /\ current_term[n] \in Nat /\ commit_index[n] \in Nat /\ commit_index'[n] \in Nat
  BY <1>3, Types DEF Base, Step, Sound, Typed
<1>5. m \in AppendEntriesMsg /\ Accepting(H, n, m, l) /\ Agree(l, H[m.term], match)
  BY <1>1, <1>2, <1>3, <1>4, MatchesAccepting
<1>6. m.term \in Nat /\ m.leader_commit \in Nat /\ match \in Nat
  BY <1>1, <1>5, SMT DEF AppendEntriesMsg
<1>7. current_term[n] <= m.term /\ m.type = "AppendEntries"
  BY <1>2, <1>4, <1>6, SMT DEF Matches
<1>8. Live(n)' /\ StandsAs(n) /\ PeerInv(n)'
  <2>1. role'[n] # "candidate" /\ role'[n] # "leader" /\ Live(n)'
    BY <1>2, SMT DEF Live, LiveRole
  <2> QED
    BY <2>1 DEF StandsAs, PeerInv
<1>9. Move(H, H, n) /\ NewMessages(H, n) /\ WaitInv(H, n)'
  <2>1. w.type = "AppendEntriesResponse" /\ w.from = n /\ w.term = m.term /\ AckIndex(w) = match
    BY <1>1, SMT DEF AppendResponse, AckIndex
  <2>2. w.term = current_term'[n] /\ AckIndex(w) \in Nat /\ Agree(log'[n], H[w.term], AckIndex(w))
    BY <1>2, <1>3, <1>5, <1>6, <2>1
  <2> QED
    BY <1>2, <1>8, <2>1, <2>2, AcceptsReply
<1>10. AckInv(H) /\ ElectedInv(H) /\ KnownInv(H)
  BY DEF CommitInv
<1>11. PICK u : u = m.term
  OBVIOUS
<1>12. u \in Nat /\ u <= u /\ current_term'[n] = u
  <2>1. u \in Nat /\ current_term'[n] = u
    BY <1>2, <1>6, <1>11
  <2> QED
    BY <2>1, SMT
<1>13. ASSUME NEW a \in msgs, AckMsg(a), a.from = n
       PROVE  Keeps(H, a, log[n], current_term[n])'
  <2>1. a.term \in Nat /\ AckIndex(a) \in Nat
    BY <1>13, Types DEF Base, Typed
  <2>2. Keeps(H, a, log[n], current_term[n])
    BY <1>2, <1>10, <1>13 DEF AckInv
  <2>3. Keeps(H, a, l, u)
    BY <1>4, <1>5, <1>7, <1>10, <1>11, <2>1, <2>2, AcceptedKeeps
  <2>4. Keeps(H, a, l, u)'
    BY <1>4, <1>9, <1>10, <1>12, <1>13, <2>3, KeepsStep
  <2> QED
    BY <1>3, <1>12, <2>4 DEF Keeps, Safe
<1>14. Known(H, log[n], commit_index[n], current_term[n])'
  <2>1. PICK d : d = commit_index'[n]
    OBVIOUS
  <2>2. d \in Nat
    BY <1>4, <2>1
  <2>3. Known(H, l, d, u)
    <3>1. CASE d = commit_index[n]
      <4>1. Known(H, log[n], d, current_term[n])
        BY <1>2, <1>10, <3>1 DEF KnownInv
      <4> QED
        BY <1>4, <1>5, <1>7, <1>10, <1>11, <2>2, <4>1, AcceptedKnown
    <3>2. CASE d = learned_commit(m, match)
      <4>1. d <= m.leader_commit /\ d <= match
        BY <1>6, <3>2, SMT DEF learned_commit, min
      <4>2. Known(H, H[u], m.leader_commit, u)
        BY <1>7, <1>10, <1>11 DEF KnownInv
      <4>3. Len(committed) \in Nat
        BY <1>2, CommittedKept DEF Base, CommittedGrows
      <4>4. Agree(l, H[u], match)
        BY <1>5, <1>11
      <4> QED
        BY <1>4, <1>6, <1>12, <2>2, <4>1, <4>2, <4>3, <4>4, LearnedKnown
    <3> QED
      BY <1>2, <2>1, <3>1, <3>2 DEF max
  <2>4. CommittedGrows
    BY <1>2, CommittedKept DEF Base
  <2>5. Known(H, l, d, u)'
    BY <1>4, <1>9, <1>12, <2>2, <2>3, <2>4, KnownStep
  <2> QED
    BY <1>3, <1>12, <2>1, <2>5 DEF Known
<1>15. MemoryKeeps(H, n)
  BY <1>13, <1>14 DEF MemoryKeeps
<1> QED
  BY <1>2, <1>8, <1>9, <1>15, PlainStep
=============================================================================
