--------------------------- MODULE RaftInvariants ---------------------------
(***************************************************************************)
(* The notions the proofs about Raft share: the local invariant of a node, *)
(* which relates its memory, its medium and its outstanding storage        *)
(* operation; the invariant of elections; and the kinds of steps.          *)
(***************************************************************************)
EXTENDS Raft

-----------------------------------------------------------------------------
(* A node and its medium *)

Live(n) == role[n] \in LiveRole
Kind(n) == pending_storage[n].after_success.kind

\* With no storage operation outstanding, memory is what the medium d holds.
IdleInv(term, vote, l, commit, d) ==
  term = d.term /\ vote = d.vote /\ l = d.log /\ commit = d.commit

\* Otherwise memory is what the medium will hold with batch b.  The hard state
\* of a batch is newer than the one on the medium.
BatchInv(term, vote, l, commit, d, b) ==
  /\ b.hard_state = Nil => term = d.term /\ vote = d.vote
  /\ b.hard_state # Nil =>
       /\ b.hard_state.term = term /\ b.hard_state.vote = vote
       /\ term > d.term \/ (term = d.term /\ d.vote = Nil)
  /\ b.truncate_from <= Len(d.log)
  /\ l = (IF b.truncate_from = 0 THEN d.log
          ELSE SubSeq(d.log, 1, b.truncate_from - 1)) \o b.entries
  /\ commit = IF b.commit_index = 0 THEN d.commit ELSE b.commit_index
  /\ commit >= d.commit

NodeInv(n) ==
  /\ durable_last_log_index[n] = Len(disk[n].log)
  /\ last_applied[n] = disk[n].commit
  /\ pending_storage[n] = Nil =>
       IdleInv(current_term[n], voted_for[n], log[n], commit_index[n], disk[n])
  /\ pending_storage[n] # Nil =>
       BatchInv(current_term[n], voted_for[n], log[n], commit_index[n], disk[n],
                pending_storage[n].batch)

\* The batch each continuation waits for.
ShapeInv(n) ==
  pending_storage[n] # Nil =>
    LET b == pending_storage[n].batch
    IN /\ Live(n)
       /\ Kind(n) # "reply" => b.truncate_from = 0
       /\ Kind(n) = "begin_election" =>
            b.entries = << >> /\ b.commit_index = 0 /\ role[n] = "candidate"
       /\ Kind(n) \in {"become_leader", "on_client_request"} =>
            b.entries # << >> /\ b.commit_index = 0 /\ role[n] = "leader"
       /\ Kind(n) = "maybe_advance_commit" =>
            b.entries = << >> /\ role[n] = "leader"
       /\ Kind(n) = "reply" => role[n] # "candidate"

\* A candidate has voted for itself.
CandidateInv(n) == role[n] = "candidate" => voted_for[n] = n

LocalInv == \A n \in Node : /\ Live(n) => NodeInv(n)
                            /\ ShapeInv(n)
                            /\ CandidateInv(n)

\* A step of node n leaves the state of the other nodes alone.
OthersKept(n) ==
  \A q \in Node \ {n} :
    /\ role'[q] = role[q] /\ current_term'[q] = current_term[q]
    /\ voted_for'[q] = voted_for[q] /\ log'[q] = log[q]
    /\ commit_index'[q] = commit_index[q] /\ last_applied'[q] = last_applied[q]
    /\ durable_last_log_index'[q] = durable_last_log_index[q]
    /\ pending_storage'[q] = pending_storage[q] /\ disk'[q] = disk[q]

-----------------------------------------------------------------------------
(* Elections *)

\* A message that reveals a vote of its sender in its term: a granted response,
\* or a candidate's request, which follows the vote for itself.
Ballot(m) == \/ m.type = "RequestVote"
             \/ m.type = "RequestVoteResponse" /\ m.vote_granted = TRUE
Choice(m) == IF m.type = "RequestVote" THEN m.from ELSE m.to

\* v has voted for c in term t, as the messages M show.
Voted(M, v, t, c) ==
  \E m \in M : Ballot(m) /\ m.from = v /\ m.term = t /\ Choice(m) = c

\* The medium of the sender holds the vote, or has passed to a later term.
OnMedium(m) ==
  \/ disk[m.from].term > m.term
  \/ disk[m.from].term = m.term /\ disk[m.from].vote = Choice(m)

BallotInv == \A m \in msgs : Ballot(m) => OnMedium(m)

VoteOnce ==
  \A a, b \in msgs :
    Ballot(a) /\ Ballot(b) /\ a.from = b.from /\ a.term = b.term => Choice(a) = Choice(b)

\* A reply that waits for its batch and will reveal a vote reveals the one in
\* memory.
Waiting(n) == pending_storage[n].after_success.message
ReplyInv(n) ==
  pending_storage[n] # Nil /\ Waiting(n) # Nil /\ Ballot(Waiting(n)) =>
    /\ Waiting(n).from = n
    /\ Waiting(n).term = current_term[n]
    /\ Choice(Waiting(n)) = voted_for[n]

\* The votes a candidate has counted were cast for it in its term; its own is
\* being persisted as long as an operation is outstanding.
CampaignInv(n) ==
  role[n] = "candidate" =>
    \A v \in votes_received[n] :
      Voted(msgs, v, current_term[n], n) \/ (v = n /\ pending_storage[n] # Nil)

QuorumInv ==
  \A e \in elected : \E Q \in SUBSET Node :
    IsQuorum(Q) /\ \A v \in Q : Voted(msgs, v, e[1], e[2])

ElectionInv ==
  /\ BallotInv
  /\ VoteOnce
  /\ \A n \in Node : ReplyInv(n) /\ CampaignInv(n)
  /\ QuorumInv

-----------------------------------------------------------------------------
(* The kinds of steps *)

\* A step of n, as the other nodes' state and the observers show it.
StepOf(n) ==
  /\ OthersKept(n)
  /\ \A q \in Node \ {n} : /\ peers'[q] = peers[q]
                           /\ leader_ready'[q] = leader_ready[q]
                           /\ readiness_index'[q] = readiness_index[q]
  /\ msgs \subseteq msgs'
  /\ elected \subseteq elected'

\* A message goes out at once, or it waits for the batch of the step.
Replies(n, w) ==
  \/ msgs' = msgs \cup {w} /\ pending_storage'[n] = Nil
  \/ msgs' = msgs /\ Waiting(n)' = w
Silent(n) == msgs' = msgs /\ (pending_storage'[n] = Nil \/ Waiting(n)' = Nil)

Denial(w) == \/ w.type = "RequestVoteResponse" /\ w.vote_granted = FALSE
             \/ w.type = "AppendEntriesResponse" /\ w.success = FALSE
Grants(n, m, w) ==
  /\ m.type = "RequestVote" /\ m.term = current_term'[n]
  /\ candidate_is_up_to_date(log[n], m.last_log_index, m.last_log_term)
  /\ w.type = "RequestVoteResponse" /\ w.vote_granted = TRUE
  /\ w.from = n /\ w.to = m.from /\ w.term = m.term

SameOffice(n) ==
  /\ role'[n] = role[n] /\ current_term'[n] = current_term[n] /\ peers'[n] = peers[n]
  /\ leader_ready'[n] = leader_ready[n] /\ readiness_index'[n] = readiness_index[n]
Follows(n) == role'[n] = "follower" /\ leader_ready'[n] = FALSE
GhostsKept == elected' = elected /\ committed' = committed

\* A message is answered, a vote counted or a timer let pass: the log stays.
Answers(n) ==
  /\ Idle(n) /\ disk' = disk /\ GhostsKept
  /\ log'[n] = log[n] /\ commit_index'[n] = commit_index[n]
  /\ last_applied'[n] = last_applied[n]
  /\ SameOffice(n) \/ (Follows(n) /\ current_term'[n] >= current_term[n])
  /\ \/ Silent(n)
     \/ \E w : Denial(w) /\ Replies(n, w)
     \/ \E m \in msgs : \E w : Grants(n, m, w) /\ Replies(n, w)

Campaigns(n) ==
  /\ Idle(n) /\ disk' = disk /\ GhostsKept /\ Silent(n)
  /\ log'[n] = log[n] /\ commit_index'[n] = commit_index[n]
  /\ role'[n] = "candidate" /\ leader_ready'[n] = FALSE
  /\ current_term'[n] = current_term[n] + 1

\* A candidate wins and appends a no-op, or wins and cannot append.
Wins(n) ==
  /\ Idle(n) /\ disk' = disk /\ committed' = committed /\ Silent(n)
  /\ role[n] = "candidate" /\ current_term'[n] = current_term[n]
  /\ commit_index'[n] = commit_index[n] /\ leader_ready'[n] = FALSE
  /\ elected' = elected \cup {<<current_term[n], n>>}
  /\ \/ /\ role'[n] = "leader" /\ can_append(n)
        /\ log'[n] = Append(log[n], [term |-> current_term[n], command |-> Nil])
        /\ readiness_index'[n] = Len(log[n]) + 1
        /\ \A p \in Node : peers'[n][p].match_index = 0 /\ peers'[n][p].inflight = Nil
     \/ role'[n] = "follower" /\ log'[n] = log[n]

\* The entries of m from the (k + 1)-st on replace the end of the log.
Accepted(n, m, k) ==
  LET new == SubSeq(m.entries, k + 1, Len(m.entries))
  IN IF new = << >> THEN log[n] ELSE SubSeq(log[n], 1, m.prev_log_index + k) \o new
Overwrites(n, m, k) ==
  /\ SubSeq(m.entries, k + 1, Len(m.entries)) # << >>
  /\ m.prev_log_index + k + 1 <= commit_index[n]
Matches(n, m, k) ==
  /\ m.type = "AppendEntries" /\ m.term >= current_term[n]
  /\ ~missing(n, m) /\ ~mismatch(n, m) /\ incoming(n, m, k)
Accepts(n, m, k) ==
  LET match == m.prev_log_index + Len(m.entries)
  IN /\ Idle(n) /\ disk' = disk /\ GhostsKept
     /\ Matches(n, m, k) /\ ~Overwrites(n, m, k)
     /\ role'[n] = "follower" /\ current_term'[n] = m.term
     /\ leader_ready'[n] = FALSE \/ (role[n] = "follower" /\ leader_ready'[n] = leader_ready[n])
     /\ log'[n] = Accepted(n, m, k)
     /\ commit_index'[n] = max(commit_index[n], learned_commit(m, match))
     /\ last_applied'[n] = last_applied[n]
     /\ Replies(n, AppendResponse(n, m, m.term, TRUE, match, 0, 0))

\* A node stops: it crashes, its storage fails, or a leader would have it
\* overwrite a committed entry.
Stops(n) ==
  /\ ~Live(n)' /\ msgs' = msgs /\ GhostsKept
  /\ pending_storage'[n] = Nil /\ leader_ready'[n] = FALSE
  /\ \/ role'[n] = "down" \/ pending_storage[n] # Nil
     \/ \E m \in msgs : \E k \in 0..Len(m.entries) :
          Live(n) /\ Matches(n, m, k) /\ Overwrites(n, m, k)

Restarts(n) ==
  /\ ~Live(n) /\ role'[n] = "follower" /\ disk' = disk /\ GhostsKept /\ Silent(n)
  /\ current_term'[n] = disk[n].term /\ log'[n] = disk[n].log
  /\ commit_index'[n] = disk[n].commit /\ leader_ready'[n] = leader_ready[n]

Appends(n, e) ==
  /\ Idle(n) /\ role[n] = "leader" /\ disk' = disk /\ GhostsKept /\ Silent(n) /\ SameOffice(n)
  /\ can_append(n)
  /\ e \in Entry /\ e.term = current_term[n] /\ log'[n] = Append(log[n], e)
  /\ commit_index'[n] = commit_index[n] /\ last_applied'[n] = last_applied[n]

\* What a leader counts as replicated comes from an answer to the RPC in flight.
Heard(n, progress) ==
  \A p \in Node \ {n} :
    LET old == peers[n][p]
    IN /\ progress[p].inflight \in {Nil, old.inflight}
       /\ \/ progress[p].match_index = old.match_index
          \/ \E a \in msgs :
               /\ a.type = "AppendEntriesResponse" /\ a.success = TRUE
               /\ a.from = p /\ a.term = current_term[n]
               /\ old.inflight # Nil /\ a.match_index >= old.inflight.last_index
               /\ progress[p].match_index = max(old.match_index, old.inflight.last_index)
Sent(n, progress) ==
  LET rpc(p) == AppendEntriesTo(n, p, progress[p], Len(log[n]))
  IN /\ \A m \in msgs' : m \in msgs \/ \E p \in Node \ {n} : m = rpc(p)
     /\ \A p \in Node \ {n} :
          \/ peers'[n][p] = progress[p]
          \/ /\ peers'[n][p] = SentProgress(n, p, progress[p], Len(log[n]))
             /\ rpc(p) \in msgs'
Commits(n, progress) ==
  \/ commit_index'[n] = commit_index[n] /\ committed' = committed
  \/ \E target \in (commit_index[n] + 1)..Len(log[n]) :
       /\ Committable(n, progress, Len(log[n]), target)
       /\ commit_index'[n] = target
       /\ committed' = committed \o
            [i \in 1..max(0, target - Len(committed)) |->
               [entry |-> log[n][Len(committed) + i], term |-> current_term[n]]]
Leads(n) ==
  /\ role[n] = "leader" /\ role'[n] = "leader"
  /\ current_term'[n] = current_term[n] /\ log'[n] = log[n]
  /\ disk'[n].log = log[n] /\ disk'[n].term = current_term[n]
  /\ elected' = elected
  /\ pending_storage'[n] = Nil \/ Waiting(n)' = Nil
  /\ readiness_index'[n] = readiness_index[n]
  /\ last_applied'[n] >= last_applied[n]
  /\ leader_ready'[n] = leader_ready[n] \/ last_applied'[n] >= readiness_index[n]
  /\ \E progress \in [Node -> PeerProgress] :
       Heard(n, progress) /\ Sent(n, progress) /\ Commits(n, progress)

\* The outstanding batch is durable: the reply goes out, or the requests for
\* votes do.
Completes(n) ==
  /\ Live(n) /\ SameOffice(n) /\ GhostsKept /\ pending_storage'[n] = Nil
  /\ log'[n] = log[n] /\ commit_index'[n] = commit_index[n]
  /\ last_applied'[n] >= last_applied[n]
  /\ pending_storage[n] # Nil
  /\ disk'[n].log = log[n] /\ disk'[n].term = current_term[n]
  /\ \/ msgs' = msgs
     \/ Waiting(n) # Nil /\ msgs' = msgs \cup {Waiting(n)}
     \/ /\ role[n] = "candidate" /\ durable_last_log_index[n] = Len(log[n])
        /\ msgs' = msgs \cup {VoteRequest(n, p) : p \in Node \ {n}}

StepKind(n) ==
  \/ Answers(n) \/ Campaigns(n) \/ Wins(n) \/ Stops(n) \/ Restarts(n) \/ Leads(n) \/ Completes(n)
  \/ \E m \in msgs : \E k \in 0..Len(m.entries) : Accepts(n, m, k)
  \/ \E e : Appends(n, e)

-----------------------------------------------------------------------------
(* What is known of every step of a node *)

\* A medium takes memory or stays; its term and its commit index never go back.
MediumKept(q) ==
  /\ \/ disk'[q] = disk[q]
     \/ /\ Live(q) /\ pending_storage[q] # Nil
        /\ disk'[q].term = current_term[q] /\ disk'[q].log = log[q]
        /\ disk'[q].commit = commit_index[q]
  /\ disk'[q].term >= disk[q].term /\ disk'[q].commit >= disk[q].commit

QuorumsMeet ==
  /\ \A P, Q \in SUBSET Node : IsQuorum(P) /\ IsQuorum(Q) => \E v \in P : v \in Q
  /\ \A v \in Node : ~IsQuorum({v})

Sound == TypeOK /\ LocalInv /\ ElectionInv /\ ElectionSafety /\ QuorumsMeet
Step(n) == Sound /\ Sound' /\ StepOf(n) /\ \A q \in Node : MediumKept(q)

-----------------------------------------------------------------------------
(* Logs and histories.  The invariant on logs speaks of a history H, in which
   H[t] is the log of the leader of term t: as it is now while that member leads,
   and as it last was afterwards.  No variable holds it; the invariant is that
   there is such a history. *)

\* l and h hold the same entries up to index c.
Agree(l, h, c) == c <= Len(l) /\ c <= Len(h) /\ \A i \in 1..c : l[i] = h[i]

History == [Nat -> Seq(Entry)]

\* Up to an entry of term t, l is the log of the leader of t.
Rooted(H, l) == \A i \in 1..Len(l) : Agree(l, H[l[i].term], i)

Within(l, t) == \A i \in 1..Len(l) : l[i].term <= t

\* In G leaders have appended to their logs in H.
Grows(H, G) == \A t \in Nat : Agree(G[t], H[t], Len(H[t]))

\* n, which leads or comes to lead its term, appends at most one entry.
NewEntry(n) ==
  \/ log'[n] = log[n]
  \/ \E e \in Entry : e.term = current_term[n] /\ log'[n] = Append(log[n], e)

Extended(H, G, n) == G = [H EXCEPT ![current_term[n]] = log'[n]]

-----------------------------------------------------------------------------
(* The invariant on logs *)

\* A term has a log only when it has had a leader.
HistoryInv(H) ==
  \A t \in Nat : /\ Rooted(H, H[t]) /\ Within(H[t], t)
                 /\ H[t] # << >> => \E q \in Node : <<t, q>> \in elected

MemoryInv(H, n) ==
  /\ Live(n) => Rooted(H, log[n]) /\ Within(log[n], current_term[n])
  /\ role[n] = "leader" => <<current_term[n], n>> \in elected /\ log[n] = H[current_term[n]]
  /\ role[n] = "candidate" => <<current_term[n], n>> \notin elected

DiskInv(H, n) == Rooted(H, disk[n].log) /\ Within(disk[n].log, disk[n].term)

\* An AppendEntries carries a segment of the log of its term's leader.
Segment(H, m) ==
  /\ <<m.term, m.from>> \in elected
  /\ m.prev_log_index + Len(m.entries) <= Len(H[m.term])
  /\ m.prev_log_term = term_at(H[m.term], m.prev_log_index)
  /\ \A i \in 1..Len(m.entries) : m.entries[i] = H[m.term][m.prev_log_index + i]

\* The medium of a member that was elected has reached the term.
ElectedDisk == \A e \in elected : e[1] <= disk[e[2]].term

ResponseInv(n) ==
  pending_storage[n] # Nil /\ Waiting(n) # Nil => Waiting(n).type # "AppendEntries"

LogInv(H) ==
  /\ HistoryInv(H)
  /\ ElectedDisk
  /\ \A n \in Node : MemoryInv(H, n) /\ DiskInv(H, n) /\ ResponseInv(n)
  /\ \A m \in msgs : m.type = "AppendEntries" => Segment(H, m)
=============================================================================
