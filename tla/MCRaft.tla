------------------------------- MODULE MCRaft -------------------------------
(* Instances of Raft for TLC. *)
EXTENDS RaftRefinement, TLC

\* Members are interchangeable: no operator of Raft orders them.
NodeSymmetry == Permutations(Node)

Appends == {m \in msgs : m.type = "AppendEntries"}
Acknowledging(term) ==
  {m.from : m \in {r \in msgs : r.type = "AppendEntriesResponse" /\ r.term = term}}
CommandAppended == \E n \in Node : \E i \in 1..Len(log[n]) : log[n][i].command # Nil

\* Bound: campaigns overlap while no leader gets through to a follower, with a fault
\* or a late answer.
Campaigns ==
  /\ faults + late <= 1
  /\ \A n \in Node : leader_hint[n] \in {Nil, n}
  /\ \A m \in msgs : m.type # "AppendEntriesResponse"
  /\ \A m, r \in Appends : m.term = r.term /\ m.from = r.from /\ m.to = r.to => m = r

\* Bound: no election starts before the one before it has been won, so the instance
\* spends its states on replication, and a partition keeps one follower from the first
\* leader's entries.
OneFollowerAtFirst ==
  /\ Cardinality(elected) >= elections - 1
  /\ Cardinality(Acknowledging(1)) <= 1

\* Bound: one change of leaders with only their no-ops and two RPCs to a peer.
SecondLeader ==
  /\ elections <= 2 /\ faults = 0 /\ late = 0
  /\ OneFollowerAtFirst
  /\ ~CommandAppended
  /\ \A m \in Appends : m.rpc_id <= 2

\* Bound: one of these, or a single campaign whose winner replicates a command to one
\* follower.
AtMostOneChange ==
  \/ elections <= 1 /\ late = 0 /\ Cardinality(Acknowledging(1)) <= 1
  \/ Campaigns
  \/ SecondLeader

\* Bound: the second election starts after a command was appended; the second leader
\* reaches nobody and then crashes; the third, that finds logs differing from its own,
\* reaches one follower, with at most four RPCs to a peer.
ThirdLeader ==
  /\ \A m \in Appends : m.rpc_id <= 4
  /\ OneFollowerAtFirst
  /\ elections < 2 \/ CommandAppended
  /\ Acknowledging(2) = {}
  /\ faults = 0 \/ /\ Cardinality(elected) >= 2
                   /\ \A n \in Node : role[n] = "leader" => current_term[n] # 2
  /\ elections < 3 \/ faults = MaxFaults
  /\ Cardinality(Acknowledging(3)) <= 1
=============================================================================
