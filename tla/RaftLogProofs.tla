--------------------------- MODULE RaftLogProofs ----------------------------
(***************************************************************************)
(* Proofs about Raft, fourth part: what a step of any kind does to what    *)
(* is acknowledged, voted for, won and committed.  An entry is chosen when *)
(* a quorum has acknowledged it in its term, and dead when a quorum can no *)
(* longer acknowledge it.                                                  *)
(***************************************************************************)
EXTENDS RaftBaseProofs

\* The leaves are proved with Zenon unless they cite another prover.
USE Zenon

-----------------------------------------------------------------------------
(* Acknowledgments *)

\* A message that shows how much of the log of its term's leader the medium of
\* its sender holds: a successful answer, or what the leader itself sends.
AckMsg(m) == \/ m.type = "AppendEntries"
             \/ m.type = "AppendEntriesResponse" /\ m.success = TRUE

AckIndex(m) == IF m.type = "AppendEntries" THEN m.prev_log_index + Len(m.entries)
               ELSE m.match_index

Acked(v, t, c) ==
  \E m \in msgs : AckMsg(m) /\ m.from = v /\ m.term = t /\ c <= AckIndex(m)

Own(H, t, c) == c \in 1..Len(H[t]) /\ H[t][c].term = t

Chosen(H, t, c) ==
  Own(H, t, c) /\ \E Q \in SUBSET Node : IsQuorum(Q) /\ \A v \in Q : Acked(v, t, c)

Dead(t, c) ==
  \E Q \in SUBSET Node : IsQuorum(Q) /\ \A v \in Q : disk[v].term > t /\ ~Acked(v, t, c)

\* A log l of a node in term t has what the node has acknowledged with m, other
\* than what is dead.
Safe(H, l, t, c) == Agree(l, H[t], c) \/ Dead(t, c)

Keeps(H, m, l, t) ==
  /\ m.term <= t
  /\ m.term = t => Agree(l, H[t], AckIndex(m))
  /\ \A c \in 1..AckIndex(m) : Own(H, m.term, c) => Safe(H, l, m.term, c)

AckInv(H) ==
  \A m \in msgs : AckMsg(m) =>
    /\ AckIndex(m) <= Len(H[m.term])
    /\ Keeps(H, m, disk[m.from].log, disk[m.from].term)
    /\ Live(m.from) => Keeps(H, m, log[m.from], current_term[m.from])

\* A new acknowledgment of n tells what is on its medium.
FreshAck(G, n, m) ==
  /\ m.from = n /\ Live(n)' /\ m.term = current_term'[n]
  /\ disk'[n].term = current_term'[n] /\ disk'[n].log = log'[n]
  /\ Agree(log'[n], G[m.term], AckIndex(m))

Move(H, G, n) ==
  /\ Step(n) /\ H \in History /\ G \in History /\ Grows(H, G) /\ LogInv(H) /\ LogInv(G)'
  /\ \A m \in msgs' : AckMsg(m) => m \in msgs \/ FreshAck(G, n, m)

LEMMA AckType ==
  ASSUME TypeOK, NEW m \in msgs, AckMsg(m)
  PROVE  m.from \in Node /\ m.term \in Nat /\ AckIndex(m) \in Nat
<1>1. m.from \in Node /\ m.term \in Nat
  BY MessageType
<1>2. CASE m.type = "AppendEntries"
  <2>1. m \in AppendEntriesMsg
    BY <1>2, MessageType
  <2>2. m.prev_log_index \in Nat /\ Len(m.entries) \in Nat
    BY <2>1, SMT DEF AppendEntriesMsg
  <2> QED
    BY <1>1, <1>2, <2>2, SMT DEF AckIndex
<1>3. CASE m.type = "AppendEntriesResponse"
  <2>1. m \in AppendEntriesResponseMsg
    BY <1>3, MessageType
  <2>2. m.match_index \in Nat
    BY <2>1 DEF AppendEntriesResponseMsg
  <2> QED
    BY <1>1, <1>3, <2>2 DEF AckIndex
<1> QED
  BY <1>2, <1>3 DEF AckMsg

\* The types of logs, media and acknowledgments, also in the next state.
Typed ==
  /\ \A q \in Node : /\ log[q] \in Seq(Entry) /\ Len(log[q]) \in Nat /\ current_term[q] \in Nat
                    /\ disk[q].log \in Seq(Entry) /\ disk[q].term \in Nat
                    /\ Len(disk[q].log) \in Nat
                    /\ commit_index[q] \in Nat /\ disk[q].commit \in Nat
  /\ \A m \in msgs : AckMsg(m) => m.from \in Node /\ m.term \in Nat /\ AckIndex(m) \in Nat

LEMMA TypedNext ==
  (TypeOK => Typed) /\ (TypeOK' => Typed')
<1>1. TypeOK => Typed
  BY AckType, StateType DEF Typed
<1> QED
  BY <1>1, PTL

LEMMA Types ==
  ASSUME NEW n \in Node, Step(n)
  PROVE  Typed /\ Typed'
  BY TypedNext DEF Step, Sound

LEMMA AckedStep ==
  ASSUME NEW n \in Node, Step(n), NEW v, NEW t, NEW c, Acked(v, t, c)
  PROVE  Acked(v, t, c)'
  BY DEF Acked, Step, StepOf

LEMMA AckedDown ==
  ASSUME TypeOK, NEW v, NEW t, NEW c \in Nat, NEW d \in Nat, d <= c, Acked(v, t, c)
  PROVE  Acked(v, t, d)
<1>1. PICK m \in msgs : AckMsg(m) /\ m.from = v /\ m.term = t /\ c <= AckIndex(m)
  BY DEF Acked
<1>2. AckIndex(m) \in Nat
  BY <1>1, AckType
<1>3. d <= AckIndex(m)
  BY <1>1, <1>2, SMT
<1> QED
  BY <1>1, <1>3 DEF Acked

\* The dead stay dead: what a node acknowledges is of the term on its medium.
LEMMA DeadStep ==
  ASSUME NEW H, NEW G, NEW n \in Node, Move(H, G, n), NEW t \in Nat, NEW c \in Nat, Dead(t, c)
  PROVE  Dead(t, c)'
<1>1. PICK Q \in SUBSET Node : IsQuorum(Q) /\ \A v \in Q : disk[v].term > t /\ ~Acked(v, t, c)
  BY DEF Dead
<1>2. ASSUME NEW v \in Q
      PROVE  disk'[v].term > t /\ ~Acked(v, t, c)'
  <2>1. disk'[v].term > t
    <3>1. disk[v].term \in Nat /\ disk'[v].term \in Nat
      BY <1>1, <1>2, Types DEF Move, Typed
    <3>2. disk'[v].term >= disk[v].term /\ disk[v].term > t
      BY <1>1, <1>2 DEF Move, Step, MediumKept
    <3> QED
      BY <3>1, <3>2, SMT
  <2>2. ASSUME NEW m \in msgs', AckMsg(m), m.from = v, m.term = t, c <= AckIndex(m)
        PROVE  FALSE
    <3>1. m \notin msgs
      BY <1>1, <1>2, <2>2 DEF Acked
    <3>2. v = n /\ disk'[n].term = t
      BY <2>2, <3>1 DEF Move, FreshAck
    <3> QED
      BY <2>1, <3>2, SMT
  <2> QED
    BY <2>1, <2>2 DEF Acked
<1>3. IsQuorum(Q)'
  BY <1>1 DEF IsQuorum, quorum_size
<1> QED
  BY <1>1, <1>2 DEF Dead, IsQuorum, quorum_size

LEMMA OwnGrows ==
  ASSUME NEW H \in History, NEW G \in History, Grows(H, G), NEW t \in Nat, NEW c \in Nat
  PROVE  /\ Own(H, t, c) => Own(G, t, c)
         /\ Own(G, t, c) /\ c <= Len(H[t]) => Own(H, t, c)
         /\ Len(H[t]) <= Len(G[t])
<1>1. Len(H[t]) \in Nat /\ Len(G[t]) \in Nat
  BY HistoryType
<1>2. Len(H[t]) <= Len(G[t]) /\ \A i \in 1..Len(H[t]) : G[t][i] = H[t][i]
  BY DEF Grows, Agree
<1> QED
  BY <1>1, <1>2, SMT DEF Own

LEMMA SafeStep ==
  ASSUME NEW H, NEW G, NEW n \in Node, Move(H, G, n), NEW l \in Seq(Entry), NEW t \in Nat, NEW c \in Nat,
         Safe(H, l, t, c)
  PROVE  Safe(G, l, t, c)'
<1>1. Agree(l, H[t], c) => Agree(l, G[t], c)
  BY AgreeGrows DEF Move
<1>2. Dead(t, c) => Dead(t, c)'
  BY DeadStep
<1> QED
  BY <1>1, <1>2 DEF Safe

LEMMA KeepsStep ==
  ASSUME NEW H, NEW G, NEW n \in Node, Move(H, G, n), AckInv(H), NEW m \in msgs, AckMsg(m),
         NEW l \in Seq(Entry), NEW t \in Nat, Keeps(H, m, l, t)
  PROVE  Keeps(G, m, l, t)'
<1>1. m.term \in Nat /\ AckIndex(m) \in Nat /\ H \in History /\ G \in History /\ Grows(H, G)
  BY Types DEF Move, Typed
<1>2. Len(H[m.term]) \in Nat /\ AckIndex(m) <= Len(H[m.term])
  BY <1>1, HistoryType DEF AckInv
<1>3. ASSUME NEW c \in 1..AckIndex(m), Own(G, m.term, c)
      PROVE  Safe(G, l, m.term, c)'
  <2>1. c \in Nat /\ c <= Len(H[m.term])
    BY <1>1, <1>2, <1>3, SMT
  <2>2. Own(H, m.term, c)
    BY <1>1, <1>3, <2>1, OwnGrows
  <2>3. Safe(H, l, m.term, c)
    BY <1>3, <2>2 DEF Keeps
  <2> QED
    BY <1>1, <2>1, <2>3, SafeStep
<1>4. Agree(l, H[t], AckIndex(m)) => Agree(l, G[t], AckIndex(m))
  BY <1>1, AgreeGrows
<1> QED
  BY <1>3, <1>4 DEF Keeps, Own

LEMMA KeepsLater ==
  ASSUME NEW H, NEW m, m.term \in Nat, NEW l, NEW t \in Nat, NEW u \in Nat, t <= u, Keeps(H, m, l, t)
  PROVE  Keeps(H, m, l, u)
<1>1. m.term <= t
  BY DEF Keeps
<1>2. m.term <= u /\ (m.term = u => t = u)
  BY <1>1, SMT
<1> QED
  BY <1>2 DEF Keeps

LEMMA ChosenStep ==
  ASSUME NEW H, NEW G, NEW n \in Node, Move(H, G, n), NEW t \in Nat, NEW c \in Nat, Chosen(H, t, c)
  PROVE  Chosen(G, t, c)'
<1>1. PICK Q \in SUBSET Node : IsQuorum(Q) /\ \A v \in Q : Acked(v, t, c)
  BY DEF Chosen
<1>2. \A v \in Q : Acked(v, t, c)'
  BY <1>1, AckedStep DEF Move
<1>3. Own(G, t, c)
  BY OwnGrows DEF Chosen, Move
<1> QED
  BY <1>1, <1>2, <1>3 DEF Chosen, Own, IsQuorum, quorum_size

\* What is chosen does not die.
LEMMA ChosenAlive ==
  ASSUME Sound, NEW H, NEW t, NEW c, Chosen(H, t, c)
  PROVE  ~Dead(t, c)
  BY DEF Sound, QuorumsMeet, Chosen, Dead

\* A new acknowledgment holds on the medium and in memory.
LEMMA KeepsFresh ==
  ASSUME NEW H, NEW G, NEW n \in Node, Move(H, G, n), NEW m \in msgs', AckMsg(m), FreshAck(G, n, m)
  PROVE  /\ m.from = n /\ AckIndex(m) <= Len(G[m.term]) /\ Keeps(G, m, disk[n].log, disk[n].term)'
         /\ Keeps(G, m, log[n], current_term[n])'
<1>1. m.term \in Nat /\ AckIndex(m) \in Nat /\ G \in History
  BY Types DEF Move, Typed
<1>2. log'[n] \in Seq(Entry) /\ G[m.term] \in Seq(Entry)
  BY <1>1, Types, HistoryType DEF Move, Typed
<1>3. /\ m.from = n /\ m.term = current_term'[n] /\ disk'[n].term = current_term'[n]
      /\ disk'[n].log = log'[n] /\ Agree(log'[n], G[m.term], AckIndex(m))
  BY DEF FreshAck
<1>4. ASSUME NEW c \in 1..AckIndex(m)
      PROVE  Agree(log'[n], G[m.term], c)
  BY <1>1, <1>2, <1>3, <1>4, AgreeDown, SMT
<1>5. m.term <= current_term'[n]
  BY <1>1, <1>3, SMT
<1>6. Keeps(G, m, log[n], current_term[n])'
  BY <1>3, <1>4, <1>5 DEF Keeps, Safe
<1>7. Keeps(G, m, disk[n].log, disk[n].term)'
  BY <1>3, <1>4, <1>5 DEF Keeps, Safe
<1> QED
  BY <1>3, <1>6, <1>7 DEF Agree

\* It is enough to look at the memory of the node that takes the step.
LEMMA AckStep ==
  ASSUME NEW H, NEW G, NEW n \in Node, Move(H, G, n), AckInv(H),
         Live(n)' => \A m \in msgs : AckMsg(m) /\ m.from = n => Keeps(G, m, log[n], current_term[n])'
  PROVE  AckInv(G)'
<1> SUFFICES ASSUME NEW m \in msgs', AckMsg(m)
             PROVE  /\ AckIndex(m) <= Len(G[m.term])
                    /\ Keeps(G, m, disk[m.from].log, disk[m.from].term)'
                    /\ Live(m.from)' => Keeps(G, m, log[m.from], current_term[m.from])'
  BY DEF AckInv, AckMsg, AckIndex
<1>1. CASE FreshAck(G, n, m)
  BY <1>1, KeepsFresh
<1>2. CASE m \in msgs
  <2> DEFINE q == m.from
  <2>1. /\ q \in Node /\ m.term \in Nat /\ AckIndex(m) \in Nat
        /\ log[q] \in Seq(Entry) /\ disk[q].log \in Seq(Entry)
        /\ current_term[q] \in Nat /\ disk[q].term \in Nat
    BY <1>2, Types DEF Move, Typed
  <2>2. /\ AckIndex(m) <= Len(H[m.term]) /\ Keeps(H, m, disk[q].log, disk[q].term)
        /\ Live(q) => Keeps(H, m, log[q], current_term[q])
    BY <1>2 DEF AckInv
  <2> HIDE DEF q
  <2>3. /\ H \in History /\ G \in History /\ Grows(H, G)
    BY DEF Move
  <2>4. AckIndex(m) <= Len(G[m.term])
    <3>1. Len(H[m.term]) \in Nat /\ Len(G[m.term]) \in Nat /\ Len(H[m.term]) <= Len(G[m.term])
      BY <2>1, <2>3, HistoryType, OwnGrows
    <3> QED
      BY <2>1, <2>2, <3>1, SMT
  <2>5. ASSUME NEW l \in Seq(Entry), NEW t \in Nat, Keeps(H, m, l, t)
        PROVE  Keeps(G, m, l, t)'
    BY <1>2, <2>5, KeepsStep
  <2>6. Keeps(G, m, disk[q].log, disk[q].term)'
    <3>1. PICK l, t : l = disk'[q].log /\ t = disk'[q].term
      OBVIOUS
    <3>2. l \in Seq(Entry) /\ t \in Nat /\ Keeps(H, m, l, t)
      <4>1. CASE disk'[q] = disk[q]
        BY <2>1, <2>2, <3>1, <4>1
      <4>2. CASE Live(q) /\ disk'[q].log = log[q] /\ disk'[q].term = current_term[q]
        BY <2>1, <2>2, <3>1, <4>2
      <4> QED
        BY <2>1, <4>1, <4>2 DEF Move, Step, MediumKept
    <3> QED
      BY <2>5, <3>1, <3>2 DEF Keeps, Safe
  <2>7. Live(q)' => Keeps(G, m, log[q], current_term[q])'
    <3>1. CASE q = n
      BY <1>2, <3>1 DEF q
    <3>2. CASE q # n
      <4>1. role'[q] = role[q] /\ log'[q] = log[q] /\ current_term'[q] = current_term[q]
        BY <2>1, <3>2 DEF Move, Step, StepOf, OthersKept
      <4>2. PICK l, t : l = log[q] /\ t = current_term[q]
        OBVIOUS
      <4>3. Live(q)' => Keeps(G, m, l, t)'
        BY <2>1, <2>2, <2>5, <4>1, <4>2 DEF Live
      <4> QED
        BY <4>1, <4>2, <4>3 DEF Keeps, Safe
    <3> QED
      BY <3>1, <3>2
  <2> QED
    BY <2>4, <2>6, <2>7 DEF q
<1> QED
  BY <1>1, <1>2 DEF Move

-----------------------------------------------------------------------------
(* Elections *)

\* For every entry of an earlier term t, the leader of e has it or it is dead;
\* what the leader of t has not appended yet is dead.
ElectedLog(H, e) ==
  \A t \in Nat : \A c \in Nat \ {0} :
    t < e[1] /\ (c > Len(H[t]) \/ Own(H, t, c)) =>
      (Own(H, t, c) /\ Agree(H[e[1]], H[t], c)) \/ Dead(t, c)

ElectedInv(H) == \A e \in elected : ElectedLog(H, e)

LEMMA ElectedStep ==
  ASSUME NEW H, NEW G, NEW n \in Node, Move(H, G, n), ElectedInv(H),
         \A e \in elected' : e \in elected \/ ElectedLog(G, e)'
  PROVE  ElectedInv(G)'
<1> SUFFICES ASSUME NEW e \in elected
             PROVE  ElectedLog(G, e)'
  BY DEF ElectedInv, ElectedLog, Own
<1> SUFFICES ASSUME NEW t \in Nat, NEW c \in Nat \ {0}, t < e[1], c > Len(G[t]) \/ Own(G, t, c)
             PROVE  (Own(G, t, c) /\ Agree(G[e[1]], G[t], c)) \/ Dead(t, c)'
  BY DEF ElectedLog, Own
<1>1. H \in History /\ G \in History /\ Grows(H, G) /\ c \in Nat
  BY DEF Move
<1>2. e[1] \in Nat
  <2>1. e \in Nat \X Node
    BY TypesNext, VariableTypes DEF Move, Step, Sound
  <2> QED
    BY <2>1
<1>3. /\ H[t] \in Seq(Entry) /\ G[t] \in Seq(Entry) /\ H[e[1]] \in Seq(Entry)
      /\ G[e[1]] \in Seq(Entry) /\ Len(H[t]) \in Nat /\ Len(G[t]) \in Nat /\ Len(H[t]) <= Len(G[t])
  BY <1>1, <1>2, HistoryType, OwnGrows
<1>4. ElectedLog(H, e)
  BY DEF ElectedInv
<1>5. CASE c > Len(H[t])
  <2>1. ~Own(H, t, c)
    BY <1>1, <1>3, <1>5, SMT DEF Own
  <2>2. Dead(t, c)
    BY <1>4, <1>5, <2>1 DEF ElectedLog
  <2> QED
    BY <1>1, <2>2, DeadStep
<1>6. CASE c <= Len(H[t])
  <2>1. Own(G, t, c)
    BY <1>1, <1>3, <1>6, SMT
  <2>2. Own(H, t, c)
    BY <1>1, <1>6, <2>1, OwnGrows
  <2>3. CASE Dead(t, c)
    BY <1>1, <2>3, DeadStep
  <2>4. CASE Agree(H[e[1]], H[t], c)
    <3>1. Agree(H[e[1]], G[t], c)
      BY <1>1, <1>3, <2>4, AgreeGrows
    <3>2. Agree(G[t], G[e[1]], c)
      BY <1>1, <1>2, <1>3, <3>1, AgreeSymmetric, AgreeGrows
    <3> QED
      BY <2>1, <3>2, AgreeSymmetric
  <2> QED
    BY <1>4, <2>2, <2>3, <2>4 DEF ElectedLog
<1> QED
  BY <1>1, <1>3, <1>5, <1>6, SMT

\* The last entry of a rooted log is of the latest term.
LEMMA LastTerm ==
  ASSUME NEW H \in History, HistoryInv(H), NEW l \in Seq(Entry), Rooted(H, l), Len(l) # 0
  PROVE  /\ l[Len(l)].term \in Nat /\ term_at(l, Len(l)) = l[Len(l)].term
         /\ Agree(l, H[l[Len(l)].term], Len(l))
         /\ \A i \in 1..Len(l) : l[i].term <= l[Len(l)].term
         /\ \E q \in Node : <<l[Len(l)].term, q>> \in elected
<1> DEFINE L == Len(l)
           w == l[L].term
<1>1. L \in Nat /\ L \in 1..Len(l) /\ w \in Nat
  BY EntryType, SMT
<1>2. Agree(l, H[w], L)
  BY <1>1 DEF Rooted
<1>3. H[w] \in Seq(Entry) /\ Len(H[w]) \in Nat /\ L <= Len(H[w]) /\ \A i \in 1..L : l[i] = H[w][i]
  BY <1>1, <1>2, HistoryType DEF Agree
<1>4. \A i \in 1..L : l[i].term <= w
  BY <1>1, <1>3, SMT DEF HistoryInv, Within
<1>5. H[w] # << >>
  BY <1>1, <1>3, SMT
<1>6. \E q \in Node : <<w, q>> \in elected
  BY <1>1, <1>5 DEF HistoryInv
<1>7. term_at(l, L) = w
  BY <1>1 DEF term_at
<1> QED
  BY <1>1, <1>2, <1>4, <1>6, <1>7

\* A candidate whose log k is up to date with the log l of a voter has what the
\* voter has acknowledged, other than what is dead.
LEMMA UpToDate ==
  ASSUME NEW H \in History, HistoryInv(H), ElectedInv(H), TypeOK,
         NEW l \in Seq(Entry), Rooted(H, l), NEW k \in Seq(Entry), Rooted(H, k),
         candidate_is_up_to_date(l, Len(k), term_at(k, Len(k))),
         NEW t \in Nat, NEW c \in Nat \ {0}, Own(H, t, c), Safe(H, l, t, c)
  PROVE  Safe(H, k, t, c)
<1> SUFFICES ASSUME Agree(l, H[t], c), ~Dead(t, c)
             PROVE  Agree(k, H[t], c)
  BY DEF Safe
<1>1. c \in Nat /\ Len(l) \in Nat /\ Len(k) \in Nat /\ H[t] \in Seq(Entry) /\ Len(H[t]) \in Nat
  BY HistoryType, SMT
<1>2. c <= Len(l) /\ c \in 1..Len(l) /\ c \in 1..Len(H[t]) /\ l[c] = H[t][c] /\ l[c].term = t /\ Len(l) # 0
  BY <1>1, SMT DEF Agree, Own
<1> DEFINE v == l[Len(l)].term
           w == k[Len(k)].term
<1>3. v \in Nat /\ t <= v /\ term_at(l, Len(l)) = v
  BY <1>2, LastTerm
<1>4. Len(k) # 0
  <2> SUFFICES ASSUME Len(k) = 0
               PROVE  FALSE
    OBVIOUS
  <2>1. term_at(k, Len(k)) = 0
    BY SMT DEF term_at
  <2> QED
    BY <1>1, <1>2, <1>3, <2>1, SMT DEF candidate_is_up_to_date
<1>5. w \in Nat /\ term_at(k, Len(k)) = w /\ Agree(k, H[w], Len(k)) /\ \E q \in Node : <<w, q>> \in elected
  BY <1>4, LastTerm
<1> HIDE DEF v, w
<1>6. w > v \/ (w = v /\ Len(k) >= Len(l))
  BY <1>3, <1>5 DEF candidate_is_up_to_date
<1>7. CASE w = t
  <2>1. c <= Len(k)
    BY <1>1, <1>2, <1>3, <1>6, <1>7, SMT
  <2> QED
    BY <1>1, <1>5, <1>7, <2>1, AgreeDown
<1>8. CASE w > t
  <2>1. PICK q \in Node : <<w, q>> \in elected
    BY <1>5
  <2>2. ElectedLog(H, <<w, q>>) /\ <<w, q>>[1] = w
    BY <2>1 DEF ElectedInv
  <2>3. Agree(H[w], H[t], c)
    BY <1>1, <1>8, <2>2 DEF ElectedLog
  <2>4. H[w] \in Seq(Entry)
    BY <1>5, HistoryType
  <2>5. c <= Len(k)
    <3> SUFFICES ASSUME c > Len(k)
                 PROVE  FALSE
      BY <1>1, SMT
    <3>1. Len(k) \in 1..Len(k) /\ Len(k) \in 1..c /\ Len(k) \in 1..Len(H[t])
      BY <1>1, <1>2, <1>4, SMT
    <3>2. k[Len(k)] = H[w][Len(k)] /\ H[w][Len(k)] = H[t][Len(k)]
      BY <1>5, <2>3, <3>1 DEF Agree
    <3>3. H[t][Len(k)].term <= t
      BY <3>1 DEF HistoryInv, Within
    <3> QED
      BY <1>5, <1>8, <3>2, <3>3, SMT DEF w
  <2>6. Agree(k, H[w], c)
    BY <1>1, <1>5, <2>4, <2>5, AgreeDown
  <2> QED
    BY <1>1, <2>3, <2>4, <2>6, AgreeSymmetric, AgreeJoin
<1> QED
  BY <1>3, <1>5, <1>6, <1>7, <1>8, SMT

-----------------------------------------------------------------------------
(* Votes *)

\* l has what the voter of b had acknowledged before the term of b, other than
\* what is dead.
Backs(H, b, l) ==
  \A a \in msgs : AckMsg(a) /\ a.from = b.from /\ a.term < b.term =>
    \A c \in 1..AckIndex(a) : Own(H, a.term, c) => Safe(H, l, a.term, c)

\* The request m tells the log l of its candidate.
Tells(m, l) == m.last_log_index = Len(l) /\ m.last_log_term = term_at(l, Len(l))

Standing(x, t) == role[x] = "candidate" /\ current_term[x] = t

BallotLog(H, b) ==
  /\ disk[Choice(b)].term >= b.term
  /\ Standing(Choice(b), b.term) =>
       /\ b.type = "RequestVote" => Tells(b, log[Choice(b)])
       /\ Backs(H, b, log[Choice(b)])

VoteInv(H) == \A b \in msgs : Ballot(b) => BallotLog(H, b)

\* The vote w answers the request m of a candidate whose log is up to date
\* with the log l of the voter.
Asks(m, w, l) ==
  /\ m.type = "RequestVote" /\ m.from = w.to /\ m.term = w.term
  /\ candidate_is_up_to_date(l, m.last_log_index, m.last_log_term)

FreshBallot(n, b) ==
  /\ b.from = n /\ Live(n) /\ log'[n] = log[n]
  /\ b.term = current_term'[n] /\ disk'[n].term = current_term'[n]
  /\ \/ b.type = "RequestVote" /\ Tells(b, log[n])
     \/ b.type = "RequestVoteResponse" /\ \E m \in msgs : Asks(m, b, log[n])

\* A candidate is one that was already, or its term is not on a medium yet.
StandsAs(n) ==
  role'[n] = "candidate" =>
    /\ log'[n] = log[n]
    /\ (role[n] = "candidate" /\ current_term'[n] = current_term[n]) \/ disk'[n].term < current_term'[n]

\* What the voter n has acknowledged before its term, other than what is dead,
\* is in its log.
LEMMA VoterKeeps ==
  ASSUME NEW H, NEW G, NEW n \in Node, Move(H, G, n), AckInv(H), NEW b, FreshBallot(n, b),
         NEW a \in msgs', AckMsg(a), a.from = n, a.term < b.term,
         NEW c \in 1..AckIndex(a), Own(G, a.term, c)
  PROVE  a.term \in Nat /\ c \in Nat \ {0} /\ Own(H, a.term, c) /\ Safe(H, log[n], a.term, c)
<1>1. a.term \in Nat /\ c \in Nat \ {0} /\ AckIndex(a) \in Nat /\ current_term'[n] \in Nat
  <2>1. a.term \in Nat /\ AckIndex(a) \in Nat /\ current_term'[n] \in Nat
    BY Types DEF Move, Typed
  <2> QED
    BY <2>1, SMT
<1>2. a \in msgs
  <2> SUFFICES ASSUME FreshAck(G, n, a)
               PROVE  FALSE
    BY DEF Move
  <2>1. a.term = current_term'[n] /\ b.term = current_term'[n]
    BY DEF FreshAck, FreshBallot
  <2> QED
    BY <1>1, <2>1, SMT
<1>3. Live(n) /\ H \in History /\ G \in History /\ Grows(H, G)
  BY DEF FreshBallot, Move
<1>4. AckIndex(a) <= Len(H[a.term]) /\ Keeps(H, a, log[n], current_term[n])
  BY <1>2, <1>3 DEF AckInv
<1>5. Len(H[a.term]) \in Nat
  BY <1>1, <1>3, HistoryType
<1>6. c \in Nat /\ c <= Len(H[a.term])
  BY <1>1, <1>4, <1>5, SMT
<1>7. Own(H, a.term, c)
  BY <1>1, <1>3, <1>6, OwnGrows
<1> QED
  BY <1>1, <1>4, <1>7 DEF Keeps

\* What a new vote shows of the log of its candidate.
LEMMA FreshBallotLog ==
  ASSUME NEW H, NEW G, NEW n \in Node, Move(H, G, n), AckInv(H), ElectedInv(H), VoteInv(H),
         StandsAs(n), NEW b, FreshBallot(n, b), NEW x, x = Choice(b)
  PROVE  /\ x \in Node /\ disk'[x].term >= b.term
         /\ Standing(x, b.term)' => /\ b.type = "RequestVote" => Tells(b, log'[x])
                                    /\ Backs(G, b, log[x])'
<1>1. /\ b.from = n /\ Live(n) /\ log'[n] = log[n]
      /\ b.term = current_term'[n] /\ disk'[n].term = current_term'[n]
  BY DEF FreshBallot
<1>2. ASSUME x = n
      PROVE  disk'[x].term >= b.term /\ Backs(G, b, log[x])'
  <2>1. disk'[n].term >= b.term
    BY <1>1, Types, SMT DEF Typed, Move
  <2>2. ASSUME NEW a \in msgs', AckMsg(a), a.from = n, a.term < b.term,
               NEW c \in 1..AckIndex(a), Own(G, a.term, c)
        PROVE  Agree(log'[n], G[a.term], c) \/ Dead(a.term, c)'
    <3>1. a.term \in Nat /\ c \in Nat \ {0} /\ Safe(H, log[n], a.term, c)
      BY <2>2, VoterKeeps
    <3>2. log[n] \in Seq(Entry)
      BY Types DEF Typed, Move
    <3>3. c \in Nat
      BY <3>1
    <3>4. Agree(log[n], H[a.term], c) => Agree(log[n], G[a.term], c)
      BY <3>1, <3>2, <3>3, AgreeGrows DEF Move
    <3>5. Dead(a.term, c) => Dead(a.term, c)'
      BY <3>1, <3>3, DeadStep
    <3> QED
      BY <1>1, <3>1, <3>4, <3>5 DEF Safe
  <2> QED
    BY <1>1, <1>2, <2>1, <2>2 DEF Backs, Safe, AckMsg, AckIndex, Own
<1>3. CASE b.type = "RequestVote"
  <2>1. x = n
    BY <1>1, <1>3 DEF Choice
  <2>2. Tells(b, log[n])
    BY <1>3 DEF FreshBallot
  <2> QED
    BY <1>1, <1>2, <2>1, <2>2
<1>4. CASE b.type = "RequestVoteResponse"
  <2>1. PICK m \in msgs : Asks(m, b, log[n])
    BY <1>4 DEF FreshBallot
  <2>2. m.type = "RequestVote" /\ m.term = b.term /\ m.from = x /\ Choice(m) = x /\ Ballot(m)
    BY <1>4, <2>1 DEF Asks, Choice, Ballot
  <2>3. x \in Node
    BY <2>2, MessageType DEF Move, Step, Sound
  <2>4. BallotLog(H, m)
    BY <2>2 DEF VoteInv
  <2>5. disk'[x].term >= b.term
    <3>1. disk[x].term >= b.term /\ disk'[x].term >= disk[x].term
      BY <2>2, <2>3, <2>4 DEF BallotLog, Move, Step, MediumKept
    <3>2. disk[x].term \in Nat /\ disk'[x].term \in Nat /\ b.term \in Nat
      BY <1>1, <2>3, Types DEF Typed, Move
    <3> QED
      BY <3>1, <3>2, SMT
  <2>6. CASE x = n
    <3>1. b.type # "RequestVote"
      BY <1>4
    <3> QED
      BY <1>2, <2>3, <2>5, <2>6, <3>1
  <2>7. CASE x # n
    <3> SUFFICES ASSUME Standing(x, b.term)'
                 PROVE  Backs(G, b, log[x])'
      BY <1>4, <2>3, <2>5
    <3>1. role[x] = role'[x] /\ current_term'[x] = current_term[x] /\ log'[x] = log[x]
      BY <2>3, <2>7 DEF Move, Step, StepOf, OthersKept
    <3>2. Standing(x, b.term)
      BY <3>1 DEF Standing
    <3>3. Tells(m, log[x])
      BY <2>2, <2>4, <3>2 DEF BallotLog
    <3>4. candidate_is_up_to_date(log[n], Len(log[x]), term_at(log[x], Len(log[x])))
      BY <2>1, <3>3 DEF Asks, Tells
    <3>5. /\ H \in History /\ HistoryInv(H) /\ TypeOK
          /\ log[n] \in Seq(Entry) /\ log[x] \in Seq(Entry)
      BY <2>3, Types DEF Move, Step, Sound, Typed, LogInv
    <3>6. Live(x)
      BY <3>2 DEF Standing, Live, LiveRole
    <3>7. Rooted(H, log[n]) /\ Rooted(H, log[x])
      BY <1>1, <2>3, <3>6 DEF Move, LogInv, MemoryInv
    <3>8. ASSUME NEW a \in msgs', AckMsg(a), a.from = n, a.term < b.term,
                 NEW c \in 1..AckIndex(a), Own(G, a.term, c)
          PROVE  Agree(log'[x], G[a.term], c) \/ Dead(a.term, c)'
      <4>1. /\ a.term \in Nat /\ c \in Nat \ {0} /\ Own(H, a.term, c)
            /\ Safe(H, log[n], a.term, c)
        BY <3>8, VoterKeeps
      <4>2. Safe(H, log[x], a.term, c)
        BY <3>4, <3>5, <3>7, <4>1, UpToDate
      <4>3. c \in Nat
        BY <4>1
      <4>4. Agree(log[x], H[a.term], c) => Agree(log[x], G[a.term], c)
        BY <3>5, <4>1, <4>3, AgreeGrows DEF Move
      <4>5. Dead(a.term, c) => Dead(a.term, c)'
        BY <4>1, <4>3, DeadStep
      <4> QED
        BY <3>1, <4>2, <4>4, <4>5 DEF Safe
    <3> QED
      BY <1>1, <3>8 DEF Backs, Safe, AckMsg, AckIndex, Own
  <2> QED
    BY <2>6, <2>7
<1> QED
  BY <1>3, <1>4 DEF FreshBallot

LEMMA VoteStep ==
  ASSUME NEW H, NEW G, NEW n \in Node, Move(H, G, n), AckInv(H), ElectedInv(H), VoteInv(H),
         StandsAs(n), \A b \in msgs' : Ballot(b) => b \in msgs \/ FreshBallot(n, b)
  PROVE  VoteInv(G)'
<1> SUFFICES ASSUME NEW b \in msgs', Ballot(b)
             PROVE  BallotLog(G, b)'
  BY DEF VoteInv, Ballot
<1> DEFINE x == Choice(b)
<1>1. x = Choice(b)
  OBVIOUS
<1> HIDE DEF x
<1>2. CASE FreshBallot(n, b)
  BY <1>1, <1>2, FreshBallotLog DEF BallotLog, Choice
<1>3. CASE b \in msgs
  <2>1. x \in Node /\ b.from \in Node /\ b.term \in Nat
    BY <1>1, <1>3, MessageType DEF Choice, Move, Step, Sound
  <2>2. BallotLog(H, b) /\ OnMedium(b)
    BY <1>3 DEF VoteInv, Move, Step, Sound, ElectionInv, BallotInv
  <2>3. disk'[x].term >= b.term
    <3>1. disk[x].term >= b.term /\ disk'[x].term >= disk[x].term
      BY <1>1, <2>1, <2>2 DEF BallotLog, Move, Step, MediumKept
    <3>2. disk[x].term \in Nat /\ disk'[x].term \in Nat
      BY <2>1, Types DEF Typed, Move
    <3> QED
      BY <2>1, <3>1, <3>2, SMT
  <2>4. disk'[b.from].term >= b.term
    <3>1. disk[b.from].term >= b.term /\ disk'[b.from].term >= disk[b.from].term
      <4>1. disk[b.from].term \in Nat
        BY <2>1, Types DEF Typed, Move
      <4>2. disk[b.from].term >= b.term
        BY <2>1, <2>2, <4>1, SMT DEF OnMedium
      <4> QED
        BY <2>1, <4>2 DEF Move, Step, MediumKept
    <3>2. disk[b.from].term \in Nat /\ disk'[b.from].term \in Nat
      BY <2>1, Types DEF Typed, Move
    <3> QED
      BY <2>1, <3>1, <3>2, SMT
  <2>5. ASSUME Standing(x, b.term)'
        PROVE  Standing(x, b.term) /\ log'[x] = log[x]
    <3>1. CASE x = n
      <4>1. disk'[n].term \in Nat /\ ~(disk'[n].term < b.term)
        BY <2>1, <2>3, <3>1, Types, SMT DEF Typed, Move
      <4> QED
        BY <2>5, <3>1, <4>1 DEF StandsAs, Standing
    <3>2. CASE x # n
      BY <2>1, <2>5, <3>2 DEF Standing, Move, Step, StepOf, OthersKept
    <3> QED
      BY <3>1, <3>2
  <2>6. ASSUME Standing(x, b.term)'
        PROVE  /\ b.type = "RequestVote" => Tells(b, log'[x])
               /\ Backs(G, b, log[x])'
    <3>1. /\ log'[x] = log[x] /\ Backs(H, b, log[x])
          /\ b.type = "RequestVote" => Tells(b, log[x])
      BY <1>1, <2>2, <2>5, <2>6 DEF BallotLog
    <3>2. H \in History /\ G \in History /\ Grows(H, G) /\ log[x] \in Seq(Entry)
      BY <2>1, Types DEF Typed, Move
    <3>3. ASSUME NEW a \in msgs', AckMsg(a), a.from = b.from, a.term < b.term,
                 NEW c \in 1..AckIndex(a), Own(G, a.term, c)
          PROVE  Agree(log'[x], G[a.term], c) \/ Dead(a.term, c)'
      <4>1. a.term \in Nat /\ AckIndex(a) \in Nat
        BY <3>3, Types DEF Move, Typed
      <4>2. a \in msgs
        <5> SUFFICES ASSUME FreshAck(G, n, a)
                     PROVE  FALSE
          BY <3>3 DEF Move
        <5>1. a.term = disk'[b.from].term
          BY <3>3 DEF FreshAck
        <5> QED
          BY <2>1, <2>4, <3>3, <4>1, <5>1, SMT
      <4>3. AckIndex(a) <= Len(H[a.term]) /\ Len(H[a.term]) \in Nat
        BY <3>2, <3>3, <4>1, <4>2, HistoryType DEF AckInv
      <4>4. c \in Nat /\ c <= Len(H[a.term])
        BY <3>3, <4>1, <4>3, SMT
      <4>5. Own(H, a.term, c)
        BY <3>2, <3>3, <4>1, <4>4, OwnGrows
      <4>6. Safe(H, log[x], a.term, c)
        BY <3>1, <3>3, <4>2, <4>5 DEF Backs
      <4>7. Agree(log[x], H[a.term], c) => Agree(log[x], G[a.term], c)
        BY <3>2, <4>1, <4>4, AgreeGrows
      <4>8. Dead(a.term, c) => Dead(a.term, c)'
        BY <4>1, <4>4, DeadStep
      <4> QED
        BY <3>1, <4>6, <4>7, <4>8 DEF Safe
    <3>4. Backs(G, b, log[x])'
      BY <3>3 DEF Backs, Safe, AckMsg, AckIndex, Own
    <3> QED
      BY <3>1, <3>4
  <2> QED
    BY <1>1, <2>3, <2>6 DEF BallotLog, Choice
<1> QED
  BY <1>2, <1>3

\* A log extended by an entry agrees with what the log agreed with.
LEMMA ExtendedAgrees ==
  ASSUME TypeOK, NEW n \in Node, NewEntry(n), NEW h \in Seq(Entry), NEW c \in Nat, Agree(log[n], h, c)
  PROVE  Agree(log'[n], h, c)
<1>1. log[n] \in Seq(Entry) /\ Len(log[n]) \in Nat /\ log'[n] \in Seq(Entry)
  BY StateType, NewEntryAgrees
<1>2. Agree(log'[n], log[n], Len(log[n]))
  BY NewEntryAgrees
<1>3. c <= Len(log[n])
  BY DEF Agree
<1>4. Agree(log'[n], log[n], c)
  BY <1>1, <1>2, <1>3, AgreeDown
<1>5. Agree(h, log[n], c)
  BY AgreeSymmetric
<1> QED
  BY <1>1, <1>4, <1>5, AgreeJoin

LEMMA WinsNewEntry ==
  ASSUME TypeOK, NEW n \in Node, Wins(n)
  PROVE  NewEntry(n)
<1>1. current_term[n] \in Nat
  BY StateType
<1> QED
  BY <1>1, NoopType DEF Wins, NewEntry

\* A vote of a quorum: none of it has acknowledged an earlier entry, and it is
\* dead, or a voter has, and the winner holds it.
LEMMA WinnerLog ==
  ASSUME NEW H, NEW G, NEW n \in Node, Move(H, G, n), AckInv(H), VoteInv(H), Wins(n),
         Extended(H, G, n), NEW e, e = <<current_term[n], n>>
  PROVE  ElectedLog(G, e)'
<1> DEFINE U == current_term[n]
<1>1. U \in Nat /\ e[1] = U /\ e[2] = n /\ e \in elected' /\ msgs' = msgs /\ role[n] = "candidate"
  <2>1. U \in Nat
    BY Types DEF Typed, Move
  <2>2. e \in elected' /\ msgs' = msgs /\ role[n] = "candidate"
    BY DEF Wins, Silent
  <2> QED
    BY <2>1, <2>2
<1>2. /\ H \in History /\ G \in History /\ Grows(H, G) /\ TypeOK /\ Sound /\ Sound'
      /\ log[n] \in Seq(Entry)
  BY Types DEF Typed, Move, Step, Sound
<1>3. G[U] = log'[n] /\ \A t \in Nat \ {U} : G[t] = H[t]
  BY <1>1, <1>2 DEF Extended, History
<1> HIDE DEF U
<1> SUFFICES ASSUME NEW t \in Nat, NEW c \in Nat \ {0}, t < U, c > Len(G[t]) \/ Own(G, t, c)
             PROVE  (Own(G, t, c) /\ Agree(G[U], G[t], c)) \/ Dead(t, c)'
  BY <1>1 DEF ElectedLog, Own
<1>4. c \in Nat /\ G[t] = H[t] /\ H[t] \in Seq(Entry) /\ Len(H[t]) \in Nat
  BY <1>1, <1>2, <1>3, HistoryType, SMT
<1>5. PICK Q \in SUBSET Node : IsQuorum(Q) /\ \A v \in Q : Voted(msgs, v, U, n)
  <2>1. QuorumInv'
    BY <1>2 DEF Sound, ElectionInv
  <2>2. \E Q \in SUBSET Node : IsQuorum(Q) /\ \A v \in Q : Voted(msgs', v, e[1], e[2])
    BY <1>1, <2>1 DEF QuorumInv, IsQuorum, quorum_size, Voted, Ballot, Choice
  <2> QED
    BY <1>1, <2>2
<1>6. ASSUME Dead(t, c)
      PROVE  Dead(t, c)'
  BY <1>4, <1>6, DeadStep
<1>7. CASE \A v \in Q : ~Acked(v, t, c)
  <2>1. ASSUME NEW v \in Q
        PROVE  disk[v].term > t
    <3>1. PICK b \in msgs : Ballot(b) /\ b.from = v /\ b.term = U
      BY <1>5, <2>1 DEF Voted
    <3>2. OnMedium(b)
      BY <1>2, <3>1 DEF Sound, ElectionInv, BallotInv
    <3>3. disk[v].term \in Nat
      BY <1>5, <2>1, Types DEF Typed, Move
    <3> QED
      BY <1>1, <3>1, <3>2, <3>3, SMT DEF OnMedium
  <2>2. Dead(t, c)
    BY <1>5, <1>7, <2>1 DEF Dead
  <2> QED
    BY <1>6, <2>2
<1>8. ASSUME NEW v \in Q, Acked(v, t, c)
      PROVE  (Own(G, t, c) /\ Agree(G[U], G[t], c)) \/ Dead(t, c)'
  <2>1. PICK b \in msgs : Ballot(b) /\ b.from = v /\ b.term = U /\ Choice(b) = n
    BY <1>5, <1>8 DEF Voted
  <2>2. PICK a \in msgs : AckMsg(a) /\ a.from = v /\ a.term = t /\ c <= AckIndex(a)
    BY <1>8 DEF Acked
  <2>3. AckIndex(a) \in Nat /\ AckIndex(a) <= Len(H[t])
    BY <2>2, Types DEF Typed, Move, AckInv
  <2>4. c <= Len(H[t]) /\ c \in 1..AckIndex(a)
    BY <1>4, <2>2, <2>3, SMT
  <2>5. Own(G, t, c) /\ Own(H, t, c)
    BY <1>4, <2>4, SMT DEF Own
  <2>6. Backs(H, b, log[n])
    BY <1>1, <2>1 DEF VoteInv, BallotLog, Standing, U
  <2>7. Safe(H, log[n], t, c)
    BY <2>1, <2>2, <2>4, <2>5, <2>6 DEF Backs
  <2>8. CASE Agree(log[n], H[t], c)
    <3>1. Agree(log'[n], H[t], c)
      BY <1>2, <1>4, <2>8, WinsNewEntry, ExtendedAgrees
    <3> QED
      BY <1>3, <1>4, <2>5, <3>1
  <2> QED
    BY <1>6, <2>7, <2>8 DEF Safe
<1> QED
  BY <1>7, <1>8

-----------------------------------------------------------------------------
(* What waits, and what a leader has heard *)

\* A reply that waits for its batch tells what memory holds.
WaitInv(H, n) ==
  pending_storage[n] # Nil /\ Waiting(n) # Nil =>
    /\ Ballot(Waiting(n)) => /\ Waiting(n).type = "RequestVoteResponse"
                             /\ \E m \in msgs : Asks(m, Waiting(n), log[n])
    /\ AckMsg(Waiting(n)) => /\ Waiting(n).from = n /\ Waiting(n).term = current_term[n]
                             /\ AckIndex(Waiting(n)) \in Nat
                             /\ Agree(log[n], H[current_term[n]], AckIndex(Waiting(n)))

\* What a leader counts as replicated, or expects to, has been acknowledged.
PeerInv(n) ==
  role[n] = "leader" => \A p \in Node \ {n} :
    /\ peers[n][p].match_index > 0 =>
         /\ Acked(p, current_term[n], peers[n][p].match_index)
         /\ Acked(n, current_term[n], peers[n][p].match_index)
    /\ peers[n][p].inflight # Nil => Acked(n, current_term[n], peers[n][p].inflight.last_index)

LEMMA WaitStep ==
  ASSUME NEW H, NEW G, NEW n \in Node, Move(H, G, n), \A q \in Node : WaitInv(H, q), WaitInv(G, n)'
  PROVE  \A q \in Node : WaitInv(G, q)'
<1> SUFFICES ASSUME NEW q \in Node \ {n}
             PROVE  WaitInv(G, q)'
  OBVIOUS
<1>1. /\ pending_storage'[q] = pending_storage[q] /\ log'[q] = log[q]
      /\ current_term'[q] = current_term[q] /\ msgs \subseteq msgs'
  BY DEF Move, Step, StepOf, OthersKept
<1>2. /\ H \in History /\ G \in History /\ Grows(H, G) /\ log[q] \in Seq(Entry)
      /\ current_term[q] \in Nat
  BY Types DEF Move, Typed
<1>3. ASSUME NEW c \in Nat, Agree(log[q], H[current_term[q]], c)
      PROVE  Agree(log[q], G[current_term[q]], c)
  BY <1>2, <1>3, AgreeGrows
<1>4. PICK w, l, t : w = Waiting(q) /\ l = log[q] /\ t = current_term[q]
  OBVIOUS
<1>5. Waiting(q)' = w /\ log'[q] = l /\ current_term'[q] = t
  BY <1>1, <1>4 DEF Waiting
<1>6. ASSUME pending_storage'[q] # Nil, w # Nil
      PROVE  /\ Ballot(w) => w.type = "RequestVoteResponse" /\ \E m \in msgs' : Asks(m, w, l)
             /\ AckMsg(w) => /\ w.from = q /\ w.term = t /\ AckIndex(w) \in Nat
                             /\ Agree(l, G[t], AckIndex(w))
  <2>1. /\ Ballot(w) => w.type = "RequestVoteResponse" /\ \E m \in msgs : Asks(m, w, l)
        /\ AckMsg(w) => /\ w.from = q /\ w.term = t /\ AckIndex(w) \in Nat
                        /\ Agree(l, H[t], AckIndex(w))
    BY <1>1, <1>4, <1>6 DEF WaitInv
  <2> QED
    BY <1>1, <1>3, <1>4, <2>1
<1> QED
  BY <1>5, <1>6 DEF WaitInv, Ballot, AckMsg, AckIndex, Asks

LEMMA PeerStep ==
  ASSUME NEW n \in Node, Step(n), \A q \in Node : PeerInv(q), PeerInv(n)'
  PROVE  \A q \in Node : PeerInv(q)'
<1> SUFFICES ASSUME NEW q \in Node \ {n}
             PROVE  PeerInv(q)'
  OBVIOUS
<1>1. role'[q] = role[q] /\ current_term'[q] = current_term[q] /\ peers'[q] = peers[q]
  BY DEF Step, StepOf, OthersKept
<1>2. PICK t, P : t = current_term[q] /\ P = peers[q]
  OBVIOUS
<1>3. current_term'[q] = t /\ peers'[q] = P
  BY <1>1, <1>2
<1>4. ASSUME role'[q] = "leader", NEW p \in Node \ {q}
      PROVE  /\ P[p].match_index > 0 =>
                  Acked(p, t, P[p].match_index)' /\ Acked(q, t, P[p].match_index)'
             /\ P[p].inflight # Nil => Acked(q, t, P[p].inflight.last_index)'
  <2>1. /\ P[p].match_index > 0 => Acked(p, t, P[p].match_index) /\ Acked(q, t, P[p].match_index)
        /\ P[p].inflight # Nil => Acked(q, t, P[p].inflight.last_index)
    BY <1>1, <1>2, <1>4 DEF PeerInv
  <2> QED
    BY <2>1, AckedStep
<1> QED
  BY <1>3, <1>4 DEF PeerInv, Acked

-----------------------------------------------------------------------------
(* What is committed, and what nodes know of it *)

CommittedEntry(H, i) ==
  \E c \in Nat : /\ i <= c /\ Chosen(H, committed[i].term, c)
                 /\ committed[i].entry = H[committed[i].term][i]

CommittedInv(H) == \A i \in 1..Len(committed) : CommittedEntry(H, i)

\* The first k entries of the log l of a node in term t are committed.
Known(H, l, k, t) ==
  /\ k <= Len(committed)
  /\ k = 0 \/ \E s \in Nat : \E c \in Nat : s <= t /\ k <= c /\ Chosen(H, s, c) /\ Agree(l, H[s], k)

KnownInv(H) ==
  /\ \A q \in Node : /\ Live(q) => Known(H, log[q], commit_index[q], current_term[q])
                     /\ Known(H, disk[q].log, disk[q].commit, disk[q].term)
  /\ \A m \in msgs : m.type = "AppendEntries" => Known(H, H[m.term], m.leader_commit, m.term)

\* Entries are only added to what is committed.
CommittedGrows ==
  /\ Len(committed) \in Nat /\ Len(committed') \in Nat /\ Len(committed) <= Len(committed')
  /\ \A i \in 1..Len(committed) : committed'[i] = committed[i]

LEMMA CommittedKept ==
  ASSUME NEW n \in Node, Step(n), committed' = committed
  PROVE  CommittedGrows
<1>1. committed \in Seq([entry : Entry, term : Nat])
  BY TypesNext, VariableTypes DEF Step, Sound
<1> QED
  BY <1>1, SMT DEF CommittedGrows

LEMMA CommittedType ==
  ASSUME TypeOK, NEW i \in 1..Len(committed)
  PROVE  committed[i].term \in Nat /\ committed[i].entry \in Entry /\ i \in Nat /\ i # 0
<1>1. committed \in Seq([entry : Entry, term : Nat])
  BY VariableTypes
<1>2. committed[i] \in [entry : Entry, term : Nat]
  BY <1>1, SeqElement
<1>3. i \in Nat /\ i # 0
  BY <1>1, SMT
<1> QED
  BY <1>2, <1>3

LEMMA KnownStep ==
  ASSUME NEW H, NEW G, NEW n \in Node, Move(H, G, n), CommittedGrows,
         NEW l \in Seq(Entry), NEW k \in Nat, NEW t \in Nat, NEW u \in Nat, t <= u, Known(H, l, k, t)
  PROVE  Known(G, l, k, u)'
<1>1. H \in History /\ G \in History /\ Grows(H, G)
  BY DEF Move
<1>2. k <= Len(committed')
  <2>1. /\ Len(committed) \in Nat /\ Len(committed') \in Nat /\ Len(committed) <= Len(committed')
        /\ k <= Len(committed)
    BY DEF CommittedGrows, Known
  <2> QED
    BY <2>1, SMT
<1>3. ASSUME NEW s \in Nat, NEW c \in Nat, s <= t, k <= c, Chosen(H, s, c), Agree(l, H[s], k)
      PROVE  s <= u /\ k <= c /\ Chosen(G, s, c)' /\ Agree(l, G[s], k)
  <2>1. s <= u
    BY <1>3, SMT
  <2>2. Chosen(G, s, c)'
    BY <1>3, ChosenStep
  <2>3. Agree(l, G[s], k)
    BY <1>1, <1>3, AgreeGrows
  <2> QED
    BY <1>3, <2>1, <2>2, <2>3
<1> QED
  BY <1>2, <1>3 DEF Known

LEMMA CommittedEntryStep ==
  ASSUME NEW H, NEW G, NEW n \in Node, Move(H, G, n), CommittedGrows,
         NEW i \in 1..Len(committed), CommittedEntry(H, i)
  PROVE  CommittedEntry(G, i)'
<1>1. /\ H \in History /\ G \in History /\ Grows(H, G) /\ committed'[i] = committed[i]
      /\ TypeOK
  BY DEF Move, CommittedGrows, Step, Sound
<1>2. PICK t : t = committed[i].term
  OBVIOUS
<1>3. t \in Nat /\ i \in Nat /\ i # 0
  BY <1>1, <1>2, CommittedType
<1>4. PICK c \in Nat : i <= c /\ Chosen(H, t, c) /\ committed[i].entry = H[t][i]
  BY <1>2 DEF CommittedEntry
<1>5. Chosen(G, t, c)'
  BY <1>3, <1>4, ChosenStep
<1>6. G[t][i] = H[t][i]
  <2>1. c \in 1..Len(H[t]) /\ Len(H[t]) \in Nat
    BY <1>1, <1>3, <1>4, HistoryType DEF Chosen, Own
  <2>2. i \in 1..Len(H[t])
    BY <1>3, <1>4, <2>1, SMT
  <2> QED
    BY <1>1, <1>3, <2>2 DEF Grows, Agree
<1>7. committed'[i].term = t /\ committed'[i].entry = G[t][i]
  BY <1>1, <1>2, <1>4, <1>6
<1> QED
  BY <1>4, <1>5, <1>7 DEF CommittedEntry, Chosen, Acked

LEMMA CommittedStep ==
  ASSUME NEW H, NEW G, NEW n \in Node, Move(H, G, n), CommittedGrows, CommittedInv(H),
         \A i \in 1..Len(committed') : i \in 1..Len(committed) \/ CommittedEntry(G, i)'
  PROVE  CommittedInv(G)'
<1>1. \A i \in 1..Len(committed) : CommittedEntry(G, i)'
  BY CommittedEntryStep DEF CommittedInv
<1> QED
  BY <1>1 DEF CommittedInv, CommittedEntry, Chosen, Acked

LEMMA KnownInvStep ==
  ASSUME NEW H, NEW G, NEW n \in Node, Move(H, G, n), CommittedGrows, KnownInv(H),
         Live(n)' => Known(G, log[n], commit_index[n], current_term[n])',
         \A m \in msgs' : m.type = "AppendEntries" =>
           m \in msgs \/ Known(G, G[m.term], m.leader_commit, m.term)'
  PROVE  KnownInv(G)'
<1>1. H \in History /\ G \in History /\ Grows(H, G)
  BY DEF Move
<1>2. ASSUME NEW l \in Seq(Entry), NEW k \in Nat, NEW t \in Nat, Known(H, l, k, t)
      PROVE  Known(G, l, k, t)'
  BY <1>2, KnownStep, SMT
<1>3. ASSUME NEW q \in Node
      PROVE  Live(q)' => Known(G, log[q], commit_index[q], current_term[q])'
  <2>1. CASE q = n
    BY <2>1
  <2>2. CASE q # n
    <3>1. /\ role'[q] = role[q] /\ log'[q] = log[q] /\ current_term'[q] = current_term[q]
          /\ commit_index'[q] = commit_index[q]
      BY <1>3, <2>2 DEF Move, Step, StepOf, OthersKept
    <3>2. PICK l, k, t : l = log[q] /\ k = commit_index[q] /\ t = current_term[q]
      OBVIOUS
    <3>3. l \in Seq(Entry) /\ k \in Nat /\ t \in Nat
      BY <3>2, Types DEF Move, Typed
    <3>4. Live(q)' => Known(G, l, k, t)'
      BY <1>2, <3>1, <3>2, <3>3 DEF KnownInv, Live
    <3> QED
      BY <3>1, <3>2, <3>4 DEF Known
  <2> QED
    BY <2>1, <2>2
<1>4. ASSUME NEW q \in Node
      PROVE  Known(G, disk[q].log, disk[q].commit, disk[q].term)'
  <2>1. PICK l, k, t : l = disk'[q].log /\ k = disk'[q].commit /\ t = disk'[q].term
    OBVIOUS
  <2>2. l \in Seq(Entry) /\ k \in Nat /\ t \in Nat
    BY <2>1, Types DEF Move, Typed
  <2>3. Known(H, l, k, t)
    <3>1. CASE disk'[q] = disk[q]
      BY <2>1, <3>1 DEF KnownInv
    <3>2. CASE /\ Live(q) /\ disk'[q].log = log[q] /\ disk'[q].term = current_term[q]
               /\ disk'[q].commit = commit_index[q]
      BY <2>1, <3>2 DEF KnownInv
    <3> QED
      BY <3>1, <3>2 DEF Move, Step, MediumKept
  <2>4. Known(G, l, k, t)'
    BY <1>2, <2>2, <2>3
  <2> QED
    BY <2>1, <2>4 DEF Known
<1>5. ASSUME NEW m \in msgs, m.type = "AppendEntries"
      PROVE  Known(G, G[m.term], m.leader_commit, m.term)'
  <2>1. m.term \in Nat /\ m.leader_commit \in Nat
    <3>1. m \in AppendEntriesMsg
      BY <1>5, MessageType DEF Move, Step, Sound
    <3> QED
      BY <3>1 DEF AppendEntriesMsg
  <2>2. H[m.term] \in Seq(Entry) /\ G[m.term] \in Seq(Entry)
    BY <1>1, <2>1, HistoryType
  <2>3. Known(G, H[m.term], m.leader_commit, m.term)'
    BY <1>2, <1>5, <2>1, <2>2 DEF KnownInv
  <2>4. ASSUME NEW s \in Nat, Agree(H[m.term], G[s], m.leader_commit)
        PROVE  Agree(G[m.term], G[s], m.leader_commit)
    <3>1. G[s] \in Seq(Entry)
      BY <1>1, <2>4, HistoryType
    <3>2. Agree(G[s], H[m.term], m.leader_commit)
      BY <2>4, AgreeSymmetric
    <3>3. Agree(G[s], G[m.term], m.leader_commit)
      BY <1>1, <2>1, <3>1, <3>2, AgreeGrows
    <3> QED
      BY <3>3, AgreeSymmetric
  <2> QED
    BY <2>3, <2>4 DEF Known
<1> QED
  BY <1>3, <1>4, <1>5 DEF KnownInv, Known

-----------------------------------------------------------------------------
(* The inductive invariant, and what its steps and conclusions share *)

CommitInv(H) ==
  /\ AckInv(H) /\ ElectedInv(H) /\ VoteInv(H) /\ CommittedInv(H) /\ KnownInv(H)
  /\ \A q \in Node : WaitInv(H, q) /\ PeerInv(q)

\* What a leader sends ends where it will count the peer as replicated.
Rpc(n, m, last) ==
  /\ AckMsg(m) /\ ~Ballot(m) /\ m.type = "AppendEntries" /\ m.from = n
  /\ m.term = current_term[n] /\ m.leader_commit = commit_index[n]
  /\ AckIndex(m) = last /\ last \in Nat /\ last <= Len(log[n])

LEMMA SentIndex ==
  ASSUME TypeOK, NEW n \in Node, NEW p \in Node, NEW progress \in PeerProgress,
         NEW m, m = AppendEntriesTo(n, p, progress, Len(log[n]))
  PROVE  Rpc(n, m, SentLast(progress, Len(log[n])))
<1> DEFINE last == Len(log[n])
           next == ClampedNext(progress, last)
           sent == SentLast(progress, last)
<1>1. log[n] \in Seq(Entry) /\ last \in Nat
  BY StateType
<1>2. next \in Nat /\ next >= 1 /\ next <= last + 1
  BY <1>1, SMT DEF ClampedNext, min, max, PeerProgress
<1>3. sent \in Nat /\ sent <= last /\ sent >= next - 1
  BY <1>1, <1>2, BoundAssumption, SMT DEF SentLast, min
<1>4. /\ m.type = "AppendEntries" /\ m.term = current_term[n] /\ m.from = n
      /\ m.prev_log_index = next - 1 /\ m.leader_commit = commit_index[n]
      /\ m.entries = SubSeq(log[n], next, sent)
  BY DEF AppendEntriesTo
<1> HIDE DEF last, next, sent
<1>5. Len(m.entries) = sent - next + 1
  <2>1. next \in Int /\ sent \in Int /\ \A i \in next..sent : log[n][i] \in Entry
    BY <1>1, <1>2, <1>3, SMT DEF last
  <2>2. Len(SubSeq(log[n], next, sent)) = IF next <= sent THEN sent - next + 1 ELSE 0
    BY <2>1, SMT
  <2>3. (IF next <= sent THEN sent - next + 1 ELSE 0) = sent - next + 1
    BY <1>2, <1>3, SMT
  <2> QED
    BY <1>4, <2>2, <2>3
<1>6. AckIndex(m) = sent
  BY <1>2, <1>3, <1>4, <1>5, SMT DEF AckIndex
<1>7. AckMsg(m) /\ ~Ballot(m)
  BY <1>4 DEF AckMsg, Ballot
<1> QED
  BY <1>3, <1>4, <1>6, <1>7 DEF Rpc, last, sent

LEMMA FunctionSeq ==
  ASSUME NEW S, NEW k \in Nat, NEW f \in [1..k -> S]
  PROVE  f \in Seq(S) /\ Len(f) = k
  BY SMT

\* What the leader adds to what is committed.
Certified(n, target) ==
  [i \in 1..max(0, target - Len(committed)) |->
     [entry |-> log[n][Len(committed) + i], term |-> current_term[n]]]

Certifies(n, target) == committed' = committed \o Certified(n, target)

\* The k entries new continue the first L up to the target.
Continues(n, target, L, k, new) ==
  /\ L \in Nat /\ k \in Nat /\ target <= L + k /\ (k > 0 => L + k = target)
  /\ new \in Seq([entry : Entry, term : Nat]) /\ Len(new) = k
  /\ \A i \in 1..k : new[i].entry = log[n][L + i] /\ new[i].term = current_term[n]

LEMMA CertifiedContinues ==
  ASSUME TypeOK, NEW n \in Node, NEW target \in Nat, target <= Len(log[n])
  PROVE  Continues(n, target, Len(committed), max(0, target - Len(committed)), Certified(n, target))
<1>0. PICK L, k, new : L = Len(committed) /\ k = max(0, target - L) /\ new = Certified(n, target)
  OBVIOUS
<1>1. L \in Nat /\ log[n] \in Seq(Entry) /\ Len(log[n]) \in Nat /\ current_term[n] \in Nat
  <2>1. committed \in Seq([entry : Entry, term : Nat])
    BY VariableTypes
  <2>2. L \in Nat
    BY <1>0, <2>1, SMT
  <2> QED
    BY <2>2, StateType
<1>2. k \in Nat /\ target <= L + k /\ (k > 0 => L + k = target)
  BY <1>0, <1>1, SMT DEF max
<1>3. new = [i \in 1..k |-> [entry |-> log[n][L + i], term |-> current_term[n]]]
  BY <1>0 DEF Certified
<1>4. ASSUME NEW i \in 1..k
      PROVE  /\ log[n][L + i] \in Entry
             /\ new[i] = [entry |-> log[n][L + i], term |-> current_term[n]]
  <2>1. L + i \in 1..Len(log[n])
    BY <1>1, <1>2, <1>4, SMT
  <2>2. log[n][L + i] \in Entry
    BY <1>1, <2>1, SeqElement
  <2> QED
    BY <1>3, <1>4, <2>2
<1>5. ASSUME NEW i \in 1..k
      PROVE  /\ new[i] \in [entry : Entry, term : Nat]
             /\ new[i].entry = log[n][L + i] /\ new[i].term = current_term[n]
  <2>1. PICK e \in Entry : e = log[n][L + i]
    BY <1>4, <1>5
  <2>2. PICK t \in Nat : t = current_term[n]
    BY <1>1
  <2>3. new[i] = [entry |-> e, term |-> t]
    BY <1>4, <1>5, <2>1, <2>2
  <2> QED
    BY <2>1, <2>2, <2>3, SMT
<1>6. new \in Seq([entry : Entry, term : Nat]) /\ Len(new) = k
  <2>1. DOMAIN new = 1..k /\ new = [i \in 1..k |-> new[i]]
    BY <1>3, <1>4
  <2>2. new \in [1..k -> [entry : Entry, term : Nat]]
    BY <1>5, <2>1
  <2> QED
    BY <1>2, <2>2, FunctionSeq
<1>7. Continues(n, target, L, k, new)
  BY <1>1, <1>2, <1>5, <1>6 DEF Continues
<1> QED
  BY <1>0, <1>7

LEMMA CommitGrows ==
  ASSUME TypeOK, NEW n \in Node, NEW target \in Nat, target <= Len(log[n]), Certifies(n, target)
  PROVE  /\ CommittedGrows /\ target <= Len(committed')
         /\ \A i \in 1..Len(committed') : i \in 1..Len(committed) \/
              /\ i \in Nat /\ i <= target
              /\ committed'[i].entry = log[n][i] /\ committed'[i].term = current_term[n]
<1> DEFINE R == [entry : Entry, term : Nat]
<1>1. PICK L, k, new : L = Len(committed) /\ k = max(0, target - L) /\ new = Certified(n, target)
  OBVIOUS
<1>2. /\ L \in Nat /\ k \in Nat /\ target <= L + k /\ (k > 0 => L + k = target)
      /\ new \in Seq(R) /\ Len(new) = k
      /\ \A i \in 1..k : new[i].entry = log[n][L + i] /\ new[i].term = current_term[n]
  <2>1. Continues(n, target, L, k, new)
    BY <1>1, CertifiedContinues
  <2> QED
    BY <2>1 DEF Continues
<1>3. committed \in Seq(R) /\ committed' = committed \o new
  BY <1>1, VariableTypes DEF Certifies
<1> HIDE DEF R
<1>4. /\ Len(committed') = L + k
      /\ \A i \in 1..(L + k) : committed'[i] = IF i <= L THEN committed[i] ELSE new[i - L]
  <2>1. new \in Seq(R) /\ Len(committed) = L /\ Len(new) = k
    BY <1>1, <1>2
  <2>2. /\ Len(committed \o new) = Len(committed) + Len(new)
        /\ \A i \in 1..(Len(committed) + Len(new)) :
             (committed \o new)[i] = IF i <= Len(committed) THEN committed[i] ELSE new[i - Len(committed)]
    BY <1>3, <2>1, SMT
  <2> QED
    BY <1>3, <2>1, <2>2
<1>5. ASSUME NEW i \in 1..L
      PROVE  committed'[i] = committed[i]
  <2>1. i \in 1..(L + k) /\ i <= L
    BY <1>2, <1>5, SMT
  <2> QED
    BY <1>4, <2>1
<1>6. L <= L + k /\ L + k \in Nat
  BY <1>2, SMT
<1>7. CommittedGrows /\ target <= Len(committed')
  BY <1>1, <1>2, <1>4, <1>5, <1>6 DEF CommittedGrows
<1>8. ASSUME NEW i \in 1..Len(committed'), i \notin 1..L
      PROVE  /\ i \in Nat /\ i <= target
             /\ committed'[i].entry = log[n][i] /\ committed'[i].term = current_term[n]
  <2>1. i \in 1..(L + k)
    BY <1>4, <1>8
  <2>2. i \in Nat /\ ~(i <= L) /\ i <= target /\ i - L \in 1..k /\ L + (i - L) = i
    BY <1>2, <1>8, <2>1, SMT
  <2>3. committed'[i] = new[i - L]
    BY <1>4, <2>1, <2>2
  <2> QED
    BY <1>2, <2>2, <2>3
<1> QED
  BY <1>1, <1>7, <1>8

\* What is replaced starts where the log and the leader's part.
LEMMA Parts ==
  ASSUME TypeOK, NEW H \in History, NEW n \in Node, NEW m \in AppendEntriesMsg, Segment(H, m),
         NEW k \in 0..Len(m.entries), incoming(n, m, k), k # Len(m.entries),
         NEW c \in Nat, Agree(log[n], H[m.term], c)
  PROVE  c <= m.prev_log_index + k
<1> DEFINE prev == m.prev_log_index
           es == m.entries
<1>1. prev \in Nat /\ Len(es) \in Nat /\ k \in Nat /\ k <= Len(es)
  BY SMT DEF AppendEntriesMsg
<1> SUFFICES ASSUME c > prev + k
             PROVE  FALSE
  BY <1>1, SMT
<1>2. k < Len(es) /\ k + 1 \in 1..Len(es) /\ prev + (k + 1) \in 1..c /\ prev + (k + 1) <= c
  BY <1>1, SMT
<1>3. c <= Len(log[n]) /\ \A i \in 1..c : log[n][i] = H[m.term][i]
  BY DEF Agree
<1>4. /\ log[n][prev + (k + 1)] = H[m.term][prev + (k + 1)]
      /\ es[k + 1] = H[m.term][prev + (k + 1)]
  BY <1>2, <1>3 DEF Segment
<1>5. prev + (k + 1) <= Len(log[n])
  BY <1>1, <1>2, <1>3, StateType, SMT
<1> QED
  BY <1>2, <1>4, <1>5 DEF incoming

\* What is not dead of an earlier term's entries, the leader of term u has.
LEMMA LeaderHolds ==
  ASSUME NEW H \in History, ElectedInv(H), NEW u \in Nat, NEW q, <<u, q>> \in elected,
         NEW s \in Nat, s <= u, NEW c \in Nat, Own(H, s, c), ~Dead(s, c)
  PROVE  Agree(H[u], H[s], c)
<1>1. H[s] \in Seq(Entry) /\ Len(H[s]) \in Nat /\ c \in Nat \ {0} /\ c <= Len(H[s])
  BY HistoryType, SMT DEF Own
<1>2. CASE s = u
  BY <1>1, <1>2 DEF Agree
<1>3. CASE s < u
  <2>1. ElectedLog(H, <<u, q>>) /\ <<u, q>>[1] = u
    BY DEF ElectedInv
  <2> QED
    BY <1>1, <1>3, <2>1 DEF ElectedLog
<1> QED
  BY <1>2, <1>3, SMT

LEMMA LeaderAgrees ==
  ASSUME NEW H \in History, ElectedInv(H), NEW u \in Nat, NEW q, <<u, q>> \in elected,
         NEW s \in Nat, s <= u, NEW c \in Nat, Own(H, s, c), ~Dead(s, c),
         NEW l \in Seq(Entry), NEW d \in Nat, d <= c, Agree(l, H[s], d)
  PROVE  Agree(l, H[u], d) /\ Agree(H[s], H[u], d)
<1>1. Agree(H[u], H[s], c)
  BY LeaderHolds
<1>2. H[s] \in Seq(Entry) /\ H[u] \in Seq(Entry)
  BY HistoryType
<1>3. Agree(H[u], H[s], d)
  BY <1>1, <1>2, AgreeDown
<1> QED
  BY <1>2, <1>3, AgreeSymmetric, AgreeJoin
=============================================================================
