------------------------ MODULE ReplicatedLogProofs ------------------------
(* What every implementation of ReplicatedLog inherits. *)
EXTENDS ReplicatedLog, SequenceTheorems, TLAPS

\* Members know prefixes of what is chosen.
Inv ==
  /\ chosen \in Seq(Entry)
  /\ learned \in [Node -> Seq(Entry)]
  /\ \A n \in Node : Extends(chosen, learned[n])

LEMMA PrefixOf ==
  ASSUME NEW s \in Seq(Entry), NEW k \in 0..Len(s)
  PROVE  /\ SubSeq(s, 1, k) \in Seq(Entry)
         /\ Len(SubSeq(s, 1, k)) = k
         /\ Extends(s, SubSeq(s, 1, k))
  <1>1. SubSeq(s, 1, k) \in Seq(Entry) /\ Len(SubSeq(s, 1, k)) = k
    OBVIOUS
  <1> QED BY <1>1 DEF Extends

\* Two prefixes of one sequence: the shorter one is a prefix of the longer one.
LEMMA Comparable ==
  ASSUME NEW s \in Seq(Entry), NEW t \in Seq(Entry), NEW u \in Seq(Entry),
         Extends(s, t), Extends(s, u), Len(t) <= Len(u)
  PROVE  Extends(u, t)
  <1>1. Len(t) \in Nat /\ Len(u) \in Nat /\ Len(s) \in Nat
    OBVIOUS
  <1>2. t = SubSeq(s, 1, Len(t)) /\ u = SubSeq(s, 1, Len(u))
    BY DEF Extends
  <1>3. \A i \in 1..Len(t) : t[i] = s[i]
    BY <1>1, <1>2 DEF Extends
  <1>4. \A i \in 1..Len(u) : u[i] = s[i]
    BY <1>1, <1>2 DEF Extends
  <1>5. \A i \in 1..Len(t) : SubSeq(u, 1, Len(t))[i] = t[i]
    BY <1>1, <1>3, <1>4
  <1>6. SubSeq(u, 1, Len(t)) \in Seq(Entry) /\ Len(SubSeq(u, 1, Len(t))) = Len(t)
    BY <1>1
  <1>7. SubSeq(u, 1, Len(t)) = t
    BY <1>5, <1>6, SeqEqual
  <1> QED BY <1>7 DEF Extends

LEMMA ExtendsTransitive ==
  ASSUME NEW s \in Seq(Entry), NEW t \in Seq(Entry), NEW u \in Seq(Entry),
         Extends(s, t), Extends(t, u)
  PROVE  Extends(s, u)
  <1>1. Len(t) \in Nat /\ Len(u) \in Nat /\ Len(s) \in Nat /\ Len(u) <= Len(t)
        /\ Len(t) <= Len(s)
    BY DEF Extends
  <1>2. \A i \in 1..Len(u) : u[i] = t[i]
    BY <1>1 DEF Extends
  <1>3. \A i \in 1..Len(t) : t[i] = s[i]
    BY <1>1 DEF Extends
  <1>4. \A i \in 1..Len(u) : SubSeq(s, 1, Len(u))[i] = u[i]
    BY <1>1, <1>2, <1>3
  <1>5. SubSeq(s, 1, Len(u)) \in Seq(Entry) /\ Len(SubSeq(s, 1, Len(u))) = Len(u)
    BY <1>1
  <1>6. SubSeq(s, 1, Len(u)) = u
    BY <1>4, <1>5, SeqEqual
  <1> QED BY <1>1, <1>6 DEF Extends

LEMMA Inductive == Spec => []Inv
  <1>1. Init => Inv
    BY DEF Init, Inv, Extends
  <1>2. Inv /\ [Next]_vars => Inv'
    <2> SUFFICES ASSUME Inv, [Next]_vars PROVE Inv'
      OBVIOUS
    <2>1. CASE UNCHANGED vars
      BY <2>1 DEF vars, Inv, Extends
    <2>2. CASE Choose
      <3>1. chosen' \in Seq(Entry) /\ Extends(chosen', chosen)
        BY <2>2 DEF Choose
      <3>2. \A n \in Node : Extends(chosen', learned[n])
        BY <3>1, ExtendsTransitive DEF Inv
      <3>3. CASE learned' = learned
        BY <3>1, <3>2, <3>3 DEF Inv
      <3>4. CASE \E n \in Node : \E k \in Len(learned[n])..Len(chosen') :
                   learned' = [learned EXCEPT ![n] = SubSeq(chosen', 1, k)]
        <4>1. PICK n \in Node : \E k \in Len(learned[n])..Len(chosen') :
                   learned' = [learned EXCEPT ![n] = SubSeq(chosen', 1, k)]
          BY <3>4
        <4>2. PICK k \in Len(learned[n])..Len(chosen') :
                   learned' = [learned EXCEPT ![n] = SubSeq(chosen', 1, k)]
          BY <4>1
        <4>3. k \in 0..Len(chosen')
          BY <3>1, <4>2 DEF Inv
        <4>4. SubSeq(chosen', 1, k) \in Seq(Entry) /\ Extends(chosen', SubSeq(chosen', 1, k))
          BY <3>1, <4>3, PrefixOf
        <4> QED BY <3>1, <3>2, <4>2, <4>4 DEF Inv
      <3> QED BY <2>2, <3>3, <3>4 DEF Choose
    <2> QED BY <2>1, <2>2 DEF Next
  <1> QED BY <1>1, <1>2, PTL DEF Spec

\* State machine safety of the abstract log: no two members ever know different entries
\* at one index, whatever is chosen and learned in whatever order.  RaftNode and the
\* reference model, which implement the log, inherit it.
THEOREM Agreed == Spec => []Agreement
  <1>1. Inv => Agreement
    <2> SUFFICES ASSUME Inv, NEW m \in Node, NEW n \in Node
                 PROVE Extends(learned[m], learned[n]) \/ Extends(learned[n], learned[m])
      BY DEF Agreement
    <2>1. learned[m] \in Seq(Entry) /\ learned[n] \in Seq(Entry) /\ chosen \in Seq(Entry)
          /\ Extends(chosen, learned[m]) /\ Extends(chosen, learned[n])
      BY DEF Inv
    <2>2. Len(learned[m]) <= Len(learned[n]) \/ Len(learned[n]) <= Len(learned[m])
      BY <2>1
    <2> QED BY <2>1, <2>2, Comparable
  <1> QED BY <1>1, Inductive, PTL

\* A member never forgets or replaces an entry it has learned to be chosen.
LearnedGrows == [][\A n \in Node : Extends(learned'[n], learned[n])]_vars

\* What a client was told rests on entries that stay: knowledge of chosen entries only
\* grows, the abstract form of a commit index and a committed prefix that never regress.
THEOREM KnowledgeGrows == Spec => LearnedGrows
  <1>1. Inv /\ Inv' /\ [Next]_vars => [\A n \in Node : Extends(learned'[n], learned[n])]_vars
    <2> SUFFICES ASSUME Inv, Inv', Next, NEW n \in Node
                 PROVE Extends(learned'[n], learned[n])
      OBVIOUS
    <2>1. chosen' \in Seq(Entry) /\ Extends(chosen', chosen) /\ chosen \in Seq(Entry)
          /\ learned[n] \in Seq(Entry) /\ learned'[n] \in Seq(Entry)
          /\ Extends(chosen, learned[n]) /\ Extends(chosen', learned'[n])
      BY DEF Next, Choose, Inv
    <2>2. Extends(chosen', learned[n])
      BY <2>1, ExtendsTransitive
    <2>3. Len(learned[n]) <= Len(learned'[n])
      <3>1. CASE learned' = learned
        BY <2>1, <3>1
      <3>2. CASE \E p \in Node : \E k \in Len(learned[p])..Len(chosen') :
                   learned' = [learned EXCEPT ![p] = SubSeq(chosen', 1, k)]
        <4>1. PICK p \in Node : \E k \in Len(learned[p])..Len(chosen') :
                   learned' = [learned EXCEPT ![p] = SubSeq(chosen', 1, k)]
          BY <3>2
        <4>2. PICK k \in Len(learned[p])..Len(chosen') :
                   learned' = [learned EXCEPT ![p] = SubSeq(chosen', 1, k)]
          BY <4>1
        <4>3. k \in 0..Len(chosen')
          BY <2>1, <4>2 DEF Inv
        <4>4. Len(SubSeq(chosen', 1, k)) = k
          BY <2>1, <4>3, PrefixOf
        <4>5. CASE p = n
          BY <2>1, <4>2, <4>4, <4>5 DEF Inv
        <4>6. CASE p # n
          BY <2>1, <4>2, <4>6 DEF Inv
        <4> QED BY <4>5, <4>6
      <3> QED BY <3>1, <3>2 DEF Next, Choose
    <2> QED BY <2>1, <2>2, <2>3, Comparable
  <1> QED BY <1>1, Inductive, PTL DEF Spec, LearnedGrows
=============================================================================
