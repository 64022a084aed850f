--------------------------- MODULE ReferenceModel ---------------------------
(***************************************************************************)
(* The executable reference model of DetLog (src/src/reference_model.cpp): *)
(* a serial replicated log whose steps carry their quorum as a witness.    *)
(* Its interpretation of commands is written independently of              *)
(* KvStateMachine.  An action that the code rejects is not enabled.        *)
(***************************************************************************)
EXTENDS Naturals, FiniteSets, SequencesExt

CONSTANTS
  Node, Nil,
  Session, Key, Value, Empty, Absent, MaxSequence,
  Request,   \* the client commands that are proposed
  MaxTerm,   \* bound: terms of elections
  MaxLog     \* bound: length of a log

VARIABLES
  alive, active_leader, current_term, voted_for, commit_index, last_applied,
  ready_term, log, values, sessions,
  outcomes,  \* outcomes[n][i]: outcome of the command at i, Nil for a no-op
  leaders,   \* term -> elected node, or Nil
  answered   \* ghost: the commands answered from a session, and the answers

role_vars == <<alive, active_leader, leaders>>
hard_vars == <<current_term, voted_for>>
machine == <<last_applied, values, sessions, outcomes>>
vars == <<role_vars, hard_vars, machine, log, commit_index, ready_term, answered>>

Kv == INSTANCE KvStateMachine

Entry == [term : 1..MaxTerm, command : Request \cup {Nil}]
Init ==
  /\ alive = [n \in Node |-> TRUE] /\ active_leader = [n \in Node |-> FALSE]
  /\ current_term = [n \in Node |-> 0] /\ voted_for = [n \in Node |-> Nil]
  /\ commit_index = [n \in Node |-> 0] /\ last_applied = [n \in Node |-> 0]
  /\ ready_term = [n \in Node |-> 0] /\ log = [n \in Node |-> << >>]
  /\ values = [n \in Node |-> [k \in Key |-> Absent]]
  /\ sessions = [n \in Node |-> [s \in Session |-> Absent]]
  /\ outcomes = [n \in Node |-> << >>]
  /\ leaders = [t \in 1..MaxTerm |-> Nil]
  /\ answered = {}

-----------------------------------------------------------------------------
(* The interpreter *)

structurally_valid(c) ==
  /\ c.sequence # 0 /\ c.key # Empty
  /\ c.kind # "put" => c.value = Empty

\* Mutant: the value is not compared.
same_request_IgnoresValue(a, b) ==
  a.session = b.session /\ a.sequence = b.sequence /\ a.kind = b.kind /\ a.key = b.key

same_request(a, b) == a = b

\* The checks that interpret and propose share: what they answer without
\* executing or appending, "fresh" when neither applies.
session_answer(known, c) ==
  LET session == known[c.session] IN
  CASE ~structurally_valid(c) -> "invalid_request"
    [] structurally_valid(c) /\ session = Absent ->
         IF c.sequence = 1 THEN "fresh" ELSE "sequence_gap"
    [] OTHER ->
         CASE c.sequence < session.command.sequence -> "stale_sequence"
           [] c.sequence = session.command.sequence ->
                IF same_request(c, session.command)
                THEN "duplicate" ELSE "request_id_conflict"
           [] c.sequence > session.command.sequence ->
                IF /\ session.command.sequence # MaxSequence
                   /\ c.sequence = session.command.sequence + 1
                THEN "fresh" ELSE "sequence_gap"

\* Mutant: the session forgets the answer.
interpret_NoResult(r, c) ==
  LET fresh == session_answer(r.sessions, c) = "fresh"
      value == IF ~fresh /\ r.sessions[c.session] # Absent
               THEN r.sessions[c.session].result ELSE c.value
  IN [values |-> r.values,
      sessions |-> IF fresh THEN [r.sessions EXCEPT ![c.session] =
                                    [command |-> c, status |-> "ok", result |-> Empty]]
                            ELSE r.sessions,
      outcomes |-> Append(r.outcomes, [status |-> "ok", value |-> value,
                                       executed |-> fresh, duplicate |-> ~fresh])]

\* A replica's machine is [values, sessions, outcomes].
interpret(r, c) ==
  LET verdict == session_answer(r.sessions, c)
      old == r.values[c.key]
      value == CASE c.kind = "put" -> c.value
                 [] c.kind # "put" -> IF old = Absent THEN Empty ELSE old
      record(status, v, executed, duplicate) ==
        Append(r.outcomes, [status |-> status, value |-> v, executed |-> executed,
                            duplicate |-> duplicate])
  IN CASE verdict = "fresh" ->
            [values |-> CASE c.kind = "put" -> [r.values EXCEPT ![c.key] = c.value]
                          [] c.kind = "erase" -> [r.values EXCEPT ![c.key] = Absent]
                          [] c.kind = "get" -> r.values,
             sessions |-> [r.sessions EXCEPT ![c.session] =
                             [command |-> c, status |-> "ok", result |-> value]],
             outcomes |-> record("ok", value, TRUE, FALSE)]
       [] verdict = "duplicate" ->
            LET session == r.sessions[c.session] IN
            [r EXCEPT !.outcomes = record(session.status, session.result, FALSE, TRUE)]
       [] OTHER -> [r EXCEPT !.outcomes = record(verdict, Empty, FALSE, FALSE)]

\* apply_through: the entries after last_applied, one at a time.
apply_through(n, entries, through) ==
  LET step(r, e) == IF e.command = Nil THEN [r EXCEPT !.outcomes = Append(@, Nil)]
                                       ELSE interpret(r, e.command)
      r == FoldLeft(step, [values |-> values[n], sessions |-> sessions[n],
                           outcomes |-> outcomes[n]],
                    SubSeq(entries, last_applied[n] + 1, through))
  IN /\ last_applied' = [last_applied EXCEPT ![n] = through]
     /\ values' = [values EXCEPT ![n] = r.values]
     /\ sessions' = [sessions EXCEPT ![n] = r.sessions]
     /\ outcomes' = [outcomes EXCEPT ![n] = r.outcomes]

-----------------------------------------------------------------------------
(* Helpers *)

last_term(n) == IF log[n] = << >> THEN 0 ELSE Last(log[n]).term

candidate_is_up_to_date(candidate, voter) ==
  IF last_term(candidate) # last_term(voter)
  THEN last_term(candidate) > last_term(voter)
  ELSE Len(log[candidate]) >= Len(log[voter])

equal_prefix(a, b, through) ==
  /\ through <= Len(log[a]) /\ through <= Len(log[b])
  /\ SubSeq(log[a], 1, through) = SubSeq(log[b], 1, through)

quorum(nodes) == Cardinality(nodes) >= Cardinality(Node) \div 2 + 1

leader(n) == active_leader[n] /\ current_term[n] # 0 /\ leaders[current_term[n]] = n

\* A follower that sees the higher term of a leader.
observe_term(follower, term) ==
  IF current_term[follower] < term
  THEN /\ active_leader' = [active_leader EXCEPT ![follower] = FALSE]
       /\ current_term' = [current_term EXCEPT ![follower] = term]
       /\ voted_for' = [voted_for EXCEPT ![follower] = Nil]
  ELSE UNCHANGED <<active_leader, hard_vars>>

-----------------------------------------------------------------------------
(* The actions of a history *)

elect(candidate, term, voters) ==
  /\ alive[candidate] /\ term > current_term[candidate]
  /\ \A v \in voters :
       /\ alive[v] /\ current_term[v] <= term
       /\ current_term[v] = term => voted_for[v] \in {Nil, candidate}
       /\ candidate_is_up_to_date(candidate, v)
  /\ candidate \in voters /\ quorum(voters)
  /\ leaders[term] \in {Nil, candidate}
  /\ active_leader' = [n \in Node |->
       n = candidate \/ (active_leader[n] /\ ~(n \in voters /\ current_term[n] < term))]
  /\ current_term' = [n \in Node |-> IF n \in voters THEN term ELSE current_term[n]]
  /\ voted_for' = [n \in Node |-> IF n \in voters THEN candidate ELSE voted_for[n]]
  /\ leaders' = [leaders EXCEPT ![term] = candidate]
  /\ UNCHANGED <<alive, machine, log, commit_index, ready_term, answered>>

append_noop(n) ==
  /\ alive[n] /\ leader(n)
  /\ Len(log[n]) < MaxLog
  /\ log' = [log EXCEPT ![n] = Append(@, [term |-> current_term[n], command |-> Nil])]
  /\ UNCHANGED <<role_vars, hard_vars, machine, commit_index, ready_term, answered>>

propose(n, c) ==
  /\ alive[n] /\ leader(n) /\ ready_term[n] = current_term[n]
  /\ LET verdict == session_answer(sessions[n], c) IN
     \/ /\ verdict = "fresh"
        /\ Len(log[n]) < MaxLog
        /\ log' = [log EXCEPT ![n] = Append(@, [term |-> current_term[n], command |-> c])]
        /\ UNCHANGED answered
     \/ /\ verdict = "duplicate"
        /\ answered' = answered \cup {<<c, sessions[n][c.session].result>>}
        /\ UNCHANGED log
  /\ UNCHANGED <<role_vars, hard_vars, machine, commit_index, ready_term>>

\* The first index up to which the follower's log differs from the leader's, 0
\* if it holds the whole prefix.
divergence(source, follower, through) ==
  LET differs == {i \in 1..through : \/ i > Len(log[follower])
                                     \/ log[follower][i] # log[source][i]}
  IN IF differs = {} THEN 0 ELSE CHOOSE i \in differs : \A j \in differs : i <= j

replicate(source, follower, through) ==
  /\ source # follower
  /\ alive[source] /\ alive[follower] /\ leader(source)
  /\ current_term[follower] <= current_term[source]
  /\ through <= Len(log[source])
  /\ LET at == divergence(source, follower, through) IN
     /\ at # 0 => at > commit_index[follower]
     /\ log' = IF at = 0 THEN log
               ELSE [log EXCEPT ![follower] =
                       SubSeq(@, 1, at - 1) \o SubSeq(log[source], at, through)]
  /\ observe_term(follower, current_term[source])
  /\ UNCHANGED <<alive, leaders, machine, commit_index, ready_term, answered>>

commit(source, through, acknowledgers) ==
  /\ alive[source] /\ leader(source)
  /\ through \in commit_index[source]..Len(log[source])
  /\ \A a \in acknowledgers : alive[a] /\ equal_prefix(source, a, through)
  /\ quorum(acknowledgers) /\ source \in acknowledgers
  /\ through > commit_index[source] => log[source][through].term = current_term[source]
  /\ commit_index' = [commit_index EXCEPT ![source] = through]
  /\ apply_through(source, log[source], through)
  /\ ready_term' =
       IF through # 0 /\ log[source][through].term = current_term[source]
       THEN [ready_term EXCEPT ![source] = current_term[source]] ELSE ready_term
  /\ UNCHANGED <<role_vars, hard_vars, log, answered>>

learn(source, follower, through) ==
  /\ alive[source] /\ alive[follower] /\ leader(source)
  /\ current_term[follower] <= current_term[source]
  /\ through \in commit_index[follower]..commit_index[source]
  /\ equal_prefix(source, follower, through)
  /\ commit_index' = [commit_index EXCEPT ![follower] = through]
  /\ apply_through(follower, log[follower], through)
  /\ observe_term(follower, current_term[source])
  /\ UNCHANGED <<alive, leaders, log, ready_term, answered>>

crash(n) ==
  /\ alive[n]
  /\ alive' = [alive EXCEPT ![n] = FALSE]
  /\ active_leader' = [active_leader EXCEPT ![n] = FALSE]
  /\ UNCHANGED <<leaders, hard_vars, machine, log, commit_index, ready_term, answered>>

restart(n) ==
  /\ ~alive[n]
  /\ alive' = [alive EXCEPT ![n] = TRUE]
  /\ active_leader' = [active_leader EXCEPT ![n] = FALSE]
  /\ UNCHANGED <<leaders, hard_vars, machine, log, commit_index, ready_term, answered>>

Next ==
  \/ \E n \in Node, t \in 1..MaxTerm, voters \in SUBSET Node : elect(n, t, voters)
  \/ \E n \in Node : append_noop(n)
  \/ \E n \in Node, c \in Request : propose(n, c)
  \/ \E n, f \in Node, i \in 0..MaxLog : replicate(n, f, i)
  \/ \E n \in Node, i \in 0..MaxLog, acks \in SUBSET Node : commit(n, i, acks)
  \/ \E n, f \in Node, i \in 0..MaxLog : learn(n, f, i)
  \/ \E n \in Node : crash(n) \/ restart(n)

Spec == Init /\ [][Next]_vars

-----------------------------------------------------------------------------
(* Properties *)

\* I4: a leader elected after an entry has been committed contains that entry, whatever
\* quorum witnesses the history gives to elect and commit.
LeadersContainCommitted ==
  [][\A t \in 1..MaxTerm : leaders'[t] # leaders[t] =>
       \A n \in Node : \A i \in 1..commit_index[n] : log[n][i].term < t =>
         i <= Len(log[leaders'[t]]) /\ log[leaders'[t]][i] = log[n][i]]_vars

\* I9: a request changes the machine at most once, however many copies of it
\* retries at several leaders put into the log, and a session executes its
\* sequence numbers 1, 2, ... without a gap.  A retry is answered as the execution
\* was: by a leader from its session, and by every replica that applies a copy.
AtMostOnce ==
  \A n \in Node :
    LET ran == {i \in 1..last_applied[n] :
                  outcomes[n][i] # Nil /\ outcomes[n][i].executed}
    IN /\ \A i, j \in ran :
            LET a == log[n][i].command  b == log[n][j].command
            IN a.session = b.session /\ i < j => a.sequence < b.sequence
       /\ \A i \in ran :
            LET c == log[n][i].command
                answer == outcomes[n][i].value
            IN /\ \A q \in 1..(c.sequence - 1) : \E j \in ran :
                    j < i /\ log[n][j].command.session = c.session
                          /\ log[n][j].command.sequence = q
               /\ \A m \in Node : \A j \in 1..last_applied[m] :
                    log[m][j].command = c /\ outcomes[m][j].status = "ok" =>
                      outcomes[m][j].value = answer
               /\ \A a \in answered : a[1] = c => a[2] = answer

\* The interpreter of the reference model computes what KvStateMachine::apply
\* computes, on every log that is applied.
InterpreterAgrees ==
  \A n \in Node :
    LET step(r, e) ==
          IF e.command = Nil THEN [r EXCEPT !.results = Append(@, Nil)]
          ELSE LET a == Kv!apply(r.machine, e.command)
               IN [machine |-> a.machine, results |-> Append(r.results, a.result)]
        r == FoldLeft(step, [machine |-> Kv!NewMachine, results |-> << >>],
                      SubSeq(log[n], 1, last_applied[n]))
    IN /\ r.machine.values = values[n]
       /\ r.results = outcomes[n]
=============================================================================
