--------------------------- MODULE KvStateMachine ---------------------------
(***************************************************************************)
(* The key-value state machine of DetLog (src/src/state_machine.cpp) as    *)
(* operators on a record of its two maps.  The answer of the last request  *)
(* of a session is kept, so that a retry is answered and not executed.     *)
(*                                                                         *)
(* The digest of a command is a hash of its kind, key and value; it is     *)
(* modelled without collisions.                                            *)
(***************************************************************************)
EXTENDS Naturals

CONSTANTS
  Session,     \* client sessions
  Key,         \* keys, the empty string excepted
  Value,       \* values, the empty string excepted
  Empty,       \* the empty string
  Absent,      \* no record of a session, no value of a key
  MaxSequence  \* the largest sequence number (2^64 - 1 in the code)

ClientCommand ==
  [session : Session, sequence : 0..MaxSequence, kind : {"put", "erase", "get"},
   key : Key \cup {Empty}, value : Value \cup {Empty}]

\* The machine before any command.
NewMachine == [values |-> [k \in Key |-> Absent],
               sessions |-> [s \in Session |-> Absent]]

command_digest(c) == <<c.kind, c.key, c.value>>

structurally_valid(c) ==
  /\ c.sequence # 0
  /\ c.key # Empty
  /\ c.kind \in {"erase", "get"} => c.value = Empty

\* What the session record says of a valid command: "fresh" if it is the next
\* one of its session, "duplicate" if it is the one recorded.
session_verdict(record, c) ==
  CASE record = Absent /\ c.sequence = 1 -> "fresh"
    [] record = Absent /\ c.sequence # 1 -> "sequence_gap"
    [] OTHER ->
         CASE c.sequence < record.sequence -> "stale_sequence"
           [] c.sequence = record.sequence ->
                IF record.digest = command_digest(c)
                THEN "duplicate" ELSE "request_id_conflict"
           [] OTHER ->
                IF record.sequence # MaxSequence /\ c.sequence = record.sequence + 1
                THEN "fresh" ELSE "sequence_gap"

\* A value of the map as the string that is answered.
found(v) == IF v = Absent THEN Empty ELSE v

effect_on_values(values, c) ==
  CASE c.kind = "put"   -> [values EXCEPT ![c.key] = c.value]
    [] c.kind = "erase" -> [values EXCEPT ![c.key] = Absent]
    [] c.kind = "get"   -> values

answer(values, c) == IF c.kind = "put" THEN c.value ELSE found(values[c.key])

ApplyResult(status, value, executed, duplicate) ==
  [status |-> status, value |-> value, executed |-> executed,
   duplicate |-> duplicate]

\* KvStateMachine::apply: the machine after the command, and the result.
apply(m, c) ==
  LET record == m.sessions[c.session]
      verdict == IF structurally_valid(c) THEN session_verdict(record, c)
                                          ELSE "invalid_request"
  IN CASE verdict = "fresh" ->
            LET value == answer(m.values, c) IN
            [machine |-> [values |-> effect_on_values(m.values, c),
                          sessions |-> [m.sessions EXCEPT ![c.session] =
                             [sequence |-> c.sequence, digest |-> command_digest(c),
                              status |-> "ok", result |-> value]]],
             result |-> ApplyResult("ok", value, TRUE, FALSE)]
       [] verdict = "duplicate" ->
            [machine |-> m,
             result |-> ApplyResult(record.status, record.result, FALSE, TRUE)]
       [] OTHER ->
            [machine |-> m, result |-> ApplyResult(verdict, Empty, FALSE, FALSE)]
=============================================================================
