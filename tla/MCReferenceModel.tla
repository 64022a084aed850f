-------------------------- MODULE MCReferenceModel --------------------------
EXTENDS ReferenceModel, TLC

CONSTANTS s1, k1, v1, v2

cmd(sequence, kind, value) ==
  [session |-> s1, sequence |-> sequence, kind |-> kind, key |-> k1, value |-> value]

\* A write, the next request of the session, and a write that reuses the first
\* sequence number.
MCRequest == {cmd(1, "put", v1), cmd(2, "erase", Empty), cmd(1, "put", v2)}

Symmetry == Permutations(Node)

Commands(n) == SelectSeq(log[n], LAMBDA e : e.command # Nil)

\* bound: two leaders one after the other, each of which starts with a no-op, two
\* client commands in a log, a third replica that only votes, and one member down
ClientsOfTwoLeaders ==
  /\ Cardinality({n \in Node : ~alive[n]}) <= 1
  /\ leaders[2] # Nil => leaders[1] # Nil
  /\ \E n \in Node : log[n] = << >>
  /\ \A n \in Node :
       /\ Len(Commands(n)) <= 2
       /\ log[n] # << >> => log[n][1].command = Nil
       /\ \A i \in 2..Len(log[n]) :
            log[n][i].command = Nil <=> log[n][i - 1].term # log[n][i].term

\* bound: terms that are won in order, logs with one no-op, no crash
NoOpsOnly ==
  /\ \A n \in Node : alive[n] /\ Len(log[n]) <= 1
  /\ \A t \in 2..MaxTerm : leaders[t] # Nil => leaders[t - 1] # Nil
=============================================================================
