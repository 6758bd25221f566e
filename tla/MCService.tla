------------------------------ MODULE MCService ------------------------------
(* Instances of Service for TLC. The sizes are the boundaries of the two     *)
(* length checks with MinBits = MaxBits = 16: empty, one byte too short,     *)
(* accepted, one byte too long.                                              *)
EXTENDS Service

CONSTANTS call1, call2

MCCalls == {call1, call2}
MCSizes == {0, 1, 2, 3}

\* Everything service.go distinguishes: a stubbed "not implemented" result, a
\* test that could not run, a p-value equal to Alpha and one of 1.0.
AnyOutcome == {[p |-> -1, ran |-> FALSE], [p |-> 0, ran |-> FALSE],
               [p |-> 1, ran |-> TRUE], [p |-> 100, ran |-> TRUE]}

\* What the functions of package nist return.
SuiteOutcome == {[p |-> 0, ran |-> FALSE], [p |-> 0, ran |-> TRUE],
                 [p |-> 50, ran |-> TRUE]}
=============================================================================
