----------------------------- MODULE SuiteLedger -----------------------------
(***************************************************************************)
(* What a client and a dashboard are promised together: a call is refused, *)
(* or admitted and then answered once, and the answer and the counters of  *)
(* the individual tests change in one indivisible step. Nothing is counted *)
(* for a call that was not answered. Service, where every counter is a     *)
(* separate write and the calls interleave, implements this specification. *)
(***************************************************************************)
EXTENDS Integers, FiniteSets

CONSTANTS Calls,      \* the calls clients make
          Tests,      \* the positions of the tests in the suite
          Verdicts    \* "pass", "fail" and "skip"

VARIABLES state,      \* where each call is
          admitted,   \* requests accepted by the running process
          refused,    \* requests refused by it
          tally       \* per test and verdict, over its answered calls

ledgerVars == <<state, admitted, refused, tally>>

Counted == Verdicts \ {"skip"}
NothingCounted == [t \in Tests |-> [v \in Counted |-> 0]]

Init == /\ state = [c \in Calls |-> "new"]
        /\ admitted = 0 /\ refused = 0
        /\ tally = NothingCounted

Admit(c) == /\ state[c] = "new"
            /\ state' = [state EXCEPT ![c] = "admitted"]
            /\ admitted' = admitted + 1
            /\ UNCHANGED <<refused, tally>>

Refuse(c) == /\ state[c] = "new"
             /\ state' = [state EXCEPT ![c] = "refused"]
             /\ refused' = refused + 1
             /\ UNCHANGED <<admitted, tally>>

Fail(c) == /\ state[c] = "admitted"
           /\ state' = [state EXCEPT ![c] = "failed"]
           /\ UNCHANGED <<admitted, refused, tally>>

Answer(c) == /\ state[c] = "admitted"
             /\ \E outcome \in [Tests -> Verdicts] :
                   tally' = [t \in Tests |-> [v \in Counted |->
                       tally[t][v] + (IF outcome[t] = v THEN 1 ELSE 0)]]
             /\ state' = [state EXCEPT ![c] = "answered"]
             /\ UNCHANGED <<admitted, refused>>

\* The process dies: admitted calls are lost and the counters start again.
Crash == /\ \E c \in Calls : state[c] = "admitted"
         /\ state' = [c \in Calls |->
                IF state[c] = "admitted" THEN "lost" ELSE state[c]]
         /\ admitted' = 0 /\ refused' = 0
         /\ tally' = NothingCounted

Next == \/ \E c \in Calls : Admit(c) \/ Refuse(c) \/ Fail(c) \/ Answer(c)
        \/ Crash

Spec == Init /\ [][Next]_ledgerVars
=============================================================================
