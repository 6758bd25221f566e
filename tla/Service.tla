------------------------------- MODULE Service -------------------------------
(***************************************************************************)
(* internal/service/service.go and internal/metrics/prometheus.go: the     *)
(* handlers of RunTestSuite, one goroutine per call, and the Prometheus    *)
(* collectors they share. Every access to a collector is an atomic step of *)
(* its own; what a handler does between two of them touches only its own   *)
(* variables and belongs to the step before.                               *)
(*                                                                         *)
(* The statistical tests are abstract: Outcomes holds what one test can    *)
(* return, with p-values in hundredths (Alpha is 1). runAllTests is a      *)
(* variable of the package, so what it may return is a parameter.          *)
(***************************************************************************)
EXTENDS Integers, Sequences, FiniteSets, Functions

CONSTANTS Calls,            \* the calls, each served by its own goroutine
          NumTests,         \* the length of the suite (15)
          Sizes,            \* lengths of bitstreams, in bytes
          MinBits, MaxBits, \* nist.MinBits and nist.MaxBits
          Outcomes,         \* [p |-> p-value, ran |-> did the test run]
          MayError,         \* may runAllTests return an error of its own?
          AuthEnabled,      \* is the authentication interceptor in the chain?
          UniformityMin     \* 5: p-values needed for the uniformity check

Alpha == 1
NoValue == -2     \* a gauge with no sample yet

ASSUME ServiceAssumption ==
    /\ IsFiniteSet(Calls)
    /\ NumTests \in Nat \ {0}
    /\ Sizes \subseteq Nat /\ MinBits \in Nat \ {0} /\ MaxBits \in Nat
    /\ Outcomes \subseteq [p : Int, ran : BOOLEAN]
    /\ MayError \in BOOLEAN /\ AuthEnabled \in BOOLEAN
    /\ UniformityMin \in Nat \ {0}

Tests == 1..NumTests
Statuses == {"pass", "fail"}

VARIABLES
    pc,        \* where each handler is
    size,      \* len(req.Bitstream)
    results,   \* what runAllTests returned
    pos,       \* i of the loop over the results
    passed,    \* passedCount
    pValues,   \* the p-values kept for the uniformity check; testsRun is
               \* its length, the two are only ever extended together
    response,  \* the response sent, if any
    session    \* the calls received by the process that is now running

\* The collectors of package metrics; they live in the process's memory.
VARIABLES requestsTotal, testsTotal, pValue, overallDuration,
          lastOverallPassRate

\* History: the rate most recently computed by any handler.
VARIABLE lastComputed

handlerVars == <<pc, size, results, pos, passed, pValues, response, session>>
metricVars == <<requestsTotal, testsTotal, pValue, overallDuration,
                lastOverallPassRate>>
vars == <<handlerVars, metricVars, lastComputed>>

NoResponse == [run |-> -1]
InFlight == {"running", "counting", "gauging", "publishing"}
Final == {"denied", "rejected", "failed", "answered", "lost"}

FreshMetrics ==
    [requests |-> [s \in {"success", "error"} |-> 0],
     tests    |-> [t \in Tests |-> [s \in Statuses |-> 0]],
     pValue   |-> [t \in Tests |-> NoValue]]

Init == /\ pc = [c \in Calls |-> "idle"]
        /\ size = [c \in Calls |-> 0]
        /\ results = [c \in Calls |-> <<>>]
        /\ pos = [c \in Calls |-> 1]
        /\ passed = [c \in Calls |-> 0]
        /\ pValues = [c \in Calls |-> <<>>]
        /\ response = [c \in Calls |-> NoResponse]
        /\ session = {}
        /\ requestsTotal = FreshMetrics.requests
        /\ testsTotal = FreshMetrics.tests
        /\ pValue = FreshMetrics.pValue
        /\ overallDuration = 0
        /\ lastOverallPassRate = <<0, 1>>
        /\ lastComputed = <<0, 1>>

-----------------------------------------------------------------------------
\* validateRequest.
ValidRequest(bytes) ==
    bytes # 0 /\ bytes * 8 >= MinBits /\ bytes * 8 <= MaxBits

\* The bounds RunAllTests checks again (run_all.go).
SuiteAccepts(bytes) == bytes * 8 >= MinBits /\ bytes * 8 <= MaxBits

\* (Mutant: the label is written before the validation.)
AlwaysSuccess(bytes) == "success"

RequestStatus(bytes) == IF ValidRequest(bytes) THEN "success" ELSE "error"

\* Up to the call of runAllTests: validation and the counter of its outcome.
Receive(c) ==
    /\ pc[c] = "idle"
    /\ session' = session \cup {c}
    /\ \E bytes \in Sizes :
          /\ size' = [size EXCEPT ![c] = bytes]
          /\ pc' = [pc EXCEPT ![c] =
                IF ValidRequest(bytes) THEN "running" ELSE "rejected"]
          /\ requestsTotal' =
                [requestsTotal EXCEPT ![RequestStatus(bytes)] = @ + 1]
    /\ UNCHANGED <<results, pos, passed, pValues, response, testsTotal,
                   pValue, overallDuration, lastOverallPassRate, lastComputed>>

\* The authentication interceptor turns the call down: the handler is not
\* reached and no collector knows of the call.
Deny(c) ==
    /\ AuthEnabled /\ pc[c] = "idle"
    /\ pc' = [pc EXCEPT ![c] = "denied"]
    /\ UNCHANGED <<size, results, pos, passed, pValues, response, session,
                   metricVars, lastComputed>>

\* runAllTests returns an error: nothing further is recorded.
ExecuteFails(c) ==
    /\ pc[c] = "running"
    /\ MayError \/ ~ SuiteAccepts(size[c])
    /\ pc' = [pc EXCEPT ![c] = "failed"]
    /\ UNCHANGED <<size, results, pos, passed, pValues, response, session,
                   metricVars, lastComputed>>

\* runAllTests returns; the suite's duration is observed.
Execute(c) ==
    /\ pc[c] = "running" /\ SuiteAccepts(size[c])
    /\ pc' = [pc EXCEPT ![c] = "counting"]
    /\ \E r \in [Tests -> Outcomes] : results' = [results EXCEPT ![c] = r]
    /\ overallDuration' = overallDuration + 1
    /\ UNCHANGED <<size, pos, passed, pValues, response, session,
                   requestsTotal, testsTotal, pValue, lastOverallPassRate,
                   lastComputed>>

\* A test panics (linear_complexity.go) and nothing on the way recovers: the
\* process dies with every call it was serving and all its counters. The
\* container is restarted and serves the calls that come after.
Panic(c) ==
    /\ pc[c] = "running" /\ SuiteAccepts(size[c])
    /\ pc' = [d \in Calls |-> IF pc[d] \in InFlight THEN "lost" ELSE pc[d]]
    /\ session' = {}
    /\ requestsTotal' = FreshMetrics.requests
    /\ testsTotal' = FreshMetrics.tests
    /\ pValue' = FreshMetrics.pValue
    /\ overallDuration' = 0
    /\ lastOverallPassRate' = <<0, 1>>
    /\ lastComputed' = <<0, 1>>
    /\ UNCHANGED <<size, results, pos, passed, pValues, response>>

-----------------------------------------------------------------------------
\* The loop over the results.
Current(c) == results[c][pos[c]]

\* (Mutant: the check for a skipped result is dropped.)
EveryResultCounts(c) == TRUE

Counts(c) == Current(c).p >= 0

\* (Mutant: a p-value equal to Alpha fails.)
StatusStrict(p) == IF p > Alpha THEN "pass" ELSE "fail"

Status(p) == IF p >= Alpha THEN "pass" ELSE "fail"

InLoop(c) == pc[c] = "counting" /\ pos[c] <= NumTests

\* A negative p-value: the result is passed on as skipped.
SkipTest(c) ==
    /\ InLoop(c) /\ ~ Counts(c)
    /\ pos' = [pos EXCEPT ![c] = @ + 1]
    /\ UNCHANGED <<pc, size, results, passed, pValues, response, session,
                   metricVars, lastComputed>>

\* metrics.TestsTotal...Inc()
CountTest(c) ==
    /\ InLoop(c) /\ Counts(c)
    /\ LET status == Status(Current(c).p)
       IN /\ passed' = [passed EXCEPT ![c] =
                           IF status = "pass" THEN @ + 1 ELSE @]
          /\ testsTotal' = [testsTotal EXCEPT ![pos[c]][status] = @ + 1]
    /\ pc' = [pc EXCEPT ![c] = "gauging"]
    /\ UNCHANGED <<size, results, pos, pValues, response, session,
                   requestsTotal, pValue, overallDuration,
                   lastOverallPassRate, lastComputed>>

\* (Mutant: the gauge is set from the first result.)
FirstValue(c) == results[c][1].p

GaugeValue(c) == Current(c).p

\* metrics.PValue...Set(), and the rest of the loop's body.
SetPValue(c) ==
    /\ pc[c] = "gauging"
    /\ pValue' = [pValue EXCEPT ![pos[c]] = GaugeValue(c)]
    /\ pValues' = [pValues EXCEPT ![c] = Append(@, Current(c).p)]
    /\ pos' = [pos EXCEPT ![c] = @ + 1]
    /\ pc' = [pc EXCEPT ![c] = "counting"]
    /\ UNCHANGED <<size, results, passed, response, session, requestsTotal,
                   testsTotal, overallDuration, lastOverallPassRate,
                   lastComputed>>

-----------------------------------------------------------------------------
\* calculatePValueUniformity. chi2 times 10 * len is an integer, so the
\* statistic is kept as that integer and len.
\* (Mutant: a p-value of 1.0 has no bin.)
BinUnclamped(p) == p \div 10

Bin(p) == IF p \div 10 = 10 THEN 9 ELSE p \div 10

Uniformity(ps) ==
    LET bins == [b \in 0..9 |-> Cardinality({i \in DOMAIN ps :
                    ps[i] >= 0 /\ ps[i] <= 100 /\ Bin(ps[i]) = b})]
        diff == [b \in 0..9 |-> 10 * bins[b] - Len(ps)]
    IN [chi2 |-> SumFunction([b \in 0..9 |-> diff[b] * diff[b]]), len |-> Len(ps)]

NoUniformity == [chi2 |-> -1, len |-> 0]

\* (Mutant: tests_run and tests_skipped are swapped in the division.)
RateOfSkipped(c) == <<passed[c], NumTests - Len(pValues[c])>>

\* passedCount / testsRun, as the pair of the two.
Rate(c) == <<passed[c], Len(pValues[c])>>

Respond(c, rate) ==
    response' = [response EXCEPT ![c] =
        [run        |-> Len(pValues[c]),
         skipped    |-> NumTests - Len(pValues[c]),
         compliant  |-> Len(pValues[c]) = NumTests,
         rate       |-> rate,
         uniformity |-> IF Len(pValues[c]) >= UniformityMin
                        THEN Uniformity(pValues[c]) ELSE NoUniformity]]

AfterLoop(c) == pc[c] = "counting" /\ pos[c] > NumTests

\* The pass rate is computed; setting the gauge is a later step.
ComputeRate(c) ==
    /\ AfterLoop(c) /\ pValues[c] # <<>>
    /\ pc' = [pc EXCEPT ![c] = "publishing"]
    /\ lastComputed' = Rate(c)
    /\ UNCHANGED <<size, results, pos, passed, pValues, response, session,
                   metricVars>>

\* metrics.LastOverallPassRate.Set(), then the response is complete.
PublishRate(c) ==
    /\ pc[c] = "publishing"
    /\ lastOverallPassRate' = Rate(c)
    /\ Respond(c, Rate(c))
    /\ pc' = [pc EXCEPT ![c] = "answered"]
    /\ UNCHANGED <<size, results, pos, passed, pValues, session,
                   requestsTotal, testsTotal, pValue, overallDuration,
                   lastComputed>>

\* No test was run: the rate is 0.0 and the gauge keeps its value.
RespondWithoutTests(c) ==
    /\ AfterLoop(c) /\ pValues[c] = <<>>
    /\ Respond(c, <<0, 1>>)
    /\ pc' = [pc EXCEPT ![c] = "answered"]
    /\ UNCHANGED <<size, results, pos, passed, pValues, session,
                   metricVars, lastComputed>>

-----------------------------------------------------------------------------
\* The steps of a handler that is being served.
Handle(c) == \/ Execute(c) \/ ExecuteFails(c)
             \/ SkipTest(c) \/ CountTest(c) \/ SetPValue(c)
             \/ ComputeRate(c) \/ PublishRate(c) \/ RespondWithoutTests(c)

\* The clients have no call left to make.
AllServed == (\A c \in Calls : pc[c] \in Final) /\ UNCHANGED vars

Next == \/ \E c \in Calls : Deny(c) \/ Receive(c) \/ Handle(c) \/ Panic(c)
        \/ AllServed

Spec == Init /\ [][Next]_vars

-----------------------------------------------------------------------------
Rates == {r \in (0..NumTests) \X (1..NumTests) : r[1] <= r[2]}

\* Every variable keeps its type; a pass rate is a fraction of at most 1.
TypeOK ==
    /\ pc \in [Calls -> {"idle"} \cup InFlight \cup Final]
    /\ size \in [Calls -> Sizes \cup {0}]
    /\ results \in [Calls -> {<<>>} \cup [Tests -> Outcomes]]
    /\ pos \in [Calls -> 1..(NumTests + 1)]
    /\ passed \in [Calls -> 0..NumTests]
    /\ pValues \in [Calls -> Seq(Int)]
    /\ session \subseteq Calls
    /\ requestsTotal \in [{"success", "error"} -> Nat]
    /\ testsTotal \in [Tests -> [Statuses -> Nat]]
    /\ pValue \in [Tests -> Int]
    /\ overallDuration \in Nat
    /\ lastOverallPassRate \in Rates /\ lastComputed \in Rates

\* The calls of this process, by the counters they have passed.
Refused  == {c \in session : pc[c] = "rejected"}
Admitted == {c \in session : pc[c] # "rejected"}
Observed == {c \in session :
                pc[c] \in {"counting", "gauging", "publishing", "answered"}}

Recorded(c, t) == /\ c \in Observed
                  /\ t < pos[c] \/ (t = pos[c] /\ pc[c] = "gauging")
                  /\ results[c][t].p >= 0

CountedAs(t, s) ==
    {c \in Calls : Recorded(c, t) /\ (s = "pass" <=> results[c][t].p >= Alpha)}

\* At every scrape, however the handlers interleave and after any restart,
\* each counter equals the number of calls of this process that passed the line
\* that increments it (service.go:67, 71, 86, 130): nothing is lost or doubled.
\* These are not the counts by outcome that prometheus.go:61-62 describes. The
\* label is written before the suite runs, so a call that fails afterwards
\* (service.go:75) is an Admitted one and stays a "success"; a call that is
\* turned down before the handler (Deny) is in no counter.
CountersConserved ==
    /\ requestsTotal["error"] = Cardinality(Refused)
    /\ requestsTotal["success"] = Cardinality(Admitted)
    /\ overallDuration = Cardinality(Observed)
    /\ \A t \in Tests, s \in Statuses :
          testsTotal[t][s] = Cardinality(CountedAs(t, s))

\* A gauge never shows a value nobody measured (service.go:131, 157): it holds
\* the p-value of that same test in a call of this process, and it has one as
\* soon as some call is past the test; the rate gauge holds a published rate.
GaugesAreMeasured ==
    /\ \A t \in Tests :
          LET past == {c \in session : Recorded(c, t) /\ t < pos[c]}
          IN IF past = {} THEN pValue[t] = NoValue
             ELSE \E c \in past : pValue[t] = results[c][t].p
    /\ \/ lastOverallPassRate = <<0, 1>>
       \/ \E c \in session : pc[c] = "answered"
                            /\ response[c].rate = lastOverallPassRate

\* An answer agrees with the results it was built from, whatever the other
\* handlers did meanwhile: run and skipped split the suite, the rate is over
\* the tests that ran, and only a complete run is compliant. A p-value equal
\* to Alpha passes (run_all.go:13, docs/api-reference.md:145); the comment of
\* the published message, nist_sp800_22.proto:84, says it does not.
AnswersMatchResults ==
    \A c \in Calls : pc[c] = "answered" =>
        LET ran == {t \in Tests : results[c][t].p >= 0}
            ok  == {t \in Tests : results[c][t].p >= Alpha}
        IN /\ response[c].run = Cardinality(ran)
           /\ response[c].run + response[c].skipped = NumTests
           /\ response[c].compliant <=> ran = Tests
           /\ response[c].rate = IF ran = {} THEN <<0, 1>>
                                 ELSE <<Cardinality(ok), Cardinality(ran)>>

\* With p-values inside [0, 1] the statistic is Pearson's: 100 for every
\* ordered pair of p-values in the same decile, less 10 * len^2. So every
\* p-value, 1.0 included, is in exactly one bin (service.go:223-242).
SameDecile(p, q) == p \div 10 = q \div 10 \/ (p >= 90 /\ q >= 90)
UniformityIsPearson ==
    \A c \in Calls :
        LET ps == pValues[c]
            D  == DOMAIN ps
        IN (pc[c] = "answered" /\ Len(ps) >= UniformityMin
              /\ \A i \in D : ps[i] <= 100) =>
            response[c].uniformity.chi2 =
              100 * Cardinality({ij \in D \X D : SameDecile(ps[ij[1]], ps[ij[2]])})
                - 10 * Len(ps) * Len(ps)

-----------------------------------------------------------------------------
\* The handlers implement SuiteLedger: the calls of this process that are
\* still being served are taken out of the counters.
PhaseOf(c) == CASE pc[c] \in {"idle", "denied"} -> "new"
                [] pc[c] = "rejected" -> "refused"
                [] pc[c] \in InFlight -> "admitted"
                [] OTHER              -> pc[c]

Unfinished(t, v) == Cardinality({c \in Calls :
    Recorded(c, t) /\ pc[c] \in InFlight /\ Status(results[c][t].p) = v})

Ledger == INSTANCE SuiteLedger WITH
    Verdicts <- {"pass", "fail", "skip"},
    state    <- [c \in Calls |-> PhaseOf(c)],
    admitted <- requestsTotal["success"],
    refused  <- requestsTotal["error"],
    tally    <- [t \in Tests |-> [v \in Statuses |->
                    testsTotal[t][v] - Unfinished(t, v)]]

\* The interleaved handlers are indistinguishable, call by call, from ones
\* that count all their tests at the moment they answer.
ImplementsLedger == Ledger!Spec

-----------------------------------------------------------------------------
\* docs/architecture.md:215-216: tests_run counts the "tests that produced
\* valid results" and tests_skipped the ones "skipped due to insufficient data".
SkippedAreReported ==
    \A c \in Calls : pc[c] = "answered" =>
        response[c].skipped = Cardinality({t \in Tests : ~ results[c][t].ran})

\* prometheus.go:43: the gauge "tracks the most recently computed overall pass
\* rate" - so it does whenever no handler is about to write it.
RateIsMostRecent ==
    (\A c \in Calls : pc[c] # "publishing")
        => lastOverallPassRate = lastComputed
=============================================================================
