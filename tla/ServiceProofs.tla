---------------------------- MODULE ServiceProofs ----------------------------
(***************************************************************************)
(* Proofs about Service for any set of concurrent calls, any suite length  *)
(* and any outcomes: the types, the conservation of every counter, that    *)
(* answers and gauges hold what was computed, that the handlers implement  *)
(* SuiteLedger, and that the statistic of an answer is Pearson's.          *)
(*                                                                         *)
(* CountersConserved speaks of sets of calls that change while handlers    *)
(* move. The inductive invariant adds what each handler knows at each of   *)
(* its positions and which calls belong to the running process. AnswerInv, *)
(* GaugeInv and UniformityInv add what one call's tallies, the gauges and  *)
(* the p-values collected so far are made of.                              *)
(***************************************************************************)
EXTENDS Service, Induction

Looping == {"counting", "gauging", "publishing", "answered"}

\* The calls being served were received by the process that is running.
SessionInv ==
    \A c \in Calls : /\ pc[c] \in InFlight => c \in session
                     /\ c \in session => pc[c] \notin {"idle", "denied", "lost"}

\* What a handler's own variables are at each of its positions.
HandlerInv ==
    \A c \in Calls :
        /\ pc[c] \in {"idle", "running"} =>
              pos[c] = 1 /\ passed[c] = 0 /\ pValues[c] = <<>>
        /\ pc[c] \in Looping => results[c] \in [Tests -> Outcomes]
        /\ pc[c] = "gauging" =>
              pos[c] \in Tests /\ results[c][pos[c]].p >= 0
        /\ pc[c] = "gauging" => passed[c] <= Len(pValues[c]) + 1
        /\ pc[c] \in {"counting", "publishing"} => passed[c] <= Len(pValues[c])
        /\ pc[c] \in Looping => Len(pValues[c]) < pos[c]
        /\ pc[c] = "publishing" => pValues[c] # <<>>

\* A call whose size was valid is never refused by the suite itself.
SizesAccepted ==
    \A c \in Calls : pc[c] \in {"running", "failed"} \cup Looping
                        => SuiteAccepts(size[c])

IInv == TypeOK /\ SessionInv /\ HandlerInv /\ SizesAccepted /\ CountersConserved

LocalInv == TypeOK /\ SessionInv /\ HandlerInv /\ SizesAccepted

-----------------------------------------------------------------------------
\* A set of calls that gains a new one has one call more.
LEMMA CountOne ==
    ASSUME NEW S \in SUBSET Calls, NEW c \in Calls, c \notin S
    PROVE  Cardinality(S \cup {c}) = Cardinality(S) + 1
BY ServiceAssumption, FS_Subset, FS_AddElement

LEMMA CountsAreNat ==
    ASSUME NEW S \in SUBSET Calls
    PROVE  Cardinality(S) \in Nat
BY ServiceAssumption, FS_Subset, FS_CardinalityType

\* Rates of a non-empty list of p-values.
LEMMA RateIsARate ==
    ASSUME TypeOK, NEW c \in Calls, pValues[c] # <<>>,
           passed[c] <= Len(pValues[c]), Len(pValues[c]) < pos[c]
    PROVE  Rate(c) \in Rates
<1>1. Len(pValues[c]) \in Nat /\ Len(pValues[c]) # 0
  BY DEF TypeOK
<1>2. Len(pValues[c]) \in 1..NumTests /\ passed[c] \in 0..NumTests
  BY <1>1, ServiceAssumption DEF TypeOK
<1> QED
  BY <1>2 DEF Rate, Rates

LEMMA InitInv == Init => IInv
<1> SUFFICES ASSUME Init PROVE IInv
  OBVIOUS
<1>1. <<0, 1>> \in Rates
  BY ServiceAssumption DEF Rates
<1>2. TypeOK
  BY <1>1, ServiceAssumption DEF Init, TypeOK, FreshMetrics, InFlight, Final, NoValue
<1>3. SessionInv /\ HandlerInv /\ SizesAccepted
  BY DEF Init, SessionInv, HandlerInv, SizesAccepted, InFlight, Looping
<1>4. CountersConserved
  <2>1. Refused = {} /\ Admitted = {} /\ Observed = {}
    BY DEF Init, Refused, Admitted, Observed
  <2>2. \A t \in Tests, s \in Statuses : CountedAs(t, s) = {}
    BY <2>1 DEF CountedAs, Recorded
  <2>3. Cardinality({}) = 0
    BY FS_EmptySet
  <2> QED
    BY <2>1, <2>2, <2>3 DEF Init, CountersConserved, FreshMetrics
<1> QED
  BY <1>2, <1>3, <1>4 DEF IInv

-----------------------------------------------------------------------------
\* The handlers' own variables and the types, action by action.
LEMMA LocalStep ==
    ASSUME LocalInv, NEW c \in Calls, Deny(c) \/ Receive(c) \/ Handle(c) \/ Panic(c)
    PROVE  LocalInv'
<1>a. ComputeRate(c) \/ PublishRate(c) => Rate(c) \in Rates
  BY RateIsARate
  DEF LocalInv, HandlerInv, ComputeRate, PublishRate, AfterLoop, Looping
<1> USE ServiceAssumption DEF LocalInv, TypeOK, SessionInv, HandlerInv,
        SizesAccepted, InFlight, Final, Looping, metricVars
<1>1. CASE Receive(c)
  BY <1>1 DEF Receive, ValidRequest, SuiteAccepts, RequestStatus
<1>2. CASE ExecuteFails(c)
  BY <1>2 DEF ExecuteFails
<1>3. CASE Execute(c)
  <2>1. /\ pc[c] = "running" /\ pc' = [pc EXCEPT ![c] = "counting"]
        /\ overallDuration' = overallDuration + 1
        /\ UNCHANGED <<size, pos, passed, pValues, session, requestsTotal, testsTotal,
                       pValue, lastOverallPassRate, lastComputed>>
        /\ SuiteAccepts(size[c])
    BY <1>3 DEF Execute
  <2>2. PICK r \in [Tests -> Outcomes] : results' = [results EXCEPT ![c] = r]
    BY <1>3 DEF Execute
  <2>3. results' \in [Calls -> {<<>>} \cup [Tests -> Outcomes]]
    BY <2>2
  <2>4. TypeOK'
    <3>1. pc' \in [Calls -> {"idle"} \cup InFlight \cup Final]
      BY <2>1
    <3>2. overallDuration' \in Nat
      BY <2>1
    <3> QED
      BY <2>1, <2>3, <3>1, <3>2
  <2>5. SessionInv' /\ SizesAccepted'
    BY <2>1
  <2>6. HandlerInv'
    <3>1. \A d \in Calls : d # c => pc'[d] = pc[d] /\ results'[d] = results[d]
      BY <2>1, <2>2
    <3>2. /\ pc'[c] = "counting" /\ results'[c] \in [Tests -> Outcomes]
          /\ pos[c] = 1 /\ passed[c] = 0 /\ pValues[c] = <<>>
      BY <2>1, <2>2
    <3>3. passed[c] <= Len(pValues[c]) /\ Len(pValues[c]) < pos[c]
      BY <3>2
    <3> QED
      BY <2>1, <3>1, <3>2, <3>3
  <2> QED
    BY <2>4, <2>5, <2>6
<1>4. CASE SkipTest(c)
  BY <1>4 DEF SkipTest, InLoop
<1>5. CASE CountTest(c)
  <2>1. pc[c] = "counting" /\ pos[c] \in Tests /\ results[c] \in [Tests -> Outcomes]
        /\ results[c][pos[c]].p >= 0
    BY <1>5 DEF CountTest, InLoop, Counts, Current, Tests
  <2>2. PICK status \in Statuses :
           /\ passed' = [passed EXCEPT ![c] = IF status = "pass" THEN @ + 1 ELSE @]
           /\ testsTotal' = [testsTotal EXCEPT ![pos[c]][status] = @ + 1]
    BY <1>5 DEF CountTest, Status, Statuses
  <2>3. testsTotal' \in [Tests -> [Statuses -> Nat]]
    BY <2>1, <2>2
  <2>4. passed[c] \in Nat /\ Len(pValues[c]) \in Nat
        /\ passed[c] <= Len(pValues[c]) /\ Len(pValues[c]) < pos[c]
        /\ pos[c] <= NumTests
    BY <1>5, <2>1 DEF CountTest, InLoop
  <2>5. passed'[c] \in 0..NumTests /\ passed'[c] <= Len(pValues[c]) + 1
    BY <2>2, <2>4
  <2>6. passed' \in [Calls -> 0..NumTests]
        /\ \A d \in Calls : d # c => passed'[d] = passed[d]
    BY <2>2, <2>5
  <2>7. pc' = [pc EXCEPT ![c] = "gauging"]
        /\ UNCHANGED <<size, results, pos, pValues, session, requestsTotal,
                       pValue, overallDuration, lastOverallPassRate, lastComputed>>
    BY <1>5 DEF CountTest
  <2> QED
    BY <2>1, <2>3, <2>5, <2>6, <2>7
<1>6. CASE SetPValue(c)
  <2>1. pc[c] = "gauging" /\ pos[c] \in Tests /\ results[c] \in [Tests -> Outcomes]
    BY <1>6 DEF SetPValue
  <2>2. Current(c).p \in Int
    BY <2>1 DEF Current
  <2>3. pValues' = [pValues EXCEPT ![c] = Append(@, Current(c).p)]
        /\ pValues'[c] = Append(pValues[c], Current(c).p)
    BY <1>6 DEF SetPValue
  <2>4. pValues' \in [Calls -> Seq(Int)] /\ Len(pValues'[c]) = Len(pValues[c]) + 1
        /\ Len(pValues[c]) \in Nat
    BY <2>2, <2>3
  <2>5. pos' = [pos EXCEPT ![c] = @ + 1] /\ pos[c] \in 1..NumTests
        /\ pc' = [pc EXCEPT ![c] = "counting"]
    BY <1>6, <2>1 DEF SetPValue, Tests
  <2>6. pos' \in [Calls -> 1..(NumTests + 1)] /\ pos'[c] = pos[c] + 1
    BY <2>5
  <2>7. pValue' \in [Tests -> Int]
    BY <1>6, <2>1, <2>2 DEF SetPValue, GaugeValue
  <2>8. UNCHANGED <<size, results, passed, session, requestsTotal, testsTotal,
                    overallDuration, lastOverallPassRate, lastComputed>>
    BY <1>6 DEF SetPValue
  <2>9. TypeOK'
    BY <2>4, <2>5, <2>6, <2>7, <2>8
  <2>10. \A d \in Calls : d # c => pValues'[d] = pValues[d] /\ pos'[d] = pos[d]
                                   /\ pc'[d] = pc[d]
    BY <2>3, <2>5
  <2>11. passed[c] <= Len(pValues'[c]) /\ Len(pValues'[c]) < pos'[c]
         /\ pc'[c] = "counting"
    BY <2>1, <2>4, <2>5, <2>6
  <2> QED
    BY <2>1, <2>8, <2>9, <2>10, <2>11
<1>7. CASE ComputeRate(c)
  <2>1. lastComputed' \in Rates /\ UNCHANGED lastOverallPassRate
    BY <1>7, <1>a DEF ComputeRate
  <2> QED
    BY <1>7, <2>1 DEF ComputeRate, AfterLoop
<1>8. CASE PublishRate(c)
  <2>1. lastOverallPassRate' \in Rates /\ UNCHANGED lastComputed
    BY <1>8, <1>a DEF PublishRate
  <2> QED
    BY <1>8, <2>1 DEF PublishRate
<1>9. CASE RespondWithoutTests(c)
  BY <1>9 DEF RespondWithoutTests, AfterLoop
<1>10. CASE Panic(c)
  <2>1. UNCHANGED <<size, results, pos, passed, pValues>> /\ session' = {}
        /\ pc' = [d \in Calls |-> IF pc[d] \in InFlight THEN "lost" ELSE pc[d]]
    BY <1>10 DEF Panic
  <2>2. TypeOK'
    BY <1>10, <2>1 DEF Panic, FreshMetrics, Rates, NoValue
  <2>3. \A d \in Calls : pc'[d] = pc[d] \/ pc'[d] = "lost"
    BY <2>1
  <2>4. SessionInv' /\ SizesAccepted'
    BY <2>1
  <2>5. HandlerInv'
    BY <2>1, <2>3
  <2> QED
    BY <2>2, <2>4, <2>5
<1>11. CASE Deny(c)
  BY <1>11 DEF Deny
<1> QED
  BY <1>1, <1>2, <1>3, <1>4, <1>5, <1>6, <1>7, <1>8, <1>9, <1>10, <1>11
  DEF Handle

-----------------------------------------------------------------------------
\* A step that leaves every call on the same side of every counter, and the
\* counters alone, conserves them.
LEMMA NothingCounted ==
    ASSUME CountersConserved,
           Refused' = Refused, Admitted' = Admitted, Observed' = Observed,
           \A t \in Tests, s \in Statuses : CountedAs(t, s)' = CountedAs(t, s),
           UNCHANGED <<requestsTotal, testsTotal, overallDuration>>
    PROVE  CountersConserved'
BY DEF CountersConserved

\* Deny: the call does not enter the session and is on no side of a counter.
LEMMA DenyCounts ==
    ASSUME IInv, NEW c \in Calls, Deny(c)
    PROVE  CountersConserved'
<1>1. c \notin session /\ pc' = [pc EXCEPT ![c] = "denied"]
      /\ UNCHANGED <<pos, results, session, requestsTotal, testsTotal, overallDuration>>
  BY DEF IInv, SessionInv, Deny, metricVars
<1>2. \A d \in session : pc'[d] = pc[d] /\ d \in Calls
  BY <1>1 DEF IInv, TypeOK
<1>3. Refused' = Refused /\ Admitted' = Admitted /\ Observed' = Observed
  BY <1>1, <1>2 DEF Refused, Admitted, Observed
<1>4. ASSUME NEW t \in Tests, NEW s \in Statuses
      PROVE  CountedAs(t, s)' = CountedAs(t, s)
  <2>1. \A d \in Calls : Recorded(d, t)' <=> Recorded(d, t)
    BY <1>1, <1>2, <1>3 DEF Recorded, Observed
  <2> QED
    BY <1>1, <2>1 DEF CountedAs
<1> QED
  BY <1>1, <1>3, <1>4, NothingCounted DEF IInv

\* Receive: the call joins exactly one of Refused and Admitted.
LEMMA ReceiveCounts ==
    ASSUME IInv, NEW c \in Calls, Receive(c)
    PROVE  CountersConserved'
<1> USE DEF IInv, TypeOK, SessionInv
<1>1. c \notin session /\ session' = session \cup {c} /\ pc[c] = "idle"
  BY DEF Receive
<1>2. \A d \in Calls : d # c => pc'[d] = pc[d]
  BY DEF Receive
<1>3. Observed' = Observed
  BY <1>1, <1>2 DEF Receive, Observed
<1>4. \A t \in Tests, s \in Statuses : CountedAs(t, s)' = CountedAs(t, s)
  <2> SUFFICES ASSUME NEW t \in Tests, NEW s \in Statuses
               PROVE CountedAs(t, s)' = CountedAs(t, s)
    OBVIOUS
  <2>1. \A d \in Calls : Recorded(d, t)' <=> Recorded(d, t)
    BY <1>1, <1>2, <1>3 DEF Recorded, Observed, Receive
  <2> QED
    BY <2>1 DEF CountedAs, Receive
<1>5. Refused \in SUBSET Calls /\ Admitted \in SUBSET Calls
      /\ c \notin Refused /\ c \notin Admitted
  BY <1>1 DEF Refused, Admitted
<1>6. PICK bytes \in Sizes :
         /\ pc' = [pc EXCEPT ![c] = IF ValidRequest(bytes) THEN "running" ELSE "rejected"]
         /\ requestsTotal' = [requestsTotal EXCEPT ![RequestStatus(bytes)] = @ + 1]
  BY DEF Receive
<1>7. CASE ValidRequest(bytes)
  <2>1. Refused' = Refused /\ Admitted' = Admitted \cup {c}
    BY <1>1, <1>2, <1>6, <1>7 DEF Refused, Admitted
  <2>2. requestsTotal' = [requestsTotal EXCEPT !["success"] = @ + 1]
    BY <1>6, <1>7 DEF RequestStatus
  <2>3. Cardinality(Admitted') = Cardinality(Admitted) + 1
    BY <1>5, <2>1, CountOne
  <2> QED
    BY <1>3, <1>4, <2>1, <2>2, <2>3 DEF CountersConserved, Receive
<1>8. CASE ~ ValidRequest(bytes)
  <2>1. Admitted' = Admitted /\ Refused' = Refused \cup {c}
    BY <1>1, <1>2, <1>6, <1>8 DEF Refused, Admitted
  <2>2. requestsTotal' = [requestsTotal EXCEPT !["error"] = @ + 1]
    BY <1>6, <1>8 DEF RequestStatus
  <2>3. Cardinality(Refused') = Cardinality(Refused) + 1
    BY <1>5, <2>1, CountOne
  <2> QED
    BY <1>3, <1>4, <2>1, <2>2, <2>3 DEF CountersConserved, Receive
<1> QED
  BY <1>7, <1>8

\* Execute: the call joins Observed; it has recorded no test yet.
LEMMA ExecuteCounts ==
    ASSUME IInv, NEW c \in Calls, Execute(c)
    PROVE  CountersConserved'
<1> USE DEF IInv, TypeOK, SessionInv, HandlerInv
<1>1. c \in session /\ pc[c] = "running" /\ pc'[c] = "counting" /\ pos[c] = 1
  BY DEF Execute, InFlight
<1>2. \A d \in Calls : d # c => pc'[d] = pc[d] /\ results'[d] = results[d]
  BY DEF Execute
<1>3. UNCHANGED <<pos, session, requestsTotal, testsTotal>>
      /\ overallDuration' = overallDuration + 1
  BY DEF Execute
<1>4. Refused' = Refused /\ Admitted' = Admitted
      /\ Observed' = Observed \cup {c} /\ c \notin Observed
      /\ Observed \in SUBSET Calls
  BY <1>1, <1>2, <1>3 DEF Refused, Admitted, Observed
<1>5. Cardinality(Observed') = Cardinality(Observed) + 1
  BY <1>4, CountOne
<1>6. \A t \in Tests, s \in Statuses : CountedAs(t, s)' = CountedAs(t, s)
  <2> SUFFICES ASSUME NEW t \in Tests, NEW s \in Statuses
               PROVE CountedAs(t, s)' = CountedAs(t, s)
    OBVIOUS
  <2>1. \A d \in Calls : d # c => (Recorded(d, t)' <=> Recorded(d, t))
    BY <1>2, <1>3, <1>4 DEF Recorded
  <2>2. ~ Recorded(c, t) /\ ~ Recorded(c, t)'
    BY <1>1, <1>3, <1>4, ServiceAssumption DEF Recorded, Tests
  <2> QED
    BY <1>2, <2>1, <2>2 DEF CountedAs
<1> QED
  BY <1>3, <1>4, <1>5, <1>6 DEF CountersConserved

\* A handler's step that records no test and keeps to its side of the counters.
LEMMA SameSides ==
    ASSUME IInv, NEW c \in Calls, c \in session,
           UNCHANGED <<session, results, requestsTotal, testsTotal, overallDuration>>,
           \A d \in Calls : d # c => pc'[d] = pc[d] /\ pos'[d] = pos[d],
           pc[c] # "rejected", pc'[c] # "rejected",
           pc'[c] \in Looping <=> pc[c] \in Looping,
           \A t \in Tests : Recorded(c, t)' <=> Recorded(c, t)
    PROVE  CountersConserved'
<1>1. Refused' = Refused /\ Admitted' = Admitted /\ Observed' = Observed
  BY DEF Refused, Admitted, Observed, Looping, IInv, TypeOK
<1>2. ASSUME NEW t \in Tests, NEW s \in Statuses
      PROVE  CountedAs(t, s)' = CountedAs(t, s)
  <2>1. \A d \in Calls : Recorded(d, t)' <=> Recorded(d, t)
    BY <1>1 DEF Recorded
  <2> QED
    BY <2>1 DEF CountedAs
<1> QED
  BY <1>1, <1>2, NothingCounted DEF IInv

\* CountTest: the call joins the one set of its test and its status.
LEMMA CountTestCounts ==
    ASSUME IInv, NEW c \in Calls, CountTest(c)
    PROVE  CountersConserved'
<1> DEFINE i == pos[c]
           status == Status(Current(c).p)
<1> USE DEF IInv, TypeOK, SessionInv, HandlerInv
<1>1. pc[c] = "counting" /\ pc'[c] = "gauging" /\ c \in session
      /\ i \in Tests /\ Current(c).p >= 0 /\ status \in Statuses
      /\ results[c] \in [Tests -> Outcomes]
  BY DEF CountTest, InLoop, Counts, Tests, InFlight, Status, Statuses, Looping
<1>2. \A d \in Calls : d # c => pc'[d] = pc[d]
  BY DEF CountTest
<1>3. UNCHANGED <<pos, session, results, requestsTotal, overallDuration>>
      /\ testsTotal' = [testsTotal EXCEPT ![i][status] = @ + 1]
  BY DEF CountTest
<1>4. Refused' = Refused /\ Admitted' = Admitted /\ Observed' = Observed
      /\ c \in Observed
  BY <1>1, <1>2, <1>3 DEF Refused, Admitted, Observed
<1>5. ASSUME NEW t \in Tests, NEW s \in Statuses
      PROVE  testsTotal'[t][s] = Cardinality(CountedAs(t, s)')
  <2>1. testsTotal[t][s] = Cardinality(CountedAs(t, s))
    BY DEF CountersConserved
  <2>2. \A d \in Calls : d # c => (Recorded(d, t)' <=> Recorded(d, t))
    BY <1>2, <1>3, <1>4 DEF Recorded
  <2>3. CASE t = i /\ s = status
    <3>1. ~ Recorded(c, t) /\ Recorded(c, t)'
      BY <1>1, <1>3, <1>4, <2>3 DEF Recorded, Current, Tests
    <3>2. s = "pass" <=> results[c][t].p >= Alpha
      BY <2>3 DEF Status, Current
    <3>3. CountedAs(t, s)' = CountedAs(t, s) \cup {c} /\ c \notin CountedAs(t, s)
          /\ CountedAs(t, s) \in SUBSET Calls
      BY <1>3, <2>2, <3>1, <3>2 DEF CountedAs
    <3>4. Cardinality(CountedAs(t, s)') = Cardinality(CountedAs(t, s)) + 1
      BY <3>3, CountOne
    <3> QED
      BY <1>3, <2>1, <2>3, <3>4
  <2>4. CASE ~ (t = i /\ s = status)
    <3>1. testsTotal'[t][s] = testsTotal[t][s]
      BY <1>1, <1>3, <2>4
    <3>2. t # i => (Recorded(c, t)' <=> Recorded(c, t))
      BY <1>1, <1>3, <1>4 DEF Recorded
    <3>3. t = i => (s = "pass" <=> ~ (results[c][t].p >= Alpha))
      BY <2>4 DEF Status, Current, Statuses
    <3>4. CountedAs(t, s)' = CountedAs(t, s)
      <4>1. CASE t # i
        BY <4>1, <1>3, <2>2, <3>2 DEF CountedAs
      <4>2. CASE t = i
        BY <4>2, <1>3, <2>2, <3>3 DEF CountedAs
      <4> QED
        BY <4>1, <4>2
    <3> QED
      BY <2>1, <3>1, <3>4
  <2> QED
    BY <2>3, <2>4
<1> QED
  BY <1>3, <1>4, <1>5 DEF CountersConserved

\* Panic: no call belongs to the process that starts, and its counters are 0.
LEMMA PanicCounts ==
    ASSUME NEW c \in Calls, Panic(c)
    PROVE  CountersConserved'
<1>1. Refused' = {} /\ Admitted' = {} /\ Observed' = {}
  BY DEF Panic, Refused, Admitted, Observed
<1>2. \A t \in Tests, s \in Statuses : CountedAs(t, s)' = {}
  BY <1>1 DEF CountedAs, Recorded
<1> QED
  BY <1>1, <1>2, FS_EmptySet DEF Panic, CountersConserved, FreshMetrics

\* The steps of a handler, one by one.
LEMMA HandleCounts ==
    ASSUME IInv, NEW c \in Calls, Handle(c)
    PROVE  CountersConserved'
<1> USE DEF IInv, TypeOK, SessionInv, HandlerInv, InFlight
<1>1. CASE Execute(c)
  BY <1>1, ExecuteCounts
<1>2. CASE ExecuteFails(c)
  <2>1. \A t \in Tests : ~ Recorded(c, t)' /\ ~ Recorded(c, t)
    BY <1>2 DEF ExecuteFails, Recorded, Observed
  <2> QED
    BY <1>2, <2>1, SameSides DEF ExecuteFails, Looping, metricVars
<1>3. CASE SkipTest(c)
  <2>1. pc[c] = "counting" /\ pos[c] \in Tests
        /\ ~ (results[c][pos[c]].p >= 0)
    BY <1>3 DEF SkipTest, InLoop, Counts, Current, Tests
  <2>2. UNCHANGED <<pc, session, results, requestsTotal, testsTotal, overallDuration>>
        /\ pos' = [pos EXCEPT ![c] = @ + 1]
    BY <1>3 DEF SkipTest, metricVars
  <2>3. \A t \in Tests : Recorded(c, t)' <=> Recorded(c, t)
    BY <2>1, <2>2 DEF Recorded, Observed, Tests
  <2> QED
    BY <2>1, <2>2, <2>3, SameSides
<1>4. CASE CountTest(c)
  BY <1>4, CountTestCounts
<1>5. CASE SetPValue(c)
  <2>1. pc[c] = "gauging" /\ pos[c] \in Tests /\ results[c][pos[c]].p >= 0
    BY <1>5 DEF SetPValue
  <2>2. UNCHANGED <<session, results, requestsTotal, testsTotal, overallDuration>>
        /\ pos' = [pos EXCEPT ![c] = @ + 1] /\ pc' = [pc EXCEPT ![c] = "counting"]
    BY <1>5 DEF SetPValue
  <2>3. \A t \in Tests : Recorded(c, t)' <=> Recorded(c, t)
    BY <2>1, <2>2 DEF Recorded, Observed, Tests
  <2> QED
    BY <2>1, <2>2, <2>3, SameSides DEF Looping
<1>6. CASE ComputeRate(c)
  <2>1. pc[c] = "counting" /\ pc' = [pc EXCEPT ![c] = "publishing"]
        /\ UNCHANGED <<pos, session, results, requestsTotal, testsTotal, overallDuration>>
    BY <1>6 DEF ComputeRate, AfterLoop, metricVars
  <2>2. \A t \in Tests : Recorded(c, t)' <=> Recorded(c, t)
    BY <2>1 DEF Recorded, Observed
  <2> QED
    BY <2>1, <2>2, SameSides DEF Looping
<1>7. CASE PublishRate(c)
  <2>1. pc[c] = "publishing" /\ pc' = [pc EXCEPT ![c] = "answered"]
        /\ UNCHANGED <<pos, session, results, requestsTotal, testsTotal, overallDuration>>
    BY <1>7 DEF PublishRate
  <2>2. \A t \in Tests : Recorded(c, t)' <=> Recorded(c, t)
    BY <2>1 DEF Recorded, Observed
  <2> QED
    BY <2>1, <2>2, SameSides DEF Looping
<1>8. CASE RespondWithoutTests(c)
  <2>1. pc[c] = "counting" /\ pc' = [pc EXCEPT ![c] = "answered"]
        /\ UNCHANGED <<pos, session, results, requestsTotal, testsTotal, overallDuration>>
    BY <1>8 DEF RespondWithoutTests, AfterLoop, metricVars
  <2>2. \A t \in Tests : Recorded(c, t)' <=> Recorded(c, t)
    BY <2>1 DEF Recorded, Observed
  <2> QED
    BY <2>1, <2>2, SameSides DEF Looping
<1> QED
  BY <1>1, <1>2, <1>3, <1>4, <1>5, <1>6, <1>7, <1>8 DEF Handle

-----------------------------------------------------------------------------
LEMMA InvariantStep == IInv /\ [Next]_vars => IInv'
<1> SUFFICES ASSUME IInv, [Next]_vars PROVE IInv'
  OBVIOUS
<1>1. ASSUME NEW c \in Calls, Deny(c) \/ Receive(c) \/ Handle(c) \/ Panic(c)
      PROVE  IInv'
  <2>1. LocalInv'
    BY <1>1, LocalStep DEF IInv, LocalInv
  <2>2. CountersConserved'
    BY <1>1, DenyCounts, ReceiveCounts, HandleCounts, PanicCounts
  <2> QED
    BY <2>1, <2>2 DEF IInv, LocalInv
<1>2. CASE UNCHANGED vars
  <2>1. UNCHANGED <<pc, size, results, pos, passed, pValues, session>>
        /\ UNCHANGED metricVars /\ UNCHANGED lastComputed
    BY <1>2 DEF vars, handlerVars
  <2>2. TypeOK' /\ SessionInv' /\ HandlerInv' /\ SizesAccepted'
    BY <2>1 DEF IInv, metricVars, TypeOK, SessionInv, HandlerInv, SizesAccepted
  <2>3. Refused' = Refused /\ Admitted' = Admitted /\ Observed' = Observed
    BY <2>1 DEF Refused, Admitted, Observed
  <2>4. \A t \in Tests, s \in Statuses : CountedAs(t, s)' = CountedAs(t, s)
    BY <2>1, <2>3 DEF CountedAs, Recorded
  <2>5. CountersConserved'
    BY <2>1, <2>3, <2>4, NothingCounted DEF IInv, metricVars
  <2> QED
    BY <2>2, <2>5 DEF IInv
<1> QED
  BY <1>1, <1>2 DEF Next, AllServed

LEMMA InvariantHolds == Spec => []IInv
BY InitInv, InvariantStep, PTL DEF Spec

\* Every variable of every handler and every collector keeps its type; in
\* particular a published pass rate is a fraction of at most 1.
THEOREM TypeCorrect == Spec => []TypeOK
BY InvariantHolds, PTL DEF IInv

\* For any number of concurrent calls, any suite and any results, and after
\* any restart, every counter equals the number of calls past its line.
THEOREM EveryCountIsKept == Spec => []CountersConserved
BY InvariantHolds, PTL DEF IInv

\* validateRequest and RunAllTests agree on the sizes: the suite never turns
\* down a bitstream the handler has already counted as a success.
THEOREM SuiteNeverRefusesSize == Spec => []SizesAccepted
BY InvariantHolds, PTL DEF IInv-----------------------------------------------------------------------------
(* What a handler has gathered at each point of its loop, and its answer.  *)

\* The tests of the results r that ran, and those that passed.
Ran(r) == {t \in Tests : r[t].p >= 0}
Passing(r) == {t \in Tests : r[t].p >= Alpha}

\* How many of the first n tests are in T.
Among(T, n) == Cardinality((1..n) \cap T)

\* The lists and counters of a call agree with the results up to its position,
\* and its answer was built from them.
AnswerOf(c) ==
    pc[c] \in Looping =>
        /\ Len(pValues[c]) = Among(Ran(results[c]), pos[c] - 1)
        /\ passed[c] = Among(Passing(results[c]),
                             IF pc[c] = "gauging" THEN pos[c] ELSE pos[c] - 1)
        /\ pc[c] \in {"publishing", "answered"} => pos[c] = NumTests + 1
        /\ pc[c] = "answered" =>
              /\ response[c].run = Len(pValues[c])
              /\ response[c].skipped = NumTests - Len(pValues[c])
              /\ response[c].compliant <=> Len(pValues[c]) = NumTests
              /\ response[c].rate = IF pValues[c] = <<>> THEN <<0, 1>> ELSE Rate(c)

AnswerInv == DOMAIN response = Calls /\ \A c \in Calls : AnswerOf(c)

\* A test more, and a member more if it is one.
LEMMA NextAmong ==
    ASSUME NEW T, NEW n \in Nat \ {0}
    PROVE  /\ IsFiniteSet((1..n) \cap T)
           /\ Among(T, n) = Among(T, n - 1) + (IF n \in T THEN 1 ELSE 0)
           /\ Among(T, n - 1) \in Nat
<1> DEFINE U == (1..(n - 1)) \cap T
           V == (1..n) \cap T
<1>1. \A m \in Nat : IsFiniteSet((1..m) \cap T) /\ Cardinality((1..m) \cap T) \in Nat
  <2> SUFFICES ASSUME NEW m \in Nat
               PROVE  IsFiniteSet((1..m) \cap T) /\ Cardinality((1..m) \cap T) \in Nat
    OBVIOUS
  <2>1. IsFiniteSet(1..m)
    BY FS_Interval
  <2>2. (1..m) \cap T \in SUBSET (1..m)
    OBVIOUS
  <2> QED
    BY <2>1, <2>2, FS_Subset, FS_CardinalityType
<1>2. n - 1 \in Nat /\ n \in Nat
  OBVIOUS
<1>3. IsFiniteSet(U) /\ Cardinality(U) \in Nat /\ IsFiniteSet(V)
  BY <1>1, <1>2
<1>4. n \in 1..n /\ n \notin U /\ \A m : m \in 1..n <=> (m \in 1..(n - 1) \/ m = n)
  OBVIOUS
<1>5. V = U \cup (IF n \in T THEN {n} ELSE {})
  <2>1. \A m : m \in V <=> m \in U \cup (IF n \in T THEN {n} ELSE {})
    BY <1>4, Zenon
  <2> QED
    BY <2>1, Zenon
<1>6. n \notin U
  BY <1>4
<1> HIDE DEF U, V
<1>7. CASE n \in T
  <2>1. V = U \cup {n}
    BY <1>5, <1>7, Zenon
  <2>2. Cardinality(V) = Cardinality(U) + 1
    BY <1>3, <1>6, <2>1, FS_AddElement
  <2> QED
    BY <1>3, <1>7, <2>2 DEF Among, U, V
<1>8. CASE n \notin T
  <2>1. V = U
    BY <1>5, <1>8, Zenon
  <2>2. Cardinality(V) = Cardinality(U)
    BY <2>1
  <2> QED
    BY <1>3, <1>8, <2>2 DEF Among, U, V
<1> QED
  BY <1>7, <1>8

\* No test is among the first none.
LEMMA NoneAmong == \A T : Among(T, 0) = 0
<1> SUFFICES ASSUME NEW T PROVE Among(T, 0) = 0
  OBVIOUS
<1>1. (1..0) \cap T = {}
  OBVIOUS
<1> QED
  BY <1>1, FS_EmptySet DEF Among

\* What another handler's step leaves of a call.
LEMMA AnswerUntouched ==
    ASSUME NEW d \in Calls, AnswerOf(d),
           pc'[d] = pc[d], pos'[d] = pos[d], results'[d] = results[d],
           passed'[d] = passed[d], pValues'[d] = pValues[d], response'[d] = response[d]
    PROVE  AnswerOf(d)'
<1>1. Rate(d)' = Rate(d)
  BY DEF Rate
<1> QED
  BY <1>1, Zenon DEF AnswerOf

\* A handler's own steps.
LEMMA AnswerOwn ==
    ASSUME IInv, NEW c \in Calls, AnswerOf(c), DOMAIN response = Calls,
           Deny(c) \/ Receive(c) \/ Handle(c) \/ Panic(c)
    PROVE  AnswerOf(c)'
<1> USE DEF IInv, TypeOK, Looping, InFlight
<1>1. CASE Deny(c) \/ Receive(c) \/ ExecuteFails(c)
  <2>1. pc'[c] \notin Looping
    BY <1>1 DEF Deny, Receive, ExecuteFails
  <2> QED
    BY <2>1 DEF AnswerOf
<1>2. CASE Panic(c)
  <2>1. pc'[c] = "lost"
    BY <1>2 DEF Panic
  <2> QED
    BY <2>1 DEF AnswerOf
<1>3. CASE Execute(c)
  <2>1. pc'[c] = "counting" /\ UNCHANGED <<pos, passed, pValues>>
        /\ pos[c] = 1 /\ passed[c] = 0 /\ pValues[c] = <<>>
    BY <1>3 DEF Execute, HandlerInv
  <2>2. Among(Ran(results'[c]), 0) = 0 /\ Among(Passing(results'[c]), 0) = 0
    BY NoneAmong
  <2>3. pos'[c] - 1 = 0 /\ Len(pValues'[c]) = 0
    BY <2>1
  <2> QED
    BY <2>1, <2>2, <2>3 DEF AnswerOf
<1>4. CASE SkipTest(c)
  <2>1. /\ pc[c] = "counting" /\ pc' = pc /\ pos[c] \in Nat \ {0} /\ pos'[c] = pos[c] + 1
        /\ UNCHANGED <<results, passed, pValues, response>>
        /\ ~ (results[c][pos[c]].p >= 0)
    BY <1>4 DEF SkipTest, InLoop, Counts, Current
  <2>2. pos[c] \notin Ran(results[c]) /\ pos[c] \notin Passing(results[c])
    <3>1. pos[c] \in Tests => results[c][pos[c]].p \in Int
      BY <2>1, ServiceAssumption DEF HandlerInv
    <3> QED
      BY <2>1, <3>1 DEF Ran, Passing, Alpha
  <2>3. /\ Among(Ran(results[c]), pos[c]) = Among(Ran(results[c]), pos[c] - 1)
        /\ Among(Passing(results[c]), pos[c]) = Among(Passing(results[c]), pos[c] - 1)
    <3> DEFINE a == Among(Ran(results[c]), pos[c] - 1)
               b == Among(Passing(results[c]), pos[c] - 1)
    <3>1. /\ Among(Ran(results[c]), pos[c]) = a + 0 /\ a \in Nat
          /\ Among(Passing(results[c]), pos[c]) = b + 0 /\ b \in Nat
      BY <2>1, <2>2, NextAmong, Zenon
    <3> HIDE DEF a, b
    <3>2. a + 0 = a /\ b + 0 = b
      BY <3>1
    <3> QED
      BY <3>1, <3>2, Zenon DEF a, b
  <2>4. pos'[c] - 1 = pos[c]
    BY <2>1
  <2> QED
    BY <2>1, <2>3, <2>4 DEF AnswerOf
<1>5. CASE CountTest(c)
  <2>1. /\ pc[c] = "counting" /\ pc'[c] = "gauging" /\ pos[c] \in Nat \ {0}
        /\ pos[c] \in Tests /\ passed[c] \in Nat
        /\ passed'[c] = IF Status(results[c][pos[c]].p) = "pass"
                        THEN passed[c] + 1 ELSE passed[c]
        /\ UNCHANGED <<pos, results, pValues, response>>
    BY <1>5 DEF CountTest, InLoop, Counts, Current, Tests
  <2>2. Status(results[c][pos[c]].p) = "pass" <=> pos[c] \in Passing(results[c])
    BY <2>1 DEF Status, Passing
  <2>3. /\ Among(Passing(results[c]), pos[c]) =
              Among(Passing(results[c]), pos[c] - 1)
                + (IF pos[c] \in Passing(results[c]) THEN 1 ELSE 0)
    <3>1. \A T, n : n \in Nat \ {0} =>
             Among(T, n) = Among(T, n - 1) + (IF n \in T THEN 1 ELSE 0)
      BY NextAmong, Zenon
    <3> QED
      BY <2>1, <3>1, Zenon
  <2>4. passed[c] = Among(Passing(results[c]), pos[c] - 1)
        /\ Len(pValues[c]) = Among(Ran(results[c]), pos[c] - 1)
    BY <2>1 DEF AnswerOf
  <2>5. passed'[c] = Among(Passing(results[c]), pos[c])
    BY <2>1, <2>2, <2>3, <2>4
  <2> QED
    BY <2>1, <2>4, <2>5 DEF AnswerOf
<1>6. CASE SetPValue(c)
  <2>1. /\ pc[c] = "gauging" /\ pc'[c] = "counting" /\ pos[c] \in Nat \ {0}
        /\ pos[c] \in Tests /\ results[c] \in [Tests -> Outcomes]
        /\ results[c][pos[c]].p >= 0
        /\ pValues'[c] = Append(pValues[c], results[c][pos[c]].p)
        /\ pos'[c] = pos[c] + 1
        /\ UNCHANGED <<results, passed, response>>
    BY <1>6 DEF SetPValue, HandlerInv, Current
  <2>2. Len(pValues'[c]) = Len(pValues[c]) + 1
    <3>1. results[c][pos[c]].p \in Int /\ pValues[c] \in Seq(Int)
      BY <2>1, ServiceAssumption
    <3> QED
      BY <2>1, <3>1
  <2>3. pos[c] \in Ran(results[c])
    BY <2>1 DEF Ran
  <2>4. Among(Ran(results[c]), pos[c]) = Among(Ran(results[c]), pos[c] - 1) + 1
    BY <2>1, <2>3, NextAmong
  <2>5. pos'[c] - 1 = pos[c]
    BY <2>1
  <2> QED
    BY <2>1, <2>2, <2>4, <2>5 DEF AnswerOf
<1>7. CASE ComputeRate(c)
  <2>1. /\ pc[c] = "counting" /\ pc'[c] = "publishing" /\ pos[c] = NumTests + 1
        /\ UNCHANGED <<pos, results, passed, pValues, response>>
    BY <1>7, ServiceAssumption DEF ComputeRate, AfterLoop
  <2> QED
    BY <2>1 DEF AnswerOf
<1>8. CASE PublishRate(c)
  <2>1. /\ pc[c] = "publishing" /\ pc'[c] = "answered" /\ pValues[c] # <<>>
        /\ UNCHANGED <<pos, results, passed, pValues>>
        /\ Respond(c, Rate(c))
    BY <1>8 DEF PublishRate, HandlerInv
  <2>2. /\ response'[c].run = Len(pValues[c])
        /\ response'[c].skipped = NumTests - Len(pValues[c])
        /\ response'[c].compliant <=> Len(pValues[c]) = NumTests
        /\ response'[c].rate = Rate(c)
    BY <2>1 DEF Respond
  <2>3. Rate(c)' = Rate(c)
    BY <2>1 DEF Rate
  <2> QED
    BY <2>1, <2>2, <2>3 DEF AnswerOf
<1>9. CASE RespondWithoutTests(c)
  <2>1. /\ pc[c] = "counting" /\ pc'[c] = "answered" /\ pValues[c] = <<>>
        /\ pos[c] = NumTests + 1
        /\ UNCHANGED <<pos, results, passed, pValues>>
        /\ Respond(c, <<0, 1>>)
    BY <1>9, ServiceAssumption DEF RespondWithoutTests, AfterLoop
  <2>2. /\ response'[c].run = Len(pValues[c])
        /\ response'[c].skipped = NumTests - Len(pValues[c])
        /\ response'[c].compliant <=> Len(pValues[c]) = NumTests
        /\ response'[c].rate = <<0, 1>>
    BY <2>1 DEF Respond
  <2> QED
    BY <2>1, <2>2 DEF AnswerOf
<1> QED
  BY <1>1, <1>2, <1>3, <1>4, <1>5, <1>6, <1>7, <1>8, <1>9 DEF Handle
\* Every step keeps every call's part.
LEMMA AnswerStep == IInv /\ AnswerInv /\ [Next]_vars => AnswerInv'
<1> SUFFICES ASSUME IInv, AnswerInv, [Next]_vars PROVE AnswerInv'
  OBVIOUS
<1>1. CASE UNCHANGED vars
  BY <1>1, Zenon DEF AnswerInv, AnswerOf, Rate, vars, handlerVars
<1>2. ASSUME NEW c \in Calls, Deny(c) \/ Receive(c) \/ Handle(c) \/ Panic(c)
      PROVE  AnswerInv'
  <2>1. DOMAIN response' = Calls
    BY <1>2 DEF AnswerInv, Deny, Receive, Handle, Panic, Execute, ExecuteFails, SkipTest,
                CountTest, SetPValue, ComputeRate, PublishRate, RespondWithoutTests, Respond
  <2>2. AnswerOf(c)'
    BY <1>2, AnswerOwn DEF AnswerInv
  <2>3. ASSUME NEW d \in Calls, d # c PROVE AnswerOf(d)'
    <3>1. /\ pos'[d] = pos[d] /\ results'[d] = results[d] /\ passed'[d] = passed[d]
          /\ pValues'[d] = pValues[d] /\ response'[d] = response[d]
      BY <1>2, <2>3 DEF AnswerInv, IInv, TypeOK, Deny, Receive, Handle, Panic, Execute,
              ExecuteFails, SkipTest, CountTest, SetPValue, ComputeRate, PublishRate,
              RespondWithoutTests, Respond
    <3>2. pc'[d] = pc[d] \/ pc'[d] = "lost"
      BY <1>2, <2>3 DEF IInv, TypeOK, Deny, Receive, Handle, Panic, Execute,
              ExecuteFails, SkipTest, CountTest, SetPValue, ComputeRate, PublishRate,
              RespondWithoutTests
    <3>3. CASE pc'[d] = pc[d]
      BY <3>1, <3>3, AnswerUntouched DEF AnswerInv
    <3>4. CASE pc'[d] = "lost"
      BY <3>4 DEF AnswerOf, Looping
    <3> QED
      BY <3>2, <3>3, <3>4
  <2> QED
    BY <2>1, <2>2, <2>3 DEF AnswerInv
<1> QED
  BY <1>1, <1>2 DEF Next, AllServed

LEMMA AnswerHolds == Spec => []AnswerInv
<1>1. Init => AnswerInv
  BY DEF Init, AnswerInv, AnswerOf, Looping
<1> QED
  BY <1>1, AnswerStep, InvariantHolds, PTL DEF Spec

\* Among all tests a set of tests counts in full.
LEMMA AllAmong ==
    ASSUME NEW T \in SUBSET Tests
    PROVE  /\ Among(T, NumTests) = Cardinality(T)
           /\ Among(T, NumTests) = NumTests <=> T = Tests
           /\ Among(T, NumTests) = 0 <=> T = {}
<1>1. IsFiniteSet(Tests) /\ Cardinality(Tests) = NumTests
  BY ServiceAssumption, FS_Interval DEF Tests
<1>2. (1..NumTests) \cap T = T
  BY DEF Tests
<1>3. IsFiniteSet(T)
  BY <1>1, FS_Subset
<1>4. Cardinality(T) = NumTests <=> T = Tests
  BY <1>1, FS_Subset
<1>5. Cardinality(T) = 0 <=> T = {}
  BY <1>3, FS_EmptySet
<1> QED
  BY <1>2, <1>4, <1>5 DEF Among

\* Whatever the other handlers do meanwhile, an answer splits the suite into
\* run and skipped tests and gives the pass rate of the results of its own call
\* (service.go:100-173).
THEOREM AnswersAreRight == Spec => []AnswersMatchResults
<1>1. IInv /\ AnswerInv => AnswersMatchResults
  <2> SUFFICES ASSUME IInv, AnswerInv, NEW c \in Calls, pc[c] = "answered"
               PROVE  LET ran == Ran(results[c])
                          ok  == Passing(results[c])
                      IN /\ response[c].run = Cardinality(ran)
                         /\ response[c].run + response[c].skipped = NumTests
                         /\ response[c].compliant <=> ran = Tests
                         /\ response[c].rate =
                               IF ran = {} THEN <<0, 1>>
                               ELSE <<Cardinality(ok), Cardinality(ran)>>
    BY Zenon DEF AnswersMatchResults, Ran, Passing
  <2>1. /\ Len(pValues[c]) = Among(Ran(results[c]), pos[c] - 1)
        /\ passed[c] = Among(Passing(results[c]), pos[c] - 1)
        /\ pos[c] = NumTests + 1
        /\ response[c].run = Len(pValues[c])
        /\ response[c].skipped = NumTests - Len(pValues[c])
        /\ response[c].compliant <=> Len(pValues[c]) = NumTests
        /\ response[c].rate = IF pValues[c] = <<>> THEN <<0, 1>> ELSE Rate(c)
    BY DEF AnswerInv, AnswerOf, Looping
  <2>2. pos[c] - 1 = NumTests
    BY <2>1, ServiceAssumption
  <2>3. Ran(results[c]) \in SUBSET Tests /\ Passing(results[c]) \in SUBSET Tests
    BY DEF Ran, Passing
  <2>4. /\ Len(pValues[c]) = Cardinality(Ran(results[c]))
        /\ Len(pValues[c]) = NumTests <=> Ran(results[c]) = Tests
        /\ Len(pValues[c]) = 0 <=> Ran(results[c]) = {}
        /\ passed[c] = Cardinality(Passing(results[c]))
    <3>1. /\ Len(pValues[c]) = Among(Ran(results[c]), NumTests)
          /\ passed[c] = Among(Passing(results[c]), NumTests)
      BY <2>1, <2>2
    <3>2. /\ Among(Ran(results[c]), NumTests) = Cardinality(Ran(results[c]))
          /\ Among(Ran(results[c]), NumTests) = NumTests <=> Ran(results[c]) = Tests
          /\ Among(Ran(results[c]), NumTests) = 0 <=> Ran(results[c]) = {}
          /\ Among(Passing(results[c]), NumTests) = Cardinality(Passing(results[c]))
      BY <2>3, AllAmong, Zenon
    <3> QED
      BY <3>1, <3>2
  <2>5. /\ Len(pValues[c]) \in Nat
        /\ pValues[c] = <<>> <=> Len(pValues[c]) = 0
    <3>1. pValues[c] \in Seq(Int)
      BY DEF IInv, TypeOK
    <3> QED
      BY <3>1
  <2>6. response[c].run + response[c].skipped = NumTests
    BY <2>1, <2>5, ServiceAssumption
  <2> QED
    BY <2>1, <2>4, <2>5, <2>6, Zenon DEF Rate
<1> QED
  BY <1>1, InvariantHolds, AnswerHolds, PTL-----------------------------------------------------------------------------
(* The gauges. *)

\* Call c of this process has set the gauge of test t.
HasSet(c, t) == /\ c \in session /\ pc[c] \in Looping
                /\ t < pos[c] /\ results[c][t].p >= 0

\* The gauge of t shows the p-value of a call that has set it.
ShowsOne(t) == \E c \in Calls : HasSet(c, t) /\ pValue[t] = results[c][t].p

RatePublished ==
    \/ lastOverallPassRate = <<0, 1>>
    \/ \E c \in session : pc[c] = "answered" /\ response[c].rate = lastOverallPassRate

GaugeInv ==
    /\ \A t \in Tests : (\E c \in Calls : HasSet(c, t)) => ShowsOne(t)
    /\ \A t \in Tests : (\A c \in Calls : ~ HasSet(c, t)) => pValue[t] = NoValue
    /\ RatePublished

\* The calls that are past a gauge are those that have set it.
LEMMA PastHaveSet ==
    ASSUME IInv, NEW t \in Tests
    PROVE  {c \in session : Recorded(c, t) /\ t < pos[c]} = {c \in Calls : HasSet(c, t)}
<1>1. \A c \in session : c \in Calls /\ pos[c] \in Int
  BY ServiceAssumption DEF IInv, TypeOK
<1>2. \A c \in session : Recorded(c, t) /\ t < pos[c] <=> HasSet(c, t)
  BY <1>1, ServiceAssumption DEF Recorded, Observed, HasSet, Looping, Tests
<1> QED
  BY <1>1, <1>2 DEF HasSet

\* A step that moves no call past a gauge, and leaves the gauges alone.
LEMMA GaugesUntouched ==
    ASSUME GaugeInv, pValue' = pValue,
           \A d \in Calls, t \in Tests : HasSet(d, t)' <=> HasSet(d, t),
           \A d \in Calls, t \in Tests : HasSet(d, t) => results'[d] = results[d],
           RatePublished'
    PROVE  GaugeInv'
<1>1. ASSUME NEW t \in Tests, NEW c \in Calls, HasSet(c, t)'
      PROVE  ShowsOne(t)'
  <2>1. PICK d \in Calls : HasSet(d, t) /\ pValue[t] = results[d][t].p
    BY <1>1 DEF GaugeInv, ShowsOne
  <2> QED
    BY <2>1 DEF ShowsOne
<1>2. ASSUME NEW t \in Tests, \A c \in Calls : ~ HasSet(c, t)'
      PROVE  pValue'[t] = NoValue
  BY <1>2 DEF GaugeInv
<1> QED
  BY <1>1, <1>2, Zenon DEF GaugeInv

\* The rate shown stays one that an answer of this process gave.
LEMMA RateStaysPublished ==
    ASSUME IInv, AnswerInv, AnswerInv', RatePublished, NEW c \in Calls,
           Deny(c) \/ Receive(c) \/ Handle(c)
    PROVE  RatePublished'
<1> USE DEF IInv, TypeOK, SessionInv, InFlight
<1>1. CASE PublishRate(c)
  <2>1. /\ pc[c] = "publishing" /\ pc'[c] = "answered" /\ c \in session
        /\ session' = session /\ lastOverallPassRate' = Rate(c)
        /\ UNCHANGED <<passed, pValues>> /\ pValues[c] # <<>>
    BY <1>1 DEF PublishRate, HandlerInv
  <2>2. response'[c].rate = Rate(c)
    BY <1>1 DEF PublishRate, Respond, AnswerInv
  <2> QED
    BY <2>1, <2>2 DEF RatePublished
<1>2. CASE ~ PublishRate(c)
  <2>1. /\ lastOverallPassRate' = lastOverallPassRate
        /\ \A d \in session : d \in session'
    BY <1>2 DEF Deny, Receive, Handle, Execute, ExecuteFails, SkipTest, CountTest, SetPValue,
                ComputeRate, RespondWithoutTests, metricVars
  <2>2. \A d \in Calls : pc[d] = "answered" => pc'[d] = "answered" /\ response'[d] = response[d]
    BY <1>2 DEF AnswerInv, Deny, Receive, Handle, Execute, ExecuteFails, SkipTest, CountTest,
                SetPValue, ComputeRate, RespondWithoutTests, Respond, InLoop, AfterLoop
  <2>3. session \in SUBSET Calls
    OBVIOUS
  <2> QED
    BY <2>1, <2>2, <2>3 DEF RatePublished
<1> QED
  BY <1>1, <1>2

\* The steps of a handler that set no gauge of a test.
LEMMA GaugeStepPlain ==
    ASSUME IInv, AnswerInv, AnswerInv', GaugeInv, NEW c \in Calls,
           Deny(c) \/ Receive(c) \/ Handle(c), ~ SetPValue(c)
    PROVE  GaugeInv'
<1> USE DEF IInv, TypeOK, SessionInv, InFlight, Looping
<1>1. pValue' = pValue
  BY DEF Deny, Receive, Handle, Execute, ExecuteFails, SkipTest, CountTest,
         ComputeRate, PublishRate, RespondWithoutTests, metricVars
<1>2. RatePublished'
  BY RateStaysPublished DEF GaugeInv
<1>3. ASSUME NEW d \in Calls, d # c, NEW t \in Tests
      PROVE  (HasSet(d, t)' <=> HasSet(d, t)) /\ results'[d] = results[d]
  <2>1. /\ pc'[d] = pc[d] /\ pos'[d] = pos[d] /\ results'[d] = results[d]
        /\ d \in session' <=> d \in session
    BY <1>3 DEF Deny, Receive, Handle, Execute, ExecuteFails, SkipTest, CountTest,
                ComputeRate, PublishRate, RespondWithoutTests
  <2> QED
    BY <2>1 DEF HasSet
<1>4. ASSUME NEW t \in Tests
      PROVE  (HasSet(c, t)' <=> HasSet(c, t)) /\ (HasSet(c, t) => results'[c] = results[c])
  <2>1. CASE Deny(c) \/ Receive(c) \/ ExecuteFails(c)
    BY <2>1 DEF Deny, Receive, ExecuteFails, HasSet
  <2>2. CASE Execute(c)
    <3>1. pc[c] = "running" /\ pos[c] = 1 /\ pos' = pos
      BY <2>2 DEF Execute, HandlerInv
    <3>2. ~ (t < pos[c])
      BY <3>1 DEF Tests
    <3> QED
      BY <3>1, <3>2 DEF HasSet
  <2>3. CASE SkipTest(c)
    <3>1. /\ pc' = pc /\ pos'[c] = pos[c] + 1 /\ results' = results /\ session' = session
          /\ ~ (results[c][pos[c]].p >= 0) /\ pos[c] \in Int
      BY <2>3, ServiceAssumption DEF SkipTest, Counts, Current
    <3>2. t < pos[c] + 1 <=> t < pos[c] \/ t = pos[c]
      BY <3>1 DEF Tests
    <3> QED
      BY <3>1, <3>2 DEF HasSet
  <2>4. CASE CountTest(c) \/ ComputeRate(c) \/ PublishRate(c) \/ RespondWithoutTests(c)
    <3>1. /\ pc[c] \in Looping /\ pc'[c] \in Looping /\ pos' = pos /\ results' = results
          /\ session' = session
      BY <2>4 DEF CountTest, ComputeRate, PublishRate, RespondWithoutTests, InLoop, AfterLoop
    <3> QED
      BY <3>1 DEF HasSet
  <2> QED
    BY <2>1, <2>2, <2>3, <2>4 DEF Handle
<1> QED
  BY <1>1, <1>2, <1>3, <1>4, GaugesUntouched

\* The step that sets one: the gauge shows the value of the call that set it.
LEMMA GaugeStepSet ==
    ASSUME IInv, AnswerInv, AnswerInv', GaugeInv, NEW c \in Calls, SetPValue(c)
    PROVE  GaugeInv'
<1> USE DEF IInv, TypeOK, SessionInv, InFlight, Looping
<1>0. PICK i \in Tests : i = pos[c]
  BY DEF SetPValue, HandlerInv
<1>1. /\ pc[c] = "gauging" /\ pc'[c] = "counting" /\ c \in session /\ session' = session
      /\ i \in Tests /\ i \in Int /\ pos'[c] = i + 1 /\ results' = results
      /\ results[c][i].p >= 0
      /\ pValue' = [pValue EXCEPT ![i] = results[c][i].p]
  BY <1>0 DEF SetPValue, HandlerInv, GaugeValue, Current, Tests
<1>2. RatePublished'
  BY RateStaysPublished DEF GaugeInv, Handle
<1>3. ASSUME NEW d \in Calls, NEW t \in Tests
      PROVE  HasSet(d, t)' <=> (HasSet(d, t) \/ (d = c /\ t = i))
  <2>1. CASE d # c
    <3>1. pc'[d] = pc[d] /\ pos'[d] = pos[d]
      BY <2>1 DEF SetPValue
    <3> QED
      BY <1>0, <1>1, <2>1, <3>1 DEF HasSet
  <2>2. CASE d = c
    <3>1. t < i + 1 <=> t < i \/ t = i
      BY <1>1 DEF Tests
    <3> QED
      BY <1>0, <1>1, <2>2, <3>1 DEF HasSet
  <2> QED
    BY <2>1, <2>2
<1>4. HasSet(c, i)' /\ pValue'[i] = results'[c][i].p
  BY <1>1, <1>3
<1>5. ASSUME NEW t \in Tests, t # i, NEW d \in Calls, HasSet(d, t)' PROVE ShowsOne(t)'
  <2>1. PICK e \in Calls : HasSet(e, t) /\ pValue[t] = results[e][t].p
    BY <1>3, <1>5 DEF GaugeInv, ShowsOne
  <2> QED
    BY <1>1, <1>3, <1>5, <2>1 DEF ShowsOne
<1>6. ASSUME NEW t \in Tests, NEW d \in Calls, HasSet(d, t)' PROVE ShowsOne(t)'
  BY <1>4, <1>5, <1>6 DEF ShowsOne
<1>7. ASSUME NEW t \in Tests, \A d \in Calls : ~ HasSet(d, t)' PROVE pValue'[t] = NoValue
  <2>1. t # i
    BY <1>4, <1>7
  <2> QED
    BY <1>1, <1>3, <1>7, <2>1 DEF GaugeInv
<1> QED
  BY <1>2, <1>6, <1>7, Zenon DEF GaugeInv

\* Every step keeps the gauges measured.
LEMMA GaugeStep == IInv /\ AnswerInv /\ AnswerInv' /\ GaugeInv /\ [Next]_vars => GaugeInv'
<1> SUFFICES ASSUME IInv, AnswerInv, AnswerInv', GaugeInv, [Next]_vars PROVE GaugeInv'
  OBVIOUS
<1>1. CASE UNCHANGED vars
  BY <1>1, Zenon DEF GaugeInv, HasSet, ShowsOne, RatePublished, vars, handlerVars, metricVars
<1>2. ASSUME NEW c \in Calls, Panic(c) PROVE GaugeInv'
  <2>1. /\ session' = {} /\ pValue' = [t \in Tests |-> NoValue]
        /\ lastOverallPassRate' = <<0, 1>>
    BY <1>2 DEF Panic, FreshMetrics
  <2> QED
    BY <2>1 DEF GaugeInv, HasSet, RatePublished
<1>3. ASSUME NEW c \in Calls, Deny(c) \/ Receive(c) \/ Handle(c) PROVE GaugeInv'
  BY <1>3, GaugeStepPlain, GaugeStepSet
<1> QED
  BY <1>1, <1>2, <1>3 DEF Next, AllServed

\* However the handlers interleave, and after any restart, no gauge shows a
\* value that no call of the running process measured or computed
\* (service.go:131, 157).
THEOREM GaugesAreTrue == Spec => []GaugesAreMeasured
<1>1. Init => GaugeInv
  BY DEF Init, GaugeInv, HasSet, RatePublished, FreshMetrics
<1>2. Spec => []GaugeInv
  BY <1>1, GaugeStep, InvariantHolds, AnswerHolds, PTL DEF Spec
<1>3. IInv /\ GaugeInv => GaugesAreMeasured
  <2> SUFFICES ASSUME IInv, GaugeInv PROVE GaugesAreMeasured
    OBVIOUS
  <2>1. ASSUME NEW t \in Tests
        PROVE  LET past == {c \in session : Recorded(c, t) /\ t < pos[c]}
               IN IF past = {} THEN pValue[t] = NoValue
                  ELSE \E c \in past : pValue[t] = results[c][t].p
    <3>1. {c \in session : Recorded(c, t) /\ t < pos[c]} = {c \in Calls : HasSet(c, t)}
      BY PastHaveSet
    <3>2. CASE \E c \in Calls : HasSet(c, t)
      BY <3>1, <3>2 DEF GaugeInv, ShowsOne
    <3>3. CASE \A c \in Calls : ~ HasSet(c, t)
      BY <3>1, <3>3 DEF GaugeInv
    <3> QED
      BY <3>2, <3>3
  <2> QED
    BY <2>1 DEF GaugeInv, RatePublished, GaugesAreMeasured
<1> QED
  BY <1>2, <1>3, InvariantHolds, PTL-----------------------------------------------------------------------------
(* The refinement of SuiteLedger. *)

LedgerState == [c \in Calls |-> PhaseOf(c)]
LedgerTally == [t \in Tests |-> [v \in Statuses |-> testsTotal[t][v] - Unfinished(t, v)]]

\* The calls answered by this process in which test t had the verdict v.
Told(t, v) == {c \in Calls : /\ c \in session /\ pc[c] = "answered"
                             /\ results[c][t].p >= 0 /\ Status(results[c][t].p) = v}

\* The counters without the calls still being served tell of the answers only.
LEMMA TallyTellsOfAnswers ==
    IInv /\ AnswerInv =>
        LedgerTally = [t \in Tests |-> [v \in Statuses |-> Cardinality(Told(t, v))]]
<1> SUFFICES ASSUME IInv, AnswerInv, NEW t \in Tests, NEW v \in Statuses
             PROVE  testsTotal[t][v] - Unfinished(t, v) = Cardinality(Told(t, v))
  BY DEF LedgerTally
<1> DEFINE U == {c \in Calls :
                    Recorded(c, t) /\ pc[c] \in InFlight /\ Status(results[c][t].p) = v}
<1>1. CountedAs(t, v) = Told(t, v) \cup U
  <2>1. ASSUME NEW c \in Calls
        PROVE  c \in CountedAs(t, v) <=> c \in Told(t, v) \/ c \in U
    <3>1. (v = "pass" <=> results[c][t].p >= Alpha) <=> Status(results[c][t].p) = v
      BY DEF Status, Statuses
    <3>2. Recorded(c, t) => pc[c] \in InFlight \/ (pc[c] = "answered" /\ c \in session)
      BY DEF Recorded, Observed, InFlight
    <3>3. pc[c] = "answered" /\ c \in session /\ results[c][t].p >= 0 => Recorded(c, t)
      BY ServiceAssumption DEF AnswerInv, AnswerOf, Looping, Recorded, Observed, Tests
    <3>4. Recorded(c, t) => results[c][t].p >= 0
      BY DEF Recorded
    <3> QED
      BY <3>1, <3>2, <3>3, <3>4, Zenon DEF CountedAs, Told
  <2> QED
    BY <2>1 DEF CountedAs, Told
<1>2. Told(t, v) \cap U = {}
  BY DEF Told, InFlight
<1>3. IsFiniteSet(Told(t, v)) /\ IsFiniteSet(U)
  <2>1. Told(t, v) \in SUBSET Calls /\ U \in SUBSET Calls
    BY DEF Told
  <2> QED
    BY <2>1, ServiceAssumption, FS_Subset
<1>4. Cardinality(Told(t, v)) \in Nat /\ Cardinality(U) \in Nat
  BY <1>3, FS_CardinalityType
<1>5. Unfinished(t, v) = Cardinality(U)
  BY DEF Unfinished
<1> HIDE DEF U
<1>6. Cardinality(CountedAs(t, v)) = Cardinality(Told(t, v)) + Cardinality(U)
  <2>1. Cardinality(Told(t, v) \cap U) = 0
    BY <1>2, FS_EmptySet
  <2>2. Cardinality(Told(t, v) \cup U) =
           Cardinality(Told(t, v)) + Cardinality(U) - Cardinality(Told(t, v) \cap U)
    BY <1>3, FS_Union
  <2> QED
    BY <1>1, <1>4, <2>1, <2>2
<1>7. testsTotal[t][v] = Cardinality(CountedAs(t, v))
  BY DEF IInv, CountersConserved
<1> QED
  BY <1>4, <1>5, <1>6, <1>7

\* The phase of a call at each position of its handler.
LEMMA Phases ==
    ASSUME NEW c \in Calls
    PROVE  /\ pc[c] \in {"idle", "denied"} => PhaseOf(c) = "new"
           /\ pc[c] = "rejected" => PhaseOf(c) = "refused"
           /\ pc[c] \in InFlight => PhaseOf(c) = "admitted"
           /\ pc[c] \in {"failed", "answered", "lost"} => PhaseOf(c) = pc[c]
BY DEF PhaseOf, InFlight

\* Another handler's step changes neither the phase of a call nor what it told.
LEMMA OthersStay ==
    ASSUME IInv, AnswerInv, NEW c \in Calls, Deny(c) \/ Receive(c) \/ Handle(c)
    PROVE  /\ LedgerState' = [LedgerState EXCEPT ![c] = PhaseOf(c)']
           /\ \A d \in Calls, t \in Tests, v \in Statuses :
                 d # c => (d \in Told(t, v)' <=> d \in Told(t, v))
<1>1. ASSUME NEW d \in Calls, d # c
      PROVE  /\ pc'[d] = pc[d] /\ results'[d] = results[d]
             /\ d \in session' <=> d \in session
  BY <1>1 DEF IInv, TypeOK, Deny, Receive, Handle, Execute, ExecuteFails, SkipTest, CountTest,
              SetPValue, ComputeRate, PublishRate, RespondWithoutTests
<1>2. ASSUME NEW d \in Calls, d # c PROVE PhaseOf(d)' = PhaseOf(d)
  BY <1>1, <1>2, Zenon DEF PhaseOf
<1>3. LedgerState' = [LedgerState EXCEPT ![c] = PhaseOf(c)']
  BY <1>2 DEF LedgerState
<1>4. \A d \in Calls, t \in Tests, v \in Statuses :
         d # c => (d \in Told(t, v)' <=> d \in Told(t, v))
  BY <1>1 DEF Told
<1> QED
  BY <1>3, <1>4

\* A step of a call that is not answered tells nothing.
LEMMA NothingMoreTold ==
    ASSUME IInv, AnswerInv, IInv', AnswerInv', NEW c \in Calls,
           Deny(c) \/ Receive(c) \/ Handle(c),
           pc[c] # "answered", pc'[c] # "answered"
    PROVE  LedgerTally' = LedgerTally
<1>1. \A t \in Tests, v \in Statuses : Told(t, v)' = Told(t, v)
  <2> SUFFICES ASSUME NEW t \in Tests, NEW v \in Statuses PROVE Told(t, v)' = Told(t, v)
    OBVIOUS
  <2>1. \A d \in Calls : d # c => (d \in Told(t, v)' <=> d \in Told(t, v))
    BY OthersStay
  <2>2. c \notin Told(t, v) /\ c \notin Told(t, v)'
    BY DEF Told
  <2>3. Told(t, v) \in SUBSET Calls /\ Told(t, v)' \in SUBSET Calls
    BY DEF Told
  <2> QED
    BY <2>1, <2>2, <2>3
<1>2. LedgerTally = [t \in Tests |-> [v \in Statuses |-> Cardinality(Told(t, v))]]
  BY TallyTellsOfAnswers
<1>3. (LedgerTally = [t \in Tests |-> [v \in Statuses |-> Cardinality(Told(t, v))]])'
  <2>1. (IInv /\ AnswerInv =>
          LedgerTally = [t \in Tests |-> [v \in Statuses |-> Cardinality(Told(t, v))]])'
    BY TallyTellsOfAnswers, PTL
  <2> QED
    BY <2>1
<1> QED
  BY <1>1, <1>2, <1>3

\* The verdict of test t in the results of call c.
VerdictOf(c, t) ==
    IF results[c][t].p >= 0 THEN Status(results[c][t].p) ELSE "skip"

\* The step that answers a call tells all its verdicts at once.
LEMMA AnswerTells ==
    ASSUME IInv, AnswerInv, IInv', AnswerInv', NEW c \in Calls,
           PublishRate(c) \/ RespondWithoutTests(c)
    PROVE  LedgerTally' = [t \in Tests |-> [v \in Statuses |->
               LedgerTally[t][v] + (IF VerdictOf(c, t) = v THEN 1 ELSE 0)]]
<1>1. /\ pc[c] \in InFlight /\ pc'[c] = "answered" /\ c \in session /\ session' = session
      /\ results' = results /\ pc[c] # "answered"
  BY DEF PublishRate, RespondWithoutTests, AfterLoop, InFlight, IInv, TypeOK, SessionInv
<1>2. ASSUME NEW t \in Tests, NEW v \in Statuses
      PROVE  Cardinality(Told(t, v)') =
                Cardinality(Told(t, v)) + (IF VerdictOf(c, t) = v THEN 1 ELSE 0)
  <2>1. \A d \in Calls : d # c => (d \in Told(t, v)' <=> d \in Told(t, v))
    BY OthersStay DEF Handle
  <2>2. c \notin Told(t, v) /\ (c \in Told(t, v)' <=> VerdictOf(c, t) = v)
    BY <1>1 DEF Told, VerdictOf, Statuses
  <2>3. Told(t, v) \in SUBSET Calls /\ Told(t, v)' \in SUBSET Calls
    BY DEF Told
  <2>4. CASE VerdictOf(c, t) = v
    <3>1. Told(t, v)' = Told(t, v) \cup {c}
      BY <2>1, <2>2, <2>3, <2>4
    <3>2. Cardinality(Told(t, v) \cup {c}) = Cardinality(Told(t, v)) + 1
      BY <2>2, <2>3, CountOne
    <3> QED
      BY <2>4, <3>1, <3>2
  <2>5. CASE VerdictOf(c, t) # v
    <3>1. Told(t, v)' = Told(t, v)
      BY <2>1, <2>2, <2>3, <2>5
    <3>2. Cardinality(Told(t, v)) \in Nat
      BY <2>3, CountsAreNat
    <3> QED
      BY <2>5, <3>1, <3>2
  <2> QED
    BY <2>4, <2>5
<1>3. LedgerTally = [t \in Tests |-> [v \in Statuses |-> Cardinality(Told(t, v))]]
  BY TallyTellsOfAnswers
<1>4. (LedgerTally = [t \in Tests |-> [v \in Statuses |-> Cardinality(Told(t, v))]])'
  <2>1. (IInv /\ AnswerInv =>
          LedgerTally = [t \in Tests |-> [v \in Statuses |-> Cardinality(Told(t, v))]])'
    BY TallyTellsOfAnswers, PTL
  <2> QED
    BY <2>1
<1> QED
  BY <1>2, <1>3, <1>4
\* Every step of the handlers is a step of the ledger or leaves it as it is.
LEMMA LedgerStep ==
    IInv /\ AnswerInv /\ IInv' /\ AnswerInv' /\ [Next]_vars
        => [Ledger!Next]_(Ledger!ledgerVars)
<1> SUFFICES ASSUME IInv, AnswerInv, IInv', AnswerInv', [Next]_vars
             PROVE  \/ Ledger!Next
                    \/ /\ LedgerState' = LedgerState /\ LedgerTally' = LedgerTally
                       /\ requestsTotal'["success"] = requestsTotal["success"]
                       /\ requestsTotal'["error"] = requestsTotal["error"]
  BY DEF Ledger!ledgerVars, LedgerState, LedgerTally
<1>1. CASE UNCHANGED vars
  <2>1. /\ pc' = pc /\ results' = results /\ pos' = pos /\ session' = session
        /\ testsTotal' = testsTotal /\ requestsTotal' = requestsTotal
    BY <1>1 DEF vars, handlerVars, metricVars
  <2>2. LedgerState' = LedgerState
    <3>1. \A c \in Calls : PhaseOf(c)' = PhaseOf(c)
      BY <2>1, Zenon DEF PhaseOf
    <3> QED
      BY <3>1 DEF LedgerState
  <2>3. LedgerTally' = LedgerTally
    BY <2>1, Zenon DEF LedgerTally, Unfinished, Recorded, Observed
  <2> QED
    BY <2>1, <2>2, <2>3
<1>2. ASSUME NEW c \in Calls, Deny(c) \/ Receive(c) \/ ExecuteFails(c) \/ Execute(c)
                              \/ SkipTest(c) \/ CountTest(c) \/ SetPValue(c) \/ ComputeRate(c)
      PROVE  LedgerState' = [LedgerState EXCEPT ![c] = PhaseOf(c)'] /\ LedgerTally' = LedgerTally
  <2>1. pc[c] # "answered" /\ pc'[c] # "answered"
    BY <1>2 DEF IInv, TypeOK, Deny, Receive, ExecuteFails, Execute, SkipTest, CountTest,
                SetPValue, ComputeRate, InLoop, AfterLoop
  <2>2. Deny(c) \/ Receive(c) \/ Handle(c)
    BY <1>2 DEF Handle
  <2> QED
    BY <2>1, <2>2, OthersStay, NothingMoreTold
<1>3. ASSUME NEW c \in Calls, Receive(c) PROVE Ledger!Next
  <2>1. PICK bytes \in Sizes :
           /\ pc' = [pc EXCEPT ![c] = IF ValidRequest(bytes) THEN "running" ELSE "rejected"]
           /\ requestsTotal' = [requestsTotal EXCEPT ![RequestStatus(bytes)] = @ + 1]
    BY <1>3 DEF Receive
  <2>2. LedgerState[c] = "new"
    <3>1. pc[c] \in {"idle", "denied"}
      BY <1>3 DEF Receive
    <3> QED
      BY <3>1, Phases DEF LedgerState
  <2>3. requestsTotal \in [{"success", "error"} -> Nat] /\ pc \in [Calls -> {"idle"} \cup InFlight \cup Final]
    BY DEF IInv, TypeOK
  <2>4. CASE ValidRequest(bytes)
    <3>1. PhaseOf(c)' = "admitted"
      BY <2>1, <2>3, <2>4 DEF PhaseOf, InFlight
    <3>2. /\ requestsTotal'["success"] = requestsTotal["success"] + 1
          /\ requestsTotal'["error"] = requestsTotal["error"]
      BY <2>1, <2>3, <2>4 DEF RequestStatus
    <3>3. Ledger!Admit(c)
      BY <1>2, <1>3, <2>2, <3>1, <3>2 DEF Ledger!Admit, LedgerState, LedgerTally
    <3> QED
      BY <3>3 DEF Ledger!Next
  <2>5. CASE ~ ValidRequest(bytes)
    <3>1. PhaseOf(c)' = "refused"
      BY <2>1, <2>3, <2>5 DEF PhaseOf, InFlight
    <3>2. /\ requestsTotal'["error"] = requestsTotal["error"] + 1
          /\ requestsTotal'["success"] = requestsTotal["success"]
      BY <2>1, <2>3, <2>5 DEF RequestStatus
    <3>3. Ledger!Refuse(c)
      BY <1>2, <1>3, <2>2, <3>1, <3>2 DEF Ledger!Refuse, LedgerState, LedgerTally
    <3> QED
      BY <3>3 DEF Ledger!Next
  <2> QED
    BY <2>4, <2>5
<1>4. ASSUME NEW c \in Calls, ExecuteFails(c) PROVE Ledger!Next
  <2>1. /\ pc[c] = "running" /\ pc'[c] = "failed" /\ requestsTotal' = requestsTotal
    BY <1>4 DEF ExecuteFails, metricVars, IInv, TypeOK
  <2>2. LedgerState[c] = "admitted" /\ PhaseOf(c)' = "failed"
    BY <2>1 DEF LedgerState, PhaseOf, InFlight
  <2>3. Ledger!Fail(c)
    BY <1>2, <1>4, <2>1, <2>2 DEF Ledger!Fail, LedgerState, LedgerTally
  <2> QED
    BY <2>3 DEF Ledger!Next
<1>5. ASSUME NEW c \in Calls, PublishRate(c) \/ RespondWithoutTests(c) PROVE Ledger!Next
  <2>1. /\ pc[c] \in InFlight /\ pc'[c] = "answered" /\ requestsTotal' = requestsTotal
    BY <1>5 DEF PublishRate, RespondWithoutTests, AfterLoop, InFlight, metricVars, IInv, TypeOK
  <2>2. LedgerState[c] = "admitted" /\ PhaseOf(c)' = "answered"
    BY <2>1 DEF LedgerState, PhaseOf, InFlight
  <2>3. LedgerState' = [LedgerState EXCEPT ![c] = "answered"]
    BY <1>5, <2>2, OthersStay DEF Handle
  <2>4. LedgerTally' = [t \in Tests |-> [v \in Statuses |->
               LedgerTally[t][v] + (IF VerdictOf(c, t) = v THEN 1 ELSE 0)]]
    BY <1>5, AnswerTells
  <2>5. [t \in Tests |-> VerdictOf(c, t)] \in [Tests -> {"pass", "fail", "skip"}]
    BY DEF VerdictOf, Status
  <2>6. {"pass", "fail", "skip"} \ {"skip"} = Statuses
    BY DEF Statuses
  <2>7. \E outcome \in [Tests -> {"pass", "fail", "skip"}] :
           LedgerTally' = [t \in Tests |-> [v \in Statuses |->
               LedgerTally[t][v] + (IF outcome[t] = v THEN 1 ELSE 0)]]
    BY <2>4, <2>5
  <2>8. Ledger!Answer(c)
    BY <2>1, <2>2, <2>3, <2>6, <2>7
       DEF Ledger!Answer, Ledger!Counted, LedgerState, LedgerTally
  <2> QED
    BY <2>8 DEF Ledger!Next
<1>6. ASSUME NEW c \in Calls, Panic(c) PROVE Ledger!Next
  <2>1. /\ pc[c] = "running" /\ session' = {}
        /\ pc' = [d \in Calls |-> IF pc[d] \in InFlight THEN "lost" ELSE pc[d]]
        /\ requestsTotal' = [s \in {"success", "error"} |-> 0]
    BY <1>6 DEF Panic, FreshMetrics
  <2>2. LedgerState[c] = "admitted"
    BY <2>1 DEF LedgerState, PhaseOf, InFlight
  <2>3. ASSUME NEW d \in Calls
        PROVE  PhaseOf(d)' = IF LedgerState[d] = "admitted" THEN "lost" ELSE LedgerState[d]
    <3>1. pc[d] \in {"idle"} \cup InFlight \cup Final
      BY DEF IInv, TypeOK
    <3>2. pc'[d] = IF pc[d] \in InFlight THEN "lost" ELSE pc[d]
      BY <2>1
    <3> QED
      BY <3>1, <3>2 DEF LedgerState, PhaseOf, InFlight, Final
  <2>4. LedgerState' = [d \in Calls |->
            IF LedgerState[d] = "admitted" THEN "lost" ELSE LedgerState[d]]
    BY <2>3 DEF LedgerState
  <2>5. \A t \in Tests, v \in Statuses : Told(t, v)' = {}
    BY <2>1 DEF Told
  <2>6. (IInv /\ AnswerInv =>
          LedgerTally = [t \in Tests |-> [v \in Statuses |-> Cardinality(Told(t, v))]])'
    BY TallyTellsOfAnswers, PTL
  <2>7. LedgerTally' = [t \in Tests |-> [v \in Statuses |-> 0]]
    BY <2>5, <2>6, FS_EmptySet
  <2>8. {"pass", "fail", "skip"} \ {"skip"} = Statuses
    BY DEF Statuses
  <2>9. Ledger!Crash
    BY <2>1, <2>2, <2>4, <2>7, <2>8
       DEF Ledger!Crash, Ledger!NothingCounted, Ledger!Counted, LedgerState, LedgerTally
  <2> QED
    BY <2>9 DEF Ledger!Next
<1>7. ASSUME NEW c \in Calls, Deny(c) \/ Execute(c) \/ SkipTest(c) \/ CountTest(c)
                              \/ SetPValue(c) \/ ComputeRate(c)
      PROVE  /\ LedgerState' = LedgerState /\ LedgerTally' = LedgerTally
             /\ requestsTotal' = requestsTotal
  <2>1. PhaseOf(c)' = LedgerState[c]
    <3>1. \/ pc[c] \in InFlight /\ pc'[c] \in InFlight
          \/ pc[c] = "idle" /\ pc'[c] = "denied"
      BY <1>7 DEF IInv, TypeOK, Deny, Execute, SkipTest, CountTest,
                  SetPValue, ComputeRate, InLoop, AfterLoop, InFlight
    <3> QED
      BY <3>1 DEF LedgerState, PhaseOf, InFlight
  <2>2. LedgerState' = LedgerState
    BY <1>2, <1>7, <2>1 DEF LedgerState
  <2>3. requestsTotal' = requestsTotal
    BY <1>7 DEF Deny, Execute, SkipTest, CountTest, SetPValue, ComputeRate, metricVars
  <2> QED
    BY <1>2, <1>7, <2>2, <2>3
<1> QED
  BY <1>1, <1>3, <1>4, <1>5, <1>6, <1>7 DEF Next, Handle, AllServed

\* The interleaved handlers, with a counter written at a time and restarts in
\* between, do what SuiteLedger promises: an answer and its tests' counters
\* change in one indivisible step (service.go and prometheus.go).
THEOREM HandlersImplementLedger == Spec => ImplementsLedger
<1>1. Init => Ledger!Init
  <2> SUFFICES ASSUME Init PROVE Ledger!Init
    OBVIOUS
  <2>1. IInv /\ AnswerInv
    BY InitInv DEF Init, AnswerInv, AnswerOf, Looping
  <2>2. LedgerTally = [t \in Tests |-> [v \in Statuses |-> Cardinality(Told(t, v))]]
    BY <2>1, TallyTellsOfAnswers
  <2>3. \A t \in Tests, v \in Statuses : Told(t, v) = {}
    BY DEF Init, Told
  <2>4. LedgerTally = [t \in Tests |-> [v \in Statuses |-> 0]]
    BY <2>2, <2>3, FS_EmptySet
  <2>5. LedgerState = [c \in Calls |-> "new"]
    <3>1. \A c \in Calls : pc[c] \in {"idle", "denied"}
      BY DEF Init
    <3> QED
      BY <3>1, Phases DEF LedgerState
  <2>6. {"pass", "fail", "skip"} \ {"skip"} = Statuses
    BY DEF Statuses
  <2>7. requestsTotal["success"] = 0 /\ requestsTotal["error"] = 0
    BY DEF Init, FreshMetrics
  <2> QED
    BY <2>4, <2>5, <2>6, <2>7
       DEF Ledger!Init, Ledger!NothingCounted, Ledger!Counted, LedgerState, LedgerTally
<1> QED
  BY <1>1, LedgerStep, InvariantHolds, AnswerHolds, PTL
     DEF Spec, ImplementsLedger, Ledger!Spec
-----------------------------------------------------------------------------
(* The uniformity statistic of an answer.                                  *)

\* The p-values of a bin, the bins' sizes, and the pairs of p-values that share
\* a bin.
InBin(ps, b) == {i \in DOMAIN ps : Bin(ps[i]) = b}
SameBin(ps) == {ij \in (DOMAIN ps) \X (DOMAIN ps) : Bin(ps[ij[1]]) = Bin(ps[ij[2]])}
Sizes10(ps) == [b \in 0..9 |-> Cardinality(InBin(ps, b))]
Squares10(ps) == [b \in 0..9 |-> Sizes10(ps)[b] * Sizes10(ps)[b]]

\* Every p-value has one bin, and two share it exactly when they share the
\* decile, 100 counted with the last one.
LEMMA BinsAreDeciles ==
    ASSUME NEW p \in 0..100, NEW q \in 0..100
    PROVE  /\ Bin(p) \in 0..9
           /\ Bin(p) = Bin(q) <=> SameDecile(p, q)
BY DEF Bin, SameDecile

\* The ten bins hold every p-value, their squares every pair.
LEMMA BinsAddUp ==
    ASSUME NEW ps \in Seq(Int), \A i \in DOMAIN ps : ps[i] \in 0..100
    PROVE  /\ \A b \in 0..9 : Sizes10(ps)[b] \in Nat
           /\ SumFunctionOnSet(Sizes10(ps), 0..9) = Len(ps)
           /\ SumFunctionOnSet(Squares10(ps), 0..9) = Cardinality(SameBin(ps))
<1> DEFINE D == DOMAIN ps
           g == [i \in D |-> Bin(ps[i])]
           pairs == SameBin(ps)
           h == [ij \in pairs |-> Bin(ps[ij[1]])]
<1>1. D = 1..Len(ps) /\ Len(ps) \in Nat
  OBVIOUS
<1>2. IsFiniteSet(D) /\ Cardinality(D) = Len(ps)
  <2>1. \A m \in Nat : IsFiniteSet(1..m) /\ Cardinality(1..m) = m
    BY FS_Interval
  <2> QED
    BY <1>1, <2>1, Zenon
<1>3. IsFiniteSet(0..9)
  BY FS_Interval, 0 \in Int, 9 \in Int
<1>4. \A i \in D : Bin(ps[i]) \in 0..9
  BY BinsAreDeciles
<1>5. \A b : IsFiniteSet(InBin(ps, b)) /\ Cardinality(InBin(ps, b)) \in Nat
  <2>1. \A b : InBin(ps, b) \in SUBSET D
    BY DEF InBin
  <2> QED
    BY <1>2, <2>1, FS_Subset, FS_CardinalityType
<1>6. SumFunctionOnSet(Sizes10(ps), 0..9) = Len(ps)
  <2>1. g \in [D -> 0..9]
    BY <1>4
  <2>2. SumFunctionOnSet([b \in 0..9 |-> Cardinality({i \in D : g[i] = b})], 0..9)
          = Cardinality(D)
    <3> HIDE DEF g, D
    <3> QED
      BY <1>2, <1>3, <2>1, CountsAddUp
  <2>3. \A b : {i \in D : g[i] = b} = InBin(ps, b)
    BY DEF InBin
  <2>4. [b \in 0..9 |-> Cardinality({i \in D : g[i] = b})] = Sizes10(ps)
    <3> HIDE DEF g, D
    <3> QED
      BY <2>3, Zenon DEF Sizes10
  <2> HIDE DEF g, D
  <2> QED
    BY <1>2, <2>2, <2>4
<1>7. IsFiniteSet(pairs)
  <2>1. IsFiniteSet(D \X D)
    BY <1>2, FS_Product
  <2> QED
    BY <2>1, FS_Subset DEF SameBin
<1>8. SumFunctionOnSet(Squares10(ps), 0..9) = Cardinality(pairs)
  <2>1. h \in [pairs -> 0..9]
    BY <1>4 DEF SameBin
  <2>2. SumFunctionOnSet([b \in 0..9 |-> Cardinality({ij \in pairs : h[ij] = b})], 0..9)
          = Cardinality(pairs)
    <3> HIDE DEF h, pairs
    <3> QED
      BY <1>3, <1>7, <2>1, CountsAddUp
  <2>3. \A b : {ij \in pairs : h[ij] = b} = InBin(ps, b) \X InBin(ps, b)
    BY DEF InBin, SameBin
  <2>4. \A b : Cardinality(InBin(ps, b) \X InBin(ps, b))
                 = Cardinality(InBin(ps, b)) * Cardinality(InBin(ps, b))
    BY <1>5, FS_Product
  <2>5. [b \in 0..9 |-> Cardinality({ij \in pairs : h[ij] = b})] = Squares10(ps)
    <3> HIDE DEF h, pairs
    <3>1. \A b \in 0..9 : Cardinality({ij \in pairs : h[ij] = b})
                            = Cardinality(InBin(ps, b)) * Cardinality(InBin(ps, b))
      BY <2>3, <2>4, Zenon
    <3>2. \A b \in 0..9 : Sizes10(ps)[b] = Cardinality(InBin(ps, b))
      BY DEF Sizes10
    <3> QED
      BY <3>1, <3>2, Zenon DEF Squares10
  <2> HIDE DEF h, pairs
  <2> QED
    BY <2>2, <2>5
<1>9. \A b \in 0..9 : Sizes10(ps)[b] \in Nat
  BY <1>5 DEF Sizes10
<1> QED
  BY <1>6, <1>8, <1>9

\* Pearson's statistic of ten bins: the squares of the bins are what the
\* differences from the expected count leave.
LEMMA UniformityCounts ==
    ASSUME NEW ps \in Seq(Int), \A i \in DOMAIN ps : ps[i] \in 0..100
    PROVE  Uniformity(ps).chi2 =
             100 * Cardinality({ij \in (DOMAIN ps) \X (DOMAIN ps) :
                                  SameDecile(ps[ij[1]], ps[ij[2]])})
               - 10 * Len(ps) * Len(ps)
<1> DEFINE len == Len(ps)
           B == Sizes10(ps)
           Q == Squares10(ps)
           diff == [b \in 0..9 |-> 10 * B[b] - len]
           terms == [b \in 0..9 |-> diff[b] * diff[b]]
           mixed == [b \in 0..9 |-> 100 * Q[b] + (0 - 20 * len) * B[b]]
           one == [b \in 0..9 |-> 1]
<1>1. len \in Nat
  OBVIOUS
<1>2. /\ \A b \in 0..9 : B[b] \in Nat
      /\ SumFunctionOnSet(B, 0..9) = len
      /\ SumFunctionOnSet(Q, 0..9) = Cardinality(SameBin(ps))
  BY BinsAddUp
<1>3. SameBin(ps) = {ij \in (DOMAIN ps) \X (DOMAIN ps) : SameDecile(ps[ij[1]], ps[ij[2]])}
  <2>1. \A i, j \in DOMAIN ps : Bin(ps[i]) = Bin(ps[j]) <=> SameDecile(ps[i], ps[j])
    BY BinsAreDeciles
  <2>2. \A ij \in (DOMAIN ps) \X (DOMAIN ps) :
           Bin(ps[ij[1]]) = Bin(ps[ij[2]]) <=> SameDecile(ps[ij[1]], ps[ij[2]])
    BY <2>1
  <2> QED
    BY <2>2, Zenon DEF SameBin
<1>4. IsFiniteSet(0..9) /\ Cardinality(0..9) = 10
  <2>1. 0 \in Int /\ 9 \in Int /\ 9 - 0 + 1 = 10 /\ ~ (0 > 9)
    OBVIOUS
  <2> QED
    BY <2>1, FS_Interval
<1>5. Uniformity(ps).chi2 = SumFunctionOnSet(terms, 0..9)
  <2> DEFINE bins == [b \in 0..9 |-> Cardinality({i \in DOMAIN ps :
                         ps[i] >= 0 /\ ps[i] <= 100 /\ Bin(ps[i]) = b})]
  <2>1. bins = B
    <3>4. \A x \in 0..100 : x >= 0 /\ x <= 100
      OBVIOUS
    <3>5. \A i \in DOMAIN ps : ps[i] >= 0 /\ ps[i] <= 100
      BY <3>4, Zenon
    <3>1. \A b : {i \in DOMAIN ps : ps[i] >= 0 /\ ps[i] <= 100 /\ Bin(ps[i]) = b} = InBin(ps, b)
      BY <3>5, Zenon DEF InBin
    <3>3. \A b \in 0..9 : Cardinality({i \in DOMAIN ps :
             ps[i] >= 0 /\ ps[i] <= 100 /\ Bin(ps[i]) = b}) = Cardinality(InBin(ps, b))
      BY <3>1, Zenon
    <3> QED
      BY <3>3, Zenon DEF Sizes10
  <2> DEFINE t == [b \in 0..9 |-> [c \in 0..9 |-> 10 * bins[c] - len][b]
                                    * [c \in 0..9 |-> 10 * bins[c] - len][b]]
  <2>2. Uniformity(ps).chi2 = SumFunction(t)
    BY DEF Uniformity
  <2>3. t = terms
    <3> HIDE DEF bins, B
    <3> QED
      BY <2>1, Zenon
  <2>4. DOMAIN terms = 0..9
    OBVIOUS
  <2> HIDE DEF t, terms
  <2>5. SumFunction(terms) = SumFunctionOnSet(terms, 0..9)
    BY <2>4, Zenon DEF SumFunction
  <2> QED
    BY <2>2, <2>3, <2>5
<1>6. SumFunctionOnSet(one, 0..9) = 10
  <2>1. [b \in 0..9 |-> IF b \in 0..9 THEN 1 ELSE 0] = one
    OBVIOUS
  <2>2. Cardinality(0..9) = SumFunctionOnSet([b \in 0..9 |-> IF b \in 0..9 THEN 1 ELSE 0], 0..9)
    BY <1>4, CountIsSum
  <2> HIDE DEF one
  <2> QED
    BY <1>4, <2>1, <2>2
<1>7. \A b \in 0..9 : Q[b] \in Int /\ B[b] \in Int /\ Q[b] = B[b] * B[b]
  <2>1. \A b \in 0..9 : Q[b] = B[b] * B[b]
    BY DEF Squares10
  <2>2. \A x \in Nat : x * x \in Int /\ x \in Int
    OBVIOUS
  <2> HIDE DEF B, Q
  <2> QED
    BY <1>2, <2>1, <2>2
<1> HIDE DEF B, Q
<1> DEFINE ten == 0..9
           a == 0 - 20 * len
           c == len * len
<1>8. a \in Int /\ c \in Int /\ 1 \in Int /\ 100 \in Int /\ len \in Int
  BY <1>1
<1>9. \A b \in ten : /\ mixed[b] = 100 * Q[b] + a * B[b]
                     /\ diff[b] = 10 * B[b] - len /\ terms[b] = diff[b] * diff[b]
                     /\ one[b] = 1
  OBVIOUS
<1> HIDE DEF mixed, terms, one, diff, ten
<1>15. \A b \in ten : mixed[b] \in Int /\ one[b] \in Int /\ Q[b] \in Int /\ B[b] \in Int
  <2>1. \A x, y, u \in Int : 100 * x + u * y \in Int
    OBVIOUS
  <2>2. \A b \in ten : Q[b] \in Int /\ B[b] \in Int
    BY <1>7 DEF ten
  <2> HIDE DEF a
  <2> QED
    BY <1>8, <1>9, <2>1, <2>2
<1>10. \A b \in ten : terms[b] = 1 * mixed[b] + c * one[b]
  <2>1. \A x, s \in Int : (10 * x - s) * (10 * x - s)
                             = 1 * (100 * (x * x) + (0 - 20 * s) * x) + (s * s) * 1
    OBVIOUS
  <2> SUFFICES ASSUME NEW b \in ten PROVE terms[b] = 1 * mixed[b] + c * one[b]
    OBVIOUS
  <2>2. Q[b] = B[b] * B[b] /\ B[b] \in Int
    BY <1>7 DEF ten
  <2>3. (10 * B[b] - len) * (10 * B[b] - len)
          = 1 * (100 * (B[b] * B[b]) + a * B[b]) + c * 1
    <3> HIDE DEF len
    <3> QED
      BY <1>8, <2>1, <2>2, Zenon
  <2>4. terms[b] = (10 * B[b] - len) * (10 * B[b] - len)
    BY <1>9, Zenon
  <2>5. mixed[b] = 100 * (B[b] * B[b]) + a * B[b] /\ one[b] = 1
    BY <1>9, <2>2, Zenon
  <2> HIDE DEF a, c, len
  <2> QED
    BY <2>3, <2>4, <2>5, Zenon
<1> HIDE DEF a, c
<1>16. IsFiniteSet(ten)
  BY <1>4 DEF ten
<1>17. SumFunctionOnSet(mixed, ten) = 100 * SumFunctionOnSet(Q, ten) + a * SumFunctionOnSet(B, ten)
  BY <1>8, <1>9, <1>15, <1>16, SumLinear
<1>11. SumFunctionOnSet(terms, ten)
         = 1 * SumFunctionOnSet(mixed, ten) + c * SumFunctionOnSet(one, ten)
  BY <1>8, <1>10, <1>15, <1>16, SumLinear
<1> DEFINE pairs == Cardinality(SameBin(ps))
<1>12. SumFunctionOnSet(Q, 0..9) \in Int
  BY <1>4, <1>7, SumType
<1>13. SumFunctionOnSet(terms, 0..9) = 100 * pairs - 10 * len * len
  <2> HIDE DEF pairs, len
  <2>1. pairs \in Int /\ SumFunctionOnSet(Q, ten) = pairs /\ SumFunctionOnSet(B, ten) = len
        /\ SumFunctionOnSet(one, ten) = 10
    BY <1>2, <1>6, <1>12 DEF pairs, ten
  <2>2. \A x, s \in Int : 1 * (100 * x + (0 - 20 * s) * s) + (s * s) * 10 = 100 * x - 10 * s * s
    OBVIOUS
  <2>3. 1 * (100 * pairs + a * len) + c * 10 = 100 * pairs - 10 * len * len
    BY <1>8, <2>1, <2>2, Zenon DEF a, c
  <2>4. SumFunctionOnSet(terms, ten) = 1 * (100 * pairs + a * len) + c * 10
    BY <1>11, <1>17, <2>1, Zenon
  <2> QED
    BY <2>3, <2>4, Zenon DEF ten
<1>14. pairs = Cardinality({ij \in (DOMAIN ps) \X (DOMAIN ps) : SameDecile(ps[ij[1]], ps[ij[2]])})
  BY <1>3, Zenon
<1> HIDE DEF pairs
<1> QED
  BY <1>5, <1>13, <1>14, Zenon DEF len
\* The p-values a call keeps are not negative, and the statistic of an answer is
\* that of the p-values it kept.
UniformityOf(c) ==
    /\ \A i \in DOMAIN pValues[c] : pValues[c][i] >= 0
    /\ pc[c] = "answered" =>
          response[c].uniformity = IF Len(pValues[c]) >= UniformityMin
                                   THEN Uniformity(pValues[c]) ELSE NoUniformity

UniformityInv == \A c \in Calls : UniformityOf(c)

\* A handler's own steps.
LEMMA UniformityOwn ==
    ASSUME IInv, NEW c \in Calls, UniformityOf(c), DOMAIN response = Calls,
           Deny(c) \/ Receive(c) \/ Handle(c) \/ Panic(c)
    PROVE  UniformityOf(c)'
<1>1. CASE Deny(c) \/ Receive(c) \/ ExecuteFails(c) \/ Panic(c) \/ Execute(c)
           \/ SkipTest(c) \/ CountTest(c) \/ ComputeRate(c)
  <2>1. pValues' = pValues /\ pc'[c] # "answered"
    BY <1>1 DEF Deny, Receive, ExecuteFails, Panic, Execute, SkipTest, CountTest,
                ComputeRate, InLoop, AfterLoop, IInv, TypeOK, InFlight
  <2> QED
    BY <2>1 DEF UniformityOf
<1>2. CASE SetPValue(c)
  <2>1. /\ pc'[c] = "counting"
        /\ pValues'[c] = Append(pValues[c], results[c][pos[c]].p)
        /\ pos[c] \in Tests /\ results[c] \in [Tests -> Outcomes]
        /\ results[c][pos[c]].p >= 0
    BY <1>2 DEF SetPValue, HandlerInv, Current, IInv, TypeOK, Looping, InFlight
  <2>2. results[c][pos[c]].p \in Int /\ pValues[c] \in Seq(Int)
    BY <2>1, ServiceAssumption DEF IInv, TypeOK
  <2>3. \A i \in DOMAIN pValues'[c] : pValues'[c][i] >= 0
    BY <2>1, <2>2 DEF UniformityOf
  <2> QED
    BY <2>1, <2>3 DEF UniformityOf
<1>3. CASE PublishRate(c) \/ RespondWithoutTests(c)
  <2>1. /\ pValues' = pValues
        /\ \E r : Respond(c, r)
    BY <1>3 DEF PublishRate, RespondWithoutTests
  <2>2. response'[c].uniformity = IF Len(pValues[c]) >= UniformityMin
                                  THEN Uniformity(pValues[c]) ELSE NoUniformity
    BY <2>1 DEF Respond
  <2> QED
    BY <2>1, <2>2 DEF UniformityOf
<1> QED
  BY <1>1, <1>2, <1>3 DEF Handle

\* Every step keeps every call's part.
LEMMA UniformityStep == IInv /\ AnswerInv /\ UniformityInv /\ [Next]_vars => UniformityInv'
<1> SUFFICES ASSUME IInv, AnswerInv, UniformityInv, [Next]_vars PROVE UniformityInv'
  OBVIOUS
<1>1. CASE UNCHANGED vars
  BY <1>1, Zenon DEF UniformityInv, UniformityOf, vars, handlerVars
<1>2. ASSUME NEW c \in Calls, Deny(c) \/ Receive(c) \/ Handle(c) \/ Panic(c)
      PROVE  UniformityInv'
  <2>1. UniformityOf(c)'
    BY <1>2, UniformityOwn DEF UniformityInv, AnswerInv
  <2>2. ASSUME NEW d \in Calls, d # c PROVE UniformityOf(d)'
    <3>1. pValues'[d] = pValues[d] /\ response'[d] = response[d]
      BY <1>2, <2>2 DEF AnswerInv, IInv, TypeOK, Deny, Receive, Handle, Panic, Execute,
              ExecuteFails, SkipTest, CountTest, SetPValue, ComputeRate, PublishRate,
              RespondWithoutTests, Respond
    <3>2. pc'[d] = pc[d] \/ pc'[d] = "lost"
      BY <1>2, <2>2 DEF IInv, TypeOK, Deny, Receive, Handle, Panic, Execute,
              ExecuteFails, SkipTest, CountTest, SetPValue, ComputeRate, PublishRate,
              RespondWithoutTests
    <3> QED
      BY <3>1, <3>2, Zenon DEF UniformityInv, UniformityOf
  <2> QED
    BY <2>1, <2>2 DEF UniformityInv
<1> QED
  BY <1>1, <1>2 DEF Next, AllServed

\* The statistic of every answer is Pearson's, whatever the other handlers do
\* meanwhile and whatever the tests returned within [0, 1]: every p-value, 1.0
\* included, is in exactly one of the ten bins (service.go:210-250).
THEOREM StatisticIsPearsons == Spec => []UniformityIsPearson
<1>1. Init => UniformityInv
  BY DEF Init, UniformityInv, UniformityOf
<1>2. IInv /\ UniformityInv => UniformityIsPearson
  <2> SUFFICES ASSUME IInv, UniformityInv, NEW c \in Calls,
                      pc[c] = "answered", Len(pValues[c]) >= UniformityMin,
                      \A i \in DOMAIN pValues[c] : pValues[c][i] <= 100
               PROVE  response[c].uniformity.chi2 =
                        100 * Cardinality({ij \in (DOMAIN pValues[c]) \X (DOMAIN pValues[c]) :
                                 SameDecile(pValues[c][ij[1]], pValues[c][ij[2]])})
                          - 10 * Len(pValues[c]) * Len(pValues[c])
    BY Zenon DEF UniformityIsPearson
  <2> DEFINE ps == pValues[c]
  <2>1. ps \in Seq(Int)
    BY DEF IInv, TypeOK
  <2>2. response[c].uniformity = Uniformity(ps)
    BY DEF UniformityInv, UniformityOf
  <2>3. \A i \in DOMAIN ps : ps[i] \in Int /\ ps[i] >= 0 /\ ps[i] <= 100
    <3>1. \A i \in DOMAIN ps : ps[i] \in Int
      BY <2>1
    <3> QED
      BY <3>1, Zenon DEF UniformityInv, UniformityOf
  <2> HIDE DEF ps
  <2>4. \A i \in DOMAIN ps : ps[i] \in 0..100
    <3>1. \A x \in Int : x >= 0 /\ x <= 100 => x \in 0..100
      OBVIOUS
    <3> QED
      BY <2>3, <3>1, Zenon
  <2>5. Uniformity(ps).chi2 =
          100 * Cardinality({ij \in (DOMAIN ps) \X (DOMAIN ps) :
                               SameDecile(ps[ij[1]], ps[ij[2]])})
            - 10 * Len(ps) * Len(ps)
    BY <2>1, <2>4, UniformityCounts
  <2> QED
    BY <2>2, <2>5, Zenon DEF ps
<1> QED
  BY <1>1, <1>2, UniformityStep, InvariantHolds, AnswerHolds, PTL DEF Spec
=============================================================================
