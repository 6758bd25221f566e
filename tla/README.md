# A verification development for the NIST SP 800-22 test service

TLA+ models of the Go service in `src/`: a gRPC server that runs the fifteen
statistical tests of NIST SP 800-22 Rev. 1a on a bitstream, counts what it does
in Prometheus collectors, and stops gracefully on a signal. TLC checks the
models on small instances, the TLA+ proof system proves almost all of the same
properties for every value of the constants. `PROJECT.json` maps every
definition to the source lines it stands for.

## 1. Inventory

| Component | Source | State | Operations | Interacts with |
|---|---|---|---|---|
| Process lifecycle | `cmd/server/main.go` 36-109, 138-196 | progress of `run()`, signalling goroutine, one-place signal channel, context, metrics HTTP server, gRPC server, open RPCs | start-up steps, Serve, signal, graceful stop, deferred calls, exit | loads Config, hosts the handler, serves the collectors |
| Configuration | `internal/config/config.go`; consumers in `main.go` 114-131, 203-361 | the `Config`, rewritten while it is validated | Load, Validate, setupLogging, buildUnaryInterceptors, buildAuthorizationPolicy, buildGRPCServerOptions | environment, one file, go-authx (external) |
| RunTestSuite handler | `internal/service/service.go` | per call: results, loop index, tallies; none in `Server` | validate, run the suite, loop over the results, rate, uniformity, answer | collectors (shared by all calls), package `nist` |
| Collectors | `internal/metrics/prometheus.go` | counters, gauges, histograms, in memory | increment, set, observe | every handler, scrapes |
| Suite | `internal/nist/run_all.go` | none | length check, fifteen tests in order | tests |
| Linear complexity | `internal/nist/linear_complexity.go` | C, B, T, P, L, m, seven counters | Berlekamp-Massey per block, classification | |
| Random-walk tests | `cumulative_sums.go`, `random_excursions.go`, `random_excursions_variant.go` | walk, cycles, visit counts, extremes | six loops | |
| Matrix rank | `binary_matrix_rank.go` | a matrix changed in place | forward and backward elimination, rank | |
| Pattern and run counting | `frequency.go`, `block_frequency.go`, `runs.go`, `longest_run.go`, `non_overlapping_template.go`, `overlapping_template.go`, `universal.go`, `approximate_entropy.go`, `serial.go`, `common.go` | per test: sums, runs, classes, matches, the table T of last positions, the tables P of window counts | one loop over bits, blocks or windows each; choice of L and of the classes | share `bitAt`, `expandBits`, `psi2`; lengths from `run_all.go` |
| Spectral test | `dft.go` | floating point | FFT | gonum |
| Interceptors | `internal/middleware/request_id.go`, `main.go` 377-407 | the context of one call | request id, logging, authentication (go-authx) | handler |
| Generated code, tooling | `pkg/pb`, `api`, `tools`, `scripts`, `.github` | none | | |

Where the difficulty lies:

- *Concurrency.* Handlers run one goroutine per call and share only the
  collectors, each access atomic, no group of accesses atomic. `run()`, the
  signalling goroutine, the metrics goroutine and the RPCs run concurrently.
- *Failure.* `linear_complexity.go:49` can index past its slice. No interceptor
  recovers, so the process dies with all its calls and counters and the
  container is restarted (`docker-compose.yml:40`).
- *Ordering and timeouts.* The signal handler is installed late, GracefulStop
  may precede Serve, and has no time limit.
- *Rewriting while checking.* `Validate` changes fields that later checks and
  the consumers compare with exact strings.
- *Boundaries.* The index arithmetic of the tests (cycles, shifts, truncation,
  windows that wrap, a scan that jumps) rests on agreements between separate
  loops, and the thresholds of `universal.go` and `longest_run.go` on agreements
  with `MinBits` and with each other.

What makes each component correct, in one sentence: a handler's answer agrees
with the results it came from and every counter with the calls that passed it;
the process ends when asked and loses no accepted RPC when it leaves through
`run()`; a configuration is accepted exactly when the rules Load enforces hold, in
whatever order they are checked, and each consumer chooses what was asked for;
each test counts what its statistic is defined on and never leaves a slice.

## 2. Modules

| Module | Models | Checked by | Proofs |
|---|---|---|---|
| `Service` | handlers and collectors | `MCService` | `ServiceProofs` |
| `SuiteLedger` | what `Service` promises: admission, then one indivisible answer | refinement in `Service` | `ServiceProofs` |
| `Lifecycle` | process start, serving, stop | `MCLifecycle` | `LifecycleProofs` |
| `Config` | Load, Validate, consumers | `MCConfig` | `ConfigProofs` |
| `BerlekampMassey` | the block loop of LinearComplexityTest | `MCBerlekampMassey` | `BerlekampMasseyProofs` |
| `RandomWalk` | the three random-walk tests | `MCRandomWalk` | `RandomWalkProofs` |
| `MatrixRank` | computeRank | `MCMatrixRank` | `MatrixRankProofs` |
| `SuiteParameters` | thresholds, parameter choices, length guards, template table | through `Patterns` | `PatternsProofs` |
| `Patterns` | the nine counting tests, in the order of RunAllTests | `MCPatterns` | `PatternsProofs` |
| `Induction` | no code: induction over numbers and finite sets, laws of sums | | used by the proof modules |

The modules meet at named points: `BerlekampMassey` establishes the panic that
`Service` has as `Panic` and `Lifecycle` as `PanicIn`; `Lifecycle` treats a call
as one step from start to answer, `Service` opens it up; `Config` is what
`Lifecycle` has as `LoadConfig`, `BuildServer` and `StartupFails`; what
`buildUnaryInterceptors` puts in front of the handler is `Service`'s `Deny`;
`Patterns` is an instance of the tables of `SuiteParameters` with short lengths.

### Service

A call that the authentication interceptor turns down (`Deny`) never reaches the
handler. Otherwise there is one program counter per call: `idle`, `running` (in runAllTests), `counting` and
`gauging` (the loop over the results), `publishing` (between computing the pass
rate and setting its gauge), and its ends. A step ends at each access to a
collector, because only these are visible to other goroutines: what a handler
does between two of them is its own. The loop therefore takes two steps per
result, the counter of line 130 and the gauge of line 131.
`runAllTests` is a variable of the package (`service.go:23-24`), so what it can
return is the constant `Outcomes`: in the passing run it includes the negative
p-value service.go treats as skipped, which no function of `nist` returns. The
violation runs use only what `nist` returns. P-values are hundredths, so that
Alpha, 0 and 1.0 are exact. The answer's names, timestamps, warnings and
proportions are left out. `Panic` stands for a restart: counters and gauges
start again and calls in flight are lost; `session` remembers the calls of the
running process. `lastComputed` is history.

### SuiteLedger

The abstract specification has four variables and six actions. A call's tests
are counted in the step in which it is answered. The mapping in `Service` takes
the tests of unfinished calls out of the counters; a failed call never has any.
A denied call stays `new`: the ledger does not hear of it.
That `ImplementsLedger` holds means that a dashboard which looks only at
finished calls cannot tell the interleaved handlers from atomic ones.

### Lifecycle

`main` follows `run()` line by line; `signaller` follows lines 87-98;
`GracefulStop` is three steps (close the listener, send connections away, wait)
because RPCs start and Serve returns between them. Signals before
`signal.Notify` have their default effect. A second signal stays in the channel
or is dropped. grpc-go, the signal delivery of the Go runtime and the streams'
clients are external and modelled by what `run()` relies on. The fatal log of
the metrics goroutine (`MetricsFails`) ends the process at once and loses what
is in flight; `NoSilentLoss` and the exit statuses are about the other exits. The parent context
is `context.Background()`, which is never cancelled. SIGKILL and an out-of-memory
kill are outside the program and left out.

### Config

A string is a word of the constant `Words` and a form: letter case and
surrounding spaces. That is exactly what TrimSpace, ToLower, ToUpper and `==` tell
apart. The environments are the constant `Envs`; all the module assumes of it is
that each gives every variable a value of its kind (`IsEnvironment`). An integer or
Boolean is absent (also when it does not parse: `getEnvInt` and `getEnvBool`
fall back silently) or has a value. `Validate` is five actions in the code's
order; each goes on with rewritten fields or rejects. TLS_CA_FILE and the key id
are passed through unread and left out. go-authx may refuse to build the
validator or the credentials for reasons of its own.

### BerlekampMassey, RandomWalk, MatrixRank

Bit slices are sets of positions; matrices are functions; one action is one turn
of the loop that matters. In `BerlekampMassey` the scratch slices T and P are
local to a turn. Its statistic is scaled by 36 * 2^M to an integer, so that the
comparisons of the switch are exact. In `RandomWalk` positions count from 1; the
two excursion tests build the same walk, which is built once. All that follows
the integer part of a test is floating point and not modelled.

### SuiteParameters, Patterns

`SuiteParameters` has the numbers the program fixes: MinBits and MaxBits with the
check RunAllTests makes of them (`Admits`), the switch over L, the cases of the
longest run, which test refuses which length when RunAllTests calls it, and the 148 templates, each as a nine-bit number. `Patterns` has one
action per turn of each test's outermost loop; `NextTest` walks through `Order`.
Block, template and window lengths are constants, since the program's own need
sequences of 387 840 bits; what the program's own satisfy is said by
`ParametersFit` and by the first conjunct of `ScanLosesNothing`, which are about
the real tables. Indices count from 0 as in the code. `counts` collects what the
tests compute: the counts are locals of separate functions, and are kept after
a test has returned so that tests can be compared with each other. The tests on
the same bitstream share no state, so the order matters for none of the
properties. The psi values are multiplied by n, PiTooFar is squared: both are
exact. The approximate entropy itself and all p-values are floating point.

The properties state each count without the loop that computes it: classes from
the maximal runs of ones, matches as all occurrences, distances as the nearest
earlier equal block, window counts through the identities that hold on a circle
only.

## 3. Runs

| Run | Instance | States | What it shows |
|---|---|---|---|
| `service` | 2 calls, 2 tests, 4 outcomes, 4 sizes | 17 931 | counters conserved, gauges measured, answers consistent, every bin right, SuiteLedger implemented |
| `serviceSkipped` | as above, outcomes of `nist` | | tests_skipped does not report tests without enough data |
| `serviceRate` | as above | | the pass-rate gauge can keep an older rate |
| `lifecycle` | 2 calls, 1 stream, 2 signals | 3 551 | no silent loss, metrics outlive RPCs, success only when asked, an error after a signal only if nothing was served or Accept had failed, the process ends |
| `lifecycleWatch` | as above | | an open stream holds the graceful stop for ever |
| `lifecycleEarly` | as above | | a signal between Serve and Notify is not graceful |
| `config` | 4 165 environments, 3 key files | 73 727 | accepted iff the rules of the code hold (not those of the document, section 4), consumers choose what was asked for |
| `bm` | all pairs of 8-bit blocks | 20 217 | shortest register, right class, one panicking block |
| `bmPanic` | as above | | the panic is reachable |
| `walk` | all walks of 12 steps, 2 cycles needed | 172 095 | cycles partition the walk, both excursion tests agree, extremes are right, the terms of both sums are those described |
| `rank` | all 4x4 matrices | 655 360 | the rank is the dimension of the row space |
| `patterns` | 3 bytes over 16 values, scaled lengths, 55 sizes | 294 000 | counts equal their definitions, tests agree, thresholds fit |

### Why the bounds are enough

- Two calls give every interleaving of two handlers; the collectors have no
  memory of who wrote, and for more calls the counters are proved. Two tests
  give a first and a later result, which distinguishes the gauge of one test
  from that of another; UniformityMin is 2 so that the statistic is computed and
  also left out. MinBits = MaxBits = 16 with sizes 0 to 3 bytes meets both
  sides of every length check.
- Two calls and a stream let one RPC be open while another ends; a second signal
  arrives during the shutdown. `MaxSignals` bounds only the signals sent; the
  channel has one place.
- `MCConfig` varies five groups of variables, each exhaustively over boundary
  values, with the other groups unset or valid: the checks of Validate read no
  field of another group except AuthEnabled and AuthTokenType, which are varied
  together with the fields they guard.
- Blocks of 8 bits contain every pattern of length changes up to L = 8, and the
  second block shows that nothing is carried over. M = 8 and the program's 500
  are both even; odd block lengths rest on theorem `ClassesAreDistances` alone.
- Walks of 12 steps are the shortest in which one of two cycles visits a state
  five times. 500 cycles are needed in the program, 2 in the instance, so that
  the constraint is both met and missed.
- Three bytes over 16 values hold runs of every length up to 24, periods 1, 2, 4
  and 8, lone bits at both ends of a byte and words without a period. The
  lengths are chosen so that every boundary is met: blocks of 7 and 5 bits that
  do not divide 24, more and fewer matches than the classes have, blocks of the
  universal test that are new, repeated and never seen, windows longer than the
  distance to the end. The sizes of `ParametersFit` are the multiples of 8 on both
  sides of every threshold; all others are covered by `EverySizeFits`.
- In 4x4 matrices a pass can miss a pivot and find others before and after it.

Deadlock is checked in every run: where the program may stop, the model has an
explicit step that says so (`Ended`, `Done`, `AllServed`).

### Fairness

- `Service`: none. A handler is straight-line code around a bounded loop, and all
  that is said of it is safety.
- `Lifecycle`: weak fairness of `run()`, of the signalling goroutine and of unary
  calls (a suite is a finite computation on at most MaxBits bits). None for
  signals, failures, new RPCs, nor for a stream: it lasts as long as its client
  wants. `SignalLeadsToExit` therefore assumes that no stream stays open for
  ever, and `lifecycleWatch` shows what happens otherwise.

## 4. Where the code and its documents disagree

Shown by a run:

1. `bmPanic`: `linear_complexity.go:49` writes P[M] for a block whose only 1 is
   its last bit (m is still -1). Nothing recovers the panic.
2. `serviceSkipped`: `service.go:105` takes only negative p-values as skipped;
   `nist` returns 0 when it cannot run. `docs/architecture.md:216` says
   tests_skipped counts those (`docs/api-reference.md:183` describes the
   behaviour of the code: a p-value of 0.0 with a warning).
3. `serviceRate`: `prometheus.go:43` promises the most recently computed rate.
4. `lifecycleWatch`, `lifecycleEarly`: `main.go:4` promises a graceful shutdown.

Described by a property that holds: it says what the code does, which is not
what the document says.

- `CountersConserved`. `prometheus.go:61-62`, `docs/architecture.md:426` and
  `docs/api-reference.md:271` call nist_requests_total the number of gRPC requests
  by outcome, success or error. The handler counts "success" at `service.go:71`,
  before the suite runs at line 75: a call whose suite fails is answered with an
  error and stays counted as a success. A call that the authentication interceptor
  turns down is counted as neither. The property equates the counter with the
  calls that passed lines 67 and 71, not with the outcomes.
- `AnswersMatchResults`. The contract says that a test passed if its p-value is
  > 0.01 (`api/nist/v1/nist_sp800_22.proto:84`); `run_all.go:13`, its uses and
  `docs/api-reference.md:145` say >=. At exactly 0.01 the answer has passed = true,
  which a reader of the contract would not expect. The run has such a p-value.
- `RulesDecide`. `docs/architecture.md:378` and `:380` ask for a valid token type
  and a valid introspection method, and `:385` says that any violation ends the
  service; literally the same goes for lines 379, 381 and 382. `config.go:156-214`
  checks each only where it is used: no token type with authentication off, no
  introspection method unless tokens are opaque. The run contains environments
  that are accepted for this reason, such as authentication off with the token
  type `other`. The rules on match modes and message sizes are not in that list.
- `TermsAreThoseInside`. The second sum of `cumulative_sums.go:73-76` runs over the
  range of the first. SP 800-22 starts it at (-n/z - 3)/4; here the term
  k = start - 1 is left out, with N = 12 and z = 2 for instance k = -2 with the
  arguments -14 and -10, while its mirror image k = 1 is taken. No admitted length
  shows it: the nearer argument of the missing term is more than n - 4z and at
  least z away from 0, so at least n/5, which is 124 standard deviations of the
  walk or more, and the term is below any floating-point number.

Seen in the code and outside the models:

- the request id that `service.go:54` logs is not the one the interceptor returned
  to the client (`docs/architecture.md:448`);
- `docs/architecture.md:258` gives 10,000,000 bits as the maximum, `run_all.go:27`
  100,000,000; `architecture.md:434` describes pprof handlers that the mux of
  `main.go:139` does not route; `nist_test_duration_seconds` is never observed;
- a p-value that underflows to 0 is reported with the warning of a test that did
  not run (`run_all.go:66, 78, 86, 94, 106, 118`), contrary to `run_all.go:17`: runs
  on strictly alternating bits meets its precondition and is reported as "Pi
  estimator criteria not met"; the request's `config` field is never read;
- `approximate_entropy.go:48` computes a number that is at least 0 in exact
  arithmetic. Evaluated in floating point for sequences in which all windows of
  10 and 11 bits are equally frequent it came out slightly negative at about half
  of the lengths tried (-2.3e-7 at 407 552 bits), which is outside the domain of the
  function that line 49 calls;
- the handler ignores its context (`service.go:50`): a call whose client has gone
  still runs and is counted;
- `Validate` is not idempotent for a key file (`config.go:201` fills the field that
  line 190 then refuses); the program calls it once;
- a process asked to stop between Notify and Serve exits with status 1
  (`AskedExitStatus` says that this happens only before any RPC); two equal ports
  pass Validate and fail in the second Listen.

## 5. Proofs

All theorems hold for every value of the constants that satisfies the modules'
ASSUMEs: positive block length and block count (`BerlekampMassey`); a finite set
of calls and non-negative sizes (`Service`); disjoint sets of calls and streams
(`Lifecycle`); environments that give each variable a value of its kind
(`Config`); a positive length, a positive number of cycles and Near <= Far
(`RandomWalk`); a matrix with a row (`MatrixRank`); lengths that fit in the
bitstream and templates without a period (`Patterns`, where `ScanLosesNothing`
says that the program's 148 are). One theorem has a hypothesis of its own:
`NothingIsGuessed` needs MaxBits <= 100,000,000, the program's value, because the
default message size is a number and not computed from it.

- `Induction`. The library's induction theorems take an operator, which no prover
  here can instantiate. They are stated again with sets and functions: a set that
  holds 0 and all successors holds every number (the least number it lacks would
  have a predecessor), a set of sets that holds {} and grows by one element holds
  every finite set, and a function given by its steps (`RecursionUpTo`) is what a
  recursive definition denotes. The second half is about `SumFunctionOnSet`: a sum
  does not depend on the order in which elements are taken out, it is additive
  over disjoint sets, and counting pairs is summing counts.
- `BerlekampMasseyProofs`: `TypeCorrect`, `PanicCharacterised` (the write leaves
  the slice for the block 0...01 only), `RegisterShape`, `RegisterIsRight`,
  `LengthIsTheComplexity`, `ClassesAreDistances`. The panic property is
  not inductive: that a shifted polynomial fits needs a bound on B's degree in
  terms of L and m. `Shape` states the bounds of L, m, C and B together, and that
  L is 0 until the first 1. The key lemma is `ShiftedDegree`: a shifted position
  is at most N_ + 1 - L, so it fits as soon as L > 0. That the register produces
  the prefix is a matter of parities: the discrepancy of C + shifted B is the sum
  of both. Minimality is Massey's argument (`Massey`, `Agreement`): two registers
  that are short enough and produce the same prefix agree on the next bit, because
  both count the same pairs of positions; so no shorter register exists when the
  current one fails. The classes follow from 2^M >= M + 1, for odd M too.
- `ServiceProofs`: `TypeCorrect`, `EveryCountIsKept`, `SuiteNeverRefusesSize`,
  `AnswersAreRight`, `GaugesAreTrue`, `HandlersImplementLedger`,
  `StatisticIsPearsons`.
  `CountersConserved` equates counters with cardinalities of sets of calls that
  change in every step. `SessionInv` ties those sets to the running process,
  `HandlerInv` says what each handler knows at each position, `SizesAccepted` that
  an admitted size stays acceptable. Each action then moves one call into one
  set, and `CountOne` counts it. `AnswerInv` says of which prefix of the results
  the tallies are, `GaugeInv` which call computed a gauge's value. Refinement: the
  first accesses of a handler map to stutters, its last to `Answer`, by the two
  facts that counters minus unfinished tests are the ledger's counters and that a
  failed call has none. Pearson's statistic counts pairs of p-values in the same
  bin twice over (`CountsAddUp`).
- `LifecycleProofs`: `TypeCorrect`, `GracefulExitLosesNothing`,
  `MetricsUntilLastRpc`, `SuccessMeansStopped`, `ErrorMeansNothingServed`. The
  invariant relates the phase of
  `run()`, of the goroutine and of the gRPC server (`ServerPhase`,
  `SignallerPhase`), says at which servers RPCs can be open (`OpenRpcs`), and why a
  shutdown began (`Cause`).
- `ConfigProofs`: `LoadKeepsTheRules`, `ChoicesAreTheEnvironments`,
  `RequiredAreTheListed`, `NothingIsGuessed`, `FieldsKeepTheirTypes`. The invariant
  gives, for each point of `run()`, each field as a function of the environment:
  as loaded before the check that rewrites it, normalized after (`FieldsInv`),
  together with the rules the passed checks have established (`RulesInv`) and what
  the consumers have chosen (`ServerInv`). normalizeCSVValues is a recursive
  function and needs an induction on the length of its list: `Keeps` says that
  the list made so far has each value in as many places as the original names it
  up to there. What is kept is trimmed and not blank, so normalizing it a second
  time, as Validate does, moves nothing.
- `RandomWalkProofs`: all seven properties of the run. One count carries them:
  `Zeros`, the returns to zero up to a position. The c-th entry of the slice is
  where it becomes c, so no write leaves the slice and every position is in one
  cycle; a state's visits in the first c cycles are those in an initial stretch
  of the walk. The two truncated divisions give -q and q for the largest q with
  (4q + 1)z <= N; the terms of each sum that lie inside the walk are written in
  terms of q and compared (`TermsOf`).
- `MatrixRankProofs`: `TypesKept`, `ColumnsCleared`, `RankIsTheDimension`. A set of
  vectors is closed when adding a row stays inside; neither pass changes which
  sets are closed (`SameSpace`), so the row space stays. At the end each row is
  zero or the only one with a unit in its column, and doubles the space of the
  rows before it.
- `PatternsProofs`: `EverySizeFits` and, from it, `ParametersAlwaysFit`: the suite
  admits a number of bits exactly when it is at most MaxBits and no test refuses
  it (above MaxBits none would), from MinBits on L is the largest block length
  that leaves 1000 * 2^L blocks to measure, and the classes of the longest run have
  no gap. Nothing there is inductive: each value of L is one
  linear problem. `TypesKept`, `DistancesAreNearest` and `NoMatchIsLost` have an
  invariant with one conjunct for each test (`OnesInv` to `UnivInv`). Words read
  as numbers determine their bits, so equal table indices mean equal blocks, and
  a word that overlaps a copy of itself has a period; a scan that skips such an
  overlap skips no match. That the template table is complete and has no double
  is 512 cases. `WindowCountsAgree` and `SerialArguments` rest on a second
  invariant, `WindowsInv`: the ones and runs are those of the bits, and which
  tables are made at which turn. A table's leaves are counts of windows (`Freq`);
  a window is the start of a longer one and the end of another, and no count
  changes when all positions move on round the circle (`Rotated`). The
  differences of the psi values are sums of squares (`PsiDifferences`).
  `BlocksAreClassified` has a third, `BlocksInv`: which blocks are in which class.
  The scan of longest_run.go keeps the longest stretch of ones seen so far, every
  stretch lies in exactly one maximal run, and a match of the template of ones
  lies in one run too, so the matches are counted run by run (`MatchesByRun`).
  `PatternsAssumption` asks of the classes `V` that they count up by one, as
  `ClassesWithoutGap` proves of every case of longest_run.go.

Model-checked only: the liveness properties of `Lifecycle`, which are the only
ones of the project, and `lifecycleWatch`, a violation that needs fairness (the
prover has no rule for ENABLED). The other violations are finite counterexamples,
and what they refute is not a theorem.


## 6. Not modelled

- The spectral test and every final p-value, with the probabilities they need:
  floating point.
- The request-id and logging interceptors, which touch only their own call's
  context, and go-authx, whose verdict is a free choice (`Deny`).
- Names, warnings, timestamps and log messages: text.
- Client cancellation: the handler does not look at its context, so a cancelled
  call takes the same steps as any other.
- Generated code, the validation tool, scripts and workflows: no logic of the
  service.

In the matrix test the code's general M x Q matrix is square, as its only
caller makes it; cutting the bits into matrices and counting ranks 32 and 31
are left out. The trie's inner nodes, which no test reads, are part of the tables
of `Patterns` and stay 0 as in the code.

## 7. Plan

Order of work: what concurrent calls and restarts do to counters and answers
(`Service`, `SuiteLedger`) first, the one crash the code contains
(`BerlekampMassey`), the process around them (`Lifecycle`), its configuration
(`Config`), then the tests whose index arithmetic is easiest to get wrong
(`RandomWalk`, `MatrixRank`), and the counting tests (`SuiteParameters`,
`Patterns`). These are done, and so are the proofs of every safety invariant,
action property and refinement that a run checks. Left to the model checker are
the properties named at the end of section 5.
