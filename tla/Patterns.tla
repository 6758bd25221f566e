------------------------------- MODULE Patterns -------------------------------
(***************************************************************************)
(* The tests of package nist that count patterns in the bits: frequency.go, *)
(* block_frequency.go, runs.go, longest_run.go,                            *)
(* non_overlapping_template.go, overlapping_template.go, universal.go,     *)
(* approximate_entropy.go and serial.go with psi2 of common.go, in the     *)
(* order of run_all.go. Modelled is all they do with integers, up to the   *)
(* numbers their p-values are computed from. One action is one turn of a   *)
(* test's outermost loop; inner loops are recursive functions or, where    *)
(* they only count, cardinalities. Indices count from 0 as in the code.    *)
(*                                                                         *)
(* The lengths of SuiteParameters are too long for an instance: they are   *)
(* constants here, and ParametersFit says what the program's own satisfy.  *)
(***************************************************************************)
EXTENDS SuiteParameters, SequencesExt

CONSTANTS ByteValues, NumBytes,    \* the bitstreams
          BlockSize,               \* block_frequency: 128
          RunM, V,                 \* longest_run: a case of LongestRunCase
          TemplateLen, Templates,  \* 9 and template9
          NumBlocks,               \* non_overlapping_template: 8
          OnesM, MostOnes,         \* overlapping_template: M = 1032, K = 5
          L, InitBlocks,           \* universal: L and Q
          ApEnM, SerialM,          \* 10 and 16
          Sizes                    \* numbers of bits, for ParametersFit

n == 8 * NumBytes
Words(w) == 0..(2 ^ w - 1)

ASSUME PatternsAssumption ==
    /\ ByteValues \subseteq 0..255 /\ NumBytes \in Nat \ {0}
    /\ {BlockSize, RunM, TemplateLen, NumBlocks, L, InitBlocks, ApEnM} \subseteq 1..n
    /\ SerialM \in 2..n /\ OnesM \in TemplateLen..n /\ MostOnes \in Nat
    /\ V \in Seq(Nat) /\ V # <<>> /\ \A r \in 2..Len(V) : V[r] = V[r - 1] + 1
    /\ Templates \in Seq(Words(TemplateLen))
    /\ \A t \in DOMAIN Templates : Aperiodic(Templates[t], TemplateLen)
    /\ n \div L > InitBlocks
    /\ Sizes \subseteq Nat

VARIABLES
    pc,         \* the test that is running
    i,          \* the turn of its loop
    bitstream,  \* the bytes
    bits,       \* expandBits(bitstream)
    counts      \* the numbers each test has counted

vars == <<pc, i, bitstream, bits, counts>>

\* ones: of frequency and runs; sums: the blockSums; runs: 0 if the test gave
\* up; nu: classes of longest_run; hits: every wObs of the non-overlapping
\* test; nuOnes: classes of the overlapping one; T and distances: universal;
\* apen and serial: the tables P, each with its word length.
NothingCounted ==
    [ones |-> 0, sums |-> <<>>, runs |-> 0, nu |-> [r \in DOMAIN V |-> 0],
     hits |-> <<>>, nuOnes |-> [r \in 0..MostOnes |-> 0],
     T |-> [d \in Words(L) |-> 0], distances |-> <<>>,
     apen |-> <<>>, serial |-> <<>>]

Init == /\ pc = "start" /\ i = 0
        /\ bitstream \in [1..NumBytes -> ByteValues]
        /\ bits = <<>>
        /\ counts = NothingCounted

Digit(v, w, k) == (v \div 2 ^ (w - 1 - k)) % 2

\* bitAt: bit 7 of a byte comes first.
bitAt(idx) == Digit(bitstream[idx \div 8 + 1], 8, idx % 8)

expandBits == /\ pc = "start"
              /\ bits' = [idx \in 0..(n - 1) |-> bitAt(idx)]
              /\ pc' = "frequency"
              /\ UNCHANGED <<i, bitstream, counts>>

OnesIn(base, len) == Cardinality({j \in base..(base + len - 1) : bits[j] = 1})
OnesCount8(b) == Cardinality({k \in 0..7 : Digit(b, 8, k) = 1})

\* |pi - 0.5| > 2 / sqrt(n), squared and without the fractions.
PiTooFar == (2 * counts.ones - n) ^ 2 > 16 * n

\* RunAllTests: the tests in order, and the turns of each one's loop.
Order == <<"frequency", "block_frequency", "runs", "longest_run",
           "non_overlapping_template", "overlapping_template", "universal",
           "approximate_entropy", "serial", "done">>
Turns(test) ==
    CASE test = "frequency" -> NumBytes
      [] test = "block_frequency" -> n \div BlockSize
      [] test = "runs" -> IF PiTooFar THEN 0 ELSE n
      [] test = "longest_run" -> n \div RunM
      [] test = "non_overlapping_template" -> Len(Templates) * NumBlocks
      [] test = "overlapping_template" -> n \div OnesM
      [] test = "universal" -> n \div L
      [] test = "approximate_entropy" -> 2
      [] test = "serial" -> 3

Turn(test) == /\ pc = test /\ i < Turns(test) /\ i' = i + 1
              /\ UNCHANGED <<pc, bitstream, bits>>

NextTest == \E k \in 1..(Len(Order) - 1) :
                /\ pc = Order[k] /\ i >= Turns(pc)
                /\ pc' = Order[k + 1] /\ i' = 0
                /\ UNCHANGED <<bitstream, bits, counts>>

-----------------------------------------------------------------------------
FrequencyTest ==
    /\ Turn("frequency")
    /\ counts' = [counts EXCEPT !.ones = @ + OnesCount8(bitstream[i + 1])]

BlockFrequencyTest ==
    /\ Turn("block_frequency")
    /\ counts' = [counts EXCEPT !.sums = Append(@, OnesIn(i * BlockSize, BlockSize))]

\* prev is the bit before: it starts as bit 0 and follows every change.
RunsTest ==
    /\ Turn("runs")
    /\ counts' = [counts EXCEPT !.runs =
                    IF i = 0 \/ bits[i] # bits[i - 1] THEN @ + 1 ELSE @]

\* (Mutant: a 0 does not end the run.)
RunGoesOn(run) == run

AfterZero(run) == 0

\* The scan of a block, bit by bit.
Longest(base) ==
    LET scan[j \in 0..RunM] ==
          IF j = 0 THEN [run |-> 0, longest |-> 0]
          ELSE LET s   == scan[j - 1]
                   run == IF bits[base + j - 1] = 1 THEN s.run + 1
                          ELSE AfterZero(s.run)
               IN [run |-> run, longest |-> Max({run, s.longest})]
    IN scan[RunM].longest

\* The switch that sorts a block into the classes; none may fit.
Class(longest) == IF longest < V[1] THEN {1}
                  ELSE IF longest > V[Len(V)] THEN {Len(V)}
                  ELSE {r \in DOMAIN V : V[r] = longest}

LongestRunOfOnesTest ==
    /\ Turn("longest_run")
    /\ counts' = [counts EXCEPT !.nu = [r \in DOMAIN V |->
                    @[r] + (IF r \in Class(Longest(i * RunM)) THEN 1 ELSE 0)]]

-----------------------------------------------------------------------------
Occurs(w, at) ==
    \A k \in 0..(TemplateLen - 1) : bits[at + k] = Digit(w, TemplateLen, k)

\* (Mutant: j += m, on top of the loop's own j++.)
AfterMatchAndOne(j) == j + TemplateLen + 1

\* Where the scan goes on after a match: j += m - 1, then j++.
AfterMatch(j) == j + TemplateLen

M == n \div NumBlocks

\* wObs of one block: the matches found from offset j on.
Scan(w, base) ==
    LET found[j \in Nat] ==
          IF j >= M - TemplateLen + 1 THEN 0
          ELSE IF Occurs(w, base + j) THEN 1 + found[AfterMatch(j)]
          ELSE found[j + 1]
    IN found[0]

\* The two loops over templates and blocks.
NonOverlappingTemplateTest ==
    /\ Turn("non_overlapping_template")
    /\ counts' = [counts EXCEPT !.hits = Append(@,
           Scan(Templates[i \div NumBlocks + 1], (i % NumBlocks) * M))]

OnesMatches(base) == Cardinality({j \in 0..(OnesM - TemplateLen) :
                                     OnesIn(base + j, TemplateLen) = TemplateLen})

OverlappingTemplateTest ==
    /\ Turn("overlapping_template")
    /\ counts' = [counts EXCEPT
           !.nuOnes[Min({OnesMatches(i * OnesM), MostOnes})] = @ + 1]

-----------------------------------------------------------------------------
\* Block k, counted from 1, as a number of L bits.
decRep(k) ==
    LET rep[j \in 0..L] == IF j = 0 THEN 0
                           ELSE rep[j - 1] * 2 + bits[(k - 1) * L + j - 1]
    IN rep[L]

\* (Mutant: the distance does not count the block itself.)
GapTo(last, k) == k - last - 1

DistanceTo(last, k) == k - last

\* (Mutant: the table is only filled by the first Q blocks.)
RememberedAtFirst(T, d, k) == IF k > InitBlocks THEN T ELSE [T EXCEPT ![d] = k]

Remembered(T, d, k) == [T EXCEPT ![d] = k]

\* The first Q blocks fill T, the others are measured against it.
UniversalStatisticalTest ==
    /\ Turn("universal")
    /\ LET k == i + 1
           d == decRep(k)
       IN counts' = [counts EXCEPT
            !.T = Remembered(@, d, k),
            !.distances = IF k > InitBlocks
                          THEN Append(@, DistanceTo(counts.T[d], k)) ELSE @]

-----------------------------------------------------------------------------
\* (Mutant: the sequence is not closed to a circle.)
PaddedBit(idx) == IF idx < n THEN bits[idx] ELSE 0

CircularBit(idx) == bits[idx % n]

\* The node of the trie that the w bits from position p on lead to.
Node(p, w) == LET k[j \in 0..w] == IF j = 0 THEN 1
                                   ELSE 2 * k[j - 1] + CircularBit(p + j - 1)
              IN k[w]

\* The table P of psi2 and of ApproximateEntropyTest: P[k-1]++ for each window.
Counted(w) == LET nodes == [p \in 0..(n - 1) |-> Node(p, w)]
              IN [k \in 0..(2 ^ (w + 1) - 2) |->
                    Cardinality({p \in 0..(n - 1) : nodes[p] - 1 = k})]

\* (Mutant: start = 1 << m.)
LeavesFromSecond(w) == (2 ^ w)..(2 ^ (w + 1) - 2)

Leaves(w) == (2 ^ w - 1)..(2 ^ (w + 1) - 2)

\* psi2 times n.
psi2(w, P) == IF w <= 0 THEN 0
              ELSE 2 ^ w * SumFunction([k \in Leaves(w) |-> P[k] * P[k]]) - n * n

ApproximateEntropyTest ==
    /\ Turn("approximate_entropy")
    /\ counts' = [counts EXCEPT !.apen =
                    Append(@, [w |-> ApEnM + i, P |-> Counted(ApEnM + i)])]

SerialTest ==
    /\ Turn("serial")
    /\ LET w == SerialM - i
           P == Counted(w)
       IN counts' = [counts EXCEPT !.serial =
                       Append(@, [w |-> w, P |-> P, psi |-> psi2(w, P)])]

Done == pc = "done" /\ UNCHANGED vars

Next == \/ expandBits \/ NextTest
        \/ FrequencyTest \/ BlockFrequencyTest \/ RunsTest \/ LongestRunOfOnesTest
        \/ NonOverlappingTemplateTest \/ OverlappingTemplateTest
        \/ UniversalStatisticalTest \/ ApproximateEntropyTest \/ SerialTest
        \/ Done

Spec == Init /\ [][Next]_vars

-----------------------------------------------------------------------------
\* Every variable keeps its type; a distance is never 0, whose logarithm the
\* universal test would take (universal.go:69).
TypeOK ==
    /\ pc \in {"start"} \cup {Order[k] : k \in DOMAIN Order} /\ i \in Nat
    /\ pc # "start" => bits \in [0..(n - 1) -> 0..1]
    /\ counts.ones \in 0..n /\ counts.runs \in 0..n
    /\ counts.sums \in Seq(0..BlockSize)
    /\ counts.nu \in [DOMAIN V -> 0..n]
    /\ counts.hits \in Seq(0..M)
    /\ counts.nuOnes \in [0..MostOnes -> 0..n]
    /\ counts.T \in [Words(L) -> 0..(n \div L)]
    /\ counts.distances \in Seq(1..(n \div L))

\* For every number of bits: up to the safety cap MaxBits, RunAllTests admits it
\* exactly when no test would refuse it, and above the cap never, although no
\* test would mind (run_all.go:22-41: MinBits is what the universal test needs);
\* from MinBits on, whether admitted or not, L is the largest block length for
\* which 1000 * 2^L blocks are left to be measured (universal.go:11-43); the
\* classes of the longest run leave no gap, so that no block falls between the
\* cases of the switch (longest_run.go:26-39, 62-74).
SizeFits(size) ==
    /\ Admits(size) <=> Refuses(size) = {} /\ size <= MaxBits
    /\ size > MaxBits => Refuses(size) = {}
    /\ size >= MinBits => \A k \in 6..16 :
          (size \div k - Q(k) >= 1000 * 2 ^ k) <=> k <= BlockLength(size)
    /\ LET v == LongestRunCase(size).V
       IN \A r \in 2..Len(v) : v[r] = v[r - 1] + 1
ParametersFit == pc = "start" => \A size \in Sizes : SizeFits(size)

\* The maximal runs of ones in a block, as pairs of their ends.
RunsOfOnes(base, len) ==
    LET B == base..(base + len - 1)
        one(j) == j \in B /\ bits[j] = 1
    IN {e \in B \X B : /\ \A j \in e[1]..e[2] : one(j)
                       /\ e[1] <= e[2] /\ ~ one(e[1] - 1) /\ ~ one(e[2] + 1)}
RunLengths(base, len) == {e[2] - e[1] + 1 : e \in RunsOfOnes(base, len)}

\* Every block is in exactly one class, that of its longest run of ones, or of
\* the matches its runs hold (longest_run.go:46-75, overlapping_template.go:
\* 37-57), and the sums of the blocks with the tail that belongs to none are
\* the ones that frequency.go counts in the bytes.
BlocksClassified ==
    pc = "done" =>
        /\ \A r \in DOMAIN V : counts.nu[r] = Cardinality({b \in 0..(n \div RunM - 1) :
              LET longest == Max({0} \cup RunLengths(b * RunM, RunM))
              IN V[r] = Min({Max({longest, V[1]}), V[Len(V)]})})
        /\ SumFunction(counts.nu) = n \div RunM
        /\ \A r \in 0..MostOnes :
              counts.nuOnes[r] = Cardinality({b \in 0..(n \div OnesM - 1) :
                 r = Min({MostOnes, SumFunction(
                            [e \in RunsOfOnes(b * OnesM, OnesM) |->
                               Max({0, e[2] - e[1] + 2 - TemplateLen})])})})
        /\ counts.ones = SumFunction(counts.sums)
                         + OnesIn(n - (n % BlockSize), n % BlockSize)

TemplatesComplete == /\ {template9[t] : t \in DOMAIN template9}
                          = {w \in Words(9) : Aperiodic(w, 9)}
                     /\ Len(template9) = Cardinality({w \in Words(9) : Aperiodic(w, 9)})

\* Jumping over a match loses no other one: wObs is the number of all
\* occurrences of the template in the block. It rests on the table, which holds
\* every word that cannot overlap itself, once, and no other
\* (non_overlapping_template.go:49-67, 92-241).
ScanLosesNothing ==
    /\ TemplatesComplete
    /\ pc = "done" =>
         \A h \in DOMAIN counts.hits :
            LET w    == Templates[(h - 1) \div NumBlocks + 1]
                base == ((h - 1) % NumBlocks) * M
            IN counts.hits[h] = Cardinality({j \in 0..(M - TemplateLen) :
                                                Occurs(w, base + j)})

SameBlock(k, k2) == \A j \in 1..L : bits[k * L - j] = bits[k2 * L - j]

\* Every distance is the one to the nearest equal block before, and to the
\* start for a block that is new (universal.go:50-71).
DistancesToLast ==
    pc = "done" =>
        \A q \in DOMAIN counts.distances :
            LET k == InitBlocks + q
            IN counts.distances[q] =
                 k - Max({0} \cup {k2 \in 1..(k - 1) : SameBlock(k, k2)})

\* The tables of two tests agree with each other and with the runs and ones
\* that other tests count: a count is the sum over the words one bit longer on
\* either side, which holds for the circular sequence only; the windows that end
\* in 1 are as many as the ones; two-bit windows change as often as the runs do
\* (approximate_entropy.go:18-43, common.go:39-60).
WindowsAgree ==
    pc = "done" =>
        LET tables == {t \in {counts.apen[k] : k \in DOMAIN counts.apen}
                         \cup {[w |-> s.w, P |-> s.P] :
                                 s \in {counts.serial[k] : k \in DOMAIN counts.serial}} :
                       t.w > 0}
            C(t, word) == t.P[2 ^ t.w - 1 + word]
        IN \A t \in tables :
            /\ SumFunction([x \in Words(t.w) |-> C(t, x)]) = n
            /\ SumFunction([x \in Words(t.w - 1) |-> C(t, 2 * x + 1)]) = counts.ones
            /\ t.w = 2 /\ counts.runs > 0 =>
                 C(t, 1) + C(t, 2) = counts.runs - 1 + (IF bits[0] = bits[n - 1] THEN 0 ELSE 1)
            /\ \A u \in tables : u.w = t.w + 1 =>
                 \A x \in Words(t.w) :
                    /\ C(t, x) = C(u, 2 * x) + C(u, 2 * x + 1)
                    /\ C(t, x) = C(u, x) + C(u, x + 2 ^ t.w)

\* Neither argument of the serial test's incomplete gamma function, which is
\* defined from 0 on, is negative (serial.go:22-26).
SerialNonNegative ==
    Len(counts.serial) = 3 =>
        LET psi(k) == counts.serial[k].psi
        IN /\ psi(1) - psi(2) >= 0
           /\ psi(1) - 2 * psi(2) + psi(3) >= 0
=============================================================================
