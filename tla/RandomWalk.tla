------------------------------ MODULE RandomWalk ------------------------------
(***************************************************************************)
(* internal/nist/cumulative_sums.go, random_excursions.go and              *)
(* random_excursions_variant.go: the three tests that read the bitstream   *)
(* as a walk of steps +1 and -1. Modelled is all they do with integers, up *)
(* to the numbers their p-values are computed from. Positions count from 1 *)
(* where the code's indices count from 0.                                  *)
(*                                                                         *)
(* The two excursion tests build the same walk, each for itself; it is     *)
(* built once here, with the bits chosen as it grows, and the tests follow *)
(* one another on it.                                                      *)
(***************************************************************************)
EXTENDS Integers, Sequences, FiniteSets, FiniteSetsExt

CONSTANTS N,            \* the number of bits
          MinCycles,    \* 500: int(max(0.005 * sqrt(n), 500)) up to MaxBits
          Near, Far     \* 4 and 9: the states are -Near..Near, -Far..Far

ASSUME RandomWalkAssumption == /\ N \in Nat \ {0}
                               /\ MinCycles \in Nat \ {0}
                               /\ Near \in Nat \ {0} /\ Far \in Nat
                               /\ Near <= Far

VARIABLES
    pc,        \* the loop that is running
    bits,      \* the bits read so far
    S,         \* the walk
    J,         \* the number of cycles
    i,         \* the position of the loop
    cycle,     \* where each cycle ends
    idx,       \* the next entry of cycle to be written
    j,         \* the cycle being counted
    cycleStart, cycleStop,
    nu,        \* nu[k][x]: cycles that visit x k times, 5 standing for more
    visits,    \* the variant's count of every state
    sum, sup, inf,  \* cumulativeSums
    z          \* the largest excursion of the forward and the reverse pass

walkVars == <<bits, S, J>>
cycleVars == <<cycle, idx, j, cycleStart, cycleStop, nu>>
cusumVars == <<sum, sup, inf, z>>
vars == <<pc, walkVars, i, cycleVars, visits, cusumVars>>

stateX == (-Near..Near) \ {0}
variantX == (-Far..Far) \ {0}
Most == 5

Init == /\ pc = "walk" /\ bits = <<>> /\ S = <<>> /\ J = 0 /\ i = 1
        /\ cycle = <<>> /\ idx = 1 /\ j = 1 /\ cycleStart = 1 /\ cycleStop = 0
        /\ nu = [k \in 0..Most |-> [x \in stateX |-> 0]]
        /\ visits = [x \in variantX |-> 0]
        /\ sum = 0 /\ sup = 0 /\ inf = 0 /\ z = [forward |-> 0, reverse |-> 0]

-----------------------------------------------------------------------------
Height(p) == IF p = 0 THEN 0 ELSE S[p]

\* (Mutant: 2 * b - 1 is computed in the width of the bit, uint8.)
StepInByte(b) == (2 * b - 1) % 256

StepOf(b) == 2 * b - 1

\* (Mutant: only a return from below is one.)
ReturnFromBelow(here) == here = 0 /\ Height(Len(S)) < 0

Return(here) == here = 0

\* S and J grow bit by bit.
Walk == /\ pc = "walk" /\ Len(bits) < N
        /\ \E b \in 0..1 :
              LET here == Height(Len(S)) + StepOf(b)
              IN /\ bits' = Append(bits, b)
                 /\ S' = Append(S, here)
                 /\ J' = IF Return(here) THEN J + 1 ELSE J
        /\ UNCHANGED <<pc, i, cycleVars, visits, cusumVars>>

Cycles == IF S[N] # 0 THEN J + 1 ELSE J

\* The last cycle is closed; with too few cycles both tests give up.
CloseWalk == /\ pc = "walk" /\ Len(bits) = N
             /\ J' = Cycles
             /\ IF Cycles < MinCycles
                THEN pc' = "forward" /\ UNCHANGED cycle
                ELSE pc' = "index" /\ cycle' = [c \in 1..Cycles |-> 1]
             /\ UNCHANGED <<bits, S, i, idx, j, cycleStart, cycleStop, nu,
                            visits, cusumVars>>

\* The second loop: the position of every return to zero.
Index == /\ pc = "index" /\ i <= N
         /\ IF S[i] = 0
            THEN cycle' = [cycle EXCEPT ![idx] = i] /\ idx' = idx + 1
            ELSE UNCHANGED <<cycle, idx>>
         /\ i' = i + 1
         /\ UNCHANGED <<pc, walkVars, j, cycleStart, cycleStop, nu, visits,
                        cusumVars>>

EndIndex == /\ pc = "index" /\ i > N
            /\ pc' = "cycles"
            /\ cycle' = [cycle EXCEPT ![J] = N]
            /\ cycleStop' = cycle'[1]
            /\ UNCHANGED <<walkVars, i, idx, j, cycleStart, nu, visits, cusumVars>>

\* (Mutant: the next cycle starts on the zero that ends this one.)
AtTheZero(c) == cycle[c]

After(c) == cycle[c] + 1

\* (Mutant: the loop starts one position too late.)
VisitsAfter(from, to, x) == Cardinality({p \in (from + 1)..to : S[p] = x})

VisitsIn(from, to, x) == Cardinality({p \in from..to : S[p] = x})

\* (Mutant: > 5 for >= 5, and five visits are in neither branch.)
BetweenBranches(n) == IF n > Most THEN Most ELSE IF n < Most THEN n ELSE -1

Bin(n) == IF n >= Most THEN Most ELSE n

\* The third loop: the visits of one cycle, and where the next one lies.
CountCycle ==
    /\ pc = "cycles" /\ j <= J
    /\ nu' = [k \in 0..Most |-> [x \in stateX |->
                 nu[k][x] + (IF Bin(VisitsIn(cycleStart, cycleStop, x)) = k
                             THEN 1 ELSE 0)]]
    /\ cycleStart' = After(j)
    /\ cycleStop' = IF j < J THEN cycle[j + 1] ELSE cycleStop
    /\ j' = j + 1
    /\ UNCHANGED <<pc, walkVars, i, cycle, idx, visits, cusumVars>>

\* RandomExcursionsVariantTest: the visits of the whole walk.
CountVisits == /\ pc = "cycles" /\ j > J
               /\ pc' = "forward"
               /\ visits' = [x \in variantX |-> VisitsIn(1, N, x)]
               /\ i' = 1
               /\ UNCHANGED <<walkVars, cycleVars, cusumVars>>

-----------------------------------------------------------------------------
\* cumulativeSums. The loop's body: the sum, then its two extremes.
Larger(a, b) == IF a > b THEN a ELSE b
Smaller(a, b) == IF a < b THEN a ELSE b

Accumulate(b) == /\ sum' = sum + StepOf(b)
                 /\ sup' = Larger(sup, sum')
                 /\ inf' = Smaller(inf, sum')

\* (Mutant: only the excursion above zero counts.)
SupOnly == sup

Excursion == Larger(sup, -inf)

Reset == sum' = 0 /\ sup' = 0 /\ inf' = 0

Forward == /\ pc = "forward" /\ i <= N
           /\ Accumulate(bits[i])
           /\ i' = i + 1
           /\ UNCHANGED <<pc, walkVars, cycleVars, visits, z>>

EndForward == /\ pc = "forward" /\ i > N
              /\ pc' = "reverse" /\ i' = N
              /\ z' = [z EXCEPT !.forward = Excursion]
              /\ Reset
              /\ UNCHANGED <<walkVars, cycleVars, visits>>

Reverse == /\ pc = "reverse" /\ i >= 1
           /\ Accumulate(bits[i])
           /\ i' = i - 1
           /\ UNCHANGED <<pc, walkVars, cycleVars, visits, z>>

EndReverse == /\ pc = "reverse" /\ i < 1
              /\ pc' = "done"
              /\ z' = [z EXCEPT !.reverse = Excursion]
              /\ Reset
              /\ UNCHANGED <<walkVars, i, cycleVars, visits>>

Done == pc = "done" /\ UNCHANGED vars

\* int() of a quotient: it rounds towards zero.
Truncated(a, b) == IF a >= 0 THEN a \div b ELSE - ((- a) \div b)

\* (Mutant: the last term is left out.)
FinishEarly(e) == Truncated(N - e, 4 * e) - 1

\* The terms of the sums: k runs from start to finish.
start(e) == Truncated(e - N, 4 * e)
finish(e) == Truncated(N - e, 4 * e)

Next == \/ Walk \/ CloseWalk \/ Index \/ EndIndex \/ CountCycle \/ CountVisits
        \/ Forward \/ EndForward \/ Reverse \/ EndReverse \/ Done

Spec == Init /\ [][Next]_vars

-----------------------------------------------------------------------------
\* Every variable keeps its type; the counters never exceed the walk.
TypeOK ==
    /\ pc \in {"walk", "index", "cycles", "forward", "reverse", "done"}
    /\ bits \in Seq(0..1) /\ Len(bits) <= N
    /\ S \in Seq(-N..N) /\ Len(S) = Len(bits)
    /\ J \in 0..N /\ i \in 0..(N + 1) /\ j \in 1..(N + 1) /\ idx \in 1..(N + 1)
    /\ cycle \in Seq(1..N)
    /\ cycleStart \in 1..(N + 1) /\ cycleStop \in 0..N
    /\ nu \in [0..Most -> [stateX -> 0..N]]
    /\ visits \in [variantX -> 0..N]
    /\ sum \in -N..N /\ sup \in 0..N /\ inf \in -N..0
    /\ z \in [forward : 0..N, reverse : 0..N]

\* The index loop writes inside the slice of J+1 entries: every return to zero
\* has a cycle of its own (random_excursions.go:33-41); Go would panic.
WritesInSlice == pc = "index" /\ i <= N /\ S[i] = 0 => idx <= J

\* The j-th cycle the third loop reads is the j-th stretch of the walk between
\* returns to zero: no position is read twice, left out or given to another
\* cycle (random_excursions.go:53-78).
CycleIsStretch ==
    pc = "cycles" /\ j <= J =>
        cycleStart..cycleStop =
            {p \in 1..N : Cardinality({q \in 1..(p - 1) : S[q] = 0}) = j - 1}

SumOfRows(f) == f[0] + f[1] + f[2] + f[3] + f[4] + f[Most]

\* Every state of every cycle counted so far is in exactly one row of nu, as
\* the chi-squared statistic with J cycles needs (random_excursions.go:80-100).
EveryCycleInOneRow ==
    \A x \in stateX :
        SumOfRows([k \in 0..Most |-> nu[k][x]]) = j - 1

\* The two excursion tests agree: the visits the variant counts over the whole
\* walk are those the first test counts cycle by cycle, as far as its last row
\* lets it (random_excursions_variant.go:32-43).
ExcursionTestsAgree ==
    pc \in {"forward", "reverse", "done"} /\ J >= MinCycles =>
        \A x \in stateX :
            LET perCycle == SumOfRows([k \in 0..Most |-> k * nu[k][x]])
            IN /\ perCycle <= visits[x]
               /\ nu[Most][x] = 0 => perCycle = visits[x]

\* The forward excursion is the walk's distance from where it starts, the
\* reverse one its distance from where it ends (cumulative_sums.go:29-62).
ExcursionsOfTheWalk ==
    pc = "done" =>
        /\ z.forward = Max({Larger(S[p], - S[p]) : p \in 1..N})
        /\ z.reverse = Max({Larger(S[N] - Height(p), Height(p) - S[N]) :
                               p \in 0..(N - 1)})

\* The two sums over k are taken from the same start to the same finish, and
\* z is never 0 (cumulative_sums.go:64-76). A term of the first one has its
\* arguments at 4k - 1 and 4k + 1, of the second at 4k + 1 and 4k + 3, all times
\* z. The first sum is symmetric and takes exactly the terms that have both
\* arguments inside the walk, at most N from 0. The terms of the second are
\* symmetric round k = -1/2, and the range is not: of the terms whose nearer
\* argument lies inside it takes all but the lowest, k = start - 1, the mirror
\* image of k = finish. SP 800-22 begins the second sum there, at (-n/z - 3) / 4.
Distance(a) == Larger(a, - a)
TermsAreThoseInside ==
    pc = "done" => \A e \in {z.forward, z.reverse} :
        /\ e # 0
        /\ start(e)..finish(e) =
              {k \in -N..N : /\ Distance(4 * k - 1) * e <= N
                             /\ Distance(4 * k + 1) * e <= N}
        /\ (start(e) - 1)..finish(e) =
              {k \in -N..N : \/ Distance(4 * k + 1) * e <= N
                             \/ Distance(4 * k + 3) * e <= N}
=============================================================================
