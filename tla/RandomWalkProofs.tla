--------------------------- MODULE RandomWalkProofs ---------------------------
(***************************************************************************)
(* The properties of the three tests that read the bitstream as a walk,    *)
(* for bitstreams of every length.                                         *)
(*                                                                         *)
(* The excursion tests rest on one count: how many zeros the walk has up   *)
(* to a position. The c-th entry of cycle is the position where it becomes *)
(* c, which places every write in the slice and every position in one      *)
(* cycle; the visits counted are then those of an initial stretch that     *)
(* grows cycle by cycle. The cumulative sums keep the extremes of the      *)
(* positions they have passed.                                             *)
(***************************************************************************)
EXTENDS RandomWalk, Induction

\* The number of returns to zero of the walk s up to position p.
Zeros(s, p) == Cardinality({q \in 1..p : s[q] = 0})

\* The walk follows the bits and cannot get further than one for each.
WalkInv ==
    /\ bits \in Seq(0..1) /\ S \in Seq(Int) /\ Len(S) = Len(bits) /\ Len(S) <= N
    /\ \A p \in 1..Len(S) : S[p] = Height(p - 1) + StepOf(bits[p]) /\ S[p] \in (- p)..p
    /\ pc # "walk" => Len(S) = N

\* J counts the zeros, and the open cycle at the end when there is one.
CountInv ==
    /\ pc = "walk" => J = Zeros(S, Len(S))
    /\ pc # "walk" => J = Zeros(S, N) + (IF S[N] = 0 THEN 0 ELSE 1)

\* Position p is where the c-th cycle of the walk s returns to zero.
IsReturn(s, p, c) == p \in 1..N /\ s[p] = 0 /\ Zeros(s, p) = c

\* While the walk grows no loop has started.
StartInv ==
    pc = "walk" => /\ i = 1 /\ idx = 1 /\ j = 1 /\ cycleStart = 1
                   /\ cycle = <<>>

IndexInv ==
    pc = "index" =>
        /\ i \in 1..(N + 1) /\ J >= MinCycles
        /\ cycle \in [1..J -> 1..N]
        /\ idx = Zeros(S, i - 1) + 1
        /\ \A c \in 1..(idx - 1) : IsReturn(S, cycle[c], c)

\* After the index loop every cycle but an open one ends in its return.
CyclesInv ==
    pc = "cycles" =>
        /\ J >= MinCycles
        /\ cycle \in [1..J -> 1..N] /\ cycle[J] = N
        /\ \A c \in 1..J : (c < J \/ S[N] = 0) => IsReturn(S, cycle[c], c)
        /\ j \in 1..(J + 1)
        /\ cycleStart = IF j = 1 THEN 1 ELSE cycle[j - 1] + 1
        /\ cycleStop = IF j <= J THEN cycle[j] ELSE N

PerCycle(x) == SumOfRows([k \in 0..Most |-> k * nu[k][x]])

\* n visits in all are at least those the rows tell of, and exactly those as
\* long as no cycle is in the last row.
RowsTell(x, n) == PerCycle(x) <= n /\ (nu[Most][x] = 0 => PerCycle(x) = n)

NuInv ==
    /\ nu \in [0..Most -> [stateX -> Nat]] /\ j \in Nat
    /\ EveryCycleInOneRow
    /\ pc \in {"walk", "index"} => j = 1 /\ cycleStart = 1
    /\ pc \in {"forward", "reverse", "done"} => j = IF J < MinCycles THEN 1 ELSE J + 1
    /\ pc = "cycles" => \A x \in stateX : RowsTell(x, VisitsIn(1, cycleStart - 1, x))
    /\ pc \in {"forward", "reverse", "done"} /\ J >= MinCycles =>
          \A x \in stateX : RowsTell(x, visits[x])

\* hi and lo are the extremes of 0 and the sums in T.
Extremes(T, lo, hi) ==
    /\ lo \in T \cup {0} /\ hi \in T \cup {0}
    /\ lo <= 0 /\ 0 <= hi
    /\ \A t \in T : lo <= t /\ t <= hi

ForwardSums(p) == {S[q] : q \in 1..p}
ReverseSums(p) == {S[N] - Height(q) : q \in p..(N - 1)}

IsLargest(m, T) == m \in T /\ \A t \in T : t <= m

ForwardDistances == {Larger(S[p], - S[p]) : p \in 1..N}
ReverseDistances == {Larger(S[N] - Height(p), Height(p) - S[N]) : p \in 0..(N - 1)}

CusumInv ==
    /\ pc \notin {"forward", "reverse"} => sum = 0 /\ sup = 0 /\ inf = 0
    /\ pc = "forward" => /\ i \in 1..(N + 1)
                         /\ sum = Height(i - 1)
                         /\ Extremes(ForwardSums(i - 1), inf, sup)
    /\ pc = "reverse" => /\ i \in 0..N
                         /\ sum = S[N] - Height(i)
                         /\ Extremes(ReverseSums(i), inf, sup)
                         /\ \A t \in ReverseSums(i) \cup {sum} : t \in (i - N)..(N - i)
    /\ pc \notin {"reverse", "done"} => z.forward = 0
    /\ pc # "done" => z.reverse = 0
    /\ pc \in {"reverse", "done"} => IsLargest(z.forward, ForwardDistances)
    /\ pc = "done" => IsLargest(z.reverse, ReverseDistances)

IInv == TypeOK /\ WalkInv /\ StartInv /\ CountInv /\ IndexInv /\ CyclesInv /\ NuInv /\ CusumInv
-----------------------------------------------------------------------------
(* Counting zeros and visits. *)

\* The zeros up to a position are finitely many, at most one for each position.
LEMMA ZerosType ==
  ASSUME NEW s, NEW p \in Nat
  PROVE  /\ IsFiniteSet({q \in 1..p : s[q] = 0})
         /\ Zeros(s, p) \in Nat /\ Zeros(s, p) <= p
<1>1. IsFiniteSet(1..p) /\ Cardinality(1..p) = p
  BY FS_Interval
<1>2. {q \in 1..p : s[q] = 0} \in SUBSET (1..p)
  OBVIOUS
<1> QED
  BY <1>1, <1>2, FS_Subset, FS_CardinalityType DEF Zeros

\* Before the first position there is none.
LEMMA NoZeros ==
  ASSUME NEW s PROVE Zeros(s, 0) = 0
<1>1. {q \in 1..0 : s[q] = 0} = {}
  OBVIOUS
<1> QED
  BY <1>1, FS_EmptySet DEF Zeros

\* Each position that is zero adds one.
LEMMA NextZero ==
  ASSUME NEW s, NEW p \in Nat
  PROVE  Zeros(s, p + 1) = Zeros(s, p) + (IF s[p + 1] = 0 THEN 1 ELSE 0)
<1> DEFINE T == {q \in 1..p : s[q] = 0}
           U == {q \in 1..(p + 1) : s[q] = 0}
<1>1. IsFiniteSet(T) /\ p + 1 \notin T
  <2>1. IsFiniteSet(T)
    BY ZerosType, Zenon
  <2>2. p + 1 \notin 1..p
    OBVIOUS
  <2> QED
    BY <2>1, <2>2
<1>5. Cardinality(T) \in Nat
  BY <1>1, FS_CardinalityType
<1>2. \A q : q \in 1..(p + 1) <=> (q \in 1..p \/ q = p + 1)
  OBVIOUS
<1>3. CASE s[p + 1] = 0
  <2>1. \A q : q \in U <=> q \in T \cup {p + 1}
    BY <1>2, <1>3, Zenon
  <2>2. U = T \cup {p + 1}
    BY <2>1, Zenon
  <2> HIDE DEF T, U
  <2>3. Cardinality(U) = Cardinality(T) + 1
    BY <1>1, <2>2, FS_AddElement
  <2> QED
    BY <1>3, <2>3 DEF Zeros, T, U
<1>4. CASE s[p + 1] # 0
  <2>1. U = T
    BY <1>2, <1>4, Zenon
  <2>2. Cardinality(U) = Cardinality(T)
    BY <2>1
  <2> HIDE DEF T, U
  <2> QED
    BY <1>4, <1>5, <2>2 DEF Zeros, T, U
<1> QED
  BY <1>3, <1>4

\* The count never falls.
LEMMA ZerosGrow ==
  ASSUME NEW s, NEW p \in Nat, NEW q \in Nat, p <= q
  PROVE  Zeros(s, p) <= Zeros(s, q)
<1>1. {r \in 1..p : s[r] = 0} \in SUBSET {r \in 1..q : s[r] = 0}
  OBVIOUS
<1>2. IsFiniteSet({r \in 1..q : s[r] = 0})
  BY ZerosType
<1> QED
  BY <1>1, <1>2, FS_Subset, Zenon DEF Zeros

\* It is larger at a zero than anywhere before it, so that a return to zero is
\* known by its count.
LEMMA ZeroIsNew ==
  ASSUME NEW s, NEW p \in Nat, NEW q \in Nat, p < q, s[q] = 0
  PROVE  Zeros(s, p) < Zeros(s, q)
<1>1. q - 1 \in Nat /\ p <= q - 1 /\ (q - 1) + 1 = q
  OBVIOUS
<1>2. Zeros(s, p) <= Zeros(s, q - 1)
  BY <1>1, ZerosGrow
<1>3. Zeros(s, q) = Zeros(s, q - 1) + 1
  BY <1>1, NextZero
<1>4. Zeros(s, p) \in Nat /\ Zeros(s, q - 1) \in Nat
  BY <1>1, ZerosType, Zenon
<1> QED
  BY <1>2, <1>3, <1>4

\* What comes after position p does not change the count up to it.
LEMMA ZerosOfAppend ==
  ASSUME NEW s \in Seq(Int), NEW e \in Int, NEW p \in 0..Len(s)
  PROVE  Zeros(Append(s, e), p) = Zeros(s, p)
<1>1. \A q \in 1..p : Append(s, e)[q] = s[q]
  OBVIOUS
<1>2. {q \in 1..p : Append(s, e)[q] = 0} = {q \in 1..p : s[q] = 0}
  BY <1>1
<1> QED
  BY <1>2 DEF Zeros

\* Visits are at most the positions looked at.
LEMMA VisitsType ==
  ASSUME NEW from \in 1..(N + 1), NEW to \in 0..N, NEW x
  PROVE  /\ IsFiniteSet({p \in from..to : S[p] = x})
         /\ VisitsIn(from, to, x) \in 0..N
<1>1. N \in Nat
  BY RandomWalkAssumption
<1>2. IsFiniteSet(from..to) /\ Cardinality(from..to) \in 0..N
  <2>1. from \in Int /\ to \in Int
    BY <1>1
  <2>2. /\ IsFiniteSet(from..to)
        /\ Cardinality(from..to) = IF from > to THEN 0 ELSE to - from + 1
    BY <2>1, FS_Interval, Zenon
  <2> QED
    BY <1>1, <2>2
<1>3. {p \in from..to : S[p] = x} \in SUBSET (from..to)
  OBVIOUS
<1> QED
  BY <1>1, <1>2, <1>3, FS_Subset, FS_CardinalityType DEF VisitsIn

\* The visits of an initial stretch and of the stretch after it add up.
LEMMA VisitsAddUp ==
  ASSUME NEW p \in 0..N, NEW q \in p..N, NEW x
  PROVE  VisitsIn(1, q, x) = VisitsIn(1, p, x) + VisitsIn(p + 1, q, x)
<1> DEFINE T == {r \in 1..p : S[r] = x}
           U == {r \in (p + 1)..q : S[r] = x}
           V == {r \in 1..q : S[r] = x}
<1>1. N \in Nat
  BY RandomWalkAssumption
<1>2. IsFiniteSet(T) /\ IsFiniteSet(U)
  <2>1. 1 \in 1..(N + 1) /\ p + 1 \in 1..(N + 1) /\ p \in 0..N /\ q \in 0..N
    BY <1>1
  <2> QED
    BY <2>1, VisitsType, Zenon
<1>3. V = T \cup U
  <2>1. \A r : r \in 1..q <=> (r \in 1..p \/ r \in (p + 1)..q)
    BY <1>1
  <2>2. \A r : r \in V <=> r \in T \cup U
    BY <2>1, Zenon
  <2> QED
    BY <2>2, Zenon
<1>4. T \cap U = {}
  BY <1>1
<1> HIDE DEF T, U, V
<1>5. Cardinality(T \cap U) = 0
  BY <1>4, FS_EmptySet
<1>6. Cardinality(V) = Cardinality(T) + Cardinality(U)
  BY <1>2, <1>3, <1>5, FS_Union, FS_CardinalityType
<1> QED
  BY <1>6 DEF VisitsIn, T, U, V

\* No position, no visit.
LEMMA NoVisits == \A x : VisitsIn(1, 0, x) = 0
<1> SUFFICES ASSUME NEW x PROVE VisitsIn(1, 0, x) = 0
  OBVIOUS
<1>1. {p \in 1..0 : S[p] = x} = {}
  OBVIOUS
<1> QED
  BY <1>1, FS_EmptySet DEF VisitsIn
-----------------------------------------------------------------------------
(* The walk. *)

\* What the other parts need of the walk: heights are integers within the
\* number of steps.
LEMMA Heights ==
  ASSUME WalkInv
  PROVE  /\ N \in Nat /\ N >= 1 /\ Len(S) \in 0..N
         /\ Height(0) = 0
         /\ \A p \in 0..Len(S) : Height(p) \in (- p)..p /\ Height(p) \in Int
         /\ \A p \in 1..Len(S) : /\ Height(p) = S[p] /\ S[p] \in Int
                                 /\ StepOf(bits[p]) \in {-1, 1}
                                 /\ S[p] = Height(p - 1) + StepOf(bits[p])
<1>1. N \in Nat /\ N >= 1
  BY RandomWalkAssumption
<1>2. Len(S) \in Nat /\ Len(S) <= N
  BY DEF WalkInv
<1>3. \A p \in 1..Len(S) : bits[p] \in 0..1
  BY DEF WalkInv
<1>4. \A p \in 1..Len(S) : StepOf(bits[p]) \in {-1, 1}
  BY <1>3 DEF StepOf
<1>5. \A p \in 1..Len(S) : S[p] = Height(p - 1) + StepOf(bits[p]) /\ S[p] \in (- p)..p
  BY Zenon DEF WalkInv
<1>6. \A p \in 1..Len(S) : Height(p) = S[p] /\ S[p] \in Int
  BY <1>2, <1>5 DEF Height
<1>7. \A p \in 0..Len(S) : Height(p) \in (- p)..p /\ Height(p) \in Int
  BY <1>2, <1>5 DEF Height
<1> QED
  BY <1>1, <1>2, <1>4, <1>5, <1>6, <1>7 DEF Height

\* Bits and walk grow together; when the walk is closed it is complete.
LEMMA WalkKept ==
  ASSUME WalkInv, [Next]_vars PROVE WalkInv'
<1>1. CASE Walk
  <2>1. PICK b \in 0..1 : /\ bits' = Append(bits, b)
                          /\ S' = Append(S, Height(Len(S)) + StepOf(b))
    BY <1>1 DEF Walk
  <2>2. pc = "walk" /\ pc' = "walk" /\ Len(bits) < N
    BY <1>1 DEF Walk
  <2> DEFINE n == Len(S)
             here == Height(n) + StepOf(b)
  <2>3. bits \in Seq(0..1) /\ S \in Seq(Int) /\ n = Len(bits) /\ n \in Nat /\ n < N /\ N \in Nat
    BY <2>2, RandomWalkAssumption DEF WalkInv
  <2>4. Height(n) \in (- n)..n /\ Height(n) \in Int
    BY <2>3, Heights
  <2>5. StepOf(b) \in {-1, 1}
    BY DEF StepOf
  <2>6. here \in Int /\ here \in (- (n + 1))..(n + 1)
    BY <2>3, <2>4, <2>5
  <2> HIDE DEF here
  <2>7. S' = Append(S, here)
    BY <2>1 DEF here
  <2>8. /\ bits' \in Seq(0..1) /\ S' \in Seq(Int)
        /\ Len(bits') = n + 1 /\ Len(S') = n + 1
    BY <2>1, <2>3, <2>6, <2>7
  <2>9. ASSUME NEW p \in 1..(n + 1)
        PROVE  S'[p] = Height(p - 1)' + StepOf(bits'[p]) /\ S'[p] \in (- p)..p
    <3>1. CASE p = n + 1
      <4>1. S'[p] = here /\ bits'[p] = b
        BY <2>1, <2>3, <2>6, <2>7, <3>1
      <4>2. Height(p - 1)' = Height(n)
        BY <2>3, <2>6, <2>7, <3>1 DEF Height
      <4> QED
        BY <2>6, <3>1, <4>1, <4>2 DEF here
    <3>2. CASE p # n + 1
      <4>1. p \in 1..n
        BY <2>3, <3>2
      <4>2. S'[p] = S[p] /\ bits'[p] = bits[p]
        BY <2>1, <2>3, <2>6, <2>7, <4>1
      <4>3. Height(p - 1)' = Height(p - 1)
        BY <2>3, <2>6, <2>7, <4>1 DEF Height
      <4>4. S[p] = Height(p - 1) + StepOf(bits[p]) /\ S[p] \in (- p)..p
        BY <4>1, Zenon DEF WalkInv
      <4> QED
        BY <4>2, <4>3, <4>4
    <3> QED
      BY <3>1, <3>2
  <2>10. Len(S') <= N
    BY <2>3, <2>8
  <2> HIDE DEF n
  <2> QED
    BY <2>2, <2>8, <2>9, <2>10, Zenon DEF WalkInv
<1>2. CASE ~ Walk
  <2>1. UNCHANGED <<bits, S>>
    BY <1>2 DEF Next, CloseWalk, Index, EndIndex, CountCycle, CountVisits, Forward,
                EndForward, Reverse, EndReverse, Done, vars, walkVars
  <2>2. pc' # "walk" => Len(S) = N
    BY <1>2 DEF Next, CloseWalk, Index, EndIndex, CountCycle, CountVisits, Forward,
                EndForward, Reverse, EndReverse, Done, vars, WalkInv
  <2> QED
    BY <2>1, <2>2, Zenon DEF WalkInv, Height
<1> QED
  BY <1>1, <1>2

\* The steps after the walk leave it alone.
LEMMA WalkIsClosed ==
  ASSUME [Next]_vars, pc # "walk"
  PROVE  pc' # "walk" /\ UNCHANGED walkVars
BY DEF Next, Walk, CloseWalk, Index, EndIndex, CountCycle, CountVisits, Forward,
       EndForward, Reverse, EndReverse, Done, vars, walkVars

\* J counts the returns while the walk grows.
LEMMA CountKept ==
  ASSUME WalkInv, CountInv, [Next]_vars PROVE CountInv'
<1>1. CASE Walk
  <2>1. PICK b \in 0..1 :
           LET here == Height(Len(S)) + StepOf(b)
           IN /\ S' = Append(S, here)
              /\ J' = IF Return(here) THEN J + 1 ELSE J
    BY <1>1, Zenon DEF Walk
  <2> DEFINE n == Len(S)
             here == Height(n) + StepOf(b)
  <2>2. pc = "walk" /\ pc' = "walk" /\ S \in Seq(Int) /\ n \in Nat /\ J = Zeros(S, n)
    BY <1>1 DEF Walk, WalkInv, CountInv
  <2>3. here \in Int
    BY <2>2, Heights DEF StepOf
  <2>4. S' = Append(S, here) /\ J' = IF here = 0 THEN J + 1 ELSE J
    BY <2>1 DEF Return
  <2> HIDE DEF here
  <2>5. Len(S') = n + 1 /\ S'[n + 1] = here
    BY <2>2, <2>3, <2>4
  <2>6. Zeros(S', n) = Zeros(S, n)
    BY <2>2, <2>3, <2>4, ZerosOfAppend
  <2>7. Zeros(S', n + 1) = Zeros(S', n) + (IF S'[n + 1] = 0 THEN 1 ELSE 0)
    BY <2>2, NextZero
  <2>8. J' = Zeros(S', Len(S'))
    BY <2>2, <2>4, <2>5, <2>6, <2>7, ZerosType
  <2> QED
    BY <2>2, <2>8 DEF CountInv
<1>2. CASE CloseWalk
  <2>1. /\ pc = "walk" /\ pc' # "walk" /\ Len(bits) = N /\ UNCHANGED S
        /\ J' = IF S[N] # 0 THEN J + 1 ELSE J
    BY <1>2 DEF CloseWalk, Cycles
  <2>2. J = Zeros(S, N) /\ J \in Nat
    BY <2>1, RandomWalkAssumption, ZerosType DEF WalkInv, CountInv
  <2>3. J' = Zeros(S, N) + (IF S[N] = 0 THEN 0 ELSE 1)
    BY <2>1, <2>2
  <2> QED
    BY <2>1, <2>3 DEF CountInv
<1>3. CASE pc # "walk"
  BY <1>3, WalkIsClosed DEF CountInv, walkVars
<1>4. CASE UNCHANGED vars
  BY <1>4 DEF CountInv, vars, walkVars
<1> QED
  BY <1>1, <1>2, <1>3, <1>4 DEF Next, Index, EndIndex, CountCycle, CountVisits,
     Forward, EndForward, Reverse, EndReverse, Done

\* There are at most as many cycles as positions, one for every zero and one
\* more only if the last position is not zero.
LEMMA CyclesInWalk ==
  ASSUME WalkInv, CountInv
  PROVE  J \in 0..N /\ (pc # "walk" => J >= 1)
<1>1. N \in Nat /\ N >= 1 /\ Len(S) \in 0..N
  BY Heights
<1>2. Zeros(S, Len(S)) \in Nat /\ Zeros(S, Len(S)) <= Len(S)
  <2>1. Len(S) \in Nat
    BY <1>1
  <2> QED
    BY <2>1, ZerosType, Zenon
<1>3. CASE pc = "walk"
  BY <1>1, <1>2, <1>3 DEF CountInv
<1>4. CASE pc # "walk"
  <2>1. Zeros(S, N) \in Nat /\ Zeros(S, N) <= N
    BY <1>1, ZerosType
  <2>2. Zeros(S, N - 1) \in Nat /\ Zeros(S, N - 1) <= N - 1
    <3>1. N - 1 \in Nat
      BY <1>1
    <3> QED
      BY <3>1, ZerosType, Zenon
  <2>3. Zeros(S, (N - 1) + 1) = Zeros(S, N - 1) + (IF S[(N - 1) + 1] = 0 THEN 1 ELSE 0)
    BY <1>1, NextZero
  <2>4. (N - 1) + 1 = N
    BY <1>1
  <2>5. J = Zeros(S, N) + (IF S[N] = 0 THEN 0 ELSE 1)
    BY <1>4 DEF CountInv
  <2> QED
    BY <1>1, <2>1, <2>2, <2>3, <2>4, <2>5
<1> QED
  BY <1>3, <1>4
-----------------------------------------------------------------------------
(* The returns to zero and the cycles they end. *)

\* Every return has an entry of its own in the slice.
LEMMA ReturnHasEntry ==
  ASSUME WalkInv, CountInv, IndexInv, pc = "index", i <= N, S[i] = 0
  PROVE  idx \in 1..J /\ IsReturn(S, i, idx)
<1>1. N \in Nat /\ i \in 1..N /\ idx = Zeros(S, i - 1) + 1
  BY RandomWalkAssumption DEF IndexInv
<1>2. Zeros(S, (i - 1) + 1) = Zeros(S, i - 1) + (IF S[(i - 1) + 1] = 0 THEN 1 ELSE 0)
  <2>1. i - 1 \in Nat
    BY <1>1
  <2> QED
    BY <2>1, NextZero, Zenon
<1>3. (i - 1) + 1 = i
  BY <1>1
<1>4. Zeros(S, i - 1) \in Nat /\ Zeros(S, i) \in Nat /\ Zeros(S, N) \in Nat
  <2>1. i - 1 \in Nat /\ i \in Nat
    BY <1>1
  <2> QED
    BY <1>1, <2>1, ZerosType, Zenon
<1>5. Zeros(S, i) <= Zeros(S, N)
  BY <1>1, ZerosGrow
<1>6. J = Zeros(S, N) + (IF S[N] = 0 THEN 0 ELSE 1)
  BY DEF CountInv
<1>7. idx = Zeros(S, i)
  BY <1>1, <1>2, <1>3
<1> QED
  BY <1>1, <1>4, <1>5, <1>6, <1>7 DEF IsReturn

\* The index loop writes the c-th return into the c-th entry.
LEMMA IndexKept ==
  ASSUME TypeOK, WalkInv, StartInv, CountInv, IndexInv, [Next]_vars PROVE IndexInv'
<1> SUFFICES ASSUME pc' = "index" PROVE IndexInv'
  BY DEF IndexInv
<1>1. N \in Nat /\ N >= 1 /\ Len(S) \in 0..N
  BY Heights
<1>2. CASE CloseWalk
  <2>1. /\ pc = "walk" /\ i' = i /\ idx' = idx /\ S' = S /\ J' = Cycles
        /\ Cycles >= MinCycles /\ cycle' = [c \in 1..Cycles |-> 1]
    <3>1. ~ (Cycles < MinCycles)
      BY <1>2 DEF CloseWalk
    <3>2. Cycles \in Int
      BY DEF TypeOK, Cycles
    <3> QED
      BY <1>2, <3>1, <3>2, RandomWalkAssumption DEF CloseWalk
  <2>2. i = 1 /\ idx = 1
    BY <2>1 DEF StartInv
  <2>3. Zeros(S', i' - 1) = 0
    BY <2>1, <2>2, NoZeros
  <2>4. cycle' \in [1..J' -> 1..N]
    BY <1>1, <2>1
  <2> QED
    BY <1>1, <2>1, <2>2, <2>3, <2>4 DEF IndexInv
<1>3. CASE Index
  <2>1. /\ pc = "index" /\ i \in 1..N /\ i' = i + 1 /\ S' = S /\ J' = J
        /\ J \in 0..N /\ J >= MinCycles /\ cycle \in [1..J -> 1..N]
        /\ idx = Zeros(S, i - 1) + 1
    BY <1>1, <1>3 DEF Index, IndexInv, walkVars, TypeOK
  <2>2. (i + 1) - 1 = i /\ (i - 1) + 1 = i /\ i - 1 \in Nat
    BY <1>1, <2>1
  <2>3. Zeros(S, i) = Zeros(S, i - 1) + (IF S[i] = 0 THEN 1 ELSE 0)
    BY <2>2, NextZero
  <2>4. Zeros(S, i - 1) \in Nat
    BY <2>2, ZerosType
  <2>5. CASE S[i] = 0
    <3>1. cycle' = [cycle EXCEPT ![idx] = i] /\ idx' = idx + 1
      BY <1>3, <2>5 DEF Index
    <3>2. idx \in 1..J /\ IsReturn(S, i, idx)
      BY <2>1, <2>5, ReturnHasEntry
    <3>3. cycle' \in [1..J' -> 1..N]
      BY <2>1, <3>1
    <3>4. ASSUME NEW c \in 1..(idx' - 1) PROVE IsReturn(S, cycle'[c], c)
      <4>1. CASE c = idx
        BY <2>1, <3>1, <3>2, <4>1
      <4>2. CASE c # idx
        <5>1. c \in 1..(idx - 1) /\ cycle'[c] = cycle[c]
          BY <2>1, <2>4, <3>1, <3>2, <4>2
        <5> QED
          BY <2>1, <5>1, Zenon DEF IndexInv
      <4> QED
        BY <4>1, <4>2
    <3>5. \A c \in 1..(idx' - 1) : IsReturn(S', cycle'[c], c)
      BY <2>1, <3>4, Zenon DEF IsReturn
    <3>6. idx' = Zeros(S', i' - 1) + 1
      BY <2>1, <2>2, <2>3, <2>4, <2>5, <3>1
    <3> QED
      BY <1>1, <2>1, <3>3, <3>5, <3>6 DEF IndexInv
  <2>6. CASE S[i] # 0
    <3>1. cycle' = cycle /\ idx' = idx
      BY <1>3, <2>6 DEF Index
    <3>2. idx' = Zeros(S', i' - 1) + 1
      BY <2>1, <2>2, <2>3, <2>4, <2>6, <3>1
    <3>3. \A c \in 1..(idx' - 1) : IsReturn(S', cycle'[c], c)
      BY <2>1, <3>1, Zenon DEF IndexInv, IsReturn
    <3> QED
      BY <1>1, <2>1, <3>1, <3>2, <3>3 DEF IndexInv
  <2> QED
    BY <2>5, <2>6
<1>4. CASE UNCHANGED vars
  BY <1>4, Zenon DEF IndexInv, IsReturn, vars, walkVars, cycleVars
<1> QED
  BY <1>2, <1>3, <1>4 DEF Next, Walk, EndIndex, CountCycle, CountVisits, Forward,
     EndForward, Reverse, EndReverse, Done

\* When the index loop ends, every cycle ends in its return or at the end.
LEMMA CyclesClosed ==
  ASSUME TypeOK, WalkInv, CountInv, IndexInv, NuInv, EndIndex PROVE CyclesInv'
<1>1. N \in Nat /\ N >= 1
  BY RandomWalkAssumption
<1>2. /\ pc = "index" /\ pc' = "cycles" /\ i = N + 1
      /\ cycle' = [cycle EXCEPT ![J] = N] /\ cycleStop' = cycle'[1]
      /\ S' = S /\ J' = J /\ j' = j /\ cycleStart' = cycleStart
  BY <1>1 DEF EndIndex, walkVars, IndexInv
<1>3. /\ J \in 1..N /\ J >= MinCycles /\ cycle \in [1..J -> 1..N]
      /\ J = Zeros(S, N) + (IF S[N] = 0 THEN 0 ELSE 1)
  BY <1>1, <1>2, CyclesInWalk DEF IndexInv, CountInv
<1>4. Zeros(S, N) \in Nat
  BY <1>1, ZerosType
<1>5. idx = Zeros(S, N) + 1
  <2>1. i - 1 = N
    BY <1>1, <1>2
  <2> QED
    BY <1>2, <2>1 DEF IndexInv
<1>6. \A c \in 1..Zeros(S, N) : IsReturn(S, cycle[c], c)
  <2>1. idx - 1 = Zeros(S, N)
    BY <1>4, <1>5
  <2> QED
    BY <1>2, <2>1, Zenon DEF IndexInv
<1>7. cycle' \in [1..J' -> 1..N] /\ cycle'[J'] = N
  BY <1>1, <1>2, <1>3
<1>8. ASSUME NEW c \in 1..J, c < J \/ S[N] = 0 PROVE IsReturn(S, cycle'[c], c)
  <2>1. CASE c < J
    <3>1. c \in 1..Zeros(S, N) /\ cycle'[c] = cycle[c]
      BY <1>2, <1>3, <1>4, <2>1
    <3> QED
      BY <1>6, <3>1
  <2>2. CASE c = J
    <3>1. S[N] = 0 /\ c = Zeros(S, N)
      BY <1>3, <1>8, <1>4, <2>2
    <3> QED
      BY <1>1, <1>2, <1>7, <2>2, <3>1 DEF IsReturn
  <2> QED
    BY <1>3, <2>1, <2>2
<1>9. \A c \in 1..J' : (c < J' \/ S'[N] = 0) => IsReturn(S', cycle'[c], c)
  BY <1>2, <1>8, Zenon DEF IsReturn
<1>10. j = 1 /\ cycleStart = 1
  BY <1>2 DEF NuInv
<1> QED
  BY <1>1, <1>2, <1>3, <1>7, <1>9, <1>10 DEF CyclesInv

\* The third loop goes from one cycle to the next.
LEMMA CyclesKept ==
  ASSUME TypeOK, WalkInv, CountInv, IndexInv, CyclesInv, NuInv, [Next]_vars
  PROVE  CyclesInv'
<1> SUFFICES ASSUME pc' = "cycles" PROVE CyclesInv'
  BY DEF CyclesInv
<1>1. CASE EndIndex
  BY <1>1, CyclesClosed
<1>2. CASE CountCycle
  <2>1. /\ pc = "cycles" /\ j <= J /\ j' = j + 1
        /\ cycleStart' = cycle[j] + 1
        /\ cycleStop' = IF j < J THEN cycle[j + 1] ELSE cycleStop
        /\ S' = S /\ J' = J /\ cycle' = cycle
    BY <1>2 DEF CountCycle, After, walkVars
  <2>2. /\ J >= MinCycles /\ cycle \in [1..J -> 1..N] /\ cycle[J] = N
        /\ \A c \in 1..J : (c < J \/ S[N] = 0) => IsReturn(S, cycle[c], c)
        /\ j \in 1..J /\ J \in 0..N /\ N \in Nat
        /\ cycleStop = cycle[j]
    BY <2>1, RandomWalkAssumption DEF CyclesInv, TypeOK
  <2>3. \A c \in 1..J' : (c < J' \/ S'[N] = 0) => IsReturn(S', cycle'[c], c)
    BY <2>1, <2>2, Zenon DEF IsReturn
  <2>4. j' \in 1..(J' + 1)
    BY <2>1, <2>2
  <2>5. cycleStart' = IF j' = 1 THEN 1 ELSE cycle'[j' - 1] + 1
    BY <2>1, <2>2
  <2>6. cycleStop' = IF j' <= J' THEN cycle'[j'] ELSE N
    BY <2>1, <2>2
  <2> QED
    BY <2>1, <2>2, <2>3, <2>4, <2>5, <2>6, Zenon DEF CyclesInv
<1>3. CASE UNCHANGED vars
  BY <1>3, Zenon DEF CyclesInv, IsReturn, vars, walkVars, cycleVars
<1> QED
  BY <1>1, <1>2, <1>3 DEF Next, Walk, CloseWalk, Index, CountVisits, Forward,
     EndForward, Reverse, EndReverse, Done
\* Where the cycle being counted lies: it starts behind the return that ended
\* the cycle before, and the walk is followed by it without a gap.
LEMMA CycleLies ==
  ASSUME TypeOK, WalkInv, CountInv, CyclesInv, pc = "cycles", j <= J
  PROVE  /\ J \in 1..N /\ j \in 1..J /\ N \in Nat /\ cycle[j] \in 1..N
         /\ cycleStop = cycle[j] /\ cycleStart \in 1..(N + 1)
         /\ cycleStart - 1 \in 0..cycle[j]
         /\ j = 1 => cycleStart = 1
         /\ j # 1 => cycleStart = cycle[j - 1] + 1 /\ IsReturn(S, cycle[j - 1], j - 1)
         /\ j < J \/ S[N] = 0 => IsReturn(S, cycle[j], j)
         /\ j = J => cycle[j] = N
<1>1. N \in Nat /\ N >= 1
  BY RandomWalkAssumption
<1>2. J \in 1..N /\ j \in 1..J
  BY <1>1, CyclesInWalk DEF CyclesInv
<1>3. /\ cycle \in [1..J -> 1..N] /\ cycle[J] = N
      /\ \A c \in 1..J : (c < J \/ S[N] = 0) => IsReturn(S, cycle[c], c)
      /\ cycleStart = IF j = 1 THEN 1 ELSE cycle[j - 1] + 1
      /\ cycleStop = cycle[j]
  BY <1>2 DEF CyclesInv
<1>4. cycle[j] \in 1..N
  BY <1>2, <1>3
<1>5. j # 1 => IsReturn(S, cycle[j - 1], j - 1)
  BY <1>1, <1>2, <1>3
<1>6. cycleStart - 1 \in 0..cycle[j]
  <2>1. CASE j = 1
    BY <1>1, <1>3, <1>4, <2>1
  <2>2. CASE j # 1 /\ j = J
    <3>1. cycle[j - 1] \in 1..N
      BY <1>5, <2>2 DEF IsReturn
    <3> QED
      BY <1>1, <1>3, <2>2, <3>1
  <2>3. CASE j # 1 /\ j < J
    <3>1. /\ cycle[j - 1] \in 1..N /\ Zeros(S, cycle[j - 1]) = j - 1
          /\ Zeros(S, cycle[j]) = j
      BY <1>2, <1>3, <1>5, <2>3 DEF IsReturn
    <3>2. cycle[j] <= cycle[j - 1] => Zeros(S, cycle[j]) <= Zeros(S, cycle[j - 1])
      <4>1. cycle[j] \in Nat /\ cycle[j - 1] \in Nat
        BY <1>1, <1>4, <3>1
      <4> QED
        BY <4>1, ZerosGrow, Zenon
    <3>3. cycle[j - 1] < cycle[j]
      BY <1>1, <1>2, <1>4, <3>1, <3>2
    <3> QED
      BY <1>1, <1>3, <1>4, <2>3, <3>1, <3>3
  <2> QED
    BY <1>1, <1>2, <2>1, <2>2, <2>3
<1>7. cycleStart \in 1..(N + 1)
  BY DEF TypeOK
<1> QED
  BY <1>1, <1>2, <1>3, <1>4, <1>5, <1>6, <1>7

\* A cycle is the stretch of the walk on which the count of zeros before a
\* position stays the same.
LEMMA StretchOfCycle ==
  ASSUME TypeOK, WalkInv, CountInv, CyclesInv, pc = "cycles", j <= J
  PROVE  \A p \in 1..N : Zeros(S, p - 1) = j - 1 <=> p \in cycleStart..cycleStop
<1>1. /\ J \in 1..N /\ j \in 1..J /\ N \in Nat /\ cycle[j] \in 1..N
      /\ cycleStop = cycle[j] /\ cycleStart \in 1..(N + 1)
      /\ cycleStart - 1 \in 0..cycle[j]
      /\ j = 1 => cycleStart = 1
      /\ j # 1 => cycleStart = cycle[j - 1] + 1 /\ IsReturn(S, cycle[j - 1], j - 1)
      /\ j < J \/ S[N] = 0 => IsReturn(S, cycle[j], j)
      /\ j = J => cycle[j] = N
  BY CycleLies
<1> SUFFICES ASSUME NEW p \in 1..N
             PROVE  Zeros(S, p - 1) = j - 1 <=> p \in cycleStart..cycleStop
  OBVIOUS
<1>2. p \in Nat /\ p - 1 \in Nat /\ p - 1 <= N /\ cycle[j] \in Nat
  BY <1>1
<1>3. Zeros(S, p - 1) \in Nat
  BY <1>2, ZerosType, Zenon
<1>4. p >= cycleStart => Zeros(S, p - 1) >= j - 1
  <2>1. CASE j = 1
    BY <1>3, <2>1
  <2>2. CASE j # 1
    <3>1. cycle[j - 1] \in Nat /\ Zeros(S, cycle[j - 1]) = j - 1 /\ cycleStart = cycle[j - 1] + 1
      BY <1>1, <2>2 DEF IsReturn
    <3>2. p >= cycleStart => cycle[j - 1] <= p - 1
      BY <1>2, <3>1
    <3>3. cycle[j - 1] <= p - 1 => Zeros(S, cycle[j - 1]) <= Zeros(S, p - 1)
      BY <1>2, <3>1, ZerosGrow, Zenon
    <3> QED
      BY <1>1, <1>3, <3>1, <3>2, <3>3
  <2> QED
    BY <2>1, <2>2
<1>5. p < cycleStart => Zeros(S, p - 1) < j - 1
  <2>1. CASE j = 1
    BY <1>1, <2>1
  <2>2. CASE j # 1
    <3>1. /\ cycle[j - 1] \in Nat /\ S[cycle[j - 1]] = 0
          /\ Zeros(S, cycle[j - 1]) = j - 1 /\ cycleStart = cycle[j - 1] + 1
      BY <1>1, <2>2 DEF IsReturn
    <3>2. p < cycleStart => p - 1 < cycle[j - 1]
      BY <1>2, <3>1
    <3>3. p - 1 < cycle[j - 1] => Zeros(S, p - 1) < Zeros(S, cycle[j - 1])
      BY <1>2, <3>1, ZeroIsNew, Zenon
    <3> QED
      BY <3>1, <3>2, <3>3
  <2> QED
    BY <2>1, <2>2
<1>8. cycleStart \in Nat /\ j \in Nat /\ cycleStart >= 1
  BY <1>1, <1>2
<1>6. CASE j < J \/ S[N] = 0
  <2>1. S[cycle[j]] = 0 /\ Zeros(S, cycle[j]) = j
    BY <1>1, <1>6 DEF IsReturn
  <2>2. p - 1 < cycle[j] => Zeros(S, p - 1) < Zeros(S, cycle[j])
    BY <1>2, <2>1, ZeroIsNew, Zenon
  <2>3. cycle[j] <= p - 1 => Zeros(S, cycle[j]) <= Zeros(S, p - 1)
    BY <1>2, ZerosGrow, Zenon
  <2>4. p <= cycle[j] <=> Zeros(S, p - 1) < j
    BY <1>2, <1>3, <1>8, <2>1, <2>2, <2>3
  <2>5. p \in cycleStart..cycleStop <=> (p >= cycleStart /\ p <= cycle[j])
    BY <1>1, <1>2, <1>8
  <2> QED
    BY <1>2, <1>3, <1>4, <1>5, <1>8, <2>4, <2>5
<1>7. CASE j = J /\ S[N] # 0
  <2>1. J = Zeros(S, N) + 1
    BY <1>7 DEF CountInv
  <2>2. Zeros(S, p - 1) <= Zeros(S, N)
    BY <1>1, <1>2, ZerosGrow, Zenon
  <2>3. Zeros(S, N) \in Nat
    BY <1>1, ZerosType, Zenon
  <2>4. Zeros(S, p - 1) <= j - 1 /\ p <= cycle[j]
    BY <1>1, <1>2, <1>3, <1>7, <1>8, <2>1, <2>2, <2>3
  <2>5. p \in cycleStart..cycleStop <=> p >= cycleStart
    BY <1>1, <1>2, <1>8, <2>4
  <2> QED
    BY <1>2, <1>3, <1>4, <1>5, <1>8, <2>4, <2>5
<1> QED
  BY <1>1, <1>6, <1>7

-----------------------------------------------------------------------------
(* The rows of nu. *)

\* A number of visits has one row, which tells the number unless it is the last.
LEMMA RowOf ==
  ASSUME NEW n \in Nat
  PROVE  Bin(n) \in 0..Most /\ Bin(n) <= n /\ (Bin(n) # Most => Bin(n) = n)
BY DEF Bin, Most

\* The rows of a state that is added to in row b only.
LEMMA SumsOfRows ==
  ASSUME NEW f \in [0..Most -> Nat], NEW g \in [0..Most -> Nat], NEW b \in 0..Most,
         \A k \in 0..Most : g[k] = f[k] + (IF b = k THEN 1 ELSE 0)
  PROVE  /\ SumOfRows([k \in 0..Most |-> g[k]]) = SumOfRows([k \in 0..Most |-> f[k]]) + 1
         /\ SumOfRows([k \in 0..Most |-> k * g[k]]) =
               SumOfRows([k \in 0..Most |-> k * f[k]]) + b
<1>1. /\ f[0] \in Nat /\ f[1] \in Nat /\ f[2] \in Nat
      /\ f[3] \in Nat /\ f[4] \in Nat /\ f[5] \in Nat
      /\ g[0] \in Nat /\ g[1] \in Nat /\ g[2] \in Nat
      /\ g[3] \in Nat /\ g[4] \in Nat /\ g[5] \in Nat
  BY DEF Most
<1>2. PICK a0 \in Nat, a1 \in Nat, a2 \in Nat, a3 \in Nat, a4 \in Nat, a5 \in Nat :
         a0 = f[0] /\ a1 = f[1] /\ a2 = f[2] /\ a3 = f[3] /\ a4 = f[4] /\ a5 = f[5]
  BY <1>1, Zenon
<1>3. PICK c0 \in Nat, c1 \in Nat, c2 \in Nat, c3 \in Nat, c4 \in Nat, c5 \in Nat :
         c0 = g[0] /\ c1 = g[1] /\ c2 = g[2] /\ c3 = g[3] /\ c4 = g[4] /\ c5 = g[5]
  BY <1>1, Zenon
<1>4. /\ c0 = a0 + (IF b = 0 THEN 1 ELSE 0) /\ c1 = a1 + (IF b = 1 THEN 1 ELSE 0)
      /\ c2 = a2 + (IF b = 2 THEN 1 ELSE 0) /\ c3 = a3 + (IF b = 3 THEN 1 ELSE 0)
      /\ c4 = a4 + (IF b = 4 THEN 1 ELSE 0) /\ c5 = a5 + (IF b = 5 THEN 1 ELSE 0)
  BY <1>2, <1>3 DEF Most
<1>5. b \in {0, 1, 2, 3, 4, 5}
  BY DEF Most
<1>6. c0 + c1 + c2 + c3 + c4 + c5 = (a0 + a1 + a2 + a3 + a4 + a5) + 1
  BY <1>4, <1>5
<1>7. 0 * c0 + 1 * c1 + 2 * c2 + 3 * c3 + 4 * c4 + 5 * c5 =
         (0 * a0 + 1 * a1 + 2 * a2 + 3 * a3 + 4 * a4 + 5 * a5) + b
  BY <1>4, <1>5
<1>8. /\ SumOfRows([k \in 0..Most |-> f[k]]) = a0 + a1 + a2 + a3 + a4 + a5
      /\ SumOfRows([k \in 0..Most |-> g[k]]) = c0 + c1 + c2 + c3 + c4 + c5
  BY <1>2, <1>3 DEF SumOfRows, Most
<1>9. /\ SumOfRows([k \in 0..Most |-> k * f[k]]) =
            0 * a0 + 1 * a1 + 2 * a2 + 3 * a3 + 4 * a4 + 5 * a5
      /\ SumOfRows([k \in 0..Most |-> k * g[k]]) =
            0 * c0 + 1 * c1 + 2 * c2 + 3 * c3 + 4 * c4 + 5 * c5
  BY <1>2, <1>3 DEF SumOfRows, Most
<1> QED
  BY <1>6, <1>7, <1>8, <1>9, Zenon
\* No cycle in any row: no visit told.
LEMMA NothingTold ==
  ASSUME NEW f \in [0..Most -> Nat], SumOfRows([k \in 0..Most |-> f[k]]) = 0
  PROVE  SumOfRows([k \in 0..Most |-> k * f[k]]) = 0
<1>1. /\ f[0] \in Nat /\ f[1] \in Nat /\ f[2] \in Nat
      /\ f[3] \in Nat /\ f[4] \in Nat /\ f[5] \in Nat
  BY DEF Most
<1>2. f[0] + f[1] + f[2] + f[3] + f[4] + f[5] = 0
  BY DEF SumOfRows, Most
<1>3. f[0] = 0 /\ f[1] = 0 /\ f[2] = 0 /\ f[3] = 0 /\ f[4] = 0 /\ f[5] = 0
  <2>1. PICK a0 \in Nat, a1 \in Nat, a2 \in Nat, a3 \in Nat, a4 \in Nat, a5 \in Nat :
           a0 = f[0] /\ a1 = f[1] /\ a2 = f[2] /\ a3 = f[3] /\ a4 = f[4] /\ a5 = f[5]
    BY <1>1, Zenon
  <2>2. a0 + a1 + a2 + a3 + a4 + a5 = 0
    BY <1>2, <2>1
  <2>3. a0 = 0 /\ a1 = 0 /\ a2 = 0 /\ a3 = 0 /\ a4 = 0 /\ a5 = 0
    BY <2>2
  <2> QED
    BY <2>1, <2>3, Zenon
<1> QED
  BY <1>3 DEF SumOfRows, Most

\* One cycle is counted: every state enters one row, and the rows tell of the
\* visits up to the end of the cycle, unless the last one stands for more.
LEMMA OneCycleCounted ==
  ASSUME TypeOK, WalkInv, CountInv, CyclesInv, NuInv, CountCycle, NEW x \in stateX
  PROVE  /\ nu' \in [0..Most -> [stateX -> Nat]]
         /\ SumOfRows([k \in 0..Most |-> nu'[k][x]]) = j' - 1
         /\ RowsTell(x, VisitsIn(1, cycleStart - 1, x))'
<1> DEFINE n == VisitsIn(cycleStart, cycleStop, x)
           m == VisitsIn(1, cycleStart - 1, x)
           f == [k \in 0..Most |-> nu[k][x]]
           g == [k \in 0..Most |-> nu'[k][x]]
<1>1. /\ pc = "cycles" /\ j <= J /\ j' = j + 1 /\ S' = S
      /\ cycleStart' = cycle[j] + 1
      /\ nu' = [k \in 0..Most |-> [y \in stateX |->
                   nu[k][y] + (IF Bin(VisitsIn(cycleStart, cycleStop, y)) = k THEN 1 ELSE 0)]]
  BY DEF CountCycle, After, walkVars
<1>2. nu \in [0..Most -> [stateX -> Nat]] /\ j \in Nat
  BY DEF NuInv
<1>3. /\ N \in Nat /\ cycle[j] \in 1..N /\ cycleStop = cycle[j]
      /\ cycleStart \in 1..(N + 1) /\ cycleStart - 1 \in 0..cycle[j]
  BY <1>1, CycleLies
<1>4. n \in Nat /\ m \in Nat
  <2>1. 1 \in 1..(N + 1) /\ cycleStart - 1 \in 0..N /\ cycle[j] \in 0..N
    BY <1>3
  <2>2. n \in 0..N /\ m \in 0..N
    BY <1>3, <2>1, VisitsType, Zenon
  <2> QED
    BY <1>3, <2>2
<1>5. VisitsIn(1, cycle[j], x) = m + n
  <2>1. /\ cycleStart - 1 \in 0..N /\ cycle[j] \in (cycleStart - 1)..N
        /\ (cycleStart - 1) + 1 = cycleStart
    BY <1>3
  <2> QED
    BY <1>3, <2>1, VisitsAddUp
<1>6. Bin(n) \in 0..Most /\ Bin(n) <= n /\ (Bin(n) # Most => Bin(n) = n)
  BY <1>4, RowOf
<1>7. f \in [0..Most -> Nat] /\ \A k \in 0..Most : f[k] = nu[k][x]
  BY <1>2
<1>8. \A k \in 0..Most : nu'[k][x] = f[k] + (IF Bin(n) = k THEN 1 ELSE 0)
  BY <1>1
<1>9. nu' \in [0..Most -> [stateX -> Nat]]
  BY <1>1, <1>2
<1>10. g \in [0..Most -> Nat] /\ \A k \in 0..Most : g[k] = nu'[k][x]
  BY <1>9
<1> HIDE DEF n, m, f, g
<1>11. \A k \in 0..Most : g[k] = f[k] + (IF Bin(n) = k THEN 1 ELSE 0)
  BY <1>8, <1>10
<1>12. /\ SumOfRows([k \in 0..Most |-> g[k]]) = SumOfRows([k \in 0..Most |-> f[k]]) + 1
       /\ SumOfRows([k \in 0..Most |-> k * g[k]]) =
             SumOfRows([k \in 0..Most |-> k * f[k]]) + Bin(n)
  BY <1>6, <1>7, <1>10, <1>11, SumsOfRows, Zenon
<1>13. /\ [k \in 0..Most |-> g[k]] = [k \in 0..Most |-> nu'[k][x]]
       /\ [k \in 0..Most |-> k * g[k]] = [k \in 0..Most |-> k * nu'[k][x]]
       /\ [k \in 0..Most |-> f[k]] = [k \in 0..Most |-> nu[k][x]]
       /\ [k \in 0..Most |-> k * f[k]] = [k \in 0..Most |-> k * nu[k][x]]
  BY <1>7, <1>10
<1>14. SumOfRows([k \in 0..Most |-> nu'[k][x]]) = j' - 1
  <2>1. SumOfRows([k \in 0..Most |-> nu[k][x]]) = j - 1
    BY Zenon DEF NuInv, EveryCycleInOneRow
  <2>2. SumOfRows([k \in 0..Most |-> nu'[k][x]]) = (j - 1) + 1
    BY <1>12, <1>13, <2>1, Zenon
  <2>3. (j - 1) + 1 = j' - 1
    BY <1>1, <1>2
  <2> QED
    BY <2>2, <2>3, Zenon
<1>15. PerCycle(x)' = PerCycle(x) + Bin(n)
  BY <1>12, <1>13, Zenon DEF PerCycle
<1>16. PerCycle(x) <= m /\ (f[Most] = 0 => PerCycle(x) = m)
  <2>1. Most \in 0..Most
    BY DEF Most
  <2> QED
    BY <1>1, <1>7, <2>1, Zenon DEF NuInv, RowsTell, m
<1>17. PerCycle(x) \in Nat
  <2>1. /\ f[0] \in Nat /\ f[1] \in Nat /\ f[2] \in Nat
        /\ f[3] \in Nat /\ f[4] \in Nat /\ f[5] \in Nat
    BY <1>7 DEF Most
  <2>2. SumOfRows([k \in 0..Most |-> k * f[k]]) =
           0 * f[0] + 1 * f[1] + 2 * f[2] + 3 * f[3] + 4 * f[4] + 5 * f[5]
    BY DEF SumOfRows, Most
  <2>3. 0 * f[0] + 1 * f[1] + 2 * f[2] + 3 * f[3] + 4 * f[4] + 5 * f[5] \in Nat
    BY <2>1
  <2> QED
    BY <1>13, <2>2, <2>3, Zenon DEF PerCycle
<1>18. PerCycle(x)' <= m + n
  BY <1>4, <1>6, <1>15, <1>16, <1>17 DEF Most
<1>19. nu'[Most][x] = 0 => PerCycle(x)' = m + n
  <2> SUFFICES ASSUME nu'[Most][x] = 0 PROVE PerCycle(x)' = m + n
    OBVIOUS
  <2>1. Most \in 0..Most
    BY DEF Most
  <2>2. f[Most] + (IF Bin(n) = Most THEN 1 ELSE 0) = 0 /\ f[Most] \in Nat
    BY <1>7, <1>8, <2>1
  <2>3. f[Most] = 0 /\ Bin(n) # Most
    BY <2>2
  <2> QED
    BY <1>6, <1>15, <1>16, <2>3
<1>20. VisitsIn(1, cycleStart - 1, x)' = m + n
  <2>1. cycleStart' - 1 = cycle[j]
    BY <1>1, <1>3
  <2>2. VisitsIn(1, cycleStart - 1, x)' = VisitsIn(1, cycle[j], x)
    BY <1>1, <2>1 DEF VisitsIn
  <2> QED
    BY <1>5, <2>2
<1>21. RowsTell(x, VisitsIn(1, cycleStart - 1, x))'
  BY <1>18, <1>19, <1>20, Zenon DEF RowsTell
<1> QED
  BY <1>9, <1>14, <1>21
\* Before the first cycle no visit has been counted, and no row tells of one.
LEMMA RowsAtFirst ==
  ASSUME NuInv, EndIndex, pc = "index", NEW x \in stateX
  PROVE  RowsTell(x, VisitsIn(1, cycleStart - 1, x))'
<1> DEFINE f == [k \in 0..Most |-> nu[k][x]]
<1>1. /\ nu \in [0..Most -> [stateX -> Nat]] /\ j = 1 /\ cycleStart = 1
      /\ SumOfRows([k \in 0..Most |-> nu[k][x]]) = j - 1
  BY Zenon DEF NuInv, EveryCycleInOneRow
<1>2. f \in [0..Most -> Nat] /\ \A k \in 0..Most : f[k] = nu[k][x]
  BY <1>1
<1> HIDE DEF f
<1>3. /\ [k \in 0..Most |-> f[k]] = [k \in 0..Most |-> nu[k][x]]
      /\ [k \in 0..Most |-> k * f[k]] = [k \in 0..Most |-> k * nu[k][x]]
  BY <1>2
<1>4. SumOfRows([k \in 0..Most |-> f[k]]) = 0
  <2>1. j - 1 = 0
    BY <1>1
  <2> QED
    BY <1>1, <1>3, <2>1, Zenon
<1>5. SumOfRows([k \in 0..Most |-> k * nu[k][x]]) = 0
  BY <1>2, <1>3, <1>4, NothingTold, Zenon
<1>6. nu' = nu /\ S' = S /\ cycleStart' - 1 = 0
  BY <1>1 DEF EndIndex, walkVars
<1>7. VisitsIn(1, cycleStart - 1, x)' = 0
  <2>1. VisitsIn(1, cycleStart - 1, x)' = VisitsIn(1, 0, x)
    BY <1>6 DEF VisitsIn
  <2> QED
    BY <2>1, NoVisits
<1>8. PerCycle(x)' = 0
  BY <1>5, <1>6, Zenon DEF PerCycle
<1> QED
  BY <1>7, <1>8 DEF RowsTell

\* After the last cycle the visits counted are those of the whole walk.
LEMMA RowsAtLast ==
  ASSUME TypeOK, WalkInv, CountInv, CyclesInv, NuInv, CountVisits, NEW x \in stateX
  PROVE  RowsTell(x, visits[x])' /\ j = J + 1 /\ J >= MinCycles
<1>1. /\ pc = "cycles" /\ j > J /\ S' = S /\ nu' = nu
      /\ visits' = [y \in variantX |-> VisitsIn(1, N, y)]
  BY DEF CountVisits, walkVars, cycleVars
<1>2. J \in 1..N /\ j \in 1..(J + 1) /\ cycle[J] = N /\ N \in Nat /\ J >= MinCycles
      /\ cycleStart = IF j = 1 THEN 1 ELSE cycle[j - 1] + 1
  BY <1>1, CyclesInWalk, RandomWalkAssumption DEF CyclesInv
<1>3. j = J + 1
  BY <1>1, <1>2
<1>4. cycleStart - 1 = N
  <2>1. j # 1 /\ j - 1 = J
    BY <1>2, <1>3
  <2> QED
    BY <1>2, <2>1
<1>5. x \in variantX
  BY RandomWalkAssumption DEF stateX, variantX
<1>6. visits'[x] = VisitsIn(1, N, x)
  BY <1>1, <1>5
<1>7. RowsTell(x, VisitsIn(1, cycleStart - 1, x))
  BY <1>1 DEF NuInv
<1>8. RowsTell(x, VisitsIn(1, N, x))
  BY <1>4, <1>7, Zenon
<1>9. RowsTell(x, visits[x])'
  BY <1>1, <1>6, <1>8, Zenon DEF RowsTell, PerCycle
<1> QED
  BY <1>2, <1>3, <1>9

\* The rows keep telling of the visits up to where the loop has come.
LEMMA NuKept ==
  ASSUME TypeOK, WalkInv, CountInv, IndexInv, CyclesInv, NuInv, [Next]_vars
  PROVE  NuInv'
<1>1. CASE CountCycle
  <2>1. pc' = "cycles" /\ j' = j + 1 /\ j \in Nat
    BY <1>1 DEF CountCycle, NuInv
  <2>2. nu' \in [0..Most -> [stateX -> Nat]]
    <3>1. ASSUME NEW x \in stateX PROVE nu' \in [0..Most -> [stateX -> Nat]]
      BY <1>1, OneCycleCounted
    <3>2. 1 \in stateX
      BY RandomWalkAssumption DEF stateX
    <3> QED
      BY <3>1, <3>2
  <2>3. \A x \in stateX : SumOfRows([k \in 0..Most |-> nu'[k][x]]) = j' - 1
    BY <1>1, OneCycleCounted
  <2>4. EveryCycleInOneRow'
    BY <2>3, Zenon DEF EveryCycleInOneRow
  <2>5. \A x \in stateX : RowsTell(x, VisitsIn(1, cycleStart - 1, x))'
    BY <1>1, OneCycleCounted
  <2> QED
    BY <2>1, <2>2, <2>4, <2>5 DEF NuInv
<1>2. CASE ~ CountCycle
  <2>1. UNCHANGED <<nu, j, cycleStart>>
    BY <1>2 DEF Next, Walk, CloseWalk, Index, EndIndex, CountVisits, Forward,
                EndForward, Reverse, EndReverse, Done, vars, cycleVars
  <2>2. /\ nu' \in [0..Most -> [stateX -> Nat]] /\ j' \in Nat
        /\ EveryCycleInOneRow'
    BY <2>1, Zenon DEF NuInv, EveryCycleInOneRow
  <2>3. CASE Walk \/ CloseWalk
    <3>1. j = 1 /\ cycleStart = 1 /\ pc' \in {"walk", "index", "forward"}
      BY <2>3 DEF Walk, CloseWalk, NuInv
    <3>2. pc' = "forward" => J' < MinCycles
      BY <2>3 DEF Walk, CloseWalk
    <3>3. J' \in Int /\ MinCycles \in Nat
      BY <2>3, RandomWalkAssumption DEF Walk, CloseWalk, Cycles, TypeOK
    <3> QED
      BY <2>1, <2>2, <3>1, <3>2, <3>3 DEF NuInv
  <2>4. CASE Index
    <3>1. pc' = "index" /\ j = 1 /\ cycleStart = 1
      BY <2>4 DEF Index, NuInv
    <3> QED
      BY <2>1, <2>2, <3>1 DEF NuInv
  <2>5. CASE EndIndex
    <3>1. pc = "index" /\ pc' = "cycles"
      BY <2>5 DEF EndIndex
    <3>2. \A x \in stateX : RowsTell(x, VisitsIn(1, cycleStart - 1, x))'
      BY <2>5, <3>1, RowsAtFirst
    <3> QED
      BY <2>2, <3>1, <3>2 DEF NuInv
  <2>6. CASE CountVisits
    <3>1. pc' = "forward" /\ J' = J
      BY <2>6 DEF CountVisits, walkVars
    <3>2. \A x \in stateX : RowsTell(x, visits[x])' /\ j = J + 1 /\ J >= MinCycles
      BY <2>6, RowsAtLast
    <3>3. 1 \in stateX
      BY RandomWalkAssumption DEF stateX
    <3>4. J \in Nat /\ MinCycles \in Nat
      BY RandomWalkAssumption DEF TypeOK
    <3>5. j' = IF J' < MinCycles THEN 1 ELSE J' + 1
      BY <2>1, <3>1, <3>2, <3>3, <3>4
    <3>6. \A x \in stateX : RowsTell(x, visits[x])'
      BY <3>2
    <3> QED
      BY <2>2, <3>1, <3>5, <3>6 DEF NuInv
  <2>7. CASE Forward \/ EndForward \/ Reverse \/ EndReverse \/ Done \/ UNCHANGED vars
    <3>1. UNCHANGED <<J, visits, S>>
      BY <2>7 DEF Forward, EndForward, Reverse, EndReverse, Done, vars, walkVars
    <3>2. CASE UNCHANGED pc
      BY <2>1, <2>2, <3>1, <3>2, Zenon DEF NuInv, RowsTell, PerCycle, VisitsIn
    <3>3. CASE pc' # pc
      <4>1. pc \in {"forward", "reverse", "done"} /\ pc' \in {"forward", "reverse", "done"}
        BY <2>7, <3>3 DEF Forward, EndForward, Reverse, EndReverse, Done, vars
      <4>2. /\ j = IF J < MinCycles THEN 1 ELSE J + 1
            /\ J >= MinCycles => \A x \in stateX : RowsTell(x, visits[x])
        BY <4>1 DEF NuInv
      <4>3. /\ j' = IF J' < MinCycles THEN 1 ELSE J' + 1
            /\ J' >= MinCycles => \A x \in stateX : RowsTell(x, visits[x])'
        BY <2>1, <3>1, <4>2, Zenon DEF RowsTell, PerCycle
      <4>4. pc' \notin {"walk", "index", "cycles"}
        BY <4>1
      <4> QED
        BY <2>2, <4>3, <4>4 DEF NuInv
    <3> QED
      BY <3>2, <3>3
  <2> QED
    BY <1>2, <2>3, <2>4, <2>5, <2>6, <2>7 DEF Next
<1> QED
  BY <1>1, <1>2-----------------------------------------------------------------------------
(* The cumulative sums. *)

\* The loop's body keeps the extremes of the sums it has seen.
LEMMA NextExtremes ==
  ASSUME NEW T \in SUBSET Int, NEW t \in Int, NEW lo, NEW hi, Extremes(T, lo, hi)
  PROVE  Extremes(T \cup {t}, Smaller(lo, t), Larger(hi, t))
<1>1. lo \in Int /\ hi \in Int
  BY DEF Extremes
<1>2. /\ Smaller(lo, t) \in {lo, t} /\ Smaller(lo, t) <= lo /\ Smaller(lo, t) <= t
      /\ Larger(hi, t) \in {hi, t} /\ hi <= Larger(hi, t) /\ t <= Larger(hi, t)
      /\ Smaller(lo, t) \in Int /\ Larger(hi, t) \in Int
  BY <1>1 DEF Smaller, Larger
<1> DEFINE a == Smaller(lo, t)
           b == Larger(hi, t)
<1> HIDE DEF a, b
<1>3. /\ a \in {lo, t} /\ a <= lo /\ a <= t /\ a \in Int
      /\ b \in {hi, t} /\ hi <= b /\ t <= b /\ b \in Int
  BY <1>2 DEF a, b
<1>4. \A u \in T \cup {t} : a <= u /\ u <= b
  <2> SUFFICES ASSUME NEW u \in T PROVE a <= u /\ u <= b
    BY <1>3
  <2>1. lo <= u /\ u <= hi /\ u \in Int
    BY DEF Extremes
  <2> QED
    BY <1>1, <1>3, <2>1
<1>5. a \in (T \cup {t}) \cup {0} /\ b \in (T \cup {t}) \cup {0} /\ a <= 0 /\ 0 <= b
  BY <1>1, <1>3 DEF Extremes
<1>6. Extremes(T \cup {t}, a, b)
  BY <1>4, <1>5 DEF Extremes
<1> QED
  BY <1>6 DEF a, b

\* The larger of the two extremes is the largest distance from zero, once a sum
\* other than zero has been seen.
LEMMA ExcursionIsLargest ==
  ASSUME NEW T \in SUBSET Int, NEW lo, NEW hi, Extremes(T, lo, hi),
         NEW e \in T, e # 0
  PROVE  /\ IsLargest(Larger(hi, - lo), {Larger(t, - t) : t \in T})
         /\ Larger(hi, - lo) > 0
<1>1. /\ lo \in Int /\ hi \in Int /\ lo <= 0 /\ 0 <= hi
      /\ \A t \in T : t \in Int /\ lo <= t /\ t <= hi
      /\ lo # 0 => lo \in T
      /\ hi # 0 => hi \in T
  BY DEF Extremes
<1>2. lo # 0 \/ hi # 0
  BY <1>1
<1>3. Larger(hi, - lo) > 0
  BY <1>1, <1>2 DEF Larger
<1>4. Larger(hi, - lo) \in {Larger(t, - t) : t \in T}
  <2>1. CASE hi > - lo
    <3>1. Larger(hi, - lo) = Larger(hi, - hi) /\ hi # 0
      BY <1>1, <2>1 DEF Larger
    <3> QED
      BY <1>1, <3>1
  <2>2. CASE ~ (hi > - lo)
    <3>1. Larger(hi, - lo) = Larger(lo, - lo) /\ lo # 0
      BY <1>1, <1>2, <2>2 DEF Larger
    <3> QED
      BY <1>1, <3>1
  <2> QED
    BY <2>1, <2>2
<1>5. \A t \in T : Larger(t, - t) <= Larger(hi, - lo)
  BY <1>1 DEF Larger
<1>6. \A d \in {Larger(t, - t) : t \in T} : d <= Larger(hi, - lo)
  BY <1>5
<1> QED
  BY <1>3, <1>4, <1>6 DEF IsLargest

\* The sums of either pass, position by position.
LEMMA SumsGrow ==
  ASSUME WalkInv, Len(S) = N
  PROVE  /\ \A p \in 0..N : ForwardSums(p) \in SUBSET Int /\ ReverseSums(p) \in SUBSET Int
         /\ ForwardSums(0) = {} /\ ReverseSums(N) = {}
         /\ \A p \in 1..N : ForwardSums(p) = ForwardSums(p - 1) \cup {S[p]}
         /\ \A p \in 1..N :
               ReverseSums(p - 1) = ReverseSums(p) \cup {S[N] - Height(p - 1)}
<1>1. /\ N \in Nat /\ N >= 1
      /\ \A p \in 0..N : Height(p) \in Int
      /\ \A p \in 1..N : S[p] \in Int
  BY Heights
<1>2. \A p \in 0..N : ForwardSums(p) \in SUBSET Int /\ ReverseSums(p) \in SUBSET Int
  <2> SUFFICES ASSUME NEW p \in 0..N
               PROVE  ForwardSums(p) \in SUBSET Int /\ ReverseSums(p) \in SUBSET Int
    OBVIOUS
  <2>1. \A q \in 1..p : S[q] \in Int
    BY <1>1
  <2>2. \A q \in p..(N - 1) : S[N] - Height(q) \in Int
    BY <1>1
  <2> QED
    BY <2>1, <2>2 DEF ForwardSums, ReverseSums
<1>3. ForwardSums(0) = {} /\ ReverseSums(N) = {}
  BY <1>1 DEF ForwardSums, ReverseSums
<1>4. ASSUME NEW p \in 1..N PROVE ForwardSums(p) = ForwardSums(p - 1) \cup {S[p]}
  <2>1. \A q : q \in 1..p <=> (q \in 1..(p - 1) \/ q = p)
    BY <1>1
  <2> QED
    BY <2>1 DEF ForwardSums
<1>5. ASSUME NEW p \in 1..N
      PROVE  ReverseSums(p - 1) = ReverseSums(p) \cup {S[N] - Height(p - 1)}
  <2>1. \A q : q \in (p - 1)..(N - 1) <=> (q \in p..(N - 1) \/ q = p - 1)
    BY <1>1
  <2> QED
    BY <2>1, Zenon DEF ReverseSums
<1> QED
  BY <1>2, <1>3, <1>4, <1>5
\* The forward pass starts from zero with nothing seen.
LEMMA ForwardStarts ==
  ASSUME WalkInv, StartInv, CusumInv, CloseWalk \/ CountVisits, pc' = "forward"
  PROVE  CusumInv'
<1>1. /\ pc \in {"walk", "cycles"} /\ S' = S /\ i' = 1
      /\ sum' = sum /\ sup' = sup /\ inf' = inf /\ z' = z
  BY DEF CloseWalk, CountVisits, walkVars, cusumVars, StartInv
<1>2. /\ sum = 0 /\ sup = 0 /\ inf = 0 /\ z.forward = 0 /\ z.reverse = 0
  BY <1>1 DEF CusumInv
<1>3. N \in Nat /\ N >= 1 /\ i' - 1 = 0
  BY <1>1, RandomWalkAssumption
<1>4. Height(i - 1)' = 0
  BY <1>3 DEF Height
<1>5. ForwardSums(i - 1)' = {}
  BY <1>3 DEF ForwardSums
<1>6. Extremes(ForwardSums(i - 1), inf, sup)'
  BY <1>1, <1>2, <1>5 DEF Extremes
<1>7. i' \in 1..(N + 1) /\ sum' = Height(i - 1)'
  BY <1>1, <1>2, <1>3, <1>4
<1> QED
  BY <1>1, <1>2, <1>6, <1>7 DEF CusumInv

\* One step of the forward pass: the sum is the walk's height.
LEMMA ForwardKept ==
  ASSUME WalkInv, CusumInv, Forward PROVE CusumInv'
<1>1. /\ pc = "forward" /\ pc' = "forward" /\ i <= N /\ i' = i + 1 /\ S' = S /\ z' = z
      /\ sum' = sum + StepOf(bits[i]) /\ sup' = Larger(sup, sum')
      /\ inf' = Smaller(inf, sum')
  BY DEF Forward, Accumulate, walkVars
<1>2. /\ i \in 1..N /\ N \in Nat /\ sum = Height(i - 1) /\ Len(S) = N
      /\ Extremes(ForwardSums(i - 1), inf, sup)
      /\ z.forward = 0 /\ z.reverse = 0
  BY <1>1, RandomWalkAssumption DEF CusumInv, WalkInv
<1>3. S[i] = Height(i - 1) + StepOf(bits[i]) /\ S[i] \in Int /\ Height(i) = S[i]
  BY <1>2, Heights
<1>4. sum' = S[i]
  BY <1>1, <1>2, <1>3
<1>5. /\ ForwardSums(i - 1) \in SUBSET Int
      /\ ForwardSums(i) = ForwardSums(i - 1) \cup {S[i]}
  <2>1. i - 1 \in 0..N
    BY <1>2
  <2> QED
    BY <1>2, <2>1, SumsGrow, Zenon
<1>6. Extremes(ForwardSums(i), inf', sup')
  BY <1>1, <1>2, <1>3, <1>4, <1>5, NextExtremes
<1>7. i' - 1 = i /\ i' \in 1..(N + 1)
  BY <1>1, <1>2
<1>8. Height(i - 1)' = Height(i) /\ ForwardSums(i - 1)' = ForwardSums(i)
  BY <1>1, <1>7, Zenon DEF Height, ForwardSums
<1>9. sum' = Height(i - 1)' /\ Extremes(ForwardSums(i - 1), inf, sup)'
  BY <1>3, <1>4, <1>6, <1>8, Zenon DEF Extremes
<1> QED
  BY <1>1, <1>2, <1>7, <1>9 DEF CusumInv

\* The forward pass ends with the largest distance from zero.
LEMMA ForwardEnds ==
  ASSUME WalkInv, CusumInv, EndForward, z \in [forward : 0..N, reverse : 0..N]
  PROVE  CusumInv' /\ z.forward' > 0
<1>1. /\ pc = "forward" /\ pc' = "reverse" /\ i > N /\ i' = N /\ S' = S
      /\ z' = [z EXCEPT !.forward = Larger(sup, - inf)]
      /\ sum' = 0 /\ sup' = 0 /\ inf' = 0
  BY DEF EndForward, Reset, Excursion, walkVars
<1>2. /\ i = N + 1 /\ N \in Nat /\ N >= 1 /\ Len(S) = N
      /\ Extremes(ForwardSums(i - 1), inf, sup)
      /\ z.forward = 0 /\ z.reverse = 0
  BY <1>1, RandomWalkAssumption DEF CusumInv, WalkInv
<1>3. Extremes(ForwardSums(N), inf, sup)
  <2>1. i - 1 = N
    BY <1>2
  <2> QED
    BY <1>2, <2>1
<1>4. S[1] \in ForwardSums(N) /\ S[1] # 0
  <2>1. 1 \in 1..N
    BY <1>2
  <2>2. S[1] = Height(1 - 1) + StepOf(bits[1]) /\ StepOf(bits[1]) \in {-1, 1} /\ Height(0) = 0
    BY <1>2, <2>1, Heights
  <2> QED
    BY <2>1, <2>2 DEF ForwardSums
<1>5. ForwardSums(N) \in SUBSET Int
  BY <1>2, SumsGrow
<1>6. /\ IsLargest(Larger(sup, - inf), {Larger(t, - t) : t \in ForwardSums(N)})
      /\ Larger(sup, - inf) > 0
  BY <1>3, <1>4, <1>5, ExcursionIsLargest
<1>7. {Larger(t, - t) : t \in ForwardSums(N)} = ForwardDistances
  BY DEF ForwardSums, ForwardDistances
<1>8. z'.forward = Larger(sup, - inf) /\ z'.reverse = 0
  BY <1>1, <1>2
<1>9. ForwardDistances' = ForwardDistances
  BY <1>1 DEF ForwardDistances
<1>10. IsLargest(z.forward, ForwardDistances)'
  BY <1>6, <1>7, <1>8, <1>9, Zenon DEF IsLargest
<1>11. Height(i)' = S'[N] /\ S'[N] \in Int
  BY <1>1, <1>2, Heights DEF Height
<1>12. ReverseSums(i)' = {}
  BY <1>1, <1>2 DEF ReverseSums
<1>13. Extremes(ReverseSums(i), inf, sup)'
  BY <1>1, <1>12 DEF Extremes
<1>14. sum' = S'[N] - Height(i)' /\ i' \in 0..N
  BY <1>1, <1>2, <1>11
<1>15. (\A t \in ReverseSums(i) \cup {sum} : t \in (i - N)..(N - i))'
  BY <1>1, <1>2, <1>12
<1> QED
  BY <1>1, <1>6, <1>8, <1>10, <1>13, <1>14, <1>15 DEF CusumInv

\* One step of the reverse pass: the sum is the height of the end above the
\* position reached.
LEMMA ReverseKept ==
  ASSUME WalkInv, CusumInv, Reverse PROVE CusumInv'
<1>1. /\ pc = "reverse" /\ pc' = "reverse" /\ i >= 1 /\ i' = i - 1 /\ S' = S /\ z' = z
      /\ sum' = sum + StepOf(bits[i]) /\ sup' = Larger(sup, sum')
      /\ inf' = Smaller(inf, sum')
  BY DEF Reverse, Accumulate, walkVars
<1>2. /\ i \in 1..N /\ N \in Nat /\ sum = S[N] - Height(i) /\ Len(S) = N
      /\ Extremes(ReverseSums(i), inf, sup)
      /\ \A t \in ReverseSums(i) \cup {sum} : t \in (i - N)..(N - i)
      /\ IsLargest(z.forward, ForwardDistances) /\ z.reverse = 0
  BY <1>1, RandomWalkAssumption DEF CusumInv, WalkInv
<1>3. /\ S[i] = Height(i - 1) + StepOf(bits[i]) /\ S[i] \in Int /\ Height(i) = S[i]
      /\ StepOf(bits[i]) \in {-1, 1}
  BY <1>2, Heights
<1>4. Height(i - 1) \in Int /\ S[N] \in Int
  <2>1. i - 1 \in 0..N /\ N \in 1..N
    BY <1>2
  <2> QED
    BY <1>2, <2>1, Heights
<1>5. sum' = S[N] - Height(i - 1)
  BY <1>1, <1>2, <1>3, <1>4
<1>6. /\ ReverseSums(i) \in SUBSET Int
      /\ ReverseSums(i - 1) = ReverseSums(i) \cup {sum'}
  <2>1. i \in 0..N
    BY <1>2
  <2> QED
    BY <1>2, <1>5, <2>1, SumsGrow, Zenon
<1>7. sum' \in Int
  BY <1>4, <1>5
<1>8. Extremes(ReverseSums(i - 1), inf', sup')
  <2>1. Extremes(ReverseSums(i) \cup {sum'}, Smaller(inf, sum'), Larger(sup, sum'))
    BY <1>2, <1>6, <1>7, NextExtremes
  <2> QED
    BY <1>1, <1>6, <2>1
<1>9. \A t \in ReverseSums(i - 1) \cup {sum'} : t \in ((i - 1) - N)..(N - (i - 1))
  <2>1. sum' \in ((i - 1) - N)..(N - (i - 1))
    <3>1. sum \in (i - N)..(N - i) /\ sum \in Int
      BY <1>2
    <3> QED
      BY <1>1, <1>2, <1>3, <1>7, <3>1
  <2>2. \A t \in ReverseSums(i) : t \in ((i - 1) - N)..(N - (i - 1))
    BY <1>2
  <2> QED
    BY <1>6, <2>1, <2>2, Zenon
<1>10. i' \in 0..N
  BY <1>1, <1>2
<1>11. /\ Height(i)' = Height(i - 1) /\ ReverseSums(i)' = ReverseSums(i - 1)
       /\ ForwardDistances' = ForwardDistances
  BY <1>1, Zenon DEF Height, ReverseSums, ForwardDistances
<1>12. sum' = S'[N] - Height(i)' /\ Extremes(ReverseSums(i), inf, sup)'
  BY <1>1, <1>5, <1>8, <1>11, Zenon DEF Extremes
<1>13. (\A t \in ReverseSums(i) \cup {sum} : t \in (i - N)..(N - i))'
  BY <1>1, <1>9, <1>11, Zenon
<1>14. IsLargest(z.forward, ForwardDistances)'
  BY <1>1, <1>2, <1>11, Zenon DEF IsLargest
<1> QED
  BY <1>1, <1>2, <1>10, <1>12, <1>13, <1>14 DEF CusumInv
\* The reverse pass ends with the largest distance from the end.
LEMMA ReverseEnds ==
  ASSUME WalkInv, CusumInv, EndReverse, z \in [forward : 0..N, reverse : 0..N]
  PROVE  CusumInv'
<1>1. /\ pc = "reverse" /\ pc' = "done" /\ i < 1 /\ S' = S
      /\ z' = [z EXCEPT !.reverse = Larger(sup, - inf)]
      /\ sum' = 0 /\ sup' = 0 /\ inf' = 0
  BY DEF EndReverse, Reset, Excursion, walkVars
<1>2. /\ i = 0 /\ N \in Nat /\ N >= 1 /\ Len(S) = N
      /\ Extremes(ReverseSums(i), inf, sup)
      /\ IsLargest(z.forward, ForwardDistances)
  BY <1>1, RandomWalkAssumption DEF CusumInv, WalkInv
<1>3. Extremes(ReverseSums(0), inf, sup)
  BY <1>2
<1>4. S[N] - Height(N - 1) \in ReverseSums(0) /\ S[N] - Height(N - 1) # 0
  <2>1. N \in 1..N /\ N - 1 \in 0..N /\ N - 1 \in 0..(N - 1)
    BY <1>2
  <2>2. /\ S[N] = Height(N - 1) + StepOf(bits[N]) /\ StepOf(bits[N]) \in {-1, 1}
        /\ Height(N - 1) \in Int
    BY <1>2, <2>1, Heights
  <2> QED
    BY <2>1, <2>2 DEF ReverseSums
<1>5. ReverseSums(0) \in SUBSET Int
  BY <1>2, SumsGrow
<1>6. IsLargest(Larger(sup, - inf), {Larger(t, - t) : t \in ReverseSums(0)})
  BY <1>3, <1>4, <1>5, ExcursionIsLargest
<1>7. {Larger(t, - t) : t \in ReverseSums(0)} = ReverseDistances
  <2>1. \A p \in 0..(N - 1) : Height(p) - S[N] = - (S[N] - Height(p))
    BY <1>2, Heights
  <2> QED
    BY <2>1 DEF ReverseSums, ReverseDistances
<1>8. z'.reverse = Larger(sup, - inf) /\ z'.forward = z.forward
  BY <1>1
<1>9. ReverseDistances' = ReverseDistances /\ ForwardDistances' = ForwardDistances
  BY <1>1 DEF ReverseDistances, ForwardDistances, Height
<1>10. IsLargest(z.forward, ForwardDistances)'
  BY <1>2, <1>8, <1>9, Zenon DEF IsLargest
<1>11. IsLargest(z.reverse, ReverseDistances)'
  BY <1>6, <1>7, <1>8, <1>9, Zenon DEF IsLargest
<1> QED
  BY <1>1, <1>10, <1>11 DEF CusumInv

\* Every step keeps what is known of the sums.
LEMMA CusumKept ==
  ASSUME TypeOK, WalkInv, StartInv, CusumInv, [Next]_vars PROVE CusumInv'
<1>1. z \in [forward : 0..N, reverse : 0..N]
  BY DEF TypeOK
<1>2. CASE Walk \/ Index \/ EndIndex \/ CountCycle \/
           ((CloseWalk \/ CountVisits) /\ pc' # "forward")
  <2>1. /\ pc \in {"walk", "index", "cycles"} /\ pc' \in {"walk", "index", "cycles"}
        /\ UNCHANGED cusumVars
    BY <1>2 DEF Walk, Index, EndIndex, CountCycle, CloseWalk, CountVisits
  <2>2. sum' = 0 /\ sup' = 0 /\ inf' = 0 /\ z'.forward = 0 /\ z'.reverse = 0
    BY <2>1 DEF CusumInv, cusumVars
  <2> QED
    BY <2>1, <2>2 DEF CusumInv
<1>3. CASE (CloseWalk \/ CountVisits) /\ pc' = "forward"
  BY <1>3, ForwardStarts
<1>4. CASE Forward
  BY <1>4, ForwardKept
<1>5. CASE EndForward
  BY <1>1, <1>5, ForwardEnds
<1>6. CASE Reverse
  BY <1>6, ReverseKept
<1>7. CASE EndReverse
  BY <1>1, <1>7, ReverseEnds
<1>8. CASE UNCHANGED vars
  <2>1. UNCHANGED <<pc, i, S, sum, sup, inf, z>>
    BY <1>8 DEF vars, walkVars, cusumVars
  <2>2. Height(i - 1)' = Height(i - 1) /\ Height(i)' = Height(i)
    BY <2>1 DEF Height
  <2>3. /\ ForwardSums(i - 1)' = ForwardSums(i - 1) /\ ReverseSums(i)' = ReverseSums(i)
        /\ ForwardDistances' = ForwardDistances /\ ReverseDistances' = ReverseDistances
    BY <2>1 DEF Height, ForwardSums, ReverseSums, ForwardDistances, ReverseDistances
  <2> QED
    BY <2>1, <2>2, <2>3, Zenon DEF CusumInv, Extremes, IsLargest
<1> QED
  BY <1>2, <1>3, <1>4, <1>5, <1>6, <1>7, <1>8 DEF Next, Done

\* The walk starts all loops.
LEMMA StartKept ==
  ASSUME StartInv, [Next]_vars PROVE StartInv'
BY DEF StartInv, Next, Walk, CloseWalk, Index, EndIndex, CountCycle, CountVisits, Forward,
       EndForward, Reverse, EndReverse, Done, vars, cycleVars
-----------------------------------------------------------------------------
(* Types. *)

\* The walk stays within its length.
LEMMA WalkBounds == WalkInv => S \in Seq(-N..N)
<1> SUFFICES ASSUME WalkInv PROVE S \in Seq(-N..N)
  OBVIOUS
<1>1. N \in Nat /\ Len(S) \in Nat /\ Len(S) <= N /\ S \in Seq(Int)
  BY RandomWalkAssumption DEF WalkInv
<1>2. \A p \in 1..Len(S) : S[p] \in (- p)..p
  BY DEF WalkInv
<1>3. \A p \in 1..Len(S) : S[p] \in -N..N
  BY <1>1, <1>2
<1> QED
  BY <1>1, <1>3

\* The sums stay within the length of the walk.
LEMMA CusumBounds ==
  WalkInv /\ CusumInv => sum \in -N..N /\ sup \in 0..N /\ inf \in -N..0
<1> SUFFICES ASSUME WalkInv, CusumInv PROVE sum \in -N..N /\ sup \in 0..N /\ inf \in -N..0
  OBVIOUS
<1>1. /\ N \in Nat /\ N >= 1
      /\ \A p \in 0..Len(S) : Height(p) \in (- p)..p
      /\ \A p \in 1..Len(S) : Height(p) = S[p]
  BY Heights
<1>2. pc # "walk" => Len(S) = N
  BY DEF WalkInv
<1>3. pc # "walk" => \A p \in 0..N : Height(p) \in -N..N
  BY <1>1, <1>2
<1>4. pc # "walk" => \A p \in 1..N : S[p] \in -N..N
  <2> SUFFICES ASSUME pc # "walk", NEW p \in 1..N PROVE S[p] \in -N..N
    OBVIOUS
  <2>1. p \in 0..N /\ p \in 1..Len(S)
    BY <1>1, <1>2
  <2> QED
    BY <1>1, <1>3, <2>1
<1>5. sum \in -N..N /\ sup \in 0..N /\ inf \in -N..0
  <2>1. CASE pc \notin {"forward", "reverse"}
    BY <1>1, <2>1 DEF CusumInv
  <2>2. CASE pc = "forward"
    <3>1. i \in 1..(N + 1) /\ sum = Height(i - 1) /\ Extremes(ForwardSums(i - 1), inf, sup)
      BY <2>2 DEF CusumInv
    <3>2. i - 1 \in 0..N
      BY <1>1, <3>1
    <3>3. \A q \in 1..(i - 1) : q \in 1..N
      BY <1>1, <3>2
    <3>4. ForwardSums(i - 1) \in SUBSET (-N..N)
      BY <1>4, <2>2, <3>3 DEF ForwardSums
    <3> QED
      BY <1>1, <1>3, <2>2, <3>1, <3>2, <3>4 DEF Extremes
  <2>3. CASE pc = "reverse"
    <3>1. /\ i \in 0..N /\ Extremes(ReverseSums(i), inf, sup)
          /\ \A t \in ReverseSums(i) \cup {sum} : t \in (i - N)..(N - i)
      BY <2>3 DEF CusumInv
    <3>2. \A t \in ReverseSums(i) \cup {sum} : t \in -N..N
      BY <1>1, <3>1
    <3>3. sum \in -N..N /\ ReverseSums(i) \in SUBSET (-N..N)
      BY <3>2
    <3> QED
      BY <1>1, <3>1, <3>3 DEF Extremes
  <2> QED
    BY <2>1, <2>2, <2>3
<1> QED
  BY <1>5
\* No row counts more than the cycles counted.
LEMMA RowBounds ==
  NuInv /\ j \in 1..(N + 1) => nu \in [0..Most -> [stateX -> 0..N]]
<1> SUFFICES ASSUME NuInv, j \in 1..(N + 1) PROVE nu \in [0..Most -> [stateX -> 0..N]]
  OBVIOUS
<1>1. nu \in [0..Most -> [stateX -> Nat]] /\ N \in Nat
  BY RandomWalkAssumption DEF NuInv
<1>2. ASSUME NEW k \in 0..Most, NEW x \in stateX PROVE nu[k][x] \in 0..N
  <2> DEFINE f == [m \in 0..Most |-> nu[m][x]]
  <2>1. SumOfRows(f) = j - 1
    BY Zenon DEF NuInv, EveryCycleInOneRow
  <2>2. /\ f[0] \in Nat /\ f[1] \in Nat /\ f[2] \in Nat
        /\ f[3] \in Nat /\ f[4] \in Nat /\ f[5] \in Nat /\ f[k] = nu[k][x]
    BY <1>1 DEF Most
  <2> HIDE DEF f
  <2>3. PICK a0 \in Nat, a1 \in Nat, a2 \in Nat, a3 \in Nat, a4 \in Nat, a5 \in Nat :
           a0 = f[0] /\ a1 = f[1] /\ a2 = f[2] /\ a3 = f[3] /\ a4 = f[4] /\ a5 = f[5]
    BY <2>2, Zenon
  <2>4. a0 + a1 + a2 + a3 + a4 + a5 = j - 1
    BY <2>1, <2>3 DEF SumOfRows, Most
  <2>5. a0 \in 0..N /\ a1 \in 0..N /\ a2 \in 0..N /\ a3 \in 0..N /\ a4 \in 0..N /\ a5 \in 0..N
    BY <1>1, <2>4
  <2>6. k \in {0, 1, 2, 3, 4, 5}
    BY DEF Most
  <2>7. f[k] \in 0..N
    BY <2>3, <2>5, <2>6
  <2> QED
    BY <2>2, <2>7
<1> QED
  BY <1>1, <1>2

\* The entries of the slice in their order.
LEMMA SliceIsSequence ==
  ASSUME NEW n \in Nat, NEW T, NEW f \in [1..n -> T] PROVE f \in Seq(T)
OBVIOUS

\* Every variable keeps its type.
LEMMA TypeKept ==
  ASSUME TypeOK, WalkInv, StartInv, CountInv, IndexInv, CyclesInv, NuInv, CusumInv,
         [Next]_vars,
         WalkInv', CountInv', IndexInv', CyclesInv', NuInv', CusumInv'
  PROVE  TypeOK'
<1>1. N \in Nat /\ N >= 1
  BY RandomWalkAssumption
<1>2. pc' \in {"walk", "index", "cycles", "forward", "reverse", "done"}
  BY DEF Next, Walk, CloseWalk, Index, EndIndex, CountCycle, CountVisits, Forward,
         EndForward, Reverse, EndReverse, Done, vars, TypeOK
<1>3. bits' \in Seq(0..1) /\ Len(bits') <= N /\ Len(S') = Len(bits')
  BY DEF WalkInv
<1>4. S' \in Seq(-N..N)
  <2>1. (WalkInv => S \in Seq(-N..N))'
    BY WalkBounds, PTL
  <2> QED
    BY <2>1
<1>5. J' \in 0..N /\ J \in 0..N
  <2>1. WalkInv /\ CountInv => J \in 0..N
    BY CyclesInWalk
  <2>2. (WalkInv /\ CountInv => J \in 0..N)'
    BY CyclesInWalk, PTL
  <2> QED
    BY <2>1, <2>2
<1>6. i' \in 0..(N + 1)
  <2>1. CASE pc' = "index"
    BY <1>1, <2>1 DEF IndexInv
  <2>2. CASE pc' \in {"forward", "reverse"}
    BY <1>1, <2>2 DEF CusumInv
  <2>3. CASE pc' \notin {"index", "forward", "reverse"}
    <3>1. i' = i
      BY <2>3 DEF Next, Walk, CloseWalk, Index, EndIndex, CountCycle, CountVisits, Forward,
                  EndForward, Reverse, EndReverse, Done, vars
    <3> QED
      BY <3>1 DEF TypeOK
  <2> QED
    BY <2>1, <2>2, <2>3
<1>7. j' \in 1..(N + 1)
  <2>1. CASE CountCycle
    BY <1>1, <1>5, <2>1 DEF CountCycle, TypeOK
  <2>2. CASE ~ CountCycle
    <3>1. j' = j
      BY <2>2 DEF Next, Walk, CloseWalk, Index, EndIndex, CountVisits, Forward,
                  EndForward, Reverse, EndReverse, Done, vars, cycleVars
    <3> QED
      BY <3>1 DEF TypeOK
  <2> QED
    BY <2>1, <2>2
<1>8. idx' \in 1..(N + 1)
  <2>1. CASE Index /\ S[i] = 0
    <3>1. idx \in 1..J /\ idx' = idx + 1
      BY <2>1, ReturnHasEntry DEF Index
    <3> QED
      BY <1>1, <1>5, <3>1
  <2>2. CASE ~ (Index /\ S[i] = 0)
    <3>1. idx' = idx
      BY <2>2 DEF Next, Walk, CloseWalk, Index, EndIndex, CountCycle, CountVisits, Forward,
                  EndForward, Reverse, EndReverse, Done, vars, cycleVars
    <3> QED
      BY <3>1 DEF TypeOK
  <2> QED
    BY <2>1, <2>2
<1>9. cycle' \in Seq(1..N)
  <2>1. CASE pc' \in {"index", "cycles"}
    <3>1. cycle' \in [1..J' -> 1..N] /\ J' \in Nat
      BY <1>1, <1>5, <2>1 DEF IndexInv, CyclesInv
    <3> QED
      BY <3>1, SliceIsSequence, Zenon
  <2>2. CASE pc' \notin {"index", "cycles"}
    <3>1. cycle' = cycle
      BY <2>2 DEF Next, Walk, CloseWalk, Index, EndIndex, CountCycle, CountVisits, Forward,
                  EndForward, Reverse, EndReverse, Done, vars, cycleVars
    <3> QED
      BY <3>1 DEF TypeOK
  <2> QED
    BY <2>1, <2>2
<1>10. cycleStart' \in 1..(N + 1) /\ cycleStop' \in 0..N
  <2>1. CASE CountCycle
    <3>1. cycle[j] \in 1..N /\ cycleStart' = cycle[j] + 1
      BY <2>1, CycleLies DEF CountCycle, After
    <3>2. pc' = "cycles"
      BY <2>1 DEF CountCycle
    <3>3. /\ cycle' \in [1..J' -> 1..N] /\ j' \in 1..(J' + 1)
          /\ cycleStop' = IF j' <= J' THEN cycle'[j'] ELSE N
      BY <3>2 DEF CyclesInv
    <3>4. cycleStop' \in 1..N
      BY <1>1, <1>5, <3>3
    <3> QED
      BY <1>1, <3>1, <3>4
  <2>2. CASE EndIndex
    <3>1. pc' = "cycles" /\ cycleStart' = cycleStart
      BY <2>2 DEF EndIndex
    <3>3. /\ cycle' \in [1..J' -> 1..N] /\ j' \in 1..(J' + 1)
          /\ cycleStop' = IF j' <= J' THEN cycle'[j'] ELSE N
      BY <3>1 DEF CyclesInv
    <3>4. cycleStop' \in 1..N
      BY <1>1, <1>5, <3>3
    <3> QED
      BY <1>1, <3>1, <3>4 DEF TypeOK
  <2>3. CASE ~ CountCycle /\ ~ EndIndex
    <3>1. cycleStart' = cycleStart /\ cycleStop' = cycleStop
      BY <2>3 DEF Next, Walk, CloseWalk, Index, CountVisits, Forward,
                  EndForward, Reverse, EndReverse, Done, vars, cycleVars
    <3> QED
      BY <3>1 DEF TypeOK
  <2> QED
    BY <2>1, <2>2, <2>3
<1>11. nu' \in [0..Most -> [stateX -> 0..N]]
  <2>1. (NuInv /\ j \in 1..(N + 1) => nu \in [0..Most -> [stateX -> 0..N]])'
    BY RowBounds, PTL
  <2> QED
    BY <1>7, <2>1
<1>12. visits' \in [variantX -> 0..N]
  <2>1. CASE CountVisits
    <3>1. 1 \in 1..(N + 1) /\ N \in 0..N
      BY <1>1
    <3>2. \A x \in variantX : VisitsIn(1, N, x) \in 0..N
      BY <3>1, VisitsType, Zenon
    <3> QED
      BY <2>1, <3>2 DEF CountVisits
  <2>2. CASE ~ CountVisits
    <3>1. visits' = visits
      BY <2>2 DEF Next, Walk, CloseWalk, Index, EndIndex, CountCycle, Forward,
                  EndForward, Reverse, EndReverse, Done, vars
    <3> QED
      BY <3>1 DEF TypeOK
  <2> QED
    BY <2>1, <2>2
<1>13. sum' \in -N..N /\ sup' \in 0..N /\ inf' \in -N..0
  <2>1. (WalkInv /\ CusumInv => sum \in -N..N /\ sup \in 0..N /\ inf \in -N..0)'
    BY CusumBounds, PTL
  <2> QED
    BY <2>1
<1>14. z' \in [forward : 0..N, reverse : 0..N]
  <2>1. Excursion \in 0..N /\ z \in [forward : 0..N, reverse : 0..N]
    BY <1>1 DEF TypeOK, Excursion, Larger
  <2>2. \/ z' = z
        \/ z' = [z EXCEPT !.forward = Excursion]
        \/ z' = [z EXCEPT !.reverse = Excursion]
    BY DEF Next, Walk, CloseWalk, Index, EndIndex, CountCycle, CountVisits, Forward,
           EndForward, Reverse, EndReverse, Done, vars, cusumVars
  <2> QED
    BY <2>1, <2>2
<1> QED
  BY <1>2, <1>3, <1>4, <1>5, <1>6, <1>7, <1>8, <1>9, <1>10, <1>11, <1>12, <1>13, <1>14
     DEF TypeOK-----------------------------------------------------------------------------
(* The inductive invariant. *)

\* It holds before the first bit.
LEMMA InitInv == ASSUME Init PROVE IInv
<1>1. /\ N \in Nat /\ N >= 1 /\ MinCycles \in Nat /\ MinCycles >= 1
      /\ Near \in Nat /\ Far \in Nat
  BY RandomWalkAssumption
<1>2. /\ pc = "walk" /\ bits = <<>> /\ S = <<>> /\ J = 0 /\ i = 1
      /\ cycle = <<>> /\ idx = 1 /\ j = 1 /\ cycleStart = 1 /\ cycleStop = 0
      /\ nu = [k \in 0..Most |-> [x \in stateX |-> 0]]
      /\ visits = [x \in variantX |-> 0]
      /\ sum = 0 /\ sup = 0 /\ inf = 0 /\ z = [forward |-> 0, reverse |-> 0]
  BY DEF Init
<1>3. TypeOK
  BY <1>1, <1>2 DEF TypeOK
<1>4. WalkInv /\ StartInv /\ IndexInv /\ CyclesInv
  BY <1>1, <1>2 DEF WalkInv, StartInv, IndexInv, CyclesInv
<1>5. CountInv
  <2>1. Zeros(S, Len(S)) = 0
    <3>1. Len(S) = 0
      BY <1>2
    <3> QED
      BY <3>1, NoZeros
  <2> QED
    BY <1>2, <2>1 DEF CountInv
<1>6. NuInv
  <2>1. ASSUME NEW x \in stateX
        PROVE  SumOfRows([k \in 0..Most |-> nu[k][x]]) = j - 1
    <3>1. \A k \in 0..Most : nu[k][x] = 0
      BY <1>2
    <3> QED
      BY <1>2, <3>1 DEF SumOfRows, Most
  <2>2. nu \in [0..Most -> [stateX -> Nat]]
    BY <1>2
  <2> QED
    BY <1>2, <2>1, <2>2 DEF NuInv, EveryCycleInOneRow
<1>7. CusumInv
  BY <1>2 DEF CusumInv
<1> QED
  BY <1>3, <1>4, <1>5, <1>6, <1>7 DEF IInv

\* Every step keeps it.
LEMMA StepInv == ASSUME IInv, [Next]_vars PROVE IInv'
<1>1. TypeOK /\ WalkInv /\ StartInv /\ CountInv /\ IndexInv /\ CyclesInv /\ NuInv /\ CusumInv
  BY DEF IInv
<1>2. WalkInv' /\ StartInv' /\ CountInv'
  BY <1>1, WalkKept, StartKept, CountKept
<1>3. IndexInv' /\ CyclesInv' /\ NuInv' /\ CusumInv'
  BY <1>1, IndexKept, CyclesKept, NuKept, CusumKept
<1>4. TypeOK'
  BY <1>1, <1>2, <1>3, TypeKept
<1> QED
  BY <1>2, <1>3, <1>4 DEF IInv

\* The invariant every property below follows from.
LEMMA InvHolds == Spec => []IInv
<1>1. Init => IInv
  BY InitInv
<1>2. IInv /\ [Next]_vars => IInv'
  BY StepInv
<1> QED
  BY <1>1, <1>2, PTL DEF Spec

\* Type correctness: the counters never exceed the walk (all three files).
THEOREM TypesKept == Spec => []TypeOK
<1>1. IInv => TypeOK
  BY DEF IInv
<1> QED
  BY <1>1, InvHolds, PTL

\* The index loop never writes past the slice of cycles
\* (random_excursions.go:33-41).
THEOREM WritesStayInSlice == Spec => []WritesInSlice
<1>1. IInv => WritesInSlice
  <2> SUFFICES ASSUME IInv, pc = "index", i <= N, S[i] = 0 PROVE idx <= J
    BY DEF WritesInSlice
  <2>1. idx \in 1..J /\ J \in 0..N /\ N \in Nat
    BY ReturnHasEntry, RandomWalkAssumption DEF IInv, TypeOK
  <2> QED
    BY <2>1
<1> QED
  BY <1>1, InvHolds, PTL

\* The cycles the third loop counts are the stretches between the returns to
\* zero (random_excursions.go:53-78).
THEOREM CyclesAreStretches == Spec => []CycleIsStretch
<1>1. IInv => CycleIsStretch
  <2> SUFFICES ASSUME IInv, pc = "cycles", j <= J
               PROVE  cycleStart..cycleStop =
                         {p \in 1..N : Cardinality({q \in 1..(p - 1) : S[q] = 0}) = j - 1}
    BY DEF CycleIsStretch
  <2>1. \A p \in 1..N : Zeros(S, p - 1) = j - 1 <=> p \in cycleStart..cycleStop
    BY StretchOfCycle DEF IInv
  <2>2. cycleStart..cycleStop \in SUBSET (1..N)
    BY RandomWalkAssumption DEF IInv, TypeOK
  <2>3. {p \in 1..N : Zeros(S, p - 1) = j - 1} = cycleStart..cycleStop
    BY <2>1, <2>2, Zenon
  <2> QED
    BY <2>3, Zenon DEF Zeros
<1> QED
  BY <1>1, InvHolds, PTL

\* Every cycle counted is in exactly one row for every state
\* (random_excursions.go:80-100).
THEOREM RowsHoldEveryCycle == Spec => []EveryCycleInOneRow
<1>1. IInv => EveryCycleInOneRow
  BY DEF IInv, NuInv
<1> QED
  BY <1>1, InvHolds, PTL

\* The two excursion tests count the same visits, as far as the last row lets
\* it (random_excursions_variant.go:32-43).
THEOREM TestsAgree == Spec => []ExcursionTestsAgree
<1>1. IInv => ExcursionTestsAgree
  <2> SUFFICES ASSUME IInv, pc \in {"forward", "reverse", "done"}, J >= MinCycles,
                      NEW x \in stateX
               PROVE  LET perCycle == SumOfRows([k \in 0..Most |-> k * nu[k][x]])
                      IN /\ perCycle <= visits[x]
                         /\ nu[Most][x] = 0 => perCycle = visits[x]
    BY Zenon DEF ExcursionTestsAgree
  <2>1. RowsTell(x, visits[x])
    BY DEF IInv, NuInv
  <2> QED
    BY <2>1, Zenon DEF RowsTell, PerCycle
<1> QED
  BY <1>1, InvHolds, PTL

\* A largest element is the maximum.
LEMMA LargestIsMax ==
  ASSUME NEW T \in SUBSET Int, NEW m, IsLargest(m, T) PROVE m = Max(T)
<1>1. m \in T /\ m \in Int /\ \A t \in T : m >= t
  BY DEF IsLargest
<1>2. \A u \in T : (\A t \in T : u >= t) => u = m
  BY <1>1
<1> QED
  BY <1>1, <1>2 DEF Max

\* The excursions are the walk's largest distances from its two ends
\* (cumulative_sums.go:29-62).
THEOREM ExcursionsAreLargest == Spec => []ExcursionsOfTheWalk
<1>1. IInv => ExcursionsOfTheWalk
  <2> SUFFICES ASSUME IInv, pc = "done"
               PROVE  z.forward = Max(ForwardDistances) /\ z.reverse = Max(ReverseDistances)
    BY DEF ExcursionsOfTheWalk, ForwardDistances, ReverseDistances
  <2>1. IsLargest(z.forward, ForwardDistances) /\ IsLargest(z.reverse, ReverseDistances)
    BY DEF IInv, CusumInv
  <2>2. Len(S) = N /\ WalkInv
    BY DEF IInv, WalkInv
  <2>3. /\ N \in Nat /\ N >= 1
        /\ \A p \in 0..N : Height(p) \in Int
        /\ \A p \in 1..N : S[p] \in Int
    BY <2>2, Heights
  <2>4. ForwardDistances \in SUBSET Int
    BY <2>3 DEF ForwardDistances, Larger
  <2>5. ReverseDistances \in SUBSET Int
    <3>1. \A p \in 0..(N - 1) : Height(p) \in Int /\ S[N] \in Int
      BY <2>3
    <3> QED
      BY <3>1 DEF ReverseDistances, Larger
  <2> QED
    BY <2>1, <2>4, <2>5, LargestIsMax, Zenon
<1> QED
  BY <1>1, InvHolds, PTL
\* Integer division by a positive number: the multiples up to m.
LEMMA MultiplesUpTo ==
  ASSUME NEW m \in Nat, NEW d \in Nat, d > 0, NEW a \in Nat
  PROVE  a <= m \div d <=> a * d <= m
<1> DEFINE q == m \div d
<1>1. q \in Nat /\ q * d <= m /\ m < q * d + d
  OBVIOUS
<1> HIDE DEF q
<1>2. a <= q => a * d <= m
  <2> SUFFICES ASSUME a <= q PROVE a * d <= m
    OBVIOUS
  <2>1. q - a \in Nat
    BY <1>1
  <2>2. (q - a) * d \in Nat /\ (q - a) * d = q * d - a * d /\ q * d \in Nat /\ a * d \in Nat
    BY <1>1, <2>1
  <2> QED
    BY <1>1, <2>2
<1>3. q < a => m < a * d
  <2> SUFFICES ASSUME q < a PROVE m < a * d
    OBVIOUS
  <2>1. (a - q) - 1 \in Nat
    BY <1>1
  <2>2. /\ ((a - q) - 1) * d \in Nat /\ ((a - q) - 1) * d = a * d - q * d - d
        /\ q * d \in Nat /\ a * d \in Nat
    BY <1>1, <2>1
  <2> QED
    BY <1>1, <2>2
<1>4. a * d \in Nat /\ (a <= q \/ q < a)
  BY <1>1
<1> QED
  BY <1>2, <1>3, <1>4 DEF q

\* The terms the two sums take for an excursion e. A term of the first sum with
\* k = a or -a is inside when (4a + 1) e is at most N, one of the second when
\* this holds of k = a or k = -a - 1; the quotient q is the largest such a.
LEMMA TermsOf ==
  ASSUME NEW e \in 1..N
  PROVE  /\ start(e)..finish(e) =
               {k \in -N..N : /\ Distance(4 * k - 1) * e <= N
                              /\ Distance(4 * k + 1) * e <= N}
         /\ (start(e) - 1)..finish(e) =
               {k \in -N..N : \/ Distance(4 * k + 1) * e <= N
                              \/ Distance(4 * k + 3) * e <= N}
<1>1. N \in Nat /\ e \in Nat /\ e >= 1 /\ N - e \in Nat /\ 4 * e \in Nat /\ 4 * e > 0
  BY RandomWalkAssumption
<1> DEFINE q == (N - e) \div (4 * e)
           InFirst(k) == /\ Distance(4 * k - 1) * e <= N
                         /\ Distance(4 * k + 1) * e <= N
           InSecond(k) == \/ Distance(4 * k + 1) * e <= N
                          \/ Distance(4 * k + 3) * e <= N
<1>2. q \in Nat
  BY <1>1
<1>3. \A a \in Nat : a <= q <=> a * (4 * e) <= N - e
  BY <1>1, MultiplesUpTo
<1>4. q <= N /\ (N > 0 => q < N)
  <2>1. q * (4 * e) <= N - e
    BY <1>2, <1>3
  <2>2. q * (4 * e) = q * (4 * e - 1) + q /\ q * (4 * e - 1) \in Nat
    <3>1. 4 * e - 1 \in Nat
      BY <1>1
    <3> HIDE DEF q
    <3> QED
      BY <1>1, <1>2, <3>1
  <2> HIDE DEF q
  <2>3. PICK u \in Nat : u = q * (4 * e - 1)
    BY <2>2
  <2> QED
    BY <1>1, <1>2, <2>1, <2>2, <2>3
<1>5. finish(e) = q
  BY <1>1 DEF finish, Truncated
<1>6. start(e) = - q
  <2>1. CASE e - N >= 0
    <3>1. e = N
      BY <1>1, <2>1
    <3>2. 0 \div (4 * e) = 0
      BY <1>1
    <3> QED
      BY <1>1, <3>1, <3>2 DEF start, Truncated
  <2>2. CASE ~ (e - N >= 0)
    <3>1. - (e - N) = N - e
      BY <1>1
    <3> QED
      BY <2>2, <3>1 DEF start, Truncated
  <2> QED
    BY <2>1, <2>2
<1> HIDE DEF q
<1>7. ASSUME NEW a \in Nat PROVE (4 * a + 1) * e <= N <=> a <= q
  <2>1. (4 * a + 1) * e = a * (4 * e) + e /\ a * (4 * e) \in Nat
    BY <1>1
  <2>2. PICK u \in Nat : u = a * (4 * e)
    BY <2>1
  <2> QED
    BY <1>1, <1>3, <2>1, <2>2
<1>8. ASSUME NEW x \in Nat, NEW y \in Nat, x <= y, y * e <= N PROVE x * e <= N
  <2>1. PICK d \in Nat : y = x + d
    <3>1. y - x \in Nat /\ y = x + (y - x)
      BY <1>8
    <3> QED
      BY <3>1
  <2>2. y * e = x * e + d * e /\ x * e \in Nat /\ d * e \in Nat
    BY <1>1, <2>1
  <2>3. PICK u \in Nat, v \in Nat : u = x * e /\ v = d * e
    BY <2>2
  <2> QED
    BY <1>1, <1>8, <2>2, <2>3
<1>9. ASSUME NEW k \in Nat
      PROVE  /\ InFirst(k) <=> k <= q
             /\ InSecond(k) <=> k <= q
  <2>1. /\ Distance(4 * k + 1) = 4 * k + 1 /\ Distance(4 * k + 3) = 4 * k + 3
        /\ Distance(4 * k - 1) \in Nat /\ Distance(4 * k - 1) <= 4 * k + 1
        /\ 4 * k + 1 \in Nat /\ 4 * k + 3 \in Nat /\ 4 * k + 1 <= 4 * k + 3
    BY DEF Distance, Larger
  <2>2. (4 * k + 1) * e <= N <=> k <= q
    BY <1>7
  <2>3. (4 * k + 1) * e <= N => Distance(4 * k - 1) * e <= N
    BY <1>8, <2>1
  <2>4. (4 * k + 3) * e <= N => (4 * k + 1) * e <= N
    BY <1>8, <2>1
  <2> QED
    BY <2>1, <2>2, <2>3, <2>4, Zenon
<1>10. ASSUME NEW k \in Int, ~ k >= 0
       PROVE  /\ InFirst(k) <=> - k <= q
              /\ InSecond(k) <=> - k <= q + 1
  <2>1. PICK a \in Nat : k = - a - 1
    <3>1. - k - 1 \in Nat /\ k = - (- k - 1) - 1
      BY <1>10
    <3> QED
      BY <3>1
  <2>2. /\ Distance(4 * k + 1) = 4 * a + 3 /\ Distance(4 * k + 3) = 4 * a + 1
        /\ Distance(4 * k - 1) = 4 * (a + 1) + 1
        /\ 4 * a + 1 \in Nat /\ 4 * a + 3 \in Nat /\ 4 * (a + 1) + 1 \in Nat
        /\ 4 * a + 1 <= 4 * a + 3 /\ 4 * a + 3 <= 4 * (a + 1) + 1 /\ a + 1 \in Nat
    BY <2>1 DEF Distance, Larger
  <2>3. /\ (4 * a + 1) * e <= N <=> a <= q
        /\ (4 * (a + 1) + 1) * e <= N <=> a + 1 <= q
    BY <1>7, <2>2
  <2>4. (4 * (a + 1) + 1) * e <= N => (4 * a + 3) * e <= N
    BY <1>8, <2>2
  <2>5. (4 * a + 3) * e <= N => (4 * a + 1) * e <= N
    BY <1>8, <2>2
  <2>6. - k = a + 1 /\ (a <= q <=> a + 1 <= q + 1)
    BY <1>2, <2>1
  <2> QED
    BY <2>2, <2>3, <2>4, <2>5, <2>6, Zenon
<1>11. ASSUME NEW k \in Int
       PROVE  /\ k \in (- q)..q <=> k \in -N..N /\ InFirst(k)
              /\ k \in (- q - 1)..q <=> k \in -N..N /\ InSecond(k)
  <2> HIDE DEF InFirst, InSecond
  <2>1. CASE k >= 0
    BY <1>1, <1>2, <1>4, <1>9, <2>1
  <2>2. CASE ~ k >= 0
    BY <1>1, <1>2, <1>4, <1>10, <2>2
  <2> QED
    BY <2>1, <2>2
<1>12. /\ \A k : k \in (- q)..q \/ k \in (- q - 1)..q => k \in Int
       /\ \A k : k \in -N..N => k \in Int
  BY <1>1, <1>2
<1>13. (- q)..q = {k \in -N..N : InFirst(k)}
  <2> HIDE DEF InFirst
  <2>1. \A k : k \in (- q)..q <=> k \in {x \in -N..N : InFirst(x)}
    BY <1>11, <1>12, Zenon
  <2> QED
    BY <2>1, Zenon
<1>14. (- q - 1)..q = {k \in -N..N : InSecond(k)}
  <2> HIDE DEF InSecond
  <2>1. \A k : k \in (- q - 1)..q <=> k \in {x \in -N..N : InSecond(x)}
    BY <1>11, <1>12, Zenon
  <2> QED
    BY <2>1, Zenon
<1>15. start(e)..finish(e) = (- q)..q /\ (start(e) - 1)..finish(e) = (- q - 1)..q
  BY <1>5, <1>6
<1> QED
  BY <1>13, <1>14, <1>15, Zenon

\* For every excursion the truncated divisions give the first sum exactly the
\* terms inside the walk, and the second all of those but its lowest, which a
\* start of its own would have to bring in (cumulative_sums.go:64-76).
THEOREM TermsAreExact == Spec => []TermsAreThoseInside
<1>1. IInv => TermsAreThoseInside
  <2> SUFFICES ASSUME IInv, pc = "done", NEW e \in {z.forward, z.reverse}
               PROVE  /\ e # 0
                      /\ start(e)..finish(e) =
                            {k \in -N..N : /\ Distance(4 * k - 1) * e <= N
                                           /\ Distance(4 * k + 1) * e <= N}
                      /\ (start(e) - 1)..finish(e) =
                            {k \in -N..N : \/ Distance(4 * k + 1) * e <= N
                                           \/ Distance(4 * k + 3) * e <= N}
    BY DEF TermsAreThoseInside
  <2>1. IsLargest(z.forward, ForwardDistances) /\ IsLargest(z.reverse, ReverseDistances)
    BY DEF IInv, CusumInv
  <2>2. Len(S) = N /\ WalkInv /\ z.forward \in 0..N /\ z.reverse \in 0..N
    BY DEF IInv, WalkInv, TypeOK
  <2>3. N \in Nat /\ 1 \in 1..N /\ N \in 1..N /\ N - 1 \in 0..N /\ N - 1 \in 0..(N - 1)
    BY RandomWalkAssumption
  <2>4. Larger(S[1], - S[1]) = 1
    <3>1. S[1] = Height(1 - 1) + StepOf(bits[1]) /\ StepOf(bits[1]) \in {-1, 1} /\ Height(0) = 0
      BY <2>2, <2>3, Heights
    <3> QED
      BY <3>1 DEF Larger
  <2>5. Larger(S[N] - Height(N - 1), Height(N - 1) - S[N]) = 1
    <3>1. /\ S[N] = Height(N - 1) + StepOf(bits[N]) /\ StepOf(bits[N]) \in {-1, 1}
          /\ Height(N - 1) \in Int
      BY <2>2, <2>3, Heights
    <3>2. \/ S[N] - Height(N - 1) = 1 /\ Height(N - 1) - S[N] = -1
          \/ S[N] - Height(N - 1) = -1 /\ Height(N - 1) - S[N] = 1
      BY <3>1
    <3> QED
      BY <3>2 DEF Larger
  <2>6. 1 \in ForwardDistances /\ 1 \in ReverseDistances
    BY <2>3, <2>4, <2>5, Zenon DEF ForwardDistances, ReverseDistances
  <2>7. 1 <= z.forward /\ 1 <= z.reverse
    BY <2>1, <2>6 DEF IsLargest
  <2>8. e \in 1..N /\ e # 0
    BY <2>2, <2>3, <2>7
  <2> QED
    BY <2>8, TermsOf
<1> QED
  BY <1>1, InvHolds, PTL
=============================================================================
