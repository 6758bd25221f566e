--------------------------- MODULE BerlekampMassey ---------------------------
(***************************************************************************)
(* The block loop of LinearComplexityTest                                  *)
(* (internal/nist/linear_complexity.go): the Berlekamp-Massey iteration    *)
(* over GF(2), the classification of each block by its linear complexity   *)
(* and the index expression that can leave the array it writes to.         *)
(*                                                                         *)
(* A slice of bits is the set of the positions that hold a 1, so C, B and  *)
(* the block are subsets of 0..M-1 and XOR is the symmetric difference.    *)
(* The scratch slices T and P are local to one iteration: T is the value   *)
(* of C before the update, P is Shifted and is all zero again after it.    *)
(***************************************************************************)
EXTENDS Integers, FiniteSets

CONSTANTS M,          \* the block length (500 in run_all.go)
          NumBlocks   \* N in the code: the number of whole blocks, n / M

ASSUME BMAssumption == M \in Nat \ {0} /\ NumBlocks \in Nat \ {0}

VARIABLES pc,     \* "scan", "done" or "panic" (index out of range)
          ones,   \* the current block: the positions whose bit is 1
          N_, C, B, L, m,   \* the variables of the loop, with its names
          nu,     \* the seven counters of the chi-squared statistic
          done    \* ii: the blocks already classified

vars == <<pc, ones, N_, C, B, L, m, nu, done>>

Index == 0..(M - 1)

\* The block holds whatever bits the input has there; the loop's variables
\* are declared, and so start afresh, inside the body of the outer loop.
Init == /\ pc = "scan" /\ nu = [k \in 0..6 |-> 0] /\ done = 0
        /\ ones \in SUBSET Index
        /\ N_ = 0 /\ C = {0} /\ B = {0} /\ L = 0 /\ m = -1

\* d: the bit the current register fails to predict.
Discrepancy ==
    ((IF N_ \in ones THEN 1 ELSE 0)
        + Cardinality({i \in 1..L : i \in C /\ N_ - i \in ones})) % 2

\* (Mutant: the shift is one position too long.)
ShiftedTooFar == {j + N_ - m + 1 : j \in B}

\* P: the previous polynomial, moved by the distance to its last change.
Shifted == {j + N_ - m : j \in B}

\* (Mutant: C[i] |= P[i].)
OrInsteadOfXor(a, b) == a \cup b

Xor(a, b) == (a \ b) \cup (b \ a)

Scanning == pc = "scan" /\ N_ < M

Predicted == /\ Scanning /\ Discrepancy = 0
             /\ N_' = N_ + 1
             /\ UNCHANGED <<pc, ones, C, B, L, m, nu, done>>

\* (Mutant: L < N_/2.)
GrowsTooLate(len, n) == len < n \div 2

\* The connection polynomial is corrected and, when the register has become
\* too short to have produced the prefix, it grows.
GrowsAt(len, n) == len <= n \div 2

Corrected == /\ Scanning /\ Discrepancy = 1 /\ Shifted \subseteq Index
             /\ C' = Xor(C, Shifted)
             /\ IF GrowsAt(L, N_)
                THEN L' = N_ + 1 - L /\ m' = N_ /\ B' = C
                ELSE UNCHANGED <<L, m, B>>
             /\ N_' = N_ + 1
             /\ UNCHANGED <<pc, ones, nu, done>>

\* P[j+N_-m] = 1 with an index past the end of P: a run-time panic.
OutOfRange == /\ Scanning /\ Discrepancy = 1 /\ ~ (Shifted \subseteq Index)
              /\ pc' = "panic"
              /\ UNCHANGED <<ones, N_, C, B, L, m, nu, done>>

\* (Mutant: the two parity signs are swapped.)
TvalSignsSwapped(len) ==
    LET meanSign == IF M % 2 = 0 THEN -1 ELSE 1
        tSign    == IF (M + 1) % 2 = 0 THEN 1 ELSE -1
        unit     == 2 ^ M
        mean     == 18 * M * unit + (9 + meanSign) * unit - (12 * M + 8)
    IN tSign * (36 * len * unit - mean) + 8 * unit

\* Tval, scaled by 36 * 2^M: the statistic is an exact integer multiple.
Tval(len) ==
    LET meanSign == IF (M + 1) % 2 = 0 THEN -1 ELSE 1
        tSign    == IF M % 2 = 0 THEN 1 ELSE -1
        unit     == 2 ^ M
        mean     == 18 * M * unit + (9 + meanSign) * unit - (12 * M + 8)
    IN tSign * (36 * len * unit - mean) + 8 * unit

\* The seven cases of the switch, with bounds -2.5, -1.5, ... 2.5.
Bucket(len) == Cardinality({k \in 0..5 : Tval(len) > (36 * k - 90) * 2 ^ M})

\* (Mutant: the loop runs to ii <= N.)
MoreBlocksInclusive(d) == d <= NumBlocks

MoreBlocks(d) == d < NumBlocks

NextBlock ==
    /\ pc = "scan" /\ N_ = M
    /\ nu' = [nu EXCEPT ![Bucket(L)] = @ + 1]
    /\ done' = done + 1
    /\ IF MoreBlocks(done + 1)
       THEN /\ pc' = pc
            /\ ones' \in SUBSET Index
            /\ N_' = 0 /\ C' = {0} /\ B' = {0} /\ L' = 0 /\ m' = -1
       ELSE pc' = "done" /\ UNCHANGED <<ones, N_, C, B, L, m>>

\* The function has returned, or its goroutine has panicked.
Ended == pc \in {"done", "panic"} /\ UNCHANGED vars

Next == Predicted \/ Corrected \/ OutOfRange \/ NextBlock \/ Ended

Spec == Init /\ [][Next]_vars

-----------------------------------------------------------------------------
\* Every variable keeps its type; in particular C and B stay inside their
\* slices and the register length inside 0..M.
TypeOK == /\ pc \in {"scan", "done", "panic"}
          /\ ones \subseteq Index /\ C \subseteq Index /\ B \subseteq Index
          /\ N_ \in 0..M /\ L \in 0..M /\ m \in -1..(M - 1)
          /\ nu \in [0..6 -> Nat] /\ done \in 0..NumBlocks

\* The write P[j+N_-m] (linear_complexity.go:49) leaves its slice for the
\* block 0...01 and for no other one, and that block never gets past it.
PanicExactlyOnLateOne == /\ pc = "panic" => ones = {M - 1}
                         /\ N_ = M => ones # {M - 1}

\* The register that C and L describe produces every bit scanned so far: what
\* each later discrepancy is computed from.
Generates(c, len, k) ==
    ((IF k \in ones THEN 1 ELSE 0)
        + Cardinality({i \in 1..len : i \in c /\ k - i \in ones})) % 2 = 0

RegisterGeneratesPrefix == \A k \in L..(N_ - 1) : Generates(C, L, k)

\* No shorter register produces the scanned prefix: L is its linear
\* complexity, which is what the statistic is defined on.
RegisterIsShortest ==
    \A len \in 0..(L - 1) : \A c \in SUBSET (1..len) :
        \E k \in len..(N_ - 1) : ~ Generates(c, len, k)

\* A classified block lands in the class given by its distance from ceil(M/2),
\* clamped to three on either side and mirrored for odd M: the exact
\* thresholds of the switch agree with that reading for every L and parity.
Clamped(x) == IF x < 0 THEN 0 ELSE IF x > 6 THEN 6 ELSE x
Distance(len) == IF M % 2 = 0 THEN len - M \div 2 ELSE (M + 1) \div 2 - len
ClassifiedByDistance ==
    [][done' = done + 1 =>
          nu' = [nu EXCEPT ![Clamped(Distance(L) + 3)] = @ + 1]]_vars

\* linear_complexity.go:9-10: the test "returns the p-value and whether it
\* passes at Alpha" - so it never ends in a panic.
AlwaysReturns == pc # "panic"
=============================================================================
