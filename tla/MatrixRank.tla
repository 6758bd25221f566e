------------------------------ MODULE MatrixRank ------------------------------
(***************************************************************************)
(* internal/nist/binary_matrix_rank.go: computeRank, the rank of a square  *)
(* matrix over GF(2) by a forward and a backward elimination in place. One *)
(* action is one turn of an outer loop. Rows and columns count from 1.     *)
(*                                                                         *)
(* The row operations of the forward pass start at the pivot's column, and *)
(* both passes go on when they find no pivot; that the number of rows left *)
(* non-zero is the rank all the same is what is checked.                   *)
(***************************************************************************)
EXTENDS Integers, FiniteSets, FiniteSetsExt

CONSTANT Q    \* the size of the matrix, 32

ASSUME MatrixRankAssumption == Q \in Nat \ {0}

Index == 1..Q
Rows == [Index -> 0..1]

VARIABLES pc,        \* the loop that is running
          i,         \* its row and column
          matrix,    \* the matrix, changed in place
          rank,      \* the result
          original   \* history: the matrix it started with

vars == <<pc, i, matrix, rank, original>>

Init == /\ pc = "forward" /\ i = 1
        /\ matrix \in [Index -> Rows]
        /\ original = matrix
        /\ rank = 0

Xor(u, v) == [k \in Index |-> (u[k] + v[k]) % 2]

\* (Mutant: the operation starts right of the pivot's column.)
RowOpAfter(m, j, p, first) ==
    [k \in Index |-> IF k <= first THEN m[j][k] ELSE (m[j][k] + m[p][k]) % 2]

\* (Mutant: += for ^=.)
RowSum(m, j, p, first) ==
    [k \in Index |-> IF k < first THEN m[j][k] ELSE m[j][k] + m[p][k]]

\* matrix[j][k] ^= matrix[p][k] for the columns k from first on.
RowOp(m, j, p, first) ==
    [k \in Index |-> IF k < first THEN m[j][k] ELSE (m[j][k] + m[p][k]) % 2]

\* performRowOps: column p of the rows below, or above, is cleared.
performRowOps(m, p, forward) ==
    [j \in Index |->
        IF (IF forward THEN j > p ELSE j < p) /\ m[j][p] = 1
        THEN RowOp(m, j, p, IF forward THEN p ELSE 1)
        ELSE m[j]]

Swapped(m, r, s) == [m EXCEPT ![r] = m[s], ![s] = m[r]]

\* findUnitAndSwap: the nearest row below, or above, with a unit in column p.
Units(m, p, forward) ==
    {r \in Index : (IF forward THEN r > p ELSE r < p) /\ m[r][p] = 1}

Pivoted(m, p, forward) ==
    LET units == Units(m, p, forward)
    IN IF m[p][p] = 1 \/ units = {} THEN m
       ELSE Swapped(m, p, IF forward THEN Min(units) ELSE Max(units))

\* One turn of either loop; without a pivot the matrix stays as it is.
Eliminated(p, forward) ==
    LET m == Pivoted(matrix, p, forward)
    IN IF m[p][p] = 1 THEN performRowOps(m, p, forward) ELSE matrix

Forward == /\ pc = "forward" /\ i < Q
           /\ matrix' = Eliminated(i, TRUE)
           /\ i' = i + 1
           /\ UNCHANGED <<pc, rank, original>>

\* (Mutant: the backward pass is left out.)
CountAtOnce == "count"

AfterForward == "backward"

EndForward == /\ pc = "forward" /\ i >= Q
              /\ pc' = AfterForward /\ i' = Q
              /\ UNCHANGED <<matrix, rank, original>>

Backward == /\ pc = "backward" /\ i > 1
            /\ matrix' = Eliminated(i, FALSE)
            /\ i' = i - 1
            /\ UNCHANGED <<pc, rank, original>>

EndBackward == /\ pc = "backward" /\ i <= 1
               /\ pc' = "count"
               /\ UNCHANGED <<i, matrix, rank, original>>

NonZero(m, r) == \E k \in Index : m[r][k] = 1

CountRank == /\ pc = "count"
             /\ rank' = Cardinality({r \in Index : NonZero(matrix, r)})
             /\ pc' = "done"
             /\ UNCHANGED <<i, matrix, original>>

Done == pc = "done" /\ UNCHANGED vars

Next == Forward \/ EndForward \/ Backward \/ EndBackward \/ CountRank \/ Done

Spec == Init /\ [][Next]_vars

-----------------------------------------------------------------------------
\* Every variable keeps its type; i stays a row of the matrix.
TypeOK == /\ pc \in {"forward", "backward", "count", "done"}
          /\ i \in Index
          /\ matrix \in [Index -> Rows] /\ original \in [Index -> Rows]
          /\ rank \in 0..Q

\* The vectors that the rows of m generate.
Span(m) ==
    LET generated[r \in 0..Q] ==
            IF r = 0 THEN {[k \in Index |-> 0]}
            ELSE generated[r - 1] \cup {Xor(v, m[r]) : v \in generated[r - 1]}
    IN generated[Q]

\* In the forward pass the columns before i are clear below the diagonal, with
\* or without a pivot: that is why its row operations may leave them out. The
\* backward pass, whose swaps can bring a unit back, leaves out no column
\* (binary_matrix_rank.go:76-82, 115-122).
ClearBelow ==
    pc = "forward" => \A k \in 1..(i - 1) : \A r \in (k + 1)..Q : matrix[r][k] = 0

\* The number returned is the dimension of the row space of the matrix given,
\* for singular matrices too, although the forward operations leave out the
\* columns before the pivot and columns may have no pivot at all: the space of
\* the rows is kept (binary_matrix_rank.go:92-106, 112-132). On it the test's
\* classes 32, 31 and less depend.
RankIsDimension ==
    pc = "done" => /\ Span(matrix) = Span(original)
                   /\ Cardinality(Span(original)) = 2 ^ rank
=============================================================================
