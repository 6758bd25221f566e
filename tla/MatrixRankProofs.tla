--------------------------- MODULE MatrixRankProofs ---------------------------
(***************************************************************************)
(* computeRank returns the dimension of the row space, for every size of   *)
(* the matrix and every matrix of that size.                               *)
(*                                                                         *)
(* The argument has three parts. A set of vectors is closed when adding a  *)
(* row never leaves it; both passes keep the closed sets as they are, and  *)
(* the row space is the least of them that holds the zero vector. What is  *)
(* clear of units grows by a column with each turn of either pass, so that *)
(* at the end every row is zero or has its last unit on the diagonal. Each *)
(* such row doubles the space of the rows before it.                       *)
(***************************************************************************)
EXTENDS MatrixRank, Induction

Matrices == [Index -> Rows]

Zero == [k \in Index |-> 0]

Closed(X, m) == \A r \in Index : \A u \in X : Xor(u, m[r]) \in X

SameSpace(m1, m2) == \A X \in SUBSET Rows : Closed(X, m1) <=> Closed(X, m2)

\* Columns 1 to c are clear below the diagonal.
ClearBelowTo(m, c) == \A k \in 1..c : \A r \in (k + 1)..Q : m[r][k] = 0

\* Rows 1 to c are clear left of the diagonal.
ClearLeft(m, c) == \A r \in 1..c : \A k \in 1..(r - 1) : m[r][k] = 0

\* Columns from c on are clear above the diagonal.
ClearAbove(m, c) == \A k \in c..Q : \A r \in 1..(k - 1) : m[r][k] = 0

ZeroRow(m, r) == \A k \in Index : m[r][k] = 0

\* Rows from c on are zero or have a unit on the diagonal.
UnitOrZero(m, c) == \A r \in c..Q : m[r][r] = 1 \/ ZeroRow(m, r)

IInv == /\ TypeOK
        /\ SameSpace(matrix, original)
        /\ pc = "forward" => ClearBelowTo(matrix, i - 1)
        /\ pc = "backward" => /\ ClearLeft(matrix, i)
                              /\ ClearAbove(matrix, i + 1)
                              /\ UnitOrZero(matrix, i + 1)
        /\ pc \in {"count", "done"} => ClearAbove(matrix, 1) /\ UnitOrZero(matrix, 1)
        /\ pc = "done" => rank = Cardinality({r \in Index : NonZero(matrix, r)})
-----------------------------------------------------------------------------
(* The arithmetic of vectors over GF(2). *)

\* Adding two rows gives a row.
LEMMA XorType ==
  ASSUME NEW u \in Rows, NEW v \in Rows
  PROVE  Xor(u, v) \in Rows
BY DEF Xor, Rows

\* What is added twice is gone.
LEMMA XorCancels ==
  ASSUME NEW u \in Rows, NEW v \in Rows
  PROVE  Xor(Xor(u, v), v) = u
<1>1. \A k \in Index : Xor(u, v)[k] = (u[k] + v[k]) % 2
  BY DEF Xor
<1>2. \A k \in Index : u[k] \in 0..1 /\ v[k] \in 0..1
  BY DEF Rows
<1>3. \A k \in Index : (((u[k] + v[k]) % 2) + v[k]) % 2 = u[k]
  BY <1>2
<1>4. Xor(Xor(u, v), v) = [k \in Index |-> u[k]]
  BY <1>1, <1>3 DEF Xor
<1> QED
  BY <1>4 DEF Rows

\* The order of two additions does not matter.
LEMMA XorCommutes ==
  ASSUME NEW u \in Rows, NEW v \in Rows, NEW w \in Rows
  PROVE  Xor(Xor(u, v), w) = Xor(Xor(u, w), v)
<1>1. \A k \in Index : /\ Xor(u, v)[k] = (u[k] + v[k]) % 2
                       /\ Xor(u, w)[k] = (u[k] + w[k]) % 2
  BY DEF Xor
<1>2. \A k \in Index : u[k] \in 0..1 /\ v[k] \in 0..1 /\ w[k] \in 0..1
  BY DEF Rows
<1>3. \A k \in Index : (((u[k] + v[k]) % 2) + w[k]) % 2 = (((u[k] + w[k]) % 2) + v[k]) % 2
  BY <1>2
<1> QED
  BY <1>1, <1>3 DEF Xor

\* Adding a sum is adding its two terms.
LEMMA XorAssociates ==
  ASSUME NEW u \in Rows, NEW v \in Rows, NEW w \in Rows
  PROVE  Xor(u, Xor(v, w)) = Xor(Xor(u, v), w)
<1>1. \A k \in Index : /\ Xor(u, v)[k] = (u[k] + v[k]) % 2
                       /\ Xor(v, w)[k] = (v[k] + w[k]) % 2
  BY DEF Xor
<1>2. \A k \in Index : u[k] \in 0..1 /\ v[k] \in 0..1 /\ w[k] \in 0..1
  BY DEF Rows
<1>3. \A k \in Index : (u[k] + ((v[k] + w[k]) % 2)) % 2 = (((u[k] + v[k]) % 2) + w[k]) % 2
  BY <1>2
<1>4. Xor(u, Xor(v, w)) = [k \in Index |-> (u[k] + ((v[k] + w[k]) % 2)) % 2]
  <2> DEFINE x == Xor(v, w)
  <2>1. Xor(u, x) = [k \in Index |-> (u[k] + x[k]) % 2]
    BY DEF Xor
  <2> HIDE DEF x
  <2>2. [k \in Index |-> (u[k] + x[k]) % 2] =
           [k \in Index |-> (u[k] + ((v[k] + w[k]) % 2)) % 2]
    BY <1>1 DEF x
  <2> QED
    BY <2>1, <2>2 DEF x
<1>5. Xor(Xor(u, v), w) = [k \in Index |-> (((u[k] + v[k]) % 2) + w[k]) % 2]
  BY <1>1 DEF Xor
<1> QED
  BY <1>3, <1>4, <1>5, Zenon

-----------------------------------------------------------------------------
(* What one turn of a pass does to the matrix. *)

\* Swapping two rows.
LEMMA SwappedRows ==
  ASSUME NEW m \in Matrices, NEW r \in Index, NEW s \in Index
  PROVE  /\ Swapped(m, r, s) \in Matrices
         /\ \A t \in Index : Swapped(m, r, s)[t] =
               IF t = s THEN m[r] ELSE IF t = r THEN m[s] ELSE m[t]
BY DEF Swapped, Matrices

\* findUnitAndSwap takes the nearest row with a unit in the column.
LEMMA NearestUnit ==
  ASSUME NEW m \in Matrices, NEW p \in Index, NEW forward \in BOOLEAN,
         m[p][p] = 0, Units(m, p, forward) # {}
  PROVE  \E s \in Units(m, p, forward) :
            /\ Pivoted(m, p, forward) = Swapped(m, p, s)
            /\ \A r \in Units(m, p, forward) : IF forward THEN s <= r ELSE r <= s
<1> DEFINE units == Units(m, p, forward)
<1>1. units \in SUBSET (0..Q) /\ units \in SUBSET Nat
  BY MatrixRankAssumption DEF Units, Index
<1>2. CASE forward
  <2>1. \E x \in units : \A y \in units : x <= y
    BY <1>1, LeastOf
  <2>2. Min(units) \in units /\ \A y \in units : Min(units) <= y
    BY <2>1 DEF Min
  <2>3. Pivoted(m, p, forward) = Swapped(m, p, Min(units))
    BY <1>2, m[p][p] # 1, Zenon DEF Pivoted
  <2> QED
    BY <1>2, <2>2, <2>3, Zenon
<1>3. CASE ~ forward
  <2>1. \E x \in units : \A y \in units : y <= x
    BY <1>1, GreatestOf, MatrixRankAssumption
  <2>2. Max(units) \in units /\ \A y \in units : Max(units) >= y
    BY <2>1 DEF Max
  <2>3. Pivoted(m, p, forward) = Swapped(m, p, Max(units))
    BY <1>3, m[p][p] # 1, Zenon DEF Pivoted
  <2>4. \A y \in units : y <= Max(units)
    BY <1>1, <2>2
  <2> QED
    BY <1>3, <2>2, <2>3, <2>4, Zenon
<1> QED
  BY <1>2, <1>3

\* Row s takes part in the turn at p: it is the pivot's row already, or the
\* nearest one that has a unit where row p has none.
Chosen(m, p, forward, s) ==
    /\ m[s][p] = 1
    /\ \/ s = p
       \/ /\ s \in Units(m, p, forward) /\ m[p][p] = 0
          /\ \A r \in Units(m, p, forward) : IF forward THEN s <= r ELSE r <= s

\* A turn finds no unit and leaves the matrix as it is, or it brings a chosen
\* row to the diagonal and clears the column with it.
LEMMA OneTurn ==
  ASSUME NEW p \in Index, NEW forward \in BOOLEAN, matrix \in Matrices
  PROVE  \/ /\ Eliminated(p, forward) = matrix
            /\ matrix[p][p] = 0 /\ Units(matrix, p, forward) = {}
         \/ \E s \in Index :
               /\ Chosen(matrix, p, forward, s)
               /\ Eliminated(p, forward) =
                     performRowOps(Swapped(matrix, p, s), p, forward)
<1>1. matrix[p][p] \in 0..1
  BY DEF Matrices, Rows
<1>2. CASE matrix[p][p] = 1
  <2>1. Swapped(matrix, p, p) = matrix
    BY DEF Swapped, Matrices
  <2>2. Eliminated(p, forward) = performRowOps(matrix, p, forward)
    BY <1>2 DEF Eliminated, Pivoted
  <2> QED
    BY <1>2, <2>1, <2>2, Zenon DEF Chosen
<1>3. CASE matrix[p][p] = 0 /\ Units(matrix, p, forward) = {}
  BY <1>3 DEF Eliminated, Pivoted
<1>4. CASE matrix[p][p] = 0 /\ Units(matrix, p, forward) # {}
  <2>1. PICK s \in Units(matrix, p, forward) :
           /\ Pivoted(matrix, p, forward) = Swapped(matrix, p, s)
           /\ \A r \in Units(matrix, p, forward) : IF forward THEN s <= r ELSE r <= s
    BY <1>4, NearestUnit
  <2>2. s \in Index /\ matrix[s][p] = 1
    BY DEF Units
  <2>3. Swapped(matrix, p, s)[p] = matrix[s]
    BY <2>2, SwappedRows
  <2>4. Eliminated(p, forward) = performRowOps(Swapped(matrix, p, s), p, forward)
    BY <2>1, <2>2, <2>3, Zenon DEF Eliminated
  <2> QED
    BY <1>4, <2>1, <2>2, <2>4, Zenon DEF Chosen
<1> QED
  BY <1>1, <1>2, <1>3, <1>4

\* Where the pivot's row is clear left of the column, the row operations add it
\* as a whole, those that start at the column too.
LEMMA RowsAdded ==
  ASSUME NEW m \in Matrices, NEW p \in Index, NEW forward \in BOOLEAN,
         forward => \A k \in 1..(p - 1) : m[p][k] = 0
  PROVE  /\ performRowOps(m, p, forward) \in Matrices
         /\ \A t \in Index : performRowOps(m, p, forward)[t] =
               IF (IF forward THEN t > p ELSE t < p) /\ m[t][p] = 1
               THEN Xor(m[t], m[p]) ELSE m[t]
<1>1. ASSUME NEW t \in Index
      PROVE  RowOp(m, t, p, IF forward THEN p ELSE 1) = Xor(m[t], m[p])
  <2>1. ASSUME NEW k \in Index, k < (IF forward THEN p ELSE 1)
        PROVE  m[t][k] = (m[t][k] + m[p][k]) % 2
    <3>1. forward /\ k \in 1..(p - 1)
      BY <2>1, MatrixRankAssumption DEF Index
    <3>2. m[t][k] \in 0..1
      BY DEF Matrices, Rows
    <3> QED
      BY <3>1, <3>2
  <2> QED
    BY <2>1, Zenon DEF RowOp, Xor
<1>2. \A t \in Index : m[t] \in Rows /\ Xor(m[t], m[p]) \in Rows
  BY XorType DEF Matrices
<1>3. performRowOps(m, p, forward) =
         [t \in Index |-> IF (IF forward THEN t > p ELSE t < p) /\ m[t][p] = 1
                          THEN Xor(m[t], m[p]) ELSE m[t]]
  BY <1>1, Zenon DEF performRowOps
<1> QED
  BY <1>2, <1>3 DEF Matrices
-----------------------------------------------------------------------------
(* The space of the rows is kept. *)

\* A swap changes the order of the rows only.
LEMMA SpaceOfSwapped ==
  ASSUME NEW m \in Matrices, NEW r \in Index, NEW s \in Index
  PROVE  SameSpace(Swapped(m, r, s), m)
<1> DEFINE n == Swapped(m, r, s)
<1>1. \A t \in Index : n[t] = IF t = s THEN m[r] ELSE IF t = r THEN m[s] ELSE m[t]
  BY SwappedRows
<1> HIDE DEF n
<1> SUFFICES ASSUME NEW X \in SUBSET Rows PROVE Closed(X, n) <=> Closed(X, m)
  BY DEF SameSpace, n
<1>2. \A t \in Index : \E q \in Index : n[t] = m[q]
  BY <1>1
<1>3. \A t \in Index : \E q \in Index : m[t] = n[q]
  BY <1>1
<1> QED
  BY <1>2, <1>3, Zenon DEF Closed

\* The row operations add one row to others; adding it again undoes them.
LEMMA SpaceOfRowOps ==
  ASSUME NEW m \in Matrices, NEW n \in Matrices, NEW p \in Index,
         n[p] = m[p],
         \A t \in Index : n[t] = m[t] \/ n[t] = Xor(m[t], m[p])
  PROVE  SameSpace(n, m)
<1> SUFFICES ASSUME NEW X \in SUBSET Rows PROVE Closed(X, n) <=> Closed(X, m)
  BY DEF SameSpace
<1>1. \A t \in Index : m[t] \in Rows /\ n[t] \in Rows
  BY DEF Matrices
<1>2. ASSUME Closed(X, m), NEW t \in Index, NEW u \in X PROVE Xor(u, n[t]) \in X
  <2>1. CASE n[t] = m[t]
    BY <1>2, <2>1 DEF Closed
  <2>2. CASE n[t] = Xor(m[t], m[p])
    <3>1. Xor(u, n[t]) = Xor(Xor(u, m[t]), m[p])
      BY <1>1, <2>2, XorAssociates
    <3>2. Xor(Xor(u, m[t]), m[p]) \in X
      BY <1>2, Zenon DEF Closed
    <3> QED
      BY <3>1, <3>2
  <2> QED
    BY <2>1, <2>2
<1>3. ASSUME Closed(X, n), NEW t \in Index, NEW u \in X PROVE Xor(u, m[t]) \in X
  <2>1. CASE n[t] = m[t]
    BY <1>3, <2>1, Zenon DEF Closed
  <2>2. CASE n[t] = Xor(m[t], m[p])
    <3>1. Xor(n[t], m[p]) = m[t]
      BY <1>1, <2>2, XorCancels
    <3>2. Xor(u, m[t]) = Xor(Xor(u, n[t]), n[p])
      BY <1>1, <3>1, XorAssociates
    <3>3. Xor(Xor(u, n[t]), n[p]) \in X
      BY <1>3, Zenon DEF Closed
    <3> QED
      BY <3>2, <3>3
  <2> QED
    BY <2>1, <2>2
<1> QED
  BY <1>2, <1>3, Zenon DEF Closed

\* A turn of either pass keeps the space, the one whose operations leave out
\* the columns before the pivot because those are clear.
LEMMA SpaceOfTurn ==
  ASSUME NEW p \in Index, NEW forward \in BOOLEAN, matrix \in Matrices,
         forward => ClearBelowTo(matrix, p - 1)
  PROVE  /\ Eliminated(p, forward) \in Matrices
         /\ SameSpace(Eliminated(p, forward), matrix)
<1>1. CASE Eliminated(p, forward) = matrix
  BY <1>1, Zenon DEF SameSpace
<1>2. ASSUME NEW s \in Index, Chosen(matrix, p, forward, s),
             Eliminated(p, forward) =
                performRowOps(Swapped(matrix, p, s), p, forward)
      PROVE  /\ Eliminated(p, forward) \in Matrices
             /\ SameSpace(Eliminated(p, forward), matrix)
  <2> DEFINE m == Swapped(matrix, p, s)
             n == performRowOps(m, p, forward)
  <2>1. m \in Matrices /\ m[p] = matrix[s] /\ SameSpace(m, matrix)
    BY SwappedRows, SpaceOfSwapped
  <2>2. forward => \A k \in 1..(p - 1) : m[p][k] = 0
    <3>1. forward => s >= p
      BY <1>2 DEF Chosen, Units, Index
    <3> QED
      BY <2>1, <3>1, MatrixRankAssumption DEF ClearBelowTo, Index
  <2> HIDE DEF m
  <2>3. /\ n \in Matrices
        /\ \A t \in Index : n[t] = IF (IF forward THEN t > p ELSE t < p) /\ m[t][p] = 1
                                   THEN Xor(m[t], m[p]) ELSE m[t]
    BY <2>1, <2>2, RowsAdded, Zenon
  <2> HIDE DEF n
  <2>4. n[p] = m[p]
    BY <2>3 DEF Index
  <2>5. \A t \in Index : n[t] = m[t] \/ n[t] = Xor(m[t], m[p])
    BY <2>3, Zenon
  <2>6. SameSpace(n, m)
    BY <2>1, <2>3, <2>4, <2>5, SpaceOfRowOps
  <2>7. SameSpace(n, matrix)
    BY <2>1, <2>6, Zenon DEF SameSpace
  <2>8. Eliminated(p, forward) = n
    BY <1>2 DEF m, n
  <2> QED
    BY <2>3, <2>7, <2>8
<1> QED
  BY <1>1, <1>2, OneTurn, Zenon

-----------------------------------------------------------------------------
(* What is clear grows by a column with every turn. *)

\* The forward pass clears its column below the diagonal, with a pivot or
\* without one.
LEMMA ForwardClears ==
  ASSUME NEW p \in Index, matrix \in Matrices, ClearBelowTo(matrix, p - 1)
  PROVE  ClearBelowTo(Eliminated(p, TRUE), p)
<1> DEFINE e == Eliminated(p, TRUE)
<1>1. CASE e = matrix /\ matrix[p][p] = 0 /\ Units(matrix, p, TRUE) = {}
  <2>1. \A r \in (p + 1)..Q : matrix[r][p] = 0
    <3> SUFFICES ASSUME NEW r \in (p + 1)..Q PROVE matrix[r][p] = 0
      OBVIOUS
    <3>1. r \in Index /\ r > p
      BY MatrixRankAssumption DEF Index
    <3>2. matrix[r][p] \in 0..1
      BY <3>1 DEF Matrices, Rows
    <3>3. r \notin Units(matrix, p, TRUE)
      BY <1>1
    <3> QED
      BY <3>1, <3>2, <3>3 DEF Units
  <2>2. ClearBelowTo(matrix, p)
    BY <2>1, MatrixRankAssumption DEF ClearBelowTo, Index
  <2> QED
    BY <1>1, <2>2
<1>2. ASSUME NEW s \in Index, Chosen(matrix, p, TRUE, s),
             e = performRowOps(Swapped(matrix, p, s), p, TRUE)
      PROVE  ClearBelowTo(e, p)
  <2> DEFINE m == Swapped(matrix, p, s)
  <2>1. /\ m \in Matrices
        /\ \A t \in Index : m[t] = IF t = s THEN matrix[p]
                                   ELSE IF t = p THEN matrix[s] ELSE matrix[t]
    BY SwappedRows
  <2>2. s >= p /\ s <= Q /\ m[p][p] = 1
    BY <1>2, <2>1 DEF Chosen, Units, Index
  <2> HIDE DEF m
  <2>3. \A k \in 1..(p - 1) : \A r \in (k + 1)..Q : m[r][k] = 0
    BY <2>1, <2>2, MatrixRankAssumption DEF ClearBelowTo, Index
  <2>4. TRUE => \A k \in 1..(p - 1) : m[p][k] = 0
    BY <2>3, MatrixRankAssumption DEF Index
  <2>5. \A t \in Index : e[t] = IF t > p /\ m[t][p] = 1 THEN Xor(m[t], m[p]) ELSE m[t]
    <3>1. \A t \in Index : performRowOps(m, p, TRUE)[t] =
             IF (IF TRUE THEN t > p ELSE t < p) /\ m[t][p] = 1
             THEN Xor(m[t], m[p]) ELSE m[t]
      BY <2>1, <2>4, RowsAdded, Zenon
    <3> QED
      BY <1>2, <3>1 DEF m
  <2> HIDE DEF e
  <2> SUFFICES ASSUME NEW k \in 1..p, NEW r \in (k + 1)..Q PROVE e[r][k] = 0
    BY DEF ClearBelowTo
  <2>6. r \in Index /\ k \in Index /\ k \in Nat /\ p \in Nat
    BY MatrixRankAssumption DEF Index
  <2>7. m[r][k] \in 0..1 /\ Xor(m[r], m[p])[k] = (m[r][k] + m[p][k]) % 2
    BY <2>1, <2>6 DEF Matrices, Rows, Xor
  <2>8. CASE k < p
    <3>1. m[r][k] = 0 /\ m[p][k] = 0
      BY <2>3, <2>4, <2>6, <2>8
    <3> QED
      BY <2>5, <2>6, <2>7, <3>1
  <2>9. CASE k = p
    BY <2>2, <2>5, <2>6, <2>7, <2>9
  <2> QED
    BY <2>6, <2>8, <2>9
<1> QED
  BY <1>1, <1>2, OneTurn, Zenon

\* The row a backward turn passes without a pivot is zero.
LEMMA PassedRow ==
  ASSUME NEW p \in Index, matrix \in Matrices, matrix[p][p] = 0,
         ClearLeft(matrix, p), ClearAbove(matrix, p + 1)
  PROVE  ZeroRow(matrix, p)
<1> SUFFICES ASSUME NEW k \in Index PROVE matrix[p][k] = 0
  BY DEF ZeroRow
<1>1. CASE k < p
  BY <1>1, MatrixRankAssumption DEF ClearLeft, Index
<1>2. CASE k > p
  BY <1>2, MatrixRankAssumption DEF ClearAbove, Index
<1> QED
  BY <1>1, <1>2, MatrixRankAssumption DEF Index

\* The backward pass: what its turn at p needs of the matrix, and leaves for the
\* turn at p - 1. A swap upwards brings a row that reaches left of p; only rows
\* above where it came from are still added to.
Reduced(m, p) == ClearLeft(m, p) /\ ClearAbove(m, p + 1) /\ UnitOrZero(m, p + 1)
\* A turn without a unit.
LEMMA ReducedWithoutUnit ==
  ASSUME NEW p \in Index, p > 1, matrix \in Matrices, Reduced(matrix, p),
         matrix[p][p] = 0, Units(matrix, p, FALSE) = {}
  PROVE  Reduced(matrix, p - 1)
<1>1. p \in Nat /\ p <= Q /\ Q \in Nat
  BY MatrixRankAssumption DEF Index
<1>2. ZeroRow(matrix, p)
  BY PassedRow DEF Reduced
<1>3. \A r \in 1..(p - 1) : matrix[r][p] = 0
  <2> SUFFICES ASSUME NEW r \in 1..(p - 1) PROVE matrix[r][p] = 0
    OBVIOUS
  <2>1. r \in Index /\ r < p
    BY <1>1 DEF Index
  <2>2. matrix[r][p] \in 0..1
    BY <2>1 DEF Matrices, Rows
  <2> QED
    BY <2>1, <2>2 DEF Units
<1>4. ClearLeft(matrix, p - 1)
  BY <1>1 DEF Reduced, ClearLeft
<1>5. ClearAbove(matrix, (p - 1) + 1)
  BY <1>1, <1>3 DEF Reduced, ClearAbove
<1>6. UnitOrZero(matrix, (p - 1) + 1)
  BY <1>1, <1>2 DEF Reduced, UnitOrZero
<1> QED
  BY <1>4, <1>5, <1>6 DEF Reduced

\* A turn with one.
LEMMA ReducedWithUnit ==
  ASSUME NEW p \in Index, p > 1, matrix \in Matrices, Reduced(matrix, p),
         NEW s \in Index, Chosen(matrix, p, FALSE, s)
  PROVE  Reduced(performRowOps(Swapped(matrix, p, s), p, FALSE), p - 1)
<1> DEFINE m == Swapped(matrix, p, s)
           e == performRowOps(m, p, FALSE)
<1>1. p \in Nat /\ p <= Q /\ Q \in Nat /\ s \in 1..p
  BY MatrixRankAssumption DEF Index, Chosen, Units
<1>2. \A k \in Index : k \in 1..Q
  BY DEF Index
<1>3. /\ m \in Matrices
      /\ \A t \in Index : m[t] = IF t = s THEN matrix[p]
                                 ELSE IF t = p THEN matrix[s] ELSE matrix[t]
  BY SwappedRows
<1>4. \A t \in Index : e[t] = IF t < p /\ m[t][p] = 1 THEN Xor(m[t], m[p]) ELSE m[t]
  <2>1. \A t \in Index : performRowOps(m, p, FALSE)[t] =
           IF (IF FALSE THEN t > p ELSE t < p) /\ m[t][p] = 1
           THEN Xor(m[t], m[p]) ELSE m[t]
    BY <1>3, RowsAdded, Zenon
  <2> QED
    BY <2>1
<1>5. \A t \in Index : \A k \in Index :
         m[t][k] \in 0..1 /\ Xor(m[t], m[p])[k] = (m[t][k] + m[p][k]) % 2
  BY <1>3 DEF Matrices, Rows, Xor
<1>chosen. \/ s = p
       \/ /\ matrix[p][p] = 0
          /\ \A r \in Units(matrix, p, FALSE) : r <= s
  BY Zenon DEF Chosen
<1>6. s < p => \A k \in Index : m[s][k] = 0
  <2> SUFFICES ASSUME s < p PROVE \A k \in Index : m[s][k] = 0
    OBVIOUS
  <2>0. s # p
    BY <1>1
  <2>1. matrix[p][p] = 0
    BY <2>0, <1>chosen, Zenon
  <2>2. ZeroRow(matrix, p)
    BY <2>1, PassedRow DEF Reduced
  <2> HIDE DEF m
  <2> QED
    BY <1>3, <2>2 DEF ZeroRow
<1> HIDE DEF m, e
<1>7. m[p][p] = 1
  BY <1>3 DEF Chosen
<1>8. \A k \in Index : k > p \/ k < s => m[p][k] = 0
  BY <1>1, <1>2, <1>3 DEF Reduced, ClearAbove, ClearLeft
<1>9. \A r \in Index : s < r /\ r < p => m[r][p] = 0
  <2> SUFFICES ASSUME NEW r \in Index, s < r, r < p PROVE m[r][p] = 0
    OBVIOUS
  <2>1. r \notin Units(matrix, p, FALSE)
    <3>1. s # p
      BY <1>1
    <3>2. ~ (r <= s)
      BY <1>1, <1>2
    <3> QED
      BY <3>1, <3>2, <1>chosen, Zenon
  <2>2. matrix[r][p] # 1
    BY <2>1 DEF Units
  <2>3. m[r][p] # 1
    BY <1>1, <1>2, <1>3, <2>2
  <2> QED
    BY <1>5, <2>3
<1>10. \A r \in Index : r < p /\ m[r][p] = 1 => r < s
  BY <1>1, <1>2, <1>6, <1>9
<1>11. ClearLeft(e, p - 1)
  <2> SUFFICES ASSUME NEW r \in 1..(p - 1), NEW k \in 1..(r - 1) PROVE e[r][k] = 0
    BY DEF ClearLeft
  <2>1. r \in Index /\ k \in Index /\ r < p
    BY <1>1 DEF Index
  <2>2. m[r][k] = 0
    <3>1. CASE r = s
      BY <1>6, <2>1, <3>1
    <3>2. CASE r # s
      BY <1>1, <1>3, <2>1, <3>2 DEF Reduced, ClearLeft
    <3> QED
      BY <3>1, <3>2
  <2>3. CASE m[r][p] = 1
    <3>1. m[p][k] = 0
      BY <1>8, <1>10, <1>1, <2>1, <2>3
    <3> QED
      BY <1>4, <1>5, <2>1, <2>2, <2>3, <3>1
  <2>4. CASE m[r][p] # 1
    BY <1>4, <2>1, <2>2, <2>4
  <2> QED
    BY <2>3, <2>4
<1>12. ClearAbove(e, (p - 1) + 1)
  <2> SUFFICES ASSUME NEW k \in p..Q, NEW r \in 1..(k - 1) PROVE e[r][k] = 0
    BY <1>1 DEF ClearAbove
  <2>1. r \in Index /\ k \in Index /\ r \in Nat /\ k \in Nat
    BY <1>1 DEF Index
  <2>2. CASE k = p
    BY <1>4, <1>5, <1>7, <2>1, <2>2
  <2>3. CASE k > p
    <3>1. m[r][k] = 0 /\ m[p][k] = 0
      BY <1>1, <1>3, <2>1, <2>3 DEF Reduced, ClearAbove
    <3> QED
      BY <1>4, <1>5, <2>1, <3>1
  <2> QED
    BY <1>1, <2>2, <2>3
<1>13. UnitOrZero(e, (p - 1) + 1)
  <2> SUFFICES ASSUME NEW r \in p..Q PROVE e[r][r] = 1 \/ ZeroRow(e, r)
    BY <1>1 DEF UnitOrZero
  <2>1. r \in Index /\ r \in Nat /\ e[r] = m[r]
    BY <1>1, <1>4 DEF Index
  <2>2. CASE r = p
    BY <1>7, <2>1, <2>2
  <2>3. CASE r > p
    <3>1. e[r] = matrix[r]
      BY <1>1, <1>3, <2>1, <2>3
    <3>2. matrix[r][r] = 1 \/ ZeroRow(matrix, r)
      BY <1>1, <2>1, <2>3 DEF Reduced, UnitOrZero
    <3> QED
      BY <3>1, <3>2 DEF ZeroRow
  <2> QED
    BY <1>1, <2>2, <2>3
<1> QED
  BY <1>11, <1>12, <1>13 DEF Reduced, m, e

\* Both ways of a turn.
LEMMA BackwardReduces ==
  ASSUME NEW p \in Index, p > 1, matrix \in Matrices, Reduced(matrix, p)
  PROVE  Reduced(Eliminated(p, FALSE), p - 1)
BY OneTurn, ReducedWithoutUnit, ReducedWithUnit, Zenon
-----------------------------------------------------------------------------
(* The invariant. *)

\* The last turn of the backward pass leaves a matrix that is clear above the
\* diagonal, row 1 being one element long.
LEMMA AtTheEnd ==
  ASSUME matrix \in Matrices, Reduced(matrix, 1)
  PROVE  ClearAbove(matrix, 1) /\ UnitOrZero(matrix, 1)
<1>1. Q \in Nat /\ 1 \in Index
  BY MatrixRankAssumption DEF Index
<1>2. ClearAbove(matrix, 1)
  BY <1>1 DEF Reduced, ClearAbove
<1>3. matrix[1][1] = 1 \/ ZeroRow(matrix, 1)
  <2>1. matrix[1][1] \in 0..1
    BY <1>1 DEF Matrices, Rows
  <2>2. ASSUME NEW k \in Index, k # 1 PROVE matrix[1][k] = 0
    <3>1. k \in 1..Q /\ 1 \in 1..(k - 1)
      BY <2>2 DEF Index
    <3> QED
      BY <1>2, <3>1 DEF ClearAbove
  <2> QED
    BY <2>1, <2>2 DEF ZeroRow
<1>4. UnitOrZero(matrix, 1)
  <2> SUFFICES ASSUME NEW r \in 1..Q PROVE matrix[r][r] = 1 \/ ZeroRow(matrix, r)
    BY DEF UnitOrZero
  <2>1. CASE r = 1
    BY <1>3, <2>1
  <2>2. CASE r # 1
    <3>1. r \in (1 + 1)..Q
      BY <2>2
    <3> QED
      BY <3>1 DEF Reduced, UnitOrZero
  <2> QED
    BY <2>1, <2>2
<1> QED
  BY <1>2, <1>4

\* The number of rows that are not zero is at most the number of rows.
LEMMA RankIsBounded ==
  Cardinality({r \in Index : NonZero(matrix, r)}) \in 0..Q
<1>1. IsFiniteSet(Index) /\ Cardinality(Index) = Q
  BY MatrixRankAssumption, FS_Interval DEF Index
<1>2. {r \in Index : NonZero(matrix, r)} \in SUBSET Index
  OBVIOUS
<1> HIDE DEF NonZero
<1> QED
  BY <1>1, <1>2, FS_Subset, FS_CardinalityType, MatrixRankAssumption

\* It holds of every matrix a computation can start with.
LEMMA InitInv == Init => IInv
<1> SUFFICES ASSUME Init PROVE IInv
  OBVIOUS
<1>1. TypeOK
  BY MatrixRankAssumption DEF Init, TypeOK, Index
<1>2. SameSpace(matrix, original)
  BY DEF Init, SameSpace
<1>3. ClearBelowTo(matrix, i - 1)
  BY DEF Init, ClearBelowTo
<1> QED
  BY <1>1, <1>2, <1>3 DEF Init, IInv

\* A turn keeps the space of the matrix given.
LEMMA SpaceSinceTheStart ==
  ASSUME NEW m, SameSpace(m, matrix), SameSpace(matrix, original)
  PROVE  SameSpace(m, original)
BY Zenon DEF SameSpace

\* Every step keeps the invariant: one step of the proof for each action.
LEMMA StepInv == IInv /\ [Next]_vars => IInv'
<1> SUFFICES ASSUME IInv, [Next]_vars PROVE IInv'
  OBVIOUS
<1>1. /\ TypeOK /\ matrix \in Matrices /\ i \in Index /\ i \in Nat
      /\ Q \in Nat /\ Q >= 1
  BY MatrixRankAssumption DEF IInv, TypeOK, Matrices, Index
<1>2. CASE Forward
  <2>1. pc = "forward" /\ i < Q /\ pc' = pc /\ i' = i + 1
        /\ rank' = rank /\ original' = original /\ matrix' = Eliminated(i, TRUE)
    BY <1>2, Zenon DEF Forward
  <2>2. ClearBelowTo(matrix, i - 1)
    BY <2>1 DEF IInv
  <2>3. matrix' \in Matrices /\ SameSpace(matrix', matrix)
    BY <1>1, <2>1, <2>2, SpaceOfTurn, Zenon
  <2>4. ClearBelowTo(matrix', i)
    BY <1>1, <2>1, <2>2, ForwardClears, Zenon
  <2>5. TypeOK'
    <3>1. i' \in Index
      BY <1>1, <2>1 DEF Index
    <3> QED
      BY <1>1, <2>1, <2>3, <3>1, Zenon DEF TypeOK, Matrices
  <2>6. SameSpace(matrix', original')
    BY <2>1, <2>3, SpaceSinceTheStart, Zenon DEF IInv
  <2>7. ClearBelowTo(matrix', i' - 1)
    <3>1. i' - 1 = i
      BY <1>1, <2>1
    <3> QED
      BY <2>4, <3>1
  <2> QED
    BY <2>1, <2>5, <2>6, <2>7 DEF IInv
<1>3. CASE EndForward
  <2>1. /\ pc = "forward" /\ i >= Q /\ pc' = "backward" /\ i' = Q
        /\ UNCHANGED <<matrix, rank, original>>
    BY <1>3 DEF EndForward, AfterForward
  <2>2. i = Q
    BY <1>1, <2>1 DEF Index
  <2>3. ClearBelowTo(matrix, Q - 1)
    BY <2>1, <2>2 DEF IInv
  <2>4. ClearLeft(matrix, Q)
    BY <1>1, <2>3 DEF ClearBelowTo, ClearLeft
  <2>5. ClearAbove(matrix, Q + 1) /\ UnitOrZero(matrix, Q + 1)
    BY <1>1 DEF ClearAbove, UnitOrZero
  <2>6. TypeOK'
    BY <1>1, <2>1 DEF TypeOK, Index
  <2>7. SameSpace(matrix', original')
    BY <2>1, Zenon DEF IInv
  <2> QED
    BY <2>1, <2>4, <2>5, <2>6, <2>7 DEF IInv
<1>4. CASE Backward
  <2>1. pc = "backward" /\ i > 1 /\ pc' = pc /\ i' = i - 1
        /\ rank' = rank /\ original' = original /\ matrix' = Eliminated(i, FALSE)
    BY <1>4, Zenon DEF Backward
  <2>2. Reduced(matrix, i)
    BY <2>1 DEF IInv, Reduced
  <2>3. matrix' \in Matrices /\ SameSpace(matrix', matrix)
    BY <1>1, <2>1, SpaceOfTurn, Zenon
  <2>4. Reduced(matrix', i')
    BY <1>1, <2>1, <2>2, BackwardReduces, Zenon
  <2>5. TypeOK'
    <3>1. i' \in Index
      BY <1>1, <2>1 DEF Index
    <3> QED
      BY <1>1, <2>1, <2>3, <3>1, Zenon DEF TypeOK, Matrices
  <2>6. SameSpace(matrix', original')
    BY <2>1, <2>3, SpaceSinceTheStart, Zenon DEF IInv
  <2> QED
    BY <2>1, <2>4, <2>5, <2>6 DEF IInv, Reduced
<1>5. CASE EndBackward
  <2>1. /\ pc = "backward" /\ i <= 1 /\ pc' = "count"
        /\ UNCHANGED <<i, matrix, rank, original>>
    BY <1>5 DEF EndBackward
  <2>2. i = 1
    BY <1>1, <2>1 DEF Index
  <2>3. Reduced(matrix, 1)
    BY <2>1, <2>2 DEF IInv, Reduced
  <2>4. ClearAbove(matrix, 1) /\ UnitOrZero(matrix, 1)
    BY <1>1, <2>3, AtTheEnd
  <2>5. TypeOK'
    BY <1>1, <2>1 DEF TypeOK
  <2>6. SameSpace(matrix', original')
    BY <2>1, Zenon DEF IInv
  <2> QED
    BY <2>1, <2>4, <2>5, <2>6 DEF IInv
<1>6. CASE CountRank
  <2>1. /\ pc = "count" /\ pc' = "done" /\ UNCHANGED <<i, matrix, original>>
        /\ rank' = Cardinality({r \in Index : NonZero(matrix, r)})
    BY <1>6, Zenon DEF CountRank
  <2>2. rank' \in 0..Q
    BY <2>1, RankIsBounded
  <2>3. TypeOK'
    BY <1>1, <2>1, <2>2 DEF TypeOK
  <2>4. SameSpace(matrix', original')
    BY <2>1, Zenon DEF IInv
  <2>5. ClearAbove(matrix', 1) /\ UnitOrZero(matrix', 1)
    BY <2>1 DEF IInv
  <2>6. rank' = Cardinality({r \in Index : NonZero(matrix', r)})
    BY <2>1
  <2> QED
    BY <2>1, <2>3, <2>4, <2>5, <2>6 DEF IInv
<1>7. CASE Done \/ UNCHANGED vars
  <2>1. UNCHANGED <<pc, i, matrix, rank, original>>
    BY <1>7 DEF Done, vars
  <2>2. TypeOK'
    BY <1>1, <2>1 DEF TypeOK
  <2> QED
    BY <2>1, <2>2, Zenon DEF IInv
<1> QED
  BY <1>2, <1>3, <1>4, <1>5, <1>6, <1>7 DEF Next

\* The invariant holds throughout.
LEMMA InvHolds == Spec => []IInv
BY InitInv, StepInv, PTL DEF Spec

\* Every variable keeps its type, for every size of the matrix; the rank is
\* never larger than the matrix (binary_matrix_rank.go:68-90).
THEOREM TypesKept == Spec => []TypeOK
<1>1. IInv => TypeOK
  BY DEF IInv
<1> QED
  BY InvHolds, <1>1, PTL

\* The columns the forward pass has passed are clear below the diagonal.
THEOREM ColumnsCleared == Spec => []ClearBelow
<1>1. IInv => ClearBelow
  BY DEF IInv, ClearBelow, ClearBelowTo
<1> QED
  BY InvHolds, <1>1, PTL
-----------------------------------------------------------------------------
(* The space, row by row. *)

\* The space that the first rows of m generate, for 0, 1, ... Q rows.
Generates(g, m) == /\ g \in [0..Q -> SUBSET Rows]
                   /\ g[0] = {Zero}
                   /\ \A r \in 1..Q :
                         g[r] = g[r - 1] \cup {Xor(v, m[r]) : v \in g[r - 1]}

\* Adding the zero vector changes nothing.
LEMMA XorZero ==
  ASSUME NEW u \in Rows, NEW z \in Rows, \A k \in Index : z[k] = 0
  PROVE  Xor(u, z) = u
<1>1. \A k \in Index : u[k] \in 0..1 /\ (u[k] + z[k]) % 2 = u[k]
  BY DEF Rows
<1> QED
  BY <1>1 DEF Xor, Rows

\* The recursive function inside Span is the one its equations describe.
LEMMA SpanIsGenerated ==
  ASSUME NEW m \in Matrices
  PROVE  \E g : Generates(g, m) /\ Span(m) = g[Q]
<1> DEFINE D == SUBSET Rows
           Wider(V, r) == V \cup {Xor(v, m[r]) : v \in V}
           step == [r \in 1..Q |-> [V \in D |-> Wider(V, r)]]
           IsSpan(g) == g = [r \in 0..Q |-> IF r = 0 THEN {Zero} ELSE Wider(g[r - 1], r)]
           g == CHOOSE f : IsSpan(f)
<1>1. Q \in Nat /\ Q >= 1
  BY MatrixRankAssumption
<1>2. {Zero} \in D
  BY DEF Zero, Rows
<1>3. ASSUME NEW r \in 1..Q, NEW V \in D PROVE Wider(V, r) \in D
  <2>1. m[r] \in Rows
    BY DEF Matrices, Index
  <2>2. \A v \in V : Xor(v, m[r]) \in Rows
    BY <2>1, XorType
  <2> QED
    BY <2>2, Zenon
<1>4. step \in [1..Q -> [D -> D]]
  BY <1>3, Zenon
<1>5. \A r \in 1..Q : \A V \in D : step[r][V] = Wider(V, r)
  BY Zenon
<1> HIDE DEF step, D
<1>6. PICK h : BuiltUp(h, Q, D, {Zero}, step)
  BY <1>1, <1>2, <1>4, RecursionUpTo, Zenon
<1> HIDE DEF Wider
<1>7. IsSpan(h)
  <2>1. \A r \in 1..Q : h[r] = Wider(h[r - 1], r)
    <3> SUFFICES ASSUME NEW r \in 1..Q PROVE h[r] = Wider(h[r - 1], r)
      OBVIOUS
    <3>1. r - 1 \in 0..Q
      BY <1>1
    <3>2. h[r - 1] \in D
      BY <1>6, <3>1 DEF BuiltUp
    <3> QED
      BY <1>5, <1>6, <3>2 DEF BuiltUp
  <2>2. \A r \in 0..Q : h[r] = IF r = 0 THEN {Zero} ELSE Wider(h[r - 1], r)
    BY <1>1, <1>6, <2>1 DEF BuiltUp
  <2> QED
    BY <1>6, <2>2 DEF BuiltUp
<1>8. IsSpan(g)
  BY <1>7, Zenon
<1> HIDE DEF g
<1>9. /\ g[0] = {Zero}
      /\ \A r \in 1..Q : g[r] = Wider(g[r - 1], r)
      /\ g = [r \in 0..Q |-> g[r]]
  <2> DEFINE e == [r \in 0..Q |-> IF r = 0 THEN {Zero} ELSE Wider(g[r - 1], r)]
  <2>1. g = e
    BY <1>8
  <2>2. e = [r \in 0..Q |-> e[r]]
    OBVIOUS
  <2>3. \A r \in 0..Q : e[r] = IF r = 0 THEN {Zero} ELSE Wider(g[r - 1], r)
    OBVIOUS
  <2> HIDE DEF e
  <2>4. \A r \in 0..Q : g[r] = IF r = 0 THEN {Zero} ELSE Wider(g[r - 1], r)
    BY <2>1, <2>3
  <2>5. g[0] = {Zero}
    BY <1>1, <2>4
  <2>6. \A r \in 1..Q : g[r] = Wider(g[r - 1], r)
    BY <1>1, <2>4
  <2> QED
    BY <2>1, <2>2, <2>5, <2>6, Zenon
<1>10. 0..Q \subseteq {r \in 0..Q : g[r] \in D}
  <2> DEFINE T == {r \in 0..Q : g[r] \in D}
  <2>1. 0 \in T
    <3>1. 0 \in 0..Q
      BY <1>1
    <3>2. g[0] \in D
      BY <1>2, <1>9, Zenon
    <3> QED
      BY <3>1, <3>2
  <2>2. ASSUME NEW k \in 0..(Q - 1), k \in T PROVE k + 1 \in T
    <3>1. k + 1 \in 1..Q /\ (k + 1) - 1 = k
      BY <1>1
    <3>2. g[k + 1] = Wider(g[k], k + 1) /\ g[k] \in D
      BY <1>9, <2>2, <3>1
    <3>3. g[k + 1] \in D
      BY <1>3, <3>1, <3>2
    <3> QED
      BY <3>1, <3>3
  <2> HIDE DEF T
  <2>3. 0..Q \subseteq T
    BY <1>1, <2>1, <2>2, InductionUpTo
  <2> QED
    BY <2>3 DEF T
<1>11. g \in [0..Q -> D]
  BY <1>9, <1>10
<1>12. Generates(g, m)
  BY <1>9, <1>11, Zenon DEF Generates, Wider, D
<1>13. Span(m) = g[Q]
  BY Zenon DEF Span, g, Wider, Zero
<1> QED
  BY <1>12, <1>13
\* The vectors generated are closed under adding any of the rows used.
LEMMA GeneratedIsClosed ==
  ASSUME NEW m \in Matrices, NEW g, Generates(g, m)
  PROVE  Zero \in g[Q] /\ Closed(g[Q], m)
<1> DEFINE ClosedTo(r) == \A s \in 1..r : \A u \in g[r] : Xor(u, m[s]) \in g[r]
           T == {r \in 0..Q : Zero \in g[r] /\ ClosedTo(r)}
<1>1. Q \in Nat /\ Q >= 1
  BY MatrixRankAssumption
<1>2. \A s \in 1..Q : m[s] \in Rows
  BY DEF Matrices, Index
<1>3. \A r \in 0..Q : g[r] \in SUBSET Rows
  BY Zenon DEF Generates
<1>4. 0 \in T
  BY <1>1 DEF Generates
<1>5. ASSUME NEW r \in 0..(Q - 1), r \in T PROVE r + 1 \in T
  <2>1. r + 1 \in 1..Q /\ (r + 1) - 1 = r /\ r \in 0..Q /\ r + 1 \in 0..Q
    BY <1>1
  <2>2. g[r + 1] = g[r] \cup {Xor(v, m[r + 1]) : v \in g[r]}
    <3>1. g[r + 1] = g[(r + 1) - 1] \cup {Xor(v, m[r + 1]) : v \in g[(r + 1) - 1]}
      BY <2>1, Zenon DEF Generates
    <3> QED
      BY <2>1, <3>1
  <2>3. \A v \in g[r] : v \in Rows
    BY <1>3, <2>1
  <2>4. ASSUME NEW v \in g[r] PROVE Xor(v, m[r + 1]) \in g[r + 1]
    BY <2>2, Zenon
  <2>5. ASSUME NEW s \in 1..(r + 1), NEW u \in g[r + 1] PROVE Xor(u, m[s]) \in g[r + 1]
    <3>0. s \in 1..Q
      BY <1>1, <2>1
    <3>1. m[s] \in Rows /\ m[r + 1] \in Rows
      BY <1>2, <2>1, <3>0
    <3>2. CASE u \in g[r] /\ s = r + 1
      BY <2>4, <3>2
    <3>3. CASE u \in g[r] /\ s # r + 1
      <4>1. s \in 1..r
        BY <2>1, <3>3
      <4> QED
        BY <1>5, <2>2, <3>3, <4>1, Zenon
    <3>4. ASSUME NEW v \in g[r], u = Xor(v, m[r + 1]), s = r + 1
          PROVE  Xor(u, m[s]) \in g[r + 1]
      <4>1. Xor(u, m[s]) = v
        BY <2>3, <3>1, <3>4, XorCancels
      <4> QED
        BY <2>2, <4>1
    <3>5. ASSUME NEW v \in g[r], u = Xor(v, m[r + 1]), s # r + 1
          PROVE  Xor(u, m[s]) \in g[r + 1]
      <4>1. s \in 1..r
        BY <2>1, <3>5
      <4>2. Xor(v, m[s]) \in g[r]
        BY <1>5, <4>1, Zenon
      <4>3. Xor(u, m[s]) = Xor(Xor(v, m[s]), m[r + 1])
        BY <2>3, <3>1, <3>5, XorCommutes
      <4> QED
        BY <2>4, <4>2, <4>3
    <3> QED
      BY <2>2, <3>2, <3>3, <3>4, <3>5, Zenon
  <2>6. Zero \in g[r + 1]
    BY <1>5, <2>2, Zenon
  <2> QED
    BY <2>1, <2>5, <2>6, Zenon
<1> HIDE DEF T
<1>6. 0..Q \subseteq T
  BY <1>1, <1>4, <1>5, InductionUpTo
<1>7. Q \in T
  BY <1>1, <1>6
<1> QED
  BY <1>7 DEF T, Closed, Index

\* They lie in every closed set that holds the zero vector.
LEMMA GeneratedIsLeast ==
  ASSUME NEW m \in Matrices, NEW g, Generates(g, m),
         NEW X \in SUBSET Rows, Zero \in X, Closed(X, m)
  PROVE  g[Q] \subseteq X
<1> DEFINE T == {r \in 0..Q : g[r] \subseteq X}
<1>1. Q \in Nat /\ Q >= 1
  BY MatrixRankAssumption
<1>2. 0 \in T
  BY <1>1 DEF Generates
<1>3. ASSUME NEW r \in 0..(Q - 1), r \in T PROVE r + 1 \in T
  <2>1. r + 1 \in 1..Q /\ (r + 1) - 1 = r /\ r \in 0..Q /\ r + 1 \in 0..Q
    BY <1>1
  <2>2. g[r + 1] = g[(r + 1) - 1] \cup {Xor(v, m[r + 1]) : v \in g[(r + 1) - 1]}
    BY <2>1, Zenon DEF Generates
  <2>3. \A v \in X : Xor(v, m[r + 1]) \in X
    BY <2>1 DEF Closed, Index
  <2>4. g[r + 1] \subseteq X
    BY <1>3, <2>1, <2>2, <2>3
  <2> QED
    BY <2>1, <2>4
<1> HIDE DEF T
<1>4. 0..Q \subseteq T
  BY <1>1, <1>2, <1>3, InductionUpTo
<1> QED
  BY <1>1, <1>4 DEF T

\* Matrices with the same closed sets have rows that generate the same vectors.
LEMMA SameSpaceSameSpan ==
  ASSUME NEW m \in Matrices, NEW n \in Matrices, SameSpace(m, n)
  PROVE  Span(m) = Span(n)
<1>1. PICK g : Generates(g, m) /\ Span(m) = g[Q]
  BY SpanIsGenerated
<1>2. PICK h : Generates(h, n) /\ Span(n) = h[Q]
  BY SpanIsGenerated
<1>3. Q \in 0..Q
  BY MatrixRankAssumption
<1>4. g[Q] \in SUBSET Rows /\ h[Q] \in SUBSET Rows
  BY <1>1, <1>2, <1>3, Zenon DEF Generates
<1>5. g[Q] \subseteq h[Q]
  BY <1>1, <1>2, <1>4, GeneratedIsClosed, GeneratedIsLeast, Zenon DEF SameSpace
<1>6. h[Q] \subseteq g[Q]
  BY <1>1, <1>2, <1>4, GeneratedIsClosed, GeneratedIsLeast, Zenon DEF SameSpace
<1> QED
  BY <1>1, <1>2, <1>5, <1>6

\* The rows before and at r that are not zero.
RowsLeft(m, r) == {q \in 1..r : NonZero(m, q)}

\* A row that is zero adds no vector.
LEMMA ZeroRowAdds ==
  ASSUME NEW m \in Matrices, NEW V \in SUBSET Rows, NEW r \in Index, ZeroRow(m, r)
  PROVE  V \cup {Xor(v, m[r]) : v \in V} = V
<1>1. m[r] \in Rows
  BY DEF Matrices
<1>2. \A v \in V : Xor(v, m[r]) = v
  BY <1>1, XorZero DEF ZeroRow
<1> QED
  BY <1>2

\* A row with a unit in a column where the vectors so far have none doubles them.
LEMMA UnitRowDoubles ==
  ASSUME NEW m \in Matrices, NEW V \in SUBSET Rows, NEW r \in Index, IsFiniteSet(V),
         m[r][r] = 1, \A v \in V : v[r] = 0
  PROVE  LET W == V \cup {Xor(v, m[r]) : v \in V}
         IN  IsFiniteSet(W) /\ Cardinality(W) = 2 * Cardinality(V)
<1> DEFINE U == {Xor(v, m[r]) : v \in V}
           f == [v \in V |-> Xor(v, m[r])]
<1>1. m[r] \in Rows
  BY DEF Matrices
<1>2. \A u \in U : u[r] = 1
  <2> SUFFICES ASSUME NEW v \in V PROVE Xor(v, m[r])[r] = 1
    OBVIOUS
  <2>1. Xor(v, m[r])[r] = (v[r] + m[r][r]) % 2
    BY DEF Xor
  <2> QED
    BY <2>1
<1>3. V \cap U = {}
  <2>1. \A v \in V : v[r] # 1
    OBVIOUS
  <2> HIDE DEF U
  <2> QED
    BY <1>2, <2>1, Zenon
<1>4. \A v \in V : \A w \in V : Xor(v, m[r]) = Xor(w, m[r]) => v = w
  <2> SUFFICES ASSUME NEW v \in V, NEW w \in V, Xor(v, m[r]) = Xor(w, m[r])
               PROVE  v = w
    OBVIOUS
  <2>1. v = Xor(Xor(v, m[r]), m[r]) /\ w = Xor(Xor(w, m[r]), m[r])
    BY <1>1, XorCancels
  <2> QED
    BY <2>1, Zenon
<1>5. f \in Bijection(V, U)
  <2>1. f \in [V -> U] /\ \A v \in V : f[v] = Xor(v, m[r])
    BY Zenon
  <2>2. \A u \in U : \E v \in V : f[v] = u
    BY <2>1, Zenon
  <2>3. \A v \in V : \A w \in V : f[v] = f[w] => v = w
    BY <1>4, <2>1, Zenon
  <2> HIDE DEF f, U
  <2>4. IsInjective(f)
    BY <2>1, <2>3 DEF IsInjective
  <2> QED
    BY <2>1, <2>2, <2>4, Zenon DEF Bijection, Injection, Surjection
<1> HIDE DEF f, U
<1>6. IsFiniteSet(V \cup U) /\ Cardinality(V \cup U) = 2 * Cardinality(V)
  BY <1>3, <1>5, Doubled
<1> QED
  BY <1>6 DEF U
\* With the rows as the passes leave them, the first r rows generate as many
\* vectors as there are subsets of those that are not zero.
LEMMA CountOfGenerated ==
  ASSUME NEW m \in Matrices, ClearAbove(m, 1), UnitOrZero(m, 1),
         NEW g, Generates(g, m)
  PROVE  Cardinality(g[Q]) = 2 ^ Cardinality(RowsLeft(m, Q))
<1> DEFINE Clear(r) == \A u \in g[r] : \A k \in (r + 1)..Q : u[k] = 0
           T == {r \in 0..Q : /\ IsFiniteSet(g[r])
                              /\ Cardinality(g[r]) = 2 ^ Cardinality(RowsLeft(m, r))
                              /\ Clear(r)}
<1>1. Q \in Nat /\ Q >= 1
  BY MatrixRankAssumption
<1>2. \A r \in 0..Q : g[r] \in SUBSET Rows
  BY Zenon DEF Generates
<1>3. \A r \in 0..Q : IsFiniteSet(RowsLeft(m, r)) /\ Cardinality(RowsLeft(m, r)) \in Nat
  <2> SUFFICES ASSUME NEW r \in 0..Q
               PROVE  IsFiniteSet(RowsLeft(m, r)) /\ Cardinality(RowsLeft(m, r)) \in Nat
    OBVIOUS
  <2>1. IsFiniteSet(1..r)
    BY FS_Interval
  <2>2. RowsLeft(m, r) \in SUBSET (1..r)
    BY Zenon DEF RowsLeft
  <2> QED
    BY <2>1, <2>2, FS_Subset, FS_CardinalityType
<1>4. 0 \in T
  <2>1. g[0] = {Zero}
    BY Zenon DEF Generates
  <2>2. IsFiniteSet(g[0]) /\ Cardinality(g[0]) = 1
    BY <2>1, FS_Singleton
  <2>3. RowsLeft(m, 0) = {}
    BY DEF RowsLeft
  <2>4. 2 ^ Cardinality(RowsLeft(m, 0)) = 1
    <3>1. Cardinality(RowsLeft(m, 0)) = 0
      BY <2>3, FS_EmptySet
    <3>2. 2 ^ 0 = 1
      OBVIOUS
    <3> QED
      BY <3>1, <3>2
  <2>5. Clear(0)
    BY <2>1 DEF Zero, Index
  <2>6. 0 \in 0..Q
    BY <1>1
  <2> QED
    BY <2>2, <2>4, <2>5, <2>6
<1>5. ASSUME NEW r \in 0..(Q - 1), r \in T PROVE r + 1 \in T
  <2> DEFINE s == r + 1
  <2>1. s \in Index /\ s \in 1..Q /\ s - 1 = r /\ r \in 0..Q /\ s \in 0..Q /\ r \in Nat
    BY <1>1 DEF Index
  <2>2. g[s] = g[r] \cup {Xor(v, m[s]) : v \in g[r]}
    <3>1. g[s] = g[s - 1] \cup {Xor(v, m[s]) : v \in g[s - 1]}
      BY <2>1, Zenon DEF Generates
    <3> QED
      BY <2>1, <3>1
  <2>3. g[r] \in SUBSET Rows
    BY <1>2, <2>1
  <2>4. m[s][s] = 1 \/ ZeroRow(m, s)
    BY <2>1 DEF UnitOrZero
  <2>5. Clear(s)
    <3> SUFFICES ASSUME NEW u \in g[s], NEW k \in (s + 1)..Q PROVE u[k] = 0
      OBVIOUS
    <3>1. k \in Index /\ k \in (r + 1)..Q
      BY <2>1 DEF Index
    <3>2. CASE u \in g[r]
      BY <1>5, <3>1, <3>2
    <3>3. ASSUME NEW v \in g[r], u = Xor(v, m[s]) PROVE u[k] = 0
      <4>1. v[k] = 0
        BY <1>5, <3>1
      <4>2. m[s][k] = 0
        BY <2>1, <3>1 DEF ClearAbove
      <4>3. u[k] = (v[k] + m[s][k]) % 2
        BY <3>1, <3>3 DEF Xor
      <4> QED
        BY <4>1, <4>2, <4>3
    <3> QED
      BY <2>2, <3>2, <3>3
  <2>6. CASE ZeroRow(m, s)
    <3>1. g[s] = g[r]
      BY <2>1, <2>2, <2>3, <2>6, ZeroRowAdds
    <3>2. ~ NonZero(m, s)
      BY <2>6 DEF ZeroRow, NonZero
    <3>3. \A q : q \in 1..s <=> (q \in 1..r \/ q = s)
      BY <2>1
    <3>4. RowsLeft(m, s) = RowsLeft(m, r)
      BY <3>2, <3>3, Zenon DEF RowsLeft
    <3> HIDE DEF s
    <3>5. s \in T
      BY <1>5, <2>1, <2>5, <3>1, <3>4
    <3> QED
      BY <3>5 DEF s
  <2>7. CASE m[s][s] = 1
    <3>1. \A v \in g[r] : v[s] = 0
      BY <1>5, <2>1
    <3>2. IsFiniteSet(g[r]) /\ Cardinality(g[r]) = 2 ^ Cardinality(RowsLeft(m, r))
      BY <1>5
    <3>3. IsFiniteSet(g[s]) /\ Cardinality(g[s]) = 2 * Cardinality(g[r])
      BY <2>1, <2>2, <2>3, <2>7, <3>1, <3>2, UnitRowDoubles
    <3>4. NonZero(m, s)
      BY <2>1, <2>7 DEF NonZero
    <3>5. \A q : q \in 1..s <=> (q \in 1..r \/ q = s)
      BY <2>1
    <3>6. RowsLeft(m, s) = RowsLeft(m, r) \cup {s}
      <4>1. \A q : q \in RowsLeft(m, s) <=> q \in RowsLeft(m, r) \cup {s}
        BY <3>4, <3>5, Zenon DEF RowsLeft
      <4> QED
        BY <4>1, Zenon
    <3>7. s \notin RowsLeft(m, r)
      BY <2>1 DEF RowsLeft
    <3>8. Cardinality(RowsLeft(m, s)) = Cardinality(RowsLeft(m, r)) + 1
      BY <1>3, <2>1, <3>6, <3>7, FS_AddElement
    <3>9. 2 ^ Cardinality(RowsLeft(m, s)) = 2 * 2 ^ Cardinality(RowsLeft(m, r))
      BY <1>3, <2>1, <3>8, PowerOfTwo
    <3> HIDE DEF s
    <3>10. s \in T
      BY <2>1, <2>5, <3>2, <3>3, <3>9
    <3> QED
      BY <3>10 DEF s
  <2> QED
    BY <2>4, <2>6, <2>7
<1> HIDE DEF T
<1>6. 0..Q \subseteq T
  BY <1>1, <1>4, <1>5, InductionUpTo
<1> QED
  BY <1>1, <1>6 DEF T

\* The number computeRank returns is the dimension of the row space of the
\* matrix given, for every matrix of every size: 2^rank vectors are generated
\* by its rows (binary_matrix_rank.go:68-132). For 32 no run could show it.
THEOREM RankIsTheDimension == Spec => []RankIsDimension
<1>1. ASSUME IInv, pc = "done"
      PROVE  Span(matrix) = Span(original) /\ Cardinality(Span(original)) = 2 ^ rank
  <2>1. matrix \in Matrices /\ original \in Matrices
    BY <1>1 DEF IInv, TypeOK, Matrices
  <2>2. Span(matrix) = Span(original)
    BY <1>1, <2>1, SameSpaceSameSpan DEF IInv
  <2>3. PICK g : Generates(g, matrix) /\ Span(matrix) = g[Q]
    BY <2>1, SpanIsGenerated
  <2>4. ClearAbove(matrix, 1) /\ UnitOrZero(matrix, 1)
    BY <1>1 DEF IInv
  <2>5. Cardinality(g[Q]) = 2 ^ Cardinality(RowsLeft(matrix, Q))
    BY <2>1, <2>3, <2>4, CountOfGenerated
  <2>6. rank = Cardinality(RowsLeft(matrix, Q))
    BY <1>1, Zenon DEF IInv, RowsLeft, Index
  <2> QED
    BY <2>2, <2>3, <2>5, <2>6
<1>2. IInv => RankIsDimension
  BY <1>1, Zenon DEF RankIsDimension
<1> QED
  BY InvHolds, <1>2, PTL
=============================================================================
