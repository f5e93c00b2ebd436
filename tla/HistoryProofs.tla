--------------------------- MODULE HistoryProofs ---------------------------
(***************************************************************************)
(* The history database keeps its rows in the order of their times, and    *)
(* what processes conclude from it is true of the rows, for any number of  *)
(* processes, samples and rows and any window.                             *)
(***************************************************************************)
EXTENDS History, FiniteSetTheorems, NaturalsInduction, WellFoundedInduction,
        TLAPS

-----------------------------------------------------------------------------
(* Least and greatest numbers.                                              *)

LEMMA MinOf ==
    ASSUME NEW S \in SUBSET Nat, S # {}
    PROVE  Min(S) \in S /\ \A y \in S : Min(S) <= y
<1> DEFINE R == OpToRel(<, Nat)
<1>1. PICK x \in S : \A y \in S : ~(<<y, x>> \in R)
  BY NatLessThanWellFounded, WFMin, Zenon
<1>2. \A y \in S : ~(y < x)
  BY <1>1 DEF OpToRel
<1>3. \A y \in S : x <= y
  BY <1>2
<1> QED
  BY <1>3 DEF Min

LEMMA MaxOf ==
    ASSUME NEW n \in Nat, NEW S \in SUBSET (0 .. n), S # {}
    PROVE  Max(S) \in S /\ \A y \in S : Max(S) >= y
<1> DEFINE T == {n - y : y \in S}
<1>0. PICK y0 \in S : TRUE
  OBVIOUS
<1>1. T \in SUBSET Nat /\ n - y0 \in T
  BY <1>0
<1>2. Min(T) \in T /\ \A t \in T : Min(T) <= t
  BY <1>1, MinOf
<1>3. PICK x \in S : Min(T) = n - x
  BY <1>2
<1>4. \A y \in S : x >= y
  <2> SUFFICES ASSUME NEW y \in S PROVE x >= y
    OBVIOUS
  <2>1. n - x <= n - y
    BY <1>2, <1>3
  <2> QED
    BY <2>1
<1> QED
  BY <1>4 DEF Max

-----------------------------------------------------------------------------
(* The table.                                                               *)

RowType == [created_at : Nat, value : Samples,
            reported : {"open", "changed", "same"}, before : Nat,
            overtaken : BOOLEAN]

Sorted(table) ==
    \A i, j \in DOMAIN table : i < j => table[i].created_at < table[j].created_at

\* The row is behind the k older rows and before the newer ones, that start at l,
\* in the place of the row of the same time if there is one.
Placed(table, row, k, l) ==
    /\ k \in 0 .. Len(table) /\ l \in 1 .. Len(table) + 1
    /\ l \in {k + 1, k + 2}
    /\ \A i \in 1 .. k : table[i].created_at < row.created_at
    /\ \A i \in l .. Len(table) : table[i].created_at > row.created_at
    /\ l = k + 2 => table[k + 1].created_at = row.created_at
    /\ Insert(table, row) =
          [i \in 1 .. Len(table) + k + 2 - l |->
              IF i <= k THEN table[i]
              ELSE IF i = k + 1 THEN row ELSE table[i - (k + 2) + l]]

\* The members of a concatenation: the first sequence's, then the second's.
LEMMA CatAt ==
    ASSUME NEW S, NEW s \in Seq(S), NEW t \in Seq(S)
    PROVE  /\ s \o t \in Seq(S) /\ Len(s \o t) = Len(s) + Len(t)
           /\ \A i \in 1 .. Len(s) + Len(t) :
                 (s \o t)[i] = IF i <= Len(s) THEN s[i] ELSE t[i - Len(s)]
  OBVIOUS

LEMMA InsertShape ==
    ASSUME NEW table \in Seq(RowType), Sorted(table), NEW row \in RowType
    PROVE  \E k, l : Placed(table, row, k, l)
<1> DEFINE n == Len(table)
           older == {i \in DOMAIN table : table[i].created_at < row.created_at}
           newer == {i \in DOMAIN table : table[i].created_at > row.created_at}
           k == Max(older \cup {0})
           l == Min(newer \cup {n + 1})
<1>1. n \in Nat /\ DOMAIN table = 1 .. n
  OBVIOUS
<1>2. \A i \in 1 .. n : table[i] \in RowType /\ table[i].created_at \in Nat
  <2>1. \A i \in 1 .. n : table[i] \in RowType
    BY <1>1
  <2> QED
    BY <2>1 DEF RowType
<1>3. row.created_at \in Nat
  BY DEF RowType
<1>4. k \in older \cup {0} /\ \A i \in older : k >= i
  BY <1>1, MaxOf, older \cup {0} \in SUBSET (0 .. n)
<1>5. l \in newer \cup {n + 1} /\ l <= n + 1 /\ \A i \in newer : l <= i
  BY <1>1, MinOf, newer \cup {n + 1} \in SUBSET Nat
<1>6. k \in 0 .. n /\ l \in 1 .. n + 1
  BY <1>1, <1>4, <1>5
<1>7. Insert(table, row) = SubSeq(table, 1, k) \o <<row>> \o SubSeq(table, l, n)
  BY DEF Insert
<1> HIDE DEF k, l
<1>8. ASSUME NEW i \in 1 .. k PROVE table[i].created_at < row.created_at
  <2>1. k \in 1 .. n /\ table[k].created_at < row.created_at
    BY <1>4, <1>6, <1>8
  <2>2. i \in 1 .. n /\ (i = k \/ i < k)
    BY <1>6, <1>8
  <2>3. i < k => table[i].created_at < table[k].created_at
    BY <1>1, <2>1, <2>2, Zenon DEF Sorted
  <2>4. PICK x \in Nat, y \in Nat, z \in Nat :
           x = table[i].created_at /\ y = table[k].created_at /\ z = row.created_at
    BY <1>2, <1>3, <2>1, <2>2, Zenon
  <2>5. x < z
    BY <2>1, <2>2, <2>3, <2>4
  <2> QED
    BY <2>4, <2>5, Zenon
<1>9. ASSUME NEW i \in l .. n PROVE table[i].created_at > row.created_at
  <2>1. l \in 1 .. n /\ table[l].created_at > row.created_at
    BY <1>5, <1>6, <1>9
  <2>2. i \in 1 .. n /\ (i = l \/ l < i)
    BY <1>6, <1>9
  <2>3. l < i => table[l].created_at < table[i].created_at
    BY <1>1, <2>1, <2>2, Zenon DEF Sorted
  <2>4. PICK x \in Nat, y \in Nat, z \in Nat :
           x = table[i].created_at /\ y = table[l].created_at /\ z = row.created_at
    BY <1>2, <1>3, <2>1, <2>2, Zenon
  <2>5. x > z
    BY <2>1, <2>2, <2>3, <2>4
  <2> QED
    BY <2>4, <2>5, Zenon
<1>10. \A i \in 1 .. n : i > k /\ i < l => table[i].created_at = row.created_at
  BY <1>1, <1>2, <1>3, <1>4, <1>5, <1>6
<1>11. l > k
  BY <1>2, <1>3, <1>6, <1>8, <1>9
<1>12. l <= k + 2
  <2> SUFFICES ASSUME l > k + 2 PROVE FALSE
    BY <1>6
  <2>1. k + 1 \in 1 .. n /\ k + 2 \in 1 .. n
    BY <1>6
  <2>2. k + 1 < k + 2 /\ k + 1 > k /\ k + 2 > k /\ k + 1 < l /\ k + 2 < l
    BY <1>6
  <2>3. table[k + 1].created_at < table[k + 2].created_at
    BY <1>1, <2>1, <2>2, Zenon DEF Sorted
  <2>4. /\ table[k + 1].created_at = row.created_at
        /\ table[k + 2].created_at = row.created_at
    BY <1>10, <2>1, <2>2, Zenon
  <2>5. PICK z \in Nat : z = row.created_at
    BY <1>3, Zenon
  <2>6. z < z
    BY <2>3, <2>4, <2>5, Zenon
  <2> QED
    BY <2>6
<1>13. l \in {k + 1, k + 2} /\ (l = k + 2 => table[k + 1].created_at = row.created_at)
  BY <1>6, <1>10, <1>11, <1>12
<1> HIDE DEF older, newer
<1>14. Insert(table, row) =
          [i \in 1 .. n + k + 2 - l |->
              IF i <= k THEN table[i]
              ELSE IF i = k + 1 THEN row ELSE table[i - (k + 2) + l]]
  <2> DEFINE a == SubSeq(table, 1, k)
             b == SubSeq(table, l, n)
  <2>1. a \in Seq(RowType) /\ Len(a) = k /\ \A i \in 1 .. k : a[i] = table[i]
    BY <1>1, <1>6
  <2>2. b \in Seq(RowType) /\ Len(b) = n + 1 - l
        /\ \A i \in 1 .. n + 1 - l : b[i] = table[l + i - 1]
    BY <1>1, <1>6
  <2> HIDE DEF a, b
  <2> DEFINE c == a \o <<row>>
  <2>3. c \in Seq(RowType) /\ Len(c) = k + 1 /\ c[k + 1] = row
        /\ \A i \in 1 .. k : c[i] = table[i]
    BY <1>6, <2>1
  <2> HIDE DEF c
  <2> DEFINE d == c \o b
  <2>4. d \in Seq(RowType) /\ Len(d) = n + k + 2 - l
        /\ \A i \in 1 .. Len(d) :
              d[i] = IF i <= k + 1 THEN c[i] ELSE b[i - (k + 1)]
    <3>1. d \in Seq(RowType) /\ Len(d) = Len(c) + Len(b)
      BY <2>2, <2>3, CatAt, Zenon
    <3>2. \A i \in 1 .. Len(c) + Len(b) :
              d[i] = IF i <= Len(c) THEN c[i] ELSE b[i - Len(c)]
      BY <2>2, <2>3, CatAt, Zenon
    <3> HIDE DEF d
    <3> QED
      BY <1>1, <1>6, <2>2, <2>3, <3>1, <3>2
  <2>5. Insert(table, row) = d
    BY <1>7 DEF a, b, c, d
  <2> HIDE DEF d
  <2>6. \A i \in 1 .. n + k + 2 - l :
           d[i] = IF i <= k THEN table[i]
                  ELSE IF i = k + 1 THEN row ELSE table[i - (k + 2) + l]
    <3> SUFFICES ASSUME NEW i \in 1 .. n + k + 2 - l
                 PROVE  d[i] = IF i <= k THEN table[i]
                               ELSE IF i = k + 1 THEN row
                                    ELSE table[i - (k + 2) + l]
      OBVIOUS
    <3>1. CASE i <= k + 1
      <4>1. d[i] = c[i]
        BY <2>4, <3>1
      <4>2. i \in 1 .. k \/ i = k + 1
        BY <1>6, <3>1
      <4>3. CASE i \in 1 .. k
        BY <1>6, <2>3, <4>1, <4>3
      <4>4. CASE i = k + 1
        <5>1. ~(i <= k)
          BY <1>6, <4>4
        <5> QED
          BY <2>3, <4>1, <4>4, <5>1, Zenon
      <4> QED
        BY <4>2, <4>3, <4>4
    <3>2. CASE i > k + 1
      <4>1. d[i] = b[i - (k + 1)] /\ i - (k + 1) \in 1 .. n + 1 - l
        BY <1>1, <1>6, <2>4, <3>2
      <4>2. b[i - (k + 1)] = table[l + (i - (k + 1)) - 1]
        BY <2>2, <4>1
      <4>3. l + (i - (k + 1)) - 1 = i - (k + 2) + l
        BY <1>6
      <4>4. ~(i <= k) /\ i # k + 1
        BY <1>6, <3>2
      <4> QED
        BY <4>1, <4>2, <4>3, <4>4, Zenon
    <3>3. i <= k + 1 \/ i > k + 1
      BY <1>6
    <3> QED
      BY <3>1, <3>2, <3>3
  <2> QED
    BY <1>1, <1>6, <2>4, <2>5, <2>6
<1> QED
  BY <1>6, <1>8, <1>9, <1>13, <1>14, Zenon DEF Placed

\* What is in the table afterwards.
Inserted(table, row, t) ==
    /\ t \in Seq(RowType) /\ Sorted(t)
    /\ \A i \in DOMAIN t : t[i] = row \/ \E j \in DOMAIN table : t[i] = table[j]
    /\ \E i \in DOMAIN t : t[i] = row
    /\ \A j \in DOMAIN table :
          table[j].created_at # row.created_at => \E i \in DOMAIN t : t[i] = table[j]

LEMMA InsertSorted ==
    ASSUME NEW table \in Seq(RowType), Sorted(table), NEW row \in RowType
    PROVE  Inserted(table, row, Insert(table, row))
<1>1a. PICK k, l : Placed(table, row, k, l)
  BY InsertShape, Zenon
<1>1. /\ k \in 0 .. Len(table) /\ l \in 1 .. Len(table) + 1
      /\ l \in {k + 1, k + 2}
      /\ \A i \in 1 .. k : table[i].created_at < row.created_at
      /\ \A i \in l .. Len(table) : table[i].created_at > row.created_at
      /\ l = k + 2 => table[k + 1].created_at = row.created_at
      /\ Insert(table, row) =
           [i \in 1 .. Len(table) + k + 2 - l |->
               IF i <= k THEN table[i]
               ELSE IF i = k + 1 THEN row ELSE table[i - (k + 2) + l]]
  BY <1>1a, Zenon DEF Placed
<1> DEFINE n == Len(table)
           m == n + k + 2 - l
           t == Insert(table, row)
<1>2. n \in Nat /\ DOMAIN table = 1 .. n /\ m \in Nat
  BY <1>1
<1>3. /\ DOMAIN t = 1 .. m
      /\ \A i \in 1 .. m : t[i] = IF i <= k THEN table[i]
                                  ELSE IF i = k + 1 THEN row
                                       ELSE table[i - (k + 2) + l]
  BY <1>1
<1>4. t = [i \in 1 .. m |-> t[i]]
  BY <1>1
<1> HIDE DEF t
<1>0. /\ n \in Int /\ k \in Int /\ l \in Int /\ m = n + k + 2 - l
      /\ 0 <= k /\ k <= n /\ 1 <= l /\ l <= n + 1 /\ (l = k + 1 \/ l = k + 2)
  BY <1>1, <1>2
<1>17. \A i \in l .. n : table[i].created_at > row.created_at
  BY <1>1
<1> HIDE DEF n, m
\* The row behind the new one that ends up at i was at At(i).
<1> DEFINE At(i) == i - (k + 2) + l
<1>5. ASSUME NEW i \in 1 .. m, i > k + 1
      PROVE  t[i] = table[At(i)] /\ At(i) \in l .. n /\ At(i) \in 1 .. n
  <2>1. ~(i <= k) /\ i # k + 1
    BY <1>0, <1>5
  <2>2. t[i] = table[At(i)]
    BY <1>3, <2>1, Zenon
  <2>3. At(i) \in l .. n /\ At(i) \in 1 .. n
    BY <1>0, <1>5
  <2> QED
    BY <2>2, <2>3
<1>12. \A i, j \in 1 .. m : i < j => At(i) < At(j)
  BY <1>0
<1>13. ASSUME NEW i \in 1 .. m, i <= k
       PROVE  t[i] = table[i] /\ i \in 1 .. k /\ i \in 1 .. n
  <2>1. i \in 1 .. k /\ i \in 1 .. n
    BY <1>0, <1>13
  <2> QED
    BY <1>3, <1>13, <2>1, Zenon
<1>14. k + 1 \in 1 .. m /\ t[k + 1] = row
  <2>1. k + 1 \in 1 .. m /\ ~(k + 1 <= k)
    BY <1>0
  <2> QED
    BY <1>3, <2>1, Zenon
<1>15. \A i \in 1 .. m : i <= k \/ i = k + 1 \/ i > k + 1
  BY <1>0
<1> HIDE DEF At
<1>6. ASSUME NEW i \in 1 .. m
      PROVE  t[i] = row \/ \E j \in 1 .. n : t[i] = table[j]
  BY <1>5, <1>13, <1>14, <1>15, Zenon
<1>7. \A i \in 1 .. n : table[i] \in RowType /\ table[i].created_at \in Nat
  <2>1. \A i \in 1 .. n : table[i] \in RowType
    BY <1>2
  <2> QED
    BY <2>1 DEF RowType
<1>8. t \in Seq(RowType)
  <2>1. \A i \in 1 .. m : t[i] \in RowType
    BY <1>6, <1>7
  <2>2. m \in Nat
    BY <1>2
  <2> HIDE DEF m
  <2>3. [i \in 1 .. m |-> t[i]] \in Seq(RowType)
    BY <2>1, <2>2
  <2> QED
    BY <1>4, <2>3
<1>9. Sorted(t)
  <2> SUFFICES ASSUME NEW i \in 1 .. m, NEW j \in 1 .. m, i < j
               PROVE  t[i].created_at < t[j].created_at
    BY <1>3 DEF Sorted
  <2>0. row.created_at \in Nat
    BY DEF RowType
  <2>1. CASE i <= k /\ j <= k
    BY <1>2, <1>13, <2>1, Zenon DEF Sorted
  <2>2. CASE i <= k /\ j = k + 1
    BY <1>1, <1>13, <1>14, <2>2, Zenon
  <2>3. CASE i <= k /\ j > k + 1
    <3>1. t[i].created_at < row.created_at /\ t[i].created_at \in Nat
      BY <1>1, <1>7, <1>13, <2>3, Zenon
    <3>2. t[j].created_at > row.created_at /\ t[j].created_at \in Nat
      BY <1>5, <1>7, <1>17, <2>3, Zenon
    <3> QED
      BY <2>0, <3>1, <3>2
  <2>4. CASE i = k + 1 /\ j > k + 1
    <3>1. t[j].created_at > row.created_at /\ t[j].created_at \in Nat
      BY <1>5, <1>7, <1>17, <2>4, Zenon
    <3>2. t[i] = row
      BY <1>14, <2>4
    <3> QED
      BY <2>0, <3>1, <3>2
  <2>5. CASE i > k + 1 /\ j > k + 1
    BY <1>2, <1>5, <1>12, <2>5, Zenon DEF Sorted
  <2>6. i >= k + 1 => j > k + 1
    BY <1>0
  <2>7. (i = k + 1 \/ i > k + 1) => i >= k + 1
    BY <1>0
  <2> QED
    BY <1>15, <2>1, <2>2, <2>3, <2>4, <2>5, <2>6, <2>7, Zenon
<1>11. ASSUME NEW j \in 1 .. n, table[j].created_at # row.created_at
       PROVE  \E i \in 1 .. m : t[i] = table[j]
  <2>1. CASE j <= k
    <3>1. j \in 1 .. m
      BY <1>0, <2>1
    <3> QED
      BY <1>13, <2>1, <3>1, Zenon
  <2>2. CASE j >= l
    <3>1. PICK i \in Int : i = j - l + (k + 2)
      BY <1>0
    <3>2. i \in 1 .. m /\ i > k + 1
      BY <1>0, <2>2, <3>1
    <3>3. At(i) = j
      BY <1>0, <3>1 DEF At
    <3> QED
      BY <1>5, <3>2, <3>3, Zenon
  <2>3. CASE j > k /\ j < l
    <3>1. l = k + 2 /\ j = k + 1
      BY <1>0, <2>3
    <3> QED
      BY <1>1, <1>11, <3>1, Zenon
  <2>4. j <= k \/ j >= l \/ (j > k /\ j < l)
    BY <1>0
  <2> QED
    BY <2>1, <2>2, <2>3, <2>4, Zenon
<1>16. \E i \in 1 .. m : t[i] = row
  BY <1>14, Zenon
<1> QED
  BY <1>2, <1>3, <1>6, <1>8, <1>9, <1>11, <1>16, Zenon DEF t, Inserted

-----------------------------------------------------------------------------
(* Types.                                                                   *)

\* A process that has taken a place for its row, or is about to commit it.
Saving == {"insert", "compare", "previous"}
Busy   == {"insert", "previous"}

TableInv ==
    /\ rows \in Seq(RowType) /\ Sorted(rows)
    /\ \A i \in DOMAIN rows :
          rows[i].created_at \in Places \cup {2 * k : k \in 1 .. Earlier}

\* Places are taken once, and a committed row stays as it was written.
StampInv ==
    /\ pc \in [Processes -> {"idle", "prepare", "insert", "compare", "previous"}]
    /\ stamp \in [Processes -> Nat] /\ current \in [Processes -> Nat]
    /\ \A p \in Processes :
         /\ pc[p] # "idle" => current[p] \in Samples
         /\ pc[p] \in Saving => stamp[p] \in Places
         /\ pc[p] = "insert" => \A i \in DOMAIN rows : rows[i].created_at # stamp[p]
         /\ pc[p] \in {"compare", "previous"} =>
              \E i \in DOMAIN rows : /\ rows[i].created_at = stamp[p]
                                     /\ rows[i].value = current[p]
    /\ \A p, q \in Processes :
         p # q /\ pc[p] \in Saving /\ pc[q] \in Saving => stamp[p] # stamp[q]

TypeInv == TableInv /\ StampInv

LEMMA InitTypeInv == Init => TypeInv
<1> SUFFICES ASSUME Init PROVE TypeInv
  OBVIOUS
<1>1a. PICK n \in 0 .. Earlier : \E old \in [1 .. n -> Samples] :
          rows = [i \in 1 .. n |-> Row(2 * i, old[i])]
  BY DEF Init
<1>1. PICK old \in [1 .. n -> Samples] : rows = [i \in 1 .. n |-> Row(2 * i, old[i])]
  BY <1>1a
<1>0. n \in Nat /\ n <= Earlier /\ Earlier \in Nat
  BY EarlierAssumption
<1>2. \A i \in 1 .. n : Row(2 * i, old[i]) \in RowType
  BY <1>0 DEF Row, RowType
<1>3. rows \in Seq(RowType) /\ DOMAIN rows = 1 .. n
  BY <1>0, <1>1, <1>2
<1>4. \A i \in 1 .. n : rows[i].created_at = 2 * i
  BY <1>1 DEF Row
<1>5. TableInv
  <2>1. Sorted(rows)
    BY <1>0, <1>3, <1>4 DEF Sorted
  <2>2. \A i \in 1 .. n : i \in 1 .. Earlier
    BY <1>0
  <2> QED
    BY <1>3, <1>4, <2>1, <2>2 DEF TableInv
<1>6. StampInv
  BY DEF Init, StampInv, Saving
<1> QED
  BY <1>5, <1>6 DEF TypeInv

\* What is true of a row after another was committed.
LEMMA Committed ==
    ASSUME TableInv, NEW row \in RowType, rows' = Insert(rows, row)
    PROVE  /\ rows' \in Seq(RowType) /\ Sorted(rows')
           /\ \A i \in DOMAIN rows' :
                 rows'[i] = row \/ \E j \in DOMAIN rows : rows'[i] = rows[j]
           /\ \E i \in DOMAIN rows' : rows'[i] = row
           /\ \A j \in DOMAIN rows : rows[j].created_at # row.created_at =>
                 \E i \in DOMAIN rows' : rows'[i] = rows[j]
<1>1. rows \in Seq(RowType) /\ Sorted(rows)
  BY DEF TableInv
<1>2. Inserted(rows, row, rows')
  BY <1>1, InsertSorted, Zenon
<1> QED
  BY <1>2, Zenon DEF Inserted

\* A process commits its row, first and (a path) once more with its report.
LEMMA SaveTypes ==
    ASSUME TypeInv, NEW p \in Processes, pc[p] \in Busy, NEW row \in RowType,
           row.created_at = stamp[p], row.value = current[p],
           rows' = Insert(rows, row),
           NEW at \in {"idle", "compare", "previous"},
           pc' = [pc EXCEPT ![p] = at],
           stamp' \in [Processes -> Nat], current' \in [Processes -> Nat],
           \A q \in Processes : pc'[q] # "idle" =>
               stamp'[q] = stamp[q] /\ current'[q] = current[q]
    PROVE  TypeInv'
<1>1. stamp[p] \in Places
  BY DEF TypeInv, StampInv, Saving, Busy
<1>2. /\ rows' \in Seq(RowType) /\ Sorted(rows')
      /\ \A i \in DOMAIN rows' :
            rows'[i] = row \/ \E j \in DOMAIN rows : rows'[i] = rows[j]
      /\ \E i \in DOMAIN rows' : rows'[i] = row
      /\ \A j \in DOMAIN rows : rows[j].created_at # row.created_at =>
            \E i \in DOMAIN rows' : rows'[i] = rows[j]
  BY Committed, Zenon DEF TypeInv
<1>3. TableInv'
  BY <1>1, <1>2 DEF TypeInv, TableInv
<1>6. pc'[p] = at /\ \A q \in Processes \ {p} : pc'[q] = pc[q]
  BY DEF TypeInv, StampInv
<1>7. \A q \in Processes \ {p} : pc[q] \in Saving => stamp[q] # stamp[p]
  BY DEF TypeInv, StampInv, Saving, Busy
<1>4. ASSUME NEW q \in Processes, pc'[q] \in {"compare", "previous"}
      PROVE  \E i \in DOMAIN rows' : /\ rows'[i].created_at = stamp'[q]
                                     /\ rows'[i].value = current'[q]
  <2>0. stamp'[q] = stamp[q] /\ current'[q] = current[q]
    BY <1>4
  <2>1. CASE q = p
    <3>1. PICK i \in DOMAIN rows' : rows'[i] = row
      BY <1>2, Zenon
    <3>2. row.created_at = stamp'[q] /\ row.value = current'[q]
      BY <2>0, <2>1
    <3> QED
      BY <3>1, <3>2, Zenon
  <2>2. CASE q # p
    <3>1. pc[q] \in {"compare", "previous"}
      BY <1>4, <1>6, <2>2
    <3>2. stamp[q] # stamp[p]
      BY <1>7, <2>2, <3>1 DEF Saving
    <3>3. PICK j \in DOMAIN rows : rows[j].created_at = stamp[q]
                                   /\ rows[j].value = current[q]
      BY <3>1, Zenon DEF TypeInv, StampInv
    <3>4. rows[j].created_at # row.created_at
      BY <3>2, <3>3
    <3>5. PICK i \in DOMAIN rows' : rows'[i] = rows[j]
      BY <1>2, <3>4, Zenon
    <3> QED
      BY <2>0, <3>3, <3>5, Zenon
  <2> QED
    BY <2>1, <2>2
<1>8. ASSUME NEW q \in Processes, pc'[q] = "insert", NEW i \in DOMAIN rows'
      PROVE  rows'[i].created_at # stamp'[q]
  <2>1. q # p /\ pc[q] = "insert" /\ stamp'[q] = stamp[q]
    BY <1>6, <1>8
  <2>2. stamp[q] # row.created_at
    BY <1>7, <2>1 DEF Saving
  <2>3. \A j \in DOMAIN rows : rows[j].created_at # stamp[q]
    BY <2>1, Zenon DEF TypeInv, StampInv
  <2>4. rows'[i] = row \/ \E j \in DOMAIN rows : rows'[i] = rows[j]
    BY <1>2, Zenon
  <2>5. rows'[i].created_at # stamp[q]
    BY <2>2, <2>3, <2>4
  <2> QED
    BY <2>1, <2>5
<1>9. ASSUME NEW q \in Processes, pc'[q] # "idle"
      PROVE  /\ current'[q] \in Samples
             /\ pc'[q] \in Saving => pc[q] \in Saving /\ stamp'[q] \in Places
  <2>1. pc[q] # "idle" /\ (pc'[q] \in Saving => pc[q] \in Saving)
    BY <1>6, <1>9 DEF Saving, Busy
  <2> QED
    BY <1>9, <2>1 DEF TypeInv, StampInv
<1>10. \A q \in Processes : pc'[q] \in Saving => pc'[q] # "idle"
  BY DEF Saving
<1>11. ASSUME NEW q \in Processes, NEW r \in Processes, q # r,
              pc'[q] \in Saving, pc'[r] \in Saving
       PROVE  stamp'[q] # stamp'[r]
  <2>1. pc[q] \in Saving /\ pc[r] \in Saving
        /\ stamp'[q] = stamp[q] /\ stamp'[r] = stamp[r]
    BY <1>9, <1>10, <1>11
  <2> QED
    BY <1>11, <2>1, Zenon DEF TypeInv, StampInv
<1>12. pc' \in [Processes -> {"idle", "prepare", "insert", "compare", "previous"}]
  BY DEF TypeInv, StampInv
<1>5. StampInv'
  BY <1>4, <1>8, <1>9, <1>10, <1>11, <1>12, Zenon DEF StampInv
<1> QED
  BY <1>3, <1>5 DEF TypeInv

\* The row that detect_path_change leaves.
LEMMA ReportedRow ==
    ASSUME TypeInv, NEW p \in Processes, detect_path_change(p)
    PROVE  \E row \in RowType :
              /\ row.created_at = stamp[p] /\ row.value = current[p]
              /\ rows' = Insert(rows, row)
              /\ row.reported = "changed" <=>
                    /\ has_previous(ValuesOf(rows))
                    /\ previous_snapshot(ValuesOf(rows)) # current[p]
              /\ row.before = LET earlier == {i \in DOMAIN rows :
                                                 rows[i].created_at < stamp[p]}
                              IN  IF earlier = {} THEN 0
                                  ELSE rows[Max(earlier)].created_at
              /\ row.overtaken = (rows[Len(rows)].created_at # stamp[p])
<1> DEFINE newest == ValuesOf(rows)
           changed == has_previous(newest) /\ previous_snapshot(newest) # current[p]
           earlier == {i \in DOMAIN rows : rows[i].created_at < stamp[p]}
           before == IF earlier = {} THEN 0 ELSE rows[Max(earlier)].created_at
           reported == IF changed THEN "changed" ELSE "same"
           overtaken == rows[Len(rows)].created_at # stamp[p]
           row == [created_at |-> stamp[p], value |-> current[p],
                   reported |-> reported, before |-> before,
                   overtaken |-> overtaken]
<1>1. rows' = Insert(rows, row)
  BY DEF detect_path_change
<1>7. reported \in {"open", "changed", "same"} /\ (reported = "changed" <=> changed)
  OBVIOUS
<1>8. overtaken \in BOOLEAN
  OBVIOUS
<1>2. before \in Nat
  <2>1. CASE earlier = {}
    BY <2>1
  <2>2. CASE earlier # {}
    <3>1. rows \in Seq(RowType)
      BY DEF TypeInv, TableInv
    <3>2. earlier \in SUBSET (0 .. Len(rows)) /\ Len(rows) \in Nat
      BY <3>1
    <3>3. Max(earlier) \in earlier
      BY <2>2, <3>2, MaxOf
    <3>4. rows[Max(earlier)] \in RowType
      BY <3>1, <3>3
    <3> QED
      BY <2>2, <3>4 DEF RowType
  <2> QED
    BY <2>1, <2>2
<1> HIDE DEF before, changed, earlier, reported, overtaken
<1>3. stamp[p] \in Nat /\ current[p] \in Samples
  BY DEF detect_path_change, TypeInv, StampInv
<1>5. row \in RowType
  BY <1>2, <1>3, <1>7, <1>8 DEF RowType
<1>6. /\ row.created_at = stamp[p] /\ row.value = current[p]
      /\ row.reported = reported /\ row.before = before
      /\ row.overtaken = overtaken
  OBVIOUS
<1> HIDE DEF row
<1>9. row.reported = "changed" <=> changed
  BY <1>6, <1>7
<1> QED
  BY <1>1, <1>5, <1>6, <1>9, Zenon DEF changed, before, earlier, overtaken

LEMMA TypeStep ==
    ASSUME TypeInv, [Next]_vars
    PROVE  TypeInv'
<1> USE DEF TypeInv
<1>1. ASSUME NEW p \in Processes, NEW v \in Samples,
             rolling_values(p, v) \/ Trace(p, v)
      PROVE  TypeInv'
  <2>1. /\ pc' = [pc EXCEPT ![p] = "prepare"]
        /\ current' = [current EXCEPT ![p] = v]
        /\ UNCHANGED <<rows, stamp>>
    BY <1>1 DEF rolling_values, Trace
  <2>2. v \in Nat
    BY SamplesAssumption
  <2> QED
    BY <2>1, <2>2 DEF TableInv, StampInv, Saving
<1>2. ASSUME NEW p \in Processes, Prepare(p) PROVE TypeInv'
  <2>1. PICK at \in Free : stamp' = [stamp EXCEPT ![p] = at]
    BY <1>2 DEF Prepare
  <2>2. /\ pc' = [pc EXCEPT ![p] = "insert"]
        /\ rows' = rows /\ current' = current /\ pc[p] = "prepare"
    BY <1>2 DEF Prepare
  <2>3. /\ at \in Places /\ at \in Nat
        /\ \A i \in DOMAIN rows : rows[i].created_at # at
        /\ \A q \in Processes : pc[q] = "insert" => stamp[q] # at
    BY PlacesAssumption DEF Free
  <2>4. \A q \in Processes : pc[q] \in Saving => stamp[q] # at
    <3> SUFFICES ASSUME NEW q \in Processes, pc[q] \in {"compare", "previous"}
                 PROVE  stamp[q] # at
      BY <2>3 DEF Saving
    <3> QED
      BY <2>3 DEF StampInv
  <2>5. /\ pc'[p] = "insert" /\ stamp'[p] = at
        /\ \A q \in Processes \ {p} : pc'[q] = pc[q] /\ stamp'[q] = stamp[q]
    BY <2>1, <2>2 DEF StampInv
  <2>6. StampInv'
    <3>1. /\ pc' \in [Processes -> {"idle", "prepare", "insert", "compare", "previous"}]
          /\ stamp' \in [Processes -> Nat] /\ current' \in [Processes -> Nat]
      BY <2>1, <2>2, <2>3 DEF StampInv
    <3>2. \A q \in Processes :
             /\ pc'[q] # "idle" => current'[q] \in Samples
             /\ pc'[q] \in Saving => stamp'[q] \in Places
             /\ pc'[q] = "insert" =>
                   \A i \in DOMAIN rows' : rows'[i].created_at # stamp'[q]
             /\ pc'[q] \in {"compare", "previous"} =>
                   \E i \in DOMAIN rows' : /\ rows'[i].created_at = stamp'[q]
                                           /\ rows'[i].value = current'[q]
      BY <2>2, <2>3, <2>5 DEF StampInv
    <3>3. \A q, r \in Processes :
             q # r /\ pc'[q] \in Saving /\ pc'[r] \in Saving => stamp'[q] # stamp'[r]
      BY <2>4, <2>5 DEF StampInv
    <3> QED
      BY <3>1, <3>2, <3>3 DEF StampInv
  <2> QED
    BY <2>2, <2>6 DEF TableInv
<1>3. ASSUME NEW p \in Processes, save_snapshot(p) PROVE TypeInv'
  <2> DEFINE row == Row(stamp[p], current[p])
             at == IF subject = "path" THEN "previous" ELSE "compare"
  <2>1. row \in RowType /\ row.created_at = stamp[p] /\ row.value = current[p]
    BY <1>3 DEF save_snapshot, StampInv, Row, RowType
  <2>2. /\ pc[p] \in Busy /\ rows' = Insert(rows, row)
        /\ pc' = [pc EXCEPT ![p] = at]
        /\ stamp' = stamp /\ current' = current
    BY <1>3 DEF save_snapshot, Busy
  <2>3. at \in {"idle", "compare", "previous"}
    OBVIOUS
  <2>4. stamp' \in [Processes -> Nat] /\ current' \in [Processes -> Nat]
    BY <2>2 DEF StampInv
  <2> HIDE DEF row, at
  <2> QED
    BY <2>1, <2>2, <2>3, <2>4, SaveTypes
<1>4. ASSUME NEW p \in Processes, detect_path_change(p) PROVE TypeInv'
  <2>1. PICK row \in RowType : /\ row.created_at = stamp[p] /\ row.value = current[p]
                               /\ rows' = Insert(rows, row)
    BY <1>4, ReportedRow
  <2>2. /\ pc[p] \in Busy /\ pc' = [pc EXCEPT ![p] = "idle"]
        /\ stamp' = [stamp EXCEPT ![p] = 0] /\ current' = [current EXCEPT ![p] = 0]
    BY <1>4 DEF detect_path_change, Busy
  <2>3. stamp' \in [Processes -> Nat] /\ current' \in [Processes -> Nat]
    BY <2>2 DEF StampInv
  <2>4. \A q \in Processes : pc'[q] # "idle" =>
            stamp'[q] = stamp[q] /\ current'[q] = current[q]
    BY <2>2 DEF StampInv
  <2> QED
    BY <2>1, <2>2, <2>3, <2>4, SaveTypes
<1>5. ASSUME NEW p \in Processes, Locked(p) \/ record_and_compare(p)
      PROVE  TypeInv'
  <2>1. /\ pc' = [pc EXCEPT ![p] = "idle"] /\ rows' = rows
        /\ stamp' = [stamp EXCEPT ![p] = 0]
        /\ current' = [current EXCEPT ![p] = 0] \/ current' = current
    BY <1>5 DEF Locked, record_and_compare
  <2>2. stamp' \in [Processes -> Nat] /\ current' \in [Processes -> Nat]
    BY <2>1 DEF StampInv
  <2>3. \A q \in Processes : pc'[q] # "idle" =>
            pc'[q] = pc[q] /\ stamp'[q] = stamp[q] /\ current'[q] = current[q]
    BY <2>1 DEF StampInv
  <2>4. pc' \in [Processes -> {"idle", "prepare", "insert", "compare", "previous"}]
    BY <2>1 DEF StampInv
  <2>5. \A q \in Processes :
           /\ pc'[q] # "idle" => current'[q] \in Samples
           /\ pc'[q] \in Saving => stamp'[q] \in Places
           /\ pc'[q] = "insert" =>
                 \A i \in DOMAIN rows' : rows'[i].created_at # stamp'[q]
           /\ pc'[q] \in {"compare", "previous"} =>
                 \E i \in DOMAIN rows' : /\ rows'[i].created_at = stamp'[q]
                                         /\ rows'[i].value = current'[q]
    BY <2>1, <2>3 DEF StampInv, Saving
  <2>6. \A q \in Processes : pc'[q] \in Saving =>
            pc[q] \in Saving /\ stamp'[q] = stamp[q]
    BY <2>3 DEF Saving
  <2>7. \A q, u \in Processes :
           q # u /\ pc'[q] \in Saving /\ pc'[u] \in Saving => stamp'[q] # stamp'[u]
    BY <2>6 DEF StampInv
  <2>8. StampInv'
    BY <2>2, <2>4, <2>5, <2>7 DEF StampInv
  <2> QED
    BY <2>1, <2>8 DEF TableInv
<1>6. CASE UNCHANGED vars
  BY <1>6 DEF vars, TableInv, StampInv
<1> QED
  BY <1>1, <1>2, <1>3, <1>4, <1>5, <1>6 DEF Next

LEMMA TypeInvAlways == Spec => []TypeInv
  BY InitTypeInv, TypeStep, PTL DEF Spec

\* Rows and locals stay well typed, and the rows in their order although processes
\* commit them out of it and the clock may step back (save_snapshot).
THEOREM TypeCorrect == Spec => []TypeOK
<1>1. TypeInv => TypeOK
  <2> SUFFICES ASSUME TypeInv PROVE TypeOK
    OBVIOUS
  <2>1. \A i \in DOMAIN rows :
           rows[i].created_at \in Times /\ rows[i].value \in Samples
    <3>1. \A i \in DOMAIN rows : rows[i] \in RowType
      BY DEF TypeInv, TableInv
    <3> QED
      BY <3>1 DEF TypeInv, TableInv, RowType, Times
  <2>2. \A i \in 2 .. Len(rows) : rows[i - 1].created_at < rows[i].created_at
    <3>1. \A i \in 2 .. Len(rows) :
             i - 1 \in DOMAIN rows /\ i \in DOMAIN rows /\ i - 1 < i
      BY DEF TypeInv, TableInv
    <3> QED
      BY <3>1 DEF TypeInv, TableInv, Sorted
  <2>3. \A p \in Processes : pc[p] \in {"compare", "previous"} =>
          \E r \in Range(rows) : r.created_at = stamp[p] /\ r.value = current[p]
    BY DEF TypeInv, StampInv, Range
  <2> QED
    BY <2>1, <2>2, <2>3 DEF TypeInv, StampInv, TypeOK
<1> QED
  BY <1>1, TypeInvAlways, PTL

-----------------------------------------------------------------------------
(* Path changes.                                                            *)

\* The row that a report compares with, if any, is in the table.
BeforeInv ==
    \A i \in DOMAIN rows :
        rows[i].before = 0 \/ \E j \in DOMAIN rows : rows[j].created_at = rows[i].before

ChangeInv == TypeInv /\ BeforeInv /\ ChangeSeen

LEMMA InitChangeInv == Init => ChangeInv
<1> SUFFICES ASSUME Init PROVE ChangeInv
  OBVIOUS
<1>1. TypeInv
  BY InitTypeInv
<1>2a. PICK n \in 0 .. Earlier : \E old \in [1 .. n -> Samples] :
          rows = [i \in 1 .. n |-> Row(2 * i, old[i])]
  BY DEF Init
<1>2. PICK old \in [1 .. n -> Samples] : rows = [i \in 1 .. n |-> Row(2 * i, old[i])]
  BY <1>2a
<1>3. \A i \in DOMAIN rows : rows[i].reported = "open" /\ rows[i].before = 0
  BY <1>2 DEF Row
<1> QED
  BY <1>1, <1>3 DEF ChangeInv, BeforeInv, ChangeSeen

\* A place has one row.
LEMMA OnePlace ==
    ASSUME TypeInv, NEW i \in DOMAIN rows, NEW j \in DOMAIN rows,
           rows[i].created_at = rows[j].created_at
    PROVE  i = j
<1>1. rows \in Seq(RowType) /\ Sorted(rows)
  BY DEF TypeInv, TableInv
<1>2. i \in Nat /\ j \in Nat /\ rows[i] \in RowType
  BY <1>1
<1>3. rows[i].created_at \in Nat
  BY <1>2 DEF RowType
<1>4. i < j \/ j < i \/ i = j
  BY <1>2
<1>5. /\ i < j => rows[i].created_at < rows[j].created_at
      /\ j < i => rows[j].created_at < rows[i].created_at
  BY <1>1, Zenon DEF Sorted
<1> QED
  BY <1>3, <1>4, <1>5

\* Another row has the value v at the place b.
Other(b, v) == \E j \in DOMAIN rows : rows[j].created_at = b /\ rows[j].value # v

\* A commit leaves what is at a place that is taken, and nothing is ever at 0.
LEMMA PlaceKept ==
    ASSUME TypeInv, NEW p \in Processes, pc[p] \in Busy, NEW row \in RowType,
           row.created_at = stamp[p], row.value = current[p],
           rows' = Insert(rows, row), NEW b, NEW v,
           b = 0 \/ \E j \in DOMAIN rows : rows[j].created_at = b
    PROVE  /\ Other(b, v)' <=> Other(b, v)
           /\ b = 0 \/ \E j \in DOMAIN rows' : rows'[j].created_at = b
<1>1. /\ \A i \in DOMAIN rows' :
            rows'[i] = row \/ \E j \in DOMAIN rows : rows'[i] = rows[j]
      /\ \E i \in DOMAIN rows' : rows'[i] = row
      /\ \A j \in DOMAIN rows : rows[j].created_at # row.created_at =>
            \E i \in DOMAIN rows' : rows'[i] = rows[j]
  BY Committed, Zenon DEF TypeInv
<1>2. ASSUME NEW j \in DOMAIN rows, rows[j].created_at = stamp[p]
      PROVE  rows[j].value = row.value
  <2>1. pc[p] # "insert"
    BY <1>2 DEF TypeInv, StampInv
  <2>2. pc[p] \in {"compare", "previous"}
    BY <2>1 DEF Busy
  <2>3. PICK o \in DOMAIN rows : rows[o].created_at = stamp[p]
                                 /\ rows[o].value = current[p]
    BY <2>2, Zenon DEF TypeInv, StampInv
  <2>4. o = j
    BY <1>2, <2>3, OnePlace
  <2> QED
    BY <2>3, <2>4
<1>3. stamp[p] # 0
  BY PlacesAssumption DEF TypeInv, StampInv, Saving, Busy
<1>4. ASSUME NEW j \in DOMAIN rows
      PROVE  \E i \in DOMAIN rows' : /\ rows'[i].created_at = rows[j].created_at
                                     /\ rows'[i].value = rows[j].value
  <2>1. CASE rows[j].created_at = stamp[p]
    <3>1. rows[j].value = row.value /\ rows[j].created_at = row.created_at
      BY <1>2, <2>1
    <3>2. PICK i \in DOMAIN rows' : rows'[i] = row
      BY <1>1, Zenon
    <3> QED
      BY <3>1, <3>2, Zenon
  <2>2. CASE rows[j].created_at # stamp[p]
    <3>1. rows[j].created_at # row.created_at
      BY <2>2
    <3>2. PICK i \in DOMAIN rows' : rows'[i] = rows[j]
      BY <1>1, <3>1, Zenon
    <3> QED
      BY <3>2
  <2> QED
    BY <2>1, <2>2
<1>5. ASSUME NEW i \in DOMAIN rows', rows'[i].created_at = b
      PROVE  \E j \in DOMAIN rows : /\ rows[j].created_at = b
                                    /\ rows[j].value = rows'[i].value
  <2>1. CASE rows'[i] = row
    <3>1. PICK j \in DOMAIN rows : rows[j].created_at = b
      BY <1>3, <1>5, <2>1
    <3>2. rows[j].value = row.value
      BY <1>2, <1>5, <2>1, <3>1
    <3> QED
      BY <2>1, <3>1, <3>2
  <2>2. CASE \E j \in DOMAIN rows : rows'[i] = rows[j]
    BY <1>5, <2>2
  <2> QED
    BY <1>1, <2>1, <2>2
<1>6. Other(b, v) => Other(b, v)'
  BY <1>4, Zenon DEF Other
<1>7. Other(b, v)' => Other(b, v)
  BY <1>5, Zenon DEF Other
<1>8. b = 0 \/ \E j \in DOMAIN rows' : rows'[j].created_at = b
  BY <1>4, Zenon
<1> QED
  BY <1>6, <1>7, <1>8

\* A commit falsifies no report, if what the row itself reports is right.
LEMMA ChangeCommit ==
    ASSUME ChangeInv, TypeInv', NEW p \in Processes, pc[p] \in Busy,
           NEW row \in RowType,
           row.created_at = stamp[p], row.value = current[p],
           rows' = Insert(rows, row),
           row.before = 0 \/ \E j \in DOMAIN rows : rows[j].created_at = row.before,
           row.reported # "open" /\ ~row.overtaken =>
               (row.reported = "changed" <=> Other(row.before, row.value))
    PROVE  ChangeInv'
<1>0. TypeInv /\ BeforeInv /\ ChangeSeen
  BY DEF ChangeInv
<1>1. \A i \in DOMAIN rows' :
          rows'[i] = row \/ \E j \in DOMAIN rows : rows'[i] = rows[j]
  BY <1>0, Committed, Zenon DEF TypeInv
<1>2. \A b, v : b = 0 \/ (\E j \in DOMAIN rows : rows[j].created_at = b) =>
          /\ Other(b, v)' <=> Other(b, v)
          /\ b = 0 \/ \E j \in DOMAIN rows' : rows'[j].created_at = b
  BY <1>0, PlaceKept
<1>3. ASSUME NEW i \in DOMAIN rows'
      PROVE  /\ rows'[i].before = 0
                \/ \E j \in DOMAIN rows : rows[j].created_at = rows'[i].before
             /\ rows'[i].reported # "open" /\ ~rows'[i].overtaken =>
                   (rows'[i].reported = "changed"
                      <=> Other(rows'[i].before, rows'[i].value))
  <2>1. CASE rows'[i] = row
    BY <2>1
  <2>2. ASSUME NEW j \in DOMAIN rows, rows'[i] = rows[j]
        PROVE  /\ rows'[i].before = 0
                  \/ \E k \in DOMAIN rows : rows[k].created_at = rows'[i].before
               /\ rows'[i].reported # "open" /\ ~rows'[i].overtaken =>
                     (rows'[i].reported = "changed"
                        <=> Other(rows'[i].before, rows'[i].value))
    <3>1. rows[j].before = 0
            \/ \E k \in DOMAIN rows : rows[k].created_at = rows[j].before
      BY <1>0, Zenon DEF BeforeInv
    <3>2. rows[j].reported # "open" /\ ~rows[j].overtaken =>
              (rows[j].reported = "changed" <=> Differs(j))
      BY <1>0, Zenon DEF ChangeSeen
    <3>3. Differs(j) <=> Other(rows[j].before, rows[j].value)
      BY Zenon DEF Differs, Other
    <3> QED
      BY <2>2, <3>1, <3>2, <3>3
  <2> QED
    BY <1>1, <2>1, <2>2
<1>4. BeforeInv'
  BY <1>2, <1>3, Zenon DEF BeforeInv
<1>5. ChangeSeen'
  <2> SUFFICES ASSUME NEW i \in DOMAIN rows',
                      rows'[i].reported # "open", ~rows'[i].overtaken
               PROVE  rows'[i].reported = "changed" <=> Differs(i)'
    BY Zenon DEF ChangeSeen
  <2>2. PICK b, v : b = rows'[i].before /\ v = rows'[i].value
    OBVIOUS
  <2>3. Other(b, v)' <=> Other(b, v)
    BY <1>2, <1>3, <2>2
  <2>4. Other(b, v)' <=> \E j \in DOMAIN rows' : /\ rows'[j].created_at = b
                                                 /\ rows'[j].value # v
    BY Zenon DEF Other
  <2>1. Other(rows'[i].before, rows'[i].value)
          <=> \E j \in DOMAIN rows' : /\ rows'[j].created_at = rows'[i].before
                                      /\ rows'[j].value # rows'[i].value
    BY <2>2, <2>3, <2>4, Zenon
  <2> QED
    BY <1>3, <2>1, Zenon DEF Differs
<1> QED
  BY <1>4, <1>5 DEF ChangeInv

\* A process that finds its own row the newest reports on the one before.
LEMMA OwnNewest ==
    ASSUME TypeInv, NEW p \in Processes, pc[p] = "previous", NEW before,
           before = LET earlier == {i \in DOMAIN rows : rows[i].created_at < stamp[p]}
                    IN  IF earlier = {} THEN 0 ELSE rows[Max(earlier)].created_at
    PROVE  /\ before = 0 \/ \E j \in DOMAIN rows : rows[j].created_at = before
           /\ rows[Len(rows)].created_at = stamp[p] =>
                 (Other(before, current[p]) <=>
                    /\ has_previous(ValuesOf(rows))
                    /\ previous_snapshot(ValuesOf(rows)) # current[p])
<1> DEFINE earlier == {i \in DOMAIN rows : rows[i].created_at < stamp[p]}
<1>0. rows \in Seq(RowType) /\ Sorted(rows)
  BY DEF TypeInv, TableInv
<1>1. PICK n \in Nat : n = Len(rows) /\ DOMAIN rows = 1 .. n
  BY <1>0
<1>2. earlier \in SUBSET (0 .. n) /\ earlier \subseteq 1 .. n
  BY <1>1
<1>3. before = IF earlier = {} THEN 0 ELSE rows[Max(earlier)].created_at
  OBVIOUS
<1>4. earlier # {} => Max(earlier) \in earlier /\ \A y \in earlier : Max(earlier) >= y
  BY <1>2, MaxOf
<1>5. before = 0 \/ \E j \in DOMAIN rows : rows[j].created_at = before
  BY <1>1, <1>2, <1>3, <1>4
<1>6. ASSUME rows[n].created_at = stamp[p]
      PROVE  Other(before, current[p])
               <=> n > 1 /\ rows[n - 1].value # current[p]
  <2>1. n > 0
    BY <1>1 DEF TypeInv, StampInv
  <2>2. \A i \in 1 .. n : i < n => i \in earlier
    <3>1. \A i \in 1 .. n : i < n => rows[i].created_at < rows[n].created_at
      <4>1. n \in 1 .. n
        BY <2>1
      <4> QED
        BY <1>0, <1>1, <4>1, Zenon DEF Sorted
    <3> QED
      BY <1>1, <1>6, <3>1
  <2>3. n \notin earlier
    <3>1. stamp[p] \in Nat
      BY DEF TypeInv, StampInv
    <3> QED
      BY <1>6, <3>1
  <2> HIDE DEF earlier
  <2>4. CASE n = 1
    <3>1. earlier = {}
      BY <1>2, <2>3, <2>4
    <3>2. before = 0
      BY <1>3, <3>1
    <3>3. \A j \in DOMAIN rows : rows[j].created_at # 0
      <4>1. \A k \in 1 .. Earlier : 2 * k # 0
        BY EarlierAssumption
      <4>2. 0 \notin Places
        BY PlacesAssumption
      <4> QED
        BY <4>1, <4>2 DEF TypeInv, TableInv
    <3> QED
      BY <2>4, <3>2, <3>3 DEF Other
  <2>5. CASE n > 1
    <3>1. n - 1 \in 1 .. n /\ n - 1 \in earlier
      BY <2>2, <2>5
    <3>2. Max(earlier) \in 1 .. n /\ Max(earlier) # n /\ Max(earlier) >= n - 1
      BY <1>2, <1>4, <2>3, <3>1
    <3>3. Max(earlier) = n - 1
      BY <3>1, <3>2
    <3>4. before = rows[n - 1].created_at
      BY <1>3, <3>1, <3>3, Zenon
    <3>5. \A j \in DOMAIN rows : rows[j].created_at = before => j = n - 1
      BY <1>1, <3>1, <3>4, OnePlace
    <3> QED
      BY <1>1, <2>5, <3>1, <3>4, <3>5 DEF Other
  <2> QED
    BY <2>1, <2>4, <2>5
<1>7. has_previous(ValuesOf(rows)) /\ previous_snapshot(ValuesOf(rows)) # current[p]
        <=> n > 1 /\ rows[n - 1].value # current[p]
  <2> DEFINE newest == ValuesOf(rows)
  <2>1. newest = [i \in 1 .. n |-> rows[i].value] /\ Len(newest) = n
    BY <1>1 DEF ValuesOf
  <2> HIDE DEF newest
  <2>2. n > 1 => newest[n - 1] = rows[n - 1].value
    BY <1>1, <2>1
  <2>3. has_previous(newest) /\ previous_snapshot(newest) # current[p]
          <=> n > 1 /\ rows[n - 1].value # current[p]
    BY <2>1, <2>2 DEF has_previous, previous_snapshot
  <2> QED
    BY <2>3 DEF newest
<1> QED
  BY <1>1, <1>5, <1>6, <1>7

LEMMA ChangeStep ==
    ASSUME ChangeInv, [Next]_vars
    PROVE  ChangeInv'
<1>0. TypeInv /\ TypeInv'
  BY TypeStep DEF ChangeInv
<1>1. ASSUME rows' = rows PROVE ChangeInv'
  BY <1>0, <1>1 DEF ChangeInv, BeforeInv, ChangeSeen, Differs
<1>2. ASSUME NEW p \in Processes, save_snapshot(p) PROVE ChangeInv'
  <2> DEFINE row == Row(stamp[p], current[p])
  <2>1. /\ row \in RowType /\ row.created_at = stamp[p] /\ row.value = current[p]
        /\ row.before = 0 /\ row.reported = "open"
    BY <1>0, <1>2 DEF save_snapshot, TypeInv, StampInv, Row, RowType
  <2>2. pc[p] \in Busy /\ rows' = Insert(rows, row)
    BY <1>2 DEF save_snapshot, Busy
  <2> HIDE DEF row
  <2> QED
    BY <1>0, <2>1, <2>2, ChangeCommit
<1>3. ASSUME NEW p \in Processes, detect_path_change(p) PROVE ChangeInv'
  <2>1. pc[p] = "previous" /\ pc[p] \in Busy
    BY <1>3 DEF detect_path_change, Busy
  <2>2. PICK row \in RowType :
              /\ row.created_at = stamp[p] /\ row.value = current[p]
              /\ rows' = Insert(rows, row)
              /\ row.reported = "changed" <=>
                    /\ has_previous(ValuesOf(rows))
                    /\ previous_snapshot(ValuesOf(rows)) # current[p]
              /\ row.before = LET earlier == {i \in DOMAIN rows :
                                                 rows[i].created_at < stamp[p]}
                              IN  IF earlier = {} THEN 0
                                  ELSE rows[Max(earlier)].created_at
              /\ row.overtaken = (rows[Len(rows)].created_at # stamp[p])
    BY <1>0, <1>3, ReportedRow
  <2>3. /\ row.before = 0 \/ \E j \in DOMAIN rows : rows[j].created_at = row.before
        /\ rows[Len(rows)].created_at = stamp[p] =>
              (Other(row.before, current[p]) <=>
                 /\ has_previous(ValuesOf(rows))
                 /\ previous_snapshot(ValuesOf(rows)) # current[p])
    BY <1>0, <2>1, <2>2, OwnNewest
  <2>4. row.reported # "open" /\ ~row.overtaken =>
            (row.reported = "changed" <=> Other(row.before, row.value))
    BY <2>2, <2>3
  <2> QED
    BY <1>0, <2>1, <2>2, <2>3, <2>4, ChangeCommit
<1>4. ASSUME NEW p \in Processes, NEW v \in Samples, rolling_values(p, v) \/ Trace(p, v)
      PROVE  rows' = rows
  BY <1>4 DEF rolling_values, Trace
<1>5. ASSUME NEW p \in Processes, Prepare(p) \/ Locked(p) \/ record_and_compare(p)
      PROVE  rows' = rows
  BY <1>5 DEF Prepare, Locked, record_and_compare
<1>6. UNCHANGED vars => rows' = rows
  BY DEF vars
<1> QED
  BY <1>1, <1>2, <1>3, <1>4, <1>5, <1>6 DEF Next

\* detect_path_change reports a row as a change exactly when it differs from the
\* row before it, if its own is the newest when it reads, and no later commit
\* falsifies that, for any number of processes and any times: a place is taken
\* once and its row keeps its path.
THEOREM ChangeSeenAlways == Spec => []ChangeSeen
<1>1. Spec => []ChangeInv
  BY InitChangeInv, ChangeStep, PTL DEF Spec
<1>2. ChangeInv => ChangeSeen
  BY DEF ChangeInv
<1> QED
  BY <1>1, <1>2, PTL

-----------------------------------------------------------------------------
(* Order statistics.                                                        *)

\* How the sizes of two sets of positions compare.
LEMMA Counting ==
    ASSUME NEW n \in Nat, NEW S \in SUBSET (1 .. n), NEW T \in SUBSET (1 .. n)
    PROVE  /\ Cardinality(S) \in Nat /\ Cardinality(S) <= n
           /\ S \subseteq T => Cardinality(S) <= Cardinality(T)
           /\ S \cap T = {} => Cardinality(S) + Cardinality(T) <= n
           /\ S \cup T = 1 .. n => Cardinality(S) + Cardinality(T) >= n
           /\ S = {} => Cardinality(S) = 0
           /\ S = 1 .. n => Cardinality(S) = n
<1>1. IsFiniteSet(1 .. n) /\ Cardinality(1 .. n) = n
  BY FS_Interval
<1>2. \A X \in SUBSET (1 .. n) : IsFiniteSet(X) /\ Cardinality(X) <= n
  BY <1>1, FS_Subset, Zenon
<1>3. \A X \in SUBSET (1 .. n) : Cardinality(X) \in Nat
  BY <1>2, FS_CardinalityType, Zenon
<1>4. S \subseteq T => Cardinality(S) <= Cardinality(T)
  BY <1>2, FS_Subset, Zenon
<1>5. Cardinality(S \cup T) = Cardinality(S) + Cardinality(T) - Cardinality(S \cap T)
  BY <1>2, FS_Union, Zenon
<1>6. S \cup T \in SUBSET (1 .. n) /\ S \cap T \in SUBSET (1 .. n)
  OBVIOUS
<1>7. Cardinality({}) = 0
  BY FS_EmptySet
<1>8. /\ Cardinality(S) \in Nat /\ Cardinality(T) \in Nat
      /\ Cardinality(S \cup T) \in Nat /\ Cardinality(S \cap T) \in Nat
      /\ Cardinality(S) <= n /\ Cardinality(S \cup T) <= n
  BY <1>2, <1>3, <1>6
<1>9. ASSUME S \cap T = {} PROVE Cardinality(S) + Cardinality(T) <= n
  <2>1. Cardinality(S \cap T) = 0
    BY <1>7, <1>9
  <2> QED
    BY <1>5, <1>8, <2>1
<1>10. ASSUME S \cup T = 1 .. n PROVE Cardinality(S) + Cardinality(T) >= n
  <2>1. Cardinality(S \cup T) = n
    BY <1>1, <1>10
  <2> QED
    BY <1>5, <1>8, <2>1
<1> QED
  BY <1>1, <1>4, <1>7, <1>8, <1>9, <1>10

\* Finitely many samples have a bound.
LEMMA Bounded ==
    ASSUME NEW n \in Nat, NEW s \in [1 .. n -> Nat]
    PROVE  \E b \in Nat : \A i \in 1 .. n : s[i] <= b
<1> DEFINE U == {j \in 0 .. n : ~ \E b \in Nat : \A i \in 1 .. j : s[i] <= b}
<1>1. CASE U = {}
  <2>1. n \in 0 .. n
    OBVIOUS
  <2> QED
    BY <1>1, <2>1
<1>2. CASE U # {}
  <2>1. PICK j \in U : \A i \in U : j <= i
    BY <1>2, MinOf, U \in SUBSET Nat
  <2>2. j # 0
    <3>1. \A i \in 1 .. 0 : s[i] <= 0
      OBVIOUS
    <3> QED
      BY <2>1, <3>1
  <2>3. j - 1 \in 0 .. n /\ j - 1 \notin U
    <3>1. j \in 0 .. n
      BY <2>1
    <3>2. j - 1 \in 0 .. n
      BY <2>2, <3>1
    <3> HIDE DEF U
    <3>3. j - 1 \in U => j <= j - 1
      BY <2>1
    <3> QED
      BY <3>1, <3>2, <3>3
  <2>4. PICK b \in Nat : \A i \in 1 .. j - 1 : s[i] <= b
    BY <2>3
  <2>5. s[j] \in Nat /\ j \in 1 .. n
    BY <2>1, <2>2
  <2> DEFINE c == IF s[j] <= b THEN b ELSE s[j]
  <2>6. c \in Nat /\ b <= c /\ s[j] <= c
    BY <2>5
  <2> HIDE DEF c
  <2>7. \A i \in 1 .. j : s[i] <= c
    BY <2>4, <2>5, <2>6
  <2> QED
    BY <2>1, <2>6, <2>7
<1> QED
  BY <1>1, <1>2

\* There is a k-th smallest sample: fewer than k are below it, and with those
\* equal to it k or more are reached.
LEMMA Rank ==
    ASSUME NEW n \in Nat, NEW s \in [1 .. n -> Nat], NEW k \in 1 .. n
    PROVE  /\ Ascending(s)[k] \in Nat
           /\ \E i \in 1 .. n : Ascending(s)[k] = s[i]
           /\ Below(s, Ascending(s)[k]) < k /\ k <= UpTo(s, Ascending(s)[k])
<1>0. DOMAIN s = 1 .. n /\ \A i \in 1 .. n : s[i] \in Nat
  OBVIOUS
<1>1. PICK b \in Nat : \A i \in 1 .. n : s[i] <= b
  BY Bounded
<1> DEFINE V == {v \in Nat : k <= UpTo(s, v)}
<1>2. b \in V
  <2>1. {i \in DOMAIN s : s[i] <= b} = 1 .. n
    BY <1>0, <1>1
  <2>2. UpTo(s, b) = n
    BY <2>1, Counting DEF UpTo
  <2> QED
    BY <2>2
<1>3. PICK v \in V : \A w \in V : v <= w
  BY <1>2, MinOf, V \in SUBSET Nat
<1>4. Below(s, v) < k
  <2>1. CASE v = 0
    <3>1. {i \in DOMAIN s : s[i] < v} = {}
      BY <1>0, <2>1
    <3> QED
      BY <3>1, Counting DEF Below
  <2>2. CASE v # 0
    <3>1. v - 1 \in Nat /\ v - 1 \notin V
      BY <1>3, <2>2
    <3>2. {i \in DOMAIN s : s[i] < v} = {i \in DOMAIN s : s[i] <= v - 1}
      BY <1>0, <1>3
    <3>3. Below(s, v) = UpTo(s, v - 1)
      BY <3>2 DEF Below, UpTo
    <3>4. UpTo(s, v - 1) \in Nat
      BY <1>0, Counting, {i \in DOMAIN s : s[i] <= v - 1} \in SUBSET (1 .. n) DEF UpTo
    <3> QED
      BY <3>1, <3>3, <3>4
  <2> QED
    BY <2>1, <2>2
<1>5. v \in Range(s)
  <2> SUFFICES ASSUME v \notin Range(s) PROVE FALSE
    OBVIOUS
  <2>1. {i \in DOMAIN s : s[i] < v} = {i \in DOMAIN s : s[i] <= v}
    BY <1>0, <1>3 DEF Range
  <2>2. Below(s, v) = UpTo(s, v)
    BY <2>1 DEF Below, UpTo
  <2>3. UpTo(s, v) \in Nat
    BY <1>0, Counting, {i \in DOMAIN s : s[i] <= v} \in SUBSET (1 .. n) DEF UpTo
  <2> QED
    BY <1>3, <1>4, <2>2, <2>3
<1> DEFINE a == CHOOSE x \in Range(s) : Below(s, x) < k /\ k <= UpTo(s, x)
<1>6. a \in Range(s) /\ Below(s, a) < k /\ k <= UpTo(s, a)
  BY <1>3, <1>4, <1>5, Zenon
<1>7. Ascending(s)[k] = a
  BY <1>0, Zenon DEF Ascending
<1> HIDE DEF a
<1>8. \E i \in 1 .. n : a = s[i]
  BY <1>0, <1>6 DEF Range
<1> QED
  BY <1>0, <1>6, <1>7, <1>8

\* The two samples that make the median, each with half of the window on its
\* side.
LEMMA Medians ==
    ASSUME NEW n \in Nat \ {0}, NEW s \in [1 .. n -> Nat], Len(s) = n
    PROVE  \E a, b \in Nat :
             /\ Median2(s) = a + b /\ a <= b
             /\ 2 * UpTo(s, a) >= n /\ 2 * Below(s, a) <= n
             /\ 2 * UpTo(s, b) > n /\ 2 * Below(s, b) <= n
             /\ Below(s, a) \in Nat /\ Below(s, b) \in Nat
             /\ UpTo(s, a) \in Nat /\ UpTo(s, b) \in Nat
<1> DEFINE lo == (n + 1) \div 2
           hi == n \div 2 + 1
           a == Ascending(s)[lo]
           b == Ascending(s)[hi]
<1>1. lo \in 1 .. n /\ hi \in 1 .. n /\ lo <= hi
      /\ 2 * lo >= n /\ 2 * (lo - 1) <= n /\ 2 * hi > n /\ 2 * (hi - 1) <= n
  OBVIOUS
<1>2. Median2(s) = a + b
  BY DEF Median2
<1> HIDE DEF lo, hi
<1>3. /\ a \in Nat /\ Below(s, a) < lo /\ lo <= UpTo(s, a)
      /\ b \in Nat /\ Below(s, b) < hi /\ hi <= UpTo(s, b)
  BY <1>1, Rank
<1> HIDE DEF a, b
<1>4. DOMAIN s = 1 .. n /\ \A i \in 1 .. n : s[i] \in Nat
  OBVIOUS
<1>5. /\ Below(s, a) \in Nat /\ Below(s, b) \in Nat
      /\ UpTo(s, a) \in Nat /\ UpTo(s, b) \in Nat
  <2>1. \A v : /\ {i \in DOMAIN s : s[i] < v} \in SUBSET (1 .. n)
               /\ {i \in DOMAIN s : s[i] <= v} \in SUBSET (1 .. n)
    BY <1>4
  <2> QED
    BY <2>1, Counting DEF Below, UpTo
<1>6. a <= b
  <2> SUFFICES ASSUME b < a PROVE FALSE
    BY <1>3
  <2>1. {i \in DOMAIN s : s[i] <= b} \subseteq {i \in DOMAIN s : s[i] < a}
    BY <1>3, <1>4
  <2>2. UpTo(s, b) <= Below(s, a)
    BY <1>4, <2>1, Counting DEF UpTo, Below
  <2> QED
    BY <1>1, <1>3, <1>5, <2>2
<1>7. /\ 2 * UpTo(s, a) >= n /\ 2 * Below(s, a) <= n
      /\ 2 * UpTo(s, b) > n /\ 2 * Below(s, b) <= n
  <2>1. lo \in Int /\ hi \in Int
    BY <1>1
  <2>2. 2 * UpTo(s, a) >= n
    BY <1>1, <1>3, <1>5, <2>1
  <2>3. 2 * Below(s, a) <= n
    BY <1>1, <1>3, <1>5, <2>1
  <2>4. 2 * UpTo(s, b) > n
    BY <1>1, <1>3, <1>5, <2>1
  <2>5. 2 * Below(s, b) <= n
    BY <1>1, <1>3, <1>5, <2>1
  <2> QED
    BY <2>2, <2>3, <2>4, <2>5
<1> QED
  BY <1>2, <1>3, <1>5, <1>6, <1>7

\* The 95th percentile lies between two samples.
LEMMA Blend ==
    ASSUME NEW x \in Nat, NEW y \in Nat, NEW c \in Nat, x < c, y < c,
           NEW d \in 0 .. 19
    PROVE  x * (20 - d) + y * d < 20 * c
<1>1. d \in {0, 1, 2, 3, 4, 5, 6, 7, 8, 9, 10, 11, 12, 13, 14, 15, 16, 17, 18, 19}
  OBVIOUS
<1> QED
  BY <1>1

LEMMA Percentile ==
    ASSUME NEW n \in Nat, n >= 2, NEW s \in [1 .. n -> Nat], Len(s) = n,
           NEW c \in Nat, \A i \in 1 .. n : s[i] < c
    PROVE  P95x20(s) < 20 * c
<1> DEFINE m == n - 1
           j == (19 * m) \div 20
           d == (19 * m) % 20
           x == Ascending(s)[j + 1]
           y == Ascending(s)[j + 2]
<1>1. j + 1 \in 1 .. n /\ j + 2 \in 1 .. n /\ d \in 0 .. 19 /\ m # 0
  OBVIOUS
<1>2. P95x20(s) = x * (20 - d) + y * d
  BY <1>1 DEF P95x20
<1> HIDE DEF m, j, d
<1>3. \A k \in 1 .. n : Ascending(s)[k] \in Nat /\ \E i \in 1 .. n : Ascending(s)[k] = s[i]
  BY Rank
<1>4. x \in Nat /\ x < c /\ y \in Nat /\ y < c
  BY <1>1, <1>3
<1> HIDE DEF x, y
<1> QED
  BY <1>1, <1>2, <1>4, Blend

\* The window holds the newest samples, all of them if they are few.
LEMMA NewestWindow ==
    ASSUME NEW S, NEW s \in Seq(S), NEW w \in Nat \ {0}
    PROVE  /\ Newest(s, w) \in Seq(S) /\ Len(Newest(s, w)) <= w
           /\ Len(s) <= w => Newest(s, w) = s
<1>1. PICK n \in Nat : n = Len(s) /\ DOMAIN s = 1 .. n
  OBVIOUS
<1> DEFINE m == Max({1, n - w + 1})
<1>2. m = IF n - w + 1 >= 1 THEN n - w + 1 ELSE 1
  BY <1>1 DEF Max
<1>3. m \in 1 .. n + 1 /\ n - m + 1 <= w /\ (n <= w => m = 1)
  BY <1>1, <1>2
<1>4. Newest(s, w) = SubSeq(s, m, n)
  BY <1>1 DEF Newest
<1> HIDE DEF m
<1>5. SubSeq(s, m, n) \in Seq(S) /\ Len(SubSeq(s, m, n)) = n - m + 1
  BY <1>1, <1>3
<1>6. SubSeq(s, 1, n) = s
  BY <1>1
<1> QED
  BY <1>1, <1>3, <1>4, <1>5, <1>6

-----------------------------------------------------------------------------
(* Verdicts.                                                                *)

Judgement(p) ==
    compare(rolling_stats(values[p], Window), current[p], subject = "latency", 5)

VerdictInv ==
    /\ values \in [Processes -> Seq(Samples)]
    /\ \A p \in Processes : Len(values[p]) <= Window
    /\ DOMAIN verdict = Processes
    /\ \A p \in Processes : pc[p] # "idle" => ~Judged(p)
    /\ \A p \in Processes : Judged(p) => verdict[p] = Judgement(p)

LEMMA InitVerdictInv == Init => VerdictInv
<1> SUFFICES ASSUME Init PROVE VerdictInv
  OBVIOUS
<1>1. \A p \in Processes : values[p] = << >> /\ verdict[p] = NoVerdict
  BY DEF Init
<1>2. values \in [Processes -> Seq(Samples)] /\ DOMAIN verdict = Processes
  BY DEF Init
<1> QED
  BY <1>1, <1>2, WindowAssumption DEF VerdictInv, Judged

\* What a process judged by stays until it starts on another sample.
LEMMA VerdictStep ==
    ASSUME TypeInv, VerdictInv, [Next]_vars
    PROVE  VerdictInv'
<1> USE DEF Judged, Judgement
<1>0. /\ current \in [Processes -> Nat]
      /\ pc \in [Processes -> {"idle", "prepare", "insert", "compare", "previous"}]
  BY DEF TypeInv, StampInv
<1>1. ASSUME NEW p \in Processes, NEW v \in Samples, rolling_values(p, v)
      PROVE  VerdictInv'
  <2> DEFINE w == Newest(ValuesOf(rows), Window)
  <2>1. w \in Seq(Samples) /\ Len(w) <= Window
    <3>1. rows \in Seq(RowType)
      BY DEF TypeInv, TableInv
    <3>2. \A i \in DOMAIN rows : rows[i] \in RowType
      BY <3>1
    <3>3. \A i \in DOMAIN rows : rows[i].value \in Samples
      BY <3>2 DEF RowType
    <3>4. DOMAIN rows = 1 .. Len(rows) /\ Len(rows) \in Nat
      BY <3>1
    <3>5. ValuesOf(rows) \in Seq(Samples)
      BY <3>3, <3>4 DEF ValuesOf
    <3> QED
      BY <3>5, NewestWindow, WindowAssumption
  <2>2. /\ values' = [values EXCEPT ![p] = w]
        /\ verdict' = [verdict EXCEPT ![p] = NoVerdict]
        /\ current' = [current EXCEPT ![p] = v] /\ subject' = subject
        /\ pc' = [pc EXCEPT ![p] = "prepare"]
    BY <1>1 DEF rolling_values
  <2> HIDE DEF w
  <2> QED
    BY <1>0, <2>1, <2>2 DEF VerdictInv
<1>2. ASSUME NEW p \in Processes, NEW v \in Samples, Trace(p, v)
      PROVE  VerdictInv'
  BY <1>0, <1>2 DEF VerdictInv, Trace
<1>3. ASSUME NEW p \in Processes, record_and_compare(p) PROVE VerdictInv'
  <2>1. /\ verdict' = [verdict EXCEPT ![p] = Judgement(p)]
        /\ UNCHANGED <<values, current, subject>>
        /\ pc' = [pc EXCEPT ![p] = "idle"]
    BY <1>3, Zenon DEF record_and_compare
  <2> QED
    BY <1>0, <2>1 DEF VerdictInv
\* What ended without a verdict drops what it would have been judged by.
<1>4. ASSUME NEW p \in Processes, Locked(p) \/ detect_path_change(p)
      PROVE  VerdictInv'
  <2>1. /\ pc[p] # "idle" /\ pc' = [pc EXCEPT ![p] = "idle"]
        /\ verdict' = verdict /\ subject' = subject
        /\ current' = [current EXCEPT ![p] = 0]
        /\ values' = values \/ values' = [values EXCEPT ![p] = << >>]
    BY <1>4 DEF Locked, detect_path_change
  <2>2. /\ verdict'[p] = NoVerdict
        /\ \A q \in Processes \ {p} : /\ values'[q] = values[q]
                                       /\ current'[q] = current[q] /\ pc'[q] = pc[q]
    BY <1>0, <2>1 DEF VerdictInv
  <2>3. /\ values' \in [Processes -> Seq(Samples)]
        /\ \A q \in Processes : Len(values'[q]) <= Window
    <3>1. << >> \in Seq(Samples) /\ Len(<< >>) <= Window
      BY WindowAssumption
    <3>2. /\ values' \in [Processes -> Seq(Samples)]
          /\ \A q \in Processes : values'[q] = values[q] \/ values'[q] = << >>
      BY <2>1, <3>1 DEF VerdictInv
    <3> QED
      BY <3>1, <3>2 DEF VerdictInv
  <2>4. \A q \in Processes : verdict'[q] = verdict[q]
    BY <2>1
  <2>5. \A q \in Processes : Judged(q)' => q # p
    BY <2>2
  <2>6. \A q \in Processes : pc'[q] # "idle" => ~Judged(q)'
    BY <1>0, <2>1, <2>4 DEF VerdictInv
  <2>7. \A q \in Processes : Judged(q)' => verdict'[q] = Judgement(q)'
    <3> HIDE DEF Judgement
    <3>1. \A q \in Processes : Judged(q)' => Judged(q) /\ verdict'[q] = Judgement(q)
      BY <2>4 DEF VerdictInv
    <3>2. \A q \in Processes \ {p} : Judgement(q)' = Judgement(q)
      BY <2>1, <2>2 DEF Judgement
    <3> QED
      BY <2>5, <3>1, <3>2
  <2> QED
    BY <2>1, <2>3, <2>6, <2>7 DEF VerdictInv
<1>5. ASSUME NEW p \in Processes, Prepare(p) \/ save_snapshot(p)
      PROVE  VerdictInv'
  <2>1. /\ pc[p] # "idle" /\ \E at : pc' = [pc EXCEPT ![p] = at]
        /\ UNCHANGED <<values, verdict, current, subject>>
    BY <1>5 DEF Prepare, save_snapshot
  <2>2. \A q \in Processes : pc'[q] # "idle" => pc[q] # "idle"
    BY <1>0, <2>1
  <2> QED
    BY <2>1, <2>2 DEF VerdictInv
<1>6. CASE UNCHANGED vars
  BY <1>6 DEF vars, VerdictInv
<1> QED
  BY <1>1, <1>2, <1>3, <1>4, <1>5, <1>6 DEF Next

LEMMA VerdictInvAlways == Spec => [](TypeInv /\ VerdictInv)
  BY InitTypeInv, TypeStep, InitVerdictInv, VerdictStep, PTL DEF Spec

\* What the verdict is, of a window that was not empty or of an empty one.
LEMMA VerdictOf ==
    ASSUME NEW s \in Seq(Samples), Len(s) <= Window, NEW c, NEW h
    PROVE  LET stats == rolling_stats(s, Window)
               r == compare(stats, c, h, 5)
           IN  /\ r.deviated => Len(s) >= 5
               /\ Len(s) >= 5 =>
                    /\ stats.median2 = Median2(s) /\ stats.p95x20 = P95x20(s)
                    /\ r.deviated <=>
                          /\ Median2(s) # 0
                          /\ IF h THEN 4 * c >= 3 * Median2(s)
                                        /\ meaningful_delta(stats, c, 5)
                             ELSE 3 * c <= Median2(s)
                    /\ Median2(s) # 0 /\ h /\ 4 * c >= 5 * Median2(s)
                         /\ meaningful_delta(stats, c, 5) => r.status = "failed"
<1>1. Newest(s, Window) = s /\ Len(s) \in Nat /\ Len(<< >>) = 0
  BY NewestWindow, WindowAssumption
<1>2. rolling_stats(s, Window).sample_count = Len(s)
  BY <1>1 DEF rolling_stats
<1>3. Len(s) >= 5 => /\ rolling_stats(s, Window).median2 = Median2(s)
                     /\ rolling_stats(s, Window).p95x20 = P95x20(s)
  BY <1>1 DEF rolling_stats
<1> DEFINE stats == rolling_stats(s, Window)
<1> HIDE DEF stats
<1>4. stats.sample_count = Len(s)
      /\ (Len(s) >= 5 => stats.median2 = Median2(s) /\ stats.p95x20 = P95x20(s))
  BY <1>2, <1>3 DEF stats
<1> DEFINE r == compare(stats, c, h, 5)
<1>5. r.deviated <=> /\ stats.median2 # 0 /\ stats.sample_count >= 5
                     /\ IF h THEN 4 * c >= 3 * stats.median2
                                   /\ meaningful_delta(stats, c, 5)
                        ELSE 3 * c <= stats.median2
  BY Zenon DEF compare
<1>6. /\ stats.median2 # 0 /\ stats.sample_count >= 5 /\ h
      /\ 4 * c >= 5 * stats.median2 /\ meaningful_delta(stats, c, 5)
      => r.status = "failed"
  BY Zenon DEF compare
<1> HIDE DEF r
<1>7. /\ r.deviated => Len(s) >= 5
      /\ Len(s) >= 5 =>
           /\ stats.median2 = Median2(s) /\ stats.p95x20 = P95x20(s)
           /\ r.deviated <=>
                 /\ Median2(s) # 0
                 /\ IF h THEN 4 * c >= 3 * Median2(s)
                               /\ meaningful_delta(stats, c, 5)
                    ELSE 3 * c <= Median2(s)
           /\ Median2(s) # 0 /\ h /\ 4 * c >= 5 * Median2(s)
                /\ meaningful_delta(stats, c, 5) => r.status = "failed"
  BY <1>4, <1>5, <1>6, Zenon
<1> QED
  BY <1>7, Zenon DEF r, stats

\* How many samples of s are in S.
Count(s, S) == Cardinality({i \in DOMAIN s : s[i] \in S})

LEMMA SamplesAreNat ==
    ASSUME NEW s \in Seq(Samples)
    PROVE  /\ \A i \in 1 .. Len(s) : s[i] \in Samples /\ s[i] \in Nat
           /\ s \in [1 .. Len(s) -> Nat]
<1>1. Len(s) \in Nat /\ s \in [1 .. Len(s) -> Samples]
  OBVIOUS
<1>2. \A i \in 1 .. Len(s) : s[i] \in Samples
  BY <1>1
<1>3. \A i \in 1 .. Len(s) : s[i] \in Nat
  BY <1>2, SamplesAssumption
<1> QED
  BY <1>1, <1>2, <1>3

\* Half of the window is on the far side of a median that the sample deviates
\* from.
LEMMA Minority ==
    ASSUME NEW s \in Seq(Samples), Len(s) >= 5, NEW c \in Nat
    PROVE  /\ 4 * c >= 3 * Median2(s) =>
                2 * Count(s, {v \in Samples : 3 * v <= 2 * c}) >= Len(s)
           /\ 3 * c <= Median2(s) =>
                2 * Count(s, {v \in Samples : 2 * v >= 3 * c}) >= Len(s)
<1>1. PICK n \in Nat \ {0} : n = Len(s) /\ DOMAIN s = 1 .. n
  OBVIOUS
<1>2. \A i \in 1 .. n : s[i] \in Samples /\ s[i] \in Nat
  BY <1>1, SamplesAreNat
<1>3. s \in [1 .. n -> Nat]
  BY <1>1, SamplesAreNat
<1>4. PICK a \in Nat, b \in Nat :
             /\ Median2(s) = a + b /\ a <= b
             /\ 2 * UpTo(s, a) >= n /\ 2 * Below(s, b) <= n
             /\ UpTo(s, a) \in Nat /\ Below(s, b) \in Nat
  BY <1>1, <1>3, Medians
<1>5. ASSUME 4 * c >= 3 * Median2(s)
      PROVE  2 * Count(s, {v \in Samples : 3 * v <= 2 * c}) >= n
  <2> DEFINE S == {i \in DOMAIN s : s[i] <= a}
             T == {i \in DOMAIN s : s[i] \in {v \in Samples : 3 * v <= 2 * c}}
  <2>1. 3 * a <= 2 * c
    BY <1>4, <1>5
  <2>2. S \subseteq T /\ S \in SUBSET (1 .. n) /\ T \in SUBSET (1 .. n)
    BY <1>1, <1>2, <2>1
  <2>3. UpTo(s, a) = Cardinality(S) /\ Count(s, {v \in Samples : 3 * v <= 2 * c}) = Cardinality(T)
    BY DEF UpTo, Count
  <2> HIDE DEF S, T
  <2>4. Cardinality(S) <= Cardinality(T) /\ Cardinality(T) \in Nat
    BY <2>2, Counting
  <2> QED
    BY <1>4, <2>3, <2>4
<1>6. ASSUME 3 * c <= Median2(s)
      PROVE  2 * Count(s, {v \in Samples : 2 * v >= 3 * c}) >= n
  <2> DEFINE S == {i \in DOMAIN s : s[i] < b}
             T == {i \in DOMAIN s : s[i] \in {v \in Samples : 2 * v >= 3 * c}}
  <2>1. 2 * b >= 3 * c
    BY <1>4, <1>6
  <2>2. S \cup T = 1 .. n /\ S \in SUBSET (1 .. n) /\ T \in SUBSET (1 .. n)
    BY <1>1, <1>2, <2>1
  <2>3. Below(s, b) = Cardinality(S) /\ Count(s, {v \in Samples : 2 * v >= 3 * c}) = Cardinality(T)
    BY DEF Below, Count
  <2> HIDE DEF S, T
  <2>4. Cardinality(S) + Cardinality(T) >= n /\ Cardinality(T) \in Nat
    BY <2>2, Counting
  <2> QED
    BY <1>4, <2>3, <2>4
<1> QED
  BY <1>1, <1>5, <1>6

\* The median is on the side of the samples that are more than half.
LEMMA Majority ==
    ASSUME NEW s \in Seq(Samples), Len(s) >= 5, NEW c \in Nat
    PROVE  /\ 2 * Count(s, {v \in Samples : v > 0 /\ 5 * v <= 2 * c}) > Len(s) =>
                Median2(s) # 0 /\ 4 * c >= 5 * Median2(s) /\ 4 * c >= 3 * Median2(s)
           /\ 2 * Count(s, {v \in Samples : v > 0 /\ 2 * v >= 3 * c}) > Len(s) =>
                Median2(s) # 0 /\ 3 * c <= Median2(s)
<1>1. PICK n \in Nat \ {0} : n = Len(s) /\ DOMAIN s = 1 .. n
  OBVIOUS
<1>2. \A i \in 1 .. n : s[i] \in Samples /\ s[i] \in Nat
  BY <1>1, SamplesAreNat
<1>3. s \in [1 .. n -> Nat]
  BY <1>1, SamplesAreNat
<1>4. PICK a \in Nat, b \in Nat :
             /\ Median2(s) = a + b /\ a <= b
             /\ 2 * UpTo(s, a) >= n /\ 2 * UpTo(s, b) > n /\ 2 * Below(s, b) <= n
             /\ UpTo(s, a) \in Nat /\ UpTo(s, b) \in Nat /\ Below(s, b) \in Nat
  BY <1>1, <1>3, Medians
<1>5. ASSUME 2 * Count(s, {v \in Samples : v > 0 /\ 5 * v <= 2 * c}) > n
      PROVE  b > 0 /\ 5 * b <= 2 * c
  <2> DEFINE T == {i \in DOMAIN s : s[i] \in {v \in Samples : v > 0 /\ 5 * v <= 2 * c}}
             S == {i \in DOMAIN s : s[i] <= b}
             R == {i \in DOMAIN s : s[i] < b}
  <2>1. /\ Count(s, {v \in Samples : v > 0 /\ 5 * v <= 2 * c}) = Cardinality(T)
        /\ UpTo(s, b) = Cardinality(S) /\ Below(s, b) = Cardinality(R)
    BY DEF Count, UpTo, Below
  <2>2. S \in SUBSET (1 .. n) /\ T \in SUBSET (1 .. n) /\ R \in SUBSET (1 .. n)
    BY <1>1
  <2>3. b = 0 => S \cap T = {}
    BY <1>1, <1>2
  <2>4. 5 * b > 2 * c => T \subseteq R
    BY <1>1, <1>2
  <2> HIDE DEF S, T, R
  <2>5. Cardinality(T) \in Nat
    BY <2>2, Counting
  <2>6. b # 0
    <3> SUFFICES ASSUME b = 0 PROVE FALSE
      OBVIOUS
    <3>1. Cardinality(S) + Cardinality(T) <= n
      BY <2>2, <2>3, Counting
    <3> QED
      BY <1>4, <1>5, <2>1, <2>5, <3>1
  <2>7. ~(5 * b > 2 * c)
    <3> SUFFICES ASSUME 5 * b > 2 * c PROVE FALSE
      OBVIOUS
    <3>1. Cardinality(T) <= Cardinality(R)
      BY <2>2, <2>4, Counting
    <3> QED
      BY <1>4, <1>5, <2>1, <2>5, <3>1
  <2> QED
    BY <2>6, <2>7
<1>6. ASSUME 2 * Count(s, {v \in Samples : v > 0 /\ 2 * v >= 3 * c}) > n
      PROVE  a > 0 /\ 2 * a >= 3 * c
  <2> DEFINE T == {i \in DOMAIN s : s[i] \in {v \in Samples : v > 0 /\ 2 * v >= 3 * c}}
             S == {i \in DOMAIN s : s[i] <= a}
  <2>1. /\ Count(s, {v \in Samples : v > 0 /\ 2 * v >= 3 * c}) = Cardinality(T)
        /\ UpTo(s, a) = Cardinality(S)
    BY DEF Count, UpTo
  <2>2. S \in SUBSET (1 .. n) /\ T \in SUBSET (1 .. n)
    BY <1>1
  <2>3. a = 0 \/ 2 * a < 3 * c => S \cap T = {}
    BY <1>1, <1>2
  <2> HIDE DEF S, T
  <2>4. Cardinality(T) \in Nat
    BY <2>2, Counting
  <2>5. ~(a = 0 \/ 2 * a < 3 * c)
    <3> SUFFICES ASSUME a = 0 \/ 2 * a < 3 * c PROVE FALSE
      OBVIOUS
    <3>1. Cardinality(S) + Cardinality(T) <= n
      BY <2>2, <2>3, Counting
    <3> QED
      BY <1>4, <1>6, <2>1, <2>4, <3>1
  <2> QED
    BY <2>5
<1>7. ASSUME b > 0, 5 * b <= 2 * c
      PROVE  Median2(s) # 0 /\ 4 * c >= 5 * Median2(s) /\ 4 * c >= 3 * Median2(s)
  BY <1>4, <1>7
<1>8. ASSUME a > 0, 2 * a >= 3 * c PROVE Median2(s) # 0 /\ 3 * c <= Median2(s)
  BY <1>4, <1>8
<1> QED
  BY <1>1, <1>5, <1>6, <1>7, <1>8

\* record_and_compare reports a deviation only of a sample that half of the
\* window, of five samples or more, is better than by the warning ratio: the
\* median's rank, whatever the samples, the window and the number of processes.
THEOREM DeviationIsMinorityAlways == Spec => []DeviationIsMinority
<1>1. TypeInv /\ VerdictInv => DeviationIsMinority
  <2> SUFFICES ASSUME TypeInv, VerdictInv, NEW p \in Processes,
                      Judged(p), verdict[p].deviated
               PROVE  Len(values[p]) >= 5 /\ 2 * Share(p, Worse(p)) >= Len(values[p])
    BY DEF DeviationIsMinority
  <2> DEFINE s == values[p]
             h == subject = "latency"
             c == current[p]
  <2>1. s \in Seq(Samples) /\ Len(s) <= Window /\ c \in Nat
    BY DEF VerdictInv, TypeInv, StampInv
  <2>2. compare(rolling_stats(s, Window), c, h, 5).deviated
    BY DEF VerdictInv, Judgement
  <2>3. Share(p, Worse(p)) = Count(s, IF h THEN {v \in Samples : 3 * v <= 2 * c}
                                      ELSE {v \in Samples : 2 * v >= 3 * c})
    <3>1. Worse(p) = IF h THEN {v \in Samples : 3 * v <= 2 * c}
                     ELSE {v \in Samples : 2 * v >= 3 * c}
      BY DEF Worse
    <3> QED
      BY <3>1 DEF Share, Count
  <2> HIDE DEF s, c
  <2>4. Len(s) >= 5 /\ (IF h THEN 4 * c >= 3 * Median2(s) ELSE 3 * c <= Median2(s))
    <3> DEFINE stats == rolling_stats(s, Window)
               r == compare(stats, c, h, 5)
    <3>1. /\ r.deviated => Len(s) >= 5
          /\ Len(s) >= 5 =>
               (r.deviated <=> /\ Median2(s) # 0
                               /\ IF h THEN 4 * c >= 3 * Median2(s)
                                             /\ meaningful_delta(stats, c, 5)
                                  ELSE 3 * c <= Median2(s))
      BY <2>1, VerdictOf, Zenon
    <3>2. r.deviated
      BY <2>2
    <3> HIDE DEF stats, r
    <3> QED
      BY <3>1, <3>2, Zenon
  <2>5. 2 * Share(p, Worse(p)) >= Len(s)
    BY <2>1, <2>3, <2>4, Minority
  <2> QED
    BY <2>4, <2>5 DEF s
<1> QED
  BY <1>1, VerdictInvAlways, PTL

\* record_and_compare reports that a lasting level was left: a median of 0 does
\* not hide it, the sample is out of the spread and the ratio is reached, since
\* the median is on the side of the majority.
THEOREM ShiftReportedAlways == Spec => []ShiftReported
<1>1. TypeInv /\ VerdictInv => ShiftReported
  <2> SUFFICES ASSUME TypeInv, VerdictInv, NEW p \in Processes,
                      Judged(p), Len(values[p]) >= 5
               PROVE  /\ /\ subject = "latency" /\ current[p] >= 10
                         /\ 2 * Share(p, FarBetter(p)) > Len(values[p])
                         /\ \A i \in DOMAIN values[p] : values[p][i] < current[p]
                         => verdict[p].status = "failed" /\ verdict[p].deviated
                      /\ /\ subject = "reachable_ratio"
                         /\ 2 * Share(p, Better(p)) > Len(values[p])
                         => verdict[p].deviated
    BY DEF ShiftReported
  <2> DEFINE s == values[p]
             h == subject = "latency"
             c == current[p]
             stats == rolling_stats(s, Window)
             r == compare(stats, c, h, 5)
  <2>1. s \in Seq(Samples) /\ Len(s) <= Window /\ Len(s) >= 5 /\ c \in Nat
    BY DEF VerdictInv, TypeInv, StampInv
  <2>2. verdict[p] = r
    BY DEF VerdictInv, Judgement
  <2>3. /\ Share(p, FarBetter(p)) = Count(s, {v \in Samples : v > 0 /\ 5 * v <= 2 * c})
        /\ Share(p, Better(p)) = Count(s, {v \in Samples : v > 0 /\ 2 * v >= 3 * c})
    BY DEF Share, Count, FarBetter, Better
  <2> HIDE DEF s, c
  <2>4. /\ stats.median2 = Median2(s) /\ stats.p95x20 = P95x20(s)
        /\ r.deviated <=>
              /\ Median2(s) # 0
              /\ IF h THEN 4 * c >= 3 * Median2(s) /\ meaningful_delta(stats, c, 5)
                 ELSE 3 * c <= Median2(s)
        /\ Median2(s) # 0 /\ h /\ 4 * c >= 5 * Median2(s)
             /\ meaningful_delta(stats, c, 5) => r.status = "failed"
    BY <2>1, VerdictOf, Zenon
  <2> HIDE DEF stats, r
  <2>5. ASSUME subject = "latency", c >= 10, 2 * Share(p, FarBetter(p)) > Len(s),
               \A i \in DOMAIN s : s[i] < c
        PROVE  r.status = "failed" /\ r.deviated
    <3>1. Median2(s) # 0 /\ 4 * c >= 5 * Median2(s) /\ 4 * c >= 3 * Median2(s)
      BY <2>1, <2>3, <2>5, Majority
    <3>2. P95x20(s) < 20 * c
      <4>1. PICK n \in Nat : n = Len(s) /\ DOMAIN s = 1 .. n /\ n >= 2
        BY <2>1
      <4>2. s \in [1 .. n -> Nat]
        BY <2>1, <4>1, SamplesAreNat
      <4> QED
        BY <2>1, <2>5, <4>1, <4>2, Percentile
    <3>3. meaningful_delta(stats, c, 5)
      <4>1. 20 * c > stats.p95x20 /\ c >= 10
        <5>1. stats.p95x20 < 20 * c
          BY <2>4, <3>2, Zenon
        <5> QED
          BY <2>5, <5>1
      <4> QED
        BY <4>1, Zenon DEF meaningful_delta
    <3> QED
      BY <2>4, <2>5, <3>1, <3>3, Zenon
  <2>6. ASSUME subject = "reachable_ratio", 2 * Share(p, Better(p)) > Len(s)
        PROVE  r.deviated
    <3>1. Median2(s) # 0 /\ 3 * c <= Median2(s)
      BY <2>1, <2>3, <2>6, Majority
    <3>2. ~h
      BY <2>6
    <3> QED
      BY <2>4, <3>1, <3>2, Zenon
  <2> QED
    BY <2>2, <2>5, <2>6, Zenon DEF s, c
<1> QED
  BY <1>1, VerdictInvAlways, PTL
=============================================================================
