------------------------ MODULE DatasetProfileProofs ------------------------
(***************************************************************************)
(* Theorems about DatasetProfile for every set of cells, tables of any     *)
(* length, and samples of any size.                                        *)
(***************************************************************************)
EXTENDS DatasetProfile, FiniteSetTheorems, WellFoundedInduction, TLAPS

(***************************************************************************)
(* Ranks: a strict total order R numbers a finite set I without a gap.     *)
(***************************************************************************)

Below(I, R, i) == {h \in I : <<h, i>> \in R}

Orders(R, I) ==
    /\ \A i \in I : <<i, i>> \notin R
    /\ \A h, i \in I : h # i => <<h, i>> \in R \/ <<i, h>> \in R
    /\ \A h, i, l \in I : <<h, i>> \in R /\ <<i, l>> \in R => <<h, l>> \in R

\* Intervals, counted.
LEMMA Intervals ==
    ASSUME NEW n \in Nat
    PROVE  /\ IsFiniteSet(1 .. n) /\ Cardinality(1 .. n) = n
           /\ IsFiniteSet(0 .. n - 1) /\ Cardinality(0 .. n - 1) = n
<1>1. /\ IsFiniteSet(1 .. n)
      /\ Cardinality(1 .. n) = IF 1 > n THEN 0 ELSE n - 1 + 1
  BY FS_Interval
<1>2. /\ IsFiniteSet(0 .. n - 1)
      /\ Cardinality(0 .. n - 1) = IF 0 > n - 1 THEN 0 ELSE (n - 1) - 0 + 1
  <2>1. 0 \in Int /\ n - 1 \in Int
    OBVIOUS
  <2>. QED BY <2>1, FS_Interval, Zenon
<1>. QED BY <1>1, <1>2

\* A strict subset is smaller.
LEMMA StrictlySmaller ==
    ASSUME NEW S, IsFiniteSet(S), NEW T \in SUBSET S, NEW x \in S, x \notin T
    PROVE  /\ IsFiniteSet(T) /\ Cardinality(T) \in Nat /\ Cardinality(S) \in Nat
           /\ Cardinality(T) < Cardinality(S)
<1>1. IsFiniteSet(T) /\ Cardinality(T) <= Cardinality(S) /\ Cardinality(T) # Cardinality(S)
  BY FS_Subset
<1>2. Cardinality(T) \in Nat /\ Cardinality(S) \in Nat
  BY <1>1, FS_CardinalityType
<1>. QED BY <1>1, <1>2

\* Every rank is taken, and a greater element has a greater rank.
LEMMA Ranks ==
    ASSUME NEW I, IsFiniteSet(I), NEW R, Orders(R, I)
    PROVE  /\ \A i \in I : Cardinality(Below(I, R, i)) \in 0 .. Cardinality(I) - 1
           /\ \A h, i \in I : <<h, i>> \in R =>
                 Cardinality(Below(I, R, h)) < Cardinality(Below(I, R, i))
           /\ \A k \in 0 .. Cardinality(I) - 1 : \E i \in I : Cardinality(Below(I, R, i)) = k
<1> DEFINE rank(i) == Cardinality(Below(I, R, i))
           n == Cardinality(I)
<1>1. ASSUME NEW i \in I
      PROVE  IsFiniteSet(Below(I, R, i)) /\ rank(i) \in 0 .. n - 1
  <2>1. Below(I, R, i) \in SUBSET I /\ i \notin Below(I, R, i)
    BY DEF Below, Orders
  <2>2. rank(i) \in Nat /\ n \in Nat /\ rank(i) < n /\ IsFiniteSet(Below(I, R, i))
    BY <2>1, StrictlySmaller
  <2>. QED BY <2>2
<1>2. ASSUME NEW h \in I, NEW i \in I, <<h, i>> \in R
      PROVE  rank(h) < rank(i)
  <2>1. Below(I, R, h) \in SUBSET Below(I, R, i)
    BY <1>2 DEF Below, Orders
  <2>2. h \in Below(I, R, i) /\ h \notin Below(I, R, h)
    BY <1>2 DEF Below, Orders
  <2>. QED BY <1>1, <2>1, <2>2, StrictlySmaller
<1>3. \A k \in 0 .. n - 1 : \E i \in I : rank(i) = k
  <2> DEFINE f == [i \in I |-> rank(i)]
  <2>0. n \in Nat
    BY FS_CardinalityType
  <2>1. f \in [I -> 0 .. n - 1]
    BY <1>1
  <2>2. ASSUME NEW h \in I, NEW i \in I, f[h] = f[i] PROVE h = i
    <3>1. rank(h) = rank(i) /\ rank(h) \in Int
      BY <2>2, <1>1
    <3>2. <<h, i>> \notin R /\ <<i, h>> \notin R
      BY <3>1, <1>2
    <3>. QED BY <3>2 DEF Orders
  <2>3. f \in Injection(I, 0 .. n - 1)
    <3> HIDE DEF f, n, rank
    <3>. QED BY <2>1, <2>2, Zenon DEF Injection, IsInjective
  <2>4. IsFiniteSet(0 .. n - 1) /\ Cardinality(0 .. n - 1) = n
    BY <2>0, Intervals, Zenon
  <2>5. f \in Surjection(I, 0 .. n - 1)
    BY <2>3, <2>4, FS_Injection
  <2>. QED BY <2>5 DEF Surjection
<1>. QED BY <1>1, <1>2, <1>3

\* The k-th position of I in the order R.
Position(I, R) ==
    [k \in 1 .. Cardinality(I) |-> CHOOSE i \in I : Cardinality(Below(I, R, i)) = k - 1]

\* What InOrder returns: the elements at the positions in I, each once, the
\* earlier in R first.
LEMMA InOrderPositions ==
    ASSUME NEW s, NEW I, IsFiniteSet(I), NEW R, Orders(R, I)
    PROVE  LET n == Cardinality(I)
               f == Position(I, R)
           IN  /\ n \in Nat
               /\ f \in [1 .. n -> I]
               /\ InOrder(s, I, R) = [k \in 1 .. n |-> s[f[k]]]
               /\ \A k, l \in 1 .. n : k < l => <<f[k], f[l]>> \in R
               /\ \A i \in I : \E k \in 1 .. n : f[k] = i
<1> DEFINE n == Cardinality(I)
           rank(i) == Cardinality(Below(I, R, i))
           f == Position(I, R)
<1>0. f = [k \in 1 .. n |-> CHOOSE i \in I : rank(i) = k - 1]
  BY DEF Position
<1>1. n \in Nat
  BY FS_CardinalityType
<1>2. /\ \A i \in I : rank(i) \in 0 .. n - 1
      /\ \A h, i \in I : <<h, i>> \in R => rank(h) < rank(i)
      /\ \A k \in 0 .. n - 1 : \E i \in I : rank(i) = k
  BY Ranks
<1>3. InOrder(s, I, R) = [k \in 1 .. n |-> s[f[k]]]
  BY <1>0 DEF InOrder, Below
<1> HIDE DEF rank, f
<1>4. ASSUME NEW k \in 1 .. n PROVE f[k] \in I /\ rank(f[k]) = k - 1
  <2>1. k - 1 \in 0 .. n - 1
    BY <1>1
  <2>2. \E i \in I : rank(i) = k - 1
    BY <2>1, <1>2
  <2>. QED BY <1>0, <2>2
<1>5. ASSUME NEW k \in 1 .. n, NEW l \in 1 .. n, k < l PROVE <<f[k], f[l]>> \in R
  <2>1. f[k] \in I /\ f[l] \in I /\ rank(f[k]) = k - 1 /\ rank(f[l]) = l - 1
    BY <1>4
  <2>2. f[k] # f[l] /\ ~(rank(f[l]) < rank(f[k]))
    BY <2>1, <1>5, <1>1
  <2>. QED BY <2>1, <2>2, <1>2 DEF Orders
<1>6. ASSUME NEW i \in I PROVE \E k \in 1 .. n : f[k] = i
  <2>1. rank(i) \in 0 .. n - 1
    BY <1>2
  <2> DEFINE k == rank(i) + 1
  <2>2. k \in 1 .. n /\ k - 1 = rank(i)
    BY <2>1, <1>1
  <2>3. f[k] \in I /\ rank(f[k]) = rank(i)
    BY <2>2, <1>4
  <2> HIDE DEF k
  <2>4. ~(rank(f[k]) < rank(i)) /\ ~(rank(i) < rank(f[k]))
    BY <2>1, <2>3
  <2>5. f[k] = i
    BY <2>3, <2>4, <1>2 DEF Orders
  <2>. QED BY <2>2, <2>5
<1>7. f \in [1 .. n -> I]
  BY <1>0, <1>4
<1>. QED BY <1>1, <1>3, <1>5, <1>6, <1>7 DEF f

(***************************************************************************)
(* Columns.                                                                *)
(***************************************************************************)

Filled(column) == {i \in DOMAIN column : ~IsNull(column[i])}
Numbers(s) == {i \in DOMAIN s : Convertible(s[i])}
Kept(s) == {i \in DOMAIN s : Coercible(s[i])}

\* Positions are finitely many, and both orders order them.
LEMMA PositionsOrdered ==
    ASSUME NEW S, NEW s \in Seq(S), NEW I \in SUBSET DOMAIN s
    PROVE  /\ Len(s) \in Nat /\ DOMAIN s = 1 .. Len(s)
           /\ IsFiniteSet(I) /\ Cardinality(I) \in 0 .. Len(s)
           /\ Orders(Earlier(s), I)
           /\ S \subseteq Int => Orders(Smaller(s), I)
<1>1. Len(s) \in Nat /\ DOMAIN s = 1 .. Len(s) /\ \A i \in DOMAIN s : s[i] \in S
  OBVIOUS
<1>2. IsFiniteSet(DOMAIN s) /\ Cardinality(DOMAIN s) = Len(s)
  <2>1. IsFiniteSet(1 .. Len(s)) /\ Cardinality(1 .. Len(s)) = Len(s)
    BY <1>1, Intervals, Zenon
  <2>. QED BY <1>1, <2>1, Zenon
<1>3. IsFiniteSet(I) /\ Cardinality(I) <= Len(s) /\ Cardinality(I) \in Nat
  BY <1>2, FS_Subset, FS_CardinalityType
<1>4. Orders(Earlier(s), I)
  BY <1>1 DEF Orders, Earlier, Pairs
<1>5. ASSUME S \subseteq Int PROVE Orders(Smaller(s), I)
  <2>1. \A h, i \in I : <<h, i>> \in Smaller(s) <=> s[h] < s[i] \/ (s[h] = s[i] /\ h < i)
    BY DEF Smaller, Pairs
  <2>2. ASSUME NEW i \in I PROVE i \in Int /\ s[i] \in Int
    <3>1. i \in DOMAIN s
      OBVIOUS
    <3>2. s[i] \in S
      BY <3>1, <1>1
    <3>3. i \in 1 .. Len(s)
      BY <3>1, <1>1
    <3>4. s[i] \in Int
      BY <3>2, <1>5, Zenon
    <3>5. i \in Int
      BY <3>3, <1>1
    <3>. QED BY <3>4, <3>5
  <2>3. \A i \in I : <<i, i>> \notin Smaller(s)
    BY <2>1, <2>2
  <2>4. \A h, i \in I : h # i => <<h, i>> \in Smaller(s) \/ <<i, h>> \in Smaller(s)
    BY <2>1, <2>2
  <2>5. ASSUME NEW h \in I, NEW i \in I, NEW l \in I,
               <<h, i>> \in Smaller(s), <<i, l>> \in Smaller(s)
        PROVE  <<h, l>> \in Smaller(s)
    <3>1. s[h] < s[i] \/ (s[h] = s[i] /\ h < i)
      BY <2>1, <2>5
    <3>2. s[i] < s[l] \/ (s[i] = s[l] /\ i < l)
      BY <2>1, <2>5
    <3>3. s[h] < s[l] \/ (s[h] = s[l] /\ h < l)
      BY <3>1, <3>2, <2>2
    <3>. QED BY <3>3, <2>1
  <2>. QED BY <2>3, <2>4, <2>5 DEF Orders
<1>. QED BY <1>1, <1>3, <1>4, <1>5

\* NonNull keeps exactly the cells that are not null.
LEMMA NonNullCells ==
    ASSUME NEW column \in Seq(Cell)
    PROVE  LET f == Position(Filled(column), Earlier(column))
               values == NonNull(column)
               n == Cardinality(Filled(column))
           IN  /\ n \in 0 .. Len(column)
               /\ values \in Seq(Cell) /\ Len(values) = n
               /\ f \in [1 .. n -> Filled(column)]
               /\ values = [k \in 1 .. n |-> column[f[k]]]
               /\ \A k \in 1 .. n : ~IsNull(values[k])
               /\ \A i \in Filled(column) : \E k \in 1 .. n : f[k] = i
<1> DEFINE I == Filled(column)
           R == Earlier(column)
           f == Position(I, R)
           values == NonNull(column)
           n == Cardinality(I)
<1>1. I \in SUBSET DOMAIN column
  BY DEF Filled
<1>2. IsFiniteSet(I) /\ n \in 0 .. Len(column) /\ Orders(R, I)
  BY <1>1, PositionsOrdered
<1>3. /\ n \in Nat
      /\ f \in [1 .. n -> I]
      /\ values = [k \in 1 .. n |-> column[f[k]]]
      /\ \A i \in I : \E k \in 1 .. n : f[k] = i
  <2>1. values = InOrder(column, I, R)
    BY DEF NonNull, Filled
  <2>. QED BY <2>1, <1>2, InOrderPositions
<1> HIDE DEF I, R, f, values, n
<1>4. \A k \in 1 .. n : column[f[k]] \in Cell /\ ~IsNull(column[f[k]])
  BY <1>3 DEF I, Filled
<1>5. values \in Seq(Cell) /\ Len(values) = n
  BY <1>3, <1>4
<1>. QED BY <1>2, <1>3, <1>4, <1>5 DEF I, R, f, values, n

(***************************************************************************)
(* The type of a column.                                                   *)
(***************************************************************************)

\* The convertible values are counted by their positions.
LEMMA CountConvertible ==
    ASSUME NEW s \in Seq(Cell)
    PROVE  /\ CountOf(s, Convertible) = Cardinality(Numbers(s))
           /\ IsFiniteSet(Numbers(s))
           /\ CountOf(s, Convertible) \in 0 .. Len(s)
<1>1. CountOf(s, Convertible) = Cardinality(Numbers(s))
  BY DEF CountOf, Numbers
<1>2. Numbers(s) \in SUBSET DOMAIN s
  BY DEF Numbers
<1>. QED BY <1>1, <1>2, PositionsOrdered

\* So are those pandas keeps.
LEMMA CountCoercible ==
    ASSUME NEW s \in Seq(Cell)
    PROVE  /\ CountOf(s, Coercible) = Cardinality(Kept(s))
           /\ IsFiniteSet(Kept(s))
           /\ CountOf(s, Coercible) \in 0 .. Len(s)
<1>1. CountOf(s, Coercible) = Cardinality(Kept(s))
  BY DEF CountOf, Kept
<1>2. Kept(s) \in SUBSET DOMAIN s
  BY DEF Kept
<1>. QED BY <1>1, <1>2, PositionsOrdered

\* Trying the beginning of a column only, no more values convert.
LEMMA PrefixCount ==
    ASSUME NEW s \in Seq(Cell), NEW n \in Nat
    PROVE  /\ Prefix(s, n) \in Seq(Cell)
           /\ CountOf(Prefix(s, n), Convertible) <= CountOf(s, Convertible)
           /\ Len(s) <= n => Prefix(s, n) = s
<1> DEFINE m == IF n < Len(s) THEN n ELSE Len(s)
           q == Prefix(s, n)
<1>1. m \in 0 .. Len(s) /\ q = SubSeq(s, 1, m)
  BY DEF Prefix
<1> HIDE DEF m, q
<1>2. q \in Seq(Cell) /\ Len(q) = m /\ \A i \in 1 .. m : q[i] = s[i]
  BY <1>1
<1>3. Numbers(q) \in SUBSET Numbers(s)
  BY <1>1, <1>2 DEF Numbers
<1>4. CountOf(q, Convertible) <= CountOf(s, Convertible)
  BY <1>2, <1>3, CountConvertible, FS_Subset
<1>5. ASSUME Len(s) <= n PROVE q = s
  <2>1. m = Len(s)
    BY <1>5 DEF m
  <2>. QED BY <2>1, <1>2
<1>. QED BY <1>2, <1>4, <1>5 DEF q

\* What the type of a column says of its values.
LEMMA TypeOfColumn ==
    ASSUME NEW column \in Seq(Cell)
    PROVE  LET values == NonNull(column)
               count == CountOf(values, Convertible)
               most == values # <<>> /\ 5 * count >= 4 * Len(values)
               type == DetectColumnType(column)
           IN  /\ type \in {"unknown", "numeric", "mixed", "categorical"}
               /\ type = "categorical" => values # <<>>
               /\ type = "numeric" => most
               /\ most /\ Len(values) <= Sample => type = "numeric"
               /\ values # <<>> /\ NumericDtype(column) => type = "numeric"
<1> DEFINE values == NonNull(column)
           count == CountOf(values, Convertible)
           type == DetectColumnType(column)
<1>1. /\ type \in {"unknown", "numeric", "mixed", "categorical"}
      /\ type = "categorical" => values # <<>>
      /\ type = "numeric" <=> values # <<>> /\ (NumericDtype(column) \/ MostConvert(values))
  BY DEF DetectColumnType
<1>2. values \in Seq(Cell) /\ count \in 0 .. Len(values) /\ Len(values) \in Nat
  BY NonNullCells, CountConvertible
<1>3. ASSUME NumericDtype(column) PROVE count = Len(values)
  <2>1. \A k \in 1 .. Len(values) : Convertible(values[k])
    <3> DEFINE f == Position(Filled(column), Earlier(column))
    <3>1. SUFFICES ASSUME NEW k \in 1 .. Len(values) PROVE Convertible(values[k])
      OBVIOUS
    <3>2. f[k] \in Filled(column) /\ values[k] = column[f[k]]
      <4> DEFINE n == Cardinality(Filled(column))
      <4>1. /\ Len(values) = n /\ f \in [1 .. n -> Filled(column)]
            /\ values = [l \in 1 .. n |-> column[f[l]]]
        BY NonNullCells, Zenon
      <4> HIDE DEF values, f, n
      <4>. QED BY <4>1
    <3>. QED BY <1>3, <3>2 DEF NumericDtype, Filled, Convertible, IsNull
  <2>2. Numbers(values) = 1 .. Len(values)
    BY <2>1, <1>2 DEF Numbers
  <2>3. Cardinality(Numbers(values)) = Len(values)
    BY <2>2, <1>2, Intervals, Zenon
  <2>. QED BY <2>3, <1>2, CountConvertible, Zenon
<1> DEFINE tried == CountOf(Prefix(values, Sample), Convertible)
<1>4. MostConvert(values) <=> 5 * tried >= 4 * Len(values)
  BY DEF MostConvert
<1>5. tried \in Int /\ tried <= count /\ (Len(values) <= Sample => tried = count)
  <2>1. Sample \in Nat
    BY DatasetProfileAssumption
  <2>2. /\ Prefix(values, Sample) \in Seq(Cell)
        /\ tried <= count
        /\ Len(values) <= Sample => Prefix(values, Sample) = values
    BY <2>1, <1>2, PrefixCount
  <2>3. tried \in 0 .. Len(Prefix(values, Sample))
    BY <2>2, CountConvertible
  <2>4. tried \in Int
    BY <2>3
  <2>. QED BY <2>2, <2>4
<1> HIDE DEF values, count, type, tried
<1>6. NumericDtype(column) \/ MostConvert(values) => 5 * count >= 4 * Len(values)
  BY <1>2, <1>3, <1>4, <1>5
<1>7. 5 * count >= 4 * Len(values) /\ Len(values) <= Sample => MostConvert(values)
  BY <1>4, <1>5
<1>. QED BY <1>1, <1>6, <1>7 DEF values, count, type

(***************************************************************************)
(* What the frame makes of a column.                                       *)
(***************************************************************************)

\* The frame keeps which cells are null, which convert and which pandas keeps.
LEMMA FrameCells ==
    ASSUME NEW form, NEW column \in Seq(Cell)
    PROVE  LET frame == Frame(form, column) IN
           /\ frame \in Seq(Cell) /\ Len(frame) = Len(column)
           /\ \A i \in DOMAIN column : /\ IsNull(frame[i]) <=> IsNull(column[i])
                                       /\ Convertible(frame[i]) <=> Convertible(column[i])
                                       /\ Coercible(frame[i]) <=> Coercible(column[i])
<1> DEFINE frame == Frame(form, column)
           number(c) == IF IsNull(c) THEN c ELSE [c EXCEPT !.kind = "number"]
<1>1. CASE frame = column
  BY <1>1
<1>2. CASE /\ \A i \in DOMAIN column : column[i].kind \notin {"loose", "word"}
           /\ frame = [i \in DOMAIN column |-> number(column[i])]
  <2>1. \A c \in Cell : /\ number(c) \in Cell
                        /\ IsNull(number(c)) <=> IsNull(c)
                        /\ c.kind \notin {"loose", "word"} =>
                              /\ Convertible(number(c)) <=> Convertible(c)
                              /\ Coercible(number(c)) <=> Coercible(c)
    BY DEF Cell, Kinds, IsNull, Convertible, Coercible
  <2>2. DOMAIN column = 1 .. Len(column) /\ \A i \in DOMAIN column : column[i] \in Cell
    OBVIOUS
  <2> HIDE DEF frame, number
  <2>3. frame \in Seq(Cell) /\ Len(frame) = Len(column)
    BY <1>2, <2>1, <2>2
  <2>. QED BY <1>2, <2>1, <2>2, <2>3 DEF frame
<1>3. \/ frame = column
      \/ /\ \A i \in DOMAIN column : column[i].kind \notin {"loose", "word"}
         /\ frame = [i \in DOMAIN column |-> number(column[i])]
  BY DEF Frame
<1>. QED BY <1>1, <1>2, <1>3

\* It changes neither how many values a column has, nor how many convert or
\* are kept.
LEMMA FrameCounts ==
    ASSUME NEW form, NEW column \in Seq(Cell)
    PROVE  LET frame == Frame(form, column) IN
           /\ Len(NonNull(frame)) = Len(NonNull(column))
           /\ CountOf(NonNull(frame), Convertible) = CountOf(NonNull(column), Convertible)
           /\ CountOf(NonNull(frame), Coercible) = CountOf(NonNull(column), Coercible)
<1> DEFINE frame == Frame(form, column)
           f == Position(Filled(column), Earlier(column))
           n == Cardinality(Filled(column))
<1>1. /\ frame \in Seq(Cell) /\ DOMAIN frame = DOMAIN column
      /\ \A i \in DOMAIN column : /\ IsNull(frame[i]) <=> IsNull(column[i])
                                  /\ Convertible(frame[i]) <=> Convertible(column[i])
                                  /\ Coercible(frame[i]) <=> Coercible(column[i])
  BY FrameCells
<1> HIDE DEF frame
<1>2. Filled(frame) = Filled(column) /\ Earlier(frame) = Earlier(column)
  BY <1>1 DEF Filled, Earlier, Pairs
<1>3. /\ NonNull(frame) = [k \in 1 .. n |-> frame[f[k]]]
      /\ NonNull(column) = [k \in 1 .. n |-> column[f[k]]]
      /\ Len(NonNull(frame)) = n /\ Len(NonNull(column)) = n
      /\ NonNull(frame) \in Seq(Cell) /\ NonNull(column) \in Seq(Cell)
      /\ f \in [1 .. n -> Filled(column)]
  BY <1>1, <1>2, NonNullCells
<1> HIDE DEF f, n
<1>4. Numbers(NonNull(frame)) = Numbers(NonNull(column))
  BY <1>1, <1>3 DEF Numbers, Filled
<1>5. Kept(NonNull(frame)) = Kept(NonNull(column))
  BY <1>1, <1>3 DEF Kept, Filled
<1>. QED BY <1>3, <1>4, <1>5, CountConvertible, CountCoercible DEF frame

(***************************************************************************)
(* Order statistics.  A position between the elements of a sorted sequence *)
(* is counted in quarters from the first one; the quartiles are values at  *)
(* such positions.                                                         *)
(***************************************************************************)

Ascending(s) == s \in Seq(Int) /\ \A k, l \in 1 .. Len(s) : k <= l => s[k] <= s[l]

ValueAt(s, p) ==
    LET low == (p \div 4) + 1
    IN  IF p % 4 = 0 THEN 4 * s[low] ELSE 4 * s[low] + (p % 4) * (s[low + 1] - s[low])

\* A quarter position: after the q-th step, and r quarters of the next.
LEMMA Quarters ==
    ASSUME NEW p \in Nat
    PROVE  \E q \in Nat, r \in 0 .. 3 : p = 4 * q + r /\ p \div 4 = q /\ p % 4 = r
<1>1. p \div 4 \in Nat /\ p % 4 \in 0 .. 3 /\ p = 4 * (p \div 4) + (p % 4)
  OBVIOUS
<1>. QED BY <1>1

\* A value lies between its neighbours, in proportion.
LEMMA ValueBetween ==
    ASSUME NEW s, Ascending(s), NEW q \in Nat, NEW r \in 0 .. 3, NEW p \in Nat,
           p = 4 * q + r, p <= 4 * (Len(s) - 1), Len(s) > 0
    PROVE  LET a == s[q + 1]
               b == IF r = 0 THEN a ELSE s[q + 2]
           IN  /\ q + 1 \in 1 .. Len(s) /\ (r # 0 => q + 2 \in 1 .. Len(s))
               /\ a \in Int /\ b \in Int /\ a <= b
               /\ ValueAt(s, p) = 4 * a + r * (b - a)
<1>1. p \div 4 = q /\ p % 4 = r
  OBVIOUS
<1>2. Len(s) \in Nat /\ s \in Seq(Int)
  BY DEF Ascending
<1>3. q + 1 \in 1 .. Len(s) /\ (r # 0 => q + 2 \in 1 .. Len(s))
  BY <1>2
<1>4. s[q + 1] \in Int /\ (r # 0 => s[q + 2] \in Int /\ s[q + 1] <= s[q + 2])
  BY <1>2, <1>3 DEF Ascending
<1>5. r = 0 => ValueAt(s, p) = 4 * s[q + 1]
  BY <1>1 DEF ValueAt
<1>6. r # 0 => ValueAt(s, p) = 4 * s[q + 1] + r * (s[q + 2] - s[q + 1])
  <2>1. (q + 1) + 1 = q + 2
    OBVIOUS
  <2>. QED BY <1>1, <2>1 DEF ValueAt
<1>7. CASE r = 0
  BY <1>3, <1>4, <1>5, <1>7
<1>8. CASE r # 0
  BY <1>3, <1>4, <1>6, <1>8
<1>. QED BY <1>7, <1>8

\* Values ascend with their positions.
LEMMA ValuesAscend ==
    ASSUME NEW s, Ascending(s), Len(s) > 0,
           NEW p \in Nat, NEW w \in Nat, p <= w, w <= 4 * (Len(s) - 1)
    PROVE  /\ ValueAt(s, p) \in Int /\ ValueAt(s, w) \in Int
           /\ ValueAt(s, p) <= ValueAt(s, w)
<1>0. Len(s) \in Nat
  BY DEF Ascending
<1>1. PICK q \in Nat, r \in 0 .. 3 : p = 4 * q + r
  BY Quarters
<1>2. PICK u \in Nat, v \in 0 .. 3 : w = 4 * u + v
  BY Quarters
<1> DEFINE a == s[q + 1]
           b == IF r = 0 THEN a ELSE s[q + 2]
           c == s[u + 1]
           d == IF v = 0 THEN c ELSE s[u + 2]
<1>3. p <= 4 * (Len(s) - 1)
  BY <1>0
<1>4. /\ q + 1 \in 1 .. Len(s) /\ (r # 0 => q + 2 \in 1 .. Len(s))
      /\ a \in Int /\ b \in Int /\ a <= b /\ ValueAt(s, p) = 4 * a + r * (b - a)
  BY <1>1, <1>3, ValueBetween
<1>5. /\ u + 1 \in 1 .. Len(s) /\ (v # 0 => u + 2 \in 1 .. Len(s))
      /\ c \in Int /\ d \in Int /\ c <= d /\ ValueAt(s, w) = 4 * c + v * (d - c)
  BY <1>2, ValueBetween
<1>6. q < u \/ (q = u /\ r <= v)
  BY <1>1, <1>2
<1>7. CASE q = u /\ r <= v
  <2>1. a = c /\ (r # 0 => b = d) /\ (r = 0 => b = a)
    BY <1>7
  <2> HIDE DEF a, b, c, d
  <2>2. r * (b - a) <= v * (d - c) /\ r * (b - a) \in Int /\ v * (d - c) \in Int
    <3>1. r \in {0, 1, 2, 3} /\ v \in {0, 1, 2, 3}
      OBVIOUS
    <3>. QED BY <3>1, <2>1, <1>4, <1>5, <1>7
  <2>. QED BY <2>1, <2>2, <1>4, <1>5
<1>8. CASE q < u
  <2>1. b <= c
    <3>1. CASE r = 0
      BY <1>4, <1>5, <1>8, <3>1 DEF Ascending
    <3>2. CASE r # 0
      <4>1. q + 2 <= u + 1 /\ q + 2 \in 1 .. Len(s) /\ u + 1 \in 1 .. Len(s)
        BY <1>4, <1>5, <1>8, <3>2
      <4>. QED BY <4>1, <3>2 DEF Ascending
    <3>. QED BY <3>1, <3>2
  <2> HIDE DEF a, b, c, d
  <2>2. r * (b - a) <= 4 * (b - a) /\ 0 <= v * (d - c)
        /\ r * (b - a) \in Int /\ v * (d - c) \in Int
    <3>1. r \in {0, 1, 2, 3} /\ v \in {0, 1, 2, 3}
      OBVIOUS
    <3>. QED BY <3>1, <1>4, <1>5
  <2>. QED BY <2>1, <2>2, <1>4, <1>5
<1>. QED BY <1>6, <1>7, <1>8

\* Whole steps are four quarters.
LEMMA WholeSteps == \A x \in Nat : (4 * x) % 4 = 0 /\ (4 * x) \div 4 = x /\ 1 * x = x
OBVIOUS

\* The smallest element, the quartiles and the greatest are in order.
LEMMA QuartilesAscend ==
    ASSUME NEW s, Ascending(s), NEW m \in Nat, Len(s) = m + 1
    PROVE  /\ Quartile(s, 1) = ValueAt(s, m) /\ Quartile(s, 3) = ValueAt(s, 3 * m)
           /\ Quartile(s, 1) \in Int /\ Quartile(s, 2) \in Int /\ Quartile(s, 3) \in Int
           /\ 4 * s[1] <= Quartile(s, 1) /\ Quartile(s, 1) <= Quartile(s, 2)
           /\ Quartile(s, 2) <= Quartile(s, 3) /\ Quartile(s, 3) <= 4 * s[Len(s)]
<1>1. Len(s) - 1 = m /\ Len(s) > 0
  OBVIOUS
<1>2. /\ Quartile(s, 1) = ValueAt(s, m)
      /\ Quartile(s, 2) = ValueAt(s, 2 * m)
      /\ Quartile(s, 3) = ValueAt(s, 3 * m)
  <2>1. Quartile(s, 1) = ValueAt(s, 1 * m)
    BY <1>1, Zenon DEF Quartile, ValueAt
  <2>2. Quartile(s, 2) = ValueAt(s, 2 * m) /\ Quartile(s, 3) = ValueAt(s, 3 * m)
    BY <1>1, Zenon DEF Quartile, ValueAt
  <2>3. 1 * m = m
    BY WholeSteps
  <2>. QED BY <2>1, <2>2, <2>3, Zenon
<1>3. ValueAt(s, 0) = 4 * s[1]
  BY DEF ValueAt
<1>4. ValueAt(s, 4 * m) = 4 * s[Len(s)]
  <2>1. (4 * m) % 4 = 0 /\ ((4 * m) \div 4) + 1 = Len(s)
    BY WholeSteps
  <2>. QED BY <2>1, Zenon DEF ValueAt
<1>5. /\ ValueAt(s, m) \in Int /\ ValueAt(s, 2 * m) \in Int /\ ValueAt(s, 3 * m) \in Int
      /\ ValueAt(s, 0) <= ValueAt(s, m) /\ ValueAt(s, m) <= ValueAt(s, 2 * m)
      /\ ValueAt(s, 2 * m) <= ValueAt(s, 3 * m) /\ ValueAt(s, 3 * m) <= ValueAt(s, 4 * m)
  <2>1. /\ 0 \in Nat /\ 2 * m \in Nat /\ 3 * m \in Nat /\ 4 * m \in Nat
        /\ 0 <= m /\ m <= 2 * m /\ 2 * m <= 3 * m /\ 3 * m <= 4 * m /\ 4 * m <= 4 * (Len(s) - 1)
        /\ m <= 4 * (Len(s) - 1) /\ 2 * m <= 4 * (Len(s) - 1) /\ 3 * m <= 4 * (Len(s) - 1)
    BY <1>1
  <2>. QED BY <1>1, <2>1, ValuesAscend
<1>. QED BY <1>2, <1>3, <1>4, <1>5, Zenon

\* No element between the quartiles is an outlier.
LEMMA BetweenIsNoOutlier ==
    ASSUME NEW s, Ascending(s), NEW m \in Nat, Len(s) = m + 1,
           NEW i \in 1 .. Len(s), m <= 4 * (i - 1), 4 * (i - 1) <= 3 * m
    PROVE  ~IsOutlier(s[i], s)
<1>1. PICK j \in Nat : i = j + 1 /\ m <= 4 * j /\ 4 * j <= 3 * m
  <2>1. i - 1 \in Nat /\ i = (i - 1) + 1
    OBVIOUS
  <2>. QED BY <2>1
<1>2. /\ Quartile(s, 1) = ValueAt(s, m) /\ Quartile(s, 3) = ValueAt(s, 3 * m)
      /\ Quartile(s, 1) \in Int /\ Quartile(s, 3) \in Int
  BY QuartilesAscend
<1>3. ValueAt(s, 4 * j) = 4 * s[i]
  <2>1. (4 * j) % 4 = 0 /\ ((4 * j) \div 4) + 1 = i
    BY <1>1, WholeSteps
  <2>. QED BY <2>1, Zenon DEF ValueAt
<1>4. ValueAt(s, m) <= ValueAt(s, 4 * j) /\ ValueAt(s, 4 * j) <= ValueAt(s, 3 * m)
  <2>1. /\ 4 * j \in Nat /\ 3 * m \in Nat /\ Len(s) > 0
        /\ 4 * j <= 4 * (Len(s) - 1) /\ 3 * m <= 4 * (Len(s) - 1)
    BY <1>1
  <2>. QED BY <1>1, <2>1, ValuesAscend
<1>5. s[i] \in Int
  BY DEF Ascending
<1>6. Quartile(s, 1) <= 4 * s[i] /\ 4 * s[i] <= Quartile(s, 3)
  BY <1>2, <1>3, <1>4, Zenon
<1>7. \A x, q1, q3 \in Int : q1 <= 4 * x /\ 4 * x <= q3 =>
          ~(8 * x < 2 * q1 - 3 * (q3 - q1)) /\ ~(8 * x > 2 * q3 + 3 * (q3 - q1))
  OBVIOUS
<1>. QED BY <1>2, <1>5, <1>6, <1>7, Zenon DEF IsOutlier, Range4

\* Nor is the one before them, when the first quartile is no farther from it
\* than from the next.
LEMMA BeforeIsNoOutlier ==
    ASSUME NEW s, Ascending(s), NEW m \in Nat, Len(s) = m + 1,
           NEW q \in Nat, NEW r \in {1, 2}, m = 4 * q + r
    PROVE  ~IsOutlier(s[q + 1], s)
<1> DEFINE a == s[q + 1]
           b == s[q + 2]
<1>1. /\ Quartile(s, 1) = ValueAt(s, m) /\ Quartile(s, 3) = ValueAt(s, 3 * m)
      /\ Quartile(s, 1) \in Int /\ Quartile(s, 3) \in Int
  BY QuartilesAscend
<1>2. a \in Int /\ b \in Int /\ a <= b /\ ValueAt(s, m) = 4 * a + r * (b - a)
  <2>1. r \in 0 .. 3 /\ r # 0 /\ m <= 4 * (Len(s) - 1) /\ Len(s) > 0
    OBVIOUS
  <2>. QED BY <2>1, ValueBetween
<1>3. CASE q = 0 /\ r = 1
  <2>1. ValueAt(s, 3 * m) = 4 * a + 3 * (b - a)
    <3>1. 3 \in Nat /\ 3 \in 0 .. 3 /\ 3 * m = 3 /\ 3 = 4 * 0 + 3 /\ 3 <= 4 * (Len(s) - 1) /\ Len(s) > 0
      BY <1>3
    <3>2. ValueAt(s, 3) = 4 * s[0 + 1] + 3 * (s[0 + 2] - s[0 + 1])
      BY <3>1, ValueBetween
    <3>. QED BY <1>3, <3>1, <3>2
  <2> HIDE DEF a, b
  <2>2. ~(8 * a < 2 * Quartile(s, 1) - 3 * Range4(s)) /\ ~(8 * a > 2 * Quartile(s, 3) + 3 * Range4(s))
    BY <1>1, <1>2, <1>3, <2>1 DEF Range4
  <2>. QED BY <2>2 DEF IsOutlier, a
<1>4. CASE ~(q = 0 /\ r = 1)
  <2>1. 4 * b <= ValueAt(s, 3 * m)
    <3>1. /\ 4 * (q + 1) \in Nat /\ 3 * m \in Nat /\ 4 * (q + 1) <= 3 * m
          /\ 3 * m <= 4 * (Len(s) - 1) /\ Len(s) > 0
      BY <1>4
    <3>2. ValueAt(s, 4 * (q + 1)) <= ValueAt(s, 3 * m)
      BY <3>1, ValuesAscend
    <3>3. ValueAt(s, 4 * (q + 1)) = 4 * b
      <4>1. (4 * (q + 1)) % 4 = 0 /\ ((4 * (q + 1)) \div 4) + 1 = q + 2
        BY WholeSteps
      <4>. QED BY <4>1, Zenon DEF ValueAt
    <3>. QED BY <3>2, <3>3
  <2> HIDE DEF a, b
  <2> DEFINE q1 == ValueAt(s, m)
             q3 == ValueAt(s, 3 * m)
  <2>2. q1 \in Int /\ q3 \in Int /\ Quartile(s, 1) = q1 /\ Range4(s) = q3 - q1 /\ Quartile(s, 3) = q3
    BY <1>1 DEF Range4
  <2>3. q1 = 4 * a + (b - a) \/ q1 = 4 * a + 2 * (b - a)
    BY <1>2
  <2> HIDE DEF q1, q3
  <2>4. 4 * b <= q3
    BY <2>1 DEF q3
  <2>5. ~(8 * a < 2 * q1 - 3 * (q3 - q1)) /\ ~(8 * a > 2 * q3 + 3 * (q3 - q1))
    BY <1>2, <2>2, <2>3, <2>4
  <2>6. ~(8 * a < 2 * Quartile(s, 1) - 3 * Range4(s)) /\ ~(8 * a > 2 * Quartile(s, 3) + 3 * Range4(s))
    BY <2>2, <2>5
  <2>. QED BY <2>6 DEF IsOutlier, a
<1>. QED BY <1>3, <1>4

\* Positions lo .. hi that are no outliers, and enough of them.
LEMMA OutliersAtMostHalf ==
    ASSUME NEW s, Ascending(s), NEW m \in Nat, Len(s) = m + 1
    PROVE  /\ CountOf(s, LAMBDA x : IsOutlier(x, s)) \in Nat
           /\ 2 * CountOf(s, LAMBDA x : IsOutlier(x, s)) <= Len(s)
<1> DEFINE O == {i \in DOMAIN s : IsOutlier(s[i], s)}
<1>1. DOMAIN s = 1 .. Len(s)
  BY DEF Ascending
<1>2. \E lo, hi \in 1 .. Len(s) : /\ lo <= hi /\ 2 * (hi - lo + 1) >= Len(s)
                                  /\ \A i \in lo .. hi : ~IsOutlier(s[i], s)
  <2>1. PICK q \in Nat, r \in 0 .. 3 : m = 4 * q + r
    BY Quarters
  <2>2. CASE r = 0
    <3> DEFINE lo == q + 1
               hi == 3 * q + 1
    <3>1. lo \in 1 .. Len(s) /\ hi \in 1 .. Len(s) /\ lo <= hi /\ 2 * (hi - lo + 1) >= Len(s)
      BY <2>1, <2>2
    <3>2. \A i \in lo .. hi : i \in 1 .. Len(s) /\ m <= 4 * (i - 1) /\ 4 * (i - 1) <= 3 * m
      BY <2>1, <2>2
    <3>3. \A i \in lo .. hi : ~IsOutlier(s[i], s)
      BY <3>2, BetweenIsNoOutlier
    <3> HIDE DEF lo, hi
    <3>. QED BY <3>1, <3>3
  <2>3. CASE r = 3
    <3> DEFINE lo == q + 2
               hi == 3 * q + 3
    <3>1. lo \in 1 .. Len(s) /\ hi \in 1 .. Len(s) /\ lo <= hi /\ 2 * (hi - lo + 1) >= Len(s)
      BY <2>1, <2>3
    <3>2. \A i \in lo .. hi : i \in 1 .. Len(s) /\ m <= 4 * (i - 1) /\ 4 * (i - 1) <= 3 * m
      BY <2>1, <2>3
    <3>3. \A i \in lo .. hi : ~IsOutlier(s[i], s)
      BY <3>2, BetweenIsNoOutlier
    <3> HIDE DEF lo, hi
    <3>. QED BY <3>1, <3>3
  <2>4. CASE r \in {1, 2}
    <3> DEFINE lo == q + 1
               hi == 3 * q + r
    <3>1. lo \in 1 .. Len(s) /\ hi \in 1 .. Len(s) /\ lo <= hi /\ 2 * (hi - lo + 1) >= Len(s)
      BY <2>1, <2>4
    <3>2. ~IsOutlier(s[lo], s)
      BY <2>1, <2>4, BeforeIsNoOutlier
    <3>3. \A i \in lo .. hi :
            i # lo => i \in 1 .. Len(s) /\ m <= 4 * (i - 1) /\ 4 * (i - 1) <= 3 * m
      BY <2>1, <2>4
    <3>4. \A i \in lo .. hi : ~IsOutlier(s[i], s)
      BY <3>2, <3>3, BetweenIsNoOutlier
    <3> HIDE DEF lo, hi
    <3>. QED BY <3>1, <3>4
  <2>. QED BY <2>2, <2>3, <2>4
<1>3. PICK lo \in 1 .. Len(s), hi \in 1 .. Len(s) :
          /\ lo <= hi /\ 2 * (hi - lo + 1) >= Len(s)
          /\ \A i \in lo .. hi : ~IsOutlier(s[i], s)
  BY <1>2
<1> DEFINE R == (1 .. Len(s)) \ (lo .. hi)
<1>4. O \subseteq R
  BY <1>1, <1>3
<1>5. /\ IsFiniteSet(1 .. Len(s)) /\ Cardinality(1 .. Len(s)) = Len(s)
      /\ IsFiniteSet(lo .. hi) /\ Cardinality(lo .. hi) = hi - lo + 1
  BY <1>3, FS_Interval
<1>6. (1 .. Len(s)) \cap (lo .. hi) = lo .. hi
  OBVIOUS
<1>7. IsFiniteSet(R) /\ Cardinality(R) = Len(s) - (hi - lo + 1)
  <2>1. IsFiniteSet(R) /\ Cardinality(R) = Cardinality(1 .. Len(s)) - Cardinality((1 .. Len(s)) \cap (lo .. hi))
    BY <1>5, FS_Difference, Zenon
  <2>. QED BY <1>5, <1>6, <2>1, Zenon
<1> HIDE DEF R, O
<1>8. Cardinality(O) <= Cardinality(R) /\ Cardinality(O) \in Nat
  <2>1. IsFiniteSet(O)
    BY <1>4, <1>7, FS_Subset
  <2>. QED BY <1>4, <1>7, <2>1, FS_Subset, FS_CardinalityType
<1>9. CountOf(s, LAMBDA x : IsOutlier(x, s)) = Cardinality(O)
  BY DEF CountOf, O
<1>10. 2 * Cardinality(O) <= Len(s)
  BY <1>3, <1>7, <1>8
<1>. QED BY <1>8, <1>9, <1>10

\* The numbers of a column, sorted.
Sorted(values) ==
    LET v == [i \in DOMAIN values |-> values[i].value]
    IN  InOrder(v, Kept(values), Smaller(v))

\* They ascend, and are as many as the values kept.
LEMMA SortedNumbers ==
    ASSUME NEW values \in Seq(Cell)
    PROVE  Ascending(Sorted(values)) /\ Len(Sorted(values)) = CountOf(values, Coercible)
<1> DEFINE v == [i \in DOMAIN values |-> values[i].value]
           I == Kept(values)
           R == Smaller(v)
           s == InOrder(v, I, R)
           n == Cardinality(I)
           f == Position(I, R)
<1>1. v \in Seq(Int) /\ DOMAIN v = DOMAIN values
  <2>1. DOMAIN values = 1 .. Len(values) /\ \A i \in DOMAIN values : values[i] \in Cell
    OBVIOUS
  <2>2. \A i \in DOMAIN values : values[i].value \in Int
    BY <2>1 DEF Cell
  <2>. QED BY <2>1, <2>2
<1>2. I \in SUBSET DOMAIN v
  BY <1>1 DEF Kept
<1> HIDE DEF v, I
<1>3. IsFiniteSet(I) /\ Orders(R, I)
  BY <1>1, <1>2, PositionsOrdered
<1> HIDE DEF R
<1>4. /\ n \in Nat
      /\ f \in [1 .. n -> I]
      /\ s = [k \in 1 .. n |-> v[f[k]]]
      /\ \A k, l \in 1 .. n : k < l => <<f[k], f[l]>> \in R
  <2>1. s = [k \in 1 .. n |-> v[f[k]]]
    BY DEF InOrder, Position, Below
  <2>2. n \in Nat /\ f \in [1 .. n -> I] /\ \A k, l \in 1 .. n : k < l => <<f[k], f[l]>> \in R
    <3> HIDE DEF s
    <3>. QED BY <1>3, InOrderPositions
  <2>. QED BY <2>1, <2>2, Zenon
<1> HIDE DEF s, f, n
<1>5. \A i \in I : v[i] \in Int
  BY <1>1, <1>2
<1>6. s \in Seq(Int) /\ Len(s) = n /\ \A k \in 1 .. n : s[k] = v[f[k]]
  BY <1>4, <1>5
<1>7. ASSUME NEW k \in 1 .. Len(s), NEW l \in 1 .. Len(s), k <= l
      PROVE  s[k] <= s[l]
  <2>1. CASE k = l
    BY <1>6, <2>1
  <2>2. CASE k < l
    <3>1. <<f[k], f[l]>> \in R
      BY <1>4, <1>6, <2>2
    <3>2. v[f[k]] <= v[f[l]]
      <4>1. v[f[k]] < v[f[l]] \/ v[f[k]] = v[f[l]]
        BY <3>1 DEF R, Smaller
      <4>2. v[f[k]] \in Int /\ v[f[l]] \in Int
        BY <1>4, <1>5, <1>6
      <4>. QED BY <4>1, <4>2
    <3>. QED BY <3>2, <1>6
  <2>. QED BY <1>4, <1>7, <2>1, <2>2
<1>8. Ascending(s)
  BY <1>6, <1>7 DEF Ascending
<1>. QED BY <1>6, <1>8, CountCoercible DEF Sorted, s, v, I, R, n

\* The statistics are over the values kept, unless pandas raises.
LEMMA StatsCount ==
    ASSUME NEW values \in Seq(Cell), NEW raises \in BOOLEAN
    PROVE  NumericStats(values, raises).count
             = IF raises THEN 0 ELSE CountOf(values, Coercible)
<1> DEFINE s == Sorted(values)
<1>1. NumericStats(values, raises).count = IF raises \/ s = <<>> THEN 0 ELSE Len(s)
  BY DEF NumericStats, NoStats, Sorted, Kept
<1>2. s \in Seq(Int) /\ Len(s) = CountOf(values, Coercible)
  BY SortedNumbers DEF Ascending
<1>. QED BY <1>1, <1>2

\* The order statistics of numbers are in order, and at most half of the
\* numbers are outliers.
LEMMA StatsInOrder ==
    ASSUME NEW values \in Seq(Cell), NEW raises \in BOOLEAN,
           NumericStats(values, raises).count > 0
    PROVE  LET stats == NumericStats(values, raises) IN
           /\ stats.min <= stats.q25 /\ stats.q25 <= stats.median
           /\ stats.median <= stats.q75 /\ stats.q75 <= stats.max
           /\ 2 * stats.outliers <= stats.count
<1> DEFINE s == Sorted(values)
           stats == NumericStats(values, raises)
           outliers == CountOf(s, LAMBDA x : IsOutlier(x, s))
<1>1. stats = IF raises \/ s = <<>> THEN NoStats
              ELSE [count |-> Len(s), min |-> 4 * s[1], max |-> 4 * s[Len(s)],
                    q25 |-> Quartile(s, 1), median |-> Quartile(s, 2), q75 |-> Quartile(s, 3),
                    outliers |-> outliers]
  BY DEF NumericStats, Sorted, Kept
<1>2. Ascending(s)
  BY SortedNumbers
<1> HIDE DEF s
<1>3. ~raises /\ s # <<>>
  BY <1>1 DEF NoStats
<1>4. PICK m \in Nat : Len(s) = m + 1
  <2>1. s \in Seq(Int)
    BY <1>2 DEF Ascending
  <2>2. Len(s) \in Nat /\ Len(s) # 0
    BY <1>3, <2>1
  <2>3. Len(s) - 1 \in Nat /\ Len(s) = (Len(s) - 1) + 1
    BY <2>2
  <2>. QED BY <2>3
<1>5. /\ 4 * s[1] <= Quartile(s, 1) /\ Quartile(s, 1) <= Quartile(s, 2)
      /\ Quartile(s, 2) <= Quartile(s, 3) /\ Quartile(s, 3) <= 4 * s[Len(s)]
  BY <1>2, <1>4, QuartilesAscend
<1>6. 2 * outliers <= Len(s)
  BY <1>2, <1>4, OutliersAtMostHalf
<1> HIDE DEF outliers
<1>7. /\ stats.count = Len(s) /\ stats.outliers = outliers
      /\ stats.min = 4 * s[1] /\ stats.max = 4 * s[Len(s)]
      /\ stats.q25 = Quartile(s, 1) /\ stats.median = Quartile(s, 2) /\ stats.q75 = Quartile(s, 3)
  BY <1>1, <1>3
<1>. QED BY <1>5, <1>6, <1>7

(***************************************************************************)
(* The lightweight service.                                                *)
(***************************************************************************)

\* What it calls numeric, the other would, and keeps every value of.
LEMMA LightIsCareful ==
    ASSUME NEW form, NEW column \in Seq(Cell),
           form = "csv" => \A i \in DOMAIN column : Text(column[i]),
           LightColumn(form, column).type = "numeric"
    PROVE  /\ DetectColumnType(Frame(form, column)) = "numeric"
           /\ \A i \in DOMAIN NonNull(column) : Coercible(NonNull(column)[i])
<1> DEFINE cells == [i \in DOMAIN column |-> Row(form, column[i])]
           values == NonNull(cells)
           f == Position(Filled(cells), Earlier(cells))
<1>1. DOMAIN column = 1 .. Len(column) /\ \A i \in DOMAIN column : column[i] \in Cell
  OBVIOUS
<1>2. \A c \in Cell : Row(form, c) \in Cell
  BY DEF Row, Cell, Kinds
<1>3. cells \in Seq(Cell) /\ DOMAIN cells = DOMAIN column
      /\ \A i \in DOMAIN column : cells[i] = Row(form, column[i])
  BY <1>1, <1>2
<1>4. values # <<>> /\ \A k \in DOMAIN values : ~Text(values[k])
  BY DEF LightColumn
<1> HIDE DEF cells, values, f
<1>5. /\ values \in Seq(Cell)
      /\ \A k \in 1 .. Len(values) : f[k] \in Filled(cells) /\ values[k] = cells[f[k]]
      /\ \A i \in Filled(cells) : \E k \in 1 .. Len(values) : f[k] = i
  <2> DEFINE n == Cardinality(Filled(cells))
  <2>1. /\ Len(values) = n /\ values \in Seq(Cell)
        /\ f \in [1 .. n -> Filled(cells)]
        /\ values = [k \in 1 .. n |-> cells[f[k]]]
        /\ \A i \in Filled(cells) : \E k \in 1 .. n : f[k] = i
    BY <1>3, NonNullCells DEF values, f
  <2>. QED BY <2>1
<1>6. 1 \in 1 .. Len(values) /\ DOMAIN values = 1 .. Len(values)
  BY <1>4, <1>5
<1>7. form # "csv"
  <2>1. SUFFICES ASSUME form = "csv" PROVE FALSE
    OBVIOUS
  <2>2. f[1] \in DOMAIN column /\ values[1] = Row(form, column[f[1]])
    BY <1>3, <1>5, <1>6 DEF Filled
  <2>3. Text(column[f[1]])
    BY <2>1, <2>2
  <2>4. Text(Row(form, column[f[1]]))
    BY <2>3 DEF Row, Text
  <2>. QED BY <2>2, <2>4, <1>4, <1>6
<1>8. \A i \in DOMAIN column : cells[i] = column[i]
  BY <1>3, <1>7 DEF Row
<1>9. cells = column
  BY <1>1, <1>3, <1>8
<1>10. NumericDtype(column)
  <2>1. SUFFICES ASSUME NEW i \in DOMAIN column, ~IsNull(column[i])
                 PROVE  column[i].kind = "number"
    BY DEF NumericDtype, IsNull
  <2>2. PICK k \in 1 .. Len(values) : f[k] = i
    BY <2>1, <1>5, <1>9 DEF Filled
  <2>3. values[k] = column[i] /\ ~Text(values[k])
    BY <2>2, <1>4, <1>5, <1>6, <1>9
  <2>. QED BY <2>3 DEF Text
<1>11. Frame(form, column) = column
  BY <1>7 DEF Frame
<1>12. \A i \in DOMAIN values : Coercible(values[i])
  <2>1. \A c \in Cell : ~Text(c) => Coercible(c)
    BY DEF Text, Coercible
  <2>. QED BY <1>4, <1>5, <2>1
<1>. QED BY <1>4, <1>9, <1>10, <1>11, <1>12, TypeOfColumn DEF values

(***************************************************************************)
(* What a payload and its profile are.                                     *)
(***************************************************************************)

\* Columns of a payload are sequences of cells, all text if it is CSV.
LEMMA PayloadColumns ==
    ASSUME NEW p \in Payloads
    PROVE  /\ DOMAIN p.columns \subseteq {"a", "b"}
           /\ \A name \in DOMAIN p.columns :
                 /\ p.columns[name] \in Seq(Cell)
                 /\ p.form = "csv" => \A i \in DOMAIN p.columns[name] : Text(p.columns[name][i])
<1>1. p.columns \in Tables /\ (p.form = "csv" => IsText(p.columns))
  BY DEF Payloads
<1>2. PICK names \in {{"a"}, {"a", "b"}}, n \in Nat : p.columns \in [names -> [1..n -> Cells]]
  <2>1. \A m \in Nat : 0 .. m \subseteq Nat
    OBVIOUS
  <2>2. \/ \E n \in 0 .. MaxRows : p.columns \in [{"a"} -> [1..n -> Cells]]
        \/ \E n \in 0 .. MaxPairs : p.columns \in [{"a", "b"} -> [1..n -> Cells]]
    BY <1>1 DEF Tables
  <2>. QED BY <2>1, <2>2, DatasetProfileAssumption
<1>3. ASSUME NEW name \in names PROVE p.columns[name] \in Seq(Cell)
  <2>1. p.columns[name] \in [1..n -> Cells]
    BY <1>2
  <2>2. p.columns[name] \in [1..n -> Cell]
    BY <2>1, DatasetProfileAssumption
  <2>. QED BY <2>2
<1>. QED BY <1>1, <1>2, <1>3 DEF IsText

\* The result of a job is that of its payload.
Ran ==
    /\ payload \in Payloads
    /\ service \in Services
    /\ result \in {NoResult, [answer |-> "refused"], Execute(payload)}

\* It is an invariant.
LEMMA RanInvariant == Spec => []Ran
<1>1. Init => Ran
  BY DEF Init, Ran
<1>2. Ran /\ [Next]_vars => Ran'
  <2> SUFFICES ASSUME Ran, [Next]_vars PROVE Ran'
    OBVIOUS
  <2>1. CASE Run
    BY <2>1 DEF Run, Ran, Execute, PandasProfile, ProfileDataframe
  <2>2. CASE UNCHANGED vars
    <3>1. payload' = payload /\ raising' = raising /\ service' = service /\ result' = result
      BY <2>2 DEF vars
    <3>2. Execute(payload)' = Execute(payload)
      BY <3>1 DEF Execute, PandasProfile, ProfileDataframe
    <3>. QED BY <3>1, <3>2 DEF Ran
  <2>. QED BY <2>1, <2>2 DEF Next
<1>. QED BY <1>1, <1>2, PTL DEF Spec

\* The profile of a payload, by its columns.
Columns(p) ==
    [name \in DOMAIN p.columns |->
        ProfileColumn(Frame(p.form, p.columns[name]), name \in raising)]

\* Which result is which profile.
LEMMA ResultShape ==
    ASSUME Ran
    PROVE  /\ result.answer = "profile" => result = Profile(Columns(payload))
           /\ result.answer = "light" => result = LightProfile(payload)
<1>1. PandasProfile(payload) = Profile(Columns(payload))
  BY DEF PandasProfile, ProfileDataframe, Columns
<1>2. Execute(payload) \in {Profile(Columns(payload)), LightProfile(payload), [answer |-> "failed"]}
  BY <1>1, DatasetProfileAssumption DEF Ran, Execute
<1>3. Profile(Columns(payload)).answer = "profile" /\ LightProfile(payload).answer = "light"
  BY DEF Profile, LightProfile
<1>. QED BY <1>2, <1>3 DEF Ran, NoResult

\* The profile of a column, by what the properties ask of it.
LEMMA ColumnShape ==
    ASSUME NEW column \in Seq(Cell), NEW raises \in BOOLEAN
    PROVE  LET values == NonNull(column)
               unique == Cardinality(ToSet(values))
               c == ProfileColumn(column, raises)
           IN  /\ c.type = DetectColumnType(column)
               /\ c.total = Len(column)
               /\ c.null = Len(column) - Len(values)
               /\ c.unique = unique
               /\ c.duplicates = Len(values) - unique
               /\ c.stats = IF c.type = "numeric" THEN NumericStats(values, raises) ELSE NoStats
               /\ c.top = IF c.type = "categorical" THEN TopCount(values) ELSE 0
BY DEF ProfileColumn, Duplicates

\* A column is numeric when enough of it is, under both services.
THEOREM ProfileNumericMeansNumeric == Spec => []NumericMeansNumeric
<1>1. ASSUME Ran, result.answer = "profile", NEW name \in DOMAIN result.columns
      PROVE  LET values == NonNull(payload.columns[name])
                 convertible == CountOf(values, Convertible)
                 most == values # <<>> /\ 5 * convertible >= 4 * Len(values)
                 c == result.columns[name]
             IN  /\ c.type = "numeric" =>
                       /\ most
                       /\ c.stats.count = IF name \in raising THEN 0
                                          ELSE CountOf(values, Coercible)
                 /\ most /\ Len(values) <= Sample => c.type = "numeric"
  <2> DEFINE column == payload.columns[name]
             frame == Frame(payload.form, column)
             values == NonNull(column)
             framed == NonNull(frame)
             c == result.columns[name]
             raises == name \in raising
  <2>1. result = Profile(Columns(payload))
    BY <1>1, ResultShape
  <2>2. name \in DOMAIN payload.columns /\ c = ProfileColumn(frame, raises) /\ raises \in BOOLEAN
    BY <1>1, <2>1 DEF Profile, Columns
  <2>3. column \in Seq(Cell)
    BY <1>1, <2>2, PayloadColumns DEF Ran
  <2> HIDE DEF c, column, raises
  <2>4. frame \in Seq(Cell)
    BY <2>3, FrameCells
  <2>5. Len(framed) = Len(values) /\ CountOf(framed, Convertible) = CountOf(values, Convertible)
        /\ CountOf(framed, Coercible) = CountOf(values, Coercible)
    BY <2>3, FrameCounts
  <2>6. values \in Seq(Cell)
    BY <2>3, NonNullCells
  <2> HIDE DEF frame, values
  <2>7. framed \in Seq(Cell)
    BY <2>4, NonNullCells
  <2>8. c.type = DetectColumnType(frame)
        /\ (c.type = "numeric" => c.stats = NumericStats(framed, raises))
    BY <2>2, <2>4, ColumnShape
  <2>9. NumericStats(framed, raises).count
        = IF raises THEN 0 ELSE CountOf(framed, Coercible)
    BY <2>2, <2>7, StatsCount
  <2>10. framed # <<>> <=> values # <<>>
    BY <2>5, <2>6, <2>7
  <2>. QED BY <2>4, <2>5, <2>8, <2>9, <2>10, TypeOfColumn DEF c, values, column, raises
<1>2. ASSUME Ran, result.answer = "light", NEW name \in DOMAIN result.columns,
             result.columns[name].type = "numeric"
      PROVE  /\ DetectColumnType(Frame(payload.form, payload.columns[name])) = "numeric"
             /\ \A i \in DOMAIN NonNull(payload.columns[name]) :
                    Coercible(NonNull(payload.columns[name])[i])
  <2>1. /\ name \in DOMAIN payload.columns
        /\ LightColumn(payload.form, payload.columns[name]).type = "numeric"
    BY <1>2, ResultShape DEF LightProfile
  <2>. QED BY <1>2, <2>1, PayloadColumns, LightIsCareful DEF Ran
<1>3. Ran => NumericMeansNumeric
  BY <1>1, <1>2 DEF NumericMeansNumeric
<1>. QED BY <1>3, RanInvariant, PTL

(***************************************************************************)
(* A profile adds up.                                                      *)
(***************************************************************************)

\* A set of numbers that is bounded and not empty has a greatest one.
LEMMA Greatest ==
    ASSUME NEW n \in Nat, NEW S \in SUBSET (0 .. n), S # {}
    PROVE  \E k \in S : \A l \in S : l <= k
<1> DEFINE R == {ss \in Nat \X Nat : ss[1] < ss[2]}
           T == {x \in Nat : x <= n /\ n - x \in S}
<1>1. IsWellFoundedOn(R, Nat)
  BY NatLessThanWellFounded DEF OpToRel
<1>2. T \in SUBSET Nat /\ T # {}
  <2>1. PICK x \in S : TRUE
    OBVIOUS
  <2>2. n - x \in Nat /\ n - x <= n /\ n - (n - x) = x
    OBVIOUS
  <2>. QED BY <2>1, <2>2
<1>3. PICK k \in T : \A l \in T : <<l, k>> \notin R
  <2> HIDE DEF R, T
  <2>. QED BY <1>1, <1>2, WFMin
<1>4. \A l \in T : ~(l < k)
  BY <1>3
<1>5. ASSUME NEW l \in S PROVE l <= n - k
  <2>1. n - l \in Nat /\ n - l <= n /\ n - (n - l) = l
    OBVIOUS
  <2>2. ~(n - l < k)
    BY <1>4, <2>1
  <2>. QED BY <2>2
<1>. QED BY <1>5

\* What occurs most often leaves no more distinct values than other places.
LEMMA TopAndDistinct ==
    ASSUME NEW values \in Seq(Cell)
    PROVE  LET unique == Cardinality(ToSet(values)) IN
           /\ unique \in 0 .. Len(values)
           /\ values # <<>> => /\ TopCount(values) \in Nat
                               /\ TopCount(values) + unique <= Len(values) + 1
<1> DEFINE V == ToSet(values)
           P(v) == {i \in DOMAIN values : values[i] = v}
           times(v) == Cardinality(P(v))
<1>1. /\ Len(values) \in Nat /\ DOMAIN values = 1 .. Len(values)
      /\ IsFiniteSet(DOMAIN values) /\ Cardinality(DOMAIN values) = Len(values)
  <2>1. Len(values) \in Nat /\ DOMAIN values = 1 .. Len(values)
    OBVIOUS
  <2>2. IsFiniteSet(1 .. Len(values)) /\ Cardinality(1 .. Len(values)) = Len(values)
    BY <2>1, Intervals, Zenon
  <2>. QED BY <2>1, <2>2, Zenon
<1>2. V = {values[i] : i \in DOMAIN values}
  BY DEF ToSet
<1>3. IsFiniteSet(V) /\ Cardinality(V) \in 0 .. Len(values)
  <2> DEFINE f == [i \in DOMAIN values |-> values[i]]
  <2>1. f \in Surjection(DOMAIN values, V)
    BY <1>2 DEF Surjection
  <2>2. IsFiniteSet(V) /\ Cardinality(V) <= Cardinality(DOMAIN values)
    BY <1>1, <2>1, FS_Surjection
  <2>3. Cardinality(V) \in Nat
    BY <2>2, FS_CardinalityType
  <2>. QED BY <1>1, <2>2, <2>3
<1>4. ASSUME NEW v \in V
      PROVE  times(v) \in 0 .. Len(values) /\ times(v) + Cardinality(V) <= Len(values) + 1
  <2> DEFINE D == (DOMAIN values) \ P(v)
             f == [i \in D |-> values[i]]
  <2>1. P(v) \in SUBSET DOMAIN values /\ (DOMAIN values) \cap P(v) = P(v)
    OBVIOUS
  <2>2. IsFiniteSet(P(v)) /\ times(v) <= Len(values) /\ times(v) \in Nat
    BY <1>1, <2>1, FS_Subset, FS_CardinalityType
  <2>3. f \in Surjection(D, V \ {v})
    <3>1. \A i \in D : f[i] \in V \ {v}
      BY <1>2
    <3>2. \A x \in V \ {v} : \E i \in D : f[i] = x
      BY <1>2
    <3>3. f \in [D -> V \ {v}]
      BY <3>1
    <3> HIDE DEF f, D, V
    <3>. QED BY <3>2, <3>3 DEF Surjection
  <2>4. IsFiniteSet(D) /\ Cardinality(D) = Len(values) - times(v)
    <3>1. IsFiniteSet(D)
          /\ Cardinality(D) = Cardinality(DOMAIN values) - Cardinality((DOMAIN values) \cap P(v))
      BY <1>1, FS_Difference, Zenon
    <3>. QED BY <1>1, <2>1, <3>1, Zenon
  <2>5. Cardinality(V \ {v}) = Cardinality(V) - 1
    BY <1>3, <1>4, FS_RemoveElement
  <2>6. Cardinality(V \ {v}) <= Cardinality(D)
    BY <2>3, <2>4, FS_Surjection
  <2> HIDE DEF D, V, P
  <2>. QED BY <1>1, <1>3, <2>2, <2>4, <2>5, <2>6
<1>5. ASSUME values # <<>>
      PROVE  TopCount(values) \in Nat /\ TopCount(values) + Cardinality(V) <= Len(values) + 1
  <2> DEFINE S == {times(v) : v \in V}
  <2>1. V # {}
    <3>1. Len(values) # 0
      BY <1>5
    <3>2. 1 \in DOMAIN values
      BY <1>1, <3>1
    <3>. QED BY <1>2, <3>2
  <2>2. S \in SUBSET (0 .. Len(values)) /\ S # {}
    BY <1>4, <2>1
  <2>3. \E k \in S : \A l \in S : l <= k
    <3> HIDE DEF S
    <3>. QED BY <1>1, <2>2, Greatest
  <2>4. TopCount(values) = CHOOSE k \in S : \A v \in V : times(v) <= k
    BY DEF TopCount, CountOf
  <2>5. \E k \in S : \A v \in V : times(v) <= k
    BY <2>3
  <2>6. TopCount(values) \in S
    BY <2>4, <2>5
  <2>7. PICK v \in V : TopCount(values) = times(v)
    BY <2>6
  <2>. QED BY <1>4, <2>7
<1>. QED BY <1>3, <1>5

\* The parts of a set.
LEMMA TwoParts ==
    ASSUME NEW S, IsFiniteSet(S), NEW T, IsFiniteSet(T), S \cap T = {}
    PROVE  /\ IsFiniteSet(S \cup T) /\ Cardinality(S) \in Nat /\ Cardinality(T) \in Nat
           /\ Cardinality(S \cup T) = Cardinality(S) + Cardinality(T)
<1>1. Cardinality(S \cap T) = 0
  BY FS_EmptySet
<1>2. IsFiniteSet(S \cup T)
      /\ Cardinality(S \cup T) = Cardinality(S) + Cardinality(T) - Cardinality(S \cap T)
  BY FS_Union, Zenon
<1>3. Cardinality(S) \in Nat /\ Cardinality(T) \in Nat
  BY FS_CardinalityType
<1>. QED BY <1>1, <1>2, <1>3

\* The columns, in four parts by type.
LEMMA FourParts ==
    ASSUME NEW N, IsFiniteSet(N), NEW type,
           \A name \in N : type[name] \in {"unknown", "numeric", "mixed", "categorical"}
    PROVE  LET count(x) == Cardinality({name \in N : type[name] = x}) IN
           count("numeric") + count("categorical") + count("mixed") + count("unknown")
             = Cardinality(N)
<1> DEFINE S(x) == {name \in N : type[name] = x}
           A == S("numeric")
           B == S("categorical")
           C == S("mixed")
           D == S("unknown")
<1>1. IsFiniteSet(A) /\ IsFiniteSet(B) /\ IsFiniteSet(C) /\ IsFiniteSet(D)
  BY FS_Subset
<1>2. A \cap B = {} /\ (A \cup B) \cap C = {} /\ (A \cup B \cup C) \cap D = {}
  OBVIOUS
<1>3. (A \cup B \cup C) \cup D = N
  OBVIOUS
<1> HIDE DEF A, B, C, D
<1>4. /\ IsFiniteSet(A \cup B) /\ Cardinality(A) \in Nat /\ Cardinality(B) \in Nat
      /\ Cardinality(A \cup B) = Cardinality(A) + Cardinality(B)
  BY <1>1, <1>2, TwoParts, Zenon
<1>5. /\ IsFiniteSet(A \cup B \cup C) /\ Cardinality(C) \in Nat
      /\ Cardinality(A \cup B \cup C) = Cardinality(A \cup B) + Cardinality(C)
  BY <1>1, <1>2, <1>4, TwoParts, Zenon
<1>6. /\ Cardinality(D) \in Nat
      /\ Cardinality((A \cup B \cup C) \cup D) = Cardinality(A \cup B \cup C) + Cardinality(D)
  BY <1>1, <1>2, <1>5, TwoParts, Zenon
<1>7. Cardinality(A) + Cardinality(B) + Cardinality(C) + Cardinality(D) = Cardinality(N)
  BY <1>3, <1>4, <1>5, <1>6
<1>. QED BY <1>7 DEF A, B, C, D

\* There is a pair of numeric columns when there are two.
LEMMA PairsOfNumeric ==
    ASSUME NEW columns, IsFiniteSet(DOMAIN columns)
    PROVE  Correlated(columns) # {} <=> OfType(columns, "numeric") > 1
<1> DEFINE A == {name \in DOMAIN columns : columns[name].type = "numeric"}
<1>1. IsFiniteSet(A) /\ Cardinality(A) \in Nat
  <2>1. A \in SUBSET DOMAIN columns
    OBVIOUS
  <2>2. IsFiniteSet(A)
    BY <2>1, FS_Subset
  <2>. QED BY <2>2, FS_CardinalityType
<1>2. Correlated(columns) = {pair \in SUBSET A : Cardinality(pair) = 2}
  BY DEF Correlated
<1>3. OfType(columns, "numeric") = Cardinality(A)
  BY DEF OfType
<1> HIDE DEF A
<1>4. ASSUME NEW pair \in SUBSET A, Cardinality(pair) = 2 PROVE Cardinality(A) > 1
  <2>1. Cardinality(pair) <= Cardinality(A)
    BY <1>1, FS_Subset
  <2>. QED BY <1>1, <1>4, <2>1
<1>5. ASSUME Cardinality(A) > 1 PROVE \E pair \in SUBSET A : Cardinality(pair) = 2
  <2>1. PICK x \in A : TRUE
    BY <1>1, <1>5, FS_EmptySet
  <2>2. IsFiniteSet(A \ {x}) /\ Cardinality(A \ {x}) = Cardinality(A) - 1
    BY <1>1, FS_RemoveElement
  <2>3. PICK y \in A \ {x} : TRUE
    <3>1. Cardinality(A \ {x}) # 0
      BY <1>1, <1>5, <2>2
    <3>. QED BY <3>1, FS_EmptySet
  <2>4. Cardinality({x} \cup {y}) = 2
    <3>1. IsFiniteSet({x}) /\ Cardinality({x}) = 1
      BY FS_Singleton
    <3>2. Cardinality({x} \cup {y}) = 1 + 1
      BY <2>3, <3>1, FS_AddElement
    <3>. QED BY <3>2
  <2>. QED BY <2>1, <2>3, <2>4
<1>. QED BY <1>2, <1>3, <1>4, <1>5

\* A column adds up.
LEMMA ColumnAddsUp ==
    ASSUME NEW column \in Seq(Cell), NEW raises \in BOOLEAN
    PROVE  LET c == ProfileColumn(column, raises) IN
           /\ c.type \in {"unknown", "numeric", "mixed", "categorical"}
           /\ c.null + c.unique + c.duplicates = c.total
           /\ c.top + c.unique <= c.total - c.null + 1
           /\ c.stats.count > 0 =>
                 /\ c.stats.min <= c.stats.q25 /\ c.stats.q25 <= c.stats.median
                 /\ c.stats.median <= c.stats.q75 /\ c.stats.q75 <= c.stats.max
                 /\ 2 * c.stats.outliers <= c.stats.count
<1> DEFINE values == NonNull(column)
           unique == Cardinality(ToSet(values))
           c == ProfileColumn(column, raises)
<1>1. /\ c.type = DetectColumnType(column)
      /\ c.total = Len(column)
      /\ c.null = Len(column) - Len(values)
      /\ c.unique = unique
      /\ c.duplicates = Len(values) - unique
      /\ c.stats = IF c.type = "numeric" THEN NumericStats(values, raises) ELSE NoStats
      /\ c.top = IF c.type = "categorical" THEN TopCount(values) ELSE 0
  BY ColumnShape
<1>2. /\ c.type \in {"unknown", "numeric", "mixed", "categorical"}
      /\ c.type = "categorical" => values # <<>>
  BY <1>1, TypeOfColumn
<1>3. values \in Seq(Cell) /\ Len(values) \in 0 .. Len(column)
  BY NonNullCells
<1> HIDE DEF values, c
<1>4. /\ unique \in 0 .. Len(values)
      /\ values # <<>> => TopCount(values) \in Nat /\ TopCount(values) + unique <= Len(values) + 1
  BY <1>3, TopAndDistinct
<1> HIDE DEF unique
<1>5. c.null + c.unique + c.duplicates = c.total
  BY <1>1, <1>3, <1>4
<1>6. c.top + c.unique <= c.total - c.null + 1
  <2>1. CASE c.type = "categorical"
    <3>1. c.top = TopCount(values) /\ TopCount(values) \in Nat
          /\ TopCount(values) + unique <= Len(values) + 1
      BY <1>1, <1>2, <1>4, <2>1
    <3>. QED BY <1>1, <1>3, <1>4, <3>1
  <2>2. CASE c.type # "categorical"
    <3>1. c.top = 0
      BY <1>1, <2>2
    <3>. QED BY <1>1, <1>3, <1>4, <3>1
  <2>. QED BY <2>1, <2>2
<1>7. ASSUME c.stats.count > 0
      PROVE  /\ c.stats.min <= c.stats.q25 /\ c.stats.q25 <= c.stats.median
             /\ c.stats.median <= c.stats.q75 /\ c.stats.q75 <= c.stats.max
             /\ 2 * c.stats.outliers <= c.stats.count
  <2>1. c.stats = NumericStats(values, raises)
    BY <1>1, <1>7 DEF NoStats
  <2>. QED BY <1>3, <1>7, <2>1, StatsInOrder
<1>. QED BY <1>2, <1>5, <1>6, <1>7 DEF c

\* Every profile adds up: the columns, the summary counts, the correlations.
THEOREM ProfilesAddUp == Spec => []ProfileAddsUp
<1>1. ASSUME Ran, result.answer = "profile"
      PROVE  LET columns == result.columns IN
             /\ result.numeric + result.categorical + result.mixed + OfType(columns, "unknown")
                   = Cardinality(DOMAIN columns)
             /\ (result.correlations # {}) <=> (result.numeric > 1)
             /\ \A name \in DOMAIN columns :
                   LET c == columns[name] IN
                   /\ c.null + c.unique + c.duplicates = c.total
                   /\ c.top + c.unique <= c.total - c.null + 1
                   /\ c.stats.count > 0 =>
                         /\ c.stats.min <= c.stats.q25 /\ c.stats.q25 <= c.stats.median
                         /\ c.stats.median <= c.stats.q75 /\ c.stats.q75 <= c.stats.max
                         /\ 2 * c.stats.outliers <= c.stats.count
  <2> DEFINE columns == result.columns
             N == DOMAIN columns
             types == [name \in N |-> columns[name].type]
  <2>1. result = Profile(Columns(payload))
    BY <1>1, ResultShape
  <2>2. /\ columns = Columns(payload)
        /\ result.numeric = OfType(columns, "numeric")
        /\ result.categorical = OfType(columns, "categorical")
        /\ result.mixed = OfType(columns, "mixed")
        /\ result.correlations = Correlated(columns)
    BY <2>1 DEF Profile
  <2>3. /\ N = DOMAIN payload.columns
        /\ \A name \in N :
              columns[name]
                = ProfileColumn(Frame(payload.form, payload.columns[name]), name \in raising)
    BY <2>2 DEF Columns
  <2>4. IsFiniteSet(N)
    <3>1. N \in SUBSET ({"a"} \cup {"b"})
      BY <1>1, <2>3, PayloadColumns DEF Ran
    <3>2. IsFiniteSet({"a"} \cup {"b"})
      BY FS_Singleton, FS_AddElement
    <3>. QED BY <3>1, <3>2, FS_Subset
  <2>5. ASSUME NEW name \in N
        PROVE  LET c == columns[name] IN
               /\ c.type \in {"unknown", "numeric", "mixed", "categorical"}
               /\ c.null + c.unique + c.duplicates = c.total
               /\ c.top + c.unique <= c.total - c.null + 1
               /\ c.stats.count > 0 =>
                     /\ c.stats.min <= c.stats.q25 /\ c.stats.q25 <= c.stats.median
                     /\ c.stats.median <= c.stats.q75 /\ c.stats.q75 <= c.stats.max
                     /\ 2 * c.stats.outliers <= c.stats.count
    <3>1. Frame(payload.form, payload.columns[name]) \in Seq(Cell)
      BY <1>1, <2>3, PayloadColumns, FrameCells DEF Ran
    <3>2. columns[name]
            = ProfileColumn(Frame(payload.form, payload.columns[name]), name \in raising)
      BY <2>3
    <3> DEFINE raises == name \in raising
    <3>3. raises \in BOOLEAN /\ columns[name]
            = ProfileColumn(Frame(payload.form, payload.columns[name]), raises)
      BY <3>2
    <3> HIDE DEF columns, raises
    <3>. QED BY <3>1, <3>3, ColumnAddsUp
  <2>6. OfType(columns, "numeric") + OfType(columns, "categorical") + OfType(columns, "mixed")
          + OfType(columns, "unknown") = Cardinality(N)
    <3>1. \A name \in N : types[name] \in {"unknown", "numeric", "mixed", "categorical"}
      BY <2>5
    <3>2. \A x : OfType(columns, x) = Cardinality({name \in N : types[name] = x})
      BY DEF OfType
    <3> HIDE DEF N, types, columns
    <3> DEFINE count(x) == Cardinality({name \in N : types[name] = x})
    <3>3. count("numeric") + count("categorical") + count("mixed") + count("unknown") = Cardinality(N)
      BY <2>4, <3>1, FourParts, Zenon
    <3>4. \A x : OfType(columns, x) = count(x)
      BY <3>2
    <3> HIDE DEF count
    <3>. QED BY <3>3, <3>4
  <2>7. Correlated(columns) # {} <=> OfType(columns, "numeric") > 1
    <3> HIDE DEF columns
    <3>. QED BY <2>4, PairsOfNumeric
  <2>. QED BY <2>2, <2>5, <2>6, <2>7
<1>2. Ran => ProfileAddsUp
  BY <1>1 DEF ProfileAddsUp
<1>. QED BY <1>2, RanInvariant, PTL
=============================================================================
