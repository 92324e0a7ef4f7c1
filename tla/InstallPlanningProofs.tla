------------------------ MODULE InstallPlanningProofs ------------------------
(***************************************************************************)
(* Proofs about ReleaseOrder and InstallPlanning for any registry, policy, *)
(* catalogs and requests: digits compared from the left order releases by  *)
(* the values of their numerals, preferences.txt says what config did last *)
(* and an install executes the plan of its last snapshot.                  *)
(***************************************************************************)
EXTENDS InstallPlanning, FiniteSetTheorems, TLAPS

(***************************************************************************)
(* Numbers.                                                                *)
(***************************************************************************)

\* A set of numbers has a least one.
LEMMA Least ==
  ASSUME NEW T, T \subseteq Nat, T # {}
  PROVE  \E n \in T : \A m \in T : n <= m
<1>1. PICK n \in T : \A m \in T : ~(<<m, n>> \in OpToRel(<, Nat))
  BY NatLessThanWellFounded, WFMin
<1>2. \A m \in T : ~(m < n)
  <2>1. \A m \in T : m < n => <<m, n>> \in OpToRel(<, Nat)
    BY DEF OpToRel
  <2> QED
    BY <1>1, <2>1
<1>3. \A m \in T : m \in Nat
  OBVIOUS
<1>4. \A m \in Nat : ~(m < n) => n <= m
  BY <1>3
<1> QED
  BY <1>2, <1>3, <1>4

\* Min returns it.
LEMMA MinIsLeast ==
  ASSUME NEW T, T \subseteq Nat, T # {}
  PROVE  Min(T) \in T /\ \A m \in T : Min(T) <= m
BY Least DEF Min

(***************************************************************************)
(* The value of a numeral.                                                 *)
(***************************************************************************)

\* v holds the values of the prefixes of d that have up to N digits.
Values(d, N, v) ==
  /\ v \in [0..N -> Nat]
  /\ v[0] = 0
  /\ \A n \in 1..N : v[n] = 10 * v[n - 1] + d[n]

\* Every sequence of digits has such values.
LEMMA ValuesExist ==
  ASSUME NEW d \in Seq(Digit)
  PROVE  \E v : Values(d, Len(d), v)
<1> DEFINE T == {n \in 0..Len(d) : ~ \E v : Values(d, n, v)}
<1>a. Len(d) \in 0..Len(d)
  OBVIOUS
<1> SUFFICES ASSUME T # {} PROVE FALSE
  BY <1>a
<1>1. PICK n \in T : \A m \in T : n <= m
  <2>1. T \subseteq Nat
    OBVIOUS
  <2> HIDE DEF T
  <2> QED
    BY <2>1, Least
<1>2. n # 0
  <2>1. Values(d, 0, [i \in 0..0 |-> 0])
    BY DEF Values
  <2> QED
    BY <2>1
<1>3. n \in Nat /\ n - 1 \in 0..Len(d) /\ n - 1 \notin T /\ n \in 1..Len(d)
  BY <1>1, <1>2
<1>4. PICK v : Values(d, n - 1, v)
  BY <1>3
<1> DEFINE w == [i \in 0..n |-> IF i = n THEN 10 * v[n - 1] + d[n] ELSE v[i]]
<1>5. d[n] \in Nat /\ v[n - 1] \in Nat
  <2>1. n - 1 \in 0..(n - 1) /\ n \in 1..Len(d)
    BY <1>3
  <2>2. d[n] \in 0..9
    BY <2>1 DEF Digit
  <2> QED
    BY <1>4, <2>1, <2>2 DEF Values
<1>6. Values(d, n, w)
  <2>1. w \in [0..n -> Nat]
    BY <1>3, <1>4, <1>5 DEF Values
  <2>2. w[0] = 0
    BY <1>2, <1>3, <1>4 DEF Values
  <2>3. ASSUME NEW i \in 1..n PROVE w[i] = 10 * w[i - 1] + d[i]
    <3>1. CASE i = n
      BY <3>1, <1>3
    <3>2. CASE i # n
      <4>1. i \in 1..(n - 1) /\ i \in 0..n /\ i - 1 \in 0..n /\ i - 1 # n
        BY <3>2, <1>3
      <4>2. w[i] = v[i] /\ w[i - 1] = v[i - 1]
        BY <4>1, <3>2
      <4> QED
        BY <4>1, <4>2, <1>4 DEF Values
    <3> QED
      BY <3>1, <3>2
  <2> QED
    BY <2>1, <2>2, <2>3 DEF Values
<1> QED
  BY <1>1, <1>6

\* Value is the last of them.
LEMMA ValueFacts ==
  ASSUME NEW d \in Seq(Digit)
  PROVE  \E v : Values(d, Len(d), v) /\ Value(d) = v[Len(d)]
<1> DEFINE F(v) == [n \in 0..Len(d) |-> IF n = 0 THEN 0 ELSE 10 * v[n - 1] + d[n]]
           u == CHOOSE v : v = F(v)
<1>1. PICK v : Values(d, Len(d), v)
  BY ValuesExist
<1>2. v = F(v)
  BY <1>1 DEF Values
<1>3. u = F(u)
  BY <1>2
<1>4. \A n \in 0..Len(d) : u[n] = (IF n = 0 THEN 0 ELSE 10 * u[n - 1] + d[n])
  <2> HIDE DEF u
  <2> QED
    BY <1>3
<1>5. DOMAIN u = 0..Len(d)
  <2> HIDE DEF u
  <2> QED
    BY <1>3
<1> DEFINE T == {n \in 0..Len(d) : u[n] # v[n]}
<1>6. T = {}
  <2> SUFFICES ASSUME T # {} PROVE FALSE
    OBVIOUS
  <2>1. PICK n \in T : \A m \in T : n <= m
    <3>1. T \subseteq Nat
      OBVIOUS
    <3> HIDE DEF T
    <3> QED
      BY <3>1, Least
  <2> HIDE DEF u
  <2>2. n \in 0..Len(d) /\ u[n] # v[n]
    BY <2>1
  <2>3. n # 0
    BY <1>1, <1>4, <2>2 DEF Values
  <2>4. n - 1 \in 0..Len(d) /\ n \in 1..Len(d) /\ n - 1 \notin T
    BY <2>1, <2>2, <2>3
  <2>5. u[n - 1] = v[n - 1]
    BY <2>4
  <2>6. u[n] = 10 * u[n - 1] + d[n]
    BY <1>4, <2>3, <2>2
  <2>7. v[n] = 10 * v[n - 1] + d[n]
    BY <1>1, <2>4 DEF Values
  <2> QED
    BY <2>2, <2>5, <2>6, <2>7
<1>7. Value(d) = u[Len(d)]
  BY DEF Value
<1> HIDE DEF u
<1>8. u[Len(d)] = v[Len(d)]
  <2>1. Len(d) \in 0..Len(d)
    OBVIOUS
  <2> QED
    BY <1>6, <2>1
<1> QED
  BY <1>1, <1>7, <1>8

\* One more digit.
LEMMA NextDigit ==
  \A x, y \in Nat, a, b \in Digit :
    /\ x < y => 10 * x + a < 10 * y + b
    /\ x = y /\ a < b => 10 * x + a < 10 * y + b
    /\ 10 * x + a = 0 => x = 0 /\ a = 0
BY DEF Digit

\* A prefix value that is ahead stays ahead: no digits that follow, as many
\* on either side, can close the distance.
LEMMA StaysAhead ==
  ASSUME NEW d \in Seq(Digit), NEW e \in Seq(Digit), NEW v, NEW w,
         Values(d, Len(d), v), Values(e, Len(e), w),
         NEW j \in 0..Len(d), NEW k \in 0..Len(e), Len(d) - j = Len(e) - k, v[j] < w[k]
  PROVE  v[Len(d)] < w[Len(e)]
<1> DEFINE T == {n \in 0..(Len(d) - j) : ~(v[j + n] < w[k + n])}
<1>0. Len(d) \in Nat /\ Len(e) \in Nat /\ j \in Nat /\ k \in Nat
  OBVIOUS
<1>1. T = {}
  <2> SUFFICES ASSUME T # {} PROVE FALSE
    OBVIOUS
  <2>1. PICK n \in T : \A m \in T : n <= m
    <3>1. T \subseteq Nat
      BY <1>0
    <3> HIDE DEF T
    <3> QED
      BY <3>1, Least
  <2>2. n \in Nat /\ n <= Len(d) - j /\ ~(v[j + n] < w[k + n])
    BY <2>1, <1>0
  <2>3. n # 0
    BY <2>2, <1>0
  <2>4. n - 1 \notin T /\ n - 1 \in 0..(Len(d) - j)
    <3>1. n - 1 \in Nat /\ n - 1 <= Len(d) - j /\ ~(n <= n - 1)
      BY <2>2, <2>3, <1>0
    <3>2. n - 1 \in 0..(Len(d) - j)
      BY <3>1, <1>0
    <3> HIDE DEF T
    <3> QED
      BY <2>1, <3>1, <3>2
  <2> DEFINE a == j + n
             b == k + n
  <2>5. v[a - 1] < w[b - 1]
    <3>1. v[j + (n - 1)] < w[k + (n - 1)]
      BY <2>4
    <3>2. j + (n - 1) = a - 1 /\ k + (n - 1) = b - 1
      BY <2>2, <1>0
    <3> QED
      BY <3>1, <3>2
  <2>6. a \in 1..Len(d) /\ b \in 1..Len(e)
    BY <2>2, <2>3, <1>0
  <2>7. ~(v[a] < w[b])
    BY <2>2
  <2> HIDE DEF a, b
  <2>8. /\ v[a] = 10 * v[a - 1] + d[a] /\ w[b] = 10 * w[b - 1] + e[b]
        /\ a - 1 \in 0..Len(d) /\ b - 1 \in 0..Len(e)
    BY <2>6 DEF Values
  <2>9. v[a - 1] \in Nat /\ w[b - 1] \in Nat
    BY <2>8 DEF Values
  <2>10. d[a] \in Digit /\ e[b] \in Digit
    BY <2>6
  <2>11. 10 * v[a - 1] + d[a] < 10 * w[b - 1] + e[b]
    BY <2>5, <2>9, <2>10, NextDigit
  <2> QED
    BY <2>7, <2>8, <2>11
<1>2. Len(d) - j \in 0..(Len(d) - j) /\ j + (Len(d) - j) = Len(d) /\ k + (Len(d) - j) = Len(e)
  BY <1>0
<1> QED
  BY <1>1, <1>2

\* Numerals of different length: the longer one has the greater value.
LEMMA LongerIsGreater ==
  ASSUME NEW d \in Seq(Digit), NEW e \in Seq(Digit), Numeral(e), d # <<>>, Len(d) < Len(e)
  PROVE  Value(d) < Value(e)
<1>1. PICK v : Values(d, Len(d), v) /\ Value(d) = v[Len(d)]
  BY ValueFacts
<1>2. PICK w : Values(e, Len(e), w) /\ Value(e) = w[Len(e)]
  BY ValueFacts
<1>3. Len(d) \in Nat /\ Len(e) \in Nat /\ 0 < Len(d)
  OBVIOUS
<1> DEFINE k == Len(e) - Len(d)
           T == {n \in 1..k : w[n] = 0}
<1>4. T = {}
  <2> SUFFICES ASSUME T # {} PROVE FALSE
    OBVIOUS
  <2>1. PICK n \in T : \A m \in T : n <= m
    <3>1. T \subseteq Nat
      BY <1>3
    <3> HIDE DEF T
    <3> QED
      BY <3>1, Least
  <2>2. n \in 1..Len(e) /\ n - 1 \in 0..Len(e) /\ w[n] = 0
    BY <2>1, <1>3
  <2>3. w[n] = 10 * w[n - 1] + e[n] /\ w[n - 1] \in Nat
    BY <1>2, <2>2 DEF Values
  <2>4. e[n] \in Digit
    BY <2>2
  <2>5. w[n - 1] = 0 /\ e[n] = 0
    BY <2>2, <2>3, <2>4, NextDigit
  <2>6. n = 1
    BY <2>1, <2>5, <1>3
  <2> QED
    BY <2>5, <2>6, <1>3 DEF Numeral
<1>5. k \in 1..k /\ k \in 0..Len(e) /\ Len(d) - 0 = Len(e) - k /\ 0 \in 0..Len(d)
  BY <1>3
<1>6. w[k] \in Nat /\ w[k] # 0 /\ v[0] = 0
  BY <1>1, <1>2, <1>4, <1>5 DEF Values
<1>7. v[0] < w[k]
  BY <1>6
<1> HIDE DEF k
<1>8. v[Len(d)] < w[Len(e)]
  BY <1>1, <1>2, <1>5, <1>7, StaysAhead
<1> QED
  BY <1>1, <1>2, <1>8

\* Numerals of one length: the first digit that differs decides.
LEMMA FirstDigitDecides ==
  ASSUME NEW d \in Seq(Digit), NEW e \in Seq(Digit), Len(d) = Len(e),
         NEW i \in 1..Len(d), d[i] < e[i], \A n \in 1..(i - 1) : d[n] = e[n]
  PROVE  Value(d) < Value(e)
<1>1. PICK v : Values(d, Len(d), v) /\ Value(d) = v[Len(d)]
  BY ValueFacts
<1>2. PICK w : Values(e, Len(e), w) /\ Value(e) = w[Len(e)]
  BY ValueFacts
<1>3. Len(d) \in Nat /\ i \in Nat /\ i <= Len(d) /\ 1 <= i
  OBVIOUS
<1> DEFINE T == {n \in 0..(i - 1) : v[n] # w[n]}
<1>4. T = {}
  <2> SUFFICES ASSUME T # {} PROVE FALSE
    OBVIOUS
  <2>1. PICK n \in T : \A m \in T : n <= m
    <3>1. T \subseteq Nat
      BY <1>3
    <3> HIDE DEF T
    <3> QED
      BY <3>1, Least
  <2>2. n \in 0..(i - 1) /\ v[n] # w[n]
    BY <2>1
  <2>3. n # 0
    BY <1>1, <1>2, <2>2 DEF Values
  <2>4. n - 1 \notin T /\ n - 1 \in 0..(i - 1) /\ n \in 1..Len(d) /\ n \in 1..(i - 1)
    BY <2>1, <2>2, <2>3, <1>3
  <2>5. v[n - 1] = w[n - 1] /\ d[n] = e[n]
    BY <2>4
  <2>6. v[n] = 10 * v[n - 1] + d[n] /\ w[n] = 10 * w[n - 1] + e[n]
    BY <1>1, <1>2, <2>4 DEF Values
  <2> QED
    BY <2>2, <2>5, <2>6
<1>5. i - 1 \in 0..(i - 1) /\ i - 1 \in 0..Len(d)
  BY <1>3
<1>6. v[i - 1] = w[i - 1] /\ v[i - 1] \in Nat
  BY <1>1, <1>4, <1>5 DEF Values
<1>7. v[i] = 10 * v[i - 1] + d[i] /\ w[i] = 10 * w[i - 1] + e[i]
  BY <1>1, <1>2 DEF Values
<1>8. d[i] \in Digit /\ e[i] \in Digit
  OBVIOUS
<1>9. v[i] < w[i]
  BY <1>6, <1>7, <1>8, NextDigit
<1>10. i \in 0..Len(d) /\ i \in 0..Len(e) /\ Len(d) - i = Len(e) - i
  BY <1>3
<1>11. v[Len(d)] < w[Len(e)]
  BY <1>1, <1>2, <1>9, <1>10, StaysAhead
<1> QED
  BY <1>1, <1>2, <1>11

\* The value is a number.
LEMMA ValueType ==
  ASSUME NEW d \in Seq(Digit)
  PROVE  Value(d) \in Nat
<1>1. PICK v : Values(d, Len(d), v) /\ Value(d) = v[Len(d)]
  BY ValueFacts
<1>2. Len(d) \in 0..Len(d)
  OBVIOUS
<1> QED
  BY <1>1, <1>2 DEF Values

\* Differ and Min: either two sequences agree where both are defined, or they
\* have a first difference.
LEMMA FirstDifference ==
  ASSUME NEW S, NEW l \in Seq(S), NEW r \in Seq(S), Differ(l, r) # {}
  PROVE  LET i == Min(Differ(l, r))
         IN  /\ i \in 1..Len(l) /\ i \in 1..Len(r) /\ l[i] # r[i]
             /\ \A n \in 1..(i - 1) : l[n] = r[n]
<1> DEFINE D == Differ(l, r)
           i == Min(D)
<1>1. D # {} /\ D \subseteq Nat /\ \A n : n \in D <=> n \in 1..Len(l) /\ n \in 1..Len(r) /\ l[n] # r[n]
  BY DEF Differ
<1> HIDE DEF D
<1>2. i \in D /\ \A m \in D : i <= m
  BY <1>1, MinIsLeast
<1> HIDE DEF i
<1>3. i \in 1..Len(l) /\ i \in 1..Len(r) /\ l[i] # r[i]
  BY <1>1, <1>2
<1>4. ASSUME NEW n \in 1..(i - 1) PROVE l[n] = r[n]
  <2>1. n \in 1..Len(l) /\ n \in 1..Len(r) /\ ~(i <= n)
    BY <1>3
  <2> QED
    BY <1>1, <1>2, <2>1
<1> QED
  BY <1>3, <1>4 DEF i, D

\* Sequences of one length without a difference are equal.
LEMMA NoDifference ==
  ASSUME NEW S, NEW l \in Seq(S), NEW r \in Seq(S), Len(l) = Len(r), Differ(l, r) = {}
  PROVE  l = r
<1>1. \A i \in 1..Len(l) : l[i] = r[i]
  BY DEF Differ
<1> QED
  BY <1>1

\* The comparison of numerals is the comparison of their values, and equal
\* values have one numeral.
LEMMA NumeralOrder ==
  ASSUME NEW l, NEW r, Numeral(l), Numeral(r)
  PROVE  /\ CompareNumericText(l, r) = -1 <=> Value(l) < Value(r)
         /\ CompareNumericText(l, r) = 1 <=> Value(r) < Value(l)
         /\ CompareNumericText(l, r) = 0 <=> l = r
         /\ l = r <=> Value(l) = Value(r)
         /\ CompareNumericText(l, r) \in {-1, 0, 1}
<1>1. /\ l \in Seq(Digit) /\ r \in Seq(Digit) /\ l # <<>> /\ r # <<>>
      /\ Value(l) \in Nat /\ Value(r) \in Nat /\ Len(l) \in Nat /\ Len(r) \in Nat
  BY ValueType DEF Numeral
<1>2. CASE Len(l) < Len(r)
  <2>1. Value(l) < Value(r)
    BY <1>1, <1>2, LongerIsGreater
  <2>2. CompareNumericText(l, r) = -1
    BY <1>1, <1>2 DEF CompareNumericText, Sign
  <2> QED
    BY <1>1, <2>1, <2>2
<1>3. CASE Len(r) < Len(l)
  <2>1. Value(r) < Value(l)
    BY <1>1, <1>3, LongerIsGreater
  <2>2. CompareNumericText(l, r) = 1
    BY <1>1, <1>3 DEF CompareNumericText, Sign
  <2> QED
    BY <1>1, <2>1, <2>2
<1>4. CASE Len(l) = Len(r) /\ Differ(l, r) = {}
  <2>1. l = r
    BY <1>1, <1>4, NoDifference
  <2>2. CompareNumericText(l, r) = 0
    BY <1>4 DEF CompareNumericText, CompareBytes
  <2> QED
    BY <1>1, <2>1, <2>2
<1>5. CASE Len(l) = Len(r) /\ Differ(l, r) # {}
  <2> DEFINE i == Min(Differ(l, r))
  <2>1. /\ i \in 1..Len(l) /\ i \in 1..Len(r) /\ l[i] # r[i]
        /\ \A n \in 1..(i - 1) : l[n] = r[n]
    BY <1>1, <1>5, FirstDifference
  <2>2. CompareNumericText(l, r) = Sign(l[i] - r[i])
    BY <1>5 DEF CompareNumericText, CompareBytes
  <2> HIDE DEF i
  <2>3. l[i] \in Digit /\ r[i] \in Digit
    BY <1>1, <2>1
  <2>4. CASE l[i] < r[i]
    <3>1. Value(l) < Value(r)
      BY <1>1, <1>5, <2>1, <2>4, FirstDigitDecides
    <3>2. CompareNumericText(l, r) = -1
      BY <2>2, <2>3, <2>4 DEF Sign, Digit
    <3> QED
      BY <1>1, <3>1, <3>2
  <2>5. CASE r[i] < l[i]
    <3>0. Len(r) = Len(l) /\ \A n \in 1..(i - 1) : r[n] = l[n]
      BY <1>5, <2>1
    <3>1. Value(r) < Value(l)
      BY <1>1, <3>0, <2>1, <2>5, FirstDigitDecides
    <3>2. CompareNumericText(l, r) = 1
      BY <2>2, <2>3, <2>5 DEF Sign, Digit
    <3> QED
      BY <1>1, <3>1, <3>2
  <2> QED
    BY <2>1, <2>3, <2>4, <2>5 DEF Digit
<1> QED
  BY <1>1, <1>2, <1>3, <1>4, <1>5

\* The sign of the difference of two numbers.
LEMMA SignFacts ==
  \A m, n \in Nat : /\ m < n => Sign(m - n) = -1
                    /\ m = n => Sign(m - n) = 0
                    /\ n < m => Sign(m - n) = 1
BY DEF Sign

\* The part of Before that is about the bases.
BaseBefore(l, r) ==
  \E n \in 1..Len(r) :
    /\ n <= Len(l) => Value(l[n]) < Value(r[n])
    /\ \A i \in 1..(n - 1) : i <= Len(l) /\ Value(l[i]) = Value(r[i])

\* The comparison of bases numeral by numeral.
LEMMA BaseOrder ==
  ASSUME NEW l \in Seq(Seq(Digit)), NEW r \in Seq(Seq(Digit)),
         \A i \in DOMAIN l : Numeral(l[i]), \A i \in DOMAIN r : Numeral(r[i])
  PROVE  /\ CompareBaseVersions(l, r) = -1 <=> BaseBefore(l, r)
         /\ CompareBaseVersions(l, r) = 0 <=> l = r
         /\ CompareBaseVersions(l, r) \in {-1, 0, 1}
<1>1. Len(l) \in Nat /\ Len(r) \in Nat /\ DOMAIN l = 1..Len(l) /\ DOMAIN r = 1..Len(r)
  OBVIOUS
<1>2. /\ \A i \in 1..Len(l) : Value(l[i]) \in Nat /\ Numeral(l[i])
      /\ \A i \in 1..Len(r) : Value(r[i]) \in Nat /\ Numeral(r[i])
  BY <1>1, ValueType DEF Numeral
<1>3. CASE Differ(l, r) # {}
  <2> DEFINE i == Min(Differ(l, r))
  <2>1. /\ i \in 1..Len(l) /\ i \in 1..Len(r) /\ l[i] # r[i]
        /\ \A n \in 1..(i - 1) : l[n] = r[n]
    BY <1>3, FirstDifference
  <2>2. CompareBaseVersions(l, r) = CompareNumericText(l[i], r[i])
    BY <1>3 DEF CompareBaseVersions
  <2> HIDE DEF i
  <2>3. /\ CompareBaseVersions(l, r) = -1 <=> Value(l[i]) < Value(r[i])
        /\ CompareBaseVersions(l, r) # 0
        /\ CompareBaseVersions(l, r) \in {-1, 0, 1}
        /\ Value(l[i]) # Value(r[i])
    BY <1>2, <2>1, <2>2, NumeralOrder
  <2>4. Value(l[i]) < Value(r[i]) => BaseBefore(l, r)
    <3>1. \A n \in 1..(i - 1) : n <= Len(l) /\ Value(l[n]) = Value(r[n])
      BY <1>1, <2>1
    <3> QED
      BY <2>1, <3>1 DEF BaseBefore
  <2>5. BaseBefore(l, r) => Value(l[i]) < Value(r[i])
    <3> SUFFICES ASSUME NEW n \in 1..Len(r),
                        n <= Len(l) => Value(l[n]) < Value(r[n]),
                        \A k \in 1..(n - 1) : k <= Len(l) /\ Value(l[k]) = Value(r[k])
                 PROVE  Value(l[i]) < Value(r[i])
      BY DEF BaseBefore
    <3>1. CASE n = i
      BY <1>1, <2>1, <3>1
    <3>2. CASE n < i
      <4>1. n \in 1..(i - 1) /\ n \in 1..Len(l)
        BY <1>1, <2>1, <3>2
      <4>2. l[n] = r[n] /\ Value(l[n]) < Value(r[n])
        BY <2>1, <4>1
      <4> QED
        BY <1>2, <4>1, <4>2
    <3>3. CASE i < n
      <4>1. i \in 1..(n - 1)
        BY <1>1, <2>1, <3>3
      <4> QED
        BY <2>3, <4>1
    <3> QED
      BY <2>1, <3>1, <3>2, <3>3
  <2>6. l # r
    BY <2>1
  <2> QED
    BY <2>3, <2>4, <2>5, <2>6
<1>4. CASE Differ(l, r) = {}
  <2>1. CompareBaseVersions(l, r) = Sign(Len(l) - Len(r))
    BY <1>4 DEF CompareBaseVersions
  <2>2. \A n \in 1..Len(l) : n <= Len(r) => l[n] = r[n]
    <3> SUFFICES ASSUME NEW n \in 1..Len(l), n <= Len(r) PROVE l[n] = r[n]
      OBVIOUS
    <3>1. n \in DOMAIN l \cap DOMAIN r /\ n \notin Differ(l, r)
      BY <1>1, <1>4
    <3> QED
      BY <3>1 DEF Differ
  <2>3. CASE Len(l) < Len(r)
    <3> DEFINE m == Len(l) + 1
    <3>1. m \in 1..Len(r) /\ ~(m <= Len(l)) /\ m - 1 = Len(l)
      BY <1>1, <2>3
    <3> HIDE DEF m
    <3>2. \A n \in 1..(m - 1) : n <= Len(l) /\ Value(l[n]) = Value(r[n])
      BY <1>1, <2>2, <2>3, <3>1
    <3>3. BaseBefore(l, r)
      BY <3>1, <3>2 DEF BaseBefore
    <3>4. CompareBaseVersions(l, r) = -1
      BY <1>1, <2>1, <2>3, SignFacts
    <3>5. l # r
      BY <1>1, <2>3
    <3> QED
      BY <3>3, <3>4, <3>5
  <2>4. CASE Len(r) <= Len(l)
    <3>1. ~BaseBefore(l, r)
      <4> SUFFICES ASSUME NEW n \in 1..Len(r), n <= Len(l) => Value(l[n]) < Value(r[n])
                   PROVE  FALSE
        BY DEF BaseBefore
      <4>1. n \in 1..Len(l) /\ n <= Len(l)
        BY <1>1, <2>4
      <4>2. l[n] = r[n]
        BY <1>1, <2>2, <4>1
      <4> QED
        BY <1>2, <4>1, <4>2
    <3>2. CASE Len(l) = Len(r)
      BY <1>4, <2>1, <3>1, <3>2, NoDifference DEF Sign
    <3>3. CASE Len(l) # Len(r)
      <4>1. CompareBaseVersions(l, r) = 1
        <5>1. Len(r) < Len(l)
          <6>1. \A m, n \in Nat : m <= n /\ n # m => m < n
            OBVIOUS
          <6>2. Len(l) \in Nat /\ Len(r) \in Nat
            OBVIOUS
          <6> QED
            BY <6>1, <6>2, <2>4, <3>3, Zenon
        <5>2. Sign(Len(l) - Len(r)) = 1
          BY <1>1, <5>1, SignFacts
        <5> QED
          BY <2>1, <5>2
      <4> QED
        BY <3>1, <3>3, <4>1
    <3> QED
      BY <3>2, <3>3
  <2> QED
    BY <1>1, <2>3, <2>4
<1> QED
  BY <1>3, <1>4

\* package_release_compare orders concrete releases by the values of their
\* numerals, and only equal releases compare as equal.
LEMMA ReleaseOrderIsByValue ==
  ASSUME NEW l, NEW r, Concrete(l), Concrete(r)
  PROVE  ReleaseCompare(l, r) = IF Before(l, r) THEN -1 ELSE IF l = r THEN 0 ELSE 1
<1> DEFINE b == CompareBaseVersions(l.base, r.base)
<1>1. /\ l \in [base : Seq(Seq(Digit)), rev : Seq(Digit)]
      /\ r \in [base : Seq(Seq(Digit)), rev : Seq(Digit)]
  BY DEF Concrete
<1>2. /\ b = -1 <=> BaseBefore(l.base, r.base)
      /\ b = 0 <=> l.base = r.base
      /\ b \in {-1, 0, 1}
  <2>1. /\ \A i \in DOMAIN l.base : Numeral(l.base[i])
        /\ \A i \in DOMAIN r.base : Numeral(r.base[i])
    BY DEF Concrete
  <2> QED
    BY <1>1, <2>1, BaseOrder
<1>3. Before(l, r) <=> \/ BaseBefore(l.base, r.base)
                       \/ /\ l.base = r.base
                          /\ r.rev # <<>>
                          /\ l.rev # <<>> => Value(l.rev) < Value(r.rev)
  BY DEF Before, BaseBefore
<1>4. ReleaseCompare(l, r) =
        IF b # 0 THEN b
        ELSE IF l.rev = <<>> \/ r.rev = <<>> THEN Sign(Len(l.rev) - Len(r.rev))
        ELSE CompareNumericText(l.rev, r.rev)
  BY DEF ReleaseCompare
<1>5. l = r <=> l.base = r.base /\ l.rev = r.rev
  BY <1>1
<1> HIDE DEF b
<1>6. CASE b # 0
  BY <1>2, <1>3, <1>4, <1>5, <1>6
<1>7. CASE b = 0
  <2>1. /\ l.base = r.base /\ ~BaseBefore(l.base, r.base)
        /\ l.rev \in Seq(Digit) /\ r.rev \in Seq(Digit)
    BY <1>1, <1>2, <1>7
  <2>2. CASE l.rev = <<>> \/ r.rev = <<>>
    <3>1. ReleaseCompare(l, r) = Sign(Len(l.rev) - Len(r.rev))
      BY <1>4, <1>7, <2>2
    <3>2. /\ l.rev = <<>> <=> Len(l.rev) = 0
          /\ r.rev = <<>> <=> Len(r.rev) = 0
          /\ Len(l.rev) \in Nat /\ Len(r.rev) \in Nat
      BY <2>1
    <3>3. Before(l, r) <=> r.rev # <<>> /\ l.rev = <<>>
      BY <1>3, <2>1, <2>2
    <3>4. l = r <=> l.rev = r.rev
      BY <1>5, <2>1
    <3> QED
      <4>1. CASE l.rev = <<>> /\ r.rev = <<>>
        BY <3>1, <3>2, <3>3, <3>4, <4>1, SignFacts
      <4>2. CASE l.rev = <<>> /\ r.rev # <<>>
        <5>1. Sign(Len(l.rev) - Len(r.rev)) = -1
          <6>1. Len(l.rev) < Len(r.rev)
            BY <3>2, <4>2
          <6> QED
            BY <3>2, <6>1, SignFacts
        <5> QED
          BY <3>1, <3>3, <3>4, <4>2, <5>1
      <4>3. CASE l.rev # <<>> /\ r.rev = <<>>
        <5>1. Sign(Len(l.rev) - Len(r.rev)) = 1
          BY <3>2, <4>3, SignFacts
        <5> QED
          BY <3>1, <3>3, <3>4, <4>3, <5>1
      <4> QED
        BY <2>2, <4>1, <4>2, <4>3
  <2>3. CASE l.rev # <<>> /\ r.rev # <<>>
    <3>1. Numeral(l.rev) /\ Numeral(r.rev)
      BY <2>3 DEF Concrete, Revision
    <3>2. ReleaseCompare(l, r) = CompareNumericText(l.rev, r.rev)
      BY <1>4, <1>7, <2>3
    <3>3. Before(l, r) <=> Value(l.rev) < Value(r.rev)
      BY <1>3, <2>1, <2>3
    <3>4. l = r <=> l.rev = r.rev
      BY <1>5, <2>1
    <3>5. /\ CompareNumericText(l.rev, r.rev) = -1 <=> Value(l.rev) < Value(r.rev)
          /\ CompareNumericText(l.rev, r.rev) = 0 <=> l.rev = r.rev
          /\ CompareNumericText(l.rev, r.rev) \in {-1, 0, 1}
      BY <3>1, NumeralOrder
    <3> QED
      BY <3>2, <3>3, <3>4, <3>5
  <2> QED
    BY <2>2, <2>3
<1> QED
  BY <1>6, <1>7

(***************************************************************************)
(* Records arranged by their keys.                                         *)
(***************************************************************************)

\* Numbers that tell the members of a finite set apart.
Keyed(S, key) ==
  /\ IsFiniteSet(S)
  /\ key \in [S -> Nat]
  /\ \A i, j \in S : key[i] = key[j] => i = j

Rank(S, key, i) == Cardinality({j \in S : key[j] <= key[i]})

\* A greater key has a greater rank.
LEMMA RankGrows ==
  ASSUME NEW S, NEW key, Keyed(S, key), NEW i \in S, NEW j \in S
  PROVE  /\ Rank(S, key, i) \in 1..Cardinality(S)
         /\ key[i] < key[j] => Rank(S, key, i) < Rank(S, key, j)
<1> DEFINE Below(k) == {x \in S : key[x] <= key[k]}
<1>1. IsFiniteSet(S) /\ key[i] \in Nat /\ key[j] \in Nat /\ \A x \in S : key[x] \in Nat
  BY DEF Keyed
<1>2. Below(i) \in SUBSET S /\ Below(j) \in SUBSET S /\ i \in Below(i) /\ j \in Below(j)
  BY <1>1
<1> HIDE DEF Below
<1>3. /\ IsFiniteSet(Below(i)) /\ Cardinality(Below(i)) <= Cardinality(S)
      /\ IsFiniteSet(Below(j))
  BY <1>1, <1>2, FS_Subset
<1>4. Cardinality(Below(i)) \in Nat /\ Cardinality(Below(j)) \in Nat /\ Cardinality(S) \in Nat
  BY <1>1, <1>3, FS_CardinalityType
<1>5. Cardinality(Below(i)) # 0
  BY <1>2, <1>3, FS_EmptySet
<1>6. Rank(S, key, i) = Cardinality(Below(i)) /\ Rank(S, key, j) = Cardinality(Below(j))
  BY DEF Rank, Below
<1>7. ASSUME key[i] < key[j] PROVE Cardinality(Below(i)) < Cardinality(Below(j))
  <2>1. Below(i) \subseteq Below(j) /\ j \notin Below(i)
    BY <1>1, <1>7 DEF Below
  <2>2. Below(i) \in SUBSET Below(j) /\ Below(i) # Below(j)
    BY <1>2, <2>1
  <2>3. /\ Cardinality(Below(i)) <= Cardinality(Below(j))
        /\ Cardinality(Below(j)) = Cardinality(Below(i)) => Below(j) = Below(i)
    BY <1>3, <2>2, FS_Subset
  <2> QED
    BY <1>4, <2>2, <2>3
<1> QED
  BY <1>3, <1>4, <1>5, <1>6, <1>7

\* The definition of Position finds one position for every number up to the
\* number of keys, in the order of the keys.
LEMMA PositionFacts ==
  ASSUME NEW S, NEW key, Keyed(S, key)
  PROVE  /\ \A n \in 1..Cardinality(S) :
              Position(S, key, n) \in S /\ Rank(S, key, Position(S, key, n)) = n
         /\ \A i \in S : \E n \in 1..Cardinality(S) : Position(S, key, n) = i
         /\ \A m, n \in 1..Cardinality(S) :
              m < n => key[Position(S, key, m)] < key[Position(S, key, n)]
<1> DEFINE N == Cardinality(S)
           rank == [i \in S |-> Rank(S, key, i)]
<1>1. IsFiniteSet(S) /\ N \in Nat /\ \A i \in S : key[i] \in Nat
  BY FS_CardinalityType DEF Keyed
<1>2. \A i, j \in S : Rank(S, key, i) \in 1..N /\ (key[i] < key[j] => Rank(S, key, i) < Rank(S, key, j))
  BY RankGrows
<1>3. \A i \in S : Rank(S, key, i) \in Nat
  BY <1>1, <1>2
<1>4. ASSUME NEW i \in S, NEW j \in S, Rank(S, key, i) = Rank(S, key, j) PROVE i = j
  <2>1. ~(key[i] < key[j]) /\ ~(key[j] < key[i])
    BY <1>2, <1>3, <1>4
  <2>2. key[i] = key[j]
    BY <1>1, <2>1
  <2> QED
    BY <2>2 DEF Keyed
<1>5. rank \in Injection(S, 1..N)
  <2>1. rank \in [S -> 1..N]
    BY <1>2
  <2>2. \A i, j \in S : rank[i] = rank[j] => i = j
    BY <1>4
  <2> HIDE DEF rank, N
  <2> QED
    BY <2>1, <2>2 DEF Injection, IsInjective
<1>6. IsFiniteSet(1..N) /\ Cardinality(1..N) = N
  <2>1. 1 \in Int /\ N \in Int
    BY <1>1
  <2>2. IsFiniteSet(1..N) /\ Cardinality(1..N) = IF 1 > N THEN 0 ELSE N - 1 + 1
    BY <2>1, FS_Interval
  <2> HIDE DEF N
  <2> QED
    BY <1>1, <2>2
<1>7. rank \in Surjection(S, 1..N)
  <2> HIDE DEF rank
  <2>1. Cardinality(S) = Cardinality(1..N) <=> rank \in Surjection(S, 1..N)
    BY <1>5, <1>6, FS_Injection
  <2> QED
    BY <1>6, <2>1
<1>8. ASSUME NEW n \in 1..N
      PROVE  Position(S, key, n) \in S /\ Rank(S, key, Position(S, key, n)) = n
  <2>1. \E i \in S : rank[i] = n
    <3> HIDE DEF rank, N
    <3> QED
      BY <1>7 DEF Surjection
  <2>2. \E i \in S : Rank(S, key, i) = n
    BY <2>1
  <2> QED
    BY <2>2 DEF Position, Rank
<1> HIDE DEF N, rank
<1>9. ASSUME NEW i \in S PROVE \E n \in 1..N : Position(S, key, n) = i
  <2>1. Rank(S, key, i) \in 1..N
    BY <1>2
  <2> QED
    BY <1>4, <1>8, <2>1
<1>10. ASSUME NEW m \in 1..N, NEW n \in 1..N, m < n
       PROVE  key[Position(S, key, m)] < key[Position(S, key, n)]
  <2> DEFINE a == Position(S, key, m)
             b == Position(S, key, n)
  <2>1. a \in S /\ b \in S /\ Rank(S, key, a) = m /\ Rank(S, key, b) = n
    BY <1>8
  <2> HIDE DEF a, b
  <2>2. key[b] < key[a] => n < m
    BY <1>2, <2>1
  <2>3. a # b
    BY <2>1, <1>10
  <2>4. key[a] # key[b]
    BY <2>1, <2>3 DEF Keyed
  <2>5. ~(key[b] < key[a])
    BY <1>1, <1>10, <2>2
  <2>6. key[a] < key[b]
    BY <1>1, <2>1, <2>4, <2>5
  <2> QED
    BY <2>6 DEF a, b
<1> QED
  BY <1>8, <1>9, <1>10 DEF N

\* Arranging keeps exactly the records at the given positions, in the order
\* of their keys.
LEMMA ArrangedFacts ==
  ASSUME NEW R, NEW items \in Seq(R), NEW S, S \subseteq DOMAIN items, NEW key, Keyed(S, key)
  PROVE  LET made == Arranged(items, S, key)
         IN  /\ made \in Seq(R) /\ Len(made) = Cardinality(S)
             /\ \A n \in 1..Len(made) : made[n] = items[Position(S, key, n)]
             /\ Range(made) = {items[i] : i \in S}
<1> DEFINE made == Arranged(items, S, key)
           N == Cardinality(S)
<1>1. N \in Nat
  BY FS_CardinalityType DEF Keyed
<1>2. made = [n \in 1..N |-> items[Position(S, key, n)]]
  BY DEF Arranged
<1> HIDE DEF made
<1>3. \A n \in 1..N : Position(S, key, n) \in S
  BY PositionFacts
<1>4. \A i \in S : \E n \in 1..N : Position(S, key, n) = i
  BY PositionFacts
<1> HIDE DEF N
<1>5. \A n \in 1..N : items[Position(S, key, n)] \in R
  BY <1>3
<1>6. made \in Seq(R) /\ Len(made) = N
  BY <1>1, <1>2, <1>5
<1>7. DOMAIN made = 1..N /\ \A n \in 1..N : made[n] = items[Position(S, key, n)]
  BY <1>2
<1>8. Range(made) = {items[i] : i \in S}
  <2>1. Range(made) = {made[n] : n \in 1..N}
    BY <1>7 DEF Range
  <2> QED
    BY <1>3, <1>4, <1>7, <2>1
<1> QED
  BY <1>6, <1>7, <1>8 DEF made, N

(***************************************************************************)
(* The list of preferences.                                                *)
(***************************************************************************)

OneForScope(items) ==
  \A i, j \in DOMAIN items : ScopeOf(items[i]) = ScopeOf(items[j]) => i = j

InScopeOrder(items) ==
  \A i, j \in DOMAIN items :
    i < j => ScopeOrder[ScopeOf(items[i])] < ScopeOrder[ScopeOf(items[j])]

\* A record is its scope and its tool, and a scope has its number.
LEMMA RecordFacts ==
  /\ \A r \in Preference : ScopeOf(r) \in Scope /\ r.tool \in Tool
  /\ \A r, q \in Preference : ScopeOf(r) = ScopeOf(q) /\ r.tool = q.tool => r = q
  /\ \A s \in Scope : ScopeOrder[s] \in Nat
  /\ \A s, t \in Scope : ScopeOrder[s] = ScopeOrder[t] => s = t
<1>1. \A r \in Preference : ScopeOf(r) \in Scope /\ r.tool \in Tool
  BY DEF Preference, ScopeOf, Scope
<1>2. \A r, q \in Preference : ScopeOf(r) = ScopeOf(q) /\ r.tool = q.tool => r = q
  BY DEF Preference, ScopeOf
<1>3. \A s \in Scope : ScopeOrder[s] \in Nat
  BY RegistryAssumption
<1>4. \A s, t \in Scope : ScopeOrder[s] = ScopeOrder[t] => s = t
  BY RegistryAssumption DEF IsInjective
<1> QED
  BY <1>1, <1>2, <1>3, <1>4

\* A list in the order of the scopes has one record for a scope.
LEMMA OrderedHasOne ==
  ASSUME NEW items \in Seq(Preference), InScopeOrder(items)
  PROVE  OneForScope(items)
<1> SUFFICES ASSUME NEW i \in DOMAIN items, NEW j \in DOMAIN items,
                    ScopeOf(items[i]) = ScopeOf(items[j])
             PROVE  i = j
  BY DEF OneForScope
<1>1. i \in Nat /\ j \in Nat /\ items[i] \in Preference /\ items[j] \in Preference
  OBVIOUS
<1>2. ScopeOrder[ScopeOf(items[i])] \in Nat
  BY <1>1, RecordFacts
<1>3. ~(i < j) /\ ~(j < i)
  BY <1>2 DEF InScopeOrder
<1> QED
  BY <1>1, <1>3

\* Sorting loses nothing and puts the records in order.
LEMMA SortedFacts ==
  ASSUME NEW items \in Seq(Preference), OneForScope(items)
  PROVE  /\ Sorted(items) \in Seq(Preference)
         /\ Len(Sorted(items)) = Len(items)
         /\ Range(Sorted(items)) = Range(items)
         /\ InScopeOrder(Sorted(items))
<1> DEFINE S == DOMAIN items
           key == [i \in S |-> ScopeOrder[ScopeOf(items[i])]]
           made == Sorted(items)
<1>1. S = 1..Len(items) /\ Len(items) \in Nat /\ \A i \in S : items[i] \in Preference
  OBVIOUS
<1>2. IsFiniteSet(S) /\ Cardinality(S) = Len(items)
  <2>1. 1 \in Int /\ Len(items) \in Int
    BY <1>1
  <2>2. /\ IsFiniteSet(1..Len(items))
        /\ Cardinality(1..Len(items)) = IF 1 > Len(items) THEN 0 ELSE Len(items) - 1 + 1
    BY <2>1, FS_Interval
  <2> HIDE DEF S
  <2> QED
    BY <1>1, <2>2
<1>3. Keyed(S, key)
  <2>1. \A i \in S : ScopeOf(items[i]) \in Scope /\ key[i] \in Nat
    BY <1>1, RecordFacts
  <2>2. ASSUME NEW i \in S, NEW j \in S, key[i] = key[j] PROVE i = j
    <3>1. ScopeOf(items[i]) = ScopeOf(items[j])
      BY <2>1, <2>2, RecordFacts
    <3> QED
      BY <3>1 DEF OneForScope
  <2>3. key \in [S -> Nat]
    BY <2>1
  <2> HIDE DEF S, key
  <2> QED
    BY <1>2, <2>2, <2>3 DEF Keyed
<1>4. made = Arranged(items, S, key)
  BY DEF Sorted
<1>5. /\ made \in Seq(Preference) /\ Len(made) = Cardinality(S)
      /\ \A n \in 1..Len(made) : made[n] = items[Position(S, key, n)]
      /\ Range(made) = {items[i] : i \in S}
  <2>1. S \subseteq DOMAIN items
    OBVIOUS
  <2> HIDE DEF S, key, made
  <2> QED
    BY <1>3, <1>4, <2>1, ArrangedFacts
<1>6. Range(made) = Range(items)
  BY <1>5 DEF Range
<1>7. InScopeOrder(made)
  <2> SUFFICES ASSUME NEW m \in DOMAIN made, NEW n \in DOMAIN made, m < n
               PROVE  ScopeOrder[ScopeOf(made[m])] < ScopeOrder[ScopeOf(made[n])]
    BY DEF InScopeOrder
  <2>1. m \in 1..Cardinality(S) /\ n \in 1..Cardinality(S)
    <3> HIDE DEF S, key, made
    <3> QED
      BY <1>5
  <2>2. /\ key[Position(S, key, m)] < key[Position(S, key, n)]
        /\ Position(S, key, m) \in S /\ Position(S, key, n) \in S
    <3> HIDE DEF S, key, made
    <3> QED
      BY <1>3, <2>1, PositionFacts
  <2>3. made[m] = items[Position(S, key, m)] /\ made[n] = items[Position(S, key, n)]
    <3> HIDE DEF S, key, made
    <3> QED
      BY <1>5, <2>1
  <2> QED
    BY <2>2, <2>3
<1> QED
  BY <1>2, <1>5, <1>6, <1>7

\* Resetting a target keeps the records of the others.
LEMMA ResetScopeFacts ==
  ASSUME NEW items \in Seq(Preference), OneForScope(items), NEW t
  PROVE  LET made == ResetScope(items, t)
         IN  /\ made \in Seq(Preference) /\ Len(made) <= Len(items)
             /\ OneForScope(made)
             /\ Range(made) = {r \in Range(items) : r.target # t}
<1> DEFINE S == {i \in DOMAIN items : items[i].target # t}
           key == [i \in S |-> i]
           made == ResetScope(items, t)
<1>1. DOMAIN items = 1..Len(items) /\ Len(items) \in Nat /\ \A i \in DOMAIN items : items[i] \in Preference
  OBVIOUS
<1>2. S \in SUBSET (1..Len(items)) /\ S \subseteq DOMAIN items
  OBVIOUS
<1>3. IsFiniteSet(S) /\ Cardinality(S) <= Len(items)
  <2>1. 1 \in Int /\ Len(items) \in Int
    BY <1>1
  <2>2. /\ IsFiniteSet(1..Len(items))
        /\ Cardinality(1..Len(items)) = IF 1 > Len(items) THEN 0 ELSE Len(items) - 1 + 1
    BY <2>1, FS_Interval
  <2> HIDE DEF S
  <2>3. IsFiniteSet(S) /\ Cardinality(S) <= Cardinality(1..Len(items))
    BY <1>2, <2>2, FS_Subset
  <2>4. Cardinality(1..Len(items)) = Len(items)
    BY <1>1, <2>2
  <2> QED
    BY <2>3, <2>4
<1>4. Keyed(S, key)
  <2>1. key \in [S -> Nat] /\ \A i, j \in S : key[i] = key[j] => i = j
    BY <1>2
  <2> HIDE DEF S, key
  <2> QED
    BY <1>3, <2>1 DEF Keyed
<1>5. made = Arranged(items, S, key)
  BY DEF ResetScope
<1>6. \A i \in S : key[i] = i
  OBVIOUS
<1>7. \A r : (\E i \in S : r = items[i]) <=> r \in Range(items) /\ r.target # t
  BY DEF Range
<1> HIDE DEF S, key, made
<1>8. /\ made \in Seq(Preference) /\ Len(made) = Cardinality(S)
      /\ \A n \in 1..Len(made) : made[n] = items[Position(S, key, n)]
      /\ Range(made) = {items[i] : i \in S}
  BY <1>2, <1>4, <1>5, ArrangedFacts
<1>9. OneForScope(made)
  <2> SUFFICES ASSUME NEW m \in DOMAIN made, NEW n \in DOMAIN made,
                      ScopeOf(made[m]) = ScopeOf(made[n])
               PROVE  m = n
    BY DEF OneForScope
  <2>1. m \in 1..Cardinality(S) /\ n \in 1..Cardinality(S)
    BY <1>8
  <2> DEFINE a == Position(S, key, m)
             b == Position(S, key, n)
  <2>2. /\ a \in S /\ b \in S
        /\ m < n => key[a] < key[b]
        /\ n < m => key[b] < key[a]
    BY <1>4, <2>1, PositionFacts
  <2>3. made[m] = items[a] /\ made[n] = items[b]
    BY <1>8, <2>1
  <2> HIDE DEF a, b
  <2>4. a = b
    BY <1>2, <2>2, <2>3 DEF OneForScope
  <2>5. ~(m < n) /\ ~(n < m)
    BY <1>2, <1>6, <2>2, <2>4
  <2> QED
    BY <2>1, <2>5
<1>10. Range(made) = {r \in Range(items) : r.target # t}
  BY <1>7, <1>8
<1> QED
  BY <1>3, <1>8, <1>9, <1>10 DEF made

\* Where a scope has a record, the search finds it.
LEMMA FoundFacts ==
  ASSUME NEW items \in Seq(Preference), NEW s, PreferenceIndex(items, s) # {}
  PROVE  LET i == Min(PreferenceIndex(items, s))
         IN  i \in DOMAIN items /\ i \in 1..Len(items) /\ ScopeOf(items[i]) = s
<1>1. PreferenceIndex(items, s) \subseteq Nat
  BY DEF PreferenceIndex
<1>2. Min(PreferenceIndex(items, s)) \in PreferenceIndex(items, s)
  BY <1>1, MinIsLeast
<1> QED
  BY <1>2 DEF PreferenceIndex

\* Setting a preference replaces the record of its scope, or adds one.
LEMMA SetPreferenceFacts ==
  ASSUME NEW items \in Seq(Preference), OneForScope(items), NEW r \in Preference
  PROVE  LET made == SetPreference(items, r)
         IN  /\ made \in Seq(Preference)
             /\ Len(made) = IF PreferenceIndex(items, ScopeOf(r)) = {} THEN Len(items) + 1 ELSE Len(items)
             /\ OneForScope(made)
             /\ Range(made) = {q \in Range(items) : ScopeOf(q) # ScopeOf(r)} \cup {r}
<1> DEFINE made == SetPreference(items, r)
           found == PreferenceIndex(items, ScopeOf(r))
<1>0. DOMAIN items = 1..Len(items) /\ Len(items) \in Nat
  OBVIOUS
<1>1. CASE found = {}
  <2>1. made = Append(items, r)
    BY <1>1 DEF SetPreference
  <2>2. \A i \in 1..Len(items) : ScopeOf(items[i]) # ScopeOf(r)
    BY <1>1 DEF PreferenceIndex
  <2> HIDE DEF made, found
  <2>3. /\ made \in Seq(Preference) /\ Len(made) = Len(items) + 1
        /\ \A i \in 1..Len(items) : made[i] = items[i]
        /\ made[Len(items) + 1] = r /\ DOMAIN made = 1..(Len(items) + 1)
    BY <2>1
  <2>4. OneForScope(made)
    <3> SUFFICES ASSUME NEW i \in DOMAIN made, NEW j \in DOMAIN made,
                        ScopeOf(made[i]) = ScopeOf(made[j])
                 PROVE  i = j
      BY DEF OneForScope
    <3>1. CASE i \in 1..Len(items) /\ j \in 1..Len(items)
      BY <2>3, <3>1 DEF OneForScope
    <3>2. CASE i = Len(items) + 1 /\ j \in 1..Len(items)
      BY <2>2, <2>3, <3>2
    <3>3. CASE j = Len(items) + 1 /\ i \in 1..Len(items)
      BY <2>2, <2>3, <3>3
    <3>4. \A k \in DOMAIN made : k = Len(items) + 1 \/ k \in 1..Len(items)
      BY <1>0, <2>3
    <3> QED
      BY <3>1, <3>2, <3>3, <3>4
  <2>5. Range(made) = {q \in Range(items) : ScopeOf(q) # ScopeOf(r)} \cup {r}
    <3>1. Range(made) = {made[i] : i \in 1..(Len(items) + 1)} /\ Range(items) = {items[i] : i \in 1..Len(items)}
      BY <2>3 DEF Range
    <3>2. \A i : i \in 1..(Len(items) + 1) <=> i \in 1..Len(items) \/ i = Len(items) + 1
      BY <1>0
    <3> QED
      BY <2>2, <2>3, <3>1, <3>2
  <2> QED
    BY <1>1, <2>3, <2>4, <2>5 DEF made, found
<1>2. CASE found # {}
  <2> DEFINE k == Min(found)
  <2>1. made = [items EXCEPT ![k] = r]
    BY <1>2 DEF SetPreference
  <2>2. k \in 1..Len(items) /\ ScopeOf(items[k]) = ScopeOf(r)
    BY <1>2, FoundFacts
  <2> HIDE DEF made, found, k
  <2>3. /\ made \in Seq(Preference) /\ Len(made) = Len(items)
        /\ \A i \in 1..Len(items) : i # k => made[i] = items[i]
        /\ made[k] = r /\ DOMAIN made = 1..Len(items)
    BY <2>1, <2>2
  <2>4. \A i \in 1..Len(items) : ScopeOf(made[i]) = ScopeOf(items[i])
    BY <2>2, <2>3
  <2>5. OneForScope(made)
    BY <1>0, <2>3, <2>4 DEF OneForScope
  <2>6. Range(made) = {q \in Range(items) : ScopeOf(q) # ScopeOf(r)} \cup {r}
    <3>1. Range(made) = {made[i] : i \in 1..Len(items)} /\ Range(items) = {items[i] : i \in 1..Len(items)}
      BY <2>3 DEF Range
    <3>2. \A i \in 1..Len(items) : i # k => ScopeOf(items[i]) # ScopeOf(r)
      BY <1>0, <2>2 DEF OneForScope
    <3> QED
      BY <2>2, <2>3, <3>1, <3>2
  <2> QED
    BY <1>2, <2>3, <2>5, <2>6 DEF made, found
<1> QED
  BY <1>1, <1>2

\* Resetting a preference removes the record of its scope and no other.
LEMMA ResetPreferenceFacts ==
  ASSUME NEW items \in Seq(Preference), OneForScope(items), NEW s
  PROVE  LET made == ResetPreference(items, s)
         IN  /\ made \in Seq(Preference) /\ Len(made) <= Len(items)
             /\ OneForScope(made)
             /\ Range(made) = {q \in Range(items) : ScopeOf(q) # s}
<1> DEFINE made == ResetPreference(items, s)
           found == PreferenceIndex(items, s)
<1>0. DOMAIN items = 1..Len(items) /\ Len(items) \in Nat
  OBVIOUS
<1>1. CASE found = {}
  <2>1. made = items
    BY <1>1 DEF ResetPreference
  <2>2. \A i \in DOMAIN items : ScopeOf(items[i]) # s
    BY <1>1 DEF PreferenceIndex
  <2>3. Range(items) = {q \in Range(items) : ScopeOf(q) # s}
    BY <2>2 DEF Range
  <2> HIDE DEF made
  <2> QED
    BY <1>0, <2>1, <2>3 DEF made
<1>2. CASE found # {}
  <2> DEFINE k == Min(found)
             L == Len(items)
  <2>1. made = SubSeq(items, 1, k - 1) \o SubSeq(items, k + 1, L)
    BY <1>2 DEF ResetPreference, RemoveAt
  <2>2. k \in 1..L /\ ScopeOf(items[k]) = s
    BY <1>2, FoundFacts
  <2> HIDE DEF made, found, k
  <2> DEFINE head == SubSeq(items, 1, k - 1)
             tail == SubSeq(items, k + 1, L)
  <2>3. /\ head \in Seq(Preference) /\ Len(head) = k - 1
        /\ \A i \in 1..(k - 1) : head[i] = items[i]
    BY <1>0, <2>2
  <2>4. /\ tail \in Seq(Preference) /\ Len(tail) = L - k
        /\ \A i \in 1..(L - k) : tail[i] = items[k + i]
    <3>1. k + 1 \in 1..(L + 1) /\ L - (k + 1) + 1 = L - k /\ L \in Nat /\ L - k \in Nat
      BY <1>0, <2>2
    <3>2. tail \in Seq(Preference)
      BY <1>0, <2>2
    <3>3. Len(tail) = L - k
      BY <1>0, <3>1
    <3>4. \A i \in 1..(L - k) : tail[i] = items[(k + 1) + i - 1]
      BY <1>0, <3>1
    <3>5. \A i \in 1..(L - k) : (k + 1) + i - 1 = k + i
      BY <2>2
    <3> QED
      BY <3>2, <3>3, <3>4, <3>5
  <2>a. made = head \o tail
    BY <2>1
  <2> HIDE DEF head, tail
  <2>5. /\ made \in Seq(Preference) /\ Len(made) = L - 1 /\ DOMAIN made = 1..(L - 1)
        /\ \A i \in 1..(L - 1) : made[i] = IF i <= k - 1 THEN head[i] ELSE tail[i - (k - 1)]
    <3>1. (k - 1) + (L - k) = L - 1 /\ k - 1 \in Nat /\ L - k \in Nat
      BY <1>0, <2>2
    <3>2. made \in Seq(Preference) /\ Len(made) = L - 1
      BY <2>a, <2>3, <2>4, <3>1
    <3>3. \A i \in 1..(L - 1) : made[i] = IF i <= k - 1 THEN head[i] ELSE tail[i - (k - 1)]
      BY <2>a, <2>3, <2>4, <3>1
    <3> QED
      BY <3>2, <3>3
  <2>6. \A i \in 1..(L - 1) : made[i] = items[IF i < k THEN i ELSE i + 1]
    <3> SUFFICES ASSUME NEW i \in 1..(L - 1) PROVE made[i] = items[IF i < k THEN i ELSE i + 1]
      OBVIOUS
    <3>1. CASE i < k
      <4>1. i <= k - 1 /\ i \in 1..(k - 1)
        BY <2>2, <3>1
      <4> QED
        BY <2>3, <2>5, <3>1, <4>1
    <3>2. CASE ~(i < k)
      <4>1. ~(i <= k - 1) /\ i - (k - 1) \in 1..(L - k) /\ k + (i - (k - 1)) = i + 1
        BY <1>0, <2>2, <3>2
      <4>2. made[i] = tail[i - (k - 1)]
        BY <2>5, <4>1
      <4>3. tail[i - (k - 1)] = items[k + (i - (k - 1))]
        BY <2>4, <4>1
      <4> QED
        BY <3>2, <4>1, <4>2, <4>3
    <3> QED
      BY <3>1, <3>2
  <2> DEFINE from(i) == IF i < k THEN i ELSE i + 1
  <2>7. /\ \A i \in 1..(L - 1) : from(i) \in 1..L /\ from(i) # k
        /\ \A i, j \in 1..(L - 1) : from(i) = from(j) => i = j
        /\ \A n \in 1..L : n # k => \E i \in 1..(L - 1) : from(i) = n
    <3>1. \A i \in 1..(L - 1) : from(i) \in 1..L /\ from(i) # k
      BY <1>0, <2>2
    <3>2. \A i, j \in 1..(L - 1) : from(i) = from(j) => i = j
      BY <1>0, <2>2
    <3>3. ASSUME NEW n \in 1..L, n # k PROVE \E i \in 1..(L - 1) : from(i) = n
      <4>1. CASE n < k
        BY <1>0, <2>2, <3>3, <4>1
      <4>2. CASE ~(n < k)
        <5>1. n - 1 \in 1..(L - 1) /\ ~(n - 1 < k) /\ (n - 1) + 1 = n
          BY <1>0, <2>2, <3>3, <4>2
        <5> QED
          BY <5>1
      <4> QED
        BY <4>1, <4>2
    <3> QED
      BY <3>1, <3>2, <3>3
  <2>8. \A i \in 1..(L - 1) : made[i] = items[from(i)]
    BY <2>6
  <2> HIDE DEF from
  <2>9. OneForScope(made)
    BY <1>0, <2>5, <2>7, <2>8 DEF OneForScope
  <2>10. Range(made) = {q \in Range(items) : ScopeOf(q) # s}
    <3>1. Range(made) = {made[i] : i \in 1..(L - 1)} /\ Range(items) = {items[i] : i \in 1..L}
      BY <2>5 DEF Range
    <3>2. \A i \in 1..L : i # k => ScopeOf(items[i]) # s
      BY <1>0, <2>2 DEF OneForScope
    <3>3. ASSUME NEW i \in 1..(L - 1) PROVE made[i] \in Range(items) /\ ScopeOf(made[i]) # s
      BY <2>7, <2>8, <3>1, <3>2
    <3>4. ASSUME NEW n \in 1..L, ScopeOf(items[n]) # s PROVE \E i \in 1..(L - 1) : made[i] = items[n]
      <4>1. n # k
        BY <2>2, <3>4
      <4>2. PICK i \in 1..(L - 1) : from(i) = n
        BY <2>7, <4>1
      <4> QED
        BY <2>8, <4>2
    <3> QED
      BY <3>1, <3>3, <3>4
  <2> QED
    BY <1>0, <2>5, <2>9, <2>10 DEF made
<1> QED
  BY <1>1, <1>2

\* The records that say what w says of every scope.
Agreed(w) == {r \in Preference : w[ScopeOf(r)] = r.tool}

\* The search in a list of such records says what w says.
LEMMA PreferredFacts ==
  ASSUME NEW items \in Seq(Preference), NEW w \in [Scope -> Tool \cup {NoTool}],
         Range(items) = Agreed(w), NEW s \in Scope
  PROVE  Preferred(items, s) = w[s]
<1>1. CASE PreferenceIndex(items, s) = {}
  <2>1. Preferred(items, s) = NoTool
    BY <1>1 DEF Preferred
  <2>2. w[s] \notin Tool
    <3> SUFFICES ASSUME w[s] \in Tool PROVE FALSE
      OBVIOUS
    <3> DEFINE r == [target |-> s[1], component |-> s[2], tool |-> w[s]]
    <3>1. s[1] \in Target /\ s[2] \in Component /\ s = <<s[1], s[2]>>
      BY DEF Scope
    <3>2. r \in Preference /\ ScopeOf(r) = s /\ r.tool = w[s]
      BY <3>1 DEF Preference, ScopeOf
    <3>3. r \in Range(items)
      BY <3>2 DEF Agreed
    <3>4. PICK i \in DOMAIN items : items[i] = r
      BY <3>3 DEF Range
    <3> QED
      BY <1>1, <3>2, <3>4 DEF PreferenceIndex
  <2> QED
    BY <2>1, <2>2
<1>2. CASE PreferenceIndex(items, s) # {}
  <2> DEFINE i == Min(PreferenceIndex(items, s))
  <2>1. Preferred(items, s) = items[i].tool
    BY <1>2 DEF Preferred
  <2>2. i \in DOMAIN items /\ ScopeOf(items[i]) = s
    BY <1>2, FoundFacts
  <2> HIDE DEF i
  <2>3. items[i] \in Agreed(w)
    BY <2>2 DEF Range
  <2> QED
    BY <2>1, <2>2, <2>3 DEF Agreed
<1> QED
  BY <1>1, <1>2

(***************************************************************************)
(* What a plan and its artifacts are.                                      *)
(***************************************************************************)

\* A selection is a non-empty sequence of components or tools with one release.
LEMMA SelectionFacts ==
  ASSUME NEW s \in Selection
  PROVE  /\ DOMAIN s.items = 1..Len(s.items) /\ Len(s.items) \in Nat \ {0}
         /\ 1 \in DOMAIN s.items
         /\ s.target \in Target
         /\ NeedsPreferences(s) =>
              s.release = Stable /\ \A i \in DOMAIN s.items : s.items[i] \in Component
<1>1. PICK S : s.items \in Seq(S)
  BY SelectionAssumption
<1>2. DOMAIN s.items = 1..Len(s.items) /\ Len(s.items) \in Nat
  BY <1>1
<1>3. s.items # <<>> /\ s.target \in Target
  BY SelectionAssumption
<1>4. Len(s.items) # 0
  BY <1>1, <1>3
<1>5. ASSUME NeedsPreferences(s)
      PROVE  s.release = Stable /\ \A i \in DOMAIN s.items : s.items[i] \in Component
  BY <1>5, SelectionAssumption DEF NeedsPreferences
<1>6. 1 \in 1..Len(s.items)
  BY <1>2, <1>4
<1> QED
  BY <1>2, <1>3, <1>4, <1>5, <1>6

\* A plan has the tools that the users want and the release of the request.
LEMMA PlanFacts ==
  ASSUME NEW s \in Selection, NEW items \in Seq(Preference),
         NEW w \in [Scope -> Tool \cup {NoTool}], Range(items) = Agreed(w)
  PROVE  /\ DOMAIN PlanBuild(s, items) = DOMAIN s.items
         /\ \A i \in DOMAIN s.items :
              PlanBuild(s, items)[i] = Item(Wanted(s, w)[i], s.release)
<1>1. DOMAIN PlanBuild(s, items) = DOMAIN s.items
  BY DEF PlanBuild
<1>2. ASSUME NEW i \in DOMAIN s.items
      PROVE  PlanBuild(s, items)[i] = Item(Wanted(s, w)[i], s.release)
  <2>1. CASE NeedsPreferences(s)
    <3> DEFINE scope == <<s.target, s.items[i]>>
    <3>1. scope \in Scope
      BY <2>1, SelectionFacts DEF Scope
    <3>2. PlanBuild(s, items)[i] = Item(ToolFor(items, scope), Stable)
      BY <2>1 DEF PlanBuild, NeedsPreferences
    <3>3. Wanted(s, w)[i] = IF w[scope] # NoTool THEN w[scope] ELSE Policy[scope]
      BY <2>1 DEF Wanted
    <3> HIDE DEF scope
    <3>4. Preferred(items, scope) = w[scope]
      BY <3>1, PreferredFacts
    <3>5. ToolFor(items, scope) = Wanted(s, w)[i]
      BY <3>3, <3>4 DEF ToolFor
    <3> QED
      BY <2>1, <3>2, <3>5, SelectionFacts
  <2>2. CASE ~NeedsPreferences(s)
    BY <2>2 DEF PlanBuild, NeedsPreferences, Wanted
  <2> QED
    BY <2>1, <2>2
<1> QED
  BY <1>1, <1>2

\* In a catalog that loads, the stable release of a tool is the newest one
\* this cup can install.
LEMMA StableIsNewest ==
  ASSUME NEW c \in Catalog, Loads(c), NEW e \in c.entries, Operational(e), e.stable
  PROVE  e \in Newest(c, e.tool, e.target)
<1>1. StableIsMaximum(c.entries)
  BY DEF Loads, ValidateCatalog
<1>2. ASSUME NEW f \in c.entries, Operational(f), f.tool = e.tool, f.target = e.target
      PROVE  ~Before(e.version, f.version)
  <2>1. Concrete(e.version) /\ Concrete(f.version)
    BY <1>2, CatalogAssumption DEF Operational
  <2>2. ReleaseCompare(e.version, f.version) >= 0
    BY <1>1, <1>2 DEF StableIsMaximum, SameTuple
  <2>3. ReleaseCompare(e.version, f.version) =
          IF Before(e.version, f.version) THEN -1 ELSE IF e.version = f.version THEN 0 ELSE 1
    BY <2>1, ReleaseOrderIsByValue
  <2> QED
    BY <2>2, <2>3
<1> QED
  BY <1>2 DEF Newest

\* The artifacts an item may become.
Pinned(c, s, tool, spec) ==
  \E e \in c.entries :
    /\ Operational(e) /\ s.format \in e.formats /\ e.target = s.target
    /\ spec = [tool |-> tool, version |-> e.version, catalog |-> c.revision]
    /\ e.tool = tool
    /\ IF s.release = Stable
       THEN e.stable /\ e \in Newest(c, e.tool, e.target)
       ELSE e.version = s.release

\* What an item is pinned to is an entry of the catalog: the release that was
\* asked for, or the newest.
LEMMA SpecFacts ==
  ASSUME NEW c \in Catalog, Loads(c), NEW s \in Selection, NEW tool,
         NEW spec \in SpecsOf(c, s, Item(tool, s.release))
  PROVE  Pinned(c, s, tool, spec)
<1> DEFINE item == Item(tool, s.release)
<1>1. item.tool = tool /\ item.release = s.release
  BY DEF Item
<1> HIDE DEF item
<1>2. PICK e, v : /\ v \in Resolutions(c, s, item)
                  /\ e \in FindRelease(c, tool, s.target, v)
                  /\ s.format \in e.formats
                  /\ spec = [tool |-> e.tool, version |-> e.version, catalog |-> c.revision]
  BY <1>1 DEF SpecsOf, item
<1>3. /\ e \in c.entries /\ Operational(e) /\ e.tool = tool /\ e.target = s.target
      /\ e.version = v
  BY <1>2 DEF FindRelease
<1>4. CASE s.release = Stable
  <2>1. v \in ResolveStable(c, tool, s.target)
    BY <1>1, <1>2, <1>4 DEF Resolutions
  <2>2. PICK f \in c.entries : /\ f.stable /\ Operational(f) /\ f.tool = tool
                               /\ f.target = s.target /\ v = f.version
    BY <2>1 DEF ResolveStable
  <2>3. e = f
    BY <1>3, <2>2 DEF Loads, ValidateCatalog, VersionsUnique, SameTuple
  <2>4. e.stable /\ e \in Newest(c, e.tool, e.target)
    BY <1>3, <2>2, <2>3, StableIsNewest
  <2> QED
    BY <1>2, <1>3, <1>4, <2>4 DEF Pinned
<1>5. CASE s.release # Stable
  <2>1. v = s.release
    BY <1>1, <1>2, <1>5 DEF Resolutions
  <2> QED
    BY <1>2, <1>3, <1>5, <2>1 DEF Pinned
<1> QED
  BY <1>4, <1>5

\* A plan that is available is pinned item by item.
LEMMA PlanSpecsFacts ==
  ASSUME NEW c \in Catalog, Loads(c), NEW s \in Selection, NEW items \in Seq(Preference),
         NEW w \in [Scope -> Tool \cup {NoTool}], Range(items) = Agreed(w),
         Available(c, s, PlanBuild(s, items))
  PROVE  LET made == PlanSpecs(c, s, PlanBuild(s, items))
         IN  /\ DOMAIN made = DOMAIN s.items /\ Len(made) = Len(s.items)
             /\ \A i \in DOMAIN made : Pinned(c, s, Wanted(s, w)[i], made[i])
<1> DEFINE p == PlanBuild(s, items)
           made == PlanSpecs(c, s, p)
<1>1. /\ DOMAIN p = DOMAIN s.items
      /\ \A i \in DOMAIN s.items : p[i] = Item(Wanted(s, w)[i], s.release)
  BY PlanFacts
<1> HIDE DEF p
<1>2. DOMAIN made = DOMAIN s.items /\ \A i \in DOMAIN made : made[i] = CHOOSE spec \in SpecsOf(c, s, p[i]) : TRUE
  BY <1>1 DEF PlanSpecs
<1>4. Len(made) = Len(s.items)
  <2> DEFINE n == Len(s.items)
             R == {made[i] : i \in 1..n}
  <2>1. DOMAIN made = 1..n /\ n \in Nat
    BY <1>2, SelectionFacts
  <2>2. made = [i \in DOMAIN made |-> made[i]]
    BY DEF PlanSpecs
  <2> HIDE DEF made, n
  <2>3. made \in [1..n -> R]
    BY <2>1, <2>2
  <2>4. \A T : \A f \in [1..n -> T] : f \in Seq(T) /\ Len(f) = n
    BY <2>1
  <2> HIDE DEF R
  <2>5. Len(made) = n
    BY <2>3, <2>4
  <2> QED
    BY <2>5 DEF n
<1> HIDE DEF made
<1>3. ASSUME NEW i \in DOMAIN made PROVE Pinned(c, s, Wanted(s, w)[i], made[i])
  <2>1. SpecsOf(c, s, p[i]) # {}
    BY <1>1, <1>2 DEF Available, p
  <2>2. made[i] \in SpecsOf(c, s, p[i])
    BY <1>2, <2>1
  <2>3. made[i] \in SpecsOf(c, s, Item(Wanted(s, w)[i], s.release))
    BY <1>1, <1>2, <2>2
  <2> QED
    BY <2>3, SpecFacts
<1> QED
  BY <1>2, <1>3, <1>4 DEF made, p

(***************************************************************************)
(* The inductive invariant.                                                *)
(***************************************************************************)

\* A file that was damaged has no records until it is repaired, and the wishes
\* it held are gone.
PreferencesInv ==
  /\ Range(prefs.items) = Agreed(wish)
  /\ InScopeOrder(prefs.items)
  /\ ~prefs.valid => prefs.items = <<>>
  /\ \A s \in Scope : wish[s] # NoTool => ComponentOf[wish[s]] = s[2]

\* What is executed fits the preferences and the catalog of the last snapshot.
Executable ==
  /\ DOMAIN specs = DOMAIN selection.items /\ Len(specs) = Len(selection.items)
  /\ \A c \in seen.catalog :
       Loads(c) /\ \A i \in DOMAIN specs : Pinned(c, selection, seen.tools[i], specs[i])

\* While the snapshot is open, the plan is the one that the preferences give;
\* a request goes to the network only if the catalog at hand did not do.
CommandInv ==
  /\ phase \in {"local", "authority", "validate"} => plan = PlanBuild(selection, prefs.items)
  /\ phase = "refresh" =>
       \A c \in seen.catalog : HasSymbolic(plan) \/ ~Available(c, selection, plan)
  /\ phase = "execute" => Executable
  /\ phase # "execute" => next = 1

PlanningInv == TypeOK /\ PreferencesInv /\ CommandInv

\* An installed root has no preferences yet and a catalog that loads.
LEMMA InitPlanning == Init => PlanningInv
<1> SUFFICES ASSUME Init PROVE PlanningInv
  OBVIOUS
<1>1. TypeOK
  <2>1. NoSelection \in Selection
    BY SelectionAssumption DEF NoSelection
  <2>2. prefs = [valid |-> TRUE, items |-> <<>>]
    BY DEF Init
  <2>3. prefs \in [valid : BOOLEAN, items : Seq(Preference)] /\ Len(prefs.items) <= MaxPreferences
    BY <2>2, RegistryAssumption
  <2> QED
    BY <2>1, <2>3 DEF Init, TypeOK
<1>2. PreferencesInv
  <2>1. Range(<<>>) = {}
    BY DEF Range
  <2>2. Agreed(wish) = {}
    BY RecordFacts, RegistryAssumption DEF Init, Agreed
  <2>3. prefs.items = <<>> /\ \A s \in Scope : wish[s] = NoTool
    BY DEF Init
  <2>4. InScopeOrder(<<>>)
    BY DEF InScopeOrder
  <2> QED
    BY <2>1, <2>2, <2>3, <2>4 DEF PreferencesInv
<1>3. CommandInv
  BY DEF Init, CommandInv
<1> QED
  BY <1>1, <1>2, <1>3 DEF PlanningInv

(***************************************************************************)
(* The steps of the command. They leave the preferences alone.             *)
(***************************************************************************)

\* The part of the type invariant that is about the files, and the part that
\* is about the command.
FilesOK ==
  /\ prefs \in [valid : BOOLEAN, items : Seq(Preference)]
  /\ Len(prefs.items) <= MaxPreferences
  /\ wish \in [Scope -> Tool \cup {NoTool}]
  /\ catalog \in Catalog

CommandOK ==
  /\ phase \in {"idle", "open", "local", "authority", "refresh", "validate", "execute"}
  /\ lock \in {"none", "shared"}
  /\ lock = "shared" <=> phase \in {"local", "authority", "validate"}
  /\ selection \in Selection
  /\ phase = "execute" => next \in DOMAIN specs
  /\ refresh \in {"none", "ok", "failed"}

\* A step that leaves the files alone keeps what is said of them.
LEMMA FilesKept ==
  ASSUME PlanningInv, UNCHANGED files
  PROVE  FilesOK' /\ PreferencesInv'
<1>1. FilesOK /\ PreferencesInv
  BY DEF PlanningInv, TypeOK, FilesOK, CommandOK
<1>2. prefs' = prefs /\ wish' = wish /\ catalog' = catalog
  BY DEF files
<1>3. FilesOK'
  BY <1>1, <1>2 DEF FilesOK
<1>4. PreferencesInv'
  BY <1>1, <1>2 DEF PreferencesInv, Agreed, InScopeOrder
<1> QED
  BY <1>3, <1>4

\* The end of the command.
LEMMA EndKeeps ==
  ASSUME PlanningInv, NEW r, End(r), UNCHANGED files
  PROVE  PlanningInv'
<1>1. FilesOK' /\ PreferencesInv'
  BY FilesKept
<1>2. NoSelection \in Selection
  BY SelectionAssumption DEF NoSelection
<1>3. CommandOK'
  BY <1>2 DEF End, Enter, CommandOK
<1>4. CommandInv'
  BY DEF End, Enter, CommandInv
<1> QED
  BY <1>1, <1>3, <1>4 DEF PlanningInv, TypeOK, FilesOK, CommandOK

\* A closed snapshot of a catalog that has the whole plan leads to artifacts
\* that may be executed.
LEMMA PinnedPlanKeeps ==
  ASSUME PlanningInv, phase \in {"authority", "validate"},
         Loads(catalog), Available(catalog, selection, plan),
         CloseSnapshot, Enter("execute"), specs' = PlanSpecs(catalog, selection, plan),
         UNCHANGED <<files, selection, plan, next, refresh, result>>
  PROVE  PlanningInv'
<1>1. FilesOK' /\ PreferencesInv'
  BY FilesKept
<1>2. /\ plan = PlanBuild(selection, prefs.items)
      /\ selection \in Selection /\ catalog \in Catalog
      /\ prefs.items \in Seq(Preference)
      /\ wish \in [Scope -> Tool \cup {NoTool}]
      /\ Range(prefs.items) = Agreed(wish)
      /\ next = 1 /\ refresh \in {"none", "ok", "failed"}
  BY DEF PlanningInv, CommandInv, PreferencesInv, TypeOK
<1>3. /\ DOMAIN specs' = DOMAIN selection.items /\ Len(specs') = Len(selection.items)
      /\ \A i \in DOMAIN specs' : Pinned(catalog, selection, Wanted(selection, wish)[i], specs'[i])
  BY <1>2, PlanSpecsFacts
<1>4. /\ phase' = "execute" /\ lock' = "none" /\ selection' = selection /\ next' = next
      /\ refresh' = refresh
      /\ seen' = [tools |-> Wanted(selection, wish), catalog |-> {catalog}]
  BY DEF CloseSnapshot, Enter
<1>5. 1 \in DOMAIN selection.items
  BY <1>2, SelectionFacts
<1>6. CommandOK'
  BY <1>2, <1>3, <1>4, <1>5 DEF CommandOK
<1>7. Executable'
  BY <1>3, <1>4 DEF Executable
<1>8. CommandInv'
  BY <1>4, <1>7 DEF CommandInv
<1> QED
  BY <1>1, <1>6, <1>8 DEF PlanningInv, TypeOK, FilesOK, CommandOK

\* A request is only remembered.
LEMMA InstallKeeps ==
  ASSUME PlanningInv, NEW s \in Selection, Install(s)
  PROVE  PlanningInv'
<1>1. FilesOK' /\ PreferencesInv'
  BY FilesKept DEF Install
<1>2. CommandOK'
  BY DEF Install, Enter, CommandOK, PlanningInv, TypeOK
<1>3. CommandInv'
  BY DEF Install, Enter, CommandInv, PlanningInv
<1> QED
  BY <1>1, <1>2, <1>3 DEF PlanningInv, TypeOK, FilesOK, CommandOK

\* Opening a snapshot makes the plan from the preferences it is checked
\* against: the lock is held from then on.
LEMMA OpenSnapshotKeeps ==
  ASSUME PlanningInv, OpenSnapshot
  PROVE  PlanningInv'
<1>1. FilesOK' /\ PreferencesInv'
  BY FilesKept DEF OpenSnapshot
<1>2. CommandOK'
  BY DEF OpenSnapshot, Enter, CommandOK, PlanningInv, TypeOK
<1>3. CommandInv'
  <2>1. /\ plan' = PlanBuild(selection, prefs.items) /\ selection' = selection
        /\ prefs' = prefs /\ next' = next /\ phase = "open" /\ phase' \in {"local", "validate"}
    BY DEF OpenSnapshot, SnapshotPlan, Enter, files
  <2>2. next = 1
    BY <2>1 DEF PlanningInv, CommandInv
  <2> QED
    BY <2>1, <2>2 DEF CommandInv
<1> QED
  BY <1>1, <1>2, <1>3 DEF PlanningInv, TypeOK, FilesOK, CommandOK

\* Without a plan, or without the lock, the command ends.
LEMMA NoSnapshotKeeps ==
  ASSUME PlanningInv, NoSnapshot
  PROVE  PlanningInv'
BY EndKeeps DEF NoSnapshot

\* An exact request may end here; otherwise nothing changes.
LEMMA LocalNoopKeeps ==
  ASSUME PlanningInv, LocalNoop
  PROVE  PlanningInv'
<1>0. UNCHANGED files /\ phase = "local"
  BY DEF LocalNoop
<1>1. CASE \E r \in {"already", "invalid package"} : End(r)
  BY <1>0, <1>1, EndKeeps
<1>2. CASE /\ Enter("authority")
           /\ UNCHANGED <<lock, selection, plan, specs, next, refresh, seen, result>>
  <2>1. FilesOK' /\ PreferencesInv'
    BY <1>0, FilesKept
  <2>2. CommandOK'
    BY <1>0, <1>2 DEF Enter, CommandOK, PlanningInv, TypeOK
  <2>3. CommandInv'
    BY <1>0, <1>2 DEF Enter, CommandInv, PlanningInv, files
  <2> QED
    BY <2>1, <2>2, <2>3 DEF PlanningInv, TypeOK, FilesOK, CommandOK
<1> QED
  BY <1>1, <1>2 DEF LocalNoop

\* The local catalog ends the command, satisfies the plan, or sends the
\* command to the network, and then it did not have the plan.
LEMMA LocalCatalogKeeps ==
  ASSUME PlanningInv, LocalCatalog
  PROVE  PlanningInv'
<1>0. UNCHANGED files /\ phase = "authority"
  BY DEF LocalCatalog
<1>1. CASE End("catalog")
  BY <1>0, <1>1, EndKeeps
<1>2. CASE /\ Loads(catalog) /\ CloseSnapshot
           /\ LocalSatisfies /\ Enter("execute") /\ specs' = PlanSpecs(catalog, selection, plan)
           /\ UNCHANGED <<selection, plan, next, refresh, result>>
  BY <1>0, <1>2, PinnedPlanKeeps DEF LocalSatisfies
<1>3. CASE /\ Loads(catalog) /\ CloseSnapshot
           /\ ~LocalSatisfies /\ Enter("refresh") /\ UNCHANGED specs
           /\ UNCHANGED <<selection, plan, next, refresh, result>>
  <2>1. FilesOK' /\ PreferencesInv'
    BY <1>0, FilesKept
  <2>2. /\ phase' = "refresh" /\ lock' = "none" /\ selection' = selection /\ plan' = plan
        /\ next' = next /\ refresh' = refresh /\ seen'.catalog = {catalog}
    BY <1>3 DEF CloseSnapshot, Enter
  <2>3. CommandOK'
    BY <2>2 DEF CommandOK, PlanningInv, TypeOK
  <2>4. \A c \in seen'.catalog : HasSymbolic(plan') \/ ~Available(c, selection', plan')
    BY <1>3, <2>2 DEF LocalSatisfies
  <2>5. next' = 1
    BY <1>0, <2>2 DEF PlanningInv, CommandInv
  <2>6. CommandInv'
    BY <2>2, <2>4, <2>5 DEF CommandInv
  <2> QED
    BY <2>1, <2>3, <2>6 DEF PlanningInv, TypeOK, FilesOK, CommandOK
<1> QED
  BY <1>1, <1>2, <1>3 DEF LocalCatalog

\* A failed refresh ends the command or leads to the second snapshot.
LEMMA RefreshFailsKeeps ==
  ASSUME PlanningInv, RefreshFails
  PROVE  PlanningInv'
<1>0. UNCHANGED files /\ phase = "refresh"
  BY DEF RefreshFails
<1>1. CASE End("refresh")
  BY <1>0, <1>1, EndKeeps
<1>2. CASE /\ refresh' = "failed" /\ Enter("open")
           /\ UNCHANGED <<lock, selection, plan, specs, next, seen, result>>
  <2>1. FilesOK' /\ PreferencesInv'
    BY <1>0, FilesKept
  <2>2. CommandOK'
    BY <1>0, <1>2 DEF Enter, CommandOK, PlanningInv, TypeOK
  <2>3. CommandInv'
    BY <1>0, <1>2 DEF Enter, CommandInv, PlanningInv
  <2> QED
    BY <2>1, <2>2, <2>3 DEF PlanningInv, TypeOK, FilesOK, CommandOK
<1> QED
  BY <1>1, <1>2 DEF RefreshFails

\* A refresh replaces the catalog while no snapshot is open.
LEMMA RefreshSucceedsKeeps ==
  ASSUME PlanningInv, RefreshSucceeds
  PROVE  PlanningInv'
<1>1. /\ phase = "refresh" /\ phase' = "open" /\ refresh' = "ok" /\ catalog' \in Catalog
      /\ UNCHANGED <<prefs, wish, lock, selection, plan, specs, next, seen, result>>
  BY DEF RefreshSucceeds, Enter, NewerThan, PlanningInv, TypeOK
<1>2. FilesOK'
  BY <1>1 DEF FilesOK, PlanningInv, TypeOK
<1>3. PreferencesInv'
  BY <1>1 DEF PreferencesInv, PlanningInv, Agreed, InScopeOrder
<1>4. CommandOK'
  BY <1>1 DEF CommandOK, PlanningInv, TypeOK
<1>5. CommandInv'
  BY <1>1 DEF CommandInv, PlanningInv
<1> QED
  BY <1>2, <1>3, <1>4, <1>5 DEF PlanningInv, TypeOK, FilesOK, CommandOK

\* The second snapshot pins the plan it was opened with.
LEMMA ValidatePlanKeeps ==
  ASSUME PlanningInv, ValidatePlan
  PROVE  PlanningInv'
BY PinnedPlanKeeps DEF ValidatePlan, Satisfies

\* A plan that is not available ends the command.
LEMMA PlanUnavailableKeeps ==
  ASSUME PlanningInv, PlanUnavailable
  PROVE  PlanningInv'
BY EndKeeps DEF PlanUnavailable

\* Items are installed one by one, up to the last.
LEMMA ExecuteItemKeeps ==
  ASSUME PlanningInv, ExecuteItem
  PROVE  PlanningInv'
<1>0. UNCHANGED files /\ phase = "execute"
  BY DEF ExecuteItem
<1>1. CASE /\ next < Len(specs) /\ next' = next + 1
           /\ UNCHANGED <<phase, lock, selection, plan, specs, refresh, seen, result>>
  <2>1. FilesOK' /\ PreferencesInv'
    BY <1>0, FilesKept
  <2>2. Executable /\ next \in DOMAIN specs /\ selection \in Selection
    BY <1>0 DEF PlanningInv, CommandInv, TypeOK
  <2>3. next' \in DOMAIN specs'
    <3>1. DOMAIN specs = 1..Len(specs) /\ Len(specs) \in Nat
      BY <2>2, SelectionFacts DEF Executable
    <3> QED
      BY <1>1, <2>2, <3>1
  <2>4. CommandOK'
    BY <1>0, <1>1, <2>3 DEF CommandOK, PlanningInv, TypeOK
  <2>5. CommandInv'
    BY <1>0, <1>1, <2>2 DEF CommandInv, Executable
  <2> QED
    BY <2>1, <2>4, <2>5 DEF PlanningInv, TypeOK, FilesOK, CommandOK
<1>2. CASE End("installed")
  BY <1>0, <1>2, EndKeeps
<1>3. CASE End("already")
  BY <1>0, <1>3, EndKeeps
<1> QED
  BY <1>1, <1>2, <1>3 DEF ExecuteItem

\* A failed item ends the command.
LEMMA ExecuteFailsKeeps ==
  ASSUME PlanningInv, ExecuteFails
  PROVE  PlanningInv'
BY EndKeeps DEF ExecuteFails

(***************************************************************************)
(* The steps of other processes. None of them runs while the command holds *)
(* its lock, so the plan of an open snapshot is not affected.              *)
(***************************************************************************)

\* They leave the memory of the command alone, whose snapshot is closed.
LEMMA CommandKept ==
  ASSUME PlanningInv, Unlocked, UNCHANGED command
  PROVE  CommandOK' /\ CommandInv'
<1>1. /\ phase' = phase /\ lock' = lock /\ selection' = selection /\ plan' = plan
      /\ specs' = specs /\ next' = next /\ refresh' = refresh /\ seen' = seen
  BY DEF command
<1>2. phase \notin {"local", "authority", "validate"}
  BY DEF Unlocked, PlanningInv, TypeOK
<1>3. CommandOK'
  BY <1>1 DEF CommandOK, PlanningInv, TypeOK
<1>4. CommandInv'
  BY <1>1, <1>2 DEF CommandInv, PlanningInv, Executable
<1> QED
  BY <1>3, <1>4

\* What is saved is in order and says what w says of every scope, if the
\* records that are saved do.
LEMMA SavedKeeps ==
  ASSUME PlanningInv, prefs.valid, NEW items \in Seq(Preference), OneForScope(items),
         Len(items) <= MaxPreferences, Saved(items),
         NEW w \in [Scope -> Tool \cup {NoTool}], wish' = w, Range(items) = Agreed(w),
         \A s \in Scope : w[s] # NoTool => ComponentOf[w[s]] = s[2],
         catalog' = catalog
  PROVE  FilesOK' /\ PreferencesInv'
<1>1. prefs' = [valid |-> prefs.valid, items |-> Sorted(items)] /\ prefs.valid \in BOOLEAN
  BY DEF Saved, PlanningInv, TypeOK
<1>2. /\ Sorted(items) \in Seq(Preference)
      /\ Len(Sorted(items)) = Len(items)
      /\ Range(Sorted(items)) = Range(items)
      /\ InScopeOrder(Sorted(items))
  BY SortedFacts
<1>3. prefs'.items = Sorted(items) /\ prefs'.valid
  BY <1>1
<1>4. FilesOK'
  BY <1>1, <1>2, <1>3 DEF FilesOK, PlanningInv, TypeOK
<1>5. Range(prefs'.items) = Agreed(wish') /\ InScopeOrder(prefs'.items)
  BY <1>2, <1>3
<1>6. PreferencesInv'
  BY <1>3, <1>5 DEF PreferencesInv, Agreed, InScopeOrder
<1> QED
  BY <1>4, <1>6

\* What the invariant says of the list before a change.
LEMMA ListFacts ==
  ASSUME PlanningInv
  PROVE  /\ prefs.items \in Seq(Preference) /\ Len(prefs.items) <= MaxPreferences
         /\ OneForScope(prefs.items)
         /\ Range(prefs.items) = Agreed(wish)
         /\ wish \in [Scope -> Tool \cup {NoTool}]
         /\ \A s \in Scope : wish[s] # NoTool => ComponentOf[wish[s]] = s[2]
         /\ Len(prefs.items) \in Nat /\ MaxPreferences \in Nat
<1>1. /\ prefs.items \in Seq(Preference) /\ Len(prefs.items) <= MaxPreferences
      /\ wish \in [Scope -> Tool \cup {NoTool}]
      /\ InScopeOrder(prefs.items)
      /\ Range(prefs.items) = Agreed(wish)
      /\ \A s \in Scope : wish[s] # NoTool => ComponentOf[wish[s]] = s[2]
  BY DEF PlanningInv, TypeOK, PreferencesInv
<1>2. OneForScope(prefs.items)
  BY <1>1, OrderedHasOne
<1> QED
  BY <1>1, <1>2, RegistryAssumption

\* config set: the list says the new wish and the old ones of the other scopes.
LEMMA ConfigSetKeeps ==
  ASSUME PlanningInv, NEW t \in Target, NEW tool \in Tool, ConfigSet(t, tool)
  PROVE  PlanningInv'
<1> DEFINE s == <<t, ComponentOf[tool]>>
           r == [target |-> t, component |-> ComponentOf[tool], tool |-> tool]
           made == SetPreference(prefs.items, r)
           w == [wish EXCEPT ![s] = tool]
<1>1. /\ prefs.valid /\ Unlocked /\ Saved(made) /\ wish' = w /\ UNCHANGED <<catalog, command>>
      /\ PreferenceIndex(prefs.items, s) # {} \/ Len(prefs.items) < MaxPreferences
  BY DEF ConfigSet
<1>2. r \in Preference /\ ScopeOf(r) = s /\ r.tool = tool /\ s \in Scope /\ s[2] = ComponentOf[tool]
  BY RegistryAssumption DEF Preference, ScopeOf, Scope
<1> HIDE DEF r, s
<1>3. /\ made \in Seq(Preference)
      /\ Len(made) = IF PreferenceIndex(prefs.items, ScopeOf(r)) = {}
                     THEN Len(prefs.items) + 1 ELSE Len(prefs.items)
      /\ OneForScope(made)
      /\ Range(made) = {q \in Range(prefs.items) : ScopeOf(q) # ScopeOf(r)} \cup {r}
  BY <1>2, ListFacts, SetPreferenceFacts
<1> HIDE DEF made
<1>4. Len(made) <= MaxPreferences
  BY <1>1, <1>2, <1>3, ListFacts
<1>5. /\ w \in [Scope -> Tool \cup {NoTool}] /\ w[s] = tool
      /\ \A x \in Scope : x # s => w[x] = wish[x]
  BY <1>2, ListFacts
<1> HIDE DEF w
<1>6. Range(made) = Agreed(w)
  <2>1. ASSUME NEW q \in Preference PROVE q \in Range(made) <=> w[ScopeOf(q)] = q.tool
    <3>1. ScopeOf(q) \in Scope
      BY RecordFacts
    <3>2. CASE ScopeOf(q) = s
      BY <1>2, <1>3, <1>5, <3>2, RecordFacts
    <3>3. CASE ScopeOf(q) # s
      <4>1. q \in Range(prefs.items) <=> wish[ScopeOf(q)] = q.tool
        BY ListFacts DEF Agreed
      <4> QED
        BY <1>2, <1>3, <1>5, <3>1, <3>3, <4>1
    <3> QED
      BY <3>2, <3>3
  <2>2. Range(made) \subseteq Preference
    BY <1>3 DEF Range
  <2> QED
    BY <2>1, <2>2 DEF Agreed
<1>7. \A x \in Scope : w[x] # NoTool => ComponentOf[w[x]] = x[2]
  BY <1>2, <1>5, ListFacts
<1>8. FilesOK' /\ PreferencesInv'
  BY <1>1, <1>3, <1>4, <1>5, <1>6, <1>7, SavedKeeps
<1>9. CommandOK' /\ CommandInv'
  BY <1>1, CommandKept
<1> QED
  BY <1>8, <1>9 DEF PlanningInv, TypeOK, FilesOK, CommandOK

\* config reset of a component: the list says the wishes of the other scopes.
LEMMA ConfigResetKeeps ==
  ASSUME PlanningInv, NEW s \in Scope, ConfigReset(s)
  PROVE  PlanningInv'
<1> DEFINE made == ResetPreference(prefs.items, s)
           w == [wish EXCEPT ![s] = NoTool]
<1>1. prefs.valid /\ Unlocked /\ Saved(made) /\ wish' = w /\ UNCHANGED <<catalog, command>>
  BY DEF ConfigReset
<1>3. /\ made \in Seq(Preference) /\ Len(made) <= Len(prefs.items)
      /\ OneForScope(made)
      /\ Range(made) = {q \in Range(prefs.items) : ScopeOf(q) # s}
  BY ListFacts, ResetPreferenceFacts
<1> HIDE DEF made
<1>4. Len(made) <= MaxPreferences
  <2>1. Len(made) \in Nat
    BY <1>3
  <2> QED
    BY <1>3, <2>1, ListFacts
<1>5. /\ w \in [Scope -> Tool \cup {NoTool}] /\ w[s] = NoTool
      /\ \A x \in Scope : x # s => w[x] = wish[x]
  BY ListFacts
<1> HIDE DEF w
<1>6. Range(made) = Agreed(w)
  <2>1. ASSUME NEW q \in Preference PROVE q \in Range(made) <=> w[ScopeOf(q)] = q.tool
    <3>1. ScopeOf(q) \in Scope /\ q.tool # NoTool
      BY RecordFacts, RegistryAssumption
    <3>2. q \in Range(prefs.items) <=> wish[ScopeOf(q)] = q.tool
      BY ListFacts DEF Agreed
    <3> QED
      BY <1>3, <1>5, <3>1, <3>2
  <2>2. Range(made) \subseteq Preference
    BY <1>3 DEF Range
  <2> QED
    BY <2>1, <2>2 DEF Agreed
<1>7. \A x \in Scope : w[x] # NoTool => ComponentOf[w[x]] = x[2]
  BY <1>5, ListFacts
<1>8. FilesOK' /\ PreferencesInv'
  BY <1>1, <1>3, <1>4, <1>5, <1>6, <1>7, SavedKeeps
<1>9. CommandOK' /\ CommandInv'
  BY <1>1, CommandKept
<1> QED
  BY <1>8, <1>9 DEF PlanningInv, TypeOK, FilesOK, CommandOK

\* config reset of a target: the list says the wishes of the other targets.
LEMMA ConfigResetScopeKeeps ==
  ASSUME PlanningInv, NEW t \in Target, ConfigResetScope(t)
  PROVE  PlanningInv'
<1> DEFINE made == ResetScope(prefs.items, t)
           w == [s \in Scope |-> IF s[1] = t THEN NoTool ELSE wish[s]]
<1>1. prefs.valid /\ Unlocked /\ Saved(made) /\ wish' = w /\ UNCHANGED <<catalog, command>>
  BY DEF ConfigResetScope
<1>3. /\ made \in Seq(Preference) /\ Len(made) <= Len(prefs.items)
      /\ OneForScope(made)
      /\ Range(made) = {q \in Range(prefs.items) : q.target # t}
  BY ListFacts, ResetScopeFacts
<1> HIDE DEF made
<1>4. Len(made) <= MaxPreferences
  <2>1. Len(made) \in Nat
    BY <1>3
  <2> QED
    BY <1>3, <2>1, ListFacts
<1>5. /\ w \in [Scope -> Tool \cup {NoTool}]
      /\ \A x \in Scope : w[x] = IF x[1] = t THEN NoTool ELSE wish[x]
  BY ListFacts
<1> HIDE DEF w
<1>6. Range(made) = Agreed(w)
  <2>1. ASSUME NEW q \in Preference PROVE q \in Range(made) <=> w[ScopeOf(q)] = q.tool
    <3>1. ScopeOf(q) \in Scope /\ q.tool # NoTool /\ ScopeOf(q)[1] = q.target
      BY RecordFacts, RegistryAssumption DEF ScopeOf
    <3>2. q \in Range(prefs.items) <=> wish[ScopeOf(q)] = q.tool
      BY ListFacts DEF Agreed
    <3> QED
      BY <1>3, <1>5, <3>1, <3>2
  <2>2. Range(made) \subseteq Preference
    BY <1>3 DEF Range
  <2> QED
    BY <2>1, <2>2 DEF Agreed
<1>7. \A x \in Scope : w[x] # NoTool => ComponentOf[w[x]] = x[2]
  BY <1>5, ListFacts
<1>8. FilesOK' /\ PreferencesInv'
  BY <1>1, <1>3, <1>4, <1>5, <1>6, <1>7, SavedKeeps
<1>9. CommandOK' /\ CommandInv'
  BY <1>1, CommandKept
<1> QED
  BY <1>8, <1>9 DEF PlanningInv, TypeOK, FilesOK, CommandOK

\* An empty list is what is left when there are no wishes.
LEMMA EmptyFacts ==
  ASSUME NEW w \in [Scope -> Tool \cup {NoTool}]
  PROVE  /\ Range(<<>>) = {} /\ InScopeOrder(<<>>) /\ <<>> \in Seq(Preference) /\ Len(<<>>) = 0
         /\ (\A s \in Scope : w[s] = NoTool) => Agreed(w) = {}
         /\ Agreed(w) = {} => \A s \in Scope : w[s] = NoTool
<1>1. Range(<<>>) = {} /\ InScopeOrder(<<>>) /\ <<>> \in Seq(Preference) /\ Len(<<>>) = 0
  BY DEF Range, InScopeOrder
<1>2. (\A s \in Scope : w[s] = NoTool) => Agreed(w) = {}
  BY RecordFacts, RegistryAssumption DEF Agreed
<1>3. Agreed(w) = {} => \A s \in Scope : w[s] = NoTool
  <2> SUFFICES ASSUME Agreed(w) = {}, NEW s \in Scope PROVE w[s] = NoTool
    OBVIOUS
  <2>1. Preferred(<<>>, s) = w[s]
    BY <1>1, PreferredFacts
  <2>2. PreferenceIndex(<<>>, s) = {}
    BY DEF PreferenceIndex
  <2> QED
    BY <2>1, <2>2 DEF Preferred
<1> QED
  BY <1>1, <1>2, <1>3

\* The list is empty, and no wish is held, from a damage to the repair.
LEMMA EmptiedKeeps ==
  ASSUME PlanningInv, NEW b \in BOOLEAN, prefs' = [valid |-> b, items |-> <<>>],
         wish' \in [Scope -> Tool \cup {NoTool}], \A s \in Scope : wish'[s] = NoTool,
         catalog' = catalog
  PROVE  FilesOK' /\ PreferencesInv'
<1>1. /\ prefs'.items = <<>> /\ Range(prefs'.items) = Agreed(wish') /\ InScopeOrder(prefs'.items)
      /\ <<>> \in Seq(Preference) /\ Len(<<>>) = 0
  BY EmptyFacts
<1>2. FilesOK'
  BY <1>1, RegistryAssumption DEF FilesOK, PlanningInv, TypeOK
<1>3. PreferencesInv'
  BY <1>1 DEF PreferencesInv, Agreed, InScopeOrder
<1> QED
  BY <1>2, <1>3

\* A step that replaces the catalog.
LEMMA CatalogReplacedKeeps ==
  ASSUME PlanningInv, catalog' \in Catalog, UNCHANGED <<prefs, wish>>
  PROVE  FilesOK' /\ PreferencesInv'
<1>1. FilesOK'
  BY DEF FilesOK, PlanningInv, TypeOK
<1>2. PreferencesInv'
  BY DEF PreferencesInv, PlanningInv, Agreed, InScopeOrder
<1> QED
  BY <1>1, <1>2

\* Refresh, damage and repair replace one file as a whole.
LEMMA OtherFilesKeep ==
  ASSUME PlanningInv, OtherRefresh \/ Damage \/ Repair
  PROVE  PlanningInv'
<1>0. Unlocked /\ UNCHANGED command
  BY DEF OtherRefresh, Damage, Repair
<1>1. ASSUME catalog' \in Catalog, UNCHANGED <<prefs, wish>>
      PROVE  FilesOK' /\ PreferencesInv'
  BY <1>1, CatalogReplacedKeeps
<1>2. ASSUME prefs' = [valid |-> FALSE, items |-> <<>>],
             wish' = [s \in Scope |-> NoTool],
             UNCHANGED catalog
      PROVE  FilesOK' /\ PreferencesInv'
  BY <1>2, EmptiedKeeps
<1>3. ASSUME ~prefs.valid, prefs' = [valid |-> TRUE, items |-> <<>>], UNCHANGED <<wish, catalog>>
      PROVE  FilesOK' /\ PreferencesInv'
  <2>1. prefs.items = <<>> /\ Range(prefs.items) = Agreed(wish) /\ wish \in [Scope -> Tool \cup {NoTool}]
    BY <1>3 DEF PlanningInv, PreferencesInv, TypeOK
  <2>2. \A s \in Scope : wish[s] = NoTool
    BY <2>1, EmptyFacts
  <2> QED
    BY <1>3, <2>1, <2>2, EmptiedKeeps
<1>4. FilesOK' /\ PreferencesInv'
  BY <1>1, <1>2, <1>3 DEF OtherRefresh, Damage, Repair, NewerThan
<1>5. CommandOK' /\ CommandInv'
  BY <1>0, CommandKept
<1> QED
  BY <1>4, <1>5 DEF PlanningInv, TypeOK, FilesOK, CommandOK

\* Every step keeps the invariant.
LEMMA NextPlanning == PlanningInv /\ [Next]_vars => PlanningInv'
<1> SUFFICES ASSUME PlanningInv, [Next]_vars PROVE PlanningInv'
  OBVIOUS
<1>1. CASE UNCHANGED vars
  <2>1. UNCHANGED files /\ UNCHANGED command
    BY <1>1 DEF vars
  <2>2. FilesOK' /\ PreferencesInv'
    BY <2>1, FilesKept
  <2>3. CommandOK' /\ CommandInv'
    <3>1. /\ prefs' = prefs /\ phase' = phase /\ lock' = lock /\ selection' = selection
          /\ plan' = plan /\ specs' = specs /\ next' = next /\ refresh' = refresh /\ seen' = seen
      BY <2>1 DEF files, command
    <3> QED
      BY <3>1 DEF CommandOK, CommandInv, PlanningInv, TypeOK, Executable
  <2> QED
    BY <2>2, <2>3 DEF PlanningInv, TypeOK, FilesOK, CommandOK
<1>2. CASE InstallCommand
  BY <1>2, InstallKeeps, OpenSnapshotKeeps, NoSnapshotKeeps, LocalNoopKeeps, LocalCatalogKeeps,
     RefreshFailsKeeps, RefreshSucceedsKeeps, ValidatePlanKeeps, PlanUnavailableKeeps,
     ExecuteItemKeeps, ExecuteFailsKeeps
  DEF InstallCommand
<1>3. CASE Others
  BY <1>3, ConfigSetKeeps, ConfigResetKeeps, ConfigResetScopeKeeps, OtherFilesKeep DEF Others
<1> QED
  BY <1>1, <1>2, <1>3 DEF Next

(***************************************************************************)
(* The theorems.                                                           *)
(***************************************************************************)

\* The inductive invariant holds in every state of every execution of
\* command_install among the other processes.
THEOREM Planning == Spec => []PlanningInv
<1>1. Init => PlanningInv
  BY InitPlanning
<1>2. PlanningInv /\ [Next]_vars => PlanningInv'
  BY NextPlanning
<1> QED
  BY <1>1, <1>2, PTL DEF Spec

\* The variables of the command, and the files, keep their types; the lock is
\* held exactly while a snapshot is open.
THEOREM PlanningTypeCorrect == Spec => []TypeOK
<1>1. PlanningInv => TypeOK
  BY DEF PlanningInv
<1> QED
  BY <1>1, Planning, PTL

\* preferences.txt says of every scope what config did to it last, in the one
\* order that the writer promises (tool_preferences_save).
THEOREM PreferencesHeld == Spec => []PreferencesAreLatest
<1>1. PlanningInv => PreferencesAreLatest
  <2> SUFFICES ASSUME PlanningInv PROVE PreferencesAreLatest
    OBVIOUS
  <2>1. \A s \in Scope : Preferred(prefs.items, s) = wish[s]
    BY ListFacts, PreferredFacts
  <2>2. \A i, j \in DOMAIN prefs.items :
          i < j => ScopeOrder[ScopeOf(prefs.items[i])] < ScopeOrder[ScopeOf(prefs.items[j])]
    BY DEF PlanningInv, PreferencesInv, InScopeOrder
  <2>3. ASSUME NEW i \in DOMAIN prefs.items
        PROVE  ComponentOf[prefs.items[i].tool] = prefs.items[i].component
    <3>1. prefs.items[i] \in Agreed(wish)
      BY ListFacts DEF Range
    <3>2. /\ ScopeOf(prefs.items[i]) \in Scope /\ prefs.items[i].tool # NoTool
          /\ wish[ScopeOf(prefs.items[i])] = prefs.items[i].tool
          /\ ScopeOf(prefs.items[i])[2] = prefs.items[i].component
      BY <3>1, RecordFacts, RegistryAssumption DEF Agreed, ScopeOf
    <3> QED
      BY <3>2, ListFacts
  <2> QED
    BY <2>1, <2>2, <2>3 DEF PreferencesAreLatest, PlanningInv
<1> QED
  BY <1>1, Planning, PTL

\* What command_install executes is what the preferences and the catalog of its
\* last snapshot say, whatever other processes did in the network window.
THEOREM PlanIsCurrent == Spec => []ExecutesCurrentPlan
<1>1. PlanningInv => ExecutesCurrentPlan
  BY DEF PlanningInv, CommandInv, Executable, Pinned, ExecutesCurrentPlan
<1> QED
  BY <1>1, Planning, PTL

\* package_release_compare orders the releases of every catalog by the values
\* of their numerals, whatever their length.
THEOREM ReleasesOrdered == Spec => []ReleaseOrderSound
<1>1. PlanningInv => ReleaseOrderSound
  <2> SUFFICES ASSUME PlanningInv, NEW c \in Catalog,
                      NEW l \in Versions(catalog), NEW r \in Versions(c)
               PROVE  ReleaseCompare(l, r) = IF Before(l, r) THEN -1 ELSE IF l = r THEN 0 ELSE 1
    BY DEF ReleaseOrderSound
  <2>1. catalog \in Catalog
    BY DEF PlanningInv, TypeOK
  <2>2. Concrete(l) /\ Concrete(r)
    BY <2>1, CatalogAssumption DEF Versions
  <2> QED
    BY <2>2, ReleaseOrderIsByValue
<1> QED
  BY <1>1, Planning, PTL

\* A failed refresh ends no request that the catalog satisfied when
\* command_install looked, before the network window.
THEOREM OfflineInstalls == Spec => OfflineStillInstalls
<1>1. PlanningInv /\ [Next]_vars =>
        [(phase = "refresh" /\ phase' = "idle") =>
           \A c \in seen.catalog : ~Available(c, selection, plan)]_vars
  <2> SUFFICES ASSUME PlanningInv, [Next]_vars, phase = "refresh", phase' = "idle"
               PROVE  \A c \in seen.catalog : ~Available(c, selection, plan)
    OBVIOUS
  <2>1. ~HasSymbolic(plan)
    <3>1. phase' # phase /\ lock = "none"
      BY DEF PlanningInv, TypeOK
    <3>2. ~UNCHANGED vars
      BY <3>1 DEF vars, command
    <3>3. ~Others
      BY <3>1 DEF Others, ConfigSet, ConfigReset, ConfigResetScope, OtherRefresh, Damage, Repair, command
    <3>4. RefreshFails
      <4>1. InstallCommand
        BY <3>2, <3>3 DEF Next
      <4>2. ~RefreshSucceeds
        BY DEF RefreshSucceeds, Enter
      <4> QED
        BY <4>1, <4>2 DEF InstallCommand, Install, OpenSnapshot, NoSnapshot, LocalNoop, LocalCatalog,
                          ValidatePlan, PlanUnavailable, ExecuteItem, ExecuteFails
    <3> QED
      BY <3>4 DEF RefreshFails, ExactOnly, Enter
  <2> QED
    BY <2>1 DEF PlanningInv, CommandInv
<1> QED
  BY <1>1, Planning, PTL DEF Spec, OfflineStillInstalls

================================================================================
