---------------------------- MODULE LibraryProofs ----------------------------
(* For integers of any size: sums, differences, products and comparisons   *)
(* are those of arithmetic.  What digits are worth is said of the digits   *)
(* from each place on, and carried from the highest place down.            *)
(*                                                                         *)
(* For any texts and any bytes: what is written is read back, and what is  *)
(* not UTF-8 is noticed, wherever the bytes are cut in halves.  The        *)
(* functions of Utf8 are unfolded from the front for the automaton, and    *)
(* from the end for readings and texts.                                    *)
(*                                                                         *)
(* For any keys and any calls: a map holds what was put and not deleted.   *)
(* Of one that keeps the order of insertion the living cells are known by  *)
(* their list, o, and what it holds is said of these cells.  Of one that   *)
(* keeps no order it is said what each of its three parts has of a key.    *)
EXTENDS Library, FiniteSetTheorems, SequenceTheorems, NaturalsInduction,
        WellFoundedInduction, TLAPS

-----------------------------------------------------------------------------
(* Numbers *)

(* Every set of numbers that is not empty has a least one. *)
LEMMA LeastNumber ==
  ASSUME NEW S \in SUBSET Nat, S # {}
  PROVE  \E n \in S : \A m \in S : n <= m
<1> DEFINE R == {p \in Nat \X Nat : p[1] < p[2]}
<1>1. IsWellFoundedOn(R, Nat)
  BY NatLessThanWellFounded DEF OpToRel
<1> HIDE DEF R
<1>2. PICK n \in S : \A m \in S : ~(<<m, n>> \in R)
  BY <1>1, WFMin
<1>3. \A m \in S : ~(m < n)
  BY <1>2 DEF R
<1> QED
  BY <1>3

(* What holds of 0 and goes from a number to the next one, holds up to n. *)
LEMMA UpTo ==
  ASSUME NEW n \in Nat, NEW S, 0 \in S,
         \A k \in 1..n : k - 1 \in S => k \in S
  PROVE  \A k \in 0..n : k \in S
<1> DEFINE T == {k \in 0..n : k \notin S}
<1> SUFFICES ASSUME T # {} PROVE FALSE
  OBVIOUS
<1>1. T \in SUBSET Nat
  OBVIOUS
<1>2. PICK k \in T : \A m \in T : k <= m
  BY <1>1, LeastNumber
<1>3. k \in 1..n /\ k - 1 \in 0..n /\ k - 1 \notin T
  BY <1>2
<1> QED
  BY <1>3

(* What goes to a number from all that are less, holds of every number. *)
LEMMA FromAllLess ==
  ASSUME NEW S, \A k \in Nat : (\A m \in Nat : m < k => m \in S) => k \in S
  PROVE  \A k \in Nat : k \in S
<1> DEFINE T == {k \in Nat : k \notin S}
<1> SUFFICES ASSUME T # {} PROVE FALSE
  OBVIOUS
<1>1. T \in SUBSET Nat
  OBVIOUS
<1>2. PICK k \in T : \A m \in T : k <= m
  BY <1>1, LeastNumber
<1>3. \A m \in Nat : m < k => m \in S
  BY <1>2
<1> QED
  BY <1>2, <1>3

(* Steps G from r can be taken. *)
CanStep(n, X, r, G) == \E f \in [0..n -> X] : f[0] = r /\ \A i \in 1..n : f[i] = G[i][f[i - 1]]

(* Steps that each follow from the one before can be taken. *)
LEMMA StepsAreTaken ==
  ASSUME NEW n \in Nat, NEW X, NEW r \in X, NEW G \in [1..n -> [X -> X]]
  PROVE  CanStep(n, X, r, G)
<1> DEFINE Takes(f, k) == f \in [0..k -> X] /\ f[0] = r /\ \A i \in 1..k : f[i] = G[i][f[i - 1]]
           S == {k \in 0..n : \E f : Takes(f, k)}
<1>1. 0 \in S
  <2>1. Takes([i \in 0..0 |-> r], 0)
    OBVIOUS
  <2> HIDE DEF Takes
  <2> QED
    BY <2>1
<1>2. ASSUME NEW k \in 1..n, k - 1 \in S PROVE k \in S
  <2>1. PICK f : Takes(f, k - 1)
    BY <1>2
  <2> DEFINE g == [i \in 0..k |-> IF i = k THEN G[k][f[k - 1]] ELSE f[i]]
  <2>2. f[k - 1] \in X
    BY <2>1
  <2>3. G[k][f[k - 1]] \in X
    BY <2>2
  <2>4. g \in [0..k -> X]
    BY <2>1, <2>3
  <2>5. \A i \in 1..k : g[i] = G[i][g[i - 1]]
    BY <2>1
  <2>6. g[0] = r
    BY <2>1
  <2> HIDE DEF g
  <2>7. Takes(g, k)
    BY <2>4, <2>5, <2>6
  <2> QED
    BY <2>7
<1> HIDE DEF S
<1>3. \A k \in 0..n : k \in S
  BY <1>1, <1>2, UpTo
<1>4. n \in S
  BY <1>3
<1>5. PICK f : Takes(f, n)
  BY <1>4 DEF S
<1> QED
  BY <1>5, Zenon DEF CanStep

-----------------------------------------------------------------------------
(* Integers *)

(* Products with a base. *)
LEMMA Distributes ==
  ASSUME NEW B \in Int, NEW x \in Int, NEW y \in Int, NEW z \in Int
  PROVE  B * (x + y + z) = B * x + B * y + B * z
OBVIOUS

(* Division by the base, and its remainder. *)
LEMMA DivisionIs ==
  ASSUME NEW n \in Nat
  PROVE  /\ n \div Base \in Nat /\ n % Base \in 0..(Base - 1)
         /\ n = (n % Base) + Base * (n \div Base)
BY DigitsAssumption

(* What holds at n, and at a place if at the one above, holds everywhere. *)
LEMMA Downwards ==
  ASSUME NEW n \in Nat, NEW S, n \in S,
         \A i \in 0..(n - 1) : i + 1 \in S => i \in S
  PROVE  \A i \in 0..n : i \in S
<1> DEFINE T == {k \in 0..n : n - k \in S}
<1>1. 0 \in T
  OBVIOUS
<1>2. ASSUME NEW k \in 1..n, k - 1 \in T PROVE k \in T
  <2> DEFINE i == n - k
  <2>1. i \in 0..(n - 1) /\ i + 1 = n - (k - 1) /\ i + 1 \in S
    BY <1>2
  <2> HIDE DEF i
  <2>2. i \in S
    BY <2>1
  <2> QED
    BY <2>2 DEF i
<1> HIDE DEF T
<1>3. \A k \in 0..n : k \in T
  BY <1>1, <1>2, UpTo
<1>4. ASSUME NEW i \in 0..n PROVE i \in S
  <2>1. n - i \in 0..n /\ n - (n - i) = i
    OBVIOUS
  <2>2. n - i \in T
    BY <1>3, <2>1
  <2> QED
    BY <2>1, <2>2 DEF T
<1> QED
  BY <1>4

(* The values v of digits d, of those from each place on. *)
AreValues(v, d, n) ==
  /\ d \in [0..(n - 1) -> Int] /\ v \in [0..n -> Int] /\ v[n] = 0
  /\ \A i \in 0..(n - 1) : v[i] = d[i] + Base * v[i + 1]

(* The digits r and the carries c come of adding the digits p and q. *)
AreCarried(c, p, q, r, n) ==
  /\ c \in [0..n -> Int] /\ c[n] = 0
  /\ \A i \in 0..(n - 1) : p[i] + q[i] + c[i] = r[i] + Base * c[i + 1]

(* Any digits have values. *)
LEMMA ValuesExist ==
  ASSUME NEW n \in Nat, NEW d \in [0..(n - 1) -> Int]
  PROVE  \E v : AreValues(v, d, n)
<1> DEFINE G == [k \in 1..n |-> [x \in Int |-> d[n - k] + Base * x]]
<1>1. G \in [1..n -> [Int -> Int]]
  BY DigitsAssumption
<1>2. PICK f \in [0..n -> Int] : f[0] = 0 /\ \A k \in 1..n : f[k] = G[k][f[k - 1]]
  <2>1. 0 \in Int /\ n \in Nat
    OBVIOUS
  <2> HIDE DEF G
  <2>2. CanStep(n, Int, 0, G)
    BY <2>1, <1>1, StepsAreTaken
  <2> QED
    BY <2>2 DEF CanStep
<1> DEFINE v == [i \in 0..n |-> f[n - i]]
<1>3. v \in [0..n -> Int] /\ v[n] = 0
  BY <1>2
<1>4. ASSUME NEW i \in 0..(n - 1) PROVE v[i] = d[i] + Base * v[i + 1]
  <2> DEFINE k == n - i
  <2>1. k \in 1..n /\ v[i] = f[k] /\ n - (i + 1) = k - 1 /\ v[i + 1] = f[k - 1] /\ n - k = i
    OBVIOUS
  <2>2. f[k - 1] \in Int
    BY <2>1, <1>2
  <2> HIDE DEF k, v
  <2>3. G[k][f[k - 1]] = d[n - k] + Base * f[k - 1]
    BY <2>1, <2>2 DEF AreValues
  <2> HIDE DEF G
  <2> QED
    BY <1>2, <2>1, <2>3
<1> QED
  BY <1>3, <1>4 DEF AreValues

(* Digits that are added with carries, none of which is left. *)
LEMMA ValuesAdd ==
  ASSUME NEW n \in Nat, NEW p, NEW q, NEW r, NEW c, AreCarried(c, p, q, r, n),
         NEW u, NEW v, NEW w, AreValues(u, p, n), AreValues(v, q, n), AreValues(w, r, n)
  PROVE  \A i \in 0..n : u[i] + v[i] + c[i] = w[i]
<1> DEFINE S == {i \in 0..n : u[i] + v[i] + c[i] = w[i]}
<1>1. n \in S
  BY DEF AreValues, AreCarried
<1>2. ASSUME NEW i \in 0..(n - 1), i + 1 \in S PROVE i \in S
  <2> DEFINE j == i + 1
  <2>1. /\ i \in 0..n /\ j \in 0..n /\ u[j] + v[j] + c[j] = w[j]
    BY <1>2
  <2>2. /\ u[i] = p[i] + Base * u[j] /\ v[i] = q[i] + Base * v[j] /\ w[i] = r[i] + Base * w[j]
        /\ p[i] + q[i] + c[i] = r[i] + Base * c[j] /\ c \in [0..n -> Int]
    BY DEF AreValues, AreCarried
  <2> HIDE DEF j
  <2>3. u[j] \in Int /\ v[j] \in Int /\ w[j] \in Int /\ c[j] \in Int /\ Base \in Int
    BY <2>1, <2>2, DigitsAssumption DEF AreValues
  <2>4. p[i] \in Int /\ q[i] \in Int /\ r[i] \in Int /\ c[i] \in Int
    BY <2>1, <2>2 DEF AreValues
  <2>5. Base * (u[j] + v[j] + c[j]) = Base * u[j] + Base * v[j] + Base * c[j]
    <3> DEFINE uj == u[j]
               vj == v[j]
               cj == c[j]
    <3>1. uj \in Int /\ vj \in Int /\ cj \in Int /\ Base \in Int
      BY <2>3
    <3> HIDE DEF uj, vj, cj
    <3>2. Base * (uj + vj + cj) = Base * uj + Base * vj + Base * cj
      BY <3>1, Distributes
    <3> QED
      BY <3>2 DEF uj, vj, cj
  <2>6. Base * w[j] \in Int /\ Base * u[j] \in Int /\ Base * v[j] \in Int /\ Base * c[j] \in Int
    <3>1. \A x, y \in Int : x * y \in Int
      OBVIOUS
    <3> QED
      BY <2>3, <3>1
  <2>7. u[i] + v[i] + c[i] = w[i]
    <3> DEFINE bu == Base * u[j]
               bv == Base * v[j]
               bw == Base * w[j]
               bc == Base * c[j]
    <3>1. bw = bu + bv + bc
      BY <2>1, <2>5
    <3>2. /\ u[i] = p[i] + bu /\ v[i] = q[i] + bv /\ w[i] = r[i] + bw
          /\ p[i] + q[i] + c[i] = r[i] + bc
      BY <2>2
    <3>3. bu \in Int /\ bv \in Int /\ bw \in Int /\ bc \in Int
      BY <2>6
    <3> DEFINE pi == p[i]
               qi == q[i]
               ri == r[i]
               ci == c[i]
    <3>4. pi \in Int /\ qi \in Int /\ ri \in Int /\ ci \in Int
      BY <2>4
    <3>5. /\ u[i] = pi + bu /\ v[i] = qi + bv /\ w[i] = ri + bw /\ pi + qi + ci = ri + bc
          /\ c[i] = ci
      BY <3>2
    <3> HIDE DEF bu, bv, bw, bc, pi, qi, ri, ci
    <3>6. (pi + bu) + (qi + bv) + ci = ri + bw
      BY <3>1, <3>3, <3>4, <3>5
    <3> QED
      BY <3>5, <3>6
  <2> QED
    BY <2>7, <2>1
<1> HIDE DEF S
<1>3. \A i \in 0..n : i \in S
  BY <1>1, <1>2, Downwards
<1> QED
  BY <1>3 DEF S

(* Multiplied digits have the multiplied values.                           *)
LEMMA ValuesMultiply ==
  ASSUME NEW n \in Nat, NEW d, NEW v, AreValues(v, d, n), NEW k \in Int
  PROVE  AreValues([i \in 0..n |-> k * v[i]], [i \in 0..(n - 1) |-> k * d[i]], n)
<1>1. d \in [0..(n - 1) -> Int] /\ v \in [0..n -> Int] /\ v[n] = 0 /\ \A i \in 0..(n - 1) : v[i] = d[i] + Base * v[i + 1]
  BY DEF AreValues
<1>2. ASSUME NEW i \in 0..(n - 1) PROVE k * v[i] = k * d[i] + Base * (k * v[i + 1])
  <2>1. d[i] \in Int /\ v[i + 1] \in Int /\ Base \in Int
    BY <1>1, DigitsAssumption
  <2>2. \A x, y, b \in Int : k * (x + b * y) = k * x + b * (k * y)
    OBVIOUS
  <2> QED
    BY <1>1, <2>1, <2>2
<1>3. \A i \in 0..n : k * v[i] \in Int
  BY <1>1
<1>4. k * v[n] = 0
  BY <1>1
<1> QED
  BY <1>2, <1>3, <1>4 DEF AreValues

(* Zero has no sign. *)
LEMMA NegatedZero ==
  ASSUME NEW x \in Int
  PROVE  x = 0 => -x = 0
<1> DEFINE y == -x
<1>1. x + y = 0 /\ y \in Int
  OBVIOUS
<1> HIDE DEF y
<1>2. x = 0 => y = 0
  BY <1>1
<1> QED
  BY <1>2 DEF y

(* Negated digits have the negated values.                                 *)
LEMMA ValuesNegate ==
  ASSUME NEW n \in Nat, NEW d, NEW v, AreValues(v, d, n)
  PROVE  AreValues([i \in 0..n |-> -v[i]], [i \in 0..(n - 1) |-> -d[i]], n)
<1>1. d \in [0..(n - 1) -> Int] /\ v \in [0..n -> Int] /\ v[n] = 0 /\ \A i \in 0..(n - 1) : v[i] = d[i] + Base * v[i + 1]
  BY DEF AreValues
<1>2. ASSUME NEW i \in 0..(n - 1) PROVE -v[i] = -d[i] + Base * (-v[i + 1])
  <2>1. d[i] \in Int /\ v[i + 1] \in Int /\ Base \in Int
    BY <1>1, DigitsAssumption
  <2>2. \A x, y, b \in Int : -(x + b * y) = -x + b * (-y)
    OBVIOUS
  <2> QED
    BY <1>1, <2>1, <2>2
<1>3. \A i \in 0..n : -v[i] \in Int
  BY <1>1
<1>4. -v[n] = 0
  <2>1. v[n] \in Int /\ v[n] = 0
    BY <1>1
  <2> QED
    BY <2>1, NegatedZero
<1>5. \A i \in 0..(n - 1) : -d[i] \in Int
  <2>1. \A i \in 0..(n - 1) : d[i] \in Int
    BY <1>1
  <2> QED
    BY <2>1
<1> QED
  BY <1>2, <1>3, <1>4, <1>5 DEF AreValues

(* From a place on where the value is positive, it is positive below too,  *)
(* if no digit below takes a whole place away.                             *)
LEMMA PositiveBelow ==
  ASSUME NEW n \in Nat, NEW d, NEW v, AreValues(v, d, n),
         NEW j \in 0..n, v[j] > 0, \A i \in 0..(j - 1) : d[i] > -Base
  PROVE  \A i \in 0..j : v[i] > 0
<1> DEFINE S == {i \in 0..j : v[i] > 0}
<1>1. j \in S
  OBVIOUS
<1>2. ASSUME NEW i \in 0..(j - 1), i + 1 \in S PROVE i \in S
  <2>1. v[i] = d[i] + Base * v[i + 1] /\ v[i + 1] \in Int /\ v[i + 1] > 0 /\ d[i] \in Int
    BY <1>2 DEF AreValues
  <2>2. \A x \in Int, b \in Nat : x > 0 => b * x >= b
    OBVIOUS
  <2>3. Base * v[i + 1] >= Base
    BY <2>1, <2>2, DigitsAssumption
  <2>4. d[i] > -Base /\ Base \in Nat /\ Base * v[i + 1] \in Int
    BY <2>1, DigitsAssumption
  <2>5. v[i] > 0
    BY <2>1, <2>3, <2>4
  <2> QED
    BY <2>5
<1> HIDE DEF S
<1>3. \A i \in 0..j : i \in S
  BY <1>1, <1>2, Downwards
<1> QED
  BY <1>3 DEF S

(* Digits that are not negative have such values. *)
LEMMA ValuesNotNegative ==
  ASSUME NEW n \in Nat, NEW d \in [0..(n - 1) -> Nat], NEW v, AreValues(v, d, n)
  PROVE  \A i \in 0..n : v[i] \in Nat
<1> DEFINE S == {i \in 0..n : v[i] \in Nat}
<1>1. n \in S
  BY DEF AreValues
<1>2. ASSUME NEW i \in 0..(n - 1), i + 1 \in S PROVE i \in S
  <2>1. v[i] = d[i] + Base * v[i + 1] /\ v[i + 1] \in Nat /\ d[i] \in Nat
    BY <1>2 DEF AreValues
  <2>2. \A x \in Nat, b \in Nat : b * x \in Nat
    OBVIOUS
  <2>3. Base * v[i + 1] \in Nat
    BY <2>1, <2>2, DigitsAssumption
  <2> QED
    BY <2>1, <2>3
<1> HIDE DEF S
<1>3. \A i \in 0..n : i \in S
  BY <1>1, <1>2, Downwards
<1> QED
  BY <1>3 DEF S

(* The n digits d are the m digits e and zeros. *)
AreWithZeros(d, n, e, m) ==
  /\ \A i \in m..(n - 1) : d[i] = 0
  /\ \A i \in 0..(m - 1) : e[i] = d[i]

(* Zeros above do not count.                                               *)
LEMMA ValuesWithoutZeros ==
  ASSUME NEW n \in Nat, NEW m \in 0..n, NEW d, NEW e, AreWithZeros(d, n, e, m),
         NEW v, AreValues(v, d, n), NEW w, AreValues(w, e, m)
  PROVE  (\A i \in m..n : v[i] = 0) /\ \A i \in 0..m : v[i] = w[i]
<1> USE DEF AreValues, AreWithZeros
<1> DEFINE S == {i \in 0..n : IF i >= m THEN v[i] = 0 ELSE v[i] = w[i]}
<1>1. n \in S
  OBVIOUS
<1>2. ASSUME NEW i \in 0..(n - 1), i + 1 \in S PROVE i \in S
  <2>1. v[i] = d[i] + Base * v[i + 1]
    OBVIOUS
  <2>2. CASE i >= m
    <3>1. v[i + 1] = 0 /\ d[i] = 0
      BY <2>2, <1>2
    <3>2. Base * 0 = 0
      BY DigitsAssumption
    <3> QED
      BY <2>1, <2>2, <3>1, <3>2
  <2>3. CASE i < m
    <3>1. i \in 0..(m - 1) /\ d[i] = e[i] /\ w[i] = e[i] + Base * w[i + 1]
      BY <2>3, SMTT(30)
    <3>2. v[i + 1] = w[i + 1]
      BY <1>2, <2>3
    <3> QED
      BY <2>1, <2>3, <3>1, <3>2
  <2> QED
    BY <2>2, <2>3
<1> HIDE DEF S
<1>3. \A i \in 0..n : i \in S
  BY <1>1, <1>2, Downwards
<1>4. w[m] = 0
  OBVIOUS
<1>5. \A i \in 0..n : IF i >= m THEN v[i] = 0 ELSE v[i] = w[i]
  BY <1>3 DEF S
<1> QED
  BY <1>4, <1>5

(* A function on 0..n - 1 has n members. *)
LEMMA SizeIs ==
  ASSUME NEW n \in Nat, NEW a, DOMAIN a = 0..(n - 1)
  PROVE  Size(a) = n
<1>1. CASE n = 0
  <2>1. DOMAIN a = {}
    BY <1>1
  <2> QED
    BY <2>1, <1>1 DEF Size
<1>2. CASE n # 0
  <2>1. n - 1 \in DOMAIN a /\ DOMAIN a # {}
    BY <1>2
  <2>2. n - 1 + 1 \notin DOMAIN a
    OBVIOUS
  <2> DEFINE k == CHOOSE i \in DOMAIN a : i + 1 \notin DOMAIN a
  <2>3. k \in DOMAIN a /\ k + 1 \notin DOMAIN a
    BY <2>1, <2>2
  <2>4. Size(a) = 1 + k
    BY <2>1 DEF Size
  <2> HIDE DEF k
  <2> QED
    BY <2>3, <2>4
<1> QED
  BY <1>1, <1>2

(* Digits make a magnitude. *)
LEMMA MagnitudeMade ==
  ASSUME NEW n \in Nat, NEW a \in [0..(n - 1) -> 0..(Base - 1)]
  PROVE  a \in Magnitudes /\ Size(a) = n
BY SizeIs DEF Magnitudes

(* A magnitude is made of digits, and zeros are read above them. *)
LEMMA MagnitudeIs ==
  ASSUME NEW a \in Magnitudes
  PROVE  /\ Size(a) \in Nat /\ a \in [0..(Size(a) - 1) -> 0..(Base - 1)]
         /\ a \in [0..(Size(a) - 1) -> Nat] /\ a \in [0..(Size(a) - 1) -> Int]
         /\ DOMAIN a = 0..(Size(a) - 1)
         /\ \A i \in Int : At(a, i) \in 0..(Base - 1) /\ At(a, i) \in Nat
         /\ \A i \in 0..(Size(a) - 1) : At(a, i) = a[i]
         /\ \A i \in Int : ~(i \in 0..(Size(a) - 1)) => At(a, i) = 0
<1>1. PICK n \in Nat : a \in [0..(n - 1) -> 0..(Base - 1)]
  BY DEF Magnitudes
<1>2. Size(a) = n
  BY <1>1, SizeIs
<1>3. \A i \in 0..(n - 1) : a[i] \in 0..(Base - 1) /\ a[i] \in Nat
  BY <1>1, DigitsAssumption
<1>4. 0 \in 0..(Base - 1)
  BY DigitsAssumption
<1>5. DOMAIN a = 0..(n - 1)
  BY <1>1
<1>6. \A i \in Int : At(a, i) \in 0..(Base - 1) /\ At(a, i) \in Nat
  BY <1>3, <1>4, <1>5 DEF At
<1>7. a \in [0..(n - 1) -> Nat] /\ a \in [0..(n - 1) -> Int]
  BY <1>1, <1>3
<1>8. /\ \A i \in 0..(n - 1) : At(a, i) = a[i]
      /\ \A i \in Int : ~(i \in 0..(n - 1)) => At(a, i) = 0
  BY <1>5 DEF At
<1> QED
  BY <1>1, <1>2, <1>5, <1>6, <1>7, <1>8

(* Digits have only one value. *)
LEMMA ValuesSame ==
  ASSUME NEW n \in Nat, NEW d, NEW v, AreValues(v, d, n), NEW w, AreValues(w, d, n)
  PROVE  \A i \in 0..n : v[i] = w[i]
<1>1. n \in 0..n /\ AreWithZeros(d, n, d, n)
  BY DEF AreWithZeros
<1> QED
  BY <1>1, ValuesWithoutZeros

(* ValueOf is the value of all digits. *)
LEMMA ValueOfIs ==
  ASSUME NEW a \in Magnitudes
  PROVE  \E v : AreValues(v, a, Size(a)) /\ v[0] = ValueOf(a) /\ ValueOf(a) \in Nat
<1> DEFINE n == Size(a)
           Took(f) == f = [i \in 0..n |-> IF i = n THEN 0 ELSE a[i] + Base * f[i + 1]]
           g == CHOOSE f : Took(f)
<1>1. n \in Nat /\ a \in [0..(n - 1) -> Nat] /\ a \in [0..(n - 1) -> Int]
  BY MagnitudeIs
<1>2. PICK v : AreValues(v, a, n)
  BY <1>1, ValuesExist
<1>3. ValueOf(a) = g[0]
  BY DEF ValueOf
<1> HIDE DEF n
<1>4. Took(v)
  BY <1>1, <1>2 DEF AreValues
<1>5. Took(g)
  <2> HIDE DEF Took
  <2> QED
    BY <1>4
<1> HIDE DEF g
<1> DEFINE S == {i \in 0..n : g[i] = v[i]}
<1>6. n \in S
  BY <1>1, <1>5, <1>2 DEF AreValues
<1>7. ASSUME NEW i \in 0..(n - 1), i + 1 \in S PROVE i \in S
  <2>1. g[i] = a[i] + Base * g[i + 1] /\ v[i] = a[i] + Base * v[i + 1]
    BY <1>1, <1>5, <1>2 DEF AreValues
  <2>2. g[i + 1] = v[i + 1]
    BY <1>7
  <2>3. i \in 0..n
    BY <1>1
  <2> QED
    BY <2>1, <2>2, <2>3
<1>8. \A i \in 0..n : i \in S
  <2> HIDE DEF S
  <2> QED
    BY <1>1, <1>6, <1>7, Downwards
<1>9. g[0] = v[0] /\ 0 \in 0..n
  <2>1. 0 \in 0..n
    BY <1>1
  <2> QED
    BY <2>1, <1>8
<1>10. v[0] \in Nat
  BY <1>1, <1>2, <1>9, ValuesNotNegative
<1> QED
  BY <1>2, <1>3, <1>9, <1>10 DEF n

(* The digits d are those of a in n places. *)
ArePlaces(d, a, n) == \A i \in 0..(n - 1) : d[i] = At(a, i)

(* So is the value of digits that are those of a, and zeros above. *)
LEMMA PaddedValue ==
  ASSUME NEW a \in Magnitudes, NEW n \in Nat, n >= Size(a),
         NEW d, ArePlaces(d, a, n),
         NEW v, AreValues(v, d, n)
  PROVE  v[0] = ValueOf(a)
<1> DEFINE m == Size(a)
<1>1. /\ m \in Nat /\ a \in [0..(m - 1) -> Int]
      /\ \A i \in 0..(m - 1) : At(a, i) = a[i]
      /\ \A i \in Int : ~(i \in 0..(m - 1)) => At(a, i) = 0
  BY MagnitudeIs
<1>2. PICK w : AreValues(w, a, m) /\ w[0] = ValueOf(a)
  BY ValueOfIs
<1> HIDE DEF m
<1>3. m \in 0..n
  BY <1>1 DEF m
<1>4. \A i \in m..(n - 1) : d[i] = 0
  <2> TAKE i \in m..(n - 1)
  <2>1. i \in 0..(n - 1) /\ ~(i \in 0..(m - 1)) /\ i \in Int
    BY <1>1
  <2> QED
    BY <2>1, <1>1 DEF ArePlaces
<1>5. \A i \in 0..(m - 1) : a[i] = d[i]
  BY <1>1, <1>3 DEF ArePlaces
<1>6. AreWithZeros(d, n, a, m)
  BY <1>1, <1>4, <1>5 DEF AreWithZeros
<1>7. \A i \in 0..m : v[i] = w[i]
  BY <1>2, <1>3, <1>6, ValuesWithoutZeros
<1>8. 0 \in 0..m
  BY <1>1
<1> QED
  BY <1>2, <1>7, <1>8

(* The carries c of the numbers x. *)
AreCarries(c, x, n) ==
  /\ x \in [0..(n - 1) -> Nat] /\ c \in [0..n -> Nat] /\ c[0] = 0
  /\ \A i \in 0..(n - 1) : /\ x[i] + c[i] = Carried(x)[i] + Base * c[i + 1]
                           /\ c[i + 1] = (x[i] + c[i]) \div Base
                           /\ Carried(x)[i] = (x[i] + c[i]) % Base

(* Carried leaves digits, and there are such carries. *)
LEMMA CarriedIs ==
  ASSUME NEW n \in Nat, NEW x \in [0..(n - 1) -> Nat]
  PROVE  /\ Carried(x) \in [0..(n - 1) -> 0..(Base - 1)]
         /\ \E c : AreCarries(c, x, n)
<1> DEFINE Took(f) == f = [i \in 0..n |-> IF i = 0 THEN 0 ELSE (x[i - 1] + f[i - 1]) \div Base]
           g == CHOOSE f : Took(f)
           G == [i \in 1..n |-> [y \in Nat |-> (x[i - 1] + y) \div Base]]
<1>1. Size(x) = n /\ DOMAIN x = 0..(n - 1)
  BY SizeIs
<1>2. Carried(x) = [i \in 0..(n - 1) |-> (x[i] + g[i]) % Base]
  BY <1>1 DEF Carried
<1>3. \A i \in 0..(n - 1), y \in Nat : (x[i] + y) \div Base \in Nat
  <2>1. \A i \in 0..(n - 1), y \in Nat : x[i] + y \in Nat
    OBVIOUS
  <2> QED
    BY <2>1, DivisionIs
<1>4. G \in [1..n -> [Nat -> Nat]]
  <2>1. \A i \in 1..n : i - 1 \in 0..(n - 1)
    OBVIOUS
  <2> QED
    BY <1>3, <2>1
<1>5. PICK f \in [0..n -> Nat] : f[0] = 0 /\ \A i \in 1..n : f[i] = G[i][f[i - 1]]
  <2>1. 0 \in Nat /\ n \in Nat
    OBVIOUS
  <2> HIDE DEF G
  <2>2. CanStep(n, Nat, 0, G)
    BY <2>1, <1>4, StepsAreTaken
  <2> QED
    BY <2>2 DEF CanStep
<1>6. \A i \in 1..n : f[i] = (x[i - 1] + f[i - 1]) \div Base
  <2> TAKE i \in 1..n
  <2>1. f[i - 1] \in Nat
    BY <1>5
  <2>2. G[i][f[i - 1]] = (x[i - 1] + f[i - 1]) \div Base
    BY <2>1
  <2> HIDE DEF G
  <2> QED
    BY <1>5, <2>2
<1> HIDE DEF G
<1>7. Took(f)
  BY <1>5, <1>6
<1>8. Took(g)
  <2> HIDE DEF Took
  <2> QED
    BY <1>7
<1> HIDE DEF g
<1>9. \A i \in 0..n : g[i] = f[i]
  <2> DEFINE S == {i \in 0..n : g[i] = f[i]}
  <2>1. 0 \in S
    BY <1>5, <1>8
  <2>2. ASSUME NEW k \in 1..n, k - 1 \in S PROVE k \in S
    BY <2>2, <1>6, <1>8
  <2> HIDE DEF S
  <2>3. \A i \in 0..n : i \in S
    BY <2>1, <2>2, UpTo
  <2> QED
    BY <2>3 DEF S
<1>10. \A i \in 0..(n - 1) : Carried(x)[i] = (x[i] + f[i]) % Base
  BY <1>2, <1>9
<1>11. \A i \in 0..(n - 1) : f[i + 1] = (x[i] + f[i]) \div Base
  <2> TAKE i \in 0..(n - 1)
  <2>1. i + 1 \in 1..n /\ (i + 1) - 1 = i
    OBVIOUS
  <2> QED
    BY <2>1, <1>6
<1>12. ASSUME NEW i \in 0..(n - 1)
       PROVE  x[i] + f[i] = Carried(x)[i] + Base * f[i + 1] /\ Carried(x)[i] \in 0..(Base - 1)
  <2> DEFINE s == x[i] + f[i]
  <2>1. s \in Nat
    BY <1>5
  <2>2. Carried(x)[i] = s % Base /\ f[i + 1] = s \div Base
    BY <1>10, <1>11
  <2> HIDE DEF s
  <2>3. s = (s % Base) + Base * (s \div Base) /\ s % Base \in 0..(Base - 1)
    BY <2>1, DivisionIs
  <2>4. s = Carried(x)[i] + Base * f[i + 1] /\ Carried(x)[i] \in 0..(Base - 1)
    BY <2>2, <2>3
  <2> QED
    BY <2>4 DEF s
<1>13. Carried(x) \in [0..(n - 1) -> 0..(Base - 1)]
  BY <1>2, <1>12
<1>14. AreCarries(f, x, n)
  BY <1>5, <1>10, <1>11, <1>12 DEF AreCarries
<1> QED
  BY <1>13, <1>14

(* The digits r are the sums of the digits p and q. *)
AreSums(r, p, q, n) == r = [i \in 0..(n - 1) |-> p[i] + q[i]]

(* Added digits have the added values. *)
LEMMA ValuesOfSums ==
  ASSUME NEW n \in Nat, NEW p, NEW q, NEW r, AreSums(r, p, q, n),
         NEW u, NEW v, NEW w, AreValues(u, p, n), AreValues(v, q, n), AreValues(w, r, n)
  PROVE  \A i \in 0..n : w[i] = u[i] + v[i]
<1> DEFINE c == [i \in 0..n |-> 0]
<1>1. \A i \in 0..(n - 1) : p[i] \in Int /\ q[i] \in Int /\ r[i] = p[i] + q[i]
  BY DEF AreValues, AreSums
<1>2. AreCarried(c, p, q, r, n)
  <2>1. Base * 0 = 0
    BY DigitsAssumption
  <2>2. \A i \in 0..(n - 1) : p[i] + q[i] + c[i] = r[i] + Base * c[i + 1]
    BY <2>1, <1>1
  <2> QED
    BY <2>2 DEF AreCarried
<1> HIDE DEF c
<1>3. \A i \in 0..n : u[i] + v[i] + c[i] = w[i]
  BY <1>1, <1>2, ValuesAdd
<1> QED
  BY <1>3 DEF c, AreValues

(* Carrying changes no value, if no carry is left. *)
LEMMA ValuesOfCarried ==
  ASSUME NEW n \in Nat, NEW x, NEW c, AreCarries(c, x, n), c[n] = 0,
         NEW v, NEW w, AreValues(v, x, n), AreValues(w, Carried(x), n)
  PROVE  \A i \in 0..n : v[i] + c[i] = w[i]
<1> DEFINE z == [i \in 0..(n - 1) |-> 0]
           y == [i \in 0..n |-> 0]
           r == Carried(x)
<1>1. z \in [0..(n - 1) -> Int] /\ x \in [0..(n - 1) -> Int] /\ x \in [0..(n - 1) -> Nat]
  BY DEF AreCarries
<1>2. AreValues(y, z, n)
  <2>1. Base * 0 = 0
    BY DigitsAssumption
  <2> QED
    BY <2>1 DEF AreValues
<1>3. r \in [0..(n - 1) -> Int]
  <2>1. Carried(x) \in [0..(n - 1) -> 0..(Base - 1)]
    BY <1>1, CarriedIs
  <2> QED
    BY <2>1, DigitsAssumption
<1>4. AreCarried(c, x, z, r, n)
  <2>1. c \in [0..n -> Int] /\ \A i \in 0..(n - 1) : x[i] + c[i] = r[i] + Base * c[i + 1]
    BY DEF AreCarries
  <2>2. \A i \in 0..(n - 1) : x[i] + z[i] = x[i] /\ z[i] = 0
    BY <1>1
  <2> HIDE DEF z, r
  <2> QED
    BY <2>1, <2>2 DEF AreCarried
<1> HIDE DEF z, y, r
<1>5. AreValues(w, r, n)
  BY DEF r
<1>6. \A i \in 0..n : v[i] + y[i] + c[i] = w[i]
  BY <1>1, <1>2, <1>3, <1>4, <1>5, ValuesAdd
<1> QED
  BY <1>6 DEF y, AreValues, AreCarries

(* A digit and a carry of at most 1 carry at most 1. *)
LEMMA CarryOfTwo ==
  ASSUME NEW x \in 0..(Base - 1), NEW y \in 0..(Base - 1), NEW c \in 0..1
  PROVE  (x + y + c) \div Base \in 0..1
BY DigitsAssumption

(* The digits of a sum. *)
LEMMA AddDigitsIs ==
  ASSUME NEW a \in Magnitudes, NEW b \in Magnitudes, Size(a) >= Size(b)
  PROVE  AddDigits(a, b) \in Magnitudes /\ ValueOf(AddDigits(a, b)) = ValueOf(a) + ValueOf(b)
<1> DEFINE m == Size(a)
           n == m + 1
           p == [i \in 0..(n - 1) |-> At(a, i)]
           q == [i \in 0..(n - 1) |-> At(b, i)]
           x == [i \in 0..(n - 1) |-> p[i] + q[i]]
           r == Carried(x)
<1>1. /\ m \in Nat /\ Size(b) \in Nat
      /\ \A i \in Int : At(a, i) \in 0..(Base - 1) /\ At(b, i) \in 0..(Base - 1)
      /\ \A i \in Int : ~(i \in 0..(m - 1)) => At(a, i) = 0 /\ At(b, i) = 0
  <2>1. /\ m \in Nat /\ Size(b) \in Nat
        /\ \A i \in Int : At(a, i) \in 0..(Base - 1) /\ At(b, i) \in 0..(Base - 1)
        /\ \A i \in Int : ~(i \in 0..(m - 1)) => At(a, i) = 0
        /\ \A i \in Int : ~(i \in 0..(Size(b) - 1)) => At(b, i) = 0
    BY MagnitudeIs
  <2> HIDE DEF m
  <2>2. \A i \in Int : ~(i \in 0..(m - 1)) => ~(i \in 0..(Size(b) - 1))
    BY <2>1 DEF m
  <2> QED
    BY <2>1, <2>2
<1>2. AddDigits(a, b) = r
  <2>1. x = [i \in 0..m |-> At(a, i) + At(b, i)]
    BY <1>1
  <2> QED
    BY <2>1 DEF AddDigits
<1> HIDE DEF m
<1>3. n \in Nat /\ n >= m /\ n - 1 = m /\ m \in 0..(n - 1) /\ \A i \in 0..(n - 1) : i \in Int
  BY <1>1
<1>4. /\ p \in [0..(n - 1) -> Int] /\ q \in [0..(n - 1) -> Int]
      /\ \A i \in 0..(n - 1) : p[i] \in 0..(Base - 1) /\ q[i] \in 0..(Base - 1)
      /\ \A i \in 0..(n - 1) : p[i] = At(a, i) /\ q[i] = At(b, i)
  BY <1>1
<1>5. x \in [0..(n - 1) -> Nat] /\ x \in [0..(n - 1) -> Int]
      /\ \A i \in 0..(n - 1) : x[i] = p[i] + q[i]
  BY <1>4, DigitsAssumption
<1>6. p[m] = 0 /\ q[m] = 0
  <2>1. ~(m \in 0..(m - 1)) /\ m \in Int
    BY <1>1
  <2> QED
    BY <2>1, <1>1, <1>3
<1> HIDE DEF n, p, q
<1>7. AreSums(x, p, q, n)
  BY DEF AreSums
<1> HIDE DEF x
<1>8. r \in [0..(n - 1) -> 0..(Base - 1)]
  BY <1>3, <1>5, CarriedIs
<1>9. PICK c : AreCarries(c, x, n)
  BY <1>3, <1>5, CarriedIs
<1>10. r \in Magnitudes /\ Size(r) = n
  BY <1>3, <1>8, MagnitudeMade
<1>11. \A i \in 0..n : c[i] \in 0..1
  <2> DEFINE S == {i \in 0..n : c[i] \in 0..1}
  <2>1. 0 \in S
    BY <1>3, <1>9 DEF AreCarries
  <2>2. ASSUME NEW k \in 1..n, k - 1 \in S PROVE k \in S
    <3>1. k - 1 \in 0..(n - 1) /\ (k - 1) + 1 = k /\ k \in 0..n
      BY <1>3
    <3>2. c[k] = (x[k - 1] + c[k - 1]) \div Base
      BY <3>1, <1>9 DEF AreCarries
    <3>3. p[k - 1] \in 0..(Base - 1) /\ q[k - 1] \in 0..(Base - 1) /\ c[k - 1] \in 0..1
      BY <2>2, <3>1, <1>4
    <3>4. (p[k - 1] + q[k - 1] + c[k - 1]) \div Base \in 0..1
      BY <3>3, CarryOfTwo
    <3> QED
      BY <3>1, <3>2, <3>4, <1>5
  <2> HIDE DEF S
  <2>3. \A i \in 0..n : i \in S
    BY <1>3, <2>1, <2>2, UpTo
  <2> QED
    BY <2>3 DEF S
<1>12. c[n] = 0
  <2>1. m + 1 = n /\ m \in 0..n
    BY <1>3
  <2>2. c[n] = (x[m] + c[m]) \div Base
    BY <1>3, <1>9, <2>1 DEF AreCarries
  <2>3. c[m] \in 0..1 /\ x[m] = 0
    BY <2>1, <1>3, <1>5, <1>6, <1>11
  <2>4. \A y \in 0..1 : (0 + y) \div Base = 0
    BY DigitsAssumption
  <2> QED
    BY <2>2, <2>3, <2>4
<1>13. PICK u : AreValues(u, p, n)
  BY <1>3, <1>4, ValuesExist
<1>14. PICK v : AreValues(v, q, n)
  BY <1>3, <1>4, ValuesExist
<1>15. PICK w : AreValues(w, x, n)
  BY <1>3, <1>5, ValuesExist
<1>16. PICK z : AreValues(z, r, n) /\ z[0] = ValueOf(r)
  BY <1>10, ValueOfIs
<1>17. \A i \in 0..n : w[i] = u[i] + v[i]
  BY <1>3, <1>7, <1>13, <1>14, <1>15, ValuesOfSums
<1>18. \A i \in 0..n : w[i] + c[i] = z[i]
  <2>1. AreValues(z, Carried(x), n)
    BY <1>16
  <2> HIDE DEF r
  <2> QED
    BY <1>3, <1>5, <1>9, <1>12, <1>15, <2>1, ValuesOfCarried
<1>19. 0 \in 0..n /\ c[0] = 0 /\ z[0] \in Int /\ w[0] \in Int
  BY <1>3, <1>9, <1>15, <1>16 DEF AreCarries, AreValues
<1>20. u[0] = ValueOf(a)
  BY <1>1, <1>3, <1>4, <1>13, PaddedValue DEF m, ArePlaces
<1>21. v[0] = ValueOf(b)
  <2>1. n >= Size(b)
    BY <1>1, <1>3 DEF m
  <2> QED
    BY <2>1, <1>3, <1>4, <1>14, PaddedValue DEF ArePlaces
<1>22. z[0] = u[0] + v[0]
  BY <1>17, <1>18, <1>19
<1> QED
  BY <1>2, <1>10, <1>16, <1>20, <1>21, <1>22

(* A number that is not too negative, and its remainder. *)
LEMMA BorrowIs ==
  ASSUME NEW x \in 0..(Base - 1), NEW y \in 0..(Base - 1), NEW c \in 0..1
  PROVE  /\ (x - y - c) % Base \in 0..(Base - 1)
         /\ x - y - c = ((x - y - c) % Base) - (IF x - y - c < 0 THEN Base ELSE 0)
<1> DEFINE z == x - y - c
<1>0. Base \in Nat \ {0, 1}
  BY DigitsAssumption
<1>1. z \in -Base..(Base - 1)
  BY <1>0
<1> HIDE DEF z
<1>2. CASE z >= 0
  <2>1. z % Base = z
    BY <1>0, <1>1, <1>2
  <2> QED
    BY <2>1, <1>0, <1>1, <1>2 DEF z
<1>3. CASE z < 0
  <2>1. z % Base = z + Base
    BY <1>0, <1>1, <1>3
  <2> QED
    BY <2>1, <1>0, <1>1, <1>3 DEF z
<1> QED
  BY <1>1, <1>2, <1>3

(* What is read at a place is a digit. *)
LEMMA AtIs ==
  ASSUME NEW a \in Magnitudes, NEW i \in Int
  PROVE  At(a, i) \in 0..(Base - 1) /\ At(a, i) \in Nat /\ At(a, i) \in Int
BY MagnitudeIs

(* What is borrowed, c, by the digits of a difference. *)
AreBorrows(c, a, b) ==
  /\ c \in [0..Size(a) -> 0..1] /\ c[0] = 0
  /\ \A i \in 0..(Size(a) - 1) :
       a[i] - At(b, i) - c[i] = SubtractDigits(a, b)[i] - Base * c[i + 1]

(* SubtractDigits leaves digits, and borrows so. *)
LEMMA BorrowsAre ==
  ASSUME NEW a \in Magnitudes, NEW b \in Magnitudes
  PROVE  /\ SubtractDigits(a, b) \in [0..(Size(a) - 1) -> 0..(Base - 1)]
         /\ \E c : AreBorrows(c, a, b)
<1> DEFINE n == Size(a)
           Took(f) == f = [i \in 0..n |-> IF i > 0 /\ a[i - 1] - At(b, i - 1) - f[i - 1] < 0 THEN 1 ELSE 0]
           g == CHOOSE f : Took(f)
           G == [i \in 1..n |-> [y \in 0..1 |-> IF a[i - 1] - At(b, i - 1) - y < 0 THEN 1 ELSE 0]]
           r == SubtractDigits(a, b)
<1>1. /\ n \in Nat /\ DOMAIN a = 0..(n - 1)
      /\ \A i \in 0..(n - 1) : a[i] \in 0..(Base - 1) /\ At(b, i) \in 0..(Base - 1)
  <2>1. n \in Nat /\ DOMAIN a = 0..(n - 1) /\ a \in [0..(n - 1) -> 0..(Base - 1)]
    BY MagnitudeIs
  <2> HIDE DEF n
  <2>2. \A i \in 0..(n - 1) : At(b, i) \in 0..(Base - 1)
    BY AtIs
  <2> QED
    BY <2>1, <2>2
<1>2. r = [i \in 0..(n - 1) |-> (a[i] - At(b, i) - g[i]) % Base]
  BY <1>1 DEF SubtractDigits
<1> HIDE DEF n, r
<1>4. G \in [1..n -> [0..1 -> 0..1]]
  OBVIOUS
<1>5. PICK f \in [0..n -> 0..1] : f[0] = 0 /\ \A i \in 1..n : f[i] = G[i][f[i - 1]]
  <2>1. 0 \in 0..1 /\ n \in Nat
    BY <1>1
  <2> HIDE DEF G
  <2>2. CanStep(n, 0..1, 0, G)
    BY <2>1, <1>4, StepsAreTaken
  <2> QED
    BY <2>2 DEF CanStep
<1>6. \A i \in 1..n : f[i] = IF a[i - 1] - At(b, i - 1) - f[i - 1] < 0 THEN 1 ELSE 0
  <2> TAKE i \in 1..n
  <2>1. f[i - 1] \in 0..1
    BY <1>1, <1>5
  <2>2. G[i][f[i - 1]] = IF a[i - 1] - At(b, i - 1) - f[i - 1] < 0 THEN 1 ELSE 0
    BY <2>1
  <2> HIDE DEF G
  <2> QED
    BY <1>5, <2>2
<1> HIDE DEF G
<1>7. Took(f)
  <2>1. \A i \in 0..n : i > 0 => i \in 1..n
    BY <1>1
  <2>2. \A i \in 0..n : ~(i > 0) => i = 0
    BY <1>1
  <2> QED
    BY <1>5, <1>6, <2>1, <2>2
<1>8. Took(g)
  <2> HIDE DEF Took
  <2> QED
    BY <1>7
<1> HIDE DEF g
<1>9. \A i \in 0..n : g[i] = f[i]
  <2> DEFINE S == {i \in 0..n : g[i] = f[i]}
  <2>1. 0 \in S
    BY <1>1, <1>5, <1>8
  <2>2. ASSUME NEW k \in 1..n, k - 1 \in S PROVE k \in S
    <3>1. k \in 0..n /\ k > 0 /\ g[k - 1] = f[k - 1]
      BY <2>2, <1>1
    <3>2. g[k] = IF a[k - 1] - At(b, k - 1) - g[k - 1] < 0 THEN 1 ELSE 0
      BY <3>1, <1>8
    <3>3. g[k] = f[k]
      BY <3>1, <3>2, <1>6
    <3> QED
      BY <3>1, <3>3
  <2> HIDE DEF S
  <2>3. \A i \in 0..n : i \in S
    BY <1>1, <2>1, <2>2, UpTo
  <2> QED
    BY <2>3 DEF S
<1>10. ASSUME NEW i \in 0..(n - 1)
       PROVE  a[i] - At(b, i) - f[i] = r[i] - Base * f[i + 1] /\ r[i] \in 0..(Base - 1)
  <2>1. i \in 0..n /\ f[i] \in 0..1 /\ i + 1 \in 1..n /\ (i + 1) - 1 = i
    BY <1>1, <1>5
  <2> DEFINE x == a[i]
             y == At(b, i)
             c == f[i]
  <2>2. x \in 0..(Base - 1) /\ y \in 0..(Base - 1) /\ c \in 0..1
    BY <1>1, <2>1
  <2>3. r[i] = (x - y - c) % Base
    BY <1>2, <1>9, <2>1
  <2>4. f[i + 1] = IF x - y - c < 0 THEN 1 ELSE 0
    BY <1>6, <2>1
  <2> HIDE DEF x, y, c
  <2>5. /\ (x - y - c) % Base \in 0..(Base - 1)
        /\ x - y - c = ((x - y - c) % Base) - (IF x - y - c < 0 THEN Base ELSE 0)
    BY <2>2, BorrowIs
  <2>6. Base * f[i + 1] = IF x - y - c < 0 THEN Base ELSE 0
    <3>1. Base * 0 = 0 /\ Base * 1 = Base
      BY DigitsAssumption
    <3> QED
      BY <2>4, <3>1
  <2>7. x - y - c = r[i] - Base * f[i + 1]
    BY <2>3, <2>5, <2>6
  <2> QED
    BY <2>3, <2>5, <2>7 DEF x, y, c
<1>11. r \in [0..(n - 1) -> 0..(Base - 1)]
  BY <1>2, <1>10
<1>12. AreBorrows(f, a, b)
  BY <1>5, <1>10 DEF AreBorrows, n, r
<1> QED
  BY <1>11, <1>12 DEF n, r

(* Two magnitudes in places up to n, and the digits and the values of      *)
(* their difference.                                                       *)
AreApart(u, v, a, b, n) ==
  /\ AreValues(u, [i \in 0..(n - 1) |-> At(a, i)], n) /\ u[0] = ValueOf(a)
  /\ AreValues(v, [i \in 0..(n - 1) |-> -At(b, i)], n) /\ v[0] = -ValueOf(b)

(* There are such values, if no digit is left out. *)
LEMMA AreSetApart ==
  ASSUME NEW a \in Magnitudes, NEW b \in Magnitudes, NEW n \in Nat, n >= Size(a), n >= Size(b)
  PROVE  \E u, v : AreApart(u, v, a, b, n)
<1> DEFINE p == [i \in 0..(n - 1) |-> At(a, i)]
           q == [i \in 0..(n - 1) |-> At(b, i)]
           s == [i \in 0..(n - 1) |-> -q[i]]
<1>1. \A i \in 0..(n - 1) : At(a, i) \in Int /\ At(b, i) \in Int
  BY AtIs
<1>2. p \in [0..(n - 1) -> Int] /\ q \in [0..(n - 1) -> Int]
      /\ (\A i \in 0..(n - 1) : p[i] = At(a, i)) /\ (\A i \in 0..(n - 1) : q[i] = At(b, i))
  BY <1>1
<1>3. [i \in 0..(n - 1) |-> -At(b, i)] = s
  BY <1>1
<1> HIDE DEF p, q
<1>4. PICK u : AreValues(u, p, n)
  BY <1>2, ValuesExist
<1>5. PICK w : AreValues(w, q, n)
  BY <1>2, ValuesExist
<1> DEFINE v == [i \in 0..n |-> -w[i]]
<1>6. u[0] = ValueOf(a)
  BY <1>2, <1>4, PaddedValue DEF ArePlaces
<1>7. w[0] = ValueOf(b)
  BY <1>2, <1>5, PaddedValue DEF ArePlaces
<1>8. AreValues(v, s, n)
  BY <1>5, ValuesNegate
<1>9. v[0] = -ValueOf(b)
  <2>1. w[0] \in Int /\ 0 \in 0..n
    BY <1>5 DEF AreValues
  <2> QED
    BY <1>7, <2>1
<1> HIDE DEF v, s
<1> QED
  BY <1>3, <1>4, <1>6, <1>8, <1>9 DEF p, AreApart

(* The highest digit that is not the same decides. *)
LEMMA HigherIsMore ==
  ASSUME NEW a \in Magnitudes, NEW b \in Magnitudes, NEW j \in Nat,
         At(a, j) > At(b, j), \A i \in Nat : i > j => At(a, i) = At(b, i)
  PROVE  ValueOf(a) > ValueOf(b)
<1> DEFINE n == Size(a) + Size(b)
           p == [i \in 0..(n - 1) |-> At(a, i)]
           q == [i \in 0..(n - 1) |-> -At(b, i)]
           x == [i \in 0..(n - 1) |-> p[i] + q[i]]
           m == j + 1
           e == [i \in 0..(m - 1) |-> x[i]]
<1>1. n \in Nat /\ n >= Size(a) /\ n >= Size(b) /\ Size(a) \in Nat
  <2>1. Size(a) \in Nat /\ Size(b) \in Nat
    BY MagnitudeIs
  <2> QED
    BY <2>1
<1>2. j < Size(a)
  <2>1. j \in Int /\ At(a, j) # 0
    BY AtIs
  <2>2. j \in 0..(Size(a) - 1)
    BY <2>1, MagnitudeIs
  <2> QED
    BY <1>1, <2>2
<1> HIDE DEF n
<1>3. j \in 0..(n - 1) /\ m \in 0..n /\ m \in Nat /\ j \in 0..(m - 1)
  BY <1>1, <1>2
<1>4. PICK u, v : AreApart(u, v, a, b, n)
  BY <1>1, AreSetApart
<1>5. AreValues(u, p, n) /\ u[0] = ValueOf(a) /\ AreValues(v, q, n) /\ v[0] = -ValueOf(b)
  BY <1>4 DEF AreApart
<1>6. AreSums(x, p, q, n)
  BY DEF AreSums
<1>7. \A i \in 0..(n - 1) :
        /\ At(a, i) \in 0..(Base - 1) /\ At(b, i) \in 0..(Base - 1)
        /\ x[i] = At(a, i) - At(b, i)
  <2> TAKE i \in 0..(n - 1)
  <2>1. At(a, i) \in 0..(Base - 1) /\ At(b, i) \in 0..(Base - 1)
    BY AtIs
  <2> QED
    BY <2>1, DigitsAssumption
<1>8. \A i \in 0..(n - 1) : x[i] \in Int /\ x[i] > -Base
  BY <1>7, DigitsAssumption
<1>9. x \in [0..(n - 1) -> Int]
  BY <1>8
<1> HIDE DEF x, p, q
<1>10. PICK w : AreValues(w, x, n)
  BY <1>1, <1>9, ValuesExist
<1>11. \A i \in 0..n : w[i] = u[i] + v[i]
  BY <1>1, <1>5, <1>6, <1>10, ValuesOfSums
<1>12. w[m] = 0
  <2>1. e \in [0..(m - 1) -> Int] /\ \A i \in 0..(m - 1) : e[i] = x[i]
    BY <1>1, <1>3, <1>8
  <2> HIDE DEF e, m
  <2>2. PICK y : AreValues(y, e, m)
    BY <1>3, <2>1, ValuesExist
  <2>3. \A i \in m..(n - 1) : x[i] = 0
    <3> TAKE i \in m..(n - 1)
    <3>1. i \in 0..(n - 1) /\ i \in Nat /\ i > j
      BY <1>3 DEF m
    <3> QED
      BY <3>1, <1>7
  <2>4. AreWithZeros(x, n, e, m)
    BY <2>1, <2>3 DEF AreWithZeros
  <2>5. \A i \in m..n : w[i] = 0
    BY <1>1, <1>3, <1>10, <2>2, <2>4, ValuesWithoutZeros
  <2> QED
    BY <1>3, <2>5
<1>13. w[j] > 0 /\ j \in 0..n
  <2>1. w[j] = x[j] + Base * w[m]
    BY <1>3, <1>10 DEF AreValues
  <2>2. Base * 0 = 0
    BY DigitsAssumption
  <2>3. w[j] = x[j]
    BY <1>3, <1>8, <1>12, <2>1, <2>2
  <2> QED
    BY <1>1, <1>3, <1>7, <2>3, DigitsAssumption
<1>14. \A i \in 0..(j - 1) : x[i] > -Base
  BY <1>1, <1>3, <1>8
<1>15. \A i \in 0..j : w[i] > 0
  BY <1>1, <1>10, <1>13, <1>14, PositiveBelow
<1>16. w[0] = u[0] + v[0] /\ w[0] > 0
  BY <1>1, <1>3, <1>11, <1>15
<1>17. ValueOf(a) \in Nat /\ ValueOf(b) \in Nat
  BY ValueOfIs
<1> QED
  BY <1>5, <1>16, <1>17

(* The digits of a difference. *)
LEMMA SubtractDigitsIs ==
  ASSUME NEW a \in Magnitudes, NEW b \in Magnitudes, Size(a) >= Size(b),
         ValueOf(a) >= ValueOf(b)
  PROVE  /\ SubtractDigits(a, b) \in Magnitudes
         /\ ValueOf(SubtractDigits(a, b)) = ValueOf(a) - ValueOf(b)
<1> DEFINE m == Size(a)
           n == m + 1
           r == SubtractDigits(a, b)
           p == [i \in 0..(n - 1) |-> At(a, i)]
           q == [i \in 0..(n - 1) |-> -At(b, i)]
<1>1. m \in Nat /\ n >= Size(a) /\ n >= Size(b) /\ n \in Nat /\ n - 1 = m /\ m \in 0..(n - 1)
  <2>1. Size(a) \in Nat /\ Size(b) \in Nat
    BY MagnitudeIs
  <2> QED
    BY <2>1
<1>2. r \in [0..(m - 1) -> 0..(Base - 1)]
  BY BorrowsAre
<1>3. PICK c : AreBorrows(c, a, b)
  BY BorrowsAre
<1>4. /\ c \in [0..m -> 0..1] /\ c[0] = 0
      /\ \A i \in 0..(m - 1) : a[i] - At(b, i) - c[i] = r[i] - Base * c[i + 1]
  BY <1>3 DEF AreBorrows
<1>5. /\ r \in Magnitudes /\ Size(r) = m
  BY <1>1, <1>2, MagnitudeMade
<1>6. PICK u, v : AreApart(u, v, a, b, n)
  BY <1>1, AreSetApart
<1>7. AreValues(u, p, n) /\ u[0] = ValueOf(a) /\ AreValues(v, q, n) /\ v[0] = -ValueOf(b)
  BY <1>6 DEF AreApart
<1>8. /\ \A i \in 0..(m - 1) : p[i] = a[i] /\ q[i] = -At(b, i)
      /\ p[m] = 0 /\ q[m] = 0
  <2>1. /\ \A i \in 0..(m - 1) : At(a, i) = a[i]
        /\ \A i \in Int : ~(i \in 0..(m - 1)) => At(a, i) = 0
        /\ \A i \in Int : ~(i \in 0..(Size(b) - 1)) => At(b, i) = 0
    BY MagnitudeIs
  <2>2. m \in Int /\ ~(m \in 0..(m - 1)) /\ ~(m \in 0..(Size(b) - 1))
    <3>1. Size(b) \in Nat /\ Size(b) <= m
      BY MagnitudeIs
    <3> QED
      BY <1>1, <3>1
  <2>3. At(a, m) = 0 /\ At(b, m) = 0
    BY <2>1, <2>2
  <2> QED
    <3>1. -At(b, m) = 0
      <4>1. At(b, m) \in Int /\ At(b, m) = 0
        BY <2>3
      <4> QED
        BY <4>1, NegatedZero
    <3>2. p[m] = At(a, m) /\ q[m] = -At(b, m)
      BY <1>1
    <3>3. \A i \in 0..(m - 1) : p[i] = At(a, i) /\ q[i] = -At(b, i)
      BY <1>1
    <3> QED
      BY <2>1, <2>3, <3>1, <3>2, <3>3
<1>9. \A i \in 0..(m - 1) : a[i] \in Int /\ At(b, i) \in Int /\ r[i] \in Int
  <2>1. \A i \in 0..(m - 1) : At(a, i) = a[i]
    BY MagnitudeIs
  <2>2. \A i \in 0..(m - 1) : At(b, i) \in Int /\ At(a, i) \in Int
    BY AtIs
  <2>3. \A i \in 0..(m - 1) : r[i] \in Int
    BY <1>2, DigitsAssumption
  <2> QED
    BY <2>1, <2>2, <2>3
<1> HIDE DEF m, r, p, q
<1> DEFINE d == [i \in 0..n |-> IF i <= m THEN -c[i] ELSE 0]
           s == [i \in 0..(n - 1) |-> IF i < m THEN r[i] ELSE -c[m]]
<1>10. c[m] \in 0..1
  BY <1>1, <1>4
<1>11. s \in [0..(n - 1) -> Int] /\ d \in [0..n -> Int] /\ d[n] = 0 /\ d[0] = 0 /\ s[m] = -c[m]
       /\ \A i \in 0..(m - 1) : s[i] = r[i]
  <2>1. \A i \in 0..(n - 1) : s[i] \in Int
    BY <1>1, <1>9, <1>10
  <2>2. \A i \in 0..m : -c[i] \in Int
    BY <1>4
  <2>3. \A i \in 0..n : d[i] \in Int
    BY <1>1, <2>2
  <2> QED
    BY <1>1, <1>4, <2>1, <2>3
<1>12. \A i \in 0..(n - 1) : p[i] + q[i] + d[i] = s[i] + Base * d[i + 1]
  <2> TAKE i \in 0..(n - 1)
  <2>1. CASE i < m
    <3>1. i \in 0..(m - 1) /\ i \in 0..m /\ i + 1 \in 0..m
      BY <1>1, <2>1
    <3>2. p[i] = a[i] /\ q[i] = -At(b, i) /\ s[i] = r[i] /\ d[i] = -c[i] /\ d[i + 1] = -c[i + 1]
      BY <1>1, <1>8, <2>1, <3>1
    <3>3. c[i] \in Int /\ c[i + 1] \in Int /\ Base \in Int
      BY <1>4, <3>1, DigitsAssumption
    <3> DEFINE ci == c[i + 1]
    <3>4. Base * (-ci) = -(Base * ci) /\ Base * ci \in Int
      <4>1. \A x, y \in Int : x * (-y) = -(x * y) /\ x * y \in Int
        OBVIOUS
      <4> QED
        BY <3>3, <4>1
    <3> DEFINE bc == Base * ci
    <3>5. a[i] - At(b, i) - c[i] = r[i] - bc /\ Base * d[i + 1] = -bc /\ bc \in Int
      BY <1>4, <3>1, <3>2, <3>4
    <3>6. a[i] \in Int /\ At(b, i) \in Int /\ r[i] \in Int
      BY <1>9, <3>1
    <3> HIDE DEF bc, ci, d, s
    <3>7. a[i] + -At(b, i) + -c[i] = r[i] + -bc
      BY <3>3, <3>5, <3>6
    <3> QED
      BY <3>2, <3>5, <3>7
  <2>2. CASE i = m
    <3>1. p[i] = 0 /\ q[i] = 0 /\ s[i] = -c[m] /\ d[i] = -c[m] /\ d[i + 1] = 0
      BY <1>1, <1>8, <2>2
    <3>2. Base * 0 = 0
      BY DigitsAssumption
    <3> QED
      BY <1>10, <3>1, <3>2
  <2> QED
    BY <1>1, <2>1, <2>2
<1>13. AreCarried(d, p, q, s, n)
  BY <1>11, <1>12 DEF AreCarried
<1> HIDE DEF d, s
<1>14. PICK w : AreValues(w, s, n)
  BY <1>1, <1>11, ValuesExist
<1>15. \A i \in 0..n : u[i] + v[i] + d[i] = w[i]
  BY <1>1, <1>7, <1>13, <1>14, ValuesAdd
<1>16. w[0] = ValueOf(a) - ValueOf(b) /\ w[0] >= 0 /\ 0 \in 0..n
  <2>1. ValueOf(a) \in Nat /\ ValueOf(b) \in Nat
    BY ValueOfIs
  <2>2. 0 \in 0..n
    BY <1>1
  <2>3. u[0] + v[0] + d[0] = w[0]
    BY <1>15, <2>2
  <2> QED
    BY <1>7, <1>11, <2>1, <2>2, <2>3
<1>17. c[m] = 0
  <2> SUFFICES ASSUME c[m] = 1 PROVE FALSE
    BY <1>10
  <2> DEFINE z == [i \in 0..n |-> -w[i]]
             t == [i \in 0..(n - 1) |-> -s[i]]
  <2>1. AreValues(z, t, n)
    BY <1>1, <1>14, ValuesNegate
  <2>2. w[m] = -1
    <3>1. w[m] = s[m] + Base * w[n] /\ w[n] = 0
      BY <1>1, <1>14 DEF AreValues
    <3>2. Base * 0 = 0
      BY DigitsAssumption
    <3> QED
      BY <1>11, <3>1, <3>2
  <2>3. z[m] > 0 /\ m \in 0..n
    BY <1>1, <2>2
  <2>4. \A i \in 0..(m - 1) : t[i] > -Base
    <3> TAKE i \in 0..(m - 1)
    <3>1. i \in 0..(n - 1) /\ s[i] \in 0..(Base - 1)
      BY <1>1, <1>2, <1>11
    <3> QED
      BY <3>1, DigitsAssumption
  <2> HIDE DEF z, t
  <2>5. \A i \in 0..m : z[i] > 0
    BY <1>1, <2>1, <2>3, <2>4, PositiveBelow
  <2>6. z[0] > 0
    BY <1>1, <2>5
  <2>7. z[0] = -w[0] /\ w[0] \in Int
    BY <1>14, <1>16 DEF z, AreValues
  <2> QED
    BY <1>16, <2>6, <2>7
<1>18. \A i \in 0..(n - 1) : s[i] = At(r, i)
  <2> TAKE i \in 0..(n - 1)
  <2>1. /\ \A k \in 0..(m - 1) : At(r, k) = r[k]
        /\ \A k \in Int : ~(k \in 0..(m - 1)) => At(r, k) = 0
    BY <1>5, MagnitudeIs
  <2>2. CASE i < m
    BY <1>1, <1>11, <2>1, <2>2, SMTT(30)
  <2>3. CASE i = m
    <3>1. s[i] = 0
      <4>1. -c[m] = 0
        <5>1. c[m] \in Int /\ c[m] = 0
          BY <1>10, <1>17
        <5> QED
          BY <5>1, NegatedZero
      <4> QED
        BY <1>11, <2>3, <4>1
    <3>2. i \in Int /\ ~(i \in 0..(m - 1))
      BY <1>1, <2>3
    <3> QED
      BY <2>1, <3>1, <3>2
  <2> QED
    BY <1>1, <2>2, <2>3
<1>19. w[0] = ValueOf(r)
  <2>1. n >= Size(r) /\ ArePlaces(s, r, n)
    BY <1>1, <1>5, <1>18 DEF ArePlaces
  <2>2. n \in Nat
    BY <1>1
  <2> HIDE DEF n
  <2>3. r \in Magnitudes
    BY <1>5
  <2> QED
    BY <1>14, <2>1, <2>2, <2>3, PaddedValue
<1> QED
  BY <1>5, <1>16, <1>19 DEF r

(* UsedOf leaves out the zeros above, and no other digit. *)
LEMMA UsedOfIs ==
  ASSUME NEW a \in Magnitudes
  PROVE  /\ UsedOf(a) \in 0..Size(a)
         /\ \A i \in UsedOf(a)..(Size(a) - 1) : a[i] = 0
         /\ UsedOf(a) > 0 => a[UsedOf(a) - 1] # 0
<1> DEFINE n == Size(a)
           Took(f) == f = [i \in 0..n |-> IF i > 0 /\ a[i - 1] = 0 THEN f[i - 1] ELSE i]
           g == CHOOSE f : Took(f)
           G == [i \in 1..n |-> [y \in Nat |-> IF a[i - 1] = 0 THEN y ELSE i]]
<1>1. n \in Nat
  BY MagnitudeIs
<1>2. UsedOf(a) = g[n]
  BY DEF UsedOf
<1> HIDE DEF n
<1>3. G \in [1..n -> [Nat -> Nat]]
  BY <1>1
<1>4. PICK f \in [0..n -> Nat] : f[0] = 0 /\ \A i \in 1..n : f[i] = G[i][f[i - 1]]
  <2>1. 0 \in Nat
    OBVIOUS
  <2> HIDE DEF G
  <2>2. CanStep(n, Nat, 0, G)
    BY <2>1, <1>1, <1>3, StepsAreTaken
  <2> QED
    BY <2>2 DEF CanStep
<1>5. \A i \in 1..n : f[i] = IF a[i - 1] = 0 THEN f[i - 1] ELSE i
  <2> TAKE i \in 1..n
  <2>1. f[i - 1] \in Nat
    BY <1>1, <1>4
  <2>2. G[i][f[i - 1]] = IF a[i - 1] = 0 THEN f[i - 1] ELSE i
    BY <2>1
  <2> HIDE DEF G
  <2> QED
    BY <1>4, <2>2
<1> HIDE DEF G
<1>6. Took(f)
  <2>1. \A i \in 0..n : i > 0 => i \in 1..n
    BY <1>1
  <2>2. \A i \in 0..n : ~(i > 0) => i = 0
    BY <1>1
  <2> QED
    BY <1>4, <1>5, <2>1, <2>2
<1>7. Took(g)
  <2> HIDE DEF Took
  <2> QED
    BY <1>6
<1> HIDE DEF g
<1> DEFINE S == {k \in 0..n : /\ g[k] \in 0..k
                              /\ \A i \in g[k]..(k - 1) : a[i] = 0
                              /\ g[k] > 0 => a[g[k] - 1] # 0}
<1>8. 0 \in S
  <2>1. g[0] = 0
    BY <1>1, <1>7
  <2> QED
    BY <1>1, <2>1
<1>9. ASSUME NEW k \in 1..n, k - 1 \in S PROVE k \in S
  <2>1. k \in 0..n /\ k > 0
    BY <1>1
  <2>2. g[k] = IF a[k - 1] = 0 THEN g[k - 1] ELSE k
    BY <1>7, <2>1
  <2>3. /\ g[k - 1] \in 0..(k - 1)
        /\ \A i \in g[k - 1]..((k - 1) - 1) : a[i] = 0
        /\ g[k - 1] > 0 => a[g[k - 1] - 1] # 0
    BY <1>9
  <2>4. CASE a[k - 1] = 0
    <3>1. g[k] = g[k - 1]
      BY <2>2, <2>4
    <3>2. \A i \in g[k]..(k - 1) : a[i] = 0
      <4> TAKE i \in g[k]..(k - 1)
      <4>1. i = k - 1 \/ i \in g[k - 1]..((k - 1) - 1)
        BY <2>3, <3>1
      <4> QED
        BY <4>1, <2>3, <2>4
    <3> QED
      BY <2>1, <2>3, <3>1, <3>2
  <2>5. CASE a[k - 1] # 0
    <3>1. g[k] = k /\ g[k] \in 0..k
      BY <2>2, <2>5
    <3>2. \A i \in g[k]..(k - 1) : a[i] = 0
      BY <3>1
    <3> QED
      BY <2>1, <2>5, <3>1, <3>2
  <2> QED
    BY <2>4, <2>5
<1> HIDE DEF S
<1>10. \A k \in 0..n : k \in S
  BY <1>1, <1>8, <1>9, UpTo
<1>11. n \in S
  BY <1>1, <1>10
<1> QED
  BY <1>2, <1>11 DEF S, n

(* No digits are zero. *)
LEMMA ValueOfNone ==
  ASSUME NEW a \in Magnitudes, Size(a) = 0
  PROVE  ValueOf(a) = 0
<1>1. PICK v : AreValues(v, a, Size(a)) /\ v[0] = ValueOf(a)
  BY ValueOfIs
<1> QED
  BY <1>1 DEF AreValues

(* No digits are a magnitude. *)
LEMMA ZerosAre == Zeros(0) \in Magnitudes /\ Size(Zeros(0)) = 0 /\ ValueOf(Zeros(0)) = 0
<1>1. Zeros(0) \in [0..(0 - 1) -> 0..(Base - 1)]
  BY DEF Zeros
<1>2. Zeros(0) \in Magnitudes /\ Size(Zeros(0)) = 0
  BY <1>1, MagnitudeMade
<1> QED
  BY <1>2, ValueOfNone

(* Without leading zeros: more than zero if there is a digit. *)
Trimmed(a) == UsedOf(a) = Size(a)

(* The highest digit is then not zero, nor is the value. *)
LEMMA TrimmedIs ==
  ASSUME NEW a \in Magnitudes, Trimmed(a), Size(a) # 0
  PROVE  At(a, Size(a) - 1) > 0 /\ Size(a) - 1 \in Nat /\ ValueOf(a) > 0
<1> DEFINE j == Size(a) - 1
           z == Zeros(0)
<1>1. Size(a) \in Nat /\ j \in Nat /\ j \in 0..(Size(a) - 1) /\ j \in Int
  <2>1. Size(a) \in Nat
    BY MagnitudeIs
  <2> QED
    BY <2>1
<1>2. At(a, j) # 0
  <2>1. a[j] # 0
    BY <1>1, UsedOfIs DEF Trimmed
  <2>2. At(a, j) = a[j]
    BY <1>1, MagnitudeIs
  <2> QED
    BY <2>1, <2>2
<1>3. At(a, j) \in Nat
  BY <1>1, AtIs
<1>4. z \in Magnitudes /\ Size(z) = 0 /\ ValueOf(z) = 0
  BY ZerosAre
<1>5. \A i \in Nat : At(z, i) = 0
  <2>1. \A i \in Int : ~(i \in 0..(Size(z) - 1)) => At(z, i) = 0
    BY <1>4, MagnitudeIs
  <2> QED
    BY <1>4, <2>1
<1>6. \A i \in Nat : i > j => At(a, i) = 0
  <2>1. \A i \in Int : ~(i \in 0..(Size(a) - 1)) => At(a, i) = 0
    BY MagnitudeIs
  <2>2. \A i \in Nat : i > j => ~(i \in 0..(Size(a) - 1)) /\ i \in Int
    BY <1>1
  <2> QED
    BY <2>1, <2>2
<1>7. At(a, j) > At(z, j) /\ \A i \in Nat : i > j => At(a, i) = At(z, i)
  BY <1>1, <1>2, <1>3, <1>5, <1>6
<1>8. ValueOf(a) > ValueOf(z)
  <2>1. j \in Nat
    BY <1>1
  <2> HIDE DEF j, z
  <2> QED
    BY <1>4, <1>7, <2>1, HigherIsMore
<1> QED
  BY <1>1, <1>2, <1>3, <1>4, <1>8

(* What is compared: the sizes, and then the highest digit that is not the *)
(* same.                                                                   *)
LEMMA DifferenceIs ==
  ASSUME NEW a \in Magnitudes, NEW b \in Magnitudes, Size(a) = Size(b)
  PROVE  \/ CompareDigits(a, b) = 0 /\ a = b
         \/ \E j \in 0..(Size(a) - 1) :
              /\ a[j] # b[j] /\ CompareDigits(a, b) = a[j] - b[j]
              /\ \A i \in (j + 1)..(Size(a) - 1) : a[i] = b[i]
<1> DEFINE n == Size(a)
           Took(f) == f = [i \in 0..n |-> IF i = 0 THEN 0
                                          ELSE IF a[i - 1] # b[i - 1] THEN a[i - 1] - b[i - 1] ELSE f[i - 1]]
           g == CHOOSE f : Took(f)
           G == [i \in 1..n |-> [y \in Int |-> IF a[i - 1] # b[i - 1] THEN a[i - 1] - b[i - 1] ELSE y]]
<1>1. n \in Nat /\ a \in [0..(n - 1) -> Int] /\ b \in [0..(n - 1) -> Int]
  BY MagnitudeIs
<1>2. CompareDigits(a, b) = g[n]
  BY DEF CompareDigits
<1> HIDE DEF n
<1>3. G \in [1..n -> [Int -> Int]]
  <2>1. \A i \in 1..n : a[i - 1] - b[i - 1] \in Int
    <3> TAKE i \in 1..n
    <3>1. i - 1 \in 0..(n - 1)
      BY <1>1
    <3> QED
      BY <1>1, <3>1
  <2> QED
    BY <2>1
<1>4. PICK f \in [0..n -> Int] : f[0] = 0 /\ \A i \in 1..n : f[i] = G[i][f[i - 1]]
  <2>1. 0 \in Int
    OBVIOUS
  <2> HIDE DEF G
  <2>2. CanStep(n, Int, 0, G)
    BY <2>1, <1>1, <1>3, StepsAreTaken
  <2> QED
    BY <2>2 DEF CanStep
<1>5. \A i \in 1..n : f[i] = IF a[i - 1] # b[i - 1] THEN a[i - 1] - b[i - 1] ELSE f[i - 1]
  <2> TAKE i \in 1..n
  <2>1. f[i - 1] \in Int
    BY <1>1, <1>4
  <2>2. G[i][f[i - 1]] = IF a[i - 1] # b[i - 1] THEN a[i - 1] - b[i - 1] ELSE f[i - 1]
    BY <2>1
  <2> HIDE DEF G
  <2> QED
    BY <1>4, <2>2
<1> HIDE DEF G
<1>6. Took(f)
  BY <1>1, <1>4, <1>5
<1>7. Took(g)
  <2> HIDE DEF Took
  <2> QED
    BY <1>6
<1> HIDE DEF g
<1> DEFINE Same(k)   == g[k] = 0 /\ \A i \in 0..(k - 1) : a[i] = b[i]
           At0(j, k) == a[j] # b[j] /\ g[k] = a[j] - b[j] /\ \A i \in (j + 1)..(k - 1) : a[i] = b[i]
           S         == {k \in 0..n : Same(k) \/ \E j \in 0..(k - 1) : At0(j, k)}
<1>8. 0 \in S
  <2>1. g[0] = 0
    BY <1>1, <1>7
  <2>2. Same(0)
    BY <2>1
  <2> QED
    BY <1>1, <2>2
<1>9. ASSUME NEW k \in 1..n, k - 1 \in S PROVE k \in S
  <2>1. k \in 0..n /\ k # 0
    BY <1>1
  <2>2. g[k] = IF a[k - 1] # b[k - 1] THEN a[k - 1] - b[k - 1] ELSE g[k - 1]
    BY <1>7, <2>1
  <2>3. CASE a[k - 1] # b[k - 1]
    <3>1. At0(k - 1, k) /\ k - 1 \in 0..(k - 1)
      BY <2>2, <2>3
    <3> QED
      BY <2>1, <3>1
  <2>4. CASE a[k - 1] = b[k - 1]
    <3>1. \A i \in Int : i <= k - 1 => i = k - 1 \/ i <= (k - 1) - 1
      OBVIOUS
    <3>2. CASE Same(k - 1)
      <4>1. Same(k)
        BY <2>2, <2>4, <3>1, <3>2
      <4> QED
        BY <2>1, <4>1
    <3>3. ASSUME NEW j \in 0..((k - 1) - 1), At0(j, k - 1) PROVE k \in S
      <4>1. At0(j, k)
        BY <2>2, <2>4, <3>1, <3>3
      <4>2. j \in 0..(k - 1)
        OBVIOUS
      <4> HIDE DEF At0
      <4> QED
        BY <2>1, <4>1, <4>2
    <3>4. Same(k - 1) \/ \E j \in 0..((k - 1) - 1) : At0(j, k - 1)
      BY <1>9
    <3> HIDE DEF At0, Same, S
    <3> QED
      BY <3>2, <3>3, <3>4
  <2> QED
    BY <2>3, <2>4
<1> HIDE DEF S
<1>10. \A k \in 0..n : k \in S
  BY <1>1, <1>8, <1>9, UpTo
<1>11. Same(n) \/ \E j \in 0..(n - 1) : At0(j, n)
  BY <1>1, <1>10 DEF S
<1>12. Same(n) => a = b
  BY <1>1
<1> QED
  BY <1>2, <1>11, <1>12 DEF n

(* Comparing digits compares values. *)
LEMMA CompareDigitsIs ==
  ASSUME NEW a \in Magnitudes, NEW b \in Magnitudes, Trimmed(a), Trimmed(b)
  PROVE  /\ CompareDigits(a, b) \in Int
         /\ CompareDigits(a, b) > 0 => ValueOf(a) > ValueOf(b) /\ Size(a) >= Size(b)
         /\ CompareDigits(a, b) < 0 => ValueOf(b) > ValueOf(a) /\ Size(b) >= Size(a)
         /\ CompareDigits(a, b) = 0 => ValueOf(a) = ValueOf(b) /\ Size(a) = Size(b)
<1>1. Size(a) \in Nat /\ Size(b) \in Nat
  BY MagnitudeIs
<1>2. ASSUME NEW x \in Magnitudes, NEW y \in Magnitudes, Trimmed(x), Size(x) > Size(y)
      PROVE  ValueOf(x) > ValueOf(y)
  <2> DEFINE j == Size(x) - 1
  <2>1. Size(x) \in Nat /\ Size(y) \in Nat
    BY MagnitudeIs
  <2>2. j \in Nat /\ At(x, j) > 0
    BY <1>2, <2>1, TrimmedIs
  <2>3. \A i \in Nat : i >= j => At(y, i) = 0
    <3>1. \A i \in Int : ~(i \in 0..(Size(y) - 1)) => At(y, i) = 0
      BY MagnitudeIs
    <3>2. \A i \in Nat : i >= j => ~(i \in 0..(Size(y) - 1)) /\ i \in Int
      BY <1>2, <2>1
    <3> QED
      BY <3>1, <3>2
  <2>4. \A i \in Nat : i > j => At(x, i) = 0
    <3>1. \A i \in Int : ~(i \in 0..(Size(x) - 1)) => At(x, i) = 0
      BY MagnitudeIs
    <3>2. \A i \in Nat : i > j => ~(i \in 0..(Size(x) - 1)) /\ i \in Int
      BY <2>1
    <3> QED
      BY <3>1, <3>2
  <2> HIDE DEF j
  <2>5. At(y, j) = 0 /\ \A i \in Nat : i > j => At(x, i) = At(y, i)
    BY <2>2, <2>3, <2>4
  <2> QED
    BY <2>2, <2>5, HigherIsMore
<1>3. CASE Size(a) # Size(b)
  <2>1. CompareDigits(a, b) = Size(a) - Size(b)
    BY <1>3 DEF CompareDigits
  <2> QED
    BY <1>1, <1>2, <1>3, <2>1
<1>4. CASE Size(a) = Size(b)
  <2>1. CASE CompareDigits(a, b) = 0 /\ a = b
    BY <1>1, <1>4, <2>1
  <2>2. ASSUME NEW j \in 0..(Size(a) - 1),
               a[j] # b[j], CompareDigits(a, b) = a[j] - b[j],
               \A i \in (j + 1)..(Size(a) - 1) : a[i] = b[i]
        PROVE  /\ CompareDigits(a, b) \in Int
               /\ CompareDigits(a, b) > 0 => ValueOf(a) > ValueOf(b)
               /\ CompareDigits(a, b) < 0 => ValueOf(b) > ValueOf(a)
               /\ CompareDigits(a, b) # 0
    <3>1. a[j] \in Int /\ b[j] \in Int /\ At(a, j) = a[j] /\ At(b, j) = b[j] /\ j \in Nat
      <4>1. j \in Nat /\ j \in Int /\ j \in 0..(Size(b) - 1)
        BY <1>1, <1>4
      <4>2. At(a, j) = a[j] /\ At(b, j) = b[j]
        BY <4>1, MagnitudeIs
      <4>3. At(a, j) \in Int /\ At(b, j) \in Int
        BY <4>1, AtIs
      <4> QED
        BY <4>1, <4>2, <4>3
    <3>2. \A i \in Nat : i > j => At(a, i) = At(b, i)
      <4> TAKE i \in Nat
      <4> SUFFICES ASSUME i > j PROVE At(a, i) = At(b, i)
        OBVIOUS
      <4>1. CASE i \in 0..(Size(a) - 1)
        <5>1. a[i] = b[i]
          BY <1>1, <2>2, <3>1, <4>1
        <5>2. At(a, i) = a[i] /\ At(b, i) = b[i]
          BY <1>4, <4>1, MagnitudeIs
        <5> QED
          BY <5>1, <5>2
      <4>2. CASE ~(i \in 0..(Size(a) - 1))
        <5>1. i \in Int
          OBVIOUS
        <5>2. At(a, i) = 0 /\ At(b, i) = 0
          BY <1>4, <4>2, <5>1, MagnitudeIs
        <5> QED
          BY <5>2
      <4> QED
        BY <4>1, <4>2
    <3>3. a[j] > b[j] => ValueOf(a) > ValueOf(b)
      BY <3>1, <3>2, HigherIsMore
    <3>4. b[j] > a[j] => ValueOf(b) > ValueOf(a)
      <4>1. \A i \in Nat : i > j => At(b, i) = At(a, i)
        BY <3>2
      <4> QED
        BY <3>1, <4>1, HigherIsMore
    <3> QED
      BY <2>2, <3>1, <3>3, <3>4
  <2>3. \/ CompareDigits(a, b) = 0 /\ a = b
        \/ \E j \in 0..(Size(a) - 1) :
             /\ a[j] # b[j] /\ CompareDigits(a, b) = a[j] - b[j]
             /\ \A i \in (j + 1)..(Size(a) - 1) : a[i] = b[i]
    BY <1>4, DifferenceIs
  <2> QED
    BY <1>1, <1>4, <2>1, <2>2, <2>3
<1> QED
  BY <1>3, <1>4

(* Leading zeros are left out, and the value stays. *)
LEMMA NormalIs ==
  ASSUME NEW a \in Magnitudes, NEW neg \in BOOLEAN
  PROVE  /\ Normal(neg, a) \in BigIntegers
         /\ Is(Normal(neg, a), IF neg THEN -ValueOf(a) ELSE ValueOf(a))
<1> DEFINE m == UsedOf(a)
           n == Size(a)
           e == Part(a, 0, m)
           x == Normal(neg, a)
<1>1. /\ n \in Nat /\ a \in [0..(n - 1) -> 0..(Base - 1)]
  BY MagnitudeIs
<1>2. /\ m \in 0..n
      /\ \A i \in m..(n - 1) : a[i] = 0
      /\ m > 0 => a[m - 1] # 0
  BY UsedOfIs
<1>3. x = [neg |-> neg /\ m > 0, mag |-> e]
  BY DEF Normal
<1> HIDE DEF m, n
<1>4. m \in Nat /\ e \in [0..(m - 1) -> 0..(Base - 1)] /\ \A i \in 0..(m - 1) : e[i] = a[i]
  <2>1. m \in Nat /\ m - 0 - 1 = m - 1
    BY <1>1, <1>2
  <2>2. \A i \in 0..(m - 1) : 0 + i = i /\ i \in 0..(n - 1)
    BY <1>1, <1>2
  <2>3. e = [i \in 0..(m - 1) |-> a[0 + i]]
    BY <2>1 DEF Part
  <2> QED
    BY <1>1, <2>1, <2>2, <2>3
<1> HIDE DEF e, x
<1>5. e \in Magnitudes /\ Size(e) = m
  BY <1>4, MagnitudeMade
<1>6. ValueOf(e) = ValueOf(a)
  <2>1. PICK v : AreValues(v, a, n) /\ v[0] = ValueOf(a)
    BY ValueOfIs DEF n
  <2>2. PICK w : AreValues(w, e, m) /\ w[0] = ValueOf(e)
    BY <1>5, ValueOfIs
  <2>3. AreWithZeros(a, n, e, m)
    BY <1>2, <1>4 DEF AreWithZeros
  <2>4. \A i \in 0..m : v[i] = w[i]
    BY <1>1, <1>2, <2>1, <2>2, <2>3, ValuesWithoutZeros
  <2> QED
    BY <1>4, <2>1, <2>2, <2>4
<1>7. Trimmed(e)
  <2> DEFINE k == UsedOf(e)
  <2>1. k \in 0..m /\ \A i \in k..(m - 1) : e[i] = 0
    BY <1>5, UsedOfIs
  <2> HIDE DEF k
  <2>2. k = m
    <3> SUFFICES ASSUME k # m PROVE FALSE
      OBVIOUS
    <3>1. m - 1 \in k..(m - 1) /\ m > 0 /\ m - 1 \in 0..(m - 1)
      BY <1>4, <2>1
    <3> QED
      BY <1>2, <1>4, <2>1, <3>1
  <2> QED
    BY <1>5, <2>2 DEF k, Trimmed
<1>8. ValueOf(a) \in Nat
  BY ValueOfIs
<1>9. m > 0 <=> ValueOf(a) > 0
  <2>1. m # 0 => ValueOf(e) > 0
    BY <1>5, <1>7, TrimmedIs
  <2>2. m = 0 => ValueOf(e) = 0
    BY <1>5, ValueOfNone
  <2> QED
    BY <1>4, <1>6, <1>8, <2>1, <2>2
<1>10. x.mag = e /\ x.neg = (neg /\ m > 0)
  BY <1>3
<1>11. x \in BigIntegers
  BY <1>3, <1>5 DEF BigIntegers
<1>12. UsedOf(x.mag) = Size(x.mag)
  BY <1>7, <1>10 DEF Trimmed
<1> DEFINE z == IF neg THEN -ValueOf(a) ELSE ValueOf(a)
<1>13. (z < 0) = (neg /\ m > 0)
  BY <1>8, <1>9
<1>14. (IF z < 0 THEN -z ELSE z) = ValueOf(a)
  <2>1. CASE neg
    <3>1. CASE ValueOf(a) = 0
      <4>1. z = 0
        <5>1. ValueOf(a) \in Int
          BY <1>8
        <5>2. -ValueOf(a) = 0
          BY <3>1, <5>1, NegatedZero
        <5> QED
          BY <2>1, <5>2
      <4> QED
        BY <3>1, <4>1
    <3>2. CASE ValueOf(a) # 0
      <4>1. z < 0 /\ -z = ValueOf(a)
        BY <1>8, <2>1, <3>2
      <4> QED
        BY <4>1
    <3> QED
      BY <3>1, <3>2
  <2>2. CASE ~neg
    BY <1>8, <2>2
  <2> QED
    BY <2>1, <2>2
<1> HIDE DEF z
<1>15. Is(x, z)
  <2>1. ValueOf(x.mag) = IF z < 0 THEN -z ELSE z
    BY <1>6, <1>10, <1>14
  <2>2. x.neg = (z < 0)
    BY <1>10, <1>13
  <2> QED
    BY <1>12, <2>1, <2>2 DEF Is
<1> QED
  BY <1>11, <1>15 DEF x, z

(* What an integer is that is n.                                           *)
LEMMA IsAs ==
  ASSUME NEW x \in BigIntegers, NEW n \in Int, Is(x, n)
  PROVE  /\ x.mag \in Magnitudes /\ x.neg \in BOOLEAN /\ Trimmed(x.mag)
         /\ ValueOf(x.mag) \in Nat
         /\ x.neg <=> n < 0
         /\ x.neg => n = -ValueOf(x.mag)
         /\ ~x.neg => n = ValueOf(x.mag)
         /\ Used(x) = Size(x.mag)
         /\ Used(x) = 0 <=> n = 0
<1>1. x.mag \in Magnitudes /\ x.neg \in BOOLEAN
  BY DEF BigIntegers
<1>2. ValueOf(x.mag) \in Nat
  BY <1>1, ValueOfIs
<1>3. ValueOf(x.mag) = (IF n < 0 THEN -n ELSE n) /\ x.neg = (n < 0) /\ Trimmed(x.mag)
  BY DEF Is, Trimmed
<1>4. Used(x) = Size(x.mag)
  BY DEF Used
<1>5. Size(x.mag) = 0 => ValueOf(x.mag) = 0
  BY <1>1, ValueOfNone
<1>6. Size(x.mag) # 0 => ValueOf(x.mag) > 0
  BY <1>1, <1>3, TrimmedIs
<1>7. Used(x) = 0 <=> n = 0
  <2>1. n = 0 => ValueOf(x.mag) = 0
    BY <1>3
  <2>2. ValueOf(x.mag) = 0 => ~(n > 0) /\ ~(n < 0)
    BY <1>3
  <2> QED
    BY <1>2, <1>4, <1>5, <1>6, <2>1, <2>2
<1>8. x.neg <=> n < 0
  BY <1>3
<1>9. x.neg => n = -ValueOf(x.mag)
  <2>1. x.neg => ValueOf(x.mag) = -n
    BY <1>3
  <2>2. \A v \in Int : v = -n => n = -v
    OBVIOUS
  <2> QED
    BY <1>2, <2>1, <2>2
<1>10. ~x.neg => n = ValueOf(x.mag)
  BY <1>3
<1> QED
  BY <1>1, <1>2, <1>3, <1>4, <1>7, <1>8, <1>9, <1>10

(* The sign is turned around. *)
LEMMA NegatedIs ==
  ASSUME NEW x \in BigIntegers, NEW n \in Int, Is(x, n)
  PROVE  Negated(x) \in BigIntegers /\ Is(Negated(x), -n)
<1>1. /\ x.mag \in Magnitudes /\ x.neg \in BOOLEAN /\ Trimmed(x.mag)
      /\ x.neg <=> n < 0
      /\ x.neg => n = -ValueOf(x.mag)
      /\ ~x.neg => n = ValueOf(x.mag)
      /\ Used(x) = 0 <=> n = 0
      /\ ValueOf(x.mag) \in Nat
  BY IsAs
<1>2. CASE n = 0
  <2>1. Negated(x) = x
    BY <1>1, <1>2 DEF Negated
  <2>2. -n = n
    <3>1. -n = 0
      BY <1>2, NegatedZero
    <3> QED
      BY <1>2, <3>1
  <2> QED
    BY <2>1, <2>2
<1>3. CASE n # 0
  <2> DEFINE y == [x EXCEPT !.neg = ~@]
  <2>1. Negated(x) = y
    BY <1>1, <1>3 DEF Negated
  <2>2. y \in BigIntegers /\ y.mag = x.mag /\ y.neg = ~x.neg
    BY DEF BigIntegers
  <2>3. ValueOf(x.mag) = IF n < 0 THEN -n ELSE n
    BY DEF Is
  <2> DEFINE k == -n
  <2>4. k \in Int /\ (k < 0 <=> ~(n < 0)) /\ -k = n
    BY <1>3
  <2>5. ValueOf(x.mag) = IF k < 0 THEN -k ELSE k
    BY <2>3, <2>4
  <2> HIDE DEF k, y
  <2>6. y.neg = (k < 0)
    BY <1>1, <2>2, <2>4
  <2>7. Is(y, k)
    BY <1>1, <2>2, <2>5, <2>6 DEF Is, Trimmed
  <2> QED
    BY <2>1, <2>2, <2>7 DEF k
<1> QED
  BY <1>2, <1>3

(* Magnitudes are added, the shorter to the longer. *)
LEMMA AddAbsIs ==
  ASSUME NEW x \in BigIntegers, NEW y \in BigIntegers, NEW neg \in BOOLEAN
  PROVE  /\ AddAbs(x, y, neg) \in BigIntegers
         /\ Is(AddAbs(x, y, neg), IF neg THEN -(ValueOf(x.mag) + ValueOf(y.mag))
                                  ELSE ValueOf(x.mag) + ValueOf(y.mag))
<1>1. /\ x.mag \in Magnitudes /\ y.mag \in Magnitudes
      /\ Used(x) = Size(x.mag) /\ Used(y) = Size(y.mag)
  BY DEF BigIntegers, Used
<1>2. /\ Size(x.mag) \in Nat /\ Size(y.mag) \in Nat
      /\ ValueOf(x.mag) \in Nat /\ ValueOf(y.mag) \in Nat
  BY <1>1, MagnitudeIs, ValueOfIs
<1> DEFINE large == IF Used(x) < Used(y) THEN y ELSE x
           small == IF Used(x) < Used(y) THEN x ELSE y
           s == AddDigits(large.mag, small.mag)
<1>3. AddAbs(x, y, neg) = Normal(neg, s)
  BY DEF AddAbs
<1>4. s \in Magnitudes /\ ValueOf(s) = ValueOf(x.mag) + ValueOf(y.mag)
  <2>1. CASE Used(x) < Used(y)
    <3>1. Size(y.mag) >= Size(x.mag) /\ s = AddDigits(y.mag, x.mag)
      BY <1>1, <1>2, <2>1
    <3>2. s \in Magnitudes /\ ValueOf(s) = ValueOf(y.mag) + ValueOf(x.mag)
      BY <1>1, <3>1, AddDigitsIs
    <3> QED
      BY <1>2, <3>2
  <2>2. CASE ~(Used(x) < Used(y))
    <3>1. Size(x.mag) >= Size(y.mag) /\ s = AddDigits(x.mag, y.mag)
      BY <1>1, <1>2, <2>2
    <3> QED
      BY <1>1, <3>1, AddDigitsIs
  <2> QED
    BY <2>1, <2>2
<1> HIDE DEF s
<1>5. Normal(neg, s) \in BigIntegers /\ Is(Normal(neg, s), IF neg THEN -ValueOf(s) ELSE ValueOf(s))
  BY <1>4, NormalIs
<1> QED
  BY <1>3, <1>4, <1>5

(* The smaller magnitude is subtracted from the larger. *)
LEMMA SubtractAbsIs ==
  ASSUME NEW x \in BigIntegers, NEW y \in BigIntegers, NEW neg \in BOOLEAN,
         Size(x.mag) >= Size(y.mag), ValueOf(x.mag) >= ValueOf(y.mag)
  PROVE  /\ SubtractAbs(x, y, neg) \in BigIntegers
         /\ Is(SubtractAbs(x, y, neg), IF neg THEN -(ValueOf(x.mag) - ValueOf(y.mag))
                                       ELSE ValueOf(x.mag) - ValueOf(y.mag))
<1> DEFINE s == SubtractDigits(x.mag, y.mag)
<1>1. x.mag \in Magnitudes /\ y.mag \in Magnitudes
  BY DEF BigIntegers
<1>2. SubtractAbs(x, y, neg) = Normal(neg, s)
  BY DEF SubtractAbs
<1>3. s \in Magnitudes /\ ValueOf(s) = ValueOf(x.mag) - ValueOf(y.mag)
  BY <1>1, SubtractDigitsIs
<1> HIDE DEF s
<1>4. Normal(neg, s) \in BigIntegers /\ Is(Normal(neg, s), IF neg THEN -ValueOf(s) ELSE ValueOf(s))
  BY <1>3, NormalIs
<1> QED
  BY <1>2, <1>3, <1>4

(* Magnitudes of two integers, and which is the larger. *)
LEMMA MagnitudesCompared ==
  ASSUME NEW x \in BigIntegers, NEW y \in BigIntegers, NEW m \in Int, NEW n \in Int,
         Is(x, m), Is(y, n)
  PROVE  /\ CompareDigits(x.mag, y.mag) \in Int
         /\ CompareDigits(x.mag, y.mag) > 0 => ValueOf(x.mag) > ValueOf(y.mag)
         /\ CompareDigits(x.mag, y.mag) = 0 => ValueOf(x.mag) = ValueOf(y.mag)
         /\ CompareDigits(x.mag, y.mag) < 0 => ValueOf(x.mag) < ValueOf(y.mag)
         /\ CompareDigits(x.mag, y.mag) >= 0 =>
              Size(x.mag) >= Size(y.mag) /\ ValueOf(x.mag) >= ValueOf(y.mag)
         /\ ~(CompareDigits(x.mag, y.mag) >= 0) =>
              Size(y.mag) >= Size(x.mag) /\ ValueOf(y.mag) >= ValueOf(x.mag)
<1>1. /\ x.mag \in Magnitudes /\ y.mag \in Magnitudes /\ Trimmed(x.mag) /\ Trimmed(y.mag)
      /\ ValueOf(x.mag) \in Nat /\ ValueOf(y.mag) \in Nat
  BY IsAs
<1>2. Size(x.mag) \in Nat /\ Size(y.mag) \in Nat
  BY <1>1, MagnitudeIs
<1> DEFINE a == x.mag
           b == y.mag
           c == CompareDigits(a, b)
<1>3. a \in Magnitudes /\ b \in Magnitudes /\ Trimmed(a) /\ Trimmed(b)
  BY <1>1
<1> HIDE DEF a, b
<1>4. /\ c \in Int
      /\ c > 0 => ValueOf(a) > ValueOf(b) /\ Size(a) >= Size(b)
      /\ c < 0 => ValueOf(b) > ValueOf(a) /\ Size(b) >= Size(a)
      /\ c = 0 => ValueOf(a) = ValueOf(b) /\ Size(a) = Size(b)
  BY <1>3, CompareDigitsIs
<1>5. ValueOf(a) \in Nat /\ ValueOf(b) \in Nat /\ Size(a) \in Nat /\ Size(b) \in Nat
  BY <1>1, <1>2 DEF a, b
<1> HIDE DEF c
<1>6. /\ c = 0 => ValueOf(a) = ValueOf(b)
      /\ c < 0 => ValueOf(a) < ValueOf(b)
      /\ c >= 0 => Size(a) >= Size(b) /\ ValueOf(a) >= ValueOf(b)
      /\ ~(c >= 0) => Size(b) >= Size(a) /\ ValueOf(b) >= ValueOf(a)
  BY <1>4, <1>5
<1> QED
  BY <1>4, <1>6 DEF a, b, c

(* The sum of two integers of any size is their sum. *)
THEOREM SumsAreExact ==
  ASSUME NEW x \in BigIntegers, NEW y \in BigIntegers, NEW m \in Int, NEW n \in Int,
         Is(x, m), Is(y, n)
  PROVE  Add(x, y) \in BigIntegers /\ Is(Add(x, y), m + n)
<1> DEFINE u == ValueOf(x.mag)
           v == ValueOf(y.mag)
           c == CompareDigits(x.mag, y.mag)
<1>1. /\ x.neg \in BOOLEAN /\ u \in Nat /\ (Used(x) = 0 <=> m = 0)
      /\ x.neg => m = -u
      /\ ~x.neg => m = u
  BY IsAs
<1>2. /\ y.neg \in BOOLEAN /\ v \in Nat /\ (Used(y) = 0 <=> n = 0)
      /\ y.neg => n = -v
      /\ ~y.neg => n = v
  BY IsAs
<1>3. CASE Used(x) = 0
  <2>1. Add(x, y) = y /\ m + n = n
    BY <1>1, <1>3 DEF Add
  <2> QED
    BY <2>1
<1>4. CASE Used(x) # 0 /\ Used(y) = 0
  <2>1. Add(x, y) = x /\ m + n = m
    BY <1>2, <1>4 DEF Add
  <2> QED
    BY <2>1
<1>5. CASE Used(x) # 0 /\ Used(y) # 0 /\ x.neg = y.neg
  <2>1. Add(x, y) = AddAbs(x, y, x.neg)
    BY <1>5 DEF Add
  <2>2. /\ AddAbs(x, y, x.neg) \in BigIntegers
        /\ Is(AddAbs(x, y, x.neg), IF x.neg THEN -(u + v) ELSE u + v)
    BY <1>1, AddAbsIs
  <2>3. m + n = IF x.neg THEN -(u + v) ELSE u + v
    <3> HIDE DEF u, v
    <3> QED
      BY <1>1, <1>2, <1>5
  <2> QED
    BY <2>1, <2>2, <2>3
<1>6. CASE Used(x) # 0 /\ Used(y) # 0 /\ x.neg # y.neg /\ c >= 0
  <2>1. Add(x, y) = SubtractAbs(x, y, x.neg)
    BY <1>6 DEF Add
  <2>2. Size(x.mag) >= Size(y.mag) /\ u >= v
    BY <1>6, MagnitudesCompared
  <2>3. /\ SubtractAbs(x, y, x.neg) \in BigIntegers
        /\ Is(SubtractAbs(x, y, x.neg), IF x.neg THEN -(u - v) ELSE u - v)
    BY <1>1, <2>2, SubtractAbsIs
  <2>4. m + n = IF x.neg THEN -(u - v) ELSE u - v
    <3> HIDE DEF u, v
    <3> QED
      BY <1>1, <1>2, <1>6
  <2> QED
    BY <2>1, <2>3, <2>4
<1>7. CASE Used(x) # 0 /\ Used(y) # 0 /\ x.neg # y.neg /\ ~(c >= 0)
  <2>1. Add(x, y) = SubtractAbs(y, x, ~x.neg)
    BY <1>7 DEF Add
  <2>2. Size(y.mag) >= Size(x.mag) /\ v >= u
    BY <1>7, MagnitudesCompared
  <2>3. /\ SubtractAbs(y, x, ~x.neg) \in BigIntegers
        /\ Is(SubtractAbs(y, x, ~x.neg), IF ~x.neg THEN -(v - u) ELSE v - u)
    BY <1>1, <2>2, SubtractAbsIs
  <2>4. m + n = IF ~x.neg THEN -(v - u) ELSE v - u
    <3> HIDE DEF u, v
    <3> QED
      BY <1>1, <1>2, <1>7
  <2> QED
    BY <2>1, <2>3, <2>4
<1> QED
  BY <1>3, <1>4, <1>5, <1>6, <1>7

(* The difference of two integers of any size is their difference. *)
THEOREM DifferencesAreExact ==
  ASSUME NEW x \in BigIntegers, NEW y \in BigIntegers, NEW m \in Int, NEW n \in Int,
         Is(x, m), Is(y, n)
  PROVE  Subtract(x, y) \in BigIntegers /\ Is(Subtract(x, y), m - n)
<1> DEFINE u == ValueOf(x.mag)
           v == ValueOf(y.mag)
           c == CompareDigits(x.mag, y.mag)
<1>1. /\ x.neg \in BOOLEAN /\ u \in Nat /\ (Used(x) = 0 <=> m = 0)
      /\ x.neg => m = -u
      /\ ~x.neg => m = u
  BY IsAs
<1>2. /\ y.neg \in BOOLEAN /\ v \in Nat /\ (Used(y) = 0 <=> n = 0)
      /\ y.neg => n = -v
      /\ ~y.neg => n = v
  BY IsAs
<1>3. CASE Used(x) = 0
  <2>1. Subtract(x, y) = Negated(y) /\ m - n = -n
    BY <1>1, <1>3 DEF Subtract
  <2> QED
    BY <2>1, NegatedIs
<1>4. CASE Used(x) # 0 /\ Used(y) = 0
  <2>1. Subtract(x, y) = x /\ m - n = m
    BY <1>2, <1>4 DEF Subtract
  <2> QED
    BY <2>1
<1>5. CASE Used(x) # 0 /\ Used(y) # 0 /\ x.neg # y.neg
  <2>1. Subtract(x, y) = AddAbs(x, y, x.neg)
    BY <1>5 DEF Subtract
  <2>2. /\ AddAbs(x, y, x.neg) \in BigIntegers
        /\ Is(AddAbs(x, y, x.neg), IF x.neg THEN -(u + v) ELSE u + v)
    BY <1>1, AddAbsIs
  <2>3. m - n = IF x.neg THEN -(u + v) ELSE u + v
    <3> HIDE DEF u, v
    <3> QED
      BY <1>1, <1>2, <1>5
  <2> QED
    BY <2>1, <2>2, <2>3
<1>6. CASE Used(x) # 0 /\ Used(y) # 0 /\ x.neg = y.neg /\ c >= 0
  <2>1. Subtract(x, y) = SubtractAbs(x, y, x.neg)
    BY <1>6 DEF Subtract
  <2>2. Size(x.mag) >= Size(y.mag) /\ u >= v
    BY <1>6, MagnitudesCompared
  <2>3. /\ SubtractAbs(x, y, x.neg) \in BigIntegers
        /\ Is(SubtractAbs(x, y, x.neg), IF x.neg THEN -(u - v) ELSE u - v)
    BY <1>1, <2>2, SubtractAbsIs
  <2>4. m - n = IF x.neg THEN -(u - v) ELSE u - v
    <3> HIDE DEF u, v
    <3> QED
      BY <1>1, <1>2, <1>6
  <2> QED
    BY <2>1, <2>3, <2>4
<1>7. CASE Used(x) # 0 /\ Used(y) # 0 /\ x.neg = y.neg /\ ~(c >= 0)
  <2>1. Subtract(x, y) = SubtractAbs(y, x, ~x.neg)
    BY <1>7 DEF Subtract
  <2>2. Size(y.mag) >= Size(x.mag) /\ v >= u
    BY <1>7, MagnitudesCompared
  <2>3. /\ SubtractAbs(y, x, ~x.neg) \in BigIntegers
        /\ Is(SubtractAbs(y, x, ~x.neg), IF ~x.neg THEN -(v - u) ELSE v - u)
    BY <1>1, <2>2, SubtractAbsIs
  <2>4. m - n = IF ~x.neg THEN -(v - u) ELSE v - u
    <3> HIDE DEF u, v
    <3> QED
      BY <1>1, <1>2, <1>7
  <2> QED
    BY <2>1, <2>3, <2>4
<1> QED
  BY <1>3, <1>4, <1>5, <1>6, <1>7

(* Two integers of any size are compared as they are. *)
THEOREM ComparisonsAreExact ==
  ASSUME NEW x \in BigIntegers, NEW y \in BigIntegers, NEW m \in Int, NEW n \in Int,
         Is(x, m), Is(y, n)
  PROVE  Sign(Compare(x, y)) = Sign(m - n)
<1> DEFINE u == ValueOf(x.mag)
           v == ValueOf(y.mag)
           c == CompareDigits(x.mag, y.mag)
           k == Compare(x, y)
<1>1. /\ x.neg \in BOOLEAN /\ u \in Nat /\ (x.neg <=> m < 0)
      /\ x.neg => m = -u
      /\ ~x.neg => m = u
  BY IsAs
<1>2. /\ y.neg \in BOOLEAN /\ v \in Nat /\ (y.neg <=> n < 0)
      /\ y.neg => n = -v
      /\ ~y.neg => n = v
  BY IsAs
<1>3. c \in Int /\ (c > 0 => u > v) /\ (c = 0 => u = v) /\ (c < 0 => u < v)
  BY MagnitudesCompared
<1>4. k = IF x.neg # y.neg THEN IF x.neg THEN -1 ELSE 1 ELSE IF x.neg THEN -c ELSE c
  BY DEF Compare
<1> HIDE DEF u, v, c, k
<1>5. k \in Int /\ (k > 0 => m > n) /\ (k < 0 => m < n) /\ (k = 0 => m = n)
  <2>1. CASE x.neg # y.neg
    BY <1>1, <1>2, <1>4, <2>1
  <2>2. CASE x.neg = y.neg /\ ~x.neg
    BY <1>1, <1>2, <1>3, <1>4, <2>2
  <2>3. CASE x.neg = y.neg /\ x.neg
    <3>1. k = -c
      BY <1>4, <2>3
    <3>2. c = 0 \/ (c # 0 /\ k # 0)
      BY <1>3, <3>1
    <3> QED
      BY <1>1, <1>2, <1>3, <2>3, <3>1, <3>2
  <2> QED
    BY <1>1, <1>2, <2>1, <2>2, <2>3
<1>6. Sign(k) = Sign(m - n)
  BY <1>5 DEF Sign
<1> QED
  BY <1>6 DEF k

(* The carry of a product and two digits is a digit. *)
LEMMA CarryOfProduct ==
  ASSUME NEW d \in 0..(Base - 1), NEW f \in 0..(Base - 1), NEW b \in 0..(Base - 1), NEW c \in 0..(Base - 1)
  PROVE  /\ d + f * b \in Nat /\ d + f * b + c \in Nat
         /\ (d + f * b + c) \div Base \in 0..(Base - 1)
<1> DEFINE s == d + f * b + c
           q == s \div Base
<1>0. Base \in Nat /\ Base > 1
  BY DigitsAssumption
<1>1. f * b \in Nat /\ f * b <= (Base - 1) * (Base - 1)
  <2>1. \A x, y, z \in Nat : x <= z /\ y <= z => x * y \in Nat /\ x * y <= z * z
    OBVIOUS
  <2>2. f \in Nat /\ b \in Nat /\ Base - 1 \in Nat /\ f <= Base - 1 /\ b <= Base - 1
    BY <1>0
  <2> QED
    BY <2>1, <2>2
<1>2. (Base - 1) * (Base - 1) = Base * Base - 2 * Base + 1 /\ Base * Base \in Nat
  <2>1. \A x \in Nat : (x - 1) * (x - 1) = x * x - 2 * x + 1 /\ x * x \in Nat
    OBVIOUS
  <2> QED
    BY <1>0, <2>1
<1>3. d + f * b \in Nat /\ s \in Nat /\ s < Base * Base
  <2> DEFINE p == f * b
             r == Base * Base
             t == (Base - 1) * (Base - 1)
  <2>1. p \in Nat /\ p <= t /\ t = r - 2 * Base + 1 /\ r \in Nat
    BY <1>1, <1>2
  <2> HIDE DEF p, r, t
  <2>2. d + p \in Nat /\ d + p + c \in Nat /\ d + p + c < r
    BY <1>0, <2>1
  <2> QED
    BY <2>2 DEF p, r
<1> HIDE DEF s
<1>4. q \in Nat /\ s % Base \in 0..(Base - 1) /\ s = (s % Base) + Base * q
  BY <1>3, DivisionIs
<1> HIDE DEF q
<1>5. q < Base
  <2> SUFFICES ASSUME q >= Base PROVE FALSE
    BY <1>0, <1>4
  <2>1. \A x, y \in Nat : x >= y => y * x >= y * y /\ y * x \in Nat
    OBVIOUS
  <2>2. Base * q >= Base * Base /\ Base * q \in Nat
    BY <1>0, <1>4, <2>1
  <2>3. s >= Base * q
    BY <1>0, <1>4, <2>2
  <2> QED
    BY <1>2, <1>3, <2>2, <2>3
<1> QED
  BY <1>0, <1>3, <1>4, <1>5 DEF q, s

(* The values from a place on are the values of the digits from there on.  *)
LEMMA ValuesFrom ==
  ASSUME NEW n \in Nat, NEW d, NEW v, AreValues(v, d, n), NEW e \in 0..n
  PROVE  AreValues([i \in 0..(n - e) |-> v[e + i]], [i \in 0..(n - e - 1) |-> d[e + i]], n - e)
<1>1. d \in [0..(n - 1) -> Int] /\ v \in [0..n -> Int] /\ v[n] = 0
      /\ \A i \in 0..(n - 1) : v[i] = d[i] + Base * v[i + 1]
  BY DEF AreValues
<1> DEFINE m == n - e
           w == [i \in 0..m |-> v[e + i]]
           p == [i \in 0..(m - 1) |-> d[e + i]]
<1>2. m \in Nat /\ e + m = n /\ e \in Nat
  OBVIOUS
<1>3. /\ \A i \in 0..m : e + i \in 0..n
      /\ \A i \in 0..(m - 1) : e + i \in 0..(n - 1) /\ e + (i + 1) = (e + i) + 1 /\ i + 1 \in 0..m /\ i \in 0..m
  OBVIOUS
<1> HIDE DEF m
<1>4. w \in [0..m -> Int] /\ p \in [0..(m - 1) -> Int]
  BY <1>1, <1>3
<1>5. w[m] = 0
  BY <1>1, <1>2
<1>6. ASSUME NEW i \in 0..(m - 1) PROVE w[i] = p[i] + Base * w[i + 1]
  <2>1. w[i] = v[e + i] /\ p[i] = d[e + i] /\ w[i + 1] = v[(e + i) + 1]
    BY <1>3
  <2> DEFINE j == e + i
  <2>2. j \in 0..(n - 1)
    BY <1>3
  <2> HIDE DEF w, p, j
  <2>3. v[j] = d[j] + Base * v[j + 1]
    BY <1>1, <2>2
  <2> QED
    BY <2>1, <2>3 DEF j
<1> HIDE DEF w, p
<1>7. AreValues(w, p, m)
  BY <1>4, <1>5, <1>6 DEF AreValues
<1> QED
  BY <1>7 DEF m, w, p

(* Adding a multiple leaves digits. *)
LEMMA AddMultipleKind ==
  ASSUME NEW n \in Nat, NEW d \in [0..(n - 1) -> 0..(Base - 1)], NEW b \in Magnitudes,
         NEW f \in 0..(Base - 1), NEW e \in Nat
  PROVE  /\ [i \in 0..(n - 1) |-> d[i] + f * At(b, i - e)] \in [0..(n - 1) -> Nat]
         /\ AddMultiple(f, b, d, e) = Carried([i \in 0..(n - 1) |-> d[i] + f * At(b, i - e)])
         /\ AddMultiple(f, b, d, e) \in [0..(n - 1) -> 0..(Base - 1)]
<1> DEFINE x == [i \in 0..(n - 1) |-> d[i] + f * At(b, i - e)]
<1>1. \A i \in 0..(n - 1) : x[i] \in Nat
  <2> TAKE i \in 0..(n - 1)
  <2>1. At(b, i - e) \in 0..(Base - 1) /\ d[i] \in 0..(Base - 1) /\ 0 \in 0..(Base - 1)
    BY AtIs, DigitsAssumption
  <2>2. d[i] + f * At(b, i - e) \in Nat
    BY <2>1, CarryOfProduct
  <2> QED
    BY <2>2
<1>2. x \in [0..(n - 1) -> Nat]
  BY <1>1
<1>3. AddMultiple(f, b, d, e) = Carried(x)
  BY DEF AddMultiple
<1>4. Carried(x) \in [0..(n - 1) -> 0..(Base - 1)]
  <2> HIDE DEF x
  <2> QED
    BY <1>2, CarriedIs
<1> QED
  BY <1>2, <1>3, <1>4

(* f * b can be added to d from place e on: d has zeros above the places   *)
(* of b, and one place more than b at least.                               *)
HasRoom(f, b, d, e, n) ==
  /\ d \in [0..(n - 1) -> 0..(Base - 1)] /\ f \in 0..(Base - 1)
  /\ e + Size(b) < n /\ \A i \in (e + Size(b))..(n - 1) : d[i] = 0

(* It stays within one place more than b has, and the value from place e   *)
(* on is that with the multiple.                                           *)
LEMMA AddMultipleIs ==
  ASSUME NEW n \in Nat, NEW b \in Magnitudes, NEW d, NEW f, NEW e \in Nat,
         HasRoom(f, b, d, e, n), NEW v, AreValues(v, d, n), NEW w, AreValues(w, AddMultiple(f, b, d, e), n)
  PROVE  /\ \A i \in 0..(e - 1) : AddMultiple(f, b, d, e)[i] = d[i]
         /\ \A i \in (e + Size(b) + 1)..(n - 1) : AddMultiple(f, b, d, e)[i] = 0
         /\ w[e] = v[e] + f * ValueOf(b)
<1> DEFINE m == Size(b)
           s == [i \in 0..(n - 1) |-> At(b, i - e)]
           q == [i \in 0..(n - 1) |-> f * s[i]]
           x == [i \in 0..(n - 1) |-> d[i] + f * At(b, i - e)]
           r == AddMultiple(f, b, d, e)
<1>0. /\ d \in [0..(n - 1) -> 0..(Base - 1)] /\ f \in 0..(Base - 1)
      /\ e + m < n /\ \A i \in (e + m)..(n - 1) : d[i] = 0
  BY DEF HasRoom
<1>1. /\ m \in Nat /\ \A i \in Int : ~(i \in 0..(m - 1)) => At(b, i) = 0
  BY MagnitudeIs
<1>2. /\ x \in [0..(n - 1) -> Nat]
      /\ r = Carried(x)
      /\ r \in [0..(n - 1) -> 0..(Base - 1)]
  BY <1>0, AddMultipleKind
<1>3. \A i \in 0..(n - 1) :
        /\ d[i] \in 0..(Base - 1) /\ At(b, i - e) \in 0..(Base - 1) /\ At(b, i - e) \in Int
        /\ s[i] = At(b, i - e) /\ q[i] = f * At(b, i - e) /\ x[i] = d[i] + f * At(b, i - e)
  <2> TAKE i \in 0..(n - 1)
  <2>1. i - e \in Int /\ d[i] \in 0..(Base - 1)
    BY <1>0
  <2>2. At(b, i - e) \in 0..(Base - 1) /\ At(b, i - e) \in Int
    BY <2>1, AtIs
  <2>3. s[i] = At(b, i - e) /\ q[i] = f * At(b, i - e) /\ x[i] = d[i] + f * At(b, i - e)
    OBVIOUS
  <2> QED
    BY <2>1, <2>2, <2>3
<1>4. \A i \in 0..(n - 1) : ~(i \in e..(e + m - 1)) => At(b, i - e) = 0 /\ x[i] = d[i]
  <2> TAKE i \in 0..(n - 1)
  <2> SUFFICES ASSUME ~(i \in e..(e + m - 1)) PROVE At(b, i - e) = 0 /\ x[i] = d[i]
    OBVIOUS
  <2>1. i - e \in Int /\ ~(i - e \in 0..(m - 1))
    BY <1>1
  <2>2. At(b, i - e) = 0
    BY <1>1, <2>1
  <2>3. f * 0 = 0 /\ d[i] \in Int
    BY <1>0, <1>3, DigitsAssumption
  <2> QED
    BY <1>3, <2>2, <2>3
<1>5. PICK c : AreCarries(c, x, n)
  <2> HIDE DEF x
  <2> QED
    BY <1>2, CarriedIs
<1> HIDE DEF s, q, x, r, m
<1>6. /\ c \in [0..n -> Nat] /\ c[0] = 0
      /\ \A i \in 0..(n - 1) : c[i + 1] = (x[i] + c[i]) \div Base /\ r[i] = (x[i] + c[i]) % Base
  BY <1>2, <1>5 DEF AreCarries
<1>7. \A y \in 0..(Base - 1) : (y + 0) \div Base = 0 /\ (y + 0) % Base = y
  BY DigitsAssumption
<1>8. \A i \in 0..e : c[i] = 0
  <2> DEFINE S == {i \in 0..e : c[i] = 0}
  <2>1. 0 \in S
    BY <1>6
  <2>2. ASSUME NEW k \in 1..e, k - 1 \in S PROVE k \in S
    <3>1. k - 1 \in 0..(n - 1) /\ (k - 1) + 1 = k /\ ~(k - 1 \in e..(e + m - 1)) /\ k \in 0..e
      BY <1>0, <1>1
    <3>2. c[k] = (x[k - 1] + c[k - 1]) \div Base /\ c[k - 1] = 0
      BY <1>6, <2>2, <3>1
    <3>3. x[k - 1] = d[k - 1] /\ d[k - 1] \in 0..(Base - 1)
      BY <1>3, <1>4, <3>1
    <3> QED
      BY <1>7, <3>1, <3>2, <3>3
  <2> HIDE DEF S
  <2>3. \A i \in 0..e : i \in S
    BY <2>1, <2>2, UpTo
  <2> QED
    BY <2>3 DEF S
<1>9. \A i \in 0..(e - 1) : r[i] = d[i]
  <2> TAKE i \in 0..(e - 1)
  <2>1. i \in 0..(n - 1) /\ i \in 0..e /\ ~(i \in e..(e + m - 1))
    BY <1>0, <1>1
  <2>2. r[i] = (d[i] + 0) % Base /\ d[i] \in 0..(Base - 1)
    BY <1>3, <1>4, <1>6, <1>8, <2>1
  <2> QED
    BY <1>7, <2>2
<1>10. \A i \in 0..n : c[i] \in 0..(Base - 1)
  <2> DEFINE S == {i \in 0..n : c[i] \in 0..(Base - 1)}
  <2>1. 0 \in S
    BY <1>6, DigitsAssumption
  <2>2. ASSUME NEW k \in 1..n, k - 1 \in S PROVE k \in S
    <3>1. k - 1 \in 0..(n - 1) /\ (k - 1) + 1 = k /\ k \in 0..n
      OBVIOUS
    <3>2. c[k] = (d[k - 1] + f * At(b, (k - 1) - e) + c[k - 1]) \div Base
      BY <1>3, <1>6, <3>1
    <3>3. d[k - 1] \in 0..(Base - 1) /\ At(b, (k - 1) - e) \in 0..(Base - 1) /\ c[k - 1] \in 0..(Base - 1)
      BY <1>3, <2>2, <3>1
    <3>4. c[k] \in 0..(Base - 1)
      <4> DEFINE dk == d[k - 1]
                 bk == At(b, (k - 1) - e)
                 ck == c[k - 1]
      <4>1. /\ dk \in 0..(Base - 1) /\ bk \in 0..(Base - 1) /\ ck \in 0..(Base - 1)
            /\ c[k] = (dk + f * bk + ck) \div Base
        BY <3>2, <3>3
      <4> HIDE DEF dk, bk, ck
      <4>2. (dk + f * bk + ck) \div Base \in 0..(Base - 1)
        BY <1>0, <4>1, CarryOfProduct
      <4> QED
        BY <4>1, <4>2
    <3> QED
      BY <3>1, <3>4
  <2> HIDE DEF S
  <2>3. \A i \in 0..n : i \in S
    BY <2>1, <2>2, UpTo
  <2> QED
    BY <2>3 DEF S
<1>11. \A i \in (e + m)..(n - 1) : i \in 0..(n - 1) /\ i \in 0..n /\ x[i] = 0
  <2> TAKE i \in (e + m)..(n - 1)
  <2>1. i \in 0..(n - 1) /\ ~(i \in e..(e + m - 1)) /\ i \in 0..n
    BY <1>1
  <2>2. d[i] = 0
    BY <1>0
  <2> QED
    BY <1>4, <2>1, <2>2
<1>12. \A i \in (e + m + 1)..n : c[i] = 0
  <2> TAKE i \in (e + m + 1)..n
  <2>1. i - 1 \in (e + m)..(n - 1) /\ (i - 1) + 1 = i
    BY <1>1
  <2>2. c[i] = (0 + c[i - 1]) \div Base /\ c[i - 1] \in 0..(Base - 1)
    BY <1>6, <1>10, <1>11, <2>1
  <2>3. 0 + c[i - 1] = c[i - 1] + 0
    BY <2>2
  <2> QED
    BY <1>7, <2>2, <2>3
<1>13. c[n] = 0
  <2>1. n \in (e + m + 1)..n
    BY <1>0, <1>1
  <2> QED
    BY <1>12, <2>1
<1>14. \A i \in (e + m + 1)..(n - 1) : r[i] = 0
  <2> TAKE i \in (e + m + 1)..(n - 1)
  <2>1. i \in (e + m)..(n - 1) /\ i \in (e + m + 1)..n /\ i \in 0..(n - 1)
    BY <1>1, <1>11
  <2>2. r[i] = (0 + 0) % Base
    BY <1>6, <1>11, <1>12, <2>1
  <2>3. 0 \in 0..(Base - 1)
    BY DigitsAssumption
  <2> QED
    BY <1>7, <2>2, <2>3
<1>15. s \in [0..(n - 1) -> Int]
  BY <1>3 DEF s
<1>16. PICK y : AreValues(y, s, n)
  BY <1>15, ValuesExist
<1> DEFINE z == [i \in 0..n |-> f * y[i]]
<1>17. AreValues(z, q, n)
  <2>1. f \in Int
    BY <1>0, DigitsAssumption
  <2> QED
    BY <1>16, <2>1, ValuesMultiply DEF q
<1>18. AreSums(x, d, q, n)
  BY <1>3 DEF AreSums, x
<1>19. PICK u : AreValues(u, x, n)
  <2>1. x \in [0..(n - 1) -> Int]
    BY <1>2
  <2> QED
    BY <2>1, ValuesExist
<1>20. \A i \in 0..n : u[i] = v[i] + z[i]
  <2> HIDE DEF z
  <2> QED
    BY <1>17, <1>18, <1>19, ValuesOfSums
<1>21. \A i \in 0..n : u[i] + c[i] = w[i]
  <2>1. AreValues(w, Carried(x), n)
    BY <1>2 DEF r
  <2> QED
    BY <1>2, <1>5, <1>13, <1>19, <2>1, ValuesOfCarried
<1>22. e \in 0..n /\ e \in 0..e /\ n - e \in Nat /\ n - e >= m
  BY <1>0, <1>1
<1>23. y[e] = ValueOf(b)
  <2> DEFINE k == n - e
             t == [i \in 0..k |-> y[e + i]]
             p == [i \in 0..(k - 1) |-> s[e + i]]
  <2>1. AreValues(t, p, k)
    BY <1>16, <1>22, ValuesFrom
  <2>2. \A i \in 0..(k - 1) : p[i] = At(b, i)
    <3> TAKE i \in 0..(k - 1)
    <3>1. e + i \in 0..(n - 1) /\ (e + i) - e = i
      BY <1>22
    <3> QED
      BY <1>3, <3>1
  <2>3. t[0] = y[e]
    BY <1>22
  <2>4. k \in Nat /\ k >= Size(b)
    BY <1>22 DEF m
  <2> HIDE DEF k, t, p
  <2>5. ArePlaces(p, b, k)
    BY <2>2 DEF ArePlaces
  <2>6. t[0] = ValueOf(b)
    BY <2>1, <2>4, <2>5, PaddedValue
  <2> QED
    BY <2>3, <2>6
<1>24. w[e] = v[e] + f * ValueOf(b)
  <2>1. w[e] \in Int /\ u[e] \in Int /\ c[e] = 0
    BY <1>8, <1>19, <1>22 DEF AreValues
  <2>2. u[e] + c[e] = w[e] /\ u[e] = v[e] + z[e] /\ z[e] = f * y[e]
    BY <1>20, <1>21, <1>22
  <2> QED
    BY <1>23, <2>1, <2>2
<1> QED
  BY <1>9, <1>14, <1>24 DEF r, m

(* Values of n digits. *)
ValuesOf(d, n) == CHOOSE v : AreValues(v, d, n)

(* Digits have values. *)
LEMMA ValuesOfIs ==
  ASSUME NEW n \in Nat, NEW d \in [0..(n - 1) -> 0..(Base - 1)]
  PROVE  AreValues(ValuesOf(d, n), d, n)
<1>1. d \in [0..(n - 1) -> Int]
  BY DigitsAssumption
<1>2. \E v : AreValues(v, d, n)
  BY <1>1, ValuesExist
<1> QED
  BY <1>2 DEF ValuesOf

(* What Multiply adds up: the multiples of a by the digits of b.           *)
AreProducts(s, a, b) ==
  LET n == Size(a) + Size(b) IN
  /\ s \in [0..Size(b) -> [0..(n - 1) -> 0..(Base - 1)]] /\ s[0] = Zeros(n)
  /\ \A k \in 1..Size(b) : s[k] = AddMultiple(b[k - 1], a, s[k - 1], k - 1)

(* Multiply adds them up. *)
LEMMA ProductsAre ==
  ASSUME NEW x \in BigIntegers, NEW y \in BigIntegers
  PROVE  \E s : AreProducts(s, x.mag, y.mag)
                /\ Multiply(x, y) = Normal(x.neg # y.neg, s[Size(y.mag)])
<1> DEFINE a == x.mag
           b == y.mag
           m == Size(b)
           n == Size(a) + m
           D == [0..(n - 1) -> 0..(Base - 1)]
           Took(f) == f = [k \in 0..m |-> IF k = 0 THEN Zeros(n)
                                          ELSE AddMultiple(b[k - 1], a, f[k - 1], k - 1)]
           g == CHOOSE f : Took(f)
           G == [k \in 1..m |-> [d \in D |-> AddMultiple(b[k - 1], a, d, k - 1)]]
           o == Zeros(n)
<1>1. a \in Magnitudes /\ b \in Magnitudes
  BY DEF BigIntegers
<1>2. Multiply(x, y) = Normal(x.neg # y.neg, g[m])
  BY DEF Multiply, Used
<1>3. m \in Nat /\ n \in Nat /\ b \in [0..(m - 1) -> 0..(Base - 1)]
  <2> HIDE DEF a, b
  <2>1. m \in Nat /\ Size(a) \in Nat /\ b \in [0..(m - 1) -> 0..(Base - 1)]
    BY <1>1, MagnitudeIs
  <2> QED
    BY <2>1
<1> HIDE DEF a, b, m, n, o, D
<1>4. o \in D
  <2>1. 0 \in 0..(Base - 1)
    BY DigitsAssumption
  <2> QED
    BY <2>1 DEF o, D, Zeros
<1>5. \A k \in 1..m : \A d \in D : AddMultiple(b[k - 1], a, d, k - 1) \in D
  <2> TAKE k \in 1..m
  <2> TAKE d \in D
  <2>1. b[k - 1] \in 0..(Base - 1) /\ k - 1 \in Nat
    BY <1>3
  <2>2. d \in [0..(n - 1) -> 0..(Base - 1)]
    BY DEF D
  <2>3. AddMultiple(b[k - 1], a, d, k - 1) \in [0..(n - 1) -> 0..(Base - 1)]
    BY <1>1, <1>3, <2>1, <2>2, AddMultipleKind
  <2> QED
    BY <2>3 DEF D
<1>6. G \in [1..m -> [D -> D]]
  BY <1>5
<1>7. PICK f \in [0..m -> D] : f[0] = o /\ \A k \in 1..m : f[k] = G[k][f[k - 1]]
  <2> HIDE DEF G
  <2>1. CanStep(m, D, o, G)
    BY <1>3, <1>4, <1>6, StepsAreTaken
  <2> QED
    BY <2>1 DEF CanStep
<1>8. \A k \in 1..m : f[k] = AddMultiple(b[k - 1], a, f[k - 1], k - 1)
  <2> TAKE k \in 1..m
  <2>1. f[k - 1] \in D
    BY <1>3, <1>7
  <2>2. G[k][f[k - 1]] = AddMultiple(b[k - 1], a, f[k - 1], k - 1)
    BY <2>1
  <2> HIDE DEF G
  <2> QED
    BY <1>7, <2>2
<1> HIDE DEF G
<1>9. Took(f)
  <2>1. \A k \in 0..m : k # 0 => k \in 1..m
    BY <1>3
  <2>2. \A k \in 0..m : f[k] = IF k = 0 THEN o ELSE AddMultiple(b[k - 1], a, f[k - 1], k - 1)
    BY <1>7, <1>8, <2>1
  <2> QED
    BY <1>7, <2>2 DEF o
<1>10. Took(g)
  <2> HIDE DEF Took
  <2> QED
    BY <1>9
<1> HIDE DEF g
<1>11. \A k \in 0..m : g[k] = f[k]
  <2> DEFINE S == {k \in 0..m : g[k] = f[k]}
  <2>0. g = [k \in 0..m |-> IF k = 0 THEN o ELSE AddMultiple(b[k - 1], a, g[k - 1], k - 1)]
    BY <1>10 DEF o
  <2>1. 0 \in S
    BY <1>3, <1>7, <2>0
  <2>2. ASSUME NEW k \in 1..m, k - 1 \in S PROVE k \in S
    <3>1. k \in 0..m /\ k # 0 /\ g[k - 1] = f[k - 1]
      BY <1>3, <2>2
    <3>2. g[k] = AddMultiple(b[k - 1], a, g[k - 1], k - 1)
      BY <2>0, <3>1
    <3>3. g[k] = f[k]
      BY <1>8, <3>1, <3>2
    <3> QED
      BY <3>1, <3>3
  <2> HIDE DEF S
  <2>3. \A k \in 0..m : k \in S
    BY <1>3, <2>1, <2>2, UpTo
  <2> QED
    BY <2>3 DEF S
<1>12. Multiply(x, y) = Normal(x.neg # y.neg, f[m])
  BY <1>2, <1>3, <1>11
<1>13. AreProducts(f, a, b)
  BY <1>7, <1>8 DEF AreProducts, m, n, D, o
<1> QED
  BY <1>12, <1>13 DEF a, b, m

(* The digits of a product. *)
LEMMA ProductsValue ==
  ASSUME NEW a \in Magnitudes, NEW b \in Magnitudes, NEW s, AreProducts(s, a, b)
  PROVE  s[Size(b)] \in Magnitudes /\ ValueOf(s[Size(b)]) = ValueOf(a) * ValueOf(b)
<1> DEFINE m == Size(b)
           l == Size(a)
           n == l + m
           D == [0..(n - 1) -> 0..(Base - 1)]
           V(k) == ValuesOf(s[k], n)
           r == s[m]
           va == ValueOf(a)
<1>1. /\ m \in Nat /\ l \in Nat /\ n \in Nat /\ n >= m
      /\ b \in [0..(m - 1) -> 0..(Base - 1)]
  <2>1. m \in Nat /\ l \in Nat /\ b \in [0..(m - 1) -> 0..(Base - 1)]
    BY MagnitudeIs
  <2> QED
    BY <2>1
<1>2. /\ s \in [0..m -> D] /\ s[0] = Zeros(n)
      /\ \A k \in 1..m : s[k] = AddMultiple(b[k - 1], a, s[k - 1], k - 1)
  BY DEF AreProducts
<1>3. va \in Nat
  BY ValueOfIs
<1>4. l + m = n
  OBVIOUS
<1> HIDE DEF m, l, n, va
<1>5. \A k \in 0..m : s[k] \in [0..(n - 1) -> 0..(Base - 1)] /\ AreValues(V(k), s[k], n)
  <2> TAKE k \in 0..m
  <2>1. s[k] \in [0..(n - 1) -> 0..(Base - 1)]
    BY <1>2
  <2> QED
    BY <1>1, <2>1, ValuesOfIs
<1>6. \A k \in 0..m : \A i \in (k + l)..(n - 1) : s[k][i] = 0
  <2> DEFINE S == {k \in 0..m : \A i \in (k + l)..(n - 1) : s[k][i] = 0}
  <2>1. 0 \in S
    <3>1. \A i \in l..(n - 1) : s[0][i] = 0
      BY <1>1, <1>2 DEF Zeros
    <3> QED
      BY <1>1, <3>1
  <2>2. ASSUME NEW k \in 1..m, k - 1 \in S PROVE k \in S
    <3> DEFINE e == k - 1
               d == s[e]
               f == b[e]
    <3>1. /\ e \in Nat /\ e \in 0..m /\ e \in 0..(m - 1) /\ k \in 0..m /\ e + l < n
          /\ e + l + 1 = k + l
      BY <1>1, <1>4
    <3>2. d \in [0..(n - 1) -> 0..(Base - 1)] /\ AreValues(V(e), d, n) /\ f \in 0..(Base - 1)
      BY <1>1, <1>5, <3>1
    <3>3. \A i \in (e + l)..(n - 1) : d[i] = 0
      BY <2>2
    <3>4. s[k] = AddMultiple(f, a, d, e) /\ AreValues(V(k), s[k], n)
      BY <1>2, <1>5, <3>1
    <3> DEFINE v == V(e)
               w == V(k)
    <3>5. AreValues(v, d, n) /\ AreValues(w, AddMultiple(f, a, d, e), n)
      BY <3>2, <3>4
    <3>6. e + Size(a) < n /\ \A i \in (e + Size(a))..(n - 1) : d[i] = 0
      BY <3>1, <3>3 DEF l
    <3> HIDE DEF e, d, f, v, w
    <3>7. HasRoom(f, a, d, e, n)
      BY <3>2, <3>6 DEF HasRoom
    <3>8. \A i \in (e + Size(a) + 1)..(n - 1) : AddMultiple(f, a, d, e)[i] = 0
      BY <1>1, <3>1, <3>5, <3>7, AddMultipleIs
    <3>9. \A i \in (k + l)..(n - 1) : s[k][i] = 0
      BY <3>1, <3>4, <3>8 DEF l
    <3> QED
      BY <3>1, <3>9
  <2> HIDE DEF S
  <2>3. \A k \in 0..m : k \in S
    BY <1>1, <2>1, <2>2, UpTo
  <2> QED
    BY <2>3 DEF S
<1>7. ASSUME NEW k \in 1..m
      PROVE  /\ \A i \in 0..((k - 1) - 1) : s[k][i] = s[k - 1][i]
             /\ V(k)[k - 1] = V(k - 1)[k - 1] + b[k - 1] * va
  <2> DEFINE e == k - 1
             d == s[e]
             f == b[e]
             v == V(e)
             w == V(k)
  <2>1. e \in Nat /\ e \in 0..m /\ e \in 0..(m - 1) /\ k \in 0..m /\ e + l < n
    BY <1>1, <1>4
  <2>2. d \in [0..(n - 1) -> 0..(Base - 1)] /\ AreValues(v, d, n) /\ f \in 0..(Base - 1)
    BY <1>1, <1>5, <2>1
  <2>3. s[k] = AddMultiple(f, a, d, e) /\ AreValues(w, s[k], n)
    BY <1>2, <1>5, <2>1
  <2>4. AreValues(w, AddMultiple(f, a, d, e), n)
    BY <2>3
  <2>5. e + Size(a) < n /\ \A i \in (e + Size(a))..(n - 1) : d[i] = 0
    BY <1>6, <2>1 DEF l
  <2> HIDE DEF e, d, f, v, w
  <2>6. HasRoom(f, a, d, e, n)
    BY <2>2, <2>5 DEF HasRoom
  <2>7. /\ \A i \in 0..(e - 1) : AddMultiple(f, a, d, e)[i] = d[i]
        /\ w[e] = v[e] + f * ValueOf(a)
    BY <1>1, <2>1, <2>2, <2>4, <2>6, AddMultipleIs
  <2> QED
    BY <2>3, <2>7 DEF e, d, f, v, w, va
<1> DEFINE F == V(m)
<1>8. \A k \in 0..m : \A i \in 0..(k - 1) : r[i] = s[k][i]
  <2> DEFINE S == {k \in 0..m : \A i \in 0..(k - 1) : r[i] = s[k][i]}
  <2>1. m \in S
    BY <1>1
  <2>2. ASSUME NEW k \in 0..(m - 1), k + 1 \in S PROVE k \in S
    <3>1. k + 1 \in 1..m /\ (k + 1) - 1 = k /\ k \in 0..m
      BY <1>1
    <3>2. \A i \in 0..(k - 1) : s[k + 1][i] = s[k][i]
      BY <1>7, <3>1
    <3>3. \A i \in 0..(k - 1) : r[i] = s[k + 1][i]
      BY <2>2
    <3> HIDE DEF r
    <3> QED
      BY <3>1, <3>2, <3>3
  <2> HIDE DEF S
  <2>3. \A k \in 0..m : k \in S
    BY <1>1, <2>1, <2>2, Downwards
  <2> QED
    BY <2>3 DEF S
<1>9. PICK vb : AreValues(vb, b, m) /\ vb[0] = ValueOf(b)
  BY ValueOfIs DEF m
<1>10. \A k \in 0..m : F[k] = V(k)[k] + va * vb[k]
  <2> DEFINE S == {k \in 0..m : F[k] = V(k)[k] + va * vb[k]}
  <2>1. m \in S
    <3>1. vb[m] = 0 /\ F[m] \in Int
      BY <1>1, <1>5, <1>9 DEF AreValues
    <3>2. va * 0 = 0
      BY <1>3
    <3> QED
      BY <1>1, <3>1, <3>2
  <2>2. ASSUME NEW e \in 0..(m - 1), e + 1 \in S PROVE e \in S
    <3> DEFINE k == e + 1
               A == V(k)
               B == V(e)
    <3>1. k \in 1..m /\ k - 1 = e /\ k \in 0..m /\ e \in 0..m /\ e \in 0..(n - 1) /\ e \in 0..(k - 1) /\ k \in 0..n
          /\ e \in 0..n /\ m \in 0..m
      BY <1>1
    <3>2. F[k] = A[k] + va * vb[k]
      BY <2>2
    <3>3. F[e] = r[e] + Base * F[k] /\ A[e] = s[k][e] + Base * A[k] /\ A \in [0..n -> Int]
          /\ B \in [0..n -> Int]
      BY <1>5, <3>1 DEF AreValues
    <3>4. r[e] = s[k][e]
      BY <1>8, <3>1
    <3>5. A[e] = B[e] + b[e] * va
      BY <1>7, <3>1
    <3>6. vb[e] = b[e] + Base * vb[k] /\ vb[k] \in Int /\ b[e] \in Int
      BY <1>9, <3>1 DEF AreValues
    <3>7. A[k] \in Int /\ B[e] \in Int /\ A[e] \in Int /\ s[k][e] \in Int /\ Base \in Int
      <4>1. s[k][e] \in 0..(Base - 1)
        BY <1>5, <3>1
      <4> HIDE DEF A, B, k
      <4> QED
        BY <3>1, <3>3, <4>1, DigitsAssumption
    <3>8. F[e] = B[e] + va * vb[e]
      <4> DEFINE t == s[k][e]
                 z == A[k]
                 p == vb[k]
                 q == b[e]
                 y == B[e]
                 ae == A[e]
      <4>1. /\ t \in Int /\ z \in Int /\ p \in Int /\ q \in Int /\ y \in Int /\ va \in Int /\ Base \in Int
            /\ ae \in Int
        BY <1>3, <3>3, <3>6, <3>7
      <4>2. /\ F[e] = t + Base * (z + va * p) /\ ae = t + Base * z /\ ae = y + q * va
            /\ vb[e] = q + Base * p
        BY <3>2, <3>3, <3>4, <3>5, <3>6
      <4> HIDE DEF t, z, p, q, y, ae, F
      <4>3. Base * (z + va * p) = Base * z + Base * (va * p)
            /\ Base * z \in Int /\ Base * (va * p) \in Int
        BY <4>1, SMTT(30)
      <4>4. va * (q + Base * p) = q * va + Base * (va * p) /\ q * va \in Int
        BY <4>1, SMTT(30)
      <4> DEFINE bz == Base * z
                 bp == Base * (va * p)
                 qa == q * va
      <4>5. F[e] = t + (bz + bp) /\ t + bz = y + qa /\ va * vb[e] = qa + bp
            /\ bz \in Int /\ bp \in Int /\ qa \in Int
        BY <4>2, <4>3, <4>4
      <4> HIDE DEF bz, bp, qa
      <4>6. t + (bz + bp) = y + (qa + bp)
        BY <4>1, <4>5
      <4>7. F[e] = y + va * vb[e]
        BY <4>5, <4>6
      <4> QED
        BY <4>7 DEF y
    <3> HIDE DEF F
    <3> QED
      BY <3>1, <3>8
  <2> HIDE DEF S
  <2>3. \A k \in 0..m : k \in S
    BY <1>1, <2>1, <2>2, Downwards
  <2> QED
    BY <2>3 DEF S
<1>11. V(0)[0] = 0
  <2> DEFINE z == Zeros(0)
             d == s[0]
             v == V(0)
  <2>1. z \in Magnitudes /\ Size(z) = 0 /\ ValueOf(z) = 0
    BY ZerosAre
  <2>2. AreValues(v, d, n)
    BY <1>1, <1>5
  <2>3. ArePlaces(d, z, n)
    <3>1. \A i \in Int : ~(i \in 0..(Size(z) - 1)) => At(z, i) = 0
      BY <2>1, MagnitudeIs
    <3>2. \A i \in 0..(n - 1) : d[i] = 0
      BY <1>2 DEF Zeros
    <3>3. \A i \in 0..(n - 1) : i \in Int /\ ~(i \in 0..(Size(z) - 1))
      BY <2>1
    <3> QED
      BY <3>1, <3>2, <3>3 DEF ArePlaces
  <2>4. n >= Size(z)
    BY <1>1, <2>1
  <2> HIDE DEF z, d, v
  <2>5. v[0] = ValueOf(z)
    BY <1>1, <2>1, <2>2, <2>3, <2>4, PaddedValue
  <2> QED
    BY <2>1, <2>5 DEF v
<1>12. r \in Magnitudes /\ Size(r) = n
  <2>1. r \in [0..(n - 1) -> 0..(Base - 1)]
    BY <1>1, <1>5
  <2> QED
    BY <1>1, <2>1, MagnitudeMade
<1>13. F[0] = ValueOf(r)
  <2>1. PICK w : AreValues(w, r, n) /\ w[0] = ValueOf(r)
    BY <1>12, ValueOfIs
  <2>2. AreValues(F, r, n)
    BY <1>1, <1>5
  <2>3. \A i \in 0..n : F[i] = w[i]
    <3> HIDE DEF F, r
    <3> QED
      BY <1>1, <2>1, <2>2, ValuesSame
  <2> QED
    BY <1>1, <2>1, <2>3
<1>14. F[0] = va * ValueOf(b)
  <2>1. F[0] = V(0)[0] + va * vb[0]
    BY <1>1, <1>10
  <2>2. va * ValueOf(b) \in Nat
    <3>1. ValueOf(b) \in Nat
      BY ValueOfIs
    <3>2. \A i, j \in Nat : i * j \in Nat
      OBVIOUS
    <3> QED
      BY <1>3, <3>1, <3>2
  <2> HIDE DEF F
  <2> QED
    BY <1>9, <1>11, <2>1, <2>2
<1> QED
  BY <1>12, <1>13, <1>14 DEF m, va

(* Signs of products. *)
LEMMA SignsOfProducts ==
  ASSUME NEW u \in Int, NEW v \in Int
  PROVE  (-u) * v = -(u * v) /\ u * (-v) = -(u * v) /\ (-u) * (-v) = u * v
OBVIOUS

(* The product of two integers of any size is their product. *)
THEOREM ProductsAreExact ==
  ASSUME NEW x \in BigIntegers, NEW y \in BigIntegers, NEW m \in Int, NEW n \in Int,
         Is(x, m), Is(y, n)
  PROVE  Multiply(x, y) \in BigIntegers /\ Is(Multiply(x, y), m * n)
<1> DEFINE a == x.mag
           b == y.mag
           u == ValueOf(a)
           v == ValueOf(b)
           neg == x.neg # y.neg
<1>1. /\ a \in Magnitudes /\ x.neg \in BOOLEAN /\ u \in Nat
      /\ x.neg => m = -u
      /\ ~x.neg => m = u
  BY IsAs
<1>2. /\ b \in Magnitudes /\ y.neg \in BOOLEAN /\ v \in Nat
      /\ y.neg => n = -v
      /\ ~y.neg => n = v
  BY IsAs
<1>3. PICK s : AreProducts(s, a, b) /\ Multiply(x, y) = Normal(neg, s[Size(b)])
  BY ProductsAre
<1> DEFINE r == s[Size(b)]
<1>4. r \in Magnitudes /\ ValueOf(r) = u * v
  <2>1. AreProducts(s, a, b)
    BY <1>3
  <2> HIDE DEF a, b
  <2> QED
    BY <1>1, <1>2, <2>1, ProductsValue
<1>5. neg \in BOOLEAN
  OBVIOUS
<1>6. m * n = IF neg THEN -ValueOf(r) ELSE ValueOf(r)
  <2>1. m * n = IF neg THEN -(u * v) ELSE u * v
    <3>1. u \in Int /\ v \in Int
      BY <1>1, <1>2
    <3>2. /\ (-u) * v = -(u * v)
          /\ u * (-v) = -(u * v)
          /\ (-u) * (-v) = u * v
      BY <3>1, SignsOfProducts
    <3> HIDE DEF u, v
    <3>3. CASE x.neg /\ y.neg
      <4>1. m = -u /\ n = -v /\ ~neg
        BY <1>1, <1>2, <3>3
      <4> QED
        BY <3>2, <4>1
    <3>4. CASE x.neg /\ ~y.neg
      <4>1. m = -u /\ n = v /\ neg
        BY <1>1, <1>2, <3>4
      <4> QED
        BY <3>2, <4>1
    <3>5. CASE ~x.neg /\ y.neg
      <4>1. m = u /\ n = -v /\ neg
        BY <1>1, <1>2, <3>5
      <4> QED
        BY <3>2, <4>1
    <3>6. CASE ~x.neg /\ ~y.neg
      <4>1. m = u /\ n = v /\ ~neg
        BY <1>1, <1>2, <3>6
      <4> QED
        BY <4>1
    <3> QED
      BY <1>1, <1>2, <3>3, <3>4, <3>5, <3>6
  <2> QED
    BY <1>4, <2>1
<1> HIDE DEF r, neg
<1>7. Normal(neg, r) \in BigIntegers /\ Is(Normal(neg, r), IF neg THEN -ValueOf(r) ELSE ValueOf(r))
  BY <1>4, <1>5, NormalIs
<1> QED
  BY <1>3, <1>6, <1>7 DEF r

-----------------------------------------------------------------------------
(* The automaton *)

(* A byte leads from one run to another. *)
LEMMA ReadKind ==
  ASSUME NEW q \in Runs, NEW b \in Nat
  PROVE  Read(q, b) \in Runs
<1> DEFINE s == Step(q.state, Class(b))
           v == IF q.state \in Waiting THEN Payload(b, Class(b)) ELSE q.bits * 64 + (b % 64)
<1>0. q.state \in Waiting \cup More \cup Errors /\ q.bits \in Nat /\ q.text \in Seq(Nat)
  BY DEF Runs
<1>1. CASE q.state \in Errors
  BY <1>1 DEF Read
<1>2. CASE q.state \notin Errors
  <2>1. Class(b) \in {"A", "B", "C", "D", "E", "F", "G", "H", "I", "J", "K", "L", "M", "N", "O"}
    BY DEF Class
  <2>2. s \in Waiting \cup More \cup Errors
    BY <2>1, <1>2, <1>0 DEF Step, LeadTo, MoreTo, Waiting, More, Errors
  <2>3. v \in Nat
    <3>1. Payload(b, Class(b)) \in Nat
      BY <2>1 DEF Payload
    <3> QED
      BY <3>1, <1>0
  <2> HIDE DEF s, v
  <2>4. Read(q, b) = [state |-> s, bits |-> v, text |-> IF s = "done" THEN Append(q.text, v) ELSE q.text]
    BY <1>2 DEF Read, s, v
  <2> QED
    BY <2>2, <2>3, <2>4, <1>0 DEF Runs
<1> QED
  BY <1>1, <1>2

(* The automaton takes one step for each byte. *)
LEMMA RunSteps ==
  ASSUME NEW r \in Runs, NEW bs \in Seq(Nat)
  PROVE  \E f \in [0..Len(bs) -> Runs] :
           /\ f[0] = r /\ f[Len(bs)] = Run(r, bs)
           /\ \A i \in 1..Len(bs) : f[i] = Read(f[i - 1], bs[i])
<1> DEFINE n == Len(bs)
           G == [i \in 1..n |-> [q \in Runs |-> Read(q, bs[i])]]
           Took(f) == f = [i \in 0..n |-> IF i = 0 THEN r ELSE Read(f[i - 1], bs[i])]
<1>1. n \in Nat /\ \A i \in 1..n : bs[i] \in Nat
  OBVIOUS
<1>2. G \in [1..n -> [Runs -> Runs]]
  BY <1>1, ReadKind
<1>3. PICK f \in [0..n -> Runs] : f[0] = r /\ \A i \in 1..n : f[i] = G[i][f[i - 1]]
  <2>1. n \in Nat
    OBVIOUS
  <2> HIDE DEF G, n
  <2>2. CanStep(n, Runs, r, G)
    BY <2>1, <1>2, StepsAreTaken
  <2> QED
    BY <2>2, Zenon DEF CanStep
<1>4. \A i \in 1..n : f[i] = Read(f[i - 1], bs[i])
  <2> TAKE i \in 1..n
  <2>1. f[i - 1] \in Runs /\ i \in 1..n
    <3>1. i - 1 \in 0..n
      BY <1>1
    <3> HIDE DEF n, G
    <3> QED
      BY <3>1, <1>3
  <2>2. G[i][f[i - 1]] = Read(f[i - 1], bs[i])
    BY <2>1
  <2> QED
    BY <2>2, <1>3
<1>5. Took(f)
  <2> HIDE DEF G
  <2> QED
    BY <1>1, <1>3, <1>4
<1> DEFINE g == CHOOSE f1 : Took(f1)
<1>6. Took(g)
  <2> HIDE DEF Took
  <2> QED
    BY <1>5
<1>7. Run(r, bs) = g[n]
  BY DEF Run
<1> HIDE DEF g, G
<1>8. g[0] = r /\ \A i \in 1..n : g[i] = Read(g[i - 1], bs[i])
  <2>1. g = [i \in 0..n |-> IF i = 0 THEN r ELSE Read(g[i - 1], bs[i])]
    BY <1>6
  <2>2. 0 \in 0..n /\ \A i \in 1..n : i \in 0..n /\ i # 0
    BY <1>1
  <2> HIDE DEF n
  <2> QED
    BY <2>1, <2>2
<1>9. \A i \in 0..n : g[i] \in Runs
  <2> DEFINE S == {i \in 0..n : g[i] \in Runs}
  <2>1. 0 \in S
    BY <1>1, <1>8
  <2>2. ASSUME NEW k \in 1..n, k - 1 \in S PROVE k \in S
    <3>1. g[k - 1] \in Runs /\ bs[k] \in Nat /\ k \in 0..n
      BY <2>2, <1>1
    <3> QED
      BY <3>1, <1>8, ReadKind
  <2> HIDE DEF S, n
  <2>3. \A i \in 0..n : i \in S
    BY <2>1, <2>2, <1>1, UpTo
  <2> QED
    BY <2>3 DEF S
<1>10. g \in [0..n -> Runs]
  BY <1>6, <1>9
<1> QED
  BY <1>7, <1>8, <1>10

(* It ends where it began when there is no byte. *)
LEMMA RunOfNone ==
  ASSUME NEW r \in Runs
  PROVE  Run(r, <<>>) = r
<1>1. <<>> \in Seq(Nat) /\ Len(<<>>) = 0
  OBVIOUS
<1>2. PICK f \in [0..Len(<<>>) -> Runs] :
           /\ f[0] = r /\ f[Len(<<>>)] = Run(r, <<>>)
           /\ \A i \in 1..Len(<<>>) : f[i] = Read(f[i - 1], <<>>[i])
  BY <1>1, RunSteps, Zenon
<1> QED
  BY <1>1, <1>2

(* It leads to a run.                                                      *)
LEMMA RunKind ==
  ASSUME NEW r \in Runs, NEW bs \in Seq(Nat)
  PROVE  Run(r, bs) \in Runs
<1>1. PICK f \in [0..Len(bs) -> Runs] :
           /\ f[0] = r /\ f[Len(bs)] = Run(r, bs)
           /\ \A i \in 1..Len(bs) : f[i] = Read(f[i - 1], bs[i])
  BY RunSteps
<1>2. Len(bs) \in 0..Len(bs)
  OBVIOUS
<1> QED
  BY <1>1, <1>2

(* One byte more is one step more. *)
LEMMA RunOnMore ==
  ASSUME NEW r \in Runs, NEW bs \in Seq(Nat), NEW b \in Nat
  PROVE  Run(r, Append(bs, b)) = Read(Run(r, bs), b)
<1> DEFINE n == Len(bs)
           cs == Append(bs, b)
<1>1. n \in Nat /\ cs \in Seq(Nat) /\ Len(cs) = n + 1 /\ cs[n + 1] = b /\ \A i \in 1..n : cs[i] = bs[i]
  OBVIOUS
<1>2. PICK f \in [0..n -> Runs] :
           /\ f[0] = r /\ f[n] = Run(r, bs)
           /\ \A i \in 1..n : f[i] = Read(f[i - 1], bs[i])
  BY RunSteps
<1> HIDE DEF cs
<1>3. PICK g \in [0..(n + 1) -> Runs] :
           /\ g[0] = r /\ g[n + 1] = Run(r, cs)
           /\ \A i \in 1..(n + 1) : g[i] = Read(g[i - 1], cs[i])
  <2>1. \E g \in [0..Len(cs) -> Runs] :
           /\ g[0] = r /\ g[Len(cs)] = Run(r, cs)
           /\ \A i \in 1..Len(cs) : g[i] = Read(g[i - 1], cs[i])
    BY RunSteps, <1>1
  <2> QED
    BY <2>1, <1>1
<1> DEFINE S == {i \in 0..n : f[i] = g[i]}
<1>4. 0 \in S
  BY <1>1, <1>2, <1>3
<1>5. ASSUME NEW k \in 1..n, k - 1 \in S PROVE k \in S
  BY <1>5, <1>1, <1>2, <1>3
<1>6. n \in S
  <2>1. n \in Nat
    OBVIOUS
  <2> HIDE DEF n, S
  <2>2. \A k \in 0..n : k \in S
    BY <2>1, <1>4, <1>5, UpTo
  <2> QED
    BY <2>1, <2>2
<1> HIDE DEF n
<1> QED
  BY <1>6, <1>1, <1>2, <1>3 DEF S, cs

(* Sequences *)

(* ConcatAssociative, of texts.                                            *)
AreTexts(s, t, u) == s \in Seq(Nat) /\ t \in Seq(Nat) /\ u \in Seq(Nat)

JoinAlike(s, t, u) == (s \o t) \o u = s \o (t \o u)

LEMMA TextsJoin ==
  ASSUME NEW s, NEW t, NEW u, AreTexts(s, t, u)
  PROVE  JoinAlike(s, t, u)
<1> DEFINE E == Nat
<1>1. s \in Seq(E) /\ t \in Seq(E) /\ u \in Seq(E)
  BY Zenon DEF AreTexts
<1> HIDE DEF E
<1>2. (s \o t) \o u = s \o (t \o u)
  BY <1>1, ConcatAssociative
<1> QED
  BY <1>2, Zenon DEF JoinAlike

LEMMA AppendJoined ==
  ASSUME NEW E, NEW s \in Seq(E), NEW t \in Seq(E), NEW e \in E
  PROVE  s \o Append(t, e) = Append(s \o t, e)
<1> DEFINE w == <<e>>
<1>1. Append(t, e) = t \o w /\ Append(s \o t, e) = (s \o t) \o w
  BY AppendIsConcat, ConcatProperties
<1>2. w \in Seq(E)
  OBVIOUS
<1> HIDE DEF w
<1>3. (s \o t) \o w = s \o (t \o w)
  BY <1>2, ConcatAssociative
<1> QED
  BY <1>1, <1>3

(* The bytes can be read in two parts. *)
LEMMA RunJoined ==
  ASSUME NEW r \in Runs, NEW s \in Seq(Nat), NEW t \in Seq(Nat)
  PROVE  Run(r, s \o t) = Run(Run(r, s), t)
<1> DEFINE n == Len(t)
           u == [k \in 0..n |-> SubSeq(t, 1, k)]
           S == {k \in 0..n : Run(r, s \o u[k]) = Run(Run(r, s), u[k])}
<1>1. n \in Nat
  OBVIOUS
<1>2. u[0] = <<>> /\ u[n] = t
  BY <1>1, SubSeqFull
<1>3. ASSUME NEW k \in 1..n
      PROVE  /\ k \in 0..n /\ k - 1 \in 0..n
             /\ u[k - 1] \in Seq(Nat) /\ t[k] \in Nat /\ u[k] = Append(u[k - 1], t[k])
  <2>1. k \in 0..n /\ k - 1 \in 0..n /\ t[k] \in Nat
    BY <1>1
  <2>2. u[k] = SubSeq(t, 1, k) /\ u[k - 1] = SubSeq(t, 1, k - 1)
    BY <2>1
  <2>3. SubSeq(t, 1, k - 1) \in Seq(Nat) /\ SubSeq(t, 1, k) = Append(SubSeq(t, 1, k - 1), t[k])
    OBVIOUS
  <2> QED
    BY <2>1, <2>2, <2>3
<1> HIDE DEF u, n
<1>4. 0 \in S
  <2>1. s \o u[0] = s
    BY <1>2
  <2>2. Run(Run(r, s), u[0]) = Run(r, s)
    BY <1>2, RunOfNone, RunKind
  <2>3. Run(r, s \o u[0]) = Run(Run(r, s), u[0])
    BY <2>1, <2>2
  <2> QED
    BY <1>1, <2>3
<1>5. ASSUME NEW k \in 1..n, k - 1 \in S PROVE k \in S
  <2> DEFINE v == u[k - 1]
  <2>1. Run(r, s \o v) = Run(Run(r, s), v)
    BY <1>5
  <2> HIDE DEF v
  <2> DEFINE e == t[k]
  <2>2. v \in Seq(Nat) /\ e \in Nat /\ u[k] = Append(v, e) /\ s \o v \in Seq(Nat)
    BY <1>3, ConcatProperties DEF v
  <2> HIDE DEF e
  <2>3. s \o Append(v, e) = Append(s \o v, e)
    <3>1. s \in Seq(Nat) /\ v \in Seq(Nat) /\ e \in Nat
      BY <2>2
    <3> QED
      BY ONLY <3>1, AppendJoined
  <2>4. Run(r, Append(s \o v, e)) = Read(Run(r, s \o v), e)
    BY <2>2, RunOnMore
  <2>5. Run(Run(r, s), Append(v, e)) = Read(Run(Run(r, s), v), e)
    BY <2>2, RunOnMore, RunKind
  <2> QED
    BY <1>3, <2>1, <2>2, <2>3, <2>4, <2>5
<1> HIDE DEF S
<1>6. \A k \in 0..n : k \in S
  BY <1>1, <1>4, <1>5, UpTo
<1>7. n \in S
  BY <1>1, <1>6
<1> QED
  BY <1>2, <1>7 DEF S

(* Reading two halves one after the other is reading both.                 *)
LEMMA HalvesJoin ==
  ASSUME NEW bs \in Seq(Nat), NEW b \in 0..Len(bs), NEW c \in b..Len(bs), NEW m \in b..c,
         NEW r \in Runs
  PROVE  /\ Run(r, SubSeq(bs, b + 1, m)) \in Runs
         /\ Run(Run(r, SubSeq(bs, b + 1, m)), SubSeq(bs, m + 1, c)) = Run(r, SubSeq(bs, b + 1, c))
<1> DEFINE s == SubSeq(bs, b + 1, m)
           t == SubSeq(bs, m + 1, c)
<1>1. /\ b + 1 \in 1..(Len(bs) + 1) /\ m \in ((b + 1) - 1)..Len(bs) /\ c \in m..Len(bs)
  OBVIOUS
<1>2. s \o t = SubSeq(bs, b + 1, c)
  BY <1>1, ConcatAdjacentSubSeq
<1>3. s \in Seq(Nat) /\ t \in Seq(Nat)
  OBVIOUS
<1> HIDE DEF s, t
<1>4. Run(r, s) \in Runs /\ Run(r, s \o t) = Run(Run(r, s), t)
  BY <1>3, RunKind, RunJoined
<1> QED
  BY <1>2, <1>4 DEF s, t

(* Wherever the bytes are cut, the automaton ends where it does when it    *)
(* reads them one after the other.                                         *)
LEMMA HalvesDoNotMatter ==
  ASSUME NEW bs \in Seq(Nat)
  PROVE  RunByHalves(bs) = Run(Start, bs)
<1> DEFINE n == Len(bs)
           T == Spans(bs)
           mid(x) == (x[1] + x[2]) \div 2
           cut(x) == x[2] - x[1] > HalfAbove /\ x[3].state \notin Errors
           left(x) == <<x[1], mid(x), x[3]>>
           plain(x) == Run(x[3], SubSeq(bs, x[1] + 1, x[2]))
           h == [x \in T |-> plain(x)]
           Solves(f) == f = [x \in T |-> IF cut(x) THEN f[<<mid(x), x[2], f[left(x)]>>] ELSE plain(x)]
<1>1. n \in Nat /\ HalfAbove \in Nat \ {0}
  BY HalfAssumption
<1>2. ASSUME NEW x \in T
      PROVE  x[1] \in 0..n /\ x[2] \in 0..n /\ x[3] \in Runs /\ x = <<x[1], x[2], x[3]>>
  BY DEF Spans
<1>3. ASSUME NEW x \in T, cut(x)
      PROVE  /\ mid(x) \in x[1]..x[2] /\ x[2] \in x[1]..n
             /\ mid(x) - x[1] < x[2] - x[1] /\ x[2] - mid(x) < x[2] - x[1]
  <2> DEFINE b == x[1]
             c == x[2]
  <2>1. b \in 0..n /\ c \in 0..n
    BY <1>2
  <2>2. c - b > HalfAbove
    BY <1>3
  <2>3. mid(x) = (b + c) \div 2
    OBVIOUS
  <2> HIDE DEF b, c, mid, cut
  <2>4. mid(x) \in b..c /\ c \in b..n /\ mid(x) - b < c - b /\ c - mid(x) < c - b
    BY <1>1, <2>1, <2>2, <2>3
  <2> QED
    BY <2>4 DEF b, c
<1>4. ASSUME NEW x \in T, cut(x)
      PROVE  /\ left(x) \in T /\ plain(left(x)) \in Runs
             /\ <<mid(x), x[2], plain(left(x))>> \in T
             /\ plain(<<mid(x), x[2], plain(left(x))>>) = plain(x)
  <2> DEFINE b == x[1]
             c == x[2]
             m == mid(x)
  <2>1. b \in 0..n /\ c \in b..n /\ m \in b..c /\ x[3] \in Runs
    BY <1>2, <1>3, <1>4
  <2> HIDE DEF b, c, m
  <2>2. /\ Run(x[3], SubSeq(bs, b + 1, m)) \in Runs
        /\ Run(Run(x[3], SubSeq(bs, b + 1, m)), SubSeq(bs, m + 1, c)) = Run(x[3], SubSeq(bs, b + 1, c))
    BY <2>1, HalvesJoin
  <2>3. /\ plain(left(x)) = Run(x[3], SubSeq(bs, b + 1, m))
        /\ plain(x) = Run(x[3], SubSeq(bs, b + 1, c))
    BY DEF b, c, m
  <2>4. b \in 0..n /\ m \in 0..n /\ c \in 0..n
    BY <2>1, <1>1
  <2>5. left(x) \in T /\ <<m, c, plain(left(x))>> \in T
    <3>1. left(x) = <<b, m, x[3]>>
      BY DEF b, m
    <3> QED
      BY <3>1, <2>1, <2>2, <2>3, <2>4 DEF Spans
  <2>6. plain(<<m, c, plain(left(x))>>) = Run(plain(left(x)), SubSeq(bs, m + 1, c))
    OBVIOUS
  <2> QED
    BY <2>2, <2>3, <2>5, <2>6 DEF m, c
<1> HIDE DEF n, T, mid, left, plain
<1>5. Solves(h)
  <2>1. ASSUME NEW x \in T
        PROVE  h[x] = IF cut(x) THEN h[<<mid(x), x[2], h[left(x)]>>] ELSE plain(x)
    <3> HIDE DEF cut
    <3>1. CASE cut(x)
      <4>1. h[left(x)] = plain(left(x))
        BY <1>4, <3>1
      <4>2. h[<<mid(x), x[2], plain(left(x))>>] = plain(x)
        BY <1>4, <3>1
      <4> QED
        BY <3>1, <4>1, <4>2
    <3>2. CASE ~cut(x)
      BY <3>2
    <3> QED
      BY <3>1, <3>2
  <2> HIDE DEF cut
  <2> QED
    BY <2>1
<1> DEFINE g == CHOOSE f : Solves(f)
<1>6. RunByHalves(bs) = g[<<0, n, Start>>]
  BY DEF RunByHalves, T, mid, left, plain, n
<1>7. Solves(g)
  <2> HIDE DEF Solves, h
  <2> QED
    BY <1>5
<1> HIDE DEF g, h
<1>8. ASSUME NEW x \in T
      PROVE  g[x] = IF cut(x) THEN g[<<mid(x), x[2], g[left(x)]>>] ELSE plain(x)
  <2> HIDE DEF cut
  <2> QED
    BY <1>7
<1> DEFINE S == {k \in Nat : \A x \in T : x[2] - x[1] <= k => g[x] = plain(x)}
<1>9. 0 \in S
  <2> SUFFICES ASSUME NEW x \in T, x[2] - x[1] <= 0 PROVE g[x] = plain(x)
    OBVIOUS
  <2>1. ~cut(x)
    BY <1>1, <1>2
  <2> HIDE DEF cut
  <2> QED
    BY <2>1, <1>8
<1>10. ASSUME NEW k \in 1..n, k - 1 \in S PROVE k \in S
  <2> SUFFICES ASSUME NEW x \in T, x[2] - x[1] <= k PROVE g[x] = plain(x)
    BY <1>1
  <2>1. CASE ~cut(x)
    <3> HIDE DEF cut
    <3> QED
      BY <2>1, <1>8
  <2>2. CASE cut(x)
    <3>1. \A y \in T : y[2] - y[1] <= k - 1 => g[y] = plain(y)
      BY <1>10
    <3> DEFINE y == left(x)
               z == <<mid(x), x[2], plain(y)>>
    <3>2. y \in T /\ z \in T /\ plain(z) = plain(x)
      BY <1>4, <2>2
    <3>3. y[1] = x[1] /\ y[2] = mid(x) /\ z[1] = mid(x) /\ z[2] = x[2]
      BY DEF left
    <3>4. mid(x) \in Nat /\ x[1] \in Nat /\ x[2] \in Nat
      BY <1>2, <1>3, <2>2, <1>1
    <3>5. y[2] - y[1] <= k - 1 /\ z[2] - z[1] <= k - 1
      BY <1>3, <2>2, <3>3, <3>4, SMTT(30)
    <3> HIDE DEF y, z
    <3>6. g[y] = plain(y) /\ g[z] = plain(z)
      BY <3>1, <3>2, <3>5
    <3>7. g[x] = g[<<mid(x), x[2], g[left(x)]>>]
      <4> HIDE DEF cut
      <4> QED
        BY <1>8, <2>2
    <3> QED
      BY <3>2, <3>6, <3>7 DEF y, z
  <2> QED
    BY <2>1, <2>2
<1>11. Start \in Runs
  BY DEF Start, Runs, Waiting
<1>12. <<0, n, Start>> \in T /\ n - 0 <= n
  BY <1>1, <1>11 DEF T, Spans, n
<1>13. \A k \in 0..n : k \in S
  <2> HIDE DEF S
  <2> QED
    BY <1>1, <1>9, <1>10, UpTo
<1>14. g[<<0, n, Start>>] = plain(<<0, n, Start>>)
  <2>1. n \in S
    BY <1>1, <1>13
  <2> QED
    BY <2>1, <1>12
<1>15. plain(<<0, n, Start>>) = Run(Start, SubSeq(bs, 1, n))
  BY DEF plain
<1>16. SubSeq(bs, 1, n) = bs
  BY SubSeqFull DEF n
<1> QED
  BY <1>6, <1>14, <1>15, <1>16

-----------------------------------------------------------------------------
(* One code point *)

(* A code point is encoded in one to four bytes, by the first of them.     *)
InTwo(b, c) == b \in 194..223 /\ c \in Follows
InThree(b, c, d) ==
  /\ b \in 224..239 /\ c \in Follows /\ d \in Follows
  /\ b = 224 => c \in 160..191
  /\ b = 237 => c \in 128..159
InFour(b, c, d, e) ==
  /\ b \in 240..244 /\ c \in Follows /\ d \in Follows /\ e \in Follows
  /\ b = 240 => c \in 144..191
  /\ b = 244 => c \in 128..143

(* What is in a range, for any bounds. *)
LEMMA RangeIs ==
  ASSUME NEW l \in Int, NEW h \in Int
  PROVE  \A p : p \in l..h <=> p \in Int /\ l <= p /\ p <= h
OBVIOUS

(* What is a half of a pair. *)
LEMMA SurrogatesAre ==
  ASSUME NEW p \in Int
  PROVE  p \in Surrogates <=> 55296 <= p /\ p <= 57343
<1> DEFINE l == 55296
           h == 57343
<1>1. l \in Int /\ h \in Int
  OBVIOUS
<1>2. Surrogates = l..h
  BY DEF Surrogates
<1> HIDE DEF l, h
<1>3. p \in Surrogates <=> l <= p /\ p <= h
  BY <1>1, <1>2, RangeIs
<1> QED
  BY <1>3 DEF l, h

(* The bytes below 128 stand for themselves.                               *)
LEMMA OneByte ==
  ASSUME NEW b \in Octets
  PROVE  /\ WellFormed(<<b>>) <=> b <= 127
         /\ Point(<<b>>) = b
<1>1. Point(<<b>>) = b
  BY DEF Point, Lead, Octets
<1>2. b \in Int /\ b \notin Surrogates
  BY SurrogatesAre DEF Octets
<1> QED
  BY <1>1, <1>2, SMT DEF WellFormed, Lead, Needed, Octets

(* When two bytes are a code point, and which.                             *)
LEMMA TwoBytes ==
  ASSUME NEW b \in Octets, NEW c \in Octets
  PROVE  /\ WellFormed(<<b, c>>) <=> InTwo(b, c)
         /\ Point(<<b, c>>) = (b - 192) * 64 + (c - 128)
<1>1. Point(<<b, c>>) = (b - 192) * 64 + (c - 128)
  BY DEF Point, Lead, Octets, Bits
<1>2. WellFormed(<<b, c>>) <=>
        /\ b >= 192 /\ c \in Follows
        /\ Needed(Point(<<b, c>>)) = 2
        /\ Point(<<b, c>>) <= 1114111 /\ Point(<<b, c>>) \notin Surrogates
  BY SMTT(30) DEF WellFormed, Lead, Octets
<1> DEFINE p == Point(<<b, c>>)
<1>3. p \in Int
  BY <1>1 DEF Octets
<1>4. p \in Surrogates <=> 55296 <= p /\ p <= 57343
  BY <1>3, SurrogatesAre
<1> QED
  BY <1>1, <1>2, <1>4, SMT DEF Octets, Follows, Needed, InTwo

(* When three bytes are a code point, and which.                           *)
LEMMA ThreeBytes ==
  ASSUME NEW b \in Octets, NEW c \in Octets, NEW d \in Octets
  PROVE  /\ WellFormed(<<b, c, d>>) <=> InThree(b, c, d)
         /\ Point(<<b, c, d>>) = ((b - 224) * 64 + (c - 128)) * 64 + (d - 128)
<1>1. Point(<<b, c, d>>) = ((b - 224) * 64 + (c - 128)) * 64 + (d - 128)
  BY DEF Point, Lead, Octets, Bits
<1>2. WellFormed(<<b, c, d>>) <=>
        /\ b >= 224 /\ c \in Follows /\ d \in Follows
        /\ Needed(Point(<<b, c, d>>)) = 3
        /\ Point(<<b, c, d>>) <= 1114111 /\ Point(<<b, c, d>>) \notin Surrogates
  <2> DEFINE cs == <<b, c, d>>
             p  == Point(cs)
  <2>1. Len(cs) = 3 /\ Lead[3] = 224
    BY DEF Lead
  <2>2. (\A k \in 2..3 : cs[k] \in Follows) <=> c \in Follows /\ d \in Follows
    <3>1. cs[2] = c /\ cs[3] = d
      OBVIOUS
    <3> HIDE DEF cs
    <3> QED
      BY <3>1
  <2>3. cs[1] = b
    OBVIOUS
  <2> HIDE DEF cs
  <2>4. WellFormed(cs) <=> /\ b >= 224 /\ \A k \in 2..3 : cs[k] \in Follows
                          /\ Needed(p) = 3 /\ p <= 1114111 /\ p \notin Surrogates
    <3> HIDE DEF p
    <3> QED
      BY <2>1, <2>3, SMT DEF WellFormed, p
  <2> QED
    BY <2>2, <2>4, SMT DEF cs
<1> DEFINE p == Point(<<b, c, d>>)
<1>3. p \in Int
  BY <1>1 DEF Octets
<1>4. p \in Surrogates <=> 55296 <= p /\ p <= 57343
  BY <1>3, SurrogatesAre
<1> QED
  BY <1>1, <1>2, <1>4, SMT DEF Octets, Follows, Needed, InThree

(* When four bytes are a code point, and which.                            *)
LEMMA FourBytes ==
  ASSUME NEW b \in Octets, NEW c \in Octets, NEW d \in Octets, NEW e \in Octets
  PROVE  /\ WellFormed(<<b, c, d, e>>) <=> InFour(b, c, d, e)
         /\ Point(<<b, c, d, e>>) = (((b - 240) * 64 + (c - 128)) * 64 + (d - 128)) * 64 + (e - 128)
<1>1. Point(<<b, c, d, e>>) = (((b - 240) * 64 + (c - 128)) * 64 + (d - 128)) * 64 + (e - 128)
  BY DEF Point, Lead, Octets, Bits
<1>2. WellFormed(<<b, c, d, e>>) <=>
        /\ b >= 240 /\ c \in Follows /\ d \in Follows /\ e \in Follows
        /\ Needed(Point(<<b, c, d, e>>)) = 4
        /\ Point(<<b, c, d, e>>) <= 1114111 /\ Point(<<b, c, d, e>>) \notin Surrogates
  <2> DEFINE cs == <<b, c, d, e>>
             p  == Point(cs)
  <2>1. Len(cs) = 4 /\ Lead[4] = 240
    BY DEF Lead
  <2>2. (\A k \in 2..4 : cs[k] \in Follows) <=> c \in Follows /\ d \in Follows /\ e \in Follows
    <3>1. cs[2] = c /\ cs[3] = d /\ cs[4] = e
      OBVIOUS
    <3> HIDE DEF cs
    <3> QED
      BY <3>1
  <2>3. cs[1] = b
    OBVIOUS
  <2> HIDE DEF cs
  <2>4. WellFormed(cs) <=> /\ b >= 240 /\ \A k \in 2..4 : cs[k] \in Follows
                          /\ Needed(p) = 4 /\ p <= 1114111 /\ p \notin Surrogates
    <3> HIDE DEF p
    <3> QED
      BY <2>1, <2>3, SMT DEF WellFormed, p
  <2> QED
    BY <2>2, <2>4, SMT DEF cs
<1> DEFINE x == (b - 240) * 64 + (c - 128)
           l == (d - 128) * 64 + (e - 128)
           p == Point(<<b, c, d, e>>)
<1>3. p = x * 4096 + l
  BY <1>1 DEF Octets
<1>4. ASSUME b >= 240, c \in Follows, d \in Follows, e \in Follows
      PROVE  /\ x \in Nat /\ l \in Nat /\ l < 4096
             /\ x >= 16 <=> (b = 240 => c >= 144)
             /\ x <= 271 <=> b <= 244 /\ (b = 244 => c <= 143)
  BY <1>4 DEF Octets, Follows
<1> HIDE DEF x, l, p
<1>5. ASSUME x \in Nat, l \in Nat, l < 4096
      PROVE  Needed(p) = 4 /\ p <= 1114111 /\ p \notin Surrogates <=> x >= 16 /\ x <= 271
  <2>1. p >= 65536 <=> x >= 16
    BY <1>3, <1>5, SMTT(30)
  <2>2. p <= 1114111 <=> x <= 271
    BY <1>3, <1>5, SMTT(30)
  <2>3. p \in Nat
    BY <1>3, <1>5, SMTT(30)
  <2>4. Needed(p) = 4 <=> p >= 65536
    BY <2>3, SMTT(30) DEF Needed
  <2>5. p >= 65536 => p \notin Surrogates
    BY <2>3, SurrogatesAre, SMTT(30)
  <2> QED
    BY <2>1, <2>2, <2>4, <2>5, SMTT(30)
<1>6. WellFormed(<<b, c, d, e>>) <=>
        /\ b >= 240 /\ c \in Follows /\ d \in Follows /\ e \in Follows
        /\ Needed(p) = 4 /\ p <= 1114111 /\ p \notin Surrogates
  BY <1>2 DEF p
<1>7. WellFormed(<<b, c, d, e>>) <=>
        /\ b >= 240 /\ c \in Follows /\ d \in Follows /\ e \in Follows
        /\ (b = 240 => c >= 144) /\ b <= 244 /\ (b = 244 => c <= 143)
  BY <1>4, <1>5, <1>6
<1>8. WellFormed(<<b, c, d, e>>) <=> InFour(b, c, d, e)
  BY <1>7, SMT DEF Octets, Follows, InFour
<1> QED
  BY <1>1, <1>8

(* What the automaton does with the first byte of a code point.            *)
AfterFirst(r, b) ==
  IF b <= 127 THEN [state |-> "done", bits |-> b, text |-> Append(r.text, b)]
  ELSE IF b \in 194..223 THEN [state |-> "one", bits |-> b - 192, text |-> r.text]
  ELSE IF b \in 224..239
       THEN [state |-> IF b = 224 THEN "two, not overlong"
                       ELSE IF b = 237 THEN "two, no surrogate"
                       ELSE IF b = 239 /\ r.state = "start" THEN "two, perhaps mark" ELSE "two",
             bits |-> b - 224, text |-> r.text]
  ELSE [state |-> IF b = 240 THEN "three, not overlong"
                  ELSE IF b = 244 THEN "three, in range" ELSE "three",
        bits |-> b - 240, text |-> r.text]

(* Where the automaton goes from a state in which it waits.                *)
LEMMA FirstByte ==
  ASSUME NEW r \in Runs, r.state \in Waiting, NEW b \in Octets
  PROVE  IF b <= 127 \/ b \in 194..244 THEN Read(r, b) = AfterFirst(r, b)
         ELSE Read(r, b).state \in Errors
<1> DEFINE c == Class(b)
           s == Step(r.state, c)
           v == Payload(b, c)
<1>1. r.state \notin Errors
  BY DEF Waiting, Errors
<1>2. Read(r, b) = [state |-> s, bits |-> v, text |-> IF s = "done" THEN Append(r.text, v) ELSE r.text]
  BY <1>1 DEF Read
<1>3. s = LeadTo(r.state, c)
  BY DEF Step
<1>4. CASE b <= 127
  <2>1. c = "A"
    BY <1>4 DEF Class
  <2>2. s = "done" /\ v = b
    BY <2>1, <1>3 DEF LeadTo, Payload
  <2>3. AfterFirst(r, b) = [state |-> "done", bits |-> b, text |-> Append(r.text, b)]
    BY <1>4 DEF AfterFirst
  <2> HIDE DEF s, v
  <2>4. Read(r, b) = AfterFirst(r, b)
    BY <1>2, <2>2, <2>3
  <2> QED
    BY <1>4, <2>4
<1>5. CASE b \in 194..223
  <2>1. c = "B"
    BY <1>5 DEF Class
  <2>2. s = "one" /\ v = b - 192
    BY <2>1, <1>3, <1>5 DEF LeadTo, Payload
  <2>3. AfterFirst(r, b) = [state |-> "one", bits |-> b - 192, text |-> r.text]
    <3>1. ~(b <= 127) /\ b \in 194..223
      BY <1>5
    <3> QED
      BY <3>1, Zenon DEF AfterFirst
  <2> HIDE DEF s, v
  <2>4. Read(r, b) = AfterFirst(r, b)
    BY <1>2, <2>2, <2>3
  <2> QED
    BY <1>5, <2>4
<1>6. CASE b \in 224..239
  <2>1. c = IF b = 224 THEN "K" ELSE IF b = 237 THEN "D" ELSE IF b = 239 THEN "L" ELSE "C"
    BY <1>6 DEF Class
  <2>2. v = b - 224
    BY <2>1, <1>6 DEF Payload
  <2>3. s = IF b = 224 THEN "two, not overlong"
            ELSE IF b = 237 THEN "two, no surrogate"
            ELSE IF b = 239 /\ r.state = "start" THEN "two, perhaps mark" ELSE "two"
    BY <2>1, <1>3 DEF LeadTo
  <2> HIDE DEF s, v
  <2>4. s # "done"
    BY <2>3
  <2>5. AfterFirst(r, b) =
          [state |-> IF b = 224 THEN "two, not overlong"
                     ELSE IF b = 237 THEN "two, no surrogate"
                     ELSE IF b = 239 /\ r.state = "start" THEN "two, perhaps mark" ELSE "two",
           bits |-> b - 224, text |-> r.text]
    <3>1. ~(b <= 127) /\ ~(b \in 194..223) /\ b \in 224..239
      BY <1>6
    <3> QED
      BY <3>1, Zenon DEF AfterFirst
  <2>6. Read(r, b) = AfterFirst(r, b)
    <3>1. Read(r, b) = [state |-> s, bits |-> v, text |-> r.text]
      BY <1>2, <2>4
    <3> QED
      BY <3>1, <2>2, <2>3, <2>5, Zenon
  <2> QED
    BY <1>6, <2>6
<1>7. CASE b \in 240..244
  <2>1. c = IF b = 240 THEN "O" ELSE IF b = 244 THEN "M" ELSE "N"
    BY <1>7 DEF Class
  <2>2. v = b - 240
    BY <2>1, <1>7 DEF Payload
  <2>3. s = IF b = 240 THEN "three, not overlong"
            ELSE IF b = 244 THEN "three, in range" ELSE "three"
    BY <2>1, <1>3 DEF LeadTo
  <2> HIDE DEF s, v
  <2>4. s # "done"
    BY <2>3
  <2>5. AfterFirst(r, b) =
          [state |-> IF b = 240 THEN "three, not overlong"
                     ELSE IF b = 244 THEN "three, in range" ELSE "three",
           bits |-> b - 240, text |-> r.text]
    <3>1. ~(b <= 127) /\ ~(b \in 194..223) /\ ~(b \in 224..239)
      BY <1>7
    <3> QED
      BY <3>1, Zenon DEF AfterFirst
  <2>6. Read(r, b) = AfterFirst(r, b)
    <3>1. Read(r, b) = [state |-> s, bits |-> v, text |-> r.text]
      BY <1>2, <2>4
    <3> QED
      BY <3>1, <2>2, <2>3, <2>5, Zenon
  <2> QED
    BY <1>7, <2>6
<1>8. CASE b \in 128..193 \cup 245..255
  <2>1. c \in {"F", "G", "H", "I", "J", "E"}
    BY <1>8 DEF Class
  <2>2. s \in {"invalid", "unexpected"}
    BY <2>1, <1>3 DEF LeadTo
  <2> HIDE DEF s, v
  <2>3. Read(r, b).state \in Errors
    <3> DEFINE w == IF s = "done" THEN Append(r.text, v) ELSE r.text
    <3>2. Read(r, b) = [state |-> s, bits |-> v, text |-> w]
      BY <1>2, Zenon
    <3> HIDE DEF w
    <3>1. Read(r, b).state = s
      BY <3>2
    <3> QED
      BY <3>1, <2>2 DEF Errors
  <2>4. ~(b <= 127 \/ b \in 194..244)
    BY <1>8
  <2> QED
    BY <2>3, <2>4
<1> QED
  BY <1>4, <1>5, <1>6, <1>7, <1>8 DEF Octets

(* What it does with a byte that follows.                                  *)
LEMMA NextByte ==
  ASSUME NEW q \in Runs, q.state \in More, NEW b \in Octets
  PROVE  IF b \in Follows
         THEN LET s == MoreTo(q.state, Class(b))
                  v == q.bits * 64 + (b - 128)
              IN  Read(q, b) = [state |-> s, bits |-> v,
                                text |-> IF s = "done" THEN Append(q.text, v) ELSE q.text]
         ELSE Read(q, b).state \in Errors
<1> DEFINE c == Class(b)
           s == Step(q.state, c)
           v == q.bits * 64 + (b % 64)
<1>1. q.state \notin Errors /\ q.state \notin Waiting
  BY DEF Waiting, Errors, More
<1>2. Read(q, b) = [state |-> s, bits |-> v, text |-> IF s = "done" THEN Append(q.text, v) ELSE q.text]
  BY <1>1 DEF Read
<1>3. s = IF c \in {"F", "G", "H", "I", "J"} THEN MoreTo(q.state, c) ELSE "missing"
  BY <1>1 DEF Step
<1>4. CASE b \in Follows
  <2>1. c \in {"F", "G", "H", "I", "J"}
    BY <1>4 DEF Class, Follows
  <2>2. b % 64 = b - 128
    BY <1>4 DEF Follows
  <2> HIDE DEF c
  <2>3. s = MoreTo(q.state, c)
    BY <1>3, <2>1
  <2>4. v = q.bits * 64 + (b - 128)
    BY <2>2
  <2> HIDE DEF s, v
  <2> QED
    BY <1>2, <1>4, <2>3, <2>4 DEF c
<1>5. CASE b \notin Follows
  <2>1. c \notin {"F", "G", "H", "I", "J"}
    BY <1>5 DEF Class, Follows, Octets
  <2> HIDE DEF c
  <2>2. s = "missing"
    BY <1>3, <2>1
  <2> HIDE DEF s, v
  <2> QED
    BY <1>2, <1>5, <2>2 DEF Errors
<1> QED
  BY <1>4, <1>5

(* A code point p ends in q, which began in r: it is in the text, but for  *)
(* a mark at the start.                                                    *)
Ends(q, r, p) ==
  /\ q \in Runs /\ q.state \in Waiting \ {"start"}
  /\ q.text = IF r.state = "start" /\ p = Mark THEN r.text ELSE Append(r.text, p)

(* A code point of one byte has ended.                                     *)
LEMMA EndOfOne ==
  ASSUME NEW r \in Runs, r.state \in Waiting, NEW b \in 0..127
  PROVE  Ends(Read(r, b), r, b)
<1>1. b \in Octets /\ b \in Nat /\ b # Mark
  BY DEF Octets, Mark
<1>2. Read(r, b) = AfterFirst(r, b)
  BY <1>1, FirstByte
<1>3. AfterFirst(r, b) = [state |-> "done", bits |-> b, text |-> Append(r.text, b)]
  <2>1. b <= 127
    OBVIOUS
  <2> QED
    BY <2>1, Zenon DEF AfterFirst
<1>4. Read(r, b) \in Runs
  BY <1>1, ReadKind
<1>5. Read(r, b).state = "done" /\ Read(r, b).text = Append(r.text, b)
  BY <1>2, <1>3
<1> QED
  BY <1>1, <1>4, <1>5 DEF Ends, Waiting

(* A code point of two bytes has ended, or there is an error.              *)
LEMMA EndOfTwo ==
  ASSUME NEW r \in Runs, r.state \in Waiting, NEW b \in 194..223, NEW c \in Octets
  PROVE  IF c \in Follows THEN Ends(Read(Read(r, b), c), r, (b - 192) * 64 + (c - 128))
         ELSE Read(Read(r, b), c).state \in Errors
<1> DEFINE q == Read(r, b)
           p == (b - 192) * 64 + (c - 128)
<1>1. b \in Octets /\ b \in Nat /\ c \in Nat
  BY DEF Octets
<1>2. q = [state |-> "one", bits |-> b - 192, text |-> r.text]
  <2>1. ~(b <= 127) /\ b \in 194..244
    OBVIOUS
  <2>2. q = AfterFirst(r, b)
    BY <1>1, <2>1, FirstByte
  <2> QED
    BY <2>1, <2>2, Zenon DEF AfterFirst
<1>3. q \in Runs
  BY <1>1, ReadKind
<1>4. Read(q, c) \in Runs
  BY <1>1, <1>3, ReadKind
<1>5. q.state = "one" /\ q.bits = b - 192 /\ q.text = r.text
  BY <1>2
<1> HIDE DEF q
<1>6. q.state \in More /\ MoreTo(q.state, Class(c)) = "done"
  BY <1>5 DEF More, MoreTo
<1>7. CASE c \in Follows
  <2>1. Read(q, c) = [state |-> "done", bits |-> p, text |-> Append(r.text, p)]
    <3>1. Read(q, c) = [state |-> "done", bits |-> q.bits * 64 + (c - 128),
                        text |-> Append(q.text, q.bits * 64 + (c - 128))]
      BY <1>3, <1>6, <1>7, NextByte
    <3> QED
      BY <3>1, <1>5, ZenonT(60)
  <2>2. p # Mark
    BY <1>7 DEF Mark, Follows
  <2>3. Read(q, c).state = "done" /\ Read(q, c).text = Append(r.text, p)
    BY <2>1
  <2> HIDE DEF p
  <2>4. Ends(Read(q, c), r, p)
    BY <1>4, <2>2, <2>3 DEF Ends, Waiting
  <2> QED
    BY <2>4, <1>7 DEF p, q
<1>8. CASE c \notin Follows
  <2>1. Read(q, c).state \in Errors
    BY <1>3, <1>6, <1>8, NextByte
  <2> QED
    BY <2>1, <1>8 DEF q
<1> QED
  BY <1>7, <1>8

OneMore == {"one", "one, perhaps mark"}

SecondAllowed(b, c) ==
  c \in Follows /\ (b = 224 => c \in 160..191) /\ (b = 237 => c \in 128..159)

SecondIsRead(q, r, b, c) ==
  /\ q \in Runs /\ q.bits = (b - 224) * 64 + (c - 128) /\ q.text = r.text
  /\ q.state \in OneMore
  /\ (q.state = "one, perhaps mark") <=> (b = 239 /\ c = 187 /\ r.state = "start")

(* After two bytes of three: q has read b and c.                           *)
LEMMA SecondOfThree ==
  ASSUME NEW r \in Runs, r.state \in Waiting, NEW b \in 224..239, NEW c \in Octets,
         NEW q, q = Read(Read(r, b), c)
  PROVE  IF SecondAllowed(b, c) THEN SecondIsRead(q, r, b, c) ELSE q.state \in Errors
<1> DEFINE u == Read(r, b)
           k == Class(c)
           s == MoreTo(u.state, k)
           v == u.bits * 64 + (c - 128)
<1>1. b \in Octets /\ b \in Nat /\ c \in Nat
  BY DEF Octets
<1>2. /\ u.bits = b - 224 /\ u.text = r.text
      /\ b = 224 => u.state = "two, not overlong"
      /\ b = 237 => u.state = "two, no surrogate"
      /\ b = 239 => u.state = IF r.state = "start" THEN "two, perhaps mark" ELSE "two"
      /\ b \notin {224, 237, 239} => u.state = "two"
  <2>1. ~(b <= 127) /\ ~(b \in 194..223) /\ b \in 224..239 /\ b \in 194..244
    OBVIOUS
  <2>2. u = AfterFirst(r, b)
    BY <1>1, <2>1, FirstByte
  <2> DEFINE x == IF b = 224 THEN "two, not overlong"
                  ELSE IF b = 237 THEN "two, no surrogate"
                  ELSE IF b = 239 /\ r.state = "start" THEN "two, perhaps mark" ELSE "two"
  <2>5. AfterFirst(r, b) = [state |-> x, bits |-> b - 224, text |-> r.text]
    BY <2>1, Zenon DEF AfterFirst
  <2> HIDE DEF x
  <2>3. u = [state |-> x, bits |-> b - 224, text |-> r.text]
    BY <2>2, <2>5
  <2>4. u.bits = b - 224 /\ u.text = r.text /\ u.state = x
    BY <2>3
  <2>6. x = IF b = 224 THEN "two, not overlong"
            ELSE IF b = 237 THEN "two, no surrogate"
            ELSE IF b = 239 /\ r.state = "start" THEN "two, perhaps mark" ELSE "two"
    BY DEF x
  <2>7. b = 224 => x = "two, not overlong"
    BY <2>6
  <2>8. b = 237 => x = "two, no surrogate"
    <3>1. b = 237 => b # 224
      OBVIOUS
    <3> QED
      BY <2>6, <3>1, Zenon
  <2>9. b = 239 => x = IF r.state = "start" THEN "two, perhaps mark" ELSE "two"
    <3>1. b = 239 => b # 224 /\ b # 237
      OBVIOUS
    <3> QED
      BY <2>6, <3>1, Zenon
  <2>10. b \notin {224, 237, 239} => x = "two"
    BY <2>6
  <2> HIDE DEF u
  <2> QED
    BY <2>4, <2>7, <2>8, <2>9, <2>10, ZenonT(60)
<1>3. u \in Runs /\ q \in Runs
  BY <1>1, ReadKind
<1>4. u.state \in More
  BY <1>2 DEF More
<1> HIDE DEF u
<1>5. CASE c \notin Follows
  <2>1. q.state \in Errors
    BY <1>3, <1>4, <1>5, NextByte DEF u
  <2> QED
    BY <1>5, <2>1 DEF SecondAllowed
<1>6. CASE c \in Follows
  <2>1. q = [state |-> s, bits |-> v, text |-> IF s = "done" THEN Append(u.text, v) ELSE u.text]
    BY <1>3, <1>4, <1>6, NextByte DEF u
  <2>2. k = IF c \in 128..143 THEN "F" ELSE IF c \in 144..159 THEN "G"
            ELSE IF c = 187 THEN "I" ELSE IF c = 191 THEN "J" ELSE "H"
    BY <1>6 DEF Class, Follows
  <2> HIDE DEF k
  <2>3. /\ b = 224 => s = IF c \in 160..191 THEN "one" ELSE "overlong"
        /\ b = 237 => s = IF c \in 128..159 THEN "one" ELSE "surrogate"
        /\ b = 239 => s = IF c = 187 /\ r.state = "start" THEN "one, perhaps mark" ELSE "one"
        /\ b \notin {224, 237, 239} => s = "one"
    <3>1. CASE b = 224
      <4>1. u.state = "two, not overlong"
        BY <1>2, <3>1
      <4>2. s = IF k \in {"F", "G"} THEN "overlong" ELSE "one"
        BY <4>1, Zenon DEF MoreTo
      <4>3. k \in {"F", "G"} <=> c \notin 160..191
        BY <2>2, <1>6 DEF Follows
      <4> QED
        BY <3>1, <4>2, <4>3
    <3>2. CASE b = 237
      <4>0. b # 224
        BY <3>2
      <4>1. u.state = "two, no surrogate"
        BY <1>2, <3>2
      <4>2. s = IF k \in {"F", "G"} THEN "one" ELSE "surrogate"
        BY <4>1, Zenon DEF MoreTo
      <4>3. k \in {"F", "G"} <=> c \in 128..159
        BY <2>2, <1>6 DEF Follows
      <4> QED
        BY <3>2, <4>2, <4>3
    <3>3. CASE b = 239
      <4>0. b # 224 /\ b # 237
        BY <3>3
      <4>1. u.state = IF r.state = "start" THEN "two, perhaps mark" ELSE "two"
        BY <1>2, <3>3
      <4>2. s = IF r.state = "start" /\ k = "I" THEN "one, perhaps mark" ELSE "one"
        BY <4>1 DEF MoreTo
      <4>3. k = "I" <=> c = 187
        BY <2>2, <1>6 DEF Follows
      <4>4. s = IF c = 187 /\ r.state = "start" THEN "one, perhaps mark" ELSE "one"
        BY <4>2, <4>3
      <4>5. b \in {224, 237, 239}
        BY <3>3
      <4> HIDE DEF s
      <4> QED
        BY <4>0, <4>4, <4>5, Zenon
    <3>4. CASE b \notin {224, 237, 239}
      <4>1. u.state = "two"
        BY <1>2, <3>4
      <4>2. s = "one"
        BY <4>1, Zenon DEF MoreTo
      <4> QED
        BY <3>4, <4>2
    <3> QED
      BY <3>1, <3>2, <3>3, <3>4
  <2> HIDE DEF s, v
  <2>4. s # "done"
    BY <2>3, ZenonT(60)
  <2>5. q = [state |-> s, bits |-> v, text |-> u.text]
    BY <2>1, <2>4, Zenon
  <2>8. q.state = s /\ q.bits = v /\ q.text = u.text
    BY <2>5
  <2>6. q.text = r.text
    BY <2>8, <1>2
  <2>7. v = (b - 224) * 64 + (c - 128)
    BY <1>2, ZenonT(60) DEF v
  <2> DEFINE ok == SecondAllowed(b, c)
             marks == b = 239 /\ c = 187 /\ r.state = "start"
  <2>9. ~ok => s \in Errors
    BY <1>6, <2>3, ZenonT(60) DEF Errors, SecondAllowed
  <2>10. ok => s = "one" \/ s = "one, perhaps mark"
    BY <2>3, ZenonT(60) DEF SecondAllowed
  <2>11. s = "one, perhaps mark" <=> marks
    <3>1. marks => b = 239
      OBVIOUS
    <3>2. b = 239 => (s = "one, perhaps mark" <=> c = 187 /\ r.state = "start")
      BY <2>3
    <3>3. b # 239 => s # "one, perhaps mark"
      BY <2>3, ZenonT(60)
    <3> QED
      BY <3>2, <3>3
  <2> HIDE DEF marks
  <2>12. ok => s \in OneMore
    BY <2>10 DEF OneMore
  <2> QED
    BY <1>3, <1>6, <2>6, <2>7, <2>8, <2>9, <2>11, <2>12, Zenon DEF marks, SecondIsRead
<1> QED
  BY <1>5, <1>6

(* After two bytes of four.                                                *)
LEMMA SecondOfFour ==
  ASSUME NEW r \in Runs, r.state \in Waiting, NEW b \in 240..244, NEW c \in Octets,
         NEW q, q = Read(Read(r, b), c)
  PROVE  IF c \in Follows /\ (b = 240 => c \in 144..191) /\ (b = 244 => c \in 128..143)
         THEN /\ q \in Runs /\ q.bits = (b - 240) * 64 + (c - 128) /\ q.text = r.text
              /\ q.state = "two"
         ELSE q.state \in Errors
<1> DEFINE u == Read(r, b)
           k == Class(c)
           s == MoreTo(u.state, k)
           v == u.bits * 64 + (c - 128)
<1>1. b \in Octets /\ b \in Nat /\ c \in Nat
  BY DEF Octets
<1>2. /\ u.bits = b - 240 /\ u.text = r.text
      /\ b = 240 => u.state = "three, not overlong"
      /\ b = 244 => u.state = "three, in range"
      /\ b \notin {240, 244} => u.state = "three"
  <2>1. ~(b <= 127) /\ ~(b \in 194..223) /\ ~(b \in 224..239) /\ b \in 194..244
    OBVIOUS
  <2>2. u = AfterFirst(r, b)
    BY <1>1, <2>1, FirstByte
  <2> DEFINE x == IF b = 240 THEN "three, not overlong"
                  ELSE IF b = 244 THEN "three, in range" ELSE "three"
  <2>5. AfterFirst(r, b) = [state |-> x, bits |-> b - 240, text |-> r.text]
    BY <2>1, Zenon DEF AfterFirst
  <2> HIDE DEF x
  <2>3. u = [state |-> x, bits |-> b - 240, text |-> r.text]
    BY <2>2, <2>5
  <2>4. u.bits = b - 240 /\ u.text = r.text /\ u.state = x
    BY <2>3
  <2>6. x = IF b = 240 THEN "three, not overlong"
            ELSE IF b = 244 THEN "three, in range" ELSE "three"
    BY DEF x
  <2>7. b = 240 => x = "three, not overlong"
    BY <2>6
  <2>8. b = 244 => x = "three, in range"
    <3>1. b = 244 => b # 240
      OBVIOUS
    <3> QED
      BY <2>6, <3>1, Zenon
  <2>9. b \notin {240, 244} => x = "three"
    BY <2>6
  <2> HIDE DEF u
  <2> QED
    BY <2>4, <2>7, <2>8, <2>9, ZenonT(60)
<1>3. u \in Runs /\ q \in Runs
  BY <1>1, ReadKind
<1>4. u.state \in More
  BY <1>2 DEF More
<1> HIDE DEF u
<1>5. CASE c \notin Follows
  BY <1>3, <1>4, <1>5, NextByte DEF u
<1>6. CASE c \in Follows
  <2>1. q = [state |-> s, bits |-> v, text |-> IF s = "done" THEN Append(u.text, v) ELSE u.text]
    BY <1>3, <1>4, <1>6, NextByte DEF u
  <2>2. (k = "F") <=> c \in 128..143
    BY <1>6 DEF Class, Follows
  <2> HIDE DEF k
  <2>3. /\ b = 240 => s = IF c \in 144..191 THEN "two" ELSE "overlong"
        /\ b = 244 => s = IF c \in 128..143 THEN "two" ELSE "out of range"
        /\ b \notin {240, 244} => s = "two"
    <3>1. CASE b = 240
      <4>1. u.state = "three, not overlong"
        BY <1>2, <3>1
      <4>2. s = IF k = "F" THEN "overlong" ELSE "two"
        BY <4>1, Zenon DEF MoreTo
      <4>3. k = "F" <=> c \notin 144..191
        BY <2>2, <1>6 DEF Follows
      <4> QED
        BY <3>1, <4>2, <4>3
    <3>2. CASE b = 244
      <4>0. b # 240
        BY <3>2
      <4>1. u.state = "three, in range"
        BY <1>2, <3>2
      <4>2. s = IF k = "F" THEN "two" ELSE "out of range"
        BY <4>1, Zenon DEF MoreTo
      <4> QED
        <5>1. s = IF c \in 128..143 THEN "two" ELSE "out of range"
          BY <4>2, <2>2
        <5>2. b \in {240, 244}
          BY <3>2
        <5> HIDE DEF s
        <5> QED
          BY <4>0, <5>1, <5>2, Zenon
    <3>3. CASE b \notin {240, 244}
      <4>1. u.state = "three"
        BY <1>2, <3>3
      <4>2. s = "two"
        BY <4>1, Zenon DEF MoreTo
      <4> QED
        BY <3>3, <4>2
    <3> QED
      BY <3>1, <3>2, <3>3
  <2> HIDE DEF s, v
  <2>4. s # "done"
    BY <2>3, ZenonT(60)
  <2>5. q = [state |-> s, bits |-> v, text |-> u.text]
    BY <2>1, <2>4, Zenon
  <2>8. q.state = s /\ q.bits = v /\ q.text = u.text
    BY <2>5
  <2>6. q.text = r.text
    BY <2>8, <1>2
  <2>7. v = (b - 240) * 64 + (c - 128)
    BY <1>2 DEF v
  <2> QED
    BY <1>3, <1>6, <2>3, <2>6, <2>7, <2>8, ZenonT(60) DEF Errors
<1> QED
  BY <1>5, <1>6

(* After an error nothing is read any more.                                *)
LEMMA StuckInErrors ==
  ASSUME NEW q, NEW b, q.state \in Errors
  PROVE  Read(q, b) = q
BY DEF Read

(* The last byte of three or four.                                         *)
LEMMA LastByte ==
  ASSUME NEW q \in Runs, q.state \in OneMore, NEW b \in Octets
  PROVE  IF b \in Follows
         THEN LET v == q.bits * 64 + (b - 128)
              IN  /\ Read(q, b) \in Runs /\ Read(q, b).state \in Waiting \ {"start"}
                  /\ Read(q, b).text = IF q.state = "one, perhaps mark" /\ b = 191 THEN q.text
                                       ELSE Append(q.text, v)
         ELSE Read(q, b).state \in Errors
<1>1. q.state \in More /\ b \in Nat
  <2>1. q.state \in More
    BY Zenon DEF More, OneMore
  <2>2. b \in Nat
    BY DEF Octets
  <2> QED
    BY <2>1, <2>2
<1>2. Read(q, b) \in Runs
  BY <1>1, ReadKind
<1>3. CASE b \notin Follows
  BY <1>1, <1>3, NextByte
<1>4. CASE b \in Follows
  <2> DEFINE s == MoreTo(q.state, Class(b))
             v == q.bits * 64 + (b - 128)
             w == IF s = "done" THEN Append(q.text, v) ELSE q.text
  <2>1. Read(q, b) = [state |-> s, bits |-> v, text |-> w]
    BY <1>1, <1>4, NextByte
  <2>2. (Class(b) = "J") <=> b = 191
    <3>1. CASE b = 191
      BY <3>1 DEF Class
    <3>2. CASE b # 191
      BY <1>4, <3>2 DEF Class, Follows
    <3> QED
      BY <3>1, <3>2
  <2>3. s = IF q.state = "one, perhaps mark" /\ b = 191 THEN "mark left out" ELSE "done"
    <3>0. q.state = "one" \/ q.state = "one, perhaps mark"
      BY Zenon DEF OneMore
    <3>1. CASE q.state = "one"
      BY <3>1 DEF MoreTo
    <3>2. CASE q.state = "one, perhaps mark"
      <4>1. s = IF Class(b) = "J" THEN "mark left out" ELSE "done"
        BY <3>2, Zenon DEF MoreTo
      <4> HIDE DEF s
      <4> QED
        BY <4>1, <3>2, <2>2
    <3> QED
      BY <3>0, <3>1, <3>2
  <2> HIDE DEF s
  <2>4. w = IF q.state = "one, perhaps mark" /\ b = 191 THEN q.text ELSE Append(q.text, v)
    BY <2>3
  <2>5. Read(q, b).state = s /\ Read(q, b).text = w
    <3> HIDE DEF v, w
    <3> QED
      BY <2>1
  <2> HIDE DEF w
  <2>6. s \in Waiting \ {"start"}
    BY <2>3 DEF Waiting
  <2> QED
    BY <1>2, <1>4, <2>4, <2>5, <2>6
<1> QED
  BY <1>3, <1>4

(* After two bytes of three nothing has ended; after the third one a code  *)
(* point has, or there is an error.                                        *)
LEMMA EndOfThree ==
  ASSUME NEW r \in Runs, r.state \in Waiting, NEW b \in 224..239, NEW c \in Octets, NEW d \in Octets,
         NEW q, q = Read(Read(r, b), c)
  PROVE  /\ q.state \in More \cup Errors
         /\ IF InThree(b, c, d)
            THEN Ends(Read(q, d), r, ((b - 224) * 64 + (c - 128)) * 64 + (d - 128))
            ELSE Read(q, d).state \in Errors
<1> DEFINE p == ((b - 224) * 64 + (c - 128)) * 64 + (d - 128)
           ok == c \in Follows /\ (b = 224 => c \in 160..191) /\ (b = 237 => c \in 128..159)
<1>0. InThree(b, c, d) <=> ok /\ d \in Follows
  BY DEF InThree
<1> DEFINE marks == b = 239 /\ c = 187 /\ r.state = "start"
<1>3. IF ok
      THEN /\ q \in Runs /\ q.bits = (b - 224) * 64 + (c - 128) /\ q.text = r.text
           /\ q.state \in OneMore /\ (q.state = "one, perhaps mark" <=> marks)
      ELSE q.state \in Errors
  <2>1. IF SecondAllowed(b, c) THEN SecondIsRead(q, r, b, c) ELSE q.state \in Errors
    BY SecondOfThree
  <2> QED
    BY <2>1, Zenon DEF SecondAllowed, SecondIsRead
<1>1. CASE ~ok
  <2>1. q.state \in Errors
    BY <1>1, <1>3, Zenon
  <2>2. Read(q, d) = q
    BY <2>1, StuckInErrors
  <2> HIDE DEF ok
  <2> QED
    BY <1>0, <1>1, <2>1, <2>2
<1>2. CASE ok
  <2>1. /\ q \in Runs /\ q.bits = (b - 224) * 64 + (c - 128) /\ q.text = r.text
        /\ q.state \in OneMore /\ (q.state = "one, perhaps mark" <=> marks)
    BY <1>2, <1>3, Zenon
  <2>2. c \in Follows
    BY <1>2
  <2> HIDE DEF ok, marks
  <2>3. q.state \in OneMore /\ q.state \in More
    BY <2>1 DEF More, OneMore
  <2>4. CASE d \notin Follows
    <3>1. Read(q, d).state \in Errors
      BY <2>1, <2>3, <2>4, LastByte
    <3> QED
      BY <1>0, <2>3, <2>4, <3>1
  <2>5. CASE d \in Follows
    <3>1. q.bits * 64 + (d - 128) = p
      BY <2>1
    <3>2. /\ Read(q, d) \in Runs /\ Read(q, d).state \in Waiting \ {"start"}
          /\ Read(q, d).text = IF q.state = "one, perhaps mark" /\ d = 191 THEN q.text
                               ELSE Append(q.text, q.bits * 64 + (d - 128))
      BY <2>1, <2>3, <2>5, LastByte
    <3>3. (q.state = "one, perhaps mark" /\ d = 191) <=> (r.state = "start" /\ p = Mark)
      <4>1. p = Mark <=> b = 239 /\ c = 187 /\ d = 191
        BY <2>2, <2>5, SMT DEF Mark, Follows
      <4>2. (q.state = "one, perhaps mark") <=> marks
        BY <2>1
      <4> HIDE DEF p
      <4> QED
        BY <4>1, <4>2 DEF marks
    <3> HIDE DEF p
    <3>4. Ends(Read(q, d), r, p)
      BY <2>1, <3>1, <3>2, <3>3, ZenonT(60) DEF Ends
    <3> QED
      BY <1>0, <1>2, <2>3, <2>5, <3>4 DEF p
  <2> QED
    BY <2>4, <2>5
<1> QED
  BY <1>1, <1>2

(* After two and three bytes of four nothing has ended; after the fourth   *)
(* one a code point has, or there is an error.                             *)
LEMMA EndOfFour ==
  ASSUME NEW r \in Runs, r.state \in Waiting, NEW b \in 240..244, NEW c \in Octets, NEW d \in Octets,
         NEW e \in Octets, NEW q, q = Read(Read(r, b), c), NEW u, u = Read(q, d)
  PROVE  /\ q.state \in More \cup Errors /\ u.state \in More \cup Errors
         /\ IF InFour(b, c, d, e)
            THEN Ends(Read(u, e), r, (((b - 240) * 64 + (c - 128)) * 64 + (d - 128)) * 64 + (e - 128))
            ELSE Read(u, e).state \in Errors
<1> DEFINE p == (((b - 240) * 64 + (c - 128)) * 64 + (d - 128)) * 64 + (e - 128)
           ok == c \in Follows /\ (b = 240 => c \in 144..191) /\ (b = 244 => c \in 128..143)
<1>0. InFour(b, c, d, e) <=> ok /\ d \in Follows /\ e \in Follows
  BY DEF InFour
<1>1. CASE ~ok
  <2>1. q.state \in Errors
    BY <1>1, SecondOfFour
  <2>2. u = q /\ Read(u, e) = u
    BY <2>1, StuckInErrors
  <2> HIDE DEF ok
  <2> QED
    BY <1>0, <1>1, <2>1, <2>2
<1>2. CASE ok
  <2>1. q \in Runs /\ q.bits = (b - 240) * 64 + (c - 128) /\ q.text = r.text /\ q.state = "two"
    BY <1>2, SecondOfFour
  <2>2. c \in Follows
    BY <1>2
  <2> HIDE DEF ok
  <2>3. q.state \in More /\ MoreTo(q.state, Class(d)) = "one" /\ d \in Nat
    BY <2>1 DEF More, MoreTo, Octets
  <2>4. CASE d \notin Follows
    <3>1. u.state \in Errors
      BY <2>1, <2>3, <2>4, NextByte
    <3>2. Read(u, e) = u
      BY <3>1, StuckInErrors
    <3> QED
      BY <1>0, <2>3, <2>4, <3>1, <3>2
  <2>5. CASE d \in Follows
    <3>1. u = [state |-> "one", bits |-> q.bits * 64 + (d - 128), text |-> q.text]
      <4>1. u = [state |-> "one", bits |-> q.bits * 64 + (d - 128),
                 text |-> IF "one" = "done" THEN Append(q.text, q.bits * 64 + (d - 128)) ELSE q.text]
        BY <2>1, <2>3, <2>5, NextByte
      <4> QED
        BY <4>1
    <3>2. u \in Runs
      BY <2>1, <2>3, ReadKind
    <3>3. u.state = "one" /\ u.bits = ((b - 240) * 64 + (c - 128)) * 64 + (d - 128) /\ u.text = r.text
      BY <2>1, <3>1
    <3>4. u.state \in More /\ u.state \in OneMore
      BY <3>3 DEF More, OneMore
    <3>5. CASE e \notin Follows
      <4>1. Read(u, e).state \in Errors
        BY <3>2, <3>4, <3>5, LastByte
      <4> QED
        BY <1>0, <2>3, <3>4, <3>5, <4>1
    <3>6. CASE e \in Follows
      <4>1. u.bits * 64 + (e - 128) = p
        BY <3>3
      <4>2. /\ Read(u, e) \in Runs /\ Read(u, e).state \in Waiting \ {"start"}
            /\ Read(u, e).text = Append(u.text, u.bits * 64 + (e - 128))
        BY <3>2, <3>3, <3>4, <3>6, LastByte, ZenonT(60)
      <4>3. p # Mark
        BY <1>2, <2>2, <2>5, <3>6, SMT DEF Mark, Follows, ok
      <4> HIDE DEF p
      <4>4. Ends(Read(u, e), r, p)
        BY <3>3, <4>1, <4>2, <4>3 DEF Ends
      <4> QED
        BY <1>0, <1>2, <2>3, <2>5, <3>4, <3>6, <4>4 DEF p
    <3> QED
      BY <3>5, <3>6
  <2> QED
    BY <2>4, <2>5
<1> QED
  BY <1>1, <1>2

-----------------------------------------------------------------------------
(* Some bytes in a row *)

(* One byte is one step.                                                   *)
LEMMA ReadOne ==
  ASSUME NEW r \in Runs, NEW b \in Nat
  PROVE  Run(r, <<b>>) = Read(r, b)
<1>1. <<>> \in Seq(Nat) /\ <<b>> = Append(<<>>, b)
  OBVIOUS
<1>2. Run(r, Append(<<>>, b)) = Read(Run(r, <<>>), b)
  BY <1>1, RunOnMore
<1> QED
  BY <1>1, <1>2, RunOfNone, Zenon

(* Two bytes are two steps.                                                *)
LEMMA ReadTwo ==
  ASSUME NEW r \in Runs, NEW b \in Nat, NEW c \in Nat
  PROVE  Run(r, <<b, c>>) = Read(Read(r, b), c)
<1>1. <<b>> \in Seq(Nat) /\ <<b, c>> = Append(<<b>>, c)
  OBVIOUS
<1>2. Run(r, Append(<<b>>, c)) = Read(Run(r, <<b>>), c)
  BY <1>1, RunOnMore
<1> QED
  BY <1>1, <1>2, ReadOne, Zenon

(* Three bytes are three steps.                                            *)
LEMMA ReadThree ==
  ASSUME NEW r \in Runs, NEW b \in Nat, NEW c \in Nat, NEW d \in Nat
  PROVE  Run(r, <<b, c, d>>) = Read(Read(Read(r, b), c), d)
<1>1. <<b, c>> \in Seq(Nat) /\ <<b, c, d>> = Append(<<b, c>>, d)
  OBVIOUS
<1>2. Run(r, Append(<<b, c>>, d)) = Read(Run(r, <<b, c>>), d)
  BY <1>1, RunOnMore
<1> QED
  BY <1>1, <1>2, ReadTwo, Zenon

(* Four bytes are four steps.                                              *)
LEMMA ReadFour ==
  ASSUME NEW r \in Runs, NEW b \in Nat, NEW c \in Nat, NEW d \in Nat, NEW e \in Nat
  PROVE  Run(r, <<b, c, d, e>>) = Read(Read(Read(Read(r, b), c), d), e)
<1>1. <<b, c, d>> \in Seq(Nat) /\ <<b, c, d, e>> = Append(<<b, c, d>>, e)
  OBVIOUS
<1>2. Run(r, Append(<<b, c, d>>, e)) = Read(Run(r, <<b, c, d>>), e)
  BY <1>1, RunOnMore
<1> QED
  BY <1>1, <1>2, ReadThree, ZenonT(60)

(* A sequence of one to four members is the tuple of them.                 *)
LEMMA AsTuple ==
  ASSUME NEW E, NEW cs \in Seq(E)
  PROVE  /\ Len(cs) = 1 => cs = <<cs[1]>> /\ cs[1] \in E
         /\ Len(cs) = 2 => cs = <<cs[1], cs[2]>> /\ cs[1] \in E /\ cs[2] \in E
         /\ Len(cs) = 3 => cs = <<cs[1], cs[2], cs[3]>> /\ cs[1] \in E /\ cs[2] \in E /\ cs[3] \in E
         /\ Len(cs) = 4 => cs = <<cs[1], cs[2], cs[3], cs[4]>> /\ cs[1] \in E /\ cs[2] \in E /\ cs[3] \in E /\ cs[4] \in E
<1>1. ASSUME Len(cs) = 1 PROVE cs = <<cs[1]>> /\ cs[1] \in E
  <2> DEFINE t == <<cs[1]>>
  <2>1. \A i \in 1..1 : cs[i] \in E
    BY <1>1, ElementOfSeq
  <2>2. cs[1] \in E
    BY <2>1
  <2>3. t \in Seq(E) /\ Len(t) = 1
    BY <2>2
  <2>4. t[1] = cs[1]
    OBVIOUS
  <2> HIDE DEF t
  <2>5. \A i \in 1..1 : cs[i] = t[i]
    BY <2>4
  <2>6. cs = t
    BY <1>1, <2>3, <2>5, SeqEqual
  <2> QED
    BY <2>2, <2>6 DEF t
<1>2. ASSUME Len(cs) = 2 PROVE cs = <<cs[1], cs[2]>> /\ cs[1] \in E /\ cs[2] \in E
  <2> DEFINE t == <<cs[1], cs[2]>>
  <2>1. \A i \in 1..2 : cs[i] \in E
    BY <1>2, ElementOfSeq
  <2>2. cs[1] \in E /\ cs[2] \in E
    BY <2>1
  <2>3. t \in Seq(E) /\ Len(t) = 2
    BY <2>2
  <2>4. t[1] = cs[1] /\ t[2] = cs[2]
    OBVIOUS
  <2> HIDE DEF t
  <2>5. \A i \in 1..2 : cs[i] = t[i]
    BY <2>4
  <2>6. cs = t
    BY <1>2, <2>3, <2>5, SeqEqual
  <2> QED
    BY <2>2, <2>6 DEF t
<1>3. ASSUME Len(cs) = 3 PROVE cs = <<cs[1], cs[2], cs[3]>> /\ cs[1] \in E /\ cs[2] \in E /\ cs[3] \in E
  <2> DEFINE t == <<cs[1], cs[2], cs[3]>>
  <2>1. \A i \in 1..3 : cs[i] \in E
    BY <1>3, ElementOfSeq
  <2>2. cs[1] \in E /\ cs[2] \in E /\ cs[3] \in E
    BY <2>1
  <2>3. t \in Seq(E) /\ Len(t) = 3
    BY <2>2
  <2>4. t[1] = cs[1] /\ t[2] = cs[2] /\ t[3] = cs[3]
    OBVIOUS
  <2> HIDE DEF t
  <2>5. \A i \in 1..3 : cs[i] = t[i]
    BY <2>4
  <2>6. cs = t
    BY <1>3, <2>3, <2>5, SeqEqual
  <2> QED
    BY <2>2, <2>6 DEF t
<1>4. ASSUME Len(cs) = 4 PROVE cs = <<cs[1], cs[2], cs[3], cs[4]>> /\ cs[1] \in E /\ cs[2] \in E /\ cs[3] \in E /\ cs[4] \in E
  <2> DEFINE t == <<cs[1], cs[2], cs[3], cs[4]>>
  <2>1. \A i \in 1..4 : cs[i] \in E
    BY <1>4, ElementOfSeq
  <2>2. cs[1] \in E /\ cs[2] \in E /\ cs[3] \in E /\ cs[4] \in E
    BY <2>1
  <2>3. t \in Seq(E) /\ Len(t) = 4
    BY <2>2
  <2>4. t[1] = cs[1] /\ t[2] = cs[2] /\ t[3] = cs[3] /\ t[4] = cs[4]
    OBVIOUS
  <2> HIDE DEF t
  <2>5. \A i \in 1..4 : cs[i] = t[i]
    BY <2>4
  <2>6. cs = t
    BY <1>4, <2>3, <2>5, SeqEqual
  <2> QED
    BY <2>2, <2>6 DEF t
<1> QED
  BY <1>1, <1>2, <1>3, <1>4

(* An error is never left.                                                 *)
LEMMA ErrorsStay ==
  ASSUME NEW q \in Runs, q.state \in Errors, NEW t \in Seq(Nat)
  PROVE  Run(q, t) = q
<1> DEFINE n == Len(t)
<1>1. PICK f \in [0..n -> Runs] :
           /\ f[0] = q /\ f[n] = Run(q, t)
           /\ \A i \in 1..n : f[i] = Read(f[i - 1], t[i])
  BY RunSteps
<1>2. n \in Nat
  OBVIOUS
<1> DEFINE S == {i \in 0..n : f[i] = q}
<1>3. 0 \in S
  BY <1>1, <1>2
<1>4. ASSUME NEW k \in 1..n, k - 1 \in S PROVE k \in S
  <2>1. f[k - 1] = q /\ f[k] = Read(f[k - 1], t[k]) /\ k \in 0..n
    BY <1>1, <1>2, <1>4
  <2> QED
    BY <2>1, StuckInErrors
<1> HIDE DEF n, S
<1>5. \A k \in 0..n : k \in S
  BY <1>2, <1>3, <1>4, UpTo
<1>6. n \in S
  BY <1>2, <1>5
<1> QED
  BY <1>1, <1>6 DEF S

(* Bytes in which an error comes first do not end well.                    *)
LEMMA ErrorEarly ==
  ASSUME NEW r \in Runs, NEW s \in Seq(Nat), NEW t \in Seq(Nat), Run(r, s).state \in Errors
  PROVE  Run(r, s \o t).state \in Errors
<1>1. Run(r, s \o t) = Run(Run(r, s), t)
  BY RunJoined
<1>2. Run(Run(r, s), t) = Run(r, s)
  BY RunKind, ErrorsStay
<1> QED
  BY <1>1, <1>2

(* The bytes of a code point are read as it.                               *)
LEMMA WellFormedIsRead ==
  ASSUME NEW r \in Runs, r.state \in Waiting,
         NEW cs \in Seq(Octets), Len(cs) \in 1..4, WellFormed(cs)
  PROVE  Ends(Run(r, cs), r, Point(cs))
<1>0. Octets \subseteq Nat
  BY DEF Octets
<1> USE <1>0
<1>1. CASE Len(cs) = 1
  <2>1. cs = <<cs[1]>> /\ cs[1] \in Octets
    BY <1>1, AsTuple
  <2> DEFINE b == cs[1]
  <2> HIDE DEF b
  <2>2. cs = <<b>> /\ b \in Octets
    BY <2>1 DEF b
  <2>5. b <= 127 /\ Point(cs) = b
    BY <2>2, OneByte
  <2>3. b \in 0..127 /\ Point(cs) = b
    BY <2>2, <2>5 DEF Octets
  <2>4. Run(r, cs) = Read(r, b)
    BY <2>2, ReadOne
  <2> QED
    BY <2>3, <2>4, EndOfOne
<1>2. CASE Len(cs) = 2
  <2>1. cs = <<cs[1], cs[2]>> /\ cs[1] \in Octets /\ cs[2] \in Octets
    BY <1>2, AsTuple
  <2> DEFINE b == cs[1]
             c == cs[2]
  <2> HIDE DEF b, c
  <2>2. cs = <<b, c>> /\ b \in Octets /\ c \in Octets
    BY <2>1 DEF b, c
  <2>3. InTwo(b, c) /\ Point(cs) = (b - 192) * 64 + (c - 128)
    BY <2>2, TwoBytes
  <2>4. Run(r, cs) = Read(Read(r, b), c)
    BY <2>2, ReadTwo
  <2> QED
    <3>1. b \in 194..223 /\ c \in Follows
      BY <2>3 DEF InTwo
    <3>2. Ends(Read(Read(r, b), c), r, (b - 192) * 64 + (c - 128))
      BY <2>2, <3>1, EndOfTwo
    <3> QED
      BY <2>3, <2>4, <3>2
<1>3. CASE Len(cs) = 3
  <2>1. cs = <<cs[1], cs[2], cs[3]>> /\ cs[1] \in Octets /\ cs[2] \in Octets /\ cs[3] \in Octets
    BY <1>3, AsTuple
  <2> DEFINE b == cs[1]
             c == cs[2]
             d == cs[3]
  <2> HIDE DEF b, c, d
  <2>2. cs = <<b, c, d>> /\ b \in Octets /\ c \in Octets /\ d \in Octets
    BY <2>1 DEF b, c, d
  <2>3. InThree(b, c, d) /\ Point(cs) = ((b - 224) * 64 + (c - 128)) * 64 + (d - 128)
    BY <2>2, ThreeBytes
  <2>4. Run(r, cs) = Read(Read(Read(r, b), c), d)
    BY <2>2, ReadThree
  <2>5. b \in 224..239
    BY <2>3 DEF InThree
  <2> QED
    BY <2>2, <2>3, <2>4, <2>5, EndOfThree
<1>4. CASE Len(cs) = 4
  <2>1. /\ cs = <<cs[1], cs[2], cs[3], cs[4]>>
        /\ cs[1] \in Octets /\ cs[2] \in Octets /\ cs[3] \in Octets /\ cs[4] \in Octets
    BY <1>4, AsTuple
  <2> DEFINE b == cs[1]
             c == cs[2]
             d == cs[3]
             e == cs[4]
  <2> HIDE DEF b, c, d, e
  <2>2. cs = <<b, c, d, e>> /\ b \in Octets /\ c \in Octets /\ d \in Octets /\ e \in Octets
    BY <2>1 DEF b, c, d, e
  <2>3. InFour(b, c, d, e) /\ Point(cs) = (((b - 240) * 64 + (c - 128)) * 64 + (d - 128)) * 64 + (e - 128)
    BY <2>2, FourBytes
  <2>4. Run(r, cs) = Read(Read(Read(Read(r, b), c), d), e)
    BY <2>2, ReadFour
  <2>5. b \in 240..244
    BY <2>3 DEF InFour
  <2> QED
    BY <2>2, <2>3, <2>4, <2>5, EndOfFour, ZenonT(60)
<1> QED
  BY <1>1, <1>2, <1>3, <1>4

(* Bytes that do not begin with a code point do not end well.              *)
LEMMA IllFormedIsNoticed ==
  ASSUME NEW r \in Runs, r.state \in Waiting,
         NEW u \in Seq(Octets), u # <<>>,
         \A m \in 1..4 : m <= Len(u) => ~WellFormed(SubSeq(u, 1, m))
  PROVE  Run(r, u).state \notin Waiting
<1> DEFINE n == Len(u)
           end == Run(r, u).state
           pre(m) == SubSeq(u, 1, m)
<1>0. Octets \subseteq Nat
  BY DEF Octets
<1>1. n \in Nat \ {0} /\ \A i \in 1..n : u[i] \in Octets
  OBVIOUS
<1>2. \A s : s \in Errors \cup More => s \notin Waiting
  BY DEF Errors, More, Waiting
<1>3. /\ n >= 1 => pre(1) = <<u[1]>>
      /\ n >= 2 => pre(2) = <<u[1], u[2]>>
      /\ n >= 3 => pre(3) = <<u[1], u[2], u[3]>>
      /\ n >= 4 => pre(4) = <<u[1], u[2], u[3], u[4]>>
  <2>1. \A m \in 1..4 : m <= n => pre(m) \in Seq(Octets) /\ Len(pre(m)) = m /\ \A i \in 1..m : pre(m)[i] = u[i]
    BY <1>1
  <2> HIDE DEF pre
  <2>2. n >= 1 => pre(1) = <<u[1]>>
    <3> SUFFICES ASSUME n >= 1 PROVE pre(1) = <<u[1]>>
      OBVIOUS
    <3>1. pre(1) \in Seq(Octets) /\ Len(pre(1)) = 1 /\ pre(1)[1] = u[1]
      BY <2>1, <1>1
    <3> QED
      BY <3>1, AsTuple
  <2>3. n >= 2 => pre(2) = <<u[1], u[2]>>
    <3> SUFFICES ASSUME n >= 2 PROVE pre(2) = <<u[1], u[2]>>
      OBVIOUS
    <3>1. pre(2) \in Seq(Octets) /\ Len(pre(2)) = 2 /\ pre(2)[1] = u[1] /\ pre(2)[2] = u[2]
      BY <2>1, <1>1
    <3> QED
      BY <3>1, AsTuple
  <2>4. n >= 3 => pre(3) = <<u[1], u[2], u[3]>>
    <3> SUFFICES ASSUME n >= 3 PROVE pre(3) = <<u[1], u[2], u[3]>>
      OBVIOUS
    <3>1. /\ pre(3) \in Seq(Octets) /\ Len(pre(3)) = 3
          /\ pre(3)[1] = u[1] /\ pre(3)[2] = u[2] /\ pre(3)[3] = u[3]
      BY <2>1, <1>1
    <3> QED
      BY <3>1, AsTuple
  <2>5. n >= 4 => pre(4) = <<u[1], u[2], u[3], u[4]>>
    <3> SUFFICES ASSUME n >= 4 PROVE pre(4) = <<u[1], u[2], u[3], u[4]>>
      OBVIOUS
    <3>1. /\ pre(4) \in Seq(Octets) /\ Len(pre(4)) = 4
          /\ pre(4)[1] = u[1] /\ pre(4)[2] = u[2] /\ pre(4)[3] = u[3] /\ pre(4)[4] = u[4]
      BY <2>1, <1>1, SMTT(30)
    <3> QED
      BY <3>1, AsTuple
  <2> QED
    BY <2>2, <2>3, <2>4, <2>5
<1>4. \A m \in 1..4 : m <= n => pre(m) \in Seq(Nat) /\ SubSeq(u, m + 1, n) \in Seq(Nat)
                               /\ u = pre(m) \o SubSeq(u, m + 1, n)
  <2> TAKE m \in 1..4
  <2> HAVE m <= n
  <2>1. pre(m) \in Seq(Octets) /\ SubSeq(u, m + 1, n) \in Seq(Octets)
    BY <1>1
  <2>2. pre(m) \o SubSeq(u, m + 1, n) = SubSeq(u, 1, n)
    <3>1. 1 \in 1..(n + 1) /\ m \in (1 - 1)..n /\ n \in m..n
      BY <1>1
    <3> QED
      BY <3>1, ConcatAdjacentSubSeq
  <2>3. SubSeq(u, 1, n) = u
    BY SubSeqFull
  <2>4. Seq(Octets) \subseteq Seq(Nat)
    BY <1>0, SeqMonotonic
  <2> QED
    BY <2>1, <2>2, <2>3, <2>4
<1>5. ASSUME NEW m \in 1..4, m <= n, Run(r, pre(m)).state \in Errors
      PROVE  end \notin Waiting
  <2>1. Run(r, u).state \in Errors
    <3> DEFINE s == pre(m)
               t == SubSeq(u, m + 1, n)
    <3>1. s \in Seq(Nat) /\ t \in Seq(Nat) /\ u = s \o t
      BY <1>4, <1>5
    <3>2. Run(r, s).state \in Errors
      BY <1>5
    <3> HIDE DEF s, t
    <3> QED
      BY <3>1, <3>2, ErrorEarly
  <2> QED
    BY <2>1, <1>2
<1>6. ASSUME NEW m \in 1..4, m <= n PROVE ~WellFormed(pre(m))
  BY <1>6
<1>7. pre(n) = u
  BY SubSeqFull
<1> HIDE DEF n, pre, end
<1>8. ASSUME NEW m \in 1..4, n = m, Run(r, pre(m)).state \in More
      PROVE  end \notin Waiting
  BY <1>2, <1>7, <1>8 DEF end
<1> DEFINE b == u[1]
           c == u[2]
           d == u[3]
           e == u[4]
<1>9. /\ b \in Octets /\ pre(1) = <<b>>
      /\ n >= 2 => c \in Octets /\ pre(2) = <<b, c>>
      /\ n >= 3 => d \in Octets /\ pre(3) = <<b, c, d>>
      /\ n >= 4 => e \in Octets /\ pre(4) = <<b, c, d, e>>
  <2>1. n >= 1 /\ b \in Octets
    BY <1>1
  <2>2. n >= 2 => c \in Octets
    BY <1>1
  <2>3. n >= 3 => d \in Octets
    BY <1>1
  <2>4. n >= 4 => e \in Octets
    BY <1>1
  <2> QED
    BY <1>3, <2>1, <2>2, <2>3, <2>4, Zenon
<1> HIDE DEF b, c, d, e
<1>10. /\ Run(r, pre(1)) = Read(r, b)
       /\ n >= 2 => Run(r, pre(2)) = Read(Read(r, b), c)
       /\ n >= 3 => Run(r, pre(3)) = Read(Read(Read(r, b), c), d)
       /\ n >= 4 => Run(r, pre(4)) = Read(Read(Read(Read(r, b), c), d), e)
  <2>0. (n >= 3 => n >= 2) /\ (n >= 4 => n >= 3)
    BY <1>1
  <2>1. Run(r, pre(1)) = Read(r, b)
    BY <1>0, <1>9, ReadOne
  <2>2. n >= 2 => Run(r, pre(2)) = Read(Read(r, b), c)
    BY <1>0, <1>9, ReadTwo
  <2>3. n >= 3 => Run(r, pre(3)) = Read(Read(Read(r, b), c), d)
    <3> SUFFICES ASSUME n >= 3 PROVE Run(r, pre(3)) = Read(Read(Read(r, b), c), d)
      OBVIOUS
    <3>1. b \in Nat /\ c \in Nat /\ d \in Nat /\ pre(3) = <<b, c, d>>
      BY <1>0, <1>9, <2>0
    <3>2. Run(r, <<b, c, d>>) = Read(Read(Read(r, b), c), d)
      BY <3>1, ReadThree
    <3> QED
      BY <3>1, <3>2
  <2>4. n >= 4 => Run(r, pre(4)) = Read(Read(Read(Read(r, b), c), d), e)
    <3> SUFFICES ASSUME n >= 4 PROVE Run(r, pre(4)) = Read(Read(Read(Read(r, b), c), d), e)
      OBVIOUS
    <3>1. b \in Nat /\ c \in Nat /\ d \in Nat /\ e \in Nat /\ pre(4) = <<b, c, d, e>>
      BY <1>0, <1>9, <2>0
    <3>2. Run(r, <<b, c, d, e>>) = Read(Read(Read(Read(r, b), c), d), e)
      BY <3>1, ReadFour
    <3> QED
      BY <3>1, <3>2
  <2> QED
    BY <2>1, <2>2, <2>3, <2>4
<1>11. ~(b <= 127)
  <2>1. ~WellFormed(pre(1)) /\ pre(1) = <<b>>
    BY <1>1, <1>6, <1>9
  <2> QED
    BY <2>1, <1>9, OneByte
<1>12. CASE b \in Octets \ (194..244)
  <2>1. ~(b <= 127 \/ b \in 194..244)
    BY <1>11, <1>12
  <2>2. Read(r, b).state \in Errors
    BY <1>9, <2>1, FirstByte
  <2> QED
    BY <1>1, <1>5, <1>10, <2>2 DEF end
<1>13. CASE b \in 194..223
  <2>1. CASE n = 1
    <3>1. Read(r, b).state = "one"
      <4>1. ~(b <= 127) /\ b \in 194..244 /\ b \in 194..223
        BY <1>13
      <4>2. Read(r, b) = AfterFirst(r, b)
        BY <1>9, <4>1, FirstByte
      <4>3. AfterFirst(r, b) = [state |-> "one", bits |-> b - 192, text |-> r.text]
        BY <4>1, Zenon DEF AfterFirst
      <4> QED
        BY <4>2, <4>3
    <3>2. Read(r, b).state \in More
      BY <3>1 DEF More
    <3> QED
      BY <1>8, <1>10, <2>1, <3>2 DEF end
  <2>2. CASE n >= 2
    <3>1. ~WellFormed(<<b, c>>)
      BY <1>1, <1>6, <1>9, <2>2
    <3>2. ~InTwo(b, c)
      BY <1>9, <2>2, <3>1, TwoBytes
    <3>3. c \notin Follows
      BY <3>2, <1>13 DEF InTwo
    <3>4. Read(Read(r, b), c).state \in Errors
      BY <1>9, <1>13, <2>2, <3>3, EndOfTwo
    <3> QED
      BY <1>1, <1>5, <1>10, <2>2, <3>4 DEF end
  <2> QED
    BY <1>1, <2>1, <2>2
<1>14. CASE b \in 224..239
  <2> DEFINE q == Read(Read(r, b), c)
  <2>1. CASE n = 1
    <3>1. Read(r, b).state \in More
      <4>1. ~(b <= 127) /\ ~(b \in 194..223) /\ b \in 194..244 /\ b \in 224..239
        BY <1>14
      <4>2. Read(r, b) = AfterFirst(r, b)
        BY <1>9, <4>1, FirstByte
      <4> DEFINE x == IF b = 224 THEN "two, not overlong"
                      ELSE IF b = 237 THEN "two, no surrogate"
                      ELSE IF b = 239 /\ r.state = "start" THEN "two, perhaps mark" ELSE "two"
      <4>3. x \in More
        BY DEF More
      <4>4. AfterFirst(r, b) = [state |-> x, bits |-> b - 224, text |-> r.text]
        BY <4>1, Zenon DEF AfterFirst
      <4> HIDE DEF x
      <4>5. AfterFirst(r, b).state = x
        BY <4>4
      <4> QED
        BY <4>2, <4>3, <4>5
    <3> QED
      BY <1>8, <1>10, <2>1, <3>1 DEF end
  <2>2. CASE n >= 2
    <3>1. PICK x \in Octets : n >= 3 => x = d
      BY <1>9 DEF Octets
    <3>2. /\ q.state \in More \cup Errors
          /\ ~InThree(b, c, x) => Read(q, x).state \in Errors
      BY <1>9, <1>14, <2>2, EndOfThree, ZenonT(60)
    <3>3. CASE q.state \in Errors
      BY <1>5, <1>10, <2>2, <3>3 DEF end
    <3>4. CASE q.state \in More /\ n = 2
      BY <1>8, <1>10, <2>2, <3>4 DEF end
    <3>5. CASE n >= 3
      <4>1. ~WellFormed(<<b, c, d>>)
        <5>1. 3 \in 1..4 /\ 3 <= n /\ pre(3) = <<b, c, d>>
          BY <1>1, <1>9, <3>5
        <5>2. ~WellFormed(pre(3))
          BY <1>6, <5>1, Zenon
        <5> QED
          BY <5>1, <5>2
      <4>2. ~InThree(b, c, d)
        BY <1>9, <2>2, <3>5, <4>1, ThreeBytes
      <4>3. Read(q, d).state \in Errors
        BY <3>1, <3>2, <3>5, <4>2
      <4> QED
        BY <1>5, <1>10, <3>5, <4>3 DEF end
    <3> QED
      BY <1>1, <2>2, <3>2, <3>3, <3>4, <3>5
  <2> QED
    BY <1>1, <2>1, <2>2
<1>15. CASE b \in 240..244
  <2> DEFINE q == Read(Read(r, b), c)
  <2>1. CASE n = 1
    <3>1. Read(r, b).state \in More
      <4>1. ~(b <= 127) /\ ~(b \in 194..223) /\ b \in 194..244 /\ ~(b \in 224..239)
        BY <1>15
      <4>2. Read(r, b) = AfterFirst(r, b)
        BY <1>9, <4>1, FirstByte
      <4> DEFINE x == IF b = 240 THEN "three, not overlong"
                      ELSE IF b = 244 THEN "three, in range" ELSE "three"
      <4>3. x \in More
        BY DEF More
      <4>4. AfterFirst(r, b) = [state |-> x, bits |-> b - 240, text |-> r.text]
        BY <4>1, Zenon DEF AfterFirst
      <4> HIDE DEF x
      <4>5. AfterFirst(r, b).state = x
        BY <4>4
      <4> QED
        BY <4>2, <4>3, <4>5
    <3> QED
      BY <1>8, <1>10, <2>1, <3>1 DEF end
  <2>2. CASE n >= 2
    <3>1. PICK x \in Octets : n >= 3 => x = d
      BY <1>9 DEF Octets
    <3>2. PICK y \in Octets : n >= 4 => y = e
      BY <1>9 DEF Octets
    <3>3. /\ q.state \in More \cup Errors /\ Read(q, x).state \in More \cup Errors
          /\ ~InFour(b, c, x, y) => Read(Read(q, x), y).state \in Errors
      <4>1. c \in Octets /\ b \in 240..244
        BY <1>9, <1>15, <2>2
      <4> QED
        BY <4>1, EndOfFour
    <3>4. CASE n = 2
      <4>1. Run(r, pre(2)).state \in More \cup Errors
        BY <1>10, <2>2, <3>3
      <4> QED
        BY <1>5, <1>8, <2>2, <3>4, <4>1 DEF end
    <3>5. CASE n = 3
      <4>1. Run(r, pre(3)).state \in More \cup Errors
        BY <1>10, <3>1, <3>3, <3>5
      <4> QED
        BY <1>5, <1>8, <3>5, <4>1 DEF end
    <3>6. CASE n >= 4
      <4>1. ~WellFormed(<<b, c, d, e>>) /\ x = d /\ y = e
        <5>1. n >= 3 /\ 4 \in 1..4 /\ 4 <= n
          BY <1>1, <3>6
        <5>2. pre(4) = <<b, c, d, e>> /\ x = d /\ y = e
          BY <1>9, <3>1, <3>2, <3>6, <5>1
        <5>3. ~WellFormed(pre(4))
          BY <1>6, <5>1, Zenon
        <5> QED
          BY <5>2, <5>3
      <4>2. ~InFour(b, c, d, e)
        BY <1>9, <2>2, <3>6, <4>1, FourBytes
      <4>3. Run(r, pre(4)).state \in Errors
        BY <1>10, <3>3, <3>6, <4>1, <4>2
      <4> QED
        BY <1>5, <3>6, <4>3 DEF end
    <3> QED
      BY <1>1, <2>2, <3>4, <3>5, <3>6
  <2> QED
    BY <1>1, <2>1, <2>2
<1>16. end \notin Waiting
  BY <1>9, <1>12, <1>13, <1>14, <1>15 DEF Octets, end
<1> QED
  BY <1>16 DEF end

-----------------------------------------------------------------------------
(* Reading and writing from the front *)

(* What depends on what is further on can be found, from the end.          *)
Ahead(n, next, X, G) ==
  /\ n \in Nat /\ \A i \in 1..n : next[i] \in (i + 1)..(n + 1)
  /\ G \in [1..n -> [X -> X]]
FoundAhead(n, next, X, G, x) ==
  \E f \in [1..(n + 1) -> X] : f[n + 1] = x /\ \A i \in 1..n : f[i] = G[i][f[next[i]]]

(* There is such a function.                                               *)
LEMMA AheadExists ==
  ASSUME NEW n, NEW next, NEW X, NEW G, Ahead(n, next, X, G), NEW x \in X
  PROVE  FoundAhead(n, next, X, G, x)
<1> DEFINE From(k) == (n + 1 - k)..(n + 1)
           Found(f, k) == f \in [From(k) -> X] /\ f[n + 1] = x
                          /\ \A i \in From(k) \ {n + 1} : f[i] = G[i][f[next[i]]]
           S == {k \in 0..n : \E f : Found(f, k)}
<1>0. /\ n \in Nat /\ \A i \in 1..n : next[i] \in (i + 1)..(n + 1)
      /\ G \in [1..n -> [X -> X]]
  BY DEF Ahead
<1> USE <1>0
<1>1. 0 \in S
  <2> DEFINE f0 == [i \in From(0) |-> x]
  <2>1. Found(f0, 0)
    OBVIOUS
  <2> HIDE DEF Found, f0
  <2> QED
    BY <2>1
<1>2. ASSUME NEW k \in 1..n, k - 1 \in S PROVE k \in S
  <2>1. PICK f : Found(f, k - 1)
    BY <1>2
  <2> DEFINE i0 == n + 1 - k
             g == [i \in From(k) |-> IF i = i0 THEN G[i0][f[next[i0]]] ELSE f[i]]
  <2>2. /\ i0 \in 1..n /\ next[i0] \in From(k - 1) /\ From(k) = From(k - 1) \cup {i0}
        /\ i0 \notin From(k - 1) /\ n + 1 \in From(k - 1)
        /\ \A i \in From(k - 1) \ {n + 1} : i \in 1..n /\ next[i] \in From(k - 1)
    <3>1. i0 \in 1..n
      OBVIOUS
    <3>2. next[i0] \in From(k - 1)
      BY <3>1
    <3>3. From(k) = From(k - 1) \cup {i0} /\ i0 \notin From(k - 1) /\ n + 1 \in From(k - 1)
      OBVIOUS
    <3>4. ASSUME NEW i \in From(k - 1) \ {n + 1} PROVE i \in 1..n /\ next[i] \in From(k - 1)
      <4>1. i \in 1..n /\ i >= n + 1 - (k - 1)
        OBVIOUS
      <4>2. next[i] \in (i + 1)..(n + 1)
        BY <4>1
      <4> QED
        BY <4>1, <4>2
    <3> QED
      BY <3>1, <3>2, <3>3, <3>4
  <2> HIDE DEF i0, From
  <2>3. f \in [From(k - 1) -> X] /\ f[n + 1] = x
        /\ \A i \in From(k - 1) \ {n + 1} : f[i] = G[i][f[next[i]]]
    BY <2>1
  <2>4. f[next[i0]] \in X
    BY <2>2, <2>3
  <2>5. G[i0][f[next[i0]]] \in X
    BY <2>2, <2>4
  <2>6. g \in [From(k) -> X]
    BY <2>2, <2>3, <2>5
  <2>7. \A i \in From(k - 1) : g[i] = f[i]
    BY <2>2
  <2>8. g[i0] = G[i0][f[next[i0]]]
    BY <2>2
  <2> HIDE DEF g
  <2>9. \A i \in From(k) \ {n + 1} : g[i] = G[i][g[next[i]]]
    <3> TAKE i \in From(k) \ {n + 1}
    <3>1. CASE i = i0
      BY <3>1, <2>2, <2>7, <2>8
    <3>2. CASE i \in From(k - 1) \ {n + 1}
      BY <3>2, <2>2, <2>3, <2>7
    <3> QED
      BY <3>1, <3>2, <2>2
  <2>10. Found(g, k)
    BY <2>2, <2>3, <2>6, <2>7, <2>9
  <2>11. k \in 0..n
    OBVIOUS
  <2> HIDE DEF Found
  <2> QED
    BY <2>10, <2>11
<1> HIDE DEF S
<1>3. \A k \in 0..n : k \in S
  BY <1>1, <1>2, UpTo
<1>4. PICK f : Found(f, n)
  <2>1. n \in S
    BY <1>3
  <2> QED
    BY <2>1 DEF S
<1>5. From(n) = 1..(n + 1) /\ From(n) \ {n + 1} = 1..n
  OBVIOUS
<1> QED
  BY <1>4, <1>5 DEF FoundAhead

(* What holds at the end, and of what depends on what is further on, holds *)
(* from the front.                                                         *)
LEMMA FromTheEnd ==
  ASSUME NEW n \in Nat, NEW S, n + 1 \in S,
         \A i \in 1..n : (\A j \in (i + 1)..(n + 1) : j \in S) => i \in S
  PROVE  \A i \in 1..(n + 1) : i \in S
<1> DEFINE T == {k \in Nat : k <= n => n + 1 - k \in S}
<1>1. ASSUME NEW k \in Nat, \A m \in Nat : m < k => m \in T PROVE k \in T
  <2> SUFFICES ASSUME k <= n, k # 0 PROVE n + 1 - k \in S
    OBVIOUS
  <2> DEFINE i == n + 1 - k
  <2>1. i \in 1..n
    OBVIOUS
  <2>2. ASSUME NEW j \in (i + 1)..(n + 1) PROVE j \in S
    <3> DEFINE m == n + 1 - j
    <3>1. m \in Nat /\ m < k /\ m <= n /\ j = n + 1 - m
      OBVIOUS
    <3> QED
      BY <3>1, <1>1
  <2> HIDE DEF i
  <2> QED
    BY <2>1, <2>2 DEF i
<1> HIDE DEF T
<1>2. \A k \in Nat : k \in T
  BY <1>1, FromAllLess
<1>3. ASSUME NEW i \in 1..(n + 1) PROVE i \in S
  <2> DEFINE k == n + 1 - i
  <2>1. k \in Nat /\ k <= n /\ i = n + 1 - k
    OBVIOUS
  <2> QED
    BY <1>2, <2>1 DEF T
<1> QED
  BY <1>3

(* What the automaton adds to what it has, of the code points t.           *)
Joined(r, t) == r.text \o (IF r.state = "start" THEN Unmarked(t) ELSE t)

(* No code point adds nothing.                                             *)
LEMMA JoinedNone ==
  ASSUME NEW r \in Runs
  PROVE  Joined(r, <<>>) = r.text
<1>1. Unmarked(<<>>) = <<>>
  BY DEF Unmarked
<1>2. r.text \in Seq(Nat)
  BY DEF Runs
<1>3. r.text \o <<>> = r.text
  BY <1>2, ConcatEmptySeq
<1> QED
  BY <1>1, <1>3 DEF Joined

(* A code point and what follows it can be added one after the other, when *)
(* the automaton has read the first.                                       *)
LEMMA JoinedOne ==
  ASSUME NEW r \in Runs, NEW p \in Nat, NEW t \in Seq(Nat), NEW q, Ends(q, r, p)
  PROVE  Joined(r, <<p>> \o t) = Joined(q, t)
<1> DEFINE w == <<p>> \o t
<1>1. w \in Seq(Nat) /\ w # <<>> /\ Head(w) = p /\ Tail(w) = t
  <2>1. <<p>> \in Seq(Nat) /\ Len(<<p>>) = 1 /\ <<p>>[1] = p
    OBVIOUS
  <2>2. w \in Seq(Nat) /\ Len(w) = 1 + Len(t) /\ \A i \in 1..(1 + Len(t)) : w[i] = IF i <= 1 THEN p ELSE t[i - 1]
    BY <2>1, ConcatProperties
  <2> HIDE DEF w
  <2>3. Len(t) \in Nat
    OBVIOUS
  <2>4. w # <<>> /\ Head(w) = p
    BY <2>2, <2>3
  <2>5. Tail(w) \in Seq(Nat) /\ Len(Tail(w)) = Len(t) /\ \A i \in 1..Len(t) : Tail(w)[i] = w[i + 1]
    BY <2>2, <2>3, <2>4, HeadTailProperties
  <2>6. ASSUME NEW i \in 1..Len(t) PROVE Tail(w)[i] = t[i]
    <3>1. Tail(w)[i] = w[i + 1]
      BY <2>5
    <3> DEFINE n == Len(t)
    <3>2. n \in Nat /\ i \in 1..n
      BY <2>3
    <3> HIDE DEF n
    <3>3. i + 1 \in 1..(1 + n) /\ ~(i + 1 <= 1) /\ (i + 1) - 1 = i
      BY <3>2
    <3> QED
      BY <2>2, <3>1, <3>3 DEF n
  <2>7. Tail(w) = t
    BY <2>5, <2>6, SeqEqual
  <2> QED
    BY <2>2, <2>4, <2>7
<1>2. Unmarked(w) = IF p = Mark THEN t ELSE w
  BY <1>1 DEF Unmarked
<1>3. r.text \in Seq(Nat)
  BY DEF Runs
<1>4. Append(r.text, p) \o t = r.text \o w
  <2> DEFINE s == r.text
             v == <<p>>
  <2>1. Append(s, p) = s \o v /\ v \in Seq(Nat) /\ s \in Seq(Nat)
    <3>1. s \in Seq(Nat) /\ v \in Seq(Nat) /\ p \in Nat
      BY <1>3
    <3> HIDE DEF s
    <3> QED
      BY <3>1, AppendIsConcat
  <2> HIDE DEF s, v
  <2>2. (s \o v) \o t = s \o (v \o t)
    <3>1. s \in Seq(Nat) /\ v \in Seq(Nat) /\ t \in Seq(Nat)
      BY <2>1
    <3>2. AreTexts(s, v, t)
      BY <3>1, Zenon DEF AreTexts
    <3>3. JoinAlike(s, v, t)
      BY <3>2, TextsJoin, Zenon
    <3> QED
      BY <3>3, Zenon DEF JoinAlike
  <2> QED
    BY <2>1, <2>2 DEF s, v
<1> HIDE DEF w
<1>5. q.state # "start" /\ q.text = IF r.state = "start" /\ p = Mark THEN r.text ELSE Append(r.text, p)
  BY DEF Ends
<1>6. Joined(q, t) = q.text \o t
  BY <1>5 DEF Joined
<1>7. Joined(r, w) = IF r.state = "start" /\ p = Mark THEN r.text \o t ELSE r.text \o w
  BY <1>2 DEF Joined
<1>8. Joined(r, w) = Joined(q, t)
  BY <1>4, <1>5, <1>6, <1>7, Zenon
<1> QED
  BY <1>8 DEF w

(* The first byte tells how many make the code point.                      *)
LEMMA FirstTells ==
  ASSUME NEW cs \in Seq(Octets), Len(cs) \in 1..4, WellFormed(cs)
  PROVE  /\ Len(cs) = IF cs[1] <= 127 THEN 1 ELSE IF cs[1] <= 223 THEN 2
                      ELSE IF cs[1] <= 239 THEN 3 ELSE 4
         /\ Point(cs) \in Nat
<1>1. CASE Len(cs) = 1
  <2>1. cs = <<cs[1]>> /\ cs[1] \in Octets
    BY <1>1, AsTuple
  <2> DEFINE b == cs[1]
  <2> HIDE DEF b
  <2>2. cs = <<b>> /\ b \in Octets
    BY <2>1 DEF b
  <2>3. b <= 127 /\ Point(cs) = b
    BY <2>2, OneByte
  <2>4. Point(cs) \in Nat
    BY <2>2, <2>3 DEF Octets
  <2> QED
    BY <1>1, <2>3, <2>4 DEF b
<1>2. CASE Len(cs) = 2
  <2>1. cs = <<cs[1], cs[2]>> /\ cs[1] \in Octets /\ cs[2] \in Octets
    BY <1>2, AsTuple
  <2> DEFINE b == cs[1]
             c == cs[2]
  <2> HIDE DEF b, c
  <2>2. cs = <<b, c>> /\ b \in Octets /\ c \in Octets
    BY <2>1 DEF b, c
  <2>3. InTwo(b, c) /\ Point(cs) = (b - 192) * 64 + (c - 128)
    BY <2>2, TwoBytes
  <2>4. Point(cs) \in Nat /\ ~(b <= 127) /\ b <= 223
    BY <2>2, <2>3 DEF Octets, InTwo, Follows
  <2> QED
    BY <1>2, <2>4 DEF b
<1>3. CASE Len(cs) = 3
  <2>1. cs = <<cs[1], cs[2], cs[3]>>
    BY <1>3, AsTuple
  <2>5. cs[1] \in Octets /\ cs[2] \in Octets /\ cs[3] \in Octets
    <3>1. \A k \in 1..3 : cs[k] \in Octets
      BY <1>3, ElementOfSeq
    <3> QED
      BY <3>1
  <2> DEFINE b == cs[1]
             c == cs[2]
             d == cs[3]
  <2> HIDE DEF b, c, d
  <2>2. cs = <<b, c, d>> /\ b \in Octets /\ c \in Octets /\ d \in Octets
    BY <2>1, <2>5 DEF b, c, d
  <2>3. InThree(b, c, d) /\ Point(cs) = ((b - 224) * 64 + (c - 128)) * 64 + (d - 128)
    BY <2>2, ThreeBytes
  <2>4. Point(cs) \in Nat /\ ~(b <= 127) /\ ~(b <= 223) /\ b <= 239
    BY <2>2, <2>3 DEF Octets, InThree, Follows
  <2> QED
    BY <1>3, <2>4 DEF b
<1>4. CASE Len(cs) = 4
  <2>1. cs = <<cs[1], cs[2], cs[3], cs[4]>>
    BY <1>4, AsTuple
  <2>5. cs[1] \in Octets /\ cs[2] \in Octets /\ cs[3] \in Octets /\ cs[4] \in Octets
    <3>1. \A k \in 1..4 : cs[k] \in Octets
      BY <1>4, ElementOfSeq
    <3> QED
      BY <3>1
  <2> DEFINE b == cs[1]
             c == cs[2]
             d == cs[3]
             e == cs[4]
  <2> HIDE DEF b, c, d, e
  <2>2. cs = <<b, c, d, e>> /\ b \in Octets /\ c \in Octets /\ d \in Octets /\ e \in Octets
    BY <2>1, <2>5 DEF b, c, d, e
  <2>3. InFour(b, c, d, e) /\ Point(cs) = (((b - 240) * 64 + (c - 128)) * 64 + (d - 128)) * 64 + (e - 128)
    BY <2>2, FourBytes
  <2>4. Point(cs) \in Nat /\ ~(b <= 127) /\ ~(b <= 223) /\ ~(b <= 239)
    BY <2>2, <2>3 DEF Octets, InFour, Follows
  <2> QED
    BY <1>4, <2>4 DEF b
<1> QED
  BY <1>1, <1>2, <1>3, <1>4

(* Where the code point that begins at i may end.                          *)
EndsOf(bs, i) == {m \in i..(i + 3) : m <= Len(bs) /\ WellFormed(SubSeq(bs, i, m))}

(* There is one such place at most, and it ends a code point.              *)
LEMMA OneEnd ==
  ASSUME NEW bs \in Seq(Octets), NEW i \in 1..Len(bs), NEW j \in EndsOf(bs, i)
  PROVE  /\ EndsOf(bs, i) = {j} /\ j \in i..Len(bs)
         /\ SubSeq(bs, i, j) \in Seq(Octets) /\ Len(SubSeq(bs, i, j)) \in 1..4
         /\ WellFormed(SubSeq(bs, i, j)) /\ Point(SubSeq(bs, i, j)) \in Nat
<1>1. ASSUME NEW m \in EndsOf(bs, i)
      PROVE  /\ m \in i..Len(bs) /\ SubSeq(bs, i, m) \in Seq(Octets)
             /\ Len(SubSeq(bs, i, m)) = m - i + 1 /\ m - i + 1 \in 1..4
             /\ SubSeq(bs, i, m)[1] = bs[i]
             /\ WellFormed(SubSeq(bs, i, m))
  BY DEF EndsOf
<1>2. ASSUME NEW m \in EndsOf(bs, i)
      PROVE  /\ m - i + 1 = IF bs[i] <= 127 THEN 1 ELSE IF bs[i] <= 223 THEN 2
                            ELSE IF bs[i] <= 239 THEN 3 ELSE 4
             /\ Point(SubSeq(bs, i, m)) \in Nat
  <2> DEFINE cs == SubSeq(bs, i, m)
  <2>1. cs \in Seq(Octets) /\ Len(cs) = m - i + 1 /\ m - i + 1 \in 1..4 /\ cs[1] = bs[i] /\ WellFormed(cs)
    BY <1>1
  <2> HIDE DEF cs
  <2>2. /\ Len(cs) = IF cs[1] <= 127 THEN 1 ELSE IF cs[1] <= 223 THEN 2
                     ELSE IF cs[1] <= 239 THEN 3 ELSE 4
        /\ Point(cs) \in Nat
    BY <2>1, FirstTells
  <2> QED
    BY <2>1, <2>2 DEF cs
<1>3. ASSUME NEW m \in EndsOf(bs, i) PROVE m = j
  <2> DEFINE K == IF bs[i] <= 127 THEN 1 ELSE IF bs[i] <= 223 THEN 2
                  ELSE IF bs[i] <= 239 THEN 3 ELSE 4
  <2>3. m - i + 1 = K /\ j - i + 1 = K
    BY <1>2
  <2> HIDE DEF K
  <2>1. m - i + 1 = j - i + 1
    BY <2>3
  <2>2. m \in Int /\ j \in Int /\ i \in Int
    BY <1>1
  <2> QED
    BY <2>1, <2>2
<1> QED
  BY <1>1, <1>2, <1>3

(* The readings of a text from each of its bytes.                          *)
LEMMA ReadingsUnfold ==
  ASSUME NEW bs \in Seq(Octets)
  PROVE  \E g : /\ g[1] = Readings(bs) /\ g[Len(bs) + 1] = {<<>>}
                /\ \A i \in 1..Len(bs) :
                     g[i] = UNION {{<<Point(SubSeq(bs, i, j))>> \o t : t \in g[j + 1]} : j \in EndsOf(bs, i)}
<1> DEFINE n == Len(bs)
           J(i) == EndsOf(bs, i)
           p(i, j) == <<Point(SubSeq(bs, i, j))>>
           X == SUBSET Seq(Nat)
           at(i) == CHOOSE j \in J(i) : TRUE
           next == [i \in 1..n |-> IF J(i) = {} THEN n + 1 ELSE at(i) + 1]
           G == [i \in 1..n |-> [Y \in X |-> IF J(i) = {} THEN {} ELSE {p(i, at(i)) \o t : t \in Y}]]
           Solves(f) == f = [i \in 1..(n + 1) |->
                               IF i > n THEN {<<>>}
                               ELSE UNION {{p(i, j) \o t : t \in f[j + 1]} : j \in J(i)}]
<1>1. n \in Nat
  OBVIOUS
<1>2. ASSUME NEW i \in 1..n, NEW j \in J(i)
      PROVE  J(i) = {j} /\ j \in i..n /\ p(i, j) \in Seq(Nat) /\ at(i) = j
  <2>1. J(i) = {j} /\ j \in i..n /\ Point(SubSeq(bs, i, j)) \in Nat
    BY OneEnd
  <2>2. p(i, j) \in Seq(Nat)
    BY <2>1
  <2> HIDE DEF J, p
  <2> QED
    BY <2>1, <2>2
<1> HIDE DEF J, n, at, p
<1>3. \A i \in 1..n : next[i] \in (i + 1)..(n + 1)
  <2> TAKE i \in 1..n
  <2>1. CASE J(i) = {}
    BY <1>1, <2>1
  <2>2. CASE J(i) # {}
    <3>1. PICK j \in J(i) : TRUE
      BY <2>2
    <3>2. next[i] = j + 1 /\ j \in i..n
      BY <1>2, <2>2
    <3> QED
      BY <1>1, <3>2
  <2> QED
    BY <2>1, <2>2
<1>4. G \in [1..n -> [X -> X]]
  <2>1. ASSUME NEW i \in 1..n, NEW Y \in X
        PROVE  (IF J(i) = {} THEN {} ELSE {p(i, at(i)) \o t : t \in Y}) \in X
    <3>1. CASE J(i) = {}
      BY <3>1
    <3>2. CASE J(i) # {}
      <4>1. PICK j \in J(i) : TRUE
        BY <3>2
      <4>2. p(i, at(i)) \in Seq(Nat)
        BY <1>2
      <4>3. \A t \in Y : t \in Seq(Nat)
        OBVIOUS
      <4>4. \A t \in Y : p(i, at(i)) \o t \in Seq(Nat)
        BY <4>2, <4>3, ConcatProperties
      <4> QED
        BY <3>2, <4>4
    <3> QED
      BY <3>1, <3>2
  <2> QED
    BY <2>1
<1>5. {<<>>} \in X
  OBVIOUS
<1>6. PICK f \in [1..(n + 1) -> X] : f[n + 1] = {<<>>} /\ \A i \in 1..n : f[i] = G[i][f[next[i]]]
  <2> DEFINE x0 == {<<>>}
  <2>1. x0 \in X
    BY <1>5
  <2> HIDE DEF G, next, X, x0
  <2>2. \E f \in [1..(n + 1) -> X] : f[n + 1] = x0 /\ \A i \in 1..n : f[i] = G[i][f[next[i]]]
    <3>1. Ahead(n, next, X, G)
      BY <1>1, <1>3, <1>4 DEF Ahead
    <3>2. FoundAhead(n, next, X, G, x0)
      BY <2>1, <3>1, AheadExists
    <3> QED
      BY <3>2 DEF FoundAhead
  <2> QED
    BY <2>2 DEF x0
<1>7. Solves(f)
  <2>1. ASSUME NEW i \in 1..n
        PROVE  f[i] = UNION {{p(i, j) \o t : t \in f[j + 1]} : j \in J(i)}
    <3>1. f[next[i]] \in X
      <4> HIDE DEF X, next
      <4>1. next[i] \in (i + 1)..(n + 1)
        BY <1>3
      <4>2. (i + 1)..(n + 1) \subseteq 1..(n + 1)
        BY <1>1
      <4> QED
        BY <1>6, <4>1, <4>2
    <3>2. f[i] = IF J(i) = {} THEN {} ELSE {p(i, at(i)) \o t : t \in f[next[i]]}
      BY <1>6, <3>1
    <3>3. CASE J(i) = {}
      BY <3>2, <3>3
    <3>4. CASE J(i) # {}
      <4>1. PICK j \in J(i) : TRUE
        BY <3>4
      <4>2. J(i) = {j} /\ at(i) = j
        BY <1>2
      <4>3. next[i] = j + 1
        BY <3>4, <4>2
      <4>4. f[i] = {p(i, j) \o t : t \in f[j + 1]}
        BY <3>2, <3>4, <4>2, <4>3
      <4> QED
        BY <4>2, <4>4
    <3> QED
      BY <3>3, <3>4
  <2>2. ASSUME NEW i \in 1..(n + 1)
        PROVE  f[i] = IF i > n THEN {<<>>} ELSE UNION {{p(i, j) \o t : t \in f[j + 1]} : j \in J(i)}
    <3>1. CASE i > n
      <4>1. i = n + 1
        BY <1>1, <3>1
      <4> QED
        BY <1>6, <3>1, <4>1
    <3>2. CASE ~(i > n)
      <4>1. i \in 1..n
        BY <1>1, <3>2
      <4> QED
        BY <2>1, <3>2, <4>1
    <3> QED
      BY <3>1, <3>2
  <2>3. f = [i \in 1..(n + 1) |-> f[i]]
    BY <1>6
  <2> HIDE DEF X, G, next
  <2> QED
    BY <2>2, <2>3, Zenon
<1> DEFINE g == CHOOSE h : Solves(h)
<1>8. Solves(g)
  <2> HIDE DEF Solves
  <2> QED
    BY <1>7
<1>9. Readings(bs) = g[1]
  BY DEF Readings, EndsOf, n, J, p
<1> HIDE DEF g
<1>10. g[n + 1] = {<<>>} /\ \A i \in 1..n : g[i] = UNION {{p(i, j) \o t : t \in g[j + 1]} : j \in J(i)}
  <2>1. n + 1 \in 1..(n + 1) /\ n + 1 > n /\ \A i \in 1..n : i \in 1..(n + 1) /\ ~(i > n)
    BY <1>1
  <2> QED
    BY <1>8, <2>1, Zenon
<1> QED
  BY <1>9, <1>10 DEF n, J, p

(* What the automaton has been told: the text of a run in which no code    *)
(* point is unfinished.                                                    *)
Told(q) == IF q.state \in Waiting THEN {q.text} ELSE {}

(* One code point is read, and then the rest of the text.                  *)
LEMMA OneRead ==
  ASSUME NEW bs \in Seq(Octets), NEW i \in 1..Len(bs), NEW j \in EndsOf(bs, i),
         NEW T \in SUBSET Seq(Nat),
         \A q \in Runs : q.state \in Waiting =>
            {Joined(q, t) : t \in T} = Told(Run(q, SubSeq(bs, j + 1, Len(bs)))),
         NEW r \in Runs, r.state \in Waiting
  PROVE  {Joined(r, <<Point(SubSeq(bs, i, j))>> \o t) : t \in T} = Told(Run(r, SubSeq(bs, i, Len(bs))))
<1> DEFINE n == Len(bs)
           cs == SubSeq(bs, i, j)
           rest == SubSeq(bs, j + 1, n)
           all == SubSeq(bs, i, n)
           p == Point(cs)
           q == Run(r, cs)
<1>0. Octets \subseteq Nat
  BY DEF Octets
<1>1. /\ j \in i..n /\ cs \in Seq(Octets) /\ Len(cs) \in 1..4 /\ WellFormed(cs) /\ p \in Nat
  BY OneEnd
<1>2. cs \o rest = all
  <2>1. i \in 1..(n + 1) /\ j \in (i - 1)..n /\ n \in j..n
    BY <1>1
  <2> QED
    BY <2>1, ConcatAdjacentSubSeq
<1>3. Seq(Octets) \subseteq Seq(Nat)
  BY <1>0, SeqMonotonic
<1>4. rest \in Seq(Nat) /\ cs \in Seq(Nat)
  <2>1. bs \in Seq(Nat)
    BY <1>3
  <2> QED
    BY <1>1, <1>3, <2>1
<1> HIDE DEF cs, rest, all
<1>5. Ends(q, r, p)
  BY <1>1, WellFormedIsRead
<1>6. Run(r, all) = Run(q, rest)
  BY <1>2, <1>4, RunJoined
<1>7. q \in Runs /\ q.state \in Waiting
  BY <1>5 DEF Ends
<1> HIDE DEF q, p
<1>8. {Joined(q, t) : t \in T} = Told(Run(q, rest))
  BY <1>7 DEF rest, n
<1>9. \A t \in T : Joined(r, <<p>> \o t) = Joined(q, t)
  BY <1>1, <1>5, JoinedOne
<1>10. {Joined(r, <<p>> \o t) : t \in T} = Told(Run(r, all))
  BY <1>6, <1>8, <1>9
<1> QED
  BY <1>10 DEF p, cs, all, n

(* Where no code point ends, there is none.                                *)
LEMMA NoneRead ==
  ASSUME NEW bs \in Seq(Octets), NEW i \in 1..Len(bs), EndsOf(bs, i) = {},
         NEW r \in Runs, r.state \in Waiting
  PROVE  Told(Run(r, SubSeq(bs, i, Len(bs)))) = {}
<1> DEFINE n == Len(bs)
           u == SubSeq(bs, i, n)
<1>1. /\ n \in Nat /\ u \in Seq(Octets) /\ Len(u) = n - i + 1 /\ u # <<>>
      /\ \A k \in 1..(n - i + 1) : u[k] = bs[i + k - 1]
  <2>1. n \in Nat /\ i \in 1..n
    OBVIOUS
  <2>2. /\ u \in Seq(Octets) /\ Len(u) = n - i + 1
        /\ \A k \in 1..(n - i + 1) : u[k] = bs[i + k - 1]
    <3> HIDE DEF n
    <3> QED
      BY <2>1, SubSeqProperties DEF n
  <2> HIDE DEF n, u
  <2>3. u # <<>>
    BY <2>1, <2>2
  <2> QED
    BY <2>1, <2>2, <2>3
<1>2. ASSUME NEW m \in 1..4, m <= Len(u) PROVE ~WellFormed(SubSeq(u, 1, m))
  <2>1. /\ i + m - 1 \in i..(i + 3) /\ i + m - 1 <= n
    BY <1>1, <1>2
  <2>2. SubSeq(u, 1, m) = SubSeq(bs, i, i + m - 1)
    <3> HIDE DEF u
    <3>1. /\ SubSeq(u, 1, m) \in Seq(Octets) /\ Len(SubSeq(u, 1, m)) = m
          /\ \A k \in 1..m : SubSeq(u, 1, m)[k] = u[k]
      BY <1>1, <1>2
    <3>2. /\ SubSeq(bs, i, i + m - 1) \in Seq(Octets) /\ Len(SubSeq(bs, i, i + m - 1)) = m
          /\ \A k \in 1..m : SubSeq(bs, i, i + m - 1)[k] = bs[i + k - 1]
      BY <2>1, SMTT(30)
    <3>3. \A k \in 1..m : SubSeq(u, 1, m)[k] = SubSeq(bs, i, i + m - 1)[k]
      BY <1>1, <1>2, <3>1, <3>2
    <3> QED
      BY <3>1, <3>2, <3>3, SeqEqual
  <2> QED
    BY <2>1, <2>2 DEF EndsOf
<1> HIDE DEF u
<1>3. Run(r, u).state \notin Waiting
  BY <1>1, <1>2, IllFormedIsNoticed
<1> QED
  BY <1>3 DEF Told, u

(* From any byte, the automaton reads what the readings of the rest are.   *)
LEMMA ReadingsAreTold ==
  ASSUME NEW bs \in Seq(Octets), NEW r \in Runs, r.state \in Waiting
  PROVE  /\ Readings(bs) \in SUBSET Seq(Nat)
         /\ {Joined(r, t) : t \in Readings(bs)} = Told(Run(r, bs))
<1> DEFINE n == Len(bs)
<1>1. n \in Nat /\ SubSeq(bs, 1, n) = bs /\ SubSeq(bs, n + 1, n) = <<>>
  BY SubSeqFull
<1>2. PICK g : /\ g[1] = Readings(bs) /\ g[n + 1] = {<<>>}
               /\ \A i \in 1..n :
                    g[i] = UNION {{<<Point(SubSeq(bs, i, j))>> \o t : t \in g[j + 1]} : j \in EndsOf(bs, i)}
  BY ReadingsUnfold
<1> DEFINE Good(i) == /\ g[i] \in SUBSET Seq(Nat)
                      /\ \A q \in Runs : q.state \in Waiting =>
                           {Joined(q, t) : t \in g[i]} = Told(Run(q, SubSeq(bs, i, n)))
           S == {i \in 1..(n + 1) : Good(i)}
<1> HIDE DEF n
<1>3. n + 1 \in S
  <2>1. g[n + 1] \in SUBSET Seq(Nat)
    BY <1>2
  <2>2. ASSUME NEW q \in Runs, q.state \in Waiting
        PROVE  {Joined(q, t) : t \in g[n + 1]} = Told(Run(q, SubSeq(bs, n + 1, n)))
    <3>1. Joined(q, <<>>) = q.text /\ Run(q, <<>>) = q
      BY JoinedNone, RunOfNone
    <3>2. Told(Run(q, SubSeq(bs, n + 1, n))) = {q.text}
      BY <1>1, <2>2, <3>1 DEF Told
    <3> QED
      BY <1>2, <3>1, <3>2
  <2>3. n + 1 \in 1..(n + 1)
    BY <1>1
  <2> QED
    BY <2>1, <2>2, <2>3
<1>4. ASSUME NEW i \in 1..n, \A j \in (i + 1)..(n + 1) : j \in S
      PROVE  i \in S
  <2>0. i \in 1..(n + 1)
    BY <1>1
  <2>1. CASE EndsOf(bs, i) = {}
    <3>1. g[i] = {}
      BY <1>2, <2>1, ZenonT(60)
    <3>2. ASSUME NEW q \in Runs, q.state \in Waiting
          PROVE  {Joined(q, t) : t \in g[i]} = Told(Run(q, SubSeq(bs, i, n)))
      <4>1. Told(Run(q, SubSeq(bs, i, n))) = {}
        BY <2>1, <3>2, NoneRead DEF n
      <4> QED
        BY <3>1, <4>1
    <3> QED
      BY <2>0, <3>1, <3>2
  <2>2. CASE EndsOf(bs, i) # {}
    <3>1. PICK j \in EndsOf(bs, i) : TRUE
      BY <2>2
    <3> DEFINE p == Point(SubSeq(bs, i, j))
    <3>2. EndsOf(bs, i) = {j} /\ j \in i..n /\ p \in Nat
      BY OneEnd DEF n
    <3>3. Good(j + 1)
      <4>1. j + 1 \in (i + 1)..(n + 1)
        BY <1>1, <3>2
      <4> QED
        BY <1>4, <4>1
    <3>4. g[i] = {<<p>> \o t : t \in g[j + 1]}
      <4>1. g[i] = UNION {{<<Point(SubSeq(bs, i, k))>> \o t : t \in g[k + 1]} : k \in {j}}
        BY <1>2, <3>2
      <4> QED
        BY <4>1
    <3>5. ASSUME NEW q \in Runs, q.state \in Waiting
          PROVE  {Joined(q, t) : t \in g[i]} = Told(Run(q, SubSeq(bs, i, n)))
      <4>1. {Joined(q, <<p>> \o t) : t \in g[j + 1]} = Told(Run(q, SubSeq(bs, i, n)))
        <5> DEFINE T == g[j + 1]
        <5>1. /\ T \in SUBSET Seq(Nat)
              /\ \A x \in Runs : x.state \in Waiting =>
                   {Joined(x, t) : t \in T} = Told(Run(x, SubSeq(bs, j + 1, Len(bs))))
          BY <3>3 DEF n
        <5> HIDE DEF T
        <5>2. {Joined(q, <<Point(SubSeq(bs, i, j))>> \o t) : t \in T} = Told(Run(q, SubSeq(bs, i, Len(bs))))
          BY <3>5, <5>1, OneRead, ZenonT(60) DEF n
        <5> QED
          BY <5>2 DEF T, n
      <4>2. {Joined(q, t) : t \in g[i]} = {Joined(q, <<p>> \o t) : t \in g[j + 1]}
        BY <3>4
      <4> QED
        BY <4>1, <4>2
    <3>6. g[i] \in SUBSET Seq(Nat)
      <4> DEFINE w == <<p>>
      <4>1. w \in Seq(Nat)
        BY <3>2
      <4> HIDE DEF w, p
      <4>2. \A t \in g[j + 1] : w \o t \in Seq(Nat)
        BY <3>3, <4>1, ConcatProperties
      <4> QED
        BY <3>4, <4>2 DEF w
    <3> QED
      BY <2>0, <3>5, <3>6
  <2> QED
    BY <2>1, <2>2
<1> HIDE DEF S
<1>5. \A i \in 1..(n + 1) : i \in S
  BY <1>1, <1>3, <1>4, FromTheEnd
<1>6. Good(1)
  BY <1>1, <1>5 DEF S
<1> QED
  BY <1>1, <1>2, <1>6

(* For any bytes: they are refused if and only if they are not UTF-8,      *)
(* wherever they are cut in halves, and else read as what they mean.       *)
THEOREM BytesAreReadRight ==
  ASSUME NEW bs \in Seq(Octets)
  PROVE  IsReadRight(bs)
<1> DEFINE q == Run(Start, bs)
           d == Decode(bs)
<1>0. bs \in Seq(Nat)
  <2>1. Octets \subseteq Nat
    BY DEF Octets
  <2> QED
    BY <2>1, SeqMonotonic
<1>1. Start \in Runs /\ Start.state = "start" /\ Start.text = <<>> /\ Start.state \in Waiting
  BY DEF Start, Runs, Waiting
<1>2. Readings(bs) \in SUBSET Seq(Nat) /\ {Joined(Start, t) : t \in Readings(bs)} = Told(q)
  BY <1>1, ReadingsAreTold
<1>3. \A t \in Readings(bs) : Joined(Start, t) = Unmarked(t)
  <2>1. Readings(bs) \in SUBSET Seq(Nat)
    BY <1>2
  <2>2. ASSUME NEW t \in Seq(Nat) PROVE Unmarked(t) \in Seq(Nat)
    BY DEF Unmarked
  <2>3. ASSUME NEW t \in Seq(Nat) PROVE <<>> \o Unmarked(t) = Unmarked(t)
    BY <2>2, ConcatEmptySeq
  <2> QED
    BY <1>1, <2>1, <2>3 DEF Joined
<1>4. RunByHalves(bs) = q
  BY <1>0, HalvesDoNotMatter
<1>5. d = [error |-> IF q.state \in Errors THEN q.state
                     ELSE IF q.state \in Waiting THEN "none" ELSE "unfinished",
           text |-> q.text]
  BY <1>4 DEF Decode
<1> HIDE DEF q, d
<1>6. (d.error = "none") <=> (q.state \in Waiting)
  BY <1>5 DEF Errors, Waiting
<1>7. d.text = q.text
  BY <1>5
<1>8. Told(q) = IF d.error = "none" THEN {d.text} ELSE {}
  BY <1>6, <1>7 DEF Told
<1>9. {Unmarked(t) : t \in Readings(bs)} = {Joined(Start, t) : t \in Readings(bs)}
  BY <1>3
<1> QED
  BY <1>2, <1>8, <1>9 DEF IsReadRight, d

(* A sequence can be made of pieces that each name where the next begins.  *)
Pieces(n, next, E, piece) ==
  /\ n \in Nat /\ \A i \in 1..n : next[i] \in (i + 1)..(n + 1)
  /\ piece \in [1..n -> Seq(E)]
FoundPieces(n, next, E, piece) ==
  \E f \in [1..(n + 1) -> Seq(E)] :
     f[n + 1] = <<>> /\ \A i \in 1..n : f[i] = piece[i] \o f[next[i]]

(* There is such a function.                                               *)
LEMMA PiecesExist ==
  ASSUME NEW n, NEW next, NEW E, NEW piece, Pieces(n, next, E, piece)
  PROVE  FoundPieces(n, next, E, piece)
<1>0. /\ n \in Nat /\ \A i \in 1..n : next[i] \in (i + 1)..(n + 1)
      /\ piece \in [1..n -> Seq(E)]
  BY DEF Pieces
<1> USE <1>0
<1> DEFINE X == Seq(E)
           G == [i \in 1..n |-> [s \in X |-> piece[i] \o s]]
           x0 == <<>>
<1>1. x0 \in X
  OBVIOUS
<1>2. G \in [1..n -> [X -> X]]
  <2>1. ASSUME NEW i \in 1..n, NEW s \in X PROVE piece[i] \o s \in X
    <3>1. piece[i] \in Seq(E)
      OBVIOUS
    <3> QED
      BY <3>1, ConcatProperties
  <2> QED
    BY <2>1
<1> HIDE DEF G, X, x0
<1>3. PICK f \in [1..(n + 1) -> X] : f[n + 1] = x0 /\ \A i \in 1..n : f[i] = G[i][f[next[i]]]
  <2>1. Ahead(n, next, X, G)
    BY <1>2 DEF Ahead
  <2>2. FoundAhead(n, next, X, G, x0)
    BY <1>1, <2>1, AheadExists
  <2> QED
    BY <2>2 DEF FoundAhead
<1>4. ASSUME NEW i \in 1..n PROVE f[i] = piece[i] \o f[next[i]]
  <2>1. next[i] \in 1..(n + 1)
    <3>1. next[i] \in (i + 1)..(n + 1)
      OBVIOUS
    <3> QED
      BY <3>1
  <2>2. f[next[i]] \in X
    BY <1>3, <2>1
  <2> QED
    BY <1>3, <2>2 DEF G
<1> QED
  BY <1>3, <1>4 DEF X, x0, FoundPieces

(* A unit is a number. *)
LEMMA AsUnit ==
  ASSUME NEW u \in Units16
  PROVE  u \in Nat /\ u <= 65535
<1>1. MaxUnit \in Int
  BY DEF MaxUnit
<1>2. u \in Int /\ 0 <= u /\ u <= MaxUnit
  BY <1>1, RangeIs DEF Units16
<1> QED
  BY <1>2 DEF MaxUnit

(* Pairs stand for the code points that are more than 16 bits.             *)
LEMMA PairOf ==
  ASSUME NEW h \in Nat, NEW l \in Nat
  PROVE  Pair(h, l) \in Nat /\ 65536 <= Pair(h, l) /\ Pair(h, l) <= 1114111
BY SMT DEF Pair

(* The bytes of a code point of each length mean that code point.          *)
MeansTwo(b, c, p) == b \in Octets /\ c \in Octets /\ InTwo(b, c) /\ (b - 192) * 64 + (c - 128) = p
MeansThree(b, c, d, p) ==
  /\ b \in Octets /\ c \in Octets /\ d \in Octets /\ InThree(b, c, d)
  /\ ((b - 224) * 64 + (c - 128)) * 64 + (d - 128) = p
MeansFour(b, c, d, e, p) ==
  /\ b \in Octets /\ c \in Octets /\ d \in Octets /\ e \in Octets /\ InFour(b, c, d, e)
  /\ (((b - 240) * 64 + (c - 128)) * 64 + (d - 128)) * 64 + (e - 128) = p

(* The bytes that are written for a unit or a pair.                        *)
WritesTwo(b, c, u) ==
  u \in Nat /\ 127 < u /\ u <= 2047 /\ b = 192 + u \div 64 /\ c = Six(u)
WritesThree(b, c, d, u) ==
  /\ u \in Nat /\ u <= 65535 /\ 2047 < u /\ ~High(u) /\ ~Low(u)
  /\ b = 224 + u \div 4096 /\ c = Six(u \div 64) /\ d = Six(u)
WritesFour(b, c, d, e, p) ==
  /\ p \in Nat /\ 65536 <= p /\ p <= 1114111
  /\ b = 240 + p \div 262144 /\ c = Six(p \div 4096) /\ d = Six(p \div 64) /\ e = Six(p)

(* What is written in two bytes means what was written.                    *)
LEMMA TwoWritten ==
  ASSUME NEW u, NEW b, NEW c, WritesTwo(b, c, u)
  PROVE  MeansTwo(b, c, u)
<1>1. b \in 194..223 /\ c \in Follows
  BY SMT DEF WritesTwo, Six, Follows
<1>2. (b - 192) * 64 + (c - 128) = u
  BY SMT DEF WritesTwo, Six
<1>3. b \in Octets /\ c \in Octets
  BY <1>1 DEF Octets, Follows
<1> QED
  BY <1>1, <1>2, <1>3, SMT DEF InTwo, MeansTwo

(* What is written in three bytes means what was written.                  *)
LEMMA ThreeWritten ==
  ASSUME NEW u, NEW b, NEW c, NEW d, WritesThree(b, c, d, u)
  PROVE  MeansThree(b, c, d, u)
<1>1. b \in Octets /\ c \in Octets /\ d \in Octets
  BY SMT DEF WritesThree, Six, Octets
<1>2. InThree(b, c, d)
  BY SMT DEF WritesThree, High, Low, Six, InThree, Follows
<1>3. ((b - 224) * 64 + (c - 128)) * 64 + (d - 128) = u
  BY SMT DEF WritesThree, Six
<1> QED
  BY <1>1, <1>2, <1>3, SMT DEF MeansThree

(* What is written in four bytes means what was written.                   *)
LEMMA FourWritten ==
  ASSUME NEW p, NEW b, NEW c, NEW d, NEW e, WritesFour(b, c, d, e, p)
  PROVE  MeansFour(b, c, d, e, p)
<1>1. b \in Octets /\ c \in Octets /\ d \in Octets /\ e \in Octets
  BY SMT DEF WritesFour, Six, Octets
<1>2. InFour(b, c, d, e)
  BY SMT DEF WritesFour, Six, InFour, Follows
<1>3. (((b - 240) * 64 + (c - 128)) * 64 + (d - 128)) * 64 + (e - 128) = p
  BY SMT DEF WritesFour, Six
<1> QED
  BY <1>1, <1>2, <1>3, SMT DEF MeansFour

(* What is written at i is well formed and means the code point at i.      *)
LEMMA WellWritten ==
  ASSUME NEW us \in Seq(Units16), NEW i \in 1..Len(us)
  PROVE  /\ BytesAt(us, i) \in Seq(Octets) /\ Len(BytesAt(us, i)) \in 1..4
         /\ WellFormed(BytesAt(us, i))
         /\ Point(BytesAt(us, i)) = PointAt(us, i) /\ PointAt(us, i) \in Nat
         /\ i + Taken(us, i) \in (i + 1)..(Len(us) + 1)
<1> DEFINE u == us[i]
           v == us[i + 1]
           cs == BytesAt(us, i)
           p == PointAt(us, i)
           Goal == cs \in Seq(Octets) /\ Len(cs) \in 1..4 /\ WellFormed(cs) /\ Point(cs) = p /\ p \in Nat
<1>1. u \in Nat /\ u <= 65535
  <2>1. u \in Units16
    OBVIOUS
  <2> HIDE DEF u
  <2> QED
    BY <2>1, AsUnit
<1>2. Paired(us, i) => v \in Nat /\ High(u)
  <2>1. Paired(us, i) => v \in Units16 /\ High(u)
    BY DEF Paired
  <2> HIDE DEF u, v
  <2> QED
    BY <2>1, AsUnit
<1>3. i + Taken(us, i) \in (i + 1)..(Len(us) + 1)
  BY DEF Taken, Paired
<1>4. High(u) \/ Low(u) => u >= 55296
  <2> HIDE DEF u
  <2> QED
    BY <1>1, SMT DEF High, Low
<1>5. /\ u <= 127 => cs = <<u>>
      /\ Paired(us, i) => cs = PairBytes(Pair(u, v))
      /\ ~Paired(us, i) /\ (High(u) \/ Low(u)) => cs = ReplacementBytes
      /\ u \in 128..2047 => cs = <<192 + u \div 64, Six(u)>>
      /\ ~(u <= 127) /\ ~(u \in 128..2047) /\ ~High(u) /\ ~Low(u) => cs = <<224 + u \div 4096, Six(u \div 64), Six(u)>>
  <2> DEFINE P == Paired(us, i)
             H == High(u)
             L == Low(u)
             A == <<u>>
             B == PairBytes(Pair(u, v))
             C == ReplacementBytes
             D == <<192 + u \div 64, Six(u)>>
             F == <<224 + u \div 4096, Six(u \div 64), Six(u)>>
  <2>1. cs = CASE u <= 127 -> A [] P -> B [] ~P /\ (H \/ L) -> C [] u \in 128..2047 -> D [] OTHER -> F
    BY DEF BytesAt
  <2>2. (P => H) /\ (H \/ L => u >= 55296)
    BY <1>2, <1>4
  <2> HIDE DEF cs, u, P, H, L, A, B, C, D, F
  <2>3. /\ u <= 127 => cs = A
        /\ P => cs = B
        /\ ~P /\ (H \/ L) => cs = C
        /\ u \in 128..2047 => cs = D
        /\ ~(u <= 127) /\ ~(u \in 128..2047) /\ ~H /\ ~L => cs = F
    <3> DEFINE a == u <= 127
               d == u \in 128..2047
    <3>1. (a => ~H /\ ~L /\ ~d) /\ (d => ~H /\ ~L)
      BY <1>1, <2>2, SMTT(30)
    <3>2. cs = CASE a -> A [] P -> B [] ~P /\ (H \/ L) -> C [] d -> D [] OTHER -> F
      BY <2>1
    <3> HIDE DEF a, d
    <3>3. /\ a => cs = A
          /\ P => cs = B
          /\ ~P /\ (H \/ L) => cs = C
          /\ d => cs = D
          /\ ~a /\ ~d /\ ~H /\ ~L => cs = F
      BY <2>2, <3>1, <3>2, SMT
    <3> QED
      BY <3>3 DEF a, d
  <2> QED
    BY <2>3 DEF P, H, L, A, B, C, D, F
<1>6. p = IF Paired(us, i) THEN Pair(u, v) ELSE IF High(u) \/ Low(u) THEN Replacement ELSE u
  BY DEF PointAt
<1> HIDE DEF u, v, cs, p
<1>7. ASSUME u <= 127 PROVE Goal
  <2>1. cs = <<u>> /\ p = u /\ u \in Octets
    <3>1. ~High(u) /\ ~Low(u) /\ ~Paired(us, i)
      BY <1>1, <1>2, <1>4, <1>7, SMT
    <3>2. u \in Octets
      BY <1>1, <1>7 DEF Octets
    <3> QED
      BY <1>5, <1>6, <1>7, <3>1, <3>2
  <2>2. WellFormed(<<u>>) /\ Point(<<u>>) = u
    BY <1>7, <2>1, OneByte
  <2>3. <<u>> \in Seq(Octets) /\ Len(<<u>>) \in 1..4 /\ u \in Nat
    BY <2>1 DEF Octets
  <2> QED
    BY <2>1, <2>2, <2>3
<1>8. ASSUME Paired(us, i) PROVE Goal
  <2> DEFINE z == Pair(u, v)
  <2>1. z \in Nat /\ 65536 <= z /\ z <= 1114111
    BY <1>1, <1>2, <1>8, PairOf
  <2> HIDE DEF z
  <2> DEFINE b == 240 + z \div 262144
             c == Six(z \div 4096)
             d == Six(z \div 64)
             e == Six(z)
  <2>2. cs = <<b, c, d, e>> /\ p = z
    BY <1>5, <1>6, <1>8 DEF z, PairBytes
  <2>e. WritesFour(b, c, d, e, z)
    BY <2>1, SMT DEF WritesFour
  <2> HIDE DEF b, c, d, e
  <2>3. /\ b \in Octets /\ c \in Octets /\ d \in Octets /\ e \in Octets /\ InFour(b, c, d, e)
        /\ (((b - 240) * 64 + (c - 128)) * 64 + (d - 128)) * 64 + (e - 128) = z
    <3>1. MeansFour(b, c, d, e, z)
      BY <2>e, FourWritten, Zenon
    <3> QED
      BY <3>1, SMT DEF MeansFour
  <2>4. WellFormed(<<b, c, d, e>>) /\ Point(<<b, c, d, e>>) = z
    BY <2>3, FourBytes
  <2>5. <<b, c, d, e>> \in Seq(Octets) /\ Len(<<b, c, d, e>>) \in 1..4
    BY <2>3
  <2>6. z \in Nat
    BY <2>1
  <2> QED
    BY <2>2, <2>4, <2>5, <2>6
<1>9. ASSUME ~Paired(us, i) /\ (High(u) \/ Low(u)) PROVE Goal
  <2>1. cs = <<239, 191, 189>> /\ p = 65533
    BY <1>5, <1>6, <1>9 DEF ReplacementBytes, Replacement
  <2> DEFINE b == 239
             c == 191
             d == 189
  <2>2. /\ b \in Octets /\ c \in Octets /\ d \in Octets /\ InThree(b, c, d)
        /\ ((b - 224) * 64 + (c - 128)) * 64 + (d - 128) = 65533
    BY SMT DEF Octets, InThree, Follows
  <2>3. WellFormed(<<b, c, d>>) /\ Point(<<b, c, d>>) = 65533
    <3> HIDE DEF b, c, d
    <3> QED
      BY <2>2, ThreeBytes
  <2>4. <<b, c, d>> \in Seq(Octets) /\ Len(<<b, c, d>>) \in 1..4
    BY <2>2
  <2> QED
    BY <2>1, <2>3, <2>4, SMT
<1>10. ASSUME u \in 128..2047 PROVE Goal
  <2> DEFINE b == 192 + u \div 64
             c == Six(u)
  <2>1. cs = <<b, c>> /\ p = u
    <3>1. ~High(u) /\ ~Low(u) /\ ~Paired(us, i)
      BY <1>2, <1>4, <1>10
    <3> QED
      BY <1>5, <1>6, <1>10, <3>1
  <2>2. b \in Octets /\ c \in Octets /\ InTwo(b, c) /\ (b - 192) * 64 + (c - 128) = u
    <3>1. u \in Nat /\ 127 < u /\ u <= 2047
      BY <1>10
    <3>e. WritesTwo(b, c, u)
      BY <3>1 DEF WritesTwo
    <3> HIDE DEF b, c, u
    <3>2. MeansTwo(b, c, u)
      BY <3>e, TwoWritten, Zenon
    <3> QED
      BY <3>2 DEF MeansTwo
  <2> HIDE DEF b, c
  <2>3. WellFormed(<<b, c>>) /\ Point(<<b, c>>) = u
    BY <2>2, TwoBytes
  <2>4. <<b, c>> \in Seq(Octets) /\ Len(<<b, c>>) \in 1..4
    BY <2>2
  <2>5. u \in Nat
    BY <1>10
  <2> QED
    BY <2>1, <2>3, <2>4, <2>5
<1>11. ASSUME ~(u <= 127) /\ ~(u \in 128..2047) /\ ~High(u) /\ ~Low(u) PROVE Goal
  <2> DEFINE b == 224 + u \div 4096
             c == Six(u \div 64)
             d == Six(u)
  <2>1. cs = <<b, c, d>> /\ p = u
    BY <1>2, <1>5, <1>6, <1>11
  <2>2. /\ b \in Octets /\ c \in Octets /\ d \in Octets /\ InThree(b, c, d)
        /\ ((b - 224) * 64 + (c - 128)) * 64 + (d - 128) = u
    <3>1. 2047 < u
      BY <1>1, <1>11
    <3> QED
      <4>e. WritesThree(b, c, d, u)
        BY <1>1, <1>11, <3>1, SMT DEF WritesThree
      <4> HIDE DEF b, c, d, u
      <4>1. MeansThree(b, c, d, u)
        BY <4>e, ThreeWritten, Zenon
      <4> QED
        BY <4>1 DEF MeansThree
  <2> HIDE DEF b, c, d
  <2>3. WellFormed(<<b, c, d>>) /\ Point(<<b, c, d>>) = u
    BY <2>2, ThreeBytes
  <2>4. <<b, c, d>> \in Seq(Octets) /\ Len(<<b, c, d>>) \in 1..4
    BY <2>2
  <2>5. u \in Nat
    BY <1>1
  <2> QED
    BY <2>1, <2>3, <2>4, <2>5
<1>12. Goal
  <2> HIDE DEF Goal
  <2> QED
    BY <1>7, <1>8, <1>9, <1>10, <1>11
<1> QED
  BY <1>3, <1>12 DEF cs, p

(* What is written, from each unit where a code point begins.              *)
LEMMA EncodeUnfold ==
  ASSUME NEW us \in Seq(Units16)
  PROVE  \E e \in [1..(Len(us) + 1) -> Seq(Octets)] :
           /\ e[1] = Encode(us) /\ e[Len(us) + 1] = <<>>
           /\ \A i \in 1..Len(us) : e[i] = BytesAt(us, i) \o e[i + Taken(us, i)]
<1> DEFINE n == Len(us)
           D == 1..(n + 1)
           next == [i \in 1..n |-> i + Taken(us, i)]
           piece == [i \in 1..n |-> BytesAt(us, i)]
           Solves(f) == f = [i \in D |-> IF i > n THEN <<>> ELSE BytesAt(us, i) \o f[i + Taken(us, i)]]
<1>1. n \in Nat
  OBVIOUS
<1>2. ASSUME NEW i \in 1..n
      PROVE  BytesAt(us, i) \in Seq(Octets) /\ i + Taken(us, i) \in (i + 1)..(n + 1)
  BY WellWritten
<1>3. piece \in [1..n -> Seq(Octets)] /\ \A i \in 1..n : next[i] \in (i + 1)..(n + 1)
  BY <1>2
<1> HIDE DEF n
<1>4. PICK f \in [D -> Seq(Octets)] : f[n + 1] = <<>> /\ \A i \in 1..n : f[i] = piece[i] \o f[next[i]]
  <2> HIDE DEF next, piece
  <2>1. Pieces(n, next, Octets, piece)
    BY <1>1, <1>3 DEF Pieces
  <2>2. FoundPieces(n, next, Octets, piece)
    BY <2>1, PiecesExist
  <2> QED
    BY <2>2 DEF FoundPieces
<1>5. \A i \in 1..n : f[i] = BytesAt(us, i) \o f[i + Taken(us, i)]
  BY <1>4
<1>6. \A i \in D : (i > n => i = n + 1) /\ (~(i > n) => i \in 1..n)
  BY <1>1
<1>7. Solves(f)
  <2>1. f = [i \in D |-> f[i]]
    BY <1>4
  <2>2. \A i \in D : f[i] = IF i > n THEN <<>> ELSE BytesAt(us, i) \o f[i + Taken(us, i)]
    BY <1>4, <1>5, <1>6, Zenon
  <2> HIDE DEF D
  <2> QED
    BY <2>1, <2>2, Zenon
<1> DEFINE g == CHOOSE h : Solves(h)
<1>8. Solves(g)
  <2> HIDE DEF Solves
  <2> QED
    BY <1>7
<1>9. Encode(us) = g[1]
  BY DEF Encode, n
<1> HIDE DEF g
<1> DEFINE S == {i \in D : g[i] = f[i]}
<1>10. n + 1 \in S
  <2>1. n + 1 \in D /\ n + 1 > n
    BY <1>1
  <2>2. g[n + 1] = <<>>
    BY <1>8, <2>1, Zenon
  <2> QED
    BY <1>4, <2>1, <2>2
<1>11. ASSUME NEW i \in 1..n, \A j \in (i + 1)..(n + 1) : j \in S
       PROVE  i \in S
  <2>1. i \in D /\ ~(i > n)
    BY <1>1
  <2>2. g[i] = BytesAt(us, i) \o g[i + Taken(us, i)]
    BY <1>8, <2>1, Zenon
  <2>3. i + Taken(us, i) \in S
    BY <1>2, <1>11
  <2>4. g[i] = f[i]
    BY <1>5, <2>2, <2>3
  <2> QED
    BY <2>1, <2>4
<1> HIDE DEF S, D
<1>12. \A i \in 1..(n + 1) : i \in S
  BY <1>1, <1>10, <1>11, FromTheEnd
<1>13. g[1] = f[1]
  <2>1. 1 \in 1..(n + 1)
    BY <1>1
  <2> QED
    BY <1>12, <2>1 DEF S
<1> QED
  BY <1>4, <1>5, <1>9, <1>13 DEF n, D

(* The code points, in the same way.                                       *)
LEMMA PointsUnfold ==
  ASSUME NEW us \in Seq(Units16)
  PROVE  \E e \in [1..(Len(us) + 1) -> Seq(Nat)] :
           /\ e[1] = Points(us) /\ e[Len(us) + 1] = <<>>
           /\ \A i \in 1..Len(us) : e[i] = <<PointAt(us, i)>> \o e[i + Taken(us, i)]
<1> DEFINE n == Len(us)
           D == 1..(n + 1)
           next == [i \in 1..n |-> i + Taken(us, i)]
           one(i) == <<PointAt(us, i)>>
           piece == [i \in 1..n |-> one(i)]
           Solves(f) == f = [i \in D |-> IF i > n THEN <<>> ELSE one(i) \o f[i + Taken(us, i)]]
<1>1. n \in Nat
  OBVIOUS
<1>2. ASSUME NEW i \in 1..n
      PROVE  one(i) \in Seq(Nat) /\ i + Taken(us, i) \in (i + 1)..(n + 1)
  <2>1. PointAt(us, i) \in Nat /\ i + Taken(us, i) \in (i + 1)..(n + 1)
    BY WellWritten
  <2> QED
    BY <2>1
<1> HIDE DEF n, one
<1>3. piece \in [1..n -> Seq(Nat)] /\ \A i \in 1..n : next[i] \in (i + 1)..(n + 1)
  BY <1>2
<1>4. PICK f \in [D -> Seq(Nat)] : f[n + 1] = <<>> /\ \A i \in 1..n : f[i] = piece[i] \o f[next[i]]
  <2> HIDE DEF next, piece
  <2>1. Pieces(n, next, Nat, piece)
    BY <1>1, <1>3 DEF Pieces
  <2>2. FoundPieces(n, next, Nat, piece)
    BY <2>1, PiecesExist
  <2> QED
    BY <2>2 DEF FoundPieces
<1>5. \A i \in 1..n : f[i] = one(i) \o f[i + Taken(us, i)]
  BY <1>4
<1>6. \A i \in D : (i > n => i = n + 1) /\ (~(i > n) => i \in 1..n)
  BY <1>1
<1>7. Solves(f)
  <2>1. f = [i \in D |-> f[i]]
    BY <1>4
  <2>2. \A i \in D : f[i] = IF i > n THEN <<>> ELSE one(i) \o f[i + Taken(us, i)]
    BY <1>4, <1>5, <1>6, Zenon
  <2> HIDE DEF D
  <2> QED
    BY <2>1, <2>2, Zenon
<1> DEFINE g == CHOOSE h : Solves(h)
<1>8. Solves(g)
  <2> HIDE DEF Solves
  <2> QED
    BY <1>7
<1>9. Points(us) = g[1]
  BY DEF Points, n, one
<1> HIDE DEF g
<1> DEFINE S == {i \in D : g[i] = f[i]}
<1>10. n + 1 \in S
  <2>1. n + 1 \in D /\ n + 1 > n
    BY <1>1
  <2>2. g[n + 1] = <<>>
    BY <1>8, <2>1, Zenon
  <2> QED
    BY <1>4, <2>1, <2>2
<1>11. ASSUME NEW i \in 1..n, \A j \in (i + 1)..(n + 1) : j \in S
       PROVE  i \in S
  <2>1. i \in D /\ ~(i > n)
    BY <1>1
  <2>2. g[i] = one(i) \o g[i + Taken(us, i)]
    BY <1>8, <2>1, Zenon
  <2>3. i + Taken(us, i) \in S
    BY <1>2, <1>11
  <2>4. g[i] = f[i]
    BY <1>5, <2>2, <2>3
  <2> QED
    BY <2>1, <2>4
<1> HIDE DEF S, D
<1>12. \A i \in 1..(n + 1) : i \in S
  BY <1>1, <1>10, <1>11, FromTheEnd
<1>13. g[1] = f[1]
  <2>1. 1 \in 1..(n + 1)
    BY <1>1
  <2> QED
    BY <1>12, <2>1 DEF S
<1> QED
  BY <1>4, <1>5, <1>9, <1>13 DEF n, D, one

(* For any text: it is read back from the database as it was written, but  *)
(* for halves of pairs and a byte order mark at its start.                 *)
THEOREM TextsAreReadBack ==
  ASSUME NEW us \in Seq(Units16)
  PROVE  Encode(us) \in Seq(Octets) /\ IsReadBack(us)
<1> DEFINE n == Len(us)
<1>1. n \in Nat
  OBVIOUS
<1>2. PICK e \in [1..(n + 1) -> Seq(Octets)] :
           /\ e[1] = Encode(us) /\ e[n + 1] = <<>>
           /\ \A i \in 1..n : e[i] = BytesAt(us, i) \o e[i + Taken(us, i)]
  BY EncodeUnfold
<1>3. PICK t \in [1..(n + 1) -> Seq(Nat)] :
           /\ t[1] = Points(us) /\ t[n + 1] = <<>>
           /\ \A i \in 1..n : t[i] = <<PointAt(us, i)>> \o t[i + Taken(us, i)]
  BY PointsUnfold
<1>4. Seq(Octets) \subseteq Seq(Nat)
  <2>1. Octets \subseteq Nat
    BY DEF Octets
  <2> QED
    BY <2>1, SeqMonotonic
<1> DEFINE Good(i) == \A r \in Runs : r.state \in Waiting =>
                        Run(r, e[i]).state \in Waiting /\ Run(r, e[i]).text = Joined(r, t[i])
           S == {i \in 1..(n + 1) : Good(i)}
<1>5. n + 1 \in S
  <2>1. ASSUME NEW r \in Runs, r.state \in Waiting
        PROVE  Run(r, e[n + 1]).state \in Waiting /\ Run(r, e[n + 1]).text = Joined(r, t[n + 1])
    BY <1>2, <1>3, <2>1, RunOfNone, JoinedNone
  <2>2. n + 1 \in 1..(n + 1)
    BY <1>1
  <2> HIDE DEF n
  <2> QED
    BY <2>1, <2>2
<1>6. ASSUME NEW i \in 1..n, \A j \in (i + 1)..(n + 1) : j \in S
      PROVE  i \in S
  <2> DEFINE cs == BytesAt(us, i)
             p == PointAt(us, i)
             j == i + Taken(us, i)
  <2>1. /\ cs \in Seq(Octets) /\ Len(cs) \in 1..4 /\ WellFormed(cs) /\ Point(cs) = p /\ p \in Nat
        /\ j \in (i + 1)..(n + 1)
    BY WellWritten
  <2>2. e[i] = cs \o e[j] /\ t[i] = <<p>> \o t[j]
    BY <1>2, <1>3
  <2>3. j \in S
    BY <1>6, <2>1
  <2> HIDE DEF cs, p, j
  <2>4. i \in 1..(n + 1) /\ j \in 1..(n + 1) /\ Good(j)
    BY <1>1, <2>3
  <2>5. e[j] \in Seq(Nat) /\ t[j] \in Seq(Nat) /\ cs \in Seq(Nat)
    BY <1>4, <2>1, <2>4
  <2>6. ASSUME NEW r \in Runs, r.state \in Waiting
        PROVE  Run(r, e[i]).state \in Waiting /\ Run(r, e[i]).text = Joined(r, t[i])
    <3> DEFINE q == Run(r, cs)
    <3>1. Ends(q, r, p)
      BY <2>1, <2>6, WellFormedIsRead
    <3>2. Run(r, e[i]) = Run(q, e[j])
      BY <2>2, <2>5, RunJoined
    <3> HIDE DEF q
    <3>3. Joined(r, t[i]) = Joined(q, t[j])
      BY <2>1, <2>2, <2>5, <3>1, JoinedOne
    <3>4. q \in Runs /\ q.state \in Waiting
      BY <3>1 DEF Ends
    <3>5. Run(q, e[j]).state \in Waiting /\ Run(q, e[j]).text = Joined(q, t[j])
      BY <2>4, <3>4
    <3> QED
      BY <3>2, <3>3, <3>5
  <2> QED
    BY <2>4, <2>6
<1> HIDE DEF n, S
<1>7. \A i \in 1..(n + 1) : i \in S
  BY <1>1, <1>5, <1>6, FromTheEnd
<1>8. 1 \in 1..(n + 1) /\ Good(1)
  BY <1>1, <1>7 DEF S
<1> DEFINE bs == Encode(us)
           q == Run(Start, bs)
<1>9. bs \in Seq(Octets) /\ bs \in Seq(Nat) /\ Points(us) \in Seq(Nat)
  BY <1>2, <1>3, <1>4, <1>8
<1>10. Start \in Runs /\ Start.state = "start" /\ Start.text = <<>> /\ Start.state \in Waiting
  BY DEF Start, Runs, Waiting
<1>11. q.state \in Waiting /\ q.text = Joined(Start, Points(us))
  BY <1>2, <1>3, <1>8, <1>10
<1>12. Joined(Start, Points(us)) = Unmarked(Points(us))
  <2>1. Unmarked(Points(us)) \in Seq(Nat)
    BY <1>9 DEF Unmarked
  <2> QED
    BY <1>10, <2>1, ConcatEmptySeq DEF Joined
<1> HIDE DEF bs
<1>13. RunByHalves(bs) = q
  BY <1>9, HalvesDoNotMatter
<1> HIDE DEF q
<1>14. q.state \notin Errors
  BY <1>11 DEF Errors, Waiting
<1>15. Decode(bs) = [error |-> "none", text |-> Unmarked(Points(us))]
  BY <1>11, <1>12, <1>13, <1>14 DEF Decode
<1> QED
  BY <1>9, <1>15 DEF IsReadBack, bs

-----------------------------------------------------------------------------
(* The samples *)

(* A sample is what it is called: a text is one, and so are bytes.         *)
SampleKind ==
  /\ Tried("text") => sample.is \in Strings(Units, TextUnits)
  /\ Tried("bytes") => sample.is \in Strings(Bytes, TextBytes)

(* What is tried is what was taken as sample. *)
THEOREM SamplesAreKept == LibrarySpec => []SampleKind
<1>1. LibraryInit => SampleKind
  BY DEF LibraryInit, SampleKind, Tried
<1>2. SampleKind /\ [LibraryNext]_sample => SampleKind'
  <2> SUFFICES ASSUME SampleKind, [LibraryNext]_sample PROVE SampleKind'
    OBVIOUS
  <2>1. CASE Try
    <3>1. \/ \E n \in Samples : sample' = [what |-> "integer", is |-> n]
          \/ \E us \in Strings(Units, TextUnits) : sample' = [what |-> "text", is |-> us]
          \/ \E bs \in Strings(Bytes, TextBytes) : sample' = [what |-> "bytes", is |-> bs]
          \/ sample' = [what |-> "linked", is |-> NewLinked, calls |-> 0]
          \/ sample' = [what |-> "hashed", is |-> NewHashed, calls |-> 0]
      BY <2>1 DEF Try, TryOne, TryMap
    <3> QED
      BY <3>1 DEF SampleKind, Tried
  <2>2. CASE CallMap
    <3>1. sample.what \in {"linked", "hashed"} /\ \E s : sample' = [what |-> sample.what, is |-> s, calls |-> sample.calls + 1]
      BY <2>2 DEF CallMap, Tried, TryMap
    <3> QED
      BY <3>1 DEF SampleKind, Tried
  <2>3. CASE UNCHANGED sample
    BY <2>3 DEF SampleKind, Tried
  <2> QED
    BY <2>1, <2>2, <2>3 DEF LibraryNext
<1> QED
  BY <1>1, <1>2, PTL DEF LibrarySpec

(* The strings over a set are sequences of its members.                    *)
LEMMA StringsAreSequences ==
  ASSUME NEW S, NEW n \in Nat, NEW s \in Strings(S, n)
  PROVE  s \in Seq(S)
BY SeqDef DEF Strings

(* What is written to the database as a text is read back, and bytes are   *)
(* noticed if they are not UTF-8: whatever the units, the bytes and where  *)
(* they are cut.                                                           *)
THEOREM TextsAlwaysSurvive == LibrarySpec => []TextsSurvive
<1>1. SampleKind => TextsSurvive
  <2> SUFFICES ASSUME SampleKind PROVE TextsSurvive
    OBVIOUS
  <2>1. Units \subseteq Units16 /\ Bytes \subseteq Octets
    BY SamplesAssumption
  <2>2. Seq(Units) \subseteq Seq(Units16) /\ Seq(Bytes) \subseteq Seq(Octets)
    BY <2>1, SeqMonotonic
  <2>3. ASSUME Tried("text") PROVE IsReadBack(sample.is)
    <3>1. sample.is \in Seq(Units)
      BY <2>3, StringsAreSequences, LibraryAssumption DEF SampleKind
    <3>2. sample.is \in Seq(Units16)
      BY <2>2, <3>1
    <3> QED
      BY <3>2, TextsAreReadBack
  <2>4. ASSUME Tried("bytes"), NEW bs \in Strings(Bytes, 1) \cup ((Bytes \cap Follows) \X Bytes)
        PROVE  IsReadRight(sample.is \o bs)
    <3>1. sample.is \in Seq(Bytes)
      BY <2>4, StringsAreSequences, LibraryAssumption DEF SampleKind
    <3>2. bs \in Seq(Bytes)
      <4>1. CASE bs \in Strings(Bytes, 1)
        BY <4>1, StringsAreSequences
      <4>2. CASE bs \in (Bytes \cap Follows) \X Bytes
        <5> DEFINE b == bs[1]
                   c == bs[2]
        <5>1. bs = <<b, c>> /\ b \in Bytes /\ c \in Bytes
          BY <4>2
        <5> HIDE DEF b, c
        <5>2. <<b, c>> \in Seq(Bytes)
          BY <5>1
        <5> QED
          BY <5>1, <5>2
      <4> QED
        BY <4>1, <4>2
    <3> DEFINE x == sample.is
    <3>3. x \in Seq(Octets) /\ bs \in Seq(Octets)
      BY <2>2, <3>1, <3>2
    <3> HIDE DEF x
    <3>4. x \o bs \in Seq(Octets)
      BY <3>3, ConcatProperties
    <3> QED
      BY <3>4, BytesAreReadRight DEF x
  <2> QED
    BY <2>3, <2>4, Zenon DEF TextsSurvive
<1> QED
  BY <1>1, SamplesAreKept, PTL

-----------------------------------------------------------------------------
(* Lists *)

(* A list without the element at one place. *)
LEMMA RemoveAtIs ==
  ASSUME NEW E, NEW s \in Seq(E), NEW i \in 1..Len(s)
  PROVE  /\ RemoveAt(s, i) \in Seq(E) /\ Len(RemoveAt(s, i)) = Len(s) - 1
         /\ \A j \in 1..(Len(s) - 1) : RemoveAt(s, i)[j] = IF j < i THEN s[j] ELSE s[j + 1]
<1> DEFINE t == SubSeq(s, 1, i - 1)
           u == SubSeq(s, i + 1, Len(s))
<1>1. Len(s) \in Nat /\ \A j \in 1..Len(s) : s[j] \in E
  OBVIOUS
<1>2. t \in Seq(E) /\ Len(t) = i - 1 /\ \A j \in 1..(i - 1) : t[j] = s[j]
  <2>1. \A j \in 1..(i - 1) : s[j] \in E
    BY <1>1
  <2>2. 1 \in Int /\ i - 1 \in Int
    BY <1>1
  <2>3. /\ t \in Seq(E) /\ Len(t) = IF 1 <= i - 1 THEN i - 1 - 1 + 1 ELSE 0
        /\ \A j \in 1..(i - 1 - 1 + 1) : t[j] = s[1 + j - 1]
    BY <2>1, <2>2, SubSeqProperties
  <2> HIDE DEF t
  <2>4. Len(t) = i - 1
    BY <1>1, <2>3
  <2>5. ASSUME NEW j \in 1..(i - 1) PROVE t[j] = s[j]
    <3>1. j \in 1..(i - 1 - 1 + 1) /\ 1 + j - 1 = j
      BY <1>1
    <3> QED
      BY <2>3, <3>1
  <2> QED
    BY <2>3, <2>4, <2>5
<1>3. u \in Seq(E) /\ Len(u) = Len(s) - i /\ \A j \in 1..(Len(s) - i) : u[j] = s[i + j]
  <2> DEFINE n == Len(s)
  <2>1. \A j \in (i + 1)..n : s[j] \in E
    BY <1>1
  <2>2. i + 1 \in Int /\ n \in Int /\ i \in 1..n
    BY <1>1
  <2>3. /\ u \in Seq(E) /\ Len(u) = IF i + 1 <= n THEN n - (i + 1) + 1 ELSE 0
        /\ \A j \in 1..(n - (i + 1) + 1) : u[j] = s[(i + 1) + j - 1]
    BY <2>1, <2>2, SubSeqProperties
  <2> HIDE DEF u, n
  <2>4. \A j \in 1..(n - i) : (i + 1) + j - 1 = i + j /\ j \in 1..(n - (i + 1) + 1)
    BY <2>2
  <2>5. u \in Seq(E) /\ Len(u) = n - i
    BY <2>2, <2>3
  <2>6. \A j \in 1..(n - i) : u[j] = s[i + j]
    BY <2>3, <2>4
  <2> QED
    BY <2>5, <2>6 DEF n
<1>4. RemoveAt(s, i) = t \o u
  BY DEF RemoveAt
<1> HIDE DEF t, u
<1>5. /\ t \o u \in Seq(E) /\ Len(t \o u) = Len(t) + Len(u)
      /\ \A j \in 1..(Len(t) + Len(u)) : (t \o u)[j] = IF j <= Len(t) THEN t[j] ELSE u[j - Len(t)]
  BY <1>2, <1>3, ConcatProperties
<1>6. ASSUME NEW j \in 1..(Len(s) - 1)
      PROVE  (t \o u)[j] = IF j < i THEN s[j] ELSE s[j + 1]
  <2>1. j \in 1..(Len(t) + Len(u))
    BY <1>1, <1>2, <1>3
  <2>2. CASE j < i
    BY <1>2, <1>5, <2>1, <2>2
  <2>3. CASE ~(j < i)
    <3>1. (t \o u)[j] = u[j - (i - 1)]
      BY <1>2, <1>5, <2>1, <2>3
    <3>2. j - (i - 1) \in 1..(Len(s) - i) /\ i + (j - (i - 1)) = j + 1
      BY <1>1, <2>3
    <3> QED
      BY <1>3, <2>3, <3>1, <3>2
  <2> QED
    BY <2>2, <2>3
<1> QED
  BY <1>1, <1>2, <1>3, <1>4, <1>5, <1>6

(* Of a function, one value more and one less.                             *)
PartialOn(D, R) == UNION {[d -> R] : d \in SUBSET D}

(* A function with one value more, or another one. *)
LEMMA WithIs ==
  ASSUME NEW D, NEW R, NEW f \in PartialOn(D, R), NEW x \in D, NEW y \in R
  PROVE  /\ With(f, x, y) \in PartialOn(D, R)
         /\ \A d : \A z : ValueAt(With(f, x, y), z, d) = IF z = x THEN y ELSE ValueAt(f, z, d)
<1>1. PICK e \in SUBSET D : f \in [e -> R]
  BY DEF PartialOn
<1>2. With(f, x, y) \in [e \cup {x} -> R] /\ e \cup {x} \in SUBSET D
  BY <1>1 DEF With
<1> QED
  BY <1>1, <1>2 DEF PartialOn, With, ValueAt

(* A function with one value less. *)
LEMMA ButIs ==
  ASSUME NEW D, NEW R, NEW f \in PartialOn(D, R), NEW x \in D
  PROVE  /\ But(f, x) \in PartialOn(D, R)
         /\ \A d : \A z : ValueAt(But(f, x), z, d) = IF z = x THEN d ELSE ValueAt(f, z, d)
<1>1. PICK e \in SUBSET D : f \in [e -> R]
  BY DEF PartialOn
<1>2. But(f, x) \in [e \ {x} -> R] /\ e \ {x} \in SUBSET D
  BY <1>1 DEF But
<1> QED
  BY <1>1, <1>2 DEF PartialOn, But, ValueAt

-----------------------------------------------------------------------------
(* Looking up *)

(* A list of numbers has the members of a set, each once. *)
ListOf(s, S) ==
  /\ s \in Seq(Nat)
  /\ \A i \in 1..Len(s) : s[i] \in S
  /\ \A i, j \in 1..Len(s) : s[i] = s[j] => i = j
  /\ \A c \in S : \E i \in 1..Len(s) : s[i] = c

(* A number more, in the set and at the end of its list. *)
LEMMA ListOfMore ==
  ASSUME NEW S, NEW s, ListOf(s, S), NEW c \in Nat, c \notin S
  PROVE  ListOf(Append(s, c), S \cup {c})
<1> DEFINE t == Append(s, c)
           n == Len(s)
<1>0. s \in Seq(Nat)
  BY DEF ListOf
<1>1. n \in Nat /\ t \in Seq(Nat) /\ Len(t) = n + 1 /\ t[n + 1] = c /\ \A i \in 1..n : t[i] = s[i]
  BY <1>0, AppendProperties
<1>2. \A i \in 1..(n + 1) : i \in 1..n \/ i = n + 1
  BY <1>1
<1>3. \A i \in 1..n : i \in 1..(n + 1)
  BY <1>1
<1>4. n + 1 \in 1..(n + 1)
  BY <1>1
<1> HIDE DEF t
<1>5. /\ \A i \in 1..n : s[i] \in S
      /\ \A i, j \in 1..n : s[i] = s[j] => i = j
      /\ \A d \in S : \E i \in 1..n : s[i] = d
  BY DEF ListOf
<1> HIDE DEF n
<1>6. \A i \in 1..(n + 1) : t[i] \in S \cup {c}
  BY <1>1, <1>2, <1>5
<1>7. \A i, j \in 1..(n + 1) : t[i] = t[j] => i = j
  BY <1>1, <1>2, <1>5
<1>8. \A d \in S \cup {c} : \E i \in 1..(n + 1) : t[i] = d
  BY <1>1, <1>3, <1>4, <1>5
<1>9. ListOf(t, S \cup {c})
  BY <1>1, <1>6, <1>7, <1>8, Zenon DEF ListOf
<1> QED
  BY <1>9 DEF t

(* A number less. *)
LEMMA ListOfLess ==
  ASSUME NEW S, NEW s, ListOf(s, S), NEW i \in 1..Len(s)
  PROVE  ListOf(RemoveAt(s, i), S \ {s[i]})
<1> DEFINE t == RemoveAt(s, i)
           n == Len(s)
           at(j) == IF j < i THEN j ELSE j + 1
<1>0. s \in Seq(Nat) /\ n \in Nat
  BY DEF ListOf
<1>1. t \in Seq(Nat) /\ Len(t) = n - 1 /\ \A j \in 1..(n - 1) : t[j] = s[at(j)]
  BY <1>0, RemoveAtIs
<1> HIDE DEF t
<1>2. /\ \A j \in 1..n : s[j] \in S
      /\ \A j, k \in 1..n : s[j] = s[k] => j = k
      /\ \A d \in S : \E j \in 1..n : s[j] = d
  BY DEF ListOf
<1>3. i \in 1..n
  OBVIOUS
<1> HIDE DEF n
<1>4. \A j \in 1..(n - 1) : at(j) \in 1..n /\ at(j) # i
  BY <1>0, <1>3
<1>5. \A j, k \in 1..(n - 1) : at(j) = at(k) => j = k
  BY <1>0, <1>3
<1>6. \A j \in 1..n : j # i => \E k \in 1..(n - 1) : at(k) = j
  <2> TAKE j \in 1..n
  <2> HAVE j # i
  <2>1. CASE j < i
    <3>1. j \in 1..(n - 1) /\ at(j) = j
      BY <1>0, <1>3, <2>1
    <3> HIDE DEF at
    <3> QED
      BY <3>1
  <2>2. CASE j > i
    <3>1. j - 1 \in 1..(n - 1) /\ at(j - 1) = j
      BY <1>0, <1>3, <2>2
    <3> HIDE DEF at
    <3> QED
      BY <3>1
  <2> QED
    BY <1>0, <1>3, <2>1, <2>2
<1> HIDE DEF at
<1>7. \A j \in 1..(n - 1) : t[j] \in S \ {s[i]}
  BY <1>1, <1>2, <1>3, <1>4, SMTT(30)
<1>8. \A j, k \in 1..(n - 1) : t[j] = t[k] => j = k
  BY <1>1, <1>2, <1>4, <1>5
<1>9. \A d \in S \ {s[i]} : \E j \in 1..(n - 1) : t[j] = d
  <2> TAKE d \in S \ {s[i]}
  <2>1. PICK j \in 1..n : s[j] = d /\ j # i
    BY <1>2
  <2>2. PICK k \in 1..(n - 1) : at(k) = j
    BY <1>6, <2>1
  <2> QED
    BY <1>1, <2>1, <2>2
<1>10. ListOf(t, S \ {s[i]})
  BY <1>1, <1>7, <1>8, <1>9, Zenon DEF ListOf
<1> QED
  BY <1>10 DEF t

(* The keys are looked up in tables by their names and in buckets by their *)
(* hashes.  Of the living cells there is a function to their keys, K.      *)
Names  == {k.name : k \in Keys}
Hashes == {k.hash : k \in Keys}
Kinds  == {"string", "number"}

(* The keys of some cells. *)
KeyMaps == UNION {[L -> Keys] : L \in SUBSET (Nat \ {0})}

(* The cell of a key, or 0 if it has none. *)
IsCellOf(K, k, c) ==
  \/ c \in DOMAIN K /\ K[c] = k
  \/ c = 0 /\ \A d \in DOMAIN K : K[d] # k

(* The cells of the objects of one hash. *)
Objects(K, h) == {c \in DOMAIN K : ~Direct(K[c]) /\ K[c].hash = h}

(* Tables and buckets lead from every key to its cell. *)
Index(tables, buckets, K) ==
  /\ tables \in [Kinds -> PartialOn(Names, Nat)]
  /\ buckets \in PartialOn(Hashes, Seq(Nat))
  /\ K \in KeyMaps
  /\ \A c, d \in DOMAIN K : K[c] = K[d] => c = d
  /\ \A k \in Keys : Direct(k) => IsCellOf(K, k, ValueAt(tables[k.kind], k.name, 0))
  /\ \A h \in Hashes : ListOf(ValueAt(buckets, h, <<>>), Objects(K, h))

(* What a key is looked up by. *)
LEMMA KindOf ==
  ASSUME NEW k \in Keys
  PROVE  /\ k.name \in Names /\ k.hash \in Hashes
         /\ Direct(k) <=> k.kind \in Kinds
BY KeysAssumption DEF Names, Hashes, Kinds, Direct

(* Keys that are looked up by their name are told apart by it. *)
LEMMA SameKey ==
  ASSUME NEW k \in Keys, NEW l \in Keys, Direct(k), k.kind = l.kind, k.name = l.name
  PROVE  k = l
BY KeysAssumption DEF Direct

(* A living cell has a key, and is a place. *)
LEMMA KeyOfCell ==
  ASSUME NEW K \in KeyMaps, NEW c \in DOMAIN K
  PROVE  K[c] \in Keys /\ c \in Nat \ {0}
<1>1. PICK L \in SUBSET (Nat \ {0}) : K \in [L -> Keys]
  BY DEF KeyMaps
<1> QED
  BY <1>1

(* A new cell of a key that has none. *)
Grown(K, c, k) == [d \in DOMAIN K \cup {c} |-> IF d = c THEN k ELSE K[d]]

(* The cells and keys are the same but for the new one. *)
LEMMA GrownIs ==
  ASSUME NEW K \in KeyMaps, NEW c \in Nat \ {0}, c \notin DOMAIN K, NEW k \in Keys
  PROVE  /\ Grown(K, c, k) \in KeyMaps /\ DOMAIN Grown(K, c, k) = DOMAIN K \cup {c}
         /\ Grown(K, c, k)[c] = k /\ \A d \in DOMAIN K : Grown(K, c, k)[d] = K[d]
<1>1. PICK L \in SUBSET (Nat \ {0}) : K \in [L -> Keys]
  BY DEF KeyMaps
<1>2. Grown(K, c, k) \in [L \cup {c} -> Keys] /\ L \cup {c} \in SUBSET (Nat \ {0})
  BY <1>1 DEF Grown
<1> QED
  BY <1>1, <1>2 DEF KeyMaps, Grown

(* A new cell of a string or a number, entered in the table of its kind. *)
LEMMA IndexDirect ==
  ASSUME NEW tables, NEW buckets, NEW K, Index(tables, buckets, K),
         NEW k \in Keys, Direct(k), \A d \in DOMAIN K : K[d] # k,
         NEW c \in Nat \ {0}, c \notin DOMAIN K
  PROVE  Index([tables EXCEPT ![k.kind] = With(@, k.name, c)], buckets, Grown(K, c, k))
<1> DEFINE t == [tables EXCEPT ![k.kind] = With(@, k.name, c)]
           N == Grown(K, c, k)
<1>1. /\ tables \in [Kinds -> PartialOn(Names, Nat)]
      /\ buckets \in PartialOn(Hashes, Seq(Nat))
      /\ K \in KeyMaps
      /\ \A a, d \in DOMAIN K : K[a] = K[d] => a = d
      /\ \A l \in Keys : Direct(l) => IsCellOf(K, l, ValueAt(tables[l.kind], l.name, 0))
      /\ \A h \in Hashes : ListOf(ValueAt(buckets, h, <<>>), Objects(K, h))
  BY DEF Index
<1>2. k.kind \in Kinds /\ k.name \in Names
  BY KindOf
<1>3. /\ With(tables[k.kind], k.name, c) \in PartialOn(Names, Nat)
      /\ \A z : ValueAt(With(tables[k.kind], k.name, c), z, 0)
                 = IF z = k.name THEN c ELSE ValueAt(tables[k.kind], z, 0)
  <2>1. tables[k.kind] \in PartialOn(Names, Nat)
    BY <1>1, <1>2
  <2> QED
    BY <1>2, <2>1, WithIs
<1>4. /\ t \in [Kinds -> PartialOn(Names, Nat)]
      /\ t[k.kind] = With(tables[k.kind], k.name, c)
      /\ \A x \in Kinds : x # k.kind => t[x] = tables[x]
  BY <1>1, <1>2, <1>3
<1>5. /\ N \in KeyMaps /\ DOMAIN N = DOMAIN K \cup {c}
      /\ N[c] = k /\ \A d \in DOMAIN K : N[d] = K[d]
  BY <1>1, GrownIs, ZenonT(60)
<1> HIDE DEF t, N
<1>6. \A a, d \in DOMAIN N : N[a] = N[d] => a = d
  BY <1>1, <1>5
<1>7. ASSUME NEW l \in Keys, Direct(l) PROVE IsCellOf(N, l, ValueAt(t[l.kind], l.name, 0))
  <2>1. CASE l = k
    BY <1>3, <1>4, <1>5, <2>1 DEF IsCellOf
  <2>2. CASE l # k
    <3>1. l.kind \in Kinds
      BY <1>7, KindOf
    <3>2. ValueAt(t[l.kind], l.name, 0) = ValueAt(tables[l.kind], l.name, 0)
      <4>1. CASE l.kind = k.kind
        <5>1. l.name # k.name
          BY <1>7, <2>2, <4>1, SameKey
        <5> QED
          BY <1>3, <1>4, <4>1, <5>1
      <4>2. CASE l.kind # k.kind
        BY <1>4, <3>1, <4>2
      <4> QED
        BY <4>1, <4>2
    <3>3. IsCellOf(K, l, ValueAt(tables[l.kind], l.name, 0))
      BY <1>1, <1>7
    <3> QED
      BY <1>5, <2>2, <3>2, <3>3 DEF IsCellOf
  <2> QED
    BY <2>1, <2>2
<1>8. \A h : Objects(N, h) = Objects(K, h)
  BY <1>5 DEF Objects
<1>9. Index(t, buckets, N)
  BY <1>1, <1>4, <1>5, <1>6, <1>7, <1>8 DEF Index
<1> QED
  BY <1>9 DEF t, N

(* A new cell of an object, entered at the end of its bucket. *)
LEMMA IndexObject ==
  ASSUME NEW tables, NEW buckets, NEW K, Index(tables, buckets, K),
         NEW k \in Keys, ~Direct(k), \A d \in DOMAIN K : K[d] # k,
         NEW c \in Nat \ {0}, c \notin DOMAIN K
  PROVE  Index(tables, With(buckets, k.hash, Append(ValueAt(buckets, k.hash, <<>>), c)), Grown(K, c, k))
<1> DEFINE s == ValueAt(buckets, k.hash, <<>>)
           b == With(buckets, k.hash, Append(s, c))
           N == Grown(K, c, k)
<1>1. /\ tables \in [Kinds -> PartialOn(Names, Nat)]
      /\ buckets \in PartialOn(Hashes, Seq(Nat))
      /\ K \in KeyMaps
      /\ \A a, d \in DOMAIN K : K[a] = K[d] => a = d
      /\ \A l \in Keys : Direct(l) => IsCellOf(K, l, ValueAt(tables[l.kind], l.name, 0))
      /\ \A h \in Hashes : ListOf(ValueAt(buckets, h, <<>>), Objects(K, h))
  BY DEF Index
<1>2. k.hash \in Hashes
  BY KindOf
<1>3. ListOf(s, Objects(K, k.hash))
  BY <1>1, <1>2
<1> HIDE DEF s
<1>4. ListOf(Append(s, c), Objects(K, k.hash) \cup {c})
  <2>1. c \notin Objects(K, k.hash)
    BY DEF Objects
  <2> QED
    BY <1>3, <2>1, ListOfMore
<1>5. /\ b \in PartialOn(Hashes, Seq(Nat))
      /\ \A z : ValueAt(b, z, <<>>) = IF z = k.hash THEN Append(s, c) ELSE ValueAt(buckets, z, <<>>)
  <2> DEFINE e == Append(s, c)
             E == Seq(Nat)
  <2>1. e \in E
    BY <1>4 DEF ListOf
  <2>2. buckets \in PartialOn(Hashes, E)
    BY <1>1
  <2> HIDE DEF e, E
  <2>3. /\ With(buckets, k.hash, e) \in PartialOn(Hashes, E)
        /\ \A d : \A z : ValueAt(With(buckets, k.hash, e), z, d)
                         = IF z = k.hash THEN e ELSE ValueAt(buckets, z, d)
    BY <1>2, <2>1, <2>2, WithIs
  <2> QED
    BY <2>3 DEF e, E
<1>6. /\ N \in KeyMaps /\ DOMAIN N = DOMAIN K \cup {c}
      /\ N[c] = k /\ \A d \in DOMAIN K : N[d] = K[d]
  BY <1>1, GrownIs, ZenonT(60)
<1> HIDE DEF b, N
<1>7. \A a, d \in DOMAIN N : N[a] = N[d] => a = d
  BY <1>1, <1>6
<1>8. ASSUME NEW l \in Keys, Direct(l) PROVE IsCellOf(N, l, ValueAt(tables[l.kind], l.name, 0))
  <2>1. IsCellOf(K, l, ValueAt(tables[l.kind], l.name, 0)) /\ l # k
    BY <1>1, <1>8
  <2> QED
    BY <1>6, <2>1 DEF IsCellOf
<1>9. \A h : Objects(N, h) = IF h = k.hash THEN Objects(K, h) \cup {c} ELSE Objects(K, h)
  BY <1>6 DEF Objects
<1>10. \A h \in Hashes : ListOf(ValueAt(b, h, <<>>), Objects(N, h))
  BY <1>1, <1>4, <1>5, <1>9
<1>11. Index(tables, b, N)
  BY <1>1, <1>5, <1>6, <1>7, <1>8, <1>10 DEF Index
<1> QED
  BY <1>11 DEF b, N, s

(* A cell less. *)
Shrunk(K, c) == [d \in DOMAIN K \ {c} |-> K[d]]

(* The cells and keys are the same but for one. *)
LEMMA ShrunkIs ==
  ASSUME NEW K \in KeyMaps, NEW c
  PROVE  /\ Shrunk(K, c) \in KeyMaps /\ DOMAIN Shrunk(K, c) = DOMAIN K \ {c}
         /\ \A d \in DOMAIN K \ {c} : Shrunk(K, c)[d] = K[d]
<1>1. PICK L \in SUBSET (Nat \ {0}) : K \in [L -> Keys]
  BY DEF KeyMaps
<1>2. Shrunk(K, c) \in [L \ {c} -> Keys] /\ L \ {c} \in SUBSET (Nat \ {0})
  BY <1>1 DEF Shrunk
<1> QED
  BY <1>1, <1>2 DEF KeyMaps, Shrunk

(* A cell of a string or a number less, and its name taken out of the table. *)
LEMMA IndexLessDirect ==
  ASSUME NEW tables, NEW buckets, NEW K, Index(tables, buckets, K),
         NEW c \in DOMAIN K, Direct(K[c])
  PROVE  Index([tables EXCEPT ![K[c].kind] = But(@, K[c].name)], buckets, Shrunk(K, c))
<1> DEFINE k == K[c]
           t == [tables EXCEPT ![k.kind] = But(@, k.name)]
           N == Shrunk(K, c)
<1>1. /\ tables \in [Kinds -> PartialOn(Names, Nat)]
      /\ buckets \in PartialOn(Hashes, Seq(Nat))
      /\ K \in KeyMaps
      /\ \A a, d \in DOMAIN K : K[a] = K[d] => a = d
      /\ \A l \in Keys : Direct(l) => IsCellOf(K, l, ValueAt(tables[l.kind], l.name, 0))
      /\ \A h \in Hashes : ListOf(ValueAt(buckets, h, <<>>), Objects(K, h))
  BY DEF Index
<1>0. k \in Keys /\ Direct(k)
  BY <1>1, KeyOfCell
<1>a. \A d \in DOMAIN K : K[d] = k => d = c
  BY <1>1
<1>b. c \in DOMAIN K /\ K[c] = k
  OBVIOUS
<1> HIDE DEF k
<1>2. k.kind \in Kinds /\ k.name \in Names
  BY <1>0, KindOf
<1>3. /\ But(tables[k.kind], k.name) \in PartialOn(Names, Nat)
      /\ \A z : ValueAt(But(tables[k.kind], k.name), z, 0)
                 = IF z = k.name THEN 0 ELSE ValueAt(tables[k.kind], z, 0)
  <2>1. tables[k.kind] \in PartialOn(Names, Nat)
    BY <1>1, <1>2
  <2> QED
    BY <1>2, <2>1, ButIs
<1>4. /\ t \in [Kinds -> PartialOn(Names, Nat)]
      /\ t[k.kind] = But(tables[k.kind], k.name)
      /\ \A x \in Kinds : x # k.kind => t[x] = tables[x]
  BY <1>1, <1>2, <1>3
<1>5. /\ N \in KeyMaps /\ DOMAIN N = DOMAIN K \ {c}
      /\ \A d \in DOMAIN K \ {c} : N[d] = K[d]
  BY <1>1, ShrunkIs
<1> HIDE DEF t, N
<1>6. \A a, d \in DOMAIN N : N[a] = N[d] => a = d
  BY <1>1, <1>5
<1>7. ASSUME NEW l \in Keys, Direct(l) PROVE IsCellOf(N, l, ValueAt(t[l.kind], l.name, 0))
  <2>1. CASE l = k
    <3>1. ValueAt(t[l.kind], l.name, 0) = 0
      BY <1>3, <1>4, <2>1
    <3>2. \A d \in DOMAIN N : N[d] # l
      BY <1>5, <1>a, <2>1
    <3> QED
      BY <3>1, <3>2 DEF IsCellOf
  <2>2. CASE l # k
    <3>1. l.kind \in Kinds
      BY <1>7, KindOf
    <3>2. ValueAt(t[l.kind], l.name, 0) = ValueAt(tables[l.kind], l.name, 0)
      <4>1. CASE l.kind = k.kind
        <5>1. l.name # k.name
          BY <1>0, <1>7, <2>2, <4>1, SameKey
        <5> QED
          BY <1>3, <1>4, <4>1, <5>1
      <4>2. CASE l.kind # k.kind
        BY <1>4, <3>1, <4>2
      <4> QED
        BY <4>1, <4>2
    <3>3. IsCellOf(K, l, ValueAt(tables[l.kind], l.name, 0))
      BY <1>1, <1>7
    <3> QED
      BY <1>5, <1>b, <2>2, <3>2, <3>3 DEF IsCellOf
  <2> QED
    BY <2>1, <2>2
<1>8. \A h : Objects(N, h) = Objects(K, h)
  BY <1>0, <1>5, <1>b DEF Objects
<1>9. Index(t, buckets, N)
  BY <1>1, <1>4, <1>5, <1>6, <1>7, <1>8 DEF Index
<1> QED
  BY <1>9 DEF t, N, k

(* Of a bucket that is empty then, nothing is kept.                        *)
LEMMA IndexLessObject ==
  ASSUME NEW tables, NEW buckets, NEW K, Index(tables, buckets, K),
         NEW c \in DOMAIN K, ~Direct(K[c]), NEW left,
         NEW i \in 1..Len(ValueAt(buckets, K[c].hash, <<>>)),
         ValueAt(buckets, K[c].hash, <<>>)[i] = c,
         left = RemoveAt(ValueAt(buckets, K[c].hash, <<>>), i)
  PROVE  Index(tables, IF left = <<>> THEN But(buckets, K[c].hash) ELSE With(buckets, K[c].hash, left),
               Shrunk(K, c))
<1> DEFINE k == K[c]
           s == ValueAt(buckets, k.hash, <<>>)
           b == IF left = <<>> THEN But(buckets, k.hash) ELSE With(buckets, k.hash, left)
           N == Shrunk(K, c)
<1>1. /\ tables \in [Kinds -> PartialOn(Names, Nat)]
      /\ buckets \in PartialOn(Hashes, Seq(Nat))
      /\ K \in KeyMaps
      /\ \A a, d \in DOMAIN K : K[a] = K[d] => a = d
      /\ \A l \in Keys : Direct(l) => IsCellOf(K, l, ValueAt(tables[l.kind], l.name, 0))
      /\ \A h \in Hashes : ListOf(ValueAt(buckets, h, <<>>), Objects(K, h))
  BY DEF Index
<1>0. k \in Keys /\ ~Direct(k)
  BY <1>1, KeyOfCell
<1>a. \A d \in DOMAIN K : K[d] = k => d = c
  BY <1>1
<1>b. c \in DOMAIN K /\ K[c] = k
  OBVIOUS
<1>c. i \in 1..Len(s) /\ s[i] = c /\ left = RemoveAt(s, i)
  OBVIOUS
<1> HIDE DEF k
<1>2. k.hash \in Hashes
  BY <1>0, KindOf
<1>3. ListOf(s, Objects(K, k.hash))
  BY <1>1, <1>2
<1> HIDE DEF s
<1>4. ListOf(left, Objects(K, k.hash) \ {c})
  BY <1>3, <1>c, ListOfLess
<1>5. /\ b \in PartialOn(Hashes, Seq(Nat))
      /\ \A z : ValueAt(b, z, <<>>) = IF z = k.hash THEN left ELSE ValueAt(buckets, z, <<>>)
  <2> DEFINE E == Seq(Nat)
  <2>1. left \in E
    BY <1>4 DEF ListOf
  <2>2. buckets \in PartialOn(Hashes, E)
    BY <1>1
  <2> HIDE DEF E
  <2>3. /\ With(buckets, k.hash, left) \in PartialOn(Hashes, E)
        /\ \A d : \A z : ValueAt(With(buckets, k.hash, left), z, d)
                         = IF z = k.hash THEN left ELSE ValueAt(buckets, z, d)
    BY <1>2, <2>1, <2>2, WithIs
  <2>4. /\ But(buckets, k.hash) \in PartialOn(Hashes, E)
        /\ \A d : \A z : ValueAt(But(buckets, k.hash), z, d)
                         = IF z = k.hash THEN d ELSE ValueAt(buckets, z, d)
    BY <1>2, <2>2, ButIs
  <2>5. CASE left = <<>>
    <3>1. b = But(buckets, k.hash)
      BY <2>5
    <3> QED
      BY <2>4, <2>5, <3>1 DEF E
  <2>6. CASE left # <<>>
    <3>1. b = With(buckets, k.hash, left)
      BY <2>6
    <3> QED
      BY <2>3, <3>1 DEF E
  <2> QED
    BY <2>5, <2>6
<1>6. /\ N \in KeyMaps /\ DOMAIN N = DOMAIN K \ {c}
      /\ \A d \in DOMAIN K \ {c} : N[d] = K[d]
  BY <1>1, ShrunkIs
<1> HIDE DEF b, N
<1>7. \A a, d \in DOMAIN N : N[a] = N[d] => a = d
  BY <1>1, <1>6
<1>8. ASSUME NEW l \in Keys, Direct(l) PROVE IsCellOf(N, l, ValueAt(tables[l.kind], l.name, 0))
  <2>1. IsCellOf(K, l, ValueAt(tables[l.kind], l.name, 0)) /\ l # k
    BY <1>0, <1>1, <1>8
  <2> QED
    BY <1>6, <1>b, <2>1 DEF IsCellOf
<1>9. \A h : Objects(N, h) = IF h = k.hash THEN Objects(K, h) \ {c} ELSE Objects(K, h)
  BY <1>0, <1>6, <1>b DEF Objects
<1>10. \A h \in Hashes : ListOf(ValueAt(b, h, <<>>), Objects(N, h))
  BY <1>1, <1>4, <1>5, <1>9
<1>11. Index(tables, b, N)
  BY <1>1, <1>5, <1>6, <1>7, <1>8, <1>10 DEF Index
<1> QED
  BY <1>11 DEF b, N, s, k

-----------------------------------------------------------------------------
(* The list of cells *)

(* What a cell is, and a map. *)
Cells == [key : Keys, value : Nat, next : Nat, previous : Nat]
Maps  == [tables : [Kinds -> PartialOn(Names, Nat)], buckets : PartialOn(Hashes, Seq(Nat)),
          cells : Seq(Cells), first : Nat, last : Nat, size : Int, changes : Nat]

(* The neighbours of a cell in the list o, 0 for none. *)
After(o, i)  == IF i < Len(o) THEN o[i + 1] ELSE 0
Before(o, i) == IF i > 1 THEN o[i - 1] ELSE 0

(* The cells o are linked in this order, which is that of their making,    *)
(* and every cell, living or not, is followed by one made later.           *)
Chain(m, o) ==
  /\ o \in Seq(1..Len(m.cells))
  /\ \A i, j \in 1..Len(o) : i < j => o[i] < o[j]
  /\ \A i \in 1..Len(o) : /\ m.cells[o[i]].next = After(o, i)
                         /\ m.cells[o[i]].previous = Before(o, i)
  /\ m.first = After(o, 0) /\ m.last = Before(o, Len(o) + 1)
  /\ \A c \in 1..Len(m.cells) :
       m.cells[c].next = 0 \/ m.cells[c].next \in (c + 1)..Len(m.cells)

(* The keys of the living cells. *)
KeysIn(m, o) == [c \in {o[i] : i \in 1..Len(o)} |-> m.cells[c].key]

(* A look-up finds the living cell of a key, and its place in the bucket. *)
LEMMA FindIs ==
  ASSUME NEW m \in Maps, NEW K, Index(m.tables, m.buckets, K),
         \A c \in DOMAIN K : m.cells[c].key = K[c], NEW k \in Keys
  PROVE  /\ IsCellOf(K, k, Find(m, k))
         /\ ~Direct(k) /\ Find(m, k) # 0 =>
               /\ PlaceIn(m, Bucket(m, k), k) \in 1..Len(Bucket(m, k))
               /\ Bucket(m, k)[PlaceIn(m, Bucket(m, k), k)] = Find(m, k)
<1>1. CASE Direct(k)
  <2>1. IsCellOf(K, k, ValueAt(m.tables[k.kind], k.name, 0))
    BY <1>1 DEF Index
  <2> QED
    BY <1>1, <2>1 DEF Find
<1>2. CASE ~Direct(k)
  <2> DEFINE b == Bucket(m, k)
             at == {i \in DOMAIN b : m.cells[b[i]].key = k}
             p == PlaceIn(m, b, k)
  <2>1. ListOf(b, Objects(K, k.hash))
    BY KindOf DEF Index, Bucket
  <2>2. Find(m, k) = IF p = 0 THEN 0 ELSE b[p]
    BY <1>2 DEF Find
  <2>3. p = IF at = {} THEN 0 ELSE CHOOSE i \in at : \A j \in at : i <= j
    BY DEF PlaceIn
  <2> HIDE DEF b, p
  <2>4. DOMAIN b = 1..Len(b) /\ Len(b) \in Nat
    BY <2>1 DEF ListOf
  <2>5. at \in SUBSET Nat
    BY <2>4
  <2>6. IF at = {} THEN p = 0 ELSE p \in at
    <3>1. CASE at # {}
      <4> HIDE DEF at
      <4>1. \E i \in at : \A j \in at : i <= j
        BY <2>5, <3>1, LeastNumber
      <4> QED
        BY <2>3, <3>1, <4>1, Zenon
    <3> HIDE DEF at
    <3> QED
      BY <2>3, <3>1
  <2>7. \A i \in 1..Len(b) : b[i] \in DOMAIN K /\ K[b[i]] = m.cells[b[i]].key /\ b[i] # 0
    <3> TAKE i \in 1..Len(b)
    <3>1. b[i] \in Objects(K, k.hash)
      BY <2>1 DEF ListOf
    <3>2. b[i] \in DOMAIN K
      BY <3>1 DEF Objects
    <3>3. b[i] # 0
      BY <3>2, KeyOfCell DEF Index
    <3> QED
      BY <3>2, <3>3
  <2>8. CASE at = {}
    <3>1. ASSUME NEW d \in DOMAIN K, K[d] = k PROVE FALSE
      <4>1. d \in Objects(K, k.hash)
        BY <1>2, <3>1 DEF Objects
      <4>2. PICK i \in 1..Len(b) : b[i] = d
        BY <2>1, <4>1 DEF ListOf
      <4>3. i \in at
        BY <2>4, <2>7, <3>1, <4>2
      <4> QED
        BY <2>8, <4>3
    <3>2. Find(m, k) = 0
      BY <2>2, <2>6, <2>8
    <3> QED
      BY <3>1, <3>2 DEF IsCellOf
  <2>9. CASE at # {}
    <3>1. p \in 1..Len(b) /\ m.cells[b[p]].key = k
      BY <2>4, <2>6, <2>9
    <3>2. p # 0 /\ b[p] \in DOMAIN K /\ K[b[p]] = k
      BY <2>4, <2>7, <3>1
    <3> QED
      BY <2>2, <3>1, <3>2 DEF IsCellOf, b, p
  <2> QED
    BY <2>8, <2>9
<1> QED
  BY <1>1, <1>2

(* Cells that are linked are there, and each once. *)
LEMMA ChainIs ==
  ASSUME NEW m \in Maps, NEW o, Chain(m, o)
  PROVE  /\ Len(o) \in Nat /\ Len(m.cells) \in Nat
         /\ \A i \in 1..Len(o) : o[i] \in 1..Len(m.cells)
         /\ \A i \in 0..Len(o) : After(o, i) \in 0..Len(m.cells)
         /\ \A i \in 1..(Len(o) + 1) : Before(o, i) \in 0..Len(m.cells)
         /\ \A i, j \in 1..Len(o) : o[i] = o[j] => i = j
<1>1. Len(o) \in Nat /\ Len(m.cells) \in Nat /\ \A i \in 1..Len(o) : o[i] \in 1..Len(m.cells)
  BY DEF Chain, Maps
<1>2. \A i \in 0..Len(o) : After(o, i) \in 0..Len(m.cells)
  BY <1>1 DEF After
<1>3. \A i \in 1..(Len(o) + 1) : Before(o, i) \in 0..Len(m.cells)
  BY <1>1 DEF Before
<1>4. \A i, j \in 1..Len(o) : i < j => o[i] < o[j]
  BY DEF Chain
<1>5. ASSUME NEW i \in 1..Len(o), NEW j \in 1..Len(o), o[i] = o[j] PROVE i = j
  <2>1. ~(i < j) /\ ~(j < i)
    BY <1>1, <1>4, <1>5
  <2> QED
    BY <1>1, <2>1
<1> QED
  BY <1>1, <1>2, <1>3, <1>5

(* A cell is added. *)
LEMMA AddCellIs ==
  ASSUME NEW m \in Maps, NEW o, Chain(m, o), NEW k \in Keys, NEW v \in Nat,
         NEW n, n = AddCell(m, k, v), NEW c, c = Len(m.cells) + 1
  PROVE  /\ n \in Maps /\ n.tables = m.tables /\ n.buckets = m.buckets
         /\ n.size = m.size + 1 /\ n.changes = m.changes + 1
         /\ Chain(n, Append(o, c))
         /\ Len(n.cells) = c /\ n.cells[c].key = k /\ n.cells[c].value = v
         /\ \A d \in 1..Len(m.cells) : n.cells[d].key = m.cells[d].key /\ n.cells[d].value = m.cells[d].value
<1> DEFINE cell == [key |-> k, value |-> v, next |-> 0, previous |-> m.last]
           base == IF m.last = 0 THEN m.cells ELSE [m.cells EXCEPT ![m.last].next = c]
           len == Len(m.cells)
           e == Len(o)
           p == Append(o, c)
<1>1. /\ m.cells \in Seq(Cells) /\ len \in Nat /\ m.last \in 0..len /\ e \in Nat
      /\ o \in Seq(1..len) /\ \A i \in 1..e : o[i] \in 1..len
      /\ m.tables \in [Kinds -> PartialOn(Names, Nat)] /\ m.buckets \in PartialOn(Hashes, Seq(Nat))
      /\ m.first \in Nat /\ m.size \in Int /\ m.changes \in Nat
  <2>1. m.last = Before(o, e + 1) /\ e + 1 \in 1..(e + 1)
    BY ChainIs DEF Chain
  <2>2. m.last \in 0..len
    BY <2>1, ChainIs
  <2> QED
    BY <2>2, ChainIs DEF Maps, Chain
<1>2. base \in Seq(Cells) /\ Len(base) = len
      /\ \A d \in 1..len : base[d] = IF d = m.last THEN [m.cells[d] EXCEPT !.next = c] ELSE m.cells[d]
  <2>1. CASE m.last = 0
    BY <1>1, <2>1
  <2>2. CASE m.last # 0
    <3> DEFINE l == m.last
               x == [m.cells[l] EXCEPT !.next = c]
    <3>1. l \in 1..len /\ m.cells[l] \in Cells /\ c \in Nat
      BY <1>1, <2>2
    <3>2. x \in Cells
      BY <3>1 DEF Cells
    <3>3. base = [m.cells EXCEPT ![l] = x]
      BY <1>1, <2>2, <3>1
    <3> HIDE DEF x, base
    <3>4. /\ [m.cells EXCEPT ![l] = x] \in Seq(Cells) /\ Len([m.cells EXCEPT ![l] = x]) = len
          /\ \A d \in 1..len : [m.cells EXCEPT ![l] = x][d] = IF d = l THEN x ELSE m.cells[d]
      BY <1>1, <3>1, <3>2, ExceptSeq
    <3> QED
      BY <3>3, <3>4 DEF x
  <2> QED
    BY <2>1, <2>2
<1>3. cell \in Cells
  BY <1>1 DEF Cells
<1>4. n = [m EXCEPT !.cells = Append(base, cell), !.first = IF @ = 0 THEN c ELSE @,
                    !.last = c, !.size = @ + 1, !.changes = @ + 1]
  BY DEF AddCell
<1> HIDE DEF base
<1>5. /\ Append(base, cell) \in Seq(Cells) /\ Len(Append(base, cell)) = c
      /\ \A d \in 1..len : Append(base, cell)[d] = base[d]
      /\ Append(base, cell)[c] = cell
  <2> DEFINE E == Cells
             l == len
  <2>1. base \in Seq(E) /\ cell \in E /\ Len(base) = l /\ l \in Nat /\ c = l + 1
    BY <1>1, <1>2, <1>3
  <2> HIDE DEF cell, E, l
  <2>2. /\ Append(base, cell) \in Seq(E) /\ Len(Append(base, cell)) = l + 1
        /\ \A d \in 1..l : Append(base, cell)[d] = base[d]
        /\ Append(base, cell)[l + 1] = cell
    BY ONLY <2>1, AppendProperties
  <2> QED
    BY <2>1, <2>2 DEF E, l
<1>6. /\ n.tables = m.tables /\ n.buckets = m.buckets /\ n.cells = Append(base, cell)
      /\ n.first = (IF m.first = 0 THEN c ELSE m.first) /\ n.last = c
      /\ n.size = m.size + 1 /\ n.changes = m.changes + 1
  BY <1>4 DEF Maps
<1>7. n \in Maps
  <2> DEFINE a == Append(base, cell)
             f == IF m.first = 0 THEN c ELSE m.first
             g == m.size + 1
             h == m.changes + 1
  <2>1. a \in Seq(Cells) /\ c \in Nat /\ f \in Nat /\ g \in Int /\ h \in Nat
    BY <1>1, <1>5, SMTT(30)
  <2>2. n = [m EXCEPT !.cells = a, !.first = f, !.last = c, !.size = g, !.changes = h]
    BY <1>4
  <2> HIDE DEF a, f, g, h, cell
  <2> QED
    BY <2>1, <2>2 DEF Maps
<1>8. \A d \in 1..len : m.cells[d] \in Cells
  BY <1>1
<1>9. \A d \in 1..len : /\ n.cells[d].key = m.cells[d].key /\ n.cells[d].value = m.cells[d].value
                        /\ n.cells[d].next = IF d = m.last THEN c ELSE m.cells[d].next
                        /\ n.cells[d].previous = m.cells[d].previous
  <2> TAKE d \in 1..len
  <2> DEFINE x == m.cells[d]
  <2>1. n.cells[d] = IF d = m.last THEN [x EXCEPT !.next = c] ELSE x
    BY <1>2, <1>5, <1>6
  <2>2. x \in Cells
    BY <1>8
  <2> HIDE DEF x, len
  <2>3. /\ n.cells[d].key = x.key /\ n.cells[d].value = x.value
        /\ n.cells[d].next = IF d = m.last THEN c ELSE x.next
        /\ n.cells[d].previous = x.previous
    BY <2>1, <2>2 DEF Cells
  <2> QED
    BY <2>3 DEF x
<1>10. n.cells[c].key = k /\ n.cells[c].value = v /\ n.cells[c].next = 0 /\ n.cells[c].previous = m.last
  BY <1>5, <1>6
<1> HIDE DEF cell
<1>11. Len(n.cells) = c
  BY <1>5, <1>6
<1>12. /\ \A i, j \in 1..e : i < j => o[i] < o[j]
       /\ \A i \in 1..e : m.cells[o[i]].next = After(o, i) /\ m.cells[o[i]].previous = Before(o, i)
       /\ m.first = After(o, 0) /\ m.last = Before(o, e + 1)
       /\ \A d \in 1..len : m.cells[d].next = 0 \/ m.cells[d].next \in (d + 1)..len
       /\ \A i, j \in 1..e : o[i] = o[j] => i = j
  BY ChainIs DEF Chain
<1>13. p \in Seq(1..c) /\ Len(p) = e + 1 /\ p[e + 1] = c /\ \A i \in 1..e : p[i] = o[i]
  <2>1. 1..len \subseteq 1..c /\ c \in 1..c
    BY <1>1
  <2>2. o \in Seq(1..c)
    BY <1>1, <2>1, SeqMonotonic
  <2> QED
    BY <2>1, <2>2, AppendProperties
<1> HIDE DEF p
<1>a. len \in Nat /\ e \in Nat /\ c = len + 1
  BY <1>1
<1> HIDE DEF len, e
<1>14. \A i, j \in 1..(e + 1) : i < j => p[i] < p[j]
  <2> TAKE i, j \in 1..(e + 1)
  <2> HAVE i < j
  <2>1. i \in 1..e /\ (j \in 1..e \/ j = e + 1)
    BY <1>a
  <2>2. o[i] \in 1..len
    BY <1>1, <2>1
  <2>3. CASE j \in 1..e
    BY <1>12, <1>13, <2>1, <2>3
  <2>4. CASE j = e + 1
    BY <1>13, <1>a, <2>1, <2>2, <2>4
  <2> QED
    BY <2>1, <2>3, <2>4
<1>15. ASSUME NEW i \in 1..(e + 1)
       PROVE  n.cells[p[i]].next = After(p, i) /\ n.cells[p[i]].previous = Before(p, i)
  <2>1. CASE i = e + 1
    <3>1. After(p, i) = 0
      BY <1>13, <1>a, <2>1 DEF After
    <3>2. Before(p, i) = Before(o, i)
      BY <1>13, <1>a, <2>1 DEF Before
    <3> QED
      BY <1>10, <1>12, <1>13, <2>1, <3>1, <3>2
  <2>2. CASE i \in 1..e
    <3> DEFINE d == o[i]
    <3>1. d \in 1..len /\ p[i] = d
      BY <1>1, <1>13, <2>2
    <3>2. m.last = o[e]
      BY <1>12, <1>a, <2>2 DEF Before
    <3>3. d = m.last <=> i = e
      BY <1>12, <1>a, <2>2, <3>2
    <3>4. m.cells[d].next = After(o, i) /\ m.cells[d].previous = Before(o, i)
      BY <1>12, <2>2
    <3> HIDE DEF d
    <3>5. After(p, i) = IF i = e THEN c ELSE After(o, i)
      <4>1. i < e + 1 /\ i + 1 \in 1..(e + 1)
        BY <1>a, <2>2
      <4>2. After(p, i) = p[i + 1]
        BY <1>13, <4>1 DEF After
      <4>3. CASE i = e
        BY <1>13, <4>2, <4>3
      <4>4. CASE i # e
        <5>1. i + 1 \in 1..e /\ i < e
          BY <1>a, <2>2, <4>4
        <5> QED
          BY <1>13, <4>2, <4>4, <5>1 DEF After, e
      <4> QED
        BY <4>3, <4>4
    <3>6. Before(p, i) = Before(o, i)
      <4>1. i > 1 => i - 1 \in 1..e
        BY <1>a, <2>2
      <4> QED
        BY <1>13, <4>1 DEF Before
    <3> QED
      BY <1>9, <3>1, <3>3, <3>4, <3>5, <3>6
  <2> QED
    BY <1>a, <2>1, <2>2
<1>16. n.first = After(p, 0)
  <2>1. After(p, 0) = p[1]
    BY <1>13, <1>a DEF After
  <2>2. CASE e = 0
    BY <1>6, <1>12, <1>13, <2>1, <2>2 DEF After, e
  <2>3. CASE e # 0
    <3>1. m.first = o[1] /\ 1 \in 1..e
      BY <1>12, <1>a, <2>3 DEF After, e
    <3>2. o[1] # 0
      BY <1>1, <3>1
    <3> QED
      BY <1>6, <1>13, <2>1, <3>1, <3>2
  <2> QED
    BY <2>2, <2>3
<1>17. n.last = Before(p, e + 1 + 1)
  BY <1>6, <1>13, <1>a DEF Before
<1>18. ASSUME NEW d \in 1..c PROVE n.cells[d].next = 0 \/ n.cells[d].next \in (d + 1)..c
  <2>1. CASE d = c
    BY <1>10, <2>1
  <2>2. CASE d \in 1..len
    <3>1. n.cells[d].next = IF d = m.last THEN c ELSE m.cells[d].next
      BY <1>9, <2>2
    <3>2. m.cells[d].next = 0 \/ m.cells[d].next \in (d + 1)..len
      BY <1>12, <2>2
    <3>3. c \in (d + 1)..c /\ (d + 1)..len \subseteq (d + 1)..c
      BY <1>a, <2>2
    <3> QED
      BY <3>1, <3>2, <3>3
  <2> QED
    BY <1>a, <2>1, <2>2
<1>19. Chain(n, p)
  BY <1>11, <1>13, <1>14, <1>15, <1>16, <1>17, <1>18 DEF Chain
<1> QED
  BY <1>6, <1>7, <1>9, <1>10, <1>11, <1>19 DEF p, len

(* A cell is taken out of the list. *)
LEMMA UnlinkIs ==
  ASSUME NEW m \in Maps, NEW o, Chain(m, o), NEW i \in 1..Len(o),
         NEW n, n = Unlink(m, o[i])
  PROVE  /\ n \in Maps /\ n.tables = m.tables /\ n.buckets = m.buckets
         /\ n.size = m.size - 1 /\ n.changes = m.changes + 1
         /\ Chain(n, RemoveAt(o, i))
         /\ Len(n.cells) = Len(m.cells)
         /\ \A d \in 1..Len(m.cells) : n.cells[d].key = m.cells[d].key /\ n.cells[d].value = m.cells[d].value
<1> DEFINE len == Len(m.cells)
           e == Len(o)
           q == RemoveAt(o, i)
           c == o[i]
           next == m.cells[c].next
           previous == m.cells[c].previous
           moved(d) == [m.cells[d] EXCEPT !.next = IF d = previous THEN next ELSE @,
                                          !.previous = IF d = next THEN previous ELSE @]
           relinked == [d \in DOMAIN m.cells |-> moved(d)]
           at(j) == IF j < i THEN j ELSE j + 1
<1>1. /\ m.cells \in Seq(Cells) /\ len \in Nat /\ e \in Nat /\ i \in 1..e
      /\ o \in Seq(1..len) /\ \A j \in 1..e : o[j] \in 1..len
      /\ m.tables \in [Kinds -> PartialOn(Names, Nat)] /\ m.buckets \in PartialOn(Hashes, Seq(Nat))
      /\ m.first \in Nat /\ m.last \in Nat /\ m.size \in Int /\ m.changes \in Nat
  BY ChainIs DEF Maps, Chain
<1>2. /\ \A j, k \in 1..e : j < k => o[j] < o[k]
      /\ \A j \in 1..e : m.cells[o[j]].next = After(o, j) /\ m.cells[o[j]].previous = Before(o, j)
      /\ m.first = After(o, 0) /\ m.last = Before(o, e + 1)
      /\ \A d \in 1..len : m.cells[d].next = 0 \/ m.cells[d].next \in (d + 1)..len
      /\ \A j, k \in 1..e : o[j] = o[k] => j = k
  BY ChainIs DEF Chain
<1>3. next = After(o, i) /\ previous = Before(o, i) /\ c \in 1..len
  BY <1>1, <1>2
<1>4. next \in 0..len /\ previous \in 0..len
  <2>1. i \in 0..e /\ i \in 1..(e + 1)
    BY <1>1
  <2> QED
    BY <1>3, <2>1, ChainIs
<1>5. n = [m EXCEPT !.cells = relinked, !.first = IF previous = 0 THEN next ELSE @,
                    !.last = IF next = 0 THEN previous ELSE @, !.size = @ - 1, !.changes = @ + 1]
  BY DEF Unlink
<1>6. \A d \in 1..len : m.cells[d] \in Cells
  BY <1>1
<1> HIDE DEF next, previous
<1>7. ASSUME NEW d \in 1..len
      PROVE  /\ moved(d) \in Cells
             /\ moved(d).key = m.cells[d].key /\ moved(d).value = m.cells[d].value
             /\ moved(d).next = IF d = previous THEN next ELSE m.cells[d].next
             /\ moved(d).previous = IF d = next THEN previous ELSE m.cells[d].previous
  <2> DEFINE x == m.cells[d]
  <2>1. x \in Cells
    BY <1>6
  <2>2. next \in Nat /\ previous \in Nat
    BY <1>1, <1>4
  <2>3. moved(d) = [x EXCEPT !.next = IF d = previous THEN next ELSE @,
                             !.previous = IF d = next THEN previous ELSE @]
    OBVIOUS
  <2> HIDE DEF x, moved, len
  <2>4. moved(d) \in Cells
    BY <2>1, <2>2, <2>3 DEF Cells
  <2>5. /\ moved(d).key = x.key /\ moved(d).value = x.value
        /\ moved(d).next = IF d = previous THEN next ELSE x.next
        /\ moved(d).previous = IF d = next THEN previous ELSE x.previous
    BY <2>1, <2>3 DEF Cells
  <2> QED
    BY <2>4, <2>5 DEF x
<1> HIDE DEF moved
<1>8. relinked \in Seq(Cells) /\ Len(relinked) = len /\ \A d \in 1..len : relinked[d] = moved(d)
  <2>1. DOMAIN m.cells = 1..len
    BY <1>1
  <2>2. relinked \in [1..len -> Cells]
    BY <1>7, <2>1
  <2> QED
    BY <1>1, <2>1, <2>2
<1> HIDE DEF relinked
<1>9. /\ n.tables = m.tables /\ n.buckets = m.buckets /\ n.cells = relinked
      /\ n.first = (IF previous = 0 THEN next ELSE m.first)
      /\ n.last = (IF next = 0 THEN previous ELSE m.last)
      /\ n.size = m.size - 1 /\ n.changes = m.changes + 1
  BY <1>5 DEF Maps
<1>10. n \in Maps
  <2> DEFINE f == IF previous = 0 THEN next ELSE m.first
             l == IF next = 0 THEN previous ELSE m.last
             g == m.size - 1
             h == m.changes + 1
  <2>1. f \in Nat /\ l \in Nat /\ g \in Int /\ h \in Nat /\ relinked \in Seq(Cells)
    BY <1>1, <1>4, <1>8, SMTT(30)
  <2>2. n = [m EXCEPT !.cells = relinked, !.first = f, !.last = l, !.size = g, !.changes = h]
    BY <1>5
  <2> HIDE DEF f, g, h, l
  <2> QED
    BY <2>1, <2>2 DEF Maps
<1>11. /\ Len(n.cells) = len
       /\ \A d \in 1..len :
            /\ n.cells[d].key = m.cells[d].key /\ n.cells[d].value = m.cells[d].value
            /\ n.cells[d].next = IF d = previous THEN next ELSE m.cells[d].next
            /\ n.cells[d].previous = IF d = next THEN previous ELSE m.cells[d].previous
  <2>1. Len(n.cells) = len
    BY <1>8, <1>9
  <2> HIDE DEF len
  <2>2. ASSUME NEW d \in 1..len
        PROVE  /\ n.cells[d].key = m.cells[d].key /\ n.cells[d].value = m.cells[d].value
               /\ n.cells[d].next = IF d = previous THEN next ELSE m.cells[d].next
               /\ n.cells[d].previous = IF d = next THEN previous ELSE m.cells[d].previous
    <3>1. n.cells[d] = moved(d)
      BY <1>8, <1>9
    <3> QED
      BY <1>7, <3>1, Zenon
  <2> QED
    BY <2>1, <2>2
<1>12. q \in Seq(1..len) /\ Len(q) = e - 1 /\ \A j \in 1..(e - 1) : q[j] = o[at(j)]
  BY <1>1, RemoveAtIs
<1> HIDE DEF q
<1>13. \A j \in 1..(e - 1) : at(j) \in 1..e /\ at(j) # i
  BY <1>1, SMTT(30)
<1>14. \A j, k \in 1..(e - 1) : j < k => at(j) < at(k)
  BY <1>1, SMTT(30)
<1>a. len \in Nat /\ e \in Nat /\ i \in 1..e
  BY <1>1
<1> HIDE DEF len, e
<1>15. \A j, k \in 1..(e - 1) : j < k => q[j] < q[k]
  <2> HIDE DEF at
  <2> QED
    BY <1>2, <1>12, <1>13, <1>14
<1>b. /\ previous = IF i > 1 THEN o[i - 1] ELSE 0
      /\ next = IF i < e THEN o[i + 1] ELSE 0
  BY <1>3 DEF After, Before, e
<1>16. ASSUME NEW j \in 1..(e - 1)
       PROVE  n.cells[q[j]].next = After(q, j) /\ n.cells[q[j]].previous = Before(q, j)
  <2> DEFINE d == o[at(j)]
  <2>1. d \in 1..len /\ q[j] = d /\ at(j) \in 1..e
    BY <1>1, <1>12, <1>13
  <2>2. m.cells[d].next = After(o, at(j)) /\ m.cells[d].previous = Before(o, at(j))
    BY <1>2, <1>13
  <2>3. d = previous <=> i > 1 /\ j = i - 1
    <3>1. CASE i > 1
      <4>1. i - 1 \in 1..e /\ (at(j) = i - 1 <=> j = i - 1)
        BY <1>a, <3>1
      <4> HIDE DEF at
      <4> QED
        BY <1>2, <1>b, <2>1, <3>1, <4>1
    <3>2. CASE ~(i > 1)
      BY <1>b, <1>a, <2>1, <3>2
    <3> QED
      BY <3>1, <3>2
  <2>4. d = next <=> i < e /\ j = i
    <3>1. CASE i < e
      <4>1. i + 1 \in 1..e /\ (at(j) = i + 1 <=> j = i)
        BY <1>a, <3>1
      <4> HIDE DEF at
      <4> QED
        BY <1>2, <1>b, <2>1, <3>1, <4>1
    <3>2. CASE ~(i < e)
      BY <1>b, <1>a, <2>1, <3>2
    <3> QED
      BY <3>1, <3>2
  <2> HIDE DEF d
  <2>5. After(q, j) = IF i > 1 /\ j = i - 1 THEN next ELSE After(o, at(j))
    <3>1. CASE j = e - 1
      <4>1. After(q, j) = 0
        BY <1>12, <1>a, <3>1 DEF After
      <4>2. CASE i > 1 /\ j = i - 1
        BY <1>a, <1>b, <3>1, <4>1, <4>2
      <4>3. CASE ~(i > 1 /\ j = i - 1)
        <5>1. at(j) = e
          BY <1>a, <3>1, <4>3
        <5> QED
          BY <1>a, <4>1, <4>3, <5>1 DEF After, e
      <4> QED
        BY <4>2, <4>3
    <3>2. CASE j # e - 1
      <4>1. j + 1 \in 1..(e - 1) /\ j < e - 1
        BY <1>a, <3>2
      <4>2. After(q, j) = o[at(j + 1)]
        BY <1>12, <4>1 DEF After
      <4>3. CASE i > 1 /\ j = i - 1
        <5>1. at(j + 1) = i + 1 /\ i < e
          BY <1>a, <4>1, <4>3
        <5> QED
          BY <1>b, <4>2, <4>3, <5>1
      <4>4. CASE ~(i > 1 /\ j = i - 1)
        <5>1. at(j + 1) = at(j) + 1 /\ at(j) < e
          BY <1>a, <4>1, <4>4
        <5> HIDE DEF at
        <5> QED
          BY <4>2, <4>4, <5>1 DEF After, e
      <4> QED
        BY <4>3, <4>4
    <3> QED
      BY <3>1, <3>2
  <2>6. Before(q, j) = IF i < e /\ j = i THEN previous ELSE Before(o, at(j))
    <3>1. CASE j = 1
      <4>1. Before(q, j) = 0
        BY <3>1 DEF Before
      <4>2. CASE i < e /\ j = i
        BY <1>a, <1>b, <3>1, <4>1, <4>2
      <4>3. CASE ~(i < e /\ j = i)
        <5>1. at(j) = 1
          BY <1>a, <3>1, <4>3
        <5> QED
          BY <4>1, <4>3, <5>1 DEF Before
      <4> QED
        BY <4>2, <4>3
    <3>2. CASE j # 1
      <4>1. j - 1 \in 1..(e - 1) /\ j > 1
        BY <1>a, <3>2
      <4>2. Before(q, j) = o[at(j - 1)]
        BY <1>12, <4>1 DEF Before
      <4>3. CASE i < e /\ j = i
        <5>1. at(j - 1) = i - 1 /\ i > 1
          BY <1>a, <4>1, <4>3
        <5> QED
          BY <1>b, <4>2, <4>3, <5>1
      <4>4. CASE ~(i < e /\ j = i)
        <5>1. at(j - 1) = at(j) - 1 /\ at(j) > 1
          BY <1>a, <4>1, <4>4
        <5> HIDE DEF at
        <5> QED
          BY <4>2, <4>4, <5>1 DEF Before
      <4> QED
        BY <4>3, <4>4
    <3> QED
      BY <3>1, <3>2
  <2> HIDE DEF at
  <2>7. /\ n.cells[d].next = IF d = previous THEN next ELSE m.cells[d].next
        /\ n.cells[d].previous = IF d = next THEN previous ELSE m.cells[d].previous
    BY <1>11, <2>1
  <2>8. n.cells[d].next = After(q, j)
    BY <2>2, <2>3, <2>5, <2>7, Zenon
  <2>9. n.cells[d].previous = Before(q, j)
    BY <2>2, <2>4, <2>6, <2>7, Zenon
  <2> QED
    BY <2>1, <2>8, <2>9
<1>17. n.first = After(q, 0)
  <2>1. CASE e = 1
    <3>1. After(q, 0) = 0 /\ previous = 0 /\ next = 0
      BY <1>12, <1>a, <1>b, <2>1 DEF After
    <3> QED
      BY <1>9, <3>1
  <2>2. CASE e # 1
    <3>1. After(q, 0) = o[at(1)] /\ 1 \in 1..(e - 1)
      BY <1>12, <1>a, <2>2 DEF After
    <3>2. CASE i = 1
      BY <1>9, <1>a, <1>b, <2>2, <3>1, <3>2
    <3>3. CASE i # 1
      <4>1. previous = o[i - 1] /\ i - 1 \in 1..e
        BY <1>a, <1>b, <3>3
      <4>2. previous # 0
        BY <1>1, <1>a, <4>1
      <4>3. m.first = o[1]
        BY <1>2, <1>a DEF After, e
      <4> QED
        BY <1>9, <1>a, <3>1, <3>3, <4>2, <4>3
    <3> QED
      BY <3>2, <3>3
  <2> QED
    BY <2>1, <2>2
<1>18. n.last = Before(q, (e - 1) + 1)
  <2>1. CASE e = 1
    <3>1. Before(q, (e - 1) + 1) = 0 /\ previous = 0 /\ next = 0
      BY <1>a, <1>b, <2>1 DEF Before
    <3> QED
      BY <1>9, <3>1
  <2>2. CASE e # 1
    <3>1. Before(q, (e - 1) + 1) = o[at(e - 1)] /\ e - 1 \in 1..(e - 1)
      BY <1>12, <1>a, <2>2 DEF Before
    <3>2. CASE i = e
      BY <1>9, <1>a, <1>b, <2>2, <3>1, <3>2
    <3>3. CASE i # e
      <4>1. next = o[i + 1] /\ i + 1 \in 1..e
        BY <1>a, <1>b, <3>3
      <4>2. next # 0
        BY <1>1, <1>a, <4>1
      <4>3. m.last = o[e]
        BY <1>2, <1>a, <3>3 DEF Before
      <4> QED
        BY <1>9, <1>a, <3>1, <3>3, <4>2, <4>3
    <3> QED
      BY <3>2, <3>3
  <2> QED
    BY <2>1, <2>2
<1>19. ASSUME NEW d \in 1..len PROVE n.cells[d].next = 0 \/ n.cells[d].next \in (d + 1)..len
  <2>1. CASE d # previous
    <3>1. n.cells[d].next = m.cells[d].next
      BY <1>11, <2>1
    <3> QED
      BY <1>2, <3>1, Zenon
  <2>2. CASE d = previous /\ next # 0
    <3>1. i > 1 /\ i < e /\ d = o[i - 1] /\ next = o[i + 1]
      BY <1>a, <1>b, <2>2
    <3>2. i - 1 \in 1..e /\ i + 1 \in 1..e /\ i - 1 < i + 1
      BY <1>a, <3>1
    <3>3. d < next
      BY <1>2, <3>1, <3>2
    <3> QED
      BY <1>4, <1>11, <1>a, <2>2, <3>3 DEF len
  <2>3. CASE d = previous /\ next = 0
    BY <1>11, <2>3
  <2> QED
    BY <2>1, <2>2, <2>3
<1>20. Chain(n, q)
  BY <1>11, <1>12, <1>15, <1>16, <1>17, <1>18, <1>19 DEF Chain
<1> QED
  BY <1>9, <1>10, <1>11, <1>20 DEF q, len

(* n is m without one cell, and its list of cells is q.                    *)
IsUnlinked(m, n, q) ==
  /\ n \in Maps /\ n.tables = m.tables /\ n.buckets = m.buckets
  /\ n.size = m.size - 1 /\ n.changes = m.changes + 1
  /\ Chain(n, q)
  /\ Len(n.cells) = Len(m.cells)
  /\ \A d \in 1..Len(m.cells) : n.cells[d].key = m.cells[d].key /\ n.cells[d].value = m.cells[d].value

LEMMA UnlinkedIs ==
  ASSUME NEW m \in Maps, NEW o, Chain(m, o), NEW i \in 1..Len(o)
  PROVE  IsUnlinked(m, Unlink(m, o[i]), RemoveAt(o, i))
<1> DEFINE n == Unlink(m, o[i])
           q == RemoveAt(o, i)
<1>1. n = Unlink(m, o[i])
  OBVIOUS
<1> HIDE DEF n
<1>2. n \in Maps /\ n.tables = m.tables /\ n.buckets = m.buckets
  BY <1>1, UnlinkIs
<1>3. n.size = m.size - 1 /\ n.changes = m.changes + 1 /\ Len(n.cells) = Len(m.cells)
  BY <1>1, UnlinkIs
<1>4. Chain(n, q)
  BY <1>1, UnlinkIs
<1>5. \A d \in 1..Len(m.cells) : n.cells[d].key = m.cells[d].key /\ n.cells[d].value = m.cells[d].value
  BY <1>1, UnlinkIs
<1> HIDE DEF q
<1>6. IsUnlinked(m, n, q)
  BY <1>2, <1>3, <1>4, <1>5, Zenon DEF IsUnlinked
<1> QED
  BY <1>6 DEF n, q

-----------------------------------------------------------------------------
(* The calls *)

(* What a map holds, in the order of its keys. *)
Pairs == Keys \X Nat

(* The map m holds the pairs of a list, in the cells o. *)
Holds(m, o, list) ==
  /\ m \in Maps /\ Chain(m, o) /\ Index(m.tables, m.buckets, KeysIn(m, o))
  /\ list \in Seq(Pairs) /\ Len(list) = Len(o) /\ m.size = Len(list)
  /\ \A i \in 1..Len(o) : list[i] = <<m.cells[o[i]].key, m.cells[o[i]].value>>

(* The place of a key, if it has one. *)
IsAt(m, o, list, k, i) ==
  /\ i \in 1..Len(o) /\ Find(m, k) = o[i] /\ o[i] # 0
  /\ m.cells[o[i]].key = k /\ PlaceOf(list, k) = {i}
IsNowhere(m, list, k) == Find(m, k) = 0 /\ PlaceOf(list, k) = {}

(* The living cells of a map that holds a list have different keys. *)
LEMMA KeysInIs ==
  ASSUME NEW m, NEW o, NEW list, Holds(m, o, list)
  PROVE  /\ DOMAIN KeysIn(m, o) = {o[i] : i \in 1..Len(o)}
         /\ \A c \in DOMAIN KeysIn(m, o) : m.cells[c].key = KeysIn(m, o)[c]
         /\ \A i, j \in 1..Len(o) : m.cells[o[i]].key = m.cells[o[j]].key => i = j
         /\ \A i \in 1..Len(o) : o[i] \in 1..Len(m.cells) /\ o[i] # 0 /\ m.cells[o[i]] \in Cells
<1> DEFINE K == KeysIn(m, o)
<1>1. DOMAIN K = {o[i] : i \in 1..Len(o)} /\ \A c \in DOMAIN K : m.cells[c].key = K[c]
  BY DEF KeysIn
<1>2. m \in Maps /\ Chain(m, o) /\ Index(m.tables, m.buckets, K)
  BY DEF Holds
<1> HIDE DEF K
<1>3. \A c, d \in DOMAIN K : K[c] = K[d] => c = d
  BY <1>2 DEF Index
<1>4. /\ Len(m.cells) \in Nat
      /\ \A i \in 1..Len(o) : o[i] \in 1..Len(m.cells)
      /\ \A i, j \in 1..Len(o) : o[i] = o[j] => i = j
  BY <1>2, ChainIs
<1>5. ASSUME NEW i \in 1..Len(o), NEW j \in 1..Len(o), m.cells[o[i]].key = m.cells[o[j]].key PROVE i = j
  <2>1. o[i] \in DOMAIN K /\ o[j] \in DOMAIN K
    BY <1>1
  <2>2. K[o[i]] = K[o[j]]
    BY <1>1, <1>5, <2>1
  <2> QED
    BY <1>3, <1>4, <2>1, <2>2
<1>6. ASSUME NEW i \in 1..Len(o) PROVE o[i] # 0 /\ m.cells[o[i]] \in Cells
  <2>1. o[i] \in 1..Len(m.cells)
    BY <1>4
  <2> QED
    BY <1>2, <1>4, <2>1 DEF Maps
<1> QED
  BY <1>1, <1>4, <1>5, <1>6 DEF K

(* A cell has a number, and none is 0.                                     *)
LEMMA CellsAreNumbered ==
  ASSUME NEW m, NEW o, NEW list, Holds(m, o, list), NEW i \in 1..Len(o)
  PROVE  o[i] # 0
BY KeysInIs

(* A key has one place, in the cells as in the list, or none in both. *)
LEMMA PlaceIs ==
  ASSUME NEW m, NEW o, NEW list, Holds(m, o, list), NEW k \in Keys
  PROVE  IsNowhere(m, list, k) \/ \E i : IsAt(m, o, list, k, i)
<1> DEFINE K == KeysIn(m, o)
           c == Find(m, k)
<1>1. /\ DOMAIN K = {o[i] : i \in 1..Len(o)}
      /\ \A d \in DOMAIN K : m.cells[d].key = K[d]
      /\ \A i, j \in 1..Len(o) : m.cells[o[i]].key = m.cells[o[j]].key => i = j
      /\ \A i \in 1..Len(o) : o[i] \in 1..Len(m.cells) /\ o[i] # 0 /\ m.cells[o[i]] \in Cells
  BY KeysInIs
<1>2. m \in Maps /\ Index(m.tables, m.buckets, K)
  BY DEF Holds
<1> HIDE DEF K
<1>3. IsCellOf(K, k, c)
  BY <1>1, <1>2, FindIs
<1>4. PlaceOf(list, k) = {i \in 1..Len(o) : m.cells[o[i]].key = k}
  <2>1. DOMAIN list = 1..Len(o)
    BY DEF Holds
  <2>2. \A i \in 1..Len(o) : list[i][1] = m.cells[o[i]].key
    BY DEF Holds
  <2> QED
    BY <2>1, <2>2 DEF PlaceOf
<1> HIDE DEF c
<1>5. CASE c \in DOMAIN K /\ K[c] = k
  <2>1. PICK i \in 1..Len(o) : o[i] = c
    BY <1>1, <1>5
  <2>2. m.cells[o[i]].key = k
    BY <1>1, <1>5, <2>1
  <2>3. PlaceOf(list, k) = {i}
    BY <1>1, <1>4, <2>2
  <2>4. IsAt(m, o, list, k, i)
    BY <1>1, <2>1, <2>2, <2>3 DEF IsAt, c
  <2> QED
    BY <2>4
<1>6. CASE c = 0 /\ \A d \in DOMAIN K : K[d] # k
  <2>1. ASSUME NEW i \in 1..Len(o) PROVE m.cells[o[i]].key # k
    <3>1. o[i] \in DOMAIN K
      BY <1>1
    <3> QED
      BY <1>1, <1>6, <3>1
  <2> QED
    BY <1>4, <1>6, <2>1 DEF IsNowhere, c
<1> QED
  BY <1>3, <1>5, <1>6 DEF IsCellOf

(* What a call leaves: another list in other cells, of another length and  *)
(* counted as a change; or the same keys in the same cells.                *)
Leads(m, o, list, n, p, new) ==
  /\ Holds(n, p, new)
  /\ \/ n.changes = m.changes + 1 /\ Len(new) # Len(list)
     \/ /\ n.changes = m.changes /\ p = o /\ Len(new) = Len(list)
        /\ \A i \in 1..Len(list) : new[i][1] = list[i][1]

(* A key that is there gets another value. *)
LEMMA PutOver ==
  ASSUME NEW m, NEW o, NEW list, Holds(m, o, list), NEW k \in Keys, NEW v \in Nat,
         NEW i, IsAt(m, o, list, k, i)
  PROVE  Leads(m, o, list, Put(m, k, v), o, Putting(list, k, v))
<1> DEFINE c == o[i]
           x == [m.cells[c] EXCEPT !.value = v]
           cs == [m.cells EXCEPT ![c] = x]
           n == [m EXCEPT !.cells = cs]
           new == Putting(list, k, v)
           len == Len(m.cells)
           e == Len(o)
<1>1. /\ m \in Maps /\ Chain(m, o) /\ Index(m.tables, m.buckets, KeysIn(m, o))
      /\ list \in Seq(Pairs) /\ Len(list) = e /\ m.size = Len(list)
      /\ \A j \in 1..e : list[j] = <<m.cells[o[j]].key, m.cells[o[j]].value>>
  BY DEF Holds
<1>2. i \in 1..e /\ Find(m, k) = c /\ c # 0 /\ m.cells[c].key = k /\ PlaceOf(list, k) = {i}
  BY DEF IsAt
<1>3. /\ m.cells \in Seq(Cells) /\ c \in 1..len /\ m.cells[c] \in Cells /\ len \in Nat /\ e \in Nat
      /\ \A j \in 1..e : o[j] \in 1..len
      /\ \A j \in 1..e : o[j] = c => j = i
  <2>1. m.cells \in Seq(Cells) /\ len \in Nat
    BY <1>1 DEF Maps
  <2>2. \A j \in 1..e : o[j] \in 1..len /\ o[j] # 0 /\ m.cells[o[j]] \in Cells
    BY KeysInIs
  <2>3. e \in Nat /\ \A j, l \in 1..e : o[j] = o[l] => j = l
    BY <1>1, ChainIs
  <2> HIDE DEF len, e
  <2>4. \A j \in 1..e : o[j] = c => j = i
    BY <1>2, <2>3
  <2>5. c \in 1..len /\ m.cells[c] \in Cells
    BY <1>2, <2>2
  <2>6. \A j \in 1..e : o[j] \in 1..len
    BY <2>2
  <2> QED
    BY <2>1, <2>3, <2>4, <2>5, <2>6, Zenon
<1>4. Put(m, k, v) = n
  <2>1. Put(m, k, v) = [m EXCEPT !.cells[c].value = v]
    BY <1>2 DEF Put
  <2> QED
    BY <1>1, <1>3, <2>1 DEF Maps
<1>5. x \in Cells /\ x.key = k /\ x.value = v /\ x.next = m.cells[c].next /\ x.previous = m.cells[c].previous
  BY <1>2, <1>3 DEF Cells
<1> HIDE DEF x
<1>6. /\ cs \in Seq(Cells) /\ Len(cs) = len
      /\ \A d \in 1..len : cs[d] = IF d = c THEN x ELSE m.cells[d]
  BY <1>3, <1>5, ExceptSeq
<1> HIDE DEF cs
<1>7. /\ n \in Maps /\ n.cells = cs /\ n.tables = m.tables /\ n.buckets = m.buckets
      /\ n.first = m.first /\ n.last = m.last /\ n.size = m.size /\ n.changes = m.changes
  BY <1>1, <1>6 DEF Maps
<1> HIDE DEF n
<1>8. \A d \in 1..len : /\ n.cells[d].key = m.cells[d].key /\ n.cells[d].next = m.cells[d].next
                        /\ n.cells[d].previous = m.cells[d].previous
                        /\ n.cells[d].value = IF d = c THEN v ELSE m.cells[d].value
  BY <1>2, <1>5, <1>6, <1>7
<1> HIDE DEF c
<1>9. Len(n.cells) = len
  BY <1>6, <1>7
<1>10. Chain(n, o)
  <2> HIDE DEF len, e
  <2>1. /\ o \in Seq(1..len)
        /\ \A j, l \in 1..e : j < l => o[j] < o[l]
        /\ \A j \in 1..e : m.cells[o[j]].next = After(o, j) /\ m.cells[o[j]].previous = Before(o, j)
        /\ m.first = After(o, 0) /\ m.last = Before(o, e + 1)
        /\ \A d \in 1..len : m.cells[d].next = 0 \/ m.cells[d].next \in (d + 1)..len
    BY <1>1 DEF Chain, len, e
  <2>2. \A j \in 1..e : n.cells[o[j]].next = After(o, j) /\ n.cells[o[j]].previous = Before(o, j)
    BY <1>3, <1>8, <2>1
  <2>3. \A d \in 1..len : n.cells[d].next = 0 \/ n.cells[d].next \in (d + 1)..len
    BY <1>8, <2>1
  <2> QED
    BY <1>7, <1>9, <2>1, <2>2, <2>3 DEF Chain, e
<1>11. KeysIn(n, o) = KeysIn(m, o)
  BY <1>3, <1>8 DEF KeysIn
<1>12. new = [j \in DOMAIN list |-> IF j = i THEN <<k, v>> ELSE list[j]]
  BY <1>2 DEF Putting
<1> HIDE DEF new
<1>13. /\ new \in Seq(Pairs) /\ Len(new) = e
       /\ \A j \in 1..e : new[j] = IF j = i THEN <<k, v>> ELSE list[j]
  <2>1. DOMAIN list = 1..e /\ \A j \in 1..e : list[j] \in Pairs
    BY <1>1
  <2>2. <<k, v>> \in Pairs
    BY DEF Pairs
  <2> HIDE DEF e
  <2>3. new = [j \in 1..e |-> IF j = i THEN <<k, v>> ELSE list[j]]
    BY <1>12, <2>1, Zenon
  <2>4. new \in [1..e -> Pairs]
    BY <2>1, <2>2, <2>3
  <2>5. new \in Seq(Pairs) /\ Len(new) = e
    BY <1>3, <2>4
  <2>6. \A j \in 1..e : new[j] = IF j = i THEN <<k, v>> ELSE list[j]
    BY <2>3
  <2> QED
    BY <2>5, <2>6
<1>14. ASSUME NEW j \in 1..e
       PROVE  /\ new[j] = <<n.cells[o[j]].key, n.cells[o[j]].value>>
              /\ new[j][1] = list[j][1]
  <2>1. CASE j = i
    <3>1. n.cells[o[j]].key = k /\ n.cells[o[j]].value = v
      BY <1>2, <1>3, <1>8, <2>1 DEF c
    <3> QED
      BY <1>1, <1>2, <1>13, <2>1, <3>1 DEF c
  <2>2. CASE j # i
    <3>1. o[j] # c /\ o[j] \in 1..len
      BY <1>3, <2>2
    <3>2. n.cells[o[j]].key = m.cells[o[j]].key /\ n.cells[o[j]].value = m.cells[o[j]].value
      BY <1>8, <3>1
    <3> QED
      BY <1>1, <1>13, <2>2, <3>2
  <2> QED
    BY <2>1, <2>2
<1>15. Holds(n, o, new)
  BY <1>1, <1>7, <1>10, <1>11, <1>13, <1>14 DEF Holds
<1>16. Leads(m, o, list, n, o, new)
  BY <1>1, <1>7, <1>13, <1>14, <1>15 DEF Leads
<1> QED
  BY <1>4, <1>16 DEF new

(* The tables or the buckets of a map are replaced. *)
IsReindexed(z, n, t, b) ==
  \/ z = [n EXCEPT !.tables = t] /\ b = n.buckets
  \/ z = [n EXCEPT !.buckets = b] /\ t = n.tables

(* Entries of tables or buckets leave the list of cells alone. *)
LEMMA Reindexed ==
  ASSUME NEW n \in Maps, NEW p, Chain(n, p), NEW t, NEW b, Index(t, b, KeysIn(n, p)),
         NEW z, IsReindexed(z, n, t, b)
  PROVE  /\ z \in Maps /\ Chain(z, p) /\ Index(z.tables, z.buckets, KeysIn(z, p))
         /\ z.cells = n.cells /\ z.size = n.size /\ z.changes = n.changes
<1>1. t \in [Kinds -> PartialOn(Names, Nat)] /\ b \in PartialOn(Hashes, Seq(Nat))
  BY DEF Index
<1>2. /\ z \in Maps /\ z.tables = t /\ z.buckets = b
      /\ z.cells = n.cells /\ z.first = n.first /\ z.last = n.last
      /\ z.size = n.size /\ z.changes = n.changes
  <2>1. CASE z = [n EXCEPT !.tables = t] /\ b = n.buckets
    BY <1>1, <2>1 DEF Maps
  <2>2. CASE z = [n EXCEPT !.buckets = b] /\ t = n.tables
    BY <1>1, <2>2 DEF Maps
  <2> QED
    BY <2>1, <2>2 DEF IsReindexed
<1>3. Chain(z, p)
  BY <1>2 DEF Chain
<1>4. KeysIn(z, p) = KeysIn(n, p)
  BY <1>2 DEF KeysIn
<1> QED
  BY <1>2, <1>3, <1>4

(* A key that is not there comes last. *)
LEMMA PutLast ==
  ASSUME NEW m, NEW o, NEW list, Holds(m, o, list), NEW k \in Keys, NEW v \in Nat,
         IsNowhere(m, list, k)
  PROVE  Leads(m, o, list, Put(m, k, v), Append(o, Len(m.cells) + 1), Putting(list, k, v))
<1> DEFINE c == Len(m.cells) + 1
           n == AddCell(m, k, v)
           p == Append(o, c)
           z == Put(m, k, v)
           new == Putting(list, k, v)
           K == KeysIn(m, o)
           e == Len(o)
<1>1. /\ m \in Maps /\ Chain(m, o) /\ Index(m.tables, m.buckets, K)
      /\ list \in Seq(Pairs) /\ Len(list) = e /\ m.size = Len(list)
      /\ \A j \in 1..e : list[j] = <<m.cells[o[j]].key, m.cells[o[j]].value>>
  BY DEF Holds
<1>2. /\ e \in Nat /\ Len(m.cells) \in Nat /\ c \in Nat \ {0}
      /\ \A j \in 1..e : o[j] \in 1..Len(m.cells) /\ o[j] # c
      /\ o \in Seq(1..Len(m.cells))
  <2>1. e \in Nat /\ Len(m.cells) \in Nat /\ \A j \in 1..e : o[j] \in 1..Len(m.cells)
    BY <1>1, ChainIs
  <2>2. o \in Seq(1..Len(m.cells))
    BY <1>1 DEF Chain
  <2> QED
    BY <2>1, <2>2
<1>3. /\ n \in Maps /\ n.tables = m.tables /\ n.buckets = m.buckets
      /\ n.size = m.size + 1 /\ n.changes = m.changes + 1
      /\ Chain(n, p)
      /\ Len(n.cells) = c /\ n.cells[c].key = k /\ n.cells[c].value = v
      /\ \A d \in 1..Len(m.cells) : n.cells[d].key = m.cells[d].key /\ n.cells[d].value = m.cells[d].value
  <2> HIDE DEF n, c, p
  <2>1. n = AddCell(m, k, v) /\ c = Len(m.cells) + 1
    BY DEF n, c
  <2> QED
    BY <1>1, <2>1, AddCellIs, SMTT(30) DEF p
<1>4. /\ Len(p) = e + 1 /\ p[e + 1] = c /\ \A j \in 1..e : p[j] = o[j]
  <2>1. 1..Len(m.cells) \subseteq 1..c /\ c \in 1..c
    BY <1>2
  <2>2. o \in Seq(1..c)
    BY <1>2, <2>1, SeqMonotonic
  <2> HIDE DEF c
  <2> QED
    BY <2>1, <2>2, AppendProperties
<1> HIDE DEF p, n
<1>5. DOMAIN K = {o[j] : j \in 1..e} /\ \A d \in DOMAIN K : K[d] = m.cells[d].key /\ d \in 1..Len(m.cells)
  BY <1>2 DEF KeysIn
<1>6. KeysIn(n, p) = Grown(K, c, k)
  <2> HIDE DEF K, e, c
  <2>1. {p[j] : j \in 1..(e + 1)} = DOMAIN K \cup {c}
    <3>1. \A j \in 1..(e + 1) : j \in 1..e \/ j = e + 1
      BY <1>2
    <3>2. e + 1 \in 1..(e + 1) /\ \A j \in 1..e : j \in 1..(e + 1)
      BY <1>2
    <3> QED
      BY <1>4, <1>5, <3>1, <3>2
  <2>2. \A d \in DOMAIN K \cup {c} : n.cells[d].key = IF d = c THEN k ELSE K[d]
    BY <1>3, <1>5
  <2>3. KeysIn(n, p) = [d \in DOMAIN K \cup {c} |-> n.cells[d].key]
    BY <1>4, <2>1 DEF KeysIn
  <2> QED
    BY <2>2, <2>3 DEF Grown
<1>7. c \notin DOMAIN K /\ \A d \in DOMAIN K : K[d] # k
  <2>1. c \notin DOMAIN K
    BY <1>2, <1>5
  <2>2. ASSUME NEW d \in DOMAIN K, K[d] = k PROVE FALSE
    <3>1. PICK j \in 1..e : o[j] = d
      BY <1>5, <2>2
    <3>2. list[j][1] = k
      BY <1>1, <1>5, <2>2, <3>1, SMTT(30)
    <3>3. DOMAIN list = 1..e
      BY <1>1
    <3>4. j \in PlaceOf(list, k)
      BY <3>2, <3>3 DEF PlaceOf
    <3> QED
      BY <3>4 DEF IsNowhere
  <2> QED
    BY <2>1, <2>2
<1> HIDE DEF c, K
<1>8. z = IF Direct(k) THEN [n EXCEPT !.tables[k.kind] = With(@, k.name, c)]
          ELSE [n EXCEPT !.buckets = With(@, k.hash, Append(Bucket(m, k), c))]
  BY DEF Put, IsNowhere, n, c
<1> HIDE DEF z
<1>9. /\ z \in Maps /\ Chain(z, p) /\ Index(z.tables, z.buckets, KeysIn(z, p))
      /\ z.cells = n.cells /\ z.size = n.size /\ z.changes = n.changes
  <2>1. CASE Direct(k)
    <3> DEFINE t == [m.tables EXCEPT ![k.kind] = With(@, k.name, c)]
    <3>1. Index(t, n.buckets, KeysIn(n, p))
      <4>1. Index(m.tables, m.buckets, K) /\ c \in Nat \ {0} /\ k \in Keys
        BY <1>1, <1>2
      <4>2. Index(t, m.buckets, Grown(K, c, k))
        BY <1>7, <2>1, <4>1, IndexDirect
      <4> HIDE DEF t
      <4> QED
        BY <1>3, <1>6, <4>2
    <3>2. z = [n EXCEPT !.tables = t]
      BY <1>3, <1>8, <2>1 DEF Maps
    <3> HIDE DEF t
    <3>3. IsReindexed(z, n, t, n.buckets)
      BY <3>2 DEF IsReindexed
    <3> QED
      BY <1>3, <3>1, <3>3, Reindexed
  <2>2. CASE ~Direct(k)
    <3> DEFINE b == With(m.buckets, k.hash, Append(ValueAt(m.buckets, k.hash, <<>>), c))
    <3>1. Index(n.tables, b, KeysIn(n, p))
      <4>1. Index(m.tables, m.buckets, K) /\ c \in Nat \ {0} /\ k \in Keys
        BY <1>1, <1>2
      <4> HIDE DEF b
      <4>2. Index(m.tables, With(m.buckets, k.hash, Append(ValueAt(m.buckets, k.hash, <<>>), c)), Grown(K, c, k))
        BY <1>7, <2>2, <4>1, IndexObject
      <4> QED
        BY <1>3, <1>6, <4>2 DEF b
    <3>2. z = [n EXCEPT !.buckets = b]
      BY <1>3, <1>8, <2>2 DEF Maps, Bucket
    <3> HIDE DEF b
    <3>3. IsReindexed(z, n, n.tables, b)
      BY <3>2 DEF IsReindexed
    <3> QED
      BY <1>3, <3>1, <3>3, Reindexed
  <2> QED
    BY <2>1, <2>2
<1>10. new = Append(list, <<k, v>>)
  BY DEF Putting, IsNowhere
<1> HIDE DEF new
<1>11. /\ new \in Seq(Pairs) /\ Len(new) = e + 1 /\ new[e + 1] = <<k, v>>
       /\ \A j \in 1..e : new[j] = list[j]
  <2>1. <<k, v>> \in Pairs
    BY DEF Pairs
  <2> DEFINE x == <<k, v>>
  <2> HIDE DEF x
  <2>2. x \in Pairs /\ new = Append(list, x)
    BY <1>10, <2>1 DEF x
  <2>3. new \in Seq(Pairs) /\ Len(new) = e + 1 /\ new[e + 1] = x /\ \A j \in 1..e : new[j] = list[j]
    BY <1>1, <2>2, AppendProperties
  <2> QED
    BY <2>3 DEF x
<1> HIDE DEF e
<1>12. ASSUME NEW j \in 1..(e + 1) PROVE new[j] = <<z.cells[p[j]].key, z.cells[p[j]].value>>
  <2>1. CASE j = e + 1
    BY <1>3, <1>4, <1>9, <1>11, <2>1
  <2>2. CASE j \in 1..e
    <3>1. o[j] \in 1..Len(m.cells)
      BY <1>2, <2>2
    <3>2. z.cells[p[j]].key = m.cells[o[j]].key /\ z.cells[p[j]].value = m.cells[o[j]].value
      BY <1>3, <1>4, <1>9, <2>2, <3>1
    <3> QED
      BY <1>1, <1>11, <2>2, <3>2
  <2> QED
    BY <1>2, <2>1, <2>2
<1>13. z.size = Len(new)
  BY <1>1, <1>3, <1>9, <1>11
<1>14. Holds(z, p, new)
  BY <1>4, <1>9, <1>11, <1>12, <1>13 DEF Holds
<1>15. z.changes = m.changes + 1 /\ Len(new) # Len(list)
  BY <1>1, <1>2, <1>3, <1>9, <1>11
<1>16. Leads(m, o, list, z, p, new)
  BY <1>14, <1>15 DEF Leads
<1> QED
  BY <1>16 DEF z, p, new, c

(* A key is taken out. *)
LEMMA DeleteIs ==
  ASSUME NEW m, NEW o, NEW list, Holds(m, o, list), NEW k \in Keys, NEW i, IsAt(m, o, list, k, i)
  PROVE  Leads(m, o, list, Delete(m, k), RemoveAt(o, i), Deleting(list, k))
<1> DEFINE c == o[i]
           n == Unlink(m, c)
           p == RemoveAt(o, i)
           z == Delete(m, k)
           new == Deleting(list, k)
           K == KeysIn(m, o)
           e == Len(o)
           at(j) == IF j < i THEN j ELSE j + 1
<1>1. /\ m \in Maps /\ Chain(m, o) /\ Index(m.tables, m.buckets, K)
      /\ list \in Seq(Pairs) /\ Len(list) = e /\ m.size = Len(list)
      /\ \A j \in 1..e : list[j] = <<m.cells[o[j]].key, m.cells[o[j]].value>>
  BY DEF Holds
<1>2. /\ e \in Nat /\ i \in 1..e /\ Find(m, k) = c /\ c # 0
      /\ m.cells[c].key = k /\ PlaceOf(list, k) = {i}
      /\ \A j \in 1..e : o[j] \in 1..Len(m.cells)
      /\ \A j \in 1..e : o[j] = c => j = i
      /\ o \in Seq(1..Len(m.cells))
  <2>1. e \in Nat /\ (\A j \in 1..e : o[j] \in 1..Len(m.cells)) /\ \A j, l \in 1..e : o[j] = o[l] => j = l
    BY <1>1, ChainIs
  <2>2. o \in Seq(1..Len(m.cells))
    BY <1>1 DEF Chain
  <2>3. i \in 1..e /\ Find(m, k) = c /\ c # 0 /\ m.cells[c].key = k /\ PlaceOf(list, k) = {i}
    BY DEF IsAt
  <2> QED
    BY <2>1, <2>2, <2>3
<1>3. /\ n \in Maps /\ n.tables = m.tables /\ n.buckets = m.buckets
      /\ n.size = m.size - 1 /\ n.changes = m.changes + 1
      /\ Chain(n, p)
      /\ Len(n.cells) = Len(m.cells)
      /\ \A d \in 1..Len(m.cells) : n.cells[d].key = m.cells[d].key /\ n.cells[d].value = m.cells[d].value
  <2> HIDE DEF n, p
  <2>1. n = Unlink(m, o[i]) /\ i \in 1..Len(o)
    BY <1>2 DEF n
  <2>2. IsUnlinked(m, n, p)
    BY <1>1, <2>1, UnlinkedIs DEF p
  <2> QED
    BY <2>2, Zenon DEF IsUnlinked
<1>4. Len(p) = e - 1 /\ \A j \in 1..(e - 1) : p[j] = o[at(j)]
  BY <1>2, RemoveAtIs
<1> HIDE DEF p, n
<1>a. \A j \in 1..(e - 1) : at(j) \in 1..e /\ at(j) # i
  BY <1>2, SMTT(30)
<1>b. \A j \in 1..e : j # i => \E l \in 1..(e - 1) : at(l) = j
  <2> TAKE j \in 1..e
  <2> HAVE j # i
  <2>1. CASE j < i
    <3>1. j \in 1..(e - 1) /\ at(j) = j
      BY <1>2, <2>1
    <3> HIDE DEF at
    <3> QED
      BY <3>1
  <2>2. CASE j > i
    <3>1. j - 1 \in 1..(e - 1) /\ at(j - 1) = j
      BY <1>2, <2>2
    <3> HIDE DEF at
    <3> QED
      BY <3>1
  <2> QED
    BY <1>2, <2>1, <2>2
<1> HIDE DEF at
<1>5. /\ DOMAIN K = {o[j] : j \in 1..e} /\ \A d \in DOMAIN K : K[d] = m.cells[d].key /\ d \in 1..Len(m.cells)
      /\ c \in DOMAIN K /\ K[c] = k
  <2>1. DOMAIN K = {o[j] : j \in 1..e} /\ \A d \in DOMAIN K : K[d] = m.cells[d].key
    BY DEF KeysIn
  <2> QED
    BY <1>2, <2>1
<1>6. KeysIn(n, p) = Shrunk(K, c)
  <2> HIDE DEF K, e, c
  <2>1. {p[j] : j \in 1..(e - 1)} = DOMAIN K \ {c}
    <3>1. ASSUME NEW j \in 1..(e - 1) PROVE p[j] \in DOMAIN K \ {c}
      <4>1. at(j) \in 1..e /\ at(j) # i
        BY <1>a
      <4>2. o[at(j)] # c /\ o[at(j)] \in DOMAIN K
        BY <1>2, <1>5, <4>1
      <4> QED
        BY <1>4, <4>2
    <3>2. ASSUME NEW d \in DOMAIN K \ {c} PROVE \E j \in 1..(e - 1) : p[j] = d
      <4>1. PICK j \in 1..e : o[j] = d
        BY <1>5
      <4>2. j # i
        BY <4>1 DEF c
      <4>3. PICK l \in 1..(e - 1) : at(l) = j
        BY <1>b, <4>2
      <4> QED
        BY <1>4, <4>1, <4>3
    <3> QED
      BY <3>1, <3>2
  <2>2. \A d \in DOMAIN K \ {c} : n.cells[d].key = K[d]
    BY <1>3, <1>5
  <2>3. KeysIn(n, p) = [d \in DOMAIN K \ {c} |-> n.cells[d].key]
    BY <1>4, <2>1 DEF KeysIn
  <2> QED
    BY <2>2, <2>3 DEF Shrunk
<1> DEFINE place == PlaceIn(m, Bucket(m, k), k)
           left == RemoveAt(Bucket(m, k), place)
<1>7. z = IF Direct(k) THEN [n EXCEPT !.tables[k.kind] = But(@, k.name)]
          ELSE [n EXCEPT !.buckets = IF left = <<>> THEN But(@, k.hash) ELSE With(@, k.hash, left)]
  BY <1>2 DEF Delete, n
<1> HIDE DEF z, left
<1>8. ~Direct(k) => place \in 1..Len(Bucket(m, k)) /\ Bucket(m, k)[place] = c
  <2>1. \A d \in DOMAIN K : m.cells[d].key = K[d]
    BY <1>5
  <2> HIDE DEF K, c
  <2> QED
    BY <1>1, <1>2, <2>1, FindIs, ZenonT(60)
<1> HIDE DEF c, K, place
<1>9. /\ z \in Maps /\ Chain(z, p) /\ Index(z.tables, z.buckets, KeysIn(z, p))
      /\ z.cells = n.cells /\ z.size = n.size /\ z.changes = n.changes
  <2>1. CASE Direct(k)
    <3> DEFINE t == [m.tables EXCEPT ![k.kind] = But(@, k.name)]
    <3>1. Index(t, n.buckets, KeysIn(n, p))
      <4>1. Index([m.tables EXCEPT ![K[c].kind] = But(@, K[c].name)], m.buckets, Shrunk(K, c))
        BY <1>1, <1>5, <2>1, IndexLessDirect
      <4> QED
        BY <1>3, <1>5, <1>6, <4>1
    <3>2. z = [n EXCEPT !.tables = t]
      BY <1>3, <1>7, <2>1 DEF Maps
    <3> HIDE DEF t
    <3>3. IsReindexed(z, n, t, n.buckets)
      BY <3>2 DEF IsReindexed
    <3> QED
      BY <1>3, <3>1, <3>3, Reindexed
  <2>2. CASE ~Direct(k)
    <3> DEFINE h == K[c].hash
               s == ValueAt(m.buckets, h, <<>>)
               b == IF left = <<>> THEN But(m.buckets, h) ELSE With(m.buckets, h, left)
    <3>1. h = k.hash /\ Bucket(m, k) = s
      BY <1>5 DEF Bucket
    <3>2. place \in 1..Len(s) /\ s[place] = c /\ left = RemoveAt(s, place)
      BY <1>8, <2>2, <3>1 DEF left
    <3>3. Index(m.tables, b, Shrunk(K, c))
      BY <1>1, <1>5, <2>2, <3>2, IndexLessObject
    <3>4. z = [n EXCEPT !.buckets = b]
      BY <1>3, <1>7, <2>2, <3>1 DEF Maps
    <3> HIDE DEF b, h, s
    <3>5. IsReindexed(z, n, n.tables, b)
      BY <3>4 DEF IsReindexed
    <3>6. Index(n.tables, b, KeysIn(n, p))
      BY <1>3, <1>6, <3>3
    <3> QED
      BY <1>3, <3>5, <3>6, Reindexed
  <2> QED
    BY <2>1, <2>2
<1>10. new = RemoveAt(list, i)
  BY <1>2 DEF Deleting
<1> HIDE DEF new
<1>11. /\ new \in Seq(Pairs) /\ Len(new) = e - 1
       /\ \A j \in 1..(e - 1) : new[j] = list[at(j)]
  <2>1. i \in 1..Len(list)
    BY <1>1, <1>2
  <2> QED
    BY <1>1, <1>10, <2>1, RemoveAtIs DEF at
<1> HIDE DEF e
<1>12. ASSUME NEW j \in 1..(e - 1) PROVE new[j] = <<z.cells[p[j]].key, z.cells[p[j]].value>>
  <2>1. at(j) \in 1..e /\ p[j] = o[at(j)] /\ new[j] = list[at(j)]
    BY <1>4, <1>a, <1>11
  <2>2. o[at(j)] \in 1..Len(m.cells)
    BY <1>2, <2>1
  <2>3. z.cells[p[j]].key = m.cells[o[at(j)]].key /\ z.cells[p[j]].value = m.cells[o[at(j)]].value
    BY <1>3, <1>9, <2>1, <2>2
  <2> QED
    BY <1>1, <2>1, <2>3
<1>13. z.size = Len(new)
  BY <1>1, <1>3, <1>9, <1>11
<1>14. Holds(z, p, new)
  BY <1>4, <1>9, <1>11, <1>12, <1>13 DEF Holds
<1>15. z.changes = m.changes + 1 /\ Len(new) # Len(list)
  BY <1>1, <1>2, <1>3, <1>9, <1>11
<1>16. Leads(m, o, list, z, p, new)
  BY <1>14, <1>15 DEF Leads
<1> QED
  BY <1>16 DEF z, p, new

-----------------------------------------------------------------------------
(* The entries *)

(* The entries of a map are the pairs it holds, in their order.            *)
LEMMA EntriesAre ==
  ASSUME NEW m, NEW o, NEW list, Holds(m, o, list)
  PROVE  Entries(m) = list
<1> DEFINE n == Len(m.cells)
           e == Len(o)
           D == 0..n
           one(c) == <<m.cells[c]>>
           Solves(f) == f = [c \in D |-> IF c = 0 THEN <<>> ELSE one(c) \o f[m.cells[c].next]]
           g == CHOOSE f : Solves(f)
<1>1. /\ m \in Maps /\ Chain(m, o) /\ list \in Seq(Pairs) /\ Len(list) = e
      /\ \A j \in 1..e : list[j] = <<m.cells[o[j]].key, m.cells[o[j]].value>>
  BY DEF Holds
<1>2. /\ n \in Nat /\ e \in Nat /\ \A j \in 1..e : o[j] \in 1..n
      /\ \A j \in 1..e : m.cells[o[j]].next = After(o, j)
      /\ m.first = After(o, 0)
      /\ \A c \in 1..n : m.cells[c].next = 0 \/ m.cells[c].next \in (c + 1)..n
  BY <1>1, ChainIs DEF Chain
<1>3. Entries(m) = [i \in DOMAIN g[m.first] |-> <<g[m.first][i].key, g[m.first][i].value>>]
  BY Zenon DEF Entries
<1>4. ASSUME NEW c \in 1..n PROVE m.cells[c] \in Cells /\ one(c) \in Seq(Cells)
  <2> DEFINE x == m.cells[c]
  <2>1. x \in Cells
    BY <1>1 DEF Maps
  <2> HIDE DEF x
  <2>2. <<x>> \in Seq(Cells)
    BY <2>1
  <2> QED
    BY <2>1, <2>2 DEF x
<1> HIDE DEF one, n
<1>5. \E f : Solves(f)
  <2> DEFINE next == [c \in 1..n |-> IF m.cells[c].next = 0 THEN n + 1 ELSE m.cells[c].next]
             piece == [c \in 1..n |-> one(c)]
  <2>1. piece \in [1..n -> Seq(Cells)] /\ \A c \in 1..n : piece[c] = one(c)
    BY <1>4
  <2>2. \A c \in 1..n : next[c] \in (c + 1)..(n + 1)
    <3> TAKE c \in 1..n
    <3>1. next[c] = IF m.cells[c].next = 0 THEN n + 1 ELSE m.cells[c].next
      OBVIOUS
    <3>2. m.cells[c].next = 0 \/ m.cells[c].next \in (c + 1)..n
      BY <1>2
    <3> QED
      BY <1>2, <3>1, <3>2
  <2>3. \A c \in 1..n : next[c] = IF m.cells[c].next = 0 THEN n + 1 ELSE m.cells[c].next
    OBVIOUS
  <2> HIDE DEF next, piece
  <2>4. PICK f \in [1..(n + 1) -> Seq(Cells)] :
          f[n + 1] = <<>> /\ \A c \in 1..n : f[c] = piece[c] \o f[next[c]]
    <3>1. Pieces(n, next, Cells, piece)
      BY <1>2, <2>1, <2>2 DEF Pieces
    <3>2. FoundPieces(n, next, Cells, piece)
      BY <3>1, PiecesExist
    <3> QED
      BY <3>2 DEF FoundPieces
  <2> DEFINE h == [c \in D |-> IF c = 0 THEN <<>> ELSE f[c]]
  <2>5. ASSUME NEW c \in D
        PROVE  h[c] = IF c = 0 THEN <<>> ELSE one(c) \o h[m.cells[c].next]
    <3>1. CASE c = 0
      BY <3>1
    <3>2. CASE c # 0
      <4>1. c \in 1..n
        BY <1>2, <3>2
      <4>2. m.cells[c].next \in D
        BY <1>2, <4>1
      <4>3. h[m.cells[c].next] = f[next[c]]
        BY <2>3, <2>4, <4>1, <4>2
      <4>4. h[c] = f[c]
        BY <3>2
      <4> HIDE DEF h, D
      <4>5. f[c] = one(c) \o f[next[c]]
        BY <2>1, <2>4, <4>1
      <4> QED
        BY <3>2, <4>3, <4>4, <4>5
    <3> QED
      BY <3>1, <3>2
  <2>6. h = [c \in D |-> h[c]]
    OBVIOUS
  <2> HIDE DEF h, D
  <2>7. Solves(h)
    BY <2>5, <2>6, Zenon
  <2> HIDE DEF Solves
  <2> QED
    BY <2>7
<1>6. Solves(g)
  <2> HIDE DEF Solves
  <2> QED
    BY <1>5
<1> HIDE DEF g
<1> DEFINE X(i) == After(o, i - 1)
           Right(i) == /\ g[X(i)] \in Seq(Cells) /\ Len(g[X(i)]) = e + 1 - i
                       /\ \A j \in 1..(e + 1 - i) : g[X(i)][j] = m.cells[o[i + j - 1]]
           S == {i \in 1..(e + 1) : Right(i)}
<1>7. e + 1 \in S
  <2>1. X(e + 1) = 0 /\ 0 \in D
    BY <1>2 DEF After
  <2>2. g[0] = <<>>
    <3> HIDE DEF D
    <3> QED
      BY <1>6, <2>1, Zenon
  <2>3. g[X(e + 1)] = <<>>
    BY <2>1, <2>2
  <2> HIDE DEF X, e
  <2>4. Right(e + 1)
    BY <1>2, <2>3
  <2> HIDE DEF Right
  <2>5. e + 1 \in 1..(e + 1)
    BY <1>2
  <2> QED
    BY <2>4, <2>5
<1>8. ASSUME NEW i \in 1..e, \A j \in (i + 1)..(e + 1) : j \in S PROVE i \in S
  <2>1. X(i) = o[i] /\ o[i] \in 1..n
    BY <1>2 DEF After
  <2>2. m.cells[o[i]].next = X(i + 1)
    BY <1>2
  <2>3. o[i] \in D /\ o[i] # 0
    BY <1>2, <2>1
  <2>4. g[o[i]] = one(o[i]) \o g[m.cells[o[i]].next]
    <3> HIDE DEF D
    <3> QED
      BY <1>6, <2>3, Zenon
  <2>5. i + 1 \in S
    <3>1. i + 1 \in (i + 1)..(e + 1)
      BY <1>2
    <3> HIDE DEF S
    <3> QED
      BY <1>8, <3>1
  <2>6. Right(i + 1)
    BY <2>5
  <2> DEFINE a == one(o[i])
             b == g[X(i + 1)]
  <2>7. b \in Seq(Cells) /\ Len(b) = e - i /\ \A j \in 1..(e - i) : b[j] = m.cells[o[i + j]]
    <3>1. b \in Seq(Cells) /\ Len(b) = e + 1 - (i + 1) /\ \A j \in 1..(e + 1 - (i + 1)) : b[j] = m.cells[o[i + 1 + j - 1]]
      BY <2>6
    <3> HIDE DEF b, e
    <3>2. e + 1 - (i + 1) = e - i /\ \A j \in 1..(e - i) : i + 1 + j - 1 = i + j
      BY <1>2
    <3> QED
      BY <3>1, <3>2
  <2>8. a \in Seq(Cells) /\ Len(a) = 1 /\ a[1] = m.cells[o[i]]
    BY <1>4, <2>1 DEF one
  <2>9. g[X(i)] = a \o b
    BY <2>1, <2>2, <2>4
  <2> HIDE DEF a, b, X, e
  <2>10. /\ a \o b \in Seq(Cells) /\ Len(a \o b) = Len(a) + Len(b)
         /\ \A j \in 1..(Len(a) + Len(b)) : (a \o b)[j] = IF j <= Len(a) THEN a[j] ELSE b[j - Len(a)]
    BY <2>7, <2>8, ConcatProperties
  <2>11. Len(a) + Len(b) = e + 1 - i
    BY <1>2, <2>7, <2>8
  <2>12. ASSUME NEW j \in 1..(e + 1 - i) PROVE (a \o b)[j] = m.cells[o[i + j - 1]]
    <3>1. CASE j = 1
      <4>1. (a \o b)[j] = a[1] /\ i + j - 1 = i
        BY <2>8, <2>10, <2>11, <3>1
      <4> QED
        BY <2>8, <4>1
    <3>2. CASE j # 1
      <4>1. (a \o b)[j] = b[j - 1] /\ j - 1 \in 1..(e - i) /\ i + (j - 1) = i + j - 1
        BY <1>2, <2>8, <2>10, <2>11, <3>2
      <4> QED
        BY <2>7, <4>1
    <3> QED
      BY <3>1, <3>2
  <2>13. Right(i)
    BY <2>9, <2>10, <2>11, <2>12
  <2>14. i \in 1..(e + 1)
    BY <1>2
  <2> HIDE DEF Right
  <2> QED
    BY <2>13, <2>14
<1> HIDE DEF S, D, e
<1>9. \A i \in 1..(e + 1) : i \in S
  BY <1>2, <1>7, <1>8, FromTheEnd
<1>10. Right(1)
  <2>1. 1 \in 1..(e + 1)
    BY <1>2
  <2> HIDE DEF Right
  <2> QED
    BY <1>9, <2>1 DEF S
<1>11. X(1) = m.first
  BY <1>2
<1> DEFINE cs == g[m.first]
<1>12. cs \in Seq(Cells) /\ Len(cs) = e /\ \A j \in 1..e : cs[j] = m.cells[o[j]]
  <2>1. e + 1 - 1 = e /\ \A j \in 1..e : 1 + j - 1 = j
    BY <1>2
  <2>2. /\ cs \in Seq(Cells) /\ Len(cs) = e + 1 - 1
        /\ \A j \in 1..(e + 1 - 1) : cs[j] = m.cells[o[1 + j - 1]]
    BY <1>10, <1>11
  <2> HIDE DEF cs
  <2> QED
    BY <2>1, <2>2
<1> HIDE DEF cs
<1>13. DOMAIN cs = 1..e
  BY <1>12
<1>14. Entries(m) = [j \in 1..e |-> <<cs[j].key, cs[j].value>>]
  BY <1>3, <1>13, Zenon DEF cs
<1>15. \A j \in 1..e : <<cs[j].key, cs[j].value>> = list[j]
  BY <1>1, <1>12
<1>16. list = [j \in 1..e |-> list[j]]
  BY <1>1, <1>2
<1> QED
  BY <1>14, <1>15, <1>16, Zenon

-----------------------------------------------------------------------------
(* A map and a walk over it *)

(* A walk that shows the keys that are left of a list, the next first. *)
Shows(o, list, next, left) ==
  /\ Len(left) <= Len(list)
  /\ \A i \in 1..Len(left) : left[i] = list[Len(list) - Len(left) + i][1]
  /\ next = After(o, Len(list) - Len(left))

(* A map, a walk over it, and what both are to be. *)
WalkedMaps == [map : Maps, list : Seq(Pairs), walk : [changes : Nat, next : Nat],
               left : Seq(Keys), valid : BOOLEAN]

Walked(s, o) ==
  /\ s \in WalkedMaps
  /\ Holds(s.map, o, s.list)
  /\ s.walk.changes <= s.map.changes
  /\ s.valid <=> s.walk.changes = s.map.changes
  /\ s.valid => Shows(o, s.list, s.walk.next, s.left)

(* A new map holds nothing, and a walk over it shows nothing. *)
LEMMA NewIsWalked == Walked(NewLinked, <<>>)
<1> DEFINE m == NewMap
<1>1. <<>> \in Seq(Nat) /\ <<>> \in Seq(Cells) /\ <<>> \in Seq(Pairs) /\ <<>> \in Seq(Keys)
      /\ <<>> \in Seq(1..0) /\ Len(<<>>) = 0
  OBVIOUS
<1>2. /\ <<>> \in PartialOn(Names, Nat) /\ <<>> \in PartialOn(Hashes, Seq(Nat))
      /\ \A x, d : ValueAt(<<>>, x, d) = d
  <2>1. DOMAIN <<>> = {} /\ \A R : <<>> \in [{} -> R]
    OBVIOUS
  <2> QED
    BY <2>1 DEF PartialOn, ValueAt
<1>3. m.tables \in [Kinds -> PartialOn(Names, Nat)] /\ \A x \in Kinds : m.tables[x] = <<>>
  BY <1>2 DEF NewMap, Tables, Kinds
<1>4. m \in Maps
  <2>1. Tables \in [Kinds -> PartialOn(Names, Nat)]
    BY <1>2 DEF Tables, Kinds
  <2> QED
    BY <1>1, <1>2, <2>1 DEF NewMap, Maps
<1>5. /\ m.buckets = <<>> /\ m.cells = <<>> /\ m.first = 0 /\ m.last = 0 /\ m.size = 0 /\ m.changes = 0
  BY DEF NewMap
<1>6. Chain(m, <<>>)
  BY <1>1, <1>5 DEF Chain, After, Before
<1>7. Index(m.tables, m.buckets, KeysIn(m, <<>>))
  <2> DEFINE K == KeysIn(m, <<>>)
  <2>1. DOMAIN K = {} /\ K \in [{} -> Keys]
    BY <1>1 DEF KeysIn
  <2>2. K \in KeyMaps
    BY <2>1 DEF KeyMaps
  <2> HIDE DEF K
  <2>3. ASSUME NEW k \in Keys, Direct(k) PROVE IsCellOf(K, k, ValueAt(m.tables[k.kind], k.name, 0))
    <3>1. k.kind \in Kinds
      BY <2>3, KindOf
    <3>2. ValueAt(m.tables[k.kind], k.name, 0) = 0
      BY <1>2, <1>3, <3>1
    <3> QED
      BY <2>1, <3>2 DEF IsCellOf
  <2>4. ASSUME NEW h \in Hashes PROVE ListOf(ValueAt(m.buckets, h, <<>>), Objects(K, h))
    <3>1. ValueAt(m.buckets, h, <<>>) = <<>> /\ Objects(K, h) = {}
      BY <1>2, <1>5, <2>1 DEF Objects
    <3>2. ListOf(<<>>, {})
      BY <1>1 DEF ListOf
    <3> QED
      BY <3>1, <3>2
  <2> QED
    BY <1>2, <1>3, <1>5, <2>1, <2>2, <2>3, <2>4 DEF Index, K
<1>8. Holds(m, <<>>, <<>>)
  BY <1>1, <1>4, <1>5, <1>6, <1>7 DEF Holds
<1>9. /\ NewLinked.map = m /\ NewLinked.list = <<>> /\ NewLinked.left = <<>> /\ NewLinked.valid = TRUE
      /\ NewLinked.walk = [changes |-> 0, next |-> 0]
  BY <1>5 DEF NewLinked, Made, Walk
<1>10. NewLinked \in WalkedMaps
  <2>1. [changes |-> 0, next |-> 0] \in [changes : Nat, next : Nat]
    OBVIOUS
  <2>2. NewLinked = [map |-> m, list |-> <<>>, walk |-> [changes |-> 0, next |-> 0], left |-> <<>>, valid |-> TRUE]
    BY <1>5 DEF NewLinked, Made, Walk
  <2> HIDE DEF m
  <2> QED
    BY <1>1, <1>4, <2>1, <2>2 DEF WalkedMaps
<1>11. Shows(<<>>, <<>>, 0, <<>>)
  BY DEF Shows, After
<1> QED
  BY <1>5, <1>8, <1>9, <1>10, <1>11 DEF Walked

(* A call that leads to another map or list ends the walk, or lets it be.  *)
LEMMA CallIsWalked ==
  ASSUME NEW s, NEW o, Walked(s, o), NEW n, NEW p, NEW new, Leads(s.map, o, s.list, n, p, new)
  PROVE  Walked([s EXCEPT !.map = n, !.list = new, !.valid = Since(s, new)], p)
<1> DEFINE v == Since(s, new)
           t == [s EXCEPT !.map = n, !.list = new, !.valid = v]
<1>1. /\ s \in WalkedMaps /\ s.walk \in [changes : Nat, next : Nat]
      /\ s.map.changes \in Nat /\ s.walk.changes \in Nat /\ s.valid \in BOOLEAN /\ s.left \in Seq(Keys)
      /\ s.walk.changes <= s.map.changes
      /\ s.valid <=> s.walk.changes = s.map.changes
      /\ s.valid => Shows(o, s.list, s.walk.next, s.left)
  BY DEF Walked, WalkedMaps, Maps
<1>2. Holds(n, p, new) /\ n \in Maps /\ new \in Seq(Pairs)
  BY DEF Leads, Holds
<1>3. v \in BOOLEAN /\ v = (Len(new) = Len(s.list) /\ s.valid)
  BY <1>1 DEF Since
<1> HIDE DEF v
<1>4. /\ t \in WalkedMaps /\ t.map = n /\ t.list = new /\ t.valid = v /\ t.walk = s.walk /\ t.left = s.left
  BY <1>1, <1>2, <1>3 DEF WalkedMaps
<1> HIDE DEF t
<1>5. ASSUME n.changes = s.map.changes + 1, Len(new) # Len(s.list)
      PROVE  Walked(t, p)
  <2>1. t.valid = FALSE /\ t.walk.changes <= t.map.changes /\ t.walk.changes # t.map.changes
    <3>1. v = FALSE
      BY <1>3, <1>5
    <3>2. t.valid = FALSE /\ t.walk.changes = s.walk.changes /\ t.map.changes = n.changes
      BY <1>4, <3>1
    <3> QED
      BY <1>1, <1>5, <3>2
  <2> QED
    BY <1>2, <1>4, <2>1 DEF Walked
<1>6. ASSUME n.changes = s.map.changes, p = o, Len(new) = Len(s.list),
             \A i \in 1..Len(s.list) : new[i][1] = s.list[i][1]
      PROVE  Walked(t, p)
  <2>1. ASSUME s.valid PROVE Shows(p, new, s.walk.next, s.left)
    <3>1. Len(s.left) \in Nat /\ Len(s.list) \in Nat
      BY <1>1 DEF WalkedMaps, Pairs
    <3>2. /\ Len(s.left) <= Len(s.list)
          /\ \A i \in 1..Len(s.left) : s.left[i] = s.list[Len(s.list) - Len(s.left) + i][1]
          /\ s.walk.next = After(o, Len(s.list) - Len(s.left))
      BY <1>1, <2>1 DEF Shows
    <3>3. \A i \in 1..Len(s.left) : Len(s.list) - Len(s.left) + i \in 1..Len(s.list)
      <4> DEFINE a == Len(s.list)
                 b == Len(s.left)
      <4>1. a \in Nat /\ b \in Nat /\ b <= a
        BY <3>1, <3>2
      <4> HIDE DEF a, b
      <4>2. \A i \in 1..b : a - b + i \in 1..a
        BY <4>1
      <4> QED
        BY <4>2 DEF a, b
    <3>4. \A i \in 1..Len(s.left) : s.left[i] = new[Len(s.list) - Len(s.left) + i][1]
      BY <1>6, <3>2, <3>3
    <3> QED
      BY <1>6, <3>2, <3>4 DEF Shows
  <2>2. /\ t.valid <=> t.walk.changes = t.map.changes
        /\ t.walk.changes <= t.map.changes
        /\ t.valid <=> s.valid
    BY <1>1, <1>3, <1>4, <1>6
  <2> QED
    BY <1>2, <1>4, <2>1, <2>2 DEF Walked
<1>7. Walked(t, p)
  BY <1>5, <1>6 DEF Leads
<1> QED
  BY <1>7 DEF t, v

(* A walk begins. *)
LEMMA WalkBegins ==
  ASSUME NEW s, NEW o, Walked(s, o)
  PROVE  Walked([s EXCEPT !.walk = Walk(s.map), !.left = KeysOf(s.list), !.valid = TRUE], o)
<1> DEFINE w == Walk(s.map)
           l == KeysOf(s.list)
           t == [s EXCEPT !.walk = w, !.left = l, !.valid = TRUE]
<1>1. /\ s \in WalkedMaps /\ s.map \in Maps /\ s.list \in Seq(Pairs) /\ Holds(s.map, o, s.list)
      /\ s.map.changes \in Nat /\ s.map.first \in Nat /\ Len(s.list) \in Nat
  BY DEF Walked, WalkedMaps, Maps
<1>2. w = [changes |-> s.map.changes, next |-> s.map.first]
  BY DEF Walk
<1> HIDE DEF w
<1>3. w \in [changes : Nat, next : Nat] /\ w.changes = s.map.changes /\ w.next = s.map.first
  BY <1>1, <1>2
<1>4. l \in Seq(Keys) /\ Len(l) = Len(s.list) /\ \A i \in 1..Len(l) : l[i] = s.list[i][1]
  <2> DEFINE n == Len(s.list)
  <2>1. DOMAIN s.list = 1..n /\ \A i \in 1..n : s.list[i] \in Pairs
    BY <1>1
  <2>2. l = [i \in 1..n |-> s.list[i][1]]
    BY <2>1, Zenon DEF KeysOf
  <2> HIDE DEF l, n
  <2>3. \A i \in 1..n : s.list[i][1] \in Keys
    BY <2>1 DEF Pairs
  <2>4. l \in [1..n -> Keys]
    BY <2>2, <2>3
  <2>5. l \in Seq(Keys) /\ Len(l) = n
    BY <1>1, <2>4 DEF n
  <2> QED
    BY <2>2, <2>5 DEF n
<1> HIDE DEF l
<1>5. t \in WalkedMaps /\ t.map = s.map /\ t.list = s.list /\ t.walk = w /\ t.left = l /\ t.valid = TRUE
  BY <1>1, <1>3, <1>4 DEF WalkedMaps
<1> HIDE DEF t
<1>6. Shows(o, s.list, w.next, l)
  <2>1. Len(s.list) - Len(l) = 0 /\ \A i \in 1..Len(l) : Len(s.list) - Len(l) + i = i
    BY <1>1, <1>4
  <2>2. w.next = After(o, 0)
    BY <1>1, <1>3 DEF Holds, Chain
  <2>3. Len(l) <= Len(s.list)
    BY <1>1, <1>4
  <2> QED
    BY <1>4, <2>1, <2>2, <2>3 DEF Shows
<1>7. Walked(t, o)
  BY <1>1, <1>3, <1>5, <1>6 DEF Walked
<1> QED
  BY <1>7 DEF t, w, l

(* What a walk shows next. *)
LEMMA WalkShows ==
  ASSUME NEW s, NEW o, Walked(s, o), s.valid
  PROVE  /\ s.left = <<>> => s.walk.next = 0
         /\ s.left # <<>> => /\ s.walk.next # 0 /\ s.map.cells[s.walk.next].key = Head(s.left)
                            /\ s.map.cells[s.walk.next].next = After(o, Len(s.list) - (Len(s.left) - 1))
<1> DEFINE a == Len(s.list)
           b == Len(s.left)
           i == a - b + 1
<1>1. /\ Holds(s.map, o, s.list) /\ Shows(o, s.list, s.walk.next, s.left)
      /\ s.left \in Seq(Keys) /\ a \in Nat /\ b \in Nat /\ Len(o) = a
  BY DEF Walked, WalkedMaps, Holds
<1>2. /\ b <= a /\ (\A j \in 1..b : s.left[j] = s.list[a - b + j][1]) /\ s.walk.next = After(o, a - b)
  BY <1>1 DEF Shows
<1>3. ASSUME s.left = <<>> PROVE s.walk.next = 0
  <2>1. b = 0
    BY <1>3
  <2> QED
    BY <1>1, <1>2, <2>1 DEF After
<1>4. ASSUME s.left # <<>>
      PROVE  /\ s.walk.next # 0 /\ s.map.cells[s.walk.next].key = Head(s.left)
             /\ s.map.cells[s.walk.next].next = After(o, a - (b - 1))
  <2>1. b >= 1 /\ Head(s.left) = s.left[1]
    BY <1>1, <1>4
  <2> HIDE DEF a, b
  <2>2. i \in 1..a /\ 1 \in 1..b /\ a - (b - 1) = i /\ a - b < a /\ a - b + 1 = i
    BY <1>1, <1>2, <2>1
  <2> HIDE DEF i
  <2>3. s.walk.next = o[i]
    BY <1>1, <1>2, <2>2 DEF After
  <2>4. Head(s.left) = s.list[i][1]
    BY <1>2, <2>1, <2>2
  <2>5. s.list[i] = <<s.map.cells[o[i]].key, s.map.cells[o[i]].value>> /\ s.map.cells[o[i]].next = After(o, i)
    BY <1>1, <2>2 DEF Holds, Chain
  <2>6. o[i] # 0
    <3>1. i \in 1..Len(o)
      BY <1>1, <2>2
    <3>2. Holds(s.map, o, s.list)
      BY <1>1
    <3> QED
      BY <3>1, <3>2, CellsAreNumbered
  <2> QED
    BY <2>2, <2>3, <2>4, <2>5, <2>6
<1> QED
  BY <1>3, <1>4

(* A walk goes on. *)
LEMMA WalkGoesOn ==
  ASSUME NEW s, NEW o, Walked(s, o), ~Failed(s.map, s.walk)
  PROVE  Walked([s EXCEPT !.walk = Stepped(s.map, s.walk), !.left = IF @ = <<>> THEN @ ELSE Tail(@)], o)
<1> DEFINE w == Stepped(s.map, s.walk)
           l == IF s.left = <<>> THEN s.left ELSE Tail(s.left)
           t == [s EXCEPT !.walk = w, !.left = l]
<1>1. /\ s \in WalkedMaps /\ s.map \in Maps /\ s.list \in Seq(Pairs) /\ Holds(s.map, o, s.list)
      /\ s.map.changes \in Nat /\ Len(s.list) \in Nat /\ s.left \in Seq(Keys)
      /\ s.walk \in [changes : Nat, next : Nat] /\ s.walk.changes = s.map.changes /\ s.valid
      /\ Shows(o, s.list, s.walk.next, s.left)
  BY DEF Walked, WalkedMaps, Maps, Failed
<1>2. [s EXCEPT !.walk = Stepped(s.map, s.walk), !.left = IF @ = <<>> THEN @ ELSE Tail(@)] = t
  BY <1>1 DEF WalkedMaps
<1>3. CASE s.left = <<>>
  <2>1. w = s.walk
    BY <1>3, WalkShows, <1>1 DEF Stepped
  <2>2. l = s.left
    BY <1>3
  <2> HIDE DEF w, l
  <2>3. t = s
    BY <1>1, <2>1, <2>2 DEF WalkedMaps
  <2> HIDE DEF t
  <2> QED
    BY <1>2, <2>3
<1>4. CASE s.left # <<>>
  <2> DEFINE a == Len(s.list)
             b == Len(s.left)
             x == s.map.cells[s.walk.next].next
  <2>1. s.walk.next # 0 /\ x = After(o, a - (b - 1))
    BY <1>1, <1>4, WalkShows
  <2>2. w = [s.walk EXCEPT !.next = x]
    BY <2>1 DEF Stepped
  <2>3. b \in Nat /\ b >= 1 /\ a \in Nat
    BY <1>1, <1>4
  <2>4. /\ b <= a /\ (\A j \in 1..b : s.left[j] = s.list[a - b + j][1])
    BY <1>1 DEF Shows
  <2>5. x \in Nat
    <3>1. a - (b - 1) \in 0..Len(o) /\ Chain(s.map, o)
      BY <1>1, <2>3, <2>4 DEF Holds
    <3>2. After(o, a - (b - 1)) \in 0..Len(s.map.cells) /\ Len(s.map.cells) \in Nat
      BY <1>1, <3>1, ChainIs
    <3> HIDE DEF x
    <3>3. x \in 0..Len(s.map.cells)
      BY <2>1, <3>2
    <3> QED
      BY <3>2, <3>3
  <2>6. w \in [changes : Nat, next : Nat] /\ w.changes = s.map.changes /\ w.next = x
    <3> HIDE DEF w, x
    <3> QED
      BY <1>1, <2>2, <2>5
  <2>7. l \in Seq(Keys) /\ Len(l) = b - 1 /\ \A j \in 1..(b - 1) : l[j] = s.left[j + 1]
    <3>1. l = Tail(s.left)
      BY <1>4
    <3> QED
      BY <1>1, <1>4, <3>1, HeadTailProperties
  <2> HIDE DEF w, l, x
  <2>8. t \in WalkedMaps /\ t.map = s.map /\ t.list = s.list /\ t.walk = w /\ t.left = l /\ t.valid = s.valid
    BY <1>1, <2>6, <2>7 DEF WalkedMaps
  <2> HIDE DEF t
  <2>9. Shows(o, s.list, w.next, l)
    <3> HIDE DEF a, b
    <3>1. ASSUME NEW j \in 1..(b - 1) PROVE l[j] = s.list[a - (b - 1) + j][1]
      <4>1. j + 1 \in 1..b /\ a - b + (j + 1) = a - (b - 1) + j
        BY <2>3
      <4>2. s.left[j + 1] = s.list[a - b + (j + 1)][1]
        BY <2>4, <4>1
      <4> QED
        BY <2>7, <4>1, <4>2
    <3>2. b - 1 <= a
      BY <2>3, <2>4
    <3> QED
      BY <2>1, <2>6, <2>7, <3>1, <3>2 DEF Shows, a
  <2> QED
    BY <1>1, <1>2, <2>6, <2>8, <2>9 DEF Walked
<1> QED
  BY <1>3, <1>4

(* Every call leads to a map that is as it should be. *)
LEMMA CallsAreWalked ==
  ASSUME NEW s, NEW o, Walked(s, o), NEW t \in LinkedAfter(s)
  PROVE  \E p : Walked(t, p)
<1> DEFINE with(m, list) == [s EXCEPT !.map = m, !.list = list, !.valid = Since(s, list)]
           m0 == s.map
           l0 == s.list
<1>0. Holds(m0, o, l0)
  BY DEF Walked
<1>1. ASSUME NEW k \in Keys, NEW v \in Nat
      PROVE  \E p : Walked(with(Put(m0, k, v), Putting(l0, k, v)), p)
  <2>1. CASE IsNowhere(m0, l0, k)
    <3> DEFINE p == Append(o, Len(m0.cells) + 1)
    <3>1. Leads(m0, o, l0, Put(m0, k, v), p, Putting(l0, k, v))
      BY <1>0, <2>1, PutLast
    <3> HIDE DEF p
    <3>2. Walked(with(Put(m0, k, v), Putting(l0, k, v)), p)
      BY <3>1, CallIsWalked
    <3> QED
      BY <3>2
  <2>2. ASSUME NEW i, IsAt(m0, o, l0, k, i) PROVE \E p : Walked(with(Put(m0, k, v), Putting(l0, k, v)), p)
    <3>1. Leads(m0, o, l0, Put(m0, k, v), o, Putting(l0, k, v))
      BY <1>0, <2>2, PutOver
    <3>2. Walked(with(Put(m0, k, v), Putting(l0, k, v)), o)
      BY <3>1, CallIsWalked
    <3> QED
      BY <3>2
  <2> QED
    BY <1>0, <2>1, <2>2, PlaceIs
<1>2. \E p : Walked(with(m0, l0), p)
  <2>1. Leads(m0, o, l0, m0, o, l0)
    BY <1>0 DEF Leads
  <2>2. Walked(with(m0, l0), o)
    BY <2>1, CallIsWalked
  <2> QED
    BY <2>2
<1>3. ASSUME NEW k \in Keys
      PROVE  \E p : Walked(with(Include(m0, k), IF PlaceOf(l0, k) = {} THEN Putting(l0, k, 1) ELSE l0), p)
  <2>1. CASE IsNowhere(m0, l0, k)
    <3>1. Include(m0, k) = Put(m0, k, 1) /\ PlaceOf(l0, k) = {}
      BY <2>1 DEF Include, Has, IsNowhere
    <3>2. \E p : Walked(with(Put(m0, k, 1), Putting(l0, k, 1)), p)
      BY <1>1
    <3> QED
      BY <3>1, <3>2
  <2>2. ASSUME NEW i, IsAt(m0, o, l0, k, i)
        PROVE  Include(m0, k) = m0 /\ PlaceOf(l0, k) # {}
    BY <2>2 DEF Include, Has, IsAt
  <2> QED
    BY <1>0, <1>2, <2>1, <2>2, PlaceIs
<1>4. ASSUME NEW k \in Keys
      PROVE  \E p : Walked(with(Exclude(m0, k), Deleting(l0, k)), p)
  <2>1. CASE IsNowhere(m0, l0, k)
    <3>1. Exclude(m0, k) = m0 /\ Deleting(l0, k) = l0
      BY <2>1 DEF Exclude, Delete, Deleting, IsNowhere
    <3> QED
      BY <1>2, <3>1
  <2>2. ASSUME NEW i, IsAt(m0, o, l0, k, i)
        PROVE  \E p : Walked(with(Exclude(m0, k), Deleting(l0, k)), p)
    <3>1. Leads(m0, o, l0, Delete(m0, k), RemoveAt(o, i), Deleting(l0, k))
      BY <1>0, <2>2, DeleteIs
    <3>2. Walked(with(Delete(m0, k), Deleting(l0, k)), RemoveAt(o, i))
      BY <3>1, CallIsWalked
    <3> QED
      BY <3>2 DEF Exclude
  <2> QED
    BY <1>0, <2>1, <2>2, PlaceIs
<1>5. Walked([s EXCEPT !.walk = Walk(m0), !.left = KeysOf(l0), !.valid = TRUE], o)
  BY WalkBegins
<1>6. ASSUME ~Failed(m0, s.walk)
      PROVE  Walked([s EXCEPT !.walk = Stepped(m0, s.walk), !.left = IF @ = <<>> THEN @ ELSE Tail(@)], o)
  BY <1>6, WalkGoesOn
<1>7. \/ \E p \in Put12 : t = with(Put(m0, p[1], p[2]), Putting(l0, p[1], p[2]))
      \/ \E k \in Keys : t = with(Include(m0, k), IF PlaceOf(l0, k) = {} THEN Putting(l0, k, 1) ELSE l0)
      \/ \E k \in Keys : t = with(Exclude(m0, k), Deleting(l0, k))
      \/ t = [s EXCEPT !.walk = Walk(m0), !.left = KeysOf(l0), !.valid = TRUE]
      \/ /\ ~Failed(m0, s.walk)
         /\ t = [s EXCEPT !.walk = Stepped(m0, s.walk), !.left = IF @ = <<>> THEN @ ELSE Tail(@)]
  BY Zenon DEF LinkedAfter
<1> HIDE DEF with, m0, l0
<1>8. ASSUME NEW p \in Put12 PROVE p[1] \in Keys /\ p[2] \in Nat
  BY DEF Put12
<1> QED
  BY <1>1, <1>3, <1>4, <1>5, <1>6, <1>7, <1>8

(* Such a map is right. *)
LEMMA WalkedIsRight ==
  ASSUME NEW s, NEW o, Walked(s, o)
  PROVE  LinkedIsRight(s)
<1>1. Holds(s.map, o, s.list)
  BY DEF Walked
<1>2. Entries(s.map) = s.list /\ s.map.size = Len(s.list)
  BY <1>1, EntriesAre DEF Holds
<1>3. ASSUME NEW k \in Keys
      PROVE  /\ Value(s.map, k) = ListValue(s.list, k)
             /\ Has(s.map, k) = (PlaceOf(s.list, k) # {})
  <2>1. CASE IsNowhere(s.map, s.list, k)
    BY <2>1 DEF IsNowhere, Value, ListValue, Has
  <2>2. ASSUME NEW i, IsAt(s.map, o, s.list, k, i)
        PROVE  /\ Value(s.map, k) = ListValue(s.list, k)
               /\ Has(s.map, k) = (PlaceOf(s.list, k) # {})
    <3>1. /\ i \in 1..Len(o) /\ Find(s.map, k) = o[i] /\ o[i] # 0 /\ PlaceOf(s.list, k) = {i}
      BY <2>2 DEF IsAt
    <3>2. (CHOOSE j \in PlaceOf(s.list, k) : TRUE) = i
      BY <3>1
    <3>3. s.list[i] = <<s.map.cells[o[i]].key, s.map.cells[o[i]].value>>
      BY <1>1, <3>1 DEF Holds
    <3>4. Value(s.map, k) = s.map.cells[o[i]].value
      BY <3>1 DEF Value
    <3>5. ListValue(s.list, k) = s.list[i][2]
      BY <3>1, <3>2 DEF ListValue
    <3>6. s.list[i][2] = s.map.cells[o[i]].value
      BY <3>3
    <3> QED
      BY <3>1, <3>4, <3>5, <3>6 DEF Has
  <2> QED
    BY <1>1, <2>1, <2>2, PlaceIs
<1>4. Failed(s.map, s.walk) = ~s.valid
  BY DEF Walked, WalkedMaps, Failed
<1>5. s.valid => Shown(s.map, s.walk) = First(s.left)
  BY WalkShows DEF Shown, First
<1> QED
  BY <1>2, <1>3, <1>4, <1>5 DEF LinkedIsRight

(* A map that keeps the order is one that is as it should be. *)
LinkedKind == Tried("linked") => \E o : Walked(sample.is, o)

(* Whatever is tried, such a map is as it should be. *)
THEOREM LinkedMapsAreKept == LibrarySpec => []LinkedKind
<1>1. LibraryInit => LinkedKind
  BY DEF LibraryInit, LinkedKind, Tried
<1>2. LinkedKind /\ [LibraryNext]_sample => LinkedKind'
  <2> SUFFICES ASSUME LinkedKind, [LibraryNext]_sample PROVE LinkedKind'
    OBVIOUS
  <2>1. CASE Try
    <3>1. \/ \E n \in Samples : sample' = [what |-> "integer", is |-> n]
          \/ \E us \in Strings(Units, TextUnits) : sample' = [what |-> "text", is |-> us]
          \/ \E bs \in Strings(Bytes, TextBytes) : sample' = [what |-> "bytes", is |-> bs]
          \/ sample' = [what |-> "linked", is |-> NewLinked, calls |-> 0]
          \/ sample' = [what |-> "hashed", is |-> NewHashed, calls |-> 0]
      BY <2>1 DEF Try, TryOne, TryMap
    <3> QED
      BY <3>1, NewIsWalked DEF LinkedKind, Tried
  <2>2. CASE CallMap
    <3>1. CASE sample.what = "linked"
      <4>1. PICK t \in LinkedAfter(sample.is) : sample' = [what |-> "linked", is |-> t, calls |-> sample.calls + 1]
        BY <2>2, <3>1 DEF CallMap, Tried, TryMap
      <4>2. PICK o : Walked(sample.is, o)
        BY <2>2, <3>1 DEF CallMap, Tried, LinkedKind
      <4>3. \E p : Walked(t, p)
        BY <4>2, CallsAreWalked
      <4> QED
        BY <4>1, <4>3 DEF LinkedKind
    <3>2. CASE sample.what = "hashed"
      <4>1. \E t : sample' = [what |-> "hashed", is |-> t, calls |-> sample.calls + 1]
        BY <2>2, <3>2 DEF CallMap, Tried, TryMap
      <4> QED
        BY <4>1 DEF LinkedKind, Tried
    <3> QED
      BY <2>2, <3>1, <3>2 DEF CallMap, Tried
  <2>3. CASE UNCHANGED sample
    BY <2>3 DEF LinkedKind, Tried
  <2> QED
    BY <2>1, <2>2, <2>3 DEF LibraryNext
<1> QED
  BY <1>1, <1>2, PTL DEF LibrarySpec

-----------------------------------------------------------------------------
(* The map without an order *)

(* Pairs of different keys. *)
PairList(list) ==
  /\ list \in Seq(Pairs)
  /\ \A i, j \in 1..Len(list) : list[i][1] = list[j][1] => i = j

(* A list has one value of a key, or none. *)
LEMMA ListValueIs ==
  ASSUME NEW list, PairList(list), NEW k
  PROVE  /\ PlaceOf(list, k) = {} => ListValue(list, k) = Nothing
         /\ \A i \in 1..Len(list) : list[i][1] = k =>
              PlaceOf(list, k) = {i} /\ ListValue(list, k) = list[i][2] /\ list[i][2] \in Nat
         /\ PlaceOf(list, k) # {} => \E i \in 1..Len(list) : list[i][1] = k
<1>1. list \in Seq(Pairs) /\ DOMAIN list = 1..Len(list) /\ \A i \in 1..Len(list) : list[i] \in Pairs
  BY DEF PairList
<1>2. PlaceOf(list, k) = {} => ListValue(list, k) = Nothing
  BY DEF ListValue
<1>3. ASSUME NEW i \in 1..Len(list), list[i][1] = k
      PROVE  PlaceOf(list, k) = {i} /\ ListValue(list, k) = list[i][2] /\ list[i][2] \in Nat
  <2>1. PlaceOf(list, k) = {i}
    BY <1>1, <1>3 DEF PlaceOf, PairList
  <2>2. ListValue(list, k) = list[i][2]
    BY <2>1 DEF ListValue
  <2> QED
    BY <1>1, <2>1, <2>2 DEF Pairs
<1>4. PlaceOf(list, k) # {} => \E i \in 1..Len(list) : list[i][1] = k
  BY <1>1 DEF PlaceOf
<1> QED
  BY <1>2, <1>3, <1>4

(* A pair is put into a list. *)
LEMMA PuttingIs ==
  ASSUME NEW list, PairList(list), NEW k \in Keys, NEW v \in Nat
  PROVE  LET new == Putting(list, k, v)
         IN  /\ PairList(new)
             /\ \A l : ListValue(new, l) = IF l = k THEN v ELSE ListValue(list, l)
             /\ \A i \in 1..Len(list) : new[i][1] = list[i][1]
             /\ PlaceOf(list, k) # {} => Len(new) = Len(list)
             /\ PlaceOf(list, k) = {} => Len(new) = Len(list) + 1 /\ new[Len(list) + 1] = <<k, v>>
<1> DEFINE new == Putting(list, k, v)
           n == Len(list)
<1>1. /\ list \in Seq(Pairs) /\ DOMAIN list = 1..n /\ n \in Nat /\ \A i \in 1..n : list[i] \in Pairs
      /\ \A i, j \in 1..n : list[i][1] = list[j][1] => i = j
  BY DEF PairList
<1>2. <<k, v>> \in Pairs /\ <<k, v>>[1] = k /\ <<k, v>>[2] = v
  BY DEF Pairs
<1>3. CASE PlaceOf(list, k) = {}
  <2>1. new = Append(list, <<k, v>>)
    BY <1>3 DEF Putting
  <2>2. /\ new \in Seq(Pairs) /\ Len(new) = n + 1 /\ new[n + 1] = <<k, v>>
        /\ \A i \in 1..n : new[i] = list[i]
    BY <1>1, <1>2, <2>1, AppendProperties
  <2> HIDE DEF new
  <2>3. \A i \in 1..n : list[i][1] # k
    BY <1>1, <1>3 DEF PlaceOf
  <2> HIDE DEF n
  <2>4. PairList(new)
    <3> SUFFICES ASSUME NEW i \in 1..(n + 1), NEW j \in 1..(n + 1), new[i][1] = new[j][1] PROVE i = j
      BY <2>2 DEF PairList
    <3>1. \A m \in 1..(n + 1) : m \in 1..n \/ m = n + 1
      BY <1>1
    <3>2. new[n + 1][1] = k
      BY <1>2, <2>2
    <3> QED
      BY <1>1, <2>2, <2>3, <3>1, <3>2
  <2>5. ASSUME NEW l PROVE ListValue(new, l) = IF l = k THEN v ELSE ListValue(list, l)
    <3>1. CASE l = k
      <4>1. n + 1 \in 1..Len(new) /\ new[n + 1][1] = l /\ new[n + 1][2] = v
        BY <1>1, <1>2, <2>2, <3>1
      <4> QED
        BY <2>4, <3>1, <4>1, ListValueIs
    <3>2. ASSUME l # k, NEW i \in 1..n, list[i][1] = l PROVE ListValue(new, l) = ListValue(list, l)
      <4>1. i \in 1..Len(new) /\ new[i][1] = l /\ new[i][2] = list[i][2]
        BY <1>1, <2>2, <3>2
      <4>2. ListValue(new, l) = list[i][2]
        BY <2>4, <4>1, ListValueIs
      <4>3. ListValue(list, l) = list[i][2]
        BY <3>2, ListValueIs DEF n
      <4> QED
        BY <4>2, <4>3
    <3>3. ASSUME l # k, \A i \in 1..n : list[i][1] # l PROVE ListValue(new, l) = ListValue(list, l)
      <4>1. \A i \in 1..(n + 1) : new[i][1] # l
        <5> TAKE i \in 1..(n + 1)
        <5>1. i \in 1..n \/ i = n + 1
          BY <1>1
        <5> QED
          BY <1>2, <2>2, <3>3, <5>1
      <4>2. PlaceOf(new, l) = {} /\ PlaceOf(list, l) = {}
        BY <2>2, <2>4, <3>3, <4>1, ListValueIs DEF n
      <4> QED
        BY <2>4, <4>2, ListValueIs
    <3> QED
      BY <3>1, <3>2, <3>3
  <2> QED
    BY <1>3, <2>2, <2>4, <2>5 DEF new, n
<1>4. ASSUME NEW i \in 1..n, list[i][1] = k
      PROVE  /\ PairList(new) /\ Len(new) = n /\ PlaceOf(list, k) # {}
             /\ \A l : ListValue(new, l) = IF l = k THEN v ELSE ListValue(list, l)
             /\ \A j \in 1..n : new[j][1] = list[j][1]
  <2>1. PlaceOf(list, k) = {i}
    BY <1>4, ListValueIs, SMTT(30)
  <2>2. new = [j \in 1..n |-> IF j = i THEN <<k, v>> ELSE list[j]]
    BY <1>1, <2>1 DEF Putting
  <2>3. new \in Seq(Pairs) /\ Len(new) = n /\ \A j \in 1..n : new[j] = IF j = i THEN <<k, v>> ELSE list[j]
    BY <1>1, <1>2, <2>2
  <2> HIDE DEF new
  <2>4. \A j \in 1..n : new[j][1] = list[j][1]
    BY <1>2, <1>4, <2>3
  <2>5. PairList(new)
    BY <1>1, <2>3, <2>4 DEF PairList
  <2>6. ASSUME NEW l PROVE ListValue(new, l) = IF l = k THEN v ELSE ListValue(list, l)
    <3>1. CASE l = k
      <4>1. i \in 1..Len(new) /\ new[i][1] = l /\ new[i][2] = v
        BY <1>2, <1>4, <2>3, <3>1
      <4> QED
        BY <2>5, <3>1, <4>1, ListValueIs
    <3>2. ASSUME l # k, NEW j \in 1..n, list[j][1] = l PROVE ListValue(new, l) = ListValue(list, l)
      <4>1. j \in 1..Len(new) /\ new[j][1] = l /\ new[j][2] = list[j][2]
        BY <1>4, <2>3, <3>2
      <4>2. ListValue(new, l) = list[j][2]
        BY <2>5, <4>1, ListValueIs
      <4>3. ListValue(list, l) = list[j][2]
        BY <3>2, ListValueIs
      <4> QED
        BY <4>2, <4>3
    <3>3. ASSUME l # k, \A j \in 1..n : list[j][1] # l PROVE ListValue(new, l) = ListValue(list, l)
      <4>1. PlaceOf(new, l) = {} /\ PlaceOf(list, l) = {}
        BY <2>3, <2>4, <2>5, <3>3, ListValueIs
      <4> QED
        BY <2>5, <4>1, ListValueIs
    <3> QED
      BY <3>1, <3>2, <3>3
  <2> QED
    BY <2>1, <2>3, <2>4, <2>5, <2>6 DEF new
<1>5. PlaceOf(list, k) # {} => \E i \in 1..n : list[i][1] = k
  BY ListValueIs
<1> QED
  BY <1>3, <1>4, <1>5

(* A bucket: objects of one hash, each once and followed by its value. *)
BucketIs(b, x) ==
  /\ b \in Seq(Keys \cup Nat) /\ Len(b) % 2 = 0
  /\ \A i \in 1..Len(b) : i % 2 = 1 => b[i] \in Keys /\ ~Direct(b[i]) /\ b[i].hash = x
  /\ \A i \in 1..Len(b) : i % 2 = 0 => b[i] \in Nat
  /\ \A i, j \in 1..Len(b) : i % 2 = 1 /\ j % 2 = 1 /\ b[i] = b[j] => i = j

(* The value of an object in a bucket. *)
BucketValue(b, k) == IF PairIn(b, k) = 0 THEN Nothing ELSE b[PairIn(b, k) + 1]

(* An object has one place in a bucket, or none, and a value behind it. *)
LEMMA PairInIs ==
  ASSUME NEW b, NEW x, BucketIs(b, x), NEW k
  PROVE  /\ \A i \in 1..Len(b) : i % 2 = 1 /\ b[i] = k =>
              PairIn(b, k) = i /\ i + 1 \in 1..Len(b) /\ BucketValue(b, k) = b[i + 1] /\ b[i + 1] \in Nat
         /\ (\A i \in 1..Len(b) : i % 2 = 1 => b[i] # k) => PairIn(b, k) = 0 /\ BucketValue(b, k) = Nothing
<1> DEFINE at == {i \in DOMAIN b : i % 2 = 1 /\ b[i] = k}
           n == Len(b)
<1>1. /\ DOMAIN b = 1..n /\ n \in Nat /\ n % 2 = 0
      /\ \A i \in 1..n : i % 2 = 0 => b[i] \in Nat
      /\ \A i, j \in 1..n : i % 2 = 1 /\ j % 2 = 1 /\ b[i] = b[j] => i = j
  BY DEF BucketIs
<1>2. PairIn(b, k) = IF at = {} THEN 0 ELSE CHOOSE i \in at : \A j \in at : i <= j
  BY DEF PairIn
<1> HIDE DEF n
<1>3. ASSUME NEW i \in 1..n, i % 2 = 1, b[i] = k
      PROVE  PairIn(b, k) = i /\ i + 1 \in 1..n /\ BucketValue(b, k) = b[i + 1] /\ b[i + 1] \in Nat
  <2>1. at = {i}
    BY <1>1, <1>3
  <2>2. (CHOOSE m \in {i} : \A j \in {i} : m <= j) = i
    BY <1>1
  <2>3. PairIn(b, k) = i
    BY <1>2, <2>1, <2>2
  <2>4. i + 1 \in 1..n /\ (i + 1) % 2 = 0 /\ i # 0
    BY <1>1, <1>3
  <2> QED
    BY <1>1, <2>3, <2>4 DEF BucketValue
<1>4. ASSUME \A i \in 1..n : i % 2 = 1 => b[i] # k
      PROVE  PairIn(b, k) = 0 /\ BucketValue(b, k) = Nothing
  <2>1. at = {}
    BY <1>1, <1>4
  <2>2. PairIn(b, k) = 0
    BY <1>2, <2>1
  <2> QED
    BY <2>2 DEF BucketValue
<1> QED
  BY <1>3, <1>4 DEF n

(* What putting an object does to its bucket. *)
BucketPut(b, k, v) ==
  IF PairIn(b, k) = 0 THEN b \o <<k, v>> ELSE [b EXCEPT ![PairIn(b, k) + 1] = v]

(* The object has the new value, and all others have theirs. *)
LEMMA BucketPutIs ==
  ASSUME NEW b, NEW x, BucketIs(b, x), NEW k \in Keys, ~Direct(k), k.hash = x, NEW v \in Nat
  PROVE  LET c == BucketPut(b, k, v)
         IN  /\ BucketIs(c, x)
             /\ \A l : BucketValue(c, l) = IF l = k THEN v ELSE BucketValue(b, l)
             /\ BucketValue(b, k) # Nothing => Len(c) = Len(b) /\ \A i \in 1..Len(b) : i % 2 = 1 => c[i] = b[i]
<1> DEFINE c == BucketPut(b, k, v)
           n == Len(b)
<1>1. /\ DOMAIN b = 1..n /\ n \in Nat /\ n % 2 = 0 /\ b \in Seq(Keys \cup Nat)
      /\ \A i \in 1..n : i % 2 = 1 => b[i] \in Keys /\ ~Direct(b[i]) /\ b[i].hash = x
      /\ \A i \in 1..n : i % 2 = 0 => b[i] \in Nat
      /\ \A i, j \in 1..n : i % 2 = 1 /\ j % 2 = 1 /\ b[i] = b[j] => i = j
  BY DEF BucketIs
<1> HIDE DEF n
<1>2. ASSUME NEW p \in 1..n, p % 2 = 1, b[p] = k
      PROVE  /\ BucketIs(c, x) /\ Len(c) = n /\ \A i \in 1..n : i % 2 = 1 => c[i] = b[i]
             /\ \A l : BucketValue(c, l) = IF l = k THEN v ELSE BucketValue(b, l)
  <2>1. PairIn(b, k) = p /\ p + 1 \in 1..n /\ p # 0
    BY <1>2, PairInIs DEF n
  <2>2. c = [b EXCEPT ![p + 1] = v]
    BY <2>1 DEF BucketPut
  <2>3. c \in Seq(Keys \cup Nat) /\ Len(c) = n /\ \A i \in 1..n : c[i] = IF i = p + 1 THEN v ELSE b[i]
    BY <1>1, <2>1, <2>2 DEF n
  <2> HIDE DEF c
  <2>4. (p + 1) % 2 = 0
    BY <1>2
  <2>5. \A i \in 1..n : i % 2 = 1 => c[i] = b[i]
    BY <2>3, <2>4
  <2>6. \A i \in 1..n : i % 2 = 0 => c[i] \in Nat
    BY <1>1, <2>3
  <2>7. BucketIs(c, x)
    BY <1>1, <2>3, <2>5, <2>6, ZenonT(60) DEF BucketIs
  <2>8. ASSUME NEW l PROVE BucketValue(c, l) = IF l = k THEN v ELSE BucketValue(b, l)
    <3>1. CASE l = k
      <4>1. p \in 1..Len(c) /\ c[p] = l
        BY <1>2, <2>3, <2>5, <3>1
      <4>2. BucketValue(c, l) = c[p + 1]
        BY <1>2, <2>7, <4>1, PairInIs
      <4> QED
        BY <2>1, <2>3, <3>1, <4>2
    <3>2. ASSUME l # k, NEW i \in 1..n, i % 2 = 1, b[i] = l PROVE BucketValue(c, l) = BucketValue(b, l)
      <4>1. i \in 1..Len(c) /\ c[i] = l /\ i # p
        BY <1>2, <2>3, <2>5, <3>2
      <4>2. BucketValue(c, l) = c[i + 1]
        BY <3>2, <2>7, <4>1, PairInIs
      <4>3. BucketValue(b, l) = b[i + 1] /\ i + 1 \in 1..n
        BY <3>2, PairInIs DEF n
      <4>4. i + 1 # p + 1
        BY <4>1, <1>2
      <4> QED
        BY <2>3, <4>2, <4>3, <4>4
    <3>3. ASSUME l # k, \A i \in 1..n : i % 2 = 1 => b[i] # l PROVE BucketValue(c, l) = BucketValue(b, l)
      <4>1. BucketValue(b, l) = Nothing
        BY <3>3, PairInIs DEF n
      <4>2. \A i \in 1..Len(c) : i % 2 = 1 => c[i] # l
        BY <2>3, <2>5, <3>3
      <4>3. BucketValue(c, l) = Nothing
        BY <2>7, <4>2, PairInIs
      <4> QED
        BY <4>1, <4>3
    <3> QED
      BY <3>1, <3>2, <3>3
  <2> QED
    BY <2>3, <2>5, <2>7, <2>8
<1>3. ASSUME \A i \in 1..n : i % 2 = 1 => b[i] # k
      PROVE  /\ BucketIs(c, x) /\ BucketValue(b, k) = Nothing
             /\ \A l : BucketValue(c, l) = IF l = k THEN v ELSE BucketValue(b, l)
  <2>1. PairIn(b, k) = 0 /\ BucketValue(b, k) = Nothing
    BY <1>3, PairInIs DEF n
  <2> DEFINE kv == <<k, v>>
  <2>2. c = b \o kv
    BY <2>1 DEF BucketPut
  <2>3. kv \in Seq(Keys \cup Nat) /\ Len(kv) = 2 /\ kv[1] = k /\ kv[2] = v
    OBVIOUS
  <2> HIDE DEF c, kv
  <2>4. /\ c \in Seq(Keys \cup Nat) /\ Len(c) = n + 2
        /\ \A i \in 1..(n + 2) : c[i] = IF i <= n THEN b[i] ELSE kv[i - n]
    <3>1. /\ b \o kv \in Seq(Keys \cup Nat) /\ Len(b \o kv) = Len(b) + Len(kv)
          /\ \A i \in 1..(Len(b) + Len(kv)) : (b \o kv)[i] = IF i <= Len(b) THEN b[i] ELSE kv[i - Len(b)]
      <4>1. b \in Seq(Keys \cup Nat) /\ kv \in Seq(Keys \cup Nat)
        BY <1>1, <2>3
      <4> QED
        BY ONLY <4>1, ConcatProperties
    <3> QED
      BY <2>2, <2>3, <3>1 DEF n
  <2>5. (\A i \in 1..n : c[i] = b[i]) /\ c[n + 1] = k /\ c[n + 2] = v
    <3>1. \A i \in 1..n : i \in 1..(n + 2) /\ i <= n
      BY <1>1
    <3>2. ASSUME NEW i \in {1, 2} PROVE c[n + i] = kv[i]
      <4> DEFINE j == n + i
      <4>1. j \in 1..(n + 2) /\ ~(j <= n) /\ j - n = i
        BY <1>1
      <4> HIDE DEF j
      <4>2. c[j] = kv[j - n]
        BY <2>4, <4>1
      <4> QED
        BY <4>1, <4>2 DEF j
    <3> QED
      BY <2>3, <2>4, <3>1, <3>2
  <2>6. (n + 1) % 2 = 1 /\ (n + 2) % 2 = 0 /\ \A i \in 1..(n + 2) : i \in 1..n \/ i = n + 1 \/ i = n + 2
    BY <1>1
  <2>7. \A i \in 1..(n + 2) : i % 2 = 1 => i \in 1..n \/ i = n + 1
    BY <2>6
  <2>8. \A i \in 1..(n + 2) : i % 2 = 0 => i \in 1..n \/ i = n + 2
    BY <2>6
  <2>9. BucketIs(c, x)
    <3>1. \A i \in 1..(n + 2) : i % 2 = 1 => c[i] \in Keys /\ ~Direct(c[i]) /\ c[i].hash = x
      BY <1>1, <2>5, <2>7
    <3>2. \A i \in 1..(n + 2) : i % 2 = 0 => c[i] \in Nat
      BY <1>1, <2>5, <2>8
    <3>3. \A i, j \in 1..(n + 2) : i % 2 = 1 /\ j % 2 = 1 /\ c[i] = c[j] => i = j
      BY <1>1, <1>3, <2>5, <2>7, ZenonT(60)
    <3>4. (n + 2) % 2 = 0
      BY <2>6
    <3> QED
      BY <2>4, <3>1, <3>2, <3>3, <3>4 DEF BucketIs
  <2>10. ASSUME NEW l PROVE BucketValue(c, l) = IF l = k THEN v ELSE BucketValue(b, l)
    <3>1. CASE l = k
      <4>1. n + 1 \in 1..Len(c) /\ c[n + 1] = l
        BY <1>1, <2>4, <2>5, <3>1
      <4>2. BucketValue(c, l) = c[(n + 1) + 1]
        BY <2>6, <2>9, <4>1, PairInIs
      <4>3. (n + 1) + 1 = n + 2
        BY <1>1
      <4> QED
        BY <2>5, <3>1, <4>2, <4>3
    <3>2. ASSUME l # k, NEW i \in 1..n, i % 2 = 1, b[i] = l PROVE BucketValue(c, l) = BucketValue(b, l)
      <4>1. i \in 1..Len(c) /\ c[i] = l
        BY <1>1, <2>4, <2>5, <3>2
      <4>2. BucketValue(c, l) = c[i + 1]
        BY <3>2, <2>9, <4>1, PairInIs
      <4>3. BucketValue(b, l) = b[i + 1] /\ i + 1 \in 1..n
        BY <3>2, PairInIs DEF n
      <4> QED
        BY <2>5, <4>2, <4>3
    <3>3. ASSUME l # k, \A i \in 1..n : i % 2 = 1 => b[i] # l PROVE BucketValue(c, l) = BucketValue(b, l)
      <4>1. BucketValue(b, l) = Nothing
        BY <3>3, PairInIs DEF n
      <4>2. \A i \in 1..Len(c) : i % 2 = 1 => c[i] # l
        BY <2>4, <2>5, <2>7, <3>3
      <4>3. BucketValue(c, l) = Nothing
        BY <2>9, <4>2, PairInIs
      <4> QED
        BY <4>1, <4>3
    <3> QED
      BY <3>1, <3>2, <3>3
  <2> QED
    BY <2>1, <2>9, <2>10
<1> QED
  BY <1>2, <1>3 DEF n

(* A list of the members of a set, each once. *)
Enumerates(s, S) ==
  /\ s \in Seq(S)
  /\ \A i, j \in 1..Len(s) : s[i] = s[j] => i = j
  /\ \A x \in S : \E i \in 1..Len(s) : s[i] = x

(* The members of a finite set can be listed. *)
LEMMA SetToSeqIs ==
  ASSUME NEW S, IsFiniteSet(S)
  PROVE  Enumerates(SetToSeq(S), S)
<1> DEFINE n == Cardinality(S)
           s == SetToSeq(S)
<1>1. n \in Nat /\ ExistsBijection(1..n, S)
  BY FS_CardinalityType
<1>2. PICK f : f \in Bijection(1..n, S)
  BY <1>1 DEF ExistsBijection
<1>3. f \in [1..n -> S] /\ IsInjective(f)
  BY <1>2 DEF Bijection, Injection
<1>4. s \in [1..n -> S] /\ IsInjective(s)
  <2>1. s = CHOOSE g \in [1..n -> S] : IsInjective(g)
    BY DEF SetToSeq
  <2> QED
    BY <1>3, <2>1
<1>5. s \in Injection(1..n, S)
  BY <1>4 DEF Injection
<1>6. Cardinality(1..n) = n
  BY <1>1, FS_Interval
<1>7. s \in Surjection(1..n, S)
  BY <1>5, <1>6, FS_Injection
<1>8. \A x \in S : \E i \in 1..n : s[i] = x
  BY <1>7 DEF Surjection
<1>9. \A i, j \in 1..n : s[i] = s[j] => i = j
  BY <1>4 DEF IsInjective
<1> HIDE DEF n, s
<1>10. s \in Seq(S) /\ Len(s) = n
  BY <1>1, <1>4
<1> QED
  BY <1>8, <1>9, <1>10 DEF Enumerates, s

(* Two lists of the same members are equally long. *)
LEMMA SameLength ==
  ASSUME NEW S, NEW s, NEW t, Enumerates(s, S), Enumerates(t, S)
  PROVE  Len(s) = Len(t)
<1>1. ASSUME NEW u, Enumerates(u, S) PROVE Cardinality(S) = Len(u)
  <2> DEFINE n == Len(u)
  <2>1. n \in Nat /\ u \in [1..n -> S]
    BY <1>1 DEF Enumerates
  <2> HIDE DEF n
  <2>2. \A i, j \in 1..n : u[i] = u[j] => i = j
    BY <1>1 DEF Enumerates, n
  <2>3. \A x \in S : \E i \in 1..n : u[i] = x
    BY <1>1 DEF Enumerates, n
  <2>4. u \in Bijection(1..n, S)
    BY <2>1, <2>2, <2>3 DEF Bijection, Injection, Surjection, IsInjective
  <2>5. ExistsBijection(1..n, S)
    BY <2>4 DEF ExistsBijection
  <2> QED
    BY <2>1, <2>5, FS_CountingElements DEF n
<1> QED
  BY <1>1

(* Lists of different members, one after the other. *)
LEMMA EnumeratesBoth ==
  ASSUME NEW S, NEW T, NEW s, NEW t, Enumerates(s, S), Enumerates(t, T), S \cap T = {}
  PROVE  Enumerates(s \o t, S \cup T)
<1> DEFINE u == s \o t
           m == Len(s)
           n == Len(t)
<1>1. /\ s \in Seq(S) /\ t \in Seq(T) /\ m \in Nat /\ n \in Nat
      /\ s \in Seq(S \cup T) /\ t \in Seq(S \cup T)
      /\ \A i \in 1..m : s[i] \in S
      /\ \A i \in 1..n : t[i] \in T
  BY DEF Enumerates
<1>2. /\ \A i, j \in 1..m : s[i] = s[j] => i = j
      /\ \A i, j \in 1..n : t[i] = t[j] => i = j
      /\ \A x \in S : \E i \in 1..m : s[i] = x
      /\ \A x \in T : \E i \in 1..n : t[i] = x
  BY DEF Enumerates
<1>3. u \in Seq(S \cup T) /\ Len(u) = m + n /\ \A i \in 1..(m + n) : u[i] = IF i <= m THEN s[i] ELSE t[i - m]
  BY <1>1, ConcatProperties
<1> HIDE DEF u, m, n
<1>4. \A i \in 1..m : i \in 1..(m + n) /\ u[i] = s[i]
  BY <1>1, <1>3
<1>5. \A i \in 1..n : m + i \in 1..(m + n) /\ u[m + i] = t[i]
  <2> TAKE i \in 1..n
  <2> DEFINE j == m + i
  <2>1. j \in 1..(m + n) /\ ~(j <= m) /\ j - m = i
    BY <1>1
  <2> HIDE DEF j
  <2>2. u[j] = t[j - m]
    BY <1>3, <2>1
  <2> QED
    BY <2>1, <2>2 DEF j
<1>6. \A i \in 1..(m + n) : i \in 1..m \/ (i - m \in 1..n /\ m + (i - m) = i)
  BY <1>1
<1>7. ASSUME NEW i \in 1..(m + n), NEW j \in 1..(m + n), u[i] = u[j] PROVE i = j
  <2>1. CASE i \in 1..m /\ j \in 1..m
    BY <1>2, <1>4, <1>7, <2>1
  <2>2. CASE ~(i \in 1..m) /\ ~(j \in 1..m)
    <3>1. i - m \in 1..n /\ j - m \in 1..n /\ u[i] = t[i - m] /\ u[j] = t[j - m]
      BY <1>5, <1>6, <2>2
    <3>2. i - m = j - m
      BY <1>2, <1>7, <3>1
    <3> QED
      BY <1>1, <3>2
  <2>3. CASE i \in 1..m /\ ~(j \in 1..m)
    <3>1. j - m \in 1..n /\ u[i] = s[i] /\ u[j] = t[j - m]
      BY <1>4, <1>5, <1>6, <2>3
    <3>2. s[i] \in S /\ t[j - m] \in T
      BY <1>1, <2>3, <3>1
    <3> QED
      BY <1>7, <3>1, <3>2
  <2>4. CASE ~(i \in 1..m) /\ j \in 1..m
    <3>1. i - m \in 1..n /\ u[j] = s[j] /\ u[i] = t[i - m]
      BY <1>4, <1>5, <1>6, <2>4
    <3>2. s[j] \in S /\ t[i - m] \in T
      BY <1>1, <2>4, <3>1
    <3> QED
      BY <1>7, <3>1, <3>2
  <2> QED
    BY <2>1, <2>2, <2>3, <2>4
<1>8. ASSUME NEW x \in S \cup T PROVE \E i \in 1..(m + n) : u[i] = x
  BY <1>2, <1>4, <1>5
<1> QED
  BY <1>3, <1>7, <1>8 DEF Enumerates, u

(* What the map is made of. *)
Plain(kind) == {k \in Keys : k.kind = kind}

NumbersAre(numbers) == numbers \in PartialOn(Plain("number"), Nat) /\ IsFiniteSet(DOMAIN numbers)

BucketsAre(buckets) ==
  /\ buckets \in PartialOn(Hashes, Seq(Keys \cup Nat)) /\ IsFiniteSet(DOMAIN buckets)
  /\ \A x \in DOMAIN buckets : BucketIs(buckets[x], x)

HashMaps == [strings : Seq(Pairs), numbers : PartialOn(Keys, Nat),
             buckets : PartialOn(Hashes, Seq(Keys \cup Nat)),
             size : Int, keys : Seq(Keys), list : Nat, lists : Nat]

IsHashed(h) ==
  /\ h \in HashMaps
  /\ PairList(h.strings) /\ \A i \in 1..Len(h.strings) : h.strings[i][1].kind = "string"
  /\ NumbersAre(h.numbers) /\ BucketsAre(h.buckets)

(* The empty bucket, of a hash of which there is none. *)
LEMMA BucketOf ==
  ASSUME NEW h, IsHashed(h), NEW k \in Keys
  PROVE  BucketIs(HashBucket(h, k), k.hash)
<1>1. CASE k.hash \in DOMAIN h.buckets
  BY <1>1 DEF IsHashed, BucketsAre, HashBucket, ValueAt
<1>2. CASE k.hash \notin DOMAIN h.buckets
  <2>1. HashBucket(h, k) = <<>>
    BY <1>2 DEF HashBucket, ValueAt
  <2>2. BucketIs(<<>>, k.hash)
    BY DEF BucketIs
  <2> QED
    BY <2>1, <2>2
<1> QED
  BY <1>1, <1>2

(* The value of a key is in the part that its kind says. *)
LEMMA HashValueIs ==
  ASSUME NEW h, NEW k \in Keys
  PROVE  /\ k.kind = "string" => HashValue(h, k) = ListValue(h.strings, k)
         /\ k.kind = "number" => HashValue(h, k) = ValueAt(h.numbers, k, Nothing)
         /\ ~Direct(k) => HashValue(h, k) = BucketValue(HashBucket(h, k), k)
         /\ k.kind \in {"string", "number"} \/ ~Direct(k)
<1>1. k.kind = "string" => HashValue(h, k) = ListValue(h.strings, k)
  BY DEF HashValue, ListValue, PlaceOf
<1>2. k.kind = "number" => HashValue(h, k) = ValueAt(h.numbers, k, Nothing)
  BY DEF HashValue
<1>3. ~Direct(k) => HashValue(h, k) = BucketValue(HashBucket(h, k), k)
  BY DEF HashValue, BucketValue, Direct
<1> QED
  BY <1>1, <1>2, <1>3, KeysAssumption DEF Direct

(* The places of keys in the buckets, and which keys they are. *)
LEMMA KeyPlacesAre ==
  ASSUME NEW h, IsHashed(h)
  PROVE  /\ IsFiniteSet(KeyPlaces(h))
         /\ \A p \in KeyPlaces(h) : /\ p = <<p[1], p[2]>> /\ p[1] \in DOMAIN h.buckets
                                    /\ p[2] \in 1..Len(h.buckets[p[1]]) /\ p[2] % 2 = 1
         /\ \A x \in DOMAIN h.buckets : \A i \in 1..Len(h.buckets[x]) : i % 2 = 1 => <<x, i>> \in KeyPlaces(h)
<1> DEFINE D == DOMAIN h.buckets
           at(x) == {j \in DOMAIN h.buckets[x] : j % 2 = 1}
           In(x) == {<<x, i>> : i \in at(x)}
<1>1. IsFiniteSet(D) /\ \A x \in D : BucketIs(h.buckets[x], x)
  BY DEF IsHashed, BucketsAre
<1>2. \A x \in D : DOMAIN h.buckets[x] = 1..Len(h.buckets[x]) /\ Len(h.buckets[x]) \in Nat
  BY <1>1 DEF BucketIs
<1>3. KeyPlaces(h) = UNION {In(x) : x \in D}
  BY DEF KeyPlaces
<1>4. ASSUME NEW x \in D PROVE IsFiniteSet(In(x))
  <2>1. IsFiniteSet(1..Len(h.buckets[x]))
    <3>1. 1 \in Int /\ Len(h.buckets[x]) \in Int
      BY <1>2
    <3> QED
      BY <3>1, FS_Interval
  <2>2. at(x) \in SUBSET (1..Len(h.buckets[x]))
    BY <1>2
  <2>3. IsFiniteSet(at(x))
    BY <2>1, <2>2, FS_Subset
  <2> DEFINE f == [i \in at(x) |-> <<x, i>>]
  <2>4. f \in Surjection(at(x), In(x))
    BY DEF Surjection
  <2> HIDE DEF f
  <2> QED
    BY <2>3, <2>4, FS_Surjection
<1>5. IsFiniteSet({In(x) : x \in D})
  <2> DEFINE f == [x \in D |-> In(x)]
             T == {In(x) : x \in D}
  <2>1. f \in Surjection(D, T)
    BY DEF Surjection
  <2> HIDE DEF f, T, D
  <2> QED
    BY <1>1, <2>1, FS_Surjection DEF T
<1>6. IsFiniteSet(KeyPlaces(h))
  <2> DEFINE T == {In(x) : x \in D}
  <2>1. \A t \in T : IsFiniteSet(t)
    BY <1>4
  <2>2. IsFiniteSet(T) /\ KeyPlaces(h) = UNION T
    BY <1>3, <1>5
  <2> HIDE DEF T
  <2> QED
    BY <2>1, <2>2, FS_UNION
<1>7. ASSUME NEW p \in KeyPlaces(h)
      PROVE  /\ p = <<p[1], p[2]>> /\ p[1] \in D
             /\ p[2] \in 1..Len(h.buckets[p[1]]) /\ p[2] % 2 = 1
  <2>1. PICK x \in D : p \in In(x)
    BY <1>3
  <2>2. PICK i \in at(x) : p = <<x, i>>
    BY <2>1
  <2>3. p[1] = x /\ p[2] = i
    BY <2>2
  <2> QED
    BY <1>2, <2>2, <2>3
<1>8. ASSUME NEW x \in D, NEW i \in 1..Len(h.buckets[x]), i % 2 = 1 PROVE <<x, i>> \in KeyPlaces(h)
  <2>1. i \in at(x)
    BY <1>2, <1>8
  <2>2. <<x, i>> \in In(x)
    BY <2>1
  <2> QED
    BY <1>3, <2>2
<1> QED
  BY <1>6, <1>7, <1>8

(* The keys of a list are those it has a value of. *)
LEMMA KeysListed ==
  ASSUME NEW list, PairList(list)
  PROVE  Enumerates(KeysOf(list), {k \in Keys : ListValue(list, k) # Nothing})
<1> DEFINE S == {k \in Keys : ListValue(list, k) # Nothing}
           s == KeysOf(list)
           n == Len(list)
<1>1. /\ DOMAIN list = 1..n /\ n \in Nat /\ \A i \in 1..n : list[i] \in Pairs
      /\ \A i, j \in 1..n : list[i][1] = list[j][1] => i = j
  BY DEF PairList
<1>2. s = [i \in 1..n |-> list[i][1]]
  BY <1>1 DEF KeysOf
<1>3. \A i \in 1..n : list[i][1] \in S
  <2> TAKE i \in 1..n
  <2>1. ListValue(list, list[i][1]) \in Nat
    BY ListValueIs
  <2>2. ListValue(list, list[i][1]) # Nothing
    BY <2>1, KeysAssumption
  <2> QED
    BY <1>1, <2>2 DEF Pairs
<1>4. \A k \in S : \E i \in 1..n : list[i][1] = k
  BY ListValueIs
<1> HIDE DEF S, s, n
<1>5. s \in Seq(S) /\ Len(s) = n /\ \A i \in 1..n : s[i] = list[i][1]
  BY <1>1, <1>2, <1>3
<1>6. Enumerates(s, S)
  BY <1>1, <1>4, <1>5 DEF Enumerates
<1> QED
  BY <1>6 DEF S, s

(* The keys of the objects in the buckets. *)
ObjectsOf(h) ==
  LET places == SetToSeq(KeyPlaces(h))
  IN  [i \in DOMAIN places |-> h.buckets[places[i][1]][places[i][2]]]

(* They are those with a value. *)
LEMMA ObjectsListed ==
  ASSUME NEW h, IsHashed(h)
  PROVE  Enumerates(ObjectsOf(h), {k \in Keys : ~Direct(k) /\ HashValue(h, k) # Nothing})
<1> DEFINE S == {k \in Keys : ~Direct(k) /\ HashValue(h, k) # Nothing}
           s == SetToSeq(KeyPlaces(h))
           o == ObjectsOf(h)
           n == Len(s)
           key(p) == h.buckets[p[1]][p[2]]
<1>1. Enumerates(s, KeyPlaces(h))
  BY KeyPlacesAre, SetToSeqIs
<1>2. /\ s \in Seq(KeyPlaces(h)) /\ DOMAIN s = 1..n /\ n \in Nat
      /\ \A i \in 1..n : s[i] \in KeyPlaces(h)
      /\ \A i, j \in 1..n : s[i] = s[j] => i = j
      /\ \A p \in KeyPlaces(h) : \E i \in 1..n : s[i] = p
  BY <1>1 DEF Enumerates
<1>3. o = [i \in 1..n |-> key(s[i])]
  BY <1>2 DEF ObjectsOf
<1> HIDE DEF s, o, n
<1>4. ASSUME NEW p \in KeyPlaces(h)
      PROVE  key(p) \in S /\ key(p).hash = p[1]
  <2>1. /\ p = <<p[1], p[2]>> /\ p[1] \in DOMAIN h.buckets
        /\ p[2] \in 1..Len(h.buckets[p[1]]) /\ p[2] % 2 = 1
    BY KeyPlacesAre
  <2>2. BucketIs(h.buckets[p[1]], p[1])
    BY <2>1 DEF IsHashed, BucketsAre
  <2>3. key(p) \in Keys /\ ~Direct(key(p)) /\ key(p).hash = p[1]
    BY <2>1, <2>2 DEF BucketIs
  <2>4. HashBucket(h, key(p)) = h.buckets[p[1]]
    BY <2>1, <2>3 DEF HashBucket, ValueAt
  <2> DEFINE k == key(p)
             b == h.buckets[p[1]]
             i == p[2]
  <2>5. BucketValue(b, k) \in Nat
    <3>1. i \in 1..Len(b) /\ i % 2 = 1 /\ b[i] = k /\ BucketIs(b, p[1])
      BY <2>1, <2>2
    <3> HIDE DEF b, k, i
    <3> QED
      BY <3>1, PairInIs
  <2>6. HashValue(h, key(p)) = BucketValue(HashBucket(h, key(p)), key(p))
    BY <2>3, HashValueIs
  <2>7. HashValue(h, key(p)) # Nothing
    BY <2>4, <2>5, <2>6, KeysAssumption
  <2> QED
    BY <2>3, <2>7
<1>5. ASSUME NEW p \in KeyPlaces(h), NEW q \in KeyPlaces(h), key(p) = key(q) PROVE p = q
  <2>1. p[1] = q[1]
    BY <1>4, <1>5
  <2>2. /\ p = <<p[1], p[2]>> /\ p[1] \in DOMAIN h.buckets /\ q = <<q[1], q[2]>>
        /\ p[2] \in 1..Len(h.buckets[p[1]]) /\ p[2] % 2 = 1
        /\ q[2] \in 1..Len(h.buckets[q[1]]) /\ q[2] % 2 = 1
    BY KeyPlacesAre
  <2>3. BucketIs(h.buckets[p[1]], p[1])
    BY <2>2 DEF IsHashed, BucketsAre
  <2>4. p[2] = q[2]
    BY <1>5, <2>1, <2>2, <2>3 DEF BucketIs
  <2> QED
    BY <2>1, <2>2, <2>4
<1>6. ASSUME NEW k \in S PROVE \E p \in KeyPlaces(h) : key(p) = k
  <2>1. HashValue(h, k) = BucketValue(HashBucket(h, k), k) /\ BucketIs(HashBucket(h, k), k.hash)
    BY HashValueIs, BucketOf
  <2> DEFINE b == HashBucket(h, k)
  <2> HIDE DEF b
  <2>2. PICK i \in 1..Len(b) : i % 2 = 1 /\ b[i] = k
    BY <2>1, PairInIs DEF b
  <2>3. k.hash \in DOMAIN h.buckets
    <3>1. CASE k.hash \notin DOMAIN h.buckets
      <4>1. b = <<>>
        BY <3>1 DEF b, HashBucket, ValueAt
      <4> QED
        BY <2>2, <4>1
    <3> QED
      BY <3>1
  <2>4. b = h.buckets[k.hash]
    BY <2>3 DEF b, HashBucket, ValueAt
  <2>5. <<k.hash, i>> \in KeyPlaces(h)
    BY <2>2, <2>3, <2>4, KeyPlacesAre
  <2>6. key(<<k.hash, i>>) = k
    BY <2>2, <2>4
  <2> QED
    BY <2>5, <2>6
<1> HIDE DEF S, key
<1>7. o \in Seq(S) /\ Len(o) = n /\ \A i \in 1..n : o[i] = key(s[i])
  BY <1>2, <1>3, <1>4
<1>8. \A i, j \in 1..n : o[i] = o[j] => i = j
  BY <1>2, <1>5, <1>7
<1>9. \A k \in S : \E i \in 1..n : o[i] = k
  BY <1>2, <1>6, <1>7
<1>10. Enumerates(o, S)
  BY <1>7, <1>8, <1>9 DEF Enumerates
<1> QED
  BY <1>10 DEF o, S

(* The list of the keys that is made has those with a value, each once. *)
LEMMA MakeKeysIs ==
  ASSUME NEW h, IsHashed(h)
  PROVE  Enumerates(MakeKeys(h), {k \in Keys : HashValue(h, k) # Nothing})
<1> DEFINE A == {k \in Keys : ListValue(h.strings, k) # Nothing}
           B == DOMAIN h.numbers
           C == {k \in Keys : ~Direct(k) /\ HashValue(h, k) # Nothing}
           S == {k \in Keys : HashValue(h, k) # Nothing}
           a == KeysOf(h.strings)
           b == SetToSeq(B)
           c == ObjectsOf(h)
<1>1. MakeKeys(h) = (a \o b) \o c
  BY DEF MakeKeys, KeysOf, ObjectsOf
<1>2. Enumerates(a, A)
  BY KeysListed DEF IsHashed
<1>3. Enumerates(b, B)
  BY SetToSeqIs DEF IsHashed, NumbersAre
<1>4. Enumerates(c, C)
  BY ObjectsListed
<1>5. \A k \in A : k.kind = "string"
  <2> TAKE k \in A
  <2>1. PairList(h.strings) /\ \A i \in 1..Len(h.strings) : h.strings[i][1].kind = "string"
    BY DEF IsHashed
  <2>2. PICK i \in 1..Len(h.strings) : h.strings[i][1] = k
    BY <2>1, ListValueIs
  <2> QED
    BY <2>1, <2>2
<1>6. /\ \A k \in B : k \in Keys /\ k.kind = "number" /\ h.numbers[k] \in Nat
  <2>1. PICK d \in SUBSET Plain("number") : h.numbers \in [d -> Nat]
    BY DEF IsHashed, NumbersAre, PartialOn
  <2> QED
    BY <2>1 DEF Plain
<1>7. S = (A \cup B) \cup C
  <2>1. ASSUME NEW k \in S PROVE k \in (A \cup B) \cup C
    <3>1. k \in Keys /\ HashValue(h, k) # Nothing
      OBVIOUS
    <3>2. CASE k.kind = "string"
      BY <3>1, <3>2, HashValueIs
    <3>3. CASE k.kind = "number"
      BY <3>1, <3>3, HashValueIs DEF ValueAt
    <3>4. CASE ~Direct(k)
      BY <3>1, <3>4
    <3> QED
      BY <3>1, <3>2, <3>3, <3>4, HashValueIs
  <2>2. A \subseteq S
    BY <1>5, HashValueIs
  <2>3. ASSUME NEW k \in B PROVE k \in S
    <3>1. k \in Keys /\ k.kind = "number" /\ h.numbers[k] # Nothing
      BY <1>6, KeysAssumption
    <3>2. HashValue(h, k) = h.numbers[k]
      BY <3>1, HashValueIs DEF ValueAt
    <3> QED
      BY <3>1, <3>2
  <2> QED
    BY <2>1, <2>2, <2>3
<1>8. A \cap B = {} /\ (A \cup B) \cap C = {}
  <2>1. \A k \in A \cup B : Direct(k)
    BY <1>5, <1>6 DEF Direct
  <2> QED
    BY <1>5, <1>6, <2>1
<1> HIDE DEF A, B, C, S, a, b, c
<1>9. Enumerates(a \o b, A \cup B)
  BY <1>2, <1>3, <1>8, EnumeratesBoth
<1>10. Enumerates((a \o b) \o c, (A \cup B) \cup C)
  BY <1>4, <1>8, <1>9, EnumeratesBoth
<1>11. Enumerates(MakeKeys(h), S)
  BY <1>1, <1>7, <1>10, SMTT(30)
<1> QED
  BY <1>11 DEF S

(* The list is the same of a map with the same keys in the same places. *)
LEMMA SameKeysMade ==
  ASSUME NEW h, IsHashed(h), NEW p, KeysOf(p.strings) = KeysOf(h.strings),
         DOMAIN p.numbers = DOMAIN h.numbers, KeyPlaces(p) = KeyPlaces(h),
         \A q \in KeyPlaces(h) : p.buckets[q[1]][q[2]] = h.buckets[q[1]][q[2]]
  PROVE  MakeKeys(p) = MakeKeys(h)
<1> DEFINE s == SetToSeq(KeyPlaces(h))
<1>1. Enumerates(s, KeyPlaces(h))
  BY KeyPlacesAre, SetToSeqIs
<1>2. SetToSeq(KeyPlaces(p)) = s
  OBVIOUS
<1> HIDE DEF s
<1>3. \A i \in DOMAIN s : s[i] \in KeyPlaces(h)
  BY <1>1 DEF Enumerates
<1>4. [i \in DOMAIN s |-> p.buckets[s[i][1]][s[i][2]]] = [i \in DOMAIN s |-> h.buckets[s[i][1]][s[i][2]]]
  BY <1>3
<1>5. /\ MakeKeys(p) = KeysOf(p.strings) \o SetToSeq(DOMAIN p.numbers)
                        \o [i \in DOMAIN s |-> p.buckets[s[i][1]][s[i][2]]]
      /\ MakeKeys(h) = KeysOf(h.strings) \o SetToSeq(DOMAIN h.numbers)
                        \o [i \in DOMAIN s |-> h.buckets[s[i][1]][s[i][2]]]
  BY <1>2, Zenon DEF MakeKeys, KeysOf, s
<1> QED
  BY <1>4, <1>5

(* What a map p has that is h with another value of k. *)
IsPut(h, p, k, v) ==
  /\ IsHashed(p)
  /\ \A l \in Keys : HashValue(p, l) = IF l = k THEN v ELSE HashValue(h, l)
  /\ p.size = h.size /\ p.keys = h.keys /\ p.list = h.list /\ p.lists = h.lists
  /\ HashValue(h, k) # Nothing => MakeKeys(p) = MakeKeys(h)

(* A string is put. *)
LEMMA StringIsPut ==
  ASSUME NEW h, IsHashed(h), NEW k \in Keys, k.kind = "string", NEW v \in Nat
  PROVE  IsPut(h, [h EXCEPT !.strings = Putting(@, k, v)], k, v)
<1> DEFINE p == [h EXCEPT !.strings = Putting(@, k, v)]
           s == h.strings
           t == Putting(s, k, v)
<1>1. /\ h \in HashMaps /\ PairList(s) /\ \A i \in 1..Len(s) : s[i][1].kind = "string"
      /\ NumbersAre(h.numbers) /\ BucketsAre(h.buckets) /\ Len(s) \in Nat
  BY DEF IsHashed, PairList
<1>2. /\ PairList(t) /\ \A l : ListValue(t, l) = IF l = k THEN v ELSE ListValue(s, l)
      /\ \A i \in 1..Len(s) : t[i][1] = s[i][1]
      /\ PlaceOf(s, k) # {} => Len(t) = Len(s)
      /\ PlaceOf(s, k) = {} => Len(t) = Len(s) + 1 /\ t[Len(s) + 1] = <<k, v>>
  <2> HIDE DEF s, t
  <2> QED
    BY <1>1, PuttingIs DEF t
<1>3. t \in Seq(Pairs)
  BY <1>2 DEF PairList
<1> HIDE DEF t
<1>4. p.strings = t /\ p = [h EXCEPT !.strings = t] /\ p.numbers = h.numbers /\ p.buckets = h.buckets
      /\ p.size = h.size /\ p.keys = h.keys /\ p.list = h.list /\ p.lists = h.lists /\ p \in HashMaps
  BY <1>1, <1>3 DEF HashMaps, t
<1> HIDE DEF p, s
<1>5. \A i \in 1..Len(t) : t[i][1].kind = "string"
  <2>1. CASE PlaceOf(s, k) # {}
    BY <1>1, <1>2, <2>1
  <2>2. CASE PlaceOf(s, k) = {}
    <3>1. t[Len(s) + 1][1] = k
      BY <1>2, <2>2
    <3>2. \A i \in 1..Len(t) : i \in 1..Len(s) \/ i = Len(s) + 1
      BY <1>1, <1>2, <2>2
    <3> QED
      BY <1>1, <1>2, <3>1, <3>2
  <2> QED
    BY <2>1, <2>2
<1>6. IsHashed(p)
  BY <1>1, <1>2, <1>4, <1>5 DEF IsHashed
<1>7. ASSUME NEW l \in Keys PROVE HashValue(p, l) = IF l = k THEN v ELSE HashValue(h, l)
  <2>1. CASE l.kind = "string"
    BY <1>2, <1>4, <2>1, HashValueIs, ZenonT(60) DEF s
  <2>2. CASE l.kind = "number"
    <3>1. HashValue(p, l) = ValueAt(p.numbers, l, Nothing) /\ HashValue(h, l) = ValueAt(h.numbers, l, Nothing)
      BY <2>2, HashValueIs
    <3>2. l # k
      BY <2>2
    <3> QED
      BY <1>4, <3>1, <3>2
  <2>3. CASE ~Direct(l)
    <3>1. HashBucket(p, l) = HashBucket(h, l)
      BY <1>4 DEF HashBucket
    <3>2. l # k
      BY <2>3 DEF Direct
    <3> QED
      BY <2>3, <3>1, <3>2, HashValueIs
  <2> QED
    BY <2>1, <2>2, <2>3, HashValueIs
<1>8. ASSUME HashValue(h, k) # Nothing PROVE MakeKeys(p) = MakeKeys(h)
  <2>1. PlaceOf(s, k) # {}
    BY <1>1, <1>8, HashValueIs, ListValueIs DEF s
  <2>2. DOMAIN t = 1..Len(s) /\ DOMAIN s = 1..Len(s)
    BY <1>1, <1>2, <2>1 DEF PairList
  <2>3. KeysOf(t) = KeysOf(s)
    BY <1>2, <2>2 DEF KeysOf
  <2>4. KeyPlaces(p) = KeyPlaces(h)
    BY <1>4 DEF KeyPlaces
  <2> QED
    BY <1>4, <2>3, <2>4, SameKeysMade DEF s
<1> QED
  BY <1>4, <1>6, <1>7, <1>8 DEF IsPut, p

(* A number is put. *)
LEMMA NumberIsPut ==
  ASSUME NEW h, IsHashed(h), NEW k \in Keys, k.kind = "number", NEW v \in Nat
  PROVE  IsPut(h, [h EXCEPT !.numbers = With(@, k, v)], k, v)
<1> DEFINE p == [h EXCEPT !.numbers = With(@, k, v)]
           f == h.numbers
           t == With(f, k, v)
<1>1. h \in HashMaps /\ f \in PartialOn(Plain("number"), Nat) /\ IsFiniteSet(DOMAIN f) /\ f \in PartialOn(Keys, Nat)
  BY DEF IsHashed, NumbersAre, HashMaps
<1>2. k \in Plain("number")
  BY DEF Plain
<1>3. /\ t \in PartialOn(Plain("number"), Nat) /\ t \in PartialOn(Keys, Nat)
      /\ \A l : ValueAt(t, l, Nothing) = IF l = k THEN v ELSE ValueAt(f, l, Nothing)
  <2> HIDE DEF f
  <2> QED
    BY <1>1, <1>2, WithIs DEF t
<1>4. DOMAIN t = DOMAIN f \cup {k}
  BY DEF With
<1>5. NumbersAre(t)
  <2> HIDE DEF f, t
  <2> QED
    BY <1>1, <1>3, <1>4, FS_AddElement DEF NumbersAre
<1> HIDE DEF t
<1>6. p.numbers = t /\ p.strings = h.strings /\ p.buckets = h.buckets
      /\ p.size = h.size /\ p.keys = h.keys /\ p.list = h.list /\ p.lists = h.lists /\ p \in HashMaps
  BY <1>1, <1>3 DEF HashMaps, t
<1> HIDE DEF p, f
<1>7. IsHashed(p)
  BY <1>5, <1>6 DEF IsHashed
<1>8. ASSUME NEW l \in Keys PROVE HashValue(p, l) = IF l = k THEN v ELSE HashValue(h, l)
  <2>1. CASE l.kind = "string"
    BY <1>6, <2>1, HashValueIs
  <2>2. CASE l.kind = "number"
    <3>1. HashValue(p, l) = ValueAt(t, l, Nothing) /\ HashValue(h, l) = ValueAt(f, l, Nothing)
      BY <1>6, <2>2, HashValueIs DEF f
    <3> QED
      BY <1>3, <3>1, Zenon
  <2>3. CASE ~Direct(l)
    <3>1. HashBucket(p, l) = HashBucket(h, l)
      BY <1>6 DEF HashBucket
    <3>2. l # k
      BY <2>3 DEF Direct
    <3> QED
      BY <2>3, <3>1, <3>2, HashValueIs
  <2> QED
    BY <2>1, <2>2, <2>3, HashValueIs
<1>9. ASSUME HashValue(h, k) # Nothing PROVE MakeKeys(p) = MakeKeys(h)
  <2>1. k \in DOMAIN f
    BY <1>9, HashValueIs DEF f, ValueAt
  <2>2. DOMAIN t = DOMAIN f
    BY <1>4, <2>1
  <2>3. KeyPlaces(p) = KeyPlaces(h)
    BY <1>6 DEF KeyPlaces
  <2> QED
    BY <1>6, <2>2, <2>3, SameKeysMade DEF f
<1> QED
  BY <1>6, <1>7, <1>8, <1>9 DEF IsPut, p

(* An object is put. *)
LEMMA ObjectIsPut ==
  ASSUME NEW h, IsHashed(h), NEW k \in Keys, ~Direct(k), NEW v \in Nat
  PROVE  IsPut(h, [h EXCEPT !.buckets = With(@, k.hash, BucketPut(HashBucket(h, k), k, v))], k, v)
<1> DEFINE b == HashBucket(h, k)
           c == BucketPut(b, k, v)
           x == k.hash
           f == h.buckets
           t == With(f, x, c)
           p == [h EXCEPT !.buckets = With(@, x, c)]
<1>1. /\ h \in HashMaps /\ f \in PartialOn(Hashes, Seq(Keys \cup Nat)) /\ IsFiniteSet(DOMAIN f)
      /\ \A y \in DOMAIN f : BucketIs(f[y], y)
  BY DEF IsHashed, BucketsAre
<1>2. BucketIs(b, x)
  BY BucketOf
<1>3. /\ BucketIs(c, x)
      /\ \A l : BucketValue(c, l) = IF l = k THEN v ELSE BucketValue(b, l)
      /\ BucketValue(b, k) # Nothing => Len(c) = Len(b) /\ \A i \in 1..Len(b) : i % 2 = 1 => c[i] = b[i]
  <2> HIDE DEF b
  <2> QED
    BY <1>2, BucketPutIs DEF c
<1>4. x \in Hashes /\ c \in Seq(Keys \cup Nat)
  BY <1>3 DEF BucketIs, Hashes
<1>5. b = ValueAt(f, x, <<>>)
  BY DEF HashBucket
<1> HIDE DEF b, c, f
<1>6. /\ t \in PartialOn(Hashes, Seq(Keys \cup Nat))
      /\ \A y : ValueAt(t, y, <<>>) = IF y = x THEN c ELSE ValueAt(f, y, <<>>)
  BY <1>1, <1>4, WithIs
<1>7. DOMAIN t = DOMAIN f \cup {x} /\ \A y \in DOMAIN t : t[y] = IF y = x THEN c ELSE f[y]
  BY DEF With
<1>8. BucketsAre(t)
  <2>1. IsFiniteSet(DOMAIN t)
    BY <1>1, <1>7, FS_AddElement
  <2>2. \A y \in DOMAIN t : BucketIs(t[y], y)
    BY <1>1, <1>3, <1>7
  <2> HIDE DEF t
  <2> QED
    BY <1>6, <2>1, <2>2 DEF BucketsAre
<1> HIDE DEF t
<1>9. p.buckets = t /\ p.numbers = h.numbers /\ p.strings = h.strings
      /\ p.size = h.size /\ p.keys = h.keys /\ p.list = h.list /\ p.lists = h.lists /\ p \in HashMaps
  BY <1>1, <1>6 DEF HashMaps, t, f
<1> HIDE DEF p
<1>10. IsHashed(p)
  BY <1>8, <1>9 DEF IsHashed
<1>11. ASSUME NEW l \in Keys PROVE HashValue(p, l) = IF l = k THEN v ELSE HashValue(h, l)
  <2>1. CASE l.kind = "string"
    <3>1. l # k
      BY <2>1 DEF Direct
    <3> QED
      BY <1>9, <2>1, <3>1, HashValueIs
  <2>2. CASE l.kind = "number"
    <3>1. l # k
      BY <2>2 DEF Direct
    <3> QED
      BY <1>9, <2>2, <3>1, HashValueIs
  <2>3. CASE ~Direct(l)
    <3>1. HashValue(p, l) = BucketValue(HashBucket(p, l), l) /\ HashValue(h, l) = BucketValue(HashBucket(h, l), l)
      BY <2>3, HashValueIs
    <3>2. HashBucket(p, l) = ValueAt(t, l.hash, <<>>) /\ HashBucket(h, l) = ValueAt(f, l.hash, <<>>)
      BY <1>9 DEF HashBucket, f
    <3>3. CASE l.hash = x
      <4>1. HashBucket(p, l) = c /\ HashBucket(h, l) = b
        BY <1>5, <1>6, <3>2, <3>3
      <4> QED
        BY <1>3, <3>1, <4>1, Zenon
    <3>4. CASE l.hash # x
      <4>1. HashBucket(p, l) = HashBucket(h, l)
        BY <1>6, <3>2, <3>4, Zenon
      <4>2. l # k
        BY <3>4
      <4> QED
        BY <3>1, <4>1, <4>2
    <3> QED
      BY <3>3, <3>4
  <2> QED
    BY <2>1, <2>2, <2>3, HashValueIs
<1>12. ASSUME HashValue(h, k) # Nothing PROVE MakeKeys(p) = MakeKeys(h)
  <2>1. BucketValue(b, k) # Nothing
    BY <1>12, HashValueIs DEF b
  <2>2. Len(c) = Len(b) /\ \A i \in 1..Len(b) : i % 2 = 1 => c[i] = b[i]
    BY <1>3, <2>1
  <2>3. x \in DOMAIN f
    <3>1. CASE x \notin DOMAIN f
      <4>1. b = <<>>
        BY <1>5, <3>1 DEF ValueAt
      <4>2. BucketValue(b, k) = Nothing
        <5>1. \A i \in 1..Len(b) : i % 2 = 1 => b[i] # k
          BY <4>1
        <5> QED
          BY <1>2, <5>1, PairInIs
      <4> QED
        BY <2>1, <4>2
    <3> QED
      BY <3>1
  <2>4. b = f[x] /\ DOMAIN t = DOMAIN f
    BY <1>5, <1>7, <2>3 DEF ValueAt
  <2>5. DOMAIN c = 1..Len(b) /\ DOMAIN b = 1..Len(b)
    BY <1>2, <1>3, <2>2 DEF BucketIs
  <2>6. \A y \in DOMAIN f : {j \in DOMAIN t[y] : j % 2 = 1} = {j \in DOMAIN f[y] : j % 2 = 1}
    BY <1>7, <2>4, <2>5
  <2>7. KeyPlaces(p) = KeyPlaces(h)
    <3>1. /\ KeyPlaces(p) = UNION {{<<y, i>> : i \in {j \in DOMAIN t[y] : j % 2 = 1}} : y \in DOMAIN f}
          /\ KeyPlaces(h) = UNION {{<<y, i>> : i \in {j \in DOMAIN f[y] : j % 2 = 1}} : y \in DOMAIN f}
      BY <1>9, <2>4 DEF KeyPlaces, f
    <3> QED
      BY <2>6, <3>1
  <2>8. ASSUME NEW q \in KeyPlaces(h) PROVE p.buckets[q[1]][q[2]] = h.buckets[q[1]][q[2]]
    <3>1. q[1] \in DOMAIN f /\ q[2] \in 1..Len(f[q[1]]) /\ q[2] % 2 = 1
      BY KeyPlacesAre DEF f
    <3>2. t[q[1]][q[2]] = f[q[1]][q[2]]
      BY <1>7, <2>2, <2>4, <3>1
    <3> QED
      BY <1>9, <3>2 DEF f
  <2>9. KeysOf(p.strings) = KeysOf(h.strings) /\ DOMAIN p.numbers = DOMAIN h.numbers
    BY <1>9
  <2> QED
    BY <2>7, <2>8, <2>9, SameKeysMade
<1>13. IsPut(h, p, k, v)
  BY <1>9, <1>10, <1>11, <1>12 DEF IsPut
<1> QED
  BY <1>13 DEF p, c, b

(* A map that holds the pairs of a list. *)
HashHolds(h, list) ==
  /\ IsHashed(h) /\ PairList(list) /\ h.size = Len(list)
  /\ \A k \in Keys : HashValue(h, k) = ListValue(list, k)
  /\ h.list # 0 => h.keys = MakeKeys(h)

(* A new key ends the list. *)
KeyMore(p) == [p EXCEPT !.size = @ + 1, !.list = 0]

(* What HashPut does is one of the three. *)
LEMMA HashPutDoes ==
  ASSUME NEW h, IsHashed(h), NEW k \in Keys, NEW v \in Nat
  PROVE  \E p : /\ IsPut(h, p, k, v)
                /\ HashPut(h, k, v) = IF HashValue(h, k) # Nothing THEN p ELSE KeyMore(p)
<1> DEFINE known == HashValue(h, k) # Nothing
           s == {j \in DOMAIN h.strings : h.strings[j][1] = k}
           b == HashBucket(h, k)
           i == PairIn(b, k)
           strings == IF known THEN [h.strings EXCEPT ![CHOOSE j \in s : TRUE][2] = v]
                      ELSE Append(h.strings, <<k, v>>)
           bucket == IF known THEN [b EXCEPT ![i + 1] = v] ELSE b \o <<k, v>>
           put == CASE k.kind = "string" -> [h EXCEPT !.strings = strings]
                    [] k.kind = "number" -> [h EXCEPT !.numbers = With(@, k, v)]
                    [] OTHER -> [h EXCEPT !.buckets = With(@, k.hash, bucket)]
<1>1. HashPut(h, k, v) = IF known THEN put ELSE KeyMore(put)
  BY Zenon DEF HashPut, KeyMore
<1>2. CASE k.kind = "string"
  <2>1. strings = Putting(h.strings, k, v)
    <3> DEFINE l == h.strings
    <3>1. PairList(l) /\ l \in Seq(Pairs) /\ s = PlaceOf(l, k) /\ HashValue(h, k) = ListValue(l, k)
      BY <1>2, HashValueIs DEF IsHashed, PairList, PlaceOf
    <3>2. CASE s = {}
      <4>1. ~known
        BY <3>1, <3>2, ListValueIs
      <4> QED
        BY <3>1, <3>2, <4>1 DEF Putting
    <3>3. ASSUME NEW m \in 1..Len(l), l[m][1] = k PROVE strings = Putting(l, k, v)
      <4>1. s = {m} /\ known
        BY <3>1, <3>3, ListValueIs, KeysAssumption
      <4>2. (CHOOSE j \in s : TRUE) = m
        BY <4>1
      <4>3. strings = [l EXCEPT ![m][2] = v]
        BY <4>1, <4>2
      <4>4. Putting(l, k, v) = [j \in DOMAIN l |-> IF j = m THEN <<k, v>> ELSE l[j]]
        BY <3>1, <4>1 DEF Putting
      <4>5. [l[m] EXCEPT ![2] = v] = <<k, v>>
        <5>1. l[m] \in Pairs
          BY <3>1
        <5>2. PICK w : l[m] = <<k, w>>
          BY <3>3, <5>1 DEF Pairs
        <5> QED
          BY <5>2
      <4>6. [l EXCEPT ![m][2] = v] = [j \in DOMAIN l |-> IF j = m THEN <<k, v>> ELSE l[j]]
        BY <3>1, <3>3, <4>5
      <4> QED
        BY <4>3, <4>4, <4>6
    <3> QED
      BY <3>1, <3>2, <3>3, ListValueIs
  <2>2. put = [h EXCEPT !.strings = Putting(@, k, v)]
    <3> HIDE DEF strings
    <3> QED
      BY <1>2, <2>1
  <2> QED
    BY <1>1, <1>2, <2>2, StringIsPut
<1>3. CASE k.kind = "number"
  <2>1. put = [h EXCEPT !.numbers = With(@, k, v)]
    <3> HIDE DEF strings, bucket
    <3> QED
      BY <1>3
  <2> QED
    BY <1>1, <1>3, <2>1, NumberIsPut
<1>4. CASE ~Direct(k)
  <2>1. HashValue(h, k) = BucketValue(b, k) /\ BucketIs(b, k.hash)
    BY <1>4, HashValueIs, BucketOf
  <2>2. known <=> PairIn(b, k) # 0
    <3>1. CASE \A j \in 1..Len(b) : j % 2 = 1 => b[j] # k
      BY <2>1, <3>1, PairInIs
    <3>2. ASSUME NEW j \in 1..Len(b), j % 2 = 1, b[j] = k PROVE known /\ PairIn(b, k) # 0
      <4>1. PairIn(b, k) = j /\ BucketValue(b, k) \in Nat
        BY <2>1, <3>2, PairInIs
      <4> QED
        BY <2>1, <3>2, <4>1, KeysAssumption
    <3> QED
      BY <3>1, <3>2
  <2>3. bucket = BucketPut(b, k, v)
    BY <2>2 DEF BucketPut
  <2>4. put = [h EXCEPT !.buckets = With(@, k.hash, BucketPut(b, k, v))]
    <3>1. k.kind # "string" /\ k.kind # "number"
      BY <1>4 DEF Direct
    <3> HIDE DEF strings, bucket, b
    <3> QED
      BY <2>3, <3>1
  <2> QED
    BY <1>1, <1>4, <2>4, ObjectIsPut
<1> QED
  BY <1>2, <1>3, <1>4, HashValueIs

(* A call of HashPut leaves a map that holds one pair more, or another. *)
LEMMA HashPutIs ==
  ASSUME NEW h, NEW list, HashHolds(h, list), NEW k \in Keys, NEW v \in Nat
  PROVE  LET n   == HashPut(h, k, v)
             new == Putting(list, k, v)
         IN  /\ HashHolds(n, new)
             /\ Len(new) = Len(list) => n.list = h.list
             /\ Len(new) # Len(list) => n.list = 0
<1> DEFINE n == HashPut(h, k, v)
           new == Putting(list, k, v)
           known == HashValue(h, k) # Nothing
<1>1. /\ IsHashed(h) /\ PairList(list) /\ h.size = Len(list) /\ Len(list) \in Nat
      /\ \A l \in Keys : HashValue(h, l) = ListValue(list, l)
      /\ h.list # 0 => h.keys = MakeKeys(h)
  BY DEF HashHolds, PairList
<1>2. PICK p : IsPut(h, p, k, v) /\ n = IF known THEN p ELSE KeyMore(p)
  BY <1>1, HashPutDoes, Zenon
<1>3. /\ PairList(new) /\ \A l : ListValue(new, l) = IF l = k THEN v ELSE ListValue(list, l)
      /\ PlaceOf(list, k) # {} => Len(new) = Len(list)
      /\ PlaceOf(list, k) = {} => Len(new) = Len(list) + 1
  BY <1>1, PuttingIs
<1>4. known <=> PlaceOf(list, k) # {}
  BY <1>1, ListValueIs, KeysAssumption
<1> HIDE DEF n, new
<1>5. /\ IsHashed(p) /\ p.size = h.size /\ p.keys = h.keys /\ p.list = h.list
      /\ \A l \in Keys : HashValue(p, l) = IF l = k THEN v ELSE HashValue(h, l)
      /\ known => MakeKeys(p) = MakeKeys(h)
  BY <1>2 DEF IsPut
<1>6. \A l \in Keys : HashValue(p, l) = ListValue(new, l)
  BY <1>1, <1>3, <1>5
<1>7. CASE known
  <2>1. n = p /\ Len(new) = Len(list)
    BY <1>2, <1>3, <1>4, <1>7
  <2>2. HashHolds(p, new)
    BY <1>1, <1>3, <1>5, <1>6, <1>7, <2>1 DEF HashHolds
  <2> QED
    BY <1>5, <2>1, <2>2 DEF n, new
<1>8. CASE ~known
  <2>1. Len(new) = Len(list) + 1 /\ n = [p EXCEPT !.size = @ + 1, !.list = 0]
    BY <1>2, <1>3, <1>4, <1>8 DEF KeyMore
  <2>2. p \in HashMaps
    BY <1>5 DEF IsHashed
  <2>3. /\ n \in HashMaps /\ n.strings = p.strings /\ n.numbers = p.numbers /\ n.buckets = p.buckets
        /\ n.size = p.size + 1 /\ n.list = 0
    <3>1. p = [strings |-> p.strings, numbers |-> p.numbers, buckets |-> p.buckets, size |-> p.size,
               keys |-> p.keys, list |-> p.list, lists |-> p.lists]
      BY <2>2 DEF HashMaps
    <3>2. n = [strings |-> p.strings, numbers |-> p.numbers, buckets |-> p.buckets, size |-> p.size + 1,
               keys |-> p.keys, list |-> 0, lists |-> p.lists]
      BY <2>1, <3>1, Zenon
    <3>3. p.size + 1 \in Int /\ 0 \in Nat
      BY <2>2 DEF HashMaps
    <3> QED
      BY <2>2, <3>2, <3>3 DEF HashMaps
  <2>4. IsHashed(n)
    BY <1>5, <2>3 DEF IsHashed
  <2>5. \A l \in Keys : HashValue(n, l) = HashValue(p, l)
    BY <2>3 DEF HashValue, HashBucket
  <2>6. HashHolds(n, new)
    BY <1>1, <1>3, <1>5, <1>6, <2>1, <2>3, <2>4, <2>5 DEF HashHolds
  <2> QED
    BY <1>1, <2>1, <2>3, <2>6 DEF n, new
<1> QED
  BY <1>7, <1>8

(* The list that is made, or was kept, has the keys of the map. *)
LEMMA ListedIs ==
  ASSUME NEW h, NEW list, HashHolds(h, list)
  PROVE  /\ HashHolds(Listed(h), list) /\ Listed(h).list \in Nat \ {0}
         /\ Listed(h).keys = MakeKeys(h) /\ MakeKeys(h) \in Seq(Keys)
<1>1. IsHashed(h) /\ h \in HashMaps
  BY DEF HashHolds, IsHashed
<1>2. MakeKeys(h) \in Seq(Keys)
  <2> DEFINE S == {k \in Keys : HashValue(h, k) # Nothing}
  <2>1. MakeKeys(h) \in Seq(S) /\ S \subseteq Keys
    BY <1>1, MakeKeysIs DEF Enumerates
  <2> HIDE DEF S
  <2> QED
    BY <2>1
<1>3. CASE h.list # 0
  BY <1>1, <1>2, <1>3 DEF Listed, HashHolds, HashMaps
<1>4. CASE h.list = 0
  <2> DEFINE n == Listed(h)
  <2>1. n = [h EXCEPT !.keys = MakeKeys(h), !.list = h.lists + 1, !.lists = @ + 1]
    BY <1>4 DEF Listed
  <2> HIDE DEF n
  <2>2. /\ n \in HashMaps /\ n.strings = h.strings /\ n.numbers = h.numbers /\ n.buckets = h.buckets
        /\ n.size = h.size /\ n.list \in Nat \ {0} /\ n.keys = MakeKeys(h)
    <3>1. h = [strings |-> h.strings, numbers |-> h.numbers, buckets |-> h.buckets, size |-> h.size,
               keys |-> h.keys, list |-> h.list, lists |-> h.lists]
      BY <1>1 DEF HashMaps
    <3>2. n = [strings |-> h.strings, numbers |-> h.numbers, buckets |-> h.buckets, size |-> h.size,
               keys |-> MakeKeys(h), list |-> h.lists + 1, lists |-> h.lists + 1]
      BY <2>1, <3>1, Zenon
    <3>3. h.lists + 1 \in Nat \ {0}
      BY <1>1 DEF HashMaps
    <3> QED
      BY <1>1, <1>2, <3>2, <3>3 DEF HashMaps
  <2>3. IsHashed(n)
    BY <1>1, <2>2 DEF IsHashed
  <2>4. \A l \in Keys : HashValue(n, l) = HashValue(h, l)
    BY <2>2 DEF HashValue, HashBucket
  <2>5. MakeKeys(n) = MakeKeys(h)
    BY <2>2, ZenonT(60) DEF MakeKeys, KeyPlaces
  <2>6. HashHolds(n, list)
    BY <2>2, <2>3, <2>4, <2>5 DEF HashHolds
  <2> QED
    BY <1>2, <2>2, <2>6 DEF n
<1> QED
  BY <1>3, <1>4

(* A map and a walk over the list of its keys. *)
HashedMaps == [map : HashMaps, list : Seq(Pairs), walk : [list : Nat, keys : Seq(Keys), at : Nat],
               left : Seq(Keys), valid : BOOLEAN]

(* The keys that a walk has left to show. *)
LeftOf(w, left) ==
  /\ Len(left) = IF w.at <= Len(w.keys) THEN Len(w.keys) - w.at ELSE 0
  /\ \A i \in 1..Len(left) : left[i] = w.keys[w.at + i]

(* They are as they should be. *)
HashWalked(s) ==
  /\ s \in HashedMaps /\ HashHolds(s.map, s.list) /\ s.walk.list # 0
  /\ s.valid <=> s.walk.list = s.map.list
  /\ s.valid => LeftOf(s.walk, s.left)

(* Such a map is right. *)
LEMMA HashWalkedIsRight ==
  ASSUME NEW s, HashWalked(s)
  PROVE  HashedIsRight(s)
<1> DEFINE h == s.map
           list == s.list
           w == s.walk
           left == s.left
           S == {k \in Keys : HashValue(h, k) # Nothing}
<1>1. /\ IsHashed(h) /\ PairList(list) /\ h.size = Len(list)
      /\ \A k \in Keys : HashValue(h, k) = ListValue(list, k)
  BY DEF HashWalked, HashHolds
<1>2. Enumerates(MakeKeys(h), S)
  BY <1>1, MakeKeysIs
<1>3. Enumerates(KeysOf(list), S)
  <2>1. S = {k \in Keys : ListValue(list, k) # Nothing}
    BY <1>1
  <2> HIDE DEF list, S
  <2> QED
    BY <1>1, <2>1, KeysListed
<1>4. Len(MakeKeys(h)) = Len(KeysOf(list))
  <2> HIDE DEF S
  <2> QED
    BY <1>2, <1>3, SameLength
<1>5. Len(KeysOf(list)) = Len(list)
  BY <1>1 DEF KeysOf, PairList
<1>6. ASSUME NEW u, Enumerates(u, S) PROVE ToSet(u) = S
  <2> HIDE DEF S
  <2>1. DOMAIN u = 1..Len(u) /\ \A i \in 1..Len(u) : u[i] \in S
    BY <1>6 DEF Enumerates
  <2>2. \A x \in S : \E i \in 1..Len(u) : u[i] = x
    BY <1>6 DEF Enumerates
  <2> QED
    BY <2>1, <2>2 DEF ToSet
<1>7. HashFailed(h, w) = ~s.valid
  BY DEF HashWalked, HashedMaps, HashFailed
<1>8. ASSUME s.valid PROVE HashShown(w) = First(left)
  <2>1. w.at \in Nat /\ w.keys \in Seq(Keys) /\ left \in Seq(Keys) /\ LeftOf(w, left)
    BY <1>8 DEF HashWalked, HashedMaps
  <2> HIDE DEF w, left
  <2>2. CASE w.at >= Len(w.keys)
    <3>1. Len(left) = 0
      BY <2>1, <2>2 DEF LeftOf
    <3>2. left = <<>>
      BY <2>1, <3>1
    <3> QED
      BY <2>2, <3>2 DEF HashShown, First
  <2>3. CASE ~(w.at >= Len(w.keys))
    <3>1. Len(left) > 0 /\ Len(left) \in Nat
      BY <2>1, <2>3 DEF LeftOf
    <3>2. 1 \in 1..Len(left)
      BY <3>1
    <3>3. left # <<>> /\ Head(left) = left[1] /\ left[1] = w.keys[w.at + 1]
      BY <2>1, <3>1, <3>2 DEF LeftOf
    <3> QED
      BY <2>3, <3>3 DEF HashShown, First
  <2> QED
    BY <2>2, <2>3
<1>9. ToSet(MakeKeys(h)) = ToSet(KeysOf(list))
  BY <1>2, <1>3, <1>6
<1> QED
  BY <1>1, <1>4, <1>5, <1>7, <1>8, <1>9 DEF HashedIsRight

(* A new map. *)
LEMMA NewIsHashed == HashWalked(NewHashed)
<1> DEFINE h == NewHashMap
<1>1. <<>> \in Seq(Pairs) /\ <<>> \in Seq(Keys) /\ Len(<<>>) = 0 /\ DOMAIN <<>> = {}
  OBVIOUS
<1>2. \A D, R : <<>> \in PartialOn(D, R)
  <2> TAKE D, R
  <2>1. <<>> \in [{} -> R] /\ {} \in SUBSET D
    OBVIOUS
  <2> QED
    BY <2>1 DEF PartialOn
<1>3. PairList(<<>>) /\ NumbersAre(<<>>) /\ BucketsAre(<<>>)
  BY <1>1, <1>2, FS_EmptySet DEF PairList, NumbersAre, BucketsAre
<1>4. h \in HashMaps
  BY <1>1, <1>2 DEF NewHashMap, HashMaps
<1>5. h.strings = <<>> /\ h.numbers = <<>> /\ h.buckets = <<>> /\ h.size = 0 /\ h.list = 0
  BY DEF NewHashMap
<1> HIDE DEF h
<1>6. IsHashed(h)
  BY <1>1, <1>3, <1>4, <1>5 DEF IsHashed
<1>7. ASSUME NEW k \in Keys PROVE HashValue(h, k) = ListValue(<<>>, k) /\ HashValue(h, k) = Nothing
  <2>1. ListValue(<<>>, k) = Nothing
    BY <1>1 DEF ListValue, PlaceOf
  <2>2. HashBucket(h, k) = <<>>
    BY <1>1, <1>5 DEF HashBucket, ValueAt
  <2>3. BucketValue(<<>>, k) = Nothing
    BY <1>6, <2>2, BucketOf, PairInIs
  <2>4. ValueAt(h.numbers, k, Nothing) = Nothing
    BY <1>1, <1>5 DEF ValueAt
  <2> QED
    BY <1>5, <2>1, <2>2, <2>3, <2>4, HashValueIs
<1>8. HashHolds(h, <<>>)
  BY <1>1, <1>3, <1>5, <1>6, <1>7 DEF HashHolds
<1>9. MakeKeys(h) = <<>>
  <2> DEFINE S == {k \in Keys : HashValue(h, k) # Nothing}
             u == MakeKeys(h)
  <2>1. S = {}
    BY <1>7
  <2>2. Enumerates(u, S)
    BY <1>6, MakeKeysIs
  <2> HIDE DEF S, u
  <2>3. u \in Seq({})
    BY <2>1, <2>2 DEF Enumerates
  <2>4. Len(u) = 0
    BY <2>3
  <2> QED
    BY <2>3, <2>4 DEF u
<1>10. /\ HashHolds(Listed(h), <<>>) /\ Listed(h).list \in Nat \ {0} /\ Listed(h).keys = <<>>
  BY <1>8, <1>9, ListedIs
<1>11. Listed(h) \in HashMaps
  BY <1>10 DEF HashHolds, IsHashed
<1> DEFINE n == Listed(h)
<1>12. NewHashed = [map |-> n, list |-> <<>>, walk |-> [list |-> n.list, keys |-> n.keys, at |-> 0],
                    left |-> <<>>, valid |-> TRUE]
  BY DEF NewHashed, Made, HashWalk, h
<1> HIDE DEF n
<1>13. NewHashed \in HashedMaps
  BY <1>1, <1>10, <1>11, <1>12 DEF HashedMaps, n
<1>14. LeftOf(NewHashed.walk, NewHashed.left)
  BY <1>1, <1>10, <1>12 DEF LeftOf, n
<1> QED
  BY <1>10, <1>12, <1>13, <1>14 DEF HashWalked, n

(* Every call leads to a map that is as it should be. *)
LEMMA CallsAreHashed ==
  ASSUME NEW s, HashWalked(s), NEW t \in HashAfter(s)
  PROVE  HashWalked(t)
<1> DEFINE h == s.map
           listed == Listed(h)
           w == s.walk
           put(p) == [s EXCEPT !.map = HashPut(h, p[1], p[2]), !.list = Putting(s.list, p[1], p[2]),
                               !.valid = Since(s, Putting(s.list, p[1], p[2]))]
           begun == [s EXCEPT !.map = listed, !.walk = HashWalk(listed), !.left = MakeKeys(h), !.valid = TRUE]
           gone == [s EXCEPT !.walk = HashStepped(w), !.left = IF @ = <<>> THEN @ ELSE Tail(@)]
<1>1. /\ s \in HashedMaps /\ HashHolds(h, s.list) /\ w.list # 0
      /\ s.valid <=> w.list = h.list
      /\ s.valid => LeftOf(w, s.left)
      /\ s = [map |-> h, list |-> s.list, walk |-> w, left |-> s.left, valid |-> s.valid]
      /\ w \in [list : Nat, keys : Seq(Keys), at : Nat] /\ s.left \in Seq(Keys) /\ s.valid \in BOOLEAN
  BY DEF HashWalked, HashedMaps
<1>0. s = [map |-> h, list |-> s.list, walk |-> w, left |-> s.left, valid |-> s.valid]
  BY <1>1
<1>2. \/ \E p \in Put12 : t = put(p)
      \/ t = begun
      \/ ~HashFailed(h, w) /\ t = gone
  BY Zenon DEF HashAfter
<1>3. ASSUME NEW p \in Put12 PROVE HashWalked(put(p))
  <2> DEFINE k == p[1]
             v == p[2]
             n == HashPut(h, k, v)
             new == Putting(s.list, k, v)
             valid == Since(s, new)
             u == put(p)
  <2>1. k \in Keys /\ v \in Nat
    BY DEF Put12
  <2> HIDE DEF k, v
  <2>2. /\ HashHolds(n, new)
        /\ Len(new) = Len(s.list) => n.list = h.list
        /\ Len(new) # Len(s.list) => n.list = 0
    BY <1>1, <2>1, HashPutIs
  <2>3. u = [s EXCEPT !.map = n, !.list = new, !.valid = valid]
    BY DEF k, v
  <2>4. valid \in BOOLEAN /\ (valid <=> w.list = n.list) /\ (valid => s.valid)
    <3>1. CASE Len(new) = Len(s.list)
      <4>1. valid = s.valid
        BY <3>1 DEF Since
      <4> QED
        BY <1>1, <2>2, <3>1, <4>1
    <3>2. CASE Len(new) # Len(s.list)
      <4>1. valid = FALSE
        BY <3>2 DEF Since
      <4> QED
        BY <1>1, <2>2, <3>2, <4>1
    <3> QED
      BY <3>1, <3>2
  <2> HIDE DEF n, new, valid, u, h, w
  <2>5. n \in HashMaps /\ new \in Seq(Pairs)
    BY <2>2 DEF HashHolds, IsHashed, PairList
  <2>6. u \in HashedMaps
    BY <1>1, <2>3, <2>4, <2>5 DEF HashedMaps
  <2>7. u.map = n /\ u.list = new /\ u.walk = w /\ u.left = s.left /\ u.valid = valid
    BY <1>1, <2>3 DEF HashedMaps, w
  <2>8. HashWalked(u)
    BY <1>1, <2>2, <2>4, <2>6, <2>7 DEF HashWalked
  <2> QED
    BY <2>8 DEF u
<1>4. HashWalked(begun)
  <2> DEFINE u == begun
             keys == MakeKeys(h)
  <2>1. /\ HashHolds(listed, s.list) /\ listed.list \in Nat \ {0}
        /\ listed.keys = keys /\ keys \in Seq(Keys)
    BY <1>1, ListedIs
  <2>2. u = [map |-> listed, list |-> s.list, walk |-> [list |-> listed.list, keys |-> keys, at |-> 0],
             left |-> keys, valid |-> TRUE]
    <3>1. HashWalk(listed) = [list |-> listed.list, keys |-> keys, at |-> 0]
      BY <2>1 DEF HashWalk
    <3> HIDE DEF h, listed, keys, w
    <3>2. u = [s EXCEPT !.map = listed, !.walk = HashWalk(listed), !.left = keys, !.valid = TRUE]
      BY DEF keys
    <3> HIDE DEF u
    <3> QED
      BY <1>1, <3>1, <3>2, Zenon
  <2> HIDE DEF u, h, listed, keys, w
  <2>3. listed \in HashMaps /\ s.list \in Seq(Pairs)
    BY <2>1 DEF HashHolds, IsHashed, PairList
  <2>4. u \in HashedMaps
    BY <2>1, <2>2, <2>3 DEF HashedMaps
  <2>5. LeftOf(u.walk, u.left)
    <3>1. Len(keys) \in Nat
      BY <2>1
    <3>2. u.walk.at = 0 /\ u.walk.keys = keys /\ u.left = keys
      BY <2>2
    <3> HIDE DEF u
    <3> QED
      BY <3>1, <3>2 DEF LeftOf
  <2>6. HashWalked(u)
    BY <2>1, <2>2, <2>4, <2>5 DEF HashWalked
  <2> QED
    BY <2>6 DEF u
<1>5. ASSUME ~HashFailed(h, w) PROVE HashWalked(gone)
  <2> DEFINE u == gone
             left == s.left
             rest == IF left = <<>> THEN left ELSE Tail(left)
             v == HashStepped(w)
  <2>1. s.valid /\ LeftOf(w, left) /\ left \in Seq(Keys) /\ w.at \in Nat /\ w.keys \in Seq(Keys)
    BY <1>1, <1>5 DEF HashFailed
  <2>2. v = [list |-> w.list, keys |-> w.keys, at |-> w.at + 1]
    <3> HIDE DEF w
    <3> QED
      BY <1>1 DEF HashStepped
  <2>3. u = [s EXCEPT !.walk = v, !.left = rest]
    <3> HIDE DEF v, w
    <3>1. u = [s EXCEPT !.walk = v, !.left = IF @ = <<>> THEN @ ELSE Tail(@)]
      BY DEF v
    <3> HIDE DEF u
    <3> QED
      BY <1>1, <3>1 DEF HashedMaps
  <2> HIDE DEF u, h, v, w, left
  <2>4. rest \in Seq(Keys) /\ LeftOf(v, rest)
    <3>0. v.at = w.at + 1 /\ v.keys = w.keys /\ Len(w.keys) \in Nat
      BY <2>1, <2>2
    <3>1. CASE left = <<>>
      <4>1. Len(left) = 0 /\ rest = left /\ w.at >= Len(w.keys)
        BY <2>1, <3>0, <3>1 DEF LeftOf
      <4> QED
        BY <2>1, <3>0, <4>1 DEF LeftOf
    <3>2. CASE left # <<>>
      <4>1. rest \in Seq(Keys) /\ Len(rest) = Len(left) - 1 /\ Len(left) \in Nat \ {0}
            /\ \A i \in 1..(Len(left) - 1) : rest[i] = left[i + 1]
        BY <2>1, <3>2
      <4> HIDE DEF rest
      <4>2. w.at < Len(w.keys) /\ Len(left) = Len(w.keys) - w.at
        BY <2>1, <3>0, <4>1 DEF LeftOf
      <4>3. Len(rest) = IF v.at <= Len(v.keys) THEN Len(v.keys) - v.at ELSE 0
        BY <2>1, <3>0, <4>1, <4>2
      <4>4. ASSUME NEW i \in 1..Len(rest) PROVE rest[i] = v.keys[v.at + i]
        <5> DEFINE j == i + 1
        <5>1. j \in 1..Len(left) /\ rest[i] = left[j] /\ w.at + j = v.at + i
          <6>1. Len(left) \in Nat /\ i \in 1..(Len(left) - 1)
            BY <4>1
          <6>2. j \in 1..Len(left)
            BY <6>1
          <6>3. rest[i] = left[i + 1]
            BY <4>1, <6>1
          <6>4. w.at + j = v.at + i
            <7>1. w.at \in Int /\ i \in Int
              BY <2>1
            <7> HIDE DEF v, w
            <7> QED
              BY <3>0, <7>1
          <6> QED
            BY <6>2, <6>3, <6>4
        <5> HIDE DEF j
        <5>2. left[j] = w.keys[w.at + j]
          BY <2>1, <5>1 DEF LeftOf
        <5> QED
          BY <3>0, <5>1, <5>2
      <4> QED
        BY <4>1, <4>3, <4>4 DEF LeftOf
    <3> QED
      BY <3>1, <3>2
  <2> HIDE DEF rest
  <2>5. h \in HashMaps /\ s.list \in Seq(Pairs)
    BY <1>1 DEF HashHolds, IsHashed, PairList
  <2>6. v \in [list : Nat, keys : Seq(Keys), at : Nat] /\ v.list = w.list
    BY <1>1, <2>2
  <2>7. u \in HashedMaps
    BY <1>1, <2>3, <2>4, <2>5, <2>6 DEF HashedMaps
  <2>8. u.map = h /\ u.list = s.list /\ u.walk = v /\ u.left = rest /\ u.valid = s.valid
    BY <1>1, <2>3 DEF HashedMaps, h
  <2>9. HashWalked(u)
    BY <1>1, <2>1, <2>4, <2>6, <2>7, <2>8 DEF HashWalked
  <2> QED
    BY <2>9 DEF u
<1> HIDE DEF put, begun, gone
<1> QED
  BY <1>2, <1>3, <1>4, <1>5

(* A map without an order is one that is as it should be. *)
HashedKind == Tried("hashed") => HashWalked(sample.is)

(* Whatever is tried, such a map is as it should be. *)
THEOREM HashedMapsAreKept == LibrarySpec => []HashedKind
<1>1. LibraryInit => HashedKind
  BY DEF LibraryInit, HashedKind, Tried
<1>2. HashedKind /\ [LibraryNext]_sample => HashedKind'
  <2> SUFFICES ASSUME HashedKind, [LibraryNext]_sample PROVE HashedKind'
    OBVIOUS
  <2>1. CASE Try
    <3>1. \/ \E n \in Samples : sample' = [what |-> "integer", is |-> n]
          \/ \E us \in Strings(Units, TextUnits) : sample' = [what |-> "text", is |-> us]
          \/ \E bs \in Strings(Bytes, TextBytes) : sample' = [what |-> "bytes", is |-> bs]
          \/ sample' = [what |-> "linked", is |-> NewLinked, calls |-> 0]
          \/ sample' = [what |-> "hashed", is |-> NewHashed, calls |-> 0]
      BY <2>1 DEF Try, TryOne, TryMap
    <3> QED
      BY <3>1, NewIsHashed DEF HashedKind, Tried
  <2>2. CASE CallMap
    <3>1. CASE sample.what = "hashed"
      <4>1. PICK t \in HashAfter(sample.is) : sample' = [what |-> "hashed", is |-> t, calls |-> sample.calls + 1]
        BY <2>2, <3>1 DEF CallMap, Tried, TryMap
      <4>2. HashWalked(sample.is)
        BY <2>2, <3>1 DEF CallMap, Tried, HashedKind
      <4>3. HashWalked(t)
        BY <4>2, CallsAreHashed
      <4> QED
        BY <4>1, <4>3 DEF HashedKind
    <3>2. CASE sample.what = "linked"
      <4>1. \E t : sample' = [what |-> "linked", is |-> t, calls |-> sample.calls + 1]
        BY <2>2, <3>2 DEF CallMap, Tried, TryMap
      <4> QED
        BY <4>1 DEF HashedKind, Tried
    <3> QED
      BY <2>2, <3>1, <3>2 DEF CallMap, Tried
  <2>3. CASE UNCHANGED sample
    BY <2>3 DEF HashedKind, Tried
  <2> QED
    BY <2>1, <2>2, <2>3 DEF LibraryNext
<1> QED
  BY <1>1, <1>2, PTL DEF LibrarySpec

(* After any calls, also during a walk, either kind of map holds what was  *)
(* put and not deleted, and a walk shows each key once or fails.           *)
THEOREM MapsAlwaysHoldWhatWasPut == LibrarySpec => []MapsHoldWhatWasPut
<1>1. LinkedKind /\ HashedKind => MapsHoldWhatWasPut
  BY WalkedIsRight, HashWalkedIsRight DEF LinkedKind, HashedKind, MapsHoldWhatWasPut
<1> QED
  BY <1>1, LinkedMapsAreKept, HashedMapsAreKept, PTL
=============================================================================
