------------------------------- MODULE BigInts -------------------------------
(***************************************************************************)
(* The integers that the worker uses where a double would not hold them:   *)
(* 64-bit columns and arguments (class S of web/sqflite_sw.js).            *)
(*                                                                         *)
(* A magnitude is a function from 0..n-1 to digits, the lowest first, and  *)
(* an integer is a sign and a magnitude without leading zeros.  A digit    *)
(* has Width bits (16 in the code), and texts are written Group figures of *)
(* base Radix at a time (4 of base 10).                                    *)
(***************************************************************************)
EXTENDS Integers, Sequences

CONSTANTS
  Width,          \* bits of a digit
  Radix, Group,   \* base of the figures, and how many make a digit
  Samples         \* integers that the definitions are checked with

Base  == 2 ^ Width
Chunk == Radix ^ Group

(* That a power of 2 is a number above 1 is said for the provers.          *)
ASSUME DigitsAssumption ==
  /\ Width \in Nat \ {0} /\ Radix \in Nat \ {0, 1} /\ Group \in Nat \ {0}
  /\ Base \in Nat \ {0, 1}
  /\ Chunk < Base
  /\ Samples \subseteq Int

-----------------------------------------------------------------------------
(* Magnitudes *)

Size(a)       == IF DOMAIN a = {} THEN 0 ELSE 1 + CHOOSE i \in DOMAIN a : i + 1 \notin DOMAIN a
Zeros(n)      == [i \in 0..(n - 1) |-> 0]
Part(a, b, c) == [i \in 0..(c - b - 1) |-> a[b + i]]
Resized(a, n) == [i \in 0..(n - 1) |-> IF i \in DOMAIN a THEN a[i] ELSE 0]
At(a, i)      == IF i \in DOMAIN a THEN a[i] ELSE 0

(* How many digits are left without leading zeros. *)
UsedOf(a) ==
  LET used[n \in 0..Size(a)] == IF n > 0 /\ a[n - 1] = 0 THEN used[n - 1] ELSE n
  IN  used[Size(a)]

(* Positive, negative or zero as a is more than b, less or the same. *)
CompareDigits(a, b) ==
  LET difference[n \in 0..Size(a)] ==
        IF n = 0 THEN 0
        ELSE IF a[n - 1] # b[n - 1] THEN a[n - 1] - b[n - 1] ELSE difference[n - 1]
  IN  IF Size(a) # Size(b) THEN Size(a) - Size(b) ELSE difference[Size(a)]

(* Of numbers, each less than the square of Base, its digits; the carry of *)
(* the last is lost.                                                       *)
Carried(x) ==
  LET carry[i \in 0..Size(x)] == IF i = 0 THEN 0 ELSE (x[i - 1] + carry[i - 1]) \div Base
  IN  [i \in DOMAIN x |-> (x[i] + carry[i]) % Base]

(* a has at least the digits of b. *)
AddDigits(a, b) == Carried([i \in 0..Size(a) |-> At(a, i) + At(b, i)])

(* What is borrowed from beyond the last digit is lost. *)
SubtractDigits(a, b) ==
  LET borrow[i \in 0..Size(a)] ==
        IF i > 0 /\ a[i - 1] - At(b, i - 1) - borrow[i - 1] < 0 THEN 1 ELSE 0
  IN  [i \in DOMAIN a |-> (a[i] - At(b, i) - borrow[i]) % Base]

(* The array d with f * b added from place e on. *)
AddMultiple(f, b, d, e) == Carried([i \in DOMAIN d |-> d[i] + f * At(b, i - e)])

MoveDigits(a, n) == [i \in 0..(Size(a) + n - 1) |-> IF i < n THEN 0 ELSE a[i - n]]

(* Shifted by places and bits; the highest digit may be zero. *)
ShiftLeft(a, s) ==
  LET places == s \div Width
      up     == 2 ^ (s % Width)
      down   == 2 ^ (Width - (s % Width))
  IN  [i \in 0..(Size(a) + places) |->
         (At(a, i - places) % down) * up + At(a, i - places - 1) \div down]

ShiftRight(a, s) ==
  LET places == s \div Width
      up     == 2 ^ (Width - (s % Width))
      down   == 2 ^ (s % Width)
  IN  [i \in 0..(Size(a) - places - 1) |->
         a[i + places] \div down + (At(a, i + places + 1) % down) * up]

BitLength(n) == CHOOSE k \in 0..Width : n < 2 ^ k /\ \A j \in 0..(k - 1) : 2 ^ j <= n

-----------------------------------------------------------------------------
(* Long division *)

(* The next digit of the quotient, or more: from the two digits of the     *)
(* remainder m that end at place e, and the highest of the divisor, k.     *)
Estimate(k, m, e) ==
  LET q == (m[e] * Base + m[e - 1]) \div k
  IN  IF m[e] = k \/ q >= Base THEN Base - 1 ELSE q

(* Slip: an estimate is one too high at most. *)
DivideStepOnce(m, o, j) ==
  LET n == Size(o)
      e == j + n
      f == SubtractDigits([i \in 0..(n + 1) |-> IF i = n THEN 1 ELSE 0], o)
      d == Estimate(o[n - 1], m, e)
      once == AddMultiple(d, Part(f, 0, n), m, j)
  IN  IF once[e] >= d THEN once ELSE SubtractDigits(once, MoveDigits(Part(f, 0, n), j))

(* The divisor o, whose highest bit is set, is subtracted d times from     *)
(* place j on: d times its complement f is added, which leaves the digit   *)
(* of the quotient above the remainder.  Too much is given back.           *)
DivideStep(m, o, j) ==
  LET n == Size(o)
      e == j + n
      f == SubtractDigits([i \in 0..(n + 1) |-> IF i = n THEN 1 ELSE 0], o)
      d == Estimate(o[n - 1], m, e)
      back[t \in 0..d] == IF t = 0 THEN AddMultiple(d, Part(f, 0, n), m, j)
                          ELSE SubtractDigits(back[t - 1], MoveDigits(Part(f, 0, n), j))
      done(t) == back[t][e] >= d - t
  IN  back[CHOOSE t \in 0..d : done(t) /\ \A u \in 0..(t - 1) : ~done(u)]

(* The quotient above the remainder, both of the numbers shifted to the    *)
(* left.                                                                   *)
Divide(a, b) ==
  LET shift == Width - BitLength(b[Size(b) - 1])
      o     == Part(ShiftLeft(b, shift), 0, Size(b))
      m     == Resized(ShiftLeft(a, shift), UsedOf(ShiftLeft(a, shift)) + 2)
      l     == UsedOf(ShiftLeft(a, shift))
      j     == l - Size(b)
      first == MoveDigits(o, j)
      m0    == IF CompareDigits(Part(m, 0, l), first) >= 0
               THEN SubtractDigits([m EXCEPT ![l] = 1], first) ELSE m
      rest[k \in 0..j] == IF k = j THEN m0 ELSE DivideStep(rest[k + 1], o, k)
  IN  [array |-> rest[0], top |-> l + 1, used |-> Size(b), shift |-> shift]

-----------------------------------------------------------------------------
(* Integers *)

Normal(neg, a) == LET n == UsedOf(a) IN [neg |-> neg /\ n > 0, mag |-> Part(a, 0, n)]

Zero   == [neg |-> FALSE, mag |-> Zeros(0)]
One    == [neg |-> FALSE, mag |-> [i \in 0..0 |-> 1]]
Used(x) == Size(x.mag)

Negated(x) == IF Used(x) = 0 THEN x ELSE [x EXCEPT !.neg = ~@]

FromInt(n) ==
  LET m == IF n < 0 THEN -n ELSE n
      above[i \in Nat] == IF i = 0 THEN m ELSE above[i - 1] \div Base
      size == CHOOSE k \in 0..32 : above[k] = 0 /\ \A j \in 0..(k - 1) : above[j] # 0
  IN  Normal(n < 0, [i \in 0..(size - 1) |-> above[i] % Base])

Compare(x, y) ==
  IF x.neg # y.neg THEN IF x.neg THEN -1 ELSE 1
  ELSE IF x.neg THEN -CompareDigits(x.mag, y.mag) ELSE CompareDigits(x.mag, y.mag)

AddAbs(x, y, neg) ==
  LET large == IF Used(x) < Used(y) THEN y ELSE x
      small == IF Used(x) < Used(y) THEN x ELSE y
  IN  Normal(neg, AddDigits(large.mag, small.mag))

SubtractAbs(x, y, neg) == Normal(neg, SubtractDigits(x.mag, y.mag))

Add(x, y) ==
  IF Used(x) = 0 THEN y
  ELSE IF Used(y) = 0 THEN x
  ELSE IF x.neg = y.neg THEN AddAbs(x, y, x.neg)
  ELSE IF CompareDigits(x.mag, y.mag) >= 0 THEN SubtractAbs(x, y, x.neg)
  ELSE SubtractAbs(y, x, ~x.neg)

Subtract(x, y) ==
  IF Used(x) = 0 THEN Negated(y)
  ELSE IF Used(y) = 0 THEN x
  ELSE IF x.neg # y.neg THEN AddAbs(x, y, x.neg)
  ELSE IF CompareDigits(x.mag, y.mag) >= 0 THEN SubtractAbs(x, y, x.neg)
  ELSE SubtractAbs(y, x, ~x.neg)

Multiply(x, y) ==
  LET sum[n \in 0..Used(y)] ==
        IF n = 0 THEN Zeros(Used(x) + Used(y))
        ELSE AddMultiple(y.mag[n - 1], x.mag, sum[n - 1], n - 1)
  IN  Normal(x.neg # y.neg, sum[Used(y)])

Shl(x, s) == Normal(x.neg, ShiftLeft(x.mag, s))

(* Towards minus infinity. *)
Shr(x, s) ==
  LET kept == Used(x) - (s \div Width)
      lost == \/ \E i \in 0..((s \div Width) - 1) : At(x.mag, i) # 0
              \/ At(x.mag, s \div Width) % 2 ^ (s % Width) # 0
      part == Normal(x.neg, ShiftRight(x.mag, s))
  IN  IF Used(x) = 0 THEN x
      ELSE IF kept <= 0 THEN IF x.neg THEN Negated(One) ELSE Zero
      ELSE IF x.neg /\ lost THEN Subtract(part, One) ELSE part

(* Towards zero. *)
Quotient(x, y) ==
  LET above(r) == Part(r.array, r.used, r.top)
  IN  IF Used(x) < Used(y) THEN Zero
      ELSE Normal(x.neg # y.neg, above(Divide(x.mag, y.mag)))

Remainder(x, y) ==
  LET below(r)  == Shr(Normal(FALSE, Part(r.array, 0, r.used)), r.shift)
      signed(z) == IF x.neg THEN Negated(z) ELSE z
  IN  IF Used(x) < Used(y) THEN x ELSE signed(below(Divide(x.mag, y.mag)))

-----------------------------------------------------------------------------
(* Texts: a sign and figures, the highest first. *)

FiguresOf(n) ==
  LET above[i \in Nat] == IF i = 0 THEN n ELSE above[i - 1] \div Radix
      size == CHOOSE k \in 1..32 : above[k] = 0 /\ \A j \in 1..(k - 1) : above[j] # 0
  IN  [i \in 1..size |-> above[size - i] % Radix]

Padded(fs) == [i \in 1..(Group - Len(fs)) |-> 0] \o fs

ToText(x) ==
  LET left[i \in Nat] == IF i = 0 THEN [x EXCEPT !.neg = FALSE]
                         ELSE Quotient(left[i - 1], FromInt(Chunk))
      group(i) == At(Remainder(left[i], FromInt(Chunk)).mag, 0)
      groups == CHOOSE k \in 0..32 : Used(left[k]) <= 1 /\ \A j \in 0..(k - 1) : Used(left[j]) > 1
      text[i \in 0..groups] ==   \* all but the lowest groups, i of them
        IF i = groups THEN FiguresOf(At(left[i].mag, 0)) ELSE text[i + 1] \o Padded(FiguresOf(group(i)))
  IN  [neg |-> x.neg, figures |-> text[0]]

FromText(t) ==
  LET n == Len(t.figures)
      missing == (-n) % Group
      figure(i) == IF i <= missing THEN 0 ELSE t.figures[i - missing]
      chunk(g) == LET sum[k \in 0..Group] ==
                        IF k = 0 THEN 0 ELSE sum[k - 1] * Radix + figure((g - 1) * Group + k)
                  IN  sum[Group]
      value[g \in 0..((n + missing) \div Group)] ==
        IF g = 0 THEN Zero ELSE Add(Multiply(value[g - 1], FromInt(Chunk)), FromInt(chunk(g)))
      x == value[(n + missing) \div Group]
  IN  IF t.neg THEN Negated(x) ELSE x

(* What a column of Bits bits can hold (64 in the code). *)
Fits(x, Bits) ==
  /\ Compare(x, FromInt(-(2 ^ (Bits - 1)))) >= 0
  /\ Compare(x, FromInt(2 ^ (Bits - 1) - 1)) <= 0

-----------------------------------------------------------------------------
(* What the integers stand for. *)

Magnitudes  == UNION {[0..(n - 1) -> 0..(Base - 1)] : n \in Nat}
BigIntegers == [neg : BOOLEAN, mag : Magnitudes]

(* Of the digits from each place on, by Horner's rule. *)
ValueOf(a) ==
  LET value[i \in 0..Size(a)] == IF i = Size(a) THEN 0 ELSE a[i] + Base * value[i + 1]
  IN  value[0]

(* x is n, and in its only form. *)
Is(x, n) ==
  /\ ValueOf(x.mag) = (IF n < 0 THEN -n ELSE n) /\ x.neg = (n < 0)
  /\ UsedOf(x.mag) = Size(x.mag)

Sign(n)         == IF n < 0 THEN -1 ELSE IF n > 0 THEN 1 ELSE 0
Truncated(m, n) == Sign(m) * Sign(n) * ((Sign(m) * m) \div (Sign(n) * n))

(* An integer is stored, shifted and written as it is, its text is parsed  *)
(* back to it, and the range of a column is what it is.                    *)
Exact(n) ==
  LET x == FromInt(n)
      text == [neg |-> n < 0, figures |-> FiguresOf(Sign(n) * n)]
  IN  /\ Is(x, n)
      /\ ToText(x) = text /\ FromText(text) = x
      /\ \A s \in 0..(3 * Width) : Is(Shl(x, s), n * 2 ^ s) /\ Is(Shr(x, s), n \div 2 ^ s)
      /\ \A bits \in 1..(2 * Width) :
           Fits(x, bits) <=> n \in -(2 ^ (bits - 1))..(2 ^ (bits - 1) - 1)

(* Two of them are added, subtracted, multiplied and compared, and divided *)
(* also where an estimated digit is one or two too high.                   *)
ExactWith(m, n) ==
  LET x == FromInt(m)
      y == FromInt(n)
  IN  /\ Is(Add(x, y), m + n)
      /\ Is(Subtract(x, y), m - n)
      /\ Is(Multiply(x, y), m * n)
      /\ Sign(Compare(x, y)) = Sign(m - n)
      /\ n # 0 => /\ Is(Quotient(x, y), Truncated(m, n))
                  /\ Is(Remainder(x, y), m - n * Truncated(m, n))
=============================================================================
