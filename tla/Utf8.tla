-------------------------------- MODULE Utf8 --------------------------------
(***************************************************************************)
(* The texts of the local database: the strings of the program, sequences  *)
(* of 16-bit units, and the bytes in which SQLite takes and returns them   *)
(* (encoder and decoder of web/sqflite_sw.js).                             *)
(*                                                                         *)
(* A decoded text is a sequence of code points, as the decoder gives them. *)
(* The browser's own decoder, which is tried first on 15 bytes or more and *)
(* answers what is well formed, is left out.                               *)
(***************************************************************************)
EXTENDS Integers, Sequences

CONSTANTS
  HalfAbove,      \* more bytes than that are decoded by halves (1000)
  Units, Bytes    \* units and bytes that the definitions are checked with

ASSUME HalfAssumption == HalfAbove \in Nat \ {0}

MaxUnit == 65535
Units16 == 0..MaxUnit
Octets  == 0..255

ASSUME SamplesAssumption == Units \subseteq Units16 /\ Bytes \subseteq Octets

High(u) == u \div 1024 = 54   \* D800..DBFF
Low(u)  == u \div 1024 = 55   \* DC00..DFFF
Pair(h, l) == 65536 + (h % 1024) * 1024 + (l % 1024)

(* A text is taken in pairs and single units. *)
Paired(us, i) == i < Len(us) /\ High(us[i]) /\ Low(us[i + 1])
Taken(us, i)  == IF Paired(us, i) THEN 2 ELSE 1

Replacement == 65533
Mark        == 65279          \* the byte order mark

-----------------------------------------------------------------------------
(* Encoding *)

Six(n) == 128 + (n % 64)

PairBytes(p)  == <<240 + p \div 262144, Six(p \div 4096), Six(p \div 64), Six(p)>>
ReplacementBytes == <<239, 191, 189>>

(* Half of a pair is replaced. *)
BytesAt(us, i) ==
  LET u == us[i]
  IN  CASE u <= 127            -> <<u>>
        [] Paired(us, i)       -> PairBytes(Pair(u, us[i + 1]))
        [] ~Paired(us, i) /\ (High(u) \/ Low(u)) -> ReplacementBytes
        [] u \in 128..2047     -> <<192 + u \div 64, Six(u)>>
        [] OTHER               -> <<224 + u \div 4096, Six(u \div 64), Six(u)>>

Encode(us) ==
  LET from[i \in 1..(Len(us) + 1)] ==
        IF i > Len(us) THEN <<>> ELSE BytesAt(us, i) \o from[i + Taken(us, i)]
  IN  from[1]

-----------------------------------------------------------------------------
(* Decoding: an automaton whose inputs are the classes of the bytes. *)

Class(b) ==
  CASE b <= 127        -> "A"
    [] b \in 128..143  -> "F"
    [] b \in 144..159  -> "G"
    [] b \in 160..191 \ {187, 191} -> "H"
    [] b = 187         -> "I"
    [] b = 191         -> "J"
    [] b \in 194..223  -> "B"
    [] b = 224         -> "K"
    [] b = 237         -> "D"
    [] b = 239         -> "L"
    [] b \in 225..238 \ {237} -> "C"
    [] b = 240         -> "O"
    [] b \in 241..243  -> "N"
    [] b = 244         -> "M"
    [] OTHER           -> "E"

(* States: the start, where a mark is left out; a code point has ended,    *)
(* with or without a text; one, two or three more bytes are wanted; and    *)
(* those in which the next byte is restricted.                             *)
Waiting == {"start", "mark left out", "done"}

LeadTo(s, c) ==
  CASE c = "A" -> "done"
    [] c = "B" -> "one"
    [] c = "C" -> "two"
    [] c = "D" -> "two, no surrogate"
    [] c = "K" -> "two, not overlong"
    [] c = "L" -> IF s = "start" THEN "two, perhaps mark" ELSE "two"
    [] c = "N" -> "three"
    [] c = "M" -> "three, in range"
    [] c = "O" -> "three, not overlong"
    [] c = "E" -> "invalid"
    [] OTHER   -> "unexpected"

MoreTo(s, c) ==
  CASE s = "one"                 -> "done"
    [] s = "two"                 -> "one"
    [] s = "three"               -> "two"
    [] s = "two, no surrogate"   -> IF c \in {"F", "G"} THEN "one" ELSE "surrogate"
    [] s = "two, not overlong"   -> IF c \in {"F", "G"} THEN "overlong" ELSE "one"
    [] s = "three, in range"     -> IF c = "F" THEN "two" ELSE "out of range"
    [] s = "three, not overlong" -> IF c = "F" THEN "overlong" ELSE "two"
    [] s = "two, perhaps mark"   -> IF c = "I" THEN "one, perhaps mark" ELSE "one"
    [] s = "one, perhaps mark"   -> IF c = "J" THEN "mark left out" ELSE "done"

Step(s, c) ==
  IF s \in Waiting THEN LeadTo(s, c)
  ELSE IF c \in {"F", "G", "H", "I", "J"} THEN MoreTo(s, c) ELSE "missing"

More   == {"one", "two", "three", "two, no surrogate", "two, not overlong", "two, perhaps mark",
           "one, perhaps mark", "three, in range", "three, not overlong"}
Errors == {"missing", "unexpected", "invalid", "overlong", "out of range", "surrogate",
           "unfinished"}

(* The bits of a first byte that are kept. *)
Payload(b, c) ==
  CASE c = "A" -> b
    [] c = "B" -> b % 32
    [] c \in {"N", "M", "O"} -> b % 8
    [] OTHER -> b % 16

Runs  == [state : Waiting \cup More \cup Errors, bits : Nat, text : Seq(Nat)]
Start == [state |-> "start", bits |-> 0, text |-> <<>>]

(* The automaton reads one byte more. *)
Read(q, b) ==
  LET s == Step(q.state, Class(b))
      v == IF q.state \in Waiting THEN Payload(b, Class(b)) ELSE q.bits * 64 + (b % 64)
  IN  IF q.state \in Errors THEN q
      ELSE [state |-> s, bits |-> v, text |-> IF s = "done" THEN Append(q.text, v) ELSE q.text]

(* The automaton goes on from run r over more bytes. *)
Run(r, bs) ==
  LET run[i \in 0..Len(bs)] == IF i = 0 THEN r ELSE Read(run[i - 1], bs[i])
  IN  run[Len(bs)]

Spans(bs) == (0..Len(bs)) \X (0..Len(bs)) \X Runs

(* Slip: each half is decoded on its own. *)
RunHalvesAlone(bs) ==
  LET run[x \in Spans(bs)] ==
        LET b == x[1]
            c == x[2]
            m == (b + c) \div 2
            first == run[<<b, m, x[3]>>]
        IN  IF c - b > HalfAbove /\ x[3].state \notin Errors
            THEN run[<<m, c, [Start EXCEPT !.text = first.text]>>]
            ELSE Run(x[3], SubSeq(bs, b + 1, c))
  IN  run[<<0, Len(bs), Start>>]

(* What is found in the middle of a code point is kept from one half to    *)
(* the other.                                                              *)
RunByHalves(bs) ==
  LET run[x \in Spans(bs)] ==
        LET b == x[1]
            c == x[2]
            m == (b + c) \div 2
        IN  IF c - b > HalfAbove /\ x[3].state \notin Errors THEN run[<<m, c, run[<<b, m, x[3]>>]>>]
            ELSE Run(x[3], SubSeq(bs, b + 1, c))
  IN  run[<<0, Len(bs), Start>>]

Decode(bs) ==
  LET r == RunByHalves(bs)
  IN  [error |-> IF r.state \in Errors THEN r.state
                 ELSE IF r.state \in Waiting THEN "none" ELSE "unfinished",
       text  |-> r.text]

-----------------------------------------------------------------------------
(* What UTF-16 and UTF-8 say. *)

(* The code points of a string. *)
PointAt(us, i) ==
  IF Paired(us, i) THEN Pair(us[i], us[i + 1])
  ELSE IF High(us[i]) \/ Low(us[i]) THEN Replacement ELSE us[i]

Points(us) ==
  LET from[i \in 1..(Len(us) + 1)] ==
        IF i > Len(us) THEN <<>> ELSE <<PointAt(us, i)>> \o from[i + Taken(us, i)]
  IN  from[1]

Unmarked(t) == IF t # <<>> /\ Head(t) = Mark THEN Tail(t) ELSE t

(* How many bytes a code point takes, the least, and what is added to the  *)
(* bits of the first.                                                      *)
Needed(p) == IF p < 128 THEN 1 ELSE IF p < 2048 THEN 2 ELSE IF p < 65536 THEN 3 ELSE 4
Lead      == <<0, 192, 224, 240>>
Follows   == 128..191

(* Halves of pairs, which no code point is. *)
Surrogates == 55296..57343

Bits(p, b) == p * 64 + (b - 128)
Point(bs) ==
  LET n == Len(bs)
      first == bs[1] - Lead[n]
  IN  IF n = 1 THEN first
      ELSE IF n = 2 THEN Bits(first, bs[2])
      ELSE IF n = 3 THEN Bits(Bits(first, bs[2]), bs[3])
      ELSE Bits(Bits(Bits(first, bs[2]), bs[3]), bs[4])

WellFormed(bs) ==
  /\ bs[1] >= Lead[Len(bs)]
  /\ \A k \in 2..Len(bs) : bs[k] \in Follows
  /\ Needed(Point(bs)) = Len(bs)
  /\ Point(bs) <= 1114111 /\ Point(bs) \notin Surrogates

(* The texts that bytes can be read as: one, or none. *)
Readings(bs) ==
  LET n == Len(bs)
      from[i \in 1..(n + 1)] ==
        IF i > n THEN {<<>>}
        ELSE UNION {{<<Point(SubSeq(bs, i, j))>> \o t : t \in from[j + 1]} :
                    j \in {m \in i..(i + 3) : m <= n /\ WellFormed(SubSeq(bs, i, m))}}
  IN  from[1]

(* A text is read back from the database as it was written, but for halves *)
(* of pairs, which are replaced, and a byte order mark at its start, which *)
(* is lost.                                                                *)
IsReadBack(us) == Decode(Encode(us)) = [error |-> "none", text |-> Unmarked(Points(us))]

(* Bytes are refused if and only if they are not UTF-8, wherever they are  *)
(* cut in halves.                                                          *)
IsReadRight(bs) ==
  LET d == Decode(bs)
  IN  {Unmarked(t) : t \in Readings(bs)} = IF d.error = "none" THEN {d.text} ELSE {}
=============================================================================
