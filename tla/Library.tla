------------------------------- MODULE Library -------------------------------
(***************************************************************************)
(* What the worker takes for granted of the library it is compiled with:   *)
(* integers, texts and maps.  A behaviour tries one sample, or calls one   *)
(* map again and again.                                                    *)
(***************************************************************************)
EXTENDS BigInts, Utf8, Collections

CONSTANTS
  TextUnits,    \* bound on the units of a text
  TextBytes,    \* bound on the bytes of a text, but for one or two more
  Calls         \* bound on the calls on a map

ASSUME LibraryAssumption == TextUnits \in Nat /\ TextBytes \in Nat /\ Calls \in Nat

VARIABLE sample  \* what is tried, or Nothing

LibraryInit == sample = Nothing

TryOne(what, x)    == sample' = [what |-> what, is |-> x]
TryMap(what, s, n) == sample' = [what |-> what, is |-> s, calls |-> n]
Tried(what)        == sample # Nothing /\ sample.what = what

Strings(S, n) == UNION {[1..k -> S] : k \in 0..n}

Try ==
  /\ sample = Nothing
  /\ \/ \E n \in Samples : TryOne("integer", n)
     \/ \E us \in Strings(Units, TextUnits) : TryOne("text", us)
     \/ \E bs \in Strings(Bytes, TextBytes) : TryOne("bytes", bs)
     \/ TryMap("linked", NewLinked, 0)
     \/ TryMap("hashed", NewHashed, 0)

CallMap ==
  /\ Tried("linked") \/ Tried("hashed")
  /\ sample.calls < Calls
  /\ \E s \in IF sample.what = "linked" THEN LinkedAfter(sample.is) ELSE HashAfter(sample.is) :
       TryMap(sample.what, s, sample.calls + 1)

LibraryNext == Try \/ CallMap

LibrarySpec == LibraryInit /\ [][LibraryNext]_sample

-----------------------------------------------------------------------------
(* The integers the worker represents and calculates with as arithmetic does. *)
ExactInts == {m \in Samples : Exact(m) /\ \A n \in Samples : ExactWith(m, n)}

(* The integers of the worker are those of arithmetic. *)
ArithmeticIsExact == Tried("integer") => sample.is \in ExactInts

(* What is written to the database as a text is read back, and bytes that  *)
(* are not UTF-8 are noticed, the sample or one or two bytes more, of      *)
(* which the first follows another.                                        *)
TextsSurvive ==
  /\ Tried("text") => IsReadBack(sample.is)
  /\ Tried("bytes") =>
       LET more == Strings(Bytes, 1) \cup ((Bytes \cap Follows) \X Bytes)
       IN  \A bs \in more : IsReadRight(sample.is \o bs)

(* After any calls a map holds what was put and not deleted, in that order *)
(* if it is to keep it, and a walk shows each key once or fails.           *)
MapsHoldWhatWasPut ==
  /\ Tried("linked") => LinkedIsRight(sample.is)
  /\ Tried("hashed") => HashedIsRight(sample.is)
=============================================================================
