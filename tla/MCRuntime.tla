------------------------------ MODULE MCRuntime ------------------------------
(* A small instance of the runtime of the worker for TLC: its futures, its *)
(* library and its messages.  A behaviour is either one of the futures, or *)
(* tries the library or a message.                                         *)
EXTENDS Futures, Library, Messages

MCInit == FuturesInit /\ LibraryInit

TryMessage == sample = Nothing /\ \E v \in Values : sample' = [what |-> "message", is |-> v]

MCNext ==
  \/ sample = Nothing /\ Next /\ UNCHANGED sample
  \/ made = 0 /\ (LibraryNext \/ TryMessage) /\ UNCHANGED vars

MCSpec == MCInit /\ [][MCNext]_<<vars, sample>> /\ Fairness

-----------------------------------------------------------------------------
(* Windows and worker receive what was sent to them, the sample and maps   *)
(* of one key that hold it.                                                *)
MessagesSurvive ==
  Tried("message") => \A v \in {sample.is} \cup {Map(k :> sample.is) : k \in AllKeys} : IsReceived(v)

-----------------------------------------------------------------------------

(* Integers of up to three digits, each at or next to a limit. *)
EdgeDigits == {0, 1, Base \div 2, Base - 1}
EdgeInts   ==
  LET positive == {a + b * Base + c * Base * Base : a \in EdgeDigits, b \in EdgeDigits,
                                                    c \in EdgeDigits}
  IN  positive \cup {-n : n \in positive}

(* The first and last unit that is written in a way, and the byte order    *)
(* mark.                                                                   *)
EdgeUnits == {0, 127, 128, 2047, 2048, 55295, 55296, 56319, 56320, 57343, 57344, 65279, 65535}

(* The first and last byte of each class, or one of the class. *)
EdgeBytes == {0, 127, 128, 143, 144, 159, 160, 187, 191, 193, 194, 223, 224, 225, 237, 239,
              240, 241, 244, 245}
(* A field of the program and one that begins with "@". *)
SomeFieldNames == {<<FALSE, "id">>, <<TRUE, "x">>}

(* Keys of each kind, two objects with one hash. *)
SomeKeys == {[kind |-> "string", name |-> 1, hash |-> 1], [kind |-> "number", name |-> 1, hash |-> 1],
             [kind |-> "object", name |-> 1, hash |-> 1], [kind |-> "object", name |-> 2, hash |-> 1]}
=============================================================================
