---------------------------- MODULE Conversions -----------------------------
(***************************************************************************)
(* Go values and the bytes they are stored as (util/value.go, util.go).    *)
(*                                                                         *)
(* A Go value has one field, named for its type: string stands for []byte  *)
(* too, int for all signed integers, strings for slices and map for maps   *)
(* of them.  A util.Value is bytes, or an error.                           *)
(***************************************************************************)
EXTENDS IntOps, FloatOps, ListOps, HashOps

CONSTANTS One,     \* the item that is the byte 1
          Nothing, \* the item without bytes
          Second   \* nanoseconds of a second (1e9 in the code)
ASSUME ConversionsAssumption == One \in Items /\ Nothing \in Items /\ Second \in 1 .. Half

GoString(i)   == [string |-> i]
GoBool(b)     == [bool |-> b]
GoInt(n)      == [int |-> n]
GoFloat(x)    == [float |-> x]
GoTime(n)     == [time |-> n]     \* nanoseconds since the epoch
GoDuration(n) == [duration |-> n] \* nanoseconds
GoStrings(s)  == [strings |-> s]
GoMap(h)      == [map |-> h]
GoError(e)    == [error |-> e]
GoOther       == [other |-> "Unknown type"]

Is(t, type) == type \in DOMAIN t

NoError  == "none"
Value(b) == [err |-> NoError, b |-> b]
Bad(e)   == [err |-> e, b |-> Empty]

\* What NewValue is given: any other type is GoOther.
GoValues == [string : Items] \cup [bool : BOOLEAN] \cup [int : Int64] \cup [float : Floats]
              \cup [time : Int] \cup [duration : Int64] \cup [strings : Seq(Items)]
              \cup [map : Hashes] \cup [error : STRING \ {NoError}] \cup {GoOther}

Raw(i) == IF i = Nothing THEN Empty ELSE RawV(i)
ListStringToBytes(s) == [i \in 1 .. Len(s) |-> Plain(s[i])]

\* Mutant: a duration is stored as a time is.
NewValueOfSecond(t) ==
  CASE Is(t, "duration") -> Value(EncodeInt(t.duration % Second))
    [] Is(t, "string")   -> Value(Raw(t.string))
    [] OTHER             -> Bad("Unknown type")

\* Of a time only the nanoseconds within its second are stored.
NewValue(t) ==
  CASE Is(t, "error")    -> Bad(t.error)
    [] Is(t, "string")   -> Value(Raw(t.string))
    [] Is(t, "bool")     -> Value(IF t.bool THEN RawV(One) ELSE ZeroByte)
    [] Is(t, "int")      -> Value(EncodeInt(t.int))
    [] Is(t, "duration") -> Value(EncodeInt(t.duration))
    [] Is(t, "time")     -> Value(EncodeInt(t.time % Second))
    [] Is(t, "float")    -> Value(EncodeFloat(t.float))
    [] Is(t, "strings")  -> Value(EncodeList(ListStringToBytes(t.strings), 0))
    [] Is(t, "map")      -> Value(EncodeHash(t.map))
    [] OTHER             -> Bad("Unknown type")

\* The bytes of a value are taken whatever its error.
ItemOf(b) == IF b.type = "raw" THEN b.raw ELSE Nothing
MapValueToMapBytes(h) == [f \in DOMAIN h |-> ItemOf(NewValue(h[f]).b)]

-----------------------------------------------------------------------------
(* What the bytes of a util.Value are read as.                             *)

Unread == [unread |-> TRUE]

ReadString(b)   == CASE b.type = "raw" -> GoString(b.raw)
                     [] b = Empty      -> GoString(Nothing)
                     [] OTHER          -> Unread
ReadBool(b)     == GoBool(b \notin {Empty, ZeroByte})
ReadInt(b)      == IF IsInt(b) THEN GoInt(AsInt(b)) ELSE Unread
ReadDuration(b) == IF IsInt(b) THEN GoDuration(AsInt(b)) ELSE Unread
ReadTime(b)     == IF IsInt(b) THEN GoTime(AsInt(b)) ELSE Unread
ReadFloat(b)    == IF IsFloat(b) THEN GoFloat(AsFloat(b)) ELSE Unread
ReadList(b)     == IF IsList(b)
                   THEN GoStrings([i \in 1 .. Len(Elems(b)) |-> Elems(b)[i].item]) ELSE Unread
ReadMap(b)      == IF IsHash(b) THEN GoMap(FieldMap(b)) ELSE Unread

\* b read as the type of t.
ReadLike(t, b) ==
  CASE Is(t, "string")   -> ReadString(b)   [] Is(t, "bool")  -> ReadBool(b)
    [] Is(t, "int")      -> ReadInt(b)      [] Is(t, "float") -> ReadFloat(b)
    [] Is(t, "duration") -> ReadDuration(b) [] Is(t, "time")  -> ReadTime(b)
    [] Is(t, "strings")  -> ReadList(b)     [] Is(t, "map")   -> ReadMap(b)
    [] OTHER             -> Unread
=============================================================================
