------------------------------- MODULE Values -------------------------------
(***************************************************************************)
(* What Mydis stores in etcd and what its handlers make of it.             *)
(*                                                                         *)
(* Every stored value is a byte array.  The model keeps the distinctions   *)
(* the handlers can see: which message type the bytes decode to, and that  *)
(* several messages share the same, empty, encoding.                       *)
(***************************************************************************)
EXTENDS Integers, Sequences, FiniteSets

CONSTANTS Bases,   \* the keys that clients use
          ZeroKey, \* the one of them whose name is a single zero byte
          Depth,   \* how many lock suffixes a name can carry
          Items,   \* byte strings that decode to no message: list elements, hash
                   \* values and raw values
          Fields,  \* names of hash fields
          Half     \* signed integers are -Half .. Half-1 (2^63 in the code)

ASSUME HalfAssumption == Half \in Nat \ {0}
ASSUME NamesAssumption == ZeroKey \in Bases /\ Depth \in Nat \ {0, 1}
ASSUME FieldsAssumption == IsFiniteSet(Fields) /\ "none" \notin Fields

-----------------------------------------------------------------------------
(* Names in the store.  <<b, n>> is base key b followed by n lock suffixes. *)

Names == Bases \X (0 .. Depth)

getLockName(k) == <<k[1], k[2] + 1>>

\* Names a request may carry: their lock, and that lock's lock, are names too.
Keys == Bases \X (0 .. (Depth - 2))

\* The name "\0".  Set and UnlockThenSet refuse it, and transactions whose
\* Failure branch must always run compare its value with "\0".
Sentinel == <<ZeroKey, 0>>

-----------------------------------------------------------------------------
(* Integers of the code's fixed width.                                     *)

Int64 == -Half .. (Half - 1)

\* Two's complement reduction of a mathematical integer to the width.
Wrap(n) == ((n + Half) % (2 * Half)) - Half

\* Doubles: -Half and Half are the infinities, NaN is no number.
NaN == Half + 1
Floats == (-Half .. Half) \cup {NaN}

-----------------------------------------------------------------------------
(* Stored values.                                                          *)

Absent   == [type |-> "absent"]    \* no such key
ZeroByte == [type |-> "zero"]      \* []byte{0}, also the content of a lock
Empty    == [type |-> "empty"]     \* []byte{}
Leased   == [type |-> "leased"]    \* []byte{} written by SetExpire, under a lease

RawV(b)     == [type |-> "raw", raw |-> b]
IntV(n)     == [type |-> "int", int |-> n]
FloatV(x)   == [type |-> "float", float |-> x]
ListV(s, l) == [type |-> "list", value |-> s, limit |-> l]
HashV(h)    == [type |-> "hash", fields |-> h]

\* Elements of a list are byte strings: an item, or the encoding of one entry of
\* a hash, for a stored hash reads as the list of its encoded entries.
NoField     == "none"
Elements    == [field : Fields \cup {NoField}, item : Items]
Plain(i)    == [field |-> NoField, item |-> i]
Pair(f, i)  == [field |-> f, item |-> i]

\* Maps from a set of fields to byte strings (map[string][]byte).
Hashes == UNION {[F -> Items] : F \in SUBSET Fields}

Values == {Absent, ZeroByte, Empty, Leased}
            \cup [type : {"raw"}, raw : Items]
            \cup [type : {"int"}, int : Int64]
            \cup [type : {"float"}, float : Floats]
            \cup [type : {"list"}, value : Seq(Elements), limit : Int64]
            \cup [type : {"hash"}, fields : Hashes]

\* The bytes of a stored value: the lease is not part of them.
Bytes(v) == IF v = Leased THEN Empty ELSE v

\* Encodings.  Protocol buffers leave out default values, so the integer 0
\* written by IncrementInt, the double 0, an empty list without limit and an empty hash are
\* all zero bytes long.  (SetInt and SetFloat also encode the key: their 0 is not.)
EncodeInt(n)     == IF n = 0 THEN Empty ELSE IntV(n)
EncodeFloat(x)   == IF x = 0 THEN Empty ELSE FloatV(x)
EncodeList(s, l) == IF s = << >> /\ l = 0 THEN Empty ELSE ListV(s, l)
EncodeHash(h)    == IF DOMAIN h = {} THEN Empty ELSE HashV(h)

\* Values that decode, without error, to the zero value of any message (a list
\* also keeps its limit: other messages skip that field as unknown).
Blank(v) == \/ v \in {Empty, Leased, IntV(0), FloatV(0)}
            \/ v.type = "list" /\ v.value = << >>

\* Values a request can carry.
Stored == Values \ {Absent, Leased}

-----------------------------------------------------------------------------
(* Results of a handler, and what a locking handler does once it has read. *)

\* A reply is a value, a number, names, fields or a truth value.
NullV    == [type |-> "null"]
NumV(n)  == [type |-> "num", num |-> n]
ElemV(e) == [type |-> "elem", elem |-> e]
BoolV(b) == [type |-> "bool", bool |-> b]
KeysV(S) == [type |-> "keys", keys |-> S]
ManyV(m) == [type |-> "many", many |-> m]
FieldsV(F) == [type |-> "fieldset", set |-> F]

Errors == {"ErrKeyLocked", "ErrKeyNotFound", "ErrListEmpty", "ErrInvalidKey",
           "ErrListIndexOutOfRange", "ErrHashFieldNotFound",
           "ErrDecode",       \* ErrTypeMismatch or another proto.Unmarshal error
           "ErrUnavailable"}  \* a failed etcd call, or the server went away

Ok(x)  == [kind |-> "ok", val |-> x]
Err(e) == [kind |-> "err", err |-> e]
NoResult == [kind |-> "none"]

Replies == Values \cup {NullV} \cup [type : {"num"}, num : Int]
             \cup [type : {"bool"}, bool : BOOLEAN] \cup [type : {"elem"}, elem : Elements]
             \cup [type : {"keys"}, keys : SUBSET Names]
             \cup [type : {"many"}, many : SUBSET (Names \X Values)]
             \cup [type : {"fieldset"}, set : SUBSET Fields]
Results == {NoResult} \cup [kind : {"ok"}, val : Replies] \cup [kind : {"err"}, err : Errors]

\* The four ways a handler goes on after reading the key:
\* unlock-then-set the new value; unlock and return; return as it is (a reader,
\* or a handler that forgets its lock); die with a run-time panic.
Write(v, x) == [do |-> "write",  val |-> v,      ret |-> Ok(x)]
Refuse(ret) == [do |-> "unlock", val |-> Absent, ret |-> ret]
Return(ret) == [do |-> "return", val |-> Absent, ret |-> ret]
Panic       == [do |-> "panic",  val |-> Absent, ret |-> Err("ErrUnavailable")]

\* No handler writes under a lease: only SetExpire does.
Outcomes == [do : {"write", "unlock", "return", "panic"}, val : Values \ {Leased}, ret : Results]
=============================================================================
