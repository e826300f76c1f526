------------------------------ MODULE KeyRange ------------------------------
(***************************************************************************)
(* Ranges of names (getPrefix, GetKeyPrefix and GetPermission of           *)
(* mydis/util.go and client/util.go).  A name is a sequence of bytes; the  *)
(* range from key to end has the names from key on that come before end,   *)
(* and end "\0" stands for no end.                                         *)
(***************************************************************************)
EXTENDS Integers, Sequences, SequencesExt

CONSTANTS Top,  \* the largest byte (0xff in the code)
          Star  \* the byte '*'
ASSUME BytesAssumption == Top \in Nat /\ Star \in 1 .. Top

Byte == 0 .. Top
Zero == <<0>>

\* Mutant: what follows the byte that is incremented stays.
getPrefixUncut(key) ==
  LET below == {i \in 1 .. Len(key) : key[i] < Top}
      last  == CHOOSE i \in below : \A j \in below : j <= i
  IN  IF below = {} THEN Zero ELSE [key EXCEPT ![last] = @ + 1]

\* The last byte that can be incremented is, and what follows it is cut off.
getPrefix(key) ==
  LET below == {i \in 1 .. Len(key) : key[i] < Top}
      last  == CHOOSE i \in below : \A j \in below : j <= i
  IN  IF below = {} THEN Zero ELSE Append(SubSeq(key, 1, last - 1), key[last] + 1)

IsPattern(name) == name # << >> /\ Last(name) = Star

GetKeyPrefix(name) ==
  IF IsPattern(name) THEN <<Front(name), getPrefix(Front(name))>> ELSE <<name, Zero>>

PermTypes == {"READ", "WRITE", "READWRITE"}

\* Any other type gives nil.
GetPermission(name, type) == [key |-> GetKeyPrefix(name)[1], end |-> GetKeyPrefix(name)[2],
                              type |-> type]

-----------------------------------------------------------------------------

\* The order of byte strings.
Before(a, b) ==
  \/ IsStrictPrefix(a, b)
  \/ \E i \in 1 .. Len(a) : /\ i <= Len(b) /\ a[i] < b[i]
                            /\ \A j \in 1 .. i - 1 : a[j] = b[j]

InRange(name, key, end) == ~Before(name, key) /\ (end = Zero \/ Before(name, end))

\* The range of a pattern has the names that begin with what precedes the '*',
\* those that end in 0xff included, and no other.
CoversPattern(name, others) ==
  LET range == GetKeyPrefix(name)
  IN  \A other \in others :
        InRange(other, range[1], range[2]) <=> IsPrefix(Front(name), other)
=============================================================================
