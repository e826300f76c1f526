------------------------------- MODULE ListOps ------------------------------
(***************************************************************************)
(* The data part of mydis/type_list.go and of enforceListLimit: what a     *)
(* list handler answers or writes when it finds v stored at its key.       *)
(*                                                                         *)
(* Indices are those of the code, from 0; element i of a list is the       *)
(* sequence's element i+1.  Index arithmetic has the width of int64.       *)
(***************************************************************************)
EXTENDS Values, SequencesExt

\* The entries of a map in their encoded order, which is any order.
Pairs(m) == LET order == SetToSeq(DOMAIN m)
            IN  [i \in 1 .. Len(order) |-> Pair(order[i], m[order[i]])]

\* Lists and hashes both are repeated byte strings under the same tag, so that
\* a hash decodes as a list without error.
IsList(v) == Blank(v) \/ v.type \in {"list", "hash"}
Elems(v)  == CASE v.type = "list" -> v.value
               [] v.type = "hash" -> Pairs(v.fields)
               [] OTHER -> << >>
Limit(v)  == IF v.type = "list" THEN v.limit ELSE 0

\* The error of GetList; NoErr when the value decodes to a list.
NoErr == "none"
ListError(v) == IF v = Absent THEN "ErrKeyNotFound"
                ELSE IF IsList(v) THEN NoErr ELSE "ErrDecode"

\* The range checks of the code compare index-1 and -index-1 with the length.
PastEnd(i, len)     == Wrap(i - 1) > len
BeforeStart(i, len) == i < 0 /\ Wrap(Wrap(-i) - 1) > len

\* Position that the code indexes: a negative index counts from the end.
Position(i, len) == IF i >= 0 THEN i ELSE len + i

InBounds(pos, len) == 0 <= pos /\ pos < len

-----------------------------------------------------------------------------
(* Readers.                                                                *)

GetList(v) ==
  Return(IF ListError(v) # NoErr THEN Err(ListError(v))
         ELSE Ok(ListV(Elems(v), Limit(v))))

GetListItem(v, index) ==
  LET s   == Elems(v)
      len == Len(s)
      i1  == IF PastEnd(index, len) THEN len - 1 ELSE index
      i2  == IF BeforeStart(i1, len) THEN 0 ELSE i1
      pos == Position(i2, len)
  IN  IF ListError(v) # NoErr THEN Return(Err(ListError(v)))
      ELSE IF len = 0 THEN Return(Err("ErrListEmpty"))
      ELSE IF InBounds(pos, len) THEN Return(Ok(ElemV(s[pos + 1])))
      ELSE Panic

ListLength(v) ==
  Return(IF ListError(v) # NoErr THEN Err(ListError(v)) ELSE Ok(NumV(Len(Elems(v)))))

\* Index of the first element equal to item, or -1.
IndexOf(s, item) == SelectInSeq(s, LAMBDA e : e = item) - 1

ListHas(v, item) ==
  Return(IF v = Absent THEN Ok(NumV(-1))
         ELSE IF ~IsList(v) THEN Err("ErrDecode")
         ELSE Ok(NumV(IndexOf(Elems(v), item))))

-----------------------------------------------------------------------------
(* Writers.                                                                *)

SetListItem(v, index, item) ==
  LET s   == Elems(v)
      len == Len(s)
      pos == Position(index, len)
  IN  IF ListError(v) # NoErr THEN Refuse(Err(ListError(v)))
      ELSE IF len = 0 THEN Refuse(Err("ErrListEmpty"))
      ELSE IF PastEnd(index, len) \/ BeforeStart(index, len)
           THEN Refuse(Err("ErrListIndexOutOfRange"))
      ELSE IF InBounds(pos, len)
           THEN Write(EncodeList([s EXCEPT ![pos + 1] = item], Limit(v)), NullV)
      ELSE Panic

\* The handler stores the limit; it does not shorten the list.
ListLimit(v, index) ==
  IF ListError(v) # NoErr THEN Refuse(Err(ListError(v)))
  ELSE Write(EncodeList(Elems(v), IF index < 0 THEN 0 ELSE index), NullV)

\* The list the code stores once it has grown to s: the last `limit' elements.
\* A negative limit slices past the end.
enforceListLimit(s, limit) ==
  IF limit = 0 \/ Len(s) <= limit THEN Write(EncodeList(s, limit), NullV)
  ELSE IF limit < 0 THEN Panic
  ELSE Write(EncodeList(SubSeq(s, Len(s) - limit + 1, Len(s)), limit), NullV)

ListInsert(v, index, item) ==
  LET s  == Elems(v)
      i0 == IF index < 0 THEN 0 ELSE index
  IN  IF v # Absent /\ ~IsList(v) THEN Refuse(Err("ErrDecode"))
      ELSE enforceListLimit(IF i0 >= Len(s) THEN Append(s, item)
                            ELSE SubSeq(s, 1, i0) \o <<item>> \o SubSeq(s, i0 + 1, Len(s)),
                            Limit(v))

ListAppend(v, item) ==
  IF v # Absent /\ ~IsList(v) THEN Refuse(Err("ErrDecode"))
  ELSE enforceListLimit(Append(Elems(v), item), Limit(v))

\* A missing key is an empty list to both pops.  (Blocking is the server's.)
ListPopLeft(v) ==
  LET s == Elems(v)
  IN  IF v # Absent /\ ~IsList(v) THEN Refuse(Err("ErrDecode"))
      ELSE IF s = << >> THEN Refuse(Err("ErrListEmpty"))
      ELSE Write(EncodeList(Tail(s), Limit(v)), ElemV(Head(s)))

ListPopRight(v) ==
  LET s == Elems(v)
  IN  IF v # Absent /\ ~IsList(v) THEN Refuse(Err("ErrDecode"))
      ELSE IF s = << >> THEN Refuse(Err("ErrListEmpty"))
      ELSE Write(EncodeList(SubSeq(s, 1, Len(s) - 1), Limit(v)), ElemV(s[Len(s)]))

\* The list without its element at position i (counted from 0).
Without(s, i) == SubSeq(s, 1, i) \o SubSeq(s, i + 2, Len(s))

\* Mutant: an empty list is reported without unlocking the key.
ListDeleteForgets(v, index) ==
  IF ListError(v) # NoErr THEN Refuse(Err(ListError(v)))
  ELSE IF Elems(v) = << >> THEN Return(Err("ErrListEmpty"))
  ELSE Refuse(Err("ErrListIndexOutOfRange"))

ListDelete(v, index) ==
  LET s   == Elems(v)
      len == Len(s)
  IN  IF ListError(v) # NoErr THEN Refuse(Err(ListError(v)))
      ELSE IF len = 0 THEN Refuse(Err("ErrListEmpty"))
      ELSE IF index < 0 \/ PastEnd(index, len)
           THEN Refuse(Err("ErrListIndexOutOfRange"))
      ELSE IF InBounds(index, len)
           THEN Write(EncodeList(Without(s, index), Limit(v)), NullV)
      ELSE Panic

\* When the item is not there the handler returns without unlocking the key.
ListDeleteItem(v, item) ==
  LET s     == Elems(v)
      found == IndexOf(s, item)
  IN  IF v = Absent THEN Refuse(Ok(NumV(-1)))
      ELSE IF ~IsList(v) THEN Refuse(Err("ErrDecode"))
      ELSE IF found = -1 THEN Return(Ok(NumV(-1)))
      ELSE Write(EncodeList(Without(s, found), Limit(v)), NumV(found))
=============================================================================
