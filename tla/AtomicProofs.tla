---------------------------- MODULE AtomicProofs ----------------------------
(***************************************************************************)
(* The service implements the atomic store, step by step, for every set of *)
(* clients, servers and keys, whatever calls fail and servers crash.       *)
(***************************************************************************)
EXTENDS StoreProofs

-----------------------------------------------------------------------------
(* The atomic store and the service mean the same by their requests: they  *)
(* use the same module of operations.                                      *)

\* Values.
LEMMA SameValues ==
  /\ Atomic!Absent = Absent /\ Atomic!ZeroByte = ZeroByte /\ Atomic!Empty = Empty
  /\ Atomic!Leased = Leased /\ Atomic!NullV = NullV /\ Atomic!NoResult = NoResult
  /\ Atomic!NoField = NoField /\ Atomic!NoErr = NoErr /\ Atomic!EmptyMap = EmptyMap
  /\ Atomic!NaN = NaN /\ Atomic!Panic = Panic /\ Atomic!Sentinel = Sentinel
  /\ Atomic!NoCall = NoReq
  BY DEF Atomic!Absent, Absent, Atomic!ZeroByte, ZeroByte, Atomic!Empty, Empty, Atomic!Leased, Leased,
         Atomic!NullV, NullV, Atomic!NoResult, NoResult, Atomic!NoField, NoField, Atomic!NoErr, NoErr,
         Atomic!EmptyMap, EmptyMap, Atomic!NaN, NaN, Atomic!Panic, Panic, Atomic!Sentinel, Sentinel,
         Atomic!Err, Err,
         Atomic!NoCall, NoReq

\* Constructors of replies, values and outcomes.
LEMMA SameConstructors ==
  \A v, x :
    /\ Atomic!Refuse(v) = Refuse(v) /\ Atomic!Return(v) = Return(v) /\ Atomic!Ok(v) = Ok(v)
    /\ Atomic!Err(v) = Err(v) /\ Atomic!NumV(v) = NumV(v) /\ Atomic!ElemV(v) = ElemV(v)
    /\ Atomic!BoolV(v) = BoolV(v) /\ Atomic!KeysV(v) = KeysV(v) /\ Atomic!ManyV(v) = ManyV(v)
    /\ Atomic!FieldsV(v) = FieldsV(v) /\ Atomic!RawV(v) = RawV(v)
    /\ Atomic!IntV(v) = IntV(v) /\ Atomic!FloatV(v) = FloatV(v) /\ Atomic!HashV(v) = HashV(v)
    /\ Atomic!Plain(v) = Plain(v)
    /\ Atomic!Write(v, x) = Write(v, x) /\ Atomic!ListV(v, x) = ListV(v, x) /\ Atomic!Pair(v, x) = Pair(v, x)
  BY SameValues
     DEF Atomic!Refuse, Refuse, Atomic!Return, Return, Atomic!Ok, Ok, Atomic!Err, Err, Atomic!NumV, NumV,
         Atomic!ElemV, ElemV, Atomic!BoolV, BoolV, Atomic!KeysV, KeysV, Atomic!ManyV, ManyV,
         Atomic!FieldsV, FieldsV, Atomic!RawV, RawV, Atomic!IntV, IntV, Atomic!FloatV,
         FloatV, Atomic!HashV, HashV, Atomic!Plain, Plain, Atomic!Write, Write, Atomic!ListV, ListV,
         Atomic!Pair, Pair

\* Encodings.
LEMMA SameEncodings ==
  \A v, x :
    /\ Atomic!Bytes(v) = Bytes(v) /\ Atomic!Blank(v) = Blank(v)
    /\ Atomic!Wrap(v) = Wrap(v) /\ Atomic!EncodeInt(v) = EncodeInt(v)
    /\ Atomic!EncodeFloat(v) = EncodeFloat(v) /\ Atomic!EncodeHash(v) = EncodeHash(v)
    /\ Atomic!EncodeList(v, x) = EncodeList(v, x)
  BY SameValues, SameConstructors
     DEF Atomic!Bytes, Bytes, Atomic!Blank, Blank, Atomic!Wrap, Wrap, Atomic!EncodeInt, EncodeInt,
         Atomic!EncodeFloat, EncodeFloat, Atomic!EncodeHash, EncodeHash, Atomic!EncodeList, EncodeList

\* Integers and floats.
LEMMA SameNumbers ==
  \A v, x :
    /\ Atomic!GetInt(v) = GetInt(v) /\ Atomic!GetFloat(v) = GetFloat(v)
    /\ Atomic!IncrementInt(v, x) = IncrementInt(v, x) /\ Atomic!DecrementInt(v, x) = DecrementInt(v, x)
    /\ Atomic!IncrementFloat(v, x) = IncrementFloat(v, x) /\ Atomic!DecrementFloat(v, x) = DecrementFloat(v, x)
  BY SameValues, SameConstructors, SameEncodings
     DEF Atomic!GetInt, GetInt, Atomic!GetFloat, GetFloat, Atomic!IncrementInt, IncrementInt,
         Atomic!DecrementInt, DecrementInt, Atomic!IncrementFloat, IncrementFloat, Atomic!DecrementFloat,
         DecrementFloat, Atomic!IsInt, IsInt, Atomic!AsInt, AsInt, Atomic!IsFloat, IsFloat,
         Atomic!AsFloat, AsFloat, Atomic!Plus, Plus, Atomic!Negated, Negated

\* Entries, positions and parts of lists.
LEMMA SameParts ==
  /\ \A v : /\ Atomic!Elems(v) = Elems(v) /\ Atomic!Limit(v) = Limit(v)
            /\ Atomic!IsList(v) = IsList(v) /\ Atomic!ListError(v) = ListError(v)
            /\ Atomic!Pairs(v) = Pairs(v)
  /\ \A s, x : /\ Atomic!IndexOf(s, x) = IndexOf(s, x)
               /\ Atomic!Position(s, x) = Position(s, x) /\ Atomic!InBounds(s, x) = InBounds(s, x)
               /\ Atomic!PastEnd(s, x) = PastEnd(s, x) /\ Atomic!BeforeStart(s, x) = BeforeStart(s, x)
               /\ Atomic!Without(s, x) = Without(s, x)
               /\ Atomic!enforceListLimit(s, x) = enforceListLimit(s, x)
<1>1. \A m : Atomic!SetToSeq(m) = SetToSeq(m)
  BY DEF Atomic!SetToSeq, SetToSeq, Atomic!IsInjective, IsInjective, Atomic!Cardinality, Cardinality
<1>2. \A m : Atomic!Pairs(m) = Pairs(m)
  BY <1>1, SameConstructors DEF Atomic!Pairs, Pairs
<1>3. \A s, x : Atomic!IndexOf(s, x) = IndexOf(s, x)
  BY DEF Atomic!IndexOf, IndexOf, Atomic!SelectInSeq, SelectInSeq, Atomic!Min, Min
<1>4. \A v : /\ Atomic!Elems(v) = Elems(v) /\ Atomic!Limit(v) = Limit(v)
            /\ Atomic!IsList(v) = IsList(v) /\ Atomic!ListError(v) = ListError(v)
  BY <1>2, SameValues, SameEncodings
     DEF Atomic!Elems, Elems, Atomic!Limit, Limit, Atomic!IsList, IsList, Atomic!ListError, ListError
<1>5. \A s, x : /\ Atomic!Position(s, x) = Position(s, x) /\ Atomic!InBounds(s, x) = InBounds(s, x)
               /\ Atomic!PastEnd(s, x) = PastEnd(s, x) /\ Atomic!BeforeStart(s, x) = BeforeStart(s, x)
               /\ Atomic!Without(s, x) = Without(s, x)
  BY SameEncodings DEF Atomic!Position, Position, Atomic!InBounds, InBounds, Atomic!PastEnd, PastEnd,
         Atomic!BeforeStart, BeforeStart, Atomic!Without, Without
<1>6. \A s, x : Atomic!enforceListLimit(s, x) = enforceListLimit(s, x)
  BY SameValues, SameConstructors, SameEncodings DEF Atomic!enforceListLimit, enforceListLimit
<1> QED
  BY <1>2, <1>3, <1>4, <1>5, <1>6

\* Lists.
LEMMA SameLists ==
  /\ \A v : /\ Atomic!GetList(v) = GetList(v)
            /\ Atomic!ListLength(v) = ListLength(v)
            /\ Atomic!ListPopLeft(v) = ListPopLeft(v)
            /\ Atomic!ListPopRight(v) = ListPopRight(v)
  /\ \A v, n : /\ Atomic!GetListItem(v, n) = GetListItem(v, n)
               /\ Atomic!ListHas(v, n) = ListHas(v, n)
               /\ Atomic!ListLimit(v, n) = ListLimit(v, n)
               /\ Atomic!ListDelete(v, n) = ListDelete(v, n)
               /\ Atomic!ListDeleteItem(v, n) = ListDeleteItem(v, n)
               /\ Atomic!ListAppend(v, n) = ListAppend(v, n)
  /\ \A v, n, i : /\ Atomic!SetListItem(v, n, i) = SetListItem(v, n, i)
                  /\ Atomic!ListInsert(v, n, i) = ListInsert(v, n, i)
<1>1. \A v : /\ Atomic!GetList(v) = GetList(v)
         /\ Atomic!ListLength(v) = ListLength(v)
         /\ Atomic!ListPopLeft(v) = ListPopLeft(v)
         /\ Atomic!ListPopRight(v) = ListPopRight(v)
  BY SameValues, SameConstructors, SameEncodings, SameParts
     DEF Atomic!GetList, GetList, Atomic!ListLength, ListLength, Atomic!ListPopLeft, ListPopLeft,
         Atomic!ListPopRight, ListPopRight
<1>2. \A v, n : /\ Atomic!GetListItem(v, n) = GetListItem(v, n)
         /\ Atomic!ListHas(v, n) = ListHas(v, n)
         /\ Atomic!ListLimit(v, n) = ListLimit(v, n)
         /\ Atomic!ListDelete(v, n) = ListDelete(v, n)
         /\ Atomic!ListDeleteItem(v, n) = ListDeleteItem(v, n)
         /\ Atomic!ListAppend(v, n) = ListAppend(v, n)
  BY SameValues, SameConstructors, SameEncodings, SameParts
     DEF Atomic!GetListItem, GetListItem, Atomic!ListHas, ListHas, Atomic!ListLimit, ListLimit,
         Atomic!ListDelete, ListDelete, Atomic!ListDeleteItem, ListDeleteItem, Atomic!ListAppend,
         ListAppend
<1>3. \A v, n, i : /\ Atomic!SetListItem(v, n, i) = SetListItem(v, n, i)
         /\ Atomic!ListInsert(v, n, i) = ListInsert(v, n, i)
  BY SameValues, SameConstructors, SameEncodings, SameParts
     DEF Atomic!SetListItem, SetListItem, Atomic!ListInsert, ListInsert
<1> QED
  BY <1>1, <1>2, <1>3

\* Hashes.
LEMMA SameHashes ==
  /\ \A v : /\ Atomic!GetHash(v) = GetHash(v)
            /\ Atomic!HashLength(v) = HashLength(v)
            /\ Atomic!HashFields(v) = HashFields(v)
            /\ Atomic!HashValues(v) = HashValues(v)
  /\ \A v, m : /\ Atomic!GetHashField(v, m) = GetHashField(v, m)
               /\ Atomic!GetHashFields(v, m) = GetHashFields(v, m)
               /\ Atomic!HashHas(v, m) = HashHas(v, m)
               /\ Atomic!SetHashFields(v, m) = SetHashFields(v, m)
               /\ Atomic!DelHashField(v, m) = DelHashField(v, m)
  /\ \A v, f, i : Atomic!SetHashField(v, f, i) = SetHashField(v, f, i)
<1>1. \A s : Atomic!MapOf(s) = MapOf(s) /\ Atomic!AllPairs(s) = AllPairs(s) /\ Atomic!Cardinality(s) = Cardinality(s)
  BY SameValues
     DEF Atomic!MapOf, MapOf, Atomic!LastOf, LastOf, Atomic!AllPairs, AllPairs, Atomic!Cardinality,
         Cardinality
<1>2. \A v, x : /\ Atomic!FieldMap(v) = FieldMap(v) /\ Atomic!IsHash(v) = IsHash(v)
               /\ Atomic!HashError(v) = HashError(v)
               /\ Atomic!Assign(v, x) = Assign(v, x) /\ Atomic!Select(v, x) = Select(v, x)
  BY <1>1, SameValues, SameEncodings
     DEF Atomic!FieldMap, FieldMap, Atomic!IsHash, IsHash, Atomic!HashError, HashError, Atomic!Assign,
         Assign, Atomic!Select, Select
<1>3. \A v : /\ Atomic!GetHash(v) = GetHash(v)
            /\ Atomic!HashLength(v) = HashLength(v)
            /\ Atomic!HashFields(v) = HashFields(v)
  BY <1>1, <1>2, SameValues, SameConstructors, SameEncodings
     DEF Atomic!GetHash, GetHash, Atomic!HashLength, HashLength, Atomic!HashFields, HashFields
<1>6. ASSUME NEW v PROVE Atomic!HashValues(v) = HashValues(v)
  <2> DEFINE ours == Pairs(FieldMap(v))
             list == [i \in 1 .. Len(ours) |-> Plain(ours[i].item)]
  <2>1. Atomic!Pairs(Atomic!FieldMap(v)) = ours
    BY <1>2, SameParts
  <2>2. \A i : Atomic!Plain(i) = Plain(i)
    BY SameConstructors
  <2>3. HashValues(v) = Return(IF IsHash(v) THEN Ok(ListV(list, 0)) ELSE Err(HashError(v)))
    BY DEF HashValues
  <2>4. Atomic!HashValues(v) = Atomic!Return(IF Atomic!IsHash(v) THEN Atomic!Ok(Atomic!ListV(list, 0))
                                             ELSE Atomic!Err(Atomic!HashError(v)))
    BY <2>1, <2>2 DEF Atomic!HashValues
  <2> HIDE DEF list
  <2> QED
    BY <2>3, <2>4, <1>2, SameConstructors
<1>4. \A v, m : /\ Atomic!GetHashField(v, m) = GetHashField(v, m)
         /\ Atomic!GetHashFields(v, m) = GetHashFields(v, m)
         /\ Atomic!HashHas(v, m) = HashHas(v, m)
         /\ Atomic!SetHashFields(v, m) = SetHashFields(v, m)
         /\ Atomic!DelHashField(v, m) = DelHashField(v, m)
  BY <1>1, <1>2, SameValues, SameConstructors, SameEncodings
     DEF Atomic!GetHashField, GetHashField, Atomic!GetHashFields, GetHashFields, Atomic!HashHas, HashHas,
         Atomic!SetHashFields, SetHashFields, Atomic!DelHashField, DelHashField
<1>5. \A v, f, i : Atomic!SetHashField(v, f, i) = SetHashField(v, f, i)
  BY <1>4 DEF Atomic!SetHashField, SetHashField
<1> QED
  BY <1>3, <1>4, <1>5, <1>6

\* Keys and bytes.
LEMMA SameKeys ==
  /\ \A v : Atomic!Get(v) = Get(v) /\ Atomic!Has(v) = Has(v) /\ Atomic!Length(v) = Length(v)
  /\ \A v, x : /\ Atomic!SetNX(v, x) = SetNX(v, x) /\ Atomic!GetMany(v, x) = GetMany(v, x)
               /\ Atomic!GetWithPrefix(v, x) = GetWithPrefix(v, x)
               /\ Atomic!KeysWithPrefix(v, x) = KeysWithPrefix(v, x)
  /\ \A v : Atomic!StoredKeys(v) = StoredKeys(v)
<1>1. \A v : Atomic!Get(v) = Get(v) /\ Atomic!Has(v) = Has(v) /\ Atomic!Length(v) = Length(v)
  BY SameValues, SameConstructors, SameEncodings
     DEF Atomic!Get, Get, Atomic!Has, Has, Atomic!Length, Length
<1>2. \A v, x : Atomic!SetNX(v, x) = SetNX(v, x)
  BY SameValues, SameConstructors DEF Atomic!SetNX, SetNX
<1>3. \A v, x : Atomic!WithPrefix(v, x) = WithPrefix(v, x)
  BY SameValues DEF Atomic!WithPrefix, WithPrefix
<1>4. ASSUME NEW v, NEW x PROVE Atomic!GetMany(v, x) = GetMany(v, x)
  <2>1. {<<k, Atomic!Bytes(v[k])>> : k \in {j \in x : v[j] # Absent}}
          = {<<k, Bytes(v[k])>> : k \in {j \in x : v[j] # Absent}}
    BY SameEncodings
  <2> QED
    BY <2>1, SameValues, SameConstructors DEF Atomic!GetMany, GetMany
<1>5. ASSUME NEW v, NEW x PROVE Atomic!GetWithPrefix(v, x) = GetWithPrefix(v, x)
  <2>1. {<<j, Atomic!Bytes(v[j])>> : j \in WithPrefix(v, x)} = {<<j, Bytes(v[j])>> : j \in WithPrefix(v, x)}
    BY SameEncodings
  <2> QED
    BY <2>1, <1>3, SameConstructors DEF Atomic!GetWithPrefix, GetWithPrefix
<1>6. \A v, x : Atomic!KeysWithPrefix(v, x) = KeysWithPrefix(v, x)
  BY <1>3, SameConstructors DEF Atomic!KeysWithPrefix, KeysWithPrefix
<1>7. \A v : Atomic!StoredKeys(v) = StoredKeys(v)
  BY SameValues, SameConstructors DEF Atomic!StoredKeys, StoredKeys
<1> QED
  BY <1>1, <1>2, <1>4, <1>5, <1>6, <1>7

\* Requests.
LEMMA SameRequests ==
  /\ \A r : Atomic!Field(r) = Field(r) /\ Atomic!Marshal(r) = Marshal(r)
  /\ \A r, v : Atomic!Decide(r, v) = Decide(r, v)
  /\ \A r, v : Atomic!Answer(r, v) = Answer(r, v)
  /\ Atomic!LockingOps = LockingOps /\ Atomic!ReadOps = ReadOps /\ Atomic!SetOps = SetOps
  /\ Atomic!UnlockSetOps = UnlockSetOps /\ Atomic!PopOps = PopOps
<1>1. \A r : Atomic!Field(r) = Field(r) /\ Atomic!Marshal(r) = Marshal(r)
  BY SameEncodings DEF Atomic!Field, Field, Atomic!Marshal, Marshal
<1>2. \A r, v : Atomic!Decide(r, v) = Decide(r, v)
  BY <1>1, SameConstructors, SameNumbers, SameLists, SameHashes, SameKeys DEF Atomic!Decide, Decide
<1>3. ASSUME NEW r, NEW v PROVE Atomic!Answer(r, v) = Answer(r, v)
  <2> DEFINE S == {e[1] : e \in r.many}
             w == v[r.key]
  <2>1. Atomic!GetMany(v, S) = GetMany(v, S)
    BY SameKeys
  <2> HIDE DEF S
  <2>2. /\ Atomic!Get(w) = Get(w) /\ Atomic!Has(w) = Has(w) /\ Atomic!Length(w) = Length(w)
        /\ Atomic!GetFloat(w) = GetFloat(w) /\ Atomic!GetInt(w) = GetInt(w)
        /\ Atomic!GetList(w) = GetList(w) /\ Atomic!GetListItem(w, r.n) = GetListItem(w, r.n)
        /\ Atomic!ListLength(w) = ListLength(w)
        /\ Atomic!ListHas(w, Atomic!Plain(r.item)) = ListHas(w, Plain(r.item))
    BY SameConstructors, SameNumbers, SameLists, SameKeys
  <2>3. /\ Atomic!GetHash(w) = GetHash(w)
        /\ Atomic!GetHashField(w, Atomic!Field(r)) = GetHashField(w, Field(r))
        /\ Atomic!GetHashFields(w, DOMAIN r.hash) = GetHashFields(w, DOMAIN r.hash)
        /\ Atomic!HashHas(w, Atomic!Field(r)) = HashHas(w, Field(r))
        /\ Atomic!HashLength(w) = HashLength(w) /\ Atomic!HashFields(w) = HashFields(w)
        /\ Atomic!HashValues(w) = HashValues(w)
    BY <1>1, SameHashes
  <2>4. /\ Atomic!GetWithPrefix(v, r.key) = GetWithPrefix(v, r.key)
        /\ Atomic!StoredKeys(v) = StoredKeys(v)
        /\ Atomic!KeysWithPrefix(v, r.key) = KeysWithPrefix(v, r.key)
    BY SameKeys
  <2> QED
    BY <2>1, <2>2, <2>3, <2>4 DEF Atomic!Answer, Answer, S
<1>4. /\ Atomic!LockingOps = LockingOps /\ Atomic!ReadOps = ReadOps /\ Atomic!SetOps = SetOps
      /\ Atomic!UnlockSetOps = UnlockSetOps /\ Atomic!PopOps = PopOps
  BY DEF Atomic!LockingOps, LockingOps, Atomic!ReadOps, ReadOps, Atomic!OneKeyReadOps, OneKeyReadOps,
         Atomic!BlockingReadOps, BlockingReadOps, Atomic!SetOps, SetOps, Atomic!UnlockSetOps,
         UnlockSetOps, Atomic!PopOps, PopOps
<1> QED
  BY <1>1, <1>2, <1>3, <1>4

-----------------------------------------------------------------------------
(* What the atomic store sees of a step.                                   *)

\* The keys of the store, and its values.
Store == [k \in Keys |-> kv[k]]

\* A step that changes the value of no key.
KeysKept == \A k \in Keys : kv'[k] = kv[k]

\* It may change one.
KeyWritten(b, v) == \A k \in Keys : kv'[k] = IF k = b THEN v ELSE kv[k]

\* A request is none of the idle handler's.
LEMMA Outstanding ==
  ASSUME TypeInv, NEW p \in Clients, h[p].pc # "idle"
  PROVE  h[p].req \in Requests /\ h[p].req.op \in AllOps /\ h[p].req.key \in Keys /\ h[p].req # NoReq
<1>1. h[p].req \in Requests /\ WellFormed(h[p].req)
  BY HandlerFacts
<1>2. h[p].req.op \in AllOps /\ h[p].req.key \in Keys
  BY <1>1, RequestType
<1>3. "none" \notin AllOps
  BY DEF AllOps, LockingOps, SetOps, UnlockOps, UnlockSetOps, ReadOps, OneKeyReadOps, BlockingReadOps
<1> QED
  BY <1>1, <1>2, <1>3 DEF NoReq

\* A step of a handler towards an answer.
LEMMA Unseen ==
  ASSUME KeysKept, res' = res, \A p \in Clients : h'[p].req = h[p].req
  PROVE  UNCHANGED Atomic!avars
<1>1. [k \in Keys |-> kv'[k]] = [k \in Keys |-> kv[k]]
  BY DEF KeysKept
<1>2. [p \in Clients |-> h'[p].req] = [p \in Clients |-> h[p].req]
  OBVIOUS
<1> QED
  BY <1>1, <1>2 DEF Atomic!avars

\* A handler returns.
LEMMA Responds ==
  ASSUME TypeInv, NEW p \in Clients, NEW ret, h[p].pc # "idle", Finish(p, ret)
  PROVE  Atomic!Respond(p, ret)
<1>1. h[p].req # NoReq
  BY Outstanding
<1>2. [q \in Clients |-> h'[q].req] = [[q \in Clients |-> h[q].req] EXCEPT ![p] = NoReq]
  BY DEF Finish, TypeInv, TypeOK, Idle
<1> QED
  BY <1>1, <1>2, SameValues DEF Atomic!Respond, Finish

\* The store of the abstraction after a step.
LEMMA StoreAfter ==
  /\ KeysKept => Store' = Store
  /\ \A b \in Keys : \A v : KeyWritten(b, v) => Store' = [Store EXCEPT ![b] = v]
  BY DEF KeysKept, KeyWritten, Store

\* A handler fails before it did anything.
LEMMA LosesOne ==
  ASSUME TypeInv, KeysKept, NEW p \in Clients, h[p].pc # "idle", Finish(p, Err("ErrUnavailable"))
  PROVE  Atomic!ANext
<1>1. h[p].req # NoReq
  BY Outstanding
<1>2. [q \in Clients |-> h'[q].req] = [q \in Clients |-> IF q \in {p} THEN NoReq ELSE h[q].req]
  BY DEF Finish, TypeInv, TypeOK, Idle
<1>3. res' = [q \in Clients |-> IF q \in {p} THEN Err("ErrUnavailable") ELSE res[q]]
  BY DEF Finish, TypeInv, TypeOK
<1>4. [k \in Keys |-> kv'[k]] = [k \in Keys |-> kv[k]]
  BY DEF KeysKept
<1>5. Atomic!Lost({p})
  BY <1>1, <1>2, <1>3, <1>4, SameValues, SameConstructors DEF Atomic!Lost
<1> QED
  BY <1>5 DEF Atomic!ANext

\* A server dies, with or without requests.
LEMMA LosesAll ==
  ASSUME TypeInv, KeysKept, NEW s, Down(s)
  PROVE  Atomic!ANext \/ UNCHANGED Atomic!avars
<1> DEFINE S == {q \in Clients : Serves(s, q)}
<1>1. CASE S = {}
  <2>1. \A q \in Clients : h'[q].req = h[q].req
    BY <1>1 DEF Down
  <2>2. res' = res
    BY <1>1 DEF Down, TypeInv, TypeOK
  <2> QED
    BY <2>1, <2>2, Unseen
<1>2. CASE S # {}
  <2>1. \A q \in S : h[q].req # NoReq
    BY Outstanding DEF Serves
  <2>2. [q \in Clients |-> h'[q].req] = [q \in Clients |-> IF q \in S THEN NoReq ELSE h[q].req]
    BY DEF Down, Idle
  <2>3. res' = [q \in Clients |-> IF q \in S THEN Err("ErrUnavailable") ELSE res[q]]
    BY DEF Down
  <2>4. [k \in Keys |-> kv'[k]] = [k \in Keys |-> kv[k]]
    BY DEF KeysKept
  <2>5. S \in SUBSET Clients
    OBVIOUS
  <2> HIDE DEF S
  <2> QED
    BY <1>2, <2>1, <2>2, <2>3, <2>4, <2>5, SameValues, SameConstructors DEF Atomic!Lost, Atomic!ANext
<1> QED
  BY <1>1, <1>2

\* A handler returns what the request, run alone, returns; so does the store.
LEMMA Does ==
  ASSUME TypeInv, NEW p \in Clients, h[p].pc # "idle",
         NEW st, NEW ret, Atomic!Effect(h[p].req) = [store |-> st, ret |-> ret],
         Finish(p, ret), Store' = st
  PROVE  Atomic!ANext
<1>1. Atomic!Respond(p, ret)
  BY Responds
<1>2. [q \in Clients |-> h[q].req][p] = h[p].req
  OBVIOUS
<1>3. Atomic!Do(p)
  <2>1. Atomic!Effect([q \in Clients |-> h[q].req][p]) = [store |-> st, ret |-> ret]
    BY <1>2
  <2>2. [k \in Keys |-> kv[k]]' = st
    BY DEF Store
  <2>3. /\ Atomic!Effect([q \in Clients |-> h[q].req][p]).ret = ret
        /\ Atomic!Effect([q \in Clients |-> h[q].req][p]).store = st
    BY <2>1
  <2>4. Atomic!Respond(p, Atomic!Effect([q \in Clients |-> h[q].req][p]).ret)
    BY <1>1, <2>3 DEF Atomic!Respond
  <2>5. [k \in Keys |-> kv[k]]' = Atomic!Effect([q \in Clients |-> h[q].req][p]).store
    BY <2>2, <2>3
  <2> QED
    BY <2>4, <2>5 DEF Atomic!Do, Atomic!Respond
<1> QED
  BY <1>3 DEF Atomic!ANext

\* The request took effect, and its answer was lost.
LEMMA DoesUnanswered ==
  ASSUME TypeInv, NEW p \in Clients, h[p].pc # "idle",
         NEW st, NEW ret, Atomic!Effect(h[p].req) = [store |-> st, ret |-> ret],
         Finish(p, Err("ErrUnavailable")), Store' = st
  PROVE  Atomic!ANext
<1>1. Atomic!Respond(p, Err("ErrUnavailable"))
  BY Responds
<1>2. [q \in Clients |-> h[q].req][p] = h[p].req
  OBVIOUS
<1>3. Atomic!LostAnswer(p)
  <2>1. Atomic!Effect([q \in Clients |-> h[q].req][p]) = [store |-> st, ret |-> ret]
    BY <1>2
  <2>2. [k \in Keys |-> kv[k]]' = st
    BY DEF Store
  <2>3. [k \in Keys |-> kv[k]]' = Atomic!Effect([q \in Clients |-> h[q].req][p]).store
    BY <2>1, <2>2
  <2>4. Atomic!Respond(p, Atomic!Err("ErrUnavailable"))
    BY <1>1, SameConstructors DEF Atomic!Respond
  <2> QED
    BY <2>3, <2>4 DEF Atomic!LostAnswer, Atomic!Respond
<1> QED
  BY <1>3 DEF Atomic!ANext

\* The key is locked by another.
LEMMA IsTurnedAway ==
  ASSUME TypeInv, KeysKept, NEW p \in Clients, h[p].pc # "idle", h[p].req.op \notin ReadOps,
         Finish(p, Err("ErrKeyLocked"))
  PROVE  Atomic!ANext
<1>1. Atomic!Respond(p, Err("ErrKeyLocked"))
  BY Responds
<1>2. [k \in Keys |-> kv'[k]] = [k \in Keys |-> kv[k]]
  BY DEF KeysKept
<1>3. Atomic!TurnedAway(p)
  BY <1>1, <1>2, SameConstructors, SameRequests DEF Atomic!TurnedAway
<1> QED
  BY <1>3 DEF Atomic!ANext

-----------------------------------------------------------------------------
(* What a request does when it runs alone.                                 *)

\* A locking handler.
LEMMA LockingAlone ==
  ASSUME NEW r, r.key \in Keys, r.op \in LockingOps
  PROVE  LET o == Decide(r, kv[r.key])
         IN  Atomic!Effect(r) =
               IF o.do # "write" THEN [store |-> Store, ret |-> o.ret]
               ELSE IF r.key = Sentinel THEN [store |-> Store, ret |-> Err("ErrInvalidKey")]
               ELSE [store |-> [Store EXCEPT ![r.key] = o.val], ret |-> o.ret]
<1> DEFINE o == Decide(r, kv[r.key])
<1>1. Atomic!Decide(r, [k \in Keys |-> kv[k]][r.key]) = o
  BY SameRequests
<1>2. /\ r.op \in Atomic!LockingOps /\ r.op \notin Atomic!ReadOps
      /\ r.op \notin Atomic!SetOps \cup Atomic!UnlockSetOps
      /\ r.op \notin {"Delete", "Clear", "SetExpire"}
      /\ Atomic!Sentinel = Sentinel
  BY OpClasses, SameRequests, SameValues
<1>3. Atomic!Err("ErrInvalidKey") = Err("ErrInvalidKey")
  BY SameConstructors
<1> HIDE DEF o
<1>4. Atomic!Effect(r) =
         IF o.do # "write" THEN [store |-> Store, ret |-> o.ret]
         ELSE IF r.key = Sentinel THEN [store |-> Store, ret |-> Err("ErrInvalidKey")]
         ELSE [store |-> [Store EXCEPT ![r.key] = o.val], ret |-> o.ret]
  BY <1>1, <1>2, <1>3 DEF Atomic!Effect, Atomic!Put, Atomic!Same, Store
<1> QED
  BY <1>4 DEF o

\* A handler that sets a value.
LEMMA SettingAlone ==
  ASSUME NEW r, r.key \in Keys, r.op \in SetOps \cup UnlockSetOps
  PROVE  Atomic!Effect(r) = IF r.key = Sentinel THEN [store |-> Store, ret |-> Err("ErrInvalidKey")]
                            ELSE [store |-> [Store EXCEPT ![r.key] = Marshal(r)], ret |-> Ok(NullV)]
<1>1. /\ r.op \notin Atomic!LockingOps /\ r.op \notin Atomic!ReadOps
      /\ r.op \in Atomic!SetOps \cup Atomic!UnlockSetOps
      /\ r.op \notin {"Delete", "Clear", "SetExpire"}
  BY OpClasses, SameRequests
<1>2. Atomic!Sentinel = Sentinel /\ Atomic!Marshal(r) = Marshal(r)
  BY SameRequests, SameValues
<1>3. Atomic!Err("ErrInvalidKey") = Err("ErrInvalidKey") /\ Atomic!Ok(Atomic!NullV) = Ok(NullV)
  BY SameConstructors, SameValues
<1> QED
  BY <1>1, <1>2, <1>3 DEF Atomic!Effect, Atomic!Put, Atomic!Same, Store

\* Delete, and the requests that only have to do with locks.
LEMMA OthersAlone ==
  ASSUME NEW r
  PROVE  /\ r.op = "Delete" =>
              Atomic!Effect(r) = [store |-> [Store EXCEPT ![r.key] = Absent], ret |-> Ok(NullV)]
         /\ r.op \in {"Lock", "Unlock"} => Atomic!Effect(r) = [store |-> Store, ret |-> Ok(NullV)]
<1>1. r.op \in {"Delete", "Lock", "Unlock"} =>
        r.op \notin LockingOps /\ r.op \notin ReadOps /\ r.op \notin SetOps \cup UnlockSetOps
  BY OpClasses
<1>2. Atomic!Same(Ok(NullV)) = [store |-> Store, ret |-> Ok(NullV)]
  BY DEF Atomic!Same, Store
<1>3. r.op = "Delete" => Atomic!Effect(r) = [store |-> [Store EXCEPT ![r.key] = Absent], ret |-> Ok(NullV)]
  BY <1>1, SameRequests, SameConstructors, SameValues DEF Atomic!Effect, Store
<1>4. r.op \in {"Lock", "Unlock"} => Atomic!Effect(r) = Atomic!Same(Ok(NullV))
  BY <1>1, SameRequests, SameConstructors, SameValues DEF Atomic!Effect
<1> QED
  BY <1>2, <1>3, <1>4

\* A reader, when no lock name is a key and no answer lists the names.
Scoped == /\ Depth = 2
          /\ \A r \in Requests : r.op \notin {"SetMany", "GetWithPrefix", "Keys", "KeysWithPrefix"}

\* What a request reads, the abstract store answers with in the same state.
LEMMA ReadingAlone ==
  ASSUME Polite, Scoped, NEW r \in Requests, r.op \in ReadOps
  PROVE  Atomic!Effect(r) = [store |-> Store, ret |-> Answer(r, kv).ret]
<1>1. r.key \in Keys /\ Sentinel \in Keys /\ \A e \in r.many : e[1] \in Keys
  BY LockNames, NamesAssumption DEF Polite, BaseKeys, Sentinel
<1>2. r.op \in OneKeyReadOps \cup {"GetMany"}
  BY DEF Scoped, ReadOps
<1>3. Store[r.key] = kv[r.key]
  BY <1>1 DEF Store
<1>4. GetMany(Store, {e[1] : e \in r.many}) = GetMany(kv, {e[1] : e \in r.many})
  <2> DEFINE S == {e[1] : e \in r.many}
  <2>1. \A k \in S \cup {Sentinel} : Store[k] = kv[k]
    BY <1>1 DEF Store
  <2> HIDE DEF S
  <2>2. {j \in S : Store[j] # Absent} = {j \in S : kv[j] # Absent}
    BY <2>1
  <2>3. {<<k, Bytes(Store[k])>> : k \in {j \in S : Store[j] # Absent}}
          = {<<k, Bytes(kv[k])>> : k \in {j \in S : kv[j] # Absent}}
    BY <2>1, <2>2
  <2>4. GetMany(Store, S) = GetMany(kv, S)
    BY <2>1, <2>3 DEF GetMany
  <2> QED
    BY <2>4 DEF S
<1>5. Answer(r, Store) = Answer(r, kv)
  BY <1>2, <1>3, <1>4 DEF Answer, OneKeyReadOps, BlockingReadOps
<1>6. /\ r.op \notin Atomic!LockingOps /\ r.op \in Atomic!ReadOps
      /\ r.op \notin Atomic!SetOps \cup Atomic!UnlockSetOps
      /\ r.op \notin {"Delete", "Clear", "SetExpire"}
  BY OpClasses, SameRequests
<1>7. Atomic!Answer(r, [k \in Keys |-> kv[k]]) = Answer(r, Store)
  BY SameRequests DEF Store
<1> QED
  BY <1>5, <1>6, <1>7 DEF Atomic!Effect, Atomic!Same, Store

-----------------------------------------------------------------------------
(* Every step is one of the atomic store's, or none that it sees.          *)

Mapped == Atomic!ANext \/ UNCHANGED Atomic!avars

\* With two kinds of names, keys and their locks, every key is a base key.
LEMMA KeysAreBase ==
  ASSUME Depth = 2 PROVE Keys = BaseKeys
<1>1. 0 .. (Depth - 2) = {0}
  OBVIOUS
<1> QED
  BY <1>1 DEF Keys, BaseKeys

\* Taking and releasing locks changes no key.
LEMMA LockTxnsUnseen ==
  ASSUME TypeInv, Depth = 2, NEW b \in Keys, kv' \in {kv, LockTxn(b), DeleteTxn(getLockName(b))}
  PROVE  KeysKept
<1>1. \A k \in Keys : LockTxn(b)[k] = kv[k] /\ DeleteTxn(getLockName(b))[k] = kv[k]
  BY LockTxnsKeep, KeysAreBase
<1> QED
  BY <1>1 DEF KeysKept

\* A request is received.
LEMMA StartMapped ==
  ASSUME TypeInv, FitInv, NEW p \in Clients, NEW r \in Requests, NEW s \in Servers, Start(p, r, s)
  PROVE  Mapped
<1>1. h[p].req = NoReq
  BY DEF Start, FitInv, Fit
<1>2. [q \in Clients |-> h'[q].req] = [[q \in Clients |-> h[q].req] EXCEPT ![p] = r]
  BY DEF Start, TypeInv, TypeOK
<1>3. res' = [res EXCEPT ![p] = NoResult] /\ kv' = kv
  BY DEF Start
<1>4. Atomic!Call(p, r)
  BY <1>1, <1>2, <1>3, SameValues DEF Atomic!Call
<1> QED
  BY <1>4 DEF Mapped, Atomic!ANext

\* A handler, or a client, takes the lock ...
LEMMA AcquireMapped ==
  ASSUME TypeInv, Depth = 2, NEW p \in Clients, LockAcquire(p)
  PROVE  Mapped
<1>1. h[p].pc = "lock" /\ h[p].pc # "idle"
  BY DEF LockAcquire
<1>2. PICK b \in Keys : b = Key(p)
  BY <1>1, HandlerFacts
<1>3. KeysKept
  BY <1>2, LockTxnsUnseen DEF LockAcquire
<1>4. CASE h[p].req.op = "Lock"
  <2>1. Atomic!Effect(h[p].req) = [store |-> Store, ret |-> Ok(NullV)]
    BY <1>4, OthersAlone
  <2>2. Finish(p, Ok(NullV))
    BY <1>4 DEF LockAcquire
  <2>3. Store' = Store
    BY <1>3, StoreAfter
  <2> QED
    BY <1>1, <2>1, <2>2, <2>3, Does DEF Mapped
<1>5. CASE h[p].req.op # "Lock"
  <2>1. Goto(p, "read")
    BY <1>5 DEF LockAcquire
  <2>2. res' = res /\ \A q \in Clients : h'[q].req = h[q].req
    BY <2>1 DEF Goto, TypeInv, TypeOK, Handlers
  <2> QED
    BY <1>3, <2>2, Unseen DEF Mapped
<1> QED
  BY <1>4, <1>5

\* ... or gives up.
LEMMA LockTimeoutMapped ==
  ASSUME TypeInv, NEW p \in Clients, LockTimeout(p)
  PROVE  Mapped
<1>1. h[p].pc = "lock" /\ h[p].pc # "idle"
  BY DEF LockTimeout
<1>2. h[p].req.op \notin ReadOps
  BY <1>1, HandlerFacts, OpClasses DEF WellPlaced
<1>3. KeysKept /\ Finish(p, Err("ErrKeyLocked"))
  BY DEF LockTimeout, KeysKept
<1> QED
  BY <1>1, <1>2, <1>3, IsTurnedAway DEF Mapped

\* A handler reads the key it has locked.
LEMMA ReadMapped ==
  ASSUME TypeInv, NEW p \in Clients, Read(p)
  PROVE  Mapped
<1> DEFINE o == Decide(h[p].req, kv[Key(p)])
<1>1. h[p].pc = "read" /\ h[p].pc # "idle" /\ KeysKept
  BY DEF Read, KeysKept
<1>2. h[p].req.op \in LockingOps /\ h[p].req.key \in Keys
  BY <1>1, HandlerFacts DEF WellPlaced, Key
<1>3. o = Decide(h[p].req, kv[h[p].req.key])
  BY DEF Key
<1>4. \/ /\ h' = [h EXCEPT ![p].pc = IF o.do = "write" THEN "commit" ELSE "release",
                           ![p].out = o, ![p].got = kv[Key(p)]]
         /\ res' = res
      \/ o.do = "return" /\ Finish(p, o.ret)
      \/ Down(h[p].host)
  BY DEF Read
<1> HIDE DEF o
<1>5. CASE /\ h' = [h EXCEPT ![p].pc = IF o.do = "write" THEN "commit" ELSE "release",
                             ![p].out = o, ![p].got = kv[Key(p)]]
           /\ res' = res
  <2>1. \A q \in Clients : h'[q].req = h[q].req
    BY <1>5, HandlerFacts DEF TypeInv, TypeOK, Handlers
  <2> QED
    BY <1>1, <1>5, <2>1, Unseen DEF Mapped
<1>6. CASE o.do = "return" /\ Finish(p, o.ret)
  <2>1. Atomic!Effect(h[p].req) = [store |-> Store, ret |-> o.ret]
    BY <1>2, <1>3, <1>6, LockingAlone
  <2>2. Store' = Store
    BY <1>1, StoreAfter
  <2> QED
    BY <1>1, <1>6, <2>1, <2>2, Does DEF Mapped
<1>7. CASE Down(h[p].host)
  BY <1>1, <1>7, LosesAll DEF Mapped
<1> QED
  BY <1>4, <1>5, <1>6, <1>7

\* What UnlockThenSet returns and writes is what its request does alone: what a
\* locking handler decided from is still stored.
LEMMA CommitAlone ==
  ASSUME TypeInv, FitInv, FreshRead, NEW p \in Clients, h[p].pc = "commit"
  PROVE  Atomic!Effect(h[p].req) =
           IF Key(p) = Sentinel THEN [store |-> Store, ret |-> Err("ErrInvalidKey")]
           ELSE [store |-> [Store EXCEPT ![Key(p)] = h[p].out.val], ret |-> h[p].out.ret]
<1>1. h[p].pc # "idle" /\ Fit(h[p]) /\ Key(p) = h[p].req.key /\ Key(p) \in Keys
  BY HandlerFacts DEF FitInv, Key
<1>2. CASE h[p].req.op \in LockingOps
  <2>1. h[p].out = Decide(h[p].req, h[p].got) /\ h[p].out.do = "write"
    BY <1>1, <1>2 DEF Fit
  <2>2. kv[h[p].req.key] = h[p].got
    BY <1>1, <1>2 DEF FreshRead
  <2> QED
    BY <1>1, <1>2, <2>1, <2>2, LockingAlone
<1>3. CASE h[p].req.op \in UnlockSetOps
  <2>1. h[p].out = Write(Marshal(h[p].req), NullV)
    BY <1>1, <1>3 DEF Fit
  <2>2. h[p].out.val = Marshal(h[p].req) /\ h[p].out.ret = Ok(NullV)
    BY <2>1 DEF Write
  <2> QED
    BY <1>1, <1>3, <2>2, SettingAlone
<1> QED
  BY <1>1, <1>2, <1>3 DEF Fit

\* UnlockThenSet writes its key and nothing else.
LEMMA CommitWrites ==
  ASSUME TypeInv, SentinelClear, Depth = 2, NEW b \in Keys, NEW v, kv' = UnlockThenSetTxn(b, v)
  PROVE  KeyWritten(b, v)
<1>1. \A k \in Keys : UnlockThenSetTxn(b, v)[k] = IF k = b THEN v ELSE kv[k]
  BY CommitTxnKeeps, KeysAreBase DEF SentinelClear
<1> QED
  BY <1>1 DEF KeyWritten

\* The commit that ends a read and write is one step of the abstract store.
LEMMA CommitMapped ==
  ASSUME StoreInv, TypeInv, Depth = 2, NEW p \in Clients, UnlockThenSet(p)
  PROVE  Mapped
<1>1. h[p].pc = "commit" /\ h[p].pc # "idle" /\ FitInv /\ FreshRead /\ SentinelClear
  BY DEF UnlockThenSet, StoreInv
<1>2. PICK b \in Keys : b = Key(p)
  BY <1>1, HandlerFacts
<1>3. CASE b = Sentinel
  <2>1. Atomic!Effect(h[p].req) = [store |-> Store, ret |-> Err("ErrInvalidKey")]
    BY <1>1, <1>2, <1>3, CommitAlone
  <2>2. Finish(p, Err("ErrInvalidKey")) /\ Store' = Store
    BY <1>2, <1>3, StoreAfter DEF UnlockThenSet, KeysKept
  <2> QED
    BY <1>1, <2>1, <2>2, Does DEF Mapped
<1>4. CASE b # Sentinel
  <2>1. PICK v : v = h[p].out.val
    OBVIOUS
  <2>2. Atomic!Effect(h[p].req) = [store |-> [Store EXCEPT ![b] = v], ret |-> h[p].out.ret]
    BY <1>1, <1>2, <1>4, <2>1, CommitAlone
  <2>3. Finish(p, h[p].out.ret) /\ kv' = UnlockThenSetTxn(b, v)
    BY <1>2, <1>4, <2>1 DEF UnlockThenSet
  <2>4. Store' = [Store EXCEPT ![b] = v]
    BY <1>1, <2>3, CommitWrites, StoreAfter
  <2> QED
    BY <1>1, <2>2, <2>3, <2>4, Does DEF Mapped
<1> QED
  BY <1>3, <1>4

\* A handler goes on after its Unlock: it returns what its request returns
\* alone or that its read failed, or a blocking pop tries again.
LEMMA AfterUnlockMapped ==
  ASSUME TypeInv, FitInv, FreshRead, KeysKept, NEW p \in Clients, h[p].pc = "release", AfterUnlock(p)
  PROVE  Mapped
<1>1. h[p].pc # "idle" /\ Fit(h[p]) /\ Key(p) = h[p].req.key /\ Key(p) \in Keys
  BY HandlerFacts DEF FitInv, Key
<1>2. Store' = Store
  BY StoreAfter
<1>3. \/ /\ h' = [h EXCEPT ![p].pc = IF h[p].loop THEN "wait" ELSE "lock", ![p].loop = TRUE]
         /\ res' = res
      \/ Finish(p, h[p].out.ret)
  BY DEF AfterUnlock
<1>4. CASE /\ h' = [h EXCEPT ![p].pc = IF h[p].loop THEN "wait" ELSE "lock", ![p].loop = TRUE]
           /\ res' = res
  <2>1. \A q \in Clients : h'[q].req = h[q].req
    BY <1>4, HandlerFacts DEF TypeInv, TypeOK, Handlers
  <2> QED
    BY <1>4, <2>1, Unseen DEF Mapped
<1>5. CASE Finish(p, h[p].out.ret)
  <2>1. CASE h[p].req.op = "Unlock"
    <3>1. h[p].out = Return(Ok(NullV))
      BY <1>1, <2>1 DEF Fit
    <3>2. h[p].out.ret = Ok(NullV)
      BY <3>1 DEF Return
    <3>3. Atomic!Effect(h[p].req) = [store |-> Store, ret |-> h[p].out.ret]
      BY <2>1, <3>2, OthersAlone
    <3> QED
      BY <1>1, <1>2, <1>5, <3>3, Does DEF Mapped
  <2>2. CASE h[p].req.op \in LockingOps /\ h[p].out = Decide(h[p].req, h[p].got) /\ h[p].out.do = "unlock"
    <3>1. kv[h[p].req.key] = h[p].got
      BY <1>1, <2>2 DEF FreshRead
    <3>2. Atomic!Effect(h[p].req) = [store |-> Store, ret |-> h[p].out.ret]
      BY <1>1, <2>2, <3>1, LockingAlone
    <3> QED
      BY <1>1, <1>2, <1>5, <3>2, Does DEF Mapped
  <2>3. CASE h[p].out = Refuse(Err("ErrUnavailable"))
    <3>1. Finish(p, Err("ErrUnavailable"))
      BY <1>5, <2>3 DEF Refuse
    <3> QED
      BY <1>1, <3>1, LosesOne DEF Mapped
  <2> QED
    BY <1>1, <2>1, <2>2, <2>3 DEF Fit
<1> QED
  BY <1>3, <1>4, <1>5

\* The unlocking step itself.
LEMMA UnlockMapped ==
  ASSUME Polite, Depth = 2, StoreInv, TypeInv, NEW p \in Clients, Unlock(p) \/ UnlockTimeout(p)
  PROVE  Mapped
<1>1. h[p].pc = "release" /\ h[p].pc # "idle" /\ FitInv /\ FreshRead /\ LockInv
  BY DEF Unlock, UnlockTimeout, StoreInv, Inv
<1>2. PICK b \in BaseKeys : b = Key(p)
  BY <1>1, PoliteKey
<1>3. ~Locked(getLockName(b)) /\ b \in Keys
  BY <1>1, LockOfLock, LockNames
<1>4. ~UnlockTimeout(p)
  BY <1>2, <1>3 DEF UnlockTimeout
<1>5. AfterUnlock(p) /\ kv' = DeleteTxn(getLockName(b))
  BY <1>2, <1>4 DEF Unlock
<1>6. KeysKept
  BY <1>3, <1>5, LockTxnsUnseen
<1> QED
  BY <1>1, <1>5, <1>6, AfterUnlockMapped

\* A blocking pop tries again or gives up.
LEMMA WaitMapped ==
  ASSUME TypeInv, FitInv, NEW p \in Clients, PopAgain(p) \/ PopGiveUp(p)
  PROVE  Mapped
<1>1. h[p].pc = "wait" /\ h[p].pc # "idle" /\ Fit(h[p]) /\ KeysKept
  BY DEF PopAgain, PopGiveUp, FitInv, KeysKept
<1>2. CASE PopAgain(p)
  <2>1. res' = res /\ \A q \in Clients : h'[q].req = h[q].req
    BY <1>2, HandlerFacts DEF PopAgain, Goto, TypeInv, TypeOK, Handlers
  <2> QED
    BY <1>1, <2>1, Unseen DEF Mapped
<1>3. CASE PopGiveUp(p)
  <2>1. h[p].req.op \in PopOps /\ h[p].req.block /\ h[p].out.ret = Err("ErrListEmpty")
    BY <1>1 DEF Fit
  <2>2. Finish(p, Err("ErrListEmpty"))
    BY <1>3, <2>1 DEF PopGiveUp
  <2>3. Atomic!Respond(p, Err("ErrListEmpty"))
    BY <1>1, <2>2, Responds
  <2>4. [k \in Keys |-> kv'[k]] = [k \in Keys |-> kv[k]]
    BY <1>1 DEF KeysKept
  <2>5. Atomic!TimedOut(p)
    BY <2>1, <2>3, <2>4, SameConstructors, SameRequests DEF Atomic!TimedOut
  <2> QED
    BY <2>5 DEF Mapped, Atomic!ANext
<1> QED
  BY <1>2, <1>3

-----------------------------------------------------------------------------
(* Requests of one etcd call.                                              *)

\* A transaction that compares the lock writes its key or nothing.
LEMMA GuardedWrites ==
  ASSUME TypeInv, NEW b \in Keys, NEW v
  PROVE  /\ Locked(b) /\ kv' \in {kv, PutTxn(b, v), DeleteTxn(b)} => KeysKept
         /\ ~Locked(b) /\ kv' = PutTxn(b, v) => KeyWritten(b, v)
         /\ ~Locked(b) /\ kv' = DeleteTxn(b) => KeyWritten(b, Absent)
<1>1. b \in Names /\ \A k \in Keys : k \in Names
  BY NamesType
<1> QED
  BY <1>1 DEF TypeInv, TypeOK, PutTxn, DeleteTxn, KeysKept, KeyWritten

\* A Set is one step of the abstract store.
LEMMA SetMapped ==
  ASSUME TypeInv, FitInv, NEW p \in Clients, Set(p)
  PROVE  Mapped
<1>1. h[p].pc = "put" /\ h[p].pc # "idle" /\ h[p].req.op \in SetOps /\ h[p].out.ret = Ok(NullV)
  BY DEF Set, FitInv, Fit, Return
<1>2. PICK b \in Keys : b = Key(p) /\ b = h[p].req.key
  BY <1>1, HandlerFacts DEF Key
<1>3. PICK v : v = Marshal(h[p].req)
  OBVIOUS
<1>4. Atomic!Effect(h[p].req) = IF b = Sentinel THEN [store |-> Store, ret |-> Err("ErrInvalidKey")]
                                ELSE [store |-> [Store EXCEPT ![b] = v], ret |-> Ok(NullV)]
  BY <1>1, <1>2, <1>3, SettingAlone
<1>5. CASE b = Sentinel /\ Finish(p, Err("ErrInvalidKey")) /\ kv' = kv
  <2>1. Store' = Store
    BY <1>5, StoreAfter DEF KeysKept
  <2> QED
    BY <1>1, <1>4, <1>5, <2>1, Does DEF Mapped
<1>6. CASE b # Sentinel /\ ~Locked(b) /\ kv' = PutTxn(b, v) /\ Finish(p, Ok(NullV))
  <2>1. Store' = [Store EXCEPT ![b] = v]
    BY <1>6, GuardedWrites, StoreAfter
  <2> QED
    BY <1>1, <1>4, <1>6, <2>1, Does DEF Mapped
<1>7. CASE Finish(p, Err("ErrKeyLocked")) /\ kv' = kv
  BY <1>1, <1>7, OpClasses, IsTurnedAway DEF Mapped, KeysKept
<1> QED
  BY <1>1, <1>2, <1>3, <1>5, <1>6, <1>7 DEF Set

\* So is a Delete.
LEMMA DeleteMapped ==
  ASSUME TypeInv, FitInv, NEW p \in Clients, Delete(p)
  PROVE  Mapped
<1>1. h[p].pc = "delete" /\ h[p].pc # "idle" /\ h[p].req.op = "Delete" /\ h[p].out.ret = Ok(NullV)
  BY DEF Delete, FitInv, Fit, Return
<1>2. PICK b \in Keys : b = Key(p) /\ b = h[p].req.key
  BY <1>1, HandlerFacts DEF Key
<1>3. kv' = DeleteTxn(b)
  BY <1>2 DEF Delete
<1>4. CASE Locked(b)
  <2>1. KeysKept
    BY <1>3, <1>4, GuardedWrites
  <2>2. Finish(p, Err("ErrKeyLocked")) /\ h[p].req.op \notin ReadOps
    BY <1>1, <1>2, <1>4, OpClasses DEF Delete
  <2> QED
    BY <1>1, <2>1, <2>2, IsTurnedAway DEF Mapped
<1>5. CASE ~Locked(b)
  <2>1. Store' = [Store EXCEPT ![b] = Absent]
    BY <1>3, <1>5, GuardedWrites, StoreAfter
  <2>2. Finish(p, Ok(NullV))
    BY <1>1, <1>2, <1>5 DEF Delete
  <2>3. Atomic!Effect(h[p].req) = [store |-> [Store EXCEPT ![b] = Absent], ret |-> Ok(NullV)]
    BY <1>1, <1>2, OthersAlone
  <2> QED
    BY <1>1, <2>1, <2>2, <2>3, Does DEF Mapped
<1> QED
  BY <1>4, <1>5

\* A reader of one key that finds nothing says so.
LEMMA MissingAnswer ==
  ASSUME NEW r, r.op \in BlockingReadOps, kv[r.key] = Absent
  PROVE  Answer(r, kv).ret = Err("ErrKeyNotFound")
<1>1. ~Blank(Absent) /\ Absent.type = "absent"
  BY DEF Blank, Absent, Empty, Leased, IntV, FloatV
<1>2. ~IsInt(Absent) /\ ~IsFloat(Absent) /\ ~IsList(Absent) /\ ~IsHash(Absent)
  BY <1>1 DEF IsInt, IsFloat, IsList, IsHash
<1>3. /\ Get(Absent).ret = Err("ErrKeyNotFound") /\ Length(Absent).ret = Err("ErrKeyNotFound")
      /\ GetInt(Absent).ret = Err("ErrKeyNotFound") /\ GetFloat(Absent).ret = Err("ErrKeyNotFound")
      /\ GetList(Absent).ret = Err("ErrKeyNotFound") /\ ListLength(Absent).ret = Err("ErrKeyNotFound")
  BY <1>2 DEF Get, Length, GetInt, GetFloat, GetList, ListLength, ListError, NoErr, Return
<1>4. /\ GetHash(Absent).ret = Err("ErrKeyNotFound") /\ HashLength(Absent).ret = Err("ErrKeyNotFound")
      /\ HashFields(Absent).ret = Err("ErrKeyNotFound") /\ HashValues(Absent).ret = Err("ErrKeyNotFound")
  BY <1>2 DEF GetHash, HashLength, HashFields, HashValues, HashError, Return
<1>5. /\ r.op = "Get" => Answer(r, kv) = Get(Absent)
      /\ r.op = "Length" => Answer(r, kv) = Length(Absent)
      /\ r.op = "GetInt" => Answer(r, kv) = GetInt(Absent)
      /\ r.op = "GetFloat" => Answer(r, kv) = GetFloat(Absent)
      /\ r.op = "GetList" => Answer(r, kv) = GetList(Absent)
      /\ r.op = "ListLength" => Answer(r, kv) = ListLength(Absent)
      /\ r.op = "GetHash" => Answer(r, kv) = GetHash(Absent)
      /\ r.op = "HashLength" => Answer(r, kv) = HashLength(Absent)
      /\ r.op = "HashFields" => Answer(r, kv) = HashFields(Absent)
      /\ r.op = "HashValues" => Answer(r, kv) = HashValues(Absent)
  BY DEF Answer
<1> QED
  BY <1>3, <1>4, <1>5 DEF BlockingReadOps

\* A reader answers from the store as it is, or the server dies of it.
LEMMA GetMapped ==
  ASSUME Polite, Scoped, TypeInv, NEW p \in Clients, GetNow(p) \/ GetBlock(p)
  PROVE  Mapped
<1>1. h[p].pc = "get" /\ h[p].pc # "idle" /\ KeysKept
  BY DEF GetNow, GetBlock, KeysKept
<1>2. h[p].req \in Requests /\ h[p].req.op \in ReadOps
  BY <1>1, HandlerFacts DEF WellPlaced
<1>3. Atomic!Effect(h[p].req) = [store |-> Store, ret |-> Answer(h[p].req, kv).ret]
  BY <1>2, ReadingAlone
<1>4. Store' = Store
  BY <1>1, StoreAfter
<1>5. CASE Down(h[p].host)
  BY <1>1, <1>5, LosesAll DEF Mapped
<1>6. CASE Finish(p, Answer(h[p].req, kv).ret)
  BY <1>1, <1>3, <1>4, <1>6, Does DEF Mapped
<1>7. CASE h' = [h EXCEPT ![p].loop = TRUE] /\ res' = res
  <2>1. \A q \in Clients : h'[q].req = h[q].req
    BY <1>7, HandlerFacts DEF TypeInv, TypeOK, Handlers
  <2> QED
    BY <1>1, <1>7, <2>1, Unseen DEF Mapped
<1>8. CASE GetBlock(p) /\ Finish(p, Err("ErrKeyNotFound"))
  <2>1. h[p].req.op \in BlockingReadOps /\ kv[h[p].req.key] = Absent
    BY <1>8 DEF GetBlock, Missing, Key
  <2>2. Answer(h[p].req, kv).ret = Err("ErrKeyNotFound")
    BY <2>1, MissingAnswer
  <2> QED
    BY <1>6, <1>8, <2>2
<1> QED
  BY <1>5, <1>6, <1>7, <1>8 DEF GetNow, GetBlock

-----------------------------------------------------------------------------
(* Failures.                                                               *)

\* The call of a handler fails, applied or not.
LEMMA FailMapped ==
  ASSUME Polite, Scoped, Depth = 2, Unleased, StoreInv, TypeInv, NEW p \in Clients, CallFails(p)
  PROVE  Mapped
<1>1. h[p].pc # "idle" /\ Fit(h[p]) /\ FitInv /\ SentinelClear /\ FreshRead /\ LockInv /\ WellPlaced(h[p])
  BY HandlerFacts DEF CallFails, StoreInv, FitInv, Inv
<1>2. PICK b \in BaseKeys : b = Key(p) /\ b = h[p].req.key
  BY <1>1, PoliteKey DEF Key
<1>3. b \in Keys /\ h[p].req \in Requests
  BY <1>1, LockNames, HandlerFacts
<1>4. h[p].req.op \notin {"SetMany", "SetExpire", "Clear"}
  BY <1>1, <1>3 DEF Scoped, Unleased, Polite, Fit
<1>5. kv' \in {kv, Applied(p)}
  BY <1>4 DEF CallFails
<1>6. CASE h[p].pc = "read" /\ h[p].req.op # "SetNX"
  <2>1. kv' = kv /\ res' = res
    BY <1>5, <1>6 DEF CallFails, Applied
  <2>2. \A q \in Clients : h'[q].req = h[q].req
    <3>1. h' = [h EXCEPT ![p].pc = "release", ![p].out = Refuse(Err("ErrUnavailable")),
                         ![p].got = kv[Key(p)]]
      BY <1>6 DEF CallFails
    <3> QED
      BY <3>1, HandlerFacts DEF TypeInv, TypeOK, Handlers
  <2> QED
    BY <2>1, <2>2, Unseen DEF Mapped, KeysKept
<1>7. CASE h[p].pc = "release"
  <2>1. kv' \in {kv, DeleteTxn(getLockName(b))}
    BY <1>2, <1>5, <1>7 DEF Applied
  <2>2. KeysKept
    BY <1>3, <2>1, LockTxnsUnseen DEF Scoped
  <2>3. CASE h[p].req.op # "Unlock"
    BY <1>1, <1>7, <2>2, <2>3, <1>4, AfterUnlockMapped DEF CallFails
  <2>4. CASE h[p].req.op = "Unlock"
    <3>1. Finish(p, Err("ErrUnavailable"))
      BY <1>4, <1>7, <2>4 DEF CallFails
    <3> QED
      BY <1>1, <2>2, <3>1, LosesOne DEF Mapped
  <2> QED
    BY <2>3, <2>4
<1>8. ASSUME ~(h[p].pc = "read" /\ h[p].req.op # "SetNX"), h[p].pc # "release" PROVE Mapped
  <2>1. Finish(p, Err("ErrUnavailable"))
    BY <1>4, <1>8 DEF CallFails
  <2>2. CASE KeysKept
    BY <1>1, <2>1, <2>2, LosesOne DEF Mapped
  <2>3. CASE h[p].pc = "lock"
    <3>1. kv' \in {kv, LockTxn(b)}
      BY <1>2, <1>5, <2>3 DEF Applied
    <3> QED
      BY <1>3, <2>2, <3>1, LockTxnsUnseen DEF Scoped
  <2>5. CASE h[p].pc = "commit"
    <3>1. b # Sentinel
      BY <1>2, <2>5 DEF CallFails
    <3>2. PICK v : v = h[p].out.val
      OBVIOUS
    <3>3. kv' \in {kv, UnlockThenSetTxn(b, v)}
      BY <1>2, <1>5, <2>5, <3>2 DEF Applied
    <3>4. CASE kv' = kv
      BY <2>2, <3>4 DEF KeysKept
    <3>5. CASE kv' = UnlockThenSetTxn(b, v)
      <4>1. KeyWritten(b, v)
        BY <1>1, <1>3, <3>5, CommitWrites DEF Scoped
      <4>2. Atomic!Effect(h[p].req) = [store |-> [Store EXCEPT ![b] = v], ret |-> h[p].out.ret]
        BY <1>1, <1>2, <2>5, <3>1, <3>2, CommitAlone
      <4>3. Store' = [Store EXCEPT ![b] = v]
        BY <1>3, <4>1, StoreAfter
      <4> QED
        BY <1>1, <2>1, <4>2, <4>3, DoesUnanswered DEF Mapped
    <3> QED
      BY <3>3, <3>4, <3>5
  <2>6. CASE h[p].pc = "put"
    <3>1. b # Sentinel /\ h[p].req.op \in SetOps
      BY <1>1, <1>2, <1>4, <2>6 DEF CallFails, WellPlaced
    <3>2. PICK v : v = Marshal(h[p].req)
      OBVIOUS
    <3>3. kv' \in {kv, PutTxn(b, v)}
      BY <1>2, <1>5, <2>6, <3>1, <3>2 DEF Applied
    <3>4. KeysKept \/ KeyWritten(b, v)
      BY <1>3, <3>3, GuardedWrites DEF KeysKept
    <3>5. Atomic!Effect(h[p].req) = [store |-> [Store EXCEPT ![b] = v], ret |-> Ok(NullV)]
      BY <1>2, <1>3, <3>1, <3>2, SettingAlone
    <3>6. CASE KeyWritten(b, v)
      <4>1. Store' = [Store EXCEPT ![b] = v]
        BY <1>3, <3>6, StoreAfter
      <4> QED
        BY <1>1, <2>1, <3>5, <4>1, DoesUnanswered DEF Mapped
    <3> QED
      BY <2>2, <3>4, <3>6
  <2>7. CASE h[p].pc = "delete"
    <3>1. kv' \in {kv, DeleteTxn(b)}
      BY <1>2, <1>5, <2>7 DEF Applied
    <3>2. KeysKept \/ KeyWritten(b, Absent)
      BY <1>3, <3>1, GuardedWrites DEF KeysKept
    <3>3. Atomic!Effect(h[p].req) = [store |-> [Store EXCEPT ![b] = Absent], ret |-> Ok(NullV)]
      BY <1>1, <1>2, <2>7, OthersAlone DEF Fit
    <3>4. CASE KeyWritten(b, Absent)
      <4>1. Store' = [Store EXCEPT ![b] = Absent]
        BY <1>3, <3>4, StoreAfter
      <4> QED
        BY <1>1, <2>1, <3>3, <4>1, DoesUnanswered DEF Mapped
    <3> QED
      BY <2>2, <3>2, <3>4
  <2>8. CASE h[p].pc \in {"read", "get", "wait"}
    <3>1. kv' = kv
      BY <1>5, <2>8 DEF Applied
    <3> QED
      BY <2>2, <3>1 DEF KeysKept
  <2>4. h[p].pc \notin {"clear", "grant", "expire"}
    BY <1>1, <1>4 DEF Fit
  <2> QED
    BY <1>1, <1>8, <2>3, <2>5, <2>6, <2>7, <2>8, <2>4 DEF WellPlaced, Handlers, PCs
<1> QED
  BY <1>6, <1>7, <1>8

-----------------------------------------------------------------------------
(* The theorem.                                                            *)

\* Every step of the service is a step of the atomic store or a stutter.
LEMMA StepMapped ==
  ASSUME Polite, Unleased, Scoped, StoreInv, [Next]_vars
  PROVE  [Atomic!ANext]_(Atomic!avars)
<1>1. TypeInv /\ FitInv /\ FreshRead /\ SentinelClear /\ NoLease /\ PoliteInv /\ Depth = 2
  BY DEF StoreInv, Inv, Scoped
<1>2. ASSUME NEW p \in Clients, Handle(p) PROVE Mapped
  <2>1. ~LeaseGrant(p) /\ ~SetExpire(p)
    BY <1>1 DEF NoLease, LeaseGrant, SetExpire
  <2>2. ~Clear(p)
    BY <1>1 DEF Clear, PoliteInv, PoliteHandler
  <2>3. ~SetMany(p)
    <3>1. h[p].pc = "put" => h[p].req \in Requests
      BY <1>1, HandlerFacts
    <3> QED
      BY <3>1 DEF SetMany, Scoped
  <2>4. CASE LockAcquire(p) \/ LockTimeout(p) \/ Read(p) \/ UnlockThenSet(p)
    BY <1>1, <2>4, AcquireMapped, LockTimeoutMapped, ReadMapped, CommitMapped
  <2>5. CASE Unlock(p) \/ UnlockTimeout(p) \/ PopAgain(p) \/ PopGiveUp(p)
    BY <1>1, <2>5, UnlockMapped, WaitMapped
  <2>6. CASE Set(p) \/ Delete(p) \/ GetNow(p) \/ GetBlock(p)
    BY <1>1, <2>6, SetMapped, DeleteMapped, GetMapped
  <2> QED
    BY <1>2, <2>1, <2>2, <2>3, <2>4, <2>5, <2>6 DEF Handle
<1>3. ASSUME NEW s \in Servers, Crash(s) PROVE Mapped
  BY <1>1, <1>3, LosesAll DEF Crash, Mapped, KeysKept
<1>4. ASSUME NEW n \in Names, LeaseExpires(n) PROVE FALSE
  BY <1>1, <1>4 DEF NoLease, LeaseExpires
<1>5. ASSUME UNCHANGED vars PROVE Mapped
  BY <1>5, Unseen DEF vars, Mapped, KeysKept
<1>6. ASSUME NEW p \in Clients, CallFails(p) PROVE Mapped
  BY <1>1, <1>6, FailMapped
<1>7. ASSUME NEW p \in Clients, NEW r \in Requests, NEW s \in Servers, Start(p, r, s) PROVE Mapped
  BY <1>1, <1>7, StartMapped
<1>8. Mapped
  BY <1>2, <1>3, <1>4, <1>5, <1>6, <1>7 DEF Next
<1> QED
  BY <1>8 DEF Mapped

\* At first nothing is stored and nobody has called.
LEMMA InitMapped == Init => Atomic!AInit
<1> SUFFICES ASSUME Init PROVE Atomic!AInit
  OBVIOUS
<1>1. [k \in Keys |-> kv[k]] = [k \in Keys |-> Absent]
  BY NamesType DEF Init
<1>2. [p \in Clients |-> h[p].req] = [p \in Clients |-> NoReq]
  BY DEF Init, Idle
<1>3. Atomic!Keys = Keys
  BY DEF Atomic!Keys, Keys
<1> QED
  BY <1>1, <1>2, <1>3, SameValues DEF Init, Atomic!AInit

\* README.md "atomic operations": whatever the interleaving of their etcd calls,
\* whatever calls fail and servers crash, the handlers answer polite clients as
\* the atomic store does, where each request takes effect at one instant between
\* its call and its answer, or is turned away, given up or lost.  Left out are
\* requests that deal with several keys in several calls (SetMany), name every
\* key there is (and so show locks), or set an expiration whatever the lock.
THEOREM Linearizable == Polite /\ Unleased /\ Scoped => (Spec => ImplementsAtomicStore)
<1> SUFFICES ASSUME Polite, Unleased, Scoped PROVE Spec => ImplementsAtomicStore
  OBVIOUS
<1>1. StoreInv /\ [Next]_vars => [Atomic!ANext]_(Atomic!avars)
  BY StepMapped
<1>2. Spec => []StoreInv
  BY StoreInvariant
<1> QED
  BY <1>1, <1>2, InitMapped, PTL DEF Spec, ImplementsAtomicStore, Atomic!ASpec
=============================================================================
