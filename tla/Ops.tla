--------------------------------- MODULE Ops --------------------------------
(***************************************************************************)
(* The requests of the Mydis service and what each of them does to the     *)
(* value it finds.                                                         *)
(*                                                                         *)
(* A request is a record with the fields of the protobuf messages that     *)
(* matter to some handler:                                                 *)
(*   op, key   the handler and the key it names                            *)
(*   val       the value carried by Set, SetInt, SetFloat, SetList,        *)
(*             SetHash, SetNX and UnlockThenSet                            *)
(*   n         an index, a limit or a number to add                        *)
(*   item      a list element                                              *)
(*   hash      the entries carried by SetHashField(s); its fields are      *)
(*             those named by the other hash requests                      *)
(*   many      the entries <<key, value>> of SetMany; the keys of GetMany  *)
(*   block     Key.Block; endless: Key.BlockTimeout is not positive        *)
(*   forever   the lock is waited for without limit (a negative wait)      *)
(***************************************************************************)
EXTENDS IntOps, FloatOps, ListOps, HashOps

\* Handlers that lock the key, read it and write it back.
LockingOps == {"SetNX", "IncrementInt", "DecrementInt",
               "IncrementFloat", "DecrementFloat",
               "SetListItem", "ListLimit", "ListInsert", "ListAppend",
               "ListPopLeft", "ListPopRight", "ListDelete", "ListDeleteItem",
               "SetHashField", "SetHashFields", "DelHashField"}
PopOps     == {"ListPopLeft", "ListPopRight"}
GrowingOps == {"ListInsert", "ListAppend"}

\* Handlers that write only when the key is not locked.
SetOps     == {"Set", "SetInt", "SetFloat", "SetList", "SetHash"}
UnlockSetOps == {"UnlockThenSet", "UnlockThenSetList", "UnlockThenSetHash"}
UnlockOps  == {"Unlock"} \cup UnlockSetOps

\* Handlers that hand their pb.Key, with its Block flag, to Get.
BlockingReadOps == {"Get", "Length", "GetInt", "GetFloat", "GetList", "ListLength",
                    "GetHash", "HashLength", "HashFields", "HashValues"}
OneKeyReadOps == BlockingReadOps \cup {"Has", "GetListItem", "ListHas", "GetHashField",
                                       "GetHashFields", "HashHas"}
ReadOps    == OneKeyReadOps \cup {"GetMany", "GetWithPrefix", "Keys", "KeysWithPrefix"}

AllOps == LockingOps \cup SetOps \cup UnlockOps \cup ReadOps
            \cup {"Lock", "SetMany", "Delete", "Clear", "SetExpire"}

\* Bytes that a handler puts in the store for the value of its request.
Marshal(r) == CASE r.val.type = "list" -> EncodeList(r.val.value, r.val.limit)
                [] r.val.type = "hash" -> EncodeHash(r.val.fields)
                [] OTHER -> r.val

\* The field that a one-field request names.
Field(r) == CHOOSE f \in DOMAIN r.hash : TRUE

-----------------------------------------------------------------------------
(* type_bytes.go, type_keys.go                                             *)

Get(v) == Return(IF v = Absent THEN Err("ErrKeyNotFound") ELSE Ok(Bytes(v)))

Has(v) == Return(Ok(BoolV(v # Absent)))

\* How long the value is; 1 stands for every length but 0.
Length(v) == Return(IF v = Absent THEN Err("ErrKeyNotFound")
                    ELSE Ok(NumV(IF Bytes(v) = Empty THEN 0 ELSE 1)))

\* When the key exists the handler returns without unlocking it.
SetNX(v, new) == IF v = Absent THEN Write(new, BoolV(TRUE))
                 ELSE Return(Ok(BoolV(FALSE)))

\* One transaction whose Failure branch holds one Range per key.
GetMany(store, S) ==
  Return(Ok(ManyV(IF store[Sentinel] = ZeroByte THEN {}
                  ELSE {<<k, Bytes(store[k])>> : k \in {j \in S : store[j] # Absent}})))

\* Every name in the store, those of locks included.
StoredKeys(store) == Return(Ok(KeysV({k \in DOMAIN store : store[k] # Absent})))

\* The range of names that begin with the name k: itself and the lock names
\* made from it.
WithPrefix(store, k) == {j \in DOMAIN store : store[j] # Absent /\ j[1] = k[1] /\ j[2] >= k[2]}

GetWithPrefix(store, k) ==
  Return(Ok(ManyV({<<j, Bytes(store[j])>> : j \in WithPrefix(store, k)})))

KeysWithPrefix(store, k) == Return(Ok(KeysV(WithPrefix(store, k))))

-----------------------------------------------------------------------------
(* Dispatch.                                                               *)

\* What locking request r does when it has read v under its lock.
Decide(r, v) ==
  CASE r.op = "SetNX"          -> SetNX(v, Marshal(r))
    [] r.op = "IncrementInt"   -> IncrementInt(v, r.n)
    [] r.op = "DecrementInt"   -> DecrementInt(v, r.n)
    [] r.op = "IncrementFloat" -> IncrementFloat(v, r.n)
    [] r.op = "DecrementFloat" -> DecrementFloat(v, r.n)
    [] r.op = "SetListItem"    -> SetListItem(v, r.n, Plain(r.item))
    [] r.op = "ListLimit"      -> ListLimit(v, r.n)
    [] r.op = "ListInsert"     -> ListInsert(v, r.n, Plain(r.item))
    [] r.op = "ListAppend"     -> ListAppend(v, Plain(r.item))
    [] r.op = "ListPopLeft"    -> ListPopLeft(v)
    [] r.op = "ListPopRight"   -> ListPopRight(v)
    [] r.op = "ListDelete"     -> ListDelete(v, r.n)
    [] r.op = "ListDeleteItem" -> ListDeleteItem(v, Plain(r.item))
    [] r.op = "SetHashField"   -> SetHashField(v, Field(r), r.hash[Field(r)])
    [] r.op = "SetHashFields"  -> SetHashFields(v, r.hash)
    [] r.op = "DelHashField"   -> DelHashField(v, Field(r))

\* What reading request r answers from the store.
Answer(r, store) ==
  LET v == store[r.key]
  IN  CASE r.op = "Get"           -> Get(v)
        [] r.op = "Has"           -> Has(v)
        [] r.op = "Length"        -> Length(v)
        [] r.op = "GetFloat"      -> GetFloat(v)
        [] r.op = "GetInt"        -> GetInt(v)
        [] r.op = "GetList"       -> GetList(v)
        [] r.op = "GetListItem"   -> GetListItem(v, r.n)
        [] r.op = "ListLength"    -> ListLength(v)
        [] r.op = "ListHas"       -> ListHas(v, Plain(r.item))
        [] r.op = "GetHash"       -> GetHash(v)
        [] r.op = "GetHashField"  -> GetHashField(v, Field(r))
        [] r.op = "GetHashFields" -> GetHashFields(v, DOMAIN r.hash)
        [] r.op = "HashHas"       -> HashHas(v, Field(r))
        [] r.op = "HashLength"    -> HashLength(v)
        [] r.op = "HashFields"    -> HashFields(v)
        [] r.op = "HashValues"    -> HashValues(v)
        [] r.op = "GetMany"       -> GetMany(store, {e[1] : e \in r.many})
        [] r.op = "GetWithPrefix" -> GetWithPrefix(store, r.key)
        [] r.op = "Keys"          -> StoredKeys(store)
        [] r.op = "KeysWithPrefix" -> KeysWithPrefix(store, r.key)

-----------------------------------------------------------------------------
(* The type of requests.                                                   *)

Request == [op : AllOps, key : Keys, val : Stored, n : Floats,
            item : Items, hash : Hashes,
            many : SUBSET (Keys \X Stored),
            block : BOOLEAN, endless : BOOLEAN, forever : BOOLEAN]

OneFieldOps == {"SetHashField", "DelHashField", "GetHashField", "HashHas"}
FloatSumOps == {"IncrementFloat", "DecrementFloat"}

\* r is a request some client can send: a message that names one field has it,
\* only doubles can be infinite or no number, and SetMany carries a map.
WellFormed(r) == /\ r \in Request
                 /\ r.op \notin FloatSumOps => r.n \in Int64
                 /\ r.op \in OneFieldOps => \E f \in Fields : DOMAIN r.hash = {f}
                 /\ \A d, e \in r.many : d[1] = e[1] => d = e
=============================================================================
