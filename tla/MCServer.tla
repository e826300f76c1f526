------------------------------ MODULE MCServer ------------------------------
(***************************************************************************)
(* Instances of Server for TLC: the requests each run lets clients send.   *)
(***************************************************************************)
EXTENDS Server

A == <<"a", 0>>
B == <<"b", 0>>

Req(op, k) == [op |-> op, key |-> k, val |-> RawV("x"), n |-> 0, item |-> "x",
               hash |-> EmptyMap, many |-> {},
               block |-> FALSE, endless |-> FALSE, forever |-> FALSE]
ReqN(op, k, n)       == [Req(op, k) EXCEPT !.n = n]
ReqVal(op, k, v)     == [Req(op, k) EXCEPT !.val = v]
ReqItem(op, k, i)    == [Req(op, k) EXCEPT !.item = i]
ReqInsert(op, k, n, i) == [Req(op, k) EXCEPT !.n = n, !.item = i]
ReqHash(op, k, f, i) == [Req(op, k) EXCEPT !.hash = [x \in {f} |-> i]]
Blocking(r)          == [r EXCEPT !.block = TRUE]

\* Explicit locks, a counter and plain writes on one key.
CounterRequests ==
  {Req("Lock", A), Req("Unlock", A), ReqVal("UnlockThenSet", A, IntV(1)),
   ReqN("IncrementInt", A, 1), ReqN("DecrementInt", A, 1),
   ReqVal("Set", A, RawV("x")), ReqVal("SetInt", A, IntV(0)),
   Req("Delete", A), Req("GetInt", A),
   [Req("SetMany", A) EXCEPT !.many = {<<A, Empty>>}]}

\* A list as a queue with a blocking consumer, and elements changed and removed
\* in place, some with an index out of range.
ListRequests ==
  {ReqItem("ListAppend", A, "x"), ReqInsert("ListInsert", A, 0, "y"),
   Req("ListPopLeft", A), Blocking(Req("ListPopRight", A)), ReqN("ListLimit", A, 1),
   ReqInsert("SetListItem", A, -1, "x"), ReqInsert("SetListItem", A, 2, "x"),
   ReqN("ListDelete", A, 0), ReqItem("ListDeleteItem", A, "y"),
   ReqVal("SetList", A, ListV(<<Plain("x")>>, 0)),
   ReqVal("UnlockThenSetList", A, ListV(<<Plain("y")>>, 1)), Req("Lock", A),
   Req("GetList", A), ReqN("GetListItem", A, 1), ReqItem("ListHas", A, "y"),
   Req("ListLength", A), Req("Delete", A)}

\* A hash, with fields set and deleted; next to it SetNX, GetMany and a float.
HashRequests ==
  {ReqHash("SetHashField", A, "f", "x"), ReqHash("DelHashField", A, "f", "x"),
   [Req("SetHashFields", A) EXCEPT !.hash = [f \in {"f", "g"} |-> "y"]],
   ReqVal("SetHash", A, HashV([f \in {"g"} |-> "y"])),
   ReqHash("GetHashField", A, "g", "x"), ReqHash("HashHas", A, "f", "x"),
   ReqHash("GetHashFields", A, "f", "x"), Req("GetHash", A),
   Req("HashFields", A), Req("HashValues", A), Req("Length", A),
   ReqN("IncrementFloat", A, 1), Req("GetFloat", A),
   Req("SetNX", B), [Req("GetMany", A) EXCEPT !.many = {<<A, Empty>>, <<B, Empty>>}]}

\* No restraint: names of locks used as keys, unlocking at will, Clear,
\* SetExpire, and every attempt to store "\0" at the key "\0".
LockA == getLockName(A)
Zero  == <<"zero", 0>>
ChaosRequests ==
  {ReqVal("Set", Zero, ZeroByte), ReqVal("UnlockThenSet", Zero, ZeroByte),
   ReqVal("SetNX", Zero, ZeroByte), Req("SetExpire", Zero), 
   [Req("SetMany", A) EXCEPT !.many = {<<Zero, ZeroByte>>, <<A, RawV("x")>>}],
   Req("Lock", A), Req("Lock", LockA), Req("Unlock", A), Req("SetExpire", LockA),
   Req("SetNX", A), Req("Delete", LockA), Req("Clear", A), Req("Keys", A),
   Req("GetWithPrefix", A), Req("KeysWithPrefix", LockA)}

\* Requests that wait: for a lock, for a list element, for a key; and handlers
\* that unlock on every path.
WaitingRequests ==
  {Req("Lock", A), Req("Unlock", A), ReqVal("UnlockThenSet", A, RawV("x")),
   ReqItem("ListAppend", A, "x"), Blocking(Req("ListPopLeft", A)), Blocking(Req("Get", A)),
   ReqN("ListDelete", A, 0), ReqN("IncrementInt", A, 1), ReqHash("DelHashField", B, "f", "x"),
   [Req("SetMany", A) EXCEPT !.many = {<<A, Empty>>, <<B, RawV("x")>>}], Req("Delete", A),
   Req("Has", A), Req("HashLength", A)}

\* Requests of the runs that show where the code and its documentation differ.
SetNXRequests      == {Req("SetNX", A)}
ExpireRequests     == {ReqVal("Set", A, RawV("x")), Req("SetExpire", A), Req("Get", A)}

Perms == Permutations(Clients)
=============================================================================
