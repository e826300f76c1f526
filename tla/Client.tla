------------------------------- MODULE Client -------------------------------
(***************************************************************************)
(* Client programs that use the library (client/client.go).                *)
(*                                                                         *)
(* A method turns its arguments into a request, which travels with the     *)
(* client's metadata, and the answer into what it returns.  The service    *)
(* itself is what AtomicStore says of it, and for authentication etcd      *)
(* (module Auth).  Watching is in module ClientWatch; SetMany, whose       *)
(* writes are not one step, is not called here, nor are the lock methods,  *)
(* of whose effect AtomicStore says nothing.                               *)
(*                                                                         *)
(* A method call m is a record with the method's name and the arguments it *)
(* needs of key, n, v (a Go value), field, fields, keys, map, name, pass,  *)
(* role, perm.                                                             *)
(***************************************************************************)
EXTENDS AtomicStore, Conversions, Auth

VARIABLES md,    \* per client: the metadata of its context
          doing, \* per client: the method that is being called
          put,   \* per key: the Go value that was stored last
          said   \* per client: token and wait it was told, and which came last

clientVars == <<store, call, answer, auth, md, doing, put, said>>

NoToken == "none"
NoWait  == 0      \* the server's own default
NoGo    == [none |-> TRUE]
Idle    == [method |-> "none"]

-----------------------------------------------------------------------------
(* Requests.                                                               *)

\* The methods of each kind, with the arguments that they put in their request.
KeyMethods   == [Keys |-> {}, KeysWithPrefix |-> {"key"}, Has |-> {"key"},
                 SetExpire |-> {"key", "n"}, Delete |-> {"key"}, Clear |-> {}]
LockMethods  == [Lock |-> {"key"}, LockWithTimeout |-> {"key", "n"}, Unlock |-> {"key"},
                 UnlockThenSet |-> {"key", "v"}]
ByteMethods  == [Get |-> {"key"}, GetMany |-> {"keys"}, GetWithPrefix |-> {"key"},
                 Set |-> {"key", "v"}, SetNX |-> {"key", "v"}, Length |-> {"key"}]
NumberMethods == [m \in {"IncrementInt", "DecrementInt", "IncrementFloat", "DecrementFloat"}
                   |-> {"key", "n"}]
ListMethods  == [GetListItem |-> {"key", "n"}, SetListItem |-> {"key", "n", "v"},
                 ListLength |-> {"key"}, ListLimit |-> {"key", "n"},
                 ListInsert |-> {"key", "n", "v"}, ListAppend |-> {"key", "v"},
                 ListHas |-> {"key", "v"}, ListDelete |-> {"key", "n"},
                 ListDeleteItem |-> {"key", "v"}]
PopMethods   == [ListPopLeft |-> {"key"}, ListPopRight |-> {"key"},
                 ListPopLeftBlock |-> {"key", "timeout"}, ListPopRightBlock |-> {"key", "timeout"}]
HashMethods  == [GetHashField |-> {"key", "field"}, GetHashFields |-> {"key", "fields"},
                 HashHas |-> {"key", "field"}, HashLength |-> {"key"}, HashFields |-> {"key"},
                 HashValues |-> {"key"}, SetHashField |-> {"key", "field", "v"},
                 SetHashFields |-> {"key", "map"}, DelHashField |-> {"key", "field"}]

\* The entries of several tables.
Entries(tables) == [x \in UNION {DOMAIN t : t \in tables} |->
                     (CHOOSE t \in tables : x \in DOMAIN t)[x]]

MethodTables == {KeyMethods, LockMethods, ByteMethods, NumberMethods, ListMethods, PopMethods,
                 HashMethods}
Methods == Entries(MethodTables)

\* Methods that first make a util.Value of an argument, and return its error.
ReturnsItsError == {"Set", "SetNX", "SetListItem", "ListInsert", "ListAppend", "ListHas",
                    "ListDeleteItem", "SetHashField"}

\* Methods that return a util.Value, which carries the error.
ReturnsValue == {"Get", "GetListItem", "GetHashField"} \cup DOMAIN PopMethods

Blocking == {"ListPopLeftBlock", "ListPopRightBlock"}
\* A handler serves the variants of its request, Lock those that say how long to wait.
Handler(method) == CASE method = "ListPopLeftBlock"  -> "ListPopLeft"
                     [] method = "ListPopRightBlock" -> "ListPopRight"
                     [] method = "LockWithTimeout"   -> "Lock"
                     [] OTHER -> method

Sends(m, x) == x \in Methods[m.method]

\* What the types of the methods' parameters say: only doubles can be infinite or no
\* number.
ArgumentsFit(m) ==
  /\ m.key \in Bases /\ m.keys \subseteq Bases /\ m.fields \subseteq Fields /\ m.v \in GoValues
  /\ m.n \in Floats /\ (m.method \notin FloatSumOps => m.n \in Int64)
  /\ m.map = [f \in DOMAIN m.map |-> m.map[f]]
  /\ \A f \in DOMAIN m.map : f \in Fields /\ m.map[f] \in GoValues
  /\ m.method \in DOMAIN Methods /\ Sends(m, "field") => m.field \in Fields

\* Mutant: a request about one field does not name it.
FieldsOfMany(m) == CASE Sends(m, "fields") -> [f \in m.fields |-> Nothing]
                     [] Sends(m, "map")    -> MapValueToMapBytes(m.map)
                     [] OTHER -> EmptyMap

\* The fields that a request names, with what is to be assigned to them.
FieldsOf(m) == CASE Sends(m, "field")  -> [f \in {m.field} |-> Nothing]
                 [] Sends(m, "fields") -> [f \in m.fields |-> Nothing]
                 [] Sends(m, "map")    -> MapValueToMapBytes(m.map)
                 [] OTHER -> EmptyMap

\* The request of a method call; of a value with an error it would have no bytes.
Message(m) ==
  LET b == IF Sends(m, "v") THEN NewValue(m.v).b ELSE Empty
  IN  [op |-> Handler(m.method),
       key |-> IF Sends(m, "key") THEN <<m.key, 0>> ELSE Sentinel,
       val |-> b, item |-> ItemOf(b),
       n |-> IF Sends(m, "n") THEN m.n ELSE 0,
       hash |-> IF Sends(m, "v") THEN [f \in DOMAIN FieldsOf(m) |-> ItemOf(b)] ELSE FieldsOf(m),
       many |-> IF Sends(m, "keys") THEN {<<<<k, 0>>, Empty>> : k \in m.keys} ELSE {},
       block |-> m.method \in Blocking,
       endless |-> Sends(m, "timeout") /\ m.n <= 0,
       forever |-> m.method = "LockWithTimeout" /\ m.n < 0]

-----------------------------------------------------------------------------
(* What a method returns.                                                  *)

KnownErrors == {"ErrKeyNotFound", "ErrKeyLocked", "ErrListEmpty", "ErrListIndexOutOfRange",
                "ErrHashFieldNotFound", "ErrTypeMismatch", "ErrInvalidKey"}

\* An error with the text of a known one becomes that error; others stay an error of
\* the rpc.  SetHashField looks at the wrong error.
normalizeError(m, e) ==
  IF e \in KnownErrors /\ m.method # "SetHashField" THEN [known |-> e] ELSE [rpc |-> e]

Returned(m, ret) ==
  LET err == normalizeError(m, ret.err)
  IN  IF ret.kind = "ok" THEN [ok |-> ret.val]
      ELSE CASE m.method \in AuthOps      -> [rpc |-> ret.err]
             [] m.method \in ReturnsValue -> [value |-> err]
             [] OTHER                     -> err

Failed(ret) == DOMAIN ret # {"ok"}
IsOutage(ret) == ret \in {[value |-> [rpc |-> "ErrUnavailable"]], [rpc |-> "ErrUnavailable"]}

-----------------------------------------------------------------------------
(* Data calls.                                                             *)

Unchanged == UNCHANGED <<auth, md, said>>

\* The value cannot be made: the method returns without a call.
ValueFails(p, m) ==
  /\ call[p] = NoCall /\ doing[p] = Idle
  /\ m.method \in ReturnsItsError /\ NewValue(m.v).err # NoError
  /\ UNCHANGED <<store, call, answer, doing, put>> /\ Unchanged

Invoke(p, m) ==
  /\ doing[p] = Idle /\ m.method \in DOMAIN Methods
  /\ m.method \in ReturnsItsError => NewValue(m.v).err = NoError
  /\ Call(p, Message(m))
  /\ doing' = [doing EXCEPT ![p] = m]
  /\ UNCHANGED put /\ Unchanged

\* What is known of the Go values stored: nothing of a value that came about in
\* another way.
Stores(p, k) ==
  /\ k = call[p].key /\ k # Sentinel
  /\ doing[p].method = "Set" \/ (doing[p].method = "SetNX" /\ store[k] = Absent)
Puts(p) == put' = [k \in Keys |-> IF Stores(p, k) THEN doing[p].v
                                  ELSE IF store'[k] = store[k] THEN put[k] ELSE NoGo]

\* The service's answer, and errors of the way there and back.
Served(p) ==
  /\ doing[p] # Idle /\ call[p] # NoCall /\ call[p].op \notin AuthOps
  /\ Permitted(call[p].op, md[p].token)
  /\ (Do(p) \/ LostAnswer(p)) /\ Puts(p)
  /\ UNCHANGED doing /\ Unchanged

NotServed(p) ==
  /\ doing[p] # Idle /\ call[p] # NoCall /\ call[p].op \notin AuthOps
  /\ TurnedAway(p) \/ TimedOut(p) \/ Lost({p})
  /\ UNCHANGED <<doing, put>> /\ Unchanged

Denied(p) ==
  /\ doing[p] # Idle /\ call[p] # NoCall
  /\ MayRefuse(call[p].op, md[p].token)
  /\ Respond(p, Err("ErrDenied")) /\ UNCHANGED store
  /\ UNCHANGED <<doing, put>> /\ Unchanged

Returns(p) ==
  /\ doing[p] # Idle /\ call[p] = NoCall
  /\ doing' = [doing EXCEPT ![p] = Idle]
  /\ answer' = [answer EXCEPT ![p] = NoResult]
  /\ UNCHANGED <<store, call, put>> /\ Unchanged

\* The lease of SetExpire runs out.
Expire(k) ==
  /\ store[k] = Leased
  /\ store' = [store EXCEPT ![k] = Absent]
  /\ put' = [put EXCEPT ![k] = NoGo]
  /\ UNCHANGED <<call, answer, doing>> /\ Unchanged

-----------------------------------------------------------------------------
(* Authentication, and the metadata of the context.                        *)

Data == <<store, put>>

InvokeAuth(p, m) ==
  /\ doing[p] = Idle /\ call[p] = NoCall /\ m.method \in AuthOps
  /\ doing' = [doing EXCEPT ![p] = m]
  /\ call' = [call EXCEPT ![p] = [op |-> m.method]]
  /\ UNCHANGED <<Data, answer>> /\ Unchanged

\* etcd serves it, or refuses, or the way there or back fails.
ServedAuth(p) ==
  LET o == Handle(doing[p])
  IN  /\ doing[p].method \in AuthOps /\ call[p] # NoCall
      /\ Permitted(doing[p].method, md[p].token)
      /\ auth' = o.auth
      /\ \/ Respond(p, IF o.ok THEN Ok(o.reply) ELSE Err("ErrRefused"))
         \/ Respond(p, Err("ErrUnavailable"))
      /\ UNCHANGED <<Data, doing, md, said>>
NotServedAuth(p) ==
  /\ doing[p].method \in AuthOps /\ call[p] # NoCall
  /\ Respond(p, Err("ErrUnavailable"))
  /\ UNCHANGED <<Data, doing>> /\ Unchanged

\* Their errors are those of the rpc.
ReturnsAuth(p) ==
  /\ doing[p].method \in AuthOps \ {"Authenticate"} /\ call[p] = NoCall
  /\ doing' = [doing EXCEPT ![p] = Idle]
  /\ answer' = [answer EXCEPT ![p] = NoResult]
  /\ UNCHANGED <<Data, call>> /\ Unchanged

\* Mutant: the metadata is made anew.
AuthenticatedAnew(p) ==
  /\ doing[p].method = "Authenticate" /\ call[p] = NoCall /\ answer[p].kind = "ok"
  /\ md' = [md EXCEPT ![p] = [token |-> answer[p].val, wait |-> NoWait]]
  /\ said' = [said EXCEPT ![p].token = answer[p].val, ![p].last = "token"]
  /\ doing' = [doing EXCEPT ![p] = Idle]
  /\ answer' = [answer EXCEPT ![p] = NoResult]
  /\ UNCHANGED <<Data, call, auth>>

\* The token joins what else there is in the metadata.
Authenticated(p) ==
  /\ doing[p].method = "Authenticate" /\ call[p] = NoCall /\ answer[p].kind = "ok"
  /\ md' = [md EXCEPT ![p].token = answer[p].val]
  /\ said' = [said EXCEPT ![p].token = answer[p].val, ![p].last = "token"]
  /\ doing' = [doing EXCEPT ![p] = Idle]
  /\ answer' = [answer EXCEPT ![p] = NoResult]
  /\ UNCHANGED <<Data, call, auth>>

NotAuthenticated(p) ==
  /\ doing[p].method = "Authenticate" /\ call[p] = NoCall /\ answer[p].kind = "err"
  /\ doing' = [doing EXCEPT ![p] = Idle]
  /\ answer' = [answer EXCEPT ![p] = NoResult]
  /\ UNCHANGED <<Data, call>> /\ Unchanged

LogOut(p) ==
  /\ doing[p] = Idle
  /\ md' = [md EXCEPT ![p].token = NoToken]
  /\ said' = [said EXCEPT ![p].token = NoToken, ![p].last = "token"]
  /\ UNCHANGED <<Data, call, answer, auth, doing>>

\* The metadata is made anew, the token is not in it.
SetLockTimeout(p, n) ==
  LET seconds == IF n < 1 THEN 1 ELSE n
  IN  /\ doing[p] = Idle
      /\ md' = [md EXCEPT ![p] = [token |-> NoToken, wait |-> seconds]]
      /\ said' = [said EXCEPT ![p].wait = seconds, ![p].last = "wait"]
      /\ UNCHANGED <<Data, call, answer, auth, doing>>

-----------------------------------------------------------------------------

\* The goroutines of a call that is under way.
Proceeds(p) == \/ Served(p) \/ NotServed(p) \/ Denied(p)
               \/ (doing[p].method \notin AuthOps /\ Returns(p))
               \/ ServedAuth(p) \/ NotServedAuth(p) \/ ReturnsAuth(p)
               \/ Authenticated(p) \/ NotAuthenticated(p)

ClientInit == /\ AInit
              /\ md = [p \in Clients |-> [token |-> NoToken, wait |-> NoWait]]
              /\ doing = [p \in Clients |-> Idle]
              /\ put = [k \in Keys |-> NoGo]
              /\ said = [p \in Clients |-> [token |-> NoToken, wait |-> NoWait, last |-> "token"]]

-----------------------------------------------------------------------------
(* Properties.                                                             *)

\* A Go value that was stored is what the key reads as, in the same type, until
\* something else is stored there: of a time the part within the second.
RoundTrip ==
  \A k \in Keys : put[k] # NoGo =>
    LET t == IF Is(put[k], "time") THEN GoTime(put[k].time % Second) ELSE put[k]
    IN  store[k] # Absent /\ ReadLike(put[k], Bytes(store[k])) = t

\* The context of a client's calls has the lock wait set last, whatever has
\* happened to its token since, and the token unless the wait was set after it.
SessionKept ==
  \A p \in Clients : /\ md[p].wait = said[p].wait
                     /\ said[p].last = "token" => md[p].token = said[p].token
=============================================================================
