------------------------------- MODULE Server -------------------------------
(***************************************************************************)
(* The Mydis service: gRPC handlers of one or more servers working on one  *)
(* etcd store.                                                             *)
(*                                                                         *)
(* Each client has at most one request outstanding; h[p] is the handler    *)
(* goroutine that serves client p, on the server its balancer chose.  A    *)
(* handler is a sequence of etcd calls, each atomic, with other handlers'  *)
(* calls in between.  A lock is a store entry without owner or lease: it   *)
(* is taken, tested and released by transactions of the form "if the lock  *)
(* holds ZeroByte do nothing, else ...".                                   *)
(*                                                                         *)
(* Polling loops (Lock, Set, Delete, a blocking Get) change nothing while  *)
(* they fail, so an unsuccessful poll is a stuttering step, and the poll   *)
(* that finds the deadline passed is the ...Timeout action.                *)
(***************************************************************************)
EXTENDS Ops

CONSTANTS Clients,     \* callers, one outstanding request each
          Servers,     \* Mydis processes sharing the etcd cluster
          Requests,    \* requests the clients may send
          Disciplined, \* clients unlock only what they have locked
          MaxLen,      \* bound: a list is not grown beyond this length
          MaxFaults,   \* bound: number of etcd calls that fail
          MaxCrashes   \* bound: number of server crashes

ASSUME RequestsAssumption == \A r \in Requests : WellFormed(r)
ASSUME BoundsAssumption == MaxFaults \in Nat /\ MaxCrashes \in Nat /\ Disciplined \in BOOLEAN

VARIABLES kv,      \* the etcd store
          h,       \* per client: the handler serving it
          res,     \* per client: the result of its last request
          mine,    \* per client: keys it has locked with Lock and not yet unlocked
          faults,  \* etcd calls that have failed so far
          crashes  \* servers that have been killed so far

vars == <<kv, h, res, mine, faults, crashes>>

-----------------------------------------------------------------------------
(* Handlers.                                                               *)

NoReq == [op |-> "none"]
NoHost == "none"

\* pc     the etcd call the handler makes next
\* loop   the handler is inside the loop of a blocking request
\* todo   entries <<key, value>> a SetMany has yet to set
\* out    what the handler has decided to write and to return
\* got    the value it read under its lock
Idle == [pc |-> "idle", req |-> NoReq, host |-> NoHost, loop |-> FALSE,
         todo |-> {}, out |-> Return(NoResult), got |-> Absent]

PCs == {"idle", "lock", "read", "commit", "release", "wait",
        "put", "delete", "get", "clear", "grant", "expire"}

Handlers == [pc : PCs, req : Requests \cup {NoReq}, host : Servers \cup {NoHost},
             loop : BOOLEAN, todo : SUBSET (Keys \X Stored), out : Outcomes, got : Values]

Entry(r) == CASE r.op \in LockingOps \cup {"Lock"} -> "lock"
              [] r.op \in SetOps \cup {"SetMany"}  -> "put"
              [] r.op \in UnlockSetOps -> "commit"
              [] r.op \in ReadOps      -> "get"
              [] r.op = "Unlock"       -> "release"
              [] r.op = "Delete"       -> "delete"
              [] r.op = "Clear"        -> "clear"
              [] r.op = "SetExpire"    -> "grant"

\* What is known of the outcome before the first etcd call.
FirstOut(r) == CASE r.op \in UnlockSetOps -> Write(Marshal(r), NullV)
                 [] r.op = "SetMany"      -> Return(Ok(KeysV({})))
                 [] OTHER                 -> Return(Ok(NullV))

Key(p) == h[p].req.key

Goto(p, l) == h' = [h EXCEPT ![p].pc = l] /\ UNCHANGED res

Finish(p, ret) == /\ h' = [h EXCEPT ![p] = Idle]
                  /\ res' = [res EXCEPT ![p] = ret]

\* Server s dies: its handlers are gone and their clients get an error.
Serves(s, p) == h[p].pc # "idle" /\ h[p].host = s
Down(s) == /\ h' = [p \in Clients |-> IF Serves(s, p) THEN Idle ELSE h[p]]
           /\ res' = [p \in Clients |-> IF Serves(s, p) THEN Err("ErrUnavailable") ELSE res[p]]

-----------------------------------------------------------------------------
(* The etcd transactions of the handlers, as the store they leave.         *)

Locked(k) == kv[getLockName(k)] = ZeroByte

\* Mutant: the transaction that deletes does not compare the lock.
DeleteTxnUnchecked(k) == [kv EXCEPT ![k] = Absent]

LockTxn(k)   == IF Locked(k) THEN kv ELSE [kv EXCEPT ![getLockName(k)] = ZeroByte]
PutTxn(k, v) == IF Locked(k) THEN kv ELSE [kv EXCEPT ![k] = v]
DeleteTxn(k) == IF Locked(k) THEN kv ELSE [kv EXCEPT ![k] = Absent]

\* UnlockThenSet does not look at the lock: it removes it.
UnlockThenSetTxn(k, v) == IF kv[Sentinel] = ZeroByte THEN kv
                          ELSE [kv EXCEPT ![getLockName(k)] = Absent, ![k] = v]

-----------------------------------------------------------------------------
(* A client calls.                                                         *)

\* Bounds the length of lists: an addition is sent when there is room for it.
MayGrow(r) ==
  r.op \in GrowingOps =>
    Len(Elems(kv[r.key])) + Cardinality({p \in Clients : h[p].req.op \in GrowingOps}) < MaxLen

Start(p, r, s) ==
  /\ h[p].pc = "idle"
  /\ Disciplined /\ r.op \in UnlockOps => r.key \in mine[p]
  /\ MayGrow(r)
  /\ h' = [h EXCEPT ![p] = [pc |-> Entry(r), req |-> r, host |-> s, loop |-> FALSE,
                            todo |-> IF r.op = "SetMany" THEN r.many ELSE {},
                            out |-> FirstOut(r), got |-> Absent]]
  /\ res' = [res EXCEPT ![p] = NoResult]
  /\ mine' = IF r.op \in UnlockOps THEN [mine EXCEPT ![p] = @ \ {r.key}] ELSE mine
  /\ UNCHANGED <<kv, faults, crashes>>

-----------------------------------------------------------------------------
(* LockWithTimeout.                                                        *)

\* Mutant: the lock is taken whoever has it.
LockAcquireUnchecked(p) ==
  /\ h[p].pc = "lock"
  /\ kv' = LockTxn(Key(p))
  /\ IF h[p].req.op = "Lock"
     THEN Finish(p, Ok(NullV)) /\ mine' = [mine EXCEPT ![p] = @ \cup {Key(p)}]
     ELSE Goto(p, "read") /\ UNCHANGED mine
  /\ UNCHANGED <<faults, crashes>>

LockAcquire(p) ==
  /\ h[p].pc = "lock"
  /\ ~Locked(Key(p))
  /\ kv' = LockTxn(Key(p))
  /\ IF h[p].req.op = "Lock"
     THEN Finish(p, Ok(NullV)) /\ mine' = [mine EXCEPT ![p] = @ \cup {Key(p)}]
     ELSE Goto(p, "read") /\ UNCHANGED mine
  /\ UNCHANGED <<faults, crashes>>

\* Mutant: only a client's own Lock has a deadline, not that of a handler.
LockTimeoutOfLock(p) ==
  /\ h[p].pc = "lock" /\ h[p].req.op = "Lock"
  /\ Locked(Key(p))
  /\ ~h[p].req.forever
  /\ Finish(p, Err("ErrKeyLocked"))
  /\ UNCHANGED <<kv, mine, faults, crashes>>

LockTimeout(p) ==
  /\ h[p].pc = "lock"
  /\ Locked(Key(p))
  /\ ~h[p].req.forever
  /\ Finish(p, Err("ErrKeyLocked"))
  /\ UNCHANGED <<kv, mine, faults, crashes>>

-----------------------------------------------------------------------------
(* The body of a locking handler: read, then write back, unlock or return. *)

Read(p) ==
  LET v == kv[Key(p)]
      o == Decide(h[p].req, v)
  IN  /\ h[p].pc = "read"
      /\ \/ /\ o.do \in {"write", "unlock"}
            /\ h' = [h EXCEPT ![p].pc = IF o.do = "write" THEN "commit" ELSE "release",
                              ![p].out = o, ![p].got = v]
            /\ UNCHANGED res
         \/ o.do = "return" /\ Finish(p, o.ret)
         \/ o.do = "panic" /\ Down(h[p].host)
      /\ UNCHANGED <<kv, mine, faults, crashes>>

\* Mutant: the key is not checked.
UnlockThenSetAnyKey(p) ==
  /\ h[p].pc = "commit"
  /\ Finish(p, h[p].out.ret) /\ kv' = UnlockThenSetTxn(Key(p), h[p].out.val)
  /\ UNCHANGED <<mine, faults, crashes>>

\* UnlockThenSet, at the end of a locking handler or called by the client.
UnlockThenSet(p) ==
  /\ h[p].pc = "commit"
  /\ IF Key(p) = Sentinel
     THEN Finish(p, Err("ErrInvalidKey")) /\ UNCHANGED kv
     ELSE Finish(p, h[p].out.ret) /\ kv' = UnlockThenSetTxn(Key(p), h[p].out.val)
  /\ UNCHANGED <<mine, faults, crashes>>

\* What follows the Unlock of a locking handler.  A pop that found nothing and
\* may block enters its loop; inside the loop it sleeps first.
AfterUnlock(p) ==
  IF /\ h[p].req.op \in PopOps /\ h[p].req.block
     /\ h[p].out.ret = Err("ErrListEmpty")
  THEN /\ h' = [h EXCEPT ![p].pc = IF h[p].loop THEN "wait" ELSE "lock",
                         ![p].loop = TRUE]
       /\ UNCHANGED res
  ELSE Finish(p, h[p].out.ret)

\* Unlock is Delete of the lock's name, and so respects a lock on that name.
Unlock(p) ==
  /\ h[p].pc = "release"
  /\ ~Locked(getLockName(Key(p)))
  /\ kv' = DeleteTxn(getLockName(Key(p)))
  /\ AfterUnlock(p)
  /\ UNCHANGED <<mine, faults, crashes>>

\* A locking handler ignores the error of its Unlock.
UnlockTimeout(p) ==
  /\ h[p].pc = "release"
  /\ Locked(getLockName(Key(p)))
  /\ IF h[p].req.op = "Unlock" THEN Finish(p, Err("ErrKeyLocked")) ELSE AfterUnlock(p)
  /\ UNCHANGED <<kv, mine, faults, crashes>>

\* Mutant: the loop does not take the lock again.
PopAgainUnlocked(p) ==
  /\ h[p].pc = "wait"
  /\ Goto(p, "read")
  /\ UNCHANGED <<kv, mine, faults, crashes>>

PopAgain(p) ==
  /\ h[p].pc = "wait"
  /\ Goto(p, "lock")
  /\ UNCHANGED <<kv, mine, faults, crashes>>

PopGiveUp(p) ==
  /\ h[p].pc = "wait"
  /\ ~h[p].req.endless
  /\ Finish(p, h[p].out.ret)
  /\ UNCHANGED <<kv, mine, faults, crashes>>

-----------------------------------------------------------------------------
(* Set, SetMany, Delete, Clear, SetExpire.                                 *)

\* Mutant: the value is written whether or not the key is locked.
SetUnchecked(p) ==
  /\ h[p].pc = "put" /\ h[p].req.op \in SetOps
  /\ \/ Key(p) = Sentinel /\ Finish(p, Err("ErrInvalidKey")) /\ UNCHANGED kv
     \/ /\ Key(p) # Sentinel
        /\ kv' = [kv EXCEPT ![Key(p)] = Marshal(h[p].req)]
        /\ Finish(p, h[p].out.ret)
  /\ UNCHANGED <<mine, faults, crashes>>

Set(p) ==
  /\ h[p].pc = "put" /\ h[p].req.op \in SetOps
  /\ \/ Key(p) = Sentinel /\ Finish(p, Err("ErrInvalidKey")) /\ UNCHANGED kv
     \/ /\ Key(p) # Sentinel /\ ~Locked(Key(p))
        /\ kv' = PutTxn(Key(p), Marshal(h[p].req))
        /\ Finish(p, h[p].out.ret)
     \/ /\ Key(p) # Sentinel /\ Locked(Key(p))
        /\ Finish(p, Err("ErrKeyLocked"))
        /\ UNCHANGED kv
  /\ UNCHANGED <<mine, faults, crashes>>

\* SetMany calls Set for its keys in any order and collects those that failed.
NextEntry(p, e, failed) ==
  /\ h' = [h EXCEPT ![p].todo = @ \ {e},
                    ![p].out = Return(Ok(KeysV(@.ret.val.keys \cup failed)))]
  /\ UNCHANGED res

SetMany(p) ==
  /\ h[p].pc = "put" /\ h[p].req.op = "SetMany"
  /\ \/ h[p].todo = {} /\ Finish(p, h[p].out.ret) /\ UNCHANGED kv
     \/ \E e \in h[p].todo :
          \/ (e[1] = Sentinel \/ Locked(e[1])) /\ NextEntry(p, e, {e[1]}) /\ UNCHANGED kv
          \/ /\ e[1] # Sentinel /\ ~Locked(e[1])
             /\ kv' = PutTxn(e[1], e[2])
             /\ NextEntry(p, e, {})
  /\ UNCHANGED <<mine, faults, crashes>>

Delete(p) ==
  /\ h[p].pc = "delete"
  /\ kv' = DeleteTxn(Key(p))
  /\ Finish(p, IF Locked(Key(p)) THEN Err("ErrKeyLocked") ELSE h[p].out.ret)
  /\ UNCHANGED <<mine, faults, crashes>>

\* DeleteRange over every name, locks included.
Clear(p) ==
  /\ h[p].pc = "clear"
  /\ kv' = [k \in Names |-> Absent]
  /\ Finish(p, h[p].out.ret)
  /\ UNCHANGED <<mine, faults, crashes>>

\* SetExpire: LeaseGrant ...
LeaseGrant(p) ==
  /\ h[p].pc = "grant"
  /\ Goto(p, "expire")
  /\ UNCHANGED <<kv, mine, faults, crashes>>

\* ... then a Put without a value under the lease, whatever the lock.  The Put
\* fails when the lease has run out in between.
SetExpire(p) ==
  /\ h[p].pc = "expire"
  /\ \/ kv' = [kv EXCEPT ![Key(p)] = Leased] /\ Finish(p, h[p].out.ret)
     \/ Finish(p, Err("ErrUnavailable")) /\ UNCHANGED kv
  /\ UNCHANGED <<mine, faults, crashes>>

\* etcd revokes a lease and deletes the key attached to it.
LeaseExpires(k) ==
  /\ kv[k] = Leased
  /\ kv' = [kv EXCEPT ![k] = Absent]
  /\ UNCHANGED <<h, res, mine, faults, crashes>>

-----------------------------------------------------------------------------
(* Readers.                                                                *)

Missing(p) == h[p].req.op \in BlockingReadOps /\ h[p].req.block /\ kv[Key(p)] = Absent

GetNow(p) ==
  LET o == Answer(h[p].req, kv)
  IN  /\ h[p].pc = "get"
      /\ ~Missing(p)
      /\ IF o.do = "panic" THEN Down(h[p].host) ELSE Finish(p, o.ret)
      /\ UNCHANGED <<kv, mine, faults, crashes>>

\* A blocking read enters its loop, and leaves it when its time is up.
GetBlock(p) ==
  /\ h[p].pc = "get"
  /\ Missing(p)
  /\ \/ ~h[p].loop /\ h' = [h EXCEPT ![p].loop = TRUE] /\ UNCHANGED res
     \/ h[p].loop /\ ~h[p].req.endless /\ Finish(p, Err("ErrKeyNotFound"))
  /\ UNCHANGED <<kv, mine, faults, crashes>>

-----------------------------------------------------------------------------
(* Failures.                                                               *)

\* The store after p's pending call, should etcd apply it.
Applied(p) == CASE h[p].pc = "lock"    -> LockTxn(Key(p))
                [] h[p].pc = "commit"  -> UnlockThenSetTxn(Key(p), h[p].out.val)
                [] h[p].pc = "release" -> DeleteTxn(getLockName(Key(p)))
                [] h[p].pc = "delete"  -> DeleteTxn(Key(p))
                [] h[p].pc = "clear"   -> [k \in Names |-> Absent]
                [] h[p].pc = "expire"  -> [kv EXCEPT ![Key(p)] = Leased]
                [] h[p].pc = "put" /\ h[p].req.op \in SetOps -> PutTxn(Key(p), Marshal(h[p].req))
                [] OTHER -> kv

\* The etcd call of p's handler returns an error (no leader, a cancelled
\* context, a deadline); the call may have been applied all the same.
CallFails(p) ==
  /\ faults < MaxFaults
  /\ faults' = faults + 1
  /\ h[p].pc \notin {"idle", "wait"}
  /\ h[p].pc \in {"commit", "put"} => Key(p) # Sentinel
  /\ IF h[p].pc = "put" /\ h[p].req.op = "SetMany"
     THEN \E e \in h[p].todo :
            /\ e[1] # Sentinel
            /\ NextEntry(p, e, {e[1]})
            /\ kv' \in {kv, PutTxn(e[1], e[2])}
     ELSE /\ kv' \in {kv, Applied(p)}
          /\ \/ /\ h[p].pc = "read" /\ h[p].req.op # "SetNX"
                /\ h' = [h EXCEPT ![p].pc = "release", ![p].out = Refuse(Err("ErrUnavailable")),
                                  ![p].got = kv[Key(p)]]
                /\ UNCHANGED res
             \/ h[p].pc = "release" /\ h[p].req.op # "Unlock" /\ AfterUnlock(p)
             \/ /\ ~(h[p].pc = "read" /\ h[p].req.op # "SetNX")
                /\ ~(h[p].pc = "release" /\ h[p].req.op # "Unlock")
                /\ Finish(p, Err("ErrUnavailable"))
  /\ UNCHANGED <<mine, crashes>>

Crash(s) ==
  /\ crashes < MaxCrashes
  /\ crashes' = crashes + 1
  /\ Down(s)
  /\ UNCHANGED <<kv, mine, faults>>

-----------------------------------------------------------------------------

Init == /\ kv = [k \in Names |-> Absent]
        /\ h = [p \in Clients |-> Idle]
        /\ res = [p \in Clients |-> NoResult]
        /\ mine = [p \in Clients |-> {}]
        /\ faults = 0
        /\ crashes = 0

\* The steps the server takes by itself for client p.
Handle(p) == \/ LockAcquire(p) \/ LockTimeout(p)
             \/ Read(p) \/ UnlockThenSet(p)
             \/ Unlock(p) \/ UnlockTimeout(p) \/ PopAgain(p) \/ PopGiveUp(p)
             \/ Set(p) \/ SetMany(p) \/ Delete(p) \/ Clear(p)
             \/ LeaseGrant(p) \/ SetExpire(p)
             \/ GetNow(p) \/ GetBlock(p)

Next == \/ \E p \in Clients, r \in Requests, s \in Servers : Start(p, r, s)
        \/ \E p \in Clients : Handle(p)
        \/ \E k \in Names : LeaseExpires(k)
        \/ \E p \in Clients : CallFails(p)
        \/ \E s \in Servers : Crash(s)

Spec == Init /\ [][Next]_vars

\* A handler goroutine keeps running.  A pop that blocks for a limited time
\* counts the time it sleeps, so it does not go around its loop for ever.
Fairness == \A p \in Clients : WF_vars(Handle(p)) /\ SF_vars(PopGiveUp(p))

FairSpec == Spec /\ Fairness

-----------------------------------------------------------------------------
(* Properties.                                                             *)

\* The store holds values, handlers and results have their types.
TypeOK == /\ kv \in [Names -> Values]
          /\ h \in [Clients -> Handlers]
          /\ res \in [Clients -> Results]
          /\ mine \in [Clients -> SUBSET Keys]
          /\ faults \in 0 .. MaxFaults
          /\ crashes \in 0 .. MaxCrashes

\* p works on k believing that it has k's lock: a handler between its Lock
\* and its unlocking call, or a client between its Lock and its Unlock.
InSection(p, k) == h[p].pc \in {"read", "commit", "release"} /\ h[p].req.key = k
Holds(p, k) == InSection(p, k) \/ k \in mine[p]

\* Lock (type_lock.go): two parties never work on the same key under its lock
\* at the same time, even when etcd calls fail after being applied and servers
\* crash, as long as clients unlock only what they locked.
MutualExclusion ==
  \A k \in Keys, p, q \in Clients : Holds(p, k) /\ Holds(q, k) => p = q

\* Read-modify-write handlers (IncrementInt, ListAppend, SetHashField, ...):
\* what the handler read is still what is stored when it writes back or
\* unlocks, so no update in between is lost.
FreshRead ==
  \A p \in Clients :
    h[p].pc \in {"commit", "release"} /\ h[p].req.op \in LockingOps => kv[Key(p)] = h[p].got

\* "Lock a key from being modified": the value of a locked key changes only in
\* the very step that removes the lock (UnlockThenSet).
LockedNotModified ==
  [][\A k \in Keys : Locked(k) /\ kv'[k] # kv[k] => ~Locked(k)']_vars

\* Locks have no lease, so every one must have someone who will remove it: a
\* handler on its way to UnlockThenSet or Unlock, or a client that called Lock.
NoOrphanLock ==
  \A k \in Keys : Locked(k) => \E p \in Clients : Holds(p, k)

\* UnlockThenSet and GetMany compare the key "\0" with "\0" to get a comparison
\* that always fails; were it ever to hold, UnlockThenSet would report success,
\* write nothing and keep the lock.  No sequence of requests stores that value.
SentinelClear == kv[Sentinel] # ZeroByte

\* Every request is answered: a handler that waits for a lock gives up, a
\* blocking pop or read with a time limit ends.
Answered == \A p \in Clients : h[p].pc # "idle" ~> h[p].pc = "idle"

\* "SetExpire(key, exp): Reset the expiration of a key" (README.md): the value
\* of an existing key stays what it was.
ExpireKeepsValue ==
  [][\A p \in Clients :
       SetExpire(p) /\ kv[Key(p)] # Absent => Bytes(kv'[Key(p)]) = Bytes(kv[Key(p)])]_vars

\* The service implements the atomic store: the locking protocol makes the
\* several etcd calls of a handler look like one instant.
Atomic == INSTANCE AtomicStore WITH
            store  <- [k \in Keys |-> kv[k]],
            call   <- [p \in Clients |-> h[p].req],
            answer <- res

\* README.md "atomic list operations": every behaviour of the handlers is one
\* of the atomic store.
ImplementsAtomicStore == Atomic!ASpec
=============================================================================
