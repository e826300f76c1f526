---------------------------- MODULE ServerProofs ----------------------------
(***************************************************************************)
(* Theorems about Server for every set of clients, servers, requests and   *)
(* keys, and any number of failing calls and crashes.                      *)
(***************************************************************************)
EXTENDS Server, OpsProofs

-----------------------------------------------------------------------------
(* Types.  A handler's next call fits its request.                         *)

WellPlaced(x) ==
  /\ x \in Handlers
  /\ x.pc # "idle" => x.req \in Requests
  /\ x.pc \in {"read", "wait"} => x.req.op \in LockingOps
  /\ x.pc = "get" => x.req.op \in ReadOps
  /\ x.pc = "lock" => x.req.op \in LockingOps \cup {"Lock"}
  /\ x.pc = "put" => x.req.op \in SetOps \cup {"SetMany"}
  /\ x.pc = "put" /\ x.req.op = "SetMany" =>
       \E S \in SUBSET Names : x.out.ret = Ok(KeysV(S))

TypeInv == TypeOK /\ \A p \in Clients : WellPlaced(h[p])

\* The primed variables that an action gives new values to, typed.
StoreTyped   == kv' \in [Names -> Values]
HandlerTyped == /\ h' \in [Clients -> Handlers]
                /\ \A p \in Clients : WellPlaced(h'[p])
                /\ res' \in [Clients -> Results]

\* An idle handler is well placed.
LEMMA IdleType == WellPlaced(Idle) /\ Idle.pc = "idle" /\ NoResult \in Results
<1>1. Return(NoResult) \in Outcomes /\ NoResult \in Results
  BY OutcomeType DEF Results
<1>2. Absent \in Values
  BY DEF Values
<1>3. Idle \in Handlers
  BY <1>1, <1>2 DEF Idle, Handlers, PCs
<1> QED
  BY <1>1, <1>3 DEF WellPlaced, Idle

\* Replacing the handler of one client by a well placed one.
LEMMA ReplaceType ==
  ASSUME TypeInv, NEW p \in Clients, NEW x, WellPlaced(x),
         h' = [h EXCEPT ![p] = x], res' \in [Clients -> Results]
  PROVE  HandlerTyped
  BY DEF TypeInv, TypeOK, HandlerTyped, WellPlaced

\* A handler that returns.
LEMMA FinishType ==
  ASSUME TypeInv, NEW p \in Clients, NEW ret \in Results, Finish(p, ret)
  PROVE  HandlerTyped
<1>1. res' \in [Clients -> Results]
  BY DEF Finish, TypeInv, TypeOK
<1> QED
  BY <1>1, IdleType, ReplaceType DEF Finish

\* A server that dies.
LEMMA DownType ==
  ASSUME TypeInv, NEW s, Down(s)
  PROVE  HandlerTyped
<1>1. Err("ErrUnavailable") \in Results
  BY ResultType DEF Errors
<1>2. Idle \in Handlers
  BY IdleType DEF WellPlaced
<1> QED
  BY <1>1, <1>2, IdleType DEF Down, HandlerTyped, TypeInv, TypeOK

\* What the type invariant says of the handler of one client.
LEMMA HandlerFacts ==
  ASSUME TypeInv, NEW p \in Clients
  PROVE  /\ h[p] \in Handlers /\ WellPlaced(h[p])
         /\ h[p].out \in Outcomes /\ h[p].out.ret \in Results /\ h[p].out.val \in Values
         /\ h[p].got \in Values /\ h[p].loop \in BOOLEAN
         /\ h[p].pc # "idle" =>
              /\ h[p].req \in Requests /\ WellFormed(h[p].req)
              /\ Key(p) \in Keys /\ Key(p) \in Names
              /\ getLockName(Key(p)) \in Names /\ getLockName(getLockName(Key(p))) \in Names
              /\ kv[Key(p)] \in Values
<1>1. h[p] \in Handlers /\ WellPlaced(h[p])
  BY DEF TypeInv, TypeOK
<1>2. /\ h[p].out \in Outcomes /\ h[p].out.ret \in Results /\ h[p].out.val \in Values
      /\ h[p].got \in Values /\ h[p].loop \in BOOLEAN
  BY <1>1 DEF Handlers, Outcomes
<1>3. ASSUME h[p].pc # "idle"
      PROVE  /\ h[p].req \in Requests /\ WellFormed(h[p].req)
             /\ Key(p) \in Keys /\ Key(p) \in Names
             /\ getLockName(Key(p)) \in Names /\ getLockName(getLockName(Key(p))) \in Names
             /\ kv[Key(p)] \in Values
  <2>1. h[p].req \in Requests
    BY <1>1, <1>3 DEF WellPlaced
  <2>2. WellFormed(h[p].req)
    BY <2>1, RequestsAssumption
  <2>3. Key(p) \in Keys
    BY <2>2, RequestType DEF Key
  <2> QED
    BY <2>1, <2>2, <2>3, NamesType DEF TypeInv, TypeOK
<1> QED
  BY <1>1, <1>2, <1>3

\* The transactions leave a store.
LEMMA TxnType ==
  ASSUME TypeInv, NEW k \in Names, NEW v \in Values
  PROVE  /\ getLockName(k) \in Names => LockTxn(k) \in [Names -> Values]
         /\ PutTxn(k, v) \in [Names -> Values]
         /\ DeleteTxn(k) \in [Names -> Values]
         /\ UnlockThenSetTxn(k, v) \in [Names -> Values]
         /\ [kv EXCEPT ![k] = v] \in [Names -> Values]
         /\ [j \in Names |-> Absent] \in [Names -> Values]
         /\ Absent \in Values /\ Leased \in Values
<1>1. Absent \in Values /\ ZeroByte \in Values /\ Leased \in Values
  BY DEF Values
<1> QED
  BY <1>1 DEF TypeInv, TypeOK, LockTxn, PutTxn, DeleteTxn, UnlockThenSetTxn

\* The end of a locking handler.
LEMMA AfterUnlockType ==
  ASSUME TypeInv, NEW p \in Clients, h[p].pc = "release", AfterUnlock(p)
  PROVE  HandlerTyped
<1> DEFINE x == [h[p] EXCEPT !.pc = IF h[p].loop THEN "wait" ELSE "lock", !.loop = TRUE]
<1>1. CASE /\ h[p].req.op \in PopOps /\ h[p].req.block
           /\ h[p].out.ret = Err("ErrListEmpty")
  <2>1. x \in Handlers /\ x.req = h[p].req /\ x.pc \in {"wait", "lock"}
    BY HandlerFacts DEF Handlers, PCs
  <2>2. h[p].req \in Requests /\ h[p].req.op \in LockingOps
    BY <1>1, HandlerFacts DEF PopOps, LockingOps
  <2>3. WellPlaced(x)
    BY <2>1, <2>2 DEF WellPlaced
  <2>4. h' = [h EXCEPT ![p] = x] /\ res' = res
    BY <1>1 DEF AfterUnlock
  <2> HIDE DEF x
  <2> QED
    BY <2>3, <2>4, ReplaceType DEF TypeInv, TypeOK
<1>2. CASE ~(/\ h[p].req.op \in PopOps /\ h[p].req.block
             /\ h[p].out.ret = Err("ErrListEmpty"))
  BY <1>2, HandlerFacts, FinishType DEF AfterUnlock
<1> QED
  BY <1>1, <1>2

\* SetMany goes on to its next entry.
LEMMA NextEntryType ==
  ASSUME TypeInv, NEW p \in Clients, h[p].pc = "put", h[p].req.op = "SetMany",
         NEW e \in h[p].todo, NEW F \in SUBSET Names, NextEntry(p, e, F)
  PROVE  HandlerTyped
<1> DEFINE out == Return(Ok(KeysV(h[p].out.ret.val.keys \cup F)))
           x == [h[p] EXCEPT !.todo = @ \ {e}, !.out = out]
<1>1. PICK S \in SUBSET Names : h[p].out.ret = Ok(KeysV(S))
  BY HandlerFacts DEF WellPlaced
<1>2. out = Return(Ok(KeysV(S \cup F)))
  BY <1>1 DEF Ok, KeysV
<1>3. KeysV(S \cup F) \in Replies
  BY DEF KeysV, Replies
<1>4. out \in Outcomes /\ out.ret = Ok(KeysV(S \cup F))
  BY <1>2, <1>3, ResultType, OutcomeType DEF Return
<1>5. WellPlaced(x)
  <2>1. x \in Handlers /\ x.req = h[p].req /\ x.pc = "put" /\ x.out = out
    BY <1>4, HandlerFacts DEF Handlers
  <2> HIDE DEF x, out
  <2> QED
    BY <2>1, <1>4, HandlerFacts DEF WellPlaced
<1>6. h' = [h EXCEPT ![p] = x] /\ res' = res
  BY DEF NextEntry
<1> HIDE DEF x
<1> QED
  BY <1>5, <1>6, ReplaceType DEF TypeInv, TypeOK

\* A handler moves on to its next call.
LEMMA MoveType ==
  ASSUME TypeInv, NEW p \in Clients, h[p].pc # "idle", NEW l \in PCs,
         NEW o \in Outcomes, NEW v \in Values, NEW b \in BOOLEAN,
         h' = [h EXCEPT ![p] = [@ EXCEPT !.pc = l, !.out = o, !.got = v, !.loop = b]],
         res' = res,
         l \in {"read", "wait"} => h[p].req.op \in LockingOps,
         l = "lock" => h[p].req.op \in LockingOps,
         l = "get" => h[p].req.op \in ReadOps,
         l # "put"
  PROVE  HandlerTyped
<1> DEFINE x == [h[p] EXCEPT !.pc = l, !.out = o, !.got = v, !.loop = b]
<1>1. x \in Handlers /\ x.req = h[p].req /\ x.pc = l
  BY HandlerFacts DEF Handlers
<1>2. WellPlaced(x)
  BY <1>1, HandlerFacts DEF WellPlaced
<1>3. h' = [h EXCEPT ![p] = x]
  OBVIOUS
<1> HIDE DEF x
<1> QED
  BY <1>2, <1>3, ReplaceType DEF TypeInv, TypeOK

\* A new request.
LEMMA StartType ==
  ASSUME TypeInv, NEW p \in Clients, NEW r \in Requests, NEW s \in Servers, Start(p, r, s)
  PROVE  HandlerTyped /\ mine' \in [Clients -> SUBSET Keys]
<1> DEFINE x == [pc |-> Entry(r), req |-> r, host |-> s, loop |-> FALSE,
                 todo |-> IF r.op = "SetMany" THEN r.many ELSE {},
                 out |-> FirstOut(r), got |-> Absent]
<1>1. WellFormed(r) /\ r.op \in AllOps /\ r.many \in SUBSET (Keys \X Stored)
      /\ Marshal(r) \in Stored
  BY RequestsAssumption, RequestType, MarshalType
<1>2. /\ Entry(r) \in PCs \ {"idle", "read", "wait"}
      /\ Entry(r) = "get" => r.op \in ReadOps
      /\ Entry(r) = "lock" => r.op \in LockingOps \cup {"Lock"}
      /\ Entry(r) = "put" => r.op \in SetOps \cup {"SetMany"}
  BY <1>1 DEF Entry, AllOps, UnlockOps, PCs
<1>3. FirstOut(r) \in Outcomes
  <2>1. KeysV({}) \in Replies /\ NullV \in Replies
    BY ResultType DEF KeysV, Replies
  <2> QED
    BY <1>1, <2>1, ResultType, OutcomeType DEF FirstOut
<1>4. r.op = "SetMany" => FirstOut(r).ret = Ok(KeysV({}))
  BY DEF FirstOut, Return, UnlockSetOps
<1>5. Absent \in Values
  BY DEF Values
<1>6. x \in Handlers
  BY <1>1, <1>2, <1>3, <1>5 DEF Handlers
<1>7. WellPlaced(x)
  <2>1. x.pc = Entry(r) /\ x.req = r /\ x.out = FirstOut(r)
    OBVIOUS
  <2> HIDE DEF x
  <2> QED
    BY <1>2, <1>4, <1>6, <2>1 DEF WellPlaced
<1>8. h' = [h EXCEPT ![p] = x] /\ res' \in [Clients -> Results]
  BY IdleType DEF Start, TypeInv, TypeOK
<1>9. HandlerTyped
  <2> HIDE DEF x
  <2> QED
    BY <1>7, <1>8, ReplaceType
<1>10. mine' \in [Clients -> SUBSET Keys]
  BY DEF Start, TypeInv, TypeOK
<1> QED
  BY <1>9, <1>10

\* The requests, calls and failures keep every type.
THEOREM TypeStep == TypeInv /\ [Next]_vars => TypeInv'
<1> SUFFICES ASSUME TypeInv, [Next]_vars PROVE TypeInv'
  OBVIOUS
<1>a. ASSUME StoreTyped, HandlerTyped, mine' \in [Clients -> SUBSET Keys],
             faults' \in 0 .. MaxFaults, crashes' \in 0 .. MaxCrashes
      PROVE  TypeInv'
  BY <1>a DEF StoreTyped, HandlerTyped, TypeInv, TypeOK
<1>b. kv \in [Names -> Values] /\ mine \in [Clients -> SUBSET Keys]
      /\ faults \in 0 .. MaxFaults /\ crashes \in 0 .. MaxCrashes
  BY DEF TypeInv, TypeOK
<1>c. ASSUME UNCHANGED <<mine, faults, crashes>>, StoreTyped, HandlerTyped PROVE TypeInv'
  BY <1>a, <1>b, <1>c
<1>d. UNCHANGED kv => StoreTyped
  BY <1>b DEF StoreTyped
<1>e. {"ErrKeyLocked", "ErrInvalidKey", "ErrUnavailable", "ErrKeyNotFound"} \subseteq Errors
  BY DEF Errors
<1>f. \A e \in Errors : Err(e) \in Results
  BY ResultType
<1>g. Ok(NullV) \in Results
  BY ResultType
<1>1. ASSUME NEW p \in Clients, NEW r \in Requests, NEW s \in Servers, Start(p, r, s)
      PROVE  TypeInv'
  BY <1>1, <1>a, <1>b, <1>d, StartType DEF Start
<1>2. ASSUME NEW p \in Clients, LockAcquire(p) PROVE TypeInv'
  <2>1. h[p].pc = "lock" /\ UNCHANGED <<faults, crashes>>
    BY <1>2 DEF LockAcquire
  <2>2. StoreTyped
    BY <1>2, <2>1, HandlerFacts, TxnType DEF LockAcquire, StoreTyped
  <2>3. CASE h[p].req.op = "Lock"
    <3>1. HandlerTyped
      BY <1>2, <1>g, <2>3, FinishType DEF LockAcquire
    <3>2. mine' \in [Clients -> SUBSET Keys]
      BY <1>2, <1>b, <2>1, <2>3, HandlerFacts DEF LockAcquire
    <3> QED
      BY <1>a, <1>b, <2>1, <2>2, <3>1, <3>2
  <2>4. CASE h[p].req.op # "Lock"
    <3>1. h[p].req.op \in LockingOps
      BY <2>1, <2>4, HandlerFacts DEF WellPlaced
    <3>2. h' = [h EXCEPT ![p] = [@ EXCEPT !.pc = "read", !.out = h[p].out, !.got = h[p].got,
                                          !.loop = h[p].loop]] /\ res' = res
      BY <1>2, <2>4, HandlerFacts DEF LockAcquire, Goto, Handlers, TypeInv, TypeOK
    <3>3. HandlerTyped
      BY <2>1, <3>1, <3>2, HandlerFacts, MoveType DEF Handlers, PCs
    <3> QED
      BY <1>2, <1>c, <2>1, <2>2, <2>4, <3>3 DEF LockAcquire
  <2> QED
    BY <2>3, <2>4
<1>3. ASSUME NEW p \in Clients, LockTimeout(p) PROVE TypeInv'
  BY <1>3, <1>c, <1>d, <1>e, <1>f, FinishType DEF LockTimeout
<1>4. ASSUME NEW p \in Clients, Read(p) PROVE TypeInv'
  <2> DEFINE v == kv[Key(p)]
             o == Decide(h[p].req, v)
             l == IF o.do = "write" THEN "commit" ELSE "release"
  <2>1. h[p].pc = "read" /\ UNCHANGED <<kv, mine, faults, crashes>>
    BY <1>4 DEF Read
  <2>2. v \in Values /\ o \in Outcomes
    BY <2>1, HandlerFacts, DecideType DEF WellPlaced
  <2>3. CASE o.do \in {"write", "unlock"} /\ res' = res
             /\ h' = [h EXCEPT ![p].pc = l, ![p].out = o, ![p].got = v]
    <3>1. h' = [h EXCEPT ![p] = [@ EXCEPT !.pc = l, !.out = o, !.got = v, !.loop = h[p].loop]]
      BY <2>3, HandlerFacts DEF Handlers, TypeInv, TypeOK
    <3>2. l \in {"commit", "release"}
      OBVIOUS
    <3> HIDE DEF l, o, v
    <3>3. HandlerTyped
      <4>1. l \in PCs /\ l \notin {"read", "wait", "lock", "get", "put"} /\ h[p].pc # "idle"
            /\ h[p].loop \in BOOLEAN /\ res' = res
        BY <2>1, <2>3, <3>2, HandlerFacts DEF PCs
      <4> QED
        BY <2>2, <3>1, <4>1, MoveType
    <3> QED
      BY <1>c, <1>d, <2>1, <3>3
  <2>4. CASE Finish(p, o.ret)
    <3>1. o.ret \in Results
      BY <2>2 DEF Outcomes
    <3> QED
      BY <1>c, <1>d, <2>1, <2>4, <3>1, FinishType
  <2>5. CASE Down(h[p].host)
    BY <1>c, <1>d, <2>1, <2>5, DownType
  <2> QED
    BY <1>4, <2>3, <2>4, <2>5 DEF Read
<1>5. ASSUME NEW p \in Clients, UnlockThenSet(p) PROVE TypeInv'
  <2>1. h[p].pc = "commit" /\ UNCHANGED <<mine, faults, crashes>>
    BY <1>5 DEF UnlockThenSet
  <2>2. StoreTyped
    <3>1. UnlockThenSetTxn(Key(p), h[p].out.val) \in [Names -> Values]
      BY <2>1, HandlerFacts, TxnType
    <3> QED
      BY <1>5, <1>b, <3>1 DEF UnlockThenSet, StoreTyped
  <2>3. HandlerTyped
    BY <1>5, <1>e, <1>f, HandlerFacts, FinishType DEF UnlockThenSet
  <2> QED
    BY <1>c, <2>1, <2>2, <2>3
<1>6. ASSUME NEW p \in Clients, Unlock(p) PROVE TypeInv'
  <2>1. h[p].pc = "release" /\ UNCHANGED <<mine, faults, crashes>>
    BY <1>6 DEF Unlock
  <2>2. StoreTyped
    BY <1>6, <2>1, HandlerFacts, TxnType DEF Unlock, StoreTyped
  <2> QED
    BY <1>6, <1>c, <2>1, <2>2, AfterUnlockType DEF Unlock
<1>7. ASSUME NEW p \in Clients, UnlockTimeout(p) PROVE TypeInv'
  <2>1. h[p].pc = "release" /\ UNCHANGED <<kv, mine, faults, crashes>>
    BY <1>7 DEF UnlockTimeout
  <2>2. HandlerTyped
    BY <1>7, <1>e, <1>f, <2>1, FinishType, AfterUnlockType DEF UnlockTimeout
  <2> QED
    BY <1>c, <1>d, <2>1, <2>2
<1>8. ASSUME NEW p \in Clients, PopAgain(p) PROVE TypeInv'
  <2>1. h[p].pc = "wait" /\ UNCHANGED <<kv, mine, faults, crashes>> /\ res' = res
    BY <1>8 DEF PopAgain, Goto
  <2>2. h' = [h EXCEPT ![p] = [@ EXCEPT !.pc = "lock", !.out = h[p].out, !.got = h[p].got,
                                        !.loop = h[p].loop]]
    BY <1>8, HandlerFacts DEF PopAgain, Goto, Handlers, TypeInv, TypeOK
  <2>3. h[p].req.op \in LockingOps
    BY <2>1, HandlerFacts DEF WellPlaced
  <2>4. "lock" \in PCs
    BY DEF PCs
  <2>5. HandlerTyped
    BY <2>1, <2>2, <2>3, <2>4, HandlerFacts, MoveType
  <2> QED
    BY <1>c, <1>d, <2>1, <2>5
<1>9. ASSUME NEW p \in Clients, PopGiveUp(p) PROVE TypeInv'
  BY <1>9, <1>c, <1>d, HandlerFacts, FinishType DEF PopGiveUp
<1>10. ASSUME NEW p \in Clients, Set(p) PROVE TypeInv'
  <2>1. h[p].pc = "put" /\ UNCHANGED <<mine, faults, crashes>>
    BY <1>10 DEF Set
  <2>2. StoreTyped
    <3>1. Marshal(h[p].req) \in Values
      BY <2>1, HandlerFacts, MarshalType DEF Stored
    <3>2. PutTxn(Key(p), Marshal(h[p].req)) \in [Names -> Values]
      BY <2>1, <3>1, HandlerFacts, TxnType
    <3> QED
      BY <1>10, <1>b, <3>2 DEF Set, StoreTyped
  <2>3. HandlerTyped
    BY <1>10, <1>e, <1>f, HandlerFacts, FinishType DEF Set
  <2> QED
    BY <1>c, <2>1, <2>2, <2>3
<1>11. ASSUME NEW p \in Clients, SetMany(p) PROVE TypeInv'
  <2>1. h[p].pc = "put" /\ h[p].req.op = "SetMany" /\ UNCHANGED <<mine, faults, crashes>>
    BY <1>11 DEF SetMany
  <2>2. CASE Finish(p, h[p].out.ret) /\ UNCHANGED kv
    BY <1>c, <1>d, <2>1, <2>2, HandlerFacts, FinishType
  <2>3. ASSUME NEW e \in h[p].todo,
               \/ NextEntry(p, e, {e[1]}) /\ UNCHANGED kv
               \/ NextEntry(p, e, {}) /\ kv' = PutTxn(e[1], e[2])
        PROVE  TypeInv'
    <3>1. e[1] \in Names /\ e[2] \in Values
      BY HandlerFacts, NamesType DEF Handlers, Stored
    <3>2. StoreTyped
      BY <1>b, <2>3, <3>1, TxnType DEF StoreTyped
    <3>3. HandlerTyped
      BY <2>1, <2>3, <3>1, NextEntryType
    <3> QED
      BY <1>c, <2>1, <3>2, <3>3
  <2> QED
    BY <1>11, <2>2, <2>3 DEF SetMany
<1>12. ASSUME NEW p \in Clients, Delete(p) PROVE TypeInv'
  <2>1. h[p].pc = "delete" /\ UNCHANGED <<mine, faults, crashes>>
    BY <1>12 DEF Delete
  <2>2. StoreTyped
    BY <1>12, <2>1, HandlerFacts, TxnType DEF Delete, StoreTyped
  <2>3. HandlerTyped
    BY <1>12, <1>e, <1>f, HandlerFacts, FinishType DEF Delete
  <2> QED
    BY <1>c, <2>1, <2>2, <2>3
<1>13. ASSUME NEW p \in Clients, Clear(p) PROVE TypeInv'
  <2>1. StoreTyped
    BY <1>13, TxnType, NamesAssumption DEF Clear, StoreTyped, Values
  <2> QED
    BY <1>13, <1>c, <2>1, HandlerFacts, FinishType DEF Clear
<1>14. ASSUME NEW p \in Clients, LeaseGrant(p) PROVE TypeInv'
  <2>1. h[p].pc = "grant" /\ UNCHANGED <<kv, mine, faults, crashes>> /\ res' = res
    BY <1>14 DEF LeaseGrant, Goto
  <2>2. h' = [h EXCEPT ![p] = [@ EXCEPT !.pc = "expire", !.out = h[p].out, !.got = h[p].got,
                                        !.loop = h[p].loop]]
    BY <1>14, HandlerFacts DEF LeaseGrant, Goto, Handlers, TypeInv, TypeOK
  <2>3. "expire" \in PCs
    BY DEF PCs
  <2>4. HandlerTyped
    BY <2>1, <2>2, <2>3, HandlerFacts, MoveType
  <2> QED
    BY <1>c, <1>d, <2>1, <2>4
<1>15. ASSUME NEW p \in Clients, SetExpire(p) PROVE TypeInv'
  <2>1. h[p].pc = "expire" /\ UNCHANGED <<mine, faults, crashes>>
    BY <1>15 DEF SetExpire
  <2>2. StoreTyped
    <3>1. Leased \in Values
      BY DEF Values
    <3> QED
      BY <1>15, <1>b, <2>1, <3>1 DEF SetExpire, StoreTyped
  <2>3. HandlerTyped
    BY <1>15, <1>e, <1>f, HandlerFacts, FinishType DEF SetExpire
  <2> QED
    BY <1>c, <2>1, <2>2, <2>3
<1>16. ASSUME NEW p \in Clients, GetNow(p) PROVE TypeInv'
  <2>1. h[p].pc = "get" /\ UNCHANGED <<kv, mine, faults, crashes>>
    BY <1>16 DEF GetNow
  <2>2. Answer(h[p].req, kv).ret \in Results
    BY <1>b, <2>1, HandlerFacts, AnswerType DEF WellPlaced
  <2>3. HandlerTyped
    BY <1>16, <2>2, FinishType, DownType DEF GetNow
  <2> QED
    BY <1>c, <1>d, <2>1, <2>3
<1>17. ASSUME NEW p \in Clients, GetBlock(p) PROVE TypeInv'
  <2>1. h[p].pc = "get" /\ UNCHANGED <<kv, mine, faults, crashes>>
    BY <1>17 DEF GetBlock
  <2>2. CASE h' = [h EXCEPT ![p].loop = TRUE] /\ res' = res
    <3> DEFINE x == [h[p] EXCEPT !.loop = TRUE]
    <3>1. x \in Handlers /\ x.pc = "get" /\ x.req = h[p].req
      BY <2>1, HandlerFacts DEF Handlers
    <3>2. WellPlaced(x)
      BY <2>1, <3>1, HandlerFacts DEF WellPlaced
    <3>3. HandlerTyped
      <4>1. h' = [h EXCEPT ![p] = x] /\ res' \in [Clients -> Results]
        BY <2>2 DEF TypeInv, TypeOK
      <4> HIDE DEF x
      <4> QED
        BY <3>2, <4>1, ReplaceType
    <3> QED
      BY <1>c, <1>d, <2>1, <3>3
  <2>3. CASE Finish(p, Err("ErrKeyNotFound"))
    BY <1>c, <1>d, <1>e, <1>f, <2>1, <2>3, FinishType
  <2> QED
    BY <1>17, <2>2, <2>3 DEF GetBlock
<1>18. ASSUME NEW k \in Names, LeaseExpires(k) PROVE TypeInv'
  <2>1. StoreTyped
    BY <1>18, <1>b DEF LeaseExpires, StoreTyped, Values
  <2>2. HandlerTyped
    BY <1>18 DEF LeaseExpires, HandlerTyped, TypeInv, TypeOK
  <2> QED
    BY <1>18, <1>c, <2>1, <2>2 DEF LeaseExpires
<1>19. ASSUME NEW p \in Clients, CallFails(p) PROVE TypeInv'
  <2>1. faults' \in 0 .. MaxFaults /\ h[p].pc # "idle" /\ UNCHANGED <<mine, crashes>>
    BY <1>19, <1>b, BoundsAssumption DEF CallFails
  <2>2. Err("ErrUnavailable") \in Results
    BY <1>e, <1>f
  <2>3. CASE h[p].pc = "put" /\ h[p].req.op = "SetMany"
    <3>1. PICK e \in h[p].todo : NextEntry(p, e, {e[1]}) /\ kv' \in {kv, PutTxn(e[1], e[2])}
      BY <1>19, <2>3 DEF CallFails
    <3>2. e[1] \in Names /\ e[2] \in Values
      BY HandlerFacts, NamesType DEF Handlers, Stored
    <3>3. StoreTyped
      <4>1. PutTxn(e[1], e[2]) \in [Names -> Values]
        BY <3>2, TxnType
      <4> QED
        BY <1>b, <3>1, <4>1 DEF StoreTyped
    <3>4. HandlerTyped
      BY <2>3, <3>1, <3>2, NextEntryType
    <3> QED
      BY <1>a, <1>b, <2>1, <3>3, <3>4
  <2>4. CASE ~(h[p].pc = "put" /\ h[p].req.op = "SetMany")
    <3>1. kv' \in {kv, Applied(p)}
      BY <1>19, <2>4 DEF CallFails
    <3>2. StoreTyped
      <4>1. /\ Key(p) \in Names /\ getLockName(Key(p)) \in Names
            /\ h[p].out.val \in Values /\ Marshal(h[p].req) \in Values
        BY <2>1, HandlerFacts, MarshalType DEF Stored
      <4>2. Applied(p) \in [Names -> Values]
        BY <1>b, <4>1, TxnType DEF Applied
      <4> QED
        BY <1>b, <3>1, <4>2 DEF StoreTyped
    <3>3. HandlerTyped
      <4>1. CASE Finish(p, Err("ErrUnavailable"))
        BY <2>2, <4>1, FinishType
      <4>2. CASE h[p].pc = "release" /\ AfterUnlock(p)
        BY <4>2, AfterUnlockType
      <4>3. CASE /\ res' = res
                 /\ h' = [h EXCEPT ![p].pc = "release", ![p].out = Refuse(Err("ErrUnavailable")),
                                   ![p].got = kv[Key(p)]]
        <5> DEFINE o == Refuse(Err("ErrUnavailable"))
        <5>1. h' = [h EXCEPT ![p] = [@ EXCEPT !.pc = "release", !.out = o, !.got = kv[Key(p)],
                                              !.loop = h[p].loop]]
          BY <4>3, HandlerFacts DEF Handlers, TypeInv, TypeOK
        <5>2. "release" \in PCs /\ o \in Outcomes /\ kv[Key(p)] \in Values
              /\ h[p].loop \in BOOLEAN /\ res' = res
          BY <2>1, <2>2, <4>3, HandlerFacts, OutcomeType DEF PCs
        <5> HIDE DEF o
        <5> QED
          BY <2>1, <5>1, <5>2, MoveType
      <4> QED
        BY <1>19, <2>4, <4>1, <4>2, <4>3 DEF CallFails
    <3> QED
      BY <1>a, <1>b, <2>1, <3>2, <3>3
  <2> QED
    BY <2>3, <2>4
<1>20. ASSUME NEW s \in Servers, Crash(s) PROVE TypeInv'
  <2>1. crashes' \in 0 .. MaxCrashes
    BY <1>20, <1>b, BoundsAssumption DEF Crash
  <2> QED
    BY <1>20, <1>a, <1>b, <1>d, <2>1, DownType DEF Crash
<1>21. CASE UNCHANGED vars
  BY <1>21 DEF vars, TypeInv, TypeOK
<1> QED
  BY <1>1, <1>2, <1>3, <1>4, <1>5, <1>6, <1>7, <1>8, <1>9, <1>10, <1>11, <1>12, <1>13,
     <1>14, <1>15, <1>16, <1>17, <1>18, <1>19, <1>20, <1>21 DEF Next, Handle

\* Nothing is stored, running or locked at first.
THEOREM TypeInit == Init => TypeInv
<1>1. Absent \in Values /\ 0 \in 0 .. MaxFaults /\ 0 \in 0 .. MaxCrashes
  BY BoundsAssumption DEF Values
<1> QED
  BY <1>1, IdleType DEF Init, TypeInv, TypeOK, WellPlaced

\* The type invariant with the strengthening it needs to be inductive.
THEOREM TypeInvariant == Spec => []TypeInv
  BY TypeInit, TypeStep, PTL DEF Spec

\* Type correctness of the service: every handler, whatever it finds in the
\* store, writes values and returns results, and leaves nothing half updated.
THEOREM TypeCorrect == Spec => []TypeOK
<1>1. TypeInv => TypeOK
  BY DEF TypeInv
<1> QED
  BY <1>1, TypeInvariant, PTL

-----------------------------------------------------------------------------
(***************************************************************************)
(* The lock of a key excludes, for every set of clients, servers and       *)
(* requests, whatever calls fail (applied or not) and servers crash, as    *)
(* long as clients are polite.                                             *)
(***************************************************************************)


\* Clients unlock only what they locked, name no lock and do not clear the store.
BaseKeys == Bases \X {0}
Polite == /\ Disciplined
          /\ \A r \in Requests : /\ r.key \in BaseKeys
                                 /\ r.op # "Clear"
                                 /\ \A e \in r.many : e[1] \in BaseKeys

\* Whoever works under a lock has it in the store, alone; a client does not
\* run a handler in the section of a key it has locked itself; and the names
\* of locks of locks are never used.
LockInv ==
  /\ \A p \in Clients, k \in Keys : Holds(p, k) => Locked(k)
  /\ MutualExclusion
  /\ \A p \in Clients, k \in Keys : InSection(p, k) => k \notin mine[p]
  /\ \A n \in Names : n[2] >= 2 => kv[n] = Absent

-----------------------------------------------------------------------------
(* Steps that give no section to anyone.                                   *)

\* No client enters a section in this step.
NoneEnters == \A q \in Clients, k \in Keys : InSection(q, k)' => InSection(q, k)

\* Client p, moreover, is in no section after it.
Leaves(p) == NoneEnters /\ \A k \in Keys : ~InSection(p, k)'

\* A handler that returns leaves its section.
LEMMA FinishLeaves ==
  ASSUME TypeInv, NEW p \in Clients, NEW ret, Finish(p, ret)
  PROVE  Leaves(p)
  BY DEF TypeInv, TypeOK, Finish, Leaves, NoneEnters, InSection, Idle

\* So does one that has released its lock, and perhaps waits to try again.
LEMMA AfterUnlockLeaves ==
  ASSUME TypeInv, NEW p \in Clients, AfterUnlock(p)
  PROVE  Leaves(p)
<1>1. CASE \E ret : Finish(p, ret)
  BY <1>1, FinishLeaves
<1>2. CASE h' = [h EXCEPT ![p].pc = IF h[p].loop THEN "wait" ELSE "lock", ![p].loop = TRUE]
  <2>1. h'[p].pc \in {"wait", "lock"} /\ \A q \in Clients \ {p} : h'[q] = h[q]
    BY <1>2, HandlerFacts DEF TypeInv, TypeOK, Handlers
  <2> QED
    BY <2>1 DEF Leaves, NoneEnters, InSection
<1> QED
  BY <1>1, <1>2 DEF AfterUnlock

\* A server that dies takes its handlers out of their sections.
LEMMA DownLeaves ==
  ASSUME TypeInv, NEW s, Down(s)
  PROVE  NoneEnters /\ \A q \in Clients : Serves(s, q) => Leaves(q)
<1>1. ASSUME NEW q \in Clients, NEW k \in Keys, InSection(q, k)'
      PROVE  InSection(q, k) /\ ~Serves(s, q)
  BY <1>1 DEF Down, InSection, Idle
<1> QED
  BY <1>1 DEF NoneEnters, Leaves

\* SetMany works in no section.
LEMMA NextEntryLeaves ==
  ASSUME TypeInv, NEW p \in Clients, h[p].pc = "put", NEW e, NEW F, NextEntry(p, e, F)
  PROVE  Leaves(p)
<1>1. h'[p].pc = "put" /\ \A q \in Clients \ {p} : h'[q] = h[q]
  BY HandlerFacts DEF TypeInv, TypeOK, Handlers, NextEntry
<1> QED
  BY <1>1 DEF Leaves, NoneEnters, InSection

\* A handler that moves on to a call outside every section.
LEMMA GotoLeaves ==
  ASSUME TypeInv, NEW p \in Clients, NEW l, Goto(p, l),
         l \notin {"read", "commit", "release"}
  PROVE  Leaves(p)
<1>1. h'[p].pc = l /\ \A q \in Clients \ {p} : h'[q] = h[q]
  BY HandlerFacts DEF TypeInv, TypeOK, Handlers, Goto
<1> QED
  BY <1>1 DEF Leaves, NoneEnters, InSection

\* If nobody enters a section or takes a lock, it is enough that the locks
\* still held are still in the store.
LEMMA QuietStep ==
  ASSUME LockInv, NoneEnters, mine' = mine,
         \A q \in Clients, k \in Keys : Holds(q, k)' => Locked(k)',
         \A n \in Names : n[2] >= 2 => kv'[n] = Absent
  PROVE  LockInv'
<1>1. \A q \in Clients, k \in Keys : Holds(q, k)' => Holds(q, k)
  BY DEF NoneEnters, Holds
<1>2. MutualExclusion'
  BY <1>1 DEF LockInv, MutualExclusion
<1>3. \A p \in Clients, k \in Keys : InSection(p, k)' => k \notin mine'[p]
  BY DEF LockInv, NoneEnters
<1> QED
  BY <1>2, <1>3 DEF LockInv

\* The same when the store does not change.
LEMMA QuietStore ==
  ASSUME LockInv, NoneEnters, mine' = mine, kv' = kv
  PROVE  LockInv'
<1>1. \A q \in Clients, k \in Keys : Holds(q, k)' => Locked(k)'
  BY DEF LockInv, NoneEnters, Holds, Locked
<1> QED
  BY <1>1, QuietStep DEF LockInv

-----------------------------------------------------------------------------
(* Names.                                                                  *)

\* The lock of a key of a polite request is no such key, and is its alone.
LEMMA LockNames ==
  /\ \A b \in BaseKeys : b \in Keys /\ b \in Names /\ b[2] = 0 /\ getLockName(b)[2] = 1
  /\ \A k \in Keys, b \in BaseKeys : getLockName(k) # b
  /\ \A k, j \in Keys : getLockName(k) = getLockName(j) => k = j
  /\ \A k \in Keys : getLockName(k) \in Names /\ k[2] \in Nat /\ getLockName(k)[2] = k[2] + 1
<1>1. \A k \in Keys : k = <<k[1], k[2]>> /\ k[1] \in Bases /\ k[2] \in 0 .. (Depth - 2)
  BY DEF Keys
<1>2. \A b \in BaseKeys : b = <<b[1], b[2]>> /\ b[1] \in Bases /\ b[2] = 0
  BY DEF BaseKeys
<1>3. \A b \in BaseKeys : b \in Keys
  BY NamesAssumption DEF Keys, BaseKeys
<1>4. \A k \in Keys : getLockName(k)[1] = k[1] /\ getLockName(k)[2] = k[2] + 1 /\ k[2] \in Nat
  BY <1>1, NamesAssumption DEF getLockName
<1>5. \A k, j \in Keys : getLockName(k) = getLockName(j) => k = j
  <2> TAKE k, j \in Keys
  <2> HAVE getLockName(k) = getLockName(j)
  <2>1. k[1] = j[1] /\ k[2] + 1 = j[2] + 1 /\ k[2] \in Nat /\ j[2] \in Nat
    BY <1>4
  <2> QED
    BY <1>1, <2>1
<1> QED
  BY <1>2, <1>3, <1>4, <1>5, NamesType

\* The key of a polite client's handler.
LEMMA PoliteKey ==
  ASSUME Polite, TypeInv, NEW p \in Clients, h[p].pc # "idle"
  PROVE  /\ Key(p) \in BaseKeys /\ Key(p) \in Keys /\ h[p].req.op # "Clear"
         /\ h[p].req \in Requests
<1>1. h[p].req \in Requests
  BY HandlerFacts
<1> QED
  BY <1>1, LockNames DEF Polite, Key

-----------------------------------------------------------------------------
(* The handlers of polite requests: none clears the store, and a SetMany   *)
(* has only base keys left to set.                                         *)

PoliteHandler(x) == x.pc # "clear" /\ \A e \in x.todo : e[1] \in BaseKeys
PoliteInv == \A p \in Clients : PoliteHandler(h[p])

\* A handler that was replaced, by the idle one or by a later stage of itself.
LEMMA PoliteReplace ==
  ASSUME TypeInv, PoliteInv, NEW p \in Clients, NEW x, h' = [h EXCEPT ![p] = x],
         x = Idle \/ (x.pc # "clear" /\ x.todo \subseteq h[p].todo)
  PROVE  PoliteInv'
<1>1. PoliteHandler(x)
  BY DEF PoliteInv, PoliteHandler, Idle
<1> QED
  BY <1>1 DEF PoliteInv, TypeInv, TypeOK

\* The pieces that handlers are made of.
LEMMA PolitePieces ==
  ASSUME TypeInv, PoliteInv, NEW p \in Clients
  PROVE  /\ \A ret : Finish(p, ret) => PoliteInv'
         /\ \A s : Down(s) => PoliteInv'
         /\ \A l \in PCs : Goto(p, l) /\ l # "clear" => PoliteInv'
         /\ AfterUnlock(p) => PoliteInv'
         /\ \A e, F : NextEntry(p, e, F) => PoliteInv'
<1>1. ASSUME NEW ret, Finish(p, ret) PROVE PoliteInv'
  BY <1>1, PoliteReplace DEF Finish
<1>2. ASSUME NEW s, Down(s) PROVE PoliteInv'
  BY <1>2 DEF Down, PoliteInv, PoliteHandler, Idle
<1>3. ASSUME NEW l \in PCs, Goto(p, l), l # "clear" PROVE PoliteInv'
  <2> DEFINE x == [h[p] EXCEPT !.pc = l]
  <2>1. x.pc = l /\ x.todo = h[p].todo
    BY HandlerFacts DEF Handlers
  <2>2. h' = [h EXCEPT ![p] = x]
    BY <1>3 DEF Goto
  <2> HIDE DEF x
  <2> QED
    BY <1>3, <2>1, <2>2, PoliteReplace
<1>4. ASSUME AfterUnlock(p) PROVE PoliteInv'
  <2> DEFINE x == [h[p] EXCEPT !.pc = IF h[p].loop THEN "wait" ELSE "lock", !.loop = TRUE]
  <2>1. x.pc # "clear" /\ x.todo = h[p].todo
    BY HandlerFacts DEF Handlers
  <2>2. CASE h' = [h EXCEPT ![p] = x]
    <3> HIDE DEF x
    <3> QED
      BY <2>1, <2>2, PoliteReplace
  <2> QED
    BY <1>1, <1>4, <2>2 DEF AfterUnlock
<1>5. ASSUME NEW e, NEW F, NextEntry(p, e, F) PROVE PoliteInv'
  <2> DEFINE x == [h[p] EXCEPT !.todo = @ \ {e},
                               !.out = Return(Ok(KeysV(@.ret.val.keys \cup F)))]
  <2>1. x.pc = h[p].pc /\ x.todo \subseteq h[p].todo
    BY HandlerFacts DEF Handlers
  <2>2. h' = [h EXCEPT ![p] = x] /\ h[p].pc # "clear"
    BY <1>5 DEF NextEntry, PoliteInv, PoliteHandler
  <2> HIDE DEF x
  <2> QED
    BY <2>1, <2>2, PoliteReplace
<1> QED
  BY <1>1, <1>2, <1>3, <1>4, <1>5

\* Polite requests have polite handlers, whatever happens to them.
LEMMA PoliteStep ==
  ASSUME Polite, TypeInv, PoliteInv, [Next]_vars
  PROVE  PoliteInv'
<1>1. ASSUME NEW p \in Clients, NEW r \in Requests, NEW s \in Servers, Start(p, r, s)
      PROVE  PoliteInv'
  <2>1. h'[p].pc = Entry(r) /\ h'[p].todo = IF r.op = "SetMany" THEN r.many ELSE {}
    BY <1>1 DEF Start, TypeInv, TypeOK
  <2>2. r.op \in AllOps \ {"Clear"} /\ \A e \in r.many : e[1] \in BaseKeys
    BY RequestsAssumption DEF Polite, WellFormed, Request
  <2>3. Entry(r) # "clear"
    BY <2>2 DEF Entry, AllOps, UnlockOps
  <2>4. \A q \in Clients : q # p => h'[q] = h[q]
    BY <1>1 DEF Start, TypeInv, TypeOK
  <2> QED
    BY <2>1, <2>2, <2>3, <2>4 DEF PoliteInv, PoliteHandler
<1>2. ASSUME NEW p \in Clients, Handle(p)
      PROVE  PoliteInv'
  <2>1. CASE Read(p)
    <3> DEFINE o == Decide(h[p].req, kv[Key(p)])
               x == [h[p] EXCEPT !.pc = IF o.do = "write" THEN "commit" ELSE "release",
                                 !.out = o, !.got = kv[Key(p)]]
    <3>1. x.pc # "clear" /\ x.todo = h[p].todo
      BY HandlerFacts DEF Handlers
    <3>2. CASE h' = [h EXCEPT ![p] = x]
      <4> HIDE DEF x
      <4> QED
        BY <3>1, <3>2, PoliteReplace
    <3> QED
      BY <2>1, <3>2, PolitePieces DEF Read
  <2>2. CASE GetBlock(p)
    <3> DEFINE x == [h[p] EXCEPT !.loop = TRUE]
    <3>1. x.pc = h[p].pc /\ x.todo = h[p].todo
      BY HandlerFacts DEF Handlers
    <3>2. CASE h' = [h EXCEPT ![p] = x]
      <4>1. h[p].pc = "get"
        BY <2>2 DEF GetBlock
      <4> HIDE DEF x
      <4> QED
        BY <3>1, <3>2, <4>1, PoliteReplace
    <3> QED
      BY <2>2, <3>2, PolitePieces DEF GetBlock
  <2>3. {"read", "lock", "expire"} \subseteq PCs
    BY DEF PCs
  <2>4. CASE LockAcquire(p) \/ PopAgain(p) \/ LeaseGrant(p)
    BY <2>3, <2>4, PolitePieces DEF LockAcquire, PopAgain, LeaseGrant
  <2>5. CASE SetMany(p)
    BY <2>5, PolitePieces DEF SetMany
  <2>6. CASE \/ LockTimeout(p) \/ UnlockThenSet(p) \/ Unlock(p) \/ UnlockTimeout(p) \/ PopGiveUp(p)
             \/ Set(p) \/ Delete(p) \/ Clear(p) \/ SetExpire(p) \/ GetNow(p)
    BY <2>6, PolitePieces DEF LockTimeout, UnlockThenSet, Unlock, UnlockTimeout, PopGiveUp, Set,
         Delete, Clear, SetExpire, GetNow
  <2> QED
    BY <1>2, <2>1, <2>2, <2>4, <2>5, <2>6 DEF Handle
<1>3. ASSUME NEW p \in Clients, CallFails(p)
      PROVE  PoliteInv'
  <2> DEFINE x == [h[p] EXCEPT !.pc = "release", !.out = Refuse(Err("ErrUnavailable")),
                               !.got = kv[Key(p)]]
  <2>1. x.pc # "clear" /\ x.todo = h[p].todo
    BY HandlerFacts DEF Handlers
  <2>2. CASE h' = [h EXCEPT ![p] = x]
    <3> HIDE DEF x
    <3> QED
      BY <2>1, <2>2, PoliteReplace
  <2>3. CASE \E e \in h[p].todo : NextEntry(p, e, {e[1]})
    BY <2>3, PolitePieces
  <2>4. CASE AfterUnlock(p) \/ Finish(p, Err("ErrUnavailable"))
    BY <2>4, PolitePieces
  <2> QED
    BY <1>3, <2>2, <2>3, <2>4 DEF CallFails
<1>4. ASSUME NEW s \in Servers, Crash(s)
      PROVE  PoliteInv'
  BY <1>4 DEF Crash, Down, PoliteInv, PoliteHandler, Idle
<1>5. CASE UNCHANGED vars \/ \E n \in Names : LeaseExpires(n)
  BY <1>5 DEF vars, LeaseExpires, PoliteInv
<1> QED
  BY <1>1, <1>2, <1>3, <1>4, <1>5 DEF Next

-----------------------------------------------------------------------------
(* What the transactions of polite clients do to locks.                    *)

\* Writing a base key, or nothing, leaves every lock as it is.
LEMMA WriteStep ==
  ASSUME TypeInv, LockInv, NoneEnters, mine' = mine, NEW b \in BaseKeys, NEW v,
         kv' \in {kv, [kv EXCEPT ![b] = v]}
  PROVE  LockInv'
<1>1. \A n \in Names : n # b => kv'[n] = kv[n]
  BY DEF TypeInv, TypeOK
<1>2. \A k \in Keys : Locked(k)' = Locked(k)
  BY <1>1, LockNames DEF Locked
<1>3. \A n \in Names : n[2] >= 2 => kv'[n] = Absent
  BY <1>1, LockNames DEF LockInv
<1>4. \A q \in Clients, k \in Keys : Holds(q, k)' => Locked(k)'
  BY <1>2 DEF LockInv, NoneEnters, Holds
<1> QED
  BY <1>3, <1>4, QuietStep

\* Removing a lock is safe for the client that leaves its section.
LEMMA ReleaseStep ==
  ASSUME TypeInv, LockInv, mine' = mine, NEW p \in Clients, Leaves(p),
         NEW b \in BaseKeys, InSection(p, b), NEW v,
         kv' \in {kv, DeleteTxn(getLockName(b)), UnlockThenSetTxn(b, v)}
  PROVE  LockInv'
<1>1. \A n \in Names : n # b /\ n # getLockName(b) => kv'[n] = kv[n]
  BY LockNames DEF TypeInv, TypeOK, DeleteTxn, UnlockThenSetTxn
<1>2. \A k \in Keys : k # b => Locked(k)' = Locked(k)
  BY <1>1, LockNames DEF Locked
<1>3. \A n \in Names : n[2] >= 2 => kv'[n] = Absent
  BY <1>1, LockNames DEF LockInv
<1>4. ASSUME NEW q \in Clients, NEW k \in Keys, Holds(q, k)'
      PROVE  Locked(k)'
  <2>1. Holds(q, k)
    BY <1>4 DEF Leaves, NoneEnters, Holds
  <2>2. Holds(p, b) /\ b \notin mine[p] /\ b \in Keys
    BY LockNames DEF Holds, LockInv
  <2>3. k # b
    BY <1>4, <2>1, <2>2 DEF LockInv, MutualExclusion, Leaves, Holds
  <2> QED
    BY <1>2, <2>1, <2>3 DEF LockInv
<1> QED
  BY <1>3, <1>4, QuietStep DEF Leaves

\* The lock of a locked base key's lock is free, so Unlock goes through.
LEMMA LockOfLock ==
  ASSUME LockInv, NEW b \in BaseKeys
  PROVE  ~Locked(getLockName(b))
<1>1. getLockName(b) \in Names /\ getLockName(getLockName(b)) \in Names
      /\ getLockName(getLockName(b))[2] = 2
  BY LockNames, NamesType DEF getLockName
<1>2. kv[getLockName(getLockName(b))] = Absent
  BY <1>1 DEF LockInv
<1> QED
  BY <1>2 DEF Locked, Absent, ZeroByte

\* Taking a lock that is free.
LEMMA AcquireStep ==
  ASSUME TypeInv, LockInv, NEW p \in Clients, NEW b \in BaseKeys, ~Locked(b),
         kv' = LockTxn(b),
         \A q \in Clients, k \in Keys :
           /\ InSection(q, k)' => InSection(q, k) \/ (q = p /\ k = b)
           /\ k \in mine'[q] => k \in mine[q] \/ (q = p /\ k = b),
         ~(InSection(p, b)' /\ b \in mine'[p])
  PROVE  LockInv'
<1>1. /\ \A n \in Names : n # getLockName(b) => kv'[n] = kv[n]
      /\ kv'[getLockName(b)] = ZeroByte
  BY LockNames DEF TypeInv, TypeOK, LockTxn
<1>2. Locked(b)' /\ \A k \in Keys : Locked(k) => Locked(k)'
  BY <1>1, LockNames DEF Locked
<1>3. \A q \in Clients : ~Holds(q, b)
  BY LockNames DEF LockInv
<1>4. \A q \in Clients, k \in Keys : Holds(q, k)' => Holds(q, k) \/ (q = p /\ k = b)
  BY DEF Holds
<1>5. \A q \in Clients, k \in Keys : Holds(q, k)' => Locked(k)'
  BY <1>2, <1>4 DEF LockInv
<1>6. MutualExclusion'
  BY <1>3, <1>4 DEF LockInv, MutualExclusion
<1>7. ASSUME NEW q \in Clients, NEW k \in Keys, InSection(q, k)', k \in mine'[q]
      PROVE  FALSE
  <2>1. CASE q = p /\ k = b
    BY <1>7, <2>1
  <2>2. CASE ~(q = p /\ k = b)
    BY <1>7, <2>2 DEF LockInv
  <2> QED
    BY <2>1, <2>2
<1>8. \A n \in Names : n[2] >= 2 => kv'[n] = Absent
  BY <1>1, LockNames DEF LockInv
<1> QED
  BY <1>5, <1>6, <1>7, <1>8 DEF LockInv

\* Taking a lock for nobody: the call was applied, but its answer was lost.
LEMMA StrayLockStep ==
  ASSUME TypeInv, LockInv, NoneEnters, mine' = mine, NEW b \in BaseKeys,
         kv' \in {kv, LockTxn(b)}
  PROVE  LockInv'
<1>1. \A n \in Names : n # getLockName(b) => kv'[n] = kv[n]
  BY LockNames DEF TypeInv, TypeOK, LockTxn
<1>2. getLockName(b) \in Names /\ kv'[getLockName(b)] \in {kv[getLockName(b)], ZeroByte}
  BY LockNames DEF TypeInv, TypeOK, LockTxn
<1>3. \A k \in Keys : Locked(k) => Locked(k)'
  <2> TAKE k \in Keys
  <2> HAVE Locked(k)
  <2>1. CASE getLockName(k) = getLockName(b)
    BY <1>2, <2>1 DEF Locked
  <2>2. CASE getLockName(k) # getLockName(b)
    BY <1>1, <2>2, LockNames DEF Locked
  <2> QED
    BY <2>1, <2>2
<1>4. \A q \in Clients, k \in Keys : Holds(q, k)' => Locked(k)'
  BY <1>3 DEF LockInv, NoneEnters, Holds
<1>5. \A n \in Names : n[2] >= 2 => kv'[n] = Absent
  BY <1>1, LockNames DEF LockInv
<1> QED
  BY <1>4, <1>5, QuietStep

\* A lease is never on a lock that is held: that holds ZeroByte.
LEMMA ExpiryStep ==
  ASSUME TypeInv, LockInv, NEW n \in Names, LeaseExpires(n)
  PROVE  LockInv'
<1>1. /\ \A m \in Names : m # n => kv'[m] = kv[m]
      /\ kv[n] = Leased /\ kv'[n] = Absent
      /\ h' = h /\ mine' = mine
  BY DEF LeaseExpires, TypeInv, TypeOK
<1>2. \A k \in Keys : Locked(k) => Locked(k)'
  BY <1>1, LockNames DEF Locked, Leased, ZeroByte
<1>3. NoneEnters
  BY <1>1 DEF NoneEnters, InSection
<1>4. \A q \in Clients, k \in Keys : Holds(q, k)' => Locked(k)'
  BY <1>2, <1>3, <1>1 DEF LockInv, NoneEnters, Holds
<1>5. \A m \in Names : m[2] >= 2 => kv'[m] = Absent
  BY <1>1 DEF LockInv
<1> QED
  BY <1>1, <1>3, <1>4, <1>5, QuietStep

\* A request that starts in a section (Unlock, UnlockThenSet) is for a key its
\* client has locked, and takes that key over from its client.
LEMMA StartStep ==
  ASSUME Polite, TypeInv, LockInv, NEW p \in Clients, NEW r \in Requests, NEW s \in Servers,
         Start(p, r, s)
  PROVE  LockInv'
<1>1. /\ h'[p].pc = Entry(r) /\ h'[p].req = r
      /\ \A q \in Clients : q # p => h'[q] = h[q] /\ mine'[q] = mine[q]
      /\ mine'[p] = IF r.op \in UnlockOps THEN mine[p] \ {r.key} ELSE mine[p]
      /\ kv' = kv /\ h[p].pc = "idle"
  BY DEF Start, TypeInv, TypeOK
<1>2. r.op \in UnlockOps => r.key \in mine[p]
  BY DEF Start, Polite
<1>3. Entry(r) \in {"read", "commit", "release"} => r.op \in UnlockOps
  <2>1. r.op \in AllOps
    BY RequestsAssumption DEF WellFormed, Request
  <2> QED
    BY <2>1 DEF Entry, AllOps, UnlockOps
<1>4. \A k \in Keys : InSection(p, k)' => k = r.key /\ r.op \in UnlockOps
  BY <1>1, <1>3 DEF InSection
<1>5. \A q \in Clients, k \in Keys : Holds(q, k)' => Holds(q, k)
  BY <1>1, <1>2, <1>4 DEF Holds, InSection
<1>6. \A q \in Clients, k \in Keys : Holds(q, k)' => Locked(k)'
  BY <1>1, <1>5 DEF LockInv, Locked
<1>7. MutualExclusion'
  BY <1>5 DEF LockInv, MutualExclusion
<1>8. \A q \in Clients, k \in Keys : InSection(q, k)' => k \notin mine'[q]
  BY <1>1, <1>4 DEF LockInv, InSection
<1>9. \A n \in Names : n[2] >= 2 => kv'[n] = Absent
  BY <1>1 DEF LockInv
<1> QED
  BY <1>6, <1>7, <1>8, <1>9 DEF LockInv

\* LockWithTimeout, for a client or at the start of a handler.
LEMMA LockAcquireStep ==
  ASSUME Polite, TypeInv, LockInv, NEW p \in Clients, LockAcquire(p)
  PROVE  LockInv'
<1>0. PICK b \in BaseKeys : b = Key(p)
  BY PoliteKey DEF LockAcquire
<1>1. h[p].pc = "lock" /\ ~Locked(b) /\ kv' = LockTxn(b)
  BY <1>0 DEF LockAcquire
<1>2. \A q \in Clients : ~Holds(q, b)
  BY <1>1, LockNames DEF LockInv
<1>3. CASE h[p].req.op = "Lock"
  <2>1. Leaves(p) /\ mine' = [mine EXCEPT ![p] = @ \cup {b}]
    BY <1>0, <1>3, FinishLeaves DEF LockAcquire
  <2>2. \A q \in Clients, k \in Keys :
           /\ InSection(q, k)' => InSection(q, k)
           /\ k \in mine'[q] => k \in mine[q] \/ (q = p /\ k = b)
    BY <2>1 DEF Leaves, NoneEnters, TypeInv, TypeOK
  <2>3. ~InSection(p, b)'
    BY <1>1, <2>1, LockNames DEF Leaves
  <2> QED
    BY <1>1, <2>2, <2>3, AcquireStep
<1>4. CASE h[p].req.op # "Lock"
  <2>1. Goto(p, "read") /\ mine' = mine
    BY <1>4 DEF LockAcquire
  <2>2. h'[p].pc = "read" /\ h'[p].req = h[p].req /\ \A q \in Clients \ {p} : h'[q] = h[q]
    BY <2>1, HandlerFacts DEF Goto, TypeInv, TypeOK, Handlers
  <2>3. \A q \in Clients, k \in Keys : InSection(q, k)' => InSection(q, k) \/ (q = p /\ k = b)
    BY <1>0, <2>2 DEF InSection, Key
  <2>4. b \notin mine'[p]
    BY <1>2, <2>1 DEF Holds
  <2> QED
    BY <1>1, <2>1, <2>3, <2>4, AcquireStep
<1> QED
  BY <1>3, <1>4

\* A locking handler has read its key: it stays in its section or leaves it.
LEMMA ReadStep ==
  ASSUME TypeInv, LockInv, NEW p \in Clients, Read(p)
  PROVE  LockInv'
<1>1. h[p].pc = "read" /\ kv' = kv /\ mine' = mine
  BY DEF Read
<1>2. ASSUME NEW l \in PCs, NEW o, NEW v, h' = [h EXCEPT ![p].pc = l, ![p].out = o, ![p].got = v]
      PROVE  NoneEnters
  <2>1. h'[p].req = h[p].req /\ \A q \in Clients \ {p} : h'[q] = h[q]
    BY <1>2, HandlerFacts DEF TypeInv, TypeOK, Handlers
  <2> QED
    BY <1>1, <2>1 DEF NoneEnters, InSection
<1>3. NoneEnters
  <2> DEFINE o == Decide(h[p].req, kv[Key(p)])
             l == IF o.do = "write" THEN "commit" ELSE "release"
  <2>1. \/ h' = [h EXCEPT ![p].pc = l, ![p].out = o, ![p].got = kv[Key(p)]]
        \/ Finish(p, o.ret) \/ Down(h[p].host)
    BY DEF Read
  <2>2. l \in PCs
    BY DEF PCs
  <2> HIDE DEF o, l
  <2>3. Finish(p, o.ret) => NoneEnters
    BY FinishLeaves DEF Leaves
  <2>4. Down(h[p].host) => NoneEnters
    BY DownLeaves
  <2> QED
    BY <1>2, <2>1, <2>2, <2>3, <2>4
<1> QED
  BY <1>1, <1>3, QuietStore

\* UnlockThenSet and Unlock, at the end of a section.
LEMMA UnlockStep ==
  ASSUME Polite, TypeInv, LockInv, NEW p \in Clients,
         UnlockThenSet(p) \/ Unlock(p) \/ UnlockTimeout(p)
  PROVE  LockInv'
<1>1. PICK b \in BaseKeys : b = Key(p) /\ InSection(p, b) /\ mine' = mine
  BY PoliteKey DEF UnlockThenSet, Unlock, UnlockTimeout, InSection, Key
<1>2. CASE UnlockThenSet(p)
  <2>1. Leaves(p) /\ kv' \in {kv, UnlockThenSetTxn(b, h[p].out.val)}
    BY <1>1, <1>2, FinishLeaves DEF UnlockThenSet
  <2> QED
    BY <1>1, <2>1, ReleaseStep
<1>3. CASE Unlock(p)
  <2>1. Leaves(p) /\ kv' = DeleteTxn(getLockName(b))
    BY <1>1, <1>3, AfterUnlockLeaves DEF Unlock
  <2> QED
    BY <1>1, <2>1, ReleaseStep
<1>4. CASE UnlockTimeout(p)
  <2>1. Leaves(p) /\ kv' = kv
    BY <1>4, FinishLeaves, AfterUnlockLeaves DEF UnlockTimeout
  <2> QED
    BY <1>1, <2>1, QuietStore DEF Leaves
<1> QED
  BY <1>2, <1>3, <1>4

\* Set, SetMany, Delete and SetExpire write keys, never locks.
LEMMA WritersStep ==
  ASSUME Polite, TypeInv, PoliteInv, LockInv, NEW p \in Clients,
         Set(p) \/ SetMany(p) \/ Delete(p) \/ SetExpire(p)
  PROVE  LockInv'
<1>1. PICK b \in BaseKeys : b = Key(p)
  BY PoliteKey DEF Set, SetMany, Delete, SetExpire
<1>2. mine' = mine
  BY DEF Set, SetMany, Delete, SetExpire
<1>3. CASE Set(p)
  <2>1. NoneEnters /\ kv' \in {kv, [kv EXCEPT ![b] = Marshal(h[p].req)]}
    BY <1>1, <1>3, FinishLeaves DEF Set, PutTxn, Leaves
  <2> QED
    BY <1>2, <2>1, WriteStep
<1>4. CASE SetMany(p)
  <2>1. CASE Finish(p, h[p].out.ret) /\ kv' = kv
    BY <1>2, <2>1, FinishLeaves, QuietStore DEF Leaves
  <2>2. ASSUME NEW e \in h[p].todo, NEW F, NextEntry(p, e, F), kv' \in {kv, PutTxn(e[1], e[2])}
        PROVE  LockInv'
    <3>1. e[1] \in BaseKeys /\ kv' \in {kv, [kv EXCEPT ![e[1]] = e[2]]}
      BY <2>2 DEF PoliteInv, PoliteHandler, PutTxn
    <3>2. NoneEnters
      BY <1>4, <2>2, NextEntryLeaves DEF SetMany, Leaves
    <3> QED
      BY <1>2, <3>1, <3>2, WriteStep
  <2> QED
    BY <1>4, <2>1, <2>2 DEF SetMany
<1>5. CASE Delete(p)
  <2>1. NoneEnters /\ kv' \in {kv, [kv EXCEPT ![b] = Absent]}
    BY <1>1, <1>5, FinishLeaves DEF Delete, DeleteTxn, Leaves
  <2> QED
    BY <1>2, <2>1, WriteStep
<1>6. CASE SetExpire(p)
  <2>1. NoneEnters /\ kv' \in {kv, [kv EXCEPT ![b] = Leased]}
    BY <1>1, <1>6, FinishLeaves DEF SetExpire, Leaves
  <2> QED
    BY <1>2, <2>1, WriteStep
<1> QED
  BY <1>3, <1>4, <1>5, <1>6

\* Calls that only wait, read or give up.
LEMMA WaitersStep ==
  ASSUME TypeInv, LockInv, NEW p \in Clients,
         \/ LockTimeout(p) \/ PopAgain(p) \/ PopGiveUp(p) \/ LeaseGrant(p)
         \/ GetNow(p) \/ GetBlock(p)
  PROVE  LockInv'
<1>1. kv' = kv /\ mine' = mine
  BY DEF LockTimeout, PopAgain, PopGiveUp, LeaseGrant, GetNow, GetBlock
<1>2. CASE LockTimeout(p) \/ PopGiveUp(p)
  BY <1>1, <1>2, FinishLeaves, QuietStore DEF LockTimeout, PopGiveUp, Leaves
<1>3. CASE PopAgain(p) \/ LeaseGrant(p)
  BY <1>1, <1>3, GotoLeaves, QuietStore DEF PopAgain, LeaseGrant, Leaves
<1>4. CASE GetNow(p)
  BY <1>1, <1>4, FinishLeaves, DownLeaves, QuietStore DEF GetNow, Leaves
<1>5. CASE GetBlock(p)
  <2>1. CASE h' = [h EXCEPT ![p].loop = TRUE]
    <3>1. h'[p].pc = h[p].pc /\ \A q \in Clients \ {p} : h'[q] = h[q]
      BY <2>1, HandlerFacts DEF TypeInv, TypeOK, Handlers
    <3>2. NoneEnters
      BY <1>5, <3>1 DEF GetBlock, NoneEnters, InSection
    <3> QED
      BY <1>1, <3>2, QuietStore
  <2>2. CASE Finish(p, Err("ErrKeyNotFound"))
    BY <1>1, <2>2, FinishLeaves, QuietStore DEF Leaves
  <2> QED
    BY <1>5, <2>1, <2>2 DEF GetBlock
<1> QED
  BY <1>2, <1>3, <1>4, <1>5

\* A call that fails, applied or not.
LEMMA FailStep ==
  ASSUME Polite, TypeInv, PoliteInv, LockInv, NEW p \in Clients, CallFails(p)
  PROVE  LockInv'
<1>1. mine' = mine /\ h[p].pc # "idle"
  BY DEF CallFails
<1>2. PICK b \in BaseKeys : b = Key(p) /\ h[p].req.op # "Clear"
  BY <1>1, PoliteKey
<1>3. CASE h[p].pc = "put" /\ h[p].req.op = "SetMany"
  <2>1. PICK e \in h[p].todo : NextEntry(p, e, {e[1]}) /\ kv' \in {kv, PutTxn(e[1], e[2])}
    BY <1>3 DEF CallFails
  <2>2. e[1] \in BaseKeys /\ kv' \in {kv, [kv EXCEPT ![e[1]] = e[2]]}
    BY <2>1 DEF PoliteInv, PoliteHandler, PutTxn
  <2>3. NoneEnters
    BY <1>3, <2>1, NextEntryLeaves DEF Leaves
  <2> QED
    BY <1>1, <2>2, <2>3, WriteStep
<1>4. CASE h[p].pc = "read" /\ h[p].req.op # "SetNX"
  <2>1. kv' = kv
    BY <1>4 DEF CallFails, Applied
  <2>2. h'[p].req = h[p].req /\ \A q \in Clients \ {p} : h'[q] = h[q]
    BY <1>4, HandlerFacts DEF CallFails, TypeInv, TypeOK, Handlers
  <2>3. NoneEnters
    BY <1>4, <2>2 DEF NoneEnters, InSection
  <2> QED
    BY <1>1, <2>1, <2>3, QuietStore
<1>5. CASE /\ ~(h[p].pc = "put" /\ h[p].req.op = "SetMany")
           /\ ~(h[p].pc = "read" /\ h[p].req.op # "SetNX")
  <2>1. kv' \in {kv, Applied(p)}
    BY <1>5 DEF CallFails
  <2>2. Leaves(p)
    BY <1>5, FinishLeaves, AfterUnlockLeaves DEF CallFails
  <2>3. CASE h[p].pc \in {"commit", "release"}
    <3>1. InSection(p, b)
      BY <1>2, <2>3 DEF InSection, Key
    <3>2. kv' \in {kv, DeleteTxn(getLockName(b)), UnlockThenSetTxn(b, h[p].out.val)}
      BY <1>2, <2>1, <2>3 DEF Applied
    <3> QED
      BY <1>1, <2>2, <3>1, <3>2, ReleaseStep
  <2>4. CASE h[p].pc = "lock"
    <3>1. kv' \in {kv, LockTxn(b)}
      BY <1>2, <2>1, <2>4 DEF Applied
    <3> QED
      BY <1>1, <2>2, <3>1, StrayLockStep DEF Leaves
  <2>5. CASE h[p].pc \notin {"commit", "release", "lock"}
    <3>1. h[p].pc # "clear"
      BY DEF PoliteInv, PoliteHandler
    <3>2. kv' \in {kv, [kv EXCEPT ![b] = Absent]} \cup {[kv EXCEPT ![b] = Leased]}
                    \cup {[kv EXCEPT ![b] = Marshal(h[p].req)]}
      BY <1>2, <2>1, <2>5, <3>1 DEF Applied, DeleteTxn, PutTxn
    <3> QED
      BY <1>1, <2>2, <3>2, WriteStep DEF Leaves
  <2> QED
    BY <2>3, <2>4, <2>5
<1> QED
  BY <1>3, <1>4, <1>5

-----------------------------------------------------------------------------
(* The theorem.                                                            *)

Inv == TypeInv /\ PoliteInv /\ LockInv

\* Every step keeps whoever works under a lock alone with it.
THEOREM LockStep == Polite /\ Inv /\ [Next]_vars => LockInv'
<1> SUFFICES ASSUME Polite, Inv, [Next]_vars PROVE LockInv'
  OBVIOUS
<1>1. TypeInv /\ PoliteInv /\ LockInv
  BY DEF Inv
<1>2. ASSUME NEW p \in Clients, Handle(p)
      PROVE  LockInv'
  <2>1. ~Clear(p)
    BY <1>1 DEF Clear, PoliteInv, PoliteHandler
  <2> QED
    BY <1>1, <1>2, <2>1, LockAcquireStep, ReadStep, UnlockStep, WritersStep, WaitersStep DEF Handle
<1>3. ASSUME NEW s \in Servers, Crash(s)
      PROVE  LockInv'
  BY <1>1, <1>3, DownLeaves, QuietStore DEF Crash
<1>4. CASE UNCHANGED vars
  BY <1>1, <1>4, QuietStore DEF vars, NoneEnters, InSection
<1> QED
  BY <1>1, <1>2, <1>3, <1>4, StartStep, ExpiryStep, FailStep DEF Next

\* The inductive invariant holds at first, when nobody has a lock ...
THEOREM LockInit == Init => Inv
<1> SUFFICES ASSUME Init PROVE Inv
  OBVIOUS
<1>1. \A p \in Clients, k \in Keys : ~Holds(p, k)
  BY DEF Init, Holds, InSection, Idle
<1>2. \A p \in Clients, k \in Keys : ~InSection(p, k)
  BY DEF Init, InSection, Idle
<1>3. PoliteInv
  BY DEF Init, PoliteInv, PoliteHandler, Idle
<1>4. \A n \in Names : n[2] >= 2 => kv[n] = Absent
  BY DEF Init
<1> QED
  BY <1>1, <1>2, <1>3, <1>4, TypeInit DEF Inv, LockInv, MutualExclusion

\* ... and whatever polite clients do, calls that fail and servers that crash.
THEOREM LockInvariant == Polite => (Spec => []Inv)
<1> SUFFICES ASSUME Polite PROVE Spec => []Inv
  OBVIOUS
<1>1. Inv /\ [Next]_vars => Inv'
  BY LockStep, TypeStep, PoliteStep DEF Inv
<1> QED
  BY <1>1, LockInit, PTL DEF Spec

\* Mutual exclusion (LockWithTimeout, Unlock, UnlockThenSet, type_lock.go): if
\* every client unlocks only what it locked and leaves the names of locks and
\* Clear alone, no two parties ever work on one key under its lock.
THEOREM LocksExclude == Polite => (Spec => []MutualExclusion)
<1>1. Inv => MutualExclusion
  BY DEF Inv, LockInv
<1> QED
  BY <1>1, LockInvariant, PTL
=============================================================================
