----------------------------- MODULE StoreProofs -----------------------------
(***************************************************************************)
(* What the locks protect: the value of a locked key, and with it the      *)
(* updates of the handlers, which read before they write.                  *)
(***************************************************************************)
EXTENDS ServerProofs

-----------------------------------------------------------------------------
(* The key "\0".                                                           *)

\* The lock of a name, and the lock of that, is not the sentinel.
LEMMA LockIsNoSentinel ==
  \A k \in Keys : getLockName(k) # Sentinel /\ getLockName(getLockName(k)) # Sentinel
<1>1. ASSUME NEW k \in Keys PROVE k[2] \in Nat
  BY <1>1, LockNames
<1> QED
  BY <1>1 DEF getLockName, Sentinel

\* No transaction of a handler writes the sentinel, but for the deletion of it
\* and the one of SetExpire.
LEMMA TxnSentinel ==
  ASSUME TypeInv, NEW k \in Keys
  PROVE  /\ LockTxn(k)[Sentinel] = kv[Sentinel]
         /\ DeleteTxn(getLockName(k))[Sentinel] = kv[Sentinel]
         /\ DeleteTxn(k)[Sentinel] \in {kv[Sentinel], Absent}
         /\ \A v : k # Sentinel => /\ PutTxn(k, v)[Sentinel] = kv[Sentinel]
                                   /\ UnlockThenSetTxn(k, v)[Sentinel] = kv[Sentinel]
         /\ [kv EXCEPT ![k] = Leased][Sentinel] \in {kv[Sentinel], Leased}
         /\ [n \in Names |-> Absent][Sentinel] = Absent
<1>1. Sentinel \in Names /\ k \in Names /\ getLockName(k) \in Names /\ getLockName(k) # Sentinel
  BY NamesType, LockIsNoSentinel
<1> QED
  BY <1>1 DEF TypeInv, TypeOK, LockTxn, DeleteTxn, PutTxn, UnlockThenSetTxn

\* Set, UnlockThenSet and SetMany refuse the key, SetNX ends in UnlockThenSet.
LEMMA SentinelStep ==
  ASSUME TypeInv, SentinelClear, [Next]_vars
  PROVE  SentinelClear'
<1>0. Absent # ZeroByte /\ Leased # ZeroByte
  BY DEF Absent, Leased, ZeroByte
<1>a. ASSUME kv'[Sentinel] \in {kv[Sentinel], Absent, Leased} PROVE SentinelClear'
  BY <1>0, <1>a DEF SentinelClear
<1>b. ASSUME NEW p \in Clients, h[p].pc # "idle" PROVE Key(p) \in Keys
  BY <1>b, HandlerFacts
<1>c. ASSUME NEW p \in Clients, NEW e \in h[p].todo PROVE e[1] \in Keys
  BY HandlerFacts DEF Handlers
<1>d. ASSUME NEW p \in Clients, NEW e \in h[p].todo, e[1] # Sentinel
      PROVE  PutTxn(e[1], e[2])[Sentinel] = kv[Sentinel]
  BY <1>c, <1>d, TxnSentinel
<1>1. ASSUME NEW p \in Clients, Handle(p) PROVE SentinelClear'
  <2>1. CASE LockAcquire(p) \/ Unlock(p) \/ Delete(p)
    BY <1>a, <1>b, <2>1, TxnSentinel DEF LockAcquire, Unlock, Delete
  <2>2. CASE UnlockThenSet(p) \/ Set(p)
    BY <1>a, <1>b, <2>2, TxnSentinel DEF UnlockThenSet, Set
  <2>3. CASE SetMany(p)
    BY <1>a, <1>d, <2>3 DEF SetMany
  <2>4. CASE Clear(p)
    BY <1>a, <2>4, NamesAssumption DEF Clear, Names, Sentinel
  <2>5. CASE SetExpire(p)
    BY <1>a, <1>b, <2>5, TxnSentinel DEF SetExpire
  <2>6. CASE \/ LockTimeout(p) \/ Read(p) \/ UnlockTimeout(p) \/ PopAgain(p) \/ PopGiveUp(p)
             \/ LeaseGrant(p) \/ GetNow(p) \/ GetBlock(p)
    BY <1>a, <2>6 DEF LockTimeout, Read, UnlockTimeout, PopAgain, PopGiveUp, LeaseGrant, GetNow, GetBlock
  <2> QED
    BY <1>1, <2>1, <2>2, <2>3, <2>4, <2>5, <2>6 DEF Handle
<1>2. ASSUME NEW p \in Clients, CallFails(p) PROVE SentinelClear'
  <2>1. h[p].pc # "idle" /\ (h[p].pc \in {"commit", "put"} => Key(p) # Sentinel)
    BY <1>2 DEF CallFails
  <2>2. CASE h[p].pc = "put" /\ h[p].req.op = "SetMany"
    BY <1>2, <1>a, <1>d, <2>2 DEF CallFails
  <2>3. CASE ~(h[p].pc = "put" /\ h[p].req.op = "SetMany")
    <3>1. kv' \in {kv, Applied(p)} /\ Key(p) \in Keys
      BY <1>2, <1>b, <2>3 DEF CallFails
    <3>2. Applied(p)[Sentinel] \in {kv[Sentinel], Absent, Leased}
      BY <2>1, <3>1, TxnSentinel DEF Applied
    <3> QED
      BY <1>a, <3>1, <3>2
  <2> QED
    BY <2>2, <2>3
<1>3. ASSUME NEW k \in Names, LeaseExpires(k) PROVE SentinelClear'
  BY <1>3, <1>a, NamesAssumption DEF LeaseExpires, TypeInv, TypeOK, Names, Sentinel
<1>4. ASSUME NEW p \in Clients, NEW r \in Requests, NEW s \in Servers, Start(p, r, s)
      PROVE  SentinelClear'
  BY <1>4, <1>a DEF Start
<1>5. CASE UNCHANGED vars \/ \E s \in Servers : Crash(s)
  BY <1>5, <1>a DEF vars, Crash
<1> QED
  BY <1>1, <1>2, <1>3, <1>4, <1>5 DEF Next

\* The comparison "\0" = "\0" that UnlockThenSet and GetMany rely on to fail does
\* fail, whatever the clients send, polite or not: UnlockThenSet never reports a
\* success that it did not have.
THEOREM SentinelNeverStored == Spec => []SentinelClear
<1>1. Init => SentinelClear
  BY NamesAssumption DEF Init, SentinelClear, Names, Sentinel, Absent, ZeroByte
<1>2. TypeInv /\ SentinelClear /\ [Next]_vars => SentinelClear'
  BY SentinelStep
<1> QED
  BY <1>1, <1>2, TypeInvariant, PTL DEF Spec

-----------------------------------------------------------------------------
(* A handler between two etcd calls: what it has decided fits its request. *)

Fit(x) ==
  LET r == x.req
      o == x.out
  IN  /\ x.pc = "idle" => r = NoReq
      /\ x.pc = "delete" => r.op = "Delete"
      /\ x.pc = "clear" => r.op = "Clear"
      /\ x.pc \in {"grant", "expire"} => r.op = "SetExpire"
      /\ x.pc = "commit" => r.op \in LockingOps \cup UnlockSetOps
      /\ x.pc = "release" => r.op \in LockingOps \cup {"Unlock"}
      /\ x.pc = "wait" => r.op \in PopOps /\ r.block /\ o.ret = Err("ErrListEmpty")
      /\ x.pc = "commit" /\ r.op \in LockingOps => o = Decide(r, x.got) /\ o.do = "write"
      /\ x.pc = "commit" /\ r.op \in UnlockSetOps => o = Write(Marshal(r), NullV)
      /\ x.pc = "release" /\ r.op \in LockingOps =>
           (o = Decide(r, x.got) /\ o.do = "unlock") \/ o = Refuse(Err("ErrUnavailable"))
      /\ (\/ x.pc = "release" /\ r.op = "Unlock"
          \/ x.pc = "put" /\ r.op \in SetOps
          \/ x.pc \in {"delete", "clear", "grant", "expire"}) => o = Return(Ok(NullV))

FitInv == \A p \in Clients : Fit(h[p])

\* The handler of one client is replaced by one that fits.
LEMMA FitReplace ==
  ASSUME TypeInv, FitInv, NEW p \in Clients, NEW x, h' = [h EXCEPT ![p] = x], Fit(x)
  PROVE  FitInv'
<1>1. \A q \in Clients : h'[q] = x \/ h'[q] = h[q]
  BY DEF TypeInv, TypeOK
<1> QED
  BY <1>1 DEF FitInv

\* An idle handler fits.
LEMMA IdleFit == Fit(Idle)
  BY DEF Fit, Idle

\* The pieces that handlers are made of.
LEMMA FitPieces ==
  ASSUME TypeInv, FitInv, NEW p \in Clients
  PROVE  /\ \A ret : Finish(p, ret) => FitInv'
         /\ \A s : Down(s) => FitInv'
         /\ \A l \in {"lock", "read"} : Goto(p, l) => FitInv'
         /\ h[p].pc = "grant" /\ Goto(p, "expire") => FitInv'
         /\ h[p].pc = "release" /\ AfterUnlock(p) => FitInv'
         /\ \A e, F : h[p].pc = "put" /\ h[p].req.op = "SetMany" /\ NextEntry(p, e, F) => FitInv'
<1>1. ASSUME NEW ret, Finish(p, ret) PROVE FitInv'
  BY <1>1, FitReplace, IdleFit DEF Finish
<1>2. ASSUME NEW s, Down(s) PROVE FitInv'
  <2>1. \A q \in Clients : h'[q] = Idle \/ h'[q] = h[q]
    BY <1>2 DEF Down
  <2> QED
    BY <2>1, IdleFit DEF FitInv
<1>3. ASSUME NEW l \in {"lock", "read"}, Goto(p, l) PROVE FitInv'
  <2> DEFINE x == [h[p] EXCEPT !.pc = l]
  <2>1. x.pc = l
    BY HandlerFacts DEF Handlers
  <2>2. h' = [h EXCEPT ![p] = x]
    BY <1>3 DEF Goto
  <2> HIDE DEF x
  <2>3. Fit(x)
    BY <2>1 DEF Fit
  <2> QED
    BY <2>2, <2>3, FitReplace
<1>4. ASSUME h[p].pc = "grant", Goto(p, "expire") PROVE FitInv'
  <2> DEFINE x == [h[p] EXCEPT !.pc = "expire"]
  <2>1. x.pc = "expire" /\ x.req = h[p].req /\ x.out = h[p].out
    BY HandlerFacts DEF Handlers
  <2>2. h' = [h EXCEPT ![p] = x]
    BY <1>4 DEF Goto
  <2> HIDE DEF x
  <2>3. Fit(x)
    BY <1>4, <2>1 DEF Fit, FitInv
  <2> QED
    BY <2>2, <2>3, FitReplace
<1>5. ASSUME h[p].pc = "release", AfterUnlock(p) PROVE FitInv'
  <2> DEFINE l == IF h[p].loop THEN "wait" ELSE "lock"
             x == [h[p] EXCEPT !.pc = l, !.loop = TRUE]
  <2>1. CASE h[p].req.op \in PopOps /\ h[p].req.block /\ h[p].out.ret = Err("ErrListEmpty")
    <3>1. x.pc \in {"wait", "lock"} /\ x.req = h[p].req /\ x.out = h[p].out
      BY HandlerFacts DEF Handlers
    <3>2. h' = [h EXCEPT ![p] = x]
      BY <1>5, <2>1 DEF AfterUnlock
    <3> HIDE DEF x
    <3>3. Fit(x)
      BY <2>1, <3>1 DEF Fit
    <3> QED
      BY <3>2, <3>3, FitReplace
  <2>2. CASE Finish(p, h[p].out.ret)
    BY <1>1, <2>2
  <2> QED
    BY <1>5, <2>1, <2>2 DEF AfterUnlock
<1>6. ASSUME NEW e, NEW F, h[p].pc = "put", h[p].req.op = "SetMany", NextEntry(p, e, F)
      PROVE  FitInv'
  <2> DEFINE o == Return(Ok(KeysV(h[p].out.ret.val.keys \cup F)))
             x == [h[p] EXCEPT !.todo = @ \ {e}, !.out = o]
  <2>1. x.pc = "put" /\ x.req = h[p].req
    BY <1>6, HandlerFacts DEF Handlers
  <2>2. h' = [h EXCEPT ![p] = x]
    BY <1>6 DEF NextEntry
  <2> HIDE DEF x
  <2>3. Fit(x)
    BY <1>6, <2>1 DEF Fit, SetOps
  <2> QED
    BY <2>2, <2>3, FitReplace
<1> QED
  BY <1>1, <1>2, <1>3, <1>4, <1>5, <1>6

\* A new request's first call.
LEMMA FitStart ==
  ASSUME TypeInv, FitInv, NEW p \in Clients, NEW r \in Requests, NEW s \in Servers, Start(p, r, s)
  PROVE  FitInv'
<1> DEFINE x == [pc |-> Entry(r), req |-> r, host |-> s, loop |-> FALSE,
                 todo |-> IF r.op = "SetMany" THEN r.many ELSE {},
                 out |-> FirstOut(r), got |-> Absent]
<1>1. x.pc = Entry(r) /\ x.req = r /\ x.out = FirstOut(r) /\ h' = [h EXCEPT ![p] = x]
  BY DEF Start
<1>2. r.op \in AllOps
  BY RequestsAssumption, RequestType
<1> HIDE DEF x
<1>3. /\ Entry(r) = "delete" => r.op = "Delete"
      /\ Entry(r) = "clear" => r.op = "Clear"
      /\ Entry(r) = "grant" => r.op = "SetExpire"
      /\ Entry(r) = "commit" => r.op \in UnlockSetOps
      /\ Entry(r) = "release" => r.op = "Unlock"
      /\ Entry(r) = "put" => r.op \in SetOps \cup {"SetMany"}
      /\ Entry(r) \notin {"idle", "wait", "expire"}
  BY <1>2 DEF Entry, AllOps, UnlockOps
<1>4. /\ r.op \in UnlockSetOps => FirstOut(r) = Write(Marshal(r), NullV) /\ r.op \notin LockingOps
      /\ r.op \in SetOps \cup {"Unlock", "Delete", "Clear", "SetExpire"} =>
            FirstOut(r) = Return(Ok(NullV)) /\ r.op \notin LockingOps
  BY DEF FirstOut, UnlockSetOps, SetOps, LockingOps
<1>5. Fit(x)
  BY <1>1, <1>3, <1>4 DEF Fit
<1> QED
  BY <1>1, <1>5, FitReplace

\* A locking handler reads its key, or fails to.
LEMMA FitRead ==
  ASSUME TypeInv, FitInv, NEW p \in Clients, Read(p) \/ (h[p].pc = "read" /\ CallFails(p))
  PROVE  FitInv'
<1> DEFINE r == h[p].req
           v == kv[Key(p)]
           d == Decide(r, v)
<1>0. h[p].pc = "read" /\ r.op \in LockingOps /\ r.op \notin UnlockSetOps \cup {"Unlock"}
  BY HandlerFacts DEF Read, WellPlaced, LockingOps, UnlockSetOps
<1>1. ASSUME NEW l, NEW o, h' = [h EXCEPT ![p].pc = l, ![p].out = o, ![p].got = v],
             \/ l = "commit" /\ o = d /\ d.do = "write"
             \/ l = "release" /\ o = d /\ d.do = "unlock"
             \/ l = "release" /\ o = Refuse(Err("ErrUnavailable"))
      PROVE  FitInv'
  <2> DEFINE x == [h[p] EXCEPT !.pc = l, !.out = o, !.got = v]
  <2>1. x.pc = l /\ x.req = r /\ x.out = o /\ x.got = v
    BY HandlerFacts DEF Handlers
  <2>2. h' = [h EXCEPT ![p] = x]
    BY <1>1
  <2>3. Fit(x)
    <3> HIDE DEF x, r, v
    <3> QED
      BY <1>0, <1>1, <2>1 DEF Fit
  <2> HIDE DEF x
  <2> QED
    BY <2>2, <2>3, FitReplace
<1>2. CASE Read(p)
  <2>1. \/ /\ d.do \in {"write", "unlock"}
           /\ h' = [h EXCEPT ![p].pc = IF d.do = "write" THEN "commit" ELSE "release",
                             ![p].out = d, ![p].got = v]
        \/ Finish(p, d.ret) \/ Down(h[p].host)
    BY <1>2 DEF Read
  <2> HIDE DEF d, v
  <2> QED
    BY <1>1, <2>1, FitPieces
<1>3. CASE CallFails(p)
  <2>1. \/ h' = [h EXCEPT ![p].pc = "release", ![p].out = Refuse(Err("ErrUnavailable")), ![p].got = v]
        \/ Finish(p, Err("ErrUnavailable"))
    BY <1>0, <1>3 DEF CallFails
  <2> HIDE DEF v
  <2> QED
    BY <1>1, <2>1, FitPieces
<1> QED
  BY <1>0, <1>2, <1>3

\* Handlers keep to their requests.
LEMMA FitStep ==
  ASSUME TypeInv, FitInv, [Next]_vars
  PROVE  FitInv'
<1>1. ASSUME NEW p \in Clients, Handle(p) PROVE FitInv'
  <2>1. CASE \/ LockTimeout(p) \/ UnlockThenSet(p) \/ PopGiveUp(p) \/ Set(p) \/ Delete(p)
             \/ Clear(p) \/ SetExpire(p) \/ GetNow(p)
    BY <2>1, FitPieces DEF LockTimeout, UnlockThenSet, PopGiveUp, Set, Delete, Clear, SetExpire, GetNow
  <2>2. CASE LockAcquire(p) \/ PopAgain(p) \/ LeaseGrant(p)
    BY <2>2, FitPieces DEF LockAcquire, PopAgain, LeaseGrant
  <2>3. CASE Unlock(p) \/ UnlockTimeout(p)
    BY <2>3, FitPieces DEF Unlock, UnlockTimeout
  <2>4. CASE SetMany(p)
    BY <2>4, FitPieces DEF SetMany
  <2>5. CASE GetBlock(p)
    <3>1. CASE h' = [h EXCEPT ![p].loop = TRUE]
      <4> DEFINE x == [h[p] EXCEPT !.loop = TRUE]
      <4>1. x.pc = "get"
        BY <2>5, HandlerFacts DEF Handlers, GetBlock
      <4>2. h' = [h EXCEPT ![p] = x]
        BY <3>1
      <4> HIDE DEF x
      <4>3. Fit(x)
        BY <4>1 DEF Fit
      <4> QED
        BY <4>2, <4>3, FitReplace
    <3> QED
      BY <2>5, <3>1, FitPieces DEF GetBlock
  <2> QED
    BY <1>1, <2>1, <2>2, <2>3, <2>4, <2>5, FitRead DEF Handle
<1>2. ASSUME NEW p \in Clients, CallFails(p) PROVE FitInv'
  <2>1. CASE h[p].pc = "read"
    BY <1>2, <2>1, FitRead
  <2>2. CASE h[p].pc # "read"
    <3>1. \/ h[p].pc = "put" /\ h[p].req.op = "SetMany" /\ \E e : NextEntry(p, e, {e[1]})
          \/ h[p].pc = "release" /\ AfterUnlock(p)
          \/ Finish(p, Err("ErrUnavailable"))
      BY <1>2, <2>2 DEF CallFails
    <3> QED
      BY <3>1, FitPieces
  <2> QED
    BY <2>1, <2>2
<1>3. ASSUME NEW s \in Servers, Crash(s) PROVE FitInv'
  <2>1. \A q \in Clients : h'[q] = Idle \/ h'[q] = h[q]
    BY <1>3 DEF Crash, Down
  <2> QED
    BY <2>1, IdleFit DEF FitInv
<1>4. CASE UNCHANGED vars \/ \E n \in Names : LeaseExpires(n)
  BY <1>4 DEF vars, LeaseExpires, FitInv
<1> QED
  BY <1>1, <1>2, <1>3, <1>4, FitStart DEF Next

\* At first every handler is idle.
LEMMA FitInit == Init => FitInv
  BY IdleFit DEF Init, FitInv

-----------------------------------------------------------------------------
(* The value of a locked key.                                              *)

\* Nobody sets an expiration: SetExpire writes whatever the lock.
Unleased == \A r \in Requests : r.op # "SetExpire"

\* Then no handler is about to, and nothing stored is under a lease.
NoLease == /\ \A p \in Clients : h[p].pc \notin {"grant", "expire"}
           /\ \A n \in Names : kv[n] # Leased

\* Locks that are taken and released do not touch the keys.
LEMMA LockTxnsKeep ==
  ASSUME TypeInv, NEW k \in Keys, NEW b \in BaseKeys
  PROVE  LockTxn(k)[b] = kv[b] /\ DeleteTxn(getLockName(k))[b] = kv[b]
<1>1. getLockName(k) \in Names /\ getLockName(k) # b /\ b \in Names
  BY LockNames
<1> QED
  BY <1>1 DEF TypeInv, TypeOK, LockTxn, DeleteTxn

\* A transaction that compares the lock leaves a locked key alone.
LEMMA GuardedTxnsKeep ==
  ASSUME TypeInv, NEW k \in Names, NEW b \in Names, NEW v
  PROVE  /\ PutTxn(k, v)[b] = kv[b] \/ (k = b /\ ~Locked(b) /\ PutTxn(k, v)[b] = v)
         /\ DeleteTxn(k)[b] = kv[b] \/ (k = b /\ ~Locked(b) /\ DeleteTxn(k)[b] = Absent)
  BY DEF TypeInv, TypeOK, PutTxn, DeleteTxn

\* UnlockThenSet writes one key and leaves it unlocked.
LEMMA CommitTxnKeeps ==
  ASSUME TypeInv, NEW k \in BaseKeys, NEW b \in BaseKeys, NEW v
  PROVE  /\ \/ UnlockThenSetTxn(k, v)[b] = kv[b]
            \/ k = b /\ UnlockThenSetTxn(k, v)[b] = v
         /\ kv[Sentinel] # ZeroByte => UnlockThenSetTxn(k, v)[getLockName(k)] = Absent
         /\ kv[Sentinel] # ZeroByte => UnlockThenSetTxn(k, v)[k] = v
<1>1. /\ getLockName(k) \in Names /\ getLockName(k) # b /\ getLockName(k) # k
      /\ b \in Names /\ k \in Names
  BY LockNames
<1> QED
  BY <1>1 DEF TypeInv, TypeOK, UnlockThenSetTxn

\* Where the values in the store come from.
LEMMA StoreValue ==
  ASSUME TypeInv, [Next]_vars, NEW n \in Names
  PROVE  \/ kv'[n] \in {kv[n], Absent, ZeroByte}
         \/ kv'[n] = Leased /\ \E p \in Clients : h[p].pc = "expire"
         \/ \E p \in Clients :
              /\ h[p].pc # "idle"
              /\ \/ kv'[n] \in {h[p].out.val, Marshal(h[p].req)}
                 \/ \E e \in h[p].todo : kv'[n] = e[2]
<1> DEFINE Goal == \/ kv'[n] \in {kv[n], Absent, ZeroByte}
                   \/ kv'[n] = Leased /\ \E p \in Clients : h[p].pc = "expire"
                   \/ \E p \in Clients :
                        /\ h[p].pc # "idle"
                        /\ \/ kv'[n] \in {h[p].out.val, Marshal(h[p].req)}
                           \/ \E e \in h[p].todo : kv'[n] = e[2]
<1>a. ASSUME NEW k \in Names, NEW v, getLockName(k) \in Names,
             kv' \in {kv, LockTxn(k), PutTxn(k, v), DeleteTxn(k), DeleteTxn(getLockName(k)),
                      UnlockThenSetTxn(k, v), [j \in Names |-> Absent]}
      PROVE  kv'[n] \in {kv[n], Absent, ZeroByte, v}
  BY <1>a DEF TypeInv, TypeOK, LockTxn, PutTxn, DeleteTxn, UnlockThenSetTxn
<1>b. ASSUME NEW p \in Clients, h[p].pc # "idle"
      PROVE  Key(p) \in Names /\ getLockName(Key(p)) \in Names
  BY <1>b, HandlerFacts
<1>c. ASSUME NEW p \in Clients, NEW e \in h[p].todo, h[p].pc # "idle", kv' \in {kv, PutTxn(e[1], e[2])}
      PROVE  Goal
  <2>1. e[1] \in Names
    BY HandlerFacts, NamesType DEF Handlers
  <2> QED
    BY <1>c, <2>1 DEF PutTxn, TypeInv, TypeOK
<1>d. kv' = kv => Goal
  OBVIOUS
<1>1. ASSUME NEW p \in Clients, Handle(p) PROVE Goal
  <2>1. CASE LockAcquire(p) \/ Unlock(p) \/ Delete(p) \/ Clear(p)
    <3>1. h[p].pc # "idle" /\ kv' \in {LockTxn(Key(p)), DeleteTxn(Key(p)), DeleteTxn(getLockName(Key(p))),
                                       [j \in Names |-> Absent]}
      BY <2>1 DEF LockAcquire, Unlock, Delete, Clear
    <3>2. kv'[n] \in {kv[n], Absent, ZeroByte, Absent}
      BY <1>a, <1>b, <3>1
    <3> QED
      BY <3>2
  <2>2. CASE UnlockThenSet(p)
    <3>1. h[p].pc # "idle" /\ kv' \in {kv, UnlockThenSetTxn(Key(p), h[p].out.val)}
      BY <2>2 DEF UnlockThenSet
    <3>2. kv'[n] \in {kv[n], Absent, ZeroByte, h[p].out.val}
      BY <1>a, <1>b, <3>1
    <3> QED
      BY <3>1, <3>2
  <2>3. CASE Set(p)
    <3>1. h[p].pc # "idle" /\ kv' \in {kv, PutTxn(Key(p), Marshal(h[p].req))}
      BY <2>3 DEF Set
    <3>2. kv'[n] \in {kv[n], Absent, ZeroByte, Marshal(h[p].req)}
      BY <1>a, <1>b, <3>1
    <3> QED
      BY <3>1, <3>2
  <2>4. CASE SetMany(p)
    <3>1. h[p].pc # "idle" /\ (kv' = kv \/ \E e \in h[p].todo : kv' = PutTxn(e[1], e[2]))
      BY <2>4 DEF SetMany
    <3> QED
      BY <1>c, <1>d, <3>1
  <2>5. CASE SetExpire(p)
    <3>1. h[p].pc = "expire" /\ kv' \in {kv, [kv EXCEPT ![Key(p)] = Leased]}
      BY <2>5 DEF SetExpire
    <3>2. kv'[n] \in {kv[n], Leased}
      BY <3>1 DEF TypeInv, TypeOK
    <3> QED
      BY <3>1, <3>2
  <2>6. CASE \/ LockTimeout(p) \/ Read(p) \/ UnlockTimeout(p) \/ PopAgain(p) \/ PopGiveUp(p)
             \/ LeaseGrant(p) \/ GetNow(p) \/ GetBlock(p)
    BY <1>d, <2>6 DEF LockTimeout, Read, UnlockTimeout, PopAgain, PopGiveUp, LeaseGrant, GetNow, GetBlock
  <2> HIDE DEF Goal
  <2> QED
    BY <1>1, <2>1, <2>2, <2>3, <2>4, <2>5, <2>6 DEF Handle
<1>2. ASSUME NEW p \in Clients, CallFails(p) PROVE Goal
  <2>0. h[p].pc # "idle"
    BY <1>2 DEF CallFails
  <2>1. ASSUME NEW e \in h[p].todo, kv' \in {kv, PutTxn(e[1], e[2])} PROVE Goal
    BY <1>c, <2>0, <2>1
  <2>2. CASE kv' \in {kv, Applied(p)}
    <3> DEFINE v == h[p].out.val
               m == Marshal(h[p].req)
               k == Key(p)
    <3>1. \/ kv' \in {kv, LockTxn(k), DeleteTxn(k), DeleteTxn(getLockName(k)),
                      UnlockThenSetTxn(k, v), [j \in Names |-> Absent]}
          \/ kv' = PutTxn(k, m)
          \/ h[p].pc = "expire" /\ kv' = [kv EXCEPT ![k] = Leased]
      BY <2>0, <2>2 DEF Applied
    <3>2. k \in Names /\ getLockName(k) \in Names
      BY <1>b, <2>0
    <3>3. CASE kv' \in {kv, LockTxn(k), DeleteTxn(k), DeleteTxn(getLockName(k)),
                        UnlockThenSetTxn(k, v), [j \in Names |-> Absent]}
      <4>1. kv'[n] \in {kv[n], Absent, ZeroByte, v}
        BY <1>a, <3>2, <3>3
      <4> QED
        BY <2>0, <4>1
    <3>4. CASE kv' = PutTxn(k, m)
      <4>1. kv'[n] \in {kv[n], Absent, ZeroByte, m}
        BY <1>a, <3>2, <3>4
      <4> QED
        BY <2>0, <4>1
    <3>5. CASE h[p].pc = "expire" /\ kv' = [kv EXCEPT ![k] = Leased]
      BY <3>5 DEF TypeInv, TypeOK
    <3> QED
      BY <3>1, <3>3, <3>4, <3>5
  <2> HIDE DEF Goal
  <2> QED
    BY <1>2, <2>1, <2>2 DEF CallFails
<1>3. ASSUME NEW k \in Names, LeaseExpires(k) PROVE Goal
  BY <1>3 DEF LeaseExpires, TypeInv, TypeOK
<1>4. ASSUME \/ UNCHANGED vars \/ \E s \in Servers : Crash(s)
             \/ \E p \in Clients, r \in Requests, s \in Servers : Start(p, r, s)
      PROVE  Goal
  BY <1>d, <1>4 DEF vars, Crash, Start
<1> HIDE DEF Goal
<1>5. Goal
  BY <1>1, <1>2, <1>3, <1>4 DEF Next
<1> QED
  BY <1>5 DEF Goal

\* The store never holds a lease when nobody asks for one.
LEMMA NoLeaseStep ==
  ASSUME Unleased, TypeInv, NoLease, [Next]_vars, TypeInv', FitInv'
  PROVE  NoLease'
<1>0. Absent # Leased /\ ZeroByte # Leased
  BY DEF Absent, ZeroByte, Leased
<1>1. \A p \in Clients : h'[p].pc \notin {"grant", "expire"}
  <2>1. ASSUME NEW p \in Clients, h'[p].pc \in {"grant", "expire"} PROVE FALSE
    <3>1. h'[p].req \in Requests /\ h'[p].req.op = "SetExpire"
      BY <2>1 DEF TypeInv, WellPlaced, FitInv, Fit
    <3> QED
      BY <3>1 DEF Unleased
  <2> QED
    BY <2>1
<1>2. ASSUME NEW p \in Clients, h[p].pc # "idle"
      PROVE  /\ h[p].out.val # Leased /\ Marshal(h[p].req) # Leased
             /\ \A e \in h[p].todo : e[2] # Leased
  BY <1>2, HandlerFacts, MarshalType DEF Handlers, Outcomes, Stored
<1>3. \A n \in Names : kv'[n] # Leased
  BY <1>0, <1>2, StoreValue DEF NoLease
<1> QED
  BY <1>1, <1>3 DEF NoLease

\* In one step of the service the value of a key changes only while the key is
\* unlocked, or as the party in its section removes the lock and leaves.
ChangesFree(b) ==
  kv'[b] # kv[b] =>
    \/ ~Locked(b)
    \/ ~Locked(b)' /\ \E p \in Clients : InSection(p, b) /\ ~InSection(p, b)'

\* UnlockThenSet, or a call of it that fails.
LEMMA CommitChange ==
  ASSUME TypeInv, SentinelClear, NEW p \in Clients, h[p].pc = "commit", Key(p) \in BaseKeys,
         NEW ret, Finish(p, ret), NEW v, kv' \in {kv, UnlockThenSetTxn(Key(p), v)}
  PROVE  \A b \in BaseKeys : ChangesFree(b)
<1> TAKE b \in BaseKeys
<1>1. CASE kv'[b] = kv[b]
  BY <1>1 DEF ChangesFree
<1>2. CASE kv'[b] # kv[b]
  <2>1. kv' = UnlockThenSetTxn(Key(p), v)
    BY <1>2
  <2>2. b = Key(p) /\ kv'[getLockName(b)] = Absent
    BY <1>2, <2>1, CommitTxnKeeps DEF SentinelClear
  <2>3. ~Locked(b)'
    BY <2>2 DEF Locked, Absent, ZeroByte
  <2>4. InSection(p, b) /\ ~InSection(p, b)'
    BY <2>2, FinishLeaves, LockNames DEF Leaves, InSection, Key
  <2> QED
    BY <2>3, <2>4 DEF ChangesFree
<1> QED
  BY <1>1, <1>2

\* All the steps of polite clients that set no expiration.
LEMMA StoreChange ==
  ASSUME Polite, Inv, SentinelClear, NoLease, [Next]_vars
  PROVE  \A b \in BaseKeys : ChangesFree(b)
<1> DEFINE Free == \A b \in BaseKeys : ChangesFree(b)
<1>0. TypeInv /\ PoliteInv /\ LockInv /\ Sentinel \in Names
  BY NamesAssumption DEF Inv, Sentinel, Names
<1>a. ASSUME \A b \in BaseKeys : kv'[b] = kv[b] \/ ~Locked(b) PROVE Free
  BY <1>a DEF ChangesFree
<1>b. ASSUME NEW p \in Clients, h[p].pc # "idle"
      PROVE  Key(p) \in BaseKeys /\ Key(p) \in Keys /\ Key(p) \in Names
  BY <1>0, <1>b, PoliteKey, HandlerFacts
<1>c. ASSUME NEW p \in Clients, NEW e \in h[p].todo PROVE e[1] \in Names
  BY <1>0, HandlerFacts, NamesType DEF Handlers
<1>d. \A b \in BaseKeys : b \in Names
  BY LockNames
<1>1. ASSUME NEW p \in Clients, Handle(p) PROVE Free
  <2>1. CASE LockAcquire(p) \/ Unlock(p)
    <3>1. h[p].pc # "idle" /\ kv' \in {LockTxn(Key(p)), DeleteTxn(getLockName(Key(p)))}
      BY <2>1 DEF LockAcquire, Unlock
    <3>2. \A b \in BaseKeys : kv'[b] = kv[b]
      BY <1>0, <1>b, <3>1, LockTxnsKeep
    <3> QED
      BY <1>a, <3>2
  <2>2. CASE UnlockThenSet(p)
    <3>1. /\ h[p].pc = "commit" /\ Key(p) \in BaseKeys
          /\ \E ret : Finish(p, ret)
          /\ kv' \in {kv, UnlockThenSetTxn(Key(p), h[p].out.val)}
      BY <1>b, <2>2 DEF UnlockThenSet
    <3> QED
      BY <1>0, <3>1, CommitChange
  <2>3. CASE Set(p) \/ Delete(p)
    <3>1. h[p].pc # "idle" /\ kv' \in {kv, PutTxn(Key(p), Marshal(h[p].req)), DeleteTxn(Key(p))}
      BY <2>3 DEF Set, Delete
    <3>2. \A b \in BaseKeys : kv'[b] = kv[b] \/ ~Locked(b)
      BY <1>0, <1>b, <1>d, <3>1, GuardedTxnsKeep
    <3> QED
      BY <1>a, <3>2
  <2>4. CASE SetMany(p)
    <3>1. kv' = kv \/ \E e \in h[p].todo : kv' = PutTxn(e[1], e[2])
      BY <2>4 DEF SetMany
    <3>2. \A b \in BaseKeys : kv'[b] = kv[b] \/ ~Locked(b)
      BY <1>0, <1>c, <1>d, <3>1, GuardedTxnsKeep
    <3> QED
      BY <1>a, <3>2
  <2>5. ~Clear(p) /\ ~SetExpire(p)
    BY <1>0 DEF Clear, SetExpire, PoliteInv, PoliteHandler, NoLease
  <2>6. CASE \/ LockTimeout(p) \/ Read(p) \/ UnlockTimeout(p) \/ PopAgain(p) \/ PopGiveUp(p)
             \/ LeaseGrant(p) \/ GetNow(p) \/ GetBlock(p)
    BY <1>a, <2>6 DEF LockTimeout, Read, UnlockTimeout, PopAgain, PopGiveUp, LeaseGrant, GetNow, GetBlock
  <2> QED
    BY <1>1, <2>1, <2>2, <2>3, <2>4, <2>5, <2>6 DEF Handle
<1>2. ASSUME NEW p \in Clients, CallFails(p) PROVE Free
  <2>1. h[p].pc # "idle" /\ h[p].pc # "expire" /\ h[p].pc # "clear"
    BY <1>0, <1>2 DEF CallFails, NoLease, PoliteInv, PoliteHandler
  <2>2. CASE h[p].pc = "commit"
    <3>1. Finish(p, Err("ErrUnavailable")) /\ kv' \in {kv, UnlockThenSetTxn(Key(p), h[p].out.val)}
      BY <1>2, <2>2 DEF CallFails, Applied
    <3> QED
      BY <1>0, <1>b, <2>1, <2>2, <3>1, CommitChange
  <2>3. CASE h[p].pc = "put" /\ h[p].req.op = "SetMany"
    <3>1. \E e \in h[p].todo : kv' \in {kv, PutTxn(e[1], e[2])}
      BY <1>2, <2>3 DEF CallFails
    <3>2. \A b \in BaseKeys : kv'[b] = kv[b] \/ ~Locked(b)
      BY <1>0, <1>c, <1>d, <3>1, GuardedTxnsKeep
    <3> QED
      BY <1>a, <3>2
  <2>4. CASE h[p].pc # "commit" /\ ~(h[p].pc = "put" /\ h[p].req.op = "SetMany")
    <3>1. kv' \in {kv, LockTxn(Key(p)), DeleteTxn(getLockName(Key(p))), DeleteTxn(Key(p)),
                   PutTxn(Key(p), Marshal(h[p].req))}
      BY <1>2, <2>1, <2>4 DEF CallFails, Applied
    <3>2. \A b \in BaseKeys : kv'[b] = kv[b] \/ ~Locked(b)
      BY <1>0, <1>b, <1>d, <2>1, <3>1, GuardedTxnsKeep, LockTxnsKeep
    <3> QED
      BY <1>a, <3>2
  <2> QED
    BY <2>2, <2>3, <2>4
<1>3. ASSUME NEW n \in Names, LeaseExpires(n) PROVE Free
  BY <1>3 DEF LeaseExpires, NoLease
<1>4. CASE \/ UNCHANGED vars \/ \E s \in Servers : Crash(s)
           \/ \E p \in Clients, r \in Requests, s \in Servers : Start(p, r, s)
  BY <1>a, <1>4 DEF vars, Crash, Start
<1> QED
  BY <1>1, <1>2, <1>3, <1>4 DEF Next

-----------------------------------------------------------------------------
(* What a handler has read under its lock is what it will replace.         *)

\* What a step does to the handler of p: nothing, end it, start it for a request,
\* let it read its key, or let it go on with what it had.
HandlerMoves(p) ==
  \/ h'[p] = h[p] \/ h'[p] = Idle
  \/ \E r \in Requests, s \in Servers : Start(p, r, s)
  \/ /\ h[p].pc = "read"
     /\ h'[p].req = h[p].req /\ h'[p].todo = h[p].todo
     /\ h'[p].got = kv[Key(p)] /\ kv' = kv
     /\ h'[p].out \in {Decide(h[p].req, kv[Key(p)]), Refuse(Err("ErrUnavailable"))}
  \/ /\ h'[p].pc \notin {"commit", "release"}
     /\ h'[p].req = h[p].req /\ h'[p].todo \subseteq h[p].todo
     /\ h'[p].out = h[p].out \/ h'[p].out.val = Absent

\* Whatever a step does to a handler, it stays on course.
LEMMA HandlerStep ==
  ASSUME TypeInv, [Next]_vars, NEW p \in Clients
  PROVE  HandlerMoves(p)
<1>0. /\ \A q \in Clients : \A ret : Finish(q, ret) => HandlerMoves(p)
      /\ \A s : Down(s) => HandlerMoves(p)
  BY DEF Finish, Down, TypeInv, TypeOK, HandlerMoves
<1>1. ASSUME NEW q \in Clients, NEW x, h' = [h EXCEPT ![q] = x],
             x.pc \notin {"commit", "release"}, x.req = h[q].req, x.todo \subseteq h[q].todo,
             x.out = h[q].out \/ x.out.val = Absent
      PROVE  HandlerMoves(p)
  BY <1>1 DEF TypeInv, TypeOK, HandlerMoves
<1>2. ASSUME NEW q \in Clients, NEW l, Goto(q, l), l \notin {"commit", "release"}
      PROVE  HandlerMoves(p)
  <2> DEFINE x == [h[q] EXCEPT !.pc = l]
  <2>1. x.pc = l /\ x.req = h[q].req /\ x.todo = h[q].todo /\ x.out = h[q].out
    BY HandlerFacts DEF Handlers
  <2>2. h' = [h EXCEPT ![q] = x]
    BY <1>2 DEF Goto
  <2> HIDE DEF x
  <2> QED
    BY <1>1, <1>2, <2>1, <2>2
<1>3. ASSUME NEW q \in Clients, AfterUnlock(q) PROVE HandlerMoves(p)
  <2> DEFINE l == IF h[q].loop THEN "wait" ELSE "lock"
             x == [h[q] EXCEPT !.pc = l, !.loop = TRUE]
  <2>1. x.pc \notin {"commit", "release"} /\ x.req = h[q].req /\ x.todo = h[q].todo /\ x.out = h[q].out
    BY HandlerFacts DEF Handlers
  <2>2. (\E ret : Finish(q, ret)) \/ h' = [h EXCEPT ![q] = x]
    BY <1>3 DEF AfterUnlock
  <2> HIDE DEF x
  <2> QED
    BY <1>0, <1>1, <2>1, <2>2
<1>4. ASSUME NEW q \in Clients, NEW e, NEW F, h[q].pc = "put", NextEntry(q, e, F)
      PROVE  HandlerMoves(p)
  <2> DEFINE o == Return(Ok(KeysV(h[q].out.ret.val.keys \cup F)))
             x == [h[q] EXCEPT !.todo = @ \ {e}, !.out = o]
  <2>1. x.pc = "put" /\ x.req = h[q].req /\ x.todo \subseteq h[q].todo /\ x.out = o /\ o.val = Absent
    BY <1>4, HandlerFacts DEF Handlers, Return
  <2>2. h' = [h EXCEPT ![q] = x]
    BY <1>4 DEF NextEntry
  <2> HIDE DEF x, o
  <2> QED
    BY <1>1, <2>1, <2>2
<1>5. ASSUME NEW q \in Clients, NEW l, h[q].pc = "read",
             NEW o \in {Decide(h[q].req, kv[Key(q)]), Refuse(Err("ErrUnavailable"))},
             h' = [h EXCEPT ![q].pc = l, ![q].out = o, ![q].got = kv[Key(q)]], kv' = kv
      PROVE  HandlerMoves(p)
  <2>1. CASE q # p
    BY <1>5, <2>1 DEF TypeInv, TypeOK, HandlerMoves
  <2>2. CASE q = p
    <3>1. h'[p].req = h[p].req /\ h'[p].todo = h[p].todo /\ h'[p].got = kv[Key(p)] /\ h'[p].out = o
      BY <1>5, <2>2, HandlerFacts DEF TypeInv, TypeOK, Handlers
    <3> QED
      BY <1>5, <2>2, <3>1 DEF HandlerMoves
  <2> QED
    BY <2>1, <2>2
<1>6. ASSUME NEW q \in Clients, Handle(q) PROVE HandlerMoves(p)
  <2>1. CASE Read(q)
    <3> DEFINE d == Decide(h[q].req, kv[Key(q)])
               l == IF d.do = "write" THEN "commit" ELSE "release"
    <3>1. \/ h[q].pc = "read" /\ kv' = kv
             /\ h' = [h EXCEPT ![q].pc = l, ![q].out = d, ![q].got = kv[Key(q)]]
          \/ Finish(q, d.ret) \/ Down(h[q].host)
      BY <2>1 DEF Read
    <3>2. d \in {Decide(h[q].req, kv[Key(q)]), Refuse(Err("ErrUnavailable"))}
      OBVIOUS
    <3> HIDE DEF d, l
    <3> QED
      BY <1>0, <1>5, <3>1, <3>2
  <2>2. CASE LockAcquire(q) \/ PopAgain(q) \/ LeaseGrant(q)
    BY <1>0, <1>2, <2>2 DEF LockAcquire, PopAgain, LeaseGrant
  <2>3. CASE Unlock(q) \/ UnlockTimeout(q)
    BY <1>0, <1>3, <2>3 DEF Unlock, UnlockTimeout
  <2>4. CASE SetMany(q)
    BY <1>0, <1>4, <2>4 DEF SetMany
  <2>5. CASE GetBlock(q)
    <3> DEFINE x == [h[q] EXCEPT !.loop = TRUE]
    <3>1. x.pc = "get" /\ x.req = h[q].req /\ x.todo = h[q].todo /\ x.out = h[q].out
      BY <2>5, HandlerFacts DEF Handlers, GetBlock
    <3>2. (\E ret : Finish(q, ret)) \/ h' = [h EXCEPT ![q] = x]
      BY <2>5 DEF GetBlock
    <3> HIDE DEF x
    <3> QED
      BY <1>0, <1>1, <3>1, <3>2
  <2>6. CASE \/ LockTimeout(q) \/ UnlockThenSet(q) \/ PopGiveUp(q) \/ Set(q) \/ Delete(q)
             \/ Clear(q) \/ SetExpire(q) \/ GetNow(q)
    BY <1>0, <2>6 DEF LockTimeout, UnlockThenSet, PopGiveUp, Set, Delete, Clear, SetExpire, GetNow
  <2> QED
    BY <1>6, <2>1, <2>2, <2>3, <2>4, <2>5, <2>6 DEF Handle
<1>7. ASSUME NEW q \in Clients, CallFails(q) PROVE HandlerMoves(p)
  <2>1. CASE h[q].pc = "put" /\ h[q].req.op = "SetMany"
    BY <1>4, <1>7, <2>1 DEF CallFails
  <2>2. CASE h[q].pc = "read" /\ h[q].req.op # "SetNX"
    <3>1. /\ h' = [h EXCEPT ![q].pc = "release", ![q].out = Refuse(Err("ErrUnavailable")),
                            ![q].got = kv[Key(q)]]
          /\ kv' = kv
      BY <1>7, <2>2 DEF CallFails, Applied
    <3> QED
      BY <1>5, <2>2, <3>1
  <2>3. CASE ~(h[q].pc = "put" /\ h[q].req.op = "SetMany") /\ ~(h[q].pc = "read" /\ h[q].req.op # "SetNX")
    <3>1. AfterUnlock(q) \/ Finish(q, Err("ErrUnavailable"))
      BY <1>7, <2>3 DEF CallFails
    <3> QED
      BY <1>0, <1>3, <3>1
  <2> QED
    BY <2>1, <2>2, <2>3
<1>8. ASSUME NEW q \in Clients, NEW r \in Requests, NEW s \in Servers, Start(q, r, s)
      PROVE  HandlerMoves(p)
  <2>1. q # p => h'[p] = h[p]
    BY <1>8 DEF Start, TypeInv, TypeOK
  <2> QED
    BY <1>8, <2>1 DEF HandlerMoves
<1>9. CASE UNCHANGED vars \/ (\E n \in Names : LeaseExpires(n)) \/ \E s \in Servers : Crash(s)
  BY <1>0, <1>9 DEF vars, LeaseExpires, Crash, HandlerMoves
<1> QED
  BY <1>6, <1>7, <1>8, <1>9 DEF Next

\* A locking handler that is about to write back or to unlock was so before,
\* unless it has just read.
LEMMA SectionStep ==
  ASSUME TypeInv, [Next]_vars, NEW p \in Clients,
         h'[p].pc \in {"commit", "release"}, h'[p].req.op \in LockingOps
  PROVE  \/ h'[p] = h[p]
         \/ h'[p].req = h[p].req /\ h'[p].got = kv[Key(p)] /\ kv' = kv
<1>1. h'[p] # Idle
  BY DEF Idle
<1>2. ASSUME NEW r \in Requests, NEW s \in Servers, Start(p, r, s) PROVE FALSE
  <2>1. h'[p].pc = Entry(r) /\ h'[p].req = r
    BY <1>2 DEF Start, TypeInv, TypeOK
  <2>2. r.op \in LockingOps => Entry(r) = "lock"
    BY DEF Entry, LockingOps, SetOps, UnlockSetOps, ReadOps, OneKeyReadOps, BlockingReadOps
  <2> QED
    BY <2>1, <2>2
<1> QED
  BY <1>1, <1>2, HandlerStep DEF HandlerMoves

\* The locks keep what was read fresh.
LEMMA FreshStep ==
  ASSUME Inv, Inv', FreshRead, [Next]_vars, \A b \in BaseKeys : ChangesFree(b), Polite
  PROVE  FreshRead'
<1> SUFFICES ASSUME NEW p \in Clients, h'[p].pc \in {"commit", "release"},
                    h'[p].req.op \in LockingOps
             PROVE  kv'[h'[p].req.key] = h'[p].got
  BY DEF FreshRead, Key
<1>0. TypeInv /\ LockInv /\ TypeInv' /\ LockInv'
  BY DEF Inv
<1>1. CASE h'[p].req = h[p].req /\ h'[p].got = kv[Key(p)] /\ kv' = kv
  BY <1>1 DEF Key
<1>2. CASE h'[p] = h[p]
  <2>0. PICK b \in BaseKeys : b = Key(p)
    BY <1>0, <1>2, PoliteKey
  <2>1. kv[b] = h[p].got /\ h'[p].req.key = b /\ h'[p].got = h[p].got
    BY <1>2, <2>0 DEF FreshRead, Key
  <2>2. b \in BaseKeys /\ b \in Keys
    BY LockNames
  <2>3. InSection(p, b) /\ InSection(p, b)'
    BY <1>2, <2>0 DEF InSection, Key
  <2>4. Locked(b) /\ \A q \in Clients : InSection(q, b) => q = p
    BY <1>0, <2>2, <2>3 DEF LockInv, Holds, MutualExclusion
  <2>5. kv'[b] = kv[b]
    BY <2>2, <2>3, <2>4 DEF ChangesFree
  <2> QED
    BY <2>1, <2>5
<1> QED
  BY <1>0, <1>1, <1>2, SectionStep

\* Everything that is invariant when clients are polite and set no expiration.
StoreInv == Inv /\ FitInv /\ SentinelClear /\ NoLease /\ FreshRead

\* The store never comes apart: what is known of locks and of what handlers have
\* read holds together, whatever the clients and the servers do.
THEOREM StoreInvariant == Polite /\ Unleased => (Spec => []StoreInv)
<1> SUFFICES ASSUME Polite, Unleased PROVE Spec => []StoreInv
  OBVIOUS
<1>1. Init => StoreInv
  <2> SUFFICES ASSUME Init PROVE StoreInv
    OBVIOUS
  <2>1. SentinelClear
    BY NamesAssumption DEF Init, SentinelClear, Names, Sentinel, Absent, ZeroByte
  <2>2. NoLease /\ FreshRead
    BY DEF Init, NoLease, FreshRead, Idle, Absent, Leased
  <2> QED
    BY <2>1, <2>2, LockInit, FitInit DEF StoreInv
<1>2. StoreInv /\ [Next]_vars => StoreInv'
  <2> SUFFICES ASSUME StoreInv, [Next]_vars PROVE StoreInv'
    OBVIOUS
  <2>1. Inv' /\ TypeInv /\ TypeInv'
    BY LockStep, TypeStep, PoliteStep DEF Inv, StoreInv
  <2>2. FitInv' /\ SentinelClear'
    BY <2>1, FitStep, SentinelStep DEF StoreInv
  <2>3. NoLease'
    BY <2>1, <2>2, NoLeaseStep DEF StoreInv
  <2>4. FreshRead'
    BY <2>1, StoreChange, FreshStep DEF StoreInv
  <2> QED
    BY <2>1, <2>2, <2>3, <2>4 DEF StoreInv
<1> QED
  BY <1>1, <1>2, PTL DEF Spec

\* Read-modify-write (type_int.go, type_float.go, type_list.go, type_hash.go):
\* when a handler writes back or unlocks, the value it decided from is still
\* the one stored, whatever other handlers, failing calls and crashes did in
\* between; so no update between its Get and its UnlockThenSet is lost.
THEOREM NoLostUpdate == Polite /\ Unleased => (Spec => []FreshRead)
<1>1. StoreInv => FreshRead
  BY DEF StoreInv
<1> QED
  BY <1>1, StoreInvariant, PTL

\* The value of a locked key (Lock, type_lock.go) changes only in the step of
\* UnlockThenSet that removes the lock, whoever sets or deletes the key.
THEOREM LockedKeysKept == Polite /\ Unleased => (Spec => LockedNotModified)
<1> SUFFICES ASSUME Polite, Unleased PROVE Spec => LockedNotModified
  OBVIOUS
<1>1. ASSUME StoreInv, [Next]_vars
      PROVE  [\A k \in Keys : Locked(k) /\ kv'[k] # kv[k] => ~Locked(k)']_vars
  <2>1. ASSUME NEW k \in Keys, Locked(k) PROVE k \in BaseKeys
    <3>1. getLockName(k) \in Names /\ getLockName(k)[2] = k[2] + 1 /\ k[2] \in Nat
      BY LockNames
    <3>2. ~(getLockName(k)[2] >= 2)
      BY <1>1, <2>1, <3>1 DEF StoreInv, Inv, LockInv, Locked, Absent, ZeroByte
    <3>3. k[2] = 0
      BY <3>1, <3>2
    <3> QED
      BY <3>3 DEF Keys, BaseKeys
  <2> QED
    BY <1>1, <2>1, StoreChange DEF StoreInv, ChangesFree
<1> QED
  BY <1>1, StoreInvariant, PTL DEF Spec, LockedNotModified

-----------------------------------------------------------------------------
(* No lock without a holder.                                               *)

\* No call fails, no server is killed, and the requests are those whose
\* handlers unlock on every path and never die.
AllSure ==
  /\ MaxFaults = 0 /\ MaxCrashes = 0
  /\ \A r \in Requests :
       /\ Sure(r)
       /\ r.op \in LockingOps \cup UnlockSetOps => r.key # Sentinel
       /\ Unbent(r.val) /\ \A e \in r.many : Unbent(e[2])

\* No list with a negative limit is stored or about to be.
UnbentInv == /\ \A n \in Names : Unbent(kv[n])
             /\ \A p \in Clients : /\ Unbent(h[p].out.val)
                                   /\ \A e \in h[p].todo : Unbent(e[2])

\* What a sure request carries.
LEMMA MarshalUnbent ==
  ASSUME AllSure, NEW r \in Requests
  PROVE  Unbent(Marshal(r))
<1>1. Unbent(r.val) /\ r.val \in Values
  BY RequestsAssumption, RequestType DEF AllSure, Stored
<1>2. r.val.type = "list" => r.val.limit \in Nat
  <2>1. r.val.type = "list" => r.val.limit \in Int /\ r.val.limit >= 0
    BY <1>1, DecodedType, ZeroInt64 DEF Unbent, Limit
  <2> QED
    BY <2>1
<1> QED
  BY <1>1, <1>2, EncodedUnbent DEF Marshal

\* Negative limits do not arise from limits that are not.
LEMMA UnbentStep ==
  ASSUME AllSure, TypeInv, UnbentInv, [Next]_vars
  PROVE  UnbentInv'
<1>1. ASSUME NEW p \in Clients, h[p].pc # "idle" PROVE Unbent(Marshal(h[p].req))
  BY <1>1, HandlerFacts, MarshalUnbent
<1>2. \A n \in Names : Unbent(kv'[n])
  BY <1>1, StoreValue, EncodedUnbent DEF UnbentInv
<1>3. ASSUME NEW p \in Clients PROVE Unbent(h'[p].out.val) /\ \A e \in h'[p].todo : Unbent(e[2])
  <2>1. CASE h'[p] = h[p]
    BY <2>1 DEF UnbentInv
  <2>2. CASE h'[p] = Idle
    BY <2>2, EncodedUnbent DEF Idle, Return
  <2>3. ASSUME NEW r \in Requests, NEW s \in Servers, Start(p, r, s)
        PROVE  Unbent(h'[p].out.val) /\ \A e \in h'[p].todo : Unbent(e[2])
    <3>1. /\ h'[p].out = FirstOut(r)
          /\ h'[p].todo = IF r.op = "SetMany" THEN r.many ELSE {}
      BY <2>3 DEF Start, TypeInv, TypeOK
    <3>2. FirstOut(r).val \in {Marshal(r), Absent}
      BY DEF FirstOut, Write, Return
    <3>3. Unbent(FirstOut(r).val)
      BY <3>2, MarshalUnbent, EncodedUnbent
    <3> QED
      BY <3>1, <3>3 DEF AllSure
  <2>4. CASE /\ h[p].pc = "read" /\ h'[p].todo = h[p].todo
             /\ h'[p].out \in {Decide(h[p].req, kv[Key(p)]), Refuse(Err("ErrUnavailable"))}
    <3>1. /\ WellFormed(h[p].req) /\ h[p].req.op \in LockingOps /\ Sure(h[p].req)
          /\ kv[Key(p)] \in Values /\ Unbent(kv[Key(p)])
      BY <2>4, HandlerFacts DEF WellPlaced, AllSure, UnbentInv
    <3>2. Unbent(Decide(h[p].req, kv[Key(p)]).val)
      BY <3>1, SureOutcome
    <3>3. Unbent(Refuse(Err("ErrUnavailable")).val)
      BY EncodedUnbent DEF Refuse
    <3> QED
      BY <2>4, <3>2, <3>3 DEF UnbentInv
  <2>5. CASE h'[p].todo \subseteq h[p].todo /\ (h'[p].out = h[p].out \/ h'[p].out.val = Absent)
    BY <2>5, EncodedUnbent DEF UnbentInv
  <2> QED
    BY <2>1, <2>2, <2>3, <2>4, <2>5, HandlerStep DEF HandlerMoves
<1> QED
  BY <1>2, <1>3 DEF UnbentInv

\* The steps of polite clients that touch locks: the base keys that are locked
\* after a step were so before it, or somebody has just taken the lock.
\* Whoever stops holding a key has unlocked it.
Handover(b) ==
  /\ ~Locked(b) /\ Locked(b)' => \E p \in Clients : Holds(p, b)'
  /\ \A p \in Clients : Holds(p, b) /\ ~Holds(p, b)' => ~Locked(b)'

\* A step in which every holder stays and no lock is taken.
LEMMA QuietHandover ==
  ASSUME NEW b \in BaseKeys, kv'[getLockName(b)] = kv[getLockName(b)],
         \A q \in Clients : Holds(q, b) => Holds(q, b)'
  PROVE  Handover(b)
  BY DEF Handover, Locked

\* Handlers that are in no section when they return.
LEMMA FinishHandover ==
  ASSUME TypeInv, NEW p \in Clients, h[p].pc \notin {"read", "commit", "release"}, mine' = mine,
         \/ \E ret : Finish(p, ret)
         \/ \E l : Goto(p, l)
         \/ h' = [h EXCEPT ![p].loop = TRUE]
         \/ \E e, F : NextEntry(p, e, F),
         NEW b \in BaseKeys, kv'[getLockName(b)] = kv[getLockName(b)]
  PROVE  Handover(b)
<1>1. \A q \in Clients : q # p => h'[q] = h[q]
  BY DEF Finish, Goto, NextEntry, TypeInv, TypeOK
<1>2. \A q \in Clients : Holds(q, b) => Holds(q, b)'
  BY <1>1 DEF Holds, InSection
<1> QED
  BY <1>2, QuietHandover

\* A handler that ends its section by removing the lock.
LEMMA LeaveHandover ==
  ASSUME TypeInv, NEW p \in Clients, mine' = mine, \A q \in Clients : q # p => h'[q] = h[q],
         NEW k \in BaseKeys, k = Key(p), kv'[getLockName(k)] = Absent,
         NEW b \in BaseKeys, b # k => kv'[getLockName(b)] = kv[getLockName(b)]
  PROVE  Handover(b)
<1>1. CASE b = k
  BY <1>1 DEF Handover, Locked, Absent, ZeroByte
<1>2. CASE b # k
  <2>1. \A q \in Clients : Holds(q, b) => Holds(q, b)'
    BY <1>2 DEF Holds, InSection, Key
  <2> QED
    BY <1>2, <2>1, QuietHandover
<1> QED
  BY <1>1, <1>2

\* Writing base keys leaves the locks of base keys.
LEMMA WritesKeepLocks ==
  ASSUME TypeInv, NEW k \in BaseKeys, NEW b \in BaseKeys, NEW v
  PROVE  /\ PutTxn(k, v)[getLockName(b)] = kv[getLockName(b)]
         /\ DeleteTxn(k)[getLockName(b)] = kv[getLockName(b)]
         /\ [kv EXCEPT ![k] = v][getLockName(b)] = kv[getLockName(b)]
<1>1. getLockName(b) \in Names /\ getLockName(b) # k
  BY LockNames
<1> QED
  BY <1>1 DEF TypeInv, TypeOK, PutTxn, DeleteTxn

\* LockWithTimeout hands the lock to its caller.
LEMMA AcquireHandover ==
  ASSUME Polite, Inv, NEW p \in Clients, LockAcquire(p), NEW b \in BaseKeys
  PROVE  Handover(b)
<1>0. TypeInv /\ LockInv
  BY DEF Inv
<1>1. PICK k \in BaseKeys : k = Key(p)
  BY <1>0, PoliteKey DEF LockAcquire
<1>2. h[p].pc = "lock" /\ ~Locked(k) /\ kv' = LockTxn(k)
  BY <1>1 DEF LockAcquire
<1>3. /\ \A q \in Clients : q # p => h'[q] = h[q] /\ mine'[q] = mine[q]
      /\ mine[p] \subseteq mine'[p]
      /\ Holds(p, k)'
  <2>1. CASE h[p].req.op = "Lock"
    BY <1>0, <1>1, <2>1 DEF LockAcquire, Finish, TypeInv, TypeOK, Holds
  <2>2. CASE h[p].req.op # "Lock"
    <3>1. h'[p].pc = "read" /\ h'[p].req = h[p].req /\ mine' = mine
      BY <1>0, <2>2, HandlerFacts DEF LockAcquire, Goto, TypeInv, TypeOK, Handlers
    <3>2. \A q \in Clients : q # p => h'[q] = h[q]
      BY <1>0, <2>2 DEF LockAcquire, Goto, TypeInv, TypeOK
    <3> QED
      BY <1>1, <3>1, <3>2 DEF Holds, InSection, Key
  <2> QED
    BY <2>1, <2>2
<1>4. CASE b = k
  <2>1. \A q \in Clients : ~Holds(q, b)
    BY <1>0, <1>2, <1>4, LockNames DEF LockInv
  <2> QED
    BY <1>3, <1>4, <2>1 DEF Handover
<1>5. CASE b # k
  <2>1. \A q \in Clients : Holds(q, b) => Holds(q, b)'
    BY <1>2, <1>3 DEF Holds, InSection
  <2>2. kv'[getLockName(b)] = kv[getLockName(b)]
    <3>1. getLockName(b) \in Names /\ getLockName(b) # getLockName(k)
      BY <1>5, LockNames
    <3> QED
      BY <1>0, <1>2, <3>1 DEF LockTxn, TypeInv, TypeOK
  <2> QED
    BY <2>1, <2>2, QuietHandover
<1> QED
  BY <1>4, <1>5

\* A sure handler that has read stays in its section.
LEMMA ReadHandover ==
  ASSUME AllSure, TypeInv, UnbentInv, NEW p \in Clients, Read(p), NEW b \in BaseKeys
  PROVE  Handover(b)
<1> DEFINE v == kv[Key(p)]
           o == Decide(h[p].req, v)
           l == IF o.do = "write" THEN "commit" ELSE "release"
<1>1. /\ h[p].pc = "read" /\ WellFormed(h[p].req) /\ h[p].req.op \in LockingOps
      /\ Sure(h[p].req) /\ v \in Values /\ Unbent(v)
  BY HandlerFacts DEF Read, WellPlaced, AllSure, UnbentInv
<1>2. o.do \in {"write", "unlock"}
  BY <1>1, SureOutcome
<1>3. h' = [h EXCEPT ![p].pc = l, ![p].out = o, ![p].got = v] /\ kv' = kv /\ mine' = mine
  BY <1>2 DEF Read
<1>4. h'[p].pc \in {"commit", "release"} /\ h'[p].req = h[p].req /\ \A q \in Clients \ {p} : h'[q] = h[q]
  <2> HIDE DEF o, v
  <2> QED
    BY <1>3, HandlerFacts DEF TypeInv, TypeOK, Handlers
<1>5. \A q \in Clients : Holds(q, b) => Holds(q, b)'
  BY <1>3, <1>4 DEF Holds, InSection
<1> QED
  BY <1>3, <1>5, QuietHandover

\* UnlockThenSet and Unlock remove the lock of those who leave.
LEMMA UnlockHandover ==
  ASSUME Polite, AllSure, Inv, FitInv, SentinelClear, NEW p \in Clients,
         UnlockThenSet(p) \/ Unlock(p) \/ UnlockTimeout(p), NEW b \in BaseKeys
  PROVE  Handover(b)
<1>0. TypeInv /\ LockInv /\ mine' = mine
  BY DEF Inv, UnlockThenSet, Unlock, UnlockTimeout
<1>1. PICK k \in BaseKeys : k = Key(p)
  BY <1>0, PoliteKey DEF UnlockThenSet, Unlock, UnlockTimeout
<1>2. ~UnlockTimeout(p)
  BY <1>0, <1>1, LockOfLock DEF UnlockTimeout
<1>3. /\ k \in Names /\ getLockName(k) \in Names /\ getLockName(b) \in Names
      /\ b # k => getLockName(b) # getLockName(k)
      /\ getLockName(b) # k
  BY LockNames
<1>4. \A q \in Clients : q # p => h'[q] = h[q]
  BY <1>0, <1>2 DEF UnlockThenSet, Unlock, AfterUnlock, Finish, TypeInv, TypeOK
<1>5. CASE UnlockThenSet(p)
  <2>1. h[p].req \in Requests /\ h[p].req.op \in LockingOps \cup UnlockSetOps
    BY <1>0, <1>5, HandlerFacts DEF UnlockThenSet, FitInv, Fit
  <2>2. k # Sentinel
    BY <1>1, <2>1 DEF AllSure, Key
  <2>3. kv' = UnlockThenSetTxn(k, h[p].out.val)
    BY <1>1, <1>5, <2>2 DEF UnlockThenSet
  <2>4. kv'[getLockName(k)] = Absent
    BY <1>0, <2>3, CommitTxnKeeps DEF SentinelClear
  <2>5. b # k => kv'[getLockName(b)] = kv[getLockName(b)]
    BY <1>0, <1>3, <2>3 DEF UnlockThenSetTxn, TypeInv, TypeOK
  <2> QED
    BY <1>0, <1>1, <1>4, <2>4, <2>5, LeaveHandover
<1>6. CASE Unlock(p)
  <2>1. kv' = [kv EXCEPT ![getLockName(k)] = Absent]
    BY <1>1, <1>6 DEF Unlock, DeleteTxn
  <2>2. kv'[getLockName(k)] = Absent /\ (b # k => kv'[getLockName(b)] = kv[getLockName(b)])
    BY <1>0, <1>3, <2>1 DEF TypeInv, TypeOK
  <2> QED
    BY <1>0, <1>1, <1>4, <2>2, LeaveHandover
<1> QED
  BY <1>2, <1>5, <1>6

\* A request to unlock takes the key over from its client.
LEMMA StartHandover ==
  ASSUME Polite, TypeInv, NEW p \in Clients, NEW r \in Requests, NEW s \in Servers, Start(p, r, s),
         NEW b \in BaseKeys
  PROVE  Handover(b)
<1>1. /\ h'[p].pc = Entry(r) /\ h'[p].req = r
      /\ \A q \in Clients : q # p => h'[q] = h[q] /\ mine'[q] = mine[q]
      /\ mine'[p] = IF r.op \in UnlockOps THEN mine[p] \ {r.key} ELSE mine[p]
      /\ kv' = kv /\ h[p].pc = "idle"
  BY DEF Start, TypeInv, TypeOK
<1>2. r.op \in UnlockOps => Entry(r) \in {"commit", "release"}
  BY DEF Entry, UnlockOps, UnlockSetOps, LockingOps, SetOps, ReadOps, OneKeyReadOps, BlockingReadOps
<1>3. \A q \in Clients : Holds(q, b) => Holds(q, b)'
  BY <1>1, <1>2 DEF Holds, InSection
<1> QED
  BY <1>1, <1>3, QuietHandover

\* Locks pass from hand to hand.
LEMMA HandoverStep ==
  ASSUME Polite, AllSure, Inv, FitInv, UnbentInv, SentinelClear, [Next]_vars, NEW b \in BaseKeys
  PROVE  Handover(b)
<1>0. TypeInv /\ PoliteInv /\ LockInv
  BY DEF Inv
<1>a. ASSUME NEW p \in Clients, h[p].pc # "idle" PROVE Key(p) \in BaseKeys
  BY <1>0, <1>a, PoliteKey
<1>1. ASSUME NEW p \in Clients, Handle(p) PROVE Handover(b)
  <2>1. CASE LockAcquire(p) \/ Read(p) \/ UnlockThenSet(p) \/ Unlock(p) \/ UnlockTimeout(p)
    BY <1>0, <2>1, AcquireHandover, ReadHandover, UnlockHandover
  <2>2. CASE LockTimeout(p) \/ PopAgain(p) \/ PopGiveUp(p) \/ LeaseGrant(p) \/ GetBlock(p)
    <3>1. h[p].pc \notin {"read", "commit", "release"} /\ mine' = mine /\ kv' = kv
      BY <2>2 DEF LockTimeout, PopAgain, PopGiveUp, LeaseGrant, GetBlock
    <3>2. \/ \E ret : Finish(p, ret)
          \/ \E l : Goto(p, l)
          \/ h' = [h EXCEPT ![p].loop = TRUE]
      BY <2>2 DEF LockTimeout, PopAgain, PopGiveUp, LeaseGrant, GetBlock
    <3> QED
      BY <1>0, <3>1, <3>2, FinishHandover
  <2>3. CASE Set(p) \/ Delete(p) \/ SetExpire(p)
    <3>1. /\ h[p].pc \notin {"idle", "read", "commit", "release"} /\ mine' = mine
          /\ \E ret : Finish(p, ret)
          /\ \/ kv' \in {kv, PutTxn(Key(p), Marshal(h[p].req)), DeleteTxn(Key(p))}
             \/ kv' = [kv EXCEPT ![Key(p)] = Leased]
      BY <2>3 DEF Set, Delete, SetExpire
    <3>2. PICK k \in BaseKeys : k = Key(p)
      BY <1>a, <3>1
    <3>3. kv'[getLockName(b)] = kv[getLockName(b)]
      <4>1. CASE kv' \in {kv, PutTxn(k, Marshal(h[p].req)), DeleteTxn(k)}
        BY <1>0, <4>1, WritesKeepLocks
      <4>2. CASE kv' = [kv EXCEPT ![k] = Leased]
        BY <1>0, <4>2, WritesKeepLocks
      <4> QED
        BY <3>1, <3>2, <4>1, <4>2
    <3> QED
      BY <1>0, <3>1, <3>3, FinishHandover
  <2>4. CASE SetMany(p)
    <3>1. /\ h[p].pc \notin {"idle", "read", "commit", "release"} /\ mine' = mine
          /\ (\E ret : Finish(p, ret)) \/ (\E e, F : NextEntry(p, e, F))
          /\ kv' = kv \/ \E e \in h[p].todo : kv' = PutTxn(e[1], e[2])
      BY <2>4 DEF SetMany
    <3>2. kv'[getLockName(b)] = kv[getLockName(b)]
      BY <1>0, <3>1, WritesKeepLocks DEF PoliteInv, PoliteHandler
    <3> QED
      BY <1>0, <3>1, <3>2, FinishHandover
  <2>5. CASE GetNow(p)
    <3>1. h[p].pc = "get" /\ mine' = mine /\ kv' = kv
      BY <2>5 DEF GetNow
    <3>2. WellFormed(h[p].req) /\ h[p].req.op \in ReadOps /\ Sure(h[p].req) /\ kv \in [Names -> Values]
      BY <1>0, <3>1, HandlerFacts DEF WellPlaced, AllSure, TypeInv, TypeOK
    <3>3. Answer(h[p].req, kv).do = "return"
      BY <3>2, SureAnswer
    <3>4. \E ret : Finish(p, ret)
      BY <2>5, <3>3 DEF GetNow
    <3> QED
      BY <1>0, <3>1, <3>4, FinishHandover
  <2>6. ~Clear(p)
    BY <1>0 DEF Clear, PoliteInv, PoliteHandler
  <2> QED
    BY <1>1, <2>1, <2>2, <2>3, <2>4, <2>5, <2>6 DEF Handle
<1>2. (\A p \in Clients : ~CallFails(p)) /\ \A s \in Servers : ~Crash(s)
  BY <1>0 DEF CallFails, Crash, AllSure, TypeInv, TypeOK
<1>3. ASSUME NEW n \in Names, LeaseExpires(n) PROVE Handover(b)
  <2>1. kv[n] = Leased /\ kv'[n] = Absent /\ h' = h /\ mine' = mine /\ \A m \in Names : m # n => kv'[m] = kv[m]
    BY <1>0, <1>3 DEF LeaseExpires, TypeInv, TypeOK
  <2>2. Locked(b)' => Locked(b)
    BY <2>1, LockNames DEF Locked, Absent, ZeroByte
  <2> QED
    BY <2>1, <2>2 DEF Handover, Holds, InSection
<1>4. CASE UNCHANGED vars
  BY <1>4, QuietHandover DEF vars, Holds, InSection
<1> QED
  BY <1>0, <1>1, <1>2, <1>3, <1>4, StartHandover DEF Next

\* Every lock (type_lock.go) has somebody who will remove it, when clients are
\* polite, nothing fails and no handler dies or forgets its lock: the ones that
\* do are SetNX, ListDeleteItem, SetHashField(s), SetListItem, ListDelete and
\* GetListItem beyond the ends of the list, and those that meet a negative limit.
THEOREM NoLockLeaks == Polite /\ AllSure => (Spec => []NoOrphanLock)
<1> SUFFICES ASSUME Polite, AllSure PROVE Spec => []NoOrphanLock
  OBVIOUS
<1> DEFINE I == Inv /\ FitInv /\ SentinelClear /\ UnbentInv /\ NoOrphanLock
<1>1. Init => I
  <2> SUFFICES ASSUME Init PROVE I
    OBVIOUS
  <2>1. SentinelClear
    BY NamesAssumption DEF Init, SentinelClear, Names, Sentinel, Absent, ZeroByte
  <2>2. UnbentInv
    BY EncodedUnbent DEF Init, UnbentInv, Idle, Return
  <2>3. NoOrphanLock
    BY LockNames DEF Init, NoOrphanLock, Locked, Absent, ZeroByte
  <2> QED
    BY <2>1, <2>2, <2>3, LockInit, FitInit
<1>2. I /\ [Next]_vars => I'
  <2> SUFFICES ASSUME I, [Next]_vars PROVE I'
    OBVIOUS
  <2>1. Inv' /\ TypeInv
    BY LockStep, TypeStep, PoliteStep DEF Inv
  <2>2. FitInv' /\ SentinelClear' /\ UnbentInv'
    BY <2>1, FitStep, SentinelStep, UnbentStep
  <2>3. ASSUME NEW k \in Keys, Locked(k)' PROVE \E p \in Clients : Holds(p, k)'
    <3>1. getLockName(k) \in Names /\ getLockName(k)[2] = k[2] + 1 /\ k[2] \in Nat
      BY LockNames
    <3>2. ~(getLockName(k)[2] >= 2)
      BY <2>1, <2>3, <3>1 DEF Inv, LockInv, Locked, Absent, ZeroByte
    <3>3. k[2] = 0
      BY <3>1, <3>2
    <3>4. k \in BaseKeys
      BY <3>3 DEF Keys, BaseKeys
    <3>5. Handover(k)
      BY <3>4, HandoverStep
    <3> QED
      BY <2>3, <3>5 DEF Handover, NoOrphanLock
  <2>4. NoOrphanLock'
    BY <2>3 DEF NoOrphanLock
  <2> QED
    BY <2>1, <2>2, <2>4
<1>3. I => NoOrphanLock
  OBVIOUS
<1> QED
  BY <1>1, <1>2, <1>3, PTL DEF Spec
=============================================================================
