----------------------------- MODULE ShellProofs ----------------------------
(***************************************************************************)
(* Theorems about Shell and the client library, for every set of lines,    *)
(* words and spellings, any number of lines and of calls of the other      *)
(* program, and every way the service's answers may fail to arrive.        *)
(***************************************************************************)
EXTENDS Shell, OpsProofs

Programs == {Cli, Go}

-----------------------------------------------------------------------------
(* The metadata of a context.                                              *)

SessionInv ==
  /\ md = [p \in Clients |-> [token |-> md[p].token, wait |-> md[p].wait]]
  /\ said = [p \in Clients |-> [token |-> said[p].token, wait |-> said[p].wait,
                                last |-> said[p].last]]
  /\ SessionKept

\* Every program is a client.
LEMMA ProgramsAreClients == Programs \subseteq Clients /\ Cli \in Programs /\ Go \in Programs /\ Cli # Go
  BY LinesAssumption DEF Programs, Cli, Go

\* What a program's call does on its way leaves the metadata alone, but for the
\* token that comes with the answer to Authenticate.
LEMMA ProceedsMetadata ==
  ASSUME NEW p, Proceeds(p)
  PROVE  Authenticated(p) \/ UNCHANGED <<md, said>>
  BY DEF Proceeds, Served, NotServed, Denied, Returns, ServedAuth, NotServedAuth, ReturnsAuth,
         NotAuthenticated, Unchanged

\* The steps that change the metadata.
LEMMA MetadataSteps ==
  ASSUME [Next]_vars
  PROVE  \/ UNCHANGED <<md, said>>
         \/ \E p \in Programs : \/ Authenticated(p) \/ LogOut(p)
                                \/ \E n : SetLockTimeout(p, n)
<1>1. CASE UNCHANGED vars \/ BlankLine
  BY <1>1 DEF vars, BlankLine, clientVars
<1>2. CASE Answered
  BY <1>2, ProgramsAreClients DEF Answered, Returns, ReturnsAuth, NotAuthenticated, Unchanged
<1>3. CASE Waits
  BY <1>3 DEF Waits, Served, ServedAuth, NotServed, NotServedAuth, Denied, Unchanged
<1>4. CASE GoProceeds
  BY <1>4, ProceedsMetadata, ProgramsAreClients DEF GoProceeds
<1>5. ASSUME NEW l \in Lines, Fails(l) \/ Talks(l) \/ Quits(l) \/ SetsLockTimeout(l) \/ Runs(l)
      PROVE  UNCHANGED <<md, said>> \/ \E n : SetLockTimeout(Cli, n)
  BY <1>5 DEF Fails, Talks, Quits, SetsLockTimeout, Runs, Invoke, InvokeAuth, Unchanged, clientVars
<1>6. ASSUME NEW m \in Uses, Uses1(m)
      PROVE  UNCHANGED <<md, said>> \/ LogOut(Go) \/ \E n : SetLockTimeout(Go, n)
  BY <1>6 DEF Uses1, ValueFails, Invoke, InvokeAuth, Unchanged
<1>7. ASSUME NEW k \in Keys, Expires(k)
      PROVE  UNCHANGED <<md, said>>
  BY <1>7 DEF Expires, Expire, Unchanged
<1> QED
  BY <1>1, <1>2, <1>3, <1>4, <1>5, <1>6, <1>7, ProgramsAreClients DEF Next

\* A step that sets the metadata of one client and what it was told alike.
LEMMA OneContext ==
  ASSUME SessionInv, NEW p \in Clients, NEW t, NEW u, NEW w, NEW x, x = "token" => t = u,
         md' = [q \in Clients |-> IF q = p THEN [token |-> t, wait |-> w] ELSE md[q]],
         said' = [q \in Clients |-> IF q = p THEN [token |-> u, wait |-> w, last |-> x] ELSE said[q]]
  PROVE  SessionInv'
<1>1. ASSUME NEW q \in Clients
      PROVE  /\ md'[q] = [token |-> md'[q].token, wait |-> md'[q].wait]
             /\ said'[q] = [token |-> said'[q].token, wait |-> said'[q].wait, last |-> said'[q].last]
             /\ md'[q].wait = said'[q].wait
             /\ said'[q].last = "token" => md'[q].token = said'[q].token
  <2>1. CASE q = p
    <3>1. md'[q] = [token |-> t, wait |-> w] /\ said'[q] = [token |-> u, wait |-> w, last |-> x]
      BY <2>1
    <3> QED
      BY <3>1
  <2>2. CASE q # p
    <3>1. md'[q] = md[q] /\ said'[q] = said[q]
      BY <2>2
    <3>2. /\ md[q] = [token |-> md[q].token, wait |-> md[q].wait]
          /\ said[q] = [token |-> said[q].token, wait |-> said[q].wait, last |-> said[q].last]
      BY DEF SessionInv
    <3>3. md[q].wait = said[q].wait /\ (said[q].last = "token" => md[q].token = said[q].token)
      BY DEF SessionInv, SessionKept
    <3> QED
      BY <3>1, <3>2, <3>3
  <2> QED
    BY <2>1, <2>2
<1>2. md' = [q \in Clients |-> [token |-> md'[q].token, wait |-> md'[q].wait]]
  BY <1>1
<1>3. said' = [q \in Clients |-> [token |-> said'[q].token, wait |-> said'[q].wait,
                                 last |-> said'[q].last]]
  BY <1>1
<1> QED
  BY <1>1, <1>2, <1>3 DEF SessionInv, SessionKept

\* Each of them keeps what the client was told and what its metadata has together.
LEMMA SessionStep == SessionInv /\ [Next]_vars => SessionInv'
<1> SUFFICES ASSUME SessionInv, [Next]_vars PROVE SessionInv'
  OBVIOUS
<1>1. CASE UNCHANGED <<md, said>>
  BY <1>1 DEF SessionInv, SessionKept
<1>2. ASSUME NEW p \in Programs, Authenticated(p) \/ LogOut(p)
      PROVE  SessionInv'
  <2>1. PICK t : /\ md' = [md EXCEPT ![p].token = t]
                 /\ said' = [said EXCEPT ![p].token = t, ![p].last = "token"]
    BY <1>2 DEF Authenticated, LogOut
  <2>2. p \in Clients
    BY ProgramsAreClients
  <2>3. md' = [q \in Clients |-> IF q = p THEN [token |-> t, wait |-> md[p].wait] ELSE md[q]]
    BY <2>1, <2>2 DEF SessionInv
  <2>4. said' = [q \in Clients |-> IF q = p
                                  THEN [token |-> t, wait |-> said[p].wait, last |-> "token"]
                                  ELSE said[q]]
    <3> DEFINE s1 == [said EXCEPT ![p].token = t]
    <3>1. said = [q \in Clients |-> [token |-> said[q].token, wait |-> said[q].wait,
                                   last |-> said[q].last]]
      BY DEF SessionInv
    <3>2. s1 = [q \in Clients |-> IF q = p THEN [token |-> t, wait |-> said[p].wait, last |-> said[p].last]
                                          ELSE said[q]]
      BY <2>2, <3>1
    <3>3. said' = [s1 EXCEPT ![p].last = "token"]
      BY <2>1
    <3> HIDE DEF s1
    <3> QED
      BY <2>2, <3>2, <3>3
  <2>5. md[p].wait = said[p].wait
    BY <2>2 DEF SessionInv, SessionKept
  <2> QED
    BY <2>2, <2>3, <2>4, <2>5, OneContext
<1>3. ASSUME NEW p \in Programs, NEW n, SetLockTimeout(p, n)
      PROVE  SessionInv'
  <2>1. PICK s : /\ md' = [md EXCEPT ![p] = [token |-> NoToken, wait |-> s]]
                 /\ said' = [said EXCEPT ![p].wait = s, ![p].last = "wait"]
    BY <1>3 DEF SetLockTimeout
  <2>2. p \in Clients
    BY ProgramsAreClients
  <2>3. md' = [q \in Clients |-> IF q = p THEN [token |-> NoToken, wait |-> s] ELSE md[q]]
    BY <2>1, <2>2 DEF SessionInv
  <2>4. said' = [q \in Clients |-> IF q = p
                                  THEN [token |-> said[p].token, wait |-> s, last |-> "wait"]
                                  ELSE said[q]]
    <3> DEFINE s1 == [said EXCEPT ![p].wait = s]
    <3>1. said = [q \in Clients |-> [token |-> said[q].token, wait |-> said[q].wait,
                                   last |-> said[q].last]]
      BY DEF SessionInv
    <3>2. s1 = [q \in Clients |-> IF q = p THEN [token |-> said[p].token, wait |-> s, last |-> said[p].last]
                                          ELSE said[q]]
      BY <2>2, <3>1
    <3>3. said' = [s1 EXCEPT ![p].last = "wait"]
      BY <2>1
    <3> HIDE DEF s1
    <3> QED
      BY <2>2, <3>2, <3>3
  <2> QED
    BY <2>2, <2>3, <2>4, OneContext
<1> QED
  BY <1>1, <1>2, <1>3, MetadataSteps

\* A client's calls carry the lock wait that was set last, and the token it was
\* given unless a wait was set after it, whatever its calls came to: SetLockTimeout
\* makes the metadata anew, Authenticate joins the token to what there is.
THEOREM ContextKept == Spec => []SessionKept
<1>1. Init => SessionInv
  BY DEF Init, ClientInit, SessionInv, SessionKept
<1>2. SessionInv => SessionKept
  BY DEF SessionInv
<1> QED
  BY <1>1, <1>2, SessionStep, PTL DEF Spec

-----------------------------------------------------------------------------
(* Lines that are read and lines that are run.                             *)

LinesInv ==
  /\ read \in Nat /\ ran \in Nat
  /\ way \in {"argv", "tty", "pipe", "exited"}
  /\ way \in {"tty", "pipe"} => ran <= read

\* A step reads and runs a line, or ends one, or neither; the program only ever
\* goes on as it was started, or exits.
LEMMA LineSteps ==
  ASSUME [Next]_vars
  PROVE  /\ UNCHANGED <<read, ran>> \/ NextCommand
         /\ way' \in {way, "exited"}
<1>1. CASE UNCHANGED vars \/ BlankLine
  BY <1>1 DEF vars, BlankLine, NextCommand
<1>2. CASE Answered
  BY <1>2 DEF Answered, Comes, Afterwards
<1>3. CASE Waits \/ GoProceeds
  BY <1>3 DEF Waits, GoProceeds, OwnVars
<1>4. ASSUME NEW l \in Lines, Fails(l) \/ Talks(l) \/ Quits(l) \/ SetsLockTimeout(l) \/ Runs(l)
      PROVE  NextCommand /\ way' \in {way, "exited"}
  BY <1>4 DEF Fails, Talks, Quits, SetsLockTimeout, Runs, Comes, Afterwards
<1>5. ASSUME NEW m \in Uses, Uses1(m)
      PROVE  UNCHANGED <<read, ran, way>>
  BY <1>5 DEF Uses1, OwnVars
<1>6. ASSUME NEW k \in Keys, Expires(k)
      PROVE  UNCHANGED <<read, ran, way>>
  BY <1>6 DEF Expires, OwnVars
<1> QED
  BY <1>1, <1>2, <1>3, <1>4, <1>5, <1>6 DEF Next

\* For each line that is run at least one is read.
LEMMA LinesStep == LinesInv /\ [Next]_vars => LinesInv'
<1> SUFFICES ASSUME LinesInv, [Next]_vars PROVE LinesInv'
  OBVIOUS
<1>0. way' \in {way, "exited"}
  BY LineSteps
<1>1. CASE UNCHANGED <<read, ran>>
  BY <1>0, <1>1 DEF LinesInv
<1>2. CASE way = "argv" /\ ran = 0 /\ ran' = 1 /\ UNCHANGED read
  BY <1>0, <1>2 DEF LinesInv
<1>3. CASE NextLine
  <2>1. PICK n \in 1 .. MaxLines : Reads(n) /\ read' = read + n
    BY <1>3 DEF NextLine
  <2>2. n \in Nat /\ n >= 1 /\ ran' = ran + 1
    BY <1>3, <2>1, LinesAssumption DEF NextLine
  <2> QED
    BY <1>0, <2>1, <2>2 DEF LinesInv
<1> QED
  BY <1>1, <1>2, <1>3, LineSteps DEF NextCommand

\* The lines of a program that starts.
LEMMA LinesInit == Init => LinesInv
  BY LinesAssumption DEF Init, LinesInv

-----------------------------------------------------------------------------
(* What one program's step leaves alone of the other's.                    *)

\* Per client there is a call, an answer and a method.
CallShape == /\ call   = [p \in Clients |-> call[p]]
             /\ answer = [p \in Clients |-> answer[p]]
             /\ doing  = [p \in Clients |-> doing[p]]

Others(p) == \A q \in Clients \ {p} : /\ call'[q] = call[q] /\ answer'[q] = answer[q]
                                      /\ doing'[q] = doing[q]

\* A step of a call that is under way is its program's own.
LEMMA ProceedsAlone ==
  ASSUME CallShape, NEW p \in Programs,
         \/ Served(p) \/ NotServed(p) \/ Denied(p) \/ Returns(p)
         \/ ServedAuth(p) \/ NotServedAuth(p) \/ ReturnsAuth(p)
         \/ Authenticated(p) \/ NotAuthenticated(p)
  PROVE  CallShape' /\ Others(p)
<1>0. p \in Clients
  BY ProgramsAreClients
<1>1. CASE Served(p) \/ Denied(p) \/ ServedAuth(p) \/ NotServedAuth(p)
  <2>1. UNCHANGED doing /\ \E ret : Respond(p, ret)
    BY <1>1 DEF Served, Denied, ServedAuth, NotServedAuth, Do, LostAnswer
  <2> QED
    BY <1>0, <2>1 DEF Respond, CallShape, Others
<1>2. CASE NotServed(p)
  <2>1. UNCHANGED doing /\ ((\E ret : Respond(p, ret)) \/ Lost({p}))
    BY <1>2 DEF NotServed, TurnedAway, TimedOut
  <2> QED
    BY <1>0, <2>1 DEF Respond, Lost, CallShape, Others
<1>3. CASE Returns(p) \/ ReturnsAuth(p) \/ Authenticated(p) \/ NotAuthenticated(p)
  <2>1. /\ UNCHANGED call
        /\ doing' = [doing EXCEPT ![p] = Idle]
        /\ answer' = [answer EXCEPT ![p] = NoResult]
    BY <1>3 DEF Returns, ReturnsAuth, Authenticated, NotAuthenticated
  <2> QED
    BY <1>0, <2>1 DEF CallShape, Others
<1> QED
  BY <1>1, <1>2, <1>3

\* So is the one that begins it.
LEMMA InvokeAlone ==
  ASSUME CallShape, NEW p \in Programs, NEW m, Invoke(p, m) \/ InvokeAuth(p, m)
  PROVE  CallShape' /\ Others(p)
  BY ProgramsAreClients DEF Invoke, InvokeAuth, Call, CallShape, Others

-----------------------------------------------------------------------------
(* What a reported failure means.                                          *)

\* A locking handler that writes reports no error.
LEMMA WritesWell ==
  ASSUME NEW r, r.op \in LockingOps, NEW v, Decide(r, v).do = "write"
  PROVE  Decide(r, v).ret.kind = "ok"
<1> DEFINE Good(o) == o.do = "write" => o.ret.kind = "ok"
<1>1. /\ \A t, x : Good(Write(t, x))
      /\ \A ret : Good(Refuse(ret)) /\ Good(Return(ret))
      /\ Good(Panic)
  BY DEF Write, Ok, Refuse, Return, Panic
<1> HIDE DEF Good
<1>2. \A s, l : Good(enforceListLimit(s, l))
  BY <1>1 DEF enforceListLimit
<1>3. \A n : Good(IncrementInt(v, n)) /\ Good(DecrementInt(v, n))
  BY <1>1 DEF IncrementInt, DecrementInt
<1>4. \A n : Good(IncrementFloat(v, n)) /\ Good(DecrementFloat(v, n))
  BY <1>1 DEF IncrementFloat, DecrementFloat
<1>5. \A new : Good(SetNX(v, new))
  BY <1>1 DEF SetNX
<1>6. \A n, e : Good(SetListItem(v, n, e)) /\ Good(ListLimit(v, n)) /\ Good(ListDelete(v, n))
  BY <1>1 DEF SetListItem, ListLimit, ListDelete
<1>7. \A n, e : Good(ListInsert(v, n, e)) /\ Good(ListAppend(v, e))
  BY <1>1, <1>2 DEF ListInsert, ListAppend
<1>8. Good(ListPopLeft(v)) /\ Good(ListPopRight(v)) /\ \A e : Good(ListDeleteItem(v, e))
  BY <1>1 DEF ListPopLeft, ListPopRight, ListDeleteItem
<1>9. /\ \A h : Good(SetHashFields(v, h))
      /\ \A f, i : Good(SetHashField(v, f, i)) /\ Good(DelHashField(v, f))
  BY <1>1 DEF SetHashFields, SetHashField, DelHashField
<1>10. Good(Decide(r, v))
  BY <1>3, <1>4, <1>5, <1>6, <1>7, <1>8, <1>9 DEF Decide, LockingOps
<1> QED
  BY <1>10 DEF Good

\* What each kind of request does.
LEMMA EffectOf ==
  ASSUME NEW r
  PROVE  /\ r.op \in LockingOps =>
              LET o == Decide(r, store[r.key])
              IN  Effect(r) = IF o.do = "write" THEN Put(r.key, o.val, o.ret) ELSE Same(o.ret)
         /\ r.op \in ReadOps => Effect(r) = Same(Answer(r, store).ret)
         /\ r.op \in SetOps \cup UnlockSetOps => Effect(r) = Put(r.key, Marshal(r), Ok(NullV))
         /\ r.op \notin LockingOps \cup ReadOps \cup SetOps \cup UnlockSetOps =>
              /\ Effect(r).ret = Ok(NullV)
              /\ Effect(r).store = CASE r.op = "Delete"    -> [store EXCEPT ![r.key] = Absent]
                                     [] r.op = "Clear"     -> [k \in Keys |-> Absent]
                                     [] r.op = "SetExpire" -> [store EXCEPT ![r.key] = Leased]
                                     [] OTHER              -> store
<1>1. r.op \in LockingOps =>
        LET o == Decide(r, store[r.key])
        IN  Effect(r) = IF o.do = "write" THEN Put(r.key, o.val, o.ret) ELSE Same(o.ret)
  BY OpClasses DEF Effect
<1>2. r.op \in ReadOps => Effect(r) = Same(Answer(r, store).ret)
  BY OpClasses DEF Effect
<1>3. r.op \in SetOps \cup UnlockSetOps => Effect(r) = Put(r.key, Marshal(r), Ok(NullV))
  BY OpClasses DEF Effect
<1>4. ASSUME r.op \notin LockingOps \cup ReadOps \cup SetOps \cup UnlockSetOps
      PROVE  /\ Effect(r).ret = Ok(NullV)
             /\ Effect(r).store = CASE r.op = "Delete"    -> [store EXCEPT ![r.key] = Absent]
                                    [] r.op = "Clear"     -> [k \in Keys |-> Absent]
                                    [] r.op = "SetExpire" -> [store EXCEPT ![r.key] = Leased]
                                    [] OTHER              -> store
  BY <1>4 DEF Effect, Same
<1> QED
  BY <1>1, <1>2, <1>3, <1>4

\* A request that changes the store reports no error.
LEMMA ChangesWell ==
  ASSUME NEW r, Effect(r).store # store
  PROVE  Effect(r).ret.kind = "ok"
<1>1. \A ret : Same(ret).store = store
  BY DEF Same
<1>2. \A k, v, ret : ret.kind = "ok" /\ Put(k, v, ret).store # store => Put(k, v, ret).ret.kind = "ok"
  BY <1>1 DEF Put
<1>3. CASE r.op \in LockingOps
  <2> DEFINE o == Decide(r, store[r.key])
  <2>1. Effect(r) = IF o.do = "write" THEN Put(r.key, o.val, o.ret) ELSE Same(o.ret)
    BY <1>3, EffectOf
  <2>2. o.do = "write" => o.ret.kind = "ok"
    BY <1>3, WritesWell
  <2> HIDE DEF o
  <2> QED
    BY <1>1, <1>2, <2>1, <2>2
<1>4. CASE r.op \notin LockingOps \cup ReadOps
  <2>1. Ok(NullV).kind = "ok"
    BY DEF Ok
  <2>2. CASE r.op \in SetOps \cup UnlockSetOps
    <3>1. Effect(r) = Put(r.key, Marshal(r), Ok(NullV))
      BY <2>2, EffectOf
    <3>2. Put(r.key, Marshal(r), Ok(NullV)).store # store
      BY <3>1
    <3>3. Put(r.key, Marshal(r), Ok(NullV)).ret.kind = "ok"
      BY <1>2, <2>1, <3>2
    <3> QED
      BY <3>1, <3>3
  <2>3. CASE r.op \notin SetOps \cup UnlockSetOps
    <3>1. Effect(r).ret = Ok(NullV)
      BY <1>4, <2>3, EffectOf
    <3> QED
      BY <2>1, <3>1
  <2> QED
    BY <2>2, <2>3
<1>5. CASE r.op \in ReadOps
  BY <1>1, <1>5, EffectOf
<1> QED
  BY <1>3, <1>4, <1>5

\* A request that etcd refuses leaves the users and roles as they were.
LEMMA RefusedWell ==
  ASSUME NEW a, a.method \in AuthOps, Handle(a).auth # auth
  PROVE  Handle(a).ok
<1> DEFINE Good(o) == o.auth # auth => o.ok
<1>1. /\ \A new, reply : Good(Done(new, reply)) /\ Good(Changed(new))
      /\ Good(Refused)
  BY DEF Done, Changed, Refused
<1> HIDE DEF Good
<1>2. \A guard, o : Good(o) => Good(When(guard, o))
  BY <1>1 DEF When
<1>3. /\ Good(AuthEnable(a)) /\ Good(AuthDisable(a)) /\ Good(Authenticate(a)) /\ Good(UserAdd(a))
      /\ Good(UserGet(a)) /\ Good(UserList(a)) /\ Good(UserDelete(a)) /\ Good(UserChangePassword(a))
  BY <1>1, <1>2, Zenon DEF AuthEnable, AuthDisable, Authenticate, UserAdd, UserGet, UserList, UserDelete,
         UserChangePassword
<1>4. /\ Good(UserGrantRole(a)) /\ Good(UserRevokeRole(a)) /\ Good(RoleAdd(a)) /\ Good(RoleGet(a))
      /\ Good(RoleList(a)) /\ Good(RoleDelete(a)) /\ Good(RoleGrantPermission(a))
      /\ Good(RoleRevokePermission(a))
  BY <1>1, <1>2, Zenon DEF UserGrantRole, UserRevokeRole, RoleAdd, RoleGet, RoleList, RoleDelete,
         RoleGrantPermission, RoleRevokePermission
<1>5. Good(Handle(a))
  BY <1>3, <1>4 DEF Handle, AuthOps
<1> QED
  BY <1>5 DEF Good

\* A command's call has done nothing before it is answered, and when it has done
\* something its answer is no error, or one that says that the answer was lost.
CleanInv ==
  /\ CallShape
  /\ FailsClean
  /\ call[Cli] # NoCall => ~did
  /\ doing[Cli] # Idle => shown = "none"
  /\ did /\ doing[Cli] # Idle => answer[Cli].kind = "ok" \/ answer[Cli] = Err("ErrUnavailable")

\* A method that authentication is about is under way.
LEMMA AuthUnderWay == \A p : doing[p].method \in AuthOps => doing[p] # Idle
  BY DEF Idle, AuthOps

\* Whatever has taken effect is not shown as a failure.
LEMMA ShownAs ==
  ASSUME NEW l, NEW m, NEW ret, ret.kind = "ok" \/ ret = Err("ErrUnavailable")
  PROVE  Outcome(l, Returned(m, ret)) \in {"ok", "usage after all", "outage"}
<1>1. CASE ret.kind = "ok"
  <2>1. Returned(m, ret) = [ok |-> ret.val]
    BY <1>1 DEF Returned
  <2>2. DOMAIN Returned(m, ret) = {"ok"} /\ ~Failed(Returned(m, ret))
    BY <2>1 DEF Failed
  <2> QED
    BY <2>2 DEF Outcome
<1>2. CASE ret = Err("ErrUnavailable")
  <2>1. ret.kind # "ok" /\ ret.err = "ErrUnavailable"
    BY <1>2 DEF Err
  <2>2. normalizeError(m, ret.err) = [rpc |-> "ErrUnavailable"]
    BY <2>1 DEF normalizeError, KnownErrors
  <2>3. IsOutage(Returned(m, ret))
    BY <2>1, <2>2 DEF Returned, IsOutage
  <2> QED
    BY <2>3 DEF Outcome
<1> QED
  BY <1>1, <1>2

\* What the service does for the command's call.
LEMMA WaitsClean ==
  ASSUME CleanInv, Waits
  PROVE  CleanInv'
<1>0. Cli \in Clients /\ Cli \in Programs
  BY ProgramsAreClients
<1>1. /\ doing[Cli] # Idle /\ call[Cli] # NoCall /\ doing' = doing /\ shown' = shown
  BY AuthUnderWay DEF Waits, Served, ServedAuth, NotServed, NotServedAuth, Denied, Unchanged
<1>2. CallShape' /\ shown = "none" /\ ~did
  BY <1>0, <1>1, ProceedsAlone DEF Waits, CleanInv
<1>3. ASSUME did'
      PROVE  answer'[Cli].kind = "ok" \/ answer'[Cli] = Err("ErrUnavailable")
  <2>1. Served(Cli) \/ ServedAuth(Cli)
    BY <1>2, <1>3 DEF Waits
  <2>2. CASE Served(Cli)
    <3>1. UNCHANGED auth
      BY <2>2 DEF Served, Unchanged
    <3>2. \E ret : Respond(Cli, ret) /\ ret \in {Effect(call[Cli]).ret, Err("ErrUnavailable")}
                   /\ store' = Effect(call[Cli]).store
      BY <2>2 DEF Served, Do, LostAnswer
    <3>3. PICK ret : Respond(Cli, ret) /\ ret \in {Effect(call[Cli]).ret, Err("ErrUnavailable")}
                     /\ store' = Effect(call[Cli]).store
      BY <3>2
    <3>4. answer'[Cli] = ret
      BY <1>0, <3>3 DEF Respond, CleanInv, CallShape
    <3>5. did' => store' # store
      BY <1>2, <3>1, <2>2 DEF Waits
    <3>6. Effect(call[Cli]).ret.kind = "ok"
      BY <1>3, <3>3, <3>5, ChangesWell
    <3> QED
      BY <3>3, <3>4, <3>6
  <2>3. CASE ServedAuth(Cli)
    <3> DEFINE o == Handle(doing[Cli])
    <3>1. doing[Cli].method \in AuthOps /\ UNCHANGED store /\ auth' = o.auth
      BY <2>3 DEF ServedAuth, Data
    <3>2. \E ret : Respond(Cli, ret)
                   /\ ret \in {IF o.ok THEN Ok(o.reply) ELSE Err("ErrRefused"), Err("ErrUnavailable")}
      BY <2>3 DEF ServedAuth
    <3>3. PICK ret : Respond(Cli, ret)
                   /\ ret \in {IF o.ok THEN Ok(o.reply) ELSE Err("ErrRefused"), Err("ErrUnavailable")}
      BY <3>2
    <3>4. answer'[Cli] = ret
      BY <1>0, <3>3 DEF Respond, CleanInv, CallShape
    <3>5. did' => auth' # auth
      BY <1>2, <3>1, <2>3 DEF Waits
    <3>6. o.ok
      BY <1>3, <3>1, <3>5, RefusedWell
    <3>7. ret \in {Ok(o.reply), Err("ErrUnavailable")}
      BY <3>3, <3>6
    <3> HIDE DEF o
    <3> QED
      BY <3>4, <3>7 DEF Ok
  <2> QED
    BY <2>1, <2>2, <2>3
<1>4. call'[Cli] = NoCall
  <2>1. (\E ret : Respond(Cli, ret)) \/ Lost({Cli})
    BY DEF Waits, Served, Do, LostAnswer, ServedAuth, NotServed, TurnedAway, TimedOut, NotServedAuth,
           Denied
  <2> QED
    BY <1>0, <2>1 DEF Respond, Lost, CleanInv, CallShape
<1> QED
  BY <1>1, <1>2, <1>3, <1>4 DEF CleanInv, FailsClean

\* A line that is run, or that does not come to a call.
LEMMA RunsClean ==
  ASSUME CleanInv, NEW l, Fails(l) \/ Talks(l) \/ Quits(l) \/ SetsLockTimeout(l) \/ Runs(l)
  PROVE  CleanInv'
<1>1. CASE Fails(l) \/ Talks(l) \/ SetsLockTimeout(l)
  <2>1. UNCHANGED <<call, answer, doing>> /\ did' = FALSE /\ doing[Cli] = Idle
    BY <1>1 DEF Fails, Talks, SetsLockTimeout, SetLockTimeout, clientVars, Data
  <2> QED
    BY <2>1 DEF CleanInv, CallShape, FailsClean
<1>2. CASE Quits(l)
  <2>1. UNCHANGED <<call, answer, doing, did>> /\ doing[Cli] = Idle /\ shown' = "ok"
    BY <1>2 DEF Quits, clientVars
  <2> QED
    BY <2>1 DEF CleanInv, CallShape, FailsClean
<1>3. CASE Runs(l)
  <2>1. (Invoke(Cli, CallOf(l)) \/ InvokeAuth(Cli, CallOf(l))) /\ shown' = "none" /\ did' = FALSE
    BY <1>3 DEF Runs
  <2>2. CallShape'
    BY <2>1, InvokeAlone, ProgramsAreClients DEF CleanInv
  <2> QED
    BY <2>1, <2>2 DEF CleanInv, FailsClean
<1> QED
  BY <1>1, <1>2, <1>3

\* A command that is answered.
LEMMA AnsweredClean ==
  ASSUME CleanInv, Answered
  PROVE  CleanInv'
<1>1. /\ Returns(Cli) \/ ReturnsAuth(Cli) \/ Authenticated(Cli) \/ NotAuthenticated(Cli)
      /\ shown' = Outcome(line, Returned(doing[Cli], answer[Cli])) /\ did' = did
  BY DEF Answered, Comes
<1>2. CallShape' /\ Cli \in Clients
  BY <1>1, ProceedsAlone, ProgramsAreClients DEF CleanInv
<1>3. /\ doing[Cli] # Idle /\ call' = call /\ call[Cli] = NoCall
      /\ doing' = [doing EXCEPT ![Cli] = Idle]
  BY <1>1, AuthUnderWay DEF Returns, ReturnsAuth, Authenticated, NotAuthenticated, Idle
<1>4. doing'[Cli] = Idle
  BY <1>2, <1>3 DEF CleanInv, CallShape
<1>5. FailsClean'
  <2>1. CASE did
    <3>1. shown' \in {"ok", "usage after all", "outage"}
      BY <1>1, <1>3, <2>1, ShownAs DEF CleanInv
    <3> QED
      BY <3>1 DEF FailsClean
  <2>2. CASE ~did
    BY <1>1, <2>2 DEF FailsClean
  <2> QED
    BY <2>1, <2>2
<1> QED
  BY <1>1, <1>2, <1>3, <1>4, <1>5 DEF CleanInv

\* The other program's steps are none of the command's.
LEMMA OthersClean ==
  ASSUME CleanInv, CallShape', Others(Go), UNCHANGED <<did, shown>>
  PROVE  CleanInv'
<1>1. call'[Cli] = call[Cli] /\ answer'[Cli] = answer[Cli] /\ doing'[Cli] = doing[Cli]
  BY ProgramsAreClients DEF Others, Programs
<1> QED
  BY <1>1 DEF CleanInv, FailsClean

\* Every step keeps it.
LEMMA CleanStep == CleanInv /\ [Next]_vars => CleanInv'
<1> SUFFICES ASSUME CleanInv, [Next]_vars PROVE CleanInv'
  OBVIOUS
<1>0. Go \in Programs /\ CallShape
  BY ProgramsAreClients DEF CleanInv
<1>1. CASE UNCHANGED vars \/ BlankLine
  BY <1>1 DEF vars, BlankLine, clientVars, CleanInv, CallShape, FailsClean
<1>2. CASE GoProceeds
  BY <1>0, <1>2, ProceedsAlone, OthersClean DEF GoProceeds, Proceeds, OwnVars
<1>3. ASSUME NEW m \in Uses, Uses1(m)
      PROVE  CleanInv'
  <2>1. UNCHANGED <<did, shown>>
    BY <1>3 DEF Uses1, OwnVars
  <2>2. CASE Invoke(Go, m) \/ InvokeAuth(Go, m)
    BY <1>0, <2>1, <2>2, InvokeAlone, OthersClean
  <2>3. CASE UNCHANGED <<call, answer, doing>>
    BY <2>1, <2>3 DEF CleanInv, CallShape, FailsClean
  <2> QED
    BY <1>3, <2>2, <2>3 DEF Uses1, ValueFails, LogOut, SetLockTimeout
<1>4. ASSUME NEW k \in Keys, Expires(k)
      PROVE  CleanInv'
  BY <1>4 DEF Expires, Expire, OwnVars, CleanInv, CallShape, FailsClean
<1> QED
  BY <1>1, <1>2, <1>3, <1>4, WaitsClean, AnsweredClean, RunsClean DEF Next

\* A command that is shown to have failed has not changed the store, nor users and
\* roles: what changes them is answered without an error, or the answer is lost and
\* the failure is shown as an outage.
THEOREM FailuresAreClean == Spec => []FailsClean
<1>1. Init => CleanInv
  BY DEF Init, ClientInit, AInit, CleanInv, CallShape, FailsClean
<1>2. CleanInv => FailsClean
  BY DEF CleanInv
<1> QED
  BY <1>1, <1>2, CleanStep, PTL DEF Spec

-----------------------------------------------------------------------------
(* Ranges of names.                                                        *)

Name == Seq(Byte)

\* A prefix agrees byte by byte.
LEMMA PrefixBytes ==
  ASSUME NEW s \in Name, NEW t \in Name
  PROVE  /\ Len(s) \in Nat /\ Len(t) \in Nat
         /\ IsPrefix(s, t) <=> Len(s) <= Len(t) /\ \A i \in 1 .. Len(s) : s[i] = t[i]
<1>1. Len(s) \in Nat /\ Len(t) \in Nat
  BY LenProperties DEF Name
<1>2. SubSeq(s, 1, Len(s)) = s
  BY SubSeqFull DEF Name
<1>3. ASSUME Len(s) <= Len(t)
      PROVE  /\ SubSeq(t, 1, Len(s)) \in Name /\ Len(SubSeq(t, 1, Len(s))) = Len(s)
             /\ \A i \in 1 .. Len(s) : SubSeq(t, 1, Len(s))[i] = t[i]
  <2>1. \A i \in 1 .. Len(s) : t[i] \in Byte
    BY <1>1, <1>3, ElementOfSeq DEF Name
  <2> QED
    BY <1>1, <2>1, SubSeqProperties DEF Name
<1>4. ASSUME Len(s) <= Len(t)
      PROVE  s = SubSeq(t, 1, Len(s)) <=> \A i \in 1 .. Len(s) : s[i] = t[i]
  <2>1. ASSUME \A i \in 1 .. Len(s) : s[i] = t[i]
        PROVE  s = SubSeq(t, 1, Len(s))
    BY <1>3, <1>4, <2>1, SeqEqual DEF Name
  <2> QED
    BY <1>3, <1>4, <2>1
<1> QED
  BY <1>1, <1>2, <1>4 DEF IsPrefix

\* A name before which another comes differs from it at a first byte, or ends there.
LEMMA BeforeBytes ==
  ASSUME NEW s \in Name, NEW t \in Name
  PROVE  /\ Before(s, t) => ~IsPrefix(t, s)
         /\ Before(s, t) =>
              \/ /\ Len(s) < Len(t) /\ \A i \in 1 .. Len(s) : s[i] = t[i]
              \/ \E i \in 1 .. Len(s) : /\ i <= Len(t) /\ s[i] < t[i]
                                        /\ \A j \in 1 .. i - 1 : s[j] = t[j]
         /\ Len(s) < Len(t) /\ (\A i \in 1 .. Len(s) : s[i] = t[i]) => Before(s, t)
<1>0. /\ Len(s) \in Nat /\ Len(t) \in Nat
      /\ \A i \in 1 .. Len(s) : s[i] \in Int
      /\ \A i \in 1 .. Len(t) : t[i] \in Int
  <2>1. /\ \A i \in 1 .. Len(s) : s[i] \in Byte
        /\ \A i \in 1 .. Len(t) : t[i] \in Byte
    BY ElementOfSeq DEF Name
  <2> QED
    BY <2>1, PrefixBytes, BytesAssumption DEF Byte
<1>1. IsPrefix(s, t) <=> Len(s) <= Len(t) /\ \A i \in 1 .. Len(s) : s[i] = t[i]
  BY PrefixBytes
<1>2. IsPrefix(t, s) <=> Len(t) <= Len(s) /\ \A i \in 1 .. Len(t) : t[i] = s[i]
  BY PrefixBytes
<1>3. Len(s) = Len(t) /\ (\A i \in 1 .. Len(s) : s[i] = t[i]) => s = t
  BY SeqEqual DEF Name
<1>4. IsStrictPrefix(s, t) <=> Len(s) < Len(t) /\ \A i \in 1 .. Len(s) : s[i] = t[i]
  BY <1>0, <1>1, <1>3 DEF IsStrictPrefix
<1>5. ASSUME NEW i \in 1 .. Len(s), i <= Len(t), s[i] < t[i]
      PROVE  ~IsPrefix(t, s)
  <2>1. i \in 1 .. Len(t) /\ s[i] \in Int /\ t[i] \in Int
    BY <1>0, <1>5
  <2>2. t[i] # s[i]
    BY <1>5, <2>1
  <2> QED
    BY <1>2, <2>1, <2>2
<1>6. IsStrictPrefix(s, t) => ~IsPrefix(t, s)
  BY <1>0, <1>2, <1>4
<1> QED
  BY <1>4, <1>5, <1>6 DEF Before

\* The end of the range of a prefix: the prefix up to its last byte that is not the
\* largest, which is one more.
LEMMA PrefixEnd ==
  ASSUME NEW s \in Name
  PROVE  \/ getPrefix(s) = Zero /\ \A i \in 1 .. Len(s) : s[i] = Top
         \/ \E last \in 1 .. Len(s) :
              /\ \A i \in 1 .. Len(s) : i > last => s[i] = Top
              /\ getPrefix(s) \in Name /\ Len(getPrefix(s)) = last
              /\ getPrefix(s)[last] = s[last] + 1 /\ s[last] \in Nat
              /\ \A i \in 1 .. last - 1 : getPrefix(s)[i] = s[i]
              /\ getPrefix(s) # Zero
<1> DEFINE below == {i \in 1 .. Len(s) : s[i] < Top}
           last  == CHOOSE i \in below : \A j \in below : j <= i
<1>0. /\ Len(s) \in Nat /\ Top \in Nat
      /\ \A i \in 1 .. Len(s) : s[i] \in Nat /\ s[i] <= Top
  <2>1. \A i \in 1 .. Len(s) : s[i] \in Byte
    BY ElementOfSeq DEF Name
  <2> QED
    BY <2>1, PrefixBytes, BytesAssumption DEF Byte
<1>1. CASE below = {}
  <2>1. getPrefix(s) = Zero
    BY <1>1 DEF getPrefix
  <2>2. \A i \in 1 .. Len(s) : s[i] = Top
    BY <1>0, <1>1
  <2> QED
    BY <2>1, <2>2
<1>2. CASE below # {}
  <2>1. \E i \in below : \A j \in below : j <= i
    <3> DEFINE I == {Len(s) - i : i \in below}
    <3>1. I # {} /\ I \subseteq Nat
      BY <1>0, <1>2
    <3>2. \E x \in I : \A y \in I : x <= y
      <4> HIDE DEF I
      <4> QED
        BY <3>1, LeastNat
    <3>3. PICK i \in below : \A y \in I : Len(s) - i <= y
      BY <3>2
    <3>4. \A j \in below : Len(s) - i <= Len(s) - j
      BY <3>3
    <3> QED
      BY <1>0, <3>3, <3>4
  <2>2. last \in below /\ \A j \in below : j <= last
    BY <2>1
  <2>3. getPrefix(s) = Append(SubSeq(s, 1, last - 1), s[last] + 1)
    BY <1>2 DEF getPrefix
  <2> HIDE DEF last
  <2>4. last \in 1 .. Len(s) /\ s[last] < Top /\ s[last] \in Nat
    BY <1>0, <2>2
  <2> DEFINE front == SubSeq(s, 1, last - 1)
  <2>5. /\ front \in Name /\ Len(front) = last - 1
        /\ \A i \in 1 .. last - 1 : front[i] = s[i]
    <3>1. \A i \in 1 .. last - 1 : s[i] \in Byte
      BY <1>0, <2>4, ElementOfSeq DEF Name
    <3> QED
      BY <1>0, <2>4, <3>1, SubSeqProperties DEF Name
  <2> HIDE DEF front
  <2>6. s[last] + 1 \in Byte
    BY <1>0, <2>4 DEF Byte
  <2>7. /\ Append(front, s[last] + 1) \in Name
        /\ Len(Append(front, s[last] + 1)) = Len(front) + 1
        /\ \A i \in 1 .. Len(front) : Append(front, s[last] + 1)[i] = front[i]
        /\ Append(front, s[last] + 1)[Len(front) + 1] = s[last] + 1
    BY <2>5, <2>6, AppendProperties DEF Name
  <2>8. getPrefix(s) = Append(front, s[last] + 1)
    BY <2>3 DEF front
  <2>9. /\ getPrefix(s) \in Name /\ Len(getPrefix(s)) = last
        /\ getPrefix(s)[last] = s[last] + 1
        /\ \A i \in 1 .. last - 1 : getPrefix(s)[i] = s[i]
    BY <1>0, <2>4, <2>5, <2>7, <2>8
  <2>10. getPrefix(s) # Zero
    <3>1. ASSUME getPrefix(s) = Zero PROVE FALSE
      <4>1. last = 1 /\ getPrefix(s)[1] = 0
        BY <2>9, <3>1 DEF Zero
      <4> QED
        BY <2>4, <2>9, <4>1
    <3> QED
      BY <3>1
  <2>11. \A i \in 1 .. Len(s) : i > last => s[i] = Top
    BY <1>0, <2>2, <2>4
  <2> QED
    BY <2>4, <2>9, <2>10, <2>11
<1> QED
  BY <1>1, <1>2

\* The names that begin with s come no sooner than s.
LEMMA PrefixAfter ==
  ASSUME NEW s \in Name, NEW t \in Name, IsPrefix(s, t)
  PROVE  ~Before(t, s)
  BY BeforeBytes

\* The names that begin with s come before the end of its range.
LEMMA PrefixWithin ==
  ASSUME NEW s \in Name, NEW t \in Name, IsPrefix(s, t), getPrefix(s) # Zero
  PROVE  Before(t, getPrefix(s))
<1>1. PICK last \in 1 .. Len(s) :
        /\ Len(getPrefix(s)) = last
        /\ getPrefix(s)[last] = s[last] + 1 /\ s[last] \in Nat
        /\ \A i \in 1 .. last - 1 : getPrefix(s)[i] = s[i]
  BY PrefixEnd
<1>2. /\ Len(s) \in Nat /\ Len(t) \in Nat /\ Len(s) <= Len(t)
      /\ \A i \in 1 .. Len(s) : s[i] = t[i]
  BY PrefixBytes
<1>3. last \in 1 .. Len(t) /\ last <= Len(getPrefix(s))
  BY <1>1, <1>2
<1>4. t[last] < getPrefix(s)[last]
  BY <1>1, <1>2
<1>5. \A j \in 1 .. last - 1 : t[j] = getPrefix(s)[j]
  BY <1>1, <1>2
<1> QED
  BY <1>3, <1>4, <1>5 DEF Before

\* A name that does not begin with s comes before s, or not before the end of the range.
LEMMA OthersOutside ==
  ASSUME NEW s \in Name, NEW t \in Name, ~IsPrefix(s, t)
  PROVE  Before(t, s) \/ (getPrefix(s) # Zero /\ ~Before(t, getPrefix(s)))
<1> DEFINE D == {i \in 1 .. Len(s) : i > Len(t) \/ s[i] # t[i]}
           end == getPrefix(s)
<1>0. /\ Len(s) \in Nat /\ Len(t) \in Nat /\ Top \in Nat
      /\ \A i \in 1 .. Len(s) : s[i] \in Nat /\ s[i] <= Top
      /\ \A i \in 1 .. Len(t) : t[i] \in Nat /\ t[i] <= Top
  <2>1. /\ \A i \in 1 .. Len(s) : s[i] \in Byte
        /\ \A i \in 1 .. Len(t) : t[i] \in Byte
    BY ElementOfSeq DEF Name
  <2> QED
    BY <2>1, PrefixBytes, BytesAssumption DEF Byte
<1>1. D # {}
  <2>1. ~(Len(s) <= Len(t) /\ \A i \in 1 .. Len(s) : s[i] = t[i])
    BY PrefixBytes
  <2>2. CASE Len(s) <= Len(t)
    BY <2>1, <2>2
  <2>3. CASE Len(s) > Len(t)
    <3>1. Len(s) \in 1 .. Len(s)
      BY <1>0, <2>3
    <3> QED
      BY <2>3, <3>1
  <2> QED
    BY <1>0, <2>2, <2>3
<1>2. PICK d \in D : \A j \in D : d <= j
  <2>1. D \subseteq Nat
    OBVIOUS
  <2> HIDE DEF D
  <2> QED
    BY <1>1, <2>1, LeastNat
<1>3. /\ d \in 1 .. Len(s)
      /\ \A j \in 1 .. d - 1 : j <= Len(t) /\ s[j] = t[j]
  BY <1>0, <1>2
<1>4. CASE d > Len(t)
  <2>1. Len(t) = d - 1
    <3>1. CASE d = 1
      BY <1>0, <1>4, <3>1
    <3>2. CASE d # 1
      <4>1. d - 1 \in 1 .. d - 1
        BY <1>3, <3>2
      <4> QED
        BY <1>0, <1>3, <1>4, <4>1
    <3> QED
      BY <3>1, <3>2
  <2>2. Len(t) < Len(s) /\ \A i \in 1 .. Len(t) : t[i] = s[i]
    BY <1>0, <1>3, <2>1
  <2> QED
    BY <2>2, BeforeBytes
<1>5. CASE d <= Len(t) /\ t[d] < s[d]
  <2>1. d \in 1 .. Len(t) /\ d <= Len(s)
    BY <1>3, <1>5
  <2> QED
    BY <1>3, <1>5, <2>1 DEF Before
<1>6. CASE d <= Len(t) /\ ~(t[d] < s[d])
  <2>0. d \in 1 .. Len(t) /\ s[d] < t[d] /\ s[d] < Top
    <3>1. s[d] # t[d] /\ d \in 1 .. Len(t)
      BY <1>0, <1>2, <1>3, <1>6
    <3> QED
      BY <1>0, <1>3, <1>6, <3>1
  <2>1. PICK last \in 1 .. Len(s) :
          /\ \A i \in 1 .. Len(s) : i > last => s[i] = Top
          /\ end \in Name /\ Len(end) = last
          /\ end[last] = s[last] + 1
          /\ \A i \in 1 .. last - 1 : end[i] = s[i]
          /\ end # Zero
    <3>1. ~(\A i \in 1 .. Len(s) : s[i] = Top)
      BY <1>0, <1>3, <2>0
    <3> QED
      BY <3>1, PrefixEnd
  <2>2. d <= last
    BY <1>0, <1>3, <2>0, <2>1
  <2>3. end[d] <= t[d] /\ (d < last => end[d] < t[d]) /\ end[d] \in Nat
    <3>1. CASE d < last
      <4>1. d \in 1 .. last - 1
        BY <1>0, <1>3, <3>1
      <4> QED
        BY <1>0, <1>3, <2>0, <2>1, <3>1, <4>1
    <3>2. CASE d = last
      BY <1>0, <1>3, <2>0, <2>1, <3>2
    <3> QED
      BY <1>0, <1>3, <2>2, <3>1, <3>2
  <2>4. \A j \in 1 .. d - 1 : end[j] = t[j]
    <3>1. \A j \in 1 .. d - 1 : j \in 1 .. last - 1
      BY <1>0, <1>3, <2>1, <2>2
    <3> QED
      BY <1>3, <2>1, <3>1
  <2> HIDE DEF end
  <2>5. ASSUME Before(t, end) PROVE FALSE
    <3>1. CASE Len(t) < Len(end) /\ \A i \in 1 .. Len(t) : t[i] = end[i]
      <4>1. d < last
        BY <1>0, <1>3, <2>0, <2>1, <3>1
      <4>2. t[d] = end[d]
        BY <2>0, <3>1
      <4> QED
        BY <1>0, <2>0, <2>3, <4>1, <4>2
    <3>2. CASE \E i \in 1 .. Len(t) : /\ i <= Len(end) /\ t[i] < end[i]
                                      /\ \A j \in 1 .. i - 1 : t[j] = end[j]
      <4>1. PICK i \in 1 .. Len(t) : /\ i <= last /\ t[i] < end[i]
                                     /\ \A j \in 1 .. i - 1 : t[j] = end[j]
        BY <2>1, <3>2
      <4>2. ~(i < d)
        <5>1. ASSUME i < d PROVE FALSE
          <6>1. i \in 1 .. d - 1
            BY <1>3, <5>1
          <6>2. end[i] = t[i] /\ t[i] \in Nat
            BY <1>0, <2>4, <6>1
          <6> QED
            BY <4>1, <6>2
        <5> QED
          BY <5>1
      <4>3. ~(i > d)
        <5>1. ASSUME i > d PROVE FALSE
          <6>1. d \in 1 .. i - 1
            BY <1>0, <1>3, <5>1
          <6>2. t[d] = end[d] /\ d < last
            BY <1>0, <1>3, <4>1, <5>1, <6>1
          <6> QED
            BY <1>0, <2>0, <2>3, <6>2
        <5> QED
          BY <5>1
      <4>4. i = d
        BY <1>0, <1>3, <4>2, <4>3
      <4> QED
        BY <1>0, <2>0, <2>3, <4>1, <4>4
    <3> QED
      BY <2>1, <2>5, <3>1, <3>2, BeforeBytes
  <2> QED
    BY <2>1, <2>5 DEF end
<1> QED
  BY <1>0, <1>3, <1>4, <1>5, <1>6

\* A range that ends at the prefix's end, or has no end, has the names that begin
\* with the prefix and no other, those of 0xff bytes included.
THEOREM PrefixRange ==
  \A s, t \in Name : InRange(t, s, getPrefix(s)) <=> IsPrefix(s, t)
  BY PrefixAfter, PrefixWithin, OthersOutside DEF InRange

\* So a permission for a pattern covers the names that the pattern stands for.
LEMMA PatternRange ==
  ASSUME NEW name \in Name, IsPattern(name), NEW others \in SUBSET Name
  PROVE  CoversPattern(name, others)
<1>1. Front(name) \in Name
  <2>1. Len(name) \in Nat /\ \A i \in 1 .. Len(name) - 1 : name[i] \in Byte
    BY LenProperties, ElementOfSeq DEF Name
  <2> QED
    BY <2>1, SubSeqProperties DEF Front, Name
<1>2. GetKeyPrefix(name) = <<Front(name), getPrefix(Front(name))>>
  BY DEF GetKeyPrefix
<1> QED
  BY <1>1, <1>2, PrefixRange DEF CoversPattern

-----------------------------------------------------------------------------
(* The tables of commands and of methods.                                  *)

\* What several tables have of a name is what one of them has.
LEMMA Entry ==
  ASSUME NEW tables, NEW x \in DOMAIN Entries(tables)
  PROVE  \E t \in tables : x \in DOMAIN t /\ Entries(tables)[x] = t[x]
<1>1. x \in UNION {DOMAIN t : t \in tables}
  BY DEF Entries
<1>2. \E t \in tables : x \in DOMAIN t
  BY <1>1
<1> DEFINE t0 == CHOOSE t \in tables : x \in DOMAIN t
<1>3. t0 \in tables /\ x \in DOMAIN t0
  BY <1>2
<1>4. Entries(tables)[x] = t0[x]
  BY <1>1 DEF Entries
<1> QED
  BY <1>3, <1>4

\* A command's entry: it is no local command, its arguments are among the first three,
\* and what the method names of fields and permissions is among them.
CommandFine(name, c) ==
  /\ name \notin DOMAIN LocalCommands
  /\ \A x \in DOMAIN c.at : c.at[x] \in 1 .. 3
  /\ name = "KEYSWITHPREFIX" => \A x \in DOMAIN c.at : c.at[x] = 1
  /\ c.method \in OneFieldOps => "field" \in DOMAIN c.at
  /\ c.method = "RoleGrantPermission" => {"name", "perm"} \subseteq DOMAIN c.at
  /\ "x" \in DOMAIN c.at => c.method \in FloatSumOps /\ "n" \notin DOMAIN c.at
CommandsFine(f) == \A c \in DOMAIN f : CommandFine(c, f[c])

\* Every command's is such an entry.
LEMMA CommandTable == CommandsFine(Commands)
<1> USE DEF CommandsFine, CommandFine, At, None, OneFieldOps, FloatSumOps, LocalCommands
<1>1. CommandsFine(KeyCommands)
  BY DEF KeyCommands
<1>2. CommandsFine(ByteCommands)
  BY DEF ByteCommands
<1>3. CommandsFine(NumberCommands)
  BY DEF NumberCommands
<1>4. CommandsFine(ListCommands)
  BY DEF ListCommands
<1>5. CommandsFine(PopCommands)
  BY DEF PopCommands
<1>6. CommandsFine(HashCommands)
  BY DEF HashCommands
<1>7. CommandsFine(UserCommands)
  BY DEF UserCommands
<1>8. CommandsFine(RoleCommands)
  BY DEF RoleCommands
<1> HIDE DEF CommandFine, At, None, OneFieldOps, FloatSumOps, LocalCommands
<1>9. \A t \in CommandTables : CommandsFine(t)
  BY <1>1, <1>2, <1>3, <1>4, <1>5, <1>6, <1>7, <1>8 DEF CommandTables
<1> QED
  BY <1>9, Entry DEF Commands

\* A method's entry: its handler is one of the service's, a request that names one
\* field has it from the method's argument, and what is set has a key and a value.
MethodFine(m, sends) ==
  /\ Handler(m) \in AllOps
  /\ Handler(m) \in OneFieldOps <=> "field" \in sends
  /\ Handler(m) \in FloatSumOps <=> m \in FloatSumOps
  /\ "field" \in sends => "fields" \notin sends /\ "map" \notin sends
  /\ "fields" \in sends => "map" \notin sends
  /\ m \in {"Set", "SetNX"} => {"key", "v"} \subseteq sends
MethodsFine(f) == \A m \in DOMAIN f : MethodFine(m, f[m])

\* Methods whose request goes to the handler of their name, all but those that wait.
LEMMA OwnHandler == \A m : m \notin Blocking \cup {"LockWithTimeout"} => Handler(m) = m
  BY DEF Handler, Blocking

\* Every method's is such an entry.
LEMMA MethodTable == MethodsFine(Methods)
<1> USE DEF MethodsFine, MethodFine, OneFieldOps, FloatSumOps, AllOps
<1>1. MethodsFine(KeyMethods)
  BY OwnHandler DEF KeyMethods, Blocking, ReadOps, OneKeyReadOps
<1>2. MethodsFine(LockMethods)
  BY DEF Handler, LockMethods, UnlockOps, UnlockSetOps
<1>3. MethodsFine(ByteMethods)
  BY OwnHandler DEF ByteMethods, Blocking, LockingOps, SetOps, ReadOps, OneKeyReadOps, BlockingReadOps
<1>4. MethodsFine(NumberMethods)
  BY OwnHandler DEF NumberMethods, Blocking, LockingOps
<1>5. MethodsFine(ListMethods)
  BY OwnHandler DEF ListMethods, Blocking, LockingOps, ReadOps, OneKeyReadOps, BlockingReadOps
<1>6. MethodsFine(PopMethods)
  BY DEF Handler, PopMethods, LockingOps
<1>7. MethodsFine(HashMethods)
  BY OwnHandler DEF HashMethods, Blocking, LockingOps, ReadOps, OneKeyReadOps, BlockingReadOps
<1> HIDE DEF MethodFine, OneFieldOps, FloatSumOps, AllOps
<1>8. \A t \in MethodTables : MethodsFine(t)
  BY <1>1, <1>2, <1>3, <1>4, <1>5, <1>6, <1>7 DEF MethodTables
<1> QED
  BY <1>8, Entry DEF Methods

\* A Go value is of one type.
LEMMA GoValueCases ==
  ASSUME NEW t \in GoValues
  PROVE  \/ Is(t, "string") \/ Is(t, "bool") \/ Is(t, "int") \/ Is(t, "float") \/ Is(t, "time")
         \/ Is(t, "duration") \/ Is(t, "strings") \/ Is(t, "map") \/ Is(t, "error") \/ Is(t, "other")
<1> USE DEF Is
<1>1. CASE t \in [string : Items]
  BY <1>1
<1>2. CASE t \in [bool : BOOLEAN]
  BY <1>2
<1>3. CASE t \in [int : Int64]
  BY <1>3
<1>4. CASE t \in [float : Floats]
  BY <1>4
<1>5. CASE t \in [time : Int]
  BY <1>5
<1>6. CASE t \in [duration : Int64]
  BY <1>6
<1>7. CASE t \in [strings : Seq(Items)]
  BY <1>7
<1>8. CASE t \in [map : Hashes]
  BY <1>8
<1>9. CASE t \in [error : STRING \ {NoError}]
  BY <1>9
<1>10. CASE t = GoOther
  BY <1>10 DEF GoOther
<1> QED
  BY <1>1, <1>2, <1>3, <1>4, <1>5, <1>6, <1>7, <1>8, <1>9, <1>10 DEF GoValues

\* What it is then.
LEMMA GoValueFields ==
  ASSUME NEW t \in GoValues
  PROVE  /\ Is(t, "string") => t.string \in Items
         /\ Is(t, "bool") => t.bool \in BOOLEAN
         /\ Is(t, "int") => t.int \in Int64
         /\ Is(t, "float") => t.float \in Floats
         /\ Is(t, "time") => t.time \in Int
         /\ Is(t, "duration") => t.duration \in Int64
         /\ Is(t, "strings") => t.strings \in Seq(Items)
         /\ Is(t, "map") => t.map \in Hashes
<1> USE DEF Is
<1>1. CASE t \in [string : Items]
  BY <1>1
<1>2. CASE t \in [bool : BOOLEAN]
  BY <1>2
<1>3. CASE t \in [int : Int64]
  BY <1>3
<1>4. CASE t \in [float : Floats]
  BY <1>4
<1>5. CASE t \in [time : Int]
  BY <1>5
<1>6. CASE t \in [duration : Int64]
  BY <1>6
<1>7. CASE t \in [strings : Seq(Items)]
  BY <1>7
<1>8. CASE t \in [map : Hashes]
  BY <1>8
<1>9. CASE t \in [error : STRING \ {NoError}]
  BY <1>9
<1>10. CASE t = GoOther
  BY <1>10 DEF GoOther
<1> QED
  BY <1>1, <1>2, <1>3, <1>4, <1>5, <1>6, <1>7, <1>8, <1>9, <1>10 DEF GoValues

\* What one is stored as.
LEMMA NewValueOf ==
  ASSUME NEW t \in GoValues
  PROVE  /\ Is(t, "string") => t = GoString(t.string) /\ NewValue(t) = Value(Raw(t.string))
         /\ Is(t, "bool") => /\ t = GoBool(t.bool)
                             /\ NewValue(t) = Value(IF t.bool THEN RawV(One) ELSE ZeroByte)
         /\ Is(t, "int") => t = GoInt(t.int) /\ NewValue(t) = Value(EncodeInt(t.int))
         /\ Is(t, "float") => t = GoFloat(t.float) /\ NewValue(t) = Value(EncodeFloat(t.float))
         /\ Is(t, "time") => t = GoTime(t.time) /\ NewValue(t) = Value(EncodeInt(t.time % Second))
         /\ Is(t, "duration") => /\ t = GoDuration(t.duration)
                                 /\ NewValue(t) = Value(EncodeInt(t.duration))
         /\ Is(t, "strings") => /\ t = GoStrings(t.strings)
                                /\ NewValue(t) = Value(EncodeList(ListStringToBytes(t.strings), 0))
         /\ Is(t, "map") => t = GoMap(t.map) /\ NewValue(t) = Value(EncodeHash(t.map))
         /\ Is(t, "error") => NewValue(t) = Bad(t.error) /\ t.error # NoError
         /\ Is(t, "other") => NewValue(t) = Bad("Unknown type")
<1> USE DEF NewValue, Is
<1>1. CASE t \in [string : Items]
  BY <1>1 DEF GoString
<1>2. CASE t \in [bool : BOOLEAN]
  BY <1>2 DEF GoBool
<1>3. CASE t \in [int : Int64]
  BY <1>3 DEF GoInt
<1>4. CASE t \in [float : Floats]
  BY <1>4 DEF GoFloat
<1>5. CASE t \in [time : Int]
  BY <1>5 DEF GoTime
<1>6. CASE t \in [duration : Int64]
  BY <1>6 DEF GoDuration
<1>7. CASE t \in [strings : Seq(Items)]
  BY <1>7 DEF GoStrings
<1>8. CASE t \in [map : Hashes]
  BY <1>8 DEF GoMap
<1>9. CASE t \in [error : STRING \ {NoError}]
  BY <1>9
<1>10. CASE t = GoOther
  BY <1>10 DEF GoOther
<1> QED
  BY <1>1, <1>2, <1>3, <1>4, <1>5, <1>6, <1>7, <1>8, <1>9, <1>10 DEF GoValues

\* What a Go value is stored as are bytes that a request can carry.
LEMMA NewValueType ==
  ASSUME NEW t \in GoValues
  PROVE  NewValue(t).b \in Stored
<1>1. /\ Empty \in Stored /\ ZeroByte \in Stored /\ RawV(One) \in Stored
      /\ \A i \in Items : Raw(i) \in Stored
  BY EncodedType, ConversionsAssumption DEF Stored, Values, Empty, ZeroByte, Absent, Leased, Raw
<1>2. \A n \in Int : n % Second \in Int64
  BY ConversionsAssumption, HalfAssumption DEF Int64
<1>3. \A s \in Seq(Items) : ListStringToBytes(s) \in Seq(Elements)
  <2>1. ASSUME NEW s \in Seq(Items)
        PROVE  ListStringToBytes(s) \in Seq(Elements)
    <3>1. Len(s) \in Nat /\ \A i \in 1 .. Len(s) : Plain(s[i]) \in Elements
      BY <2>1, LenProperties, ElementOfSeq DEF Plain, Elements
    <3> QED
      BY <3>1, IsASeq DEF ListStringToBytes
  <2> QED
    BY <2>1
<1>4. \A e : Bad(e).b = Empty
  BY DEF Bad
<1>5. \A b : Value(b).b = b
  BY DEF Value
<1>6. CASE \/ Is(t, "string") \/ Is(t, "bool") \/ Is(t, "int") \/ Is(t, "float") \/ Is(t, "time")
           \/ Is(t, "duration")
  <2>1. /\ Is(t, "string") => t.string \in Items
        /\ Is(t, "int") => t.int \in Int64
        /\ Is(t, "float") => t.float \in Floats
        /\ Is(t, "time") => t.time \in Int
        /\ Is(t, "duration") => t.duration \in Int64
    BY GoValueCases, GoValueFields
  <2> QED
    BY <1>1, <1>2, <1>5, <1>6, <2>1, NewValueOf, EncodedType
<1>7. CASE Is(t, "strings") \/ Is(t, "map")
  <2>1. /\ Is(t, "strings") => t.strings \in Seq(Items)
        /\ Is(t, "map") => t.map \in Hashes
    BY GoValueFields
  <2> QED
    BY <1>3, <1>5, <1>7, <2>1, NewValueOf, EncodedType, ZeroInt64
<1>8. CASE Is(t, "error") \/ Is(t, "other")
  BY <1>1, <1>4, <1>8, NewValueOf
<1> QED
  BY <1>6, <1>7, <1>8, GoValueCases

\* What one that is stored without an error is read back as.
LEMMA ReadBack ==
  ASSUME NEW t \in GoValues, NewValue(t).err = NoError
  PROVE  /\ ReadLike(t, NewValue(t).b) = IF Is(t, "time") THEN GoTime(t.time % Second) ELSE t
         /\ NewValue(t).b # Absent
<1>0. /\ \A b : Value(b).b = b /\ Value(b).err = NoError
      /\ \A e : Bad(e).err = e /\ "Unknown type" # NoError
  BY DEF Value, Bad, NoError
<1>1. /\ Empty.type = "empty" /\ Absent.type = "absent" /\ ZeroByte.type = "zero" /\ Leased.type = "leased"
      /\ Blank(Empty)
      /\ \A i : RawV(i).type = "raw" /\ RawV(i).raw = i
      /\ \A n : IntV(n).type = "int" /\ IntV(n).int = n
      /\ \A x : FloatV(x).type = "float" /\ FloatV(x).float = x
      /\ \A s, l : ListV(s, l).type = "list" /\ ListV(s, l).value = s
      /\ \A h : HashV(h).type = "hash" /\ HashV(h).fields = h
  BY DEF Empty, Absent, ZeroByte, Leased, RawV, IntV, FloatV, ListV, HashV, Blank
<1> DEFINE b == NewValue(t).b
<1>2. CASE Is(t, "string")
  <2>1. t = GoString(t.string) /\ b = Raw(t.string)
    BY <1>0, <1>2, NewValueOf
  <2>2. ReadLike(t, b) = ReadString(b)
    BY <1>2, <2>1 DEF ReadLike, Is, GoString
  <2>3. ReadString(b) = GoString(t.string)
    BY <1>1, <2>1 DEF ReadString, Raw
  <2>4. ~Is(t, "time")
    BY <2>1 DEF Is, GoString
  <2> QED
    BY <1>1, <2>1, <2>2, <2>3, <2>4 DEF Raw
<1>3. CASE Is(t, "bool")
  <2>1. t = GoBool(t.bool) /\ b = IF t.bool THEN RawV(One) ELSE ZeroByte
    BY <1>0, <1>3, NewValueOf
  <2>2. ReadLike(t, b) = ReadBool(b) /\ ~Is(t, "time")
    BY <1>3, <2>1 DEF ReadLike, Is, GoBool
  <2>3. t.bool \in BOOLEAN
    BY <1>3, GoValueFields
  <2>4. ReadBool(b) = GoBool(t.bool)
    <3>1. b \notin {Empty, ZeroByte} <=> t.bool
      BY <1>1, <2>1
    <3>2. (b \notin {Empty, ZeroByte}) = t.bool
      BY <2>3, <3>1
    <3> QED
      BY <3>2 DEF ReadBool
  <2> QED
    BY <1>1, <2>1, <2>2, <2>4
<1>4. CASE Is(t, "int") \/ Is(t, "duration") \/ Is(t, "time")
  <2> DEFINE n == IF Is(t, "int") THEN t.int ELSE IF Is(t, "duration") THEN t.duration ELSE t.time % Second
  <2>1. /\ b = EncodeInt(n)
        /\ Is(t, "int") => t = GoInt(t.int)
        /\ Is(t, "duration") => t = GoDuration(t.duration)
        /\ Is(t, "time") => t = GoTime(t.time)
    BY <1>0, <1>4, NewValueOf DEF Is, GoInt, GoDuration, GoTime
  <2>2. IsInt(b) /\ AsInt(b) = n
    <3> HIDE DEF n
    <3> QED
      BY <1>1, <2>1 DEF IsInt, AsInt, EncodeInt
  <2>3. ReadInt(b) = GoInt(n) /\ ReadDuration(b) = GoDuration(n) /\ ReadTime(b) = GoTime(n) /\ b # Absent
    <3> HIDE DEF n
    <3> QED
      BY <1>1, <2>1, <2>2 DEF ReadInt, ReadDuration, ReadTime, EncodeInt
  <2> HIDE DEF b
  <2>4. CASE Is(t, "int")
    <3>1. ReadLike(t, b) = ReadInt(b) /\ ~Is(t, "time")
      BY <2>1, <2>4 DEF ReadLike, Is, GoInt
    <3> QED
      BY <2>1, <2>3, <2>4, <3>1 DEF b
  <2>5. CASE Is(t, "duration")
    <3>1. ReadLike(t, b) = ReadDuration(b) /\ ~Is(t, "time") /\ ~Is(t, "int")
      BY <2>1, <2>5 DEF ReadLike, Is, GoDuration
    <3> QED
      BY <2>1, <2>3, <2>5, <3>1 DEF b
  <2>6. CASE Is(t, "time")
    <3>1. ReadLike(t, b) = ReadTime(b) /\ ~Is(t, "int") /\ ~Is(t, "duration")
      BY <2>1, <2>6 DEF ReadLike, Is, GoTime
    <3> QED
      BY <2>3, <2>6, <3>1 DEF b
  <2> QED
    BY <1>4, <2>4, <2>5, <2>6
<1>5. CASE Is(t, "float")
  <2>1. t = GoFloat(t.float) /\ b = EncodeFloat(t.float)
    BY <1>0, <1>5, NewValueOf
  <2>2. ReadLike(t, b) = ReadFloat(b) /\ ~Is(t, "time")
    BY <1>5, <2>1 DEF ReadLike, Is, GoFloat
  <2>3. IsFloat(b) /\ AsFloat(b) = t.float
    BY <1>1, <2>1 DEF IsFloat, AsFloat, EncodeFloat
  <2>4. ReadFloat(b) = GoFloat(t.float)
    BY <2>3 DEF ReadFloat
  <2> QED
    BY <1>1, <2>1, <2>2, <2>4 DEF EncodeFloat
<1>6. CASE Is(t, "strings")
  <2> DEFINE s == t.strings
             c == ListStringToBytes(s)
  <2>1. t = GoStrings(s) /\ b = EncodeList(c, 0)
    BY <1>0, <1>6, NewValueOf
  <2>2. ReadLike(t, b) = ReadList(b) /\ ~Is(t, "time")
    BY <1>6, <2>1 DEF ReadLike, Is, GoStrings
  <2>3. s \in Seq(Items) /\ Len(s) \in Nat
    BY <1>6, GoValueFields, LenProperties
  <2>4. Len(c) = Len(s) /\ \A i \in 1 .. Len(s) : c[i].item = s[i]
    <3>1. c = [i \in 1 .. Len(s) |-> Plain(s[i])]
      BY DEF ListStringToBytes
    <3>2. \A i \in 1 .. Len(s) : Plain(s[i]).item = s[i]
      BY DEF Plain
    <3>3. \A i \in 1 .. Len(s) : Plain(s[i]) \in Elements
      BY <2>3, ElementOfSeq DEF Plain, Elements
    <3>4. Len(c) = Len(s)
      BY <2>3, <3>1, <3>3, IsASeq, LenProperties
    <3> QED
      BY <3>1, <3>2, <3>4
  <2> HIDE DEF c
  <2>5. IsList(b) /\ Elems(b) = c
    BY <1>1, <2>1 DEF IsList, Elems, EncodeList
  <2>6. [i \in 1 .. Len(c) |-> c[i].item] = s
    <3>1. s = [i \in 1 .. Len(s) |-> s[i]]
      BY <2>3, LenProperties
    <3> QED
      BY <2>4, <3>1
  <2>7. ReadList(b) = GoStrings(s)
    BY <2>5, <2>6 DEF ReadList
  <2> QED
    BY <1>1, <2>1, <2>2, <2>7 DEF EncodeList
<1>7. CASE Is(t, "map")
  <2>1. t = GoMap(t.map) /\ b = EncodeHash(t.map)
    BY <1>0, <1>7, NewValueOf
  <2>2. ReadLike(t, b) = ReadMap(b) /\ ~Is(t, "time")
    BY <1>7, <2>1 DEF ReadLike, Is, GoMap
  <2>3. t.map \in Hashes
    BY <1>7, GoValueFields
  <2>4. IsHash(b) /\ FieldMap(b) = t.map
    <3>1. CASE DOMAIN t.map = {}
      <4>1. t.map = EmptyMap
        BY <2>3, <3>1 DEF Hashes, EmptyMap
      <4> QED
        BY <1>1, <2>1, <3>1, <4>1 DEF IsHash, FieldMap, EncodeHash
    <3>2. CASE DOMAIN t.map # {}
      BY <1>1, <2>1, <3>2 DEF IsHash, FieldMap, EncodeHash
    <3> QED
      BY <3>1, <3>2
  <2>5. ReadMap(b) = GoMap(t.map)
    BY <2>4 DEF ReadMap
  <2> QED
    BY <1>1, <2>1, <2>2, <2>5 DEF EncodeHash
<1>8. CASE Is(t, "error") \/ Is(t, "other")
  <2>1. PICK e : NewValue(t) = Bad(e) /\ e # NoError
    BY <1>0, <1>8, NewValueOf
  <2>2. NewValue(t).err = e
    BY <2>1 DEF Bad
  <2> QED
    BY <2>1, <2>2
<1> QED
  BY <1>2, <1>3, <1>4, <1>5, <1>6, <1>7, <1>8, GoValueCases

-----------------------------------------------------------------------------
(* The requests of calls.                                                  *)

\* A method call whose arguments have the types of its parameters makes a request
\* that the service takes.
LEMMA MessageType ==
  ASSUME NEW m, ArgumentsFit(m), m.method \in DOMAIN Methods
  PROVE  WellFormed(Message(m))
<1> DEFINE b == IF Sends(m, "v") THEN NewValue(m.v).b ELSE Empty
           hash == IF Sends(m, "v") THEN [f \in DOMAIN FieldsOf(m) |-> ItemOf(b)] ELSE FieldsOf(m)
           many == IF Sends(m, "keys") THEN {<<<<k, 0>>, Empty>> : k \in m.keys} ELSE {}
           n == IF Sends(m, "n") THEN m.n ELSE 0
           key == IF Sends(m, "key") THEN <<m.key, 0>> ELSE Sentinel
<1>0. MethodFine(m.method, Methods[m.method])
  BY MethodTable DEF MethodsFine
<1>1. b \in Stored /\ Empty \in Stored
  BY NewValueType DEF ArgumentsFit, Stored, Values, Empty, Absent, Leased
<1>2. \A c \in Stored : ItemOf(c) \in Items
  BY DecodedType, ConversionsAssumption DEF ItemOf, Stored
<1>3. \A k \in Bases : <<k, 0>> \in Keys
  BY NamesAssumption DEF Keys
<1>4. key \in Keys
  BY <1>3, NamesAssumption DEF ArgumentsFit, Sentinel
<1>5. /\ n \in Floats
      /\ Handler(m.method) \notin FloatSumOps => n \in Int64
  BY <1>0, ZeroInt64, HalfAssumption DEF ArgumentsFit, MethodFine, Floats, Int64
<1>6. many \in SUBSET (Keys \X Stored) /\ \A d, e \in many : d[1] = e[1] => d = e
  BY <1>1, <1>3 DEF ArgumentsFit
<1>7. /\ FieldsOf(m) \in Hashes
      /\ Sends(m, "field") => m.field \in Fields /\ DOMAIN FieldsOf(m) = {m.field}
  <2>1. CASE Sends(m, "field")
    <3>1. FieldsOf(m) = [f \in {m.field} |-> Nothing]
      BY <1>0, <2>1 DEF FieldsOf, MethodFine, Sends
    <3> QED
      BY <2>1, <3>1, HashesType, ConversionsAssumption DEF ArgumentsFit
  <2>2. CASE Sends(m, "fields")
    <3>1. FieldsOf(m) = [f \in m.fields |-> Nothing] /\ ~Sends(m, "field")
      BY <1>0, <2>2 DEF FieldsOf, MethodFine, Sends
    <3> QED
      BY <3>1, ConversionsAssumption DEF ArgumentsFit, Hashes
  <2>3. CASE Sends(m, "map")
    <3>1. FieldsOf(m) = MapValueToMapBytes(m.map) /\ ~Sends(m, "field")
      BY <1>0, <2>3 DEF FieldsOf, MethodFine, Sends
    <3>2. DOMAIN m.map \subseteq Fields /\ \A f \in DOMAIN m.map : m.map[f] \in GoValues
      BY DEF ArgumentsFit
    <3>3. \A f \in DOMAIN m.map : ItemOf(NewValue(m.map[f]).b) \in Items
      BY <1>2, <3>2, NewValueType
    <3>4. MapValueToMapBytes(m.map) \in [DOMAIN m.map -> Items]
      BY <3>3 DEF MapValueToMapBytes
    <3> QED
      BY <3>1, <3>2, <3>4 DEF Hashes
  <2>4. CASE ~Sends(m, "field") /\ ~Sends(m, "fields") /\ ~Sends(m, "map")
    BY <2>4, HashesType DEF FieldsOf
  <2> QED
    BY <2>1, <2>2, <2>3, <2>4
<1>8. hash \in Hashes /\ DOMAIN hash = DOMAIN FieldsOf(m)
  <2>1. DOMAIN FieldsOf(m) \in SUBSET Fields
    BY <1>7, HashesType
  <2>2. ItemOf(b) \in Items
    BY <1>1, <1>2
  <2> HIDE DEF b
  <2> QED
    BY <1>7, <2>1, <2>2 DEF Hashes
<1>9. Message(m) = [op |-> Handler(m.method), key |-> key, val |-> b, item |-> ItemOf(b), n |-> n,
                   hash |-> hash, many |-> many, block |-> m.method \in Blocking,
                   endless |-> Sends(m, "timeout") /\ m.n <= 0,
                   forever |-> m.method = "LockWithTimeout" /\ m.n < 0]
  BY DEF Message
<1>10. ItemOf(b) \in Items
  BY <1>1, <1>2
<1>11. Handler(m.method) \in AllOps
  BY <1>0 DEF MethodFine
<1>12. Handler(m.method) \in OneFieldOps => Sends(m, "field")
  BY <1>0 DEF MethodFine, Sends
<1> HIDE DEF b, hash, many, n, key
<1>13. Message(m) \in Request
  BY <1>1, <1>4, <1>5, <1>6, <1>8, <1>9, <1>10, <1>11 DEF Request
<1>14. /\ Message(m).op = Handler(m.method) /\ Message(m).n = n /\ Message(m).many = many
       /\ Message(m).hash = hash
  BY <1>9
<1> QED
  BY <1>5, <1>6, <1>7, <1>8, <1>12, <1>13, <1>14 DEF WellFormed

\* An argument that a command takes is there when nothing is found to be wrong.
LEMMA ArgumentThere ==
  ASSUME NEW l, l.cmd \in DOMAIN Commands, Mistake(l) = "none", Len(l.args) \in Nat,
         l.args = << >> <=> Len(l.args) = 0,
         NEW x \in DOMAIN Commands[l.cmd].at
  PROVE  Commands[l.cmd].at[x] \in 1 .. Len(l.args)
<1> DEFINE at == Commands[l.cmd].at
<1>0. CommandFine(l.cmd, Commands[l.cmd])
  BY CommandTable DEF CommandsFine
<1>1. l.cmd \notin DOMAIN LocalCommands
  BY <1>0 DEF CommandFine
<1>2. Len(l.args) >= Needs(l) \/ Needs(l) \notin Int
  BY DEF Mistake
<1>3. at[x] \in 1 .. 3
  BY <1>0 DEF CommandFine
<1>4. CASE l.cmd = "KEYSWITHPREFIX"
  <2>1. l.args # << >>
    BY <1>1, <1>4 DEF Mistake
  <2>2. at[x] = 1
    BY <1>0, <1>4 DEF CommandFine
  <2> QED
    BY <2>1, <2>2
<1>5. CASE l.cmd # "KEYSWITHPREFIX"
  <2> DEFINE S == {0} \cup Range(at)
  <2>1. Needs(l) = Max(S)
    BY <1>1, <1>5 DEF Needs
  <2>2. S \subseteq 0 .. 3 /\ 0 \in S /\ at[x] \in S
    BY <1>0 DEF CommandFine, Range
  <2> HIDE DEF S
  <2>3. \E i \in S : \A j \in S : i >= j
    BY <2>2
  <2>4. Max(S) \in S /\ \A j \in S : Max(S) >= j
    BY <2>3 DEF Max
  <2> QED
    BY <1>2, <1>3, <2>1, <2>2, <2>4
<1> QED
  BY <1>4, <1>5

\* A command is run with arguments of the types of its method's parameters, and a
\* permission with a name that is spelt.
LEMMA CallOfType ==
  ASSUME NEW l \in Lines, l.cmd \in DOMAIN Commands, Mistake(l) = "none"
  PROVE  /\ CallOf(l).method \in DOMAIN Methods => ArgumentsFit(CallOf(l))
         /\ CallOf(l).method = "RoleGrantPermission" => Spelt(CallOf(l).perm)
         /\ CallOf(l).method = Commands[l.cmd].method
<1> DEFINE at == Commands[l.cmd].at
           c == CallOf(l)
           args == l.args
<1>0. CommandFine(l.cmd, Commands[l.cmd])
  BY CommandTable DEF CommandsFine
<1>1. /\ WordsFit(l)
      /\ \A w \in DOMAIN ParseInt : ParseInt[w] \in Int64
      /\ \A w \in DOMAIN ParseFloat : ParseFloat[w] \in Floats
  BY WordsAssumption
<1>2. args \in Seq(Range(args))
  BY <1>1 DEF WordsFit
<1>3. Len(args) \in Nat /\ (args = << >> <=> Len(args) = 0)
  BY <1>2, EmptySeq, LenProperties
<1>4. \A x \in DOMAIN at : at[x] \in 1 .. Len(args)
  BY <1>3, ArgumentThere
<1>5. \A x \in DOMAIN at :
        /\ x = "key"    => args[at[x]] \in Bases
        /\ x = "string" => args[at[x]] \in Items
        /\ x = "field"  => args[at[x]] \in Fields
        /\ x = "keys"   => Range(args) \subseteq Bases
        /\ x = "name" /\ Takes(l, "perm") => args[at[x]] \in DOMAIN Spelling
  BY <1>1, <1>4 DEF WordsFit
<1>6. /\ \A x \in {"n", "int"} : x \in DOMAIN at => args[at[x]] \in DOMAIN ParseInt
      /\ \A x \in {"x", "float"} : x \in DOMAIN at => args[at[x]] \in DOMAIN ParseFloat
  BY <1>0 DEF Mistake, Takes, ArgumentOf, CommandFine
<1>7. \A x : /\ Takes(l, x) <=> x \in DOMAIN at
             /\ ArgumentOf(l, x) = args[at[x]]
  BY DEF Takes, ArgumentOf
<1> HIDE DEF at, args
<1>8. /\ c.method = Commands[l.cmd].method
      /\ c.key = IF Takes(l, "key") THEN ArgumentOf(l, "key") ELSE ZeroKey
      /\ c.n = IF Takes(l, "n") THEN ParseInt[ArgumentOf(l, "n")]
               ELSE IF Takes(l, "x") THEN ParseFloat[ArgumentOf(l, "x")] ELSE 0
      /\ c.field = IF Takes(l, "field") THEN ArgumentOf(l, "field") ELSE "none"
      /\ c.keys = IF Takes(l, "keys") THEN Range(l.args) ELSE {}
      /\ c.fields = {} /\ c.map = EmptyMap
      /\ Takes(l, "perm") =>
           c.perm = GetPermission(Spelling[ArgumentOf(l, "name")], ArgumentOf(l, "perm"))
  BY DEF CallOf, Arguments
<1>9. \/ Takes(l, "string") /\ c.v = GoString(ArgumentOf(l, "string"))
      \/ Takes(l, "int") /\ c.v = GoInt(ParseInt[ArgumentOf(l, "int")])
      \/ Takes(l, "float") /\ c.v = GoFloat(ParseFloat[ArgumentOf(l, "float")])
      \/ c.v = GoOther
  BY DEF CallOf, Arguments
<1> HIDE DEF c
<1>10. c.v \in GoValues
  <2>1. /\ \A i \in Items : GoString(i) \in GoValues
        /\ \A n \in Int64 : GoInt(n) \in GoValues
        /\ \A x \in Floats : GoFloat(x) \in GoValues
        /\ GoOther \in GoValues
    BY DEF GoString, GoInt, GoFloat, GoOther, GoValues
  <2>2. Takes(l, "string") => ArgumentOf(l, "string") \in Items
    BY <1>5, <1>7
  <2>3. Takes(l, "int") => ParseInt[ArgumentOf(l, "int")] \in Int64
    BY <1>1, <1>6, <1>7
  <2>4. Takes(l, "float") => ParseFloat[ArgumentOf(l, "float")] \in Floats
    BY <1>1, <1>6, <1>7
  <2> QED
    BY <1>9, <2>1, <2>2, <2>3, <2>4
<1>11. c.n \in Floats /\ (c.method \notin FloatSumOps => c.n \in Int64)
  <2>1. Takes(l, "n") => ParseInt[ArgumentOf(l, "n")] \in Int64
    BY <1>1, <1>6, <1>7
  <2>2. Takes(l, "x") => ParseFloat[ArgumentOf(l, "x")] \in Floats /\ c.method \in FloatSumOps
    BY <1>0, <1>1, <1>6, <1>7, <1>8 DEF CommandFine, at
  <2>3. Int64 \subseteq Floats /\ 0 \in Int64
    BY HalfAssumption DEF Int64, Floats
  <2> QED
    BY <1>8, <2>1, <2>2, <2>3
<1>12. c.key \in Bases /\ c.keys \subseteq Bases /\ c.fields \subseteq Fields
  BY <1>5, <1>7, <1>8, NamesAssumption DEF args
<1>13. /\ c.map = [f \in DOMAIN c.map |-> c.map[f]]
       /\ \A f \in DOMAIN c.map : f \in Fields /\ c.map[f] \in GoValues
  BY <1>8 DEF EmptyMap
<1>14. c.method \in DOMAIN Methods /\ Sends(c, "field") => c.field \in Fields
  <2>1. ASSUME c.method \in DOMAIN Methods, Sends(c, "field")
        PROVE  c.field \in Fields
    <3>1. MethodFine(c.method, Methods[c.method])
      BY <2>1, MethodTable DEF MethodsFine
    <3>2. Handler(c.method) \in OneFieldOps
      BY <2>1, <3>1 DEF MethodFine, Sends
    <3>3. c.method \in OneFieldOps
      BY <3>2 DEF Handler, OneFieldOps
    <3>4. Takes(l, "field")
      BY <1>0, <1>8, <3>3 DEF CommandFine, Takes
    <3> QED
      BY <1>5, <1>7, <1>8, <3>4
  <2> QED
    BY <2>1
<1>15. ArgumentsFit(c)
  BY <1>10, <1>11, <1>12, <1>13, <1>14 DEF ArgumentsFit
<1>16. ASSUME c.method = "RoleGrantPermission"
       PROVE  Spelt(c.perm)
  <2>1. Takes(l, "name") /\ Takes(l, "perm")
    BY <1>0, <1>8, <1>16 DEF CommandFine, Takes
  <2> DEFINE w == ArgumentOf(l, "name")
  <2>2. w \in DOMAIN Spelling
    BY <1>5, <1>7, <2>1
  <2>3. c.perm = GetPermission(Spelling[w], ArgumentOf(l, "perm"))
    BY <1>8, <2>1
  <2>4. c.perm.key = GetKeyPrefix(Spelling[w])[1] /\ c.perm.end = GetKeyPrefix(Spelling[w])[2]
    BY <2>3 DEF GetPermission
  <2>5. GetKeyPrefix(Spelling[w]) = <<GetKeyPrefix(Spelling[w])[1], GetKeyPrefix(Spelling[w])[2]>>
    BY DEF GetKeyPrefix
  <2> QED
    BY <2>2, <2>4, <2>5 DEF Spelt
<1> QED
  BY <1>8, <1>15, <1>16 DEF c

-----------------------------------------------------------------------------
(* Users and roles.                                                        *)

\* Users, roles and permissions as they should be.
RolesFine(a) == AuthRecord(a) /\ a.enabled \in BOOLEAN /\ RolesExist(a) /\ RolesSpelt(a)

\* New users whose roles exist, or new roles with permissions that are spelt.
LEMMA RolesUpdated ==
  ASSUME RolesFine(auth)
  PROVE  /\ \A b \in BOOLEAN : RolesFine([auth EXCEPT !.enabled = b])
         /\ \A f : (\A u \in DOMAIN f : /\ f[u] = [pass |-> f[u].pass, roles |-> f[u].roles]
                                        /\ f[u].roles \subseteq DOMAIN auth.roles \cup {Root})
                    => RolesFine([auth EXCEPT !.users = f])
         /\ \A g : DOMAIN auth.roles \subseteq DOMAIN g /\ (\A r \in DOMAIN g : \A p \in g[r] : Spelt(p))
                    => RolesFine([auth EXCEPT !.roles = g])
<1>0. /\ auth = [enabled |-> auth.enabled, users |-> auth.users, roles |-> auth.roles]
      /\ auth.enabled \in BOOLEAN
      /\ \A u \in DOMAIN auth.users :
           /\ auth.users[u] = [pass |-> auth.users[u].pass, roles |-> auth.users[u].roles]
           /\ auth.users[u].roles \subseteq DOMAIN auth.roles \cup {Root}
      /\ \A r \in DOMAIN auth.roles : \A p \in auth.roles[r] : Spelt(p)
  BY DEF RolesFine, AuthRecord, RolesExist, RolesSpelt
<1>1. ASSUME NEW e \in BOOLEAN, NEW f, NEW g,
             \A u \in DOMAIN f : /\ f[u] = [pass |-> f[u].pass, roles |-> f[u].roles]
                                 /\ f[u].roles \subseteq DOMAIN g \cup {Root},
             \A r \in DOMAIN g : \A p \in g[r] : Spelt(p)
      PROVE  RolesFine([enabled |-> e, users |-> f, roles |-> g])
  <2> DEFINE a == [enabled |-> e, users |-> f, roles |-> g]
  <2>1. a = [enabled |-> a.enabled, users |-> a.users, roles |-> a.roles]
        /\ a.enabled = e /\ a.users = f /\ a.roles = g
    OBVIOUS
  <2> HIDE DEF a
  <2>2. RolesFine(a)
    BY <1>1, <2>1 DEF RolesFine, AuthRecord, RolesExist, RolesSpelt
  <2> QED
    BY <2>2 DEF a
<1>2. ASSUME NEW b \in BOOLEAN PROVE RolesFine([auth EXCEPT !.enabled = b])
  <2>1. [auth EXCEPT !.enabled = b] = [enabled |-> b, users |-> auth.users, roles |-> auth.roles]
    BY <1>0
  <2>2. RolesFine([enabled |-> b, users |-> auth.users, roles |-> auth.roles])
    BY <1>0, <1>1
  <2> QED
    BY <2>1, <2>2
<1>3. ASSUME NEW f, \A u \in DOMAIN f : /\ f[u] = [pass |-> f[u].pass, roles |-> f[u].roles]
                                        /\ f[u].roles \subseteq DOMAIN auth.roles \cup {Root}
      PROVE  RolesFine([auth EXCEPT !.users = f])
  <2>1. [auth EXCEPT !.users = f] = [enabled |-> auth.enabled, users |-> f, roles |-> auth.roles]
    BY <1>0
  <2>2. RolesFine([enabled |-> auth.enabled, users |-> f, roles |-> auth.roles])
    BY <1>0, <1>1, <1>3
  <2> QED
    BY <2>1, <2>2
<1>4. ASSUME NEW g, DOMAIN auth.roles \subseteq DOMAIN g,
             \A r \in DOMAIN g : \A p \in g[r] : Spelt(p)
      PROVE  RolesFine([auth EXCEPT !.roles = g])
  <2>1. [auth EXCEPT !.roles = g] = [enabled |-> auth.enabled, users |-> auth.users, roles |-> g]
    BY <1>0
  <2>2. RolesFine([enabled |-> auth.enabled, users |-> auth.users, roles |-> g])
    BY <1>0, <1>1, <1>4
  <2> QED
    BY <2>1, <2>2
<1> QED
  BY <1>2, <1>3, <1>4

\* One user, or one role, that is written.
LEMMA OneWritten ==
  ASSUME RolesFine(auth)
  PROVE  /\ \A u, pass, roles : roles \subseteq DOMAIN auth.roles \cup {Root}
                                 => RolesFine(User(u, [pass |-> pass, roles |-> roles]))
         /\ \A r, perms : (\A p \in perms : Spelt(p)) => RolesFine(Role(r, perms))
<1>1. ASSUME NEW u, NEW pass, NEW roles, roles \subseteq DOMAIN auth.roles \cup {Root}
      PROVE  RolesFine(User(u, [pass |-> pass, roles |-> roles]))
  <2> DEFINE v == [pass |-> pass, roles |-> roles]
             f == Keep(auth.users, u, v)
  <2>1. v = [pass |-> v.pass, roles |-> v.roles] /\ v.roles \subseteq DOMAIN auth.roles \cup {Root}
    BY <1>1
  <2> HIDE DEF v
  <2>2. \A w \in DOMAIN f : f[w] = IF w = u THEN v ELSE auth.users[w]
    BY DEF Keep
  <2>3. \A w \in DOMAIN f : w # u => w \in DOMAIN auth.users
    BY DEF Keep
  <2>4. User(u, v) = [auth EXCEPT !.users = f]
    BY DEF User
  <2> HIDE DEF f
  <2>5. \A w \in DOMAIN f : /\ f[w] = [pass |-> f[w].pass, roles |-> f[w].roles]
                            /\ f[w].roles \subseteq DOMAIN auth.roles \cup {Root}
    BY <2>1, <2>2, <2>3 DEF RolesFine, AuthRecord, RolesExist
  <2>6. RolesFine([auth EXCEPT !.users = f])
    BY <2>5, RolesUpdated
  <2> QED
    BY <2>4, <2>6 DEF v
<1>2. ASSUME NEW r, NEW perms, \A p \in perms : Spelt(p)
      PROVE  RolesFine(Role(r, perms))
  <2> DEFINE g == Keep(auth.roles, r, perms)
  <2>1. /\ DOMAIN auth.roles \subseteq DOMAIN g
        /\ \A x \in DOMAIN g : g[x] = IF x = r THEN perms ELSE auth.roles[x]
        /\ \A x \in DOMAIN g : x # r => x \in DOMAIN auth.roles
    BY DEF Keep
  <2>2. Role(r, perms) = [auth EXCEPT !.roles = g]
    BY DEF Role
  <2> HIDE DEF g
  <2>3. \A x \in DOMAIN g : \A p \in g[x] : Spelt(p)
    BY <1>2, <2>1 DEF RolesFine, RolesSpelt
  <2> QED
    BY <2>1, <2>2, <2>3, RolesUpdated
<1> QED
  BY <1>1, <1>2

\* A user of whom one field is changed.
LEMMA UserChanged ==
  ASSUME NEW u, NEW pass, NEW roles, u = [pass |-> pass, roles |-> roles]
  PROVE  /\ \A x : [u EXCEPT !.pass = x] = [pass |-> x, roles |-> roles]
         /\ \A x : [u EXCEPT !.roles = @ \cup {x}] = [pass |-> pass, roles |-> roles \cup {x}]
         /\ \A x : [u EXCEPT !.roles = @ \ {x}] = [pass |-> pass, roles |-> roles \ {x}]
<1>1. u.pass = pass /\ u.roles = roles
  OBVIOUS
<1>2. ASSUME NEW x PROVE [u EXCEPT !.pass = x] = [pass |-> x, roles |-> roles]
  OBVIOUS
<1>3. ASSUME NEW x PROVE [u EXCEPT !.roles = x] = [pass |-> pass, roles |-> x]
  OBVIOUS
<1>4. ASSUME NEW x PROVE [u EXCEPT !.roles = @ \cup {x}] = [pass |-> pass, roles |-> roles \cup {x}]
  <2>1. [u EXCEPT !.roles = @ \cup {x}] = [u EXCEPT !.roles = u.roles \cup {x}]
    OBVIOUS
  <2> QED
    BY <1>1, <1>3, <2>1
<1>5. ASSUME NEW x PROVE [u EXCEPT !.roles = @ \ {x}] = [pass |-> pass, roles |-> roles \ {x}]
  <2>1. [u EXCEPT !.roles = @ \ {x}] = [u EXCEPT !.roles = u.roles \ {x}]
    OBVIOUS
  <2> QED
    BY <1>1, <1>3, <2>1
<1> QED
  BY <1>2, <1>4, <1>5

\* A role that is deleted is taken from its users.
LEMMA RoleDeleted ==
  ASSUME RolesFine(auth), NEW r
  PROVE  RolesFine([auth EXCEPT !.roles = Drop(@, r), !.users = Deprived(@, r)])
<1> DEFINE f == [u \in DOMAIN auth.users |-> [auth.users[u] EXCEPT !.roles = @ \ {r}]]
           g == Drop(auth.roles, r)
           a == [enabled |-> auth.enabled, users |-> f, roles |-> g]
<1>0. /\ auth = [enabled |-> auth.enabled, users |-> auth.users, roles |-> auth.roles]
      /\ auth.enabled \in BOOLEAN
      /\ \A u \in DOMAIN auth.users :
           /\ auth.users[u] = [pass |-> auth.users[u].pass, roles |-> auth.users[u].roles]
           /\ auth.users[u].roles \subseteq DOMAIN auth.roles \cup {Root}
      /\ \A x \in DOMAIN auth.roles : \A p \in auth.roles[x] : Spelt(p)
  BY DEF RolesFine, AuthRecord, RolesExist, RolesSpelt
<1>1. [auth EXCEPT !.roles = Drop(@, r), !.users = Deprived(@, r)] = a
  <2> DEFINE a1 == [auth EXCEPT !.roles = Drop(@, r)]
  <2>1. a1 = [enabled |-> auth.enabled, users |-> auth.users, roles |-> g]
    BY <1>0
  <2>2. a1.enabled = auth.enabled /\ a1.users = auth.users /\ a1.roles = g
    BY <2>1
  <2>3. [auth EXCEPT !.roles = Drop(@, r), !.users = Deprived(@, r)]
          = [a1 EXCEPT !.users = Deprived(@, r)]
    OBVIOUS
  <2>4. [a1 EXCEPT !.users = Deprived(@, r)] = [a1 EXCEPT !.users = Deprived(a1.users, r)]
    OBVIOUS
  <2>6. Deprived(a1.users, r) = f
    BY <2>2 DEF Deprived
  <2> HIDE DEF a1, f, g
  <2>5. [a1 EXCEPT !.users = f] = a
    BY <2>1
  <2> QED
    BY <2>3, <2>4, <2>5, <2>6
<1>2. \A u \in DOMAIN f : f[u] = [pass |-> auth.users[u].pass, roles |-> auth.users[u].roles \ {r}]
  <2>1. ASSUME NEW u \in DOMAIN f
        PROVE  [auth.users[u] EXCEPT !.roles = @ \ {r}]
                 = [pass |-> auth.users[u].pass, roles |-> auth.users[u].roles \ {r}]
    BY <1>0, UserChanged
  <2> QED
    BY <2>1
<1>3. DOMAIN g = DOMAIN auth.roles \ {r} /\ \A x \in DOMAIN g : g[x] = auth.roles[x]
  BY DEF Drop
<1>4. DOMAIN f = DOMAIN auth.users
  OBVIOUS
<1> HIDE DEF f, g
<1>5. a = [enabled |-> a.enabled, users |-> a.users, roles |-> a.roles]
      /\ a.enabled = auth.enabled /\ a.users = f /\ a.roles = g
  OBVIOUS
<1> HIDE DEF a
<1>6. \A u \in DOMAIN f : /\ f[u] = [pass |-> f[u].pass, roles |-> f[u].roles]
                          /\ f[u].roles = auth.users[u].roles \ {r}
  BY <1>2
<1>7. RolesFine(a)
  BY <1>0, <1>3, <1>4, <1>5, <1>6 DEF RolesFine, AuthRecord, RolesExist, RolesSpelt
<1> QED
  BY <1>1, <1>7

\* What etcd makes of a request about users or roles.
LEMMA HandleFine ==
  ASSUME RolesFine(auth), NEW a, a.method \in AuthOps,
         a.method = "RoleGrantPermission" => Spelt(a.perm)
  PROVE  RolesFine(Handle(a).auth)
<1> DEFINE Good(o) == RolesFine(o.auth)
<1>1. /\ \A new : RolesFine(new) => Good(Changed(new)) /\ \A reply : Good(Done(new, reply))
      /\ Good(Refused)
  BY DEF Done, Changed, Refused
<1> HIDE DEF Good
<1>2. \A guard, o : (guard => Good(o)) => Good(When(guard, o))
  BY <1>1 DEF When
<1>3. \A u \in DOMAIN auth.users : /\ auth.users[u] = [pass |-> auth.users[u].pass, roles |-> auth.users[u].roles]
                                   /\ auth.users[u].roles \subseteq DOMAIN auth.roles \cup {Root}
  BY DEF RolesFine, AuthRecord, RolesExist
<1>4. \A r \in DOMAIN auth.roles : \A p \in auth.roles[r] : Spelt(p)
  BY DEF RolesFine, RolesSpelt
<1>5. Good(AuthEnable(a)) /\ Good(AuthDisable(a))
  BY <1>1, <1>2, RolesUpdated DEF AuthEnable, AuthDisable
<1>6. Good(Authenticate(a)) /\ Good(UserGet(a)) /\ Good(UserList(a)) /\ Good(RoleGet(a)) /\ Good(RoleList(a))
  BY <1>1, <1>2 DEF Authenticate, UserGet, UserList, RoleGet, RoleList
<1>7. Good(UserAdd(a))
  BY <1>1, <1>2, OneWritten DEF UserAdd
<1>8. Good(UserDelete(a))
  <2> DEFINE f == Drop(auth.users, a.name)
  <2>1. DOMAIN f \subseteq DOMAIN auth.users /\ \A u \in DOMAIN f : f[u] = auth.users[u]
    BY DEF Drop
  <2>2. [auth EXCEPT !.users = Drop(@, a.name)] = [auth EXCEPT !.users = f]
    OBVIOUS
  <2> HIDE DEF f
  <2>3. RolesFine([auth EXCEPT !.users = f])
    BY <1>3, <2>1, RolesUpdated
  <2> QED
    BY <1>1, <1>2, <2>2, <2>3 DEF UserDelete
<1>9. ASSUME IsUser(a.name)
      PROVE  LET u == auth.users[a.name]
             IN  /\ RolesFine(User(a.name, [u EXCEPT !.pass = a.pass]))
                 /\ IsRole(a.role) => RolesFine(User(a.name, [u EXCEPT !.roles = @ \cup {a.role}]))
                 /\ RolesFine(User(a.name, [u EXCEPT !.roles = @ \ {a.role}]))
  <2> DEFINE u == auth.users[a.name]
  <2>1. u = [pass |-> u.pass, roles |-> u.roles] /\ u.roles \subseteq DOMAIN auth.roles \cup {Root}
    BY <1>3, <1>9 DEF IsUser
  <2> HIDE DEF u
  <2>2. /\ [u EXCEPT !.pass = a.pass] = [pass |-> a.pass, roles |-> u.roles]
        /\ [u EXCEPT !.roles = @ \cup {a.role}] = [pass |-> u.pass, roles |-> u.roles \cup {a.role}]
        /\ [u EXCEPT !.roles = @ \ {a.role}] = [pass |-> u.pass, roles |-> u.roles \ {a.role}]
    BY <2>1, UserChanged
  <2>3. /\ IsRole(a.role) => u.roles \cup {a.role} \subseteq DOMAIN auth.roles \cup {Root}
        /\ u.roles \ {a.role} \subseteq DOMAIN auth.roles \cup {Root}
    BY <2>1 DEF IsRole
  <2>4. /\ RolesFine(User(a.name, [pass |-> a.pass, roles |-> u.roles]))
        /\ IsRole(a.role) => RolesFine(User(a.name, [pass |-> u.pass, roles |-> u.roles \cup {a.role}]))
        /\ RolesFine(User(a.name, [pass |-> u.pass, roles |-> u.roles \ {a.role}]))
    BY <2>1, <2>3, OneWritten
  <2>5. /\ RolesFine(User(a.name, [u EXCEPT !.pass = a.pass]))
        /\ IsRole(a.role) => RolesFine(User(a.name, [u EXCEPT !.roles = @ \cup {a.role}]))
        /\ RolesFine(User(a.name, [u EXCEPT !.roles = @ \ {a.role}]))
    BY <2>2, <2>4
  <2> QED
    BY <2>5 DEF u
<1>10. Good(UserChangePassword(a)) /\ Good(UserGrantRole(a))
  BY <1>1, <1>2, <1>9 DEF UserChangePassword, UserGrantRole
<1>11. Good(UserRevokeRole(a))
  BY <1>1, <1>2, <1>9 DEF UserRevokeRole
<1>12. Good(RoleAdd(a))
  BY <1>1, <1>2, OneWritten DEF RoleAdd
<1>13. Good(RoleDelete(a))
  BY <1>1, <1>2, RoleDeleted DEF RoleDelete
<1>14. a.method = "RoleGrantPermission" => Good(RoleGrantPermission(a))
  BY <1>1, <1>2, <1>4, OneWritten DEF RoleGrantPermission, IsRole
<1>15. Good(RoleRevokePermission(a))
  BY <1>1, <1>2, <1>4, OneWritten DEF RoleRevokePermission, IsRole
<1>16. Good(Handle(a))
  BY <1>5, <1>6, <1>7, <1>8, <1>10, <1>11, <1>12, <1>13, <1>14, <1>15 DEF Handle, AuthOps
<1> QED
  BY <1>16 DEF Good

-----------------------------------------------------------------------------
(* The calls of programs, and what the service keeps.                      *)

\* What any step does to a client's call and method.
LEMMA CallSteps ==
  ASSUME CallShape, [Next]_vars
  PROVE  /\ CallShape'
         /\ \A p \in Clients :
              \/ call'[p] = call[p] /\ doing'[p] = doing[p]
              \/ p \in Programs /\ call'[p] = NoCall /\ doing'[p] \in {doing[p], Idle}
              \/ p = Cli /\ \E l \in Lines : Runs(l)
              \/ p = Go /\ \E m \in Uses : Invoke(Go, m) \/ InvokeAuth(Go, m)
<1>0. Cli \in Programs /\ Go \in Programs /\ Programs \subseteq Clients
  BY ProgramsAreClients
<1>1. CASE UNCHANGED <<call, answer, doing>>
  BY <1>1 DEF CallShape
<1>2. ASSUME NEW p \in Programs,
             \/ Served(p) \/ NotServed(p) \/ Denied(p) \/ Returns(p)
             \/ ServedAuth(p) \/ NotServedAuth(p) \/ ReturnsAuth(p)
             \/ Authenticated(p) \/ NotAuthenticated(p)
      PROVE  /\ CallShape' /\ Others(p)
             /\ call'[p] = NoCall /\ doing'[p] \in {doing[p], Idle}
  <2>0. CallShape' /\ Others(p) /\ p \in Clients
    BY <1>0, <1>2, ProceedsAlone
  <2>1. CASE Served(p) \/ Denied(p) \/ ServedAuth(p) \/ NotServedAuth(p)
    <3>1. UNCHANGED doing /\ \E ret : Respond(p, ret)
      BY <2>1 DEF Served, Denied, ServedAuth, NotServedAuth, Do, LostAnswer
    <3> QED
      BY <2>0, <3>1 DEF Respond, CallShape
  <2>2. CASE NotServed(p)
    <3>1. UNCHANGED doing /\ ((\E ret : Respond(p, ret)) \/ Lost({p}))
      BY <2>2 DEF NotServed, TurnedAway, TimedOut
    <3> QED
      BY <2>0, <3>1 DEF Respond, Lost, CallShape
  <2>3. CASE Returns(p) \/ ReturnsAuth(p) \/ Authenticated(p) \/ NotAuthenticated(p)
    <3>1. /\ UNCHANGED call /\ call[p] = NoCall
          /\ doing' = [doing EXCEPT ![p] = Idle]
      BY <2>3 DEF Returns, ReturnsAuth, Authenticated, NotAuthenticated
    <3> QED
      BY <2>0, <3>1 DEF CallShape
  <2> QED
    BY <1>2, <2>0, <2>1, <2>2, <2>3
<1>3. ASSUME NEW p \in Programs, CallShape', Others(p),
             call'[p] = NoCall /\ doing'[p] \in {doing[p], Idle}
      PROVE  \A q \in Clients :
              \/ call'[q] = call[q] /\ doing'[q] = doing[q]
              \/ q \in Programs /\ call'[q] = NoCall /\ doing'[q] \in {doing[q], Idle}
  BY <1>3 DEF Others
<1>4. CASE UNCHANGED vars \/ BlankLine
  BY <1>1, <1>4 DEF vars, BlankLine, clientVars
<1>5. CASE Answered \/ Waits
  <2>1. \/ Served(Cli) \/ NotServed(Cli) \/ Denied(Cli) \/ Returns(Cli)
        \/ ServedAuth(Cli) \/ NotServedAuth(Cli) \/ ReturnsAuth(Cli)
        \/ Authenticated(Cli) \/ NotAuthenticated(Cli)
    BY <1>5 DEF Answered, Waits
  <2> QED
    BY <1>0, <1>2, <1>3, <2>1
<1>6. CASE GoProceeds
  BY <1>0, <1>2, <1>3, <1>6 DEF GoProceeds, Proceeds
<1>7. ASSUME NEW l \in Lines, Fails(l) \/ Talks(l) \/ Quits(l) \/ SetsLockTimeout(l)
      PROVE  UNCHANGED <<call, answer, doing>>
  BY <1>7 DEF Fails, Talks, Quits, SetsLockTimeout, SetLockTimeout, clientVars
<1>8. ASSUME NEW l \in Lines, Runs(l)
      PROVE  CallShape' /\ Others(Cli)
  BY <1>0, <1>8, InvokeAlone DEF Runs
<1>9. ASSUME NEW m \in Uses, Uses1(m)
      PROVE  UNCHANGED <<call, answer, doing>> \/ Invoke(Go, m) \/ InvokeAuth(Go, m)
  BY <1>9 DEF Uses1, ValueFails, LogOut, SetLockTimeout
<1>10. ASSUME NEW m \in Uses, Invoke(Go, m) \/ InvokeAuth(Go, m)
       PROVE  CallShape' /\ Others(Go)
  BY <1>0, <1>10, InvokeAlone
<1>11. ASSUME NEW k \in Keys, Expires(k)
       PROVE  UNCHANGED <<call, answer, doing>>
  BY <1>11 DEF Expires, Expire
<1>12. CASE \E l \in Lines : Runs(l)
  BY <1>8, <1>12 DEF Others
<1>13. CASE \E m \in Uses : Invoke(Go, m) \/ InvokeAuth(Go, m)
  BY <1>10, <1>13 DEF Others
<1> QED
  BY <1>1, <1>4, <1>5, <1>6, <1>7, <1>9, <1>11, <1>12, <1>13 DEF Next

\* A step changes the store and what is known of it by serving a call or by an expiry,
\* users and roles by serving a call that is about them.
LEMMA KeptSteps ==
  ASSUME [Next]_vars
  PROVE  /\ UNCHANGED auth \/ \E p \in Programs : ServedAuth(p)
         /\ \/ UNCHANGED <<store, put>>
            \/ \E p \in Programs : Served(p)
            \/ \E k \in Keys : Expire(k)
<1>0. Cli \in Programs /\ Go \in Programs
  BY ProgramsAreClients
<1>1. ASSUME NEW p \in Programs,
             \/ Served(p) \/ NotServed(p) \/ Denied(p) \/ Returns(p)
             \/ ServedAuth(p) \/ NotServedAuth(p) \/ ReturnsAuth(p)
             \/ Authenticated(p) \/ NotAuthenticated(p)
      PROVE  /\ UNCHANGED auth \/ ServedAuth(p)
             /\ UNCHANGED <<store, put>> \/ Served(p)
  BY <1>1 DEF Served, NotServed, Denied, Returns, ServedAuth, NotServedAuth, ReturnsAuth,
              Authenticated, NotAuthenticated, Unchanged, Data, TurnedAway, TimedOut, Lost
<1>2. CASE UNCHANGED vars \/ BlankLine
  BY <1>2 DEF vars, BlankLine, clientVars
<1>3. CASE Answered \/ Waits
  BY <1>0, <1>1, <1>3 DEF Answered, Waits
<1>4. CASE GoProceeds
  BY <1>0, <1>1, <1>4 DEF GoProceeds, Proceeds
<1>5. ASSUME NEW l \in Lines, Fails(l) \/ Talks(l) \/ Quits(l) \/ SetsLockTimeout(l) \/ Runs(l)
      PROVE  UNCHANGED <<auth, store, put>>
  BY <1>5 DEF Fails, Talks, Quits, SetsLockTimeout, SetLockTimeout, Runs, Invoke, InvokeAuth, Call,
              Unchanged, Data, clientVars
<1>6. ASSUME NEW m \in Uses, Uses1(m)
      PROVE  UNCHANGED <<auth, store, put>>
  BY <1>6 DEF Uses1, ValueFails, Invoke, InvokeAuth, Call, LogOut, SetLockTimeout, Unchanged, Data
<1>7. ASSUME NEW k \in Keys, Expires(k)
      PROVE  UNCHANGED auth /\ Expire(k)
  BY <1>7 DEF Expires, Expire, Unchanged
<1> QED
  BY <1>2, <1>3, <1>4, <1>5, <1>6, <1>7 DEF Next

\* The call c that has been made for the method call m.
Made(c, m) == \/ c = NoCall
              \/ c.op \in AuthOps
              \/ /\ m.method \in DOMAIN Methods /\ ArgumentsFit(m) /\ c = Message(m)
                 /\ m.method \in ReturnsItsError => NewValue(m.v).err = NoError

GrantsSpelt(m) == m.method = "RoleGrantPermission" => Spelt(m.perm)

CallsInv ==
  /\ CallShape
  /\ RolesFine(auth)
  /\ store \in [Keys -> Values]
  /\ \A p \in Clients : Made(call[p], doing[p]) /\ GrantsSpelt(doing[p])
  /\ doing[Cli] # Idle => line \in Lines /\ doing[Cli] = CallOf(line)

\* The handler of a method call is none of those that authentication is about.
LEMMA MadeType ==
  ASSUME NEW c, NEW m, Made(c, m), c # NoCall
  PROVE  c.op \in AuthOps \/ WellFormed(c)
  BY MessageType DEF Made

\* A call that is begun is made for its method call.
LEMMA BegunMade ==
  ASSUME CallShape, NEW p \in Clients, NEW m, Invoke(p, m) \/ InvokeAuth(p, m),
         m.method \in DOMAIN Methods => ArgumentsFit(m)
  PROVE  doing'[p] = m /\ Made(call'[p], m)
<1>1. doing'[p] = m
  BY DEF Invoke, InvokeAuth, CallShape
<1>2. CASE Invoke(p, m)
  <2>1. /\ call'[p] = Message(m) /\ m.method \in DOMAIN Methods
        /\ m.method \in ReturnsItsError => NewValue(m.v).err = NoError
    BY <1>2 DEF Invoke, Call, CallShape
  <2> QED
    BY <1>1, <2>1 DEF Made
<1>3. CASE InvokeAuth(p, m)
  <2>1. m.method \in AuthOps /\ call' = [call EXCEPT ![p] = [op |-> m.method]]
    BY <1>3 DEF InvokeAuth
  <2>2. call'[p] = [op |-> m.method]
    BY <2>1 DEF CallShape
  <2>3. call'[p].op \in AuthOps
    BY <2>1, <2>2
  <2> QED
    BY <1>1, <2>3 DEF Made
<1> QED
  BY <1>2, <1>3

\* The store that a request leaves.
LEMMA EffectType ==
  ASSUME store \in [Keys -> Values], NEW r, WellFormed(r)
  PROVE  Effect(r).store \in [Keys -> Values]
<1>0. r.key \in Keys /\ Marshal(r) \in Values /\ Absent \in Values /\ Leased \in Values
  BY RequestType, MarshalType DEF Stored, Values
<1>1. \A ret : Same(ret).store \in [Keys -> Values]
  BY DEF Same
<1>2. \A k, v, ret : v \in Values => Put(k, v, ret).store \in [Keys -> Values]
  BY <1>1 DEF Put
<1>3. CASE r.op \in LockingOps
  <2> DEFINE o == Decide(r, store[r.key])
  <2>1. o \in Outcomes
    BY <1>0, <1>3, DecideType
  <2>2. o.val \in Values
    BY <2>1 DEF Outcomes
  <2>3. Effect(r) = IF o.do = "write" THEN Put(r.key, o.val, o.ret) ELSE Same(o.ret)
    BY <1>3, EffectOf
  <2> HIDE DEF o
  <2> QED
    BY <1>1, <1>2, <2>2, <2>3
<1>4. CASE r.op \in ReadOps
  BY <1>1, <1>4, EffectOf
<1>5. CASE r.op \in SetOps \cup UnlockSetOps
  <2>1. Effect(r) = Put(r.key, Marshal(r), Ok(NullV))
    BY <1>5, EffectOf
  <2>2. Put(r.key, Marshal(r), Ok(NullV)).store \in [Keys -> Values]
    BY <1>0, <1>2
  <2> QED
    BY <2>1, <2>2
<1>6. CASE r.op \notin LockingOps \cup ReadOps \cup SetOps \cup UnlockSetOps
  <2>1. Effect(r).store = CASE r.op = "Delete"    -> [store EXCEPT ![r.key] = Absent]
                            [] r.op = "Clear"     -> [k \in Keys |-> Absent]
                            [] r.op = "SetExpire" -> [store EXCEPT ![r.key] = Leased]
                            [] OTHER              -> store
    BY <1>6, EffectOf
  <2> QED
    BY <1>0, <2>1
<1> QED
  BY <1>3, <1>4, <1>5, <1>6

\* The line that is run is the one whose call is under way.
LEMMA RunLine ==
  ASSUME CallShape, [Next]_vars
  PROVE  \/ line' = line /\ doing'[Cli] = doing[Cli]
         \/ doing'[Cli] = Idle
         \/ \E l \in Lines : Runs(l)
<1>0. Cli \in Clients /\ Cli \in Programs /\ Cli # Go /\ Go \in Programs
  BY ProgramsAreClients
<1>1. CASE UNCHANGED vars \/ BlankLine
  BY <1>1 DEF vars, BlankLine, clientVars
<1>2. CASE Answered
  BY <1>0, <1>2 DEF Answered, Returns, ReturnsAuth, Authenticated, NotAuthenticated, CallShape
<1>3. CASE Waits
  BY <1>3 DEF Waits, Served, ServedAuth, NotServed, NotServedAuth, Denied, Unchanged
<1>4. CASE GoProceeds
  <2>1. Others(Go) /\ line' = line
    BY <1>0, <1>4, ProceedsAlone DEF GoProceeds, Proceeds, OwnVars
  <2> QED
    BY <1>0, <2>1 DEF Others
<1>5. ASSUME NEW l \in Lines, Fails(l) \/ Talks(l) \/ Quits(l) \/ SetsLockTimeout(l)
      PROVE  doing'[Cli] = Idle
  BY <1>5 DEF Fails, Talks, Quits, SetsLockTimeout, SetLockTimeout, clientVars
<1>6. ASSUME NEW m \in Uses, Uses1(m)
      PROVE  line' = line /\ doing'[Cli] = doing[Cli]
  <2>1. CASE Invoke(Go, m) \/ InvokeAuth(Go, m)
    <3>1. Others(Go)
      BY <1>0, <2>1, InvokeAlone
    <3> QED
      BY <1>0, <1>6, <3>1 DEF Others, Uses1, OwnVars
  <2>2. CASE UNCHANGED doing
    BY <1>6, <2>2 DEF Uses1, OwnVars
  <2> QED
    BY <1>6, <2>1, <2>2 DEF Uses1, ValueFails, LogOut, SetLockTimeout
<1>7. ASSUME NEW k \in Keys, Expires(k)
      PROVE  line' = line /\ doing' = doing
  BY <1>7 DEF Expires, Expire, OwnVars
<1> QED
  BY <1>1, <1>2, <1>3, <1>4, <1>5, <1>6, <1>7 DEF Next

\* Every step keeps it.
LEMMA CallsStep == CallsInv /\ [Next]_vars => CallsInv'
<1> SUFFICES ASSUME CallsInv, [Next]_vars PROVE CallsInv'
  OBVIOUS
<1>0. CallShape /\ Cli \in Clients /\ Go \in Clients /\ Programs \subseteq Clients
  BY ProgramsAreClients DEF CallsInv
<1>1. CallShape'
  BY <1>0, CallSteps
<1>2. ASSUME NEW l \in Lines, Runs(l)
      PROVE  /\ Made(call'[Cli], doing'[Cli]) /\ GrantsSpelt(doing'[Cli])
             /\ line' \in Lines /\ doing'[Cli] = CallOf(line')
  <2>1. l.cmd \in DOMAIN Commands /\ Mistake(l) = "none" /\ line' = l
    BY <1>2 DEF Runs
  <2>2. /\ CallOf(l).method \in DOMAIN Methods => ArgumentsFit(CallOf(l))
        /\ GrantsSpelt(CallOf(l))
    BY <2>1, CallOfType DEF GrantsSpelt
  <2>3. Invoke(Cli, CallOf(l)) \/ InvokeAuth(Cli, CallOf(l))
    BY <1>2 DEF Runs
  <2>4. doing'[Cli] = CallOf(l) /\ Made(call'[Cli], CallOf(l))
    BY <1>0, <2>2, <2>3, BegunMade
  <2> QED
    BY <2>1, <2>2, <2>4
<1>3. ASSUME NEW m \in Uses, Invoke(Go, m) \/ InvokeAuth(Go, m)
      PROVE  Made(call'[Go], doing'[Go]) /\ GrantsSpelt(doing'[Go])
  <2>1. ArgumentsFit(m) /\ GrantsSpelt(m)
    BY UsesAssumption DEF GrantsSpelt
  <2> QED
    BY <1>0, <1>3, <2>1, BegunMade
<1>4. ASSUME NEW p \in Clients
      PROVE  Made(call'[p], doing'[p]) /\ GrantsSpelt(doing'[p])
  <2>1. CASE call'[p] = call[p] /\ doing'[p] = doing[p]
    BY <2>1 DEF CallsInv
  <2>2. CASE call'[p] = NoCall /\ doing'[p] \in {doing[p], Idle}
    <3>1. GrantsSpelt(Idle)
      BY DEF GrantsSpelt, Idle
    <3> QED
      BY <2>2, <3>1 DEF CallsInv, Made
  <2> QED
    BY <1>0, <1>2, <1>3, <2>1, <2>2, CallSteps
<1>5. doing'[Cli] # Idle => line' \in Lines /\ doing'[Cli] = CallOf(line')
  BY <1>0, <1>2, RunLine DEF CallsInv
<1>6. RolesFine(auth)'
  <2>1. CASE UNCHANGED auth
    <3>1. RolesFine(auth') <=> RolesFine(auth)
      BY <2>1
    <3> QED
      BY <3>1 DEF CallsInv, RolesFine, RolesExist, RolesSpelt, AuthRecord
  <2>2. ASSUME NEW p \in Programs, ServedAuth(p)
        PROVE  RolesFine(auth)'
    <3>1. doing[p].method \in AuthOps /\ auth' = Handle(doing[p]).auth
      BY <2>2 DEF ServedAuth
    <3>2. RolesFine(Handle(doing[p]).auth)
      BY <1>0, <3>1, HandleFine DEF CallsInv, GrantsSpelt
    <3>3. RolesFine(auth')
      BY <3>1, <3>2
    <3> QED
      BY <3>3 DEF RolesFine, RolesExist, RolesSpelt, AuthRecord
  <2> QED
    BY <2>1, <2>2, KeptSteps
<1>7. store' \in [Keys -> Values]
  <2>1. ASSUME NEW p \in Programs, Served(p)
        PROVE  store' \in [Keys -> Values]
    <3>1. call[p] # NoCall /\ call[p].op \notin AuthOps /\ store' = Effect(call[p]).store
      BY <2>1 DEF Served, Do, LostAnswer
    <3>2. WellFormed(call[p])
      BY <1>0, <3>1, MadeType DEF CallsInv
    <3> QED
      BY <3>1, <3>2, EffectType DEF CallsInv
  <2>2. ASSUME NEW k \in Keys, Expire(k)
        PROVE  store' \in [Keys -> Values]
    <3>1. Absent \in Values
      BY DEF Values
    <3> QED
      BY <2>2, <3>1 DEF Expire, CallsInv
  <2> QED
    BY <2>1, <2>2, KeptSteps DEF CallsInv
<1> QED
  BY <1>1, <1>4, <1>5, <1>6, <1>7 DEF CallsInv

\* It holds when the program starts.
LEMMA CallsInit == Init => CallsInv
<1> SUFFICES ASSUME Init PROVE CallsInv
  OBVIOUS
<1>0. Cli \in Clients
  BY ProgramsAreClients
<1>1. CallShape /\ \A p \in Clients : Made(call[p], doing[p]) /\ GrantsSpelt(doing[p])
  BY DEF Init, ClientInit, AInit, CallShape, Made, GrantsSpelt, Idle
<1>2. doing[Cli] = Idle
  BY <1>0 DEF Init, ClientInit
<1>3. RolesFine(auth)
  BY StartsAssumption DEF Init, RolesFine
<1>4. store \in [Keys -> Values]
  BY DEF Init, ClientInit, AInit, Values
<1> QED
  BY <1>1, <1>2, <1>3, <1>4 DEF CallsInv

\* What is under way is a request that the service takes, for a method call with
\* arguments of its types; the keys hold values; the line that is run is one that was
\* typed; users have roles that exist.
THEOREM ShellTyped == Spec => []ShellTypeOK
<1>1. CallsInv /\ LinesInv => ShellTypeOK
  <2> SUFFICES ASSUME CallsInv, LinesInv PROVE ShellTypeOK
    OBVIOUS
  <2>1. \A p \in Clients : call[p] # NoCall => call[p].op \in AuthOps \/ WellFormed(call[p])
    BY MadeType DEF CallsInv
  <2>2. ran <= read \/ way \in {"argv", "exited"}
    BY DEF LinesInv
  <2>3. auth.enabled \in BOOLEAN /\ RolesExist(auth)
    BY DEF CallsInv, RolesFine
  <2> QED
    BY <2>1, <2>2, <2>3 DEF CallsInv, ShellTypeOK
<1> QED
  BY <1>1, CallsInit, CallsStep, LinesInit, LinesStep, PTL DEF Spec

\* A permission for a pattern gives access to the names that begin with what precedes
\* its '*' and to no others, however many permissions are granted and revoked.
THEOREM PatternsAreCovered == Spec => []PatternsCover
<1>1. CallsInv => PatternsCover
  <2> SUFFICES ASSUME CallsInv, NEW r \in DOMAIN auth.roles, NEW p \in auth.roles[r]
               PROVE  \E w \in DOMAIN Spelling :
                        /\ GetKeyPrefix(Spelling[w]) = <<p.key, p.end>>
                        /\ IsPattern(Spelling[w]) => CoversPattern(Spelling[w], OtherNames)
    BY DEF PatternsCover
  <2>1. PICK w \in DOMAIN Spelling : GetKeyPrefix(Spelling[w]) = <<p.key, p.end>>
    BY DEF CallsInv, RolesFine, RolesSpelt, Spelt
  <2>2. IsPattern(Spelling[w]) => CoversPattern(Spelling[w], OtherNames)
    BY SpellingAssumption, PatternRange DEF Name
  <2> QED
    BY <2>1, <2>2
<1> QED
  BY <1>1, CallsInit, CallsStep, PTL DEF Spec

-----------------------------------------------------------------------------
(* Go values that were stored.                                             *)

\* The bytes made of a Go value are stored as they are.
LEMMA MarshalNew ==
  ASSUME NEW t \in GoValues, NEW r, r.val = NewValue(t).b
  PROVE  Marshal(r) = NewValue(t).b
<1> DEFINE Good(c) == /\ c.type = "list" => EncodeList(c.value, c.limit) = c
                      /\ c.type = "hash" => EncodeHash(c.fields) = c
<1>1. /\ Good(Empty) /\ Good(ZeroByte) /\ (\A i : Good(RawV(i)))
      /\ (\A n : Good(EncodeInt(n))) /\ (\A x : Good(EncodeFloat(x)))
  BY DEF Empty, ZeroByte, RawV, EncodeInt, IntV, EncodeFloat, FloatV
<1>2. \A s : Good(EncodeList(s, 0))
  BY DEF EncodeList, ListV, Empty
<1>3. \A h : Good(EncodeHash(h))
  BY DEF EncodeHash, HashV, Empty
<1> HIDE DEF Good
<1>4. /\ \A c : Value(c).b = c
      /\ \A e : Bad(e).b = Empty
  BY DEF Value, Bad
<1>5. Good(NewValue(t).b)
  <2>1. CASE Is(t, "string")
    <3>1. NewValue(t).b = Raw(t.string)
      BY <1>4, <2>1, NewValueOf
    <3>2. Good(Raw(t.string))
      BY <1>1 DEF Raw
    <3> QED
      BY <3>1, <3>2
  <2>2. CASE Is(t, "bool")
    <3>1. NewValue(t).b = IF t.bool THEN RawV(One) ELSE ZeroByte
      BY <1>4, <2>2, NewValueOf
    <3>2. Good(IF t.bool THEN RawV(One) ELSE ZeroByte)
      BY <1>1
    <3> QED
      BY <3>1, <3>2
  <2>3. CASE Is(t, "int")
    <3>1. NewValue(t).b = EncodeInt(t.int)
      BY <1>4, <2>3, NewValueOf
    <3>2. Good(EncodeInt(t.int))
      BY <1>1
    <3> QED
      BY <3>1, <3>2
  <2>4. CASE Is(t, "float")
    <3>1. NewValue(t).b = EncodeFloat(t.float)
      BY <1>4, <2>4, NewValueOf
    <3>2. Good(EncodeFloat(t.float))
      BY <1>1
    <3> QED
      BY <3>1, <3>2
  <2>5. CASE Is(t, "time")
    <3>1. NewValue(t).b = EncodeInt(t.time % Second)
      BY <1>4, <2>5, NewValueOf
    <3>2. Good(EncodeInt(t.time % Second))
      BY <1>1
    <3> QED
      BY <3>1, <3>2
  <2>6. CASE Is(t, "duration")
    <3>1. NewValue(t).b = EncodeInt(t.duration)
      BY <1>4, <2>6, NewValueOf
    <3>2. Good(EncodeInt(t.duration))
      BY <1>1
    <3> QED
      BY <3>1, <3>2
  <2>7. CASE Is(t, "strings")
    <3>1. NewValue(t).b = EncodeList(ListStringToBytes(t.strings), 0)
      BY <1>4, <2>7, NewValueOf
    <3>2. Good(EncodeList(ListStringToBytes(t.strings), 0))
      BY <1>2
    <3> QED
      BY <3>1, <3>2
  <2>8. CASE Is(t, "map")
    <3>1. NewValue(t).b = EncodeHash(t.map)
      BY <1>4, <2>8, NewValueOf
    <3>2. Good(EncodeHash(t.map))
      BY <1>3
    <3> QED
      BY <3>1, <3>2
  <2>9. CASE Is(t, "error") \/ Is(t, "other")
    <3>1. NewValue(t).b = Empty
      BY <1>4, <2>9, NewValueOf
    <3> QED
      BY <1>1, <3>1
  <2> QED
    BY <2>1, <2>2, <2>3, <2>4, <2>5, <2>6, <2>7, <2>8, <2>9, GoValueCases
<1>6. Good(r.val)
  BY <1>5
<1> QED
  BY <1>6 DEF Good, Marshal

\* What is known to be stored has been made of the Go value that was put there.
PutsInv ==
  /\ put = [k \in Keys |-> put[k]]
  /\ \A k \in Keys : put[k] # NoGo =>
       /\ put[k] \in GoValues /\ NewValue(put[k]).err = NoError
       /\ store[k] = NewValue(put[k]).b

\* So it is read back as that value.
LEMMA PutsRead == PutsInv => RoundTrip
<1> SUFFICES ASSUME PutsInv, NEW k \in Keys, put[k] # NoGo
             PROVE  LET t == IF Is(put[k], "time") THEN GoTime(put[k].time % Second) ELSE put[k]
                    IN  store[k] # Absent /\ ReadLike(put[k], Bytes(store[k])) = t
  BY DEF RoundTrip
<1> DEFINE v == put[k]
<1>1. v \in GoValues /\ NewValue(v).err = NoError /\ store[k] = NewValue(v).b
  BY DEF PutsInv
<1>2. NewValue(v).b \in Stored
  BY <1>1, NewValueType
<1>3. Bytes(store[k]) = NewValue(v).b /\ store[k] # Absent
  BY <1>1, <1>2 DEF Bytes, Stored
<1>4. ReadLike(v, NewValue(v).b) = IF Is(v, "time") THEN GoTime(v.time % Second) ELSE v
  BY <1>1, ReadBack
<1> HIDE DEF v
<1>5. store[k] # Absent /\ ReadLike(v, Bytes(store[k])) = IF Is(v, "time") THEN GoTime(v.time % Second) ELSE v
  BY <1>3, <1>4
<1> QED
  BY <1>5 DEF v

\* Set, and SetNX of a key that is not there, store the bytes of their value.
LEMMA StoresBytes ==
  ASSUME CallsInv, NEW p \in Clients, Served(p), NEW k \in Keys, Stores(p, k)
  PROVE  /\ doing[p].v \in GoValues /\ NewValue(doing[p].v).err = NoError
         /\ store'[k] = NewValue(doing[p].v).b
<1> DEFINE m == doing[p]
           r == call[p]
<1>1. /\ r # NoCall /\ r.op \notin AuthOps /\ store' = Effect(r).store
      /\ k = r.key /\ k # Sentinel
      /\ m.method = "Set" \/ (m.method = "SetNX" /\ store[k] = Absent)
  BY DEF Served, Do, LostAnswer, Stores
<1>2. /\ m.method \in DOMAIN Methods /\ ArgumentsFit(m) /\ r = Message(m)
      /\ m.method \in ReturnsItsError => NewValue(m.v).err = NoError
  BY <1>1 DEF CallsInv, Made
<1>3. m.v \in GoValues /\ NewValue(m.v).err = NoError
  BY <1>1, <1>2 DEF ArgumentsFit, ReturnsItsError
<1>4. MethodFine(m.method, Methods[m.method])
  BY <1>2, MethodTable DEF MethodsFine
<1>5. Sends(m, "v")
  BY <1>1, <1>4 DEF MethodFine, Sends
<1> DEFINE b == NewValue(m.v).b
<1>6. r.val = b /\ r.op = m.method
  <2>1. Message(m).val = b /\ Message(m).op = Handler(m.method)
    BY <1>5 DEF Message
  <2>2. Handler(m.method) = m.method
    BY <1>1 DEF Handler
  <2> QED
    BY <1>2, <2>1, <2>2
<1>7. Marshal(r) = b
  BY <1>3, <1>6, MarshalNew
<1>8. store \in [Keys -> Values]
  BY DEF CallsInv
<1>9. \A ret : Put(k, b, ret).store[k] = b
  BY <1>1, <1>8 DEF Put
<1> HIDE DEF b, m, r
<1>10. CASE m.method = "Set"
  <2>1. r.op \in SetOps \cup UnlockSetOps
    BY <1>6, <1>10 DEF SetOps
  <2>2. Effect(r) = Put(k, b, Ok(NullV))
    BY <1>1, <1>7, <2>1, EffectOf
  <2>3. store'[k] = b
    BY <1>1, <1>9, <2>2
  <2> QED
    BY <1>3, <2>3 DEF b, m
<1>11. CASE m.method = "SetNX" /\ store[k] = Absent
  <2> DEFINE o == Decide(r, store[k])
  <2>1. r.op \in LockingOps
    BY <1>6, <1>11 DEF LockingOps
  <2>2. o = Write(b, BoolV(TRUE))
    BY <1>6, <1>7, <1>11 DEF Decide, SetNX
  <2>3. o.do = "write" /\ o.val = b
    BY <2>2 DEF Write
  <2>4. Effect(r) = IF o.do = "write" THEN Put(k, o.val, o.ret) ELSE Same(o.ret)
    BY <1>1, <2>1, EffectOf
  <2>5. Effect(r) = Put(k, b, o.ret)
    BY <2>3, <2>4
  <2> HIDE DEF o
  <2>6. store'[k] = b
    BY <1>1, <1>9, <2>5
  <2> QED
    BY <1>3, <2>6 DEF b, m
<1> QED
  BY <1>1, <1>10, <1>11

\* Whatever else is stored there is known not to be that value.
LEMMA PutsStep == PutsInv /\ CallsInv /\ [Next]_vars => PutsInv'
<1> SUFFICES ASSUME PutsInv, CallsInv, [Next]_vars PROVE PutsInv'
  OBVIOUS
<1>1. CASE UNCHANGED <<store, put>>
  BY <1>1 DEF PutsInv
<1>2. ASSUME NEW p \in Programs, Served(p)
      PROVE  PutsInv'
  <2>1. put' = [k \in Keys |-> IF Stores(p, k) THEN doing[p].v
                               ELSE IF store'[k] = store[k] THEN put[k] ELSE NoGo]
    BY <1>2 DEF Served, Puts
  <2>2. ASSUME NEW k \in Keys, put'[k] # NoGo
        PROVE  /\ put'[k] \in GoValues /\ NewValue(put'[k]).err = NoError
               /\ store'[k] = NewValue(put'[k]).b
    <3>1. CASE Stores(p, k)
      <4>1. put'[k] = doing[p].v
        BY <2>1, <3>1
      <4> QED
        BY <1>2, <3>1, <4>1, StoresBytes, ProgramsAreClients
    <3>2. CASE ~Stores(p, k)
      <4>1. put'[k] = put[k] /\ store'[k] = store[k]
        BY <2>1, <2>2, <3>2
      <4> QED
        BY <2>2, <4>1 DEF PutsInv
    <3> QED
      BY <3>1, <3>2
  <2>3. put' = [k \in Keys |-> put'[k]]
    BY <2>1
  <2> QED
    BY <2>2, <2>3 DEF PutsInv
<1>3. ASSUME NEW j \in Keys, Expire(j)
      PROVE  PutsInv'
  <2>1. store' = [store EXCEPT ![j] = Absent] /\ put' = [put EXCEPT ![j] = NoGo]
    BY <1>3 DEF Expire
  <2>2. ASSUME NEW k \in Keys, put'[k] # NoGo
        PROVE  put'[k] = put[k] /\ store'[k] = store[k]
    BY <2>1, <2>2 DEF CallsInv, PutsInv
  <2>3. put' = [k \in Keys |-> put'[k]]
    BY <2>1 DEF PutsInv
  <2> QED
    BY <2>2, <2>3 DEF PutsInv
<1> QED
  BY <1>1, <1>2, <1>3, KeptSteps

\* A Go value that a program stores is what the key reads as in the same type, until
\* something else is stored there, whichever program writes next and whatever answers
\* are lost: of a time, though, only the part within its second.
THEOREM ValuesReturn == Spec => []RoundTrip
<1>1. Init => PutsInv
  BY DEF Init, ClientInit, PutsInv
<1> QED
  BY <1>1, CallsInit, CallsStep, PutsStep, PutsRead, PTL DEF Spec
=============================================================================
