----------------------------- MODULE AtomicStore ----------------------------
(***************************************************************************)
(* What the Mydis service promises its clients, without locks and without  *)
(* handlers: a store of keys on which every request takes effect at one    *)
(* instant between its call and its answer.  A request can also be turned  *)
(* away because its key is locked, time out, or be lost with or without    *)
(* having taken effect.                                                    *)
(***************************************************************************)
EXTENDS Ops

CONSTANTS Clients, Requests

VARIABLES store,  \* the value of every key
          call,   \* per client: its outstanding request, or NoCall
          answer  \* per client: the result of its last request

avars == <<store, call, answer>>

NoCall == [op |-> "none"]

-----------------------------------------------------------------------------
(* The sequential meaning of a request.                                    *)

Same(ret)      == [store |-> store, ret |-> ret]
Put(k, v, ret) == IF k = Sentinel THEN Same(Err("ErrInvalidKey"))
                  ELSE [store |-> [store EXCEPT ![k] = v], ret |-> ret]

\* The store that request r leaves and the result it returns, run alone.
Effect(r) ==
  CASE r.op \in LockingOps ->
         LET o == Decide(r, store[r.key])
         IN  IF o.do = "write" THEN Put(r.key, o.val, o.ret) ELSE Same(o.ret)
    [] r.op \in ReadOps -> Same(Answer(r, store).ret)
    [] r.op \in SetOps \cup UnlockSetOps -> Put(r.key, Marshal(r), Ok(NullV))
    [] r.op = "Delete" -> [store |-> [store EXCEPT ![r.key] = Absent], ret |-> Ok(NullV)]
    [] r.op = "Clear"  -> [store |-> [k \in Keys |-> Absent], ret |-> Ok(NullV)]
    [] r.op = "SetExpire" -> [store |-> [store EXCEPT ![r.key] = Leased], ret |-> Ok(NullV)]
    [] OTHER -> Same(Ok(NullV))

-----------------------------------------------------------------------------

Call(p, r) == /\ call[p] = NoCall
              /\ call' = [call EXCEPT ![p] = r]
              /\ answer' = [answer EXCEPT ![p] = NoResult]
              /\ UNCHANGED store

Respond(p, ret) == /\ call[p] # NoCall
                   /\ call' = [call EXCEPT ![p] = NoCall]
                   /\ answer' = [answer EXCEPT ![p] = ret]

\* The request takes effect and is answered.
Do(p) == Respond(p, Effect(call[p]).ret) /\ store' = Effect(call[p]).store

\* The key is locked by someone.
TurnedAway(p) == /\ call[p].op \notin ReadOps
                 /\ Respond(p, Err("ErrKeyLocked"))
                 /\ UNCHANGED store

\* A blocking pop found nothing for as long as it was told to wait.
TimedOut(p) == /\ call[p].op \in PopOps /\ call[p].block
               /\ Respond(p, Err("ErrListEmpty"))
               /\ UNCHANGED store

\* The request is lost after it took effect.
LostAnswer(p) == Respond(p, Err("ErrUnavailable")) /\ store' = Effect(call[p]).store

\* Requests are lost before they took effect.
Lost(S) == /\ S # {} /\ \A p \in S : call[p] # NoCall
           /\ call' = [p \in Clients |-> IF p \in S THEN NoCall ELSE call[p]]
           /\ answer' = [p \in Clients |-> IF p \in S THEN Err("ErrUnavailable") ELSE answer[p]]
           /\ UNCHANGED store

AInit == /\ store = [k \in Keys |-> Absent]
         /\ call = [p \in Clients |-> NoCall]
         /\ answer = [p \in Clients |-> NoResult]

ANext == \/ \E p \in Clients, r \in Requests : Call(p, r)
         \/ \E p \in Clients : Do(p) \/ TurnedAway(p) \/ TimedOut(p) \/ LostAnswer(p)
         \/ \E S \in SUBSET Clients : Lost(S)

ASpec == AInit /\ [][ANext]_avars
=============================================================================
