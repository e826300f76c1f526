-------------------------- MODULE ClientWatchProofs --------------------------
(***************************************************************************)
(* Proofs about the client side of Watch, for any number of users, readers,*)
(* keys, calls, connections and breaks: event channels are closed only     *)
(* under the lock, and a rewatch that is through has told the server of    *)
(* everything the client has on record.                                    *)
(***************************************************************************)
EXTENDS ClientWatch, TLAPS

-----------------------------------------------------------------------------
(* The inductive invariant.                                                *)

PlainNames == Keys \X {0}

\* A rewatch asks for the names of the map as if they were keys, so that it is
\* right only for those that are.
NoPrefixes == \A r \in Asks : ~r.prefix

\* bg is at a request: it has sent it, and has not recorded it yet.
AtRequest == pc[Bg] \in {"reply", "record", "locked"}

\* Where the goroutines stand, and what they then have in their hands.
Placed ==
  /\ pc[Bg] = "select" \/ AtRequest => cur \in Conns
  /\ \A u \in Users : pc[User(u)] = "req" => asks[u] \in Asks
  /\ AtRequest => /\ sent.req \in Requests
                  /\ sent.from \in Callers
  /\ \A c \in Conns : sent.from = Rewatch(c) => ~sent.req.cancel

\* Whose request bg has sent waits for the answer.
Awaited == pc[Bg] = "reply" => pc[sent.from] = "res"

\* A receiver that is about to send on channels holds the read lock, and they
\* are open.
Delivering == \A c \in Conns : pc[Receive(c)] = "deliver" =>
                Receive(c) \in readers /\ left[c] \subseteq Open

\* Names without suffixes everywhere.
Plain == /\ watching \subseteq PlainNames
         /\ \A c \in Conns : todo[c] \subseteq PlainNames
         /\ AtRequest => sent.req.name \in PlainNames /\ ~sent.req.prefix

\* The server of the connection has been told of what is about to be recorded,
\* and of all that is on record, except for what rewatch still has to send and
\* for what is being cancelled.
Told(n) == Meaning(n) \in srv[cur]
Complete ==
  (pc[Bg] = "select" \/ AtRequest) /\ alive[cur] =>
    /\ AtRequest /\ ~sent.req.cancel => Told(sent.req.name)
    /\ pc[Rewatch(cur)] \in {"req", "res", "done"} =>
         \A n \in watching : \/ Told(n) \/ n \in todo[cur]
                             \/ AtRequest /\ sent.req.cancel /\ n = sent.req.name
Through == \A c \in Conns : pc[Rewatch(c)] = "done" => todo[c] = {}

Serving   == srv \in [Conns -> SUBSET [name : Names, prefix : BOOLEAN]]
ClientInv == TypeOK /\ Serving /\ Placed /\ Awaited /\ Delivering
RewatchInv == ClientInv /\ Plain /\ Through /\ Complete

-----------------------------------------------------------------------------
(* Goroutines, and the steps they make.                                    *)

\* Goroutines of different kinds are different, and those of a kind are told
\* apart by their numbers.
LEMMA Apart ==
  /\ Bg \in Goroutines /\ Closer \in Goroutines /\ Bg # Closer
  /\ \A u \in Users : /\ User(u) \in Goroutines /\ User(u) \in Callers
                      /\ User(u) # Bg /\ User(u) # Closer
  /\ \A c \in Conns : /\ Rewatch(c) \in Goroutines /\ Rewatch(c) \in Callers
                      /\ Receive(c) \in Goroutines
                      /\ Rewatch(c) # Bg /\ Rewatch(c) # Closer
                      /\ Receive(c) # Bg /\ Receive(c) # Closer
  /\ \A o \in Readers : /\ Reader(o) \in Goroutines
                        /\ Reader(o) # Bg /\ Reader(o) # Closer
  /\ \A u, c : User(u) # Rewatch(c) /\ User(u) # Receive(c) /\ User(u) # Reader(c)
  /\ \A c, d : Rewatch(c) # Receive(d) /\ Rewatch(c) # Reader(d) /\ Receive(c) # Reader(d)
  /\ \A c, d : /\ User(c) = User(d) => c = d
               /\ Rewatch(c) = Rewatch(d) => c = d
               /\ Receive(c) = Receive(d) => c = d
               /\ Reader(c) = Reader(d) => c = d
  BY DEF Bg, Closer, User, Rewatch, Receive, Reader, Goroutines, Callers

\* bg waits for the lock to record a request, others to change what they own.
Waits(g) == \/ g = Bg /\ WantLock(g, "record", "locked")
            \/ g # Bg /\ \/ WantLock(g, "new", "opening") \/ WantLock(g, "reading", "closing")
                         \/ WantLock(g, "new", "locked")

\* The steps of the program, the servers and the network.
LEMMA ClientSteps ==
  ASSUME [Next]_vars
  PROVE  \/ UNCHANGED vars
         \/ Connect \/ ConnectFails \/ Reply \/ Record \/ Exit \/ CloseClient
         \/ \E g \in {Closer} \cup {Receive(c) : c \in Conns} : TakeClose(g)
         \/ \E g \in Callers : SendOnClosed(g)
         \/ \E g \in {Bg, Closer} \cup {Reader(o) : o \in Readers} : Waits(g)
         \/ \E u \in Users : TakeUser(u) \/ \E r \in Asks : Call(u, r)
         \/ \E c \in Conns : \/ TakeRewatch(c) \/ StartRewatch(c)
                             \/ Loop(c) \/ RecvEvent(c) \/ RecvErr(c) \/ DeliverStart(c)
                             \/ DeliverEnd(c) \/ Break(c)
                             \/ \E o \in Readers : Deliver(c, o)
         \/ \E o \in Readers : NewEventChannel(o) \/ Read(o) \/ CloseEventChannel(o)
  BY Apart DEF Next, Environment, Step, Background, ReceiveStep, Waits

-----------------------------------------------------------------------------
(* Types, and that channels are closed only under the lock.                *)

\* The labels of the goroutines' steps.
LEMMA Labels ==
  /\ "connect" \in PCs /\ "select" \in PCs /\ "reply" \in PCs /\ "record" \in PCs
  /\ "locked" \in PCs /\ "exit" \in PCs /\ "stopped" \in PCs /\ "panic" \in PCs
  /\ "new" \in PCs /\ "start" \in PCs /\ "idle" \in PCs /\ "req" \in PCs /\ "res" \in PCs
  /\ "done" \in PCs /\ "loop" \in PCs /\ "recv" \in PCs /\ "event" \in PCs
  /\ "deliver" \in PCs /\ "closeCh" \in PCs /\ "opening" \in PCs /\ "reading" \in PCs
  /\ "closing" \in PCs
  BY DEF PCs

\* The types, in the groups that steps leave alone together.
PcType    == pc \in [Goroutines -> PCs]
CallType  == /\ asks \in [Users -> Requests \cup {NoAsk}]
             /\ todo \in [Conns -> SUBSET Names] /\ watching \subseteq Names
             /\ sent \in [from : Callers \cup {Nobody}, req : Requests \cup {NoAsk}, ok : BOOLEAN]
NetType   == /\ cur \in 0 .. MaxConns /\ alive \in [Conns -> BOOLEAN]
             /\ srv \in [Conns -> SUBSET [name : Names, prefix : BOOLEAN]]
InboxType == /\ on \in [Conns -> 0 .. MaxConns] /\ left \in [Conns -> SUBSET Readers]
             /\ chan \in [Readers -> [open : BOOLEAN, events : 0 .. Capacity]]
LockType  == readers \subseteq Goroutines /\ writer \in Goroutines \cup {Nobody}
EndType   == /\ closing \in BOOLEAN
             /\ counts \in [asks : 0 .. MaxAsks, breaks : 0 .. MaxBreaks, events : 0 .. MaxEvents]

\* TypeOK is the groups together.
LEMMA TypeParts ==
  TypeOK /\ Serving <=> PcType /\ CallType /\ NetType /\ InboxType /\ LockType /\ EndType
  BY DEF TypeOK, Serving, PcType, CallType, NetType, InboxType, LockType, EndType

\* The invariant holds before anything is connected.
LEMMA ClientInit == ASSUME Init PROVE RewatchInv
<1> USE BoundsAssumption DEF Init
<1>1. TypeOK /\ Serving
  <2>1. PcType
    BY Apart, Labels DEF PcType
  <2>a. NoSend \in [from : Callers \cup {Nobody}, req : Requests \cup {NoAsk}, ok : BOOLEAN]
    <3> HIDE DEF Init
    <3> QED
      BY DEF NoSend
  <2>2. CallType
    BY <2>a DEF CallType
  <2>b. NetType
    BY DEF NetType
  <2>c. LockType /\ EndType
    <3>1. [asks |-> 0, breaks |-> 0, events |-> 0]
            \in [asks : 0 .. MaxAsks, breaks : 0 .. MaxBreaks, events : 0 .. MaxEvents]
      BY BoundsAssumption
    <3> QED
      BY <3>1 DEF LockType, EndType
  <2>d. [open |-> FALSE, events |-> 0] \in [open : BOOLEAN, events : 0 .. Capacity]
    BY BoundsAssumption
  <2>3. InboxType
    BY <2>d DEF InboxType
  <2> QED
    BY <2>1, <2>2, <2>b, <2>c, <2>3, TypeParts
<1>2. /\ pc[Bg] = "connect" /\ ~AtRequest
      /\ \A u \in Users : pc[User(u)] = "idle"
      /\ \A c \in Conns : pc[Receive(c)] = "new" /\ pc[Rewatch(c)] = "new"
  BY Apart DEF AtRequest
<1>3. \A c \in Conns : sent.from # Rewatch(c)
  BY DEF NoSend, Nobody, Rewatch
<1> QED
  BY <1>1, <1>2, <1>3 DEF RewatchInv, ClientInv, Placed, Awaited, Delivering, Plain, Through,
                             Complete

\* Every step takes goroutines to labels of theirs.
LEMMA PcStep == ASSUME PcType, [Next]_vars PROVE PcType'
<1> USE Apart, Labels DEF PcType, Move, net, calls, inbox, lock
<1>1. CASE UNCHANGED vars
  BY <1>1 DEF vars
<1>2. CASE Connect \/ ConnectFails \/ Exit
  BY <1>2 DEF Connect, ConnectFails, Exit, Conns
<1>3. CASE Reply
  BY <1>3 DEF Reply
<1>4. CASE Record \/ CloseClient
  BY <1>4 DEF Record, CloseClient
<1>5. ASSUME NEW g \in {Closer} \cup {Receive(c) : c \in Conns}, TakeClose(g) PROVE PcType'
  BY <1>5 DEF TakeClose
<1>z. ASSUME NEW g \in Callers, SendOnClosed(g) PROVE PcType'
  BY <1>z DEF SendOnClosed, Callers
<1>6. ASSUME NEW g \in {Bg, Closer} \cup {Reader(o) : o \in Readers}, Waits(g) PROVE PcType'
  BY <1>6 DEF Waits, WantLock
<1>7. ASSUME NEW u \in Users, TakeUser(u) \/ \E r \in Asks : Call(u, r) PROVE PcType'
  BY <1>7 DEF TakeUser, SendRequest, Call
<1>8. ASSUME NEW c \in Conns, TakeRewatch(c) \/ StartRewatch(c) \/ Loop(c) PROVE PcType'
  BY <1>8 DEF TakeRewatch, SendRequest, StartRewatch, Loop
<1>9. ASSUME NEW c \in Conns, RecvEvent(c) \/ RecvErr(c) \/ DeliverStart(c) PROVE PcType'
  BY <1>9 DEF RecvEvent, RecvErr, DeliverStart
<1>10. ASSUME NEW c \in Conns, DeliverEnd(c) \/ Break(c) \/ \E o \in Readers : Deliver(c, o)
       PROVE  PcType'
  BY <1>10 DEF DeliverEnd, Break, Deliver
<1>11. ASSUME NEW o \in Readers, NewEventChannel(o) \/ Read(o) \/ CloseEventChannel(o) PROVE PcType'
  BY <1>11 DEF NewEventChannel, Read, CloseEventChannel
<1> QED
  BY <1>1, <1>2, <1>3, <1>4, <1>5, <1>6, <1>7, <1>8, <1>9, <1>10, <1>11, <1>z, ClientSteps

\* The steps that leave a group alone.
LEMMA Quiet ==
  ASSUME [Next]_vars
  PROVE  /\ \/ UNCHANGED <<asks, todo, watching, sent>>
            \/ Reply \/ Record \/ Exit \/ \E u \in Users : TakeUser(u) \/ \E r \in Asks : Call(u, r)
            \/ \E c \in Conns : TakeRewatch(c) \/ StartRewatch(c)
         /\ \/ UNCHANGED <<cur, alive, srv>>
            \/ Connect \/ Exit \/ \E u \in Users : TakeUser(u)
            \/ \E c \in Conns : TakeRewatch(c) \/ Break(c)
         /\ \/ UNCHANGED <<on, left, chan>>
            \/ \E c \in Conns : Loop(c) \/ DeliverStart(c) \/ \E o \in Readers : Deliver(c, o)
            \/ \E o \in Readers : NewEventChannel(o) \/ Read(o) \/ CloseEventChannel(o)
         /\ \/ UNCHANGED <<readers, writer>>
            \/ Reply \/ Record \/ CloseClient
            \/ \E g \in {Bg, Closer} \cup {Reader(o) : o \in Readers} : Waits(g)
            \/ \E c \in Conns : StartRewatch(c) \/ DeliverStart(c) \/ DeliverEnd(c)
            \/ \E o \in Readers : NewEventChannel(o) \/ CloseEventChannel(o)
         /\ \/ UNCHANGED <<closing, counts>>
            \/ CloseClient \/ \E u \in Users, r \in Asks : Call(u, r)
            \/ \E c \in Conns : RecvEvent(c) \/ Break(c)
<1> USE DEF net, calls, inbox, lock
<1>1. CASE UNCHANGED vars
  BY <1>1 DEF vars
<1>2. CASE Connect \/ ConnectFails \/ Reply \/ Record \/ Exit \/ CloseClient
  BY <1>2 DEF Connect, ConnectFails, Reply, Record, Exit, CloseClient
<1>3. CASE \/ \E g \in {Closer} \cup {Receive(c) : c \in Conns} : TakeClose(g)
           \/ \E g \in Callers : SendOnClosed(g)
  BY <1>3 DEF TakeClose, SendOnClosed, Callers
<1>4. CASE \E g \in {Bg, Closer} \cup {Reader(o) : o \in Readers} : Waits(g)
  BY <1>4 DEF Waits, WantLock
<1>5. CASE \E u \in Users : TakeUser(u) \/ \E r \in Asks : Call(u, r)
  BY <1>5 DEF TakeUser, SendRequest, Call
<1>6. CASE \E c \in Conns : \/ TakeRewatch(c) \/ StartRewatch(c)
                            \/ Loop(c) \/ RecvEvent(c) \/ RecvErr(c)
  BY <1>6 DEF TakeRewatch, SendRequest, StartRewatch, Loop, RecvEvent, RecvErr
<1>7. CASE \E c \in Conns : \/ DeliverStart(c) \/ DeliverEnd(c) \/ Break(c)
                            \/ \E o \in Readers : Deliver(c, o)
  BY <1>7 DEF DeliverStart, DeliverEnd, Break, Deliver
<1>8. CASE \E o \in Readers : NewEventChannel(o) \/ Read(o) \/ CloseEventChannel(o)
  BY <1>8 DEF NewEventChannel, Read, CloseEventChannel
<1> QED
  BY <1>1, <1>2, <1>3, <1>4, <1>5, <1>6, <1>7, <1>8, ClientSteps

\* A request that a user makes, and what bg then has sent, is one of Requests.
LEMMA RequestTypes ==
  ASSUME ClientInv
  PROVE  /\ \A u \in Users : pc[User(u)] = "req" => asks[u] \in Requests
         /\ AtRequest => sent.req \in Requests
         /\ \A n \in Names : RewatchRequest(n) \in Requests
         /\ \A r \in Requests : Name(r) \in Names
         /\ \A r \in Requests : \A S \in SUBSET [name : Names, prefix : BOOLEAN] :
              Watched(S, r) \in SUBSET [name : Names, prefix : BOOLEAN]
<1>1. Asks \subseteq Requests
  BY AsksAssumption DEF Requests, Names
<1>2. \A r \in Requests : Name(r) \in Names
  BY DEF Requests, Names, Name
<1>3. \A n \in Names : RewatchRequest(n) \in Requests
  BY DEF Requests, Names, RewatchRequest
<1>4. \A r \in Requests : \A S \in SUBSET [name : Names, prefix : BOOLEAN] :
        Watched(S, r) \in SUBSET [name : Names, prefix : BOOLEAN]
  BY DEF Requests, Watched
<1> QED
  BY <1>1, <1>2, <1>3, <1>4 DEF ClientInv, Placed

\* What bg sends on behalf of a goroutine.
LEMMA SendEffect ==
  ASSUME ClientInv, NEW g \in Callers, NEW r \in Requests, SendRequest(g, r)
  PROVE  /\ pc[Bg] = "select" /\ pc[g] = "req" /\ pc' = [pc EXCEPT ![Bg] = "reply", ![g] = "res"]
         /\ sent'.from = g /\ sent'.req = r /\ sent'.ok \in BOOLEAN /\ (sent'.ok \/ ~alive[cur])
         /\ sent' \in [from : Callers \cup {Nobody}, req : Requests \cup {NoAsk}, ok : BOOLEAN]
         /\ srv' = IF alive[cur] THEN [srv EXCEPT ![cur] = Watched(@, r)] ELSE srv
         /\ cur' = cur /\ alive' = alive /\ asks' = asks /\ todo' = todo /\ watching' = watching
         /\ on' = on /\ left' = left /\ chan' = chan /\ readers' = readers /\ writer' = writer
         /\ closing' = closing /\ counts' = counts
<1>0. NetType /\ cur \in Conns
  BY TypeParts DEF SendRequest, ClientInv, Placed
<1>1. PICK ok \in {TRUE, alive[cur]} : sent' = [from |-> g, req |-> r, ok |-> ok]
  BY DEF SendRequest
<1>2. CASE ok = TRUE
  BY <1>1, <1>2 DEF SendRequest, inbox, lock
<1>3. CASE ok = alive[cur]
  BY <1>0, <1>1, <1>3 DEF SendRequest, inbox, lock, NetType
<1> QED
  BY <1>1, <1>2, <1>3

\* Every step keeps every type.
LEMMA CallStep == ASSUME ClientInv, [Next]_vars PROVE CallType'
<1>0. PcType /\ CallType /\ NetType
  BY TypeParts DEF ClientInv
<1> USE DEF CallType
<1>1. CASE UNCHANGED <<asks, todo, watching, sent>>
  BY <1>0, <1>1
<1>2. CASE Reply
  BY <1>0, <1>2 DEF Reply, Released
<1>3. CASE Record
  <2>1. Name(sent.req) \in Names
    BY <1>0, <1>3, RequestTypes DEF Record, AtRequest
  <2>2. NoSend \in [from : Callers \cup {Nobody}, req : Requests \cup {NoAsk}, ok : BOOLEAN]
    BY DEF NoSend
  <2> QED
    BY <1>0, <1>3, <2>1, <2>2 DEF Record
<1>4. CASE Exit
  <2>1. NoSend \in [from : Callers \cup {Nobody}, req : Requests \cup {NoAsk}, ok : BOOLEAN]
    BY DEF NoSend
  <2> QED
    BY <1>0, <1>4, <2>1 DEF Exit
<1>5. ASSUME NEW u \in Users, TakeUser(u) PROVE CallType'
  <2>1. asks[u] \in Requests
    BY <1>0, <1>5, RequestTypes DEF TakeUser, SendRequest
  <2> QED
    BY <1>0, <1>5, <2>1, SendEffect, Apart DEF TakeUser
<1>6. ASSUME NEW u \in Users, NEW r \in Asks, Call(u, r) PROVE CallType'
  <2>1. r \in Requests
    BY AsksAssumption DEF Requests, Names
  <2> QED
    BY <1>0, <1>6, <2>1 DEF Call
<1>7. ASSUME NEW c \in Conns, TakeRewatch(c) PROVE CallType'
  <2>1. PICK n \in todo[c] : SendRequest(Rewatch(c), RewatchRequest(n))
    BY <1>7 DEF TakeRewatch
  <2>2. RewatchRequest(n) \in Requests
    BY <1>0, RequestTypes
  <2> QED
    BY <1>0, <2>1, <2>2, SendEffect, Apart
<1>8. ASSUME NEW c \in Conns, StartRewatch(c) PROVE CallType'
  BY <1>0, <1>8 DEF StartRewatch
<1> QED
  BY <1>1, <1>2, <1>3, <1>4, <1>5, <1>6, <1>7, <1>8, Quiet

\* Connections and what their servers watch.
LEMMA NetStep == ASSUME ClientInv, [Next]_vars PROVE NetType'
<1>0. PcType /\ CallType /\ NetType
  BY TypeParts DEF ClientInv
<1>a. \A g \in Callers, r \in Requests : SendRequest(g, r) => NetType'
  <2>1. SUFFICES ASSUME NEW g \in Callers, NEW r \in Requests, SendRequest(g, r) PROVE NetType'
    OBVIOUS
  <2>2. cur \in Conns
    BY <2>1, SendEffect DEF ClientInv, Placed
  <2>3. Watched(srv[cur], r) \in SUBSET [name : Names, prefix : BOOLEAN]
    BY <1>0, <2>2, RequestTypes DEF NetType
  <2> QED
    BY <1>0, <2>1, <2>2, <2>3, SendEffect DEF NetType
<1>1. CASE UNCHANGED <<cur, alive, srv>>
  BY <1>0, <1>1 DEF NetType
<1>2. CASE Connect
  <2>1. cur + 1 \in 0 .. MaxConns
    BY <1>0, <1>2, BoundsAssumption DEF Connect, NetType
  <2> QED
    BY <1>0, <1>2, <2>1 DEF Connect, NetType
<1>b. CASE Exit
  BY <1>0, <1>b DEF Exit, NetType
<1>3. ASSUME NEW u \in Users, TakeUser(u) PROVE NetType'
  <2>1. asks[u] \in Requests
    BY <1>0, <1>3, RequestTypes DEF TakeUser, SendRequest
  <2> QED
    BY <1>3, <1>a, <2>1, Apart DEF TakeUser
<1>4. ASSUME NEW c \in Conns, TakeRewatch(c) PROVE NetType'
  <2>1. PICK n \in todo[c] : SendRequest(Rewatch(c), RewatchRequest(n))
    BY <1>4 DEF TakeRewatch
  <2>2. RewatchRequest(n) \in Requests
    BY <1>0, RequestTypes DEF CallType
  <2> QED
    BY <1>a, <2>1, <2>2, Apart
<1>5. ASSUME NEW c \in Conns, Break(c) PROVE NetType'
  BY <1>0, <1>5 DEF Break, NetType
<1> QED
  BY <1>1, <1>2, <1>b, <1>3, <1>4, <1>5, Quiet

\* Receivers and channels: a receiver sends only when there is room.
LEMMA InboxStep == ASSUME InboxType, cur \in 0 .. MaxConns, [Next]_vars PROVE InboxType'
<1> USE BoundsAssumption DEF InboxType, net, calls, lock
<1>1. CASE UNCHANGED <<on, left, chan>>
  BY <1>1
<1>2. ASSUME NEW c \in Conns, Loop(c) \/ DeliverStart(c) PROVE InboxType'
  BY <1>2 DEF Loop, DeliverStart, Open
<1>3. ASSUME NEW c \in Conns, NEW o \in Readers, Deliver(c, o) PROVE InboxType'
  <2>1. [chan[o] EXCEPT !.events = @ + 1] \in [open : BOOLEAN, events : 0 .. Capacity]
    BY <1>3 DEF Deliver
  <2> QED
    BY <1>3, <2>1 DEF Deliver
<1>4. ASSUME NEW o \in Readers, Read(o) PROVE InboxType'
  <2>1. [chan[o] EXCEPT !.events = @ - 1] \in [open : BOOLEAN, events : 0 .. Capacity]
    BY <1>4 DEF Read
  <2> QED
    BY <1>4, <2>1 DEF Read
<1>5. ASSUME NEW o \in Readers, NewEventChannel(o) \/ CloseEventChannel(o) PROVE InboxType'
  <2>1. \A b \in BOOLEAN : [chan[o] EXCEPT !.open = b] \in [open : BOOLEAN, events : 0 .. Capacity]
    OBVIOUS
  <2> QED
    BY <1>5, <2>1 DEF NewEventChannel, CloseEventChannel
<1> QED
  BY <1>1, <1>2, <1>3, <1>4, <1>5, Quiet

\* Only goroutines read and write under the lock.
LEMMA LockStep == ASSUME LockType, [Next]_vars PROVE LockType'
<1> USE Apart DEF LockType, RLock, RUnlock, Announce, Unlock, lock
<1>1. CASE UNCHANGED <<readers, writer>>
  BY <1>1
<1>2. CASE Reply \/ Record \/ CloseClient
  BY <1>2 DEF Reply, Record, CloseClient
<1>3. ASSUME NEW g \in {Bg, Closer} \cup {Reader(o) : o \in Readers}, Waits(g) PROVE LockType'
  BY <1>3 DEF Waits, WantLock
<1>4. ASSUME NEW c \in Conns, StartRewatch(c) \/ DeliverStart(c) \/ DeliverEnd(c) PROVE LockType'
  BY <1>4 DEF StartRewatch, DeliverStart, DeliverEnd
<1>5. ASSUME NEW o \in Readers, NewEventChannel(o) \/ CloseEventChannel(o) PROVE LockType'
  BY <1>5 DEF NewEventChannel, CloseEventChannel
<1> QED
  BY <1>1, <1>2, <1>3, <1>4, <1>5, Quiet

\* The bounds are kept.
LEMMA EndStep == ASSUME EndType, [Next]_vars PROVE EndType'
<1> USE BoundsAssumption DEF EndType
<1>1. CASE UNCHANGED <<closing, counts>>
  BY <1>1
<1>2. CASE CloseClient
  BY <1>2 DEF CloseClient
<1>3. ASSUME NEW u \in Users, NEW r \in Asks, Call(u, r) PROVE EndType'
  BY <1>3 DEF Call
<1>4. ASSUME NEW c \in Conns, RecvEvent(c) PROVE EndType'
  BY <1>4 DEF RecvEvent
<1>5. ASSUME NEW c \in Conns, Break(c) PROVE EndType'
  BY <1>5 DEF Break
<1> QED
  BY <1>1, <1>2, <1>3, <1>4, <1>5, Quiet

\* All groups together.
LEMMA TypeStep == ASSUME ClientInv, [Next]_vars PROVE TypeOK' /\ Serving'
<1>1. PcType /\ CallType /\ NetType /\ InboxType /\ LockType /\ EndType
  BY TypeParts DEF ClientInv
<1>2. PcType' /\ CallType' /\ NetType' /\ InboxType' /\ LockType' /\ EndType'
  BY <1>1, PcStep, CallStep, NetStep, InboxStep, LockStep, EndStep DEF NetType
<1>3. (TypeOK /\ Serving)' <=> (PcType /\ CallType /\ NetType /\ InboxType /\ LockType /\ EndType)'
  BY TypeParts, PTL
<1> QED
  BY <1>2, <1>3

\* Everybody goes on from where it is with what it has in its hands.
LEMMA PlacedStep == ASSUME ClientInv, [Next]_vars PROVE Placed'
<1>0. PcType /\ CallType /\ NetType /\ Placed
  BY TypeParts DEF ClientInv
<1> USE Apart DEF PcType, Placed, AtRequest, Move, net, calls, inbox, lock
<1>a. ASSUME NEW g \in Callers, NEW r \in Requests, SendRequest(g, r),
             \A c \in Conns : g = Rewatch(c) => ~r.cancel
      PROVE  Placed'
  <2>1. /\ pc[Bg] = "select" /\ pc' = [pc EXCEPT ![Bg] = "reply", ![g] = "res"]
        /\ sent'.from = g /\ sent'.req = r /\ asks' = asks /\ cur' = cur
    BY <1>a, SendEffect
  <2>2. g \in Goroutines
    BY DEF Goroutines
  <2> QED
    BY <1>0, <1>a, <2>1, <2>2
<1>1. CASE UNCHANGED vars
  BY <1>0, <1>1 DEF vars
<1>2. CASE Connect
  <2>1. cur + 1 \in Conns
    BY <1>0, <1>2, BoundsAssumption DEF Connect, NetType, Conns
  <2> QED
    BY <1>0, <1>2, <2>1 DEF Connect
<1>3. CASE ConnectFails
  BY <1>0, <1>3 DEF ConnectFails
<1>4. CASE Exit
  <2>1. \A c \in Conns : NoSend.from # Rewatch(c)
    BY DEF NoSend, Nobody, Rewatch
  <2> QED
    BY <1>0, <1>4, <2>1 DEF Exit
<1>5. CASE Reply
  <2>1. CASE \E u \in Users : sent.from = User(u)
    BY <1>0, <1>5, <2>1 DEF Reply, CallType
  <2>2. CASE \E c \in Conns : sent.from = Rewatch(c)
    BY <1>0, <1>5, <2>2 DEF Reply
  <2> QED
    BY <1>5, <2>1, <2>2 DEF Reply
<1>6. CASE Record
  <2>1. \A c \in Conns : NoSend.from # Rewatch(c)
    BY DEF NoSend, Nobody, Rewatch
  <2> QED
    BY <1>0, <1>6, <2>1 DEF Record
<1>7. CASE CloseClient
  BY <1>0, <1>7 DEF CloseClient
<1>8. ASSUME NEW g \in {Closer} \cup {Receive(c) : c \in Conns}, TakeClose(g) PROVE Placed'
  BY <1>0, <1>8 DEF TakeClose
<1>z. ASSUME NEW g \in Callers, SendOnClosed(g) PROVE Placed'
  BY <1>0, <1>z DEF SendOnClosed, Callers
<1>9. ASSUME NEW g \in {Bg, Closer} \cup {Reader(o) : o \in Readers}, Waits(g) PROVE Placed'
  BY <1>0, <1>9 DEF Waits, WantLock
<1>10. ASSUME NEW u \in Users, TakeUser(u) PROVE Placed'
  <2>1. asks[u] \in Requests
    BY <1>10, RequestTypes DEF TakeUser, SendRequest
  <2> QED
    BY <1>10, <1>a, <2>1 DEF TakeUser
<1>11. ASSUME NEW u \in Users, NEW r \in Asks, Call(u, r) PROVE Placed'
  BY <1>0, <1>11 DEF Call, CallType
<1>12. ASSUME NEW c \in Conns, TakeRewatch(c) PROVE Placed'
  <2>1. PICK n \in todo[c] : SendRequest(Rewatch(c), RewatchRequest(n))
    BY <1>12 DEF TakeRewatch
  <2>2. RewatchRequest(n) \in Requests /\ ~RewatchRequest(n).cancel
    BY <1>0, RequestTypes DEF CallType, RewatchRequest
  <2> QED
    BY <1>a, <2>1, <2>2
<1>13. ASSUME NEW c \in Conns, StartRewatch(c) \/ Loop(c) \/ RecvEvent(c) \/ RecvErr(c)
       PROVE  Placed'
  BY <1>0, <1>13 DEF StartRewatch, Loop, RecvEvent, RecvErr
<1>14. ASSUME NEW c \in Conns, DeliverStart(c) \/ DeliverEnd(c) PROVE Placed'
  BY <1>0, <1>14 DEF DeliverStart, DeliverEnd
<1>15. ASSUME NEW c \in Conns, Break(c) \/ \E o \in Readers : Deliver(c, o) PROVE Placed'
  BY <1>0, <1>15 DEF Break, Deliver
<1>16. ASSUME NEW o \in Readers, NewEventChannel(o) \/ Read(o) \/ CloseEventChannel(o) PROVE Placed'
  BY <1>0, <1>16 DEF NewEventChannel, Read, CloseEventChannel
<1> QED
  BY <1>1, <1>2, <1>3, <1>4, <1>5, <1>6, <1>7, <1>8, <1>9, <1>10, <1>11, <1>12, <1>13,
     <1>14, <1>15, <1>16, <1>z, ClientSteps

\* Only bg's answer moves a goroutine on that waits for it.
LEMMA AwaitedStep == ASSUME ClientInv, [Next]_vars PROVE Awaited'
<1>0. PcType /\ CallType /\ Placed /\ Awaited
  BY TypeParts DEF ClientInv
<1> DEFINE Waiting == \A x \in Goroutines : pc[x] = "res" => pc'[x] = "res"
           Alone   == Waiting /\ (pc'[Bg] = "reply" => pc[Bg] = "reply" /\ sent' = sent)
<1>a. Alone => Awaited'
  BY <1>0 DEF Awaited, Placed, AtRequest, Callers, Goroutines
<1>b. ASSUME NEW g \in Callers, NEW r \in Requests, SendRequest(g, r) PROVE Awaited'
  <2>1. g \in Goroutines /\ g # Bg
    BY Apart DEF Callers, Goroutines
  <2> QED
    BY <1>0, <1>b, <2>1, Apart, SendEffect DEF Awaited, PcType
<1> USE Apart DEF PcType, Move, net, calls, inbox, lock
<1>1. CASE UNCHANGED vars
  BY <1>1, <1>a DEF vars
<1>2. CASE Connect \/ ConnectFails \/ Exit
  <2>1. pc'[Bg] # "reply"
    BY <1>0, <1>2 DEF Connect, ConnectFails, Exit, Conns
  <2> QED
    BY <2>1 DEF Awaited
<1>3. CASE Reply \/ Record
  <2>1. pc'[Bg] # "reply"
    BY <1>0, <1>3 DEF Reply, Record
  <2> QED
    BY <2>1 DEF Awaited
<1>4. CASE CloseClient
  BY <1>0, <1>4, <1>a DEF CloseClient
<1>5. ASSUME NEW g \in {Closer} \cup {Receive(c) : c \in Conns}, TakeClose(g) PROVE Awaited'
  BY <1>0, <1>5, <1>a DEF TakeClose
<1>6. ASSUME NEW g \in Callers, SendOnClosed(g) PROVE Awaited'
  BY <1>0, <1>6, <1>a DEF SendOnClosed, Callers
<1>7. ASSUME NEW g \in {Bg, Closer} \cup {Reader(o) : o \in Readers}, Waits(g) PROVE Awaited'
  BY <1>0, <1>7, <1>a DEF Waits, WantLock
<1>8. ASSUME NEW u \in Users, TakeUser(u) PROVE Awaited'
  <2>1. asks[u] \in Requests
    BY <1>8, RequestTypes DEF TakeUser, SendRequest
  <2> QED
    BY <1>8, <1>b, <2>1 DEF TakeUser
<1>9. ASSUME NEW u \in Users, NEW r \in Asks, Call(u, r) PROVE Awaited'
  BY <1>0, <1>9, <1>a DEF Call
<1>10. ASSUME NEW c \in Conns, TakeRewatch(c) PROVE Awaited'
  <2>1. PICK n \in todo[c] : SendRequest(Rewatch(c), RewatchRequest(n))
    BY <1>10 DEF TakeRewatch
  <2>2. RewatchRequest(n) \in Requests
    BY <1>0, RequestTypes DEF CallType
  <2> QED
    BY <1>b, <2>1, <2>2
<1>11. ASSUME NEW c \in Conns, StartRewatch(c) \/ Loop(c) PROVE Awaited'
  BY <1>0, <1>11, <1>a DEF StartRewatch, Loop
<1>12. ASSUME NEW c \in Conns, RecvEvent(c) \/ RecvErr(c) \/ Break(c) PROVE Awaited'
  BY <1>0, <1>12, <1>a DEF RecvEvent, RecvErr, Break
<1>13. ASSUME NEW c \in Conns, DeliverStart(c) \/ DeliverEnd(c) \/ \E o \in Readers : Deliver(c, o)
       PROVE  Awaited'
  BY <1>0, <1>13, <1>a DEF DeliverStart, DeliverEnd, Deliver
<1>14. ASSUME NEW o \in Readers, NewEventChannel(o) \/ Read(o) \/ CloseEventChannel(o)
       PROVE  Awaited'
  BY <1>0, <1>14, <1>a DEF NewEventChannel, Read, CloseEventChannel
<1> QED
  BY <1>1, <1>2, <1>3, <1>4, <1>5, <1>6, <1>7, <1>8, <1>9, <1>10, <1>11, <1>12, <1>13, <1>14,
     ClientSteps

\* Only a receiver itself gives its read lock up, and only a writer that has no
\* readers beside it closes a channel.
LEMMA DeliveringStep == ASSUME ClientInv, [Next]_vars PROVE Delivering'
<1>0. PcType /\ InboxType /\ LockType /\ Delivering
  BY TypeParts DEF ClientInv
<1> USE Apart DEF PcType, Delivering, Move, Open, net, calls, inbox, lock
<1>1. CASE UNCHANGED vars
  BY <1>0, <1>1 DEF vars
<1>2. CASE Connect
  BY <1>0, <1>2 DEF Connect, Conns
<1>3. CASE ConnectFails \/ Exit
  BY <1>0, <1>3 DEF ConnectFails, Exit
<1>4. CASE Reply
  BY <1>0, <1>4 DEF Reply, RUnlock
<1>5. CASE Record \/ CloseClient
  BY <1>0, <1>5 DEF Record, CloseClient, HasLock, Unlock
<1>6. ASSUME NEW g \in {Closer} \cup {Receive(c) : c \in Conns}, TakeClose(g) PROVE Delivering'
  BY <1>0, <1>6 DEF TakeClose
<1>z. ASSUME NEW g \in Callers, SendOnClosed(g) PROVE Delivering'
  BY <1>0, <1>z DEF SendOnClosed, Callers
<1>7. ASSUME NEW g \in {Bg, Closer} \cup {Reader(o) : o \in Readers}, Waits(g) PROVE Delivering'
  BY <1>0, <1>7 DEF Waits, WantLock, Announce
<1>8. ASSUME NEW g \in Callers, NEW r, SendRequest(g, r) PROVE Delivering'
  <2>1. g \in Goroutines /\ g # Bg /\ \A c \in Conns : g # Receive(c)
    BY DEF Callers, Goroutines
  <2> QED
    BY <1>0, <1>8, <2>1 DEF SendRequest
<1>9. ASSUME NEW u \in Users, TakeUser(u) \/ \E r \in Asks : Call(u, r) PROVE Delivering'
  BY <1>0, <1>8, <1>9 DEF TakeUser, Call
<1>10. ASSUME NEW c \in Conns, TakeRewatch(c) \/ StartRewatch(c) PROVE Delivering'
  BY <1>0, <1>8, <1>10 DEF TakeRewatch, StartRewatch, RLock
<1>11. ASSUME NEW c \in Conns, Loop(c) \/ RecvEvent(c) \/ RecvErr(c) \/ Break(c) PROVE Delivering'
  BY <1>0, <1>11 DEF Loop, RecvEvent, RecvErr, Break
<1>12. ASSUME NEW c \in Conns, DeliverStart(c) PROVE Delivering'
  BY <1>0, <1>12 DEF DeliverStart, RLock, InboxType
<1>13. ASSUME NEW c \in Conns, DeliverEnd(c) PROVE Delivering'
  BY <1>0, <1>13 DEF DeliverEnd, RUnlock
<1>14. ASSUME NEW c \in Conns, NEW o \in Readers, Deliver(c, o) PROVE Delivering'
  BY <1>0, <1>14 DEF Deliver, InboxType
<1>15. ASSUME NEW o \in Readers, NewEventChannel(o) \/ Read(o) PROVE Delivering'
  BY <1>0, <1>15 DEF NewEventChannel, Read, HasLock, Unlock, InboxType
<1>16. ASSUME NEW o \in Readers, CloseEventChannel(o) PROVE Delivering'
  BY <1>0, <1>16 DEF CloseEventChannel, HasLock, Unlock
<1> QED
  BY <1>1, <1>2, <1>3, <1>4, <1>5, <1>6, <1>7, <1>9, <1>10, <1>11, <1>12, <1>13,
     <1>14, <1>15, <1>16, <1>z, ClientSteps

\* Every step keeps the invariant of the lock and the channels.
LEMMA ClientStep == ASSUME ClientInv, [Next]_vars PROVE ClientInv'
  BY TypeStep, PlacedStep, AwaitedStep, DeliveringStep DEF ClientInv

\* A goroutine, a lock and a channel are never in two states at once: every
\* variable of the client has its type, and a channel holds no more than fits.
THEOREM ClientTypes == Spec => []TypeOK
<1>1. ClientInv => TypeOK
  BY DEF ClientInv
<1>2. Init => ClientInv
  BY ClientInit DEF RewatchInv
<1> QED
  BY <1>1, <1>2, ClientStep, PTL DEF Spec

\* receiveProcess never sends on a channel that CloseEventChannel has closed:
\* the one holds the read lock as long as it has channels left, the other closes
\* under the write lock only.
THEOREM ChannelsOpen == Spec => []NoSendOnClosed
<1>1. ClientInv => NoSendOnClosed
  BY DEF ClientInv, Delivering, NoSendOnClosed
<1>2. Init => ClientInv
  BY ClientInit DEF RewatchInv
<1> QED
  BY <1>1, <1>2, ClientStep, PTL DEF Spec

-----------------------------------------------------------------------------
(* A rewatch that is through is complete.                                  *)

\* What a name without suffix stands for, and the request that rewatch makes.
LEMMA PlainMeaning ==
  ASSUME NEW n \in PlainNames
  PROVE  /\ n \in Names /\ Meaning(n) = [name |-> n, prefix |-> FALSE]
         /\ RewatchRequest(n) = [name |-> n, prefix |-> FALSE, cancel |-> FALSE]
         /\ \A r : r.name = n /\ ~r.prefix => Name(r) = n
<1>1. n \in Names /\ n[2] = 0
  BY DEF PlainNames, Names
<1>2. (n[2] > 0) = FALSE
  BY <1>1
<1> QED
  BY <1>1, <1>2 DEF Meaning, RewatchRequest, Name

\* A request that does not cancel adds its watch; one that cancels takes no other
\* watch away.
LEMMA WatchedAdds ==
  ASSUME NEW r \in Requests, NEW S, r.name \in PlainNames, ~r.prefix
  PROVE  /\ ~r.cancel => Meaning(r.name) \in Watched(S, r)
         /\ \A n \in PlainNames : Meaning(n) \in S /\ (r.cancel => n # r.name) =>
              Meaning(n) \in Watched(S, r)
<1>1. \A n \in PlainNames : Meaning(n) = [name |-> n, prefix |-> FALSE]
  BY PlainMeaning
<1>2. r.prefix = FALSE
  BY DEF Requests
<1>3. Watched(S, r) = IF r.cancel /\ Meaning(r.name) \in S THEN S \ {Meaning(r.name)}
                      ELSE S \cup {Meaning(r.name)}
  BY <1>1, <1>2 DEF Watched
<1>4. \A n \in PlainNames : Meaning(n) = Meaning(r.name) => n = r.name
  BY <1>1
<1> QED
  BY <1>3, <1>4

\* No name gets a suffix.
LEMMA PlainStep == ASSUME NoPrefixes, ClientInv, Plain, [Next]_vars PROVE Plain'
<1>0. PcType /\ CallType /\ NetType /\ Placed
  BY TypeParts DEF ClientInv
<1> USE Apart DEF PcType, Plain, AtRequest, Move, net, calls, inbox, lock
<1>a. ASSUME NEW g \in Callers, NEW r \in Requests, SendRequest(g, r),
             r.name \in PlainNames, ~r.prefix
      PROVE  Plain'
  BY <1>0, <1>a, SendEffect
<1>1. CASE UNCHANGED vars
  BY <1>1 DEF vars
<1>2. CASE Connect \/ ConnectFails \/ Exit \/ CloseClient
  BY <1>0, <1>2 DEF Connect, ConnectFails, Exit, CloseClient
<1>3. CASE Reply
  BY <1>0, <1>3 DEF Reply, Released, CallType
<1>4. CASE Record
  <2>1. Name(sent.req) \in PlainNames
    BY <1>4, PlainMeaning DEF Record
  <2> QED
    BY <1>0, <1>4, <2>1 DEF Record
<1>5. ASSUME NEW g \in {Closer} \cup {Receive(c) : c \in Conns}, TakeClose(g) PROVE Plain'
  BY <1>0, <1>5 DEF TakeClose
<1>z. ASSUME NEW g \in Callers, SendOnClosed(g) PROVE Plain'
  BY <1>0, <1>z DEF SendOnClosed, Callers
<1>6. ASSUME NEW g \in {Bg, Closer} \cup {Reader(o) : o \in Readers}, Waits(g) PROVE Plain'
  BY <1>0, <1>6 DEF Waits, WantLock
<1>7. ASSUME NEW u \in Users, TakeUser(u) PROVE Plain'
  <2>1. asks[u] \in Asks /\ asks[u] \in Requests
    BY <1>0, <1>7, RequestTypes DEF TakeUser, SendRequest, Placed
  <2>2. asks[u].name \in PlainNames /\ ~asks[u].prefix
    BY <2>1, AsksAssumption DEF NoPrefixes, PlainNames
  <2> QED
    BY <1>7, <1>a, <2>1, <2>2 DEF TakeUser
<1>8. ASSUME NEW u \in Users, NEW r \in Asks, Call(u, r) PROVE Plain'
  BY <1>0, <1>8 DEF Call
<1>9. ASSUME NEW c \in Conns, TakeRewatch(c) PROVE Plain'
  <2>1. PICK n \in todo[c] : SendRequest(Rewatch(c), RewatchRequest(n))
    BY <1>9 DEF TakeRewatch
  <2>2. /\ RewatchRequest(n) \in Requests /\ RewatchRequest(n).name \in PlainNames
        /\ ~RewatchRequest(n).prefix
    BY RequestTypes, PlainMeaning
  <2> QED
    BY <1>a, <2>1, <2>2
<1>10. ASSUME NEW c \in Conns, StartRewatch(c) PROVE Plain'
  BY <1>0, <1>10 DEF StartRewatch, CallType
<1>11. ASSUME NEW c \in Conns, Loop(c) \/ RecvEvent(c) \/ RecvErr(c) \/ Break(c) PROVE Plain'
  BY <1>0, <1>11 DEF Loop, RecvEvent, RecvErr, Break
<1>12. ASSUME NEW c \in Conns, DeliverStart(c) \/ DeliverEnd(c) \/ \E o \in Readers : Deliver(c, o)
       PROVE  Plain'
  BY <1>0, <1>12 DEF DeliverStart, DeliverEnd, Deliver
<1>13. ASSUME NEW o \in Readers, NewEventChannel(o) \/ Read(o) \/ CloseEventChannel(o) PROVE Plain'
  BY <1>0, <1>13 DEF NewEventChannel, Read, CloseEventChannel
<1> QED
  BY <1>1, <1>2, <1>3, <1>4, <1>5, <1>6, <1>7, <1>8, <1>9, <1>10, <1>11, <1>12, <1>13, <1>z,
     ClientSteps

\* The steps that a rewatch does not notice.
Beside ==
  /\ cur' = cur /\ srv' = srv /\ watching' = watching /\ todo' = todo
  /\ \A c \in Conns : /\ alive'[c] => alive[c]
                      /\ pc'[Rewatch(c)] = "panic" \/ pc'[Rewatch(c)] = pc[Rewatch(c)]
  /\ AtRequest' => AtRequest /\ sent' = sent
  /\ pc'[Bg] = "select" => pc[Bg] = "select"

\* They keep what is said of a rewatch.
LEMMA BesideKeeps ==
  ASSUME ClientInv, Beside, Through, Complete
  PROVE  Through' /\ Complete'
<1>1. Through'
  BY DEF Through, Beside
<1>2. \A n : Meaning(n) \in srv'[cur'] <=> Told(n)
  BY DEF Told, Beside
<1>3. SUFFICES ASSUME pc'[Bg] = "select" \/ AtRequest', alive'[cur']
               PROVE  /\ AtRequest' /\ ~sent'.req.cancel =>
                           Meaning(sent'.req.name) \in srv'[cur']
                      /\ pc'[Rewatch(cur')] \in {"req", "res", "done"} =>
                           \A n \in watching' :
                             \/ Meaning(n) \in srv'[cur'] \/ n \in todo'[cur']
                             \/ AtRequest' /\ sent'.req.cancel /\ n = sent'.req.name
  BY <1>1 DEF Complete, Told
<1>4. (pc[Bg] = "select" \/ AtRequest) /\ cur \in Conns
  BY <1>3 DEF Beside, ClientInv, Placed
<1>5. alive[cur] /\ (AtRequest <=> AtRequest')
  BY <1>3, <1>4 DEF Beside, AtRequest
<1> QED
  BY <1>2, <1>3, <1>4, <1>5 DEF Complete, Beside

\* All but a few steps are of this kind.
LEMMA BesideSteps ==
  ASSUME ClientInv, [Next]_vars
  PROVE  \/ Beside
         \/ Connect \/ Reply \/ Record \/ \E u \in Users : TakeUser(u)
         \/ \E c \in Conns : TakeRewatch(c) \/ StartRewatch(c)
<1>0. PcType /\ NetType
  BY TypeParts DEF ClientInv
<1> USE Apart DEF PcType, NetType, Beside, AtRequest, Move, net, calls, inbox, lock
<1>1. CASE UNCHANGED vars
  BY <1>1 DEF vars
<1>2. CASE ConnectFails \/ Exit \/ CloseClient
  BY <1>0, <1>2 DEF ConnectFails, Exit, CloseClient
<1>3. ASSUME NEW g \in {Closer} \cup {Receive(c) : c \in Conns}, TakeClose(g) PROVE Beside
  BY <1>0, <1>3 DEF TakeClose
<1>4. ASSUME NEW g \in Callers, SendOnClosed(g) PROVE Beside
  BY <1>0, <1>4 DEF SendOnClosed, Callers
<1>5. ASSUME NEW g \in {Bg, Closer} \cup {Reader(o) : o \in Readers}, Waits(g) PROVE Beside
  <2>1. g \in Goroutines /\ \A c \in Conns : g # Rewatch(c)
    OBVIOUS
  <2>2. CASE g = Bg
    BY <1>0, <1>5, <2>2 DEF Waits, WantLock
  <2>3. CASE g # Bg
    BY <1>0, <1>5, <2>1, <2>3 DEF Waits, WantLock
  <2> QED
    BY <2>2, <2>3
<1>6. ASSUME NEW u \in Users, NEW r \in Asks, Call(u, r) PROVE Beside
  BY <1>0, <1>6 DEF Call
<1>7. ASSUME NEW c \in Conns, Loop(c) \/ RecvEvent(c) \/ RecvErr(c) PROVE Beside
  BY <1>0, <1>7 DEF Loop, RecvEvent, RecvErr
<1>8. ASSUME NEW c \in Conns, Break(c) PROVE Beside
  BY <1>0, <1>8 DEF Break
<1>9. ASSUME NEW c \in Conns, DeliverStart(c) \/ DeliverEnd(c) \/ \E o \in Readers : Deliver(c, o)
      PROVE  Beside
  BY <1>0, <1>9 DEF DeliverStart, DeliverEnd, Deliver
<1>10. ASSUME NEW o \in Readers, NewEventChannel(o) \/ Read(o) \/ CloseEventChannel(o) PROVE Beside
  <2>1. Reader(o) \in Goroutines /\ Reader(o) # Bg /\ \A c \in Conns : Reader(o) # Rewatch(c)
    OBVIOUS
  <2> QED
    BY <1>0, <1>10, <2>1 DEF NewEventChannel, Read, CloseEventChannel
<1> QED
  BY <1>1, <1>2, <1>3, <1>4, <1>5, <1>6, <1>7, <1>8, <1>9, <1>10, ClientSteps

\* A request that is sent is told to the server at once, if the connection lives.
LEMMA SendCompletes ==
  ASSUME ClientInv, Plain, Through, Complete, NEW g \in Callers, NEW r \in Requests,
         SendRequest(g, r), r.name \in PlainNames, ~r.prefix
  PROVE  Through' /\ Complete'
<1>0. PcType /\ CallType /\ NetType
  BY TypeParts DEF ClientInv
<1>1. /\ pc[Bg] = "select" /\ pc[g] = "req" /\ pc' = [pc EXCEPT ![Bg] = "reply", ![g] = "res"]
      /\ sent'.req = r /\ cur' = cur /\ alive' = alive /\ todo' = todo /\ watching' = watching
      /\ srv' = IF alive[cur] THEN [srv EXCEPT ![cur] = Watched(@, r)] ELSE srv
  BY SendEffect
<1>2. g \in Goroutines /\ g # Bg /\ cur \in Conns /\ AtRequest'
  BY <1>0, <1>1, Apart DEF Callers, Goroutines, ClientInv, Placed, AtRequest, PcType
<1>3. \A c \in Conns : pc'[Rewatch(c)] = pc[Rewatch(c)]
                      \/ (pc[Rewatch(c)] = "req" /\ pc'[Rewatch(c)] = "res")
  BY <1>0, <1>1, <1>2, Apart DEF PcType
<1>4. Through'
  BY <1>1, <1>3 DEF Through
<1>5. SUFFICES ASSUME alive[cur]
               PROVE  /\ ~r.cancel => Meaning(r.name) \in srv'[cur]
                      /\ pc'[Rewatch(cur)] \in {"req", "res", "done"} =>
                           \A n \in watching : \/ Meaning(n) \in srv'[cur] \/ n \in todo[cur]
                                               \/ r.cancel /\ n = r.name
  BY <1>1, <1>2, <1>4 DEF Complete, Told
<1>6. srv'[cur] = Watched(srv[cur], r)
  BY <1>0, <1>1, <1>2, <1>5 DEF NetType
<1>7. ~r.cancel => Meaning(r.name) \in srv'[cur]
  BY <1>6, WatchedAdds
<1>8. ASSUME pc'[Rewatch(cur)] \in {"req", "res", "done"}, NEW n \in watching
      PROVE  Meaning(n) \in srv'[cur] \/ n \in todo[cur] \/ (r.cancel /\ n = r.name)
  <2>1. Meaning(n) \in srv[cur] \/ n \in todo[cur]
    BY <1>1, <1>2, <1>3, <1>5, <1>8 DEF Complete, Told, AtRequest
  <2>2. n \in PlainNames
    BY DEF Plain
  <2> QED
    BY <1>6, <2>1, <2>2, WatchedAdds
<1> QED
  BY <1>7, <1>8

\* Every step keeps what is said of a rewatch: Record puts on record what the
\* server has been told of; a rewatch has every name of the map to send, and goes
\* on only after each is sent.
LEMMA CompleteStep ==
  ASSUME NoPrefixes, ClientInv, Plain, Through, Complete, [Next]_vars
  PROVE  Through' /\ Complete'
<1>0. PcType /\ CallType /\ NetType /\ Placed
  BY TypeParts DEF ClientInv
<1>1. CASE Beside
  BY <1>1, BesideKeeps
<1>2. CASE Connect
  <2>1. /\ pc' = [pc EXCEPT ![Bg] = "select", ![Rewatch(cur + 1)] = "start",
                            ![Receive(cur + 1)] = "loop"]
        /\ cur' = cur + 1 /\ cur + 1 \in Conns /\ todo' = todo
    BY <1>0, <1>2, BoundsAssumption DEF Connect, calls, NetType, Conns
  <2>2. /\ pc'[Bg] = "select" /\ pc'[Rewatch(cur + 1)] = "start"
        /\ \A c \in Conns : pc'[Rewatch(c)] = "start" \/ pc'[Rewatch(c)] = pc[Rewatch(c)]
    BY <1>0, <2>1, Apart DEF PcType
  <2> QED
    BY <2>1, <2>2 DEF Through, Complete, AtRequest
<1>3. CASE Reply
  <2>1. /\ cur' = cur /\ alive' = alive /\ srv' = srv /\ sent' = sent /\ watching' = watching
        /\ pc[Bg] = "reply" /\ AtRequest
    BY <1>3 DEF Reply, net, AtRequest
  <2>2. CASE \E u \in Users : sent.from = User(u)
    <3>1. PICK u \in Users : sent.from = User(u)
      BY <2>2
    <3>2. /\ todo' = todo
          /\ pc' = [pc EXCEPT ![Bg] = IF sent.ok THEN "record" ELSE "exit", ![User(u)] = "idle"]
      BY <1>3, <3>1, Apart DEF Reply
    <3>3. \A c \in Conns : pc'[Rewatch(c)] = pc[Rewatch(c)]
      BY <1>0, <3>2, Apart DEF PcType
    <3>4. pc'[Bg] \in {"record", "exit"}
      BY <1>0, <3>2, Apart DEF PcType
    <3>5. Beside
      BY <2>1, <3>2, <3>3, <3>4 DEF Beside
    <3> QED
      BY <3>5, BesideKeeps
  <2>3. CASE \E d \in Conns : sent.from = Rewatch(d)
    <3>1. PICK d \in Conns : sent.from = Rewatch(d)
      BY <2>3
    <3>2. /\ todo' = [todo EXCEPT ![d] = @ \ {sent.req.name}]
          /\ pc' = [pc EXCEPT ![Bg] = IF sent.ok THEN "record" ELSE "exit",
                              ![Rewatch(d)] = IF todo'[d] = {} THEN "done" ELSE "req"]
      BY <1>3, <3>1, Apart DEF Reply, Released
    <3>3. /\ \A c \in Conns : c # d => /\ pc'[Rewatch(c)] = pc[Rewatch(c)] /\ todo'[c] = todo[c]
          /\ pc'[Rewatch(d)] = IF todo'[d] = {} THEN "done" ELSE "req"
          /\ todo'[d] = todo[d] \ {sent.req.name}
          /\ pc'[Bg] \in {"record", "exit"}
      BY <1>0, <3>2, Apart DEF PcType, CallType
    <3>4. Through'
      BY <3>3 DEF Through
    <3>5. SUFFICES ASSUME AtRequest', alive[cur]
                   PROVE  /\ ~sent.req.cancel => Meaning(sent.req.name) \in srv[cur]
                          /\ pc'[Rewatch(cur)] \in {"req", "res", "done"} =>
                               \A n \in watching :
                                 \/ Meaning(n) \in srv[cur] \/ n \in todo'[cur]
                                 \/ sent.req.cancel /\ n = sent.req.name
      BY <2>1, <3>3, <3>4 DEF Complete, Told
    <3>6. Meaning(sent.req.name) \in srv[cur] /\ cur \in Conns
      BY <1>0, <2>1, <3>1, <3>5 DEF Complete, Told, Placed
    <3>7. pc[Rewatch(d)] = "res" /\ ~sent.req.cancel
      BY <1>0, <2>1, <3>1 DEF Placed, ClientInv, Awaited
    <3> QED
      BY <2>1, <3>3, <3>5, <3>6, <3>7 DEF Complete, Told
  <2> QED
    BY <1>3, <2>2, <2>3 DEF Reply
<1>4. CASE Record
  <2>1. /\ cur' = cur /\ alive' = alive /\ srv' = srv /\ todo' = todo
        /\ pc' = [pc EXCEPT ![Bg] = "select"] /\ AtRequest
        /\ watching' = IF sent.req.cancel THEN watching \ {Name(sent.req)}
                       ELSE watching \cup {Name(sent.req)}
    BY <1>4 DEF Record, Move, net, AtRequest
  <2>2. /\ \A c \in Conns : pc'[Rewatch(c)] = pc[Rewatch(c)]
        /\ pc'[Bg] = "select" /\ ~AtRequest' /\ Name(sent.req) = sent.req.name /\ cur \in Conns
    BY <1>0, <2>1, Apart, PlainMeaning DEF PcType, AtRequest, Plain, Placed
  <2>3. Through'
    BY <2>1, <2>2 DEF Through
  <2>4. SUFFICES ASSUME alive[cur], pc[Rewatch(cur)] \in {"req", "res", "done"},
                        NEW n \in watching'
                 PROVE  Meaning(n) \in srv[cur] \/ n \in todo[cur]
    BY <2>1, <2>2, <2>3 DEF Complete, Told
  <2> QED
    BY <2>1, <2>2, <2>4 DEF Complete, Told
<1>5. ASSUME NEW u \in Users, TakeUser(u) PROVE Through' /\ Complete'
  <2>1. asks[u] \in Asks /\ asks[u] \in Requests
    BY <1>0, <1>5, RequestTypes DEF TakeUser, SendRequest, Placed
  <2>2. asks[u].name \in PlainNames /\ ~asks[u].prefix
    BY <2>1, AsksAssumption DEF NoPrefixes, PlainNames
  <2> QED
    BY <1>5, <2>1, <2>2, SendCompletes, Apart DEF TakeUser
<1>6. ASSUME NEW c \in Conns, TakeRewatch(c) PROVE Through' /\ Complete'
  <2>1. PICK n \in todo[c] : SendRequest(Rewatch(c), RewatchRequest(n))
    BY <1>6 DEF TakeRewatch
  <2>2. n \in PlainNames
    BY DEF Plain
  <2>3. /\ RewatchRequest(n) \in Requests /\ RewatchRequest(n).name \in PlainNames
        /\ ~RewatchRequest(n).prefix
    BY <2>2, RequestTypes, PlainMeaning
  <2> QED
    BY <2>1, <2>3, SendCompletes, Apart
<1>7. ASSUME NEW c \in Conns, StartRewatch(c) PROVE Through' /\ Complete'
  <2>1. /\ cur' = cur /\ alive' = alive /\ srv' = srv /\ sent' = sent /\ watching' = watching
        /\ todo' = [todo EXCEPT ![c] = watching]
        /\ pc' = [pc EXCEPT ![Rewatch(c)] = IF watching = {} THEN "done" ELSE "req"]
    BY <1>7 DEF StartRewatch, Move, net
  <2>2. /\ \A d \in Conns : d # c => pc'[Rewatch(d)] = pc[Rewatch(d)] /\ todo'[d] = todo[d]
        /\ pc'[Rewatch(c)] = IF watching = {} THEN "done" ELSE "req"
        /\ todo'[c] = watching /\ pc'[Bg] = pc[Bg] /\ (AtRequest' <=> AtRequest)
    BY <1>0, <2>1, Apart DEF PcType, CallType, AtRequest
  <2>3. Through'
    BY <2>2 DEF Through
  <2>4. pc[Bg] = "select" \/ AtRequest => cur \in Conns
    BY <1>0 DEF Placed
  <2>5. Complete'
    <3>1. CASE cur = c
      BY <2>1, <2>2, <2>4, <3>1 DEF Complete, Told
    <3>2. CASE cur # c
      BY <2>1, <2>2, <2>4, <3>2 DEF Complete, Told
    <3> QED
      BY <3>1, <3>2
  <2> QED
    BY <2>3, <2>5
<1> QED
  BY <1>1, <1>2, <1>3, <1>4, <1>5, <1>6, <1>7, BesideSteps

\* When a rewatch is through, the server of the connection watches all that the
\* client has on record, whatever users did meanwhile and however often the
\* connection broke, as long as nobody watches a prefix (a rewatch asks for those
\* under a name that has one suffix too many).
THEOREM RewatchIsComplete == NoPrefixes => (Spec => []RewatchComplete)
<1> SUFFICES ASSUME NoPrefixes PROVE Spec => []RewatchComplete
  OBVIOUS
<1>1. RewatchInv /\ [Next]_vars => RewatchInv'
  BY ClientStep, PlainStep, CompleteStep DEF RewatchInv
<1>2. RewatchInv => RewatchComplete
  <2>1. SUFFICES ASSUME RewatchInv, Settled, NEW n \in watching PROVE Meaning(n) \in srv[cur]
    BY DEF RewatchComplete
  <2>2. cur \in Conns /\ ~AtRequest
    BY <2>1 DEF RewatchInv, ClientInv, Placed, Settled, AtRequest
  <2> QED
    BY <2>1, <2>2 DEF RewatchInv, Through, Complete, Settled, Told
<1> QED
  BY <1>1, <1>2, ClientInit, PTL DEF Spec
=============================================================================
