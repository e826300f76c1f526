---------------------------- MODULE ClientWatch -----------------------------
(***************************************************************************)
(* The client side of Watch (client/client.go): one Client that keeps a    *)
(* stream to a server, and makes a new one when it breaks.                 *)
(*                                                                         *)
(* Its goroutines, each with a program counter:                            *)
(*   bg          backgroundProcess: connects, then sends the requests that *)
(*               callers hand to it on reqCh, and releases each of them on *)
(*               resCh; ends by starting its successor;                    *)
(*   rewatch c   started with connection c: holds the read lock while it   *)
(*               calls Watch for every key of the map;                     *)
(*   receive c   started with connection c: gives events to the channels   *)
(*               under the read lock, and reports an error on closeCh;     *)
(*   user u      calls Watch and Unwatch;                                  *)
(*   reader o    opens an event channel, reads it and closes it;           *)
(*   closer      calls Close.                                              *)
(* The lock is a sync.RWMutex: a writer that waits keeps new readers out.  *)
(***************************************************************************)
EXTENDS Integers, FiniteSets

CONSTANTS Users, Readers, \* goroutines of the program that uses the client
          Keys,           \* keys the users watch
          Asks,           \* their calls of Watch and Unwatch
          Capacity,       \* of an event channel (100 in the code)
          MayClose,       \* the program may call Close
          MaxConns,       \* bound: connections
          MaxBreaks,      \* bound: how many of them break
          MaxAsks,        \* bound: calls of users
          MaxEvents       \* bound: events the servers send

ASSUME BoundsAssumption == /\ Capacity \in Nat \ {0} /\ MaxConns \in Nat /\ MaxBreaks \in Nat
                           /\ MaxAsks \in Nat /\ MaxEvents \in Nat /\ MayClose \in BOOLEAN

\* A name is a key with the number of prefix suffixes it carries.
Names    == Keys \X Nat
Requests == [name : Names, prefix : BOOLEAN, cancel : BOOLEAN]
ASSUME AsksAssumption == Asks \subseteq [name : Keys \X {0}, prefix : BOOLEAN, cancel : BOOLEAN]

Conns == 1 .. MaxConns
Bg         == <<"bg", 0>>
Closer     == <<"closer", 0>>
Rewatch(c) == <<"rewatch", c>>
Receive(c) == <<"receive", c>>
User(u)    == <<"user", u>>
Reader(o)  == <<"reader", o>>
Callers == {User(u) : u \in Users} \cup {Rewatch(c) : c \in Conns}
Goroutines == {Bg, Closer} \cup Callers \cup {Receive(c) : c \in Conns} \cup {Reader(o) : o \in Readers}
Nobody == <<"nobody", 0>>
NoAsk  == [name |-> <<"none", 0>>, prefix |-> FALSE, cancel |-> FALSE]
NoSend == [from |-> Nobody, req |-> NoAsk, ok |-> TRUE]

VARIABLES pc,       \* per goroutine
          asks,     \* per user: its request
          todo,     \* per connection: names its rewatch has yet to send
          sent,     \* the request bg is at: whose, and whether Send succeeded
          watching, \* the map of the client
          cur,      \* number of the connection in c.stream
          alive,    \* per connection
          srv,      \* per connection: what its server watches
          on,       \* per receiver: the connection it receives from
          left,     \* per receiver: channels it has yet to give the event to
          chan,     \* per reader: its channel, in the map while it is open
          readers,  \* the lock: who reads
          writer,   \* the lock: who writes or waits to write
          closing,  \* Close has been called
          counts    \* calls, breaks and events so far

vars == <<pc, asks, todo, sent, watching, cur, alive, srv, on, left, chan, readers, writer,
          closing, counts>>
net   == <<cur, alive, srv>>
calls == <<asks, todo, sent, watching>>
inbox == <<on, left, chan>>
lock  == <<readers, writer>>

\* The name under which the client records a request.
Name(r) == IF r.prefix THEN <<r.name[1], r.name[2] + 1>> ELSE r.name

\* What a name in the map stands for, and what rewatch asks for it.
Meaning(n) == IF n[2] > 0 THEN [name |-> <<n[1], n[2] - 1>>, prefix |-> TRUE]
                          ELSE [name |-> n, prefix |-> FALSE]
RewatchRequest(n) == [name |-> n, prefix |-> n[2] > 0, cancel |-> FALSE]

-----------------------------------------------------------------------------
(* Steps many goroutines make.                                             *)

Move(g, l)     == pc[g] # l /\ pc' = [pc EXCEPT ![g] = l]
CanRead        == writer = Nobody
RLock(g)       == CanRead /\ readers' = readers \cup {g} /\ UNCHANGED writer
RUnlock(g)     == readers' = readers \ {g} /\ UNCHANGED writer
\* Lock in two steps: wait for other writers, then for the readers.
Announce(g)    == writer = Nobody /\ writer' = g /\ UNCHANGED readers
HasLock(g)     == writer = g /\ readers = {}
Unlock(g)      == writer' = Nobody /\ UNCHANGED readers

WantLock(g, from, to) ==
  /\ pc[g] = from /\ Move(g, to) /\ Announce(g)
  /\ UNCHANGED <<net, calls, inbox, closing, counts>>

-----------------------------------------------------------------------------
(* backgroundProcess.                                                      *)

Connect ==
  /\ pc[Bg] = "connect" /\ cur < MaxConns
  /\ cur' = cur + 1
  /\ alive' = [alive EXCEPT ![cur + 1] = TRUE]
  /\ pc' = [pc EXCEPT ![Bg] = "select", ![Rewatch(cur + 1)] = "start",
                      ![Receive(cur + 1)] = "loop"]
  /\ UNCHANGED <<srv, calls, inbox, lock, closing, counts>>

ConnectFails ==
  /\ pc[Bg] = "connect"
  /\ Move(Bg, "exit")
  /\ UNCHANGED <<net, calls, inbox, lock, closing, counts>>

\* The server of a connection watches a name that it does not watch yet, and
\* stops when it does and the request cancels (watch.go).
Watched(S, r) == LET w == [name |-> r.name, prefix |-> r.prefix]
                 IN  IF r.cancel /\ w \in S THEN S \ {w} ELSE S \cup {w}

\* Request r of goroutine g: Send always succeeds on a connection that lives, and
\* may do so on one that is broken.
SendRequest(g, r) ==
  /\ pc[Bg] = "select" /\ pc[g] = "req"
  /\ pc' = [pc EXCEPT ![Bg] = "reply", ![g] = "res"]
  /\ \E ok \in {TRUE, alive[cur]} : sent' = [from |-> g, req |-> r, ok |-> ok]
  /\ srv' = IF alive[cur] THEN [srv EXCEPT ![cur] = Watched(@, r)] ELSE srv
  /\ UNCHANGED <<cur, alive, asks, todo, watching, inbox, lock, closing, counts>>

TakeUser(u)    == SendRequest(User(u), asks[u])
TakeRewatch(c) == \E n \in todo[c] : SendRequest(Rewatch(c), RewatchRequest(n))

\* The caller is released whether or not Send succeeded.  A rewatch goes on with
\* its next name, or unlocks.
Released(c) == todo' = [todo EXCEPT ![c] = @ \ {sent.req.name}]
Reply ==
  /\ pc[Bg] = "reply"
  /\ LET next == IF sent.ok THEN "record" ELSE "exit"
     IN  \/ \E u \in Users :
              /\ sent.from = User(u)
              /\ pc' = [pc EXCEPT ![Bg] = next, ![User(u)] = "idle"]
              /\ asks' = [asks EXCEPT ![u] = NoAsk]
              /\ UNCHANGED <<todo, lock>>
         \/ \E c \in Conns :
              /\ sent.from = Rewatch(c) /\ Released(c)
              /\ pc' = [pc EXCEPT ![Bg] = next,
                                  ![Rewatch(c)] = IF todo'[c] = {} THEN "done" ELSE "req"]
              /\ IF todo'[c] = {} THEN RUnlock(Rewatch(c)) ELSE UNCHANGED lock
              /\ UNCHANGED asks
  /\ UNCHANGED <<net, sent, watching, inbox, closing, counts>>

Record ==
  /\ pc[Bg] = "locked" /\ HasLock(Bg) /\ Unlock(Bg) /\ Move(Bg, "select")
  /\ LET r == sent.req
     IN  watching' = IF r.cancel THEN watching \ {Name(r)} ELSE watching \cup {Name(r)}
  /\ sent' = NoSend
  /\ UNCHANGED <<net, asks, todo, inbox, closing, counts>>

\* Somebody reports on closeCh: a receiver whose stream has failed, or Close.
TakeClose(g) ==
  /\ pc[Bg] = "select" /\ pc[g] = "closeCh"
  /\ pc' = [pc EXCEPT ![Bg] = "exit", ![g] = "done"]
  /\ UNCHANGED <<net, calls, inbox, lock, closing, counts>>

\* The deferred function: a new backgroundProcess, or, after Close, the end of
\* the socket and of the channels (CloseSend on no stream at all panics).
Exit ==
  /\ pc[Bg] = "exit" /\ CanRead
  /\ IF closing
     THEN /\ Move(Bg, IF cur = 0 THEN "panic" ELSE "stopped")
          /\ alive' = [c \in Conns |-> FALSE]
     ELSE Move(Bg, "connect") /\ UNCHANGED alive
  /\ sent' = NoSend
  /\ UNCHANGED <<cur, srv, asks, todo, watching, inbox, lock, closing, counts>>

Background == \/ Connect \/ Reply \/ WantLock(Bg, "record", "locked") \/ Record \/ Exit
              \/ \E u \in Users : TakeUser(u)
              \/ \E c \in Conns : TakeRewatch(c) \/ TakeClose(Receive(c))
              \/ TakeClose(Closer)

-----------------------------------------------------------------------------
(* Callers.                                                                *)

\* Mutant: a connection is not told of the keys that were watched before.
StartNothing(c) ==
  /\ pc[Rewatch(c)] = "start" /\ CanRead
  /\ Move(Rewatch(c), "done")
  /\ UNCHANGED <<net, calls, inbox, lock, closing, counts>>

StartRewatch(c) ==
  /\ pc[Rewatch(c)] = "start" /\ CanRead
  /\ todo' = [todo EXCEPT ![c] = watching]
  /\ IF watching = {}
     THEN Move(Rewatch(c), "done") /\ UNCHANGED lock
     ELSE Move(Rewatch(c), "req") /\ RLock(Rewatch(c))
  /\ UNCHANGED <<net, asks, sent, watching, inbox, closing, counts>>

Call(u, r) ==
  /\ pc[User(u)] = "idle" /\ counts.asks < MaxAsks
  /\ Move(User(u), "req")
  /\ asks' = [asks EXCEPT ![u] = r]
  /\ counts' = [counts EXCEPT !.asks = @ + 1]
  /\ UNCHANGED <<net, todo, sent, watching, inbox, lock, closing>>

\* A send on reqCh after Close has closed it.
SendOnClosed(g) ==
  /\ pc[g] = "req" /\ pc[Bg] = "stopped"
  /\ Move(g, "panic")
  /\ UNCHANGED <<net, calls, inbox, lock, closing, counts>>

\* Close: sets closing under the lock, then reports on closeCh.
CloseClient ==
  /\ pc[Closer] = "locked" /\ HasLock(Closer) /\ Unlock(Closer) /\ Move(Closer, "closeCh")
  /\ closing' = TRUE
  /\ UNCHANGED <<net, calls, inbox, counts>>

-----------------------------------------------------------------------------
(* Receivers.                                                              *)

\* c.stream is looked up for every event: it may be that of a later connection.
Loop(c) ==
  /\ pc[Receive(c)] = "loop" /\ Move(Receive(c), "recv")
  /\ on' = [on EXCEPT ![c] = cur]
  /\ UNCHANGED <<net, calls, left, chan, lock, closing, counts>>

RecvEvent(c) ==
  /\ pc[Receive(c)] = "recv" /\ Move(Receive(c), "event")
  /\ alive[on[c]] /\ srv[on[c]] # {} /\ counts.events < MaxEvents
  /\ counts' = [counts EXCEPT !.events = @ + 1]
  /\ UNCHANGED <<net, calls, inbox, lock, closing>>

RecvErr(c) ==
  /\ pc[Receive(c)] = "recv" /\ Move(Receive(c), "closeCh")
  /\ ~alive[on[c]]
  /\ UNCHANGED <<net, calls, inbox, lock, closing, counts>>

Open == {o \in Readers : chan[o].open}

DeliverStart(c) ==
  /\ pc[Receive(c)] = "event" /\ Move(Receive(c), "deliver") /\ RLock(Receive(c))
  /\ left' = [left EXCEPT ![c] = Open]
  /\ UNCHANGED <<net, calls, on, chan, closing, counts>>

\* Mutant: an event goes into a channel twice, whether or not there is room.
DeliverTwice(c, o) ==
  /\ pc[Receive(c)] = "deliver" /\ o \in left[c]
  /\ chan' = [chan EXCEPT ![o].events = @ + 2]
  /\ left' = [left EXCEPT ![c] = @ \ {o}]
  /\ UNCHANGED <<pc, net, calls, on, lock, closing, counts>>

Deliver(c, o) ==
  /\ pc[Receive(c)] = "deliver" /\ o \in left[c]
  /\ chan[o].events < Capacity
  /\ chan' = [chan EXCEPT ![o].events = @ + 1]
  /\ left' = [left EXCEPT ![c] = @ \ {o}]
  /\ UNCHANGED <<pc, net, calls, on, lock, closing, counts>>

DeliverEnd(c) ==
  /\ pc[Receive(c)] = "deliver" /\ left[c] = {}
  /\ Move(Receive(c), "loop") /\ RUnlock(Receive(c))
  /\ UNCHANGED <<net, calls, inbox, closing, counts>>

ReceiveStep(c) == \/ Loop(c) \/ RecvErr(c) \/ DeliverStart(c) \/ DeliverEnd(c)
                  \/ \E o \in Readers : Deliver(c, o)

-----------------------------------------------------------------------------
(* Event channels.                                                         *)

NewEventChannel(o) ==
  /\ pc[Reader(o)] = "opening" /\ HasLock(Reader(o)) /\ Unlock(Reader(o)) /\ Move(Reader(o), "reading")
  /\ chan' = [chan EXCEPT ![o].open = TRUE]
  /\ UNCHANGED <<net, calls, on, left, closing, counts>>

Read(o) ==
  /\ pc[Reader(o)] = "reading" /\ chan[o].events > 0
  /\ chan' = [chan EXCEPT ![o].events = @ - 1]
  /\ UNCHANGED <<pc, net, calls, on, left, lock, closing, counts>>

\* Mutant: the channel is closed before the readers of the map have finished.
CloseUnlocked(o) ==
  /\ pc[Reader(o)] = "closing" /\ Unlock(Reader(o)) /\ Move(Reader(o), "done")
  /\ chan' = [chan EXCEPT ![o].open = FALSE]
  /\ UNCHANGED <<net, calls, on, left, closing, counts>>

CloseEventChannel(o) ==
  /\ pc[Reader(o)] = "closing" /\ HasLock(Reader(o)) /\ Unlock(Reader(o)) /\ Move(Reader(o), "done")
  /\ chan' = [chan EXCEPT ![o].open = FALSE]
  /\ UNCHANGED <<net, calls, on, left, closing, counts>>

-----------------------------------------------------------------------------

Break(c) ==
  /\ alive[c] /\ counts.breaks < MaxBreaks
  /\ alive' = [alive EXCEPT ![c] = FALSE]
  /\ counts' = [counts EXCEPT !.breaks = @ + 1]
  /\ UNCHANGED <<pc, cur, srv, calls, inbox, lock, closing>>

Init ==
  /\ pc = [g \in Goroutines |-> CASE g = Bg -> "connect"
                                  [] g \in {User(u) : u \in Users} -> "idle"
                                  [] OTHER -> "new"]
  /\ asks = [u \in Users |-> NoAsk] /\ todo = [c \in Conns |-> {}]
  /\ sent = NoSend /\ watching = {}
  /\ cur = 0 /\ alive = [c \in Conns |-> FALSE] /\ srv = [c \in Conns |-> {}]
  /\ on = [c \in Conns |-> 0] /\ left = [c \in Conns |-> {}]
  /\ chan = [o \in Readers |-> [open |-> FALSE, events |-> 0]]
  /\ readers = {} /\ writer = Nobody
  /\ closing = FALSE /\ counts = [asks |-> 0, breaks |-> 0, events |-> 0]

\* A panic ends the program.
Running == \A g \in Goroutines : pc[g] # "panic"

Step(g) == \/ g = Bg /\ Background
           \/ \E c \in Conns : \/ g = Rewatch(c) /\ (StartRewatch(c) \/ SendOnClosed(g))
                               \/ g = Receive(c) /\ ReceiveStep(c)
           \/ \E u \in Users : g = User(u) /\ SendOnClosed(g)
           \/ \E o \in Readers : g = Reader(o) /\ (NewEventChannel(o) \/ Read(o) \/ CloseEventChannel(o))
           \/ g = Closer /\ CloseClient

\* What the program that uses the client, the servers and the network may do.
Environment == \/ \E u \in Users, r \in Asks : Call(u, r)
               \/ \E o \in Readers : \/ WantLock(Reader(o), "new", "opening")
                                     \/ WantLock(Reader(o), "reading", "closing")
               \/ MayClose /\ WantLock(Closer, "new", "locked")
               \/ \E c \in Conns : RecvEvent(c) \/ Break(c)
               \/ ConnectFails

Next == Running /\ (Environment \/ \E g \in Goroutines : Step(g))

Spec == Init /\ [][Next]_vars

\* Goroutines keep running; those that wait for a lock or at a channel are
\* served in the order in which they came; a connection can be made some time.
Fairness == /\ \A g \in Goroutines : SF_vars(Running /\ Step(g))
            /\ SF_vars(Running /\ Connect)
FairSpec == Spec /\ Fairness

-----------------------------------------------------------------------------
(* Properties.                                                             *)

PCs == {"connect", "select", "reply", "record", "locked", "exit", "stopped", "panic",
        "new", "start", "idle", "req", "res", "done", "loop", "recv", "event", "deliver",
        "closeCh", "opening", "reading", "closing"}

\* Types of the client's state (client.go); a channel holds what fits in it.
TypeOK ==
  /\ pc \in [Goroutines -> PCs] /\ asks \in [Users -> Requests \cup {NoAsk}]
  /\ todo \in [Conns -> SUBSET Names] /\ watching \subseteq Names
  /\ sent \in [from : Callers \cup {Nobody}, req : Requests \cup {NoAsk}, ok : BOOLEAN]
  /\ cur \in 0 .. MaxConns /\ alive \in [Conns -> BOOLEAN]
  /\ \A c \in Conns : srv[c] \subseteq [name : Names, prefix : BOOLEAN]
  /\ on \in [Conns -> 0 .. MaxConns] /\ left \in [Conns -> SUBSET Readers]
  /\ chan \in [Readers -> [open : BOOLEAN, events : 0 .. Capacity]]
  /\ readers \subseteq Goroutines /\ writer \in Goroutines \cup {Nobody}
  /\ closing \in BOOLEAN
  /\ counts \in [asks : 0 .. MaxAsks, breaks : 0 .. MaxBreaks, events : 0 .. MaxEvents]

\* "Mydis supports graceful reconnects" (README.md): when a connection is up and
\* its rewatch is through, the server watches all that the client has on record.
Settled == /\ pc[Bg] = "select" /\ alive[cur] /\ ~closing
           /\ pc[Rewatch(cur)] = "done"
RewatchComplete == Settled => {Meaning(n) : n \in watching} \subseteq srv[cur]

\* A receiver never sends on an event channel that has been closed (a panic).
NoSendOnClosed == \A c \in Conns : pc[Receive(c)] = "deliver" => left[c] \subseteq Open

\* "graceful reconnects" (README.md), again: after a break the client gets to a
\* connection whose server watches what it has on record.
Reconnects ==
  \A n \in Keys \X {0} :
    n \in watching ~> (\/ n \notin watching \/ closing
                       \/ alive[cur] /\ Meaning(n) \in srv[cur])
=============================================================================
