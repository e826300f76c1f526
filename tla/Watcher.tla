------------------------------ MODULE Watcher -------------------------------
(***************************************************************************)
(* The server side of Watch (mydis/watch.go).                              *)
(*                                                                         *)
(* Each stream s is one Watch call.  Three goroutines serve it:            *)
(*   rpc   the handler: receives a request from the client, hands it to    *)
(*         the watcher (reqCh), waits until it is taken care of (resCh);   *)
(*   bg    the watcher's backgroundProcess: subscribes to etcd, and for    *)
(*         each event etcd sends offers one copy per matching request;     *)
(*   the sender: takes a copy from eventCh and sends it to the client.     *)
(* Channels are unbuffered, so that a send and its receive are one step;   *)
(* only etcd's channel, shared by a stream's subscriptions, has a buffer.  *)
(*                                                                         *)
(* WatchController.Close is called from nowhere and is left out.           *)
(***************************************************************************)
EXTENDS Integers, Sequences, FiniteSets, SequencesExt

CONSTANTS Streams,    \* Watch calls, each by one connection of a client
          Keys,       \* keys that change
          Names,      \* keys and prefixes that are watched
          Extends,    \* per name: the keys that have it as a prefix
          NoEnd,      \* names that as a prefix have no end (getPrefix is "\0")
          EtcdRange,  \* per watch: the keys etcd sends events of
          Asks,       \* requests that clients may send
          Polite,     \* clients cancel only what they watch
          MaxChanges, \* bound: number of changes of the store
          MaxAsks     \* bound: number of requests on a stream

\* What identifies a watch (RequestID): the key, and whether it is a prefix.
Watches == [key : Names, prefix : BOOLEAN]

Matches(w, k) == IF w.prefix THEN k \in Extends[w.key] ELSE k = w.key

\* The end "\0" that getPrefix gives for "" and for bytes 0xff is handed to mvcc
\* as it is, for which it is an end like any other, that comes before the key.
HasEnd(w) == ~(w.prefix /\ w.key \in NoEnd)
Expected(w, k) == HasEnd(w) /\ Matches(w, k)

\* mvcc takes an empty, non-nil, end of range to be "every key from here on", so
\* that etcd sends more events than a watch of one key asks for; of a prefix
\* without end nothing is known, and nothing is in its range.
ASSUME RangesAssumption ==
  /\ Extends \in [Names -> SUBSET Keys] /\ NoEnd \subseteq Names
  /\ EtcdRange \in [Watches -> SUBSET Keys]
  /\ \A w \in Watches, k \in Keys : Expected(w, k) => k \in EtcdRange[w]
ASSUME AsksAssumption ==
  /\ Asks \subseteq [watch : Watches, rev : Nat, cancel : BOOLEAN]
  /\ MaxChanges \in Nat /\ MaxAsks \in Nat /\ Polite \in BOOLEAN

VARIABLES log,      \* the changes of the store, by revision: the key changed
          rpc,      \* per stream: where its handler is
          req,      \* per stream: the request its handler has received last
          bg,       \* per stream: where its backgroundProcess is
          watching, \* per stream: the map of watches, with the id etcd gave
          subs,     \* per stream: etcd's watchers, by id
          streamCh, \* per stream: batches of events from etcd
          out,      \* per stream: copies bg has still to offer on eventCh
          hand,     \* per stream: what the sender is sending (at most one)
          got,      \* per stream: what the client has received
          gone,     \* per stream: the client has gone
          want,     \* per stream: what its requests so far add up to (the
                    \* client keeps the same set, Client.watching)
          asked,    \* per stream: number of requests so far
          past      \* per stream: a request named a revision to start from

vars == <<log, rpc, req, bg, watching, subs, streamCh, out, hand, got, gone, want, asked, past>>
server == <<rpc, req, bg, watching, subs, streamCh, out>>
client == <<gone, want, asked, past>>

NoReq  == [cancel |-> FALSE]
NoMap  == [x \in {} |-> x]
With(f, x, y) == [z \in DOMAIN f \cup {x} |-> IF z = x THEN y ELSE f[z]]
Without(f, x) == [z \in DOMAIN f \ {x} |-> f[z]]

-----------------------------------------------------------------------------
(* etcd.                                                                   *)

\* A key changes: a watcher that is up to date sends the event at once.
Receives(sub, k) == sub.synced /\ k \in EtcdRange[sub.watch] /\ Len(log) + 1 >= sub.first
Change(k) ==
  /\ Len(log) < MaxChanges
  /\ log' = Append(log, k)
  /\ streamCh' = [s \in Streams |->
       streamCh[s] \o [i \in 1 .. Cardinality({n \in DOMAIN subs[s] : Receives(subs[s][n], k)})
                         |-> <<Len(log) + 1>>]]
  /\ UNCHANGED <<rpc, req, bg, watching, subs, out, hand, got>> /\ UNCHANGED client

\* A watcher that starts at an earlier revision sends, in one batch, what it has
\* missed.
Missed(sub) == FlattenSeq([j \in 1 .. Len(log) |->
                 IF j >= sub.first /\ log[j] \in EtcdRange[sub.watch] THEN <<j>> ELSE << >>])
CatchUp(s, n) ==
  /\ n \in DOMAIN subs[s] /\ ~subs[s][n].synced
  /\ subs' = [subs EXCEPT ![s][n].synced = TRUE]
  /\ streamCh' = [streamCh EXCEPT ![s] = IF Missed(subs[s][n]) = << >> THEN @
                                         ELSE Append(@, Missed(subs[s][n]))]
  /\ UNCHANGED <<log, rpc, req, bg, watching, out, hand, got>> /\ UNCHANGED client

-----------------------------------------------------------------------------
(* The handler of the call.                                                *)

\* NewWatcher starts the watcher's backgroundProcess.
Open(s) ==
  /\ rpc[s] = "none"
  /\ rpc' = [rpc EXCEPT ![s] = "recv"]
  /\ bg' = [bg EXCEPT ![s] = "select"]
  /\ UNCHANGED <<log, req, watching, subs, streamCh, out, hand, got>> /\ UNCHANGED client

Recv(s, r) ==
  /\ rpc[s] = "recv"
  /\ asked[s] < MaxAsks
  /\ Polite /\ r.cancel => r.watch \in want[s]
  /\ rpc' = [rpc EXCEPT ![s] = "req"]
  /\ req' = [req EXCEPT ![s] = r]
  /\ want' = [want EXCEPT ![s] = IF r.cancel THEN @ \ {r.watch} ELSE @ \cup {r.watch}]
  /\ asked' = [asked EXCEPT ![s] = @ + 1]
  /\ past' = [past EXCEPT ![s] = @ \/ r.rev > 0]
  /\ UNCHANGED <<log, bg, watching, subs, streamCh, out, hand, got, gone>>

RecvErr(s) ==
  /\ rpc[s] = "recv" /\ gone[s]
  /\ rpc' = [rpc EXCEPT ![s] = "close"]
  /\ UNCHANGED <<log, req, bg, watching, subs, streamCh, out, hand, got>> /\ UNCHANGED client

-----------------------------------------------------------------------------
(* backgroundProcess.  It selects when it has nothing left to offer.       *)

Selects(s) == bg[s] = "select" /\ out[s] = << >>

\* It takes a request from reqCh, and will then answer on resCh.
TakeRequest(s) ==
  /\ Selects(s) /\ rpc[s] = "req"
  /\ rpc' = [rpc EXCEPT ![s] = "res"]
  /\ bg' = [bg EXCEPT ![s] = "res"]
  /\ UNCHANGED <<log, req, streamCh, out, hand, got>> /\ UNCHANGED client

\* Mutant: the subscription that is cancelled is that of the request's own id,
\* which is 0, instead of the one that was recorded.
CancelOwnId(s) ==
  LET w == req[s].watch
  IN  /\ TakeRequest(s)
      /\ req[s].cancel /\ w \in DOMAIN watching[s]
      /\ subs' = [subs EXCEPT ![s] = Without(@, 0)]
      /\ watching' = [watching EXCEPT ![s] = Without(@, w)]

\* Mutant: the entry stays in the map.
CancelKeepsEntry(s) ==
  LET w == req[s].watch
  IN  /\ TakeRequest(s)
      /\ req[s].cancel /\ w \in DOMAIN watching[s]
      /\ subs' = [subs EXCEPT ![s] = Without(@, watching[s][w].id)]
      /\ UNCHANGED watching

Cancel(s) ==
  LET w == req[s].watch
  IN  /\ TakeRequest(s)
      /\ req[s].cancel /\ w \in DOMAIN watching[s]
      /\ subs' = [subs EXCEPT ![s] = Without(@, watching[s][w].id)]
      /\ watching' = [watching EXCEPT ![s] = Without(@, w)]

\* Mutant: the handler is not told that the request has been taken care of.
DuplicateUnanswered(s) ==
  /\ Selects(s) /\ rpc[s] = "req"
  /\ ~req[s].cancel /\ req[s].watch \in DOMAIN watching[s]
  /\ rpc' = [rpc EXCEPT ![s] = "res"]
  /\ UNCHANGED <<log, req, bg, watching, subs, streamCh, out, hand, got>> /\ UNCHANGED client

\* Mutant: a watch that is in the map is subscribed to once more.
DuplicateSubscribed(s) ==
  LET w == req[s].watch
      sub == [watch |-> w, first |-> Len(log) + 1, synced |-> TRUE]
  IN  /\ TakeRequest(s)
      /\ ~req[s].cancel /\ w \in DOMAIN watching[s]
      /\ subs' = [subs EXCEPT ![s] = With(@, asked[s] - 1, sub)]
      /\ watching' = [watching EXCEPT ![s][w].id = asked[s] - 1]

Duplicate(s) ==
  /\ TakeRequest(s)
  /\ ~req[s].cancel /\ req[s].watch \in DOMAIN watching[s]
  /\ UNCHANGED <<watching, subs>>

\* A request that is not in the map starts a subscription, even when it cancels.
\* since is the revision from which the client is to see changes.
StartWatch(s) ==
  LET w     == req[s].watch
      first == IF req[s].rev = 0 THEN Len(log) + 1 ELSE req[s].rev
      id    == asked[s] - 1
  IN  /\ TakeRequest(s)
      /\ w \notin DOMAIN watching[s]
      /\ subs' = [subs EXCEPT ![s] =
                    With(@, id, [watch |-> w, first |-> first, synced |-> first > Len(log)])]
      /\ watching' = [watching EXCEPT ![s] = With(@, w, [id |-> id, since |-> first])]

Answer(s) ==
  /\ rpc[s] = "res" /\ bg[s] = "res"
  /\ rpc' = [rpc EXCEPT ![s] = "recv"]
  /\ bg' = [bg EXCEPT ![s] = "select"]
  /\ UNCHANGED <<log, req, watching, subs, streamCh, out, hand, got>> /\ UNCHANGED client

\* The copies of event j that the watches of stream s ask for.
Copies(s, j) == [i \in 1 .. Cardinality({w \in DOMAIN watching[s] : Matches(w, log[j])}) |-> j]
EventCopies(s, batch) == FlattenSeq([i \in 1 .. Len(batch) |-> Copies(s, batch[i])])

\* Mutant: copies are offered by a goroutine of their own for each batch, and
\* those of a later batch may be taken first.
FanOutUnordered(s) ==
  /\ bg[s] = "select" /\ streamCh[s] # << >>
  /\ out' = [out EXCEPT ![s] = EventCopies(s, Head(streamCh[s])) \o @]
  /\ streamCh' = [streamCh EXCEPT ![s] = Tail(@)]
  /\ UNCHANGED <<log, rpc, req, bg, watching, subs, hand, got>> /\ UNCHANGED client

\* It takes a batch of events from etcd.
FanOut(s) ==
  /\ Selects(s) /\ streamCh[s] # << >>
  /\ out' = [out EXCEPT ![s] = EventCopies(s, Head(streamCh[s]))]
  /\ streamCh' = [streamCh EXCEPT ![s] = Tail(@)]
  /\ UNCHANGED <<log, rpc, req, bg, watching, subs, hand, got>> /\ UNCHANGED client

\* Mutant: a copy that the sender cannot take at once is dropped.
OfferOrDrop(s) ==
  /\ out[s] # << >>
  /\ out' = [out EXCEPT ![s] = Tail(@)]
  /\ hand' = IF hand[s] = << >> THEN [hand EXCEPT ![s] = <<Head(out[s])>>] ELSE hand
  /\ UNCHANGED <<log, rpc, req, bg, watching, subs, streamCh, got>> /\ UNCHANGED client

\* Mutant: the sender takes copies without having sent the ones before.
OfferBuffered(s) ==
  /\ out[s] # << >>
  /\ hand' = [hand EXCEPT ![s] = Append(@, Head(out[s]))]
  /\ out' = [out EXCEPT ![s] = Tail(@)]
  /\ UNCHANGED <<log, rpc, req, bg, watching, subs, streamCh, got>> /\ UNCHANGED client

\* The sender takes a copy when it has sent the one before.
Offer(s) ==
  /\ out[s] # << >> /\ hand[s] = << >>
  /\ hand' = [hand EXCEPT ![s] = <<Head(out[s])>>]
  /\ out' = [out EXCEPT ![s] = Tail(@)]
  /\ UNCHANGED <<log, rpc, req, bg, watching, subs, streamCh, got>> /\ UNCHANGED client

\* The handler's deferred Close: the watcher's subscriptions and channels close.
Close(s) ==
  /\ Selects(s) /\ rpc[s] = "close"
  /\ rpc' = [rpc EXCEPT ![s] = "done"]
  /\ bg' = [bg EXCEPT ![s] = "gone"]
  /\ subs' = [subs EXCEPT ![s] = NoMap]
  /\ streamCh' = [streamCh EXCEPT ![s] = << >>]
  /\ UNCHANGED <<log, req, watching, out, hand, got>> /\ UNCHANGED client

-----------------------------------------------------------------------------
(* The connection.                                                         *)

\* Send puts the event on the wire; it fails when the client has gone, which the
\* sender does not notice.
Send(s) ==
  /\ hand[s] # << >>
  /\ hand' = [hand EXCEPT ![s] = << >>]
  /\ got' = IF gone[s] THEN got ELSE [got EXCEPT ![s] = @ \o hand[s]]
  /\ UNCHANGED log /\ UNCHANGED server /\ UNCHANGED client

\* The client goes away, or the connection breaks.
Disconnect(s) ==
  /\ rpc[s] # "none" /\ ~gone[s]
  /\ gone' = [gone EXCEPT ![s] = TRUE]
  /\ UNCHANGED <<log, hand, got, want, asked, past>> /\ UNCHANGED server

-----------------------------------------------------------------------------

Init == /\ log = << >>
        /\ rpc = [s \in Streams |-> "none"] /\ req = [s \in Streams |-> NoReq]
        /\ bg = [s \in Streams |-> "none"]
        /\ watching = [s \in Streams |-> NoMap] /\ subs = [s \in Streams |-> NoMap]
        /\ streamCh = [s \in Streams |-> << >>] /\ out = [s \in Streams |-> << >>]
        /\ hand = [s \in Streams |-> << >>] /\ got = [s \in Streams |-> << >>]
        /\ gone = [s \in Streams |-> FALSE] /\ want = [s \in Streams |-> {}]
        /\ asked = [s \in Streams |-> 0] /\ past = [s \in Streams |-> FALSE]

\* The steps of the watcher's goroutine, and what goes on without a client.
Background(s) == \/ Cancel(s) \/ Duplicate(s) \/ StartWatch(s) \/ Answer(s)
                 \/ FanOut(s) \/ Offer(s) \/ Close(s)
Etcd(s) == \E n \in DOMAIN subs[s] : CatchUp(s, n)

Next == \/ \E k \in Keys : Change(k)
        \/ \E s \in Streams : \/ Open(s) \/ Disconnect(s) \/ RecvErr(s)
                             \/ Background(s) \/ Send(s) \/ Etcd(s)
        \/ \E s \in Streams, r \in Asks : Recv(s, r)

Spec == Init /\ [][Next]_vars

\* Each goroutine keeps running, and etcd sends what it has.
Fairness == \A s \in Streams :
  WF_vars(RecvErr(s)) /\ WF_vars(Background(s)) /\ WF_vars(Send(s)) /\ WF_vars(Etcd(s))

FairSpec == Spec /\ Fairness

-----------------------------------------------------------------------------
(* Properties.                                                             *)

Revs == 1 .. MaxChanges

\* Every variable has its type, and channels without buffer hold at most one.
TypeOK ==
  /\ log \in Seq(Keys) /\ Len(log) <= MaxChanges
  /\ rpc \in [Streams -> {"none", "recv", "req", "res", "close", "done"}]
  /\ req \in [Streams -> Asks \cup {NoReq}]
  /\ bg \in [Streams -> {"none", "select", "res", "gone"}]
  /\ \A s \in Streams :
       /\ DOMAIN watching[s] \subseteq Watches
       /\ \A w \in DOMAIN watching[s] : watching[s][w].id \in Nat /\ watching[s][w].since \in Nat
       /\ DOMAIN subs[s] \subseteq Nat
       /\ \A n \in DOMAIN subs[s] :
            subs[s][n] \in [watch : Watches, first : Nat, synced : BOOLEAN]
       /\ streamCh[s] \in Seq(Seq(Revs)) /\ out[s] \in Seq(Revs) /\ got[s] \in Seq(Revs)
       /\ hand[s] \in Seq(Revs) /\ Len(hand[s]) <= 1
  /\ gone \in [Streams -> BOOLEAN] /\ want \in [Streams -> SUBSET Watches]
  /\ asked \in [Streams -> 0 .. MaxAsks] /\ past \in [Streams -> BOOLEAN]

\* The events that have left etcd on their way to the client, in the order in
\* which it gets them.
Pipeline(s) == got[s] \o hand[s] \o out[s] \o FlattenSeq(streamCh[s])

Live(s) == bg[s] \in {"select", "res"} /\ ~gone[s]

\* "Get a notification event when a key changes" (README.md): a change of a
\* watched key, from the moment its watch is taken care of, is with the client
\* or on its way, and every watch still has its subscription with etcd, however
\* other watches of the stream come and go.  Prefixes that have no end
\* are excepted: their subscription gets nothing.
NoGap ==
  \A s \in Streams : Live(s) =>
    \A w \in DOMAIN watching[s] :
      LET m == watching[s][w]
      IN  /\ m.id \in DOMAIN subs[s]
          /\ subs[s][m.id].synced =>
               \A j \in m.since .. Len(log) :
                 Expected(w, log[j]) => j \in ToSet(Pipeline(s))

\* No subscription outlives its watch: etcd's watchers of a stream are exactly
\* those the map records, and none once backgroundProcess has ended.
NoStray ==
  \A s \in Streams :
    DOMAIN subs[s] = IF bg[s] \in {"select", "res"}
                     THEN {watching[s][w].id : w \in DOMAIN watching[s]} ELSE {}

\* The server watches for a client what the client asked for: the two maps kept
\* on the two sides (Watcher.watching, Client.watching) agree when no request is
\* under way.  A client that cancels what it does not watch breaks this.
WatchingAsAsked ==
  \A s \in Streams : Live(s) /\ rpc[s] # "req" => DOMAIN watching[s] = want[s]

\* A client that does not ask for old revisions gets changes in the order in
\* which they were made, so that the last event of a key tells its last value.
InOrder ==
  \A s \in Streams : ~past[s] =>
    \A i, j \in 1 .. Len(Pipeline(s)) : i <= j => Pipeline(s)[i] <= Pipeline(s)[j]

\* A change of a watched key reaches the client unless it stops watching or goes
\* (prefixes that have no end apart).
Due(s, w, j) == /\ Live(s) /\ w \in DOMAIN watching[s] /\ j \in 1 .. Len(log)
                /\ j >= watching[s][w].since /\ Expected(w, log[j])
Awaited(s, j) ==
  j \notin ToSet(got[s]) /\ \E w \in {r.watch : r \in Asks} : Due(s, w, j)
Notified == \A s \in Streams, j \in Revs : Awaited(s, j) ~> ~Awaited(s, j)

\* The handler and the watcher of a client that is gone end, whatever they were
\* waiting for.
Released == \A s \in Streams : gone[s] ~> bg[s] = "gone" /\ rpc[s] = "done"
=============================================================================
