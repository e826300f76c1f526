# Mydis in TLA+

Mydis is a distributed data store that keeps strings, integers, lists and
hashes in an embedded etcd cluster and offers them, with locks and change
notifications, over gRPC and over HTTP and WebSockets.  This directory holds a TLA+ model of its
server, its client library and its command-line program, the TLC configurations
that check it on small instances, and theorems checked by TLAPS.  Line numbers refer to the repository at the modelled commit.

## 1. The system

| component | state | operations | hard behaviour |
|---|---|---|---|
| **Locks** `mydis/type_lock.go` | one etcd key per lock (name of the key + a suffix), content one zero byte; no owner, no lease | `Lock`, `LockWithTimeout` (poll every 10 ms until a deadline), `Unlock`, `UnlockThenSet*` (one transaction) | mutual exclusion among handlers of several servers; calls that fail after they were applied; crashes that leave locks behind |
| **Bytes and keys** `type_bytes.go`, `type_keys.go` | etcd keys | `Get` (may block), `GetMany`, `Set`, `SetNX`, `SetMany`, `Keys`, `Has`, `SetExpire`, `Delete`, `Clear` | `Set` and `Delete` take no lock but must respect it; `SetMany` and `SetExpire` are several calls |
| **Integers, floats** `type_int.go`, `type_float.go` | - | get, set, increment, decrement under the key's lock | lost updates; wrap-around; infinities and NaN |
| **Lists** `type_list.go` | value: elements and a limit | twelve handlers, pops may block | index arithmetic, limits, a pop that lets go of the lock and tries again |
| **Hashes** `type_hash.go` | value: a map | eleven handlers | the empty hash, values without type |
| **Encodings** `util.go`, `pb/mydis.proto`, `util/errors.go` | - | protobuf of ints, lists, hashes | different messages with the same bytes |
| **Watching, server** `watch.go` | per stream: map of watches, etcd subscriptions, four channels | watch, cancel, fan-out of events, close | three goroutines per stream; events against requests; a client that vanishes |
| **Watching, client** `client/client.go` | per client: set of watches, event channels, a stream | `Watch`, `Unwatch`, event channels, reconnect, `Close` | reconnect against requests, a lock shared by four kinds of goroutines |
| **Client calls** `client/client.go` | per client: the metadata of its context (token, lock wait) | one gRPC call each; `Authenticate`, `LogOut`, `SetLockTimeout` | what the metadata keeps; values that cannot be made; lost answers |
| **Value conversions** `util/value.go`, `util/util.go` | - | `NewValue`, `String`, `Int`, ... `Map` | stored bytes carry no type |
| **Key ranges, permissions** `mydis/util.go`, `client/util.go` | - | `getPrefix`, `GetKeyPrefix`, `GetPermission` | keys ending in 0xff |
| **Authentication** `auth.go` | in etcd: users, roles, permissions | sixteen handlers that pass a request on | changes that take away what a session rests on |
| **Start and stop** `mydis/server.go`, `server/server.go` | configuration, etcd, gRPC server, two ports | `loadConfig`, `Start` and its failures, `Close` | calls under way, goroutines that begin late |
| **WebSocket proxy and gateway** `websocket_proxy.go`, `pb/mydis.pb.gw.go` | per socket: a context, two pipes, five goroutines | a message becomes a line of a request body, a line of the response a message | who stops first; a variable that two goroutines share; long lines |
| **Command-line program** `cli/cli.go` | the client's | 56 commands, as arguments or at a prompt | arguments and errors; reading ahead |
| **Certificates** `util/certs.go` | - | made at start-up | - |

How they interact: a client sends a request to one of the servers (round
robin); there a handler goroutine serves it by a sequence of etcd calls, each of
them atomic.  All servers work on one etcd store, so handlers of different
servers meet only there: in the keys, and in the lock keys.  `watch.go`
subscribes to changes of that same store.  Nothing is kept by the server between
two requests except the watches of open streams.  A browser reaches the same
handlers over a WebSocket: the proxy turns the socket into an HTTP request, the
gateway turns that into a gRPC call to its own server.  The command-line program
turns a line into a call of the client library, which turns Go values into bytes.

What makes each part correct:

- *locks*: two parties never work on one key under its lock; a lock always has
  somebody who will remove it; waiting for one ends;
- *handlers*: although each is several etcd calls, a request looks as if it took
  effect at one instant; what is written back was computed from what is still
  stored; the value of a locked key changes only together with its unlocking;
- *encodings and arithmetic*: a handler answers every stored value with a result
  or an error, and stores well-formed values;
- *watching*: no change of a watched key is missed or overtaken, no subscription
  outlives its watch, both sides agree on what is watched, goroutines end;
- *client*: after a reconnect the same keys are watched; every call returns;
  what was stored is read back; the context carries what it was told to;
- *start and stop*: no call is served without etcd; `Close` returns, unless a call
  never ends, and leaves nothing behind that serves;
- *WebSockets*: requests and events arrive, in order; the client is told how its
  call ended; no goroutine and no call outlives its socket, except a call that
  waits without end;
- *command line*: a command does what its line says or reports that it did not;
- *permissions*: a pattern covers the names that begin with it and no others.

## 2. Modules

| module | models | definitions |
|---|---|---|
| `Values` | what is stored, what it decodes to, names and lock names, results | `Values`, `Blank`, `Encode*`, `getLockName`, `Wrap`, `Outcomes` |
| `IntOps`, `FloatOps`, `ListOps`, `HashOps` | the data part of each handler: the value read from etcd in, outcome out | one operator per handler, with its name |
| `Ops` | the requests, the data part of the byte and key handlers, and the two tables `Decide` (handlers that lock) and `Answer` (readers) | |
| `Server` | the handlers as processes on the etcd store | one action per etcd call, see below |
| `AtomicStore` | the promise: each request takes effect at one instant | `Call`, `Do`, `TurnedAway`, `TimedOut`, `Lost*` |
| `MCServer` | requests of the runs on `Server` | |
| `Watcher`, `MCWatcher` | one `Watch` stream: handler, watcher and sender goroutines, etcd's subscriptions | one action per rendezvous |
| `ClientWatch`, `MCClientWatch` | the client side of watching: connections, requests, rewatch, event channels, `Close` | one action per rendezvous, acquisition or release of the lock |
| `Lifecycle` | configuration, `Start`, `Close` and gRPC calls of one server | one action per step that can fail or be overtaken |
| `Proxy` | `Lifecycle` with WebSockets, the gateway's handlers and its calls | one action per hand-over on a pipe, socket or stream |
| `KeyRange` | ranges of names | `getPrefix`, `GetKeyPrefix`, `GetPermission` |
| `Conversions` | Go values to bytes and back | `NewValue`, one reader per type |
| `Auth` | the handlers of `auth.go`, on etcd's users and roles | one operator per handler |
| `Client` | the methods of the client library, on `AtomicStore` and `Auth` | `Invoke`, `Served`, `NotServed`, `Denied`, `Returns`, the same for `Auth`, the session |
| `Shell`, `MCShell` | the command-line program beside another program, on `Client` | tables of the commands, `Runs`, `Answered`, ... |
| `OpsProofs` | the operators of `Values` ... `Ops`: types, and which requests panic | |
| `ServerProofs` | `Server` is type correct; its locks exclude | extends `OpsProofs` |
| `StoreProofs` | no update is lost, locked keys stay, locks do not leak | extends `ServerProofs` |
| `AtomicProofs` | `Server` implements `AtomicStore` | extends `StoreProofs` |
| `WatcherProofs` | no change of a watched key is lost or overtaken, no subscription strays | |
| `ClientWatchProofs` | the rewatch is complete, channels are open when sent on | |
| `ProxyProofs` | the server's life and the sockets of `Proxy` | |
| `ShellProofs` | what is stored is read back, what a context keeps, what a failure means, what permissions cover | extends `OpsProofs` |

### Values

Stored values are byte strings; the model keeps what handlers can tell apart.
Protocol buffers omit defaults, so the integer 0, an empty list without limit and
an empty hash are all `Empty`, and decode as any of them (`Blank`).  A hash is,
on the wire, a list of its encoded entries, and decodes as one: elements of a
list are therefore records, `Plain(item)` or `Pair(field, item)`.  A list that
was written with elements of the second kind decodes as a hash.  Items are byte
strings that decode to no message.  The order in which a hash's entries are
encoded is arbitrary but fixed.  Names are pairs: base key and number of lock
suffixes, so that the lock of a lock exists.  `HashValues` returns the values in the
order of their fields, which the code sorts (`type_hash.go` 114-124).

### Server

`kv` is the etcd store, `h[p]` the handler goroutine that serves client `p` (one
outstanding request per client; add clients for concurrency), `res[p]` the last
result, `mine[p]` a history variable: the keys that `p` has locked by `Lock`.  A
handler's `pc` names the etcd call it makes next:

| `pc` | code | actions |
|---|---|---|
| `lock` | the loop of `LockWithTimeout` (`type_lock.go` 62-104) | `LockAcquire`, `LockTimeout` |
| `read` | the read of a read-modify-write handler, and what it decides | `Read` |
| `commit` | `UnlockThenSet` (112-148), called by a handler or a client | `UnlockThenSet` |
| `release` | `Unlock` (107-109), that is `Delete` of the lock's name | `Unlock`, `UnlockTimeout` |
| `wait` | sleep of a blocking pop (`type_list.go` 217-232, 268-284) | `PopAgain`, `PopGiveUp` |
| `put`, `delete`, `clear` | `Set`, `SetMany`, `Delete`, `Clear` | of the same names |
| `grant`, `expire` | the two calls of `SetExpire` (`type_keys.go` 73-89) | `LeaseGrant`, `SetExpire`, `LeaseExpires` |
| `get` | readers | `GetNow`, `GetBlock` |

Polling loops change nothing while they fail; a failed poll is a stuttering step
and the poll that finds the deadline passed is the `...Timeout` action.
`CallFails` makes the pending call of any handler return an error, applied or
not, and follows each handler's error path (most return with the lock held, some
unlock first).  `Crash` kills a server with its handlers; so does a panic
(`Down`), since nothing recovers.  A handler that forgets its lock is modelled as
it is: the outcome `Return` of `Decide`.

### Watcher

Requests go from `rpc` (the handler) to `bg` (`backgroundProcess`) by `reqCh`
(`TakeRequest` with `Cancel`, `Duplicate` or `StartWatch`) and are answered by
`resCh` (`Answer`).  Events go from etcd (`Change`, `CatchUp`) through
`streamCh` to `bg` (`FanOut`), copy by copy through `eventCh` to the sender
(`Offer`) and to the client (`Send`).  The channels of the code have no buffer, so
a rendezvous is one step.  etcd's own channel (buffer of 1024) is a FIFO queue.
`EtcdRange` is what etcd sends for a watch: the code passes an empty, non-nil
end of range, which mvcc takes as "from this key on", so that a watch of one key
gets more events than it asked for and the fan-out has to filter them.  Of a
prefix that is empty or has only bytes 0xff, `getPrefix` gives the end `"\0"`.  That
means "no end" in a request for a range, but `watch.go` 149 hands it to mvcc as it is,
where it is an end that comes before the key: such a watch gets nothing.  These
prefixes are `NoEnd`; nothing is assumed of their ranges, and what the model promises
of watches (`Expected`) leaves them out.  `MCWatcher` computes both from the ends
that the code asks for, with the operators of `KeyRange`.  One
change can reach a client several times (once per subscription that covers it and
matching watch); the model keeps the copies.

### ClientWatch

A client has one map of names that it watches, one of event channels, both under
one `sync.RWMutex`, and unbuffered channels `reqCh`, `resCh` and `closeCh`.
Each goroutine has a program counter `pc[g]`:

| goroutine | its steps | code (`client.go`) |
|---|---|---|
| `bg` | `Connect`, then per request `TakeUser`/`TakeRewatch` (rendezvous on `reqCh`, `Send`), `Reply` (rendezvous on `resCh`), `Record` (under the lock); `TakeClose` ends it, `Exit` is its deferred function, which starts the next | 829-853, 885-913 |
| `rewatch c`, one per connection | `StartRewatch` takes the read lock; it keeps it until the last name is answered | 855-866 |
| `receive c`, one per connection | `Loop` looks up `c.stream`, `RecvEvent`, `DeliverStart`, `Deliver`, `DeliverEnd` under the read lock; `RecvErr` and then a send on `closeCh` | 868-883 |
| `user u` | `Call`: `Watch` or `Unwatch` | 678-699 |
| `reader o` | `NewEventChannel`, `Read`, `CloseEventChannel` | 656-676 |
| `closer` | `CloseClient`, then a send on `closeCh` | 196-202 |

The lock is modelled with its writer preference: `Lock` first announces the
writer, which keeps later readers out (`CanRead`), and then waits for the
readers there are.  `closeCh` belongs to the client and not to a connection, and
`c.stream` is looked up anew for every event, so what the receiver of an old
connection sees and reports may concern the new one: `on[c]` is the connection
from which receiver `c` receives.  A name is a key with the number of
`suffixForKeysUsingPrefix` it carries.  Servers are external: a connection's
server keeps the set `srv[c]`, by the rule of `watch.go` 131-154, and a broken
connection (`Break`) takes what is sent on it with or without an error.  After
`Close` the client closes `reqCh` (a later call panics, `SendOnClosed`) and asks
for the end of a stream that it may never have had (`Exit`).

### Lifecycle and Proxy

`Lifecycle` has one goroutine for `main`, `Start` and `Close` (`pc` is its next
step), the two that `Start` leaves behind (`due` until they begin), and calls that
come and go.  `loadConfig` is modelled with its inverted test (`server.go` 62): a
configuration file that can be read is passed over, and one that cannot gives a
nil configuration, on which `NewServer` panics.  The gateway dials its own server
with TLS always (`mydis/server.go` 94): without TLS its calls fail (`Reachable`).

`Proxy` extends it and adds, per socket, the goroutines of
`websocket_proxy.go` and of the gateway:

| goroutine | its steps | code |
|---|---|---|
| `reader` | `CheckContext`, `ReadMessage`, the writes of a line (`Decodes`, `ReadNewline` are the reading side), `ReaderEnds` | `websocket_proxy.go` 98-123 |
| `handler` (`Routes`) | Watch: `OpenStream`, `FirstRequest` (`FirstBad`, `FirstEOF`), `Header`, `CheckHeader`, `ForwardEvent`, `ForwardEnd`; other calls: `UnaryRequest`, `UnaryCall`, `UnaryReply`, `UnaryBad` | `mydis.pb.gw.go` 30-730, 759-2191 |
| `sender` | `SendsOn`, `SenderStops`, `SenderCloses` | `mydis.pb.gw.go` 713-722 |
| `scanner` | `ScanLine`, `ScanTooLong`, `ScanEnd`, `WriteMessage`, `CancelContext`, `CloseSocket` | 66-69, 125-142 |
| closer | `Closer`, pipe by pipe | 85-90 |

The pipes have no buffer, so that the write of a line and the read of it are one
step.  A line is an event, a reply, an error or the end of a call; each of the first
three may be longer than the 64 KB that the scanner takes (`TooLong`), and the socket
is then closed without a word (`ScanTooLong`).  A socket's call is a Watch, a call
that is answered, or one that waits without end (`Waits`): a blocking `Get` or pop
without a time, whose loop looks at nothing but the store (`type_list.go` 217-232,
`type_bytes.go` 39-50).  The context of such a call is cancelled only as its
handler returns, not when its WebSocket goes, so that handler and call stay.
`gwErr` is the variable `err` of `request_Mydis_Watch_0`, which the sender
assigns to while the handler waits for the header (690, 723): when a later message
does not decode, the handler may then return an error for a call whose first
request was in order.  `ErrorsHaveCause` says that nothing else has this effect on a
client that is there.  The server's side is `Emit` and
`EndStream`; what a watch emits is `Watcher`'s business.  A client that vanishes
without closing its connection, with nothing to be sent to it, is noticed by
nobody in the code: such a client counts as one that is there.

### Client, Conversions, Auth, KeyRange, Shell

`Client` takes the service as `AtomicStore` describes it, which the runs `lists`
and `hashes` show the handlers to implement, and puts around it what the library
does: the request that a method makes of its arguments (`Message`), errors
(`normalizeError`), the metadata `md` of the client's context, and the way there
and back, on which a call can be lost, denied or turned away.  `put` and `said`
are history variables: the Go value that was stored last, and what the client was
told about its session.  A Go value is a record with one field named for its type.

`Auth` has etcd's users and roles as a variable and one operator per handler.
What a role lets its users do is left open (`MayRefuse`).  A name in `KeyRange`
is a sequence of bytes from 0 to `Top`.

`Shell` reads lines as the program does: from its arguments (one command, then it
exits), from a terminal (one line per read) or from a pipe (where the buffered
reader takes several lines and is dropped with them, `cli.go` 615).  The command
tables give each command its method and the positions of its arguments;
`Mistake` collects the errors that come before any call.  A second client, `go`,
uses what the command line does not: other Go types, hash fields as a map,
`LogOut`.

`ClientWatch` and `Watcher` are two ends of one stream and are checked apart so
far: `Watcher` checks that what a server has been asked to watch arrives;
`ClientWatch`, that the right server has been asked.

## 3. Runs

Passing runs (bounds in the `.cfg`):

| run | instance | shows |
|---|---|---|
| `counter` | 3 clients, 1 server, 1 failing call, 1 crash; `Lock`, `Unlock`, `UnlockThenSet`, increments, `Set`, `SetMany`, `Delete` of one key | `MutualExclusion`, `FreshRead` (no lost update), `LockedNotModified`, `TypeOK` with integers of 2 bits, so that they wrap |
| `lists` | 2 clients, 17 list requests, 1 failing call, 1 crash, lists up to 2 elements | the handlers implement `AtomicStore` |
| `hashes` | 2 clients on 2 servers, 13 hash and other requests on 2 keys, 1 crash | the same |
| `chaos` | 2 clients without discipline, names of locks as keys, `Clear`, `SetExpire`, the key `"\0"` | `SentinelClear`: the comparison that must always fail always fails |
| `waiting` | 2 clients, requests that block, fairness | `Answered`: all return; `NoOrphanLock` for the handlers that unlock on every path |
| `watcher` | 1 stream, 3 requests, 2 changes of 2 keys, a prefix that has no end; fairness | `NoGap`, `NoStray`, `WatchingAsAsked`, `InOrder`, `Notified`, `Released` |
| `client_watch` | 1 user of 2 keys with 2 calls of `Watch` or `Unwatch`, 1 event channel with room for 1 event, 3 connections of which 1 breaks, `Close` | `RewatchComplete` (what is on record is watched once the connection's rewatch is through), `NoSendOnClosed`, `TypeOK` |
| `proxy` | 1 socket, for a Watch, a call or a call that waits without end, 1 direct call, 2 messages, 2 events (an event, a reply, an error may be a long line), the whole life of the server; fairness | `EtcdWhileCalled`, `ClosedForGood`, `CloseReturns` of the server; `RequestsInOrder`, `EventsInOrder`, `LastWord`, `ErrorsHaveCause`, `Arrives`, `Unwinds` of the socket |
| `shell` | any 2 of 68 lines, 1 of 17 calls of another program, 4 ways to start | `RoundTrip`, `SessionKept`, `FailsClean`, `PatternsCover`, `ShellTypeOK` |

Runs that end in a violation show where the code and its documentation differ:

| run | what happens |
|---|---|
| `setnx_leak` | `SetNX` of an existing key leaves the key locked for ever |
| `expire_value` | `SetExpire` replaces the value by an empty one (and does not look at the lock) |
| `reconnect` | the rewatch goroutine holds the read lock and waits for `bg` to take its request, `bg` waits for the write lock: the client hangs, even without a break when the first `Watch` overtakes the start of that goroutine |

More of the same kind are in the model as the code has them, without a run of
their own; the properties of the passing runs leave them out, as said there.

- *Data.*  `ListDeleteItem` of a missing item keeps the lock (`type_list.go` 375).
  `SetListItem`, `ListDelete` and `GetListItem` panic for an index of the length or
  one more, the first and the last also for minus the length minus one: their
  range checks let these pass (`type_list.go` 93, `DeathsOfWriters` in section 4).
  `SetHashField` panics on a hash whose last field was deleted (`type_hash.go` 154).
- *Watching.*  A watch of a prefix that is empty or has only bytes 0xff gets nothing
  (`watch.go` 149; `NoEnd`).  `Unwatch` of a key that is not watched starts a watch
  (`watch.go` 133; `Polite` keeps clients from it, and with `Polite = FALSE` TLC finds
  `WatchingAsAsked` violated).  After a reconnect a prefix is watched under the name
  of its record, with the suffix (`client.go` 863; `ClientWatch.cfg` has no prefixes
  for that reason).
- *Ending.*  A pop or `Get` that waits without end keeps its handler, its socket's
  goroutines and `Close`, also when its WebSocket client has gone (`type_list.go`
  217-232; `Unwinds` and `CloseReturns` name such calls).  An event, a reply or an
  error of more than 64 KB ends its socket without a word (`websocket_proxy.go` 126;
  the premise of `LastWord`).
- *Client and command line.*  A time loses all but the part within its second
  (`util/value.go` 72; `RoundTrip` takes times modulo a second).  `SetLockTimeout` logs
  a client out (`client.go` 246; `SessionKept` leaves the token open after it).  `SETNX`
  reports a usage error after it has done its work (`cli.go` 228; "usage after all",
  of which `FailsClean` does not speak).  `SETHASHFIELD` takes its second argument for
  the key (`cli.go` 478).  Lines that come by a pipe are lost to a reader that is
  dropped (`cli.go` 615; `Reads`).
- *Permissions.*  A permission for an exact name is one for that name and every name
  after it: `GetKeyPrefix` gives it the end `"\0"` (`client/util.go` 32).  `PatternsCover`
  is about patterns.
- *Start.*  `loadConfig` tests `err != nil` for `err == nil` (`server/server.go` 62).

**Bounds.** `MaxLen` limits lists when a request is sent, never inside a handler,
so a handler runs to its end on any list it finds; two elements are enough for
an index to be first, last, and out of range on both sides.  `Half` is half the
number of integers (4 or 8 integers: a sum wraps after two steps).  Two clients
give every pairwise interleaving of handlers; the third of `counter` lets one
hold the lock while two compete.  One failing call and one crash leave a lock
behind or an update half done at every place in every handler; each further one
repeats that from a state that is already covered.  `Depth` is the number of lock
suffixes: requests name keys with at most `Depth - 2` of them, because a handler
reaches the lock of the lock (an `Unlock` is a `Delete`).  For `Watcher`, three
requests make a watch, an overlapping one and a cancel; of the two keys one is a
prefix of the other, and the empty prefix stands for those that have no end;
a stream shares nothing
with other streams but the store, so one is enough.  `MaxChanges = 2` gives a
change before and one after, and a batch of two events for a watch with history.
In `ClientWatch` the third connection is there because one break can cost two
of them: the receiver of the broken one may already receive from the next, and
report an error of that.  One user with two calls puts two names on record, and a
rewatch in the way of a later call.
In `Proxy`, sockets share only the server, so one beside a direct call gives every
order in which a call, a socket and `Close` can meet; two messages are a first
request and a later one, either of which may not decode; two events let one wait
while the other is on its way.  In `shell`, two lines are one that makes a state
and one that meets it, with a call of another program before, between or during
them; bytes go from 0 to 3 so that there are names that end in the largest one, and
one of the words that `strconv.ParseFloat` takes is an infinity.
`CHECK_DEADLOCK FALSE` stands in the runs of `Watcher`, `ClientWatch`, `Proxy` and
`Shell`, whose programs end, too: a system
whose client has gone, or that has been closed, and whose bounds are reached has
nothing left to do; where the client must go on, `Reconnects` says so.

**Symmetry** permutes clients, in safety runs only.

**Fairness.** `Server`: weak fairness of each handler's steps (a goroutine keeps
running and etcd answers; `waiting` has no failing calls but needs none to
succeed), and strong fairness of `PopGiveUp`: the time a blocking pop has waited
grows by 10 ms in every round (`type_list.go` 217-232, 268-284), so its deadline comes,
however often it finds the list empty.  No fairness of clients is assumed: a
client may keep a lock for ever and others still get their answer.  `Watcher`:
weak fairness of each goroutine and of etcd; of the sender, because `Send` fails
when the client has gone and gRPC's flow control is assumed to let a client that
stays get its events.  Clients and changes have none.  `ClientWatch`, in
`reconnect`: strong fairness of each goroutine (Go serves those that wait for a
mutex or at a channel in the order in which they came) and of `Connect` (a
connection can be made some time).  Users, the network and events have none.
`Proxy`: weak fairness of each goroutine of a socket (a goroutine that can go on
does), of the end of a Watch call whose client has ended it
(`watch.go` 194-198) and of the steps of `Close`.  Calls have it as far as they
answer: a call that waits without end (`Waits`) and a direct call, which may be an open
Watch or a blocking pop of a client that stays, need not end, and `Unwinds` and
`CloseReturns` say what holds then.  Clients and the server's events have none.

## 4. Proofs

- `OpsProofs`: `DecideType` and `AnswerType`, that every handler, on any stored
  value, yields an outcome whose value is again a well-formed value and whose
  result is a result.  They rest on one lemma per handler, and those on lemmas
  about wrap-around, lists, limits and maps.
  `DeathsOfWriters` and `DeathsOfReaders` say exactly which requests end in a run-time
  panic, which takes the server down: indices that slip through the range checks
  (`Slips`, `Precedes`), growing a list whose limit is negative, and assigning to a
  hash that has lost its last field.  They hold for lists shorter than `Half - 1`, which
  is to say 2^63 - 1 elements; there `index-1` and `-index-1` wrap around for the
  smallest integer only, and that index counts as past the end.
- `ServerProofs`, types: `TypeCorrect`, `Spec => []TypeOK`.  `TypeOK` is inductive given
  `DecideType` and `AnswerType`; the proof has one step per action.
- `ServerProofs`, the locks: `LocksExclude`, `Polite => (Spec => []MutualExclusion)`.  `Polite`
  says of the constants what the result needs: clients unlock only what they
  locked (`Disciplined`), never send `Clear`, and never write names of locks.
  `MutualExclusion` alone is not inductive: a step of a second party could enter
  because nothing says that the lock is taken.  The inductive invariant adds
  `LockInv` (whoever works on a key has its lock in the store) and `PoliteInv`
  (the requests in the handlers are polite and no lock has a lock), on top of
  the types.  Failing calls, applied or not, and crashes are part of `Next`, so
  the theorem holds for any number of them.

- `StoreProofs`, on top of it.  `SentinelNeverStored` needs no hypothesis: nothing
  a client can send puts one zero byte at the key `"\0"`.  `NoLostUpdate`
  (`FreshRead`) and `LockedKeysKept` (`LockedNotModified`) rest on `StoreInv`, which
  adds to the invariant of `ServerProofs` that what a handler carries fits its request
  and its step (`FitInv`), and that no lease is pending or stored (`NoLease`).  The
  argument: whoever writes a key in one etcd call compares its lock in that call
  (`ChangesFree`), or holds the lock and then removes it with the write.
  The hypothesis `Unleased` (no `SetExpire`) is the code's doing: `SetExpire` looks at
  no lock, and run `expire_value` shows what it does to a value.
  `NoLockLeaks` (`NoOrphanLock`) is stated for `AllSure`: nothing fails, and requests
  are such that their handlers unlock on every path.  `SureOps` lists the handlers
  that always do; the others are `SetNX`, `ListDeleteItem`, `SetHashField(s)`, and the
  indexed ones except for the indices 0 and -1 (section 3), and every handler that
  meets a list with a negative limit (`UnbentInv` keeps those away) or one that locks
  the sentinel's key, which it can never unlock.  It goes by `Handover`: a base key
  becomes locked only by a step that makes somebody its holder, and a holder stops
  being one only by a step that unlocks.
- `AtomicProofs`: `Linearizable`, `Spec => ImplementsAtomicStore`, for `Polite`,
  `Unleased` and `Scoped` constants; all bounds, failing calls and crashes included.
  The refinement mapping is the one of the run: the abstract store is `kv` on the
  base keys, the abstract client is busy until `res` is set.  The proof has one lemma
  per action of `Server`: the step that writes the key (or, of a reader, reads it) is
  `Do`, the others stutter, and what ends a handler early is `TurnedAway`,
  `TimedOut` or `Lost*`.  That `Do` writes what the handler decided from an earlier
  read is `FreshRead`.  `Scoped` leaves out requests that are not one step in the
  code either (`SetMany` sets key after key) and those that range over all
  names and so see lock keys (`Keys`, `KeysWithPrefix`, `GetWithPrefix`).
- `WatcherProofs`: `NoChangeLost` (of watches whose range has an end), `ChangesInOrder`, `NoSubscriptionStrays`,
  `AgreedWatches` (of `Polite` clients) and `WatchTypes`, for any number of streams,
  keys, requests and changes.  `WatchInv` has, per stream, the books: who waits for
  whom (`InStep`), how many requests were taken and which subscription ids that
  leaves free (`Numbered`), that the map of watches and the subscriptions tell the same
  (`Recorded`, `Agreed`); and the pipeline: every change that a synced subscription
  has had to send is carried by one of the queues or has arrived (`Covered`),
  nothing is carried that did not happen, and what is carried is sorted (`InLine`).
  Queues of batches are flattened by a recursive function of the library, and what
  flattening does is needed for every length: those lemmas argue by the least
  counterexample, because the induction theorems cannot be instantiated.
- `ClientWatchProofs`: `ClientTypes`, `ChannelsOpen`, `RewatchIsComplete`.
  `ChannelsOpen` is the argument of a read-write lock: a receiver that still has
  channels to send on is among the readers, and those channels are open (`Delivering`);
  a channel is closed by the writer only, who waits for the readers.
  `RewatchComplete` needs `Complete`: of the names on record each is watched by
  the server of the connection, or still to be sent by its rewatch, or being
  cancelled by the request under way.  The hypothesis `NoPrefixes` is again the
  code's doing: a rewatch asks for a prefix under a name that has the suffix
  already (`client.go` 863).  `ClientWatch.cfg` satisfies it.
- `ProxyProofs`, the server: `EtcdOutlivesCalls` and `NothingServedAfterClose`, that is
  `Spec => []EtcdWhileCalled` and `Spec => []ClosedForGood`.  Neither is inductive:
  that calls end before etcd does follows from what the gRPC server is doing at
  each step of `Start` and `Close`, and the port is free because whoever comes
  second, `Close` or the serving goroutine, frees it.  `Life` says both
  (`GrpcByStep`, `CallsServed`, `PortsByStep`).  One lemma, `SocketsOnlyCall`,
  shows that a step of a socket can do nothing to the server but begin a call
  while it serves, or end one; after it there is one case per step of the server.
- `ProxyProofs`, the sockets: `RequestsArriveInOrder`, `EventsArriveInOrder`,
  `LastWordGiven` (for lines that are not too long, be they events, replies or errors),
  `FailuresHaveCauses` and `ProxyTypes`, for any number of sockets, messages and events.
  `ProxyInv` has one part for the requests (`Requests`: whoever decodes has passed on
  every message that the read loop has handed over, and only one goroutine decodes)
  and several for the events: what is on the wire are the last of the events sent
  (`Passing`); while handler and scanner are at work the client has every event that
  was passed on, except for one in the hands of each (`Flowing`); once the handler has
  returned, the last word waits, is being sent, or has been given (`Ending`); and
  scanning ends after it or at a long line (`Stopped`).  The steps are sorted into
  those that move no line (`Aside`), those that come to a reply (`Answers`), those
  that end the write loop (`WindsDown`), and six that move a line.  It matters
  that the context is cancelled only when nobody can be written to any more, or as
  the handler returns: the closed pipe then loses nothing but what is lost anyway.
  `FailuresHaveCauses` (`ErrorsHaveCause`) rests on `BlamedInv`: as long as there is
  a client to tell, the shared `err` is set, and an error is on its way, only if a
  message did not decode or the call could not be made.

- `ShellProofs`, for any lines, words, spellings, users, calls of the other program
  and any number of each; calls may be turned away, refused, or lost on either way.
  - `ContextKept` (`SessionKept`): of all steps only `Authenticated`, `LogOut` and
    `SetLockTimeout` touch the metadata (`MetadataSteps`); `SessionInv` adds that `md`
    and `said` are records.
  - `FailuresAreClean` (`FailsClean`): `CleanInv` adds that nothing has been done as
    long as the call is under way, and that once something has, the answer that
    waits is a success or the error of an outage, and neither is shown as a
    failure.  `ShownAs` follows such an answer through `Returned` and `Outcome`.
  - `ShellTyped` (`ShellTypeOK`) and `PatternsAreCovered` (`PatternsCover`) rest on
    `CallsInv`: a call under way is the `Message` of the method that is being called,
    that method is the `CallOf` of the line that is being run, and roles, permissions
    and users belong together.  That a line's call is a well-formed request goes
    through the tables: `CommandTable` and `MethodTable` give, for each command and
    each method, the arguments that it has.
  - `PrefixRange`, for all sequences of bytes and any largest byte: the range from
    `s` to `getPrefix(s)` contains the names that begin with `s` and no others.  A
    name that does not begin with `s` differs from it at a first place, and `s` differs
    from its end at the last byte that is not the largest; the proof compares the two
    places.  Of a prefix that has only largest bytes the range has no end.
  - `ValuesReturn` (`RoundTrip`): `PutsInv` says that a key whose Go value is on record
    holds that value's encoding, and that it has one.  `ReadBack` reads every type back;
    that handlers store the bytes of `NewValue` as they are is `MarshalNew`: what
    `NewValue` makes is encoded already.

Proving these changed the model in five places where TLC had seen no difference:
`CASE` expressions whose guards overlapped, and of which TLC takes the first, became
`IF`s; the request of `LockWithTimeout` now names the handler that serves it (its `op`
had been none of the service's); the number of a request may be an infinity, as
`INCREMENTFLOAT` can send one; an assumption about users had been parsed as a
weaker one; and `Second` is bounded, so that what is kept of a time is an `int64`.

Assumptions are the `ASSUME`s of `Values`, `Server`, `Watcher`, `ClientWatch`,
`Proxy`, `Conversions`, `KeyRange` and `Shell`: finite `Fields`, at least one integer,
well-formed requests, natural bounds, ranges of etcd that contain what a watch asks
for (unless it is a prefix without end, of whose range nothing is assumed), words
that parse to numbers of the right width (`WordsAssumption`), calls whose
arguments have the types of the methods' parameters (`UsesAssumption`), and users at
the start whose roles exist (`StartsAssumption`).  TLC evaluates them for every run's
instance.  The sets of clients, servers, keys, items, streams,
users, sockets and direct calls are arbitrary.  `Polite`, `Unleased`, `Scoped`,
`AllSure` and `NoPrefixes` are hypotheses of the theorems, about constants; the
run that checks the property on a small instance satisfies them.

Only model-checked: liveness (`Answered`, `Notified`, `Released`, `Reconnects`,
`Unwinds`, `Arrives`, `CloseReturns`), which the prover does not reach.  `NoOrphanLock`
when nothing is assumed of the requests, `ExpireKeepsValue` and `Reconnects` are
false (runs `setnx_leak`, `expire_value`, `reconnect`).  Every invariant and every
action property of a passing run is stated by a theorem.

## 5. Not modelled

- Certificates (`util/certs.go`): made once, shared with nobody.
- Formatting: what the command-line program prints, accessors and text forms of
  the generated messages, logging.
- The limit and the past revision of a `Key`, which no method of the client sets.
- The ids of event channels and the resolver that picks a server.
- The request headers that the proxy copies, and upgrades that fail.
- Raw bytes that happen to decode as a message, and integers below 64 bits.

## 6. What could come next

1. The composition of `ClientWatch` and `Watcher` over a stream that breaks, with
   the abstract specification "changes of what is watched arrive, in order".
2. `SetMany` in the refinement of `AtomicStore`, as one `Do` per key.
3. Integers below 64 bits in `Conversions`, with what `int(...)` of a wider one keeps.
