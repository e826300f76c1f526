------------------------------- MODULE Proxy --------------------------------
(***************************************************************************)
(* Mydis over WebSockets: the proxy (mydis/websocket_proxy.go), the        *)
(* gateway's handlers (pb/mydis.pb.gw.go), and the server they call.       *)
(*                                                                         *)
(* For each socket s there are                                             *)
(*   reader   the proxy's read loop: a message becomes a line of the       *)
(*            request body, a synchronous pipe;                            *)
(*   handler  ServeHTTP: decodes the request and makes the call; of the    *)
(*            Watch call, writes each event to the response body, a        *)
(*            synchronous pipe as well;                                    *)
(*   sender   Watch only: decodes the further requests and sends them;     *)
(*   scanner  the proxy's write loop: a line becomes a message;            *)
(*   closer   waits for the context to be cancelled, closes both pipes.    *)
(* A step that hands something over is one step of both sides.             *)
(*                                                                         *)
(* The gateway takes the call over TLS only (Server.Start): without it no  *)
(* call can be made.                                                       *)
(***************************************************************************)
EXTENDS Lifecycle, Sequences, SequencesExt

CONSTANTS Sockets,     \* WebSocket connections
          MaxMessages, \* bound: messages a client sends
          MaxEvents    \* bound: events of a Watch call
ASSUME ProxyAssumption == /\ MaxMessages \in Nat /\ MaxEvents \in Nat
                          /\ Calls \cap Sockets = {}

VARIABLES client,    \* per socket: "off", "open" or "gone"
          route,     \* the call it is for: "watch", or one with one reply, "call", or
                     \* "wait" when it waits with no deadline (a pop, a Get, a Lock)
          typed,     \* the messages its client has sent
          nread,     \* how many of them the read loop has read
          ctxDone,   \* its context has been cancelled
          pipes,     \* the pipes not yet closed
          reader, handler, sender, scanner, \* where the goroutines are
          gwErr,     \* whether err, which handler and sender share, is set
          srv,       \* the server's side of the call
          reqs,      \* the requests that the server has received
          emitted,   \* the events that the server has sent
          wire,      \* those that the gateway has not yet received
          line,      \* what the handler writes, what the scanner sends
          rest,      \* what the scanner has of a line without end
          got        \* the messages that the client has received

proxyVars == <<client, route, typed, nread, ctxDone, pipes, reader, handler, sender, scanner,
               gwErr, srv, reqs, emitted, wire, line, rest, got>>
vars == <<serverVars, proxyVars>>
callVars == <<srv, reqs, emitted, wire>>
outVars  == <<line, rest, got>>

Routes   == {"watch", "call", "wait"}
Messages == {"good", "bad"} \* what decodes as a request of the call, and what does not

Event(n) == <<"event", n>>
Long(n)  == <<"long", n>>   \* an event that makes a line longer than 64 KB
Reply    == <<"reply">>     \* of a call that is not Watch
Error    == <<"error">>     \* the gateway could not make the call
TooLong  == <<"too long">>  \* a reply or an error of more than 64 KB
End      == <<"end">>       \* the Watch call has ended (its error is "EOF")
IsLong(l)  == l[1] \in {"long", "too long"}
IsEvent(l) == l[1] \in {"event", "long"}

-----------------------------------------------------------------------------
(* The client.                                                             *)

\* The socket is upgraded and the proxy's goroutines start.
Connect(s, r) ==
  /\ "http1" \in bound /\ "gateway" \notin due
  /\ client[s] = "off"
  /\ client' = [client EXCEPT ![s] = "open"]
  /\ route' = [route EXCEPT ![s] = r]
  /\ reader' = [reader EXCEPT ![s] = "select"]
  /\ handler' = [handler EXCEPT ![s] = IF r = "watch" THEN "open" ELSE "decode"]
  /\ scanner' = [scanner EXCEPT ![s] = "scan"]
  /\ UNCHANGED <<serverVars, typed, nread, ctxDone, pipes, sender, gwErr, callVars, outVars>>

Type(s, m) ==
  /\ client[s] = "open" /\ Len(typed[s]) < MaxMessages
  /\ typed' = [typed EXCEPT ![s] = Append(@, m)]
  /\ UNCHANGED <<serverVars, client, route, nread, ctxDone, pipes, reader, handler, sender,
                 scanner, gwErr, callVars, outVars>>

Leave(s) ==
  /\ client[s] = "open"
  /\ client' = [client EXCEPT ![s] = "gone"]
  /\ UNCHANGED <<serverVars, route, typed, nread, ctxDone, pipes, reader, handler, sender,
                 scanner, gwErr, callVars, outVars>>

-----------------------------------------------------------------------------
(* The read loop.                                                          *)

ReaderStep(s, from, to) ==
  /\ reader[s] = from
  /\ reader' = [reader EXCEPT ![s] = to]
  /\ UNCHANGED <<serverVars, client, route, typed, pipes, handler, sender, scanner, gwErr,
                 callVars, outVars>>

\* Mutant: an error ends the loop but does not cancel the context.
ReaderQuits(s, from) == ReaderStep(s, from, "done") /\ UNCHANGED <<nread, ctxDone>>

\* Its deferred function cancels the context.
ReaderEnds(s, from) ==
  /\ ReaderStep(s, from, "done")
  /\ ctxDone' = [ctxDone EXCEPT ![s] = TRUE]
  /\ UNCHANGED nread

CheckContext(s) == /\ ReaderStep(s, "select", "read") /\ ~ctxDone[s]
                   /\ UNCHANGED <<nread, ctxDone>>
FindsCancelled(s) == ReaderEnds(s, "select") /\ ctxDone[s]

\* Mutant: the loop goes on although nothing has come.
ReadsNothing(s) ==
  /\ ReaderStep(s, "read", "write")
  /\ nread' = [nread EXCEPT ![s] = @ + 1]
  /\ UNCHANGED ctxDone

ReadMessage(s) ==
  /\ nread[s] < Len(typed[s])
  /\ ReaderStep(s, "read", "write")
  /\ nread' = [nread EXCEPT ![s] = @ + 1]
  /\ UNCHANGED ctxDone

\* The client has gone and all it sent is read, or the proxy closed the socket.
ReadFails(s) ==
  /\ (client[s] = "gone" /\ nread[s] = Len(typed[s])) \/ scanner[s] = "done"
  /\ ReaderEnds(s, "read")

\* The write of a message fails, and of the line's end too, when the pipe is
\* closed.  Only the first error counts.
WriteFails(s) == ReaderEnds(s, "write") /\ "request" \notin pipes[s]
NewlineFails(s) == /\ ReaderStep(s, "newline", "select") /\ "request" \notin pipes[s]
                   /\ UNCHANGED <<nread, ctxDone>>

Reader(s) == \/ CheckContext(s) \/ FindsCancelled(s) \/ ReadMessage(s) \/ ReadFails(s)
             \/ WriteFails(s) \/ NewlineFails(s)

-----------------------------------------------------------------------------
(* The decoder of the request body, which the handler uses for the first   *)
(* request and the sender for the others.                                  *)

Decoding(s) == handler[s] = "decode" \/ sender[s] = "decode"
Message(s) == typed[s][nread[s]]

\* The decoder reads the end of the line before.
ReadNewline(s) ==
  /\ Decoding(s)
  /\ ReaderStep(s, "newline", "select")
  /\ UNCHANGED <<nread, ctxDone>>

\* It takes the message m that the reader writes.
Decodes(s, m) ==
  /\ reader[s] = "write" /\ Message(s) = m
  /\ reader' = [reader EXCEPT ![s] = "newline"]
  /\ UNCHANGED <<serverVars, client, route, typed, nread, ctxDone, pipes, scanner, outVars>>

AtEOF(s) ==
  /\ "request" \notin pipes[s]
  /\ UNCHANGED <<serverVars, client, route, typed, nread, ctxDone, pipes, reader, scanner, outVars>>

\* stream.Send and stream.CloseSend.
SendRequest(s) == /\ reqs' = [reqs EXCEPT ![s] = Append(@, nread[s])]
                  /\ UNCHANGED <<srv, emitted, wire>>
CloseSend(s) == /\ srv' = [srv EXCEPT ![s] = IF @ = "open" THEN "half" ELSE @]
                /\ UNCHANGED <<reqs, emitted, wire>>

-----------------------------------------------------------------------------
(* The sender of a Watch call.                                             *)

\* Mutant: an error of the decoder is logged, and what there is of the request sent.
SendsBad(s) ==
  /\ sender[s] = "decode" /\ Decodes(s, "bad")
  /\ SendRequest(s)
  /\ UNCHANGED <<handler, sender, gwErr>>

SendsOn(s) ==
  /\ sender[s] = "decode" /\ Decodes(s, "good")
  /\ IF srv[s] = "open" THEN SendRequest(s) /\ UNCHANGED sender
                        ELSE sender' = [sender EXCEPT ![s] = "close"] /\ UNCHANGED callVars
  /\ gwErr' = [gwErr EXCEPT ![s] = srv[s] # "open"]
  /\ UNCHANGED handler

\* err is the handler's variable too.
SenderStops(s) ==
  /\ sender[s] = "decode"
  /\ Decodes(s, "bad") \/ AtEOF(s)
  /\ sender' = [sender EXCEPT ![s] = "close"]
  /\ gwErr' = [gwErr EXCEPT ![s] = TRUE]
  /\ UNCHANGED <<handler, callVars>>

SenderCloses(s) ==
  /\ sender[s] = "close"
  /\ sender' = [sender EXCEPT ![s] = "done"]
  /\ CloseSend(s)
  /\ UNCHANGED <<serverVars, client, route, typed, nread, ctxDone, pipes, reader, handler,
                 scanner, gwErr, outVars>>

Sender(s) == SendsOn(s) \/ SenderStops(s) \/ SenderCloses(s)
-----------------------------------------------------------------------------
(* The handler.                                                            *)

To(s, state) == handler' = [handler EXCEPT ![s] = state]
Writes(s, state, l) == To(s, state) /\ line' = [line EXCEPT ![s].out = l] /\ UNCHANGED <<rest, got>>
\* The error's text may quote the message that does not decode.
Refuses(s) == \E l \in {Error, TooLong} : Writes(s, "reply", l)
HandlerOnly == UNCHANGED <<client, route, typed, nread, ctxDone, pipes, reader, scanner>>

\* The gateway can make a call.
Reachable == grpc = "serving" /\ secure
Running(calls) == running' = calls /\ UNCHANGED <<pc, cfg, etcd, secure, grpc, bound, due>>

OpenStream(s) ==
  /\ handler[s] = "open" /\ Reachable
  /\ To(s, "decode")
  /\ srv' = [srv EXCEPT ![s] = "open"]
  /\ Running(running \cup {s})
  /\ HandlerOnly /\ UNCHANGED <<sender, gwErr, reqs, emitted, wire, outVars>>

\* The call cannot be made: the reply is an error.
CallFails(s) ==
  /\ handler[s] \in {"open", "call"} /\ s \notin running /\ ~Reachable
  /\ Writes(s, "reply", Error)
  /\ HandlerOnly /\ UNCHANGED <<serverVars, sender, gwErr, callVars>>

\* Mutant: no sender is started.
FirstAndLast(s) ==
  /\ handler[s] = "decode" /\ route[s] = "watch"
  /\ Decodes(s, "good")
  /\ SendRequest(s)
  /\ To(s, "header")
  /\ UNCHANGED <<sender, gwErr>>

\* The first request of a Watch call: it is sent, the sender starts, and the
\* handler waits for the server to answer.
FirstRequest(s) ==
  /\ handler[s] = "decode" /\ route[s] = "watch"
  /\ Decodes(s, "good")
  /\ SendRequest(s)
  /\ To(s, "header")
  /\ sender' = [sender EXCEPT ![s] = "decode"]
  /\ UNCHANGED gwErr

\* Without a first request there is no call to forward, at the end of the body
\* there is an empty one.
FirstBad(s) ==
  /\ handler[s] = "decode" /\ route[s] = "watch"
  /\ reader[s] = "write" /\ Message(s) = "bad"
  /\ reader' = [reader EXCEPT ![s] = "newline"]
  /\ CloseSend(s)
  /\ Refuses(s)
  /\ UNCHANGED <<serverVars, client, route, typed, nread, ctxDone, pipes, sender, scanner, gwErr>>
FirstEOF(s) ==
  /\ handler[s] = "decode" /\ route[s] = "watch"
  /\ AtEOF(s)
  /\ CloseSend(s)
  /\ To(s, "recv")
  /\ UNCHANGED <<sender, gwErr>>

\* The server sends the header with its first event, or as the call ends.
Header(s) ==
  /\ handler[s] = "header"
  /\ wire[s] # << >> \/ srv[s] = "ended"
  /\ To(s, "check")
  /\ gwErr' = [gwErr EXCEPT ![s] = FALSE]
  /\ HandlerOnly /\ UNCHANGED <<serverVars, sender, callVars, outVars>>

\* Mutant: the test is the wrong way round.
ChecksNoError(s) ==
  /\ handler[s] = "check"
  /\ IF gwErr[s] THEN To(s, "recv") /\ UNCHANGED outVars ELSE Refuses(s)
  /\ HandlerOnly /\ UNCHANGED <<serverVars, sender, gwErr, callVars>>

\* By the time the handler looks at err, the sender may have set it.
CheckHeader(s) ==
  /\ handler[s] = "check"
  /\ IF gwErr[s] THEN Refuses(s) ELSE To(s, "recv") /\ UNCHANGED outVars
  /\ HandlerOnly /\ UNCHANGED <<serverVars, sender, gwErr, callVars>>

\* It receives an event, and writes it as a line.
ForwardEvent(s) ==
  /\ handler[s] = "recv" /\ wire[s] # << >>
  /\ Writes(s, "write", Head(wire[s]))
  /\ wire' = [wire EXCEPT ![s] = Tail(@)]
  /\ HandlerOnly /\ UNCHANGED <<serverVars, sender, gwErr, srv, reqs, emitted>>

\* Mutant: the call's end is reported as soon as it is under way.
ForwardEndEarly(s) ==
  /\ handler[s] = "recv" /\ srv[s] \in {"half", "ended"}
  /\ Writes(s, "reply", End)
  /\ HandlerOnly /\ UNCHANGED <<serverVars, sender, gwErr, callVars>>

ForwardEnd(s) ==
  /\ handler[s] = "recv" /\ wire[s] = << >> /\ srv[s] = "ended"
  /\ Writes(s, "reply", End)
  /\ HandlerOnly /\ UNCHANGED <<serverVars, sender, gwErr, callVars>>

\* A call with one request and one reply.
UnaryRequest(s) ==
  /\ handler[s] = "decode" /\ route[s] # "watch"
  /\ Decodes(s, "good")
  /\ To(s, "call")
  /\ UNCHANGED <<sender, gwErr, callVars>>
UnaryBad(s) ==
  /\ handler[s] = "decode" /\ route[s] # "watch"
  /\ \/ reader[s] = "write" /\ Message(s) = "bad" /\ reader' = [reader EXCEPT ![s] = "newline"]
     \/ "request" \notin pipes[s] /\ UNCHANGED reader
  /\ Refuses(s)
  /\ UNCHANGED <<serverVars, client, route, typed, nread, ctxDone, pipes, sender, scanner, gwErr,
                 callVars>>
UnaryCall(s) ==
  /\ handler[s] = "call" /\ s \notin running /\ Reachable
  /\ Running(running \cup {s})
  /\ HandlerOnly /\ UNCHANGED <<handler, sender, gwErr, callVars, outVars>>
UnaryReply(s) ==
  /\ handler[s] = "call" /\ s \in running
  /\ Running(running \ {s})
  /\ \E l \in {Reply, TooLong} : Writes(s, "reply", l)
  /\ HandlerOnly /\ UNCHANGED <<sender, gwErr, callVars>>

\* As it returns the context of the call is cancelled, then that of the proxy.
Returns(s) ==
  /\ To(s, "done")
  /\ ctxDone' = [ctxDone EXCEPT ![s] = TRUE]
  /\ srv' = [srv EXCEPT ![s] = IF @ \in {"open", "half"} THEN "cancelled" ELSE @]
  /\ UNCHANGED <<serverVars, client, route, typed, nread, pipes, reader, sender, gwErr, reqs,
                 emitted, wire, line, got>>

\* What the handler writes is lost when the pipe is closed.
ResponseClosed(s) ==
  /\ handler[s] \in {"write", "reply"} /\ "response" \notin pipes[s]
  /\ Returns(s)
  /\ UNCHANGED <<scanner, rest>>

\* The reply has no end of line: the scanner keeps it for when the body ends.
HandlerReplies(s) ==
  /\ handler[s] = "reply" /\ scanner[s] = "scan" /\ ~IsLong(line[s].out)
  /\ rest' = [rest EXCEPT ![s] = Append(@, line[s].out)]
  /\ Returns(s)
  /\ UNCHANGED scanner

Handler(s) ==
  \/ OpenStream(s) \/ CallFails(s) \/ FirstRequest(s) \/ FirstBad(s) \/ FirstEOF(s)
  \/ Header(s) \/ CheckHeader(s) \/ ForwardEvent(s) \/ ForwardEnd(s)
  \/ UnaryRequest(s) \/ UnaryBad(s) \/ UnaryCall(s) \/ UnaryReply(s)
  \/ ResponseClosed(s) \/ HandlerReplies(s)

-----------------------------------------------------------------------------
(* The server's side of a Watch call (module Watcher has its details).     *)

Emit(s, l) ==
  /\ srv[s] \in {"open", "half"} /\ reqs[s] # << >>
  /\ Len(emitted[s]) < MaxEvents
  /\ emitted' = [emitted EXCEPT ![s] = Append(@, l)]
  /\ wire' = [wire EXCEPT ![s] = Append(@, l)]
  /\ UNCHANGED <<serverVars, client, route, typed, nread, ctxDone, pipes, reader, handler,
                 sender, scanner, gwErr, srv, reqs, outVars>>

\* Mutant: the server does not notice that the call is cancelled.
EndsAtHalfClose(s) ==
  /\ srv[s] = "half"
  /\ srv' = [srv EXCEPT ![s] = "ended"]
  /\ Running(running \ {s})
  /\ UNCHANGED <<client, route, typed, nread, ctxDone, pipes, reader, handler, sender, scanner,
                 gwErr, reqs, emitted, wire, outVars>>

\* The call ends when its client has closed its side, or cancelled it.
EndStream(s) ==
  /\ srv[s] \in {"half", "cancelled"}
  /\ srv' = [srv EXCEPT ![s] = "ended"]
  /\ Running(running \ {s})
  /\ UNCHANGED <<client, route, typed, nread, ctxDone, pipes, reader, handler, sender, scanner,
                 gwErr, reqs, emitted, wire, outVars>>

-----------------------------------------------------------------------------
(* The closer and the write loop.                                          *)

Closer(s, pipe) ==
  /\ ctxDone[s] /\ pipe \in pipes[s]
  /\ pipe = "response" => "request" \notin pipes[s]
  /\ pipes' = [pipes EXCEPT ![s] = @ \ {pipe}]
  /\ UNCHANGED <<serverVars, client, route, typed, nread, ctxDone, reader, handler, sender,
                 scanner, gwErr, callVars, outVars>>

ScannerTo(s, state) ==
  /\ scanner' = [scanner EXCEPT ![s] = state]
  /\ UNCHANGED <<serverVars, client, route, typed, nread, pipes, reader, sender, gwErr, callVars>>

ScanLine(s) ==
  /\ scanner[s] = "scan" /\ handler[s] = "write" /\ ~IsLong(line[s].out)
  /\ ScannerTo(s, "send")
  /\ line' = [line EXCEPT ![s].in = line[s].out]
  /\ To(s, "recv")
  /\ UNCHANGED <<ctxDone, rest, got>>

\* A line longer than the scanner takes, or as long a reply, ends the loop; its
\* writer stays blocked.
ScanTooLong(s) ==
  /\ scanner[s] = "scan" /\ handler[s] \in {"write", "reply"} /\ IsLong(line[s].out)
  /\ ScannerTo(s, "stop")
  /\ UNCHANGED <<ctxDone, handler, outVars>>

\* Mutant: only what ends with a newline counts.
ScanLinesOnly(s) ==
  /\ scanner[s] = "scan" /\ "response" \notin pipes[s]
  /\ ScannerTo(s, "stop")
  /\ UNCHANGED <<ctxDone, handler, outVars>>

\* At the end of the body what there is of a line counts as a line.
ScanEnd(s) ==
  /\ scanner[s] = "scan" /\ "response" \notin pipes[s]
  /\ ScannerTo(s, IF rest[s] = << >> THEN "stop" ELSE "send")
  /\ line' = IF rest[s] = << >> THEN line ELSE [line EXCEPT ![s].in = rest[s][1]]
  /\ rest' = [rest EXCEPT ![s] = << >>]
  /\ UNCHANGED <<ctxDone, handler, got>>

WriteMessage(s) ==
  /\ scanner[s] = "send"
  /\ ScannerTo(s, "scan")
  /\ got' = IF client[s] = "open" THEN [got EXCEPT ![s] = Append(@, line[s].in)] ELSE got
  /\ UNCHANGED <<ctxDone, handler, line, rest>>
WriteMessageFails(s) ==
  /\ scanner[s] = "send" /\ client[s] = "gone"
  /\ ScannerTo(s, "stop")
  /\ UNCHANGED <<ctxDone, handler, outVars>>

\* The deferred calls: the context is cancelled, the socket closed.
CancelContext(s) ==
  /\ scanner[s] = "stop"
  /\ ScannerTo(s, "close")
  /\ ctxDone' = [ctxDone EXCEPT ![s] = TRUE]
  /\ UNCHANGED <<handler, outVars>>
CloseSocket(s) ==
  /\ scanner[s] = "close"
  /\ ScannerTo(s, "done")
  /\ UNCHANGED <<ctxDone, handler, outVars>>

Scanner(s) == \/ ScanLine(s) \/ ScanTooLong(s) \/ ScanEnd(s) \/ WriteMessage(s)
              \/ WriteMessageFails(s) \/ CancelContext(s) \/ CloseSocket(s)

-----------------------------------------------------------------------------

OfSockets(x) == [s \in Sockets |-> x]

Init ==
  /\ ServerInit
  /\ client = OfSockets("off") /\ route = OfSockets("watch") /\ typed = OfSockets(<< >>)
  /\ nread = OfSockets(0) /\ ctxDone = OfSockets(FALSE)
  /\ pipes = OfSockets({"request", "response"})
  /\ reader = OfSockets("off") /\ handler = OfSockets("off")
  /\ sender = OfSockets("off") /\ scanner = OfSockets("off")
  /\ gwErr = OfSockets(FALSE) /\ srv = OfSockets("none") /\ reqs = OfSockets(<< >>)
  /\ emitted = OfSockets(<< >>) /\ wire = OfSockets(<< >>)
  /\ line = OfSockets([out |-> End, in |-> End]) /\ rest = OfSockets(<< >>)
  /\ got = OfSockets(<< >>)

Events(s) == {Event(Len(emitted[s]) + 1), Long(Len(emitted[s]) + 1)}

Next ==
  \/ ServerNext /\ UNCHANGED proxyVars
  \/ \E s \in Sockets :
       \/ \E r \in Routes : Connect(s, r)
       \/ \E m \in Messages : Type(s, m)
       \/ Leave(s)
       \/ Reader(s) \/ ReadNewline(s) \/ Sender(s) \/ Handler(s) \/ Scanner(s)
       \/ \E l \in Events(s) : Emit(s, l)
       \/ EndStream(s)
       \/ \E pipe \in pipes[s] : Closer(s, pipe)

Spec == Init /\ [][Next]_vars

\* The handler waits for a reply that may never come: the call has no deadline,
\* and its context is cancelled only as the handler returns.
Waits(s) == route[s] = "wait" /\ handler[s] = "call" /\ s \in running

\* Every goroutine keeps running but one that waits, the server ends a Watch call
\* that its client ends, and Close goes on.  A direct call lasts as long as those
\* who make it like.
Fairness ==
  /\ \A s \in Sockets :
       /\ WF_vars(Reader(s)) /\ WF_vars(ReadNewline(s)) /\ WF_vars(Sender(s))
       /\ WF_vars(Handler(s) /\ ~Waits(s)) /\ WF_vars(Scanner(s)) /\ WF_vars(EndStream(s))
       /\ \A pipe \in {"request", "response"} : WF_vars(Closer(s, pipe))
  /\ WF_vars(StopSteps /\ UNCHANGED proxyVars)

FairSpec == Spec /\ Fairness

-----------------------------------------------------------------------------
(* Properties.                                                             *)

Lines == {Event(n) : n \in 1 .. MaxEvents} \cup {Long(n) : n \in 1 .. MaxEvents}
         \cup {Reply, Error, TooLong, End}

\* Every variable has its type; a pipe hands over one line at a time.
TypeOK ==
  /\ ServerTypeOK /\ running \subseteq Calls \cup Sockets
  /\ \A s \in Sockets :
       /\ client[s] \in {"off", "open", "gone"} /\ route[s] \in Routes
       /\ typed[s] \in Seq(Messages) /\ nread[s] \in 0 .. Len(typed[s])
       /\ ctxDone[s] \in BOOLEAN /\ pipes[s] \subseteq {"request", "response"}
       /\ reader[s] \in {"off", "select", "read", "write", "newline", "done"}
       /\ handler[s] \in {"off", "open", "decode", "header", "check", "recv", "write",
                          "call", "reply", "done"}
       /\ sender[s] \in {"off", "decode", "close", "done"}
       /\ scanner[s] \in {"off", "scan", "send", "stop", "close", "done"}
       /\ gwErr[s] \in BOOLEAN
       /\ srv[s] \in {"none", "open", "half", "cancelled", "ended"}
       /\ emitted[s] \in Seq(Lines) /\ wire[s] \in Seq(Lines) /\ got[s] \in Seq(Lines)
       /\ line[s] \in [out : Lines, in : Lines] /\ rest[s] \in Seq(Lines) /\ Len(rest[s]) <= 1

\* Requests reach the server in the order in which they were sent, none is passed
\* over, and none after one that does not decode.
RequestsInOrder ==
  \A s \in Sockets :
    /\ reqs[s] = [i \in 1 .. Len(reqs[s]) |-> i]
    /\ \A i \in 1 .. Len(reqs[s]) : typed[s][i] = "good"

\* A client receives the events in the order in which the server sent them; when
\* it is told that the call has ended it has received every one of them.
EventsInOrder ==
  \A s \in Sockets :
    /\ \A i \in 1 .. Len(got[s]) :
         IsEvent(got[s][i]) => i <= Len(emitted[s]) /\ got[s][i] = emitted[s][i]
    /\ End \in ToSet(got[s]) => got[s] = Append(emitted[s], End)

\* A socket that the proxy closes under a client that is still there was given a
\* last word (a reply, an error, or the call's end), which comes after all
\* else: only an event, a reply or an error that is too long to scan, the last
\* that the handler writes, ends it in silence.
LastWord ==
  \A s \in Sockets :
    /\ client[s] = "open" /\ scanner[s] = "done" /\ ~IsLong(line[s].out)
         => got[s] # << >> /\ ~IsEvent(Last(got[s]))
    /\ \A i \in 1 .. Len(got[s]) : ~IsEvent(got[s][i]) => i = Len(got[s])

\* A Watch call is reported to have failed only when it could not be made or one of
\* its messages did not decode, however sender and handler come by their err.
ErrorsHaveCause ==
  \A s \in Sockets :
    Error \in ToSet(got[s]) => srv[s] = "none" \/ "bad" \in ToSet(typed[s])

Unwound(s) ==
  /\ reader[s] = "done" /\ handler[s] = "done" /\ scanner[s] = "done"
  /\ sender[s] \in {"off", "done"} /\ srv[s] \in {"none", "ended"} /\ pipes[s] = {}

\* Whichever side ends first, the client, the call or the proxy's own loops, all
\* the goroutines of a socket end, and the server's call with them, unless the
\* call waits with no deadline: then the handler and the call outlive the client.
Unwinds ==
  \A s \in Sockets :
    (client[s] = "gone" \/ handler[s] = "done" \/ scanner[s] = "stop")
    ~> (Unwound(s) \/ Waits(s))

\* A request that decodes, after others that do, reaches the server as long as the
\* socket is served.
Arrives ==
  \A s \in Sockets : \A n \in 1 .. MaxMessages :
    /\ srv[s] = "open" /\ Len(typed[s]) >= n /\ (\A i \in 1 .. n : typed[s][i] = "good")
    ~> Len(reqs[s]) >= n \/ ctxDone[s] \/ srv[s] # "open"

\* What keeps Close waiting: a direct call, one that waits with no deadline, and a
\* Watch call whose client is there and whose socket is served.
Keeps(x) == x \in Sockets => \/ Waits(x)
                             \/ route[x] = "watch" /\ client[x] = "open" /\ ~ctxDone[x]

\* Close returns, unless from some moment on there is always such a call: one that
\* has been cut off, or that is to answer, does not keep it for ever.
CloseReturns == (pc = "grace") ~> (pc = "closed" \/ [](\E x \in running : Keeps(x)))
=============================================================================
