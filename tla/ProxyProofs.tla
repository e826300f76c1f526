----------------------------- MODULE ProxyProofs -----------------------------
(***************************************************************************)
(* Proofs about the server's life and about its sockets.                   *)
(*                                                                         *)
(* The server (Life): calls find etcd running, and nothing is served after *)
(* Close, whatever the sockets of the proxy do.                            *)
(*                                                                         *)
(* The sockets (ProxyInv): requests and events keep their order, and the   *)
(* client is given a last word.  A step of the composition is one of the   *)
(* server or of one socket s; the other sockets are left alone, and for s  *)
(* the invariant has a part for its requests and a part for its events,    *)
(* shown apart from each other.                                            *)
(***************************************************************************)
EXTENDS Proxy, SequenceTheorems, TLAPS

-----------------------------------------------------------------------------
(* The inductive invariant.  It ties the state of the gRPC server to the   *)
(* step that the goroutine of Start and Close is at.                       *)

NotYet  == {"config", "etcd", "http2", "tls"}
Started == {"http1", "up", "failed"}

\* Before applyTLS there is no gRPC server, and there is none that serves from
\* when Stop has returned.
GrpcByStep ==
  /\ grpc \in {"none", "ready", "serving", "draining", "stopped"}
  /\ pc \in NotYet => grpc = "none"
  /\ pc \in {"http2", "tls"} => etcd = "running"
  /\ grpc \in {"ready", "serving"} => pc \in Started /\ etcd = "running"
  /\ grpc = "draining" => pc = "grace" /\ etcd = "running"
  /\ grpc = "stopped" => pc \in {"cache", "closed"}
  /\ pc \in {"cache", "closed"} => grpc = "stopped"
  /\ pc = "closed" => etcd = "closed"

\* Calls are under way only while the server serves, or drains.
CallsServed == running # {} => grpc \in {"serving", "draining"}

\* Of the two ports the first is let go, when both are open, by Close or by the
\* goroutine that serves.
PortsByStep ==
  /\ "http1" \in bound => pc \in {"up", "grace", "cache", "closed", "panic"}
  /\ "http1" \in bound /\ "serve" \notin due /\ grpc # "serving" => "http2" \notin bound

Life == GrpcByStep /\ CallsServed /\ PortsByStep

-----------------------------------------------------------------------------

\* All that a step of a socket does to the server is to begin a call while the
\* server serves, or to end one.
CallsOnly == /\ UNCHANGED <<pc, cfg, etcd, secure, grpc, bound, due>>
             /\ running' \subseteq running \/ grpc = "serving"
             /\ running' \subseteq running \cup Sockets

\* Every step of the composition is one of the server's or leaves the server as
\* it is but for its calls: the gateway's handlers reach the server only through
\* gRPC.
LEMMA SocketsOnlyCall == ASSUME [Next]_vars PROVE ServerNext \/ CallsOnly
<1>1. CASE ServerNext
  BY <1>1
<1>2. CASE UNCHANGED vars
  BY <1>2 DEF vars, serverVars, CallsOnly
<1>3. ASSUME NEW s \in Sockets,
             \/ \E r \in Routes : Connect(s, r)
             \/ \E m \in Messages : Type(s, m)
             \/ Leave(s)
             \/ Reader(s) \/ ReadNewline(s) \/ Sender(s) \/ Handler(s) \/ Scanner(s)
             \/ \E l \in Events(s) : Emit(s, l)
             \/ EndStream(s)
             \/ \E pipe \in pipes[s] : Closer(s, pipe)
      PROVE  CallsOnly
  <2>1. CASE \/ \E r \in Routes : Connect(s, r)
             \/ \E m \in Messages : Type(s, m)
             \/ Leave(s)
             \/ \E l \in Events(s) : Emit(s, l)
             \/ \E pipe \in pipes[s] : Closer(s, pipe)
    BY <2>1 DEF Connect, Type, Leave, Emit, Closer, CallsOnly, serverVars
  <2>2. CASE Reader(s) \/ ReadNewline(s)
    BY <2>2 DEF Reader, ReadNewline, CheckContext, FindsCancelled, ReadMessage, ReadFails, WriteFails,
                NewlineFails, ReaderEnds, ReaderStep, CallsOnly, serverVars
  <2>3. CASE Sender(s)
    BY <2>3 DEF Sender, SendsOn, SenderStops, SenderCloses, Decodes, AtEOF, CallsOnly, serverVars
  <2>4. CASE Scanner(s)
    BY <2>4 DEF Scanner, ScanLine, ScanTooLong, ScanEnd, WriteMessage, WriteMessageFails, CancelContext,
                CloseSocket, ScannerTo, CallsOnly, serverVars
  <2>5. CASE EndStream(s)
    BY <2>5 DEF EndStream, Running, CallsOnly
  <2>6. CASE Handler(s)
    <3>1. CASE OpenStream(s) \/ UnaryCall(s) \/ UnaryReply(s)
      BY <3>1 DEF OpenStream, UnaryCall, UnaryReply, Running, Reachable, CallsOnly
    <3>2. CASE CallFails(s) \/ Header(s) \/ CheckHeader(s) \/ ForwardEvent(s) \/ ForwardEnd(s)
      BY <3>2 DEF CallFails, Header, CheckHeader, ForwardEvent, ForwardEnd, CallsOnly, serverVars
    <3>3. CASE FirstRequest(s) \/ FirstBad(s) \/ FirstEOF(s) \/ UnaryRequest(s) \/ UnaryBad(s)
      BY <3>3 DEF FirstRequest, FirstBad, FirstEOF, UnaryRequest, UnaryBad, Decodes, AtEOF, CallsOnly,
                  serverVars
    <3>4. CASE ResponseClosed(s) \/ HandlerReplies(s)
      BY <3>4 DEF ResponseClosed, HandlerReplies, Returns, CallsOnly, serverVars
    <3>5. QED
      BY <2>6, <3>1, <3>2, <3>3, <3>4 DEF Handler
  <2>7. QED
    BY <1>3, <2>1, <2>2, <2>3, <2>4, <2>5, <2>6
<1>4. QED
  BY <1>1, <1>2, <1>3 DEF Next

\* The invariant holds before anything is started.
LEMMA LifeInit == ASSUME Init PROVE Life
  BY DEF Init, ServerInit, Life, GrpcByStep, CallsServed, PortsByStep, NotYet, Started

\* Starting keeps it: the gRPC server comes after etcd, the HTTP port last.
LEMMA StartKeepsLife == ASSUME Life, StartSteps PROVE Life'
<1> USE DEF Life, GrpcByStep, CallsServed, PortsByStep, NotYet, Started
<1>1. CASE \E files \in Files : LoadConfig(files)
  BY <1>1 DEF LoadConfig
<1>2. CASE StartEtcd
  BY <1>2 DEF StartEtcd
<1>3. CASE ListenHTTP2
  BY <1>3 DEF ListenHTTP2
<1>4. CASE applyTLS
  BY <1>4 DEF applyTLS
<1>5. CASE ListenHTTP1
  BY <1>5 DEF ListenHTTP1
<1>6. CASE \E step \in {"etcd", "http2", "tls", "http1"} : Fails(step)
  BY <1>6 DEF Fails
<1>7. QED
  BY <1>1, <1>2, <1>3, <1>4, <1>5, <1>6 DEF StartSteps

\* Serving and stopping keep it: GracefulStop returns with no call left, and the
\* goroutine that serves gives the port up when it comes too late.
LEMMA ServerKeepsLife == ASSUME Life, ServerNext PROVE Life'
<1> USE DEF Life, GrpcByStep, CallsServed, PortsByStep, NotYet, Started
<1>1. CASE StartSteps
  BY <1>1, StartKeepsLife
<1>2. CASE Serve
  <2>1. CASE grpc = "ready"
    BY <1>2, <2>1 DEF Serve
  <2>2. CASE grpc # "ready"
    BY <1>2, <2>2 DEF Serve
  <2>3. QED
    BY <2>1, <2>2
<1>3. CASE ServeGateway
  BY <1>3 DEF ServeGateway
<1>4. CASE Close
  <2>1. CASE grpc = "none"
    BY <1>4, <2>1 DEF Close
  <2>2. CASE grpc = "serving"
    BY <1>4, <2>2 DEF Close
  <2>3. CASE grpc \notin {"none", "serving"}
    BY <1>4, <2>3 DEF Close
  <2>4. QED
    BY <2>1, <2>2, <2>3
<1>5. CASE StopSteps
  BY <1>5 DEF StopSteps, Stop, CloseCache
<1>6. CASE \E c \in Calls : StartCall(c) \/ EndCall(c)
  BY <1>6 DEF StartCall, EndCall
<1>7. QED
  BY <1>1, <1>2, <1>3, <1>4, <1>5, <1>6 DEF ServerNext

\* So does all that a socket does to the server.
LEMMA CallsKeepLife == ASSUME Life, CallsOnly PROVE Life'
  BY DEF Life, GrpcByStep, CallsServed, PortsByStep, CallsOnly, NotYet, Started

\* The step of the server's goroutine, the state of its gRPC server, its ports and
\* its calls fit together at all times.
THEOREM LifeInvariant == Spec => []Life
<1>1. Init => Life
  BY LifeInit
<1>2. Life /\ [Next]_vars => Life'
  BY SocketsOnlyCall, ServerKeepsLife, CallsKeepLife
<1>3. QED
  BY <1>1, <1>2, PTL DEF Spec

\* A call finds etcd running from its beginning to its end, calls made through the
\* gateway included: Server.Close closes etcd after GracefulStop.
THEOREM EtcdOutlivesCalls == Spec => []EtcdWhileCalled
<1>1. Life => EtcdWhileCalled
  BY DEF Life, GrpcByStep, CallsServed, EtcdWhileCalled
<1>2. QED
  BY <1>1, LifeInvariant, PTL

\* After Close nothing is served and no port of a server that had started is left
\* open but that of HTTP, also when Close overtakes the goroutine that serves.
THEOREM NothingServedAfterClose == Spec => []ClosedForGood
<1>1. Life => ClosedForGood
  BY DEF Life, GrpcByStep, CallsServed, PortsByStep, ClosedForGood
<1>2. QED
  BY <1>1, LifeInvariant, PTL

-----------------------------------------------------------------------------
(* The inductive invariant of a socket: its goroutines, its requests, and  *)
(* its events.                                                             *)

\* The types of all variables, as functions on the sockets.
InTypes   == /\ client \in [Sockets -> {"off", "open", "gone"}]
             /\ route \in [Sockets -> Routes]
             /\ typed \in [Sockets -> Seq(Messages)] /\ nread \in [Sockets -> Nat]
GoTypes   == /\ ctxDone \in [Sockets -> BOOLEAN]
             /\ pipes \in [Sockets -> SUBSET {"request", "response"}]
             /\ reader \in [Sockets -> {"off", "select", "read", "write", "newline", "done"}]
             /\ handler \in [Sockets -> {"off", "open", "decode", "header", "check", "recv",
                                         "write", "call", "reply", "done"}]
             /\ sender \in [Sockets -> {"off", "decode", "close", "done"}]
             /\ scanner \in [Sockets -> {"off", "scan", "send", "stop", "close", "done"}]
             /\ gwErr \in [Sockets -> BOOLEAN]
CallTypes == /\ srv \in [Sockets -> {"none", "open", "half", "cancelled", "ended"}]
             /\ reqs \in [Sockets -> Seq(Nat)]
             /\ emitted \in [Sockets -> Seq(Lines)] /\ wire \in [Sockets -> Seq(Lines)]
OutTypes  == /\ line \in [Sockets -> [out : Lines, in : Lines]]
             /\ rest \in [Sockets -> Seq(Lines)] /\ got \in [Sockets -> Seq(Lines)]
Shape     == InTypes /\ GoTypes /\ CallTypes /\ OutTypes

\* Nothing of a socket exists before it is connected.
Unconnected(s) ==
  client[s] = "off" =>
    /\ reader[s] = "off" /\ handler[s] = "off" /\ sender[s] = "off" /\ scanner[s] = "off"
    /\ nread[s] = 0 /\ reqs[s] = << >> /\ got[s] = << >> /\ emitted[s] = << >>
    /\ ctxDone[s] = FALSE

\* The server has the first messages, all of which decode; whoever decodes has
\* passed every message on that the read loop has handed over.
Requests(s) ==
  /\ nread[s] <= Len(typed[s]) /\ Len(reqs[s]) <= nread[s]
  /\ \A i \in 1 .. Len(reqs[s]) : reqs[s][i] = i /\ typed[s][i] = "good"
  /\ handler[s] \in {"off", "open", "decode"} => sender[s] = "off"
  /\ handler[s] = "open" \/ Decoding(s) =>
       /\ reader[s] \in {"off", "select", "read", "newline"} => Len(reqs[s]) = nread[s]
       /\ reader[s] = "write" => Len(reqs[s]) + 1 = nread[s]

\* What the gateway has yet to receive are the last of the events, and before it
\* writes the call's end it has received all.
Passed(s) == Len(emitted[s]) - Len(wire[s])
Passing(s) ==
  /\ Len(wire[s]) <= Len(emitted[s])
  /\ \A i \in 1 .. Len(wire[s]) : wire[s][i] = emitted[s][Passed(s) + i]
  /\ \A i \in 1 .. Len(emitted[s]) : IsEvent(emitted[s][i])
  /\ handler[s] = "write" => Passed(s) >= 1 /\ line[s].out = emitted[s][Passed(s)]
  /\ handler[s] = "reply" => /\ ~IsEvent(line[s].out)
                             /\ line[s].out = End => srv[s] = "ended" /\ wire[s] = << >>
  /\ handler[s] \in {"off", "open"} => srv[s] = "none"
  /\ handler[s] # "done" => rest[s] = << >>
  /\ Len(rest[s]) <= 1

\* What the client has: events in order, then perhaps a last word.
Heard(s) ==
  \A i \in 1 .. Len(got[s]) :
    IF IsEvent(got[s][i]) THEN i <= Len(emitted[s]) /\ got[s][i] = emitted[s][i]
    ELSE i = Len(got[s]) /\ (got[s][i] = End => srv[s] = "ended" /\ Len(got[s]) = Len(emitted[s]) + 1)

\* As long as the client is there and its lines are scanned, it has every event
\* that has been passed on, but for those in the hands of scanner and handler; the
\* context is cancelled only as the handler returns.
Scans(s) == client[s] = "open" /\ scanner[s] \in {"scan", "send"}
OnlyEvents(s) == \A i \in 1 .. Len(got[s]) : IsEvent(got[s][i])
InScanner(s) == IF scanner[s] = "send" THEN 1 ELSE 0
InHandler(s) == IF handler[s] = "write" THEN 1 ELSE 0
SendsNext(s) == scanner[s] = "send" => /\ Len(got[s]) < Len(emitted[s])
                                       /\ line[s].in = emitted[s][Len(got[s]) + 1]
AllBefore(s, l, n) == l = End => srv[s] = "ended" /\ n = Len(emitted[s])
Flowing(s) ==
  Scans(s) /\ handler[s] # "done" =>
    /\ ~ctxDone[s] /\ OnlyEvents(s) /\ SendsNext(s)
    /\ Len(got[s]) + InScanner(s) + InHandler(s) = Passed(s)

\* When the handler has returned, the last word comes, is sent, or has been sent.
WordWaits(s) == /\ Len(rest[s]) = 1 /\ ~IsEvent(rest[s][1]) /\ OnlyEvents(s) /\ SendsNext(s)
                /\ AllBefore(s, rest[s][1], Len(got[s]) + InScanner(s))
WordSent(s)  == /\ rest[s] = << >> /\ scanner[s] = "send" /\ OnlyEvents(s)
                /\ ~IsEvent(line[s].in) /\ AllBefore(s, line[s].in, Len(got[s]))
WordGiven(s) == got[s] # << >> /\ ~IsEvent(got[s][Len(got[s])])
Ending(s) ==
  Scans(s) /\ handler[s] = "done" =>
    WordWaits(s) \/ WordSent(s) \/ (rest[s] = << >> /\ scanner[s] = "scan" /\ WordGiven(s))

\* It stops scanning after the last word, or at a long line, which is then the last
\* that the handler writes.
CutOff(s) == IsLong(line[s].out) /\ handler[s] \in {"write", "reply", "done"}
Stopped(s) ==
  client[s] = "open" /\ scanner[s] \in {"stop", "close", "done"} => WordGiven(s) \/ CutOff(s)
Closing(s) == pipes[s] # {"request", "response"} => ctxDone[s]

SocketInv(s) == /\ Unconnected(s) /\ Requests(s) /\ Passing(s) /\ Heard(s)
                /\ Flowing(s) /\ Ending(s) /\ Stopped(s) /\ Closing(s)
ProxyInv == Shape /\ \A s \in Sockets : SocketInv(s)

-----------------------------------------------------------------------------
(* A step of one socket.                                                   *)

SocketStep(s) ==
  \/ \E r \in Routes : Connect(s, r)
  \/ \E m \in Messages : Type(s, m)
  \/ Leave(s)
  \/ Reader(s) \/ ReadNewline(s) \/ Sender(s) \/ Handler(s) \/ Scanner(s)
  \/ \E l \in Events(s) : Emit(s, l)
  \/ EndStream(s)
  \/ \E pipe \in pipes[s] : Closer(s, pipe)

\* What a step leaves of the other sockets: all of it.
SameSocket(t) ==
  /\ client'[t] = client[t] /\ route'[t] = route[t] /\ typed'[t] = typed[t]
  /\ nread'[t] = nread[t] /\ ctxDone'[t] = ctxDone[t] /\ pipes'[t] = pipes[t]
  /\ reader'[t] = reader[t] /\ handler'[t] = handler[t] /\ sender'[t] = sender[t]
  /\ scanner'[t] = scanner[t] /\ gwErr'[t] = gwErr[t]
  /\ srv'[t] = srv[t] /\ reqs'[t] = reqs[t] /\ emitted'[t] = emitted[t] /\ wire'[t] = wire[t]
  /\ line'[t] = line[t] /\ rest'[t] = rest[t] /\ got'[t] = got[t]

\* An event that the server sends is one of the lines.
LEMMA EventLines ==
  ASSUME CallTypes, NEW s \in Sockets, NEW l \in Events(s), Len(emitted[s]) < MaxEvents
  PROVE  l \in Lines /\ IsEvent(l)
<1>1. Len(emitted[s]) \in Nat
  BY DEF CallTypes
<1>2. Len(emitted[s]) + 1 \in 1 .. MaxEvents
  BY <1>1, ProxyAssumption
<1>3. QED
  BY <1>2 DEF Events, Lines, IsEvent, Event, Long

\* The other lines are no events, and differ from each other.
LEMMA LastLines ==
  /\ Reply \in Lines /\ Error \in Lines /\ End \in Lines /\ TooLong \in Lines
  /\ ~IsEvent(Reply) /\ ~IsEvent(Error) /\ ~IsEvent(End) /\ ~IsEvent(TooLong)
  /\ Reply # End /\ Error # End /\ TooLong # End
  BY DEF Lines, Reply, Error, TooLong, End, IsEvent

\* What is left alone keeps its type; so does the handler's line when it is one.
LEMMA SameTypes ==
  ASSUME Shape
  PROVE  /\ UNCHANGED <<client, route, typed, nread>> => InTypes'
         /\ UNCHANGED <<ctxDone, pipes, reader, handler, sender, scanner, gwErr>> => GoTypes'
         /\ UNCHANGED callVars => CallTypes'
         /\ UNCHANGED outVars => OutTypes'
<1>1. UNCHANGED <<client, route, typed, nread>> => InTypes'
  BY DEF Shape, InTypes
<1>2. UNCHANGED <<ctxDone, pipes, reader, handler, sender, scanner, gwErr>> => GoTypes'
  BY DEF Shape, GoTypes
<1>3. UNCHANGED callVars => CallTypes'
  BY DEF Shape, CallTypes, callVars
<1>4. UNCHANGED outVars => OutTypes'
  BY DEF Shape, OutTypes, outVars
<1>5. QED
  BY <1>1, <1>2, <1>3, <1>4

\* Writing a line keeps the types of what is on its way out.
LEMMA WrittenTypes ==
  ASSUME Shape, NEW s \in Sockets, NEW l \in Lines,
         line' = [line EXCEPT ![s].out = l], UNCHANGED <<rest, got>>
  PROVE  OutTypes'
<1>1. [line[s] EXCEPT !.out = l] \in [out : Lines, in : Lines]
  BY DEF Shape, OutTypes
<1>2. line' = [line EXCEPT ![s] = [line[s] EXCEPT !.out = l]]
  BY DEF Shape, OutTypes
<1>3. QED
  BY <1>1, <1>2 DEF Shape, OutTypes

\* Taking a line does.
LEMMA ScannedTypes ==
  ASSUME Shape, NEW s \in Sockets, NEW l \in Lines
  PROVE  [line EXCEPT ![s].in = l] \in [Sockets -> [out : Lines, in : Lines]]
<1>1. [line[s] EXCEPT !.in = l] \in [out : Lines, in : Lines]
  BY DEF Shape, OutTypes
<1>2. [line EXCEPT ![s].in = l] = [line EXCEPT ![s] = [line[s] EXCEPT !.in = l]]
  BY DEF Shape, OutTypes
<1>3. QED
  BY <1>1, <1>2 DEF Shape, OutTypes

\* Sending a request, or closing the gateway's side of the call, keeps those of the call.
LEMMA SendTypes ==
  ASSUME Shape, NEW s \in Sockets, SendRequest(s) \/ CloseSend(s) PROVE CallTypes'
<1>1. CASE SendRequest(s)
  <2>1. Append(reqs[s], nread[s]) \in Seq(Nat)
    BY DEF Shape, InTypes, CallTypes
  <2>2. QED
    BY <1>1, <2>1 DEF Shape, CallTypes, SendRequest
<1>2. CASE CloseSend(s)
  BY <1>2 DEF Shape, CallTypes, CloseSend
<1>3. QED
  BY <1>1, <1>2

\* The read loop, and the decoder that it hands its lines to.
LEMMA ReaderTypes ==
  ASSUME Shape, NEW s \in Sockets, Reader(s) \/ ReadNewline(s) PROVE Shape'
<1> USE DEF Reader, CheckContext, FindsCancelled, ReadMessage, ReadFails, WriteFails, NewlineFails,
            ReadNewline, ReaderEnds, ReaderStep
<1>1. InTypes'
  <2>1. CASE ReadMessage(s)
    BY <2>1 DEF Shape, InTypes
  <2>2. CASE UNCHANGED nread
    BY <2>2 DEF Shape, InTypes
  <2>3. QED
    BY <2>1, <2>2
<1>2. GoTypes'
  <2>1. reader' \in [Sockets -> {"off", "select", "read", "write", "newline", "done"}]
    BY DEF Shape, GoTypes
  <2>2. ctxDone' \in [Sockets -> BOOLEAN]
    BY DEF Shape, GoTypes
  <2>3. UNCHANGED <<pipes, handler, sender, scanner, gwErr>>
    OBVIOUS
  <2>4. QED
    BY <2>1, <2>2, <2>3 DEF Shape, GoTypes
<1>3. UNCHANGED callVars /\ UNCHANGED outVars
  OBVIOUS
<1>4. QED
  BY <1>1, <1>2, <1>3, SameTypes DEF Shape

\* The sender.
LEMMA SenderTypes ==
  ASSUME Shape, NEW s \in Sockets, Sender(s) PROVE Shape'
<1> USE DEF Sender, SendsOn, SenderStops, SenderCloses, Decodes, AtEOF
<1>1. GoTypes'
  BY DEF Shape, GoTypes
<1>2. CallTypes'
  <2>1. CASE UNCHANGED callVars
    BY <2>1, SameTypes
  <2>2. CASE SendsOn(s) \/ SenderStops(s)
    BY <2>1, <2>2, SendTypes
  <2>3. CASE SenderCloses(s)
    BY <2>3, SendTypes
  <2>4. QED
    BY <2>2, <2>3
<1>3. UNCHANGED <<client, route, typed, nread>> /\ UNCHANGED outVars
  OBVIOUS
<1>4. QED
  BY <1>1, <1>2, <1>3, SameTypes DEF Shape

\* The handler, before the call is answered.
LEMMA RequestTypes ==
  ASSUME Shape, NEW s \in Sockets,
         \/ OpenStream(s) \/ FirstRequest(s) \/ FirstBad(s) \/ FirstEOF(s) \/ CallFails(s)
         \/ UnaryRequest(s) \/ UnaryBad(s) \/ UnaryCall(s) \/ UnaryReply(s)
  PROVE  Shape'
<1> USE DEF OpenStream, FirstRequest, FirstBad, FirstEOF, CallFails, UnaryRequest, UnaryBad, UnaryCall,
            UnaryReply, Decodes, AtEOF, To, Writes, Refuses, HandlerOnly
<1>1. UNCHANGED <<client, route, typed, nread>>
  OBVIOUS
<1>2. GoTypes'
  <2>1. handler' \in [Sockets -> {"off", "open", "decode", "header", "check", "recv",
                                  "write", "call", "reply", "done"}]
    BY DEF Shape, GoTypes
  <2>2. reader' \in [Sockets -> {"off", "select", "read", "write", "newline", "done"}]
    BY DEF Shape, GoTypes
  <2>3. sender' \in [Sockets -> {"off", "decode", "close", "done"}]
    BY DEF Shape, GoTypes
  <2>4. UNCHANGED <<ctxDone, pipes, scanner, gwErr>>
    OBVIOUS
  <2>5. QED
    BY <2>1, <2>2, <2>3, <2>4 DEF Shape, GoTypes
<1>3. CallTypes'
  <2>1. CASE UNCHANGED callVars
    BY <2>1, SameTypes
  <2>2. CASE FirstRequest(s) \/ FirstBad(s) \/ FirstEOF(s)
    BY <2>2, SendTypes
  <2>3. CASE OpenStream(s)
    BY <2>3 DEF Shape, CallTypes
  <2>4. QED
    BY <2>1, <2>2, <2>3
<1>4. OutTypes'
  <2>1. CASE UNCHANGED outVars
    BY <2>1, SameTypes
  <2>2. CASE FirstBad(s) \/ CallFails(s) \/ UnaryBad(s) \/ UnaryReply(s)
    BY <2>2, WrittenTypes, LastLines
  <2>3. QED
    BY <2>1, <2>2
<1>5. QED
  BY <1>1, <1>2, <1>3, <1>4, SameTypes DEF Shape

\* The handler, from the header to its return.
LEMMA AnswerTypes ==
  ASSUME Shape, NEW s \in Sockets,
         \/ Header(s) \/ CheckHeader(s) \/ ForwardEvent(s) \/ ForwardEnd(s)
         \/ ResponseClosed(s) \/ HandlerReplies(s)
  PROVE  Shape'
<1>1. UNCHANGED <<client, route, typed, nread>>
  BY DEF Header, CheckHeader, ForwardEvent, ForwardEnd, ResponseClosed, HandlerReplies, HandlerOnly, Returns
<1>2. GoTypes'
  <2>1. CASE Header(s) \/ CheckHeader(s) \/ ForwardEvent(s) \/ ForwardEnd(s)
    BY <2>1 DEF Header, CheckHeader, ForwardEvent, ForwardEnd, To, Writes, Refuses, HandlerOnly, Shape,
                GoTypes
  <2>2. CASE ResponseClosed(s) \/ HandlerReplies(s)
    BY <2>2 DEF ResponseClosed, HandlerReplies, To, Returns, Shape, GoTypes
  <2>3. QED
    BY <2>1, <2>2
<1>3. CallTypes'
  <2>1. CASE UNCHANGED callVars
    BY <2>1, SameTypes
  <2>2. CASE ForwardEvent(s)
    BY <2>2, HeadTailProperties DEF ForwardEvent, Shape, CallTypes
  <2>3. CASE ResponseClosed(s) \/ HandlerReplies(s)
    BY <2>3 DEF ResponseClosed, HandlerReplies, Returns, Shape, CallTypes
  <2>4. QED
    BY <2>1, <2>2, <2>3 DEF Header, CheckHeader, ForwardEnd
<1>4. OutTypes'
  <2>1. CASE UNCHANGED outVars
    BY <2>1, SameTypes
  <2>2. CASE ForwardEvent(s)
    <3>1. wire[s] \in Seq(Lines) /\ wire[s] # << >>
      BY <2>2 DEF ForwardEvent, Shape, CallTypes
    <3>2. Head(wire[s]) \in Lines
      BY <3>1, HeadTailProperties
    <3>3. QED
      BY <2>2, <3>2, WrittenTypes DEF ForwardEvent, Writes
  <2>3. CASE CheckHeader(s) \/ ForwardEnd(s)
    BY <2>1, <2>3, WrittenTypes, LastLines DEF CheckHeader, ForwardEnd, Writes, Refuses
  <2>4. CASE ResponseClosed(s)
    BY <2>4 DEF ResponseClosed, Returns, Shape, OutTypes
  <2>5. CASE HandlerReplies(s)
    <3>1. Append(rest[s], line[s].out) \in Seq(Lines)
      BY DEF Shape, OutTypes
    <3>2. QED
      BY <2>5, <3>1 DEF HandlerReplies, Returns, Shape, OutTypes
  <2>6. QED
    BY <2>1, <2>2, <2>3, <2>4, <2>5 DEF Header
<1>5. QED
  BY <1>1, <1>2, <1>3, <1>4, SameTypes DEF Shape

\* The write loop.
LEMMA ScannerTypes ==
  ASSUME Shape, NEW s \in Sockets, Scanner(s) PROVE Shape'
<1> USE DEF Scanner, ScanLine, ScanTooLong, ScanEnd, WriteMessage, WriteMessageFails, CancelContext,
            CloseSocket, ScannerTo
<1>1. UNCHANGED <<client, route, typed, nread>> /\ UNCHANGED callVars
  OBVIOUS
<1>2. GoTypes'
  <2>1. scanner' \in [Sockets -> {"off", "scan", "send", "stop", "close", "done"}]
    BY DEF Shape, GoTypes
  <2>2. handler' \in [Sockets -> {"off", "open", "decode", "header", "check", "recv",
                                  "write", "call", "reply", "done"}]
    BY DEF Shape, GoTypes, To
  <2>3. ctxDone' \in [Sockets -> BOOLEAN]
    BY DEF Shape, GoTypes
  <2>4. UNCHANGED <<pipes, reader, sender, gwErr>>
    OBVIOUS
  <2>5. QED
    BY <2>1, <2>2, <2>3, <2>4 DEF Shape, GoTypes
<1>3. OutTypes'
  <2>1. CASE UNCHANGED outVars
    BY <2>1, SameTypes
  <2>2. CASE ScanLine(s)
    BY <2>2, ScannedTypes DEF Shape, OutTypes
  <2>3. CASE ScanEnd(s)
    <3>1. CASE rest[s] = << >>
      BY <2>3, <3>1 DEF Shape, OutTypes
    <3>2. CASE rest[s] # << >>
      <4>1. rest[s][1] \in Lines
        BY <3>2 DEF Shape, OutTypes
      <4>2. [line EXCEPT ![s].in = rest[s][1]] \in [Sockets -> [out : Lines, in : Lines]]
        BY <4>1, ScannedTypes
      <4>3. QED
        BY <2>3, <3>2, <4>2 DEF Shape, OutTypes
    <3>3. QED
      BY <3>1, <3>2
  <2>4. CASE WriteMessage(s)
    <3>1. Append(got[s], line[s].in) \in Seq(Lines)
      BY DEF Shape, OutTypes
    <3>2. QED
      BY <2>4, <3>1 DEF Shape, OutTypes
  <2>5. QED
    BY <2>1, <2>2, <2>3, <2>4
<1>4. QED
  BY <1>1, <1>2, <1>3, SameTypes DEF Shape

\* The client, the server, and the closer.
LEMMA OuterTypes ==
  ASSUME Shape, NEW s \in Sockets,
         \/ \E r \in Routes : Connect(s, r)
         \/ \E m \in Messages : Type(s, m)
         \/ Leave(s)
         \/ \E l \in Events(s) : Emit(s, l)
         \/ EndStream(s)
         \/ \E pipe \in pipes[s] : Closer(s, pipe)
  PROVE  Shape'
<1>1. CASE \E r \in Routes : Connect(s, r)
  <2>1. InTypes' /\ GoTypes'
    BY <1>1 DEF Connect, Shape, InTypes, GoTypes
  <2>2. QED
    BY <1>1, <2>1, SameTypes DEF Connect, Shape
<1>2. CASE \E m \in Messages : Type(s, m)
  <2>1. InTypes'
    BY <1>2 DEF Type, Shape, InTypes
  <2>2. QED
    BY <1>2, <2>1, SameTypes DEF Type, Shape
<1>3. CASE Leave(s)
  <2>1. InTypes'
    BY <1>3 DEF Leave, Shape, InTypes
  <2>2. QED
    BY <1>3, <2>1, SameTypes DEF Leave, Shape
<1>4. ASSUME NEW l \in Events(s), Emit(s, l) PROVE Shape'
  <2>1. l \in Lines
    BY <1>4, EventLines DEF Emit, Shape
  <2>2. CallTypes'
    BY <1>4, <2>1 DEF Emit, Shape, CallTypes
  <2>3. QED
    BY <1>4, <2>2, SameTypes DEF Emit, Shape
<1>5. CASE EndStream(s)
  <2>1. CallTypes'
    BY <1>5 DEF EndStream, Shape, CallTypes
  <2>2. QED
    BY <1>5, <2>1, SameTypes DEF EndStream, Shape
<1>6. CASE \E pipe \in pipes[s] : Closer(s, pipe)
  <2>1. GoTypes'
    BY <1>6 DEF Closer, Shape, GoTypes
  <2>2. QED
    BY <1>6, <2>1, SameTypes DEF Closer, Shape
<1>7. QED
  BY <1>1, <1>2, <1>3, <1>4, <1>5, <1>6

\* Every step keeps the types.
LEMMA StepTypes ==
  ASSUME Shape, NEW s \in Sockets, SocketStep(s) PROVE Shape'
<1>1. CASE Handler(s)
  BY <1>1, RequestTypes, AnswerTypes DEF Handler
<1>2. QED
  BY <1>1, ReaderTypes, SenderTypes, ScannerTypes, OuterTypes DEF SocketStep

-----------------------------------------------------------------------------
(* A step of one socket leaves the others as they are.                     *)

\* Whatever a step does, it does to its own socket.
LEMMA OthersSame ==
  ASSUME Shape, NEW s \in Sockets, SocketStep(s), NEW t \in Sockets, t # s
  PROVE  SameSocket(t)
<1> USE DEF Shape, InTypes, GoTypes, CallTypes, OutTypes, SameSocket, callVars, outVars
<1>1. CASE \/ \E r \in Routes : Connect(s, r)
           \/ \E m \in Messages : Type(s, m)
           \/ Leave(s)
           \/ \E l \in Events(s) : Emit(s, l)
           \/ EndStream(s)
           \/ \E pipe \in pipes[s] : Closer(s, pipe)
  BY <1>1 DEF Connect, Type, Leave, Emit, EndStream, Closer
<1>2. CASE Reader(s) \/ ReadNewline(s)
  BY <1>2 DEF Reader, CheckContext, FindsCancelled, ReadMessage, ReadFails, WriteFails, NewlineFails,
              ReadNewline, ReaderEnds, ReaderStep
<1>3. CASE Sender(s)
  BY <1>3 DEF Sender, SendsOn, SenderStops, SenderCloses, SendRequest, CloseSend, Decodes, AtEOF
<1>4. CASE Scanner(s)
  BY <1>4 DEF Scanner, ScanLine, ScanTooLong, ScanEnd, WriteMessage, WriteMessageFails, CancelContext,
              CloseSocket, ScannerTo, To
<1>5. CASE Handler(s)
  <2>1. CASE OpenStream(s) \/ CallFails(s) \/ UnaryCall(s) \/ UnaryReply(s) \/ UnaryBad(s)
    BY <2>1 DEF OpenStream, CallFails, UnaryCall, UnaryReply, UnaryBad, To, Writes, Refuses, HandlerOnly
  <2>2. CASE FirstRequest(s) \/ FirstBad(s) \/ FirstEOF(s) \/ UnaryRequest(s)
    BY <2>2 DEF FirstRequest, FirstBad, FirstEOF, UnaryRequest, Decodes, AtEOF, SendRequest, CloseSend,
                To, Writes, Refuses
  <2>3. CASE Header(s) \/ CheckHeader(s) \/ ForwardEvent(s) \/ ForwardEnd(s)
    BY <2>3 DEF Header, CheckHeader, ForwardEvent, ForwardEnd, To, Writes, Refuses, HandlerOnly
  <2>4. CASE ResponseClosed(s) \/ HandlerReplies(s)
    BY <2>4 DEF ResponseClosed, HandlerReplies, Returns, To
  <2>5. QED
    BY <1>5, <2>1, <2>2, <2>3, <2>4 DEF Handler
<1>6. QED
  BY <1>1, <1>2, <1>3, <1>4, <1>5 DEF SocketStep

\* The invariant of a socket that is left alone stays.
LEMMA SameKeeps ==
  ASSUME NEW t \in Sockets, SocketInv(t), SameSocket(t) PROVE SocketInv(t)'
<1> USE DEF SocketInv, SameSocket
<1>1. Unconnected(t)' /\ Requests(t)' /\ Closing(t)'
  BY DEF Unconnected, Requests, Closing, Decoding
<1>2. Passing(t)'
  BY DEF Passing, Passed
<1>3. Heard(t)'
  BY DEF Heard
<1>4. Flowing(t)'
  BY DEF Flowing, Scans, OnlyEvents, SendsNext, InScanner, InHandler, Passed
<1>5. Ending(t)'
  BY DEF Ending, Scans, WordWaits, WordSent, WordGiven, OnlyEvents, SendsNext, AllBefore, InScanner
<1>6. Stopped(t)'
  BY DEF Stopped, WordGiven, CutOff
<1>7. QED
  BY <1>1, <1>2, <1>3, <1>4, <1>5, <1>6

-----------------------------------------------------------------------------
(* Before a socket is connected nothing happens to it; its pipes are closed *)
(* when its context has been cancelled.                                    *)

\* A socket that is not connected can only be connected, and is never off again.
LEMMA StepUnconnected ==
  ASSUME Shape, NEW s \in Sockets, SocketInv(s), SocketStep(s) PROVE Unconnected(s)'
<1> USE DEF Shape, InTypes, GoTypes, SocketInv, Unconnected
<1>1. CASE client[s] # "off"
  <2>1. client'[s] # "off"
    <3>1. CASE UNCHANGED client
      BY <1>1, <3>1
    <3>2. CASE \/ \E r \in Routes : Connect(s, r)
               \/ Leave(s)
      BY <3>2 DEF Connect, Leave
    <3>3. CASE Reader(s) \/ ReadNewline(s) \/ Sender(s) \/ Scanner(s)
      BY <3>1, <3>3 DEF Reader, CheckContext, FindsCancelled, ReadMessage, ReadFails, WriteFails,
                  NewlineFails, ReadNewline, ReaderEnds, ReaderStep, Sender, SendsOn, SenderStops,
                  SenderCloses, Decodes, AtEOF, Scanner, ScanLine, ScanTooLong, ScanEnd, WriteMessage,
                  WriteMessageFails, CancelContext, CloseSocket, ScannerTo
    <3>4. CASE Handler(s)
      BY <3>1, <3>4 DEF Handler, OpenStream, CallFails, FirstRequest, FirstBad, FirstEOF, Header,
                  CheckHeader, ForwardEvent, ForwardEnd, UnaryRequest, UnaryBad, UnaryCall, UnaryReply,
                  ResponseClosed, HandlerReplies, Decodes, AtEOF, HandlerOnly, Returns
    <3>5. CASE \/ \E m \in Messages : Type(s, m)
               \/ \E l \in Events(s) : Emit(s, l)
               \/ EndStream(s)
               \/ \E pipe \in pipes[s] : Closer(s, pipe)
      BY <3>1, <3>5 DEF Type, Emit, EndStream, Closer
    <3>6. QED
      BY <3>2, <3>3, <3>4, <3>5 DEF SocketStep
  <2>2. QED
    BY <2>1
<1>2. CASE client[s] = "off"
  <2>1. srv[s] = "none"
    BY <1>2 DEF Passing
  <2>2. \E r \in Routes : Connect(s, r)
    <3>1. ~Reader(s) /\ ~ReadNewline(s) /\ ~Sender(s)
      BY <1>2 DEF Reader, CheckContext, FindsCancelled, ReadMessage, ReadFails, WriteFails,
                  NewlineFails, ReadNewline, ReaderEnds, ReaderStep, Sender, SendsOn, SenderStops,
                  SenderCloses
    <3>2. ~Scanner(s)
      BY <1>2 DEF Scanner, ScanLine, ScanTooLong, ScanEnd, WriteMessage,
                  WriteMessageFails, CancelContext, CloseSocket
    <3>3. ~Handler(s)
      BY <1>2 DEF Handler, OpenStream, CallFails, FirstRequest, FirstBad, FirstEOF, Header,
                  CheckHeader, ForwardEvent, ForwardEnd, UnaryRequest, UnaryBad, UnaryCall, UnaryReply,
                  ResponseClosed, HandlerReplies
    <3>4. /\ ~\E m \in Messages : Type(s, m)
          /\ ~Leave(s)
          /\ ~\E l \in Events(s) : Emit(s, l)
          /\ ~EndStream(s)
          /\ ~\E pipe \in pipes[s] : Closer(s, pipe)
      BY <1>2, <2>1 DEF Type, Leave, Emit, EndStream, Closer
    <3>5. QED
      BY <3>1, <3>2, <3>3, <3>4 DEF SocketStep
  <2>3. QED
    BY <2>2 DEF Connect
<1>3. QED
  BY <1>1, <1>2

\* The closer waits for the context, and a cancelled context stays cancelled.
LEMMA StepClosing ==
  ASSUME Shape, NEW s \in Sockets, SocketInv(s), SocketStep(s) PROVE Closing(s)'
<1> USE DEF Shape, GoTypes, SocketInv, Closing
<1>1. ctxDone[s] => ctxDone'[s]
  <2>1. CASE Reader(s) \/ ReadNewline(s) \/ Sender(s) \/ Scanner(s)
    BY <2>1 DEF Reader, CheckContext, FindsCancelled, ReadMessage, ReadFails, WriteFails,
                NewlineFails, ReadNewline, ReaderEnds, ReaderStep, Sender, SendsOn, SenderStops,
                SenderCloses, Decodes, AtEOF, Scanner, ScanLine, ScanTooLong, ScanEnd, WriteMessage,
                WriteMessageFails, CancelContext, CloseSocket, ScannerTo
  <2>2. CASE Handler(s)
    BY <2>2 DEF Handler, OpenStream, CallFails, FirstRequest, FirstBad, FirstEOF, Header,
                CheckHeader, ForwardEvent, ForwardEnd, UnaryRequest, UnaryBad, UnaryCall, UnaryReply,
                ResponseClosed, HandlerReplies, Decodes, AtEOF, HandlerOnly, Returns
  <2>3. CASE \/ \E r \in Routes : Connect(s, r)
             \/ \E m \in Messages : Type(s, m)
             \/ Leave(s)
             \/ \E l \in Events(s) : Emit(s, l)
             \/ EndStream(s)
             \/ \E pipe \in pipes[s] : Closer(s, pipe)
    BY <2>3 DEF Connect, Type, Leave, Emit, EndStream, Closer
  <2>4. QED
    BY <2>1, <2>2, <2>3 DEF SocketStep
<1>2. CASE \E pipe \in pipes[s] : Closer(s, pipe)
  BY <1>1, <1>2 DEF Closer
<1>3. CASE ~\E pipe \in pipes[s] : Closer(s, pipe)
  <2>1. UNCHANGED pipes
    <3>1. CASE Reader(s) \/ ReadNewline(s) \/ Sender(s) \/ Scanner(s)
      BY <3>1 DEF Reader, CheckContext, FindsCancelled, ReadMessage, ReadFails, WriteFails,
                  NewlineFails, ReadNewline, ReaderEnds, ReaderStep, Sender, SendsOn, SenderStops,
                  SenderCloses, Decodes, AtEOF, Scanner, ScanLine, ScanTooLong, ScanEnd, WriteMessage,
                  WriteMessageFails, CancelContext, CloseSocket, ScannerTo
    <3>2. CASE Handler(s)
      BY <3>2 DEF Handler, OpenStream, CallFails, FirstRequest, FirstBad, FirstEOF, Header,
                  CheckHeader, ForwardEvent, ForwardEnd, UnaryRequest, UnaryBad, UnaryCall, UnaryReply,
                  ResponseClosed, HandlerReplies, Decodes, AtEOF, HandlerOnly, Returns
    <3>3. CASE \/ \E r \in Routes : Connect(s, r)
               \/ \E m \in Messages : Type(s, m)
               \/ Leave(s)
               \/ \E l \in Events(s) : Emit(s, l)
               \/ EndStream(s)
      BY <3>3 DEF Connect, Type, Leave, Emit, EndStream
    <3>4. QED
      BY <1>3, <3>1, <3>2, <3>3 DEF SocketStep
  <2>2. QED
    BY <1>1, <2>1
<1>4. QED
  BY <1>2, <1>3

-----------------------------------------------------------------------------
(* The requests.                                                           *)

\* One that is passed on is the one that follows those that have been, and decodes.
LEMMA SendingKeepsRequests ==
  ASSUME Shape, NEW s \in Sockets, Requests(s), Decoding(s),
         Decodes(s, "good"), SendRequest(s),
         handler'[s] \notin {"off", "open", "decode"}
  PROVE  Requests(s)'
<1>1. /\ reader[s] = "write" /\ reader'[s] = "newline" /\ typed[s][nread[s]] = "good"
      /\ nread'[s] = nread[s] /\ typed'[s] = typed[s] /\ reqs'[s] = Append(reqs[s], nread[s])
  BY DEF Decodes, Message, SendRequest, Shape, GoTypes, CallTypes
<1>2. Len(reqs[s]) + 1 = nread[s] /\ reqs[s] \in Seq(Nat) /\ nread[s] \in Nat
  BY <1>1 DEF Requests, Shape, InTypes, CallTypes
<1>3. /\ Len(reqs'[s]) = nread[s] /\ reqs'[s][nread[s]] = nread[s]
      /\ \A i \in 1 .. Len(reqs[s]) : reqs'[s][i] = reqs[s][i]
  BY <1>1, <1>2
<1>4. \A i \in 1 .. Len(reqs'[s]) : reqs'[s][i] = i /\ typed'[s][i] = "good"
  <2>1. \A i \in 1 .. Len(reqs'[s]) : i \in 1 .. Len(reqs[s]) \/ i = nread[s]
    BY <1>2, <1>3
  <2>2. QED
    BY <1>1, <1>3, <2>1 DEF Requests
<1>5. nread'[s] <= Len(typed'[s]) /\ Len(reqs'[s]) <= nread'[s]
  BY <1>1, <1>2, <1>3 DEF Requests
<1>6. QED
  BY <1>1, <1>3, <1>4, <1>5 DEF Requests

\* The read loop hands over the next message only.
LEMMA ReaderKeepsRequests ==
  ASSUME Shape, NEW s \in Sockets, Requests(s), Reader(s) \/ ReadNewline(s) PROVE Requests(s)'
<1> USE DEF Requests, Decoding, ReaderStep
<1>0. /\ typed[s] \in Seq(Messages) /\ nread[s] \in Nat /\ reqs[s] \in Seq(Nat)
      /\ handler' = handler /\ sender' = sender /\ reqs' = reqs /\ typed' = typed
  BY DEF Shape, InTypes, CallTypes, Reader, CheckContext, FindsCancelled, ReadMessage, ReadFails,
         WriteFails, NewlineFails, ReadNewline, ReaderEnds, callVars
<1>1. CASE ReadMessage(s)
  <2>1. nread'[s] = nread[s] + 1 /\ reader[s] = "read" /\ reader'[s] = "write"
    BY <1>1 DEF ReadMessage, Shape, InTypes, GoTypes
  <2>2. nread[s] < Len(typed[s])
    BY <1>1 DEF ReadMessage
  <2>3. QED
    BY <1>0, <2>1, <2>2
<1>2. CASE ~ReadMessage(s)
  <2>1. nread'[s] = nread[s]
    BY <1>2 DEF Reader, CheckContext, FindsCancelled, ReadFails, WriteFails, NewlineFails, ReadNewline,
                ReaderEnds
  <2>2. \/ reader'[s] = "done"
        \/ reader[s] \in {"select", "newline"} /\ reader'[s] \in {"select", "read"}
    BY <1>2 DEF Reader, CheckContext, FindsCancelled, ReadFails, WriteFails, NewlineFails, ReadNewline,
                ReaderEnds, Shape, GoTypes
  <2>3. QED
    BY <1>0, <2>1, <2>2
<1>3. QED
  BY <1>1, <1>2

\* A request that does not decode, or the end of the body, is the last that the
\* decoder takes.
LEMMA DecodingKeepsRequests ==
  ASSUME Shape, NEW s \in Sockets, Requests(s), Sender(s) \/ Handler(s)
  PROVE  Requests(s)'
<1>1. CASE SendsOn(s)
  <2>1. handler[s] \notin {"off", "open", "decode"} /\ UNCHANGED handler
    BY <1>1 DEF SendsOn, Requests
  <2>2. CASE srv[s] = "open"
    BY <1>1, <2>1, <2>2, SendingKeepsRequests DEF SendsOn, Decoding
  <2>3. CASE srv[s] # "open"
    BY <1>1, <2>1, <2>3 DEF SendsOn, Requests, Decodes, Decoding, callVars, Shape, GoTypes
  <2>4. QED
    BY <2>2, <2>3
<1>2. CASE SenderStops(s)
  <2>1. handler[s] \notin {"off", "open", "decode"} /\ UNCHANGED handler
    BY <1>2 DEF SenderStops, Requests
  <2>2. UNCHANGED <<typed, nread, reqs>> /\ sender'[s] = "close"
    BY <1>2 DEF SenderStops, Decodes, AtEOF, callVars, Shape, GoTypes
  <2>3. QED
    BY <2>1, <2>2 DEF Requests, Decoding
<1>3. CASE SenderCloses(s)
  <2>1. handler[s] \notin {"off", "open", "decode"} /\ UNCHANGED handler
    BY <1>3 DEF SenderCloses, Requests
  <2>2. UNCHANGED <<typed, nread, reqs>> /\ sender'[s] = "done"
    BY <1>3 DEF SenderCloses, CloseSend, Shape, GoTypes
  <2>3. QED
    BY <2>1, <2>2 DEF Requests, Decoding
<1>4. CASE FirstRequest(s)
  <2>1. handler'[s] = "header"
    BY <1>4 DEF FirstRequest, To, Shape, GoTypes
  <2>2. QED
    BY <1>4, <2>1, SendingKeepsRequests DEF FirstRequest, Decoding
<1>5. CASE OpenStream(s)
  BY <1>5 DEF OpenStream, To, HandlerOnly, Requests, Decoding, Shape, GoTypes
<1>6. CASE UnaryCall(s)
  BY <1>6 DEF UnaryCall, HandlerOnly, callVars, Requests, Decoding
<1>7. CASE \/ CallFails(s) \/ FirstBad(s) \/ FirstEOF(s) \/ Header(s) \/ CheckHeader(s) \/ ForwardEvent(s)
           \/ ForwardEnd(s) \/ UnaryRequest(s) \/ UnaryBad(s) \/ UnaryReply(s)
           \/ ResponseClosed(s) \/ HandlerReplies(s)
  <2>1. UNCHANGED <<typed, nread, reqs, sender>>
    BY <1>7 DEF CallFails, FirstBad, FirstEOF, Header, CheckHeader, ForwardEvent, ForwardEnd,
                UnaryRequest, UnaryBad, UnaryReply, ResponseClosed, HandlerReplies, Decodes, AtEOF,
                CloseSend, Returns, HandlerOnly, callVars
  <2>2. handler'[s] \in {"header", "check", "recv", "write", "call", "reply", "done"}
    BY <1>7 DEF CallFails, FirstBad, FirstEOF, Header, CheckHeader, ForwardEvent, ForwardEnd,
                UnaryRequest, UnaryBad, UnaryReply, ResponseClosed, HandlerReplies,
                Refuses, Writes, To, Returns, Shape, GoTypes
  <2>3. UNCHANGED reader \/ handler[s] = "decode"
    BY <1>7 DEF CallFails, FirstBad, FirstEOF, Header, CheckHeader, ForwardEvent, ForwardEnd,
                UnaryRequest, UnaryBad, UnaryReply, ResponseClosed, HandlerReplies, Returns, HandlerOnly
  <2>4. QED
    BY <2>1, <2>2, <2>3 DEF Requests, Decoding
<1>8. QED
  BY <1>1, <1>2, <1>3, <1>4, <1>5, <1>6, <1>7 DEF Sender, Handler

\* Every step keeps the requests in order.
LEMMA StepRequests ==
  ASSUME Shape, NEW s \in Sockets, SocketInv(s), SocketStep(s) PROVE Requests(s)'
<1>0. Requests(s)
  BY DEF SocketInv
<1>1. CASE Reader(s) \/ ReadNewline(s)
  BY <1>0, <1>1, ReaderKeepsRequests
<1>2. CASE Sender(s) \/ Handler(s)
  BY <1>0, <1>2, DecodingKeepsRequests
<1>3. CASE \E r \in Routes : Connect(s, r)
  <2>1. /\ nread[s] = 0 /\ reqs[s] = << >> /\ sender[s] = "off"
        /\ UNCHANGED <<typed, nread, reqs, sender>> /\ reader'[s] = "select"
    BY <1>3 DEF Connect, callVars, SocketInv, Unconnected, Shape, GoTypes
  <2>2. QED
    BY <1>0, <2>1 DEF Requests, Shape, InTypes
<1>4. ASSUME NEW m \in Messages, Type(s, m) PROVE Requests(s)'
  <2>1. /\ UNCHANGED <<nread, reqs, handler, sender, reader>> /\ typed'[s] = Append(typed[s], m)
        /\ typed[s] \in Seq(Messages) /\ nread[s] \in Nat /\ reqs[s] \in Seq(Nat)
    BY <1>4 DEF Type, callVars, Shape, InTypes, CallTypes
  <2>2. /\ Len(typed'[s]) = Len(typed[s]) + 1
        /\ \A i \in 1 .. Len(typed[s]) : typed'[s][i] = typed[s][i]
    BY <2>1
  <2>3. \A i \in 1 .. Len(reqs[s]) : i \in 1 .. Len(typed[s])
    BY <1>0, <2>1 DEF Requests
  <2>4. QED
    BY <1>0, <2>1, <2>2, <2>3 DEF Requests, Decoding
<1>5. CASE \/ Leave(s) \/ Scanner(s)
           \/ \E l \in Events(s) : Emit(s, l)
           \/ EndStream(s)
           \/ \E pipe \in pipes[s] : Closer(s, pipe)
  <2>1. UNCHANGED <<typed, nread, reqs, sender, reader>>
    BY <1>5 DEF Leave, Scanner, ScanLine, ScanTooLong, ScanEnd, WriteMessage, WriteMessageFails,
                CancelContext, CloseSocket, ScannerTo, Emit, EndStream, Closer, callVars
  <2>2. handler'[s] = handler[s] \/ (handler[s] = "write" /\ handler'[s] = "recv")
    BY <1>5 DEF Leave, Scanner, ScanLine, ScanTooLong, ScanEnd, WriteMessage, WriteMessageFails,
                CancelContext, CloseSocket, ScannerTo, To, Emit, EndStream, Closer, Shape, GoTypes
  <2>3. QED
    BY <1>0, <2>1, <2>2 DEF Requests, Decoding
<1>6. QED
  BY <1>1, <1>2, <1>3, <1>4, <1>5 DEF SocketStep

-----------------------------------------------------------------------------
(* The events: on their way from the server to the client.                 *)

Flow(s) == Passing(s) /\ Heard(s) /\ Flowing(s) /\ Ending(s) /\ Stopped(s)

\* The sequences of a socket are sequences.
LEMMA SocketSeqs ==
  ASSUME Shape, NEW s \in Sockets
  PROVE  /\ wire[s] \in Seq(Lines) /\ emitted[s] \in Seq(Lines) /\ rest[s] \in Seq(Lines)
         /\ got[s] \in Seq(Lines) /\ line[s] \in [out : Lines, in : Lines]
         /\ Len(wire[s]) \in Nat /\ Len(emitted[s]) \in Nat /\ Len(rest[s]) \in Nat
         /\ Len(got[s]) \in Nat
  BY DEF Shape, CallTypes, OutTypes

\* There are no more events passed on than sent.
LEMMA PassedRange ==
  ASSUME Shape, NEW s \in Sockets
  PROVE  Passed(s) \in Int /\ Passed(s) <= Len(emitted[s]) /\ (Passed(s) >= 1 => Passed(s) \in 1 .. Len(emitted[s]))
<1>1. Len(wire[s]) \in Nat /\ Len(emitted[s]) \in Nat
  BY SocketSeqs
<1>2. \A m, n \in Nat : m - n \in Int /\ m - n <= m /\ (m - n >= 1 => m - n \in 1 .. m)
  OBVIOUS
<1>3. QED
  BY <1>1, <1>2, Zenon DEF Passed

\* Those on the wire are the ones after those passed on.
LEMMA AfterPassed ==
  ASSUME Shape, NEW s \in Sockets, Passing(s)
  PROVE  /\ \A i \in 1 .. Len(wire[s]) : Passed(s) + i \in 1 .. Len(emitted[s])
         /\ Passed(s) + (Len(wire[s]) + 1) = Len(emitted[s]) + 1
<1>1. Len(wire[s]) \in Nat /\ Len(emitted[s]) \in Nat /\ Len(wire[s]) <= Len(emitted[s])
  BY SocketSeqs DEF Passing
<1>2. \A m, n \in Nat : n <= m => /\ \A i \in 1 .. n : (m - n) + i \in 1 .. m
                                  /\ (m - n) + (n + 1) = m + 1
  OBVIOUS
<1>3. QED
  BY <1>1, <1>2, Zenon DEF Passed

SameLines(s) == /\ emitted'[s] = emitted[s] /\ wire'[s] = wire[s] /\ line'[s] = line[s]
                /\ rest'[s] = rest[s] /\ got'[s] = got[s] /\ scanner'[s] = scanner[s]

\* The call's state changes once its handler has opened it, and once ended stays so.
SrvMoves(s) == /\ srv'[s] = srv[s] \/ handler'[s] \notin {"off", "open"}
               /\ srv[s] = "ended" => srv'[s] = "ended"
Cancels(s)  == ctxDone'[s] => ctxDone[s] \/ ~Scans(s)
ClientStays(s) == client'[s] = "open" => client[s] = "open"

\* A step that moves no line.
Aside(s) ==
  /\ SameLines(s) /\ SrvMoves(s) /\ Cancels(s) /\ ClientStays(s)
  /\ \/ handler'[s] = handler[s]
     \/ handler[s] \notin {"write", "reply", "done"} /\ handler'[s] \notin {"off", "open", "write", "reply", "done"}

\* Such a step keeps the events in order.
LEMMA AsideKeepsFlow ==
  ASSUME NEW s \in Sockets, Flow(s), Aside(s) PROVE Flow(s)'
<1> USE DEF Flow, Aside, SameLines, SrvMoves, Cancels, ClientStays
<1>1. Passing(s)'
  BY DEF Passing, Passed
<1>2. Heard(s)'
  BY DEF Heard
<1>3. Flowing(s)'
  <2>1. Scans(s)' => Scans(s)
    BY DEF Scans
  <2>2. (handler'[s] = "write") = (handler[s] = "write")
    OBVIOUS
  <2>3. QED
    BY <2>1, <2>2 DEF Flowing, OnlyEvents, SendsNext, InScanner, InHandler, Passed
<1>4. Ending(s)'
  <2>1. Scans(s)' => Scans(s)
    BY DEF Scans
  <2>2. handler'[s] = "done" => handler[s] = "done"
    OBVIOUS
  <2>3. QED
    BY <2>1, <2>2 DEF Ending, WordWaits, WordSent, WordGiven, OnlyEvents, SendsNext, AllBefore, InScanner
<1>5. Stopped(s)'
  BY DEF Stopped, WordGiven, CutOff
<1>6. QED
  BY <1>1, <1>2, <1>3, <1>4, <1>5

\* A step by which the handler comes to its reply.
Answers(s) ==
  /\ emitted'[s] = emitted[s] /\ wire'[s] = wire[s] /\ line'[s].in = line[s].in
  /\ rest'[s] = rest[s] /\ got'[s] = got[s] /\ scanner'[s] = scanner[s]
  /\ SrvMoves(s) /\ client'[s] = client[s] /\ ctxDone'[s] = ctxDone[s]
  /\ handler[s] \notin {"off", "write", "reply", "done"} /\ handler'[s] = "reply"
  /\ ~IsEvent(line'[s].out)
  /\ line'[s].out = End => srv[s] = "ended" /\ wire[s] = << >>

\* Such a step does too: nothing is written before the reply that is not taken.
LEMMA AnswersKeepsFlow ==
  ASSUME NEW s \in Sockets, Flow(s), Answers(s) PROVE Flow(s)'
<1> USE DEF Flow, Answers, SrvMoves
<1>1. Passing(s)'
  BY DEF Passing, Passed
<1>2. Heard(s)'
  BY DEF Heard
<1>3. Flowing(s)'
  BY DEF Flowing, Scans, OnlyEvents, SendsNext, InScanner, InHandler, Passed
<1>4. Ending(s)'
  BY DEF Ending, WordWaits, WordSent, WordGiven, OnlyEvents, SendsNext, AllBefore, InScanner
<1>5. Stopped(s)'
  BY DEF Stopped, WordGiven, CutOff
<1>6. QED
  BY <1>1, <1>2, <1>3, <1>4, <1>5

\* A step by which the write loop ends.
WindsDown(s) ==
  /\ emitted'[s] = emitted[s] /\ wire'[s] = wire[s] /\ line'[s] = line[s]
  /\ rest'[s] = rest[s] /\ got'[s] = got[s] /\ srv'[s] = srv[s]
  /\ client'[s] = client[s] /\ handler'[s] = handler[s]
  /\ scanner'[s] \in {"stop", "close", "done"}
  /\ \/ client[s] = "gone"
     \/ scanner[s] \in {"stop", "close", "done"}
     \/ CutOff(s)

\* Such a step does too: the loop ends at a long line, or when the client has gone.
LEMMA WindsDownKeepsFlow ==
  ASSUME Shape, NEW s \in Sockets, Flow(s), WindsDown(s) PROVE Flow(s)'
<1> USE DEF Flow, WindsDown
<1>1. Passing(s)'
  BY DEF Passing, Passed
<1>2. Heard(s)'
  BY DEF Heard
<1>3. Flowing(s)' /\ Ending(s)'
  BY DEF Flowing, Ending, Scans
<1>4. Stopped(s)'
  BY DEF Stopped, WordGiven, CutOff
<1>5. QED
  BY <1>1, <1>2, <1>3, <1>4

\* A socket that has just been connected.
LEMMA ConnectKeepsFlow ==
  ASSUME Shape, NEW s \in Sockets, SocketInv(s), NEW r \in Routes, Connect(s, r)
  PROVE  Flow(s)'
<1>1. /\ client[s] = "off" /\ client'[s] = "open" /\ scanner'[s] = "scan"
      /\ handler'[s] \in {"open", "decode"}
      /\ UNCHANGED <<emitted, wire, line, rest, got, srv, ctxDone>>
  BY DEF Connect, callVars, outVars, Shape, InTypes, GoTypes
<1>2. /\ handler[s] = "off" /\ scanner[s] = "off" /\ got[s] = << >> /\ emitted[s] = << >>
      /\ ctxDone[s] = FALSE
  BY <1>1 DEF SocketInv, Unconnected
<1>3. Passing(s) /\ srv[s] = "none" /\ rest[s] = << >>
  BY <1>2 DEF SocketInv, Passing
<1>4. Len(emitted[s]) = 0 /\ Len(got[s]) = 0 /\ Len(wire[s]) = 0
  BY <1>2, <1>3, SocketSeqs DEF Passing
<1>5. Passing(s)'
  BY <1>1, <1>3, <1>4 DEF Passing, Passed
<1>6. Flowing(s)'
  BY <1>1, <1>2, <1>4 DEF Flowing, OnlyEvents, SendsNext, InScanner, InHandler, Passed
<1>7. Heard(s)' /\ Ending(s)' /\ Stopped(s)'
  BY <1>1, <1>4 DEF Heard, Ending, Stopped
<1>8. QED
  BY <1>5, <1>6, <1>7 DEF Flow

\* The server sends an event: it is the last of those on the wire.
LEMMA EmitKeepsFlow ==
  ASSUME Shape, NEW s \in Sockets, Flow(s), NEW l \in Events(s), Emit(s, l)
  PROVE  Flow(s)'
<1>1. /\ srv[s] # "ended" /\ srv[s] # "none"
      /\ UNCHANGED <<client, ctxDone, handler, scanner, srv, line, rest, got>>
      /\ emitted'[s] = Append(emitted[s], l) /\ wire'[s] = Append(wire[s], l)
  BY DEF Emit, outVars, Shape, CallTypes
<1>2. IsEvent(l) /\ l \in Lines
  BY EventLines DEF Emit, Shape
<1>3. /\ emitted[s] \in Seq(Lines) /\ wire[s] \in Seq(Lines)
      /\ Len(emitted[s]) \in Nat /\ Len(wire[s]) \in Nat /\ Len(got[s]) \in Nat
  BY SocketSeqs
<1>4. /\ Len(emitted'[s]) = Len(emitted[s]) + 1 /\ Len(wire'[s]) = Len(wire[s]) + 1
      /\ \A i \in 1 .. Len(emitted[s]) : emitted'[s][i] = emitted[s][i]
      /\ \A i \in 1 .. Len(wire[s]) : wire'[s][i] = wire[s][i]
      /\ emitted'[s][Len(emitted[s]) + 1] = l /\ wire'[s][Len(wire[s]) + 1] = l
  BY <1>1, <1>2, <1>3
<1>5. Passed(s)' = Passed(s) /\ Passed(s) \in Nat
  BY <1>3, <1>4 DEF Passed, Flow, Passing
<1>6. Passing(s)'
  <2>1. Len(wire'[s]) <= Len(emitted'[s])
    BY <1>3, <1>4 DEF Flow, Passing
  <2>2. ASSUME NEW i \in 1 .. Len(wire'[s]) PROVE wire'[s][i] = emitted'[s][Passed(s) + i]
    <3>1. CASE i \in 1 .. Len(wire[s])
      <4>1. wire[s][i] = emitted[s][Passed(s) + i]
        BY <3>1 DEF Flow, Passing
      <4>2. Passed(s) + i \in 1 .. Len(emitted[s])
        BY <3>1, AfterPassed DEF Flow
      <4>3. QED
        BY <1>4, <3>1, <4>1, <4>2
    <3>2. CASE i = Len(wire[s]) + 1
      <4>1. Passed(s) + i = Len(emitted[s]) + 1
        BY <3>2, AfterPassed DEF Flow
      <4>2. QED
        BY <1>4, <3>2, <4>1
    <3>3. QED
      BY <1>3, <1>4, <3>1, <3>2
  <2>3. ASSUME NEW i \in 1 .. Len(emitted'[s]) PROVE IsEvent(emitted'[s][i])
    <3>1. CASE i \in 1 .. Len(emitted[s])
      BY <1>4, <3>1 DEF Flow, Passing
    <3>2. CASE i = Len(emitted[s]) + 1
      BY <1>2, <1>4, <3>2
    <3>3. QED
      BY <1>3, <1>4, <3>1, <3>2
  <2>4. handler[s] = "write" => Passed(s) >= 1 /\ line[s].out = emitted'[s][Passed(s)]
    <3>1. SUFFICES ASSUME handler[s] = "write"
                   PROVE  Passed(s) >= 1 /\ line[s].out = emitted'[s][Passed(s)]
      OBVIOUS
    <3>2. Passed(s) >= 1 /\ line[s].out = emitted[s][Passed(s)]
      BY <3>1 DEF Flow, Passing
    <3>3. Passed(s) \in 1 .. Len(emitted[s])
      BY <3>2, PassedRange
    <3>4. QED
      BY <1>4, <3>2, <3>3
  <2>5. /\ handler[s] = "reply" => ~IsEvent(line[s].out) /\ line[s].out # End
        /\ handler[s] \notin {"off", "open"}
        /\ handler[s] # "done" => rest[s] = << >>
        /\ Len(rest[s]) <= 1
    BY <1>1 DEF Flow, Passing
  <2>6. QED
    BY <1>1, <1>5, <2>1, <2>2, <2>3, <2>4, <2>5 DEF Passing
<1>7. Heard(s)'
  <2>1. SUFFICES ASSUME NEW i \in 1 .. Len(got[s])
                 PROVE  IF IsEvent(got[s][i]) THEN i <= Len(emitted'[s]) /\ got[s][i] = emitted'[s][i]
                        ELSE i = Len(got[s]) /\ got[s][i] # End
    BY <1>1 DEF Heard
  <2>2. CASE IsEvent(got[s][i])
    <3>1. i \in 1 .. Len(emitted[s]) /\ got[s][i] = emitted[s][i]
      BY <1>3, <2>2 DEF Flow, Heard
    <3>2. i <= Len(emitted'[s])
      BY <1>3, <1>4, <3>1
    <3>3. QED
      BY <1>4, <2>2, <3>1, <3>2
  <2>3. CASE ~IsEvent(got[s][i])
    BY <1>1, <2>3 DEF Flow, Heard
  <2>4. QED
    BY <2>2, <2>3
<1>8. SendsNext(s) => SendsNext(s)'
  <2>1. SUFFICES ASSUME scanner[s] = "send", Len(got[s]) < Len(emitted[s]),
                        line[s].in = emitted[s][Len(got[s]) + 1]
                 PROVE  /\ Len(got[s]) < Len(emitted'[s])
                        /\ line[s].in = emitted'[s][Len(got[s]) + 1]
    BY <1>1 DEF SendsNext
  <2>2. Len(got[s]) + 1 \in 1 .. Len(emitted[s])
    BY <1>3, <2>1
  <2>3. QED
    BY <1>3, <1>4, <2>1, <2>2
<1>9. OnlyEvents(s)' = OnlyEvents(s)
  BY <1>1 DEF OnlyEvents
<1>10. Flowing(s)'
  BY <1>1, <1>5, <1>8, <1>9 DEF Flow, Flowing, Scans, InScanner, InHandler
<1>11. Ending(s)'
  <2>1. WordWaits(s) => WordWaits(s)'
    BY <1>1, <1>8, <1>9 DEF WordWaits, AllBefore
  <2>2. WordSent(s) => WordSent(s)'
    BY <1>1, <1>9 DEF WordSent, AllBefore
  <2>3. WordGiven(s)' = WordGiven(s)
    BY <1>1 DEF WordGiven
  <2>4. QED
    BY <1>1, <2>1, <2>2, <2>3 DEF Flow, Ending, Scans
<1>12. Stopped(s)'
  <2>1. WordGiven(s)' = WordGiven(s)
    BY <1>1 DEF WordGiven
  <2>2. QED
    BY <1>1, <2>1 DEF Flow, Stopped, CutOff
<1>13. QED
  BY <1>6, <1>7, <1>10, <1>11, <1>12 DEF Flow

\* The handler takes the first of the wire's events, which is the next to pass on.
LEMMA ForwardKeepsFlow ==
  ASSUME Shape, NEW s \in Sockets, Flow(s), ForwardEvent(s) PROVE Flow(s)'
<1>1. /\ handler[s] = "recv" /\ handler'[s] = "write" /\ wire[s] # << >>
      /\ wire'[s] = Tail(wire[s])
      /\ line'[s].out = Head(wire[s]) /\ line'[s].in = line[s].in
      /\ UNCHANGED <<client, ctxDone, scanner, srv, emitted, rest, got>>
  BY DEF ForwardEvent, Writes, To, HandlerOnly, Shape, GoTypes, CallTypes, OutTypes
<1>2. /\ wire[s] \in Seq(Lines) /\ Len(wire[s]) \in Nat /\ Len(emitted[s]) \in Nat
  BY SocketSeqs
<1>3. /\ Len(wire[s]) >= 1 /\ Len(wire'[s]) = Len(wire[s]) - 1 /\ line'[s].out = wire[s][1]
      /\ \A i \in 1 .. Len(wire'[s]) : wire'[s][i] = wire[s][i + 1]
  BY <1>1, <1>2
<1>4. Passed(s)' = Passed(s) + 1 /\ Passed(s) \in Nat
  <2>1. \A m, n \in Nat : m - (n - 1) = (m - n) + 1
    OBVIOUS
  <2>2. Passed(s)' = Passed(s) + 1
    BY <1>1, <1>2, <1>3, <2>1, Zenon DEF Passed
  <2>3. Passed(s) \in Nat
    BY <1>2 DEF Passed, Flow, Passing
  <2>4. QED
    BY <2>2, <2>3
<1>5. Passing(s)'
  <2>1. Len(wire'[s]) <= Len(emitted[s])
    BY <1>2, <1>3 DEF Flow, Passing
  <2>2. ASSUME NEW i \in 1 .. Len(wire'[s]) PROVE wire'[s][i] = emitted[s][Passed(s) + 1 + i]
    <3>1. i + 1 \in 1 .. Len(wire[s]) /\ wire'[s][i] = wire[s][i + 1]
      BY <1>2, <1>3
    <3>2. wire[s][i + 1] = emitted[s][Passed(s) + (i + 1)]
      BY <3>1 DEF Flow, Passing
    <3>3. Passed(s) + (i + 1) = Passed(s) + 1 + i
      BY <1>4
    <3>4. QED
      BY <3>1, <3>2, <3>3
  <2>3. line'[s].out = emitted[s][Passed(s) + 1]
    <3>1. 1 \in 1 .. Len(wire[s])
      BY <1>2, <1>3
    <3>2. QED
      BY <1>3, <3>1 DEF Flow, Passing
  <2>4. \A i \in 1 .. Len(emitted[s]) : IsEvent(emitted[s][i])
    BY DEF Flow, Passing
  <2>5. rest[s] = << >> /\ Len(rest[s]) <= 1
    BY <1>1 DEF Flow, Passing
  <2>6. QED
    BY <1>1, <1>4, <2>1, <2>2, <2>3, <2>4, <2>5 DEF Passing
<1>6. Flowing(s)'
  <2>1. OnlyEvents(s)' = OnlyEvents(s) /\ SendsNext(s)' = SendsNext(s)
    BY <1>1 DEF OnlyEvents, SendsNext
  <2>2. InScanner(s)' = InScanner(s) /\ InScanner(s) \in Nat /\ InHandler(s) = 0 /\ InHandler(s)' = 1
    BY <1>1 DEF InScanner, InHandler
  <2>3. Scans(s)' = Scans(s)
    BY <1>1 DEF Scans
  <2>4. QED
    BY <1>1, <1>4, <2>1, <2>2, <2>3, SocketSeqs DEF Flow, Flowing
<1>7. Heard(s)' /\ Ending(s)' /\ Stopped(s)'
  BY <1>1 DEF Flow, Heard, Ending, Stopped, WordGiven, CutOff
<1>8. QED
  BY <1>5, <1>6, <1>7 DEF Flow

\* The handler returns as its pipe is closed: no client that is there is served.
LEMMA ClosedKeepsFlow ==
  ASSUME Shape, NEW s \in Sockets, Flow(s), Closing(s), ResponseClosed(s) PROVE Flow(s)'
<1>1. /\ handler[s] \in {"write", "reply"} /\ handler'[s] = "done" /\ "response" \notin pipes[s]
      /\ srv[s] = "ended" => srv'[s] = "ended"
      /\ UNCHANGED <<client, scanner, emitted, wire, line, rest, got>>
  BY DEF ResponseClosed, Returns, To, Shape, GoTypes, CallTypes
<1>2. ctxDone[s] /\ ~Scans(s)
  BY <1>1 DEF Closing, Flow, Flowing
<1>3. Passing(s)'
  BY <1>1 DEF Flow, Passing, Passed
<1>4. Heard(s)'
  BY <1>1 DEF Flow, Heard
<1>5. Flowing(s)' /\ Ending(s)'
  BY <1>1, <1>2 DEF Flowing, Ending, Scans
<1>6. Stopped(s)'
  BY <1>1 DEF Flow, Stopped, WordGiven, CutOff
<1>7. QED
  BY <1>3, <1>4, <1>5, <1>6 DEF Flow

\* The handler's reply becomes the scanner's line without end: all that it has
\* written before has been taken.
LEMMA RepliesKeepFlow ==
  ASSUME Shape, NEW s \in Sockets, Flow(s), HandlerReplies(s) PROVE Flow(s)'
<1>1. /\ handler[s] = "reply" /\ handler'[s] = "done" /\ scanner[s] = "scan"
      /\ srv[s] = "ended" => srv'[s] = "ended"
      /\ rest'[s] = Append(rest[s], line[s].out)
      /\ UNCHANGED <<client, scanner, emitted, wire, line, got>>
  BY DEF HandlerReplies, Returns, To, Shape, GoTypes, CallTypes, OutTypes
<1>2. /\ rest[s] = << >> /\ ~IsEvent(line[s].out)
      /\ line[s].out = End => srv[s] = "ended" /\ wire[s] = << >>
  BY <1>1 DEF Flow, Passing
<1>3. Len(rest'[s]) = 1 /\ rest'[s][1] = line[s].out
  BY <1>1, <1>2
<1>4. Passing(s)'
  <2>1. Len(rest'[s]) <= 1
    BY <1>3
  <2>2. QED
    BY <1>1, <2>1 DEF Flow, Passing, Passed
<1>5. Ending(s)'
  <2>1. SUFFICES ASSUME Scans(s) PROVE WordWaits(s)'
    BY <1>1 DEF Ending, Scans
  <2>2. OnlyEvents(s) /\ Len(got[s]) + InScanner(s) + InHandler(s) = Passed(s)
    BY <1>1, <2>1 DEF Flow, Flowing
  <2>3. InScanner(s) = 0 /\ InHandler(s) = 0 /\ InScanner(s)' = 0
    BY <1>1 DEF InScanner, InHandler
  <2>4. Len(got[s]) = Passed(s)
    BY <2>2, <2>3, SocketSeqs
  <2>5. wire[s] = << >> => Passed(s) = Len(emitted[s])
    BY SocketSeqs DEF Passed
  <2>6. AllBefore(s, rest[s][1], Len(got[s]) + InScanner(s))'
    BY <1>1, <1>2, <1>3, <2>3, <2>4, <2>5, SocketSeqs DEF AllBefore
  <2>7. OnlyEvents(s)' /\ SendsNext(s)'
    BY <1>1, <2>2 DEF OnlyEvents, SendsNext
  <2>8. QED
    BY <1>2, <1>3, <2>6, <2>7 DEF WordWaits
<1>6. Heard(s)' /\ Flowing(s)' /\ Stopped(s)'
  BY <1>1 DEF Flow, Heard, Flowing, Stopped, WordGiven, CutOff
<1>7. QED
  BY <1>4, <1>5, <1>6 DEF Flow

\* The scanner takes the line that the handler writes.
LEMMA ScanLineKeepsFlow ==
  ASSUME Shape, NEW s \in Sockets, Flow(s), ScanLine(s) PROVE Flow(s)'
<1>1. /\ scanner[s] = "scan" /\ scanner'[s] = "send" /\ handler[s] = "write" /\ handler'[s] = "recv"
      /\ line'[s].in = line[s].out
      /\ UNCHANGED <<client, ctxDone, srv, emitted, wire, rest, got>>
  BY DEF ScanLine, ScannerTo, To, callVars, Shape, GoTypes, OutTypes
<1>2. Passed(s) >= 1 /\ line[s].out = emitted[s][Passed(s)] /\ Passed(s)' = Passed(s)
  BY <1>1 DEF Flow, Passing, Passed
<1>3. Passing(s)'
  BY <1>1, <1>2 DEF Flow, Passing
<1>4. Flowing(s)'
  <2>1. SUFFICES ASSUME Scans(s)
                 PROVE  /\ ~ctxDone[s] /\ OnlyEvents(s)' /\ SendsNext(s)'
                        /\ Len(got[s]) + InScanner(s)' + InHandler(s)' = Passed(s)
    BY <1>1, <1>2 DEF Flowing, Scans
  <2>2. ~ctxDone[s] /\ OnlyEvents(s) /\ Len(got[s]) + InScanner(s) + InHandler(s) = Passed(s)
    BY <1>1, <2>1 DEF Flow, Flowing
  <2>3. InScanner(s) = 0 /\ InHandler(s) = 1 /\ InScanner(s)' = 1 /\ InHandler(s)' = 0
    BY <1>1 DEF InScanner, InHandler
  <2>4. Len(got[s]) + 1 = Passed(s) /\ Len(got[s]) \in Nat
    BY <2>2, <2>3, SocketSeqs
  <2>5. Passed(s) \in 1 .. Len(emitted[s])
    BY <1>2, PassedRange
  <2>6. SendsNext(s)'
    BY <1>1, <1>2, <2>4, <2>5, SocketSeqs DEF SendsNext
  <2>7. OnlyEvents(s)'
    BY <1>1, <2>2 DEF OnlyEvents
  <2>8. QED
    BY <2>2, <2>3, <2>4, <2>6, <2>7
<1>5. Heard(s)' /\ Ending(s)' /\ Stopped(s)'
  BY <1>1 DEF Flow, Heard, Ending, Stopped
<1>6. QED
  BY <1>3, <1>4, <1>5 DEF Flow

\* At the end of the body the scanner takes the last word, if it has not had it.
LEMMA ScanEndKeepsFlow ==
  ASSUME Shape, NEW s \in Sockets, Flow(s), Closing(s), ScanEnd(s) PROVE Flow(s)'
<1>1. /\ scanner[s] = "scan" /\ "response" \notin pipes[s]
      /\ rest'[s] = << >>
      /\ UNCHANGED <<client, ctxDone, handler, srv, emitted, wire, got>>
      /\ line'[s].out = line[s].out
  BY DEF ScanEnd, ScannerTo, callVars, Shape, OutTypes
<1>5. Len(rest'[s]) <= 1
  BY <1>1
<1>2. CASE rest[s] = << >>
  <2>1. scanner'[s] = "stop"
    BY <1>1, <1>2 DEF ScanEnd, ScannerTo, Shape, GoTypes
  <2>2. client[s] = "open" => WordGiven(s)
    BY <1>1, <1>2 DEF Closing, Flow, Flowing, Ending, Scans, WordWaits, WordSent
  <2>3. Passing(s)'
    BY <1>1, <1>5 DEF Flow, Passing, Passed
  <2>4. Stopped(s)'
    BY <1>1, <2>2 DEF Stopped, WordGiven, CutOff
  <2>5. Heard(s)' /\ Flowing(s)' /\ Ending(s)'
    BY <1>1, <2>1 DEF Flow, Heard, Flowing, Ending, Scans
  <2>6. QED
    BY <2>3, <2>4, <2>5 DEF Flow
<1>3. CASE rest[s] # << >>
  <2>1. scanner'[s] = "send" /\ line'[s].in = rest[s][1]
    BY <1>1, <1>3 DEF ScanEnd, ScannerTo, Shape, GoTypes, OutTypes
  <2>2. handler[s] = "done"
    BY <1>3 DEF Flow, Passing
  <2>3. client[s] = "open" => WordSent(s)'
    <3>1. SUFFICES ASSUME client[s] = "open" PROVE WordSent(s)'
      OBVIOUS
    <3>2. WordWaits(s)
      BY <1>1, <1>3, <2>2, <3>1 DEF Flow, Ending, Scans, WordSent
    <3>3. InScanner(s) = 0 /\ Len(got[s]) + 0 = Len(got[s])
      BY <1>1, SocketSeqs DEF InScanner
    <3>4. OnlyEvents(s)' /\ ~IsEvent(line'[s].in) /\ AllBefore(s, line[s].in, Len(got[s]))'
      BY <1>1, <2>1, <3>2, <3>3 DEF WordWaits, OnlyEvents, AllBefore
    <3>5. QED
      BY <1>1, <2>1, <3>4 DEF WordSent
  <2>4. Passing(s)'
    BY <1>1, <1>5, <2>2 DEF Flow, Passing, Passed
  <2>5. Ending(s)'
    BY <1>1, <2>3 DEF Ending, Scans
  <2>6. Heard(s)' /\ Flowing(s)' /\ Stopped(s)'
    BY <1>1, <2>1, <2>2 DEF Flow, Heard, Flowing, Stopped
  <2>7. QED
    BY <2>4, <2>5, <2>6 DEF Flow
<1>4. QED
  BY <1>2, <1>3

\* The scanner's line becomes a message: the next event, or the last word.
LEMMA WriteKeepsFlow ==
  ASSUME Shape, NEW s \in Sockets, Flow(s), WriteMessage(s) PROVE Flow(s)'
<1>1. /\ scanner[s] = "send" /\ scanner'[s] = "scan"
      /\ client[s] = "open" => got'[s] = Append(got[s], line[s].in)
      /\ client[s] # "open" => got'[s] = got[s]
      /\ UNCHANGED <<client, ctxDone, handler, srv, emitted, wire, line, rest>>
  BY DEF WriteMessage, ScannerTo, callVars, Shape, GoTypes, OutTypes
<1>2. Passing(s)'
  BY <1>1 DEF Flow, Passing, Passed
<1>3. CASE client[s] # "open"
  BY <1>1, <1>2, <1>3 DEF Flow, Heard, Flowing, Ending, Scans, Stopped
<1>4. CASE client[s] = "open"
  <2>1. /\ got[s] \in Seq(Lines) /\ line[s].in \in Lines /\ Len(got[s]) \in Nat
        /\ Len(emitted[s]) \in Nat
    BY SocketSeqs
  <2>2. /\ Len(got'[s]) = Len(got[s]) + 1 /\ got'[s][Len(got[s]) + 1] = line[s].in
        /\ \A i \in 1 .. Len(got[s]) : got'[s][i] = got[s][i]
        /\ \A i \in 1 .. Len(got'[s]) : i \in 1 .. Len(got[s]) \/ i = Len(got[s]) + 1
    BY <1>1, <1>4, <2>1
  <2>3. OnlyEvents(s)
    BY <1>1, <1>4 DEF Flow, Flowing, Ending, Scans, WordWaits, WordSent
  <2>4. Stopped(s)'
    BY <1>1 DEF Stopped
  <2>5. CASE SendsNext(s) /\ ~(handler[s] = "done" /\ ~WordWaits(s))
    <3>1. Len(got[s]) + 1 \in 1 .. Len(emitted[s]) /\ line[s].in = emitted[s][Len(got[s]) + 1]
      BY <1>1, <2>1, <2>5 DEF SendsNext
    <3>2. IsEvent(line[s].in)
      BY <3>1 DEF Flow, Passing
    <3>3. OnlyEvents(s)'
      BY <2>2, <2>3, <3>2 DEF OnlyEvents
    <3>4. Heard(s)'
      <4>1. \A i \in 1 .. Len(got[s]) : i <= Len(emitted[s]) /\ got[s][i] = emitted[s][i]
        BY <2>3 DEF Flow, Heard, OnlyEvents
      <4>2. \A i \in 1 .. Len(got'[s]) : i <= Len(emitted[s]) /\ got'[s][i] = emitted[s][i]
        BY <2>1, <2>2, <3>1, <4>1
      <4>3. QED
        BY <1>1, <3>3, <4>2 DEF Heard, OnlyEvents
    <3>5. InScanner(s) = 1 /\ InScanner(s)' = 0 /\ InHandler(s)' = InHandler(s) /\ InHandler(s) \in Nat
      BY <1>1 DEF InScanner, InHandler
    <3>6. SendsNext(s)'
      BY <1>1 DEF SendsNext
    <3>7. Flowing(s)'
      <4>1. Passed(s)' = Passed(s)
        BY <1>1 DEF Passed
      <4>2. SUFFICES ASSUME handler[s] # "done"
                     PROVE  ~ctxDone[s] /\ Len(got'[s]) + 0 + InHandler(s) = Passed(s)
        BY <1>1, <3>3, <3>5, <3>6, <4>1 DEF Flowing
      <4>3. ~ctxDone[s] /\ Len(got[s]) + 1 + InHandler(s) = Passed(s)
        BY <1>1, <1>4, <3>5, <4>2 DEF Flow, Flowing, Scans
      <4>4. QED
        BY <2>1, <2>2, <3>5, <4>3
    <3>8. Ending(s)'
      <4>1. SUFFICES ASSUME handler[s] = "done" PROVE WordWaits(s)'
        BY <1>1 DEF Ending
      <4>2. WordWaits(s)
        BY <2>5, <4>1
      <4>3. AllBefore(s, rest[s][1], Len(got[s]) + InScanner(s))'
        BY <1>1, <2>1, <2>2, <3>5, <4>2 DEF WordWaits, AllBefore
      <4>4. QED
        BY <1>1, <3>3, <3>6, <4>2, <4>3 DEF WordWaits
    <3>9. QED
      BY <1>2, <2>4, <3>4, <3>7, <3>8 DEF Flow
  <2>6. CASE handler[s] = "done" /\ ~WordWaits(s)
    <3>1. WordSent(s)
      BY <1>1, <1>4, <2>6 DEF Flow, Ending, Scans
    <3>2. Heard(s)'
      <4>1. SUFFICES ASSUME NEW i \in 1 .. Len(got'[s])
                     PROVE  IF IsEvent(got'[s][i]) THEN i <= Len(emitted[s]) /\ got'[s][i] = emitted[s][i]
                            ELSE i = Len(got'[s]) /\ (got'[s][i] = End => srv[s] = "ended" /\ Len(got'[s]) = Len(emitted[s]) + 1)
        BY <1>1 DEF Heard
      <4>2. CASE i \in 1 .. Len(got[s])
        BY <2>2, <2>3, <4>2 DEF Flow, Heard, OnlyEvents
      <4>3. CASE i = Len(got[s]) + 1
        <5>1. got'[s][i] = line[s].in /\ ~IsEvent(line[s].in) /\ i = Len(got'[s])
          BY <2>2, <3>1, <4>3 DEF WordSent
        <5>2. line[s].in = End => srv[s] = "ended" /\ Len(got'[s]) = Len(emitted[s]) + 1
          BY <2>1, <2>2, <3>1 DEF WordSent, AllBefore
        <5>3. QED
          BY <5>1, <5>2
      <4>4. QED
        BY <2>2, <4>2, <4>3
    <3>3. WordGiven(s)'
      <4>1. got'[s] # << >> /\ got'[s][Len(got'[s])] = line[s].in
        BY <1>1, <1>4, <2>1, <2>2
      <4>2. QED
        BY <3>1, <4>1 DEF WordGiven, WordSent
    <3>4. Flowing(s)' /\ Ending(s)'
      BY <1>1, <2>6, <3>1, <3>3 DEF Flowing, Ending, WordSent
    <3>5. QED
      BY <1>2, <2>4, <3>2, <3>4 DEF Flow
  <2>7. handler[s] # "done" => SendsNext(s)
    BY <1>1, <1>4 DEF Flow, Flowing, Scans
  <2>8. QED
    BY <2>5, <2>6, <2>7 DEF WordWaits
<1>5. QED
  BY <1>3, <1>4

\* The read loop, the sender and the closer move no line, and cancel the context
\* only when there is nobody to send to.
LEMMA InputAside ==
  ASSUME Shape, NEW s \in Sockets, SocketInv(s),
         \/ Reader(s) \/ ReadNewline(s) \/ Sender(s)
         \/ \E m \in Messages : Type(s, m)
         \/ Leave(s) \/ EndStream(s)
         \/ \E pipe \in pipes[s] : Closer(s, pipe)
  PROVE  Aside(s)
<1> USE DEF Aside, SameLines, SrvMoves, Cancels, ClientStays
<1>1. CASE Reader(s) \/ ReadNewline(s)
  <2>1. /\ UNCHANGED <<emitted, wire, line, rest, got, scanner, srv, client, handler>>
    BY <1>1 DEF Reader, CheckContext, FindsCancelled, ReadMessage, ReadFails, WriteFails, NewlineFails,
                ReadNewline, ReaderEnds, ReaderStep, callVars, outVars
  <2>2. CASE UNCHANGED ctxDone
    BY <2>1, <2>2
  <2>3. CASE FindsCancelled(s)
    BY <2>1, <2>3 DEF FindsCancelled
  <2>4. CASE ReadFails(s)
    <3>1. ~Scans(s)
      BY <2>4 DEF ReadFails, Scans
    <3>2. QED
      BY <2>1, <3>1
  <2>5. CASE WriteFails(s)
    <3>1. ctxDone[s]
      BY <2>5 DEF WriteFails, SocketInv, Closing
    <3>2. QED
      BY <2>1, <3>1
  <2>6. QED
    BY <1>1, <2>2, <2>3, <2>4, <2>5 DEF Reader, CheckContext, ReadMessage, NewlineFails, ReadNewline
<1>2. CASE SendsOn(s) \/ SenderStops(s)
  <2>1. UNCHANGED <<emitted, wire, srv>>
    BY <1>2 DEF SendsOn, SenderStops, SendRequest, callVars
  <2>2. UNCHANGED <<client, handler, scanner, ctxDone, line, rest, got>>
    BY <1>2 DEF SendsOn, SenderStops, Decodes, AtEOF, outVars
  <2>3. QED
    BY <2>1, <2>2
<1>3. CASE SenderCloses(s)
  <2>1. handler[s] \notin {"off", "open", "decode"}
    BY <1>3 DEF SenderCloses, SocketInv, Requests
  <2>2. srv[s] = "ended" => srv'[s] = "ended"
    BY <1>3 DEF SenderCloses, CloseSend, Shape, CallTypes
  <2>3. QED
    BY <1>3, <2>1, <2>2 DEF SenderCloses, CloseSend, outVars
<1>4. CASE \E m \in Messages : Type(s, m)
  BY <1>4 DEF Type, callVars, outVars
<1>5. CASE Leave(s)
  BY <1>5 DEF Leave, callVars, outVars, Shape, InTypes
<1>6. CASE EndStream(s)
  <2>1. handler[s] \notin {"off", "open"}
    BY <1>6 DEF EndStream, SocketInv, Passing
  <2>2. srv'[s] = "ended"
    BY <1>6 DEF EndStream, Shape, CallTypes
  <2>3. QED
    BY <1>6, <2>1, <2>2 DEF EndStream, outVars
<1>7. CASE \E pipe \in pipes[s] : Closer(s, pipe)
  BY <1>7 DEF Closer, callVars, outVars
<1>8. QED
  BY <1>1, <1>2, <1>3, <1>4, <1>5, <1>6, <1>7 DEF Sender

\* So do the handler's steps but for those that write.
LEMMA HandlerAside ==
  ASSUME Shape, NEW s \in Sockets, SocketInv(s),
         \/ OpenStream(s) \/ FirstRequest(s) \/ FirstEOF(s) \/ Header(s)
         \/ UnaryRequest(s) \/ UnaryCall(s) \/ (CheckHeader(s) /\ ~gwErr[s])
  PROVE  Aside(s)
<1> USE DEF Aside, SameLines, SrvMoves, Cancels, ClientStays, To, HandlerOnly, callVars, outVars
<1>1. CASE OpenStream(s)
  <2>1. srv[s] = "none"
    BY <1>1 DEF OpenStream, SocketInv, Passing
  <2>2. QED
    BY <1>1, <2>1 DEF OpenStream, Shape, GoTypes
<1>2. CASE FirstRequest(s)
  BY <1>2 DEF FirstRequest, Decodes, SendRequest, Shape, GoTypes
<1>3. CASE FirstEOF(s)
  BY <1>3 DEF FirstEOF, AtEOF, CloseSend, Shape, GoTypes, CallTypes
<1>4. CASE Header(s)
  BY <1>4 DEF Header, Shape, GoTypes
<1>5. CASE UnaryRequest(s)
  BY <1>5 DEF UnaryRequest, Decodes, Shape, GoTypes
<1>6. CASE UnaryCall(s)
  BY <1>6 DEF UnaryCall
<1>7. CASE CheckHeader(s) /\ ~gwErr[s]
  BY <1>7 DEF CheckHeader, Shape, GoTypes
<1>8. QED
  BY <1>1, <1>2, <1>3, <1>4, <1>5, <1>6, <1>7

\* The steps by which it comes to its reply, which is no event.
LEMMA HandlerAnswers ==
  ASSUME Shape, NEW s \in Sockets,
         \/ CallFails(s) \/ FirstBad(s) \/ (CheckHeader(s) /\ gwErr[s])
         \/ ForwardEnd(s) \/ UnaryBad(s) \/ UnaryReply(s)
  PROVE  Answers(s)
<1> USE DEF Answers, SrvMoves, Writes, Refuses, To, HandlerOnly, callVars, Shape, GoTypes, OutTypes
<1>1. CASE CallFails(s)
  BY <1>1, LastLines DEF CallFails
<1>2. CASE FirstBad(s)
  BY <1>2, LastLines DEF FirstBad, CloseSend, CallTypes
<1>3. CASE CheckHeader(s) /\ gwErr[s]
  BY <1>3, LastLines DEF CheckHeader
<1>4. CASE ForwardEnd(s)
  BY <1>4, LastLines DEF ForwardEnd
<1>5. CASE UnaryBad(s)
  BY <1>5, LastLines DEF UnaryBad
<1>6. CASE UnaryReply(s)
  <2>1. CASE Writes(s, "reply", Reply)
    BY <1>6, <2>1, LastLines DEF UnaryReply
  <2>2. CASE Writes(s, "reply", TooLong)
    BY <1>6, <2>2, LastLines DEF UnaryReply
  <2>3. QED
    BY <1>6, <2>1, <2>2 DEF UnaryReply
<1>7. QED
  BY <1>1, <1>2, <1>3, <1>4, <1>5, <1>6

\* Those by which the write loop ends.
LEMMA ScannerWindsDown ==
  ASSUME Shape, NEW s \in Sockets,
         ScanTooLong(s) \/ WriteMessageFails(s) \/ CancelContext(s) \/ CloseSocket(s)
  PROVE  WindsDown(s)
<1> USE DEF WindsDown, ScannerTo, callVars, outVars, Shape, GoTypes
<1>1. CASE ScanTooLong(s)
  BY <1>1 DEF ScanTooLong, CutOff
<1>2. CASE WriteMessageFails(s)
  BY <1>2 DEF WriteMessageFails
<1>3. CASE CancelContext(s) \/ CloseSocket(s)
  BY <1>3 DEF CancelContext, CloseSocket
<1>4. QED
  BY <1>1, <1>2, <1>3

\* Every step keeps the events in order.
LEMMA StepFlow ==
  ASSUME Shape, NEW s \in Sockets, SocketInv(s), SocketStep(s) PROVE Flow(s)'
<1>0. Flow(s) /\ Closing(s)
  BY DEF SocketInv, Flow
<1>1. CASE \/ Reader(s) \/ ReadNewline(s) \/ Sender(s)
           \/ \E m \in Messages : Type(s, m)
           \/ Leave(s) \/ EndStream(s)
           \/ \E pipe \in pipes[s] : Closer(s, pipe)
  BY <1>0, <1>1, InputAside, AsideKeepsFlow
<1>2. CASE Handler(s)
  <2>1. CASE \/ OpenStream(s) \/ FirstRequest(s) \/ FirstEOF(s) \/ Header(s)
             \/ UnaryRequest(s) \/ UnaryCall(s) \/ (CheckHeader(s) /\ ~gwErr[s])
    BY <1>0, <2>1, HandlerAside, AsideKeepsFlow
  <2>2. CASE \/ CallFails(s) \/ FirstBad(s) \/ (CheckHeader(s) /\ gwErr[s])
             \/ ForwardEnd(s) \/ UnaryBad(s) \/ UnaryReply(s)
    BY <1>0, <2>2, HandlerAnswers, AnswersKeepsFlow
  <2>3. CASE ForwardEvent(s)
    BY <1>0, <2>3, ForwardKeepsFlow
  <2>4. CASE ResponseClosed(s)
    BY <1>0, <2>4, ClosedKeepsFlow
  <2>5. CASE HandlerReplies(s)
    BY <1>0, <2>5, RepliesKeepFlow
  <2>6. QED
    BY <1>2, <2>1, <2>2, <2>3, <2>4, <2>5 DEF Handler
<1>3. CASE Scanner(s)
  <2>1. CASE ScanTooLong(s) \/ WriteMessageFails(s) \/ CancelContext(s) \/ CloseSocket(s)
    BY <1>0, <2>1, ScannerWindsDown, WindsDownKeepsFlow
  <2>2. CASE ScanLine(s)
    BY <1>0, <2>2, ScanLineKeepsFlow
  <2>3. CASE ScanEnd(s)
    BY <1>0, <2>3, ScanEndKeepsFlow
  <2>4. CASE WriteMessage(s)
    BY <1>0, <2>4, WriteKeepsFlow
  <2>5. QED
    BY <1>3, <2>1, <2>2, <2>3, <2>4 DEF Scanner
<1>4. CASE \E r \in Routes : Connect(s, r)
  BY <1>4, ConnectKeepsFlow
<1>5. CASE \E l \in Events(s) : Emit(s, l)
  BY <1>0, <1>5, EmitKeepsFlow
<1>6. QED
  BY <1>1, <1>2, <1>3, <1>4, <1>5 DEF SocketStep

-----------------------------------------------------------------------------
(* The invariant, and what follows from it.                                *)

\* The invariant holds before any socket is connected.
LEMMA ProxyInit == ASSUME Init PROVE ProxyInv
<1>1. /\ client = OfSockets("off") /\ route = OfSockets("watch") /\ typed = OfSockets(<< >>)
      /\ nread = OfSockets(0) /\ ctxDone = OfSockets(FALSE)
      /\ pipes = OfSockets({"request", "response"})
      /\ reader = OfSockets("off") /\ handler = OfSockets("off")
      /\ sender = OfSockets("off") /\ scanner = OfSockets("off")
      /\ gwErr = OfSockets(FALSE) /\ srv = OfSockets("none") /\ reqs = OfSockets(<< >>)
      /\ emitted = OfSockets(<< >>) /\ wire = OfSockets(<< >>)
      /\ line = OfSockets([out |-> End, in |-> End]) /\ rest = OfSockets(<< >>)
      /\ got = OfSockets(<< >>)
  BY DEF Init
<1>2. Shape
  <2>1. InTypes
    BY <1>1 DEF InTypes, OfSockets, Routes
  <2>2. GoTypes
    BY <1>1 DEF GoTypes, OfSockets
  <2>3. CallTypes
    BY <1>1 DEF CallTypes, OfSockets
  <2>4. OutTypes
    BY <1>1, LastLines DEF OutTypes, OfSockets
  <2>5. QED
    BY <2>1, <2>2, <2>3, <2>4 DEF Shape
<1>3. ASSUME NEW s \in Sockets PROVE SocketInv(s)
  <2>1. Unconnected(s) /\ Closing(s)
    BY <1>1 DEF Unconnected, Closing, OfSockets
  <2>2. Requests(s)
    BY <1>1 DEF Requests, Decoding, OfSockets
  <2>3. Passing(s)
    BY <1>1 DEF Passing, OfSockets
  <2>4. Heard(s) /\ Flowing(s) /\ Ending(s) /\ Stopped(s)
    BY <1>1 DEF Heard, Flowing, Ending, Stopped, Scans, OfSockets
  <2>5. QED
    BY <2>1, <2>2, <2>3, <2>4 DEF SocketInv
<1>4. QED
  BY <1>2, <1>3 DEF ProxyInv

\* Every step of server or sockets keeps it.
LEMMA ProxyStep == ASSUME ProxyInv, [Next]_vars PROVE ProxyInv'
<1>1. CASE UNCHANGED proxyVars
  <2>1. Shape'
    BY <1>1, SameTypes DEF ProxyInv, Shape, proxyVars, callVars, outVars
  <2>2. ASSUME NEW t \in Sockets PROVE SocketInv(t)'
    <3>1. SameSocket(t)
      BY <1>1 DEF proxyVars, SameSocket
    <3>2. QED
      BY <3>1, SameKeeps DEF ProxyInv
  <2>3. QED
    BY <2>1, <2>2 DEF ProxyInv
<1>2. ASSUME NEW s \in Sockets, SocketStep(s) PROVE ProxyInv'
  <2>0. Shape /\ SocketInv(s)
    BY DEF ProxyInv
  <2>1. Shape'
    BY <1>2, <2>0, StepTypes
  <2>2. SocketInv(s)'
    BY <1>2, <2>0, StepUnconnected, StepClosing, StepRequests, StepFlow DEF SocketInv, Flow
  <2>3. ASSUME NEW t \in Sockets, t # s PROVE SocketInv(t)'
    <3>1. SameSocket(t)
      BY <1>2, <2>0, <2>3, OthersSame
    <3>2. QED
      BY <3>1, SameKeeps DEF ProxyInv
  <2>4. QED
    BY <2>1, <2>2, <2>3 DEF ProxyInv
<1>3. UNCHANGED proxyVars \/ \E s \in Sockets : SocketStep(s)
  <2>1. CASE UNCHANGED vars
    BY <2>1 DEF vars, proxyVars
  <2>2. CASE Next
    BY <2>2 DEF Next, SocketStep
  <2>3. QED
    BY <2>1, <2>2
<1>4. QED
  BY <1>1, <1>2, <1>3

\* What the goroutines of a socket are at, what is in the pipes and what client and
\* server have fit together at all times.
THEOREM ProxyInvariant == Spec => []ProxyInv
<1>1. QED
  BY ProxyInit, ProxyStep, PTL DEF Spec

\* Requests reach the server in the order in which they were typed, none is passed
\* over and none follows one that does not decode, whatever reader, handler and
\* sender do when.
THEOREM RequestsArriveInOrder == Spec => []RequestsInOrder
<1>1. ASSUME ProxyInv, NEW s \in Sockets
      PROVE  /\ reqs[s] = [i \in 1 .. Len(reqs[s]) |-> i]
             /\ \A i \in 1 .. Len(reqs[s]) : typed[s][i] = "good"
  <2>1. reqs[s] \in Seq(Nat) /\ \A i \in 1 .. Len(reqs[s]) : reqs[s][i] = i /\ typed[s][i] = "good"
    BY <1>1 DEF ProxyInv, Shape, CallTypes, SocketInv, Requests
  <2>2. QED
    BY <2>1
<1>2. ProxyInv => RequestsInOrder
  BY <1>1 DEF RequestsInOrder
<1>3. QED
  BY <1>2, ProxyInvariant, PTL

\* A client receives the events that the server has sent, in order and with none
\* missing; when it is told that the call has ended it has all of them.
THEOREM EventsArriveInOrder == Spec => []EventsInOrder
<1>1. ASSUME ProxyInv, NEW s \in Sockets
      PROVE  /\ \A i \in 1 .. Len(got[s]) :
                  IsEvent(got[s][i]) => i <= Len(emitted[s]) /\ got[s][i] = emitted[s][i]
             /\ End \in ToSet(got[s]) => got[s] = Append(emitted[s], End)
  <2>1. Heard(s) /\ Passing(s) /\ Shape
    BY <1>1 DEF ProxyInv, SocketInv
  <2>2. /\ got[s] \in Seq(Lines) /\ emitted[s] \in Seq(Lines) /\ Len(got[s]) \in Nat
        /\ Len(emitted[s]) \in Nat
    BY <2>1, SocketSeqs
  <2>3. ASSUME NEW k \in 1 .. Len(got[s]), got[s][k] = End PROVE got[s] = Append(emitted[s], End)
    <3>1. k = Len(got[s]) /\ Len(got[s]) = Len(emitted[s]) + 1
      BY <2>1, <2>3, LastLines DEF Heard
    <3>2. ASSUME NEW i \in 1 .. Len(emitted[s]) PROVE got[s][i] = emitted[s][i]
      BY <2>1, <2>2, <3>1 DEF Heard
    <3>3. QED
      BY <2>2, <2>3, <3>1, <3>2, LastLines
  <2>4. End \in ToSet(got[s]) => \E k \in 1 .. Len(got[s]) : got[s][k] = End
    BY DEF ToSet
  <2>5. QED
    BY <2>1, <2>3, <2>4 DEF Heard
<1>2. ProxyInv => EventsInOrder
  BY <1>1 DEF EventsInOrder
<1>3. QED
  BY <1>2, ProxyInvariant, PTL

\* The last word comes last, and a socket that the proxy closes under its client has
\* had one, unless a line was too long to scan.
THEOREM LastWordGiven == Spec => []LastWord
<1>1. ASSUME ProxyInv, NEW s \in Sockets
      PROVE  /\ client[s] = "open" /\ scanner[s] = "done" /\ ~IsLong(line[s].out)
                  => got[s] # << >> /\ ~IsEvent(Last(got[s]))
             /\ \A i \in 1 .. Len(got[s]) : ~IsEvent(got[s][i]) => i = Len(got[s])
  BY <1>1 DEF ProxyInv, SocketInv, Heard, Stopped, WordGiven, CutOff, Last
<1>2. ProxyInv => LastWord
  BY <1>1 DEF LastWord
<1>3. QED
  BY <1>2, ProxyInvariant, PTL

-----------------------------------------------------------------------------
(* Why a call is reported to have failed.  It needs an invariant of its    *)
(* own, which follows err from the sender to the client.                   *)

Cause(s) == srv[s] = "none" \/ \E i \in 1 .. Len(typed[s]) : typed[s][i] = "bad"

\* Only a Watch call is opened before its first request has come, and it stays open
\* as long as the sender decodes.
Unmade(s) ==
  /\ handler[s] \in {"off", "open", "call"} \/ (handler[s] = "decode" /\ route[s] # "watch")
       => srv[s] = "none"
  /\ handler[s] = "open" => route[s] = "watch"
  /\ (handler[s] = "decode" /\ route[s] = "watch") \/ (sender[s] = "decode" /\ handler[s] # "done")
       => srv[s] = "open"

\* While there is a client to tell, err is set, and an error is on its way, only
\* with a cause.
Blamed(s) ==
  /\ Unmade(s)
  /\ gwErr[s] => /\ client[s] # "off" /\ handler[s] \notin {"off", "open"}
                 /\ Cause(s) \/ ~Scans(s) \/ handler[s] = "done"
  /\ handler[s] = "reply" /\ line[s].out = Error => Cause(s) \/ ~Scans(s)
  /\ rest[s] # << >> /\ rest[s][1] = Error => handler[s] = "done" /\ (Cause(s) \/ ~Scans(s))
  /\ Scans(s) /\ scanner[s] = "send" /\ line[s].in = Error => handler[s] = "done" /\ Cause(s)
  /\ \A i \in 1 .. Len(got[s]) : got[s][i] = Error => handler[s] = "done" /\ Cause(s)

\* A step that moves no line and keeps err or clears it.
Calm(s) ==
  /\ line'[s] = line[s] /\ rest'[s] = rest[s] /\ got'[s] = got[s] /\ scanner'[s] = scanner[s]
  /\ client'[s] # client[s] => client'[s] = "gone"
  /\ gwErr'[s] => gwErr[s]
  /\ handler'[s] = handler[s] \/ (handler[s] # "done" /\ handler'[s] \notin {"off", "open", "reply"})

\* A cause once given stays: what has been typed stays so, and a call is made by the
\* handler alone.
LEMMA CauseStays ==
  ASSUME Shape, NEW s \in Sockets, Cause(s),
         typed'[s] = typed[s] \/ \E m \in Messages : typed'[s] = Append(typed[s], m),
         srv[s] = "none" => srv'[s] = "none"
  PROVE  Cause(s)'
<1>1. CASE typed'[s] = typed[s]
  BY <1>1 DEF Cause
<1>2. CASE \E m \in Messages : typed'[s] = Append(typed[s], m)
  <2>1. typed[s] \in Seq(Messages)
    BY DEF Shape, InTypes
  <2>2. /\ Len(typed'[s]) = Len(typed[s]) + 1
        /\ \A i \in 1 .. Len(typed[s]) : i \in 1 .. Len(typed'[s]) /\ typed'[s][i] = typed[s][i]
    BY <1>2, <2>1
  <2>3. QED
    BY <2>2 DEF Cause
<1>3. QED
  BY <1>1, <1>2

\* Such a step blames nobody.
LEMMA CalmKeepsBlamed ==
  ASSUME NEW s \in Sockets, Blamed(s), Calm(s), Unmade(s)',
         handler[s] \notin {"off", "open"} => (Cause(s) => Cause(s)')
  PROVE  Blamed(s)'
<1>1. Scans(s)' => Scans(s)
  BY DEF Calm, Scans
<1>2. handler[s] = "done" => handler'[s] = "done"
  BY DEF Calm
<1>3. QED
  BY <1>1, <1>2 DEF Blamed, Calm

\* The read loop, the client, the closer and the server's side of the call.
LEMMA OuterBlames ==
  ASSUME Shape, NEW s \in Sockets, SocketInv(s), Blamed(s),
         \/ Reader(s) \/ ReadNewline(s)
         \/ \E m \in Messages : Type(s, m)
         \/ Leave(s) \/ EndStream(s)
         \/ \E l \in Events(s) : Emit(s, l)
         \/ \E pipe \in pipes[s] : Closer(s, pipe)
  PROVE  Blamed(s)'
<1> USE DEF callVars, outVars
<1>1. CASE Reader(s) \/ ReadNewline(s)
  <2>1. UNCHANGED <<client, route, typed, handler, sender, scanner, gwErr, srv, line, rest, got>>
    BY <1>1 DEF Reader, CheckContext, FindsCancelled, ReadMessage, ReadFails, WriteFails, NewlineFails,
                ReadNewline, ReaderEnds, ReaderStep
  <2>2. Calm(s) /\ Unmade(s)' /\ (Cause(s) => Cause(s)')
    BY <2>1 DEF Calm, Blamed, Unmade, Cause
  <2>3. QED
    BY <2>2, CalmKeepsBlamed
<1>2. CASE \E m \in Messages : Type(s, m)
  <2>1. UNCHANGED <<client, route, handler, sender, scanner, gwErr, srv, line, rest, got>>
    BY <1>2 DEF Type
  <2>2. \E m \in Messages : typed'[s] = Append(typed[s], m)
    BY <1>2 DEF Type, Shape, InTypes
  <2>3. Cause(s) => Cause(s)'
    BY <2>1, <2>2, CauseStays
  <2>4. Calm(s) /\ Unmade(s)'
    BY <2>1 DEF Calm, Blamed, Unmade
  <2>5. QED
    BY <2>3, <2>4, CalmKeepsBlamed
<1>3. CASE Leave(s)
  <2>1. UNCHANGED <<route, typed, handler, sender, scanner, gwErr, srv, line, rest, got>> /\ client'[s] = "gone"
    BY <1>3 DEF Leave, Shape, InTypes
  <2>2. Calm(s) /\ Unmade(s)' /\ (Cause(s) => Cause(s)')
    BY <2>1 DEF Calm, Blamed, Unmade, Cause
  <2>3. QED
    BY <2>2, CalmKeepsBlamed
<1>4. CASE EndStream(s)
  <2>1. UNCHANGED <<client, route, typed, handler, sender, scanner, gwErr, line, rest, got>>
    BY <1>4 DEF EndStream
  <2>2. srv[s] \in {"half", "cancelled"}
    BY <1>4 DEF EndStream
  <2>3. Calm(s) /\ Unmade(s)' /\ (Cause(s) => Cause(s)')
    BY <2>1, <2>2 DEF Calm, Blamed, Unmade, Cause
  <2>4. QED
    BY <2>3, CalmKeepsBlamed
<1>5. CASE \/ \E l \in Events(s) : Emit(s, l)
           \/ \E pipe \in pipes[s] : Closer(s, pipe)
  <2>1. UNCHANGED <<client, route, typed, handler, sender, scanner, gwErr, srv, line, rest, got>>
    BY <1>5 DEF Emit, Closer
  <2>2. Calm(s) /\ Unmade(s)' /\ (Cause(s) => Cause(s)')
    BY <2>1 DEF Calm, Blamed, Unmade, Cause
  <2>3. QED
    BY <2>2, CalmKeepsBlamed
<1>6. QED
  BY <1>1, <1>2, <1>3, <1>4, <1>5

\* The sender sets err at a message that does not decode, or at the end of the body,
\* which is closed only when there is nobody left to tell.
LEMMA SenderBlames ==
  ASSUME Shape, NEW s \in Sockets, SocketInv(s), Blamed(s), Sender(s) PROVE Blamed(s)'
<1>1. /\ UNCHANGED <<client, route, typed, handler, scanner, line, rest, got, ctxDone>>
      /\ handler[s] \notin {"off", "open", "decode"}
  BY DEF Sender, SendsOn, SenderStops, SenderCloses, Decodes, AtEOF, outVars, SocketInv, Requests
<1>2. srv[s] = "none" <=> srv'[s] = "none"
  BY DEF Sender, SendsOn, SenderStops, SenderCloses, SendRequest, CloseSend, callVars, Shape, CallTypes
<1>3. Cause(s) <=> Cause(s)'
  BY <1>1, <1>2 DEF Cause
<1>4. Unmade(s)'
  <2>1. CASE SendsOn(s) \/ SenderStops(s)
    <3>1. sender[s] = "decode" /\ (srv'[s] = srv[s])
      BY <2>1 DEF SendsOn, SenderStops, SendRequest, callVars
    <3>2. QED
      BY <1>1, <3>1 DEF Blamed, Unmade
  <2>2. CASE SenderCloses(s)
    <3>1. sender'[s] = "done"
      BY <2>2 DEF SenderCloses, Shape, GoTypes
    <3>2. QED
      BY <1>1, <1>2, <3>1 DEF Blamed, Unmade
  <2>3. QED
    BY <2>1, <2>2 DEF Sender
<1>5. CASE gwErr'[s] => gwErr[s]
  <2>1. Calm(s)
    BY <1>1, <1>5 DEF Calm
  <2>2. QED
    BY <1>3, <1>4, <2>1, CalmKeepsBlamed
<1>6. CASE SenderStops(s)
  <2>1. CASE Decodes(s, "bad")
    <3>1. typed[s][nread[s]] = "bad" /\ reader[s] = "write" /\ Decoding(s)
      BY <1>6, <2>1 DEF Decodes, Message, SenderStops, Decoding
    <3>2. nread[s] \in 1 .. Len(typed[s])
      BY <3>1, SocketSeqs DEF SocketInv, Requests, Shape, InTypes, CallTypes
    <3>3. Cause(s)
      BY <3>1, <3>2 DEF Cause
    <3>4. QED
      BY <1>1, <1>3, <1>4, <3>3 DEF Blamed, Scans, SocketInv, Unconnected
  <2>2. CASE AtEOF(s)
    <3>1. ctxDone[s]
      BY <2>2 DEF AtEOF, SocketInv, Closing
    <3>2. ~Scans(s) \/ handler[s] = "done"
      BY <3>1 DEF SocketInv, Flowing
    <3>3. QED
      BY <1>1, <1>3, <1>4, <3>2 DEF Blamed, Scans, SocketInv, Unconnected
  <2>3. QED
    BY <1>6, <2>1, <2>2 DEF SenderStops
<1>7. CASE SendsOn(s) /\ srv[s] = "open"
  <2>1. ~gwErr'[s]
    BY <1>7 DEF SendsOn, Shape, GoTypes
  <2>2. QED
    BY <1>5, <2>1
<1>8. CASE SendsOn(s) /\ srv[s] # "open"
  <2>1. handler[s] = "done"
    BY <1>8 DEF SendsOn, Blamed, Unmade
  <2>2. QED
    BY <1>1, <1>3, <1>4, <2>1 DEF Blamed, Scans, SocketInv, Unconnected
<1>9. CASE SenderCloses(s)
  BY <1>5, <1>9 DEF SenderCloses
<1>10. QED
  BY <1>6, <1>7, <1>8, <1>9 DEF Sender

\* The handler's steps that write nothing.
LEMMA QuietBlames ==
  ASSUME Shape, NEW s \in Sockets, SocketInv(s), Blamed(s),
         \/ OpenStream(s) \/ FirstRequest(s) \/ FirstEOF(s) \/ Header(s) \/ ForwardEvent(s)
         \/ UnaryRequest(s) \/ UnaryCall(s) \/ (CheckHeader(s) /\ ~gwErr[s])
  PROVE  Blamed(s)'
<1> USE DEF To, HandlerOnly, callVars, outVars
<1>1. CASE OpenStream(s)
  <2>1. /\ UNCHANGED <<client, route, typed, sender, scanner, gwErr, line, rest, got>>
        /\ handler[s] = "open" /\ handler'[s] = "decode" /\ srv'[s] = "open"
    BY <1>1 DEF OpenStream, Shape, GoTypes, CallTypes
  <2>2. sender[s] = "off"
    BY <2>1 DEF SocketInv, Requests
  <2>3. Calm(s) /\ Unmade(s)'
    BY <2>1, <2>2 DEF Calm, Blamed, Unmade
  <2>4. QED
    BY <2>1, <2>3, CalmKeepsBlamed
<1>2. CASE FirstRequest(s)
  <2>1. /\ UNCHANGED <<client, route, typed, scanner, gwErr, srv, line, rest, got>>
        /\ handler[s] = "decode" /\ handler'[s] = "header" /\ route[s] = "watch"
    BY <1>2 DEF FirstRequest, Decodes, SendRequest, Shape, GoTypes
  <2>2. Calm(s) /\ Unmade(s)' /\ (Cause(s) => Cause(s)')
    BY <2>1 DEF Calm, Blamed, Unmade, Cause
  <2>3. QED
    BY <2>2, CalmKeepsBlamed
<1>3. CASE FirstEOF(s)
  <2>1. /\ UNCHANGED <<client, route, typed, sender, scanner, gwErr, line, rest, got>>
        /\ handler[s] = "decode" /\ handler'[s] = "recv"
        /\ srv[s] = "none" => srv'[s] = "none"
    BY <1>3 DEF FirstEOF, AtEOF, CloseSend, Shape, GoTypes, CallTypes
  <2>2. sender[s] = "off"
    BY <2>1 DEF SocketInv, Requests
  <2>3. Calm(s) /\ Unmade(s)' /\ (Cause(s) => Cause(s)')
    BY <2>1, <2>2 DEF Calm, Blamed, Unmade, Cause
  <2>4. QED
    BY <2>3, CalmKeepsBlamed
<1>4. CASE Header(s)
  <2>1. /\ UNCHANGED <<client, route, typed, sender, scanner, srv, line, rest, got>>
        /\ handler[s] = "header" /\ handler'[s] = "check" /\ ~gwErr'[s]
    BY <1>4 DEF Header, Shape, GoTypes
  <2>2. Calm(s) /\ Unmade(s)' /\ (Cause(s) => Cause(s)')
    BY <2>1 DEF Calm, Blamed, Unmade, Cause
  <2>3. QED
    BY <2>2, CalmKeepsBlamed
<1>5. CASE ForwardEvent(s)
  <2>1. /\ UNCHANGED <<client, route, typed, sender, scanner, gwErr, srv, rest, got>>
        /\ handler[s] = "recv" /\ handler'[s] = "write" /\ line'[s].in = line[s].in
    BY <1>5 DEF ForwardEvent, Writes, Shape, GoTypes, OutTypes
  <2>2. Unmade(s)' /\ (Cause(s) => Cause(s)') /\ Scans(s)' = Scans(s)
    BY <2>1 DEF Blamed, Unmade, Cause, Scans
  <2>3. QED
    BY <2>1, <2>2 DEF Blamed
<1>6. CASE UnaryRequest(s)
  <2>1. /\ UNCHANGED <<client, route, typed, sender, scanner, gwErr, srv, line, rest, got>>
        /\ handler[s] = "decode" /\ handler'[s] = "call" /\ route[s] # "watch"
    BY <1>6 DEF UnaryRequest, Decodes, Shape, GoTypes
  <2>2. Calm(s) /\ Unmade(s)' /\ (Cause(s) => Cause(s)')
    BY <2>1 DEF Calm, Blamed, Unmade, Cause
  <2>3. QED
    BY <2>2, CalmKeepsBlamed
<1>7. CASE UnaryCall(s)
  <2>1. UNCHANGED <<client, route, typed, handler, sender, scanner, gwErr, srv, line, rest, got>>
    BY <1>7 DEF UnaryCall
  <2>2. Calm(s) /\ Unmade(s)' /\ (Cause(s) => Cause(s)')
    BY <2>1 DEF Calm, Blamed, Unmade, Cause
  <2>3. QED
    BY <2>2, CalmKeepsBlamed
<1>8. CASE CheckHeader(s) /\ ~gwErr[s]
  <2>1. /\ UNCHANGED <<client, route, typed, sender, scanner, gwErr, srv, line, rest, got>>
        /\ handler[s] = "check" /\ handler'[s] = "recv"
    BY <1>8 DEF CheckHeader, Shape, GoTypes
  <2>2. Calm(s) /\ Unmade(s)' /\ (Cause(s) => Cause(s)')
    BY <2>1 DEF Calm, Blamed, Unmade, Cause
  <2>3. QED
    BY <2>2, CalmKeepsBlamed
<1>9. QED
  BY <1>1, <1>2, <1>3, <1>4, <1>5, <1>6, <1>7, <1>8

\* Those by which it comes to its reply: an error has its cause.
LEMMA ReplyBlames ==
  ASSUME Shape, NEW s \in Sockets, SocketInv(s), Blamed(s),
         \/ CallFails(s) \/ FirstBad(s) \/ (CheckHeader(s) /\ gwErr[s])
         \/ ForwardEnd(s) \/ UnaryBad(s) \/ UnaryReply(s)
  PROVE  Blamed(s)'
<1>1. /\ UNCHANGED <<client, route, typed, sender, scanner, gwErr, rest, got>>
      /\ handler[s] \in {"open", "decode", "check", "recv", "call"}
      /\ handler'[s] = "reply" /\ line'[s].in = line[s].in
      /\ srv'[s] = srv[s] \/ (FirstBad(s) /\ (srv[s] = "none" <=> srv'[s] = "none"))
  <2>1. CASE CallFails(s)
    BY <2>1 DEF CallFails, Writes, To, HandlerOnly, callVars, Shape, GoTypes, OutTypes
  <2>2. CASE FirstBad(s)
    <3>1. UNCHANGED <<client, route, typed, sender, scanner, gwErr>> /\ handler[s] = "decode"
      BY <2>2 DEF FirstBad
    <3>2. srv[s] = "none" <=> srv'[s] = "none"
      BY <2>2 DEF FirstBad, CloseSend, Shape, CallTypes
    <3>3. UNCHANGED <<rest, got>> /\ handler'[s] = "reply" /\ line'[s].in = line[s].in
      BY <2>2 DEF FirstBad, Refuses, Writes, To, Shape, GoTypes, OutTypes
    <3>4. QED
      BY <2>2, <3>1, <3>2, <3>3
  <2>3. CASE CheckHeader(s) /\ gwErr[s]
    BY <2>3 DEF CheckHeader, Refuses, Writes, To, HandlerOnly, callVars, Shape, GoTypes, OutTypes
  <2>4. CASE ForwardEnd(s)
    BY <2>4 DEF ForwardEnd, Writes, To, HandlerOnly, callVars, Shape, GoTypes, OutTypes
  <2>5. CASE UnaryBad(s)
    BY <2>5 DEF UnaryBad, Refuses, Writes, To, callVars, Shape, GoTypes, OutTypes
  <2>6. CASE UnaryReply(s)
    BY <2>6 DEF UnaryReply, Writes, To, HandlerOnly, callVars, Shape, GoTypes, OutTypes
  <2>7. QED
    BY <2>1, <2>2, <2>3, <2>4, <2>5, <2>6
<1>2. /\ Unmade(s)' /\ (Cause(s) <=> Cause(s)') /\ Scans(s)' = Scans(s)
  <2>1. sender[s] = "decode" => ~FirstBad(s)
    BY DEF FirstBad, SocketInv, Requests
  <2>2. QED
    BY <1>1, <2>1 DEF Blamed, Unmade, Cause, Scans
<1>3. line'[s].out = Error => Cause(s) \/ ~Scans(s)
  <2>1. CASE CallFails(s)
    BY <2>1 DEF CallFails, Blamed, Unmade, Cause
  <2>2. CASE (FirstBad(s) \/ UnaryBad(s)) /\ "request" \in pipes[s]
    <3>1. typed[s][nread[s]] = "bad" /\ reader[s] = "write" /\ Decoding(s)
      BY <2>2 DEF FirstBad, UnaryBad, Message, Decoding
    <3>2. nread[s] \in 1 .. Len(typed[s])
      BY <3>1, SocketSeqs DEF SocketInv, Requests, Shape, InTypes, CallTypes
    <3>3. QED
      BY <3>1, <3>2 DEF Cause
  <2>3. CASE (FirstBad(s) \/ UnaryBad(s)) /\ "request" \notin pipes[s]
    <3>1. ctxDone[s] /\ handler[s] = "decode"
      BY <2>3 DEF FirstBad, UnaryBad, SocketInv, Closing
    <3>2. QED
      BY <3>1 DEF SocketInv, Flowing
  <2>4. CASE CheckHeader(s) /\ gwErr[s]
    BY <2>4 DEF CheckHeader, Blamed
  <2>5. CASE ForwardEnd(s) \/ UnaryReply(s)
    <3>1. line'[s].out \in {End, Reply, TooLong}
      BY <2>5 DEF ForwardEnd, UnaryReply, Writes, Shape, OutTypes
    <3>2. QED
      BY <3>1 DEF End, Reply, TooLong, Error
  <2>6. QED
    BY <2>1, <2>2, <2>3, <2>4, <2>5
<1>4. QED
  BY <1>1, <1>2, <1>3 DEF Blamed

\* Those by which it returns: what waits to be sent is what it has written.
LEMMA ReturnBlames ==
  ASSUME Shape, NEW s \in Sockets, SocketInv(s), Blamed(s), ResponseClosed(s) \/ HandlerReplies(s)
  PROVE  Blamed(s)'
<1>1. /\ UNCHANGED <<client, route, typed, sender, scanner, gwErr, line, got>>
      /\ handler[s] \in {"write", "reply"} /\ handler'[s] = "done"
      /\ srv[s] = "none" <=> srv'[s] = "none"
  BY DEF ResponseClosed, HandlerReplies, Returns, To, Shape, GoTypes, CallTypes
<1>2. Unmade(s)' /\ (Cause(s) <=> Cause(s)') /\ Scans(s)' = Scans(s)
  BY <1>1 DEF Blamed, Unmade, Cause, Scans
<1>3. CASE ResponseClosed(s)
  BY <1>1, <1>2, <1>3 DEF ResponseClosed, Blamed
<1>4. CASE HandlerReplies(s)
  <2>1. rest[s] = << >> /\ handler[s] = "reply" /\ rest'[s] = Append(rest[s], line[s].out)
    BY <1>1, <1>4 DEF HandlerReplies, SocketInv, Passing, Shape, OutTypes
  <2>2. rest'[s][1] = line[s].out
    BY <2>1
  <2>3. QED
    BY <1>1, <1>2, <2>1, <2>2 DEF Blamed
<1>5. QED
  BY <1>3, <1>4

\* The write loop: a line that it takes while the handler writes is an event.
LEMMA ScannerBlames ==
  ASSUME Shape, NEW s \in Sockets, SocketInv(s), Blamed(s), Scanner(s) PROVE Blamed(s)'
<1> USE DEF ScannerTo, callVars, outVars
<1>1. /\ UNCHANGED <<client, route, typed, sender, gwErr, srv>>
      /\ handler'[s] = handler[s] \/ (handler[s] = "write" /\ handler'[s] = "recv")
  BY DEF Scanner, ScanLine, ScanTooLong, ScanEnd, WriteMessage, WriteMessageFails, CancelContext,
         CloseSocket, To, Shape, GoTypes
<1>2. Unmade(s)' /\ (Cause(s) <=> Cause(s)')
  BY <1>1 DEF Blamed, Unmade, Cause
<1>3. Scans(s)' => Scans(s)
  BY DEF Scans, Scanner, ScanLine, ScanTooLong, ScanEnd, WriteMessage, WriteMessageFails,
         CancelContext, CloseSocket, Shape, GoTypes
<1>4. CASE ScanTooLong(s) \/ WriteMessageFails(s) \/ CancelContext(s) \/ CloseSocket(s)
  <2>1. UNCHANGED <<handler, line, rest, got>> /\ scanner'[s] \notin {"scan", "send"}
    BY <1>4 DEF ScanTooLong, WriteMessageFails, CancelContext, CloseSocket, Shape, GoTypes
  <2>2. QED
    BY <1>1, <1>2, <1>3, <2>1 DEF Blamed
<1>5. CASE ScanLine(s)
  <2>1. /\ line'[s].in = line[s].out /\ handler[s] = "write" /\ handler'[s] = "recv"
        /\ UNCHANGED <<rest, got>>
    BY <1>5 DEF ScanLine, To, Shape, GoTypes, OutTypes
  <2>2. IsEvent(line'[s].in)
    <3>1. Passed(s) \in 1 .. Len(emitted[s]) /\ line[s].out = emitted[s][Passed(s)]
      BY <2>1, PassedRange DEF SocketInv, Passing
    <3>2. QED
      BY <2>1, <3>1 DEF SocketInv, Passing
  <2>3. line'[s].in # Error
    BY <2>2, LastLines
  <2>4. QED
    BY <1>1, <1>2, <1>3, <2>1, <2>3 DEF Blamed
<1>6. CASE ScanEnd(s)
  <2>1. scanner[s] = "scan" /\ UNCHANGED <<handler, got>> /\ rest'[s] = << >>
    BY <1>6 DEF ScanEnd, Shape, OutTypes
  <2>2. line'[s].out = line[s].out
    BY <1>6 DEF ScanEnd, Shape, OutTypes
  <2>3. CASE rest[s] = << >>
    <3>1. scanner'[s] = "stop"
      BY <1>6, <2>3 DEF ScanEnd, Shape, GoTypes
    <3>2. QED
      BY <1>1, <1>2, <1>3, <2>1, <2>2, <3>1 DEF Blamed
  <2>4. CASE rest[s] # << >>
    <3>1. line'[s].in = rest[s][1]
      BY <1>6, <2>4 DEF ScanEnd, Shape, OutTypes
    <3>2. QED
      BY <1>1, <1>2, <1>3, <2>1, <2>2, <2>4, <3>1 DEF Blamed
  <2>5. QED
    BY <2>3, <2>4
<1>7. CASE WriteMessage(s)
  <2>1. /\ scanner[s] = "send" /\ scanner'[s] = "scan" /\ UNCHANGED <<handler, line, rest>>
    BY <1>7 DEF WriteMessage, Shape, GoTypes
  <2>2. CASE client[s] # "open"
    <3>1. UNCHANGED got
      BY <1>7, <2>2 DEF WriteMessage
    <3>2. QED
      BY <1>1, <1>2, <1>3, <2>1, <3>1 DEF Blamed
  <2>3. CASE client[s] = "open"
    <3>1. got'[s] = Append(got[s], line[s].in) /\ got[s] \in Seq(Lines)
      BY <1>7, <2>3 DEF WriteMessage, Shape, OutTypes
    <3>2. /\ \A i \in 1 .. Len(got'[s]) : i \in 1 .. Len(got[s]) \/ got'[s][i] = line[s].in
          /\ \A i \in 1 .. Len(got[s]) : got'[s][i] = got[s][i]
      BY <3>1
    <3>3. line[s].in = Error => handler[s] = "done" /\ Cause(s)
      BY <2>1, <2>3 DEF Blamed, Scans
    <3>4. \A i \in 1 .. Len(got'[s]) : got'[s][i] = Error => handler'[s] = "done" /\ Cause(s)'
      BY <1>2, <2>1, <3>2, <3>3 DEF Blamed
    <3>5. QED
      BY <1>1, <1>2, <1>3, <2>1, <3>4 DEF Blamed
  <2>4. QED
    BY <2>2, <2>3
<1>8. QED
  BY <1>4, <1>5, <1>6, <1>7 DEF Scanner

\* A socket that has just been connected.
LEMMA ConnectBlames ==
  ASSUME Shape, NEW s \in Sockets, SocketInv(s), Blamed(s), NEW r \in Routes, Connect(s, r)
  PROVE  Blamed(s)'
<1>1. /\ client[s] = "off" /\ scanner'[s] = "scan" /\ route'[s] = r
      /\ handler'[s] = IF r = "watch" THEN "open" ELSE "decode"
      /\ UNCHANGED <<typed, sender, gwErr, srv, line, rest, got>>
  BY DEF Connect, callVars, outVars, Shape, InTypes, GoTypes
<1>2. handler[s] = "off" /\ sender[s] = "off" /\ got[s] = << >> /\ ~gwErr[s]
  BY <1>1 DEF SocketInv, Unconnected, Blamed
<1>3. srv[s] = "none" /\ rest[s] = << >>
  BY <1>2 DEF SocketInv, Passing
<1>4. QED
  BY <1>1, <1>2, <1>3 DEF Blamed, Unmade, Scans

\* The invariant, over the sockets' own.
BlamedInv == \A s \in Sockets : Blamed(s)

\* Every step keeps it.
LEMMA BlamedStep == ASSUME ProxyInv, BlamedInv, [Next]_vars PROVE BlamedInv'
<1>1. ASSUME NEW t \in Sockets, SameSocket(t) PROVE Blamed(t)'
  BY <1>1 DEF BlamedInv, SameSocket, Blamed, Unmade, Cause, Scans
<1>2. CASE UNCHANGED proxyVars
  <2>1. ASSUME NEW t \in Sockets PROVE SameSocket(t)
    BY <1>2 DEF proxyVars, SameSocket
  <2>2. QED
    BY <1>1, <2>1 DEF BlamedInv
<1>3. ASSUME NEW s \in Sockets, SocketStep(s) PROVE BlamedInv'
  <2>1. Shape /\ SocketInv(s) /\ Blamed(s)
    BY DEF ProxyInv, BlamedInv
  <2>2. Blamed(s)'
    <3>1. CASE Handler(s)
      BY <2>1, <3>1, QuietBlames, ReplyBlames, ReturnBlames DEF Handler
    <3>2. CASE \E r \in Routes : Connect(s, r)
      BY <2>1, <3>2, ConnectBlames
    <3>3. QED
      BY <1>3, <2>1, <3>1, <3>2, OuterBlames, SenderBlames, ScannerBlames DEF SocketStep
  <2>3. ASSUME NEW t \in Sockets, t # s PROVE Blamed(t)'
    BY <1>1, <1>3, <2>1, <2>3, OthersSame
  <2>4. QED
    BY <2>2, <2>3 DEF BlamedInv
<1>4. CASE UNCHANGED vars
  BY <1>2, <1>4 DEF vars, proxyVars
<1>5. CASE Next
  BY <1>2, <1>3, <1>5 DEF Next, SocketStep
<1>6. QED
  BY <1>4, <1>5

\* A Watch call is reported to have failed only when it could not be made or a message
\* of its client did not decode, whenever the sender sets and clears the err that it
\* shares with the handler.
THEOREM FailuresHaveCauses == Spec => []ErrorsHaveCause
<1>1. Init => BlamedInv
  BY DEF Init, OfSockets, BlamedInv, Blamed, Unmade, Scans
<1>2. Spec => []BlamedInv
  BY <1>1, BlamedStep, ProxyInvariant, PTL DEF Spec
<1>3. ASSUME ProxyInv, BlamedInv, NEW s \in Sockets, Error \in ToSet(got[s])
      PROVE  srv[s] = "none" \/ "bad" \in ToSet(typed[s])
  <2>0. got[s] \in Seq(Lines) /\ typed[s] \in Seq(Messages)
    BY <1>3 DEF ProxyInv, Shape, InTypes, OutTypes
  <2>1. \E i \in 1 .. Len(got[s]) : got[s][i] = Error
    BY <1>3, <2>0 DEF ToSet
  <2>2. Cause(s)
    BY <1>3, <2>1 DEF BlamedInv, Blamed
  <2>3. QED
    BY <2>0, <2>2 DEF Cause, ToSet
<1>4. ProxyInv /\ BlamedInv => ErrorsHaveCause
  BY <1>3 DEF ErrorsHaveCause
<1>5. QED
  BY <1>2, <1>4, ProxyInvariant, PTL

-----------------------------------------------------------------------------
ServerTypes == ServerTypeOK /\ running \subseteq Calls \cup Sockets

\* The server's variables keep their types, and only calls and sockets are running.
LEMMA ServerStepTypes == ASSUME ServerTypes, [Next]_vars PROVE ServerTypes'
<1>1. CASE CallsOnly
  <2>1. ServerTypeOK'
    BY <1>1 DEF CallsOnly, ServerTypes, ServerTypeOK
  <2>2. running' \subseteq running \cup Sockets /\ running \subseteq Calls \cup Sockets
    BY <1>1 DEF CallsOnly, ServerTypes
  <2>3. running' \subseteq Calls \cup Sockets
    BY <2>2
  <2>4. QED
    BY <2>1, <2>3 DEF ServerTypes
<1>2. CASE StartSteps
  <2>1. CASE \E files \in Files : LoadConfig(files)
    BY <2>1 DEF LoadConfig, loadConfig, ServerTypes, ServerTypeOK
  <2>2. CASE StartEtcd \/ ListenHTTP2 \/ ListenHTTP1
    BY <2>2 DEF StartEtcd, ListenHTTP2, ListenHTTP1, ServerTypes, ServerTypeOK
  <2>3. CASE applyTLS
    BY <2>3 DEF applyTLS, ServerTypes, ServerTypeOK
  <2>4. CASE \E step \in {"etcd", "http2", "tls", "http1"} : Fails(step)
    BY <2>4 DEF Fails, ServerTypes, ServerTypeOK
  <2>5. QED
    BY <1>2, <2>1, <2>2, <2>3, <2>4 DEF StartSteps
<1>3. CASE Serve \/ ServeGateway
  BY <1>3 DEF Serve, ServeGateway, ServerTypes, ServerTypeOK
<1>4. CASE Close \/ StopSteps
  BY <1>4 DEF Close, StopSteps, Stop, CloseCache, ServerTypes, ServerTypeOK
<1>5. CASE \E c \in Calls : StartCall(c) \/ EndCall(c)
  BY <1>5 DEF StartCall, EndCall, ServerTypes, ServerTypeOK
<1>6. QED
  BY <1>1, <1>2, <1>3, <1>4, <1>5, SocketsOnlyCall DEF ServerNext

\* Every variable has its type: the scanner never has more than one line without end,
\* the read loop has read no more than there is.
THEOREM ProxyTypes == Spec => []TypeOK
<1>1. Init => ServerTypes
  BY DEF Init, ServerInit, ServerTypes, ServerTypeOK
<1>2. Spec => []ServerTypes
  BY <1>1, ServerStepTypes, PTL DEF Spec
<1>3. ASSUME ProxyInv, NEW s \in Sockets
      PROVE  /\ typed[s] \in Seq(Messages) /\ nread[s] \in 0 .. Len(typed[s])
             /\ emitted[s] \in Seq(Lines) /\ wire[s] \in Seq(Lines) /\ got[s] \in Seq(Lines)
             /\ line[s] \in [out : Lines, in : Lines] /\ rest[s] \in Seq(Lines) /\ Len(rest[s]) <= 1
  BY <1>3 DEF ProxyInv, Shape, InTypes, CallTypes, OutTypes, SocketInv, Requests, Passing
<1>4. ASSUME ProxyInv, NEW s \in Sockets
      PROVE  /\ client[s] \in {"off", "open", "gone"} /\ route[s] \in Routes
             /\ ctxDone[s] \in BOOLEAN /\ pipes[s] \subseteq {"request", "response"}
             /\ reader[s] \in {"off", "select", "read", "write", "newline", "done"}
             /\ handler[s] \in {"off", "open", "decode", "header", "check", "recv", "write",
                                "call", "reply", "done"}
             /\ sender[s] \in {"off", "decode", "close", "done"}
             /\ scanner[s] \in {"off", "scan", "send", "stop", "close", "done"}
             /\ gwErr[s] \in BOOLEAN
             /\ srv[s] \in {"none", "open", "half", "cancelled", "ended"}
  BY <1>4 DEF ProxyInv, Shape, InTypes, GoTypes, CallTypes
<1>5. ProxyInv /\ ServerTypes => TypeOK
  BY <1>3, <1>4 DEF TypeOK, ServerTypes
<1>6. QED
  BY <1>2, <1>5, ProxyInvariant, PTL
=============================================================================
