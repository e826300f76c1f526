----------------------------- MODULE Lifecycle ------------------------------
(***************************************************************************)
(* How the server starts and stops (mydis/server.go, server/server.go).    *)
(*                                                                         *)
(* One goroutine takes the steps of main, Server.Start and Server.Close;   *)
(* pc is its next step.  Start leaves two goroutines behind, one serves    *)
(* gRPC calls (http2), the other HTTP (http1), and what it has acquired    *)
(* before it fails stays acquired.  Close stops gRPC and etcd and leaves   *)
(* HTTP as it is.                                                          *)
(***************************************************************************)
EXTENDS Integers, FiniteSets

CONSTANT Calls \* gRPC calls made directly, not by the gateway

VARIABLES pc,      \* where the goroutine of Start and Close is
          cfg,     \* the configuration that has been loaded
          etcd,    \* Server.cache
          secure,  \* Server.tc is set
          grpc,    \* Server.server
          bound,   \* the ports listened to (Server.socket, Server.gwsock)
          due,     \* of Start's two goroutines, those still to begin
          running  \* the calls that the server is at work on

serverVars == <<pc, cfg, etcd, secure, grpc, bound, due, running>>

-----------------------------------------------------------------------------
(* Starting.                                                               *)

\* Of the configuration files (the one named on the command line, the one in
\* /etc/mydis and the one in the working directory) those that can be read, and
\* whether they ask for TLS with a certificate made on the spot (ClientAutoTLS).
Files == [named : {"absent", "good", "bad"}, etc : BOOLEAN, local : BOOLEAN, auto : BOOLEAN]

\* The test of the named file is the wrong way round: a file that cannot be read
\* gives a nil configuration, a good one is passed over.  The default has TLS.
loadConfig(files) == IF files.named = "bad" THEN "nil"
                     ELSE IF (files.etc \/ files.local) /\ ~files.auto THEN "plain" ELSE "auto"

\* NewServer fails on a nil configuration.
LoadConfig(files) ==
  /\ pc = "config"
  /\ cfg' = loadConfig(files)
  /\ pc' = IF cfg' = "nil" THEN "panic" ELSE "etcd"
  /\ UNCHANGED <<etcd, secure, grpc, bound, due, running>>

\* Start returns an error.
Fails(step) ==
  /\ pc = step
  /\ pc' = "failed"
  /\ UNCHANGED <<cfg, etcd, secure, grpc, bound, due, running>>

StartEtcd ==
  /\ pc = "etcd"
  /\ etcd' = "running"
  /\ pc' = "http2"
  /\ UNCHANGED <<cfg, secure, grpc, bound, due, running>>

ListenHTTP2 ==
  /\ pc = "http2"
  /\ bound' = bound \cup {"http2"}
  /\ pc' = "tls"
  /\ UNCHANGED <<cfg, etcd, secure, grpc, due, running>>

applyTLS ==
  /\ pc = "tls"
  /\ secure' = (cfg = "auto")
  /\ grpc' = "ready"
  /\ pc' = "http1"
  /\ UNCHANGED <<cfg, etcd, bound, due, running>>

ListenHTTP1 ==
  /\ pc = "http1"
  /\ bound' = bound \cup {"http1"}
  /\ due' = {"serve", "gateway"}
  /\ pc' = "up"
  /\ UNCHANGED <<cfg, etcd, secure, grpc, running>>

\* Mutant: the server is told to serve whatever has become of it.
ServeAlways ==
  /\ "serve" \in due
  /\ due' = due \ {"serve"}
  /\ grpc' = "serving"
  /\ UNCHANGED <<pc, cfg, etcd, secure, bound, running>>

\* A server that has been stopped closes the socket it is given.
Serve ==
  /\ "serve" \in due
  /\ due' = due \ {"serve"}
  /\ IF grpc = "ready" THEN grpc' = "serving" /\ UNCHANGED bound
                       ELSE bound' = bound \ {"http2"} /\ UNCHANGED grpc
  /\ UNCHANGED <<pc, cfg, etcd, secure, running>>

ServeGateway ==
  /\ "gateway" \in due
  /\ due' = due \ {"gateway"}
  /\ UNCHANGED <<pc, cfg, etcd, secure, grpc, bound, running>>

-----------------------------------------------------------------------------
(* Calls.                                                                  *)

StartCall(c) ==
  /\ grpc = "serving"
  /\ c \notin running
  /\ running' = running \cup {c}
  /\ UNCHANGED <<pc, cfg, etcd, secure, grpc, bound, due>>

EndCall(c) ==
  /\ c \in running
  /\ running' = running \ {c}
  /\ UNCHANGED <<pc, cfg, etcd, secure, grpc, bound, due>>

-----------------------------------------------------------------------------
(* Stopping.                                                               *)

\* A server whose Start failed early has nothing that could be stopped, and the
\* call panics.
Close ==
  /\ pc \in {"up", "failed"}
  /\ pc' = IF grpc = "none" THEN "panic" ELSE "grace"
  /\ grpc' = IF grpc = "none" THEN grpc ELSE "draining"
  /\ bound' = IF grpc = "serving" THEN bound \ {"http2"} ELSE bound
  /\ UNCHANGED <<cfg, etcd, secure, due, running>>

\* Mutant: etcd is closed before the calls have come to an end.
StopAtOnce ==
  /\ pc = "grace"
  /\ etcd' = "closed"
  /\ grpc' = "stopped"
  /\ pc' = "closed"
  /\ UNCHANGED <<cfg, secure, bound, due, running>>

\* GracefulStop returns when no call is left, then etcd is closed.
Stop ==
  /\ pc = "grace" /\ running = {}
  /\ grpc' = "stopped"
  /\ pc' = "cache"
  /\ UNCHANGED <<cfg, etcd, secure, bound, due, running>>

CloseCache ==
  /\ pc = "cache"
  /\ etcd' = "closed"
  /\ pc' = "closed"
  /\ UNCHANGED <<cfg, secure, grpc, bound, due, running>>

-----------------------------------------------------------------------------

ServerInit ==
  /\ pc = "config" /\ cfg = "none" /\ etcd = "none" /\ secure = FALSE /\ grpc = "none"
  /\ bound = {} /\ due = {} /\ running = {}

StartSteps == \/ \E files \in Files : LoadConfig(files)
              \/ StartEtcd \/ ListenHTTP2 \/ applyTLS \/ ListenHTTP1
              \/ \E step \in {"etcd", "http2", "tls", "http1"} : Fails(step)

StopSteps == Stop \/ CloseCache

ServerNext == \/ StartSteps \/ Serve \/ ServeGateway \/ Close \/ StopSteps
              \/ \E c \in Calls : StartCall(c) \/ EndCall(c)

-----------------------------------------------------------------------------
(* Properties.                                                             *)

ServerTypeOK ==
  /\ pc \in {"config", "etcd", "http2", "tls", "http1", "up", "failed", "panic",
             "grace", "cache", "closed"}
  /\ cfg \in {"none", "nil", "plain", "auto"}
  /\ etcd \in {"none", "running", "closed"}
  /\ secure \in BOOLEAN
  /\ grpc \in {"none", "ready", "serving", "draining", "stopped"}
  /\ bound \subseteq {"http1", "http2"} /\ due \subseteq {"serve", "gateway"}

\* A call finds etcd running from its beginning to its end, however it overlaps
\* with Close: Close waits for every call before it closes etcd (server.go:119).
EtcdWhileCalled == running # {} => etcd = "running"

\* Once Close has returned the gRPC server takes no more calls and its port is
\* free, also when the goroutine that serves begins after Close has: all a
\* server keeps is what it left open when Start failed on it, and the HTTP port.
ClosedForGood ==
  pc = "closed" /\ due = {} => /\ grpc = "stopped" /\ running = {} /\ etcd = "closed"
                               /\ ("http2" \in bound => "http1" \notin bound)
=============================================================================
