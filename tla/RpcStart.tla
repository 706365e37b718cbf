------------------------------ MODULE RpcStart ------------------------------
(***************************************************************************)
(* startrpc.Start: the life of one openim-rpc process.  The main goroutine *)
(* runs a Prometheus server and the gRPC server in goroutines of their own *)
(* and waits for SIGTERM or for the failure of either, which they report   *)
(* on the channel netDone.  On SIGTERM a fourth goroutine stops the gRPC   *)
(* server, under a deadline.                                               *)
(*                                                                         *)
(* The process is listed in the discovery service before it serves.  A     *)
(* client that finds it there connects to its port; the connection waits   *)
(* in the backlog of the listening socket until Serve accepts it.          *)
(***************************************************************************)
EXTENDS Naturals

CONSTANTS Settings,  \* of Prometheus: "disabled", "noPort", "enabled"
          MaxRpcs    \* bound: RPCs in flight at a time

ASSUME ConstantsOK ==
    /\ Settings \subseteq {"disabled", "noPort", "enabled"}
    /\ MaxRpcs \in Nat

Servers == {"prom", "rpc"}
Cap == 2    \* make(chan struct{}, 2)

\* The files of the configMap of the command, in no order, and log.yml after them.
ConfigMap == {"openim-rpc-user.yml", "mongodb.yml", "share.yml", "discovery.yml"}
LogConfigFileName == "log.yml"

VARIABLES
    unread,      \* the configuration files the command has not loaded yet
    prometheus,  \* the setting this process was started with
    pc,          \* pc[p]: where goroutine p is
    netDone,     \* how many values the channel holds
    closed,      \* close(netDone) has run
    netErr,      \* the shared error variable: which server set it last
    httpServer,  \* the shared *http.Server: "nil", "set", "shutdown"
    stopping,    \* GracefulStop has begun
    rpcs,        \* RPCs in flight
    port,        \* the gRPC port: "closed", "open" for connections
    listed,      \* the discovery service shows the process
    conn,        \* a client's connection: "none", "queued", "accepted"
    term,        \* SIGTERM: "none", "pending" in sigs, "taken" by Start
    failed,      \* the servers that have failed (history)
    result,      \* the error Start returns
    exit         \* how the process ended: "running" while it has not

channel == <<netDone, closed, netErr>>
server == <<httpServer, stopping, rpcs>>
net == <<port, listed, conn>>
given == <<prometheus, term, failed>>
outcome == <<result, exit>>
vars == <<unread, pc, channel, server, net, given, outcome>>

Init ==
    /\ unread = ConfigMap \cup {LogConfigFileName}
    /\ prometheus \in Settings
    /\ pc = [p \in {"main", "stop"} \cup Servers |-> IF p = "main" THEN "config" ELSE "off"]
    /\ netDone = 0 /\ closed = FALSE /\ netErr = "nil"
    /\ httpServer = "nil" /\ stopping = FALSE /\ rpcs = 0
    /\ port = "closed" /\ listed = FALSE /\ conn = "none"
    /\ term = "none" /\ failed = {}
    /\ result = "nil" /\ exit = "running"

\* Goroutine p goes on from one place to another, while the process lives.
Goto(p, from, to) ==
    exit = "running" /\ pc[p] = from /\ pc' = [pc EXCEPT ![p] = to]

-----------------------------------------------------------------------------
(* Start, up to the select *)

\* Up to here there is no gRPC server to stop: an error returns at once.
Prepare(from, to) ==
    /\ \/ Goto("main", from, to) /\ UNCHANGED outcome
       \/ Goto("main", from, "gone") /\ result' = "startup" /\ exit' = "error"
    /\ UNCHANGED <<channel, server, given>>

\* persistentPreRun: the command reads its flags and loads its files, each from
\* the directory it was given or from where Kubernetes has mounted them.
InitializeConfiguration(file) ==
    /\ file \in unread
    /\ file = LogConfigFileName => unread = {LogConfigFileName}
    /\ Prepare("config", "config")
    /\ unread' = unread \ {file}
    /\ UNCHANGED net

InitializeLogger ==
    /\ unread = {}
    /\ Prepare("config", "listen")
    /\ UNCHANGED <<unread, net>>

\* MUTANT of OpenPort: an address is made up, and Serve is left to listen on it.
OpenPortLater(next) == UNCHANGED port

\* The kernel accepts connections for the port as soon as net.Listen returns.
OpenPort(next) == port' = IF pc'["main"] = next THEN "open" ELSE port

\* Start takes its ports from the lists, and listens.
Listen ==
    /\ Prepare("listen", "discover")
    /\ OpenPort("discover")
    /\ UNCHANGED <<unread, listed, conn>>

\* It connects to the registry, and finds the IP it will register.
NewDiscoveryRegister ==
    /\ Prepare("discover", "rpcFn")
    /\ UNCHANGED <<unread, net>>

\* An error of the service's own Start returns through the deferred GracefulStop.
RpcFn ==
    /\ \/ Goto("main", "rpcFn", "register") /\ UNCHANGED result
       \/ Goto("main", "rpcFn", "return") /\ result' = "startup"
    /\ UNCHANGED <<unread, channel, server, net, given, exit>>

\* So does one of client.Register, which may have listed the process all the same.
\* Nothing in Start unregisters it.
Register ==
    /\ \/ Goto("main", "register", "spawn") /\ listed' = TRUE /\ UNCHANGED result
       \/ Goto("main", "register", "return") /\ listed' \in BOOLEAN /\ result' = "startup"
    /\ UNCHANGED <<unread, channel, server, port, conn, given, exit>>

\* MUTANT of Spawned: the go statement of the gRPC server is missing.
SpawnedProm == [pc EXCEPT !["main"] = "notify", !["prom"] = "start"]

Spawned == [pc EXCEPT !["main"] = "notify", !["prom"] = "start", !["rpc"] = "start"]

Spawn ==
    /\ exit = "running" /\ pc["main"] = "spawn"
    /\ pc' = Spawned
    /\ UNCHANGED <<unread, net, channel, server, given, outcome>>

Notify ==
    /\ Goto("main", "notify", "select")
    /\ UNCHANGED <<unread, net, channel, server, given, outcome>>

Starting == {"config", "listen", "discover", "rpcFn", "register", "spawn", "notify"}

\* Before signal.Notify SIGTERM kills; after it the signal waits in sigs, which
\* holds one and drops the rest.
Sigterm ==
    /\ exit = "running" /\ term = "none"
    /\ IF pc["main"] \in Starting \/ result = "startup"
          THEN exit' = "killed" /\ UNCHANGED term
          ELSE term' = "pending" /\ UNCHANGED exit
    /\ UNCHANGED <<unread, net, pc, channel, server, prometheus, failed, result>>

-----------------------------------------------------------------------------
(* case <-sigs *)

\* MUTANT of TakeSigterm: netDone is closed in this case of the select, too.
TakeSigtermCloses ==
    /\ exit = "running" /\ pc["main"] = "select" /\ term = "pending"
    /\ term' = "taken" /\ closed' = TRUE
    /\ pc' = [pc EXCEPT !["main"] = "graceful", !["stop"] = "start"]
    /\ UNCHANGED <<unread, net, netDone, netErr, server, prometheus, failed, outcome>>

\* gracefulStopWithCtx starts its goroutine and its 15 seconds.
TakeSigterm ==
    /\ exit = "running" /\ pc["main"] = "select" /\ term = "pending"
    /\ term' = "taken"
    /\ pc' = [pc EXCEPT !["main"] = "graceful", !["stop"] = "start"]
    /\ UNCHANGED <<unread, net, channel, server, prometheus, failed, outcome>>

\* MUTANT of Drained: Stop, which cuts off the RPCs in flight, for GracefulStop.
CutOffNow == TRUE

\* MUTANT of Drained: a WaitGroup that the Prometheus goroutine is in as well.
DrainedBoth == rpcs = 0 /\ pc["prom"] = "done"

\* GracefulStop waits for the RPCs in flight.
Drained == rpcs = 0

\* A connection that nobody has accepted is gone with the listening socket.
ClosePort ==
    /\ port' = "closed"
    /\ conn' = IF conn = "queued" THEN "none" ELSE conn
    /\ UNCHANGED listed

\* GracefulStop closes the listeners it knows, which are those that Serve has.
CloseListeners == IF pc["rpc"] = "serving" THEN ClosePort ELSE UNCHANGED net

GracefulStop ==
    /\ \/ Goto("stop", "start", "draining") /\ stopping' = TRUE /\ CloseListeners
       \/ Drained /\ Goto("stop", "draining", "done") /\ UNCHANGED <<stopping, net>>
    /\ UNCHANGED <<unread, channel, httpServer, rpcs, given, outcome>>

Stopped ==
    /\ pc["stop"] = "done" /\ Goto("main", "graceful", "shutdown")
    /\ UNCHANGED <<unread, net, channel, server, given, outcome>>

\* "timeout, ctx graceful stop"
StopTimeout ==
    /\ Goto("main", "graceful", "return")
    /\ result' = "timeout"
    /\ UNCHANGED <<unread, net, channel, server, given, exit>>

\* httpServer.Shutdown, on what the Prometheus goroutine has left there; a scrape
\* that outlives the second deadline is an error.
Shutdown ==
    /\ httpServer # "nil" /\ Goto("main", "shutdown", "return")
    /\ httpServer' = "shutdown"
    /\ result' \in {"nil", "shutdown"}
    /\ UNCHANGED <<unread, net, channel, stopping, rpcs, given, exit>>

ShutdownNil ==
    /\ httpServer = "nil" /\ Goto("main", "shutdown", "gone")
    /\ exit' = "nilDereference"
    /\ UNCHANGED <<unread, net, channel, server, given, result>>

-----------------------------------------------------------------------------
(* case <-netDone, and the deferred calls *)

Receive ==
    /\ netDone > 0 /\ Goto("main", "select", "close")
    /\ netDone' = netDone - 1
    /\ UNCHANGED <<unread, net, closed, netErr, server, given, outcome>>

\* close(netDone); return netErr: a read that races with a second failure.  Both
\* errors are of one type, so that either is read whole.
CloseReturn ==
    /\ Goto("main", "close", "return")
    /\ closed' = TRUE
    /\ result' = netErr
    /\ UNCHANGED <<unread, net, netDone, netErr, server, given, exit>>

\* once.Do(srv.GracefulStop): gracefulStopWithCtx did not go through the once, so
\* the server is stopped again, and no deadline covers it.
DeferredStop ==
    /\ Goto("main", "return", "deferred")
    /\ stopping' = TRUE /\ CloseListeners
    /\ UNCHANGED <<unread, channel, httpServer, rpcs, given, outcome>>

\* MUTANT of Status: the command drops the error that Start returned.
StatusZero == "zero"

\* The command exits with -1 on an error (ExitWithError), else with 0.
Status == IF result = "nil" THEN "zero" ELSE "error"

Exit ==
    /\ Drained /\ Goto("main", "deferred", "gone")
    /\ exit' = Status
    /\ UNCHANGED <<unread, net, channel, server, given, result>>

Main ==
    \/ \E file \in unread : InitializeConfiguration(file)
    \/ InitializeLogger \/ Listen \/ NewDiscoveryRegister
    \/ RpcFn \/ Register \/ Spawn \/ Notify
    \/ TakeSigterm \/ Stopped \/ StopTimeout \/ Shutdown \/ ShutdownNil
    \/ Receive \/ CloseReturn \/ DeferredStop \/ Exit

-----------------------------------------------------------------------------
(* The goroutines of the two servers *)

\* Without a port or without Prometheus its goroutine has nothing to do.
MakeHttpServer ==
    /\ IF prometheus = "enabled"
          THEN Goto("prom", "start", "listen") /\ httpServer' = "set"
          ELSE Goto("prom", "start", "done") /\ UNCHANGED httpServer
    /\ UNCHANGED <<unread, net, channel, stopping, rpcs, given, outcome>>

\* The server of p was stopped, by Shutdown or by GracefulStop.
ShutDown(p) == IF p = "prom" THEN httpServer = "shutdown" ELSE stopping

\* ListenAndServe and Serve begin to accept.
Accept(p) ==
    /\ ~ShutDown(p)
    /\ IF p = "prom" THEN Goto(p, "listen", "serving") ELSE Goto(p, "start", "serving")
    /\ UNCHANGED <<unread, net, channel, server, given, outcome>>

\* A server that is shut down returns ErrServerClosed (http) or nil (gRPC), which
\* is not reported.
Return(p) ==
    /\ ShutDown(p)
    /\ Goto(p, "serving", "done") \/ (p = "prom" /\ Goto(p, "listen", "done"))
    /\ UNCHANGED <<unread, net, channel, server, given, outcome>>

\* The port is taken, or accept fails for good.  Serve also fails, with
\* ErrServerStopped, if GracefulStop came before it.  It closes its listener on
\* every way out.
Fail(p) ==
    /\ \/ ~ShutDown(p) /\ Goto(p, "serving", "failed")
       \/ p = "prom" /\ ~ShutDown(p) /\ Goto(p, "listen", "failed")
       \/ p = "rpc" /\ ShutDown(p) /\ Goto(p, "start", "failed")
    /\ failed' = failed \cup {p}
    /\ IF p = "rpc" THEN ClosePort ELSE UNCHANGED net
    /\ UNCHANGED <<unread, channel, server, prometheus, term, outcome>>

\* MUTANT of NetErr: the error is assigned to a variable of the goroutine's own.
NetErrShadowed(p) == UNCHANGED netErr

\* MUTANT of NetErr: each goroutine has the other's message.
NetErrSwapped(p) == netErr' = IF p = "prom" THEN "rpc" ELSE "prom"

NetErr(p) == netErr' = p

SetNetErr(p) ==
    /\ Goto(p, "failed", "send")
    /\ NetErr(p)
    /\ UNCHANGED <<unread, net, netDone, closed, server, given, outcome>>

\* netDone <- struct{}{}: on a channel that main has closed, the send panics.
Send(p) ==
    /\ Goto(p, "send", "done")
    /\ IF closed
          THEN exit' = "sendOnClosed" /\ UNCHANGED netDone
          ELSE netDone < Cap /\ netDone' = netDone + 1 /\ UNCHANGED exit
    /\ UNCHANGED <<unread, net, closed, netErr, server, given, result>>

\* MUTANT of Server: a failure is only logged.
ServerLogs(p) == Accept(p) \/ Return(p)

Server(p) == Accept(p) \/ Return(p) \/ SetNetErr(p) \/ Send(p)

-----------------------------------------------------------------------------
(* Connections and RPCs.  A connection outlives a listener that broke. *)

\* A client finds the process and connects, whether Serve runs yet or not.
Connect ==
    /\ exit = "running" /\ listed /\ port = "open" /\ conn = "none"
    /\ conn' = "queued"
    /\ UNCHANGED <<unread, pc, channel, server, port, listed, given, outcome>>

AcceptConn ==
    /\ exit = "running" /\ pc["rpc"] = "serving" /\ conn = "queued"
    /\ conn' = "accepted"
    /\ UNCHANGED <<unread, pc, channel, server, port, listed, given, outcome>>

Begin ==
    /\ exit = "running" /\ conn = "accepted" /\ ~stopping
    /\ rpcs < MaxRpcs
    /\ rpcs' = rpcs + 1
    /\ UNCHANGED <<unread, net, pc, channel, httpServer, stopping, given, outcome>>

End ==
    /\ exit = "running" /\ rpcs > 0
    /\ rpcs' = rpcs - 1
    /\ UNCHANGED <<unread, net, pc, channel, httpServer, stopping, given, outcome>>

Next ==
    \/ Main \/ Sigterm \/ GracefulStop \/ MakeHttpServer
    \/ \E p \in Servers : Server(p) \/ Fail(p)
    \/ Connect \/ AcceptConn \/ Begin \/ End

Spec == Init /\ [][Next]_vars

\* Go runs every goroutine that can run, and timers fire.  Servers need not fail
\* and SIGTERM need not come, but ErrServerStopped does.
Fairness ==
    /\ WF_vars(Main) /\ WF_vars(GracefulStop) /\ WF_vars(MakeHttpServer)
    /\ \A p \in Servers : WF_vars(Server(p))
    /\ WF_vars(stopping /\ Fail("rpc"))
    /\ WF_vars(AcceptConn)

FairSpec == Spec /\ Fairness

\* Where, besides, every RPC ends: the handlers have no deadline of their own.
LiveSpec == FairSpec /\ WF_vars(End)

-----------------------------------------------------------------------------
(* Properties *)

Places ==
    Starting \cup {"off", "start", "select", "graceful", "shutdown", "close", "return", "deferred",
                  "gone", "draining", "serving", "failed", "send", "done"}
Errors == Servers \cup {"startup", "timeout", "shutdown"}
Ends == {"zero", "error", "killed", "nilDereference", "sendOnClosed"}

ProcessType ==
    /\ unread \subseteq ConfigMap \cup {LogConfigFileName}
    /\ prometheus \in Settings
    /\ pc \in [{"main", "stop"} \cup Servers -> Places]

ChannelType ==
    /\ netDone \in 0..Cap
    /\ closed \in BOOLEAN
    /\ netErr \in Servers \cup {"nil"}

ServerType ==
    /\ httpServer \in {"nil", "set", "shutdown"}
    /\ stopping \in BOOLEAN
    /\ rpcs \in 0..MaxRpcs

NetType ==
    /\ port \in {"closed", "open"}
    /\ listed \in BOOLEAN
    /\ conn \in {"none", "queued", "accepted"}

OutcomeType ==
    /\ term \in {"none", "pending", "taken"}
    /\ failed \subseteq Servers
    /\ result \in Errors \cup {"nil"}
    /\ exit \in Ends \cup {"running"}

\* Every variable holds a value of its type.
TypeOK == ProcessType /\ ChannelType /\ ServerType /\ NetType /\ OutcomeType

\* Start never returns with an RPC in flight, whichever way it came to return.
ReturnsDrained == exit \in {"zero", "error"} => rpcs = 0

\* A process that reports success was told to stop: no failure of a server, in
\* any order with a signal or a second failure, ends with status 0.
ZeroMeansSigterm == exit = "zero" => term = "taken"

\* The error Start returns for a failed server names one that did fail.
ErrorNamesCulprit == result \in Servers => result \in failed

\* It takes the failure of both servers to end in a send on the closed channel.
OneFailureNoPanic == exit = "sendOnClosed" => failed = Servers

\* Register comes before Serve, but never before the port is open: a client that
\* finds the process can connect to it, until a stop or a failure closes the port.
ListedIsOpen ==
    listed /\ exit = "running" /\ ~stopping /\ "rpc" \notin failed => port = "open"

\* A connection made in the time between Register and Serve is not left in the
\* backlog: it is accepted, unless the process stops or fails.
QueuedIsAccepted ==
    conn = "queued" ~> conn = "accepted" \/ stopping \/ failed # {} \/ exit # "running"

\* A server that fails ends the process, also when it fails during a stop.
FailureEnds == failed # {} ~> exit # "running"

\* A SIGTERM that Start has taken ends the process.
SigtermEnds == term = "taken" ~> exit # "running"

\* SIGTERMExit: "logs a warning message when the program receives a SIGTERM
\* signal and exits with status 0".  So it does, if no deadline passed.
SigtermExitsZero == term = "taken" /\ result = "nil" => exit \in {"running", "zero"}

\* The inductive invariant behind the invariants above.  Until it is spawned a
\* server does nothing, and no signal is taken before the select.
StartInv ==
    /\ pc["main"] \in Starting => term = "none" /\ pc["stop"] = "off" /\ result = "nil"
    /\ pc["main"] \in Starting \ {"notify"} => pc["prom"] = "off" /\ pc["rpc"] = "off"
    /\ pc["rpc"] = "off" => rpcs = 0 /\ conn # "accepted" /\ "rpc" \notin failed
    /\ pc["main"] \in {"discover", "rpcFn", "register"} => port = "open"
    /\ listed => port = "open" \/ stopping \/ "rpc" \in failed

\* What a server sends is there, and the error is set before that.
FailInv ==
    /\ netErr \in failed \cup {"nil"} /\ ErrorNamesCulprit
    /\ \A p \in Servers : pc[p] \in {"failed", "send"} => p \in failed
    /\ netDone > 0 \/ pc["main"] = "close" \/ (\E p \in Servers : pc[p] = "send") => netErr # "nil"
    /\ netDone > 0 \/ pc["main"] = "close" \/ closed => \E p \in failed : pc[p] = "done"

\* The way out without an error leads through the signal.
ReturnInv ==
    /\ pc["main"] \in {"graceful", "shutdown"} => term = "taken"
    /\ pc["main"] \in {"return", "deferred"} => term = "taken" \/ result # "nil"

IInv ==
    /\ TypeOK /\ StartInv /\ FailInv /\ ReturnInv
    /\ ReturnsDrained /\ ZeroMeansSigterm /\ OneFailureNoPanic
=============================================================================
