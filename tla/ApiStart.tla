------------------------------ MODULE ApiStart ------------------------------
(***************************************************************************)
(* api.Start: the life of one openim-api process.  The main goroutine runs *)
(* the Prometheus server and the HTTP API server in goroutines of their    *)
(* own and waits for SIGTERM or for the failure of either.  The goroutines *)
(* share the variables err and netErr and the channel netDone, which holds *)
(* one value; the deadline of the shutdown runs from the start.  The       *)
(* router serves requests while the Prometheus goroutine adds its          *)
(* middleware to it.                                                       *)
(***************************************************************************)
EXTENDS Naturals

CONSTANT MaxRequests    \* bound: HTTP requests in flight at a time

ASSUME MaxRequestsOK == MaxRequests \in Nat

Servers == {"prom", "api"}
Cap == 1    \* make(chan struct{}, 1)

\* Requests: begun before the router had the middleware, since then with a chain
\* that does not hold it, or with one that does.
Kinds == {"early", "unmetered", "metered"}

VARIABLES
    prometheus,  \* config.API.Prometheus.Enable
    pc,          \* pc[p]: where goroutine p is
    err,         \* the err of Start, which both servers assign to
    netErr,      \* the shared error: the message, and the err it wraps
    netDone,     \* how many values the channel holds
    closed,      \* close(netDone) has run
    expired,     \* whether the 15 seconds are over: "no", or since "before" or
                 \* "after" Start took SIGTERM
    http,        \* the API server: "new", "open" (has accepted), "shutdown"
    requests,    \* requests[k]: HTTP requests of kind k in flight
    router,      \* its chain for unknown paths: "plain", "changing", "metered"
    missed,      \* a request began with the middleware in use and was not
                 \* counted (history)
    term,        \* SIGTERM: "none", "pending" in sigs, "taken" by Start
    failed,      \* the servers that have failed (history)
    result,      \* the error Start returns
    exit         \* how the process ended: "running" while it has not

channel == <<netDone, closed>>
metrics == <<router, missed>>
server == <<http, requests, metrics>>
given == <<prometheus, term, failed>>
outcome == <<result, exit>>
vars == <<pc, err, netErr, channel, expired, server, given, outcome>>

Nil == [by |-> "none", wraps |-> "nil"]

Init ==
    /\ prometheus \in BOOLEAN
    /\ pc = [p \in {"main"} \cup Servers |-> IF p = "main" THEN "config" ELSE "off"]
    /\ err = "nil" /\ netErr = Nil
    /\ netDone = 0 /\ closed = FALSE
    /\ expired = "no"
    /\ http = "new" /\ requests = [k \in Kinds |-> 0]
    /\ router = "plain" /\ missed = FALSE
    /\ term = "none" /\ failed = {}
    /\ result = Nil /\ exit = "running"

\* Goroutine p goes on from one place to another, while the process lives.
Goto(p, from, to) ==
    exit = "running" /\ pc[p] = from /\ pc' = [pc EXCEPT ![p] = to]

-----------------------------------------------------------------------------
(* Start, up to the select *)

Prepare(from, to) ==
    /\ \/ Goto("main", from, to) /\ UNCHANGED result
       \/ /\ Goto("main", from, "return")
          /\ result' = [by |-> "main", wraps |-> "startup"]
    /\ UNCHANGED <<err, netErr, channel, expired, server, given, exit>>

\* The command reads its files, which succeeds or not, and Start the ports and the
\* registry.
LoadConfig == Prepare("config", "discover")
NewDiscoveryRegister == Prepare("discover", "router")

\* newGinRouter, whose NewUser gets a connection to the user service.
NewGinRouter ==
    /\ Goto("main", "router", "prom")
    /\ UNCHANGED <<err, netErr, channel, expired, server, given, outcome>>

\* A user service that cannot be found is not an error to return: NewUser exits.
NewUserFails ==
    /\ Goto("main", "router", "gone")
    /\ exit' = "error"
    /\ UNCHANGED <<err, netErr, channel, expired, server, given, result>>

SpawnProm ==
    /\ exit = "running" /\ pc["main"] = "prom"
    /\ pc' = [pc EXCEPT !["main"] = "api", !["prom"] = IF prometheus THEN "new" ELSE "done"]
    /\ UNCHANGED <<err, netErr, channel, expired, server, given, outcome>>

SpawnApi ==
    /\ exit = "running" /\ pc["main"] = "api"
    /\ pc' = [pc EXCEPT !["main"] = "notify", !["api"] = "listen"]
    /\ UNCHANGED <<err, netErr, channel, expired, server, given, outcome>>

Notify ==
    /\ Goto("main", "notify", "select")
    /\ UNCHANGED <<err, netErr, channel, expired, server, given, outcome>>

Starting == {"config", "discover", "router", "prom", "api", "notify"}

\* Before signal.Notify SIGTERM kills; after it the signal waits in sigs.
Sigterm ==
    /\ exit = "running" /\ term = "none"
    /\ IF pc["main"] \in Starting \/ result.wraps = "startup"
          THEN exit' = "killed" /\ UNCHANGED term
          ELSE term' = "pending" /\ UNCHANGED exit
    /\ UNCHANGED <<pc, err, netErr, channel, expired, server, prometheus, failed, result>>

\* The context of the shutdown is made right after Notify, not on the signal.
Expire ==
    /\ exit = "running" /\ pc["main"] \in {"select", "shutdown"} /\ expired = "no"
    /\ expired' = IF term = "taken" THEN "after" ELSE "before"
    /\ UNCHANGED <<pc, err, netErr, channel, server, given, outcome>>

-----------------------------------------------------------------------------
(* case <-sigs *)

\* MUTANT of TakeSigterm: netDone is closed in this case of the select, too.
TakeSigtermCloses ==
    /\ term = "pending" /\ Goto("main", "select", "shutdown")
    /\ term' = "taken" /\ closed' = TRUE
    /\ http' = "shutdown"
    /\ UNCHANGED <<err, netErr, netDone, expired, requests, metrics, prometheus, failed, outcome>>

\* server.Shutdown closes the listener, then waits.
TakeSigterm ==
    /\ term = "pending" /\ Goto("main", "select", "shutdown")
    /\ term' = "taken"
    /\ http' = "shutdown"
    /\ UNCHANGED <<err, netErr, channel, expired, requests, metrics, prometheus, failed, outcome>>

\* MUTANT of Idle: Close, which cuts off the requests in flight, for Shutdown.
CutOffNow == TRUE

InFlight == requests["early"] + requests["unmetered"] + requests["metered"]

Idle == InFlight = 0

\* Shutdown finds the server idle, which it looks for before it looks at ctx.
ShutdownIdle ==
    /\ Idle /\ Goto("main", "shutdown", "return")
    /\ UNCHANGED <<err, netErr, channel, expired, server, given, outcome>>

\* MUTANT of Deadline: the context of the shutdown has no deadline.
NoDeadline == FALSE

Deadline == expired # "no"

\* Shutdown gives up; the requests in flight end with the process.
ShutdownTimeout ==
    /\ Deadline /\ InFlight > 0 /\ Goto("main", "shutdown", "return")
    /\ result' = [by |-> "main", wraps |-> "deadline"]
    /\ UNCHANGED <<err, netErr, channel, expired, server, given, exit>>

-----------------------------------------------------------------------------
(* case <-netDone *)

Receive ==
    /\ netDone > 0 /\ Goto("main", "select", "close")
    /\ netDone' = netDone - 1
    /\ UNCHANGED <<err, netErr, closed, expired, server, given, outcome>>

\* close(netDone); return netErr.
CloseReturn ==
    /\ Goto("main", "close", "return")
    /\ closed' = TRUE
    /\ result' = netErr
    /\ UNCHANGED <<err, netErr, netDone, expired, server, given, exit>>

\* MUTANT of Status: the command exits with 0, whatever Start returned.
StatusZero == "zero"

\* The command exits with -1 on an error (ExitWithError), else with 0.
Status == IF result = Nil THEN "zero" ELSE "error"

\* The process ends, and with it the goroutines and the requests in flight.
Exit ==
    /\ Goto("main", "return", "gone")
    /\ exit' = Status
    /\ UNCHANGED <<err, netErr, channel, expired, server, given, result>>

Main ==
    \/ LoadConfig \/ NewDiscoveryRegister \/ NewGinRouter \/ NewUserFails
    \/ SpawnProm \/ SpawnApi \/ Notify
    \/ TakeSigterm \/ ShutdownIdle \/ ShutdownTimeout
    \/ Receive \/ CloseReturn \/ Exit

-----------------------------------------------------------------------------
(* The goroutines of the two servers *)

\* NewPrometheus and SetListenAddress.  A collector that cannot be registered is
\* only printed.
NewPrometheus ==
    /\ Goto("prom", "new", "use")
    /\ UNCHANGED <<err, netErr, channel, expired, server, given, outcome>>

\* e.Use(p.HandlerFunc()) replaces the chain for unknown paths, in two writes and
\* with no lock.  The routes keep the chains that newGinRouter gave them.
Use ==
    /\ \/ Goto("prom", "use", "using") /\ router' = "changing"
       \/ Goto("prom", "using", "listen") /\ router' = "metered"
    /\ UNCHANGED <<err, netErr, channel, expired, http, requests, missed, given, outcome>>

\* err = p.Use(router), err = server.ListenAndServe(): both block until the
\* server fails or, for the API server, is shut down.  The router's Run gives the
\* Prometheus server no Shutdown.
Serve(p) ==
    /\ ~(p = "api" /\ http = "shutdown")
    /\ Goto(p, "listen", "serving")
    /\ http' = IF p = "api" THEN "open" ELSE http
    /\ UNCHANGED <<err, netErr, channel, expired, requests, metrics, given, outcome>>

Fail(p) ==
    /\ ~(p = "api" /\ http = "shutdown")
    /\ Goto(p, "listen", "check") \/ Goto(p, "serving", "check")
    /\ err' = p
    /\ failed' = failed \cup {p}
    /\ UNCHANGED <<netErr, channel, expired, server, prometheus, term, outcome>>

ServerClosed ==
    /\ http = "shutdown"
    /\ Goto("api", "listen", "check") \/ Goto("api", "serving", "check")
    /\ err' = "ErrServerClosed"
    /\ UNCHANGED <<netErr, channel, expired, server, given, outcome>>

\* MUTANT of Message: both goroutines run the message of the API server.
MessageCopied(p) == "api"

Message(p) == p

\* The check reads err again.  The other goroutine may have assigned to it, or
\* may be at it: an error is two words, and a read or a second write between
\* them leaves the type of one error with the data of another.
Check(p) ==
    /\ \E e \in {err} \cup {"torn" : q \in {q \in Servers \ {p} : pc[q] = "check"}} :
          /\ err' = e
          /\ IF e = "ErrServerClosed"
                THEN Goto(p, "check", "done") /\ UNCHANGED netErr
                ELSE Goto(p, "check", "send") /\ netErr' = [by |-> Message(p), wraps |-> e]
    /\ UNCHANGED <<channel, expired, server, given, outcome>>

\* netDone <- struct{}{}: it blocks on a full channel and panics on a closed one.
Send(p) ==
    /\ Goto(p, "send", "done")
    /\ IF closed
          THEN exit' = "sendOnClosed" /\ UNCHANGED netDone
          ELSE netDone < Cap /\ netDone' = netDone + 1 /\ UNCHANGED exit
    /\ UNCHANGED <<err, netErr, closed, expired, server, given, result>>

\* MUTANT of Report: a failure is only logged.
ReportNothing(p) == Check(p)

Report(p) == Check(p) \/ Send(p)

-----------------------------------------------------------------------------
(* HTTP requests: connections outlive a listener that broke. *)

BeginAs(kind) ==
    /\ exit = "running" /\ http = "open"
    /\ InFlight < MaxRequests
    /\ requests' = [requests EXCEPT ![kind] = @ + 1]
    /\ UNCHANGED <<pc, err, netErr, channel, expired, http, metrics, given, outcome>>

Routed == BeginAs(IF router = "metered" THEN "unmetered" ELSE "early")

Unknown ==
    \/ router # "metered" /\ BeginAs("early")
    \/ router # "plain" /\ BeginAs("metered")

\* The request finds the length of one chain and the array of the other, and
\* calls what lies behind the array.
UnknownTorn ==
    /\ exit = "running" /\ http = "open" /\ router = "changing"
    /\ exit' = "fault"
    /\ UNCHANGED <<pc, err, netErr, channel, expired, server, given, result>>

\* The middleware counts a request after the handlers behind it have returned.
End(kind) ==
    /\ exit = "running" /\ requests[kind] > 0
    /\ requests' = [requests EXCEPT ![kind] = @ - 1]
    /\ missed' = (missed \/ kind = "unmetered")
    /\ UNCHANGED <<pc, err, netErr, channel, expired, http, router, given, outcome>>

Next ==
    \/ Main \/ Sigterm \/ Expire
    \/ \E p \in Servers : Serve(p) \/ Fail(p) \/ Report(p)
    \/ ServerClosed
    \/ NewPrometheus \/ Use
    \/ Routed \/ Unknown \/ UnknownTorn
    \/ \E kind \in Kinds : End(kind)

Spec == Init /\ [][Next]_vars

\* Go runs every goroutine that can run, and the timer fires.  Nothing is asked
\* of the requests, the servers or the signal.
Fairness ==
    /\ WF_vars(Main) /\ WF_vars(Expire) /\ WF_vars(ServerClosed)
    /\ WF_vars(NewPrometheus) /\ WF_vars(Use)
    /\ \A p \in Servers : WF_vars(Serve(p)) /\ WF_vars(Report(p))

LiveSpec == Spec /\ Fairness

-----------------------------------------------------------------------------
(* Properties *)

Places ==
    Starting \cup {"off", "select", "shutdown", "close", "return", "gone",
                  "new", "use", "using", "listen", "serving", "check", "send", "done"}
Errors == {"nil", "ErrServerClosed", "torn"} \cup Servers
NetErrors == {Nil} \cup [by : Servers, wraps : Servers \cup {"torn"}]
Results == NetErrors \cup [by : {"main"}, wraps : {"startup", "deadline"}]
Ends == {"zero", "error", "killed", "sendOnClosed", "fault"}

ProcessType ==
    /\ prometheus \in BOOLEAN
    /\ pc \in [{"main"} \cup Servers -> Places]
    /\ expired \in {"no", "before", "after"}
    /\ term \in {"none", "pending", "taken"}
    /\ failed \subseteq Servers

ErrorType ==
    /\ err \in Errors
    /\ netErr \in NetErrors
    /\ result \in Results
    /\ exit \in Ends \cup {"running"}

ChannelType ==
    /\ netDone \in 0..Cap
    /\ closed \in BOOLEAN

HttpType ==
    /\ http \in {"new", "open", "shutdown"}
    /\ requests \in [Kinds -> 0..MaxRequests]
    /\ router \in {"plain", "changing", "metered"}
    /\ missed \in BOOLEAN

\* Every variable holds a value of its type.
TypeOK == ProcessType /\ ErrorType /\ ChannelType /\ HttpType

\* A process that reports success was told to stop, and every request had ended.
ZeroMeansDrained == exit = "zero" => term = "taken" /\ InFlight = 0

\* The error Start returns for a failed server names one that did fail; if only
\* one did it wraps the error of that one, whole, though err is shared.
ErrorNamesCulprit ==
    result.by \in Servers =>
        result.by \in failed /\ (result.wraps \in failed \/ failed = Servers)

\* It takes the failure of both servers to end in a send on the closed channel.
OneFailureNoPanic == exit = "sendOnClosed" => failed = Servers

\* A server that fails ends the process: no failure is lost in err, blocked on a
\* full channel or overtaken by the signal, even if a request hangs.
FailureEnds == failed # {} ~> exit # "running"

\* A SIGTERM that Start has taken ends the process, even if a request hangs.
SigtermEnds == term = "taken" ~> exit # "running"

\* SIGTERMExit: "logs a warning message when the program receives a SIGTERM
\* signal and exits with status 0".  So it does, if the requests in flight end
\* within 15 seconds of the signal.
SigtermExitsZero ==
    term = "taken" /\ expired # "after" => exit \in {"running", "zero"}

\* requests_total: "How many HTTP requests processed".  It counts every request
\* that began when the middleware was in use.
RequestsCounted == ~missed

\* The inductive invariant behind the invariants above.  No signal is taken before
\* the select, and the API server is shut down when one is.
StartInv ==
    /\ pc["main"] \in Starting => term = "none" /\ result = Nil
    /\ pc["main"] \in {"config", "discover", "router", "prom"} => pc["prom"] = "off"
    /\ pc["main"] \in Starting \ {"notify"} => pc["api"] = "off"
    /\ http = "shutdown" <=> term = "taken"

\* Until then the servers put the errors of servers that did fail in err and
\* netErr, though the one may be read by the other, or be the half of each.
Culprit(e) == e \in failed \/ (e = "torn" /\ failed = Servers)

ErrInv ==
    /\ \A p \in Servers : pc[p] = "check" => err # "nil"
    /\ term # "taken" =>
          /\ err = "nil" \/ Culprit(err)
          /\ netErr = Nil \/ (netErr.by \in failed /\ Culprit(netErr.wraps))
          /\ \A p \in Servers : pc[p] \in {"check", "send"} => p \in failed

\* The error is set before the channel has a value, and is there when it is received.
ChannelInv ==
    /\ failed \subseteq {p \in Servers : pc[p] # "off"}
    /\ netDone > 0 \/ pc["main"] = "close" \/ (\E p \in Servers : pc[p] = "send") => netErr # Nil
    /\ pc["main"] \in {"select", "close"} \/ closed => term # "taken"
    /\ closed => pc["main"] \in {"return", "gone"}
    /\ term # "taken" /\ (netDone > 0 \/ pc["main"] = "close" \/ closed) =>
          \E p \in failed : pc[p] = "done"

\* The way out without an error leads through the signal.
ReturnInv ==
    /\ pc["main"] \in {"select", "close", "shutdown"} => result = Nil
    /\ pc["main"] = "shutdown" => term = "taken"
    /\ pc["main"] = "return" => result # Nil \/ (term = "taken" /\ InFlight = 0)

IInv ==
    /\ TypeOK /\ StartInv /\ ErrInv /\ ChannelInv /\ ReturnInv
    /\ ZeroMeansDrained /\ ErrorNamesCulprit /\ OneFailureNoPanic
=============================================================================
