---------------------------- MODULE ApiStartProofs ----------------------------
(***************************************************************************)
(* Theorems of ApiStart, for any number of HTTP requests in flight: how an *)
(* openim-api process may end, and which error it ends with, though its    *)
(* servers share err.                                                      *)
(***************************************************************************)
EXTENDS ApiStart, TLAPS

\* The places that a goroutine may come to.
LEMMA PlacesAre ==
    /\ "config" \in Places /\ "discover" \in Places /\ "router" \in Places
    /\ "prom" \in Places /\ "api" \in Places /\ "notify" \in Places
    /\ "off" \in Places /\ "select" \in Places /\ "shutdown" \in Places
    /\ "close" \in Places /\ "return" \in Places /\ "gone" \in Places
    /\ "new" \in Places /\ "use" \in Places /\ "using" \in Places
    /\ "listen" \in Places /\ "serving" \in Places /\ "check" \in Places
    /\ "send" \in Places /\ "done" \in Places
  BY DEF Places, Starting

\* The errors, bare and wrapped, and the ways the process may end.
LEMMA OutcomesAre ==
    /\ "nil" \in Errors /\ "torn" \in Errors /\ "ErrServerClosed" \in Errors
    /\ \A p \in Servers : p \in Errors
    /\ "zero" \in Ends /\ "error" \in Ends /\ "killed" \in Ends
    /\ "sendOnClosed" \in Ends /\ "fault" \in Ends
  BY DEF Errors, Ends

\* netErr wraps any error but these two, and may be what Start returns.
LEMMA NetErrorsAre ==
    /\ Nil \in NetErrors
    /\ \A p \in Servers, e \in Errors \ {"nil", "ErrServerClosed"} :
          LET n == [by |-> p, wraps |-> e] IN n \in NetErrors /\ n # Nil /\ n.by = p /\ n.wraps = e
  BY DEF NetErrors, Errors, Nil, Servers

\* What Start returns is netErr, or an error of its own.
LEMMA ResultsAre ==
    /\ Nil.by \notin Servers
    /\ \A n \in NetErrors : n \in Results
    /\ \A e \in {"startup", "deadline"} :
          LET r == [by |-> "main", wraps |-> e] IN r \in Results /\ r # Nil /\ r.by \notin Servers
  BY DEF Results, NetErrors, Nil, Servers

\* There are two servers.
LEMMA BothServers ==
    \A S : S \subseteq Servers /\ "prom" \in S /\ "api" \in S => S = Servers
  BY DEF Servers

\* A step disturbs few of the conjuncts of the invariant, and every step some: the
\* lemmas below expand it all, the theorems after them nothing.
USE PlacesAre, OutcomesAre, NetErrorsAre, ResultsAre
USE DEF IInv, TypeOK, ProcessType, ErrorType, ChannelType, HttpType,
        StartInv, ErrInv, Culprit, ChannelInv, ReturnInv, ZeroMeansDrained,
        ErrorNamesCulprit, OneFailureNoPanic, Servers, Starting, Cap, Goto,
        channel, metrics, server, given, outcome

\* The process starts in the invariant.
LEMMA InitIInv == ASSUME Init PROVE IInv
<1>1. /\ pc \in [{"main"} \cup Servers -> Places]
      /\ pc["main"] = "config" /\ \A p \in Servers : pc[p] = "off"
  BY DEF Init
<1>2. /\ prometheus \in BOOLEAN /\ err = "nil" /\ netErr = Nil /\ netDone = 0
      /\ closed = FALSE /\ expired = "no" /\ http = "new" /\ router = "plain"
      /\ missed = FALSE /\ term = "none" /\ failed = {} /\ result = Nil /\ exit = "running"
  BY DEF Init
<1>3. ProcessType
  BY <1>1, <1>2
<1>4. requests \in [Kinds -> 0..MaxRequests]
  BY MaxRequestsOK DEF Init
<1>5. ErrorType /\ ChannelType /\ HttpType
  <2>1. closed \in BOOLEAN /\ missed \in BOOLEAN
    BY <1>2
  <2>2. netDone \in 0..Cap /\ err \in Errors /\ netErr \in NetErrors /\ result \in Results
        /\ exit \in Ends \cup {"running"}
    BY <1>2
  <2> QED
    BY <1>2, <1>4, <2>1, <2>2
<1>6. StartInv /\ ErrInv /\ ChannelInv /\ ReturnInv
  BY <1>1, <1>2
<1>7. ZeroMeansDrained /\ ErrorNamesCulprit /\ OneFailureNoPanic
  BY <1>2
<1> QED
  BY <1>3, <1>5, <1>6, <1>7

\* The steps of main before the select keep it.
LEMMA StartStep ==
    ASSUME IInv,
           \/ LoadConfig \/ NewDiscoveryRegister \/ NewGinRouter \/ NewUserFails
           \/ SpawnProm \/ SpawnApi \/ Notify
    PROVE  IInv'
<1>1. ASSUME LoadConfig PROVE IInv'
  BY <1>1 DEF LoadConfig, Prepare, InFlight
<1>2. ASSUME NewDiscoveryRegister PROVE IInv'
  BY <1>2 DEF NewDiscoveryRegister, Prepare, InFlight
<1>3. ASSUME NewGinRouter PROVE IInv'
  BY <1>3 DEF NewGinRouter, InFlight
<1>4. ASSUME NewUserFails PROVE IInv'
  BY <1>4 DEF NewUserFails, InFlight
<1>5. ASSUME SpawnProm PROVE IInv'
  BY <1>5 DEF SpawnProm, InFlight
<1>6. ASSUME SpawnApi PROVE IInv'
  BY <1>6 DEF SpawnApi, InFlight
<1>7. ASSUME Notify PROVE IInv'
  BY <1>7 DEF Notify, InFlight
<1> QED
  BY <1>1, <1>2, <1>3, <1>4, <1>5, <1>6, <1>7

\* So do its steps from the select on.
LEMMA SelectStep ==
    ASSUME IInv,
           \/ TakeSigterm \/ ShutdownIdle \/ ShutdownTimeout
           \/ Receive \/ CloseReturn \/ Exit
    PROVE  IInv'
<1>1. ASSUME TakeSigterm PROVE IInv'
  BY <1>1 DEF TakeSigterm, InFlight
<1>2. ASSUME ShutdownIdle PROVE IInv'
  BY <1>2 DEF ShutdownIdle, Idle, InFlight
<1>3. ASSUME ShutdownTimeout PROVE IInv'
  BY <1>3 DEF ShutdownTimeout, InFlight
<1>4. ASSUME Receive PROVE IInv'
  BY <1>4 DEF Receive, InFlight
<1>5. ASSUME CloseReturn PROVE IInv'
  BY <1>5 DEF CloseReturn, InFlight
<1>6. ASSUME Exit PROVE IInv'
  BY <1>6 DEF Exit, Status, InFlight
<1> QED
  BY <1>1, <1>2, <1>3, <1>4, <1>5, <1>6

\* So do the servers, in whichever order they serve, fail and write to err.
LEMMA ServerStep ==
    ASSUME IInv, NEW p \in Servers, Serve(p) \/ Fail(p) \/ Report(p)
    PROVE  IInv'
<1>1. ASSUME Serve(p) PROVE IInv'
  BY <1>1 DEF Serve, InFlight
<1>2. ASSUME Fail(p) PROVE IInv'
  BY <1>2 DEF Fail, InFlight
<1>3. ASSUME Check(p) PROVE IInv'
  <2>1. PICK e \in Errors :
           /\ e = err \/ (e = "torn" /\ \E q \in Servers \ {p} : pc[q] = "check")
           /\ err' = e
           /\ IF e = "ErrServerClosed"
                 THEN Goto(p, "check", "done") /\ UNCHANGED netErr
                 ELSE Goto(p, "check", "send") /\ netErr' = [by |-> p, wraps |-> e]
           /\ UNCHANGED <<channel, expired, server, given, outcome>>
    BY <1>3 DEF Check, Message
  <2>2. pc[p] = "check" /\ e # "nil"
    BY <2>1
  <2>3. ASSUME term # "taken" PROVE p \in failed /\ Culprit(e) /\ e # "ErrServerClosed"
    <3>1. p \in failed /\ (err \in failed \/ (err = "torn" /\ failed = Servers))
      BY <2>2, <2>3
    <3>2. CASE e = err
      BY <3>1, <3>2
    <3>3. CASE e = "torn" /\ \E q \in Servers \ {p} : pc[q] = "check"
      <4>1. PICK q \in Servers : q # p /\ pc[q] = "check"
        BY <3>3
      <4>2. q \in failed
        BY <2>3, <4>1
      <4>3. "prom" \in failed /\ "api" \in failed
        BY <3>1, <4>1, <4>2
      <4> QED
        BY <3>3, <4>3, BothServers
    <3> QED
      BY <2>1, <3>2, <3>3
  <2>4. CASE e = "ErrServerClosed"
    BY <2>1, <2>2, <2>3, <2>4 DEF InFlight
  <2>5. CASE e # "ErrServerClosed"
    <3>1. netErr' \in NetErrors /\ netErr' # Nil /\ netErr'.by = p /\ netErr'.wraps = e
      BY <2>1, <2>2, <2>5
    <3> QED
      BY <2>1, <2>2, <2>3, <2>5, <3>1 DEF InFlight
  <2> QED
    BY <2>4, <2>5
<1>4. ASSUME Send(p) PROVE IInv'
  <2>1. CASE closed
    <3>1. p \in failed /\ pc[p] = "send"
      BY <1>4, <2>1 DEF Send
    <3>2. PICK q \in failed : pc[q] = "done"
      BY <2>1
    <3>3. failed = Servers
      <4>1. "prom" \in failed /\ "api" \in failed
        BY <3>1, <3>2
      <4> QED
        BY <4>1, BothServers
    <3> QED
      BY <1>4, <2>1, <3>3 DEF Send, InFlight
  <2>2. CASE ~closed
    BY <1>4, <2>2 DEF Send, InFlight
  <2> QED
    BY <2>1, <2>2
<1> QED
  BY <1>1, <1>2, <1>3, <1>4 DEF Report

\* So do the signal, the deadline, the middleware and the requests.
LEMMA OtherStep ==
    ASSUME IInv,
           \/ Sigterm \/ Expire \/ ServerClosed \/ NewPrometheus \/ Use
           \/ Routed \/ Unknown \/ UnknownTorn \/ \E kind \in Kinds : End(kind)
    PROVE  IInv'
<1>1. ASSUME Sigterm PROVE IInv'
  BY <1>1 DEF Sigterm, InFlight
<1>2. ASSUME Expire PROVE IInv'
  BY <1>2 DEF Expire, InFlight
<1>3. ASSUME ServerClosed PROVE IInv'
  BY <1>3 DEF ServerClosed, InFlight
<1>4. ASSUME NewPrometheus PROVE IInv'
  BY <1>4 DEF NewPrometheus, InFlight
<1>5. ASSUME Use PROVE IInv'
  BY <1>5 DEF Use, InFlight
<1>6. ASSUME NEW kind \in Kinds, BeginAs(kind) PROVE IInv'
  <2>1. requests' \in [Kinds -> 0..MaxRequests]
    BY <1>6, MaxRequestsOK DEF BeginAs, InFlight, Kinds
  <2> QED
    BY <1>6, <2>1 DEF BeginAs
<1>7. ASSUME UnknownTorn PROVE IInv'
  BY <1>7 DEF UnknownTorn, InFlight
<1>8. ASSUME NEW kind \in Kinds, End(kind) PROVE IInv'
  <2>1. requests' \in [Kinds -> 0..MaxRequests]
    BY <1>8, MaxRequestsOK DEF End
  <2>2. InFlight # 0
    <3>1. /\ requests["early"] \in Nat /\ requests["unmetered"] \in Nat
          /\ requests["metered"] \in Nat
      BY MaxRequestsOK DEF Kinds
    <3>2. \/ requests["early"] > 0 \/ requests["unmetered"] > 0
          \/ requests["metered"] > 0
      BY <1>8 DEF End, Kinds
    <3> QED
      BY <3>1, <3>2 DEF InFlight
  <2>3. missed' \in BOOLEAN
    BY <1>8 DEF End
  <2> QED
    BY <1>8, <2>1, <2>2, <2>3 DEF End
<1> QED
  BY <1>1, <1>2, <1>3, <1>4, <1>5, <1>6, <1>7, <1>8 DEF Routed, Unknown, Kinds

\* What is left alone stays in the invariant.
LEMMA Stutter == ASSUME IInv, UNCHANGED vars PROVE IInv'
  BY DEF vars, InFlight

HIDE DEF IInv, TypeOK, ProcessType, ErrorType, ChannelType, HttpType,
         StartInv, ErrInv, Culprit, ChannelInv, ReturnInv, ZeroMeansDrained,
         ErrorNamesCulprit, OneFailureNoPanic, Servers, Starting, Cap, Goto,
         channel, metrics, server, given, outcome

\* An API process ends, fails and returns as the invariant has it, whatever the order
\* of its goroutines, its signal and its requests.
THEOREM Inductive == Spec => []IInv
<1>1. Init => IInv
  BY InitIInv
<1>2. IInv /\ [Next]_vars => IInv'
  BY StartStep, SelectStep, ServerStep, OtherStep, Stutter DEF Next, Main
<1> QED
  BY <1>1, <1>2, PTL DEF Spec

\* Every variable of a process keeps its type.
THEOREM TypeCorrect == Spec => []TypeOK
<1>1. IInv => TypeOK
  BY DEF IInv
<1> QED
  BY <1>1, Inductive, PTL

\* The status 0 is only for a process that was told to stop, and whose requests, counted
\* by the middleware or not, had all ended.
THEOREM ZeroIsDrained == Spec => []ZeroMeansDrained
<1>1. IInv => ZeroMeansDrained
  BY DEF IInv
<1> QED
  BY <1>1, Inductive, PTL

\* Both servers write to err and read it again with no lock: still, as long as one alone
\* has failed, Start returns its error and no other.
THEOREM NamesCulprit == Spec => []ErrorNamesCulprit
<1>1. IInv => ErrorNamesCulprit
  BY DEF IInv
<1> QED
  BY <1>1, Inductive, PTL

\* The send on the closed channel takes a second server that fails.
THEOREM NoPanic == Spec => []OneFailureNoPanic
<1>1. IInv => OneFailureNoPanic
  BY DEF IInv
<1> QED
  BY <1>1, Inductive, PTL
=============================================================================
