---------------------------- MODULE RpcStartProofs ----------------------------
(***************************************************************************)
(* Theorems of RpcStart, for any settings of Prometheus and any number of  *)
(* RPCs in flight: how an openim-rpc process may end, and what it says.    *)
(***************************************************************************)
EXTENDS RpcStart, TLAPS

\* The places that a goroutine may come to.
LEMMA PlacesAre ==
    /\ "config" \in Places /\ "listen" \in Places /\ "discover" \in Places
    /\ "rpcFn" \in Places /\ "register" \in Places /\ "spawn" \in Places
    /\ "notify" \in Places /\ "select" \in Places /\ "graceful" \in Places
    /\ "shutdown" \in Places /\ "close" \in Places /\ "return" \in Places
    /\ "deferred" \in Places /\ "gone" \in Places /\ "off" \in Places /\ "start" \in Places
    /\ "draining" \in Places /\ "serving" \in Places /\ "failed" \in Places
    /\ "send" \in Places /\ "done" \in Places
  BY DEF Places, Starting

\* The errors of Start, and the ways the process may end.
LEMMA OutcomesAre ==
    /\ \A p \in Servers : p \in Errors
    /\ "startup" \in Errors /\ "timeout" \in Errors /\ "shutdown" \in Errors
    /\ "zero" \in Ends /\ "error" \in Ends /\ "killed" \in Ends
    /\ "nilDereference" \in Ends /\ "sendOnClosed" \in Ends
  BY DEF Errors, Ends

\* A step disturbs few of the conjuncts of the invariant, and every step some: the
\* lemmas below expand it all, the theorems after them nothing.
USE PlacesAre, OutcomesAre
USE DEF IInv, TypeOK, ProcessType, ChannelType, ServerType, NetType, OutcomeType,
        StartInv, FailInv, ReturnInv, ReturnsDrained, ZeroMeansSigterm, ErrorNamesCulprit,
        OneFailureNoPanic, Servers, Starting, Cap, Goto, channel, server, net, given, outcome

\* The process starts in the invariant.
LEMMA InitIInv == ASSUME Init PROVE IInv
<1>1. /\ pc \in [{"main", "stop"} \cup Servers -> Places]
      /\ pc["main"] = "config" /\ \A p \in {"stop"} \cup Servers : pc[p] = "off"
  BY DEF Init
<1>2. /\ netDone = 0 /\ closed = FALSE /\ netErr = "nil"
      /\ httpServer = "nil" /\ stopping = FALSE /\ rpcs = 0
      /\ port = "closed" /\ listed = FALSE /\ conn = "none"
      /\ term = "none" /\ failed = {} /\ result = "nil" /\ exit = "running"
  BY DEF Init
<1>3. ProcessType
  BY <1>1 DEF Init
<1>4. ChannelType /\ ServerType /\ NetType /\ OutcomeType
  <2>1. closed \in BOOLEAN /\ stopping \in BOOLEAN /\ listed \in BOOLEAN
    BY <1>2
  <2>2. netDone \in 0..Cap /\ rpcs \in 0..MaxRpcs /\ exit \in Ends \cup {"running"}
        /\ result \in Errors \cup {"nil"} /\ netErr \in Servers \cup {"nil"}
    BY <1>2, ConstantsOK
  <2> QED
    BY <1>2, <2>1, <2>2
<1>5. StartInv /\ FailInv /\ ReturnInv
  BY <1>1, <1>2
<1>6. ReturnsDrained /\ ZeroMeansSigterm /\ OneFailureNoPanic
  BY <1>2
<1> QED
  BY <1>3, <1>4, <1>5, <1>6

\* The steps of main before the select keep it.
LEMMA StartStep ==
    ASSUME IInv,
           \/ \E file \in unread : InitializeConfiguration(file)
           \/ InitializeLogger \/ Listen \/ NewDiscoveryRegister
           \/ RpcFn \/ Register \/ Spawn \/ Notify
    PROVE  IInv'
<1>1. ASSUME NEW file \in unread, InitializeConfiguration(file) PROVE IInv'
  BY <1>1 DEF InitializeConfiguration, Prepare
<1>2. ASSUME InitializeLogger PROVE IInv'
  BY <1>2 DEF InitializeLogger, Prepare
<1>3. ASSUME Listen PROVE IInv'
  BY <1>3 DEF Listen, OpenPort, Prepare
<1>4. ASSUME NewDiscoveryRegister PROVE IInv'
  BY <1>4 DEF NewDiscoveryRegister, Prepare
<1>5. ASSUME RpcFn PROVE IInv'
  BY <1>5 DEF RpcFn
<1>6. ASSUME Register PROVE IInv'
  BY <1>6 DEF Register
<1>7. ASSUME Spawn PROVE IInv'
  BY <1>7 DEF Spawn, Spawned
<1>8. ASSUME Notify PROVE IInv'
  BY <1>8 DEF Notify
<1> QED
  BY <1>1, <1>2, <1>3, <1>4, <1>5, <1>6, <1>7, <1>8

\* So do its steps from the select on.
LEMMA SelectStep ==
    ASSUME IInv,
           \/ TakeSigterm \/ Stopped \/ StopTimeout \/ Shutdown \/ ShutdownNil
           \/ Receive \/ CloseReturn \/ DeferredStop \/ Exit
    PROVE  IInv'
<1>1. ASSUME TakeSigterm PROVE IInv'
  BY <1>1 DEF TakeSigterm
<1>2. ASSUME Stopped PROVE IInv'
  BY <1>2 DEF Stopped
<1>3. ASSUME StopTimeout PROVE IInv'
  BY <1>3 DEF StopTimeout
<1>4. ASSUME Shutdown PROVE IInv'
  BY <1>4 DEF Shutdown
<1>5. ASSUME ShutdownNil PROVE IInv'
  BY <1>5 DEF ShutdownNil
<1>6. ASSUME Receive PROVE IInv'
  BY <1>6 DEF Receive
<1>7. ASSUME CloseReturn PROVE IInv'
  BY <1>7 DEF CloseReturn
<1>8. ASSUME DeferredStop PROVE IInv'
  BY <1>8 DEF DeferredStop, CloseListeners, ClosePort
<1>9. ASSUME Exit PROVE IInv'
  BY <1>9 DEF Exit, Drained, Status
<1> QED
  BY <1>1, <1>2, <1>3, <1>4, <1>5, <1>6, <1>7, <1>8, <1>9

\* So do the servers, in whichever order they serve, stop and fail.
LEMMA ServerStep ==
    ASSUME IInv, NEW p \in Servers, Server(p) \/ Fail(p)
    PROVE  IInv'
<1>1. ASSUME Accept(p) PROVE IInv'
  BY <1>1 DEF Accept
<1>2. ASSUME Return(p) PROVE IInv'
  BY <1>2 DEF Return
<1>3. ASSUME SetNetErr(p) PROVE IInv'
  BY <1>3 DEF SetNetErr, NetErr
<1>4. ASSUME Send(p) PROVE IInv'
  <2>1. CASE closed
    <3>1. p \in failed /\ pc[p] = "send" /\ pc' = [pc EXCEPT ![p] = "done"]
      BY <1>4 DEF Send
    <3>2. PICK q \in failed : pc[q] = "done"
      BY <2>1
    <3>3. failed = Servers
      BY <3>1, <3>2
    <3> QED
      BY <1>4, <2>1, <3>1, <3>3 DEF Send
  <2>2. CASE ~closed
    <3>1. p \in failed /\ pc' = [pc EXCEPT ![p] = "done"] /\ netErr # "nil"
      BY <1>4 DEF Send
    <3> QED
      BY <1>4, <2>2, <3>1 DEF Send
  <2> QED
    BY <2>1, <2>2
<1>5. ASSUME Fail(p) PROVE IInv'
  BY <1>5 DEF Fail, ClosePort
<1> QED
  BY <1>1, <1>2, <1>3, <1>4, <1>5 DEF Server

\* So do the signal, the stop of the gRPC server, the clients and their RPCs.
LEMMA OtherStep ==
    ASSUME IInv,
           \/ Sigterm \/ GracefulStop \/ MakeHttpServer
           \/ Connect \/ AcceptConn \/ Begin \/ End
    PROVE  IInv'
<1>1. ASSUME Sigterm PROVE IInv'
  BY <1>1 DEF Sigterm
<1>2. ASSUME GracefulStop PROVE IInv'
  <2>1. ASSUME Goto("stop", "start", "draining"), stopping' = TRUE, CloseListeners,
               UNCHANGED <<unread, channel, httpServer, rpcs, given, outcome>>
        PROVE  IInv'
    <3>1. port' \in {"closed", "open"} /\ listed' = listed
          /\ (pc["rpc"] = "off" => port' = port /\ conn' = conn)
          /\ conn' \in {conn, "none"}
      BY <2>1 DEF CloseListeners, ClosePort
    <3> QED
      BY <2>1, <3>1
  <2>2. ASSUME Goto("stop", "draining", "done"),
               UNCHANGED <<unread, channel, server, net, given, outcome>>
        PROVE  IInv'
    BY <2>2
  <2> QED
    BY <1>2, <2>1, <2>2 DEF GracefulStop
<1>3. ASSUME MakeHttpServer PROVE IInv'
  BY <1>3 DEF MakeHttpServer
<1>4. ASSUME Connect PROVE IInv'
  BY <1>4 DEF Connect
<1>5. ASSUME AcceptConn PROVE IInv'
  BY <1>5 DEF AcceptConn
<1>6. ASSUME Begin PROVE IInv'
  BY <1>6, ConstantsOK DEF Begin
<1>7. ASSUME End PROVE IInv'
  BY <1>7, ConstantsOK DEF End
<1> QED
  BY <1>1, <1>2, <1>3, <1>4, <1>5, <1>6, <1>7

\* What is left alone stays in the invariant.
LEMMA Stutter == ASSUME IInv, UNCHANGED vars PROVE IInv'
  BY DEF vars

HIDE DEF IInv, TypeOK, ProcessType, ChannelType, ServerType, NetType, OutcomeType,
         StartInv, FailInv, ReturnInv, ReturnsDrained, ZeroMeansSigterm, ErrorNamesCulprit,
         OneFailureNoPanic, Servers, Starting, Cap, Goto, channel, server, net, given, outcome

\* A process of a service ends, fails and returns as the invariant has it, whatever the
\* order of its goroutines, its signal and its clients.
THEOREM Inductive == Spec => []IInv
<1>1. Init => IInv
  BY InitIInv
<1>2. IInv /\ [Next]_vars => IInv'
  BY StartStep, SelectStep, ServerStep, OtherStep, Stutter DEF Next, Main
<1> QED
  BY <1>1, <1>2, PTL DEF Spec

\* Every variable of a process keeps its type.
THEOREM TypeCorrect == Spec => []TypeOK
<1>1. IInv => TypeOK
  BY DEF IInv
<1> QED
  BY <1>1, Inductive, PTL

\* Start returns only when no RPC is in flight, also where gracefulStopWithCtx gave up:
\* its deferred GracefulStop has waited for them.
THEOREM Drains == Spec => []ReturnsDrained
<1>1. IInv => ReturnsDrained
  BY DEF IInv
<1> QED
  BY <1>1, Inductive, PTL

\* The status 0 is only for a process that was told to stop.
THEOREM ZeroIsSigterm == Spec => []ZeroMeansSigterm
<1>1. IInv => ZeroMeansSigterm
  BY DEF IInv
<1> QED
  BY <1>1, Inductive, PTL

\* netErr is set before netDone is sent to, and main reads it after that: the error
\* that Start returns is never nil or that of a server which did not fail.
THEOREM NamesCulprit == Spec => []ErrorNamesCulprit
<1>1. IInv => ErrorNamesCulprit
  BY DEF IInv, FailInv
<1> QED
  BY <1>1, Inductive, PTL

\* close(netDone) is a panic only for a second server that fails.
THEOREM NoPanic == Spec => []OneFailureNoPanic
<1>1. IInv => OneFailureNoPanic
  BY DEF IInv
<1> QED
  BY <1>1, Inductive, PTL

\* A client that finds the process in the registry finds its port open.
THEOREM ListedOpen == Spec => []ListedIsOpen
<1>1. IInv => ListedIsOpen
  BY DEF IInv, TypeOK, NetType, StartInv, ListedIsOpen
<1> QED
  BY <1>1, Inductive, PTL
=============================================================================
