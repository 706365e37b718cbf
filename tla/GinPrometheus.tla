--------------------------- MODULE GinPrometheus ---------------------------
(***************************************************************************)
(* ginprometheus.Prometheus in one process: the metrics it registers, the  *)
(* middleware that counts requests, one goroutine each, and the ticker     *)
(* that reads the metrics page and pushes it to a gateway.  (When the API  *)
(* puts the middleware into its router is a matter of ApiStart.)           *)
(***************************************************************************)
EXTENDS Naturals, Sequences, FiniteSets

CONSTANTS Requests,  \* the requests that meet the middleware
          Taken      \* metrics whose names something else has registered

Standard == {"reqCnt", "reqDur", "resSz", "reqSz"}
ApiCustomCnt == "custom_total"
GetGinCusMetrics == {ApiCustomCnt}    \* whatever name it is given
Untyped == "untyped"                  \* a metric of a caller that mistypes its Type
Custom == GetGinCusMetrics \cup {Untyped}

\* The lists that NewPrometheus may be given: none, that of the API, that of a
\* caller that is mistaken, or more than it takes.
Lists == {<<>>, <<GetGinCusMetrics>>, <<{Untyped}>>, <<GetGinCusMetrics, {}>>}

\* The Type of each metric.
Type == [reqCnt |-> "counter_vec", reqDur |-> "histogram_vec", resSz |-> "summary",
         reqSz |-> "summary", custom_total |-> "counter_vec", untyped |-> "other"]

ASSUME TakenOK == Taken \subseteq Standard \cup Custom /\ IsFiniteSet(Requests)

VARIABLES
    setup,       \* where the set-up is
    todo,        \* the metrics of MetricsList not registered yet
    registered,  \* the metrics the page shows
    own,         \* the page has a router of its own: SetListenAddress was used
    at,          \* at[r]: where request r is, or which metric observes it next
    count,       \* count[m]: how often metric m was observed
    push,        \* where the goroutine of the ticker is
    url,         \* PushGatewayURL: "good", or "bad" for http.NewRequest
    tick,        \* ticker.C, which holds one tick, and drops the others
    page,        \* what getMetrics has read of the page
    posts,       \* the POSTs the gateway has not taken yet
    gateway,     \* what the gateway shows
    alive

setting == <<setup, todo, registered, own>>
serving == <<at, count>>
pushing == <<push, url, tick, page, posts>>
vars == <<setting, serving, pushing, gateway, alive>>

Nothing == <<>>    \* a body the gateway makes nothing of

Init ==
    /\ setup = "new" /\ todo = {}
    /\ registered = {} /\ own = FALSE
    /\ at = [r \in Requests |-> "idle"]
    /\ count = [m \in Standard \cup Custom |-> 0]
    /\ push = "off" /\ url = "good" /\ tick = FALSE
    /\ page = Nothing /\ posts = {}
    /\ gateway = [m \in Standard \cup Custom |-> 0]
    /\ alive = TRUE

-----------------------------------------------------------------------------
(* Set-up *)

\* NewPrometheus: the list of the caller, if there is one, and the standard one.
NewPrometheus(lists) ==
    /\ alive /\ setup = "new"
    /\ setup' = "register"
    /\ IF Len(lists) > 1
          THEN alive' = FALSE /\ UNCHANGED todo
          ELSE /\ todo' = Standard \cup (IF lists = <<>> THEN {} ELSE lists[1])
               /\ UNCHANGED alive
    /\ UNCHANGED <<registered, own, serving, pushing, gateway>>

\* A collector of the type that is asked for, or nil.
NewMetric(m) ==
    IF Type[m] \in {"counter_vec", "counter", "gauge_vec", "gauge",
                    "histogram_vec", "histogram", "summary_vec", "summary"}
       THEN Type[m] ELSE "nil"

\* What registerMetrics asserts of the collectors of the middleware; a histogram has
\* the methods of a summary.
Asserted == [reqCnt |-> {"counter_vec"}, reqDur |-> {"histogram_vec"},
             resSz |-> {"summary", "histogram"}, reqSz |-> {"summary", "histogram"}]

\* A nil collector cannot be registered, and a false assertion panics.
Unfit(m) ==
    \/ NewMetric(m) = "nil"
    \/ m \in Standard /\ NewMetric(m) \notin Asserted[m]

\* registerMetrics: each metric gets a collector, which has observed nothing.  If its
\* name is taken that is printed, and the middleware counts with a collector that
\* no page shows.  (The order of the list is left open.)
RegisterMetric(m) ==
    /\ alive /\ setup = "register" /\ m \in todo
    /\ todo' = todo \ {m}
    /\ IF Unfit(m)
          THEN alive' = FALSE /\ UNCHANGED <<registered, count>>
          ELSE /\ registered' = IF m \in Taken THEN registered ELSE registered \cup {m}
               /\ count' = [count EXCEPT ![m] = 0]
               /\ UNCHANGED alive
    /\ UNCHANGED <<setup, own, at, pushing, gateway>>

SetListenAddress ==
    /\ alive /\ setup = "register" /\ todo = {}
    /\ setup' = "use"
    /\ own' \in BOOLEAN
    /\ UNCHANGED <<todo, registered, serving, pushing, gateway, alive>>

\* The middleware, then the route of the page: on its own router, or on the
\* engine behind the middleware.
Use ==
    /\ alive /\ setup = "use"
    /\ setup' = "used"
    /\ UNCHANGED <<todo, registered, own, serving, pushing, gateway, alive>>

\* A ticker that has no positive interval panics.
SetPushGateway(positive, target) ==
    /\ alive /\ setup \notin {"new", "register"} /\ push = "off"
    /\ url' = target
    /\ IF positive
          THEN push' = "wait" /\ UNCHANGED alive
          ELSE alive' = FALSE /\ UNCHANGED push
    /\ UNCHANGED <<setting, serving, tick, page, posts, gateway>>

-----------------------------------------------------------------------------
(* HandlerFunc *)

\* MUTANT of After: the requests are counted after their sizes.
AfterCountLate ==
    [next |-> "reqDur", reqDur |-> "reqSz", reqSz |-> "reqCnt", reqCnt |-> "resSz", resSz |-> "done"]

\* The order in which the middleware goes on once c.Next() has returned.
After ==
    [next |-> "reqDur", reqDur |-> "reqCnt", reqCnt |-> "reqSz", reqSz |-> "resSz", resSz |-> "done"]

Begin(r) ==
    /\ alive /\ setup = "used" /\ at[r] = "idle"
    /\ at' = [at EXCEPT ![r] = "next"]
    /\ UNCHANGED <<setting, count, pushing, gateway, alive>>

\* c.Next() returns, and the url label is looked up.
Return(r) ==
    /\ alive /\ at[r] = "next"
    /\ at' = [at EXCEPT ![r] = After["next"]]
    /\ UNCHANGED <<setting, count, pushing, gateway, alive>>

Observe(r) ==
    /\ alive /\ at[r] \in Standard
    /\ count' = [count EXCEPT ![at[r]] = @ + 1]
    /\ at' = [at EXCEPT ![r] = After[at[r]]]
    /\ UNCHANGED <<setting, pushing, gateway, alive>>

\* A handler panics, or the label is no string, or WithLabelValues refuses one:
\* gin.Recovery, before the middleware in the chain, answers the request.
Panic(r) ==
    /\ alive /\ at[r] \in {"next", "reqDur", "reqCnt"}
    /\ at' = [at EXCEPT ![r] = "panicked"]
    /\ UNCHANGED <<setting, count, pushing, gateway, alive>>

-----------------------------------------------------------------------------
(* The ticker *)

Tick ==
    /\ alive /\ push # "off" /\ ~tick
    /\ tick' = TRUE
    /\ UNCHANGED <<setting, serving, push, url, page, posts, gateway, alive>>

\* MUTANT of Passed: the page is not exempt from the middleware.
PassedCounted ==
    count' = IF own THEN count
             ELSE [m \in DOMAIN count |-> IF m \in Standard THEN count[m] + 1 ELSE count[m]]

\* A request for MetricsPath passes the middleware uncounted.
Passed == UNCHANGED count

\* for range ticker.C: getMetrics.  On the engine its request passes the
\* middleware.  The page has no route before Use.  A request that fails makes a
\* nil body, and why a read ended early is not looked at: both bodies are posted.
GetMetrics ==
    /\ alive /\ push = "wait" /\ tick
    /\ tick' = FALSE /\ page' = Nothing
    /\ \/ setup = "used" /\ Passed /\ push' = "read"
       \/ push' = "post" /\ UNCHANGED count
    /\ UNCHANGED <<setting, at, url, posts, gateway, alive>>

\* prometheusHandler shows what the registry holds, not what MetricsList does.
Shown == registered

\* promhttp collects the metrics one by one, while the middleware goes on.
Collect(m) ==
    /\ alive /\ push = "read" /\ m \in Shown \ DOMAIN page
    /\ page' = [k \in DOMAIN page \cup {m} |-> IF k = m THEN count[m] ELSE page[k]]
    /\ UNCHANGED <<setting, serving, push, url, tick, posts, gateway, alive>>

Read ==
    /\ alive /\ push = "read" /\ DOMAIN page = Shown
    /\ push' = "post"
    /\ UNCHANGED <<setting, serving, url, tick, page, posts, gateway, alive>>

\* MUTANT of Sent: the POST runs in a goroutine of its own.
SentAside == push' = "wait" /\ posts' = posts \cup {page}

\* client.Do waits for the answer, however long it takes.
Sent == push' = "reply" /\ posts' = posts \cup {page}

SendMetricsToPushGateway ==
    /\ alive /\ push = "post"
    /\ IF url = "bad" THEN push' = "wait" /\ UNCHANGED posts ELSE Sent
    /\ UNCHANGED <<setting, serving, url, tick, page, gateway, alive>>

\* The gateway replaces the metrics it is sent.  It makes
\* nothing of a body that is nil or was cut.
Take(body) ==
    /\ posts' = posts \ {body}
    /\ gateway' = [m \in DOMAIN gateway |-> IF m \in DOMAIN body THEN body[m] ELSE gateway[m]]
    /\ UNCHANGED <<setting, serving, push, url, tick, page, alive>>

\* MUTANT of Replied: a page that could not be read ends the loop.
RepliedOnce == IF page = Nothing THEN "off" ELSE "wait"

\* Whatever the answer was, the loop goes on.
Replied == "wait"

Reply ==
    /\ alive /\ push = "reply" /\ posts = {}
    /\ push' = Replied
    /\ UNCHANGED <<setting, serving, url, tick, page, posts, gateway, alive>>

\* No answer: the error is printed, and resp, which is nil, is used all the same.
NoReply ==
    /\ alive /\ push = "reply"
    /\ alive' = FALSE
    /\ UNCHANGED <<setting, serving, pushing, gateway>>

Next ==
    \/ \E lists \in Lists : NewPrometheus(lists)
    \/ \E m \in Standard \cup Custom : RegisterMetric(m) \/ Collect(m)
    \/ SetListenAddress \/ Use
    \/ \E positive \in BOOLEAN, target \in {"good", "bad"} : SetPushGateway(positive, target)
    \/ \E r \in Requests : Begin(r) \/ Return(r) \/ Observe(r) \/ Panic(r)
    \/ Tick \/ GetMetrics \/ Read \/ SendMetricsToPushGateway
    \/ \E body \in posts : Take(body)
    \/ Reply \/ NoReply

Spec == Init /\ [][Next]_vars

\* The set-up, the goroutine of the ticker and the gateway go on, and of many
\* reads of the page some succeed.
Served == setup = "used" /\ GetMetrics /\ push' = "read"

Fairness ==
    /\ \A m \in Standard \cup Custom : WF_vars(RegisterMetric(m)) /\ WF_vars(Collect(m))
    /\ WF_vars(SetListenAddress) /\ WF_vars(Use)
    /\ WF_vars(Tick) /\ WF_vars(GetMetrics) /\ SF_vars(Served) /\ WF_vars(Read)
    /\ WF_vars(SendMetricsToPushGateway) /\ WF_vars(\E body \in posts : Take(body))
    /\ WF_vars(Reply)

LiveSpec == Spec /\ Fairness

-----------------------------------------------------------------------------
(* Properties *)

IsPage(body) == DOMAIN body \subseteq registered /\ \A m \in DOMAIN body : body[m] \in Nat

\* Every variable holds a value of its type.
TypeOK ==
    /\ setup \in {"new", "register", "use", "used"}
    /\ todo \subseteq Standard \cup Custom
    /\ registered \subseteq Standard \cup Custom
    /\ own \in BOOLEAN
    /\ at \in [Requests -> {"idle", "next", "done", "panicked"} \cup Standard]
    /\ count \in [Standard \cup Custom -> Nat]
    /\ push \in {"off", "wait", "read", "post", "reply"}
    /\ url \in {"good", "bad"}
    /\ tick \in BOOLEAN
    /\ IsPage(page) /\ \A body \in posts : IsPage(body)
    /\ gateway \in [Standard \cup Custom -> Nat]
    /\ alive \in BOOLEAN

Counted(r) == at[r] \notin {"idle", "next"}

\* The metrics agree with one another however requests interleave and panic: a
\* request is counted with its duration and both its sizes, in the order of the
\* code, and only a request that has run is.  That leaves out the requests for
\* the page, which the ticker makes itself.
MetricsAgree ==
    /\ count["reqDur"] <= Cardinality({r \in Requests : Counted(r)})
    /\ count["reqDur"] >= count["reqCnt"]
    /\ count["reqCnt"] >= count["reqSz"] /\ count["reqSz"] >= count["resSz"]
    /\ (\A r \in Requests : at[r] \notin Standard) => count["reqCnt"] = count["resSz"]

\* A counter on the gateway never goes back: pages are pushed in the order they
\* were read, though each is read piecemeal while requests go on.
GatewayNeverGoesBack ==
    [][\A m \in Standard \cup Custom : gateway'[m] >= gateway[m]]_vars

\* What is counted reaches the gateway, after any number of failed reads, unless
\* a POST without an answer has ended the process.
PushCatchesUp ==
    \A m \in Standard \ Taken, n \in 1..Cardinality(Requests) :
        count[m] >= n /\ push # "off" /\ url = "good" ~> gateway[m] >= n \/ ~alive

\* The inductive invariant behind the properties above.  A metric was observed by the
\* requests that have left it behind; some of those that panicked have left the first.
Behind == [reqDur |-> {"reqCnt", "reqSz", "resSz", "done"}, reqCnt |-> {"reqSz", "resSz", "done"},
           reqSz |-> {"resSz", "done"}, resSz |-> {"done"}]

In(places) == {r \in Requests : at[r] \in places}

CountInv ==
    /\ \A m \in Standard \ {"reqDur"} : count[m] = Cardinality(In(Behind[m]))
    /\ count["reqDur"] >= Cardinality(In(Behind["reqDur"]))
    /\ count["reqDur"] <= Cardinality(In(Behind["reqDur"] \cup {"panicked"}))
    /\ setup # "used" => \A r \in Requests : at[r] = "idle"

\* Only the page read last is on its way.  It is no older than what the gateway shows.
PushInv ==
    /\ setup \in {"new", "register"} => push = "off" /\ \A m \in Standard \cup Custom : gateway[m] = 0
    /\ push = "off" => page = Nothing
    /\ posts \subseteq {page} /\ (posts # {} => push = "reply")
    /\ \A m \in DOMAIN page : gateway[m] <= page[m] /\ page[m] <= count[m]
    /\ \A m \in Standard \cup Custom : gateway[m] <= count[m]

IInv == TypeOK /\ CountInv /\ PushInv
=============================================================================
