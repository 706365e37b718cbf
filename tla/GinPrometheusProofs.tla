-------------------------- MODULE GinPrometheusProofs --------------------------
(***************************************************************************)
(* Theorems of GinPrometheus, for any finite number of requests and any    *)
(* metrics whose names are taken: what the middleware counts, and what the *)
(* gateway shows of it.                                                    *)
(***************************************************************************)
EXTENDS GinPrometheus, FiniteSetTheorems, TLAPS

Metrics == Standard \cup Custom
Places == {"idle", "next", "done", "panicked"} \cup Standard

\* The standard metrics, which the middleware observes one by one.
LEMMA StandardAre ==
    /\ "reqCnt" \in Standard /\ "reqDur" \in Standard
    /\ "resSz" \in Standard /\ "reqSz" \in Standard
    /\ Standard \subseteq Metrics
    /\ \A m \in Standard : m \in {"reqCnt", "reqDur", "resSz", "reqSz"} /\ m \in Places
    /\ "idle" \in Places /\ "next" \in Places /\ "done" \in Places /\ "panicked" \in Places
    /\ \A m \in Standard : m \notin {"idle", "next", "done", "panicked"}
  BY DEF Standard, Metrics, Places

\* Nothing is a page that shows no metric.
LEMMA NothingShown == DOMAIN Nothing = {} /\ IsPage(Nothing)
<1>1. DOMAIN Nothing = {}
  BY DEF Nothing
<1> QED
  BY <1>1 DEF IsPage

\* The process starts with nothing registered, counted or pushed.
LEMMA InitIInv == ASSUME Init PROVE IInv
<1>1. /\ setup = "new" /\ todo = {} /\ registered = {} /\ own = FALSE
      /\ at = [r \in Requests |-> "idle"] /\ count = [m \in Metrics |-> 0]
      /\ push = "off" /\ url = "good" /\ tick = FALSE /\ page = Nothing /\ posts = {}
      /\ gateway = [m \in Metrics |-> 0] /\ alive = TRUE
  BY DEF Init, Metrics
<1>2. TypeOK
  <2>1. own \in BOOLEAN /\ tick \in BOOLEAN /\ alive \in BOOLEAN
    BY <1>1
  <2>2. at \in [Requests -> Places] /\ count \in [Metrics -> Nat] /\ gateway \in [Metrics -> Nat]
    BY <1>1, StandardAre
  <2> QED
    BY <1>1, <2>1, <2>2, NothingShown DEF TypeOK, Metrics, Places
<1>3. CountInv
  <2>1. ASSUME NEW places, "idle" \notin places PROVE In(places) = {}
    BY <1>1, <2>1 DEF In
  <2>2. /\ \A m \in Standard : In(Behind[m]) = {}
        /\ In(Behind["reqDur"] \cup {"panicked"}) = {}
    BY <2>1, StandardAre DEF Behind
  <2> QED
    <3>1. Cardinality({}) = 0
      BY FS_EmptySet
    <3>2. \A m \in Standard : count[m] = 0
      BY <1>1, StandardAre
    <3>3. \A m \in Standard : Cardinality(In(Behind[m])) = 0
      BY <2>2, <3>1
    <3>4. Cardinality(In(Behind["reqDur"] \cup {"panicked"})) = 0
      BY <2>2, <3>1
    <3>5. setup # "used" => \A r \in Requests : at[r] = "idle"
      BY <1>1
    <3> QED
      BY <3>2, <3>3, <3>4, <3>5, StandardAre DEF CountInv
<1>4. PushInv
  BY <1>1, NothingShown DEF PushInv, Metrics
<1> QED
  BY <1>2, <1>3, <1>4 DEF IInv

\* The middleware leaves one metric behind with each observation.
LEMMA BehindAfter ==
    ASSUME NEW m \in Standard
    PROVE  /\ After[m] \in Places /\ After[m] \notin {"idle", "next", "panicked"}
           /\ After[m] \in Behind[m] /\ m \notin Behind[m]
           /\ \A k \in Standard : k # m => (After[m] \in Behind[k] <=> m \in Behind[k])
  BY DEF Standard, Places, After, Behind

\* Who has run is behind the first metric, or panicked.
LEMMA BehindPlaces ==
    ASSUME NEW m \in Standard
    PROVE  /\ "idle" \notin Behind[m] /\ "next" \notin Behind[m] /\ "panicked" \notin Behind[m]
           /\ "reqDur" \notin Behind[m] /\ (m # "reqDur" => "reqCnt" \notin Behind[m])
           /\ Behind["resSz"] \subseteq Behind["reqSz"]
           /\ Behind["reqSz"] \subseteq Behind["reqCnt"]
           /\ Behind["reqCnt"] \subseteq Behind["reqDur"]
  BY DEF Standard, Behind

\* The requests that are anywhere can be counted.
LEMMA InFinite ==
    /\ \A places : IsFiniteSet(In(places)) /\ Cardinality(In(places)) \in Nat
    /\ \A places : IsFiniteSet(In(places)') /\ Cardinality(In(places)') \in Nat
<1>1. \A S : S \subseteq Requests => IsFiniteSet(S) /\ Cardinality(S) \in Nat
  BY TakenOK, FS_Subset, FS_CardinalityType
<1>2. \A places : In(places) \subseteq Requests /\ In(places)' \subseteq Requests
  BY DEF In
<1> QED
  BY <1>1, <1>2

\* The metrics of a list that NewPrometheus takes are known.
LEMMA ListedAre ==
    ASSUME NEW lists \in Lists, lists # <<>>
    PROVE  lists[1] \subseteq Custom
  BY DEF Lists, Custom

\* The variables keep their types.
LEMMA TypeStep == TypeOK /\ [Next]_vars => TypeOK'
<1> SUFFICES ASSUME TypeOK, [Next]_vars PROVE TypeOK'
  OBVIOUS
<1> USE DEF TypeOK, setting, serving, pushing
<1>1. ASSUME UNCHANGED <<page, posts>>, registered \subseteq registered'
      PROVE  IsPage(page)' /\ \A body \in posts' : IsPage(body)'
  BY <1>1 DEF IsPage
<1>2. ASSUME NEW m \in Metrics, RegisterMetric(m) PROVE TypeOK'
  <2>1. /\ UNCHANGED <<setup, own, at, push, url, tick, page, posts, gateway>>
        /\ todo' \subseteq todo /\ alive' \in BOOLEAN
    BY <1>2 DEF RegisterMetric
  <2>2. /\ registered' \subseteq Standard \cup Custom /\ registered \subseteq registered'
        /\ count' \in [Standard \cup Custom -> Nat]
    <3>1. CASE Unfit(m)
      BY <1>2, <3>1 DEF RegisterMetric
    <3>2. CASE ~Unfit(m)
      <4>1. /\ registered' = IF m \in Taken THEN registered ELSE registered \cup {m}
            /\ count' = [count EXCEPT ![m] = 0]
        BY <1>2, <3>2 DEF RegisterMetric
      <4> QED
        BY <4>1 DEF Metrics
    <3> QED
      BY <3>1, <3>2
  <2> QED
    BY <1>1, <2>1, <2>2
<1>3. ASSUME NEW m \in Metrics, Collect(m) PROVE TypeOK'
  <2>1. /\ m \in registered /\ UNCHANGED <<registered, posts, count>>
        /\ page' = [k \in DOMAIN page \cup {m} |-> IF k = m THEN count[m] ELSE page[k]]
    BY <1>3 DEF Collect, Shown
  <2>2. IsPage(page') /\ count[m] \in Nat
    BY <2>1 DEF IsPage, Metrics
  <2>3. IsPage(page)' /\ \A body \in posts' : IsPage(body)'
    BY <2>1, <2>2 DEF IsPage
  <2> QED
    BY <1>3, <2>3 DEF Collect
<1>4. ASSUME SetListenAddress \/ Use PROVE TypeOK'
  BY <1>1, <1>4 DEF SetListenAddress, Use
<1>5. ASSUME NEW positive \in BOOLEAN, NEW target \in {"good", "bad"},
             SetPushGateway(positive, target)
      PROVE  TypeOK'
  BY <1>1, <1>5 DEF SetPushGateway
<1>6. ASSUME NEW r \in Requests, Begin(r) \/ Return(r) \/ Panic(r) PROVE TypeOK'
  <2>1. at' \in [Requests -> Places]
    BY <1>6, StandardAre DEF Begin, Return, Panic, After, Places
  <2> QED
    BY <1>1, <1>6, <2>1 DEF Begin, Return, Panic, Places
<1>7. ASSUME NEW r \in Requests, Observe(r) PROVE TypeOK'
  <2>1. at' \in [Requests -> Places]
    BY <1>7, BehindAfter DEF Observe, Places
  <2>2. count' \in [Standard \cup Custom -> Nat]
    BY <1>7 DEF Observe
  <2> QED
    BY <1>1, <1>7, <2>1, <2>2 DEF Observe, Places
<1>8. ASSUME Tick \/ Read \/ Reply \/ NoReply PROVE TypeOK'
  BY <1>1, <1>8 DEF Tick, Read, Reply, NoReply, Replied
<1>9. ASSUME GetMetrics PROVE TypeOK'
  <2>1. IsPage(page)' /\ \A body \in posts' : IsPage(body)'
    BY <1>9, NothingShown DEF GetMetrics, Passed, IsPage
  <2> QED
    BY <1>9, <2>1 DEF GetMetrics, Passed
<1>10. ASSUME SendMetricsToPushGateway PROVE TypeOK'
  <2>1. IsPage(page)' /\ \A body \in posts' : IsPage(body)'
    BY <1>10 DEF SendMetricsToPushGateway, Sent, IsPage
  <2> QED
    BY <1>10, <2>1 DEF SendMetricsToPushGateway, Sent
<1>11. ASSUME NEW body \in posts, Take(body) PROVE TypeOK'
  <2>1. \A m \in DOMAIN body : body[m] \in Nat
    BY DEF IsPage
  <2>2. gateway' \in [Standard \cup Custom -> Nat]
    BY <1>11, <2>1 DEF Take
  <2>3. IsPage(page)' /\ \A other \in posts' : IsPage(other)'
    BY <1>11 DEF Take, IsPage
  <2> QED
    BY <1>11, <2>2, <2>3 DEF Take
<1>12. CASE UNCHANGED vars
  BY <1>1, <1>12 DEF vars
<1>13. ASSUME NEW lists \in Lists, NewPrometheus(lists) PROVE TypeOK'
  <2>1. todo' \subseteq Standard \cup Custom
    BY <1>13, ListedAre DEF NewPrometheus
  <2> QED
    BY <1>1, <1>13, <2>1 DEF NewPrometheus
<1> QED
  BY <1>2, <1>3, <1>4, <1>5, <1>6, <1>7, <1>8, <1>9, <1>10, <1>11, <1>12, <1>13 DEF Next, Metrics

\* An observation counts the request that leaves the metric behind, once.
LEMMA ObserveCounts ==
    ASSUME TypeOK, CountInv, NEW r \in Requests, Observe(r)
    PROVE  CountInv'
<1> DEFINE m == at[r]
<1>1. /\ at' = [at EXCEPT ![r] = After[m]] /\ m \in Standard
      /\ count' = [count EXCEPT ![m] = @ + 1] /\ setup' = setup
  BY DEF Observe, setting
<1>2. /\ at \in [Requests -> Places] /\ count \in [Metrics -> Nat]
  BY DEF TypeOK, Places, Metrics
<1>3. /\ After[m] \notin {"idle", "panicked"} /\ m # "panicked" /\ m # "idle"
      /\ After[m] \in Behind[m] /\ m \notin Behind[m]
      /\ \A k \in Standard : k # m => (After[m] \in Behind[k] <=> m \in Behind[k])
  BY <1>1, BehindAfter, StandardAre
<1> HIDE DEF m
<1>4. ASSUME NEW S, After[m] \in S, m \notin S
      PROVE  Cardinality(In(S)') = Cardinality(In(S)) + 1
  <2>1. In(S)' = In(S) \cup {r} /\ r \notin In(S)
    BY <1>1, <1>2, <1>4 DEF In, m
  <2> QED
    BY <2>1, InFinite, FS_AddElement
<1>5. ASSUME NEW S, After[m] \in S <=> m \in S
      PROVE  Cardinality(In(S)') = Cardinality(In(S))
  <2>1. In(S)' = In(S)
    BY <1>1, <1>2, <1>5 DEF In, m
  <2> QED
    BY <2>1
<1>6. ASSUME NEW k \in Standard \ {"reqDur"}
      PROVE  count'[k] = Cardinality(In(Behind[k]))'
  <2>1. count[k] = Cardinality(In(Behind[k]))
    BY DEF CountInv
  <2>2. count'[k] = IF k = m THEN count[k] + 1 ELSE count[k]
    BY <1>1, <1>2, StandardAre
  <2> QED
    BY <1>3, <1>4, <1>5, <2>1, <2>2
<1>7. /\ count'["reqDur"] >= Cardinality(In(Behind["reqDur"]))'
      /\ count'["reqDur"] <= Cardinality(In(Behind["reqDur"] \cup {"panicked"}))'
  <2> DEFINE A == Behind["reqDur"]
             B == Behind["reqDur"] \cup {"panicked"}
  <2>1. count["reqDur"] >= Cardinality(In(A)) /\ count["reqDur"] <= Cardinality(In(B))
    BY DEF CountInv
  <2>2. count'["reqDur"] = IF m = "reqDur" THEN count["reqDur"] + 1 ELSE count["reqDur"]
    BY <1>1, <1>2, StandardAre
  <2>3. /\ count["reqDur"] \in Nat /\ Cardinality(In(A)) \in Nat /\ Cardinality(In(B)) \in Nat
    BY <1>2, InFinite, StandardAre
  <2>4. CASE m = "reqDur"
    <3>1. After[m] \in A /\ m \notin A /\ After[m] \in B /\ m \notin B
      BY <1>3, <2>4
    <3>2. /\ Cardinality(In(A)') = Cardinality(In(A)) + 1
          /\ Cardinality(In(B)') = Cardinality(In(B)) + 1
      BY <1>4, <3>1
    <3> QED
      BY <2>1, <2>2, <2>3, <2>4, <3>2
  <2>5. CASE m # "reqDur"
    <3>1. (After[m] \in A <=> m \in A) /\ (After[m] \in B <=> m \in B)
      BY <1>3, <2>5, StandardAre
    <3>2. Cardinality(In(A)') = Cardinality(In(A)) /\ Cardinality(In(B)') = Cardinality(In(B))
      BY <1>5, <3>1
    <3> QED
      BY <2>1, <2>2, <2>5, <3>2
  <2> QED
    BY <2>4, <2>5
<1>8. setup' # "used" => \A q \in Requests : at'[q] = "idle"
  BY <1>1, <1>2, <1>3 DEF CountInv, m
<1> QED
  BY <1>6, <1>7, <1>8 DEF CountInv

\* What is left alone agrees.
LEMMA StillCounts ==
    ASSUME CountInv, UNCHANGED at, \A m \in Standard : count'[m] = count[m],
           setup' # "used" => setup # "used"
    PROVE  CountInv'
<1>1. \A places : In(places)' = In(places)
  BY DEF In
<1> QED
  BY <1>1, StandardAre DEF CountInv

\* The counts of the metrics agree with where the requests are.
LEMMA CountStep == TypeOK /\ CountInv /\ [Next]_vars => CountInv'
<1> SUFFICES ASSUME TypeOK, CountInv, [Next]_vars PROVE CountInv'
  OBVIOUS
<1> USE DEF setting, serving, pushing
<1>1. /\ at \in [Requests -> Places] /\ count \in [Metrics -> Nat]
  BY DEF TypeOK, Places, Metrics
<1>2. ASSUME NEW m \in Metrics, RegisterMetric(m) PROVE CountInv'
  <2>1. \A r \in Requests : at[r] = "idle"
    BY <1>2 DEF RegisterMetric, CountInv
  <2>2. \A k \in Standard : In(Behind[k]) = {} /\ In(Behind[k] \cup {"panicked"}) = {}
    BY <2>1, BehindPlaces DEF In
  <2>3. \A k \in Standard : count[k] = 0
    <3>1. Cardinality({}) = 0
      BY FS_EmptySet
    <3>2. \A k \in Standard \ {"reqDur"} : count[k] = 0
      BY <2>2, <3>1 DEF CountInv
    <3>3. count["reqDur"] >= 0 /\ count["reqDur"] <= 0 /\ count["reqDur"] \in Nat
      BY <1>1, <2>2, <3>1, StandardAre DEF CountInv
    <3> QED
      BY <3>2, <3>3
  <2>4. \A k \in Standard : count'[k] = count[k]
    BY <1>1, <1>2, <2>3, StandardAre DEF RegisterMetric
  <2> QED
    BY <1>2, <2>4, StillCounts DEF RegisterMetric
<1>3. ASSUME NEW r \in Requests, Begin(r) \/ Return(r) PROVE CountInv'
  <2>1. /\ setup = "used" /\ setup' = setup /\ count' = count
        /\ at[r] \in {"idle", "next"} /\ at' = [at EXCEPT ![r] = at'[r]]
        /\ at'[r] \in {"next", "reqDur"}
    BY <1>1, <1>3 DEF Begin, Return, After, CountInv
  <2>2. \A k \in Standard : /\ In(Behind[k])' = In(Behind[k])
                             /\ In(Behind[k] \cup {"panicked"})' = In(Behind[k] \cup {"panicked"})
    BY <1>1, <2>1, BehindPlaces DEF In
  <2> QED
    BY <2>1, <2>2, StandardAre DEF CountInv
<1>4. ASSUME NEW r \in Requests, Panic(r) PROVE CountInv'
  <2>1. /\ setup' = setup /\ count' = count /\ setup = "used"
        /\ at[r] \in {"next", "reqDur", "reqCnt"} /\ at' = [at EXCEPT ![r] = "panicked"]
    BY <1>1, <1>4 DEF Panic, CountInv
  <2>2. \A k \in Standard \ {"reqDur"} : In(Behind[k])' = In(Behind[k])
    BY <1>1, <2>1, BehindPlaces DEF In
  <2>3. /\ In(Behind["reqDur"])' \subseteq In(Behind["reqDur"])
        /\ In(Behind["reqDur"] \cup {"panicked"}) \subseteq In(Behind["reqDur"] \cup {"panicked"})'
    BY <1>1, <2>1, BehindPlaces, StandardAre DEF In
  <2>4. /\ Cardinality(In(Behind["reqDur"])') <= Cardinality(In(Behind["reqDur"]))
        /\ Cardinality(In(Behind["reqDur"] \cup {"panicked"}))
              <= Cardinality(In(Behind["reqDur"] \cup {"panicked"})')
    BY <2>3, InFinite, FS_Subset
  <2>5. /\ count["reqDur"] \in Nat
        /\ count["reqDur"] >= Cardinality(In(Behind["reqDur"]))
        /\ count["reqDur"] <= Cardinality(In(Behind["reqDur"] \cup {"panicked"}))
    BY <1>1, StandardAre DEF CountInv
  <2>6. /\ count'["reqDur"] >= Cardinality(In(Behind["reqDur"])')
        /\ count'["reqDur"] <= Cardinality(In(Behind["reqDur"] \cup {"panicked"})')
    BY <2>1, <2>4, <2>5, InFinite
  <2>7. \A k \in Standard \ {"reqDur"} : count'[k] = Cardinality(In(Behind[k])')
    BY <2>1, <2>2 DEF CountInv
  <2> QED
    BY <2>1, <2>6, <2>7 DEF CountInv
<1>5. ASSUME SetListenAddress \/ Use PROVE CountInv'
  <2>1. /\ UNCHANGED <<at, count>> /\ setup # "used"
    BY <1>5 DEF SetListenAddress, Use
  <2>2. \A places : In(places)' = In(places)
    BY <2>1 DEF In
  <2> QED
    BY <2>1, <2>2 DEF CountInv
<1>6. ASSUME NEW positive \in BOOLEAN, NEW target \in {"good", "bad"},
             SetPushGateway(positive, target)
      PROVE  CountInv'
  BY <1>6, StillCounts DEF SetPushGateway
<1>7. ASSUME NEW m \in Metrics, Collect(m) PROVE CountInv'
  BY <1>7, StillCounts DEF Collect
<1>8. ASSUME Tick \/ GetMetrics \/ Read \/ SendMetricsToPushGateway \/ Reply \/ NoReply
      PROVE  CountInv'
  BY <1>8, StillCounts
     DEF Tick, GetMetrics, Passed, Read, SendMetricsToPushGateway, Reply, NoReply
<1>9. ASSUME NEW body \in posts, Take(body) PROVE CountInv'
  BY <1>9, StillCounts DEF Take
<1>10. CASE UNCHANGED vars
  BY <1>10, StillCounts DEF vars
<1>11. ASSUME NEW lists \in Lists, NewPrometheus(lists) PROVE CountInv'
  BY <1>11, StillCounts DEF NewPrometheus
<1> QED
  BY <1>2, <1>3, <1>4, <1>5, <1>6, <1>7, <1>8, <1>9, <1>10, <1>11, ObserveCounts DEF Next, Metrics

\* A page is no older than the gateway when it is read, and the gateway no newer than
\* the counts.
LEMMA PushStep == TypeOK /\ CountInv /\ PushInv /\ [Next]_vars => PushInv'
<1> SUFFICES ASSUME TypeOK, CountInv, PushInv, [Next]_vars PROVE PushInv'
  OBVIOUS
<1> USE DEF setting, serving, pushing
<1>1. /\ count \in [Metrics -> Nat] /\ gateway \in [Metrics -> Nat]
      /\ DOMAIN page \subseteq Metrics /\ \A m \in DOMAIN page : page[m] \in Nat
  BY DEF TypeOK, IsPage, Metrics
<1>2. /\ \A m \in DOMAIN page : gateway[m] <= page[m] /\ page[m] <= count[m]
      /\ \A m \in Metrics : gateway[m] <= count[m]
  BY DEF PushInv, Metrics
<1>3. ASSUME NEW m \in Metrics, RegisterMetric(m) PROVE PushInv'
  <2>1. /\ page = Nothing /\ UNCHANGED <<setup, push, page, posts, gateway>>
        /\ \A k \in Metrics : gateway[k] = 0
    BY <1>3 DEF RegisterMetric, PushInv, Metrics
  <2>2. \A k \in Metrics : gateway[k] <= count'[k]
    <3>1. count' = count \/ count' = [count EXCEPT ![m] = 0]
      BY <1>3 DEF RegisterMetric
    <3>2. ASSUME NEW k \in Metrics PROVE count'[k] >= 0
      BY <1>1, <3>1
    <3> QED
      BY <2>1, <3>2
  <2>3. \A k \in DOMAIN page : FALSE
    BY <2>1, NothingShown
  <2> QED
    BY <2>1, <2>2, <2>3 DEF PushInv, Metrics
<1>4. ASSUME NEW m \in Metrics, Collect(m) PROVE PushInv'
  <2>1. /\ push = "read" /\ UNCHANGED <<setup, push, posts, gateway, count>>
        /\ page' = [k \in DOMAIN page \cup {m} |-> IF k = m THEN count[m] ELSE page[k]]
    BY <1>4 DEF Collect
  <2>2. posts = {} /\ setup \notin {"new", "register"}
    BY <2>1 DEF PushInv
  <2>3. \A k \in DOMAIN page' : gateway[k] <= page'[k] /\ page'[k] <= count[k]
    BY <1>1, <1>2, <2>1
  <2> QED
    BY <1>2, <2>1, <2>2, <2>3 DEF PushInv, Metrics
<1>5. ASSUME NEW r \in Requests, Observe(r) PROVE PushInv'
  <2>1. /\ UNCHANGED <<setup, push, page, posts, gateway>>
        /\ \A m \in Metrics : count'[m] \in Nat /\ count[m] <= count'[m]
    BY <1>1, <1>5 DEF Observe
  <2>2. /\ \A m \in DOMAIN page : page[m] <= count'[m]
        /\ \A m \in Metrics : gateway[m] <= count'[m]
    BY <1>1, <1>2, <2>1
  <2> QED
    BY <2>1, <2>2 DEF PushInv, Metrics
<1>6. ASSUME UNCHANGED <<setup, push, page, posts, gateway, count>> PROVE PushInv'
  BY <1>6 DEF PushInv
<1>7. ASSUME NEW r \in Requests, Begin(r) \/ Return(r) \/ Panic(r) PROVE PushInv'
  BY <1>6, <1>7 DEF Begin, Return, Panic
<1>8. ASSUME Tick \/ NoReply PROVE PushInv'
  BY <1>6, <1>8 DEF Tick, NoReply
<1>9. ASSUME SetListenAddress \/ Use PROVE PushInv'
  BY <1>9 DEF SetListenAddress, Use, PushInv
<1>10. ASSUME NEW positive \in BOOLEAN, NEW target \in {"good", "bad"},
              SetPushGateway(positive, target)
       PROVE  PushInv'
  BY <1>10 DEF SetPushGateway, PushInv
<1>11. ASSUME Read \/ Reply PROVE PushInv'
  BY <1>11 DEF Read, Reply, Replied, PushInv
<1>12. ASSUME GetMetrics PROVE PushInv'
  <2>1. /\ push = "wait" /\ push' \in {"read", "post"} /\ page' = Nothing
        /\ UNCHANGED <<setup, posts, gateway, count>>
    BY <1>12 DEF GetMetrics, Passed
  <2>2. posts = {} /\ setup \notin {"new", "register"}
    BY <2>1 DEF PushInv
  <2>3. DOMAIN page' = {}
    BY <2>1, NothingShown
  <2> QED
    BY <2>1, <2>2, <2>3 DEF PushInv
<1>13. ASSUME SendMetricsToPushGateway PROVE PushInv'
  <2>1. push = "post" /\ UNCHANGED <<setup, page, gateway, count>>
    BY <1>13 DEF SendMetricsToPushGateway
  <2>2. posts = {} /\ setup \notin {"new", "register"}
    BY <2>1 DEF PushInv
  <2>3. \/ push' = "wait" /\ posts' = {}
        \/ push' = "reply" /\ posts' = {page}
    BY <1>13, <2>2 DEF SendMetricsToPushGateway, Sent
  <2> QED
    BY <2>1, <2>2, <2>3 DEF PushInv
<1>14. ASSUME NEW body \in posts, Take(body) PROVE PushInv'
  <2>1. body = page /\ push = "reply" /\ setup \notin {"new", "register"}
    BY DEF PushInv
  <2>2. /\ posts' = posts \ {page} /\ UNCHANGED <<setup, push, page, count>>
        /\ gateway' = [m \in Metrics |-> IF m \in DOMAIN page THEN page[m] ELSE gateway[m]]
    BY <1>1, <1>14, <2>1 DEF Take
  <2>3. /\ \A m \in DOMAIN page : gateway'[m] <= page[m]
        /\ \A m \in Metrics : gateway'[m] <= count[m]
    BY <1>1, <1>2, <2>2
  <2> QED
    BY <1>2, <2>1, <2>2, <2>3 DEF PushInv, Metrics
<1>15. CASE UNCHANGED vars
  BY <1>6, <1>15 DEF vars
<1>16. ASSUME NEW lists \in Lists, NewPrometheus(lists) PROVE PushInv'
  BY <1>16 DEF NewPrometheus, PushInv
<1> QED
  BY <1>3, <1>4, <1>5, <1>7, <1>8, <1>9, <1>10, <1>11, <1>12, <1>13, <1>14, <1>15, <1>16
     DEF Next, Metrics

\* The gateway makes of a page only what is no older than what it shows.
LEMMA GatewayStep ==
    TypeOK /\ PushInv /\ [Next]_vars =>
        \A m \in Standard \cup Custom : gateway'[m] >= gateway[m]
<1> SUFFICES ASSUME TypeOK, PushInv, [Next]_vars, NEW m \in Standard \cup Custom
             PROVE  gateway'[m] >= gateway[m]
  OBVIOUS
<1>1. gateway \in [Standard \cup Custom -> Nat]
  BY DEF TypeOK
<1>2. CASE UNCHANGED gateway
  BY <1>1, <1>2
<1>3. ASSUME NEW body \in posts, Take(body) PROVE gateway'[m] >= gateway[m]
  <2>1. body = page
    BY DEF PushInv
  <2>2. gateway'[m] = IF m \in DOMAIN page THEN page[m] ELSE gateway[m]
    BY <1>1, <1>3, <2>1 DEF Take
  <2>3. m \in DOMAIN page => page[m] \in Nat /\ gateway[m] <= page[m]
    BY DEF TypeOK, IsPage, PushInv
  <2> QED
    BY <1>1, <2>2, <2>3
<1>4. CASE Next /\ \A body \in posts : ~Take(body)
  BY <1>2, <1>4
     DEF Next, NewPrometheus, RegisterMetric, Collect, SetListenAddress, Use, SetPushGateway,
     Begin, Return, Observe, Panic, Tick, GetMetrics, Read, SendMetricsToPushGateway, Reply, NoReply
<1> QED
  BY <1>2, <1>3, <1>4 DEF vars

\* Counts, pages and the gateway agree with the requests that have run, in whichever
\* order the middleware, the ticker and the gateway go on.
THEOREM Inductive == Spec => []IInv
<1>1. Init => IInv
  BY InitIInv
<1>2. IInv /\ [Next]_vars => IInv'
  BY TypeStep, CountStep, PushStep DEF IInv
<1> QED
  BY <1>1, <1>2, PTL DEF Spec

\* Every variable keeps its type; a page shows nothing that is not registered.
THEOREM TypeCorrect == Spec => []TypeOK
<1>1. IInv => TypeOK
  BY DEF IInv
<1> QED
  BY <1>1, Inductive, PTL

\* However requests interleave and panic, a request is counted with its duration and both
\* its sizes, and only one that has run is.
THEOREM Agree == Spec => []MetricsAgree
<1>1. IInv => MetricsAgree
  <2> SUFFICES ASSUME IInv PROVE MetricsAgree
    OBVIOUS
  <2> DEFINE In4 == In(Behind["reqDur"])
             In3 == In(Behind["reqCnt"])
             In2 == In(Behind["reqSz"])
             In1 == In(Behind["resSz"])
             Ran == {r \in Requests : Counted(r)}
  <2>1. /\ count["reqDur"] >= Cardinality(In4)
        /\ count["reqDur"] <= Cardinality(In(Behind["reqDur"] \cup {"panicked"}))
        /\ count["reqCnt"] = Cardinality(In3)
        /\ count["reqSz"] = Cardinality(In2)
        /\ count["resSz"] = Cardinality(In1)
    BY StandardAre DEF IInv, CountInv
  <2>2. /\ In1 \subseteq In2 /\ In2 \subseteq In3 /\ In3 \subseteq In4
    BY BehindPlaces, StandardAre DEF In
  <2>3. /\ Cardinality(In1) <= Cardinality(In2) /\ Cardinality(In2) <= Cardinality(In3)
        /\ Cardinality(In3) <= Cardinality(In4)
    BY <2>2, InFinite, FS_Subset
  <2>4. In(Behind["reqDur"] \cup {"panicked"}) \subseteq Ran
    BY BehindPlaces, StandardAre DEF In, Counted
  <2>5. IsFiniteSet(Ran) /\ Cardinality(Ran) \in Nat
    BY TakenOK, FS_Subset, FS_CardinalityType
  <2>6. Cardinality(In(Behind["reqDur"] \cup {"panicked"})) <= Cardinality(Ran)
    BY <2>4, <2>5, FS_Subset
  <2>7. count["reqDur"] \in Nat
    BY DEF IInv, TypeOK, Standard
  <2>8. ASSUME \A r \in Requests : at[r] \notin Standard
        PROVE  In3 = In1
    BY <2>8 DEF In, Behind, Standard
  <2>9. /\ count["reqDur"] <= Cardinality(Ran) /\ count["reqDur"] >= count["reqCnt"]
        /\ count["reqCnt"] >= count["reqSz"] /\ count["reqSz"] >= count["resSz"]
    BY <2>1, <2>3, <2>5, <2>6, <2>7, InFinite
  <2> QED
    BY <2>1, <2>8, <2>9 DEF MetricsAgree
<1> QED
  BY <1>1, Inductive, PTL

\* No page overtakes another on its way to the gateway, so no counter goes back there.
THEOREM NeverGoesBack == Spec => GatewayNeverGoesBack
<1>1. IInv /\ [Next]_vars => \A m \in Standard \cup Custom : gateway'[m] >= gateway[m]
  BY GatewayStep DEF IInv
<1> QED
  BY <1>1, Inductive, PTL DEF Spec, GatewayNeverGoesBack
=============================================================================
