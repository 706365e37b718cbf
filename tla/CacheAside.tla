----------------------------- MODULE CacheAside -----------------------------
(***************************************************************************)
(* getCache and batchGetCache: calls that read keys through the cache, on  *)
(* one or more processes.  In a process the calls for one key share what   *)
(* the first of them fetches; between processes the lock in Redis decides  *)
(* who reads the database.  A document is the number of times it was       *)
(* written: 0 while there is none.                                         *)
(***************************************************************************)
EXTENDS Naturals, Sequences

CONSTANTS Readers,  \* calls of batchGetCache (getCache: a list of one key)
          Hosts,    \* Hosts[r]: the processes where call r may run
          Keys,
          Lists     \* Lists[r]: the lists of keys it may ask for

VARIABLES
    cache,    \* see Rockscache
    db,       \* db[k]: the document of key k
    deleted,  \* deleted[k]: the document that k had when it was deleted from the
              \* cache for the last time (history)
    call      \* call[r]: where call r is

Redis == INSTANCE Rockscache

vars == <<cache, db, deleted, call>>

NoHost == "nowhere"

Stages == {"idle", "next", "joined", "get", "fn", "set", "missing", "error", "got", "done"}

\* stage; process; the keys left; the call whose fetch it shares; the document that was
\* read; "deleted" when the fetch began
NoCall(r) ==
    [stage |-> "idle", host |-> NoHost, keys |-> <<>>, lead |-> r, doc |-> 0, floor |-> 0]

Over(r) == [NoCall(r) EXCEPT !.stage = "done"]

Init ==
    /\ cache = [k \in Keys |-> Redis!Absent]
    /\ db = [k \in Keys |-> 0]
    /\ deleted = [k \in Keys |-> 0]
    /\ call = [r \in Readers |-> NoCall(r)]

Key(r) == Head(call[r].keys)

Fetching(r) == call[r].stage \in {"get", "fn", "set", "missing", "error"}

Goto(r, from, to) == call[r].stage = from /\ call' = [call EXCEPT ![r].stage = to]

-----------------------------------------------------------------------------
BatchGetCache(r, host, list) ==
    /\ call[r].stage = "idle"
    /\ call' = [call EXCEPT ![r] =
          IF list = <<>> THEN Over(r)
          ELSE [@ EXCEPT !.stage = "next", !.host = host, !.keys = list]]
    /\ UNCHANGED <<cache, db, deleted>>

\* The fetch of this key that runs in the process of r.
Running(r) == {q \in Readers : Fetching(q) /\ call[q].host = call[r].host /\ Key(q) = Key(r)}

\* getCache calls Fetch2, where a call joins the fetch that runs, or starts one.
Fetch2(r) ==
    /\ call[r].stage = "next"
    /\ \/ \E q \in Running(r) :
             call' = [call EXCEPT ![r].stage = "joined", ![r].lead = q]
       \/ /\ Running(r) = {}
          /\ call' = [call EXCEPT ![r].stage = "get", ![r].lead = r,
                                  ![r].floor = deleted[Key(r)]]
    /\ UNCHANGED <<cache, db, deleted>>

Sharing(r) == {q \in Readers : call[q].lead = r /\ (q = r \/ call[q].stage = "joined")}

\* All who share the fetch get the document, or that there is none (0).
Answer(r, doc) ==
    call' = [q \in Readers |->
                IF q \in Sharing(r)
                   THEN [call[q] EXCEPT !.stage = "got", !.lead = q, !.doc = doc,
                                        !.floor = call[r].floor]
                   ELSE call[q]]

\* MUTANT of Fail: those who wait for the fetch are forgotten.
FailAlone(r) == call' = [call EXCEPT ![r] = Over(r)]

\* Any other error is the answer to the whole list.
Fail(r) == call' = [q \in Readers |-> IF q \in Sharing(r) THEN Over(q) ELSE call[q]]

\* The loop goes on, with the document or, when there is none, without.
GotOne(r) ==
    /\ call[r].stage = "got"
    /\ call' = [call EXCEPT ![r] =
          IF Len(@.keys) = 1 THEN Over(r)
          ELSE [@ EXCEPT !.stage = "next", !.keys = Tail(call[r].keys), !.doc = 0, !.floor = 0]]
    /\ UNCHANGED <<cache, db, deleted>>

GetValue(r) ==
    /\ call[r].stage = "get" /\ Redis!Readable(Key(r))
    /\ Answer(r, cache[Key(r)].value)
    /\ UNCHANGED <<cache, db, deleted>>

GetLock(r) ==
    /\ Goto(r, "get", "fn")
    /\ Redis!Lock(Key(r), r)
    /\ UNCHANGED <<db, deleted>>

\* fn finds the document, or that there is none, or fails.
Fn(r) ==
    /\ call[r].stage = "fn"
    /\ \/ /\ db[Key(r)] # 0
          /\ call' = [call EXCEPT ![r].stage = "set", ![r].doc = db[Key(r)]]
       \/ db[Key(r)] = 0 /\ Goto(r, "fn", "missing")
       \/ Goto(r, "fn", "error")
    /\ UNCHANGED <<cache, db, deleted>>

\* The reader of the database keeps what it read, whether the cache took it or not.
SetValue(r) ==
    /\ call[r].stage = "set"
    /\ Redis!Set(Key(r), r, call[r].doc)
    /\ Answer(r, call[r].doc)
    /\ UNCHANGED <<db, deleted>>

\* An error of fn gives the lock back; "not found" leaves the key out of the list.
GiveUp(r) ==
    /\ \/ call[r].stage = "missing" /\ Answer(r, 0)
       \/ call[r].stage = "error" /\ Fail(r)
    /\ Redis!Unlock(Key(r), r) \/ UNCHANGED cache
    /\ UNCHANGED <<db, deleted>>

\* Redis fails, before or after it has run the script.
RedisFails(r) ==
    /\ \/ call[r].stage = "get" /\ (Redis!Lock(Key(r), r) \/ UNCHANGED cache)
       \/ call[r].stage = "set" /\ (Redis!Set(Key(r), r, call[r].doc) \/ UNCHANGED cache)
    /\ Fail(r)
    /\ UNCHANGED <<db, deleted>>

\* A process dies, and its locks are left behind.
Crash(host) ==
    /\ call' = [r \in Readers |-> IF call[r].host = host THEN Over(r) ELSE call[r]]
    /\ UNCHANGED <<cache, db, deleted>>

GetCache(r) ==
    Fetch2(r) \/ GetValue(r) \/ GetLock(r) \/ Fn(r) \/ SetValue(r) \/ GiveUp(r) \/ GotOne(r)

\* The caches' own time.
Age(k) ==
    /\ Redis!Lapse(k) \/ Redis!Expire(k)
    /\ UNCHANGED <<db, deleted, call>>

Next ==
    \/ \E r \in Readers :
          \/ \E host \in Hosts[r], list \in Lists[r] : BatchGetCache(r, host, list)
          \/ GetCache(r) \/ RedisFails(r)
    \/ \E host \in UNION {Hosts[r] : r \in Readers} : Crash(host)
    \/ \E k \in Keys : Age(k)

Lapsing(k) == Redis!Lapse(k) /\ UNCHANGED <<db, deleted, call>>
=============================================================================
