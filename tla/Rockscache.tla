----------------------------- MODULE Rockscache -----------------------------
(***************************************************************************)
(* The scripts that the rockscache client runs in Redis, each of them in   *)
(* one step: what the code that reads through the cache (CacheAside) and   *)
(* the code that deletes from it (BatchDeleter) share.  The library is not *)
(* part of the repository.                                                 *)
(***************************************************************************)
EXTENDS Naturals

CONSTANT Keys

\* cache[k]: the value (0 is none), the lock ("free" marks the value as deleted),
\* and the owner of the lock
VARIABLE cache

NoOwner == "nobody"

Absent == [value |-> 0, lock |-> "none", owner |-> NoOwner]

\* MUTANT of StrongConsistency: rockscache is left at its default.
WeakConsistency == FALSE

\* GetRocksCacheOptions: opts.StrongConsistency = true
StrongConsistency == TRUE

\* get returns a value, but with StrongConsistency none that is marked or locked.
Readable(k) == cache[k].value # 0 /\ (StrongConsistency => cache[k].lock = "none")

\* get takes the lock of a key without a value, or of one marked as deleted.  A
\* lock that another one holds is waited for.
Lock(k, o) ==
    /\ cache[k].lock = "free" \/ cache[k] = Absent
    /\ cache' = [cache EXCEPT ![k].lock = "held", ![k].owner = o]

\* The set and unlock scripts compare the owner.
Owns(k, o) == cache[k].owner = o

\* set and unlock do nothing for one who is not the owner any more.
Set(k, o, v) ==
    cache' = IF Owns(k, o) THEN [cache EXCEPT ![k] = [value |-> v, lock |-> "none", owner |-> NoOwner]] ELSE cache

Unlock(k, o) ==
    cache' = IF Owns(k, o) THEN [cache EXCEPT ![k].lock = "free", ![k].owner = NoOwner] ELSE cache

\* TagAsDeletedBatch2: the lock is free and has no owner.
Tag(S) ==
    cache' = [k \in Keys |->
                IF k \in S THEN [cache[k] EXCEPT !.lock = "free", !.owner = NoOwner] ELSE cache[k]]

\* The time of a lock runs out; it keeps the owner until another one takes it.
Lapse(k) ==
    /\ cache[k].lock = "held"
    /\ cache' = [cache EXCEPT ![k].lock = "free"]

\* Redis drops the key, when its time is over or for want of memory.
Expire(k) ==
    /\ cache[k] # Absent
    /\ cache' = [cache EXCEPT ![k] = Absent]
=============================================================================
