---------------------------- MODULE CachedStore ----------------------------
(***************************************************************************)
(* The caches at work: calls that read documents through the cache         *)
(* (CacheAside), deleters that delete cached documents (BatchDeleter), and *)
(* writers of the database, who meet in Redis (Rockscache).                *)
(***************************************************************************)
EXTENDS Naturals, Sequences, SequencesExt, FiniteSets

CONSTANTS Deleters, Root, Keys, Slot, Cluster, Chained, Given, MaxKeys, MaxExecs,
          Readers, Hosts, Lists,
          Written,     \* the documents that are written
          MaxWrites    \* bound: writes of one document

ASSUME ConstantsOK ==
    /\ Root \in Deleters
    /\ DOMAIN Slot = Keys
    /\ Cluster \in BOOLEAN /\ Chained \in BOOLEAN
    /\ Given \subseteq Seq(Keys) /\ \A r \in Readers : Lists[r] \subseteq Seq(Keys)
    /\ MaxKeys \in Nat /\ MaxExecs \in Nat /\ MaxWrites \in Nat

VARIABLES heap, keys, made, cloned, meant, exec,
          cache, db, deleted, call,
          since    \* since[d]: the documents there were when the execDel of d began,
                   \* of the keys it was asked for (history)

Deleter == INSTANCE BatchDeleter
Reader == INSTANCE CacheAside

ASSUME NoOwnerOK == Reader!Redis!NoOwner \notin Readers

deleting == <<heap, keys, made, cloned, meant, exec>>
vars == <<deleting, cache, db, deleted, call, since>>

Init ==
    /\ Deleter!Init /\ Reader!Init
    /\ since = [d \in Deleters |-> <<>>]

\* The document is inserted or updated.  Whether its cache is deleted after
\* that is up to the caller.
Write(k) ==
    /\ k \in Written /\ db[k] < MaxWrites
    /\ db' = [db EXCEPT ![k] = @ + 1]
    /\ UNCHANGED <<deleting, cache, deleted, call, since>>

Collect ==
    /\ \/ \E d, e \in Deleters : Deleter!Clone(d, e)
       \/ \E d \in Deleters, ks \in Given : Deleter!AddKeys(d, ks)
    /\ UNCHANGED <<db, deleted, call, since>>

ExecDel(d) ==
    /\ Deleter!ChainExecDel(d) \/ \E ks \in Given : Deleter!ExecDelWithKeys(d, ks)
    /\ since' = [since EXCEPT ![d] = [k \in exec'[d].asked |-> db[k]]]
    /\ UNCHANGED <<db, deleted, call>>

Later(m, n) == IF m > n THEN m ELSE n

\* Once an execDel has no batch left, it has reached what it was asked for, but for
\* what its commands failed to reach.
Proceed(d, reached) ==
    /\ since' = [since EXCEPT ![d] = [k \in exec'[d].asked |-> @[k]]]
    /\ deleted' = [k \in Keys |->
                      IF k \in reached /\ ~Deleter!Running(d)'
                         THEN Later(deleted[k], since[d][k]) ELSE deleted[k]]
    /\ UNCHANGED <<db, call>>

TagBatch(d, batch) ==
    /\ Deleter!TagBatch(d, batch)
    /\ Proceed(d, exec[d].asked)

TagFails(d, batch) ==
    /\ Deleter!TagFails(d, batch)
    /\ Proceed(d, exec[d].asked \ batch)

Next ==
    \/ \E k \in Keys : Write(k)
    \/ Collect
    \/ \E d \in Deleters :
          \/ ExecDel(d)
          \/ \E batch \in exec[d].batches : TagBatch(d, batch) \/ TagFails(d, batch)
    \/ Reader!Next /\ UNCHANGED <<deleting, since>>

Spec == Init /\ [][Next]_vars

\* The calls go on, Redis answers in the end, and locks run out of time.
Fairness ==
    /\ WF_vars((\E r \in Readers : Reader!GetCache(r)) /\ UNCHANGED <<deleting, since>>)
    /\ WF_vars((\E k \in Keys : Reader!Lapsing(k)) /\ UNCHANGED <<deleting, since>>)

LiveSpec == Spec /\ Fairness

-----------------------------------------------------------------------------
(* Properties *)

Slice == [array : Nat, len : Nat]
Exec == [batches : SUBSET SUBSET Keys, asked : SUBSET Keys]
Entry == [value : Nat, lock : {"none", "free", "held"},
          owner : Readers \cup {Reader!Redis!NoOwner}]
Processes == UNION {Hosts[r] : r \in Readers}
Call == [stage : Reader!Stages, host : Processes \cup {Reader!NoHost}, keys : Seq(Keys),
         lead : Readers, doc : Nat, floor : Nat]

SliceType ==
    /\ heap \in Seq(Seq(Keys \cup {Deleter!Empty}))
    /\ keys \in [Deleters -> Slice]
    /\ \A d \in Deleters :
          keys[d].array <= Len(heap) /\ keys[d].len <= Deleter!Capacity(keys[d].array)
    /\ made \subseteq Deleters /\ cloned \subseteq made
    /\ meant \in [Deleters -> Seq(Keys)]

ExecType ==
    /\ exec \in [Deleters -> Exec]
    /\ since = [d \in Deleters |-> since[d]]
    /\ \A d \in Deleters : since[d] \in [exec[d].asked -> Nat]

StoreType ==
    /\ cache \in [Keys -> Entry]
    /\ db \in [Keys -> Nat] /\ deleted \in [Keys -> Nat]
    /\ call \in [Readers -> Call]

\* Every variable holds a value of its type, and a slice lies in its array.
TypeOK == SliceType /\ ExecType /\ StoreType

\* "StrongConsistency = true": once an execDel has deleted a key, the cache serves
\* no document older than the one there was when that execDel began, whichever
\* reads were under way, whatever timed out, failed or died, and however the keys
\* were collected and put into batches.
CacheFresh ==
    \A k \in Keys : Reader!Redis!Readable(k) => cache[k].value >= deleted[k]

\* No call gets a document older than the last delete before the fetch it shares,
\* and it leaves out no document that was there then.
ReadFresh ==
    \A r \in Readers : call[r].stage = "got" => call[r].doc >= call[r].floor

\* No call is under way for ever: a lock left behind by a process that died, a
\* fetch that failed for all who shared it, or deletes that keep coming, do not
\* block it.
EveryReadEnds == []<>(\A r \in Readers : call[r].stage \in {"idle", "done"})

\* The inductive invariant behind CacheFresh and ReadFresh.  Deleters of one chain may
\* share an array.  Only the end of the chain writes to it, behind what the others
\* read, and the root has none, so that each deleter reads what it was given.
Shared(d, e) == keys[d].array # 0 /\ keys[d].array = keys[e].array

SliceInv ==
    /\ Root \in made
    /\ keys[Root] = [array |-> 0, len |-> 0]
    /\ \A d, e \in made :
          d # e /\ Shared(d, e) /\ d \notin cloned => e \in cloned /\ keys[e].len <= keys[d].len
    /\ Deleter!NoPollution

\* Neither the cache nor the holder of the lock, who may still fill it, has a
\* document of k that is older than v.
Newer(k, v) ==
    /\ Reader!Redis!Readable(k) => cache[k].value >= v
    /\ \A r \in Readers :
          call[r].stage = "set" /\ Reader!Key(r) = k /\ cache[k].owner = r => call[r].doc >= v

\* Of what a delete was asked for, each key waits in a batch, or nothing older than
\* the delete is left of it.
DeleteInv ==
    /\ \A k \in Keys : deleted[k] <= db[k] /\ Newer(k, deleted[k])
    /\ \A d \in Deleters : \A k \in exec[d].asked :
          /\ since[d][k] <= db[k]
          /\ k \notin UNION exec[d].batches => Newer(k, since[d][k])

\* A fetch began after the deletes its floor stands for, and has read the database
\* after that.
ReadInv ==
    \A r \in Readers :
        /\ call[r].stage \notin {"idle", "done"} => call[r].keys # <<>>
        /\ call[r].stage \in {"get", "fn", "set", "missing"} =>
              call[r].floor <= deleted[Reader!Key(r)]
        /\ call[r].stage \in {"set", "got"} => call[r].doc >= call[r].floor
        /\ call[r].stage = "missing" => call[r].floor = 0

IInv == TypeOK /\ SliceInv /\ DeleteInv /\ ReadInv
=============================================================================
