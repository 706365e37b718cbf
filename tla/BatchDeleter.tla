----------------------------- MODULE BatchDeleter -----------------------------
(***************************************************************************)
(* BatchDeleterRedis: deleters that collect cache keys in a Go slice, are  *)
(* cloned for chain calls, and delete what they collected from the cache.  *)
(* A clone copies the slice header, not the array under it, so that append *)
(* in one deleter may write where another one reads: the arrays are        *)
(* modelled as a heap.  Deletes run in goroutines of their own, one batch  *)
(* per hash slot after the other.                                          *)
(***************************************************************************)
EXTENDS Naturals, Sequences, SequencesExt, FiniteSets

CONSTANTS Deleters,
          Root,        \* the deleter that NewBatchDeleterRedis made
          Keys,
          Slot,        \* Slot[k]: the hash slot of key k
          Cluster,     \* the client is a ClusterClient
          Chained,     \* callers clone the root or the end of a chain, and only
                       \* the end of a chain, never the root, collects keys
          Given,       \* the lists of keys a caller may give
          MaxKeys,     \* bound: keys in one deleter
          MaxExecs     \* bound: calls of execDel that run at a time

VARIABLES
    heap,     \* the arrays that append has allocated, one cell per key
    keys,     \* keys[d]: the slice header: array (0 is nil), length
    made,     \* the deleters that exist
    cloned,   \* the deleters that were cloned (history)
    meant,    \* meant[d]: the keys d was given, itself or before it was cloned (history)
    exec,     \* exec[d]: the execDel that runs on d (bound: one of each deleter)
    cache     \* see Rockscache

Redis == INSTANCE Rockscache

slices == <<heap, keys, made, cloned, meant>>
vars == <<slices, exec, cache>>

Empty == "empty"    \* a cell nobody has written

\* The batches left; the keys the caller means that will have been deleted then:
\* not those of a failed command, and none if the slots are not all known.
NoExec == [batches |-> {}, asked |-> {}]

Running(d) == exec[d].batches # {}

Init ==
    /\ heap = <<>>
    /\ keys = [d \in Deleters |-> [array |-> 0, len |-> 0]]
    /\ made = {Root} /\ cloned = {}
    /\ meant = [d \in Deleters |-> <<>>]
    /\ exec = [d \in Deleters |-> NoExec]
    /\ cache = [k \in Keys |-> Redis!Absent]

\* MUTANT of View: the keys of the slice up to, not including, its last one.
ViewShort(d) == [i \in 1 .. IF keys[d].len > 0 THEN keys[d].len - 1 ELSE 0 |->
                    heap[keys[d].array][i]]

\* What a deleter reads from its slice.
View(d) == [i \in 1..keys[d].len |-> heap[keys[d].array][i]]

\* keys: c.keys
CopyOf(d) == keys[d]

\* A chain goes on with the clone: the deleter it was cloned from collects no more.
EndOfChain(d) == d # Root /\ d \notin cloned

Clone(d, e) ==
    /\ d \in made /\ e \notin made /\ (Chained => d = Root \/ EndOfChain(d))
    /\ made' = made \cup {e} /\ cloned' = cloned \cup {d}
    /\ keys' = [keys EXCEPT ![e] = CopyOf(d)]
    /\ meant' = [meant EXCEPT ![e] = meant[d]]
    /\ UNCHANGED <<heap, exec, cache>>

Capacity(a) == IF a = 0 THEN 0 ELSE Len(heap[a])

\* Go doubles the capacity of a small slice, or takes what the append needs.
Grown(cap, need) == IF need > 2 * cap THEN need ELSE 2 * cap

\* c.keys = append(c.keys, keys...): in place if the array has room, else into a
\* new array.
AddKeys(d, ks) ==
    LET array == keys[d].array
        size == keys[d].len + Len(ks)
    IN /\ d \in made /\ (Chained => EndOfChain(d))
       /\ size <= MaxKeys
       /\ IF size <= Capacity(array)
             THEN /\ heap' = [heap EXCEPT ![array] =
                       [i \in DOMAIN @ |->
                           IF i \in keys[d].len + 1 .. size THEN ks[i - keys[d].len] ELSE @[i]]]
                  /\ keys' = [keys EXCEPT ![d].len = size]
             ELSE /\ heap' = Append(heap,
                       [i \in 1 .. Grown(Capacity(array), size) |->
                           IF i <= size THEN (View(d) \o ks)[i] ELSE Empty])
                  /\ keys' = [keys EXCEPT ![d] = [array |-> Len(heap) + 1, len |-> size]]
       /\ meant' = [meant EXCEPT ![d] = @ \o ks]
       /\ UNCHANGED <<made, cloned, exec, cache>>

-----------------------------------------------------------------------------
(* execDel *)

\* The keys of one slot.
Group(S, s) == {k \in S : Slot[k] = s}

\* groupKeysBySlot: without a cluster there is one group.
Groups(S) == (IF Cluster THEN {Group(S, Slot[k]) : k \in Keys} ELSE {S}) \ {{}}

\* When no batch is left execDel returns nil, whatever went wrong.
Left(batches, asked) ==
    IF batches = {} THEN NoExec ELSE [batches |-> batches, asked |-> asked]

\* The slots of the distinct keys S of d are asked for; asked are the keys the
\* caller means.  The cluster may fail to answer for some keys, which are left
\* out, or as a whole, which is returned at once.
ExecDel(d, S, asked) ==
    /\ d \in made /\ ~Running(d)
    /\ Cardinality({e \in made : Running(e)}) < MaxExecs
    /\ \E lost \in SUBSET (IF Cluster THEN S ELSE {}) :
          exec' = [exec EXCEPT ![d] = Left(Groups(S \ lost), IF lost = {} THEN asked ELSE {})]
    /\ UNCHANGED <<slices, cache>>

\* The distinct keys that d has collected.
ChainExecDel(d) == ExecDel(d, ToSet(View(d)), ToSet(meant[d]))

ExecDelWithKeys(d, ks) == ExecDel(d, ToSet(ks), ToSet(ks))

TagBatch(d, batch) ==
    /\ batch \in exec[d].batches
    /\ Redis!Tag(batch)
    /\ exec' = [exec EXCEPT ![d] = Left(@.batches \ {batch}, @.asked)]
    /\ UNCHANGED slices

\* MUTANT of Others: a failure ends the loop over the slots.
OthersSkipped(d, batch) == {}

\* The batches that a failure leaves to do: the loop goes on with the next slot.
Others(d, batch) == exec[d].batches \ {batch}

\* A failed delete, which Redis may have carried out, is logged and skipped.
TagFails(d, batch) ==
    /\ batch \in exec[d].batches
    /\ Redis!Tag(batch) \/ UNCHANGED cache
    /\ exec' = [exec EXCEPT ![d] = Left(Others(d, batch), @.asked \ batch)]
    /\ UNCHANGED slices

Next ==
    \/ \E d, e \in Deleters : Clone(d, e)
    \/ \E d \in Deleters, ks \in Given : AddKeys(d, ks) \/ ExecDelWithKeys(d, ks)
    \/ \E d \in Deleters : ChainExecDel(d)
    \/ \E d \in Deleters : \E batch \in exec[d].batches : TagBatch(d, batch) \/ TagFails(d, batch)

Spec == Init /\ [][Next]_vars

-----------------------------------------------------------------------------
(* Properties *)

\* "Clone creates a copy ... to prevent memory pollution": whatever the deleters
\* of a family add, and in which order, each reads its own keys and those it was
\* cloned with.
NoPollution == \A d \in made : View(d) = meant[d]
=============================================================================
