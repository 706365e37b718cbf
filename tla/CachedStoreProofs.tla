------------------------- MODULE CachedStoreProofs -------------------------
(***************************************************************************)
(* Theorems of CachedStore, for any number of documents, deleters, calls   *)
(* and processes, any lists and any slots: what the cache keeps and gives  *)
(* out is never older than a completed delete.                             *)
(***************************************************************************)
EXTENDS CachedStore, SequenceTheorems, TLAPS

(* Types *)

\* A script of Redis leaves entries in the cache.
LEMMA LockType ==
    ASSUME cache \in [Keys -> Entry], NEW k \in Keys, NEW r \in Readers,
           Reader!Redis!Lock(k, r) \/ Reader!Redis!Unlock(k, r)
    PROVE  cache' \in [Keys -> Entry]
  BY DEF Entry, Reader!Redis!Lock, Reader!Redis!Unlock

LEMMA SetType ==
    ASSUME cache \in [Keys -> Entry], NEW k \in Keys, NEW r \in Readers, NEW v \in Nat,
           Reader!Redis!Set(k, r, v)
    PROVE  cache' \in [Keys -> Entry]
  BY DEF Entry, Reader!Redis!Set

LEMMA AgeType ==
    ASSUME cache \in [Keys -> Entry], NEW k \in Keys,
           Reader!Redis!Lapse(k) \/ Reader!Redis!Expire(k)
    PROVE  cache' \in [Keys -> Entry]
  BY DEF Entry, Reader!Redis!Lapse, Reader!Redis!Expire, Reader!Redis!Absent

LEMMA TagType ==
    ASSUME cache \in [Keys -> Entry], NEW S, Deleter!Redis!Tag(S)
    PROVE  cache' \in [Keys -> Entry]
  BY DEF Entry, Deleter!Redis!Tag, Deleter!Redis!NoOwner, Reader!Redis!NoOwner

\* A call that is over is the state of a call.
LEMMA OverType ==
    ASSUME NEW r \in Readers
    PROVE  Reader!Over(r) \in Call /\ Reader!Over(r).stage = "done"
<1>1. Reader!Over(r) = [stage |-> "done", host |-> Reader!NoHost, keys |-> <<>>, lead |-> r,
                        doc |-> 0, floor |-> 0]
  BY Z3 DEF Reader!Over, Reader!NoCall
<1> QED
  BY <1>1 DEF Call, Reader!Stages

\* So is a call that goes on.
LEMMA GoesOnType ==
    ASSUME NEW c \in Call
    PROVE  /\ \A stage \in Reader!Stages : [c EXCEPT !.stage = stage] \in Call
           /\ \A doc \in Nat : [c EXCEPT !.stage = "set", !.doc = doc] \in Call
           /\ \A q \in Readers : [c EXCEPT !.stage = "joined", !.lead = q] \in Call
           /\ \A q \in Readers, floor \in Nat :
                 [c EXCEPT !.stage = "get", !.lead = q, !.floor = floor] \in Call
           /\ \A host \in Processes, list \in Seq(Keys) :
                 [c EXCEPT !.stage = "next", !.host = host, !.keys = list] \in Call
           /\ \A list \in Seq(Keys) :
                 [c EXCEPT !.stage = "next", !.keys = list, !.doc = 0, !.floor = 0] \in Call
           /\ \A q \in Readers, doc \in Nat, floor \in Nat :
                 [c EXCEPT !.stage = "got", !.lead = q, !.doc = doc, !.floor = floor] \in Call
  BY DEF Call, Reader!Stages

\* What a call is told of a fetch is a state of a call.
LEMMA ReplyType ==
    ASSUME call \in [Readers -> Call], NEW r \in Readers, NEW doc \in Nat,
           Reader!Answer(r, doc) \/ Reader!Fail(r)
    PROVE  call' \in [Readers -> Call]
<1>1. CASE Reader!Answer(r, doc)
  <2>1. ASSUME NEW q \in Readers
        PROVE  [call[q] EXCEPT !.stage = "got", !.lead = q, !.doc = doc, !.floor = call[r].floor]
                  \in Call
    <3>1. call[q] \in Call /\ call[r].floor \in Nat
      BY DEF Call
    <3> QED
      BY <3>1, GoesOnType DEF Reader!Stages
  <2> QED
    BY <1>1, <2>1 DEF Reader!Answer
<1>2. CASE Reader!Fail(r)
  BY <1>2, OverType DEF Reader!Fail
<1> QED
  BY <1>1, <1>2

\* A step of a call, of a process or of a key's own time keeps the types.
LEMMA ReaderType ==
    ASSUME cache \in [Keys -> Entry], db \in [Keys -> Nat], deleted \in [Keys -> Nat],
           call \in [Readers -> Call], ReadInv, Reader!Next
    PROVE  cache' \in [Keys -> Entry] /\ UNCHANGED <<db, deleted>> /\ call' \in [Readers -> Call]
<1>0. ASSUME NEW r \in Readers, call[r].stage \notin {"idle", "done"}
      PROVE  Reader!Key(r) \in Keys
  BY <1>0 DEF ReadInv, Call, Reader!Key
<1>1. ASSUME NEW r \in Readers, NEW host \in Hosts[r], NEW list \in Lists[r],
             Reader!BatchGetCache(r, host, list)
      PROVE  call' \in [Readers -> Call] /\ UNCHANGED <<cache, db, deleted>>
  <2>1. list \in Seq(Keys) /\ host \in Processes
    BY ConstantsOK DEF Processes
  <2>2. [call[r] EXCEPT !.stage = "next", !.host = host, !.keys = list] \in Call
    BY <2>1, GoesOnType DEF Reader!Stages
  <2> QED
    BY <1>1, <2>2, OverType DEF Reader!BatchGetCache
<1>2. ASSUME NEW r \in Readers, Reader!Fetch2(r)
      PROVE  call' \in [Readers -> Call] /\ UNCHANGED <<cache, db, deleted>>
  <2>1. deleted[Reader!Key(r)] \in Nat
    BY <1>0, <1>2 DEF Reader!Fetch2
  <2>2. \A q \in Readers : [call[r] EXCEPT !.stage = "joined", !.lead = q] \in Call
    BY GoesOnType DEF Reader!Stages
  <2>3. [call[r] EXCEPT !.stage = "get", !.lead = r, !.floor = deleted[Reader!Key(r)]] \in Call
    BY <2>1, GoesOnType DEF Reader!Stages
  <2> QED
    BY <1>2, <2>2, <2>3 DEF Reader!Fetch2, Reader!Running
<1>3. ASSUME NEW r \in Readers, Reader!GotOne(r)
      PROVE  call' \in [Readers -> Call] /\ UNCHANGED <<cache, db, deleted>>
  <2>1. Tail(call[r].keys) \in Seq(Keys)
    <3>1. call[r].keys \in Seq(Keys) /\ call[r].keys # <<>>
      BY <1>3 DEF Reader!GotOne, ReadInv, Call
    <3> QED
      BY <3>1
  <2>2. [call[r] EXCEPT !.stage = "next", !.keys = Tail(call[r].keys), !.doc = 0, !.floor = 0] \in Call
    BY <2>1, GoesOnType DEF Reader!Stages
  <2>3. Reader!Over(r) \in Call
    BY OverType
  <2>4. CASE Len(call[r].keys) = 1
    BY <1>3, <2>3, <2>4 DEF Reader!GotOne
  <2>5. CASE Len(call[r].keys) # 1
    BY <1>3, <2>2, <2>5 DEF Reader!GotOne
  <2> QED
    BY <2>4, <2>5
<1>4. ASSUME NEW r \in Readers, Reader!GetValue(r)
      PROVE  call' \in [Readers -> Call] /\ UNCHANGED <<cache, db, deleted>>
  <2>1. cache[Reader!Key(r)].value \in Nat
    BY <1>0, <1>4 DEF Reader!GetValue, Entry
  <2> QED
    BY <1>4, <2>1, ReplyType DEF Reader!GetValue
<1>5. ASSUME NEW r \in Readers, Reader!GetLock(r)
      PROVE  cache' \in [Keys -> Entry] /\ call' \in [Readers -> Call] /\ UNCHANGED <<db, deleted>>
  <2>1. Reader!Key(r) \in Keys
    BY <1>0, <1>5 DEF Reader!GetLock, Reader!Goto
  <2> QED
    BY <1>5, <2>1, LockType DEF Reader!GetLock, Reader!Goto, Call, Reader!Stages
<1>6. ASSUME NEW r \in Readers, Reader!Fn(r)
      PROVE  call' \in [Readers -> Call] /\ UNCHANGED <<cache, db, deleted>>
  <2>1. db[Reader!Key(r)] \in Nat
    BY <1>0, <1>6 DEF Reader!Fn
  <2>2. [call[r] EXCEPT !.stage = "set", !.doc = db[Reader!Key(r)]] \in Call
    BY <2>1, GoesOnType
  <2>3. [call[r] EXCEPT !.stage = "missing"] \in Call /\ [call[r] EXCEPT !.stage = "error"] \in Call
    BY GoesOnType DEF Reader!Stages
  <2> QED
    BY <1>6, <2>1, <2>2, <2>3 DEF Reader!Fn, Reader!Goto
<1>7. ASSUME NEW r \in Readers, Reader!SetValue(r)
      PROVE  cache' \in [Keys -> Entry] /\ call' \in [Readers -> Call] /\ UNCHANGED <<db, deleted>>
  <2>1. Reader!Key(r) \in Keys /\ call[r].doc \in Nat
    BY <1>0, <1>7 DEF Reader!SetValue, Call
  <2> QED
    BY <1>7, <2>1, SetType, ReplyType DEF Reader!SetValue
<1>8. ASSUME NEW r \in Readers, Reader!GiveUp(r)
      PROVE  cache' \in [Keys -> Entry] /\ call' \in [Readers -> Call] /\ UNCHANGED <<db, deleted>>
  <2>1. Reader!Key(r) \in Keys
    BY <1>0, <1>8 DEF Reader!GiveUp
  <2>2. cache' \in [Keys -> Entry]
    BY <1>8, <2>1, LockType DEF Reader!GiveUp
  <2>3. Reader!Answer(r, 0) \/ Reader!Fail(r)
    BY <1>8 DEF Reader!GiveUp
  <2> QED
    BY <1>8, <2>2, <2>3, ReplyType DEF Reader!GiveUp
<1>9. ASSUME NEW r \in Readers, Reader!RedisFails(r)
      PROVE  cache' \in [Keys -> Entry] /\ call' \in [Readers -> Call] /\ UNCHANGED <<db, deleted>>
  <2>1. Reader!Key(r) \in Keys /\ call[r].doc \in Nat
    BY <1>0, <1>9 DEF Reader!RedisFails, Call
  <2>2. cache' \in [Keys -> Entry]
    BY <1>9, <2>1, LockType, SetType DEF Reader!RedisFails
  <2> QED
    BY <1>9, <2>1, <2>2, ReplyType DEF Reader!RedisFails
<1>10. ASSUME NEW host, Reader!Crash(host)
       PROVE  call' \in [Readers -> Call] /\ UNCHANGED <<cache, db, deleted>>
  BY <1>10, OverType DEF Reader!Crash
<1>11. ASSUME NEW k \in Keys, Reader!Age(k)
       PROVE  cache' \in [Keys -> Entry] /\ UNCHANGED <<db, deleted, call>>
  BY <1>11, AgeType DEF Reader!Age
<1> QED
  BY <1>1, <1>2, <1>3, <1>4, <1>5, <1>6, <1>7, <1>8, <1>9, <1>10, <1>11
     DEF Reader!Next, Reader!GetCache

(* Slices *)

\* A function on the first numbers is a sequence.
LEMMA FunctionIsSeq ==
    ASSUME NEW S, NEW n \in Nat, NEW f \in [1..n -> S]
    PROVE  f \in Seq(S) /\ Len(f) = n /\ DOMAIN f = 1..n
<1>1. f \in Seq(S)
  BY SeqDef
<1> QED
  BY <1>1, LenProperties

\* A sequence that begins with s and goes on with t.
LEMMA Concatenation ==
    ASSUME NEW S, NEW s \in Seq(S), NEW t \in Seq(S), NEW v \in [1..Len(s) + Len(t) -> S],
           \A i \in 1..Len(s) : v[i] = s[i],
           \A i \in 1..Len(t) : v[Len(s) + i] = t[i]
    PROVE  v = s \o t
<1> DEFINE n == Len(s) + Len(t)
<1>1. Len(s) \in Nat /\ Len(t) \in Nat /\ n \in Nat
  BY LenProperties
<1>2. v \in Seq(S) /\ Len(v) = n
  BY <1>1, FunctionIsSeq
<1>3. s \o t \in Seq(S) /\ Len(s \o t) = n
  BY ConcatProperties
<1>4. ASSUME NEW i \in 1..n
      PROVE  v[i] = (s \o t)[i]
  <2>1. (s \o t)[i] = IF i <= Len(s) THEN s[i] ELSE t[i - Len(s)]
    BY ConcatProperties
  <2>2. CASE i <= Len(s)
    BY <2>1, <2>2, <1>1
  <2>3. CASE i > Len(s)
    <3>1. i - Len(s) \in 1..Len(t) /\ Len(s) + (i - Len(s)) = i
      BY <1>1, <2>3
    <3> QED
      BY <1>1, <2>1, <2>3, <3>1
  <2> QED
    BY <1>1, <2>2, <2>3
<1> QED
  BY <1>2, <1>3, <1>4, SeqEqual

Cell == Keys \cup {Deleter!Empty}

\* What a deleter reads are cells of its array.
LEMMA ViewType ==
    ASSUME TypeOK, NEW d \in Deleters
    PROVE  /\ keys[d].array \in 0..Len(heap) /\ keys[d].len \in Nat
           /\ keys[d].len # 0 => keys[d].array \in DOMAIN heap
           /\ Deleter!View(d) \in Seq(Cell) /\ Len(Deleter!View(d)) = keys[d].len
<1>1. keys[d] \in Slice /\ keys[d].array <= Len(heap) /\ Len(heap) \in Nat
      /\ keys[d].len <= Deleter!Capacity(keys[d].array) /\ heap \in Seq(Seq(Cell))
  BY DEF TypeOK, SliceType, Cell
<1>2. keys[d].array \in 0..Len(heap) /\ keys[d].len \in Nat
  BY <1>1 DEF Slice
<1>3. ASSUME keys[d].len # 0
      PROVE  keys[d].array \in DOMAIN heap /\ keys[d].len <= Len(heap[keys[d].array])
  BY <1>1, <1>2, <1>3 DEF Deleter!Capacity
<1>4. Deleter!View(d) \in [1..keys[d].len -> Cell]
  <2>1. \A i \in 1..keys[d].len : heap[keys[d].array][i] \in Cell
    BY <1>1, <1>2, <1>3
  <2> QED
    BY <2>1 DEF Deleter!View
<1> QED
  BY <1>2, <1>3, <1>4, FunctionIsSeq

\* AddKeys appends to what the deleter reads, in its array or in a new one.  It writes
\* into no other array, and in its own only behind what it read.
LEMMA AddKeysEffect ==
    ASSUME TypeOK, NEW d \in Deleters, NEW ks \in Seq(Keys), Deleter!AddKeys(d, ks)
    PROVE  /\ heap' \in Seq(Seq(Cell)) /\ Len(heap') >= Len(heap)
           /\ \A a \in DOMAIN heap :
                 Len(heap'[a]) = Len(heap[a]) /\ (a # keys[d].array => heap'[a] = heap[a])
           /\ \A i \in 1..keys[d].len : heap'[keys[d].array][i] = heap[keys[d].array][i]
           /\ keys' = [keys EXCEPT ![d] = keys'[d]] /\ keys'[d] \in Slice
           /\ keys'[d].len >= keys[d].len
           /\ keys'[d].array \in {keys[d].array, Len(heap) + 1} /\ keys'[d].array <= Len(heap')
           /\ keys'[d].len <= Deleter!Capacity(keys[d].array)'
           /\ Deleter!View(d)' = Deleter!View(d) \o ks
<1> DEFINE array == keys[d].array
           size == keys[d].len + Len(ks)
           view == Deleter!View(d)
<1>1. /\ heap \in Seq(Seq(Cell)) /\ Len(heap) \in Nat /\ Len(ks) \in Nat
      /\ array \in 0..Len(heap) /\ keys[d].len \in Nat /\ size \in Nat
      /\ keys \in [Deleters -> Slice] /\ keys[d].len <= Deleter!Capacity(array)
      /\ Deleter!View(d) \in Seq(Cell) /\ Len(Deleter!View(d)) = keys[d].len
  BY ViewType, LenProperties DEF TypeOK, SliceType, Cell
<1>2. ks \in Seq(Cell)
  BY SeqMonotonic DEF Cell
<1>3. CASE size <= Deleter!Capacity(array) /\ array # 0
  <2> DEFINE cells == [i \in DOMAIN heap[array] |->
                         IF i \in keys[d].len + 1 .. size THEN ks[i - keys[d].len]
                                                          ELSE heap[array][i]]
  <2>1. /\ heap' = [heap EXCEPT ![array] = cells]
        /\ keys' = [keys EXCEPT ![d].len = size]
    BY <1>3 DEF Deleter!AddKeys
  <2>2. array \in 1..Len(heap) /\ DOMAIN heap = 1..Len(heap)
        /\ heap[array] \in Seq(Cell) /\ size <= Len(heap[array])
    BY <1>1, <1>3, LenProperties DEF Deleter!Capacity
  <2>3. DOMAIN heap[array] = 1..Len(heap[array]) /\ Len(heap[array]) \in Nat
    BY <2>2, LenProperties
  <2>4. cells \in [1..Len(heap[array]) -> Cell]
    <3>1. ASSUME NEW i \in 1..Len(heap[array])
          PROVE  cells[i] \in Cell
      <4>1. CASE i \in keys[d].len + 1 .. size
        <5>1. i - keys[d].len \in 1..Len(ks)
          BY <1>1, <2>3, <4>1
        <5> QED
          BY <1>2, <2>3, <4>1, <5>1, ElementOfSeq
      <4>2. CASE i \notin keys[d].len + 1 .. size
        BY <2>2, <2>3, <4>2, ElementOfSeq
      <4> QED
        BY <4>1, <4>2
    <3> QED
      BY <2>3, <3>1
  <2>5. cells \in Seq(Cell) /\ Len(cells) = Len(heap[array])
    BY <2>3, <2>4, FunctionIsSeq
  <2>6. \A i \in 1..keys[d].len : cells[i] = view[i]
    BY <1>1, <2>2, <2>3 DEF Deleter!View
  <2>7. \A i \in 1..Len(ks) : cells[keys[d].len + i] = ks[i]
    <3> TAKE i \in 1..Len(ks)
    <3>1. keys[d].len + i \in keys[d].len + 1 .. size /\ (keys[d].len + i) - keys[d].len = i
          /\ keys[d].len + i \in DOMAIN heap[array]
      BY <1>1, <2>2, <2>3
    <3> QED
      BY <3>1
  <2> HIDE DEF cells
  <2>8. [i \in 1..size |-> cells[i]] = view \o ks
    <3>1. view \in Seq(Cell) /\ Len(view) = keys[d].len
      BY <1>1
    <3> HIDE DEF view
    <3> DEFINE v == [i \in 1..Len(view) + Len(ks) |-> cells[i]]
    <3>2. \A i \in 1..Len(view) : v[i] = view[i]
      BY <1>1, <2>6, <3>1 DEF view
    <3>3. \A i \in 1..Len(ks) : v[Len(view) + i] = ks[i]
      <4> TAKE i \in 1..Len(ks)
      <4>1. Len(view) + i \in 1..Len(view) + Len(ks)
        BY <1>1, <3>1
      <4> QED
        BY <2>7, <3>1, <4>1
    <3>4. v \in [1..Len(view) + Len(ks) -> Cell]
      <4>1. \A i \in 1..Len(view) + Len(ks) : i \in 1..Len(heap[array])
        BY <1>1, <2>2, <2>3, <3>1
      <4> QED
        BY <2>5, <4>1, ElementOfSeq
    <3> HIDE DEF v
    <3>5. v = view \o ks
      BY <1>2, <3>1, <3>2, <3>3, <3>4, Concatenation
    <3> QED
      BY <3>1, <3>5 DEF v
  <2>9. /\ heap' \in Seq(Seq(Cell)) /\ Len(heap') = Len(heap)
        /\ \A a \in DOMAIN heap : heap'[a] = IF a = array THEN cells ELSE heap[a]
    BY <1>1, <2>1, <2>2, <2>5, ExceptSeq
  <2>10. keys'[d] = [array |-> array, len |-> size] /\ keys' = [keys EXCEPT ![d] = keys'[d]]
    BY <1>1, <2>1 DEF Slice
  <2>11. keys'[d] \in Slice
    BY <1>1, <2>10 DEF Slice
  <2>12. Deleter!View(d)' = view \o ks
    <3>1. Deleter!View(d)' = [i \in 1..keys'[d].len |-> heap'[keys'[d].array][i]]
      BY DEF Deleter!View
    <3>2. keys'[d].len = size /\ heap'[keys'[d].array] = cells
      BY <2>2, <2>9, <2>10
    <3> QED
      BY <2>8, <3>1, <3>2
  <2>13. keys'[d].len <= Deleter!Capacity(keys[d].array)'
    BY <1>3, <2>2, <2>5, <2>9, <2>10 DEF Deleter!Capacity
  <2>14. \A i \in 1..keys[d].len : heap'[array][i] = heap[array][i]
    BY <2>2, <2>6, <2>9 DEF Deleter!View
  <2>15. keys'[d].len >= keys[d].len /\ keys'[d].array = array /\ array <= Len(heap')
    BY <1>1, <2>2, <2>9, <2>10
  <2>16. \A a \in DOMAIN heap :
            Len(heap'[a]) = Len(heap[a]) /\ (a # array => heap'[a] = heap[a])
    BY <2>5, <2>9
  <2>17. Len(heap') >= Len(heap)
    BY <1>1, <2>9
  <2> HIDE DEF view
  <2>18. Deleter!View(d)' = Deleter!View(d) \o ks
    BY <2>12 DEF view
  <2> QED
    BY <2>9, <2>10, <2>11, <2>13, <2>14, <2>15, <2>16, <2>17, <2>18
<1>4. CASE size <= Deleter!Capacity(array) /\ array = 0
  <2>1. size = 0 /\ Len(ks) = 0 /\ keys[d].len = 0
    BY <1>1, <1>4 DEF Deleter!Capacity
  <2>2. heap' = heap /\ keys' = keys
    <3>1. keys' = [keys EXCEPT ![d].len = size] /\ 0 \notin DOMAIN heap
      BY <1>1, <1>4, LenProperties DEF Deleter!AddKeys
    <3>2. heap' = heap
      BY <1>1, <1>4, <3>1 DEF Deleter!AddKeys
    <3> QED
      BY <1>1, <2>1, <3>1, <3>2 DEF Slice
  <2>3. ks = <<>>
    BY <2>1, EmptySeq
  <2>4. Deleter!View(d)' = Deleter!View(d) \o ks
    <3>1. Deleter!View(d)' = Deleter!View(d)
      BY <2>2 DEF Deleter!View
    <3> QED
      BY <1>1, <2>3, <3>1, ConcatEmptySeq
  <2>5. Deleter!Capacity(keys[d].array)' = Deleter!Capacity(array)
    BY <2>2 DEF Deleter!Capacity
  <2> QED
    BY <1>1, <2>2, <2>4, <2>5
<1>5. CASE size > Deleter!Capacity(array)
  <2> DEFINE grown == Deleter!Grown(Deleter!Capacity(array), size)
             cells == [i \in 1..grown |->
                         IF i <= size THEN (view \o ks)[i] ELSE Deleter!Empty]
  <2>1. Deleter!Capacity(array) \in Nat
    <3>1. array # 0 => heap[array] \in Seq(Cell)
      BY <1>1, ElementOfSeq
    <3> QED
      BY <3>1, LenProperties DEF Deleter!Capacity
  <2>2. heap' = Append(heap, cells)
        /\ keys' = [keys EXCEPT ![d] = [array |-> Len(heap) + 1, len |-> size]]
    <3>1. ~(size <= Deleter!Capacity(array))
      BY <1>1, <1>5, <2>1
    <3> QED
      BY <3>1 DEF Deleter!AddKeys
  <2>3. grown \in Nat /\ grown >= size
    BY <1>1, <2>1 DEF Deleter!Grown
  <2>4. view \o ks \in Seq(Cell) /\ Len(view \o ks) = size
        /\ \A i \in 1..size : (view \o ks)[i] = IF i <= keys[d].len THEN view[i]
                                                ELSE ks[i - keys[d].len]
    <3>1. view \in Seq(Cell) /\ Len(view) = keys[d].len
      BY <1>1
    <3> HIDE DEF view
    <3>2. view \o ks \in Seq(Cell) /\ Len(view \o ks) = Len(view) + Len(ks)
      BY <1>2, <3>1, ConcatProperties
    <3>3. \A i \in 1..Len(view) + Len(ks) :
             (view \o ks)[i] = IF i <= Len(view) THEN view[i] ELSE ks[i - Len(view)]
      BY <1>2, <3>1, ConcatProperties
    <3> QED
      BY <3>1, <3>2, <3>3
  <2> HIDE DEF grown, view
  <2>5. cells \in [1..grown -> Cell]
    <3>1. ASSUME NEW i \in 1..grown
          PROVE  cells[i] \in Cell
      <4>1. CASE i <= size
        <5>1. (view \o ks)[i] \in Cell
          BY <1>1, <2>3, <2>4, <4>1, ElementOfSeq
        <5> QED
          BY <4>1, <5>1
      <4>2. CASE ~(i <= size)
        BY <4>2 DEF Cell
      <4> QED
        BY <4>1, <4>2
    <3> QED
      BY <3>1
  <2>6. cells \in Seq(Cell) /\ Len(cells) = grown
    BY <2>3, <2>5, FunctionIsSeq
  <2>7. [i \in 1..size |-> cells[i]] = view \o ks
    <3>1. \A i \in 1..size : i \in 1..grown /\ i <= size
      BY <1>1, <2>3
    <3>2. \A i \in 1..size : cells[i] = (view \o ks)[i]
      BY <3>1
    <3>3. view \o ks = [i \in 1..size |-> (view \o ks)[i]]
      BY <2>4, LenProperties
    <3> QED
      BY <3>2, <3>3
  <2> HIDE DEF cells
  <2>8. /\ heap' \in Seq(Seq(Cell)) /\ Len(heap') = Len(heap) + 1
        /\ heap'[Len(heap) + 1] = cells
        /\ \A a \in 1..Len(heap) : heap'[a] = heap[a]
    BY <1>1, <2>2, <2>6, AppendProperties
  <2>9. keys'[d] = [array |-> Len(heap) + 1, len |-> size] /\ keys' = [keys EXCEPT ![d] = keys'[d]]
    BY <1>1, <2>2
  <2>10. keys'[d] \in Slice
    BY <1>1, <2>9 DEF Slice
  <2>11. keys'[d].len <= Deleter!Capacity(keys[d].array)'
    BY <1>1, <2>3, <2>6, <2>8, <2>9 DEF Deleter!Capacity
  <2>12. Deleter!View(d)' = view \o ks
    BY <2>7, <2>8, <2>9 DEF Deleter!View
  <2>13. \A a \in DOMAIN heap : Len(heap'[a]) = Len(heap[a]) /\ heap'[a] = heap[a]
    BY <1>1, <2>8, LenProperties
  <2>14. Len(heap') >= Len(heap) /\ keys'[d].array = Len(heap) + 1 /\ keys'[d].array <= Len(heap')
         /\ keys'[d].len >= keys[d].len
    BY <1>1, <2>8, <2>9
  <2>15. \A i \in 1..keys[d].len : heap'[array][i] = heap[array][i]
    <3>1. keys[d].len # 0 => array \in 1..Len(heap)
      BY <1>1, ViewType
    <3> QED
      BY <1>1, <2>8, <3>1
  <2> QED
    BY <2>8, <2>9, <2>10, <2>11, <2>12, <2>13, <2>14, <2>15 DEF view
<1> QED
  <2>1. Deleter!Capacity(array) \in Nat
    <3>1. array # 0 => heap[array] \in Seq(Cell)
      BY <1>1, ElementOfSeq
    <3> QED
      BY <3>1, LenProperties DEF Deleter!Capacity
  <2> QED
    BY <1>1, <1>3, <1>4, <1>5, <2>1

-----------------------------------------------------------------------------
(* The steps of the deleters *)

\* Grouped by slots or not, no key is lost.
LEMMA GroupsCover ==
    ASSUME NEW S \in SUBSET Keys
    PROVE  Deleter!Groups(S) \in SUBSET SUBSET Keys /\ UNION Deleter!Groups(S) = S
<1>1. \A k \in Keys : Deleter!Group(S, Slot[k]) \in SUBSET Keys
                      /\ Deleter!Group(S, Slot[k]) \subseteq S
  BY DEF Deleter!Group
<1>2. \A k \in S : k \in Deleter!Group(S, Slot[k])
  BY DEF Deleter!Group
<1>3. CASE Cluster
  <2>1. Deleter!Groups(S) = {Deleter!Group(S, Slot[k]) : k \in Keys} \ {{}}
    BY <1>3 DEF Deleter!Groups
  <2>2. ASSUME NEW k \in S
        PROVE  k \in UNION Deleter!Groups(S)
    <3>1. Deleter!Group(S, Slot[k]) \in Deleter!Groups(S)
      BY <1>2, <2>1
    <3> QED
      BY <1>2, <3>1
  <2>3. \A batch \in Deleter!Groups(S) : batch \in SUBSET Keys /\ batch \subseteq S
    BY <1>1, <2>1
  <2> QED
    BY <2>2, <2>3
<1>4. CASE ~Cluster
  <2>1. Deleter!Groups(S) = {S} \ {{}}
    BY <1>4 DEF Deleter!Groups
  <2> QED
    BY <2>1
<1> QED
  BY <1>3, <1>4

\* An execDel has the keys it was asked for in its batches, or no batch and no key.
LEMMA ExecDelEffect ==
    ASSUME TypeOK, Deleter!NoPollution, NEW d \in Deleters, ExecDel(d)
    PROVE  /\ UNCHANGED <<heap, keys, made, cloned, meant, cache, db, deleted, call>>
           /\ exec' = [exec EXCEPT ![d] = exec'[d]] /\ exec'[d] \in Exec
           /\ exec'[d].asked \subseteq UNION exec'[d].batches
           /\ since' = [since EXCEPT ![d] = [k \in exec'[d].asked |-> db[k]]]
<1>1. PICK S \in SUBSET Keys : Deleter!ExecDel(d, S, S)
  <2>1. ASSUME Deleter!ChainExecDel(d)
        PROVE  \E S \in SUBSET Keys : Deleter!ExecDel(d, S, S)
    <3>1. Deleter!View(d) = meant[d]
      BY <2>1 DEF Deleter!ChainExecDel, Deleter!ExecDel, Deleter!NoPollution
    <3>2. Deleter!ToSet(meant[d]) \in SUBSET Keys
      BY DEF TypeOK, SliceType, Deleter!ToSet
    <3> QED
      BY <2>1, <3>1, <3>2 DEF Deleter!ChainExecDel
  <2>2. ASSUME NEW ks \in Given, Deleter!ExecDelWithKeys(d, ks)
        PROVE  \E S \in SUBSET Keys : Deleter!ExecDel(d, S, S)
    <3>1. Deleter!ToSet(ks) \in SUBSET Keys
      BY ConstantsOK DEF Deleter!ToSet
    <3> QED
      BY <2>2, <3>1 DEF Deleter!ExecDelWithKeys
  <2> QED
    BY <2>1, <2>2 DEF ExecDel
<1>2. PICK lost \in SUBSET (IF Cluster THEN S ELSE {}) :
         exec' = [exec EXCEPT ![d] = Deleter!Left(Deleter!Groups(S \ lost), IF lost = {} THEN S ELSE {})]
  BY <1>1 DEF Deleter!ExecDel
<1>3. exec \in [Deleters -> Exec]
  BY DEF TypeOK, ExecType
<1>4. Deleter!Groups(S \ lost) \in SUBSET SUBSET Keys /\ UNION Deleter!Groups(S \ lost) = S \ lost
  BY GroupsCover
<1> DEFINE batches == Deleter!Groups(S \ lost)
           asked == IF lost = {} THEN S ELSE {}
<1>5. /\ batches \in SUBSET SUBSET Keys
      /\ asked \in SUBSET Keys /\ asked \subseteq UNION batches
  BY <1>4
<1> HIDE DEF batches, asked
<1>6. exec'[d] = Deleter!Left(batches, asked)
  BY <1>2, <1>3 DEF batches, asked
<1>7. exec'[d] \in Exec /\ exec'[d].asked \subseteq UNION exec'[d].batches
  <2>1. CASE batches = {}
    BY <1>6, <2>1 DEF Deleter!Left, Deleter!NoExec, Exec
  <2>2. CASE batches # {}
    BY <1>5, <1>6, <2>2 DEF Deleter!Left, Exec
  <2> QED
    BY <2>1, <2>2
<1>8. UNCHANGED <<heap, keys, made, cloned, meant, cache>>
  BY <1>1 DEF Deleter!ExecDel, Deleter!slices
<1> QED
  BY <1>2, <1>3, <1>6, <1>7, <1>8 DEF ExecDel, batches, asked

\* The step of one batch: what a delete has reached, and what is left of it.
LEMMA TagEffect ==
    ASSUME TypeOK, NEW d \in Deleters, NEW batch \in exec[d].batches,
           TagBatch(d, batch) \/ TagFails(d, batch)
    PROVE  /\ UNCHANGED <<heap, keys, made, cloned, meant, db, call>>
           /\ batch \in SUBSET Keys
           /\ Deleter!Redis!Tag(batch) \/ UNCHANGED cache
           /\ \E reached \in SUBSET exec[d].asked :
                 /\ Proceed(d, reached)
                 /\ reached \cap batch # {} => Deleter!Redis!Tag(batch)
                 /\ exec' = [exec EXCEPT ![d] = Deleter!Left(exec[d].batches \ {batch}, reached)]
<1>1. exec[d] \in Exec
  BY DEF TypeOK, ExecType
<1>2. CASE TagBatch(d, batch)
  BY <1>1, <1>2 DEF TagBatch, Deleter!TagBatch, Deleter!slices, Proceed, Exec
<1>3. CASE TagFails(d, batch)
  BY <1>1, <1>3 DEF TagFails, Deleter!TagFails, Deleter!Others, Deleter!slices, Proceed, Exec
<1> QED
  BY <1>2, <1>3

\* The types of the execDel that runs and of the documents it stands for.
LEMMA ProceedType ==
    ASSUME TypeOK, NEW d \in Deleters, NEW batch \in exec[d].batches,
           NEW reached \in SUBSET exec[d].asked, Proceed(d, reached),
           exec' = [exec EXCEPT ![d] = Deleter!Left(exec[d].batches \ {batch}, reached)]
    PROVE  /\ ExecType' /\ deleted' \in [Keys -> Nat]
           /\ exec'[d].asked \subseteq reached
           /\ exec'[d].batches = exec[d].batches \ {batch}
           /\ \A k \in exec'[d].asked : since'[d][k] = since[d][k]
           /\ \A e \in Deleters \ {d} : exec'[e] = exec[e] /\ since'[e] = since[e]
           /\ \A k \in Keys : \/ deleted'[k] = deleted[k]
                              \/ /\ deleted'[k] = since[d][k] /\ since[d][k] > deleted[k]
                                 /\ k \in reached /\ exec'[d].batches = {}
<1>1. /\ exec \in [Deleters -> Exec] /\ exec[d] \in Exec
      /\ since[d] \in [exec[d].asked -> Nat] /\ deleted \in [Keys -> Nat]
      /\ since = [e \in Deleters |-> since[e]]
      /\ \A e \in Deleters : since[e] \in [exec[e].asked -> Nat]
  BY DEF TypeOK, ExecType, StoreType
<1>2. exec'[d] = Deleter!Left(exec[d].batches \ {batch}, reached)
      /\ \A e \in Deleters \ {d} : exec'[e] = exec[e]
  BY <1>1
<1>3. exec'[d] \in Exec /\ exec'[d].asked \subseteq reached
      /\ exec'[d].batches = exec[d].batches \ {batch}
  BY <1>1, <1>2 DEF Deleter!Left, Deleter!NoExec, Exec
<1>4. /\ since' = [since EXCEPT ![d] = [k \in exec'[d].asked |-> since[d][k]]]
      /\ deleted' = [k \in Keys |->
                        IF k \in reached /\ exec'[d].batches = {}
                           THEN Later(deleted[k], since[d][k]) ELSE deleted[k]]
  BY DEF Proceed, Deleter!Running
<1>5. /\ since'[d] = [k \in exec'[d].asked |-> since[d][k]]
      /\ \A e \in Deleters \ {d} : since'[e] = since[e]
      /\ since' = [e \in Deleters |-> since'[e]]
  BY <1>1, <1>4
<1>6. since'[d] \in [exec'[d].asked -> Nat]
  BY <1>1, <1>3, <1>5
<1>7. ExecType'
  BY <1>1, <1>2, <1>3, <1>5, <1>6 DEF ExecType
<1>8. \A k \in reached : since[d][k] \in Nat
  BY <1>1
<1>9. ASSUME NEW k \in Keys
      PROVE  /\ deleted'[k] \in Nat
             /\ \/ deleted'[k] = deleted[k]
                \/ /\ deleted'[k] = since[d][k] /\ since[d][k] > deleted[k]
                   /\ k \in reached /\ exec'[d].batches = {}
  <2>1. deleted[k] \in Nat
    BY <1>1
  <2>2. CASE k \in reached /\ exec'[d].batches = {}
    <3>1. deleted'[k] = Later(deleted[k], since[d][k]) /\ since[d][k] \in Nat
      BY <1>4, <1>8, <2>2
    <3> QED
      BY <2>1, <2>2, <3>1 DEF Later
  <2>3. CASE ~(k \in reached /\ exec'[d].batches = {})
    BY <1>4, <2>1, <2>3
  <2> QED
    BY <2>2, <2>3
<1>10. deleted' \in [Keys -> Nat]
  BY <1>4, <1>9
<1> QED
  BY <1>2, <1>3, <1>5, <1>7, <1>9, <1>10

\* What a step leaves alone keeps its type.
LEMMA UnchangedTypes ==
    ASSUME TypeOK
    PROVE  /\ UNCHANGED <<heap, keys, made, cloned, meant>> => SliceType'
           /\ UNCHANGED <<exec, since>> => ExecType'
           /\ UNCHANGED <<cache, db, deleted, call>> => StoreType'
  BY DEF TypeOK, SliceType, ExecType, StoreType, Deleter!Capacity

\* The types after a clone was made or a deleter was given keys.
LEMMA CollectType ==
    ASSUME TypeOK, Collect
    PROVE  TypeOK'
<1>1. UNCHANGED <<exec, cache, db, deleted, call, since>>
  BY DEF Collect, Deleter!Clone, Deleter!AddKeys
<1>2. ASSUME NEW d \in Deleters, NEW e \in Deleters, Deleter!Clone(d, e)
      PROVE  SliceType'
  <2>1. /\ heap' = heap /\ made' = made \cup {e} /\ cloned' = cloned \cup {d} /\ d \in made
        /\ keys' = [keys EXCEPT ![e] = keys[d]] /\ meant' = [meant EXCEPT ![e] = meant[d]]
    BY <1>2 DEF Deleter!Clone, Deleter!CopyOf
  <2>2. keys' \in [Deleters -> Slice] /\ meant' \in [Deleters -> Seq(Keys)]
    BY <2>1 DEF TypeOK, SliceType
  <2>3. \A c \in Deleters : keys'[c] \in {keys[c], keys[d]}
    BY <2>1 DEF TypeOK, SliceType
  <2>4. \A c \in Deleters : keys'[c].array <= Len(heap')
                            /\ keys'[c].len <= Deleter!Capacity(keys[c].array)'
    BY <2>1, <2>3 DEF TypeOK, SliceType, Deleter!Capacity
  <2> QED
    BY <2>1, <2>2, <2>4 DEF TypeOK, SliceType
<1>3. ASSUME NEW d \in Deleters, NEW ks \in Given, Deleter!AddKeys(d, ks)
      PROVE  SliceType'
  <2>1. ks \in Seq(Keys)
    BY ConstantsOK
  <2>2. /\ heap' \in Seq(Seq(Cell)) /\ Len(heap') >= Len(heap)
        /\ \A a \in DOMAIN heap : Len(heap'[a]) = Len(heap[a])
        /\ keys' = [keys EXCEPT ![d] = keys'[d]] /\ keys'[d] \in Slice
        /\ keys'[d].array <= Len(heap')
        /\ keys'[d].len <= Deleter!Capacity(keys[d].array)'
    BY <1>3, <2>1, AddKeysEffect
  <2>3. meant' = [meant EXCEPT ![d] = meant[d] \o ks] /\ UNCHANGED <<made, cloned>>
    BY <1>3 DEF Deleter!AddKeys
  <2>4. keys' \in [Deleters -> Slice] /\ meant' \in [Deleters -> Seq(Keys)]
    <3>1. meant[d] \o ks \in Seq(Keys)
      BY <2>1, ConcatProperties DEF TypeOK, SliceType
    <3> QED
      BY <2>2, <2>3, <3>1 DEF TypeOK, SliceType
  <2>5. ASSUME NEW e \in Deleters, e # d
        PROVE  keys'[e].array <= Len(heap') /\ keys'[e].len <= Deleter!Capacity(keys[e].array)'
    <3>1. keys'[e] = keys[e] /\ keys[e] \in Slice /\ keys[e].array <= Len(heap)
          /\ keys[e].len <= Deleter!Capacity(keys[e].array)
      BY <2>2, <2>5 DEF TypeOK, SliceType
    <3>2. keys[e].array \in 0..Len(heap) /\ Len(heap) \in Nat /\ Len(heap') \in Nat
          /\ DOMAIN heap = 1..Len(heap)
      BY <2>2, ViewType, LenProperties DEF TypeOK, SliceType
    <3>3. Deleter!Capacity(keys[e].array)' = Deleter!Capacity(keys[e].array)
      BY <2>2, <3>1, <3>2 DEF Deleter!Capacity
    <3> QED
      BY <2>2, <3>1, <3>2, <3>3
  <2> QED
    BY <2>2, <2>3, <2>4, <2>5 DEF TypeOK, SliceType, Cell
<1> QED
  BY <1>1, <1>2, <1>3, UnchangedTypes DEF Collect, TypeOK

\* Every step keeps the types.
LEMMA TypeStep ==
    ASSUME TypeOK, Deleter!NoPollution, ReadInv, Next
    PROVE  TypeOK'
<1>1. ASSUME NEW k \in Keys, Write(k)
      PROVE  TypeOK'
  <2>1. db' \in [Keys -> Nat]
    BY <1>1 DEF Write, TypeOK, StoreType
  <2> QED
    BY <1>1, <2>1, UnchangedTypes DEF Write, TypeOK, StoreType, deleting
<1>2. CASE Collect
  BY <1>2, CollectType
<1>3. ASSUME NEW d \in Deleters, ExecDel(d)
      PROVE  TypeOK'
  <2>1. /\ UNCHANGED <<heap, keys, made, cloned, meant, cache, db, deleted, call>>
        /\ exec' = [exec EXCEPT ![d] = exec'[d]] /\ exec'[d] \in Exec
        /\ since' = [since EXCEPT ![d] = [k \in exec'[d].asked |-> db[k]]]
    BY <1>3, ExecDelEffect
  <2>2. [k \in exec'[d].asked |-> db[k]] \in [exec'[d].asked -> Nat]
    BY <2>1 DEF TypeOK, StoreType, Exec
  <2>3. ExecType'
    BY <2>1, <2>2 DEF TypeOK, ExecType
  <2> QED
    BY <2>1, <2>3, UnchangedTypes DEF TypeOK
<1>4. ASSUME NEW d \in Deleters, NEW batch \in exec[d].batches,
             TagBatch(d, batch) \/ TagFails(d, batch)
      PROVE  TypeOK'
  <2>1. PICK reached \in SUBSET exec[d].asked :
           /\ Proceed(d, reached)
           /\ exec' = [exec EXCEPT ![d] = Deleter!Left(exec[d].batches \ {batch}, reached)]
    BY <1>4, TagEffect
  <2>2. UNCHANGED <<heap, keys, made, cloned, meant, db, call>>
        /\ (Deleter!Redis!Tag(batch) \/ UNCHANGED cache)
    BY <1>4, TagEffect
  <2>3. ExecType' /\ deleted' \in [Keys -> Nat]
    BY <2>1, ProceedType
  <2>4. cache' \in [Keys -> Entry]
    BY <2>2, TagType DEF TypeOK, StoreType
  <2> QED
    BY <2>2, <2>3, <2>4, UnchangedTypes DEF TypeOK, StoreType
<1>5. CASE Reader!Next /\ UNCHANGED <<deleting, since>>
  <2>1. StoreType'
    BY <1>5, ReaderType DEF TypeOK, StoreType
  <2> QED
    BY <1>5, <2>1, UnchangedTypes DEF TypeOK, deleting
<1> QED
  BY <1>1, <1>2, <1>3, <1>4, <1>5 DEF Next

\* What one deleter is given is not written where another one reads.
LEMMA SliceStep ==
    ASSUME TypeOK, SliceInv, Chained, Next
    PROVE  SliceInv'
<1>1. ASSUME NEW d \in Deleters, NEW e \in Deleters, Deleter!Clone(d, e)
      PROVE  SliceInv'
  <2>1. /\ d \in made /\ e \notin made /\ (d = Root \/ d \notin cloned)
        /\ heap' = heap /\ made' = made \cup {e} /\ cloned' = cloned \cup {d}
        /\ keys' = [keys EXCEPT ![e] = keys[d]] /\ meant' = [meant EXCEPT ![e] = meant[d]]
    BY <1>1 DEF Deleter!Clone, Deleter!CopyOf, Deleter!EndOfChain
  <2>2. keys'[e] = keys[d] /\ meant'[e] = meant[d]
    BY <2>1 DEF TypeOK, SliceType
  <2>3. \A c \in made : c # e /\ keys'[c] = keys[c] /\ meant'[c] = meant[c]
    BY <2>1 DEF TypeOK, SliceType
  <2>4. ASSUME NEW c \in made'
        PROVE  Deleter!View(c)' = meant'[c]
    <3>1. CASE c = e
      <4>1. Deleter!View(e)' = Deleter!View(d)
        BY <2>1, <2>2 DEF Deleter!View
      <4> QED
        BY <2>1, <2>2, <3>1, <4>1 DEF SliceInv, Deleter!NoPollution
    <3>2. CASE c # e
      <4>1. c \in made /\ Deleter!View(c)' = Deleter!View(c)
        BY <2>1, <2>3, <3>2 DEF Deleter!View
      <4> QED
        BY <2>3, <4>1 DEF SliceInv, Deleter!NoPollution
    <3> QED
      BY <3>1, <3>2
  <2>5. ASSUME NEW b \in made', NEW c \in made', b # c, Shared(b, c)', b \notin cloned'
        PROVE  c \in cloned' /\ keys'[c].len <= keys'[b].len
    <3>1. keys[d] \in Slice
      BY DEF TypeOK, SliceType
    <3>2. CASE b = e
      <4>1. c \in made /\ keys'[c] = keys[c] /\ keys[d].array # 0 /\ keys[c].array = keys[d].array
        BY <2>1, <2>2, <2>3, <2>5, <3>2 DEF Shared
      <4>2. d \notin cloned
        BY <2>1, <4>1 DEF SliceInv
      <4>3. CASE c = d
        BY <2>1, <2>2, <3>1, <3>2, <4>1, <4>3 DEF Slice
      <4>4. CASE c # d
        BY <2>1, <2>2, <3>2, <4>1, <4>2, <4>4 DEF SliceInv, Shared
      <4> QED
        BY <4>3, <4>4
    <3>3. CASE b # e
      <4>1. b \in made /\ b # d /\ b \notin cloned /\ keys'[b] = keys[b]
        BY <2>1, <2>3, <2>5, <3>3
      <4>2. CASE c = e
        <5>1. Shared(b, d)
          BY <2>2, <2>5, <4>1, <4>2 DEF Shared
        <5>2. d \in cloned /\ keys[d].array # 0
          BY <2>1, <4>1, <5>1 DEF SliceInv, Shared
        <5> QED
          BY <2>1, <5>2 DEF SliceInv
      <4>3. CASE c # e
        <5>1. c \in made /\ keys'[c] = keys[c] /\ Shared(b, c)
          BY <2>1, <2>3, <2>5, <4>1, <4>3 DEF Shared
        <5> QED
          BY <2>1, <2>5, <4>1, <5>1 DEF SliceInv
      <4> QED
        BY <4>2, <4>3
    <3> QED
      BY <3>2, <3>3
  <2>6. Root \in made' /\ keys'[Root] = [array |-> 0, len |-> 0]
    BY <2>1, <2>3 DEF SliceInv
  <2> QED
    BY <2>4, <2>5, <2>6 DEF SliceInv, Deleter!NoPollution
<1>2. ASSUME NEW d \in Deleters, NEW ks \in Given, Deleter!AddKeys(d, ks)
      PROVE  SliceInv'
  <2>1. ks \in Seq(Keys)
    BY ConstantsOK
  <2>2. /\ \A a \in DOMAIN heap : a # keys[d].array => heap'[a] = heap[a]
        /\ \A i \in 1..keys[d].len : heap'[keys[d].array][i] = heap[keys[d].array][i]
        /\ keys' = [keys EXCEPT ![d] = keys'[d]] /\ keys'[d] \in Slice
        /\ keys'[d].array \in {keys[d].array, Len(heap) + 1}
        /\ keys'[d].len >= keys[d].len
        /\ Deleter!View(d)' = Deleter!View(d) \o ks
    BY <1>2, <2>1, AddKeysEffect
  <2>3. /\ d \in made /\ d # Root /\ d \notin cloned /\ UNCHANGED <<made, cloned>>
        /\ meant' = [meant EXCEPT ![d] = meant[d] \o ks]
    BY <1>2 DEF Deleter!AddKeys, Deleter!EndOfChain
  <2>4. \A c \in made \ {d} : keys'[c] = keys[c] /\ meant'[c] = meant[c]
    BY <2>2, <2>3 DEF TypeOK, SliceType
  <2>5. \A c \in made : keys[c].array \in 0..Len(heap) /\ keys[c].len \in Nat
    BY ViewType DEF TypeOK, SliceType
  <2>6. Len(heap) \in Nat
    BY LenProperties DEF TypeOK, SliceType
  <2>7. ASSUME NEW b \in made', NEW c \in made', b # c, Shared(b, c)', b \notin cloned'
        PROVE  c \in cloned' /\ keys'[c].len <= keys'[b].len
    <3>1. b \in made /\ c \in made /\ b \notin cloned
      BY <2>3, <2>7
    <3>2. CASE b = d
      <4>1. keys'[c] = keys[c] /\ keys[c].array = keys[d].array /\ keys[d].array # 0
        BY <2>2, <2>4, <2>5, <2>6, <2>7, <3>1, <3>2 DEF Shared
      <4>2. c \in cloned /\ keys[c].len <= keys[d].len
        BY <2>7, <3>1, <3>2, <4>1 DEF SliceInv, Shared
      <4>3. keys'[d].len \in Nat /\ keys[d].len \in Nat /\ keys[c].len \in Nat
        BY <2>2, <2>3, <2>5, <3>1 DEF Slice
      <4> QED
        BY <2>2, <2>3, <3>2, <4>1, <4>2, <4>3
    <3>3. CASE b # d
      <4>1. keys'[b] = keys[b]
        BY <2>4, <3>1, <3>3
      <4>2. CASE c = d
        <5>1. Shared(b, d)
          BY <2>2, <2>5, <2>6, <2>7, <3>1, <4>1, <4>2 DEF Shared
        <5> QED
          BY <2>3, <3>1, <3>3, <5>1 DEF SliceInv
      <4>3. CASE c # d
        BY <2>3, <2>4, <2>7, <3>1, <4>1, <4>3 DEF SliceInv, Shared
      <4> QED
        BY <4>2, <4>3
    <3> QED
      BY <3>2, <3>3
  <2>8. ASSUME NEW c \in made
        PROVE  Deleter!View(c)' = meant'[c]
    <3>1. CASE c = d
      BY <2>2, <2>3, <3>1 DEF SliceInv, Deleter!NoPollution, TypeOK, SliceType
    <3>2. CASE c # d
      <4>1. c \in Deleters /\ keys'[c] = keys[c] /\ meant'[c] = meant[c] /\ keys[c].len \in Nat
        BY <2>4, <2>5, <3>2 DEF TypeOK, SliceType
      <4>2. keys[c].len # 0 => keys[c].array \in DOMAIN heap /\ keys[c].array # 0
        BY <2>6, <4>1, ViewType, LenProperties DEF TypeOK, SliceType
      <4>3. ASSUME NEW i \in 1..keys[c].len
            PROVE  heap'[keys[c].array][i] = heap[keys[c].array][i]
        <5>1. keys[c].array \in DOMAIN heap /\ keys[c].array # 0
          BY <4>1, <4>2
        <5>2. CASE keys[c].array = keys[d].array
          <6>1. keys[c].len <= keys[d].len
            BY <2>3, <3>2, <5>1, <5>2 DEF SliceInv, Shared
          <6>2. i \in 1..keys[d].len
            BY <2>3, <2>5, <4>1, <6>1
          <6> QED
            BY <2>2, <5>2, <6>2
        <5>3. CASE keys[c].array # keys[d].array
          BY <2>2, <5>1, <5>3
        <5> QED
          BY <5>2, <5>3
      <4>4. Deleter!View(c)' = Deleter!View(c)
        BY <4>1, <4>3 DEF Deleter!View
      <4> QED
        BY <4>1, <4>4 DEF SliceInv, Deleter!NoPollution
    <3> QED
      BY <3>1, <3>2
  <2>9. Root \in made' /\ keys'[Root] = [array |-> 0, len |-> 0]
    BY <2>3, <2>4 DEF SliceInv
  <2> QED
    BY <2>3, <2>7, <2>8, <2>9 DEF SliceInv, Deleter!NoPollution
<1>3. ASSUME UNCHANGED <<heap, keys, made, cloned, meant>>
      PROVE  SliceInv'
  BY <1>3 DEF SliceInv, Shared, Deleter!NoPollution, Deleter!View
<1>4. CASE Collect
  BY <1>1, <1>2, <1>4 DEF Collect
<1>5. ASSUME NEW d \in Deleters, ExecDel(d)
      PROVE  SliceInv'
  BY <1>3, <1>5, ExecDelEffect DEF SliceInv
<1>6. ASSUME NEW d \in Deleters, NEW batch \in exec[d].batches,
             TagBatch(d, batch) \/ TagFails(d, batch)
      PROVE  SliceInv'
  BY <1>3, <1>6, TagEffect
<1>7. ASSUME NEW k \in Keys, Write(k)
      PROVE  SliceInv'
  BY <1>3, <1>7 DEF Write, deleting
<1>8. CASE UNCHANGED <<deleting, since>>
  BY <1>3, <1>8 DEF deleting
<1> QED
  BY <1>4, <1>5, <1>6, <1>7, <1>8 DEF Next

-----------------------------------------------------------------------------
(* How old the cache is *)

\* A step of Redis for one key leaves it no older.
LEMMA NewerScript ==
    ASSUME TypeOK, NEW k \in Keys, NEW v \in Nat, Newer(k, v), NEW j \in Keys, NEW r,
           \/ UNCHANGED cache
           \/ Reader!Redis!Lock(j, r) /\ call[r].stage # "set"
           \/ Reader!Redis!Unlock(j, r)
           \/ /\ r \in Readers /\ call[r].stage = "set" /\ j = Reader!Key(r)
              /\ Reader!Redis!Set(j, r, call[r].doc)
           \/ Reader!Redis!Lapse(j)
           \/ Reader!Redis!Expire(j)
    PROVE  /\ Reader!Redis!Readable(k)' => cache'[k].value >= v
           /\ \A q \in Readers :
                 call[q].stage = "set" /\ Reader!Key(q) = k /\ cache'[k].owner = q
                    => call[q].doc >= v
<1>1. cache \in [Keys -> Entry] /\ Reader!Redis!NoOwner \notin Readers
  BY NoOwnerOK DEF TypeOK, StoreType
<1>2. /\ Reader!Redis!Readable(k) => cache[k].value >= v
      /\ \A q \in Readers :
            call[q].stage = "set" /\ Reader!Key(q) = k /\ cache[k].owner = q => call[q].doc >= v
  BY DEF Newer
<1>3. CASE UNCHANGED cache
  BY <1>2, <1>3 DEF Reader!Redis!Readable, Reader!Redis!StrongConsistency
<1>4. CASE Reader!Redis!Lock(j, r) /\ call[r].stage # "set"
  <2>1. cache'[j].lock = "held" /\ cache'[j].owner = r /\ \A i \in Keys \ {j} : cache'[i] = cache[i]
    BY <1>1, <1>4 DEF Reader!Redis!Lock, Entry
  <2> QED
    BY <1>2, <1>4, <2>1 DEF Reader!Redis!Readable, Reader!Redis!StrongConsistency
<1>5. CASE Reader!Redis!Unlock(j, r)
  <2>1. \/ UNCHANGED cache
        \/ /\ cache'[j].lock = "free" /\ cache'[j].owner = Reader!Redis!NoOwner
           /\ \A i \in Keys \ {j} : cache'[i] = cache[i]
    BY <1>1, <1>5 DEF Reader!Redis!Unlock, Entry
  <2> QED
    BY <1>1, <1>2, <1>3, <2>1 DEF Reader!Redis!Readable, Reader!Redis!StrongConsistency
<1>6. CASE /\ r \in Readers /\ call[r].stage = "set" /\ j = Reader!Key(r)
           /\ Reader!Redis!Set(j, r, call[r].doc)
  <2>1. \/ UNCHANGED cache
        \/ /\ cache[j].owner = r
           /\ cache'[j].value = call[r].doc /\ cache'[j].owner = Reader!Redis!NoOwner
           /\ \A i \in Keys \ {j} : cache'[i] = cache[i]
    BY <1>1, <1>6 DEF Reader!Redis!Set, Reader!Redis!Owns
  <2> QED
    BY <1>1, <1>2, <1>3, <1>6, <2>1 DEF Reader!Redis!Readable, Reader!Redis!StrongConsistency
<1>7. CASE Reader!Redis!Lapse(j)
  <2>1. cache'[j].lock = "free" /\ cache'[j].owner = cache[j].owner
        /\ \A i \in Keys \ {j} : cache'[i] = cache[i]
    BY <1>1, <1>7 DEF Reader!Redis!Lapse, Entry
  <2> QED
    BY <1>2, <2>1 DEF Reader!Redis!Readable, Reader!Redis!StrongConsistency
<1>8. CASE Reader!Redis!Expire(j)
  <2>1. cache'[j].value = 0 /\ cache'[j].owner = Reader!Redis!NoOwner
        /\ \A i \in Keys \ {j} : cache'[i] = cache[i]
    BY <1>1, <1>8 DEF Reader!Redis!Expire, Reader!Redis!Absent
  <2> QED
    BY <1>1, <1>2, <2>1 DEF Reader!Redis!Readable, Reader!Redis!StrongConsistency
<1> QED
  BY <1>3, <1>4, <1>5, <1>6, <1>7, <1>8

\* A call sets only what it had to set before, or what it reads from the database.
LEMMA SettersStep ==
    ASSUME TypeOK, ReadInv, Reader!Next
    PROVE  \A q \in Readers : call'[q].stage = "set" =>
              \/ call[q].stage = "set" /\ call'[q] = call[q]
              \/ /\ call[q].stage = "fn" /\ UNCHANGED cache
                 /\ call'[q].keys = call[q].keys /\ call'[q].doc = db[Reader!Key(q)]
<1>0. call \in [Readers -> Call]
  BY DEF TypeOK, StoreType
<1>1. ASSUME NEW r \in Readers, NEW host \in Hosts[r], NEW list \in Lists[r],
             Reader!BatchGetCache(r, host, list)
      PROVE  \A q \in Readers : call'[q].stage = "set" => call'[q] = call[q]
  BY <1>0, <1>1, OverType DEF Reader!BatchGetCache, Call
<1>2. ASSUME NEW r \in Readers, Reader!Fetch2(r)
      PROVE  \A q \in Readers : call'[q].stage = "set" => call'[q] = call[q]
  BY <1>0, <1>2 DEF Reader!Fetch2, Call
<1>3. ASSUME NEW r \in Readers, Reader!GotOne(r)
      PROVE  \A q \in Readers : call'[q].stage = "set" => call'[q] = call[q]
  BY <1>0, <1>3, OverType DEF Reader!GotOne, Call
<1>4. ASSUME NEW r \in Readers, NEW doc, Reader!Answer(r, doc) \/ Reader!Fail(r)
      PROVE  \A q \in Readers : call'[q].stage = "set" => call'[q] = call[q]
  <2>1. CASE Reader!Answer(r, doc)
    <3>1. \A q \in Readers :
             \/ call'[q] = call[q]
             \/ call'[q] = [call[q] EXCEPT !.stage = "got", !.lead = q, !.doc = doc,
                                          !.floor = call[r].floor]
      BY <1>0, <2>1 DEF Reader!Answer
    <3>2. \A q \in Readers :
             [call[q] EXCEPT !.stage = "got", !.lead = q, !.doc = doc,
                             !.floor = call[r].floor].stage = "got"
      BY <1>0 DEF Call
    <3> QED
      BY <3>1, <3>2
  <2>2. CASE Reader!Fail(r)
    BY <2>2, OverType DEF Reader!Fail
  <2> QED
    BY <1>4, <2>1, <2>2
<1>5. ASSUME NEW r \in Readers, Reader!GetLock(r)
      PROVE  \A q \in Readers : call'[q].stage = "set" => call'[q] = call[q]
  BY <1>0, <1>5 DEF Reader!GetLock, Reader!Goto, Call
<1>6. ASSUME NEW r \in Readers, Reader!Fn(r)
      PROVE  \A q \in Readers : call'[q].stage = "set" =>
                \/ call'[q] = call[q]
                \/ /\ call[q].stage = "fn" /\ UNCHANGED cache
                   /\ call'[q].keys = call[q].keys /\ call'[q].doc = db[Reader!Key(q)]
  BY <1>0, <1>6 DEF Reader!Fn, Reader!Goto, Call
<1>7. ASSUME NEW host, Reader!Crash(host)
      PROVE  \A q \in Readers : call'[q].stage = "set" => call'[q] = call[q]
  BY <1>0, <1>7, OverType DEF Reader!Crash
<1>8. ASSUME NEW k \in Keys, Reader!Age(k)
      PROVE  call' = call
  BY <1>8 DEF Reader!Age
<1>9. ASSUME NEW r \in Readers,
             Reader!GetValue(r) \/ Reader!SetValue(r) \/ Reader!GiveUp(r) \/ Reader!RedisFails(r)
      PROVE  \A q \in Readers : call'[q].stage = "set" => call'[q] = call[q]
  BY <1>4, <1>9 DEF Reader!GetValue, Reader!SetValue, Reader!GiveUp, Reader!RedisFails
<1> QED
  BY <1>1, <1>2, <1>3, <1>5, <1>6, <1>7, <1>8, <1>9 DEF Reader!Next, Reader!GetCache

\* A step of the calls runs one script of Redis, or none.
LEMMA ScriptStep ==
    ASSUME TypeOK, ReadInv, Reader!Next
    PROVE  \/ UNCHANGED cache
           \/ \E j \in Keys, r \in Readers :
                 \/ Reader!Redis!Lock(j, r) /\ call[r].stage # "set"
                 \/ Reader!Redis!Unlock(j, r)
                 \/ /\ call[r].stage = "set" /\ j = Reader!Key(r)
                    /\ Reader!Redis!Set(j, r, call[r].doc)
           \/ \E j \in Keys : Reader!Redis!Lapse(j) \/ Reader!Redis!Expire(j)
<1>1. ASSUME NEW r \in Readers, call[r].stage \notin {"idle", "done"}
      PROVE  Reader!Key(r) \in Keys
  BY <1>1 DEF ReadInv, TypeOK, StoreType, Call, Reader!Key
<1>2. ASSUME NEW r \in Readers, Reader!GetCache(r) \/ Reader!RedisFails(r)
      PROVE  \/ UNCHANGED cache
             \/ \E j \in Keys :
                   \/ Reader!Redis!Lock(j, r) /\ call[r].stage # "set"
                   \/ Reader!Redis!Unlock(j, r)
                   \/ /\ call[r].stage = "set" /\ j = Reader!Key(r)
                      /\ Reader!Redis!Set(j, r, call[r].doc)
  BY <1>1, <1>2 DEF Reader!GetCache, Reader!Fetch2, Reader!GetValue, Reader!GetLock, Reader!Goto,
     Reader!Fn, Reader!SetValue, Reader!GiveUp, Reader!GotOne, Reader!RedisFails
<1> QED
  BY <1>2 DEF Reader!Next, Reader!BatchGetCache, Reader!Crash, Reader!Age

\* No step of the calls leaves a key older.
LEMMA NewerStep ==
    ASSUME TypeOK, ReadInv, Reader!Next, NEW k \in Keys, NEW v \in Nat, v <= db[k], Newer(k, v)
    PROVE  Newer(k, v)'
<1>1. /\ Reader!Redis!Readable(k)' => cache'[k].value >= v
      /\ \A q \in Readers :
            call[q].stage = "set" /\ Reader!Key(q) = k /\ cache'[k].owner = q => call[q].doc >= v
  <2>1. CASE UNCHANGED cache
    BY <2>1 DEF Newer, Reader!Redis!Readable, Reader!Redis!StrongConsistency
  <2>2. ASSUME NEW j \in Keys, NEW r \in Readers,
               \/ Reader!Redis!Lock(j, r) /\ call[r].stage # "set"
               \/ Reader!Redis!Unlock(j, r)
               \/ /\ call[r].stage = "set" /\ j = Reader!Key(r)
                  /\ Reader!Redis!Set(j, r, call[r].doc)
        PROVE  <1>1!:
    BY <2>2, NewerScript
  <2>3. ASSUME NEW j \in Keys, Reader!Redis!Lapse(j) \/ Reader!Redis!Expire(j)
        PROVE  <1>1!:
    BY <2>3, NewerScript
  <2> QED
    BY <2>1, <2>2, <2>3, ScriptStep
<1>2. \A q \in Readers : call'[q].stage = "set" =>
         \/ call[q].stage = "set" /\ call'[q] = call[q]
         \/ /\ call[q].stage = "fn" /\ UNCHANGED cache
            /\ call'[q].keys = call[q].keys /\ call'[q].doc = db[Reader!Key(q)]
  BY SettersStep
<1>3. ASSUME NEW q \in Readers, call'[q].stage = "set", Reader!Key(q)' = k, cache'[k].owner = q
      PROVE  call'[q].doc >= v
  <2>1. CASE call[q].stage = "set" /\ call'[q] = call[q]
    BY <1>1, <1>3, <2>1 DEF Reader!Key
  <2>2. CASE call'[q].keys = call[q].keys /\ call'[q].doc = db[Reader!Key(q)]
    BY <1>3, <2>2 DEF Reader!Key, TypeOK, StoreType
  <2> QED
    BY <1>2, <1>3, <2>1, <2>2
<1> QED
  BY <1>1, <1>3 DEF Newer

\* A delete of other keys leaves a key no older, and nothing old is left of its own.
LEMMA NewerTag ==
    ASSUME TypeOK, NEW S, NEW k \in Keys, UNCHANGED call
    PROVE  \A v \in Nat :
              /\ Newer(k, v) /\ (Deleter!Redis!Tag(S) \/ UNCHANGED cache) => Newer(k, v)'
              /\ k \in S /\ Deleter!Redis!Tag(S) => Newer(k, v)'
<1>1. cache \in [Keys -> Entry] /\ Reader!Redis!NoOwner \notin Readers
  BY NoOwnerOK DEF TypeOK, StoreType
<1>2. ASSUME NEW v \in Nat, k \in S, Deleter!Redis!Tag(S)
      PROVE  Newer(k, v)'
  <2>1. cache'[k].lock = "free" /\ cache'[k].owner = Reader!Redis!NoOwner
    BY <1>1, <1>2 DEF Deleter!Redis!Tag, Deleter!Redis!NoOwner, Reader!Redis!NoOwner, Entry
  <2> QED
    BY <1>1, <2>1 DEF Newer, Reader!Redis!Readable, Reader!Redis!StrongConsistency
<1>3. ASSUME NEW v \in Nat, Newer(k, v), cache'[k] = cache[k]
      PROVE  Newer(k, v)'
  BY <1>3 DEF Newer, Reader!Redis!Readable, Reader!Redis!StrongConsistency, Reader!Key
<1>4. Deleter!Redis!Tag(S) /\ k \notin S => cache'[k] = cache[k]
  BY <1>1 DEF Deleter!Redis!Tag
<1> QED
  BY <1>2, <1>3, <1>4

\* DeleteInv after a step, by the values that the histories have then.
LEMMA DeleteInvNext ==
    ASSUME TypeOK',
           \A k \in Keys, v \in Nat : v = deleted'[k] => v <= db'[k] /\ Newer(k, v)',
           \A d \in Deleters, v \in Nat : \A k \in exec'[d].asked :
              v = since'[d][k] =>
                 v <= db'[k] /\ (k \notin UNION exec'[d].batches => Newer(k, v)')
    PROVE  DeleteInv'
<1>1. ASSUME NEW k \in Keys
      PROVE  deleted'[k] <= db'[k] /\ Newer(k, deleted[k])'
  <2>1. PICK v \in Nat : v = deleted'[k]
    BY DEF TypeOK, StoreType
  <2>2. v <= db'[k] /\ Newer(k, v)'
    BY <2>1
  <2> QED
    BY <2>1, <2>2 DEF Newer
<1>2. ASSUME NEW d \in Deleters, NEW k \in exec'[d].asked
      PROVE  /\ since'[d][k] <= db'[k]
             /\ k \notin UNION exec'[d].batches => Newer(k, since[d][k])'
  <2>1. PICK v \in Nat : v = since'[d][k]
    BY DEF TypeOK, ExecType
  <2>2. v <= db'[k] /\ (k \notin UNION exec'[d].batches => Newer(k, v)')
    BY <2>1
  <2> QED
    BY <2>1, <2>2 DEF Newer
<1> QED
  BY <1>1, <1>2 DEF DeleteInv

\* DeleteInv before it.
LEMMA DeleteInvNow ==
    ASSUME TypeOK, DeleteInv
    PROVE  /\ \A k \in Keys, v \in Nat : v = deleted[k] => v <= db[k] /\ Newer(k, v)
           /\ \A d \in Deleters, v \in Nat : \A k \in exec[d].asked :
                 /\ k \in Keys /\ since[d][k] \in Nat
                 /\ v = since[d][k] =>
                       v <= db[k] /\ (k \notin UNION exec[d].batches => Newer(k, v))
<1>1. \A d \in Deleters : \A k \in exec[d].asked : k \in Keys /\ since[d][k] \in Nat
  BY DEF TypeOK, ExecType, Exec
<1> QED
  BY <1>1 DEF DeleteInv

\* Every step keeps what the deletes reached.
LEMMA DeleteStep ==
    ASSUME IInv, TypeOK', Next
    PROVE  DeleteInv'
<1>0. TypeOK /\ SliceInv /\ DeleteInv /\ ReadInv
  BY DEF IInv
<1>1. /\ db \in [Keys -> Nat] /\ deleted \in [Keys -> Nat]
      /\ \A k \in Keys, v \in Nat : v = deleted[k] => v <= db[k] /\ Newer(k, v)
      /\ \A d \in Deleters, v \in Nat : \A k \in exec[d].asked :
            /\ k \in Keys /\ since[d][k] \in Nat
            /\ v = since[d][k] =>
                  v <= db[k] /\ (k \notin UNION exec[d].batches => Newer(k, v))
  BY <1>0, DeleteInvNow DEF TypeOK, StoreType
<1>2. ASSUME UNCHANGED <<exec, deleted, since>>,
             \A k \in Keys : db'[k] \in Nat /\ db'[k] >= db[k],
             \A k \in Keys, v \in Nat : v <= db[k] /\ Newer(k, v) => Newer(k, v)'
      PROVE  DeleteInv'
  <2>1. \A k \in Keys, v \in Nat : v <= db[k] => v <= db'[k]
    BY <1>1, <1>2
  <2> QED
    BY <1>1, <1>2, <2>1, DeleteInvNext
<1>3. ASSUME NEW k \in Keys, Write(k)
      PROVE  DeleteInv'
  <2>1. UNCHANGED <<exec, cache, deleted, call, since>>
        /\ \A j \in Keys : db'[j] \in Nat /\ db'[j] >= db[j]
    BY <1>1, <1>3 DEF Write, deleting
  <2>2. \A j \in Keys, v \in Nat : Newer(j, v) => Newer(j, v)'
    BY <2>1 DEF Newer, Reader!Redis!Readable, Reader!Redis!StrongConsistency, Reader!Key
  <2> QED
    BY <1>2, <2>1, <2>2
<1>4. CASE Collect
  <2>1. UNCHANGED <<exec, cache, db, deleted, call, since>>
    BY <1>4 DEF Collect, Deleter!Clone, Deleter!AddKeys
  <2>2. \A j \in Keys, v \in Nat : Newer(j, v) => Newer(j, v)'
    BY <2>1 DEF Newer, Reader!Redis!Readable, Reader!Redis!StrongConsistency, Reader!Key
  <2> QED
    BY <1>1, <1>2, <2>1, <2>2
<1>5. ASSUME NEW d \in Deleters, ExecDel(d)
      PROVE  DeleteInv'
  <2>1. /\ UNCHANGED <<cache, db, deleted, call>>
        /\ exec' = [exec EXCEPT ![d] = exec'[d]] /\ exec'[d] \in Exec
        /\ exec'[d].asked \subseteq UNION exec'[d].batches
        /\ since' = [since EXCEPT ![d] = [k \in exec'[d].asked |-> db[k]]]
    BY <1>0, <1>5, ExecDelEffect DEF SliceInv
  <2>2. \A j \in Keys, v \in Nat : Newer(j, v) => Newer(j, v)'
    BY <2>1 DEF Newer, Reader!Redis!Readable, Reader!Redis!StrongConsistency, Reader!Key
  <2>3. \A k \in exec'[d].asked : since'[d][k] = db[k] /\ k \in Keys /\ db[k] \in Nat
    BY <1>0, <1>1, <2>1 DEF TypeOK, ExecType, Exec
  <2>4. \A e \in Deleters \ {d} : exec'[e] = exec[e] /\ since'[e] = since[e]
    BY <1>0, <2>1 DEF TypeOK, ExecType
  <2>5. ASSUME NEW e \in Deleters, NEW v \in Nat, NEW k \in exec'[e].asked, v = since'[e][k]
        PROVE  v <= db'[k] /\ (k \notin UNION exec'[e].batches => Newer(k, v)')
    <3>1. CASE e = d
      BY <2>1, <2>3, <2>5, <3>1
    <3>2. CASE e # d
      BY <1>1, <2>1, <2>2, <2>4, <2>5, <3>2
    <3> QED
      BY <3>1, <3>2
  <2> QED
    BY <1>1, <2>1, <2>2, <2>5, DeleteInvNext
<1>6. ASSUME NEW d \in Deleters, NEW batch \in exec[d].batches,
             TagBatch(d, batch) \/ TagFails(d, batch)
      PROVE  DeleteInv'
  <2>1. /\ UNCHANGED <<db, call>> /\ batch \in SUBSET Keys
        /\ Deleter!Redis!Tag(batch) \/ UNCHANGED cache
    BY <1>0, <1>6, TagEffect
  <2>2. PICK reached \in SUBSET exec[d].asked :
           /\ Proceed(d, reached)
           /\ reached \cap batch # {} => Deleter!Redis!Tag(batch)
           /\ exec' = [exec EXCEPT ![d] = Deleter!Left(exec[d].batches \ {batch}, reached)]
    BY <1>0, <1>6, TagEffect
  <2>3. /\ exec'[d].asked \subseteq reached
        /\ exec'[d].batches = exec[d].batches \ {batch}
        /\ \A k \in exec'[d].asked : since'[d][k] = since[d][k]
        /\ \A e \in Deleters \ {d} : exec'[e] = exec[e] /\ since'[e] = since[e]
        /\ \A k \in Keys : \/ deleted'[k] = deleted[k]
                           \/ /\ deleted'[k] = since[d][k] /\ since[d][k] > deleted[k]
                              /\ k \in reached /\ exec'[d].batches = {}
    BY <1>0, <2>2, ProceedType
  <2>4. \A k \in Keys, v \in Nat : Newer(k, v) => Newer(k, v)'
    BY <1>0, <2>1, NewerTag
  <2>5. ASSUME NEW k \in reached, NEW v \in Nat, v = since[d][k],
               k \notin UNION exec'[d].batches
        PROVE  Newer(k, v)'
    <3>1. k \in Keys
      BY <1>1
    <3>2. CASE k \in batch
      <4>1. Deleter!Redis!Tag(batch)
        BY <2>2, <3>2
      <4> QED
        BY <1>0, <2>1, <3>1, <3>2, <4>1, NewerTag
    <3>3. CASE k \notin batch
      <4>1. k \notin UNION exec[d].batches
        BY <2>3, <2>5, <3>3
      <4> QED
        BY <1>1, <2>4, <2>5, <3>1, <4>1
    <3> QED
      BY <3>2, <3>3
  <2>6. ASSUME NEW k \in Keys, NEW v \in Nat, v = deleted'[k]
        PROVE  v <= db'[k] /\ Newer(k, v)'
    <3>1. CASE deleted'[k] = deleted[k]
      BY <1>1, <2>1, <2>4, <2>6, <3>1
    <3>2. CASE deleted'[k] = since[d][k] /\ k \in reached /\ exec'[d].batches = {}
      BY <1>1, <2>1, <2>5, <2>6, <3>2
    <3> QED
      BY <2>3, <3>1, <3>2
  <2>7. ASSUME NEW e \in Deleters, NEW v \in Nat, NEW k \in exec'[e].asked, v = since'[e][k]
        PROVE  v <= db'[k] /\ (k \notin UNION exec'[e].batches => Newer(k, v)')
    <3>1. CASE e = d
      <4>1. k \in reached /\ v = since[d][k] /\ k \in exec[d].asked
        BY <2>3, <2>7, <3>1
      <4> QED
        BY <1>1, <2>1, <2>5, <3>1, <4>1
    <3>2. CASE e # d
      BY <1>1, <2>1, <2>3, <2>4, <2>7, <3>2
    <3> QED
      BY <3>1, <3>2
  <2> QED
    BY <2>6, <2>7, DeleteInvNext
<1>7. CASE Reader!Next /\ UNCHANGED <<deleting, since>>
  <2>1. UNCHANGED <<db, deleted, exec, since>>
    BY <1>0, <1>7, ReaderType DEF deleting, TypeOK, StoreType
  <2>2. \A k \in Keys, v \in Nat : v <= db[k] /\ Newer(k, v) => Newer(k, v)'
    BY <1>0, <1>7, NewerStep
  <2> QED
    BY <1>1, <1>2, <2>1, <2>2
<1> QED
  BY <1>3, <1>4, <1>5, <1>6, <1>7 DEF Next

\* What ReadInv says of one call.
CallOK(c) ==
    /\ c.stage \notin {"idle", "done"} => c.keys # <<>>
    /\ c.stage \in {"get", "fn", "set", "missing"} => c.floor <= deleted[Head(c.keys)]
    /\ c.stage \in {"set", "got"} => c.doc >= c.floor
    /\ c.stage = "missing" => c.floor = 0

\* What a call may become without knowing less.
LEMMA GoesOnOK ==
    ASSUME NEW c \in Call, CallOK(c)
    PROVE  /\ c.stage = "next" => \A q \in Readers : CallOK([c EXCEPT !.stage = "joined", !.lead = q])
           /\ c.stage = "next" /\ deleted[Head(c.keys)] \in Nat =>
                 \A q \in Readers :
                    CallOK([c EXCEPT !.stage = "get", !.lead = q, !.floor = deleted[Head(c.keys)]])
           /\ \A host, list : list # <<>> =>
                 CallOK([c EXCEPT !.stage = "next", !.host = host, !.keys = list])
           /\ \A list : list # <<>> =>
                 CallOK([c EXCEPT !.stage = "next", !.keys = list, !.doc = 0, !.floor = 0])
           /\ c.stage = "get" => CallOK([c EXCEPT !.stage = "fn"])
           /\ c.stage = "fn" => CallOK([c EXCEPT !.stage = "error"])
           /\ c.stage = "fn" /\ c.floor = 0 => CallOK([c EXCEPT !.stage = "missing"])
           /\ \A doc : c.stage = "fn" /\ doc >= c.floor => CallOK([c EXCEPT !.stage = "set", !.doc = doc])
           /\ \A q, doc, floor : c.stage \notin {"idle", "done"} /\ doc >= floor =>
                 CallOK([c EXCEPT !.stage = "got", !.lead = q, !.doc = doc, !.floor = floor])
  BY DEF CallOK, Call

\* A fetch tells all who share it something that is new enough.
LEMMA AnswerOK ==
    ASSUME call \in [Readers -> Call], \A q \in Readers : CallOK(call[q]), NEW r \in Readers,
           call[r].stage \notin {"idle", "done"},
           NEW doc, \/ Reader!Answer(r, doc) /\ doc >= call[r].floor
                    \/ Reader!Fail(r)
    PROVE  \A q \in Readers : CallOK(call'[q])
<1>1. CASE Reader!Answer(r, doc) /\ doc >= call[r].floor
  <2>1. ASSUME NEW q \in Readers
        PROVE  CallOK(call'[q])
    <3>1. CASE q \in Reader!Sharing(r)
      <4>1. call[q].stage \notin {"idle", "done"}
        BY <3>1 DEF Reader!Sharing
      <4>2. CallOK([call[q] EXCEPT !.stage = "got", !.lead = q, !.doc = doc, !.floor = call[r].floor])
        BY <1>1, <4>1, GoesOnOK
      <4> QED
        BY <1>1, <3>1, <4>2 DEF Reader!Answer
    <3>2. CASE q \notin Reader!Sharing(r)
      BY <1>1, <3>2 DEF Reader!Answer
    <3> QED
      BY <3>1, <3>2
  <2> QED
    BY <2>1
<1>2. CASE Reader!Fail(r)
  BY <1>2, OverType DEF Reader!Fail, CallOK
<1> QED
  BY <1>1, <1>2

\* Every step keeps what the calls know of the deletes.
LEMMA ReadStep ==
    ASSUME IInv, Next
    PROVE  ReadInv'
<1>0. /\ ReadInv /\ DeleteInv
      /\ cache \in [Keys -> Entry] /\ db \in [Keys -> Nat] /\ deleted \in [Keys -> Nat]
      /\ call \in [Readers -> Call]
  BY DEF IInv, TypeOK, StoreType
<1>1. ASSUME UNCHANGED call, \A k \in Keys : deleted'[k] \in Nat /\ deleted'[k] >= deleted[k]
      PROVE  ReadInv'
  <2>1. ASSUME NEW r \in Readers, call[r].stage \in {"get", "fn", "set", "missing"}
        PROVE  call[r].floor <= deleted'[Reader!Key(r)]
    <3>1. Reader!Key(r) \in Keys /\ call[r].floor \in Nat
          /\ call[r].floor <= deleted[Reader!Key(r)]
      <4>1. call[r].keys \in Seq(Keys) /\ call[r].keys # <<>> /\ call[r].floor \in Nat
        BY <1>0, <2>1 DEF ReadInv, Call
      <4> QED
        BY <1>0, <2>1, <4>1 DEF ReadInv, Reader!Key
    <3> QED
      BY <1>0, <1>1, <3>1
  <2> QED
    BY <1>0, <1>1, <2>1 DEF ReadInv, Reader!Key
<1>2. ASSUME NEW k \in Keys, Write(k)
      PROVE  ReadInv'
  BY <1>0, <1>1, <1>2 DEF Write
<1>3. CASE Collect
  BY <1>0, <1>1, <1>3 DEF Collect
<1>4. ASSUME NEW d \in Deleters, ExecDel(d)
      PROVE  ReadInv'
  BY <1>0, <1>1, <1>4 DEF ExecDel
<1>5. ASSUME NEW d \in Deleters, NEW batch \in exec[d].batches,
             TagBatch(d, batch) \/ TagFails(d, batch)
      PROVE  ReadInv'
  <2>1. PICK reached \in SUBSET exec[d].asked :
           /\ Proceed(d, reached)
           /\ exec' = [exec EXCEPT ![d] = Deleter!Left(exec[d].batches \ {batch}, reached)]
    BY <1>5, TagEffect DEF IInv
  <2>2. deleted' \in [Keys -> Nat]
        /\ \A k \in Keys : deleted'[k] = deleted[k] \/ deleted'[k] > deleted[k]
    BY <2>1, ProceedType DEF IInv
  <2>3. UNCHANGED call
    BY <1>5, TagEffect DEF IInv
  <2> QED
    BY <1>0, <1>1, <2>2, <2>3
<1>6. CASE Reader!Next /\ UNCHANGED <<deleting, since>>
  <2>1. \A q \in Readers : call[q] \in Call /\ CallOK(call[q])
    BY <1>0 DEF ReadInv, CallOK, Reader!Key
  <2>2. UNCHANGED deleted /\ call' \in [Readers -> Call]
    BY <1>0, <1>6, ReaderType
  <2>3. ASSUME NEW r \in Readers, call[r].stage \notin {"idle", "done"}
        PROVE  /\ Reader!Key(r) \in Keys /\ Reader!Key(r) = Head(call[r].keys)
               /\ db[Reader!Key(r)] \in Nat /\ deleted[Reader!Key(r)] \in Nat
               /\ cache[Reader!Key(r)] \in Entry
               /\ deleted[Reader!Key(r)] <= db[Reader!Key(r)]
               /\ Newer(Reader!Key(r), deleted[Reader!Key(r)])
    <3>1. call[r].keys \in Seq(Keys) /\ call[r].keys # <<>>
      BY <1>0, <2>3 DEF ReadInv, Call
    <3>2. Reader!Key(r) \in Keys
      BY <3>1 DEF Reader!Key
    <3> QED
      BY <1>0, <3>2 DEF Reader!Key, DeleteInv
  <2>4. ASSUME NEW r \in Readers, NEW host \in Hosts[r], NEW list \in Lists[r],
               Reader!BatchGetCache(r, host, list)
        PROVE  \A q \in Readers : CallOK(call'[q])
    <3>1. CASE list = <<>>
      BY <1>0, <2>1, <2>4, <3>1, OverType DEF Reader!BatchGetCache, CallOK
    <3>2. CASE list # <<>>
      <4>1. CallOK([call[r] EXCEPT !.stage = "next", !.host = host, !.keys = list])
        BY <2>1, <3>2, GoesOnOK
      <4> QED
        BY <1>0, <2>1, <2>4, <3>2, <4>1 DEF Reader!BatchGetCache
    <3> QED
      BY <3>1, <3>2
  <2>5. ASSUME NEW r \in Readers, Reader!Fetch2(r)
        PROVE  \A q \in Readers : CallOK(call'[q])
    <3>1. call[r].stage = "next" /\ Reader!Key(r) = Head(call[r].keys)
          /\ deleted[Head(call[r].keys)] \in Nat
      BY <2>3, <2>5 DEF Reader!Fetch2
    <3>2. /\ \A p \in Readers : CallOK([call[r] EXCEPT !.stage = "joined", !.lead = p])
          /\ CallOK([call[r] EXCEPT !.stage = "get", !.lead = r, !.floor = deleted[Head(call[r].keys)]])
      BY <2>1, <3>1, GoesOnOK
    <3>3. \/ \E p \in Readers : call' = [call EXCEPT ![r] = [call[r] EXCEPT !.stage = "joined", !.lead = p]]
          \/ call' = [call EXCEPT ![r] = [call[r] EXCEPT !.stage = "get", !.lead = r,
                                                         !.floor = deleted[Head(call[r].keys)]]]
      BY <1>0, <2>5, <3>1 DEF Reader!Fetch2, Reader!Running
    <3> QED
      BY <1>0, <2>1, <3>2, <3>3
  <2>6. ASSUME NEW r \in Readers, Reader!GotOne(r)
        PROVE  \A q \in Readers : CallOK(call'[q])
    <3>1. CASE Len(call[r].keys) = 1
      BY <1>0, <2>1, <2>6, <3>1, OverType DEF Reader!GotOne, CallOK
    <3>2. CASE Len(call[r].keys) # 1
      <4>1. call[r].keys \in Seq(Keys) /\ call[r].keys # <<>>
        BY <1>0, <2>6 DEF Reader!GotOne, ReadInv, Call
      <4>2. Tail(call[r].keys) # <<>>
        <5>1. Len(Tail(call[r].keys)) = Len(call[r].keys) - 1 /\ Len(call[r].keys) \in Nat \ {0}
          BY <4>1, HeadTailProperties, EmptySeq
        <5> QED
          <6>1. Len(Tail(call[r].keys)) # 0
            BY <3>2, <5>1
          <6> DEFINE rest == Tail(call[r].keys)
          <6> HIDE DEF rest
          <6>2. Len(rest) # 0 => rest # <<>>
            OBVIOUS
          <6> QED
            BY <6>1, <6>2 DEF rest
      <4>3. CallOK([call[r] EXCEPT !.stage = "next", !.keys = Tail(call[r].keys), !.doc = 0, !.floor = 0])
        BY <2>1, <4>2, GoesOnOK
      <4> QED
        BY <1>0, <2>1, <2>6, <3>2, <4>3 DEF Reader!GotOne
    <3> QED
      BY <3>1, <3>2
  <2>7. ASSUME NEW r \in Readers, Reader!GetValue(r)
        PROVE  \A q \in Readers : CallOK(call'[q])
    <3>1. cache[Reader!Key(r)].value >= deleted[Reader!Key(r)] /\ cache[Reader!Key(r)].value \in Nat
          /\ deleted[Reader!Key(r)] \in Nat
      BY <2>3, <2>7 DEF Reader!GetValue, Newer, Entry
    <3>2. call[r].floor <= deleted[Reader!Key(r)] /\ call[r].floor \in Nat
      BY <1>0, <2>7 DEF Reader!GetValue, ReadInv, Call
    <3>3. cache[Reader!Key(r)].value >= call[r].floor
      BY <3>1, <3>2
    <3> QED
      BY <1>0, <2>1, <2>7, <3>3, AnswerOK DEF Reader!GetValue
  <2>8. ASSUME NEW r \in Readers, Reader!GetLock(r)
        PROVE  \A q \in Readers : CallOK(call'[q])
    <3>1. CallOK([call[r] EXCEPT !.stage = "fn"])
      BY <2>1, <2>8, GoesOnOK DEF Reader!GetLock, Reader!Goto
    <3> QED
      BY <1>0, <2>1, <2>8, <3>1 DEF Reader!GetLock, Reader!Goto
  <2>9. ASSUME NEW r \in Readers, Reader!Fn(r)
        PROVE  \A q \in Readers : CallOK(call'[q])
    <3>1. /\ call[r].stage = "fn" /\ call[r].floor \in Nat
          /\ call[r].floor <= deleted[Reader!Key(r)] /\ deleted[Reader!Key(r)] \in Nat
          /\ deleted[Reader!Key(r)] <= db[Reader!Key(r)] /\ db[Reader!Key(r)] \in Nat
      BY <1>0, <2>3, <2>9 DEF Reader!Fn, ReadInv, Call
    <3>2. CallOK([call[r] EXCEPT !.stage = "set", !.doc = db[Reader!Key(r)]])
          /\ CallOK([call[r] EXCEPT !.stage = "error"])
      <4>1. db[Reader!Key(r)] >= call[r].floor
        BY <3>1
      <4> QED
        BY <2>1, <3>1, <4>1, GoesOnOK
    <3>3. CASE db[Reader!Key(r)] = 0 /\ Reader!Goto(r, "fn", "missing")
      <4>1. call[r].floor = 0
        BY <3>1, <3>3
      <4>2. CallOK([call[r] EXCEPT !.stage = "missing"])
        BY <2>1, <3>1, <4>1, GoesOnOK
      <4> QED
        BY <1>0, <2>1, <3>3, <4>2 DEF Reader!Goto
    <3>4. CASE \/ call' = [call EXCEPT ![r] = [call[r] EXCEPT !.stage = "set", !.doc = db[Reader!Key(r)]]]
               \/ call' = [call EXCEPT ![r] = [call[r] EXCEPT !.stage = "error"]]
      BY <1>0, <2>1, <3>2, <3>4
    <3> QED
      BY <1>0, <2>9, <3>3, <3>4 DEF Reader!Fn, Reader!Goto
  <2>10. ASSUME NEW r \in Readers,
                Reader!SetValue(r) \/ Reader!GiveUp(r) \/ Reader!RedisFails(r)
         PROVE  \A q \in Readers : CallOK(call'[q])
    <3>1. call[r].stage \notin {"idle", "done"}
      BY <2>10 DEF Reader!SetValue, Reader!GiveUp, Reader!RedisFails
    <3>2. \E doc : (Reader!Answer(r, doc) /\ doc >= call[r].floor) \/ Reader!Fail(r)
      BY <1>0, <2>10 DEF Reader!SetValue, Reader!GiveUp, Reader!RedisFails, ReadInv
    <3> QED
      BY <1>0, <2>1, <3>1, <3>2, AnswerOK
  <2>11. ASSUME NEW host, Reader!Crash(host)
         PROVE  \A q \in Readers : CallOK(call'[q])
    BY <2>1, <2>11, OverType DEF Reader!Crash, CallOK
  <2>12. ASSUME NEW k \in Keys, Reader!Age(k)
         PROVE  \A q \in Readers : CallOK(call'[q])
    BY <2>1, <2>12 DEF Reader!Age
  <2>13. \A q \in Readers : CallOK(call'[q])
    BY <1>6, <2>4, <2>5, <2>6, <2>7, <2>8, <2>9, <2>10, <2>11, <2>12
       DEF Reader!Next, Reader!GetCache
  <2> QED
    BY <2>2, <2>13 DEF ReadInv, CallOK, Reader!Key
<1> QED
  BY <1>2, <1>3, <1>4, <1>5, <1>6 DEF Next

-----------------------------------------------------------------------------
(* The theorems *)

\* At first nothing is cached, collected or under way.
LEMMA InitIInv ==
    ASSUME Init
    PROVE  IInv
<1>1. /\ heap = <<>> /\ made = {Root} /\ cloned = {}
      /\ keys = [d \in Deleters |-> [array |-> 0, len |-> 0]]
      /\ meant = [d \in Deleters |-> <<>>] /\ exec = [d \in Deleters |-> Deleter!NoExec]
      /\ since = [d \in Deleters |-> <<>>]
  BY DEF Init, Deleter!Init
<1>2. /\ cache = [k \in Keys |-> Reader!Redis!Absent]
      /\ db = [k \in Keys |-> 0] /\ deleted = [k \in Keys |-> 0]
      /\ call = [r \in Readers |-> Reader!NoCall(r)]
  BY DEF Init, Reader!Init
<1>3. SliceType
  BY <1>1, ConstantsOK, EmptySeq DEF SliceType, Slice, Deleter!Capacity
<1>4. ExecType
  <2>1. <<>> \in [{} -> Nat]
    OBVIOUS
  <2> QED
    BY <1>1, <2>1 DEF ExecType, Exec, Deleter!NoExec
<1>5. ASSUME NEW r \in Readers
      PROVE  call[r] \in Call /\ call[r].stage = "idle"
  <2>1. call[r] = [stage |-> "idle", host |-> Reader!NoHost, keys |-> <<>>, lead |-> r,
                   doc |-> 0, floor |-> 0]
    BY <1>2 DEF Reader!NoCall
  <2> QED
    BY <2>1 DEF Call, Reader!Stages
<1>6. StoreType
  BY <1>2, <1>5 DEF StoreType, Entry, Reader!Redis!Absent
<1>7. SliceInv
  BY <1>1, ConstantsOK DEF SliceInv, Deleter!NoPollution, Deleter!View
<1>8. DeleteInv
  <2>1. ASSUME NEW k \in Keys
        PROVE  deleted[k] = 0 /\ db[k] = 0 /\ Newer(k, 0)
    BY <1>2, <1>5, <2>1 DEF Newer, Reader!Redis!Readable, Reader!Redis!StrongConsistency, Reader!Redis!Absent
  <2>2. \A d \in Deleters : exec[d].asked = {}
    BY <1>1 DEF Deleter!NoExec
  <2> QED
    BY <2>1, <2>2 DEF DeleteInv, Newer
<1>9. ReadInv
  BY <1>5 DEF ReadInv
<1> QED
  BY <1>3, <1>4, <1>6, <1>7, <1>8, <1>9 DEF IInv, TypeOK

\* Every step of every actor keeps the invariant.
LEMMA StepIInv ==
    ASSUME Chained, IInv, [Next]_vars
    PROVE  IInv'
<1>1. CASE Next
  <2>1. TypeOK'
    BY <1>1, TypeStep DEF IInv, SliceInv
  <2> QED
    BY <1>1, <2>1, SliceStep, DeleteStep, ReadStep DEF IInv
<1>2. CASE UNCHANGED vars
  <2>1. UNCHANGED <<heap, keys, made, cloned, meant, exec, cache, db, deleted, call, since>>
    BY <1>2 DEF vars, deleting
  <2>2. TypeOK'
    BY <2>1, UnchangedTypes DEF IInv, TypeOK
  <2>3. SliceInv' /\ ReadInv'
    BY <2>1 DEF IInv, SliceInv, Shared, ReadInv, Deleter!NoPollution, Deleter!View, Reader!Key
  <2>4. DeleteInv'
    BY <2>1 DEF IInv, DeleteInv, Newer, Reader!Redis!Readable, Reader!Redis!StrongConsistency, Reader!Key
  <2> QED
    BY <2>2, <2>3, <2>4 DEF IInv
<1> QED
  BY <1>1, <1>2

\* If every chain starts from a root that collects nothing, as the comment of Clone
\* has it, the invariant holds of everything that the callers, the deleters, the
\* writers, Redis and the crashes of processes can do.
THEOREM Inductive == Chained /\ Spec => []IInv
<1>1. SUFFICES ASSUME Chained PROVE Spec => []IInv
  OBVIOUS
<1>2. Init => IInv
  BY InitIInv
<1>3. IInv /\ [Next]_vars => IInv'
  BY <1>1, StepIInv
<1> QED
  BY <1>2, <1>3, PTL DEF Spec

\* The types of the ten variables.
THEOREM CachedStoreTypes == Chained /\ Spec => []TypeOK
<1>1. IInv => TypeOK
  BY DEF IInv
<1> QED
  BY <1>1, Inductive, PTL

\* "Clone creates a copy ... to prevent memory pollution" (batch_handler.go) falls short of
\* that, since it shares the array.  It is kept if callers chain as Chained says: each
\* deleter of a chain, also one that was cloned with its keys and reads them later,
\* reads what it was given.
THEOREM ClonesApart == Chained /\ Spec => []Deleter!NoPollution
<1>1. IInv => Deleter!NoPollution
  BY DEF IInv, SliceInv
<1> QED
  BY <1>1, Inductive, PTL

\* "StrongConsistency = true" (GetRocksCacheOptions): after an execDel the cache serves no
\* document older than the one there was when it began.
THEOREM CacheIsFresh == Chained /\ Spec => []CacheFresh
<1>1. IInv => CacheFresh
  BY DEF IInv, DeleteInv, Newer, CacheFresh
<1> QED
  BY <1>1, Inductive, PTL

\* No call of getCache or batchGetCache returns a document older than the last
\* delete before the fetch that it shares.
THEOREM ReadsAreFresh == Chained /\ Spec => []ReadFresh
<1>1. IInv => ReadFresh
  BY DEF IInv, ReadInv, ReadFresh
<1> QED
  BY <1>1, Inductive, PTL
=============================================================================
