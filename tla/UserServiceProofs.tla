------------------------- MODULE UserServiceProofs -------------------------
(***************************************************************************)
(* Theorems of UserService, for any number of users, calls and processes.  *)
(***************************************************************************)
EXTENDS UserService, FiniteSetTheorems, TLAPS

\* The variables keep their types through every handler, every step of MongoDB
\* and every crash.
LEMMA TypeInit == Init => TypeOK
  BY ConstantsOK DEF Init, TypeOK, Calls, User, NoAnswer

LEMMA TypeStep == TypeOK /\ [Next]_vars => TypeOK'
<1> SUFFICES ASSUME TypeOK, [Next]_vars PROVE TypeOK'
  OBVIOUS
<1> USE ConstantsOK DEF TypeOK, store, request, Calls, Arrives
<1>1. ASSUME NEW c \in RegisterCalls, NEW s \in Servers, NEW b \in Batches,
             UserRegisterReject(c, s, b)
      PROVE  TypeOK'
  BY <1>1 DEF UserRegisterReject, Tell
<1>2. ASSUME NEW c \in RegisterCalls, NEW s \in Servers, NEW b \in Batches,
             UserRegisterCreate(c, s, b)
      PROVE  TypeOK'
  BY <1>2 DEF UserRegisterCreate
<1>3. ASSUME NEW c \in RegisterCalls, UserRegisterReturn(c)
      PROVE  TypeOK'
  <2>1. counter' \in [Servers -> Nat]
    <3>1. CASE srv[c] \in Servers
      BY <1>3, <3>1 DEF UserRegisterReturn, Count
    <3>2. CASE srv[c] \notin Servers
      <4>1. counter' = counter
        BY <1>3, <3>2 DEF UserRegisterReturn, Count
      <4> QED
        BY <4>1
    <3> QED
      BY <3>1, <3>2
  <2> QED
    BY <1>3, <2>1 DEF UserRegisterReturn, Tell
<1>4. ASSUME NEW c \in RegisterCalls, UserRegisterFail(c)
      PROVE  TypeOK'
  BY <1>4 DEF UserRegisterFail, FailureReply, Tell
<1>5. ASSUME NEW c \in RegisterCalls, InsertNext(c)
      PROVE  TypeOK'
  <2>1. Document(c, pos[c]) \in [userID : UserIDs, nickname : Nicknames, by : RegisterCalls]
    <3>1. pos[c] \in DOMAIN users[c] /\ users[c] \in Seq(User)
      BY <1>5 DEF InsertNext
    <3>2. users[c][pos[c]] \in User
      BY <3>1
    <3> QED
      BY <3>2 DEF Document, User
  <2> QED
    BY <1>5, <2>1 DEF InsertNext
<1>6. ASSUME NEW c \in RegisterCalls, InsertDuplicate(c) \/ InsertDone(c) \/ InsertAbort(c)
      PROVE  TypeOK'
  BY <1>6 DEF InsertDuplicate, InsertDone, InsertAbort
<1>7. ASSUME NEW g \in GetCalls, NEW s \in Servers, NEW q \in Queries,
             GetDesignateUsers(g, s, q)
      PROVE  TypeOK'
  BY <1>7 DEF GetDesignateUsers
<1>8. ASSUME NEW g \in GetCalls, Take(g)
      PROVE  TypeOK'
  <2>1. ASSUME NEW d \in docs
        PROVE  <<[userID |-> d.userID, nickname |-> d.nickname]>> \in Seq(User)
    <3>1. [userID |-> d.userID, nickname |-> d.nickname] \in User
      BY DEF User
    <3> QED
      BY <3>1
  <2>2. read' \in [GetCalls -> Seq(User)]
    <3>1. CASE UNCHANGED read
      BY <3>1
    <3>2. ASSUME NEW d \in docs,
                 read' = [read EXCEPT ![g] = <<[userID |-> d.userID, nickname |-> d.nickname]>>]
          PROVE  read' \in [GetCalls -> Seq(User)]
      BY <2>1, <3>2
    <3> QED
      BY <1>8, <3>1, <3>2 DEF Take
  <2> QED
    BY <1>8, <2>2 DEF Take
<1>9. ASSUME NEW g \in GetCalls, GetReturn(g)
      PROVE  TypeOK'
  <2>1. UsersDB2Pb(read[g]) \in Seq(User)
    <3>1. \A i \in DOMAIN read[g] : read[g][i] \in User
      OBVIOUS
    <3>2. \A i \in DOMAIN read[g] :
            [userID |-> read[g][i].userID, nickname |-> read[g][i].nickname] \in User
      BY <3>1 DEF User
    <3>3. PICK n \in Nat : DOMAIN read[g] = 1..n
      BY DEF User
    <3>4. UsersDB2Pb(read[g]) \in [1..n -> User]
      BY <3>2, <3>3 DEF UsersDB2Pb
    <3> QED
      BY <3>4
  <2> QED
    BY <1>9, <2>1 DEF GetReturn, Give, NoAnswer
<1>10. ASSUME NEW g \in GetCalls, GetFail(g)
      PROVE  TypeOK'
  BY <1>10 DEF GetFail, Give, NoAnswer
<1>11. ASSUME NEW c \in Calls, Disconnect(c)
      PROVE  TypeOK'
  <2>1. CASE c \in RegisterCalls /\ Tell(c, "lost") /\ UNCHANGED got
    BY <1>11, <2>1 DEF Disconnect, Tell
  <2>2. CASE /\ c \in GetCalls /\ Give(c, [is |-> "lost", users |-> <<>>])
             /\ UNCHANGED told
    BY <1>11, <2>2 DEF Disconnect, Give, NoAnswer
  <2> QED
    BY <1>11, <2>1, <2>2 DEF Disconnect
<1>12. ASSUME NEW s \in Servers, Crash(s)
      PROVE  TypeOK'
  BY <1>12 DEF Crash, InHand, NoAnswer
<1>13. ASSUME NEW s \in Servers, Start(s)
      PROVE  TypeOK'
  BY <1>13 DEF Start
<1>14. ASSUME NEW c \in RegisterCalls, NEW b \in Batches, UserRegisterUnchecked(c, b)
       PROVE  TypeOK'
  BY <1>14 DEF UserRegisterUnchecked, Tell
<1>15. ASSUME NEW g \in GetCalls, NEW q \in Queries, GetUnchecked(g, q)
       PROVE  TypeOK'
  BY <1>15 DEF GetUnchecked, Give, NoAnswer
<1>16. CASE UNCHANGED vars
  BY <1>16 DEF vars
<1> QED
  BY <1>1, <1>2, <1>3, <1>4, <1>5, <1>6, <1>7, <1>8, <1>9, <1>10, <1>11, <1>12,
     <1>13, <1>14, <1>15, <1>16 DEF Next, UserRegister, InsertMany, InsertProceeds, Lookup

\* Every handler, command and process keeps its variables in their types.
THEOREM TypeCorrect == Spec => []TypeOK
<1> QED
  BY TypeInit, TypeStep, PTL DEF Spec

-----------------------------------------------------------------------------
(* The inductive invariant *)

\* Before the first call nothing disagrees.
LEMMA CallInit == Init => CallInv
  BY DEF Init, CallInv, Calls

\* How far a command is stays in agreement with its handler and its caller.
LEMMA CallStep == TypeOK /\ CallInv /\ [Next]_vars => CallInv'
<1> SUFFICES ASSUME TypeOK, CallInv, [Next]_vars PROVE CallInv'
  OBVIOUS
<1> USE ConstantsOK DEF TypeOK, CallInv, store, request, Calls, Arrives
<1>1. ASSUME NEW c \in RegisterCalls, NEW s \in Servers, NEW b \in Batches,
             UserRegisterReject(c, s, b)
      PROVE  CallInv'
  BY <1>1 DEF UserRegisterReject, Tell
<1>2. ASSUME NEW c \in RegisterCalls, NEW s \in Servers, NEW b \in Batches,
             UserRegisterCreate(c, s, b)
      PROVE  CallInv'
  BY <1>2 DEF UserRegisterCreate
<1>3. ASSUME NEW c \in RegisterCalls, UserRegisterReturn(c)
      PROVE  CallInv'
  BY <1>3 DEF UserRegisterReturn, Succeeded, Count, Tell
<1>4. ASSUME NEW c \in RegisterCalls, UserRegisterFail(c)
      PROVE  CallInv'
  BY <1>4 DEF UserRegisterFail, FailureReply, Tell
<1>5. ASSUME NEW c \in RegisterCalls, InsertNext(c)
      PROVE  CallInv'
  BY <1>5 DEF InsertNext
<1>6. ASSUME NEW c \in RegisterCalls, InsertDuplicate(c) \/ InsertDone(c) \/ InsertAbort(c)
      PROVE  CallInv'
  BY <1>6 DEF InsertDuplicate, InsertDone, AllInserted, InsertAbort
<1>7. ASSUME NEW g \in GetCalls, Lookup(g)
      PROVE  CallInv'
  <2>1. /\ UNCHANGED <<cmd, pos, users, told>>
        /\ \A c \in RegisterCalls : stage'[c] = stage[c]
    BY <1>7 DEF Lookup, GetUnchecked, GetDesignateUsers, Take, GetReturn, GetFail
  <2> QED
    BY <2>1
<1>8. ASSUME NEW c \in Calls, Disconnect(c)
      PROVE  CallInv'
  BY <1>8 DEF Disconnect, Tell
<1>9. ASSUME NEW s \in Servers, Crash(s)
      PROVE  CallInv'
  BY <1>9 DEF Crash, InHand
<1>10. ASSUME NEW s \in Servers, Start(s)
      PROVE  CallInv'
  BY <1>10 DEF Start
<1>11. ASSUME NEW c \in RegisterCalls, NEW b \in Batches, UserRegisterUnchecked(c, b)
       PROVE  CallInv'
  BY <1>11 DEF UserRegisterUnchecked, Tell
<1>12. CASE UNCHANGED vars
  BY <1>12 DEF vars
<1> QED
  BY <1>1, <1>2, <1>3, <1>4, <1>5, <1>6, <1>7, <1>8, <1>9, <1>10, <1>11, <1>12
     DEF Next, UserRegister, InsertMany, InsertProceeds

\* The collection starts empty, as do the commands.
LEMMA StoreInit == Init => StoreInv
  BY DEF Init, StoreInv, UniqueUserID

\* The collection stays what the commands have inserted.
LEMMA StoreStep == TypeOK /\ CallInv /\ StoreInv /\ [Next]_vars => StoreInv'
<1> SUFFICES ASSUME TypeOK, CallInv, StoreInv, [Next]_vars PROVE StoreInv'
  OBVIOUS
<1> USE DEF store, request, Arrives
<1>1. ASSUME NEW c \in RegisterCalls, UserRegister(c)
      PROVE  StoreInv'
  <2>1. UNCHANGED <<docs, pos>>
    BY <1>1 DEF UserRegister, UserRegisterUnchecked, UserRegisterReject, UserRegisterCreate,
                UserRegisterReturn, UserRegisterFail
  <2>2. ASSUME NEW d \in RegisterCalls, users'[d] # users[d]
        PROVE  pos[d] = 1
    BY <1>1, <2>2 DEF UserRegister, UserRegisterUnchecked, UserRegisterReject, UserRegisterCreate,
                UserRegisterReturn, UserRegisterFail, TypeOK, CallInv
  <2>3. \A d \in docs : d.by \in RegisterCalls /\ pos[d.by] # 1
    BY DEF TypeOK, StoreInv
  <2>4. ASSUME NEW d \in docs
        PROVE  users'[d.by] = users[d.by]
    BY <2>2, <2>3
  <2>5. UniqueUserID'
    BY <2>1 DEF StoreInv, UniqueUserID
  <2>6. ASSUME NEW d \in docs'
        PROVE  \E i \in DOMAIN users'[d.by] : i < pos'[d.by] /\ d = Document(d.by, i)'
    BY <2>1, <2>4 DEF StoreInv, Document
  <2>7. ASSUME NEW d \in RegisterCalls, NEW i \in DOMAIN users'[d], i < pos'[d]
        PROVE  Stored(d, i)'
    <3>1. pos[d] # 1
      <4>1. TypeOK'
        BY TypeStep
      <4> QED
        BY <2>1, <2>7, <4>1 DEF TypeOK
    <3>2. users'[d] = users[d]
      BY <2>2, <3>1
    <3> QED
      BY <2>1, <2>7, <3>2 DEF StoreInv, Stored, Document
  <2> QED
    BY <2>5, <2>6, <2>7 DEF StoreInv
<1>2. ASSUME NEW c \in RegisterCalls, InsertNext(c)
      PROVE  StoreInv'
  <2>1. /\ docs' = docs \cup {Document(c, pos[c])}
        /\ pos' = [pos EXCEPT ![c] = @ + 1]
        /\ users' = users
        /\ pos[c] \in DOMAIN users[c]
        /\ ~Taken(users[c][pos[c]].userID)
    BY <1>2 DEF InsertNext, TypeOK
  <2>2. UniqueUserID'
    BY <2>1 DEF StoreInv, UniqueUserID, Taken, Document
  <2>3. ASSUME NEW d \in docs'
        PROVE  \E i \in DOMAIN users'[d.by] : i < pos'[d.by] /\ d = Document(d.by, i)'
    <3>1. CASE d = Document(c, pos[c])
      BY <2>1, <3>1 DEF Document, TypeOK
    <3>2. CASE d \in docs
      BY <2>1, <3>2 DEF StoreInv, Document, TypeOK
    <3> QED
      BY <2>1, <3>1, <3>2
  <2>4. ASSUME NEW e \in RegisterCalls, NEW i \in DOMAIN users'[e], i < pos'[e]
        PROVE  Stored(e, i)'
    <3>1. CASE e = c /\ i = pos[c]
      BY <2>1, <3>1 DEF Stored, Document
    <3>2. CASE i < pos[e]
      BY <2>1, <2>4, <3>2 DEF StoreInv, Stored, Document
    <3>3. e = c => i < pos[c] + 1
      BY <2>1, <2>4 DEF TypeOK
    <3>4. e # c => i < pos[e]
      BY <2>1, <2>4 DEF TypeOK
    <3>5. i \in Nat /\ pos[c] \in Nat
      BY <2>1, <2>4 DEF TypeOK
    <3> QED
      BY <3>1, <3>2, <3>3, <3>4, <3>5
  <2> QED
    BY <2>2, <2>3, <2>4 DEF StoreInv
<1>3. ASSUME UNCHANGED <<docs, pos, users>>
      PROVE  StoreInv'
  BY <1>3 DEF StoreInv, UniqueUserID, Stored, Document
<1>4. ASSUME NEW c \in RegisterCalls, InsertDuplicate(c) \/ InsertDone(c) \/ InsertAbort(c)
      PROVE  UNCHANGED <<docs, pos, users>>
  BY <1>4 DEF InsertDuplicate, InsertDone, InsertAbort
<1>5. ASSUME NEW g \in GetCalls, Lookup(g)
      PROVE  UNCHANGED <<docs, pos, users>>
  BY <1>5 DEF Lookup, GetUnchecked, GetDesignateUsers, Take, GetReturn, GetFail
<1>6. ASSUME NEW c \in Calls, Disconnect(c)
      PROVE  UNCHANGED <<docs, pos, users>>
  BY <1>6 DEF Disconnect
<1>7. ASSUME NEW s \in Servers, Crash(s) \/ Start(s)
      PROVE  UNCHANGED <<docs, pos, users>>
  BY <1>7 DEF Crash, Start
<1>8. CASE UNCHANGED vars
  BY <1>3, <1>8 DEF vars
<1> QED
  BY <1>1, <1>2, <1>3, <1>4, <1>5, <1>6, <1>7, <1>8 DEF Next, InsertMany, InsertProceeds

\* No lookup has read anything at the start.
LEMMA LookupInit == Init => LookupInv
  BY DEF Init, LookupInv, Calls, NoAnswer

\* Nothing takes a document out of the collection or changes it.
LEMMA DocsGrow == [Next]_vars => docs \subseteq docs'
<1> SUFFICES ASSUME [Next]_vars PROVE docs \subseteq docs'
  OBVIOUS
<1> USE DEF store
<1>1. ASSUME NEW c \in RegisterCalls, UserRegister(c) PROVE UNCHANGED docs
  BY <1>1 DEF UserRegister, UserRegisterUnchecked, UserRegisterReject, UserRegisterCreate,
              UserRegisterReturn, UserRegisterFail
<1>2. ASSUME NEW c \in RegisterCalls, InsertMany(c) PROVE docs \subseteq docs'
  BY <1>2 DEF InsertMany, InsertProceeds, InsertNext, InsertDuplicate, InsertDone, InsertAbort
<1>3. ASSUME NEW g \in GetCalls, Lookup(g) PROVE UNCHANGED docs
  BY <1>3 DEF Lookup, GetUnchecked, GetDesignateUsers, Take, GetReturn, GetFail
<1>4. ASSUME NEW c \in Calls, Disconnect(c) PROVE UNCHANGED docs
  BY <1>4 DEF Disconnect
<1>5. ASSUME NEW s \in Servers, Crash(s) \/ Start(s) PROVE UNCHANGED docs
  BY <1>5 DEF Crash, Start
<1>6. CASE UNCHANGED vars
  BY <1>6 DEF vars
<1> QED
  BY <1>1, <1>2, <1>3, <1>4, <1>5, <1>6 DEF Next

\* What a lookup has read stays true of the collection.
LEMMA LookupStep == TypeOK /\ LookupInv /\ [Next]_vars => LookupInv'
<1> SUFFICES ASSUME TypeOK, LookupInv, [Next]_vars PROVE LookupInv'
  OBVIOUS
<1> USE DEF store, request, FoundAll
<1>1. docs \subseteq docs'
  BY DocsGrow
<1>2. ASSUME UNCHANGED <<ids, read, got>>, \A g \in GetCalls : stage'[g] = stage[g]
      PROVE  LookupInv'
  BY <1>1, <1>2 DEF LookupInv
<1>3. ASSUME NEW c \in RegisterCalls, UserRegister(c)
      PROVE  LookupInv'
  <2>1. UNCHANGED <<ids, read, got>> /\ \A g \in GetCalls : stage'[g] = stage[g]
    BY <1>3, ConstantsOK DEF UserRegister, UserRegisterUnchecked, UserRegisterReject,
       UserRegisterCreate, UserRegisterReturn, UserRegisterFail, Arrives, TypeOK, Calls
  <2> QED
    BY <1>2, <2>1
<1>4. ASSUME NEW c \in RegisterCalls, InsertMany(c)
      PROVE  LookupInv'
  BY <1>2, <1>4 DEF InsertMany, InsertProceeds, InsertNext, InsertDuplicate, InsertDone, InsertAbort
<1>5. ASSUME NEW g \in GetCalls, Lookup(g)
      PROVE  LookupInv'
  <2> SUFFICES ASSUME NEW h \in GetCalls
               PROVE  /\ stage'[h] = "idle" => read'[h] = <<>> /\ got'[h] = NoAnswer
                      /\ stage'[h] = "take" => read'[h] = <<>> /\ got'[h].is # "found"
                      /\ read'[h] # <<>> =>
                            /\ ids'[h] # <<>>
                            /\ \E d \in docs' :
                                  /\ d.userID = ids'[h][1]
                                  /\ read'[h] = <<[userID |-> d.userID, nickname |-> d.nickname]>>
                      /\ got'[h].is = "found" =>
                            got'[h].users = read'[h] /\ Len(read'[h]) = Len(ids'[h])
    BY DEF LookupInv
  <2> USE DEF TypeOK, LookupInv, Calls
  <2>1. CASE h # g
    <3>1. /\ stage'[h] = stage[h] /\ read'[h] = read[h]
          /\ ids'[h] = ids[h] /\ got'[h] = got[h]
      BY <1>5, <2>1 DEF Lookup, GetUnchecked, GetDesignateUsers, Take, GetReturn, GetFail, Give
    <3> QED
      BY <1>1, <3>1
  <2>2. ASSUME h = g, NEW q \in Queries, GetUnchecked(g, q)
        PROVE  read'[h] = <<>> /\ stage'[h] = "done" /\ got'[h].is = "error"
    BY <2>2 DEF GetUnchecked, Give
  <2>3. ASSUME h = g, NEW s \in Servers, NEW q \in Queries, GetDesignateUsers(g, s, q)
        PROVE  read'[h] = <<>> /\ stage'[h] = "take" /\ got'[h] = NoAnswer
    BY <2>3 DEF GetDesignateUsers, Arrives
  <2>4. ASSUME h = g, Take(g)
        PROVE  /\ stage'[h] = "taken" /\ ids'[h] # <<>> /\ got'[h].is # "found"
               /\ read'[h] = <<>> \/
                     \E d \in docs' :
                        /\ d.userID = ids'[h][1]
                        /\ read'[h] = <<[userID |-> d.userID, nickname |-> d.nickname]>>
    BY <2>4 DEF Take
  <2>5. ASSUME h = g, GetReturn(g)
        PROVE  /\ stage'[h] = "done" /\ UNCHANGED <<ids, read, docs>>
               /\ got'[h].is = "found" =>
                     got'[h].users = read'[h] /\ Len(read'[h]) = Len(ids'[h])
    <3>1. UsersDB2Pb(read[g]) = read[g]
      BY DEF UsersDB2Pb, User
    <3> QED
      BY <2>5, <3>1 DEF GetReturn, Give
  <2>6. ASSUME h = g, GetFail(g)
        PROVE  /\ stage'[h] = "done" /\ read'[h] = <<>> /\ got'[h].is # "found"
    BY <2>6 DEF GetFail, Give
  <2> QED
    <3>1. CASE h = g /\ \E q \in Queries : GetUnchecked(g, q)
      BY <2>2, <3>1
    <3>2. CASE h = g /\ \E s \in Servers, q \in Queries : GetDesignateUsers(g, s, q)
      BY <2>3, <3>2 DEF NoAnswer
    <3>3. CASE h = g /\ Take(g)
      BY <2>4, <3>3
    <3>4. CASE h = g /\ GetReturn(g)
      BY <2>5, <3>4
    <3>5. CASE h = g /\ GetFail(g)
      BY <2>6, <3>5
    <3> QED
      BY <1>5, <2>1, <3>1, <3>2, <3>3, <3>4, <3>5 DEF Lookup
<1>6. ASSUME NEW c \in Calls, Disconnect(c)
      PROVE  LookupInv'
  <2>1. UNCHANGED <<docs, stage, ids, read>>
    BY <1>6 DEF Disconnect
  <2>2. \A g \in GetCalls : got'[g] = got[g] \/ (stage[g] # "idle" /\ got'[g].is = "lost")
    BY <1>6 DEF Disconnect, Give, TypeOK
  <2> QED
    BY <2>1, <2>2 DEF LookupInv
<1>7. ASSUME NEW s \in Servers, Crash(s)
      PROVE  LookupInv'
  BY <1>1, <1>7 DEF Crash, InHand, LookupInv, TypeOK, Calls, NoAnswer
<1>8. ASSUME NEW s \in Servers, Start(s)
      PROVE  LookupInv'
  BY <1>2, <1>8 DEF Start
<1>9. CASE UNCHANGED vars
  BY <1>2, <1>9 DEF vars
<1> QED
  BY <1>3, <1>4, <1>5, <1>6, <1>7, <1>8, <1>9 DEF Next

\* A handler says "ok" only once its command has passed the end of its batch.
LEMMA AckedFromInv == IInv => AckedDurable
<1> SUFFICES ASSUME IInv, NEW c \in RegisterCalls, told[c] = "ok"
             PROVE  users[c] # <<>> /\ \A i \in DOMAIN users[c] : Stored(c, i)
  BY DEF AckedDurable
<1>1. cmd[c] = "ok" /\ pos[c] > Len(users[c]) /\ Accepts(users[c])
  BY DEF IInv, CallInv
<1>2. users[c] # <<>>
  BY <1>1 DEF Accepts
<1>3. \A i \in DOMAIN users[c] : i < pos[c]
  BY <1>1 DEF IInv, TypeOK
<1> QED
  BY <1>2, <1>3 DEF IInv, StoreInv

\* No lookup has begun at the start.
LEMMA SeenInit == Init => SeenInv
  BY DEF Init, SeenInv, AckedIsFound, Calls, NoAnswer

\* What a lookup must not miss is in the collection, and what it has missed it may miss.
LEMMA SeenStep == IInv /\ [Next]_vars => SeenInv'
<1> SUFFICES ASSUME IInv, [Next]_vars PROVE SeenInv'
  OBVIOUS
<1>1. \A u : Taken(u) => Taken(u)'
  BY DocsGrow DEF Taken
<1>2. TypeOK /\ LookupInv /\ SeenInv
  BY DEF IInv
<1> USE DEF store, request
<1>3. ASSUME UNCHANGED <<ids, read, seen>>,
             \A g \in GetCalls : stage'[g] \in {stage[g], "done"},
             \A g \in GetCalls : got'[g] = got[g] \/ got'[g].is = "lost"
      PROVE  SeenInv'
  BY <1>1, <1>2, <1>3 DEF SeenInv, AckedIsFound
<1>4. ASSUME NEW c \in RegisterCalls, UserRegister(c)
      PROVE  SeenInv'
  <2>1. /\ UNCHANGED <<ids, read, seen, got>>
        /\ \A g \in GetCalls : stage'[g] = stage[g]
    BY <1>2, <1>4, ConstantsOK DEF UserRegister, UserRegisterUnchecked, UserRegisterReject,
       UserRegisterCreate, UserRegisterReturn, UserRegisterFail, Arrives, TypeOK, Calls
  <2> QED
    BY <1>3, <2>1
<1>5. ASSUME NEW c \in RegisterCalls, InsertMany(c)
      PROVE  SeenInv'
  BY <1>3, <1>5 DEF InsertMany, InsertProceeds, InsertNext, InsertDuplicate, InsertDone, InsertAbort
<1>6. ASSUME NEW g \in GetCalls, Lookup(g)
      PROVE  SeenInv'
  <2> SUFFICES ASSUME NEW h \in GetCalls
               PROVE  /\ Len(ids'[h]) = 1 /\ got'[h].is = "notfound" => ids'[h][1] \notin seen'[h]
                      /\ \A u \in seen'[h] : Taken(u)'
                      /\ stage'[h] = "taken" => ids'[h] # <<>>
                      /\ stage'[h] = "taken" /\ read'[h] = <<>> => ids'[h][1] \notin seen'[h]
    BY DEF SeenInv, AckedIsFound
  <2>1. /\ Len(ids[h]) = 1 /\ got[h].is = "notfound" => ids[h][1] \notin seen[h]
        /\ \A u \in seen[h] : Taken(u)'
        /\ stage[h] = "taken" => ids[h] # <<>>
        /\ stage[h] = "taken" /\ read[h] = <<>> => ids[h][1] \notin seen[h]
    BY <1>1, <1>2 DEF SeenInv, AckedIsFound
  <2>2. /\ stage[h] = "idle" => got[h] = NoAnswer
        /\ read[h] # <<>> => \E d \in docs :
              read[h] = <<[userID |-> d.userID, nickname |-> d.nickname]>>
    BY <1>2 DEF LookupInv
  <2> USE DEF TypeOK, Calls, NoAnswer
  <2>3. CASE h # g
    <3>1. /\ stage'[h] = stage[h] /\ read'[h] = read[h] /\ seen'[h] = seen[h]
          /\ ids'[h] = ids[h] /\ got'[h] = got[h]
      BY <1>2, <1>6, <2>3 DEF Lookup, GetUnchecked, GetDesignateUsers, Take, GetReturn, GetFail, Give
    <3> QED
      BY <2>1, <3>1
  <2>4. ASSUME h = g, NEW q \in Queries, GetUnchecked(g, q)
        PROVE  stage'[h] = "done" /\ got'[h].is = "error" /\ seen'[h] = seen[h]
    BY <1>2, <2>2, <2>4 DEF GetUnchecked, Give
  <2>5. ASSUME h = g, NEW s \in Servers, NEW q \in Queries, GetDesignateUsers(g, s, q)
        PROVE  /\ stage'[h] = "take" /\ got'[h] = NoAnswer
               /\ \A u \in seen'[h] : Taken(u)'
    <3>1. stage'[h] = "take" /\ got'[h] = NoAnswer
      BY <1>2, <2>2, <2>5 DEF GetDesignateUsers, Arrives
    <3>2. ASSUME NEW u \in seen'[h] PROVE Taken(u)
      <4>1. PICK c \in RegisterCalls :
               told[c] = "ok" /\ \E i \in DOMAIN users[c] : users[c][i].userID = u
        BY <1>2, <2>5 DEF GetDesignateUsers
      <4>2. PICK i \in DOMAIN users[c] : Document(c, i) \in docs /\ users[c][i].userID = u
        BY <4>1, AckedFromInv DEF AckedDurable, Stored
      <4> QED
        BY <4>2 DEF Taken, Document
    <3> QED
      BY <1>1, <3>1, <3>2
  <2>6. ASSUME h = g, Take(g)
        PROVE  /\ stage'[h] = "taken" /\ ids' = ids /\ ids[h] # <<>> /\ seen' = seen
               /\ got' = got
               /\ read'[h] = <<>> => ~Taken(ids[h][1])
    <3>1. CASE ~Taken(ids[g][1])
      BY <1>2, <2>6, <3>1 DEF Take
    <3>2. ASSUME NEW d \in docs,
                 read' = [read EXCEPT ![g] = <<[userID |-> d.userID, nickname |-> d.nickname]>>]
          PROVE  read'[h] # <<>>
      <4>1. read'[h] = <<[userID |-> d.userID, nickname |-> d.nickname]>>
        BY <1>2, <2>6, <3>2
      <4> QED
        BY <4>1
    <3> QED
      BY <1>2, <2>6, <3>1, <3>2 DEF Take
  <2>7. ASSUME h = g, GetReturn(g)
        PROVE  /\ stage'[h] = "done" /\ UNCHANGED <<ids, seen>>
               /\ Len(ids[h]) = 1 /\ got'[h].is = "notfound" => ids[h][1] \notin seen[h]
    <3>1. CASE read[h] = <<>>
      BY <1>2, <2>1, <2>7, <3>1 DEF GetReturn, Give
    <3>2. CASE read[h] # <<>>
      <4>1. PICK d \in docs : read[h] = <<[userID |-> d.userID, nickname |-> d.nickname]>>
        BY <2>2, <3>2
      <4>2. Len(ids[h]) = 1 => FoundAll(h)
        BY <4>1 DEF FoundAll
      <4> QED
        BY <1>2, <2>1, <2>7, <4>2 DEF GetReturn, Give
    <3> QED
      BY <3>1, <3>2
  <2>8. ASSUME h = g, GetFail(g)
        PROVE  /\ stage'[h] = "done" /\ UNCHANGED <<ids, seen>>
               /\ got'[h] = got[h] \/ got'[h].is = "error"
    BY <1>2, <2>8 DEF GetFail, Give
  <2> QED
    <3>1. CASE h = g /\ \E q \in Queries : GetUnchecked(g, q)
      BY <2>1, <2>4, <3>1
    <3>2. CASE h = g /\ \E s \in Servers, q \in Queries : GetDesignateUsers(g, s, q)
      BY <2>5, <3>2
    <3>3. CASE h = g /\ Take(g)
      <4>1. Taken(ids[h][1]) \/ ids[h][1] \notin seen[h]
        BY <1>2 DEF SeenInv
      <4> QED
        BY <2>1, <2>6, <3>3, <4>1
    <3>4. CASE h = g /\ GetReturn(g)
      BY <2>1, <2>7, <3>4
    <3>5. CASE h = g /\ GetFail(g)
      BY <2>1, <2>8, <3>5
    <3> QED
      BY <1>6, <2>3, <3>1, <3>2, <3>3, <3>4, <3>5 DEF Lookup
<1>7. ASSUME NEW c \in Calls, Disconnect(c)
      PROVE  SeenInv'
  <2>1. UNCHANGED <<stage, ids, read, seen>>
    BY <1>7 DEF Disconnect
  <2>2. \A g \in GetCalls : got'[g] = got[g] \/ got'[g].is = "lost"
    BY <1>2, <1>7 DEF Disconnect, Give, TypeOK
  <2> QED
    BY <1>3, <2>1, <2>2
<1>8. ASSUME NEW s \in Servers, Crash(s)
      PROVE  SeenInv'
  <2>1. UNCHANGED <<ids, read, seen>>
    BY <1>8 DEF Crash
  <2>2. \A g \in GetCalls : stage'[g] \in {stage[g], "done"}
    BY <1>8 DEF Crash, Calls
  <2>3. \A g \in GetCalls : got'[g] = got[g] \/ got'[g].is = "lost"
    BY <1>8 DEF Crash
  <2> QED
    BY <1>3, <2>1, <2>2, <2>3
<1>9. ASSUME NEW s \in Servers, Start(s)
      PROVE  SeenInv'
  BY <1>3, <1>9 DEF Start
<1>10. CASE UNCHANGED vars
  BY <1>3, <1>10 DEF vars
<1> QED
  BY <1>4, <1>5, <1>6, <1>7, <1>8, <1>9, <1>10 DEF Next

\* No call has arrived and nothing is counted at the start.
LEMMA CounterInit == Init => CounterInv
<1> SUFFICES ASSUME Init PROVE CounterInv
  OBVIOUS
<1>1. \A c \in RegisterCalls : stage[c] = "idle"
  BY DEF Init, Calls
<1>2. {c \in RegisterCalls : stage[c] # "idle"} = {}
  BY <1>1
<1>3. ASSUME NEW s \in Servers
      PROVE  /\ {c \in HandledBy(s) : told[c] = "ok"} = {}
             /\ {c \in HandledBy(s) : cmd[c] = "ok"} = {}
             /\ counter[s] = 0
  BY <1>1 DEF Init, HandledBy
<1> QED
  BY <1>2, <1>3, FS_EmptySet DEF CounterInv, CounterHonest

\* One call at a time arrives.
LEMMA ArrivedStep ==
    ASSUME TypeOK, IsFiniteSet({c \in RegisterCalls : stage[c] # "idle"}), [Next]_vars
    PROVE  IsFiniteSet({c \in RegisterCalls : stage'[c] # "idle"})
<1>1. ASSUME \A c \in RegisterCalls : stage[c] = "idle" => stage'[c] = "idle"
      PROVE  IsFiniteSet({c \in RegisterCalls : stage'[c] # "idle"})
  <2>1. {c \in RegisterCalls : stage'[c] # "idle"} \subseteq
        {c \in RegisterCalls : stage[c] # "idle"}
    BY <1>1
  <2> QED
    BY <2>1, FS_Subset
<1>2. ASSUME NEW c \in RegisterCalls, \A d \in RegisterCalls : d # c => stage'[d] = stage[d]
      PROVE  IsFiniteSet({d \in RegisterCalls : stage'[d] # "idle"})
  <2>1. IsFiniteSet({d \in RegisterCalls : stage[d] # "idle"} \cup {c})
    BY FS_AddElement
  <2>2. {d \in RegisterCalls : stage'[d] # "idle"} \subseteq
        {d \in RegisterCalls : stage[d] # "idle"} \cup {c}
    BY <1>2
  <2> QED
    BY <2>1, <2>2, FS_Subset
<1> USE DEF Calls, TypeOK, store, request
<1>3. ASSUME NEW c \in RegisterCalls, UserRegister(c)
      PROVE  \A d \in RegisterCalls : d # c => stage'[d] = stage[d]
  BY <1>3 DEF UserRegister, UserRegisterUnchecked, UserRegisterReject, UserRegisterCreate,
              UserRegisterReturn, UserRegisterFail
<1>4. ASSUME NEW c \in RegisterCalls, InsertMany(c)
      PROVE  stage' = stage
  BY <1>4 DEF InsertMany, InsertProceeds, InsertNext, InsertDuplicate, InsertDone, InsertAbort
<1>5. ASSUME NEW g \in GetCalls, Lookup(g)
      PROVE  \A c \in RegisterCalls : stage'[c] = stage[c]
  BY <1>5, ConstantsOK
     DEF Lookup, GetUnchecked, GetDesignateUsers, Take, GetReturn, GetFail
<1>6. ASSUME NEW c \in Calls, Disconnect(c)
      PROVE  stage' = stage
  BY <1>6 DEF Disconnect
<1>7. ASSUME NEW s \in Servers, Crash(s)
      PROVE  \A c \in RegisterCalls : stage[c] = "idle" => stage'[c] = "idle"
  BY <1>7 DEF Crash, InHand
<1>8. ASSUME NEW s \in Servers, Start(s)
      PROVE  stage' = stage
  BY <1>8 DEF Start
<1>9. CASE UNCHANGED vars
  BY <1>1, <1>9 DEF vars
<1> QED
  BY <1>1, <1>2, <1>3, <1>4, <1>5, <1>6, <1>7, <1>8, <1>9 DEF Next

\* The counter of a process goes up with the registrations that succeed there, and no
\* other step adds an acknowledged one or takes a stored one away.
LEMMA CounterStep == IInv /\ [Next]_vars => CounterInv'
<1> SUFFICES ASSUME IInv, [Next]_vars PROVE CounterInv'
  OBVIOUS
<1>1. TypeOK /\ CallInv /\ CounterInv
  BY DEF IInv
<1>2. IsFiniteSet({c \in RegisterCalls : stage'[c] # "idle"})
  BY <1>1, ArrivedStep DEF CounterInv
<1> DEFINE Acked(s) == {c \in HandledBy(s) : told[c] = "ok"}
           Saved(s) == {c \in HandledBy(s) : cmd[c] = "ok"}
<1>3. \A s : /\ IsFiniteSet(Acked(s)) /\ IsFiniteSet(Acked(s)')
             /\ IsFiniteSet(Saved(s)) /\ IsFiniteSet(Saved(s)')
  <2>1. \A s : /\ Acked(s) \subseteq {c \in RegisterCalls : stage[c] # "idle"}
               /\ Saved(s) \subseteq {c \in RegisterCalls : stage[c] # "idle"}
               /\ Acked(s)' \subseteq {c \in RegisterCalls : stage'[c] # "idle"}
               /\ Saved(s)' \subseteq {c \in RegisterCalls : stage'[c] # "idle"}
    BY DEF HandledBy
  <2> QED
    BY <1>1, <1>2, <2>1, FS_Subset DEF CounterInv
<1>4. \A s : /\ Cardinality(Acked(s)) \in Nat /\ Cardinality(Acked(s)') \in Nat
             /\ Cardinality(Saved(s)) \in Nat /\ Cardinality(Saved(s)') \in Nat
  BY <1>3, FS_CardinalityType
<1> SUFFICES ASSUME NEW s \in Servers
             PROVE  /\ counter'[s] >= Cardinality(Acked(s)')
                    /\ counter'[s] <= Cardinality(Saved(s)')
  BY <1>2 DEF CounterInv, CounterHonest
<1>5. /\ counter[s] \in Nat /\ counter[s] >= Cardinality(Acked(s))
      /\ counter[s] <= Cardinality(Saved(s))
  BY <1>1 DEF CounterInv, CounterHonest, TypeOK
<1>6. ASSUME counter'[s] = counter[s], Acked(s)' \subseteq Acked(s), Saved(s) \subseteq Saved(s)'
      PROVE  /\ counter'[s] >= Cardinality(Acked(s)')
             /\ counter'[s] <= Cardinality(Saved(s)')
  <2>1. /\ Cardinality(Acked(s)') <= Cardinality(Acked(s))
        /\ Cardinality(Saved(s)) <= Cardinality(Saved(s)')
    BY <1>3, <1>6, FS_Subset
  <2> QED
    BY <1>4, <1>5, <1>6, <2>1
<1> USE DEF Calls, TypeOK, store, request
<1>7. ASSUME NEW c \in RegisterCalls, UserRegisterReturn(c)
      PROVE  /\ counter'[s] >= Cardinality(Acked(s)')
             /\ counter'[s] <= Cardinality(Saved(s)')
  <2>1. /\ stage[c] = "create" /\ cmd[c] = "ok" /\ UNCHANGED <<cmd, srv>>
        /\ stage' = [stage EXCEPT ![c] = "done"]
        /\ counter' = [counter EXCEPT ![srv[c]] = @ + 1]
        /\ \A d \in RegisterCalls : d # c => told'[d] = told[d]
    BY <1>1, <1>7 DEF UserRegisterReturn, Succeeded, Count, Tell
  <2>2. c \notin HandledBy(s)
    BY <2>1 DEF HandledBy
  <2>3. CASE srv[c] # s
    <3>1. counter'[s] = counter[s] /\ HandledBy(s)' = HandledBy(s)
      BY <1>1, <2>1, <2>3 DEF HandledBy
    <3>2. Acked(s)' \subseteq Acked(s) /\ Saved(s) \subseteq Saved(s)'
      BY <2>1, <2>2, <3>1 DEF HandledBy
    <3> QED
      BY <1>6, <3>1, <3>2
  <2>4. CASE srv[c] = s
    <3>1. counter'[s] = counter[s] + 1
      BY <1>1, <2>1, <2>4
    <3>2. HandledBy(s)' = HandledBy(s) \cup {c}
      BY <1>1, <2>1, <2>4 DEF HandledBy
    <3>3. Acked(s)' \subseteq Acked(s) \cup {c}
      BY <2>1, <3>2 DEF HandledBy
    <3>4. Saved(s)' = Saved(s) \cup {c} /\ c \notin Saved(s)
      BY <2>1, <2>2, <3>2
    <3>5. Cardinality(Saved(s)') = Cardinality(Saved(s)) + 1
      BY <1>3, <3>4, FS_AddElement
    <3>6. /\ IsFiniteSet(Acked(s) \cup {c})
          /\ Cardinality(Acked(s) \cup {c}) = Cardinality(Acked(s)) + 1
      <4>1. c \notin Acked(s)
        BY <2>2
      <4> QED
        BY <1>3, <4>1, FS_AddElement
    <3>7. Cardinality(Acked(s)') <= Cardinality(Acked(s) \cup {c})
      BY <3>3, <3>6, FS_Subset
    <3>8. Cardinality(Acked(s) \cup {c}) \in Nat
      BY <3>6, FS_CardinalityType
    <3> QED
      BY <1>4, <1>5, <3>1, <3>5, <3>6, <3>7, <3>8
  <2> QED
    BY <2>3, <2>4
<1>8. ASSUME NEW c \in RegisterCalls, UserRegister(c)
      PROVE  /\ counter'[s] >= Cardinality(Acked(s)')
             /\ counter'[s] <= Cardinality(Saved(s)')
  <2>1. CASE UserRegisterReturn(c)
    BY <1>7, <2>1
  <2>2. ASSUME ~UserRegisterReturn(c)
        PROVE  /\ counter' = counter /\ told'[c] # "ok"
               /\ stage[c] \in {"idle", "create"}
               /\ \A d \in RegisterCalls : d # c => /\ stage'[d] = stage[d] /\ told'[d] = told[d]
                                                    /\ cmd'[d] = cmd[d] /\ srv'[d] = srv[d]
    BY <1>1, <1>8, <2>2
       DEF UserRegister, UserRegisterUnchecked, UserRegisterReject, UserRegisterCreate, Arrives,
           UserRegisterFail, FailureReply, Tell, CallInv
  <2>3. ASSUME ~UserRegisterReturn(c)
        PROVE  Acked(s)' \subseteq Acked(s) /\ Saved(s) \subseteq Saved(s)'
    BY <2>2, <2>3 DEF HandledBy
  <2> QED
    BY <1>6, <2>1, <2>2, <2>3
<1>9. ASSUME NEW c \in RegisterCalls, InsertMany(c)
      PROVE  counter' = counter /\ Acked(s)' \subseteq Acked(s) /\ Saved(s) \subseteq Saved(s)'
  <2>1. /\ UNCHANGED <<counter, stage, srv, told>>
        /\ \A d \in RegisterCalls : cmd[d] = "ok" => cmd'[d] = "ok"
    BY <1>1, <1>9 DEF InsertMany, InsertProceeds, InsertNext, InsertDuplicate, InsertDone, InsertAbort
  <2> QED
    BY <2>1 DEF HandledBy
<1>10. ASSUME NEW g \in GetCalls, Lookup(g)
      PROVE  counter' = counter /\ Acked(s)' \subseteq Acked(s) /\ Saved(s) \subseteq Saved(s)'
  <2>1. /\ UNCHANGED <<counter, told, cmd>>
        /\ \A c \in RegisterCalls : stage'[c] = stage[c] /\ srv'[c] = srv[c]
    BY <1>1, <1>10, ConstantsOK
       DEF Lookup, GetUnchecked, GetDesignateUsers, Take, GetReturn, GetFail, Arrives
  <2> QED
    BY <2>1 DEF HandledBy
<1>11. ASSUME NEW c \in Calls, Disconnect(c)
      PROVE  counter' = counter /\ Acked(s)' \subseteq Acked(s) /\ Saved(s) \subseteq Saved(s)'
  <2>1. /\ UNCHANGED <<counter, stage, srv, cmd>>
        /\ \A d \in RegisterCalls : told'[d] = "ok" => told[d] = "ok"
    BY <1>1, <1>11 DEF Disconnect, Tell
  <2> QED
    BY <2>1 DEF HandledBy
<1>12. ASSUME NEW t \in Servers, Crash(t)
      PROVE  /\ counter'[s] >= Cardinality(Acked(s)')
             /\ counter'[s] <= Cardinality(Saved(s)')
  <2>1. CASE s = t
    <3>1. counter'[s] = 0 /\ HandledBy(s)' = {}
      BY <1>1, <1>12, <2>1, ConstantsOK DEF Crash, HandledBy
    <3>2. Acked(s)' = {} /\ Saved(s)' = {}
      BY <3>1
    <3> QED
      BY <3>1, <3>2, FS_EmptySet
  <2>2. CASE s # t
    <3>1. /\ counter'[s] = counter[s] /\ cmd' = cmd
          /\ \A c \in RegisterCalls : srv'[c] = s <=> srv[c] = s
          /\ \A c \in RegisterCalls : srv[c] = s => stage'[c] = stage[c] /\ told'[c] = told[c]
      BY <1>1, <1>12, <2>2, ConstantsOK DEF Crash, InHand
    <3>2. Acked(s)' \subseteq Acked(s) /\ Saved(s) \subseteq Saved(s)'
      BY <3>1 DEF HandledBy
    <3> QED
      BY <1>6, <3>1, <3>2
  <2> QED
    BY <2>1, <2>2
<1>13. ASSUME NEW t \in Servers, Start(t)
      PROVE  counter' = counter /\ Acked(s)' \subseteq Acked(s) /\ Saved(s) \subseteq Saved(s)'
  BY <1>13 DEF Start, HandledBy
<1>14. ASSUME UNCHANGED vars
      PROVE  counter' = counter /\ Acked(s)' \subseteq Acked(s) /\ Saved(s) \subseteq Saved(s)'
  BY <1>14 DEF vars, HandledBy
<1> HIDE DEF Acked, Saved
<1> QED
  BY <1>6, <1>8, <1>9, <1>10, <1>11, <1>12, <1>13, <1>14 DEF Next

\* The inductive invariant holds in every reachable state.
THEOREM Inductive == Spec => []IInv
<1>1. Init => IInv
  BY TypeInit, CallInit, StoreInit, LookupInit, SeenInit, CounterInit DEF IInv
<1>2. IInv /\ [Next]_vars => IInv'
  BY TypeStep, CallStep, StoreStep, LookupStep, SeenStep, CounterStep DEF IInv
<1> QED
  BY <1>1, <1>2, PTL DEF Spec

-----------------------------------------------------------------------------
(* What follows from it *)

\* No interleaving of registrations leaves two documents with one userID.
THEOREM Uniqueness == Spec => []UniqueUserID
<1>1. IInv => UniqueUserID
  BY DEF IInv, StoreInv
<1> QED
  BY <1>1, Inductive, PTL

\* An acknowledged registration is stored, all of it, by its own call.
THEOREM Durability == Spec => []AckedDurable
  BY AckedFromInv, Inductive, PTL

\* Of the registrations that race for a userID, at most one is acknowledged.
THEOREM Exclusion == Spec => []ExclusiveAck
<1>1. IInv => ExclusiveAck
  <2> SUFFICES ASSUME IInv, NEW c \in RegisterCalls, NEW d \in RegisterCalls, c # d,
                      told[c] = "ok", told[d] = "ok",
                      NEW i \in DOMAIN users[c], NEW j \in DOMAIN users[d],
                      users[c][i].userID = users[d][j].userID
               PROVE  FALSE
    BY DEF ExclusiveAck
  <2>1. Stored(c, i) /\ Stored(d, j)
    BY AckedFromInv DEF AckedDurable
  <2>2. Document(c, i) = Document(d, j)
    BY <2>1 DEF IInv, StoreInv, UniqueUserID, Stored, Document
  <2> QED
    BY <2>2 DEF Document
<1> QED
  BY <1>1, Inductive, PTL

\* What a registration stored is a prefix of its batch.
THEOREM Prefix == Spec => []PrefixStored
<1>1. IInv => PrefixStored
  <2> SUFFICES ASSUME IInv, NEW c \in RegisterCalls, NEW i \in DOMAIN users[c]
               PROVE  Stored(c, i) <=> i < pos[c]
    BY DEF PrefixStored
  <2>1. i < pos[c] => Stored(c, i)
    BY DEF IInv, StoreInv
  <2>2. ASSUME Stored(c, i) PROVE i < pos[c]
    <3>1. PICK j \in DOMAIN users[c] : j < pos[c] /\ Document(c, i) = Document(c, j)
      BY <2>2 DEF IInv, StoreInv, Stored, Document
    <3>2. users[c][i].userID = users[c][j].userID
      BY <3>1 DEF Document
    <3>3. Accepts(users[c])
      BY <3>1 DEF IInv, TypeOK, CallInv
    <3> QED
      BY <3>1, <3>2, <3>3 DEF Accepts
  <2> QED
    BY <2>1, <2>2
<1> QED
  BY <1>1, Inductive, PTL

\* A registration refused for its arguments leaves nothing in the collection, and
\* nothing malformed ever gets there.
THEOREM Refusal == Spec => []RefusedLeavesNoTrace
<1>1. IInv => RefusedLeavesNoTrace
  <2> SUFFICES ASSUME IInv, NEW d \in docs
               PROVE  d.userID \in WellFormed /\ told[d.by] # "args"
    BY DEF RefusedLeavesNoTrace
  <2>1. PICK i \in DOMAIN users[d.by] : i < pos[d.by] /\ d = Document(d.by, i)
    BY DEF IInv, StoreInv
  <2>2. d.by \in RegisterCalls /\ cmd[d.by] # "none"
    BY <2>1 DEF IInv, TypeOK, CallInv
  <2>3. Accepts(users[d.by]) /\ told[d.by] # "args"
    BY <2>2 DEF IInv, CallInv
  <2> QED
    BY <2>1, <2>3 DEF Accepts, Document
<1> QED
  BY <1>1, Inductive, PTL

\* A lookup answers what it has read, and what it has read is in the collection.
LEMMA FoundFromInv == IInv => FoundIsRegistered
<1> SUFFICES ASSUME IInv, NEW g \in GetCalls, got[g].is = "found"
             PROVE  /\ Len(got[g].users) = Len(ids[g])
                    /\ \A i \in DOMAIN got[g].users :
                          /\ got[g].users[i].userID = ids[g][i]
                          /\ \E d \in docs : /\ d.userID = ids[g][i]
                                             /\ d.nickname = got[g].users[i].nickname
  BY DEF FoundIsRegistered
<1>1. got[g].users = read[g] /\ Len(read[g]) = Len(ids[g])
  BY DEF IInv, LookupInv, FoundAll
<1>2. CASE read[g] = <<>>
  BY <1>1, <1>2
<1>3. CASE read[g] # <<>>
  <2>1. PICK d \in docs : /\ d.userID = ids[g][1]
                          /\ read[g] = <<[userID |-> d.userID, nickname |-> d.nickname]>>
    BY <1>3 DEF IInv, LookupInv
  <2> QED
    BY <1>1, <2>1
<1> QED
  BY <1>2, <1>3

\* A lookup is answered with users of the collection, in the order it asked.
THEOREM Found == Spec => []FoundIsRegistered
  BY FoundFromInv, Inductive, PTL

\* A lookup of one userID does not miss a registration that was acknowledged before it
\* began, whichever processes served the two.
THEOREM NotMissed == Spec => []AckedIsFound
<1>1. IInv => AckedIsFound
  BY DEF IInv, SeenInv
<1> QED
  BY <1>1, Inductive, PTL

\* The counter of a process lies between what it has acknowledged and what it has stored,
\* through every crash.
THEOREM Counted == Spec => []CounterHonest
<1>1. IInv => CounterHonest
  BY DEF IInv, CounterInv
<1> QED
  BY <1>1, Inductive, PTL
=============================================================================
