------------------------ MODULE UserDirectoryProofs ------------------------
(***************************************************************************)
(* The user service implements UserDirectory, for any number of users,     *)
(* calls and processes: every step of a handler, of MongoDB or of a crash  *)
(* is a step of the directory, or one that its callers cannot see.         *)
(***************************************************************************)
EXTENDS UserServiceProofs

\* The index lets a userID stand for the one document that carries it.
LEMMA HolderIs ==
    ASSUME UniqueUserID, NEW d \in docs
    PROVE  HolderOf(d.userID) = [by |-> d.by, nickname |-> d.nickname]
<1>1. Taken(d.userID)
  BY DEF Taken
<1>2. \A e \in docs : e.userID = d.userID => e = d
  BY DEF UniqueUserID
<1>3. (CHOOSE e \in docs : e.userID = d.userID) = d
  BY <1>2
<1> QED
  BY <1>1, <1>3 DEF HolderOf

\* A userID that nobody holds is marked so.
LEMMA HolderNone == ASSUME NEW u, ~Taken(u) PROVE HolderOf(u) = Unregistered
  BY DEF HolderOf

\* A userID that somebody holds is not.
LEMMA HolderSome ==
    ASSUME TypeOK, UniqueUserID, NEW u, HolderOf(u) # Unregistered
    PROVE  \E d \in docs : d.userID = u /\ HolderOf(u) = [by |-> d.by, nickname |-> d.nickname]
<1>1. PICK d \in docs : d.userID = u
  BY HolderNone DEF Taken
<1> QED
  BY <1>1, HolderIs

\* The mark is nothing that a holder could be taken for.
LEMMA HolderReal ==
    ASSUME TypeOK, UniqueUserID, NEW d \in docs
    PROVE  HolderOf(d.userID) # Unregistered
<1>1. [by |-> d.by, nickname |-> d.nickname] \in [by : RegisterCalls, nickname : Nicknames]
  BY DEF TypeOK
<1> QED
  BY <1>1, HolderIs, ConstantsOK

\* A directory nobody is in, and callers nobody has answered.
LEMMA DirectoryInit == Init => Directory!Init
  BY HolderNone DEF Init, Directory!Init, Taken, NoAnswer, Directory!NoAnswer

\* The registrations that concern the directory: refused, acknowledged, or let down.
LEMMA RegisterRefines ==
    ASSUME IInv, NEW c \in RegisterCalls, UserRegister(c)
    PROVE  \/ UNCHANGED Directory!vars
           \/ Directory!Refuse(c) \/ Directory!Acknowledge(c) \/ Directory!Disappoint(c)
<1>1. TypeOK /\ UniqueUserID
  BY DEF IInv, StoreInv
<1>2. docs' = docs /\ got' = got
  BY DEF UserRegister, UserRegisterUnchecked, UserRegisterReject, UserRegisterCreate,
         UserRegisterReturn, UserRegisterFail, store
<1>3. UNCHANGED [u \in UserIDs |-> HolderOf(u)]
  BY <1>2 DEF HolderOf, Taken
<1>4. CASE told' = told
  BY <1>2, <1>3, <1>4 DEF Directory!vars
<1>5. ASSUME NEW b \in Batches,
             \/ UserRegisterUnchecked(c, b)
             \/ \E s \in Servers : UserRegisterReject(c, s, b)
      PROVE  Directory!Refuse(c)
  <2>1. stage[c] = "idle" /\ told[c] = "none" /\ told' = [told EXCEPT ![c] = "args"]
    BY <1>5 DEF UserRegisterUnchecked, UserRegisterReject, Arrives, Tell, IInv, CallInv
  <2>2. \A d \in docs : d.by # c
    BY <2>1 DEF IInv, TypeOK, StoreInv, CallInv
  <2>3. ASSUME NEW u \in UserIDs, HolderOf(u) # Unregistered
        PROVE  HolderOf(u).by # c
    BY <1>1, <2>2, <2>3, HolderSome
  <2> QED
    BY <1>2, <1>3, <2>1, <2>3 DEF Directory!Refuse
<1>6. ASSUME UserRegisterReturn(c), told' # told
      PROVE  Directory!Acknowledge(c)
  <2>1. /\ stage[c] = "create" /\ cmd[c] = "ok"
        /\ told[c] = "none" /\ told' = [told EXCEPT ![c] = "ok"]
    BY <1>1, <1>6 DEF UserRegisterReturn, Succeeded, Tell, TypeOK
  <2>2. users[c] \in Batches /\ users[c] # <<>> /\ pos[c] > Len(users[c])
    BY <2>1 DEF IInv, CallInv, Accepts
  <2>3. ASSUME NEW i \in DOMAIN users[c]
        PROVE  /\ users[c][i].userID \in UserIDs
               /\ HolderOf(users[c][i].userID) = [by |-> c, nickname |-> users[c][i].nickname]
    <3>1. i < pos[c]
      BY <2>2, <1>1 DEF TypeOK
    <3>2. Document(c, i) \in docs
      BY <3>1 DEF IInv, StoreInv, Stored
    <3>3. users[c][i] \in User
      BY <1>1 DEF TypeOK
    <3> QED
      BY <1>1, <3>2, <3>3, HolderIs DEF Document, User
  <2> QED
    BY <1>2, <1>3, <2>1, <2>2, <2>3 DEF Directory!Acknowledge, Directory!Holds
<1>7. ASSUME UserRegisterFail(c), told' # told
      PROVE  Directory!Disappoint(c)
  BY <1>1, <1>2, <1>3, <1>7 DEF UserRegisterFail, FailureReply, Tell, TypeOK, Directory!Disappoint
<1> QED
  BY <1>4, <1>5, <1>6, <1>7 DEF UserRegister, UserRegisterCreate

\* A document that enters the collection enrols its user; nothing else that MongoDB does
\* can be seen.
LEMMA InsertRefines ==
    ASSUME IInv, UniqueUserID', NEW c \in RegisterCalls, InsertMany(c)
    PROVE  \/ UNCHANGED Directory!vars
           \/ \E u \in UserIDs, n \in Nicknames : Directory!Enrol(c, u, n)
<1>1. TypeOK /\ UniqueUserID
  BY DEF IInv, StoreInv
<1>2. UNCHANGED <<told, got>>
  BY DEF InsertMany, InsertProceeds, InsertNext, InsertDuplicate, InsertDone, InsertAbort
<1>3. CASE docs' = docs
  BY <1>2, <1>3 DEF HolderOf, Taken, Directory!vars
<1>4. ASSUME InsertNext(c)
      PROVE  \E u \in UserIDs, n \in Nicknames : Directory!Enrol(c, u, n)
  <2>1. /\ cmd[c] = "running" /\ pos[c] \in DOMAIN users[c]
        /\ ~Taken(users[c][pos[c]].userID)
        /\ docs' = docs \cup {Document(c, pos[c])}
    BY <1>1, <1>4 DEF InsertNext, TypeOK
  <2>2. users[c][pos[c]] \in User
    BY <1>1, <2>1 DEF TypeOK
  <2>3. PICK u \in UserIDs, n \in Nicknames :
           u = users[c][pos[c]].userID /\ n = users[c][pos[c]].nickname
    BY <2>2 DEF User
  <2>4. docs' = docs \cup {[userID |-> u, nickname |-> n, by |-> c]}
    BY <2>1, <2>3 DEF Document
  <2>5. HolderOf(u) = Unregistered
    BY <2>1, <2>3, HolderNone
  <2>6. told[c] \notin {"ok", "args"}
    BY <2>1 DEF IInv, CallInv
  <2>7. ASSUME NEW d \in docs'
        PROVE  HolderOf(d.userID)' = [by |-> d.by, nickname |-> d.nickname]
    <3>1. Taken(d.userID)'
      BY DEF Taken
    <3>2. (CHOOSE e \in docs' : e.userID = d.userID) = d
      BY DEF UniqueUserID
    <3> QED
      BY <3>1, <3>2 DEF HolderOf
  <2>8. HolderOf(u)' = [by |-> c, nickname |-> n]
    <3>1. PICK d \in docs' : d = [userID |-> u, nickname |-> n, by |-> c]
      BY <2>4
    <3>2. HolderOf(d.userID)' = [by |-> d.by, nickname |-> d.nickname]
      BY <2>7
    <3>3. d.userID = u /\ d.by = c /\ d.nickname = n
      BY <3>1
    <3> QED
      BY <3>2, <3>3
  <2>9. ASSUME NEW w \in UserIDs, w # u PROVE HolderOf(w)' = HolderOf(w)
    <3>1. CASE Taken(w)
      <4>1. PICK d \in docs : d.userID = w
        BY <3>1 DEF Taken
      <4> QED
        BY <1>1, <2>4, <2>7, <4>1, HolderIs
    <3>2. CASE ~Taken(w)
      <4>1. ~Taken(w)'
        BY <2>4, <2>9, <3>2 DEF Taken
      <4> QED
        BY <3>2, <4>1 DEF HolderOf
    <3> QED
      BY <3>1, <3>2
  <2>10. [w \in UserIDs |-> HolderOf(w)]' =
         [[w \in UserIDs |-> HolderOf(w)] EXCEPT ![u] = [by |-> c, nickname |-> n]]
    BY <2>8, <2>9
  <2>11. Directory!Enrol(c, u, n)
    BY <1>2, <2>5, <2>6, <2>10 DEF Directory!Enrol
  <2> QED
    BY <2>11
<1> QED
  BY <1>3, <1>4 DEF InsertMany, InsertProceeds, InsertDuplicate, InsertDone, InsertAbort

\* A lookup answers what the directory holds as it is now, or nothing.
LEMMA LookupRefines ==
    ASSUME IInv, NEW g \in GetCalls, Lookup(g)
    PROVE  \/ UNCHANGED Directory!vars
           \/ Directory!AnswerNothing(g)
           \/ \E u \in UserIDs : Directory!AnswerFound(g, u)
<1>1. TypeOK /\ UniqueUserID /\ LookupInv /\ SeenInv
  BY DEF IInv, StoreInv
<1>2. docs' = docs /\ told' = told
  BY DEF Lookup, GetUnchecked, GetDesignateUsers, Take, GetReturn, GetFail, store
<1>3. UNCHANGED [u \in UserIDs |-> HolderOf(u)]
  BY <1>2 DEF HolderOf, Taken
<1>4. CASE got' = got
  BY <1>2, <1>3, <1>4 DEF Directory!vars
<1>5. ASSUME NEW why \in {"notfound", "error"},
             Give(g, [is |-> why, users |-> <<>>]), got' # got
      PROVE  Directory!AnswerNothing(g)
  BY <1>1, <1>2, <1>3, <1>5 DEF Give, TypeOK, Directory!AnswerNothing, NoAnswer, Directory!NoAnswer
<1>6. ASSUME GetReturn(g), FoundAll(g), got' # got
      PROVE  \E u \in UserIDs : Directory!AnswerFound(g, u)
  <2>1. ids[g] # <<>> /\ Len(read[g]) = Len(ids[g])
    BY <1>1, <1>6 DEF GetReturn, SeenInv, FoundAll
  <2>2. read[g] # <<>>
    BY <1>1, <2>1 DEF TypeOK
  <2>3. PICK d \in docs : read[g] = <<[userID |-> d.userID, nickname |-> d.nickname]>>
    BY <1>1, <2>2 DEF LookupInv
  <2>4. UsersDB2Pb(read[g]) = <<[userID |-> d.userID, nickname |-> d.nickname]>>
    BY <2>3 DEF UsersDB2Pb
  <2>5. /\ d.userID \in UserIDs /\ HolderOf(d.userID) # Unregistered
        /\ HolderOf(d.userID).nickname = d.nickname
    <3>1. d.userID \in UserIDs
      BY <1>1 DEF TypeOK
    <3>2. HolderOf(d.userID) # Unregistered
      BY <1>1, HolderReal
    <3>3. HolderOf(d.userID) = [by |-> d.by, nickname |-> d.nickname]
      BY <1>1, HolderIs
    <3> QED
      BY <3>1, <3>2, <3>3
  <2>6. /\ got[g] = NoAnswer
        /\ got' = [got EXCEPT ![g] =
                     [is |-> "found", users |-> <<[userID |-> d.userID, nickname |-> d.nickname]>>]]
    BY <1>1, <1>6, <2>4 DEF GetReturn, Give, TypeOK
  <2>7. Directory!AnswerFound(g, d.userID)
    BY <1>2, <1>3, <2>5, <2>6 DEF Directory!AnswerFound, NoAnswer, Directory!NoAnswer
  <2> QED
    BY <2>5, <2>7
<1>7. CASE GetReturn(g)
  BY <1>4, <1>5, <1>6, <1>7 DEF GetReturn
<1>8. CASE GetFail(g)
  BY <1>4, <1>5, <1>8 DEF GetFail
<1>9. CASE \E q \in Queries : GetUnchecked(g, q)
  BY <1>4, <1>5, <1>9 DEF GetUnchecked
<1> QED
  BY <1>4, <1>7, <1>8, <1>9 DEF Lookup, GetDesignateUsers, Take

\* A broken connection lets down one caller.
LEMMA DisconnectRefines ==
    ASSUME IInv, NEW c \in Calls, Disconnect(c)
    PROVE  \/ UNCHANGED Directory!vars
           \/ c \in RegisterCalls /\ Directory!Disappoint(c)
           \/ c \in GetCalls /\ Directory!AnswerNothing(c)
<1>1. TypeOK
  BY DEF IInv
<1>2. docs' = docs
  BY DEF Disconnect, store
<1>3. UNCHANGED [u \in UserIDs |-> HolderOf(u)]
  BY <1>2 DEF HolderOf, Taken
<1>4. CASE UNCHANGED <<told, got>>
  BY <1>3, <1>4 DEF Directory!vars
<1>5. ASSUME c \in RegisterCalls, Tell(c, "lost"), UNCHANGED got, told' # told
      PROVE  Directory!Disappoint(c)
  BY <1>1, <1>3, <1>5 DEF Tell, TypeOK, Directory!Disappoint
<1>6. ASSUME c \in GetCalls, Give(c, [is |-> "lost", users |-> <<>>]), UNCHANGED told, got' # got
      PROVE  Directory!AnswerNothing(c)
  BY <1>1, <1>3, <1>6 DEF Give, TypeOK, Directory!AnswerNothing, NoAnswer, Directory!NoAnswer
<1> QED
  BY <1>4, <1>5, <1>6 DEF Disconnect

\* A crash cuts off the callers that wait for the process, and nobody else.
LEMMA CrashRefines ==
    ASSUME NEW s \in Servers, Crash(s)
    PROVE  \E C \in SUBSET RegisterCalls, G \in SUBSET GetCalls : Directory!CutOff(C, G)
<1> DEFINE C == {c \in RegisterCalls : c \in InHand(s) /\ told[c] = "none"}
           G == {g \in GetCalls : g \in InHand(s) /\ got[g] = NoAnswer}
<1>1. UNCHANGED [u \in UserIDs |-> HolderOf(u)]
  BY DEF Crash, store, HolderOf, Taken
<1>2. told' = [c \in RegisterCalls |-> IF c \in C THEN "lost" ELSE told[c]]
  BY DEF Crash
<1>3. got' = [g \in GetCalls |-> IF g \in G THEN [is |-> "lost", users |-> <<>>] ELSE got[g]]
  BY DEF Crash
<1>4. Directory!CutOff(C, G)
  BY <1>1, <1>2, <1>3 DEF Directory!CutOff, NoAnswer, Directory!NoAnswer
<1> QED
  BY <1>4

\* Every step of the service is one of the directory, or none.
LEMMA StepRefines == IInv /\ [Next]_vars => [Directory!Next]_Directory!vars
<1> SUFFICES ASSUME IInv, [Next]_vars PROVE [Directory!Next]_Directory!vars
  OBVIOUS
<1>1. ASSUME NEW c \in RegisterCalls, UserRegister(c)
      PROVE  [Directory!Next]_Directory!vars
  BY <1>1, RegisterRefines DEF Directory!Next
<1>2. ASSUME NEW c \in RegisterCalls, InsertMany(c)
      PROVE  [Directory!Next]_Directory!vars
  <2>1. UniqueUserID'
    BY StoreStep DEF IInv, StoreInv
  <2> QED
    BY <1>2, <2>1, InsertRefines DEF Directory!Next
<1>3. ASSUME NEW g \in GetCalls, Lookup(g)
      PROVE  [Directory!Next]_Directory!vars
  BY <1>3, LookupRefines DEF Directory!Next
<1>4. ASSUME NEW c \in Calls, Disconnect(c)
      PROVE  [Directory!Next]_Directory!vars
  BY <1>4, DisconnectRefines DEF Directory!Next
<1>5. ASSUME NEW s \in Servers, Crash(s)
      PROVE  [Directory!Next]_Directory!vars
  BY <1>5, CrashRefines DEF Directory!Next
<1>6. ASSUME UNCHANGED <<docs, told, got>>
      PROVE  [Directory!Next]_Directory!vars
  BY <1>6 DEF HolderOf, Taken, Directory!vars
<1>7. ASSUME NEW s \in Servers, Start(s)
      PROVE  UNCHANGED <<docs, told, got>>
  BY <1>7 DEF Start, store
<1>8. CASE UNCHANGED vars
  BY <1>6, <1>8 DEF vars
<1> QED
  BY <1>1, <1>2, <1>3, <1>4, <1>5, <1>6, <1>7, <1>8 DEF Next

\* The service implements the directory: a userID goes to the first registration that
\* stores it and never changes hands, "ok" is only said of a batch that is all in, and
\* every answer is true.
THEOREM Implements == Spec => ImplementsDirectory
<1>1. Init => Directory!Init
  BY DirectoryInit
<1>2. IInv /\ [Next]_vars => [Directory!Next]_Directory!vars
  BY StepRefines
<1> QED
  BY <1>1, <1>2, Inductive, PTL DEF Spec, ImplementsDirectory, Directory!Spec

\* A step of the directory adds to it and to the answers, and takes nothing back.
LEMMA DirectoryGrows ==
    ASSUME TypeOK, [Directory!Next]_Directory!vars
    PROVE  /\ \A u \in UserIDs : HolderOf(u) # Unregistered => HolderOf(u)' = HolderOf(u)
           /\ \A c \in RegisterCalls : told[c] # "none" => told'[c] = told[c]
           /\ \A g \in GetCalls : got[g] # NoAnswer => got'[g] = got[g]
<1> DEFINE dir == [u \in UserIDs |-> HolderOf(u)]
           Grows == /\ \A u \in UserIDs : dir[u] # Unregistered => dir'[u] = dir[u]
                    /\ \A c \in RegisterCalls : told[c] # "none" => told'[c] = told[c]
                    /\ \A g \in GetCalls : got[g] # NoAnswer => got'[g] = got[g]
<1>1. SUFFICES Grows
  OBVIOUS
<1>2. /\ DOMAIN dir = UserIDs /\ dir = [u \in UserIDs |-> dir[u]]
      /\ told = [c \in RegisterCalls |-> told[c]] /\ got = [g \in GetCalls |-> got[g]]
  BY DEF TypeOK
<1> USE DEF NoAnswer, Directory!NoAnswer
<1>3. ASSUME NEW c \in RegisterCalls, NEW u \in UserIDs, NEW n \in Nicknames,
             Directory!Enrol(c, u, n)
      PROVE  Grows
  <2>1. /\ dir[u] = Unregistered /\ dir' = [dir EXCEPT ![u] = [by |-> c, nickname |-> n]]
        /\ UNCHANGED <<told, got>>
    BY <1>3 DEF Directory!Enrol
  <2> HIDE DEF dir
  <2> QED
    BY <1>2, <2>1
<1>4. ASSUME UNCHANGED dir,
             \A c \in RegisterCalls : told[c] # "none" => told'[c] = told[c],
             \A g \in GetCalls : got[g] # NoAnswer => got'[g] = got[g]
      PROVE  Grows
  <2> HIDE DEF dir
  <2> QED
    BY <1>4
<1>5. ASSUME NEW c \in RegisterCalls,
             Directory!Acknowledge(c) \/ Directory!Refuse(c) \/ Directory!Disappoint(c)
      PROVE  Grows
  BY <1>2, <1>4, <1>5 DEF Directory!Acknowledge, Directory!Refuse, Directory!Disappoint
<1>6. ASSUME NEW g \in GetCalls, Directory!AnswerNothing(g) PROVE Grows
  BY <1>2, <1>4, <1>6 DEF Directory!AnswerNothing
<1>7. ASSUME NEW g \in GetCalls, NEW u \in UserIDs, Directory!AnswerFound(g, u) PROVE Grows
  BY <1>2, <1>4, <1>7 DEF Directory!AnswerFound
<1>8. ASSUME NEW C \in SUBSET RegisterCalls, NEW G \in SUBSET GetCalls, Directory!CutOff(C, G)
      PROVE  Grows
  BY <1>4, <1>8 DEF Directory!CutOff
<1>9. CASE UNCHANGED Directory!vars
  BY <1>4, <1>9 DEF Directory!vars
<1> QED
  BY <1>3, <1>5, <1>6, <1>7, <1>8, <1>9 DEF Directory!Next

\* What the directory promises is for good: a userID never changes hands or nickname, and
\* no caller is told one thing and then another, whatever dies, retries or comes late.
THEOREM NothingTakenBack ==
    Spec => [][/\ \A u \in UserIDs : HolderOf(u) # Unregistered => HolderOf(u)' = HolderOf(u)
               /\ \A c \in RegisterCalls : told[c] # "none" => told'[c] = told[c]
               /\ \A g \in GetCalls : got[g] # NoAnswer => got'[g] = got[g]]_vars
<1>1. IInv /\ [Next]_vars =>
         /\ \A u \in UserIDs : HolderOf(u) # Unregistered => HolderOf(u)' = HolderOf(u)
         /\ \A c \in RegisterCalls : told[c] # "none" => told'[c] = told[c]
         /\ \A g \in GetCalls : got[g] # NoAnswer => got'[g] = got[g]
  BY StepRefines, DirectoryGrows DEF IInv
<1> QED
  BY <1>1, Inductive, PTL DEF Spec
=============================================================================
