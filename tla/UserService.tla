---------------------------- MODULE UserService ----------------------------
(***************************************************************************)
(* The user RPC service: the handlers UserRegister and GetDesignateUsers   *)
(* of one or more openim-rpc-user processes, the storage layers under them *)
(* (controller, cache, mgo), and the one MongoDB collection they share.    *)
(*                                                                         *)
(* A call of UserRegister is two actors.  The handler runs in a server     *)
(* process; the insertMany command it sends runs in MongoDB, one document  *)
(* at a time and in order, and goes on when the handler, its connection or *)
(* its process is gone.  Calls of several clients and servers interleave   *)
(* at every document.                                                      *)
(*                                                                         *)
(* A caller is a program with a gRPC connection or an HTTP client of the   *)
(* API, which checks the request before it passes it on.                   *)
(***************************************************************************)
EXTENDS Naturals, Sequences, FiniteSets

CONSTANTS UserIDs,        \* every string a request may carry as a userID
          WellFormed,     \* those that are not empty and hold no ':'
          Nicknames,
          NoNickname,     \* the empty one
          RegisterCalls,  \* UserRegister invocations, retries included
          GetCalls,       \* GetDesignateUsers invocations
          Batches,        \* the user lists a registration may carry
          Queries,        \* the userID lists a lookup may carry
          Servers,        \* openim-rpc-user processes
          NoServer,
          Unregistered    \* what the directory shows of a userID nobody holds

User == [userID : UserIDs, nickname : Nicknames]

ASSUME ConstantsOK ==
    /\ WellFormed \subseteq UserIDs
    /\ Batches \subseteq Seq(User)
    /\ Queries \subseteq Seq(UserIDs)
    /\ RegisterCalls \cap GetCalls = {}
    /\ NoServer \notin Servers
    /\ Unregistered \notin [by : RegisterCalls, nickname : Nicknames]

Calls == RegisterCalls \cup GetCalls

VARIABLES
    docs,     \* the "user" collection; "by" stands for the document's own _id
    cmd,      \* cmd[c]: where MongoDB is with the insertMany of call c
    pos,      \* pos[c]: the next document of the batch MongoDB will insert
    users,    \* users[c]: the request of registration c
    ids,      \* ids[g]: the request of lookup g
    stage,    \* stage[c]: where the handler of call c is
    srv,      \* srv[c]: the process that runs, or ran, call c
    read,     \* read[g]: what FindOne returned to lookup g
    told,     \* told[c]: what the caller of registration c was answered
    got,      \* got[g]: what the caller of lookup g was answered
    up,       \* up[s]: process s runs
    counter,  \* counter[s]: user_register_total of process s
    seen      \* seen[g]: the userIDs acknowledged when lookup g began (history)

store == <<docs, cmd, pos>>
request == <<users, ids>>
vars == <<docs, cmd, pos, users, ids, stage, srv, read, told, got, up, counter, seen>>

NoAnswer == [is |-> "none", users |-> <<>>]

Init ==
    /\ docs = {}
    /\ cmd = [c \in RegisterCalls |-> "none"]
    /\ pos = [c \in RegisterCalls |-> 1]
    /\ users = [c \in RegisterCalls |-> <<>>]
    /\ ids = [g \in GetCalls |-> <<>>]
    /\ stage = [c \in Calls |-> "idle"]
    /\ srv = [c \in Calls |-> NoServer]
    /\ read = [g \in GetCalls |-> <<>>]
    /\ told = [c \in RegisterCalls |-> "none"]
    /\ got = [g \in GetCalls |-> NoAnswer]
    /\ up = [s \in Servers |-> TRUE]
    /\ counter = [s \in Servers |-> 0]
    /\ seen = [g \in GetCalls |-> {}]

\* A reply reaches the caller if it is still there to hear it.
Tell(c, answer) ==
    told' = [told EXCEPT ![c] = IF @ = "none" THEN answer ELSE @]
Give(g, answer) ==
    got' = [got EXCEPT ![g] = IF @ = NoAnswer THEN answer ELSE @]

-----------------------------------------------------------------------------
(* The API, in front of the service *)

\* UserRegisterReq.Check.  A list that is empty but not nil passes it, and then
\* arrives as one that is nil.
Checked(b) == b # <<>> /\ \A i \in DOMAIN b : b[i].nickname # NoNickname

\* The route of the API refuses the request.  The handler below takes it all the
\* same from a caller that does not go through the API.
UserRegisterUnchecked(c, b) ==
    /\ stage[c] = "idle"
    /\ ~Checked(b)
    /\ users' = [users EXCEPT ![c] = b]
    /\ stage' = [stage EXCEPT ![c] = "done"]
    /\ Tell(c, "args")
    /\ UNCHANGED <<store, ids, srv, read, got, up, counter, seen>>

\* GetDesignateUsersReq.Check.
GetUnchecked(g, q) ==
    /\ stage[g] = "idle"
    /\ q = <<>>
    /\ ids' = [ids EXCEPT ![g] = q]
    /\ stage' = [stage EXCEPT ![g] = "done"]
    /\ Give(g, [is |-> "error", users |-> <<>>])
    /\ UNCHANGED <<store, users, srv, read, told, up, counter, seen>>

\* The request goes to a process that runs, whose gRPC server decodes it, runs
\* the interceptors and calls the handler.
Arrives(c, s) ==
    /\ stage[c] = "idle" /\ up[s]
    /\ srv' = [srv EXCEPT ![c] = s]

-----------------------------------------------------------------------------
(* UserRegister: the handler *)

\* MUTANT of Accepts: only the first userID is looked at.
AcceptsFirst(b) == b # <<>> /\ b[1].userID \in WellFormed

\* The argument checks of UserRegister: a user list that is not empty, repeats
\* no userID and carries only well-formed ones.
Accepts(b) ==
    /\ b # <<>>
    /\ \A i, j \in DOMAIN b : i # j => b[i].userID # b[j].userID
    /\ \A i \in DOMAIN b : b[i].userID \in WellFormed

UserRegisterReject(c, s, b) ==
    /\ Arrives(c, s)
    /\ ~Accepts(b)
    /\ users' = [users EXCEPT ![c] = b]
    /\ stage' = [stage EXCEPT ![c] = "done"]
    /\ Tell(c, "args")
    /\ UNCHANGED <<store, ids, read, got, up, counter, seen>>

\* The checks pass, the models are built and Create hands them to InsertMany.
\* Nothing looks up whether the userIDs are taken: only the unique index does.
UserRegisterCreate(c, s, b) ==
    /\ Arrives(c, s)
    /\ Accepts(b)
    /\ users' = [users EXCEPT ![c] = b]
    /\ stage' = [stage EXCEPT ![c] = "create"]
    /\ cmd' = [cmd EXCEPT ![c] = "running"]
    /\ UNCHANGED <<docs, pos, ids, read, told, got, up, counter, seen>>

\* MUTANT of Succeeded: a duplicate key is taken for a retry that came too late.
SucceededOrRetried(c) == cmd[c] \in {"ok", "duplicate"}

\* Create returned nil.
Succeeded(c) == cmd[c] = "ok"

\* MUTANT of Count: the users are counted, not the registrations.
CountUsers(c) == counter' = [counter EXCEPT ![srv[c]] = @ + Len(users[c])]

Count(c) == counter' = [counter EXCEPT ![srv[c]] = @ + 1]

UserRegisterReturn(c) ==
    /\ stage[c] = "create" /\ Succeeded(c)
    /\ Count(c)
    /\ stage' = [stage EXCEPT ![c] = "done"]
    /\ Tell(c, "ok")
    /\ UNCHANGED <<store, request, srv, read, got, up, seen>>

\* MUTANT of FailureReply: the reason goes to the caller unmapped.
RawFailure(c) == cmd[c]

FailureReply(c) == "error"

\* Create returned an error: MongoDB reported one, or the driver gave up on a
\* command that MongoDB has not finished (deadline, cancelled context, network).
UserRegisterFail(c) ==
    /\ stage[c] = "create"
    /\ stage' = [stage EXCEPT ![c] = "done"]
    /\ Tell(c, FailureReply(c))
    /\ UNCHANGED <<store, request, srv, read, got, up, counter, seen>>

-----------------------------------------------------------------------------
(* The collection: what MongoDB does with an ordered insertMany *)

\* MUTANT of Taken: NewUserMongo creates an index that is not unique.
TakenNoIndex(u) == FALSE

Taken(u) == \E d \in docs : d.userID = u

\* Document i of the batch that call c inserts.
Document(c, i) == [userID |-> users[c][i].userID,
                   nickname |-> users[c][i].nickname, by |-> c]

InsertNext(c) ==
    /\ cmd[c] = "running" /\ pos[c] <= Len(users[c])
    /\ ~Taken(users[c][pos[c]].userID)
    /\ docs' = docs \cup {Document(c, pos[c])}
    /\ pos' = [pos EXCEPT ![c] = @ + 1]
    /\ UNCHANGED <<cmd, request, stage, srv, read, told, got, up, counter, seen>>

\* MUTANT of InsertDuplicate: an unordered insert that ignores duplicate keys.
InsertDuplicateSkips(c) ==
    /\ cmd[c] = "running" /\ pos[c] <= Len(users[c])
    /\ Taken(users[c][pos[c]].userID)
    /\ pos' = [pos EXCEPT ![c] = @ + 1]
    /\ UNCHANGED <<docs, cmd, request, stage, srv, read, told, got, up, counter, seen>>

\* MUTANT of InsertDuplicate: the write is tried again until it succeeds.
InsertDuplicateRetries(c) ==
    /\ cmd[c] = "running" /\ pos[c] <= Len(users[c])
    /\ Taken(users[c][pos[c]].userID)
    /\ UNCHANGED vars

\* The unique index on user_id refuses the document; an ordered insert stops.
InsertDuplicate(c) ==
    /\ cmd[c] = "running" /\ pos[c] <= Len(users[c])
    /\ Taken(users[c][pos[c]].userID)
    /\ cmd' = [cmd EXCEPT ![c] = "duplicate"]
    /\ UNCHANGED <<docs, pos, request, stage, srv, read, told, got, up, counter, seen>>

\* MUTANT of AllInserted: the last document is forgotten.
AllButLast(c) == pos[c] >= Len(users[c])

AllInserted(c) == pos[c] > Len(users[c])

InsertDone(c) ==
    /\ cmd[c] = "running" /\ AllInserted(c)
    /\ cmd' = [cmd EXCEPT ![c] = "ok"]
    /\ UNCHANGED <<docs, pos, request, stage, srv, read, told, got, up, counter, seen>>

\* MongoDB gives the command up midway (primary step-down, killed operation).
InsertAbort(c) ==
    /\ cmd[c] = "running"
    /\ cmd' = [cmd EXCEPT ![c] = "aborted"]
    /\ UNCHANGED <<docs, pos, request, stage, srv, read, told, got, up, counter, seen>>

-----------------------------------------------------------------------------
(* GetDesignateUsers *)

GetDesignateUsers(g, s, q) ==
    /\ Arrives(g, s)
    /\ ids' = [ids EXCEPT ![g] = q]
    /\ stage' = [stage EXCEPT ![g] = "take"]
    /\ seen' = [seen EXCEPT ![g] =
                  {u \in UserIDs : \E c \in RegisterCalls :
                      /\ told[c] = "ok"
                      /\ \E i \in DOMAIN users[c] : users[c][i].userID = u}]
    /\ UNCHANGED <<store, users, read, told, got, up, counter>>

\* GetUsersInfo asks the database for the first userID of the list, only.  That
\* there is no document is the driver's error, "not found" to the caller as well.
Take(g) ==
    /\ stage[g] = "take" /\ ids[g] # <<>>
    /\ \/ /\ ~Taken(ids[g][1])
          /\ UNCHANGED read
       \/ \E d \in docs :
             /\ d.userID = ids[g][1]
             /\ read' = [read EXCEPT ![g] = <<[userID |-> d.userID, nickname |-> d.nickname]>>]
    /\ stage' = [stage EXCEPT ![g] = "taken"]
    /\ UNCHANGED <<store, request, srv, told, got, up, counter, seen>>

\* MUTANT of FoundAll: FindWithError without the comparison of the lengths.
FoundAny(g) == read[g] # <<>>

\* FindWithError compares how many users it has with how many were asked for.
FoundAll(g) == Len(read[g]) = Len(ids[g])

\* The users of the reply: userID and nickname of each that was found.
UsersDB2Pb(us) ==
    [i \in DOMAIN us |-> [userID |-> us[i].userID, nickname |-> us[i].nickname]]

GetReturn(g) ==
    /\ stage[g] = "taken"
    /\ stage' = [stage EXCEPT ![g] = "done"]
    /\ Give(g, IF FoundAll(g)
                  THEN [is |-> "found", users |-> UsersDB2Pb(read[g])]
                  ELSE [is |-> "notfound", users |-> <<>>])
    /\ UNCHANGED <<store, request, srv, read, told, up, counter, seen>>

\* The query fails, or the list is empty and userIDs[0] is out of range: the
\* interceptor turns the panic into an error (if it does not, see Crash).
GetFail(g) ==
    /\ stage[g] = "take"
    /\ stage' = [stage EXCEPT ![g] = "done"]
    /\ Give(g, [is |-> "error", users |-> <<>>])
    /\ UNCHANGED <<store, request, srv, read, told, up, counter, seen>>

-----------------------------------------------------------------------------
(* Connections and processes *)

\* The caller goes away before its answer: deadline, closed connection.
Disconnect(c) ==
    /\ stage[c] \notin {"idle", "done"}
    /\ \/ c \in RegisterCalls /\ Tell(c, "lost") /\ UNCHANGED got
       \/ c \in GetCalls /\ Give(c, [is |-> "lost", users |-> <<>>]) /\ UNCHANGED told
    /\ UNCHANGED <<store, request, stage, srv, read, up, counter, seen>>

InHand(s) == {c \in Calls : srv[c] = s /\ stage[c] \notin {"idle", "done"}}

\* A process dies: its handlers and its counter are gone, their callers see a
\* broken connection, and the commands it sent run on in MongoDB.
Crash(s) ==
    /\ up[s]
    /\ up' = [up EXCEPT ![s] = FALSE]
    /\ counter' = [counter EXCEPT ![s] = 0]
    /\ srv' = [c \in Calls |-> IF srv[c] = s THEN NoServer ELSE srv[c]]
    /\ stage' = [c \in Calls |-> IF c \in InHand(s) THEN "done" ELSE stage[c]]
    /\ told' = [c \in RegisterCalls |->
                  IF c \in InHand(s) /\ told[c] = "none" THEN "lost" ELSE told[c]]
    /\ got' = [g \in GetCalls |->
                 IF g \in InHand(s) /\ got[g] = NoAnswer
                    THEN [is |-> "lost", users |-> <<>>] ELSE got[g]]
    /\ UNCHANGED <<store, request, read, seen>>

\* Start builds the handler over the same collection; creating the unique
\* index again changes nothing.
Start(s) ==
    /\ ~up[s]
    /\ up' = [up EXCEPT ![s] = TRUE]
    /\ UNCHANGED <<store, request, stage, srv, read, told, got, counter, seen>>

-----------------------------------------------------------------------------
UserRegister(c) ==
    \/ \E b \in Batches : UserRegisterUnchecked(c, b)
    \/ \E s \in Servers, b \in Batches :
          UserRegisterReject(c, s, b) \/ UserRegisterCreate(c, s, b)
    \/ UserRegisterReturn(c)
    \/ UserRegisterFail(c)

InsertProceeds(c) == InsertNext(c) \/ InsertDuplicate(c) \/ InsertDone(c)

InsertMany(c) == InsertProceeds(c) \/ InsertAbort(c)

Lookup(g) ==
    \/ \E q \in Queries : GetUnchecked(g, q)
    \/ \E s \in Servers, q \in Queries : GetDesignateUsers(g, s, q)
    \/ Take(g)
    \/ GetReturn(g)
    \/ GetFail(g)

Next ==
    \/ \E c \in RegisterCalls : UserRegister(c) \/ InsertMany(c)
    \/ \E g \in GetCalls : Lookup(g)
    \/ \E c \in Calls : Disconnect(c)
    \/ \E s \in Servers : Crash(s) \/ Start(s)

Spec == Init /\ [][Next]_vars

\* A server that runs goes on with the handlers it has started, MongoDB goes on
\* with every command and answers it.  Nothing makes a client call or disconnect,
\* a command abort or a process die, and no timer bounds a handler: Create fails by fairness only
\* once its command did.
UserRegisterFailed(c) == cmd[c] \in {"duplicate", "aborted"} /\ UserRegisterFail(c)

Fairness ==
    /\ \A c \in RegisterCalls :
          /\ WF_vars(UserRegisterReturn(c))
          /\ WF_vars(UserRegisterFailed(c))
          /\ WF_vars(InsertProceeds(c))
    /\ \A g \in GetCalls : WF_vars(Take(g) \/ GetReturn(g) \/ GetFail(g))

LiveSpec == Spec /\ Fairness

-----------------------------------------------------------------------------
(* Properties *)

\* Every variable holds a value of its type.
TypeOK ==
    /\ docs \subseteq [userID : UserIDs, nickname : Nicknames, by : RegisterCalls]
    /\ cmd \in [RegisterCalls -> {"none", "running", "ok", "duplicate", "aborted"}]
    /\ pos \in [RegisterCalls -> Nat \ {0}]
    /\ users \in [RegisterCalls -> Seq(User)]
    /\ ids \in [GetCalls -> Seq(UserIDs)]
    /\ stage \in [Calls -> {"idle", "create", "take", "taken", "done"}]
    /\ srv \in [Calls -> Servers \cup {NoServer}]
    /\ read \in [GetCalls -> Seq(User)]
    /\ told \in [RegisterCalls -> {"none", "ok", "args", "error", "lost"}]
    /\ got \in [GetCalls -> [is : {"none", "found", "notfound", "error", "lost"},
                             users : Seq(User)]]
    /\ up \in [Servers -> BOOLEAN]
    /\ counter \in [Servers -> Nat]
    /\ seen \in [GetCalls -> SUBSET UserIDs]

Stored(c, i) == Document(c, i) \in docs

\* However the inserts of concurrent calls and processes interleave, no two
\* documents carry one userID: the index NewUserMongo creates is what holds it,
\* since UserRegister never looks.
UniqueUserID == \A d, e \in docs : d.userID = e.userID => d = e

\* A caller that UserRegister answered without an error finds every user of its
\* batch in the collection, put there by its own call, for good.
AckedDurable ==
    \A c \in RegisterCalls :
        told[c] = "ok" => users[c] # <<>> /\ \A i \in DOMAIN users[c] : Stored(c, i)

\* Two registrations that both succeeded share no userID: of several that race
\* for one, a single caller is told it has it.
ExclusiveAck ==
    \A c, d \in RegisterCalls :
        c # d /\ told[c] = "ok" /\ told[d] = "ok" =>
            \A i \in DOMAIN users[c], j \in DOMAIN users[d] :
                users[c][i].userID # users[d][j].userID

\* A request that UserRegister refuses for its arguments leaves no document, and
\* no malformed userID is ever stored, though the batch is inserted one by one.
RefusedLeavesNoTrace ==
    \A d \in docs : d.userID \in WellFormed /\ told[d.by] # "args"

\* What a registration has stored is an unbroken prefix of its batch, also when
\* it failed or its server died: where Create stopped can be told from what is
\* there.
PrefixStored ==
    \A c \in RegisterCalls :
        \A i \in DOMAIN users[c] : Stored(c, i) <=> i < pos[c]

\* The inductive invariant behind the properties above.  The collection holds
\* what the commands have inserted so far and nothing else, and how far a command
\* is agrees with what its handler and its caller believe.
StoreInv ==
    /\ UniqueUserID
    /\ \A d \in docs : \E i \in DOMAIN users[d.by] : i < pos[d.by] /\ d = Document(d.by, i)
    /\ \A c \in RegisterCalls : \A i \in DOMAIN users[c] : i < pos[c] => Stored(c, i)

CallInv ==
    \A c \in RegisterCalls :
        /\ cmd[c] = "none" <=> stage[c] = "idle" \/ ~Accepts(users[c]) \/ told[c] = "args"
        /\ stage[c] \in {"idle", "create", "done"}
        /\ stage[c] # "idle" => users[c] \in Batches
        /\ stage[c] = "idle" => told[c] = "none"
        /\ stage[c] = "create" => Accepts(users[c]) /\ told[c] \in {"none", "lost"}
        /\ cmd[c] = "none" => pos[c] = 1
        /\ cmd[c] = "ok" => pos[c] > Len(users[c])
        /\ told[c] = "ok" => cmd[c] = "ok"

\* What a lookup has read is a user of the collection, which keeps its nickname.
LookupInv ==
    \A g \in GetCalls :
        /\ stage[g] = "idle" => read[g] = <<>> /\ got[g] = NoAnswer
        /\ stage[g] = "take" => read[g] = <<>> /\ got[g].is # "found"
        /\ read[g] # <<>> =>
              /\ ids[g] # <<>>
              /\ \E d \in docs :
                    /\ d.userID = ids[g][1]
                    /\ read[g] = <<[userID |-> d.userID, nickname |-> d.nickname]>>
        /\ got[g].is = "found" => got[g].users = read[g] /\ FoundAll(g)

\* A reply of GetDesignateUsers shows a user of the collection, the one that was
\* asked for, also when it was registered while the lookup ran.
FoundIsRegistered ==
    \A g \in GetCalls :
        got[g].is = "found" =>
            /\ Len(got[g].users) = Len(ids[g])
            /\ \A i \in DOMAIN got[g].users :
                  /\ got[g].users[i].userID = ids[g][i]
                  /\ \E d \in docs : /\ d.userID = ids[g][i]
                                     /\ d.nickname = got[g].users[i].nickname

\* A lookup of one userID that began after its registration was acknowledged,
\* by whichever process, is not answered "not found".
AckedIsFound ==
    \A g \in GetCalls :
        Len(ids[g]) = 1 /\ got[g].is = "notfound" => ids[g][1] \notin seen[g]

HandledBy(s) == {c \in RegisterCalls : srv[c] = s /\ stage[c] = "done"}

\* user_register_total of a process is no less than the registrations it has
\* acknowledged since it started, and counts none whose batch is not stored.
CounterHonest ==
    \A s \in Servers :
        /\ counter[s] >= Cardinality({c \in HandledBy(s) : told[c] = "ok"})
        /\ counter[s] <= Cardinality({c \in HandledBy(s) : cmd[c] = "ok"})

\* What was acknowledged when a lookup began is stored by then, so that it finds the
\* document: it misses only what was not acknowledged.
SeenInv ==
    /\ AckedIsFound
    /\ \A g \in GetCalls :
          /\ \A u \in seen[g] : Taken(u)
          /\ stage[g] = "taken" => ids[g] # <<>>
          /\ stage[g] = "taken" /\ read[g] = <<>> => ids[g][1] \notin seen[g]

\* At any time finitely many calls have arrived, however many there will be.
CounterInv ==
    /\ CounterHonest
    /\ IsFiniteSet({c \in RegisterCalls : stage[c] # "idle"})

IInv == TypeOK /\ StoreInv /\ CallInv /\ LookupInv /\ SeenInv /\ CounterInv

\* Every call that reaches a handler is answered, or its connection breaks.
EveryCallAnswered ==
    /\ \A c \in RegisterCalls : stage[c] # "idle" ~> told[c] # "none"
    /\ \A g \in GetCalls : stage[g] # "idle" ~> got[g] # NoAnswer

\* The service implements the directory its callers see: a userID belongs to
\* the document that carries it.
HolderOf(u) ==
    IF Taken(u)
    THEN LET d == CHOOSE d \in docs : d.userID = u
         IN [by |-> d.by, nickname |-> d.nickname]
    ELSE Unregistered

Directory == INSTANCE UserDirectory WITH
    dir <- [u \in UserIDs |-> HolderOf(u)]

\* A userID goes to the first call that stores it and never changes hands or
\* nickname, "ok" is only said of a batch that is all in, by this call, and a
\* refusal or a true answer says nothing else, whatever the interleaving.
ImplementsDirectory == Directory!Spec

\* FindWithError: "return an error if the userID is not found".  A lookup whose
\* userIDs were all acknowledged before it began is not answered "not found".
ListedAreFound ==
    \A g \in GetCalls :
        got[g].is = "notfound" => \E i \in DOMAIN ids[g] : ids[g][i] \notin seen[g]

=============================================================================
