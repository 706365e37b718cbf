# A TLA+ verification project for openim-project-template

The repository is a template of an OpenIM server. An HTTP API process
(`openim-api`) forwards requests to a gRPC user service (`openim-rpc-user`), any
number of whose processes keep their users in one MongoDB collection; etcd or
Kubernetes tells the API where they are. The modules here model the parts of it
that run concurrently or stop in the middle. TLC checks them on small instances,
TLAPS proves what matters most for every instance, and `PROJECT.json` says line
by line which code each definition stands for.

Run from this directory: `tlc -config <cfg> <module>` for the runs of section 4,
`tlapm <module>` for the proofs of section 5.

## 1. Inventory

### User RPC service
*Code*: `internal/rpc/user/user.go`, `storage/controller/user.go`,
`storage/cache/redis/user.go`, `storage/database/mgo/user.go`, `storage/model`,
`convert`, `prommetrics/grpc_user.go`.
*State*: the `user` collection with its unique index on `user_id`; per process the
handlers in flight and the counter `user_register_total`.
*Operations*: `UserRegister` (checks the list, then `InsertMany`),
`GetDesignateUsers` (`FindWithError` over `GetUsersInfo`), `Start` (creates the
index).
*Interaction*: processes share only the collection. There is no lock, no lookup
before the insert, and no transaction (`NewUser` of the controller is given a `tx`
it never uses).
*Hard*: concurrent batches that overlap; a batch that fails midway and stays half
stored; an insert that runs on when its handler, process or caller is gone; retries
of batches that are stored already.
*Correct means*: one document per userID; "ok" means the whole batch is stored, by
this call; of several callers that want a userID one at most is told it has it;
refused requests leave no trace; lookups tell the truth; the counter counts
acknowledged registrations; every call is answered or cut off.

### RPC client and API handlers
*Code*: `rpcclient/user.go`; `internal/api/user.go`, `protocol/user/user.go`, the
gRPC stubs of `protocol/user/user.pb.go`.
*State*: a connection. *Operations*: `GetUsersInfo`, `GetUsersInfoMap` and their
public variants; `Check` of the two requests, before the API forwards them.
*Hard*: what a lookup answers may be less than what was asked for.
*Correct means*: a caller gets an error or the whole map.

### RPC process lifecycle
*Code*: `startrpc/start.go`, `cmd/openim-rpc`, `pkg/common/cmd`, `discoveryregister`.
*State*: `netDone` (capacity 2), `netErr`, `httpServer`, the gRPC server, the signal
channel, the listening socket, the entry in the registry.
*Operations*: the command's configuration, `Start`, `gracefulStopWithCtx`, one
goroutine per server.
*Interaction*: etcd or Kubernetes shows the process from `Register` on; clients
connect to the socket.
*Hard*: four goroutines, shared variables without locks, a channel that is closed
while others may send, two ways to stop the server of which one has no deadline; the
process is listed before it serves and never unlisted by its own hand.
*Correct means*: no request is cut off by a process that returns; success is
reported only on a signal; an error names a server that failed; a failure or a
signal ends the process; a listed process answers until it stops.

### API process lifecycle
*Code*: `internal/api/init.go`, `internal/api/router.go`, `ginprometheus`,
`cmd/openim-api`, `rpcclient.NewUser`.
*State*: `err` and `netErr` shared by two goroutines, `netDone` (capacity 1), the HTTP
server, the deadline of its shutdown, the handler chains of the router.
*Operations*: `Start`, one goroutine per server, `p.Use(router)`, requests.
*Hard*: both goroutines assign `err` and read it back; the second sender blocks or
meets a closed channel; the 15 seconds run from the start; the router changes while
it serves.
*Correct means*: as above, with a deadline that holds, and requests that are counted.

### API metrics
*Code*: `ginprometheus/ginprometheus.go`, `prommetrics`.
*State*: the registered metrics, the counts, the push ticker.
*Operations*: `NewPrometheus`, `Use`, the middleware, `SetPushGateway` and the
goroutine it starts.
*Hard*: requests interleave and panic between two metrics; the page is read
piecemeal and may come through the middleware itself; pushes fail at each step.
*Correct means*: the metrics agree; the gateway never goes back and catches up.

### Cache: batch deleter and cache-aside reads
*Code*: `cache/redis/batch_handler.go`.
*State*: the slice of keys of each deleter; values and locks in Redis; the fetches
that run in a process.
*Operations*: `Clone`, `AddKeys`, `ChainExecDel`, `ExecDelWithKeys`; `getCache`,
`batchGetCache`.
*Interaction*: readers fill the cache from the database, deleters mark its keys as
deleted after a write; they meet only in Redis, in the scripts of rockscache.
*Hard*: clones share an array; deletes fail per slot; a reader may fill the cache with
what it read before the delete; calls of one process share a fetch, its value and its
failure; locks outlive their owners.
*Correct means*: a deleter deletes the keys it was given; no value in the cache, and
none given to a reader, is older than the last completed delete; every read ends. No
code of the repository uses it yet; it is the library its services will.

### Component check
*Code*: `tools/check-component/main.go`.
*State*: `checksDone`, the attempt. *Operations*: `performChecks`, `initConfig`.
*Hard*: components come and go between attempts; map iteration has no order.
*Correct means*: "passed" is true of every check, "failed" of one that failed each
time, and one of them is reached.

### The rest
| Component | State | Operations and interaction | Correct means |
|---|---|---|---|
| Commands: `pkg/common/cmd`, `config` | the files not loaded yet | load each file, then the logger: the first steps of both lifecycles | a failure ends the start |
| Registry: etcd, Kubernetes | who serves where | `Register`, `GetConn` | see the RPC process |
| Error relations: `servererrs` | a table built once | `Add`, `Is`; no code reads the table | `Is` is reflexive and holds along each `Add` |

## 2. Modules

| Module | Models | Variables and the code |
|---|---|---|
| `UserDirectory` | the abstract service its callers see: a userID goes to the first call that reaches it, for good | `dir`, `told`, `got`: no code of their own |
| `UserService` | the user RPC service on several processes | `docs` the collection; `cmd`, `pos` the `insertMany` of a call inside MongoDB; `users`, `ids`, `stage`, `srv`, `read` the handlers, behind the checks of the API; `told`, `got` the replies; `up`, `counter` the processes; `seen` history |
| `UserClient` | the RPC client, as functions of what was asked and answered, over `UserService` | none of its own |
| `MCUserService` | an instance of both for TLC | |
| `UserServiceProofs`, `UserClientProofs`, `UserDirectoryProofs` | proofs about them, and of the refinement | |
| `RpcStart`, `RpcStartProofs` | the process of `openim-rpc-user`, and a client that finds it in the registry | `unread` the configuration; `pc` of four goroutines; `netDone`, `closed`, `netErr`, `httpServer` as in the code; `stopping`, `rpcs` the gRPC server; `port`, `conn` the socket and its backlog; `listed` the registry; `term` the signal |
| `ApiStart`, `ApiStartProofs` | the process of `api.Start`, and its router | the same, with `err`, `expired` (the deadline), `http`, `requests`, `router` |
| `GinPrometheus`, `GinPrometheusProofs` | the metrics, the middleware and the push ticker in one process | `todo`, `registered` of `MetricsList`; `at` the requests; `count` the metrics; `push`, `url`, `tick`, `page` the goroutine of the ticker; `posts`, `gateway` the other side |
| `Rockscache` | the scripts rockscache runs in Redis, external | `cache`: value, lock and owner of each key |
| `BatchDeleter`, `MCBatchDeleter` | deleters, with Go slices as headers over a heap of arrays, and their `execDel` | `heap`, `keys` the slices; `exec` the batches left; `cloned`, `meant` history |
| `CacheAside` | `getCache` and `batchGetCache` on several processes | `call` the calls under way; `db` the documents |
| `CachedStore`, `MCCachedStore`, `CachedStoreProofs` | `BatchDeleter`, `CacheAside` and writers of the database, over one `cache` | `since`, `deleted` history |
| `CheckComponent`, `CheckComponentProofs` | the component check, and proofs | `checksDone`, `i`, `allSuccess` as in the code; `todo` the rest of the map iteration |

Each action is a piece of the code between two points at which another goroutine,
process or MongoDB can be seen to act. Operators commented `MUTANT of` are not part
of a specification: each is a plausible bug of the definition it names, and the
property it is listed with in `PROJECT.json` fails when it takes its place.

Where the models abstract, and why that is faithful:

- **MongoDB.** `insertMany` is ordered (no option is set): documents one by one, in
  the order of the batch, until a duplicate or an abort. It is an actor of its own,
  since nothing stops it when the handler's context ends. Reads go to the primary and
  acknowledged writes are not rolled back: this is the driver's default read
  preference with majority writes. Fail-over with rollback is left out.
- **Clients.** A retry is another element of `RegisterCalls` with the same batch.
  A userID is "well formed" or not: not empty and without `:`. A nickname is a value.
- **`GetUsersInfo`** reads `userIDs[0]` only, and panics on an empty list; the gRPC
  interceptor of the tools package turns that into an error (`GetFail`), and if it
  did not, it would be a `Crash`.
- **Shared variables of the lifecycles.** `netErr` in `RpcStart` always holds one
  concrete type, so a racy read sees a whole error. `err` in `ApiStart` holds two, and
  may be read torn (`"torn"`). `httpServer` is one word. `e.Use` replaces a slice of
  three words while requests read it: a request may see the old chain, the new one,
  or a mixture, which ends the process (`UnknownTorn`, the worst the build can do).
- **Time.** Deadlines have no length: a timer that runs may fire at any moment.
- **Go's `append`** doubles small arrays, or takes what is needed.
- **Callers of the deleters** are not part of the repository. What they may do is the
  constant `Chained`: if it is true they clone the root or the end of a chain of clones,
  and add keys to the end of a chain only, never to the root, which others clone too.
  That is how "for chain calls" reads if the promise "to prevent memory pollution" is to
  be kept. A clone still shares the array of the deleter before it, and appends into it.
- **Rockscache** is not part of the repository. `Rockscache` has its scripts as
  `StrongConsistency` makes the client use them: each is one step of Redis; a reader
  whose key is locked waits; `set` and `unlock` do nothing for one who has lost the
  lock; a lock may run out while its owner works, and Redis may drop a key, at any
  moment. `CacheAside` adds what the client does in the process: calls for one key
  share one fetch (singleflight). A call that joins a fetch may get a value older
  than its own start; `ReadFresh` therefore counts from the fetch.
- **A document** is the number of its writes, so that "older" is `<`.
- **A delete that counts** is one that its caller may rely on: `execDel` returns nil
  whatever went wrong, so `deleted` only moves for keys whose commands succeeded.
- **Metrics** are counts, registered in any order (they do not affect each other);
  `NewMetric` gives a collector of one of the eight types it knows, or nil. Labels,
  durations and sizes are left out, but for the panics they may cause. The gateway keeps
  what the last page said of each metric.
- **The registry** shows a process or not. Leases and the choice among several
  processes are left out: an entry may outlive its process, and a client then finds
  no port that is open.

## 3. Plan

Done, in this order: `UserDirectory` and `UserService` with the refinement between
them, the proofs of its safety invariants, the two lifecycles, the component check
with its proofs; then the API's checks and the RPC client, with proofs, the registry
and the configuration in `RpcStart`, the metrics, and the caches, composed; then the
proofs of the caches, the lifecycles, the metrics, the refinement and the rest of
`UserService`. Left:

1. Liveness stays model-checked (section 5). Of what a proof can reach, an abstract
   store that the caches implement, with a read that may be as old as the last delete.
2. `servererrs` as functions checked against a reference definition, once some code
   reads the table.
3. Several RPC processes behind the registry: `RpcStart` per process, with leases, and
   clients that hold stale addresses.

## 4. What the runs show

| Run | Result | Shows |
|---|---|---|
| `user_safety` | passes, 846,426 states | storage, replies, counter and the client's maps agree under all interleavings of two registrations and a lookup on two processes; the inductive invariant holds |
| `user_promise` | passes, 490,535 states | `UserService` implements `UserDirectory`; every call is answered or cut off |
| `user_listed` | `ListedAreFound` fails | a lookup of two registered userIDs is answered "not found" |
| `rpc_life` | passes, 4,434 states | how an RPC process may end, that it does if its RPCs do, and that a client the registry sends is neither refused nor left in the backlog |
| `rpc_sigterm` | `SigtermExitsZero` fails | without Prometheus, SIGTERM ends in a nil dereference |
| `api_life` | passes, 28,784 states | how an API process may end, and that it does even if a request hangs |
| `api_sigterm` | `SigtermExitsZero` fails | the deadline has passed before the signal: a request in flight is cut off and the status is an error |
| `api_counted` | `RequestsCounted` fails | requests to the API's routes are not counted in `requests_total` |
| `check_component` | passes, 880 states | both verdicts of the component check are true, and one is reached |
| `cache` | passes, 1,075,816 states | deletes of keys in two slots, of which one may fail, and reads of the cache, composed: nothing older than a completed delete is kept or given out, and every read ends |
| `deleter_root` | `NoPollution` fails | a clone of a deleter with keys shares its array |
| `metrics` | passes, 161,806 states | whichever list `NewPrometheus` is given, the metrics agree, never go back on the push gateway, and reach it |

The failing runs each state what a comment, a document or a message of the repository
says, and are listed with the quotation under `findings`. More observations came out of
the models without a run of their own:

- After `gracefulStopWithCtx` has given up, the deferred `once.Do(srv.GracefulStop)`
  waits again, without a deadline: one RPC that hangs keeps the process alive after
  SIGTERM. `SigtermEnds` fails under `FairSpec`, where RPCs need not end.
- `Create` relies on a caller that has checked the userIDs (`controller/user.go:56`),
  and `UserRegister` has not; only the index saves it, after part of the batch may be
  stored.
- When both servers of a process fail, the second may send on the channel that
  `Start` has closed and panic; `OneFailureNoPanic` says it takes two failures (a
  `GracefulStop` before `Serve` has begun is one).
- `Start` never unregisters the process: while `GracefulStop` drains it is listed with
  a closed port. `ListedIsOpen` therefore speaks of a process that has not begun to
  stop.
- `execDel` publishes nothing, though its comment says so.
- A POST to the push gateway without an answer leaves `resp` nil, and `resp.Body`
  ends the process (`NoReply`); a push interval that is not positive panics in
  `NewTicker`. Nothing in the repository calls `SetPushGateway`.
- A metric whose `Type` is not known gets a nil collector, and `Register` panics on it
  (`Unfit`); so does `NewPrometheus` if it is given two lists. The API's list does neither.
- A component that has passed is not checked again while the others are retried, so that
  it may be down when "passed" is printed; the code means it so (`checksDone`), and
  `PassedMeansAnswered` says no more than that each check once succeeded. And a request
  for an unknown path may run into a chain that `Use` is replacing (`UnknownTorn`).
  Neither has a property that would notice: what the code does about it is nothing.
- A list that is empty but not nil passes `Check`, and is refused by the service.

### Bounds
- `UserService`: two registrations, one lookup, two processes (one in `user_promise`),
  two well-formed userIDs and a malformed one, two nicknames; six batches: two that
  overlap in both orders, so that each can block the other midway, a single user, one
  that repeats a userID, one malformed, and the empty one; lookups of no, one and two
  userIDs. All properties but the counter's relate at most two registrations and one
  lookup, and the proofs cover any number. Crashes and restarts are not bounded. The
  symmetry of `user_safety` exchanges calls and processes, which nothing distinguishes;
  `user_promise` has liveness and uses none.
- `RpcStart` and `ApiStart`: two requests in flight (`MaxRpcs`, `MaxRequests`), so
  that one may end while another hangs; one SIGTERM, since `sigs` holds one and `Start`
  takes one.
- `RpcStart`: one client connection at a time (`conn`): connections do not affect each
  other.
- `BatchDeleter` alone (`deleter_root`): a root and two clones, two keys added at a
  time, at most four per deleter (`MaxKeys`): enough for an array to have spare cells.
  It lets callers do as they like (`Chained` is false).
- `CachedStore`: two calls, one on p1 and one on p1 or p2, so that they share a fetch
  or meet in Redis; lists of no key and of one: a longer list takes its keys one after
  the other (the safety properties hold with a list of two, of which one is missing, in
  2,568,168 states, too many for the liveness). One document is written, twice
  (`MaxWrites`): the first write is what a cache can hold, the second makes it stale.
  Keys do not affect each other but through lists, batches and slices. A root and one
  clone, which collects a list of two keys in two slots: grouping can lose one, and the
  delete of one slot can fail while that of the other does not. One clone shares no array
  with anybody: a chain of two, which does, has been checked by itself (`IInv` without
  readers' lists, a root and two clones with up to five keys, 235,468 states; it fails if
  a deleter in the middle of the chain may add keys), and the proofs cover any number.
  One `execDel` runs at a time (`MaxExecs`): its only effect is to mark keys as deleted,
  which does not depend on another one, but deletes repeat without bound.
- `GinPrometheus`: two requests and the four standard metrics, of which one has a name
  that is taken, with no list, the API's, one with a metric of no known type, or two
  lists. Ticks, pushes and failures are not bounded.
- `CheckComponent`: three attempts for 180; first, middle and last differ.

### Fairness
- `UserService`: handlers that were started go on and so does every command in MongoDB.
  Clients, disconnects, aborts and crashes are not fair. No timer bounds a handler, so that
  `Create` fails by fairness only once its command has.
- `RpcStart`, `ApiStart`: weak fairness of each goroutine (Go's scheduler) and of the
  timers, and of the accept loop of the gRPC server. Failures, clients and SIGTERM are
  never fair. That RPCs end is assumed in `rpc_life` (`LiveSpec`), since no handler has
  a deadline of its own; `api_life` does without.
- `CachedStore`: the calls go on as long as one can, and a lock that is held runs out:
  rockscache gives each lock a time. Nothing is assumed of writers, deleters, crashes
  or failures. Each call is weakly fair in Go; to ask it only of all calls together is
  less, and is enough.
- `GinPrometheus`: weak fairness of the set-up, the ticker's goroutine and the gateway;
  requests are not fair. Strong fairness of a page that is served: reads may fail, but
  not all of them for ever.
- `CheckComponent`: weak fairness of the program; each check returns, by the timeouts
  of the clients. The components are not fair.

Deadlock is not checked: all calls may have been made and every process may have
ended, where the system stops rightly.

## 5. What is proved

Every invariant, action property and refinement of the passing runs is a theorem, too:
the run shows it on an instance, TLAPS for every value of the constants. Each
specification has its inductive invariant, `IInv`, in its module; TLC checks that one as
well, and with it `TypeOK`, its first part. Its theorems are in the module of the same
name with `Proofs`, each from `Init => IInv` and a lemma per part of `IInv` or per group
of actions.

### The user service (`UserServiceProofs`, `UserClientProofs`, `UserDirectoryProofs`)
For every set of userIDs, nicknames, calls, batches, queries and processes, finite or
not, assuming `ConstantsOK` of `UserService`: batches are sequences of users, calls of
the two kinds differ, `NoServer` is not a process and `Unregistered` not a holder.

| Theorem | States |
|---|---|
| `TypeCorrect`, `Inductive` | `TypeOK`, `IInv` |
| `Uniqueness` | `UniqueUserID` |
| `Durability` | `AckedDurable` |
| `Exclusion` | `ExclusiveAck` |
| `Prefix` | `PrefixStored` |
| `Refusal` | `RefusedLeavesNoTrace` |
| `Found` | `FoundIsRegistered` |
| `NotMissed` | `AckedIsFound` |
| `Counted` | `CounterHonest` |
| `FirstExists`, `MapWhole` | the client finds a first user where it takes one, and it is the one asked for; `ClientMapWhole` |
| `Implements` | `ImplementsDirectory`: the service implements `UserDirectory` |
| `NothingTakenBack` | a userID never changes hands or nickname, and no answer is followed by another |

None of these but the types is inductive. `AckedDurable` does not survive
`UserRegisterReturn` unless a command that is `"ok"` has passed the end of its batch
and all before its position is stored; `PrefixStored` does not survive another call's
`InsertNext` unless every document is one that its own call has passed. So `IInv` has
six parts. `TypeOK`. `StoreInv`: the collection holds what the commands have
inserted before their positions, nothing else, and no userID twice. `CallInv`: the
position, the command, the handler and what the caller was told agree. `LookupInv`:
what a lookup has read is the first userID's document, and what it answers is what it
has read; it survives registrations because documents are never changed (`DocsGrow`).
`SeenInv`: what was acknowledged when a lookup began is stored by then, and what the
lookup has missed was not. `CounterInv`: the counter lies between the calls its process
has acknowledged and those it has stored, of which there are finitely many, since one
call arrives at a time (`ArrivedStep`). A lemma per part (`TypeStep`, `StoreStep` and so
on) has one step per action. `Exclusion` then needs no history: two acknowledged calls
with one userID would each have a document with it, and these differ in `by`.
`MapWhole` needs what the client makes of any answer (`OnlyAsked`: users are handed on
only if their userIDs are those asked for) and what `LookupInv` says of the service's
answers, which have one user.

The refinement maps a userID to the document that carries it. `UniqueUserID` makes that
the one document there is (`HolderIs`), so that an insert changes the directory at one
userID only. Then each action is a step of the directory, or changes nothing that its
callers see (`RegisterRefines`, `InsertRefines`, `LookupRefines`, `DisconnectRefines`,
`CrashRefines`): `"ok"` needs `StoreInv` for the whole batch, a refusal that the
call has no document, `"found"` that the user read is still there.

### The lifecycles (`RpcStartProofs`, `ApiStartProofs`)
For any settings and any number of RPCs or requests, assuming `ConstantsOK` and
`MaxRequestsOK`.

| Theorem | States in `RpcStart` | in `ApiStart` |
|---|---|---|
| `TypeCorrect`, `Inductive` | `TypeOK`, `IInv` | `TypeOK`, `IInv` |
| `Drains` | `ReturnsDrained` | |
| `ZeroIsSigterm`, `ZeroIsDrained` | `ZeroMeansSigterm` | `ZeroMeansDrained` |
| `NamesCulprit` | `ErrorNamesCulprit` | `ErrorNamesCulprit` |
| `NoPanic` | `OneFailureNoPanic` | `OneFailureNoPanic` |
| `ListedOpen` | `ListedIsOpen` | |

The properties are about how a process ends, and `IInv` about the way there. `StartInv`:
before the select no signal is taken, and a server that is not spawned has done
nothing. `FailInv` of `RpcStart`: `netErr` is set before `netDone` has a value, by a
server that has failed, and what is received was sent by one that is done; hence a send
on the closed channel is a second failure. In `ApiStart` the two servers share `err`,
and the like only holds until SIGTERM is taken: from then on `ErrServerClosed` is no
failure and may be written over, or torn with, the error of the other. `ErrInv` and
`ChannelInv` therefore speak of the time before it, and that is enough, since the error
is returned only on the way through `close(netDone)`, which a process that takes SIGTERM
never goes. `ReturnInv`: the way out without an error leads through the signal, and
through a shutdown that found the server idle.

### The caches (`CachedStoreProofs`)
For any keys, deleters, processes, readers and documents and any bound on what is given
or runs at a time. Besides the modules' assumptions on their
constants (`NoOwnerOK`: no reader is the owner of a lock that nobody holds), the theorems
have `Chained` for a hypothesis (section 2): chains start from the root, which collects no
keys, and go on from their end. It is what the comment on `Clone` comes to (`for chain
calls to prevent memory pollution`); `deleter_root` shows what happens otherwise. It does
not keep the deleters' arrays apart: each clone along a chain has the array of the one
before, and if there is room appends into it while the other still reads it.

| Theorem | States |
|---|---|
| `CachedStoreTypes`, `Inductive` | `TypeOK`, `IInv` |
| `ClonesApart` | `NoPollution` of `BatchDeleter` |
| `CacheIsFresh` | `CacheFresh` |
| `ReadsAreFresh` | `ReadFresh` |

`CacheFresh` is lost if a key that was given to a deleter is in no batch of its
`execDel`, if a reader that was under way fills the cache after the delete, or if a lock
passes to another owner unseen. `SliceInv` excludes the first: each deleter reads the
keys it was given, and of those that share an array at most one is the end of a chain,
and reads as much as any of the others. `append` writes behind what the end of the chain
reads, or into a new array (`AddKeysEffect`, for both outcomes; `SliceStep`), so that it
cannot reach what the others read; `GroupsCover` then says that the batches of an
`execDel` hold all of them. `DeleteInv` excludes the others: of every key that an
`execDel` was asked for and that waits in no batch, neither the cache nor the reader
that holds its lock has a document older than there was when it began (`Newer`). A
script of Redis keeps that up (`NewerScript`, `NewerTag`) since a tagged key loses its
owner. `ReadInv` follows the document from the database to the caller.

### The metrics (`GinPrometheusProofs`)
For any finite number of requests and any names taken (`TakenOK`): `TypeCorrect`
(`TypeOK`), `Inductive` (`IInv`), `Agree` (`MetricsAgree`) and `NeverGoesBack`
(`GatewayNeverGoesBack`, an action property). `CountInv` says how often each metric was
observed: as often as there are requests `Behind` it; only for the first, which a request
may panic after, it is a range. `PushInv`: at most one page is on its way, the one that
was read last; each of its values lies between the gateway's and the count.

### The component check (`CheckComponentProofs`)
For every `maxRetry` above 0: `Accounts` (`IInv`), `Passed` (`PassedMeansAnswered`) and
`Refused` (`FailedMeansRefused`). The invariant keeps the account: a check that has not
succeeded was refused in every attempt so far. At the end of a failed attempt some
check is in that state, and after the last one its count is `MaxRetry`.

### Only model-checked
Liveness, which needs `ENABLED` for its fairness: `EveryCallAnswered`, `FailureEnds`,
`SigtermEnds`, `QueuedIsAccepted`, `Ends`, `EveryReadEnds`, `PushCatchesUp`.

## 6. What is not modelled

The content of tokens, logs, labels and error messages, and the token check of the
API's middleware, which is a library; the configuration's values, of which the
lifecycles take what reaches them, and how `config.Load` reads a file, which here succeeds
or not; the message types of the protocol and their
reflection, which protoc generates (the gRPC stubs are part of `UserService`);
`servererrs.Relation`, a table of constants that no code of the repository reads;
etcd, Kubernetes, MongoDB and Redis beyond what the code in `src/` sees of them; build
scripts, charts and the example in `deployments`. Parts that the plan has left are named
in section 3.
