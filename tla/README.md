# 7days-golang in TLA+

This directory holds TLA+ models of the programs in `src/`, the TLC runs that
check them on small instances, and theorems about them that TLAPS checks for
every value of the constants.

`src/` is a course that builds small versions of well-known Go programs, one
directory per day. Each day contains the day before it, so the models are of the
last day of each program:

| program | directory modelled | in short |
| --- | --- | --- |
| gee-rpc | `src/gee-rpc/day7-registry` | RPC over one connection per client and server, codecs, timeouts, a registry with heartbeats, a pool of clients |
| gee-cache | `src/gee-cache/day7-proto-buf` | a distributed read-through cache: LRU store, singleflight, consistent hashing, peers over HTTP |
| gee-orm | `src/gee-orm/day7-migrate` | sessions over database/sql, clauses, hooks, transactions, migration |
| gee-web | `src/gee-web/day7-panic-recover` | router over a trie, middleware chain, recovery |
| gee-bolt | `src/gee-bolt/day3-tree` | the beginning of a B+ tree store |
| self-cache, self-rpc | `src/self-cache/day7-protobuf`, `src/self-rpc/day2-client` | rewrites of gee-cache and of the first days of gee-rpc |
| demo-wasm | `src/demo-wasm` | demonstrations, not modelled |

## Inventory

### gee-rpc

*Client calls* (`client.go`, `codec/gob.go`). State: `Client` with the locks
`sending` and `mu`, the shared `header`, `seq`, the map `pending`, `closing` and
`shutdown`; a `Call` with `Seq`, `Error`, `Reply` and `Done`. Operations:
`Call`, `Go`, `send`, `registerCall`, `removeCall`, `terminateCalls`, `receive`,
`Close`. Any number of callers share the connection with the receiving
goroutine. Hard: who completes a call when a write fails, a reply arrives, the
deadline passes and the connection breaks at the same time; `done()` blocks
while locks are held. Correct means: each call completed once, with its own
reply or an error, none forgotten, deadlines kept.

*Server connections* (`server.go`, `codec/gob.go`). State: the stream position,
`sending`, the wait group, for each request a handler and a worker with the
unbuffered channels `called` and `sent`. Operations: `ServeConn`, `serveCodec`,
`readRequest`, `sendResponse`, `handleRequest`. Hard: the timeout racing the
method, responses of concurrent handlers, closing under a handler, staying in
step with the stream after a bad request. Correct means: one whole response per
request, none lost by the server's own doing, goroutines left behind only by a
timeout.

*Dialling* (`client.go`: `dialTimeout`, `NewClient`, `NewHTTPClient`, `XDial`):
a connection and an option exchange raced against `ConnectTimeout`.

*Registration and services* (`service.go`, `server.go`: `Register`, `Accept`,
`ServeHTTP`; `debug.go`): reflection, a `sync.Map`, an atomic counter.

*Registry and discovery* (`registry/registry.go`, `xclient/discovery*.go`):
`servers` with the time each was last heard of; a heartbeat goroutine per
server; in the client a cached list with a timeout of its own and a round-robin
index. Hard: time, two levels of staleness, a heartbeat that ends at its first
error. Correct means: a live server is listed, a dead one is forgotten after
both timeouts, selection stays within the list.

*XClient* (`xclient/xclient.go`): the pool `clients`, `dial` under `mu`, `Call`,
`Broadcast` (all servers at once, first error cancels the rest), `Close`. Hard: a
client dies between `dial` and `Call`, a dial that timed out still produces one, the
errors that a cancellation causes come in beside the one that caused it. Correct
means: no connection forgotten, a genuine error, success only if all answered.

### gee-cache

*singleflight* (`singleflight/singleflight.go`): the map `m` from a key to the
call in flight. `Do` lets the first caller run `fn` and the others wait.
Correct means: one execution at a time per key, nobody waits for an execution
that is over, no result handed out later.

*LRU store* (`lru/lru.go`): list, index and `nbytes`. Correct means: `nbytes`
exact, within `maxBytes`, the order is the order of use.

*Group and node cache* (`geecache.go`, `cache.go`): `Get` looks into the cache,
`load` goes through singleflight to a peer or the user's `Getter`. Correct
means: loads of a key do not overtake each other, what is cached is what was
loaded last, callers do not read backwards.

*Consistent hashing* (`consistenthash/consistenthash.go`), *HTTP pool and peers*
(`http.go`, `peers.go`): the ring, the choice of a peer, and requests from node
to node. Hard: nodes whose views of the ring differ, colliding hashes, flights of
several nodes that wait for each other. Correct means: nodes with the same peers
agree on owners, a request is not passed on, a `Get` returns what it asked for.

### gee-orm, gee-web, gee-bolt, self-cache, self-rpc

*Session* (`session/*.go`, `clause/*.go`): a statement is accumulated in `sql`,
`sqlVars` and `clause` and cleared by each execution, also those of `CreateTable`,
`DropTable`, `HasTable` and `Raw`; hooks run before and after it on the same session,
and may chain, name another table, or execute statements. Correct means: a statement
has the conditions chained for it, no others, and its own table.
*Transaction* and *Migrate* (`geeorm.go`): commit, rollback or rollback and
re-panic; several statements that may each fail. Correct means: all or nothing, and
rows keep what they had. *Router* (`trie.go`, `router.go`): the routes that match
depend on the order of registration. *Middleware* (`context.go`, `gee.go`,
`recovery.go`): one index shared by nested calls of `Next`, by `Fail` and by
recovered panics. *gee-bolt*: sorted inodes of a node. *self-cache*: `Get` takes a
read lock that it does not release, the LRU evicts in another order. *self-rpc*: the
receiver leaves bodies of failed calls unread.

`PROJECT.json` lists every component, modelled or not, and under `hazards` each
place where this code is hard to test, with the properties that cover it.

## Modules

| module | models | composed of |
| --- | --- | --- |
| `RpcClient` | client calls on one connection | |
| `RpcClientInv` | its inductive invariant `IInv` | `RpcClient` |
| `RpcClientProofs` | its theorems | `RpcClientInv` |
| `RpcCall` | what a client promises per call (abstract) | implemented by `RpcClient` |
| `RpcServer` | one connection of the server | |
| `XClient` | the pool, `Call`, `Broadcast`, `Close`, and dialling | |
| `Registry` | the registry and heartbeats | |
| `Discovery` | clients that choose servers from the registry's lists | `Registry` |
| `SingleFlight` | `singleflight.Group` | |
| `Lru` | operators on an LRU cache as a value | |
| `LruCache` | the LRU cache as a state machine | `Lru` |
| `CacheGroup` | `Group.Get` on one node: runs the actions of `SingleFlight` on a cache of `Lru` | `SingleFlight`, `Lru` |
| `ConsistentHash` | operators on a ring as a value | |
| `CachePeers` | the nodes of a cluster, asking each other | `ConsistentHash` |
| `OrmSession` | a session's conditions, operations and hooks | |
| `OrmEngine` | `Transaction` and `Migrate` over a database | |
| `GeeRouter` | the routes of one method | |
| `GeeContext` | the handlers of one request | |
| `Libraries` | one of the five sequential libraries per behaviour | `LruCache`, `OrmSession`, `OrmEngine`, `GeeRouter`, `GeeContext` |
| `RpcServerProofs`, `XClientProofs`, `CachePeersProofs` | theorems | the module they are named after |
| `DiscoveryProofs` | theorems about the registry and about discovery | `Discovery` |
| `CacheGroupProofs` | theorems about `SingleFlight` and `CacheGroup` | `CacheGroup`, `LruProofs` |
| `LruProofs` | lemmas about the list and the bytes of an LRU cache | `Lru` |
| `LibraryProofs` | theorems about each of the sequential libraries and about all of them | `Libraries`, `LruProofs` |
| `MC...` | instances for TLC | |

A definition whose comment begins with *Variant* is never part of a
specification: it is a mistake one could make in the definition after it (a lock
left out, a test dropped, an entry kept), and serves to show that a property
would notice. `PROJECT.json` pairs every property with one (`mutants`), and maps
every definition to the lines it models (`map`).

### RpcClient

One goroutine for each member of `Calls` runs `Client.Call` (`SyncCalls`) or
`Client.Go`; `Receiver` runs `receive`. `pc` and `rpc` say where they are:

| pc | in the code |
| --- | --- |
| `lock` ... `register` | `send`: `sending.Lock`, `registerCall` |
| `write`, `body` | the two `Encode`s of `GobCodec.Write` |
| `unregister`, `fail` | the error path of `send` |
| `wait`, `expired`, `returned` | the `select` of `Client.Call`, `removeCall` on expiry, and the end |

| rpc | in the code |
| --- | --- |
| `header`, `remove`, `body`, `done`, `lastDone` | the loop of `receive` |
| `lock`, `term`, `stopped` | `terminateCalls` |

`client.mu` guards short sections, each of which is one action; only
`terminateCalls` holds it over several steps, since `done()` may block there, and
`MuFree` stands for the mutex then. `WriteLost` is `Flush` failing: its error is
dropped (`gob.go:39`), so `send` believes that the request is out. `WriteFail` is
an encoding error, on which the codec closes the connection. Payloads are
abstracted to whose request a response answers (`of`) and to whether it is a
reply or an error (`kind`). The environment may answer any complete request
once, keep silent, or break the connection at any time. `signals` is a history
variable: how often `done()` ran.

Not in the model: the text of errors and `IsAvailable` (it only reads). A context is
either one that may end at any time or one that never does.

`RpcCall` is the abstract specification: a call is idle, open or settled, is
settled at most once, with a reply only if the server served it, and `Call`
returns this verdict or, with a deadline, a timeout. `RpcClient` maps to it by
`status` (from `pc` and `signals`), `verdict` (from `outcome`) and `served`.

### RpcServer

Goroutines are `Loop` (`ServeConn` and `serveCodec`) and for each request a
`Handler` (`handleRequest`) and a `Worker` (the closure in it). Requests and
responses are frames, a header and a body each; `in` is what travels to the
server, `inSync` tells whether the decoder stands at a frame boundary. An
unbuffered channel is a joint step of sender and receiver (`Called`, `Sent`), so
a worker whose handler timed out has nobody to take `called` and stays. `ReadOption`
may drop any part of what has arrived, because the `json.Decoder` of
`server.go:55` reads ahead. `HangUp` may lose what was under way. Methods return,
with or without an error, or run forever. `findService` finds every request of
`Known` and may find the others, whose service can be registered at any time;
`BadBody` are the requests whose body does not decode.

### SingleFlight

`mine` is the local variable `c` of `Do`, `m` the map, `wg` the counter of the wait
group. Waiters hold on to a call object after it has left the map; an object nobody
holds is garbage and may be made again (`Unused`, `LetGo`), so that the number of
executions is not bounded. `fn` returns a value or panics; a panic leaves the object
mapped and not done, as the code has no `defer`.

### Lru and LruCache

The list of entries is a sequence with the most recent first; the map of the code
is an index into it and is not represented. `nbytes` is counted as in the code,
adding and subtracting; `Bytes` is what it should be, the size of the entries in the
list. The loop of `Add` is `Shrink`: the fewest removals after which the limit is
kept or the list is empty. `LruCache` wraps the operators into `Add`, `Get` and
`Evict` with a history variable, the order of use.

### CacheGroup

`Get` is `Hit`, or `Miss` followed by `Load` and `Leave`. `LoadLead`, `LoadJoin`,
`Leave` and the returns of `fn` contain the actions of `SingleFlight`; the closure in
`load` is the steps between `LoadLead` and the return of `fn`: a peer, or the
`Getter` and `populateCache`. A `Getter` may return a value, fail or panic. `src` is
the version of each key at its source and grows while loads are under way; a peer
answers with some version up to the present one. `filled` and `seen` are history
variables. Of the data only its version is kept.

### Registry and Discovery

Time passes in ticks. What the code compares with `time.Now()` is kept as an age,
counted as far as the comparison tells values apart: `servers` (the age of
`ServerItem.start`), `age` (of `lastUpdate`). `loop` is the goroutine of `Heartbeat`
of each server; `SendHeartbeat` is one POST, which may not arrive or whose answer may
get lost, and an error ends the loop, as in the code, for good. `OtherGet` and `Ask`
are the GET of the registry, which deletes what is too old. The registry may stop
and start, and then knows nothing. `dpc` says where a client's `Get` or `GetAll` is:
`Refresh` and the selection are two sections of `d.mu`, the request of `Refresh` is
made with `d.mu` held and its answer (`answer`) travels for up to `Delay` ticks. Between
the two sections anything may happen, since `d.mu` is free there: another client may
refresh, and hold `d.mu` through a request that takes its time. `waited` is how long a
client has been kept there, up to `Wait`. The code bounds neither `Delay` (`http.Get`
has no timeout) nor `Wait`; both are constants, of any size in the theorems, and what
`Get` hands out is measured against `Delay` and the client's own `waited`. `heard`,
`manual`, `turns` and `waited` are history variables. A timeout of 0, which means never, is not modelled, nor is
the sleep of a process.

### XClient

`pc` of a goroutine, a caller of `Call` or a worker of `Broadcast`, is

| pc | in the code |
| --- | --- |
| `dial` | before `xc.mu.Lock` in `XClient.dial` |
| `connect`, `handshake` | `net.DialTimeout` and the `select` of `dialTimeout`, with `xc.mu` held |
| `send` | in `client.Call`, inside `send` |
| `call` | in the `select` of `client.Call` |
| `after` | the rest of `Call` or of the goroutine of `Broadcast` |

A `Client` and its connection are one object of `Conns`: `open`, `dead` (its receiver
has shut it down) or `closed`. `dialler` is the goroutine of `dialTimeout`, which
outlives a timeout and then waits on its channel for ever: `Conns` that it holds are
not used again. What `client.Call` does is `RpcClient`; here it first sends, for as long
as the peer does not read, and only then looks at its context: it returns an answer, a
failure, or the end of that context, which is the user's or the one `Broadcast`
cancels. A `Broadcast` keeps the first error and the first reply (`bc`).

### ConsistentHash and CachePeers

A ring is a function from positions to peers. `Hash` is a constant, so that hashes
may be chosen to collide. A node of `CachePeers` has a ring, the keys in its cache,
and for each key at most one flight, with the set of those who wait for it: its user,
or the flights of other nodes, whose HTTP requests are served by the same `Get`. A
value is named by its key: `PathKey` is what `ServeHTTP` reads out of the path that
`httpGetter.Get` has written (`url.QueryEscape` writes a space as `+`, which means
itself in a path). `Set` may be called at any time with any list; `agreed` remembers
whether all nodes had the same peers all along.

### The sequential libraries

`OrmSession`: chaining (`Chain`), `Model`, and the operations in two halves, before
and after their statement. In either half a hook may chain a condition (`HookChains`),
name another table (`HookTurns`), run statements (`HookUses`) or panic. A clause is its
type and one argument. `Executes` builds the statement from the clauses set, sends it, and
clears; so do the statements without clauses, `OfTable` (`CreateTable`, `DropTable`,
`HasTable`) and `RawRuns`. A `Raw` whose `Exec` does not follow at once is left out.
`asked`, `meant`, `spoiled` and `sent` are history variables. `Takes`, what an
operation is documented to take, is stated beside the property, and apart from `Orders`, what
it gives to `Build`. `OrmEngine`: `db` and `work` are the committed tables
and what the transaction sees; each statement of `Migrate` is an action and may fail,
and the `CREATE`, `DROP` and `RENAME` of one `Exec` may fail after any of them (`Rebuild`).
`Deferred` is the deferred function of `Transaction` with a `Commit` that may fail; a
function that leaves with `runtime.Goexit` or `panic(nil)`, whose `recover` gives `nil`
so that the transaction commits, is not modelled.
`GeeRouter`: nodes of the trie are the sequences of parts that lead to them, in the
order they were made. `insert` is a walk down one level for each part (`Walk`, a
function of the height that `Descend` takes one further), and `search` a function of the
parts left, which says for every node what it finds from there (`Found`). `GeeContext`: the stack of handlers, each called by a `Next` of the one below
it, over the one `index`; `Recovery` is a handler of the chain that calls `Next` once,
and a panic ends the handlers down to it.

## Runs

| run | instance | shows |
| --- | --- | --- |
| `client_safety` | a `Client.Call` with a deadline, two interchangeable `Client.Go` sharing a `Done` channel of capacity 1 | type correctness, one completion, the right reply, no orphan; `done()` finds room in a channel that is as large as its calls; `RpcClient` implements `RpcCall`, and so leaves settled calls alone |
| `client_liveness` | a `Call` with a deadline and a `Go` | deadlines are kept when writes end; a broken connection ends all calls; in both cases though nobody reads the `Done` channels |
| `client_stalled_peer` | a `Call` with a deadline, writes that may block | **finding**: the deadline does not cover the sending |
| `server` | three requests, two good ones and one whose service may be unknown and whose body is bad; a timeout, methods that may not return, an eager client | one whole response per request; only timeouts leave goroutines; no close while a handler has yet to answer, its method running or not; requests are answered; a hang-up ends the connection |
| `server_unknown_method` | a known and an unknown method | **finding**: a bad request ends the connection |
| `server_eager_client` | one request behind the option | **finding**: it may be swallowed |
| `registry` | two servers, two clients that share a discovery and may be kept waiting for its lock, a registry that restarts | a beating server is never dropped and is listed again after a restart; what `Get` hands out is as recent as the timeouts and the delays on the way allow; round robin is fair across refreshes |
| `xclient` | a caller and a `Broadcast` over two servers, two connections at once, `Close` | every connection is owned; the error of a `Broadcast` is genuine, its success complete, and it ends after an error if every send does |
| `group` | two goroutines, a local key and one with a peer, room for one entry, a source that changes, Getters that fail or panic | one load per key at a time, no late result, the cache only gets newer, monotonic reads, every `Get` returns |
| `peers` | three nodes with two virtual nodes each, peers in two orders, and a list that misses a node | with the same peers no request is passed on twice, and every `Get` returns although HTTP has no timeout |
| `peers_spaced_key` | two nodes, a key with a space | **finding**: it is answered with the value of another key |
| `libraries` | one library per behaviour: four keys in an LRU cache; two models and every operation; a struct with a new, a kept and an old column; three routes out of ten; a chain of five handlers, two of them `Recovery` | exact bytes within the limit, the order of use; own conditions and table through hooks, panics and statements without clauses; all or nothing; migrated rows; the right route; every handler once and none after `Fail` |

### Findings

Four runs are expected to find a violation; each checks a sentence of the
repository (quoted in `PROJECT.json`) against the code.

1. `client.go:187`: `Client.Call` looks at its context only after `send` has
   returned. The course says that the timeout covers the sending too.
2. `server.go:139`: the body of a request for an unknown method stays in the
   stream and is read as the next header, which ends the connection. The course
   says that only a header that cannot be parsed does.
3. `server.go:55`: the JSON decoder of the option reads ahead and is dropped. The
   course lays requests directly behind the option.
4. `http.go:118`: a key is escaped for a query but travels in the path. A node asked
   for `x y` by its user asks the owner for `x+y`. The comment of `Get` says "Get value for
   a key from cache".

Not runs of their own:

* `geecache.go:91` says that each key is fetched once regardless of concurrent callers, which
  is true only of callers that overlap inside `Do`; `load` does not look into the cache
  again. `OneInFlight` is what does hold.
* The first finding reaches `Broadcast` too: the context it cancels at the first error does
  not reach a worker whose `send` waits for a server that does not read, although
  `geerpc-day6.md:290` promises to fail fast. It is the premise of `BroadcastEnds`; without
  it TLC finds a `Broadcast` that stands still behind such a worker.
* `record.go:95`, `record.go:115`: `BeforeUpdate` and `BeforeDelete` have the session in
  their hands with the `Where` already chained. A statement that they run ends with `Clear`,
  and the `UPDATE` or `DELETE` that follows touches every row. `OwnConditions` excepts it by
  name ("lost").
* `hooks.go:22`: `Find` leaves a struct and not a pointer as the model of `refTable`, and hooks
  with pointer receivers are no longer found on it by `Update`, `Delete` or `Find`. The model
  lets a hook run or not in every place.

### Bounds and why they are enough

* Calls and requests: three callers are enough for one to fail in the middle of a
  write while another waits for `sending` and a third is registered; three requests
  for two handlers and the loop to want to respond at once.
* Goroutines of `CacheGroup`: two suffice, for a waiter can be overtaken by the next
  load of its former leader, and one goroutine's load of the other key evicts during
  the other's load. What needs more callers at once, in `SingleFlight`, is proved for
  any number.
* `Objects`: a goroutine holds one call object at a time and the map none that
  nobody holds, so one per goroutine is as good as any number.
* `MaxVersion` in `CacheGroup` bounds changes per key: one is enough to tell an
  old value from a new one.
* `Late`, `Horizon`, `Delay`, `Wait` in `registry`: a heartbeat may be a tick late, an answer a
  tick old, and a client be kept a tick before its selection, the least that makes ages differ
  from each other; the bound that `HandedOutIsRecent` states is reached, with an `Expiry` of 3 that
  leaves one tick of margin; `Horizon` is beyond everything that `HandedOutIsRecent`
  compares with. `FirstIndices` has one index that is larger than any list.
* `Conns` in `xclient`: two at once, so that a goroutine may also find none, which
  a goroutine left by a timeout keeps for ever; `Connect` may fail then too, and the code
  has no such bound. What holds of more is proved.
* Three nodes in `peers`: two that ask each other and one whose absence from a list moves
  the owner of a key.
* `MaxRoutes` of 3: the route that is shadowed, the one that shadows it, and one between.
  `Args` of 2: a condition and the one that replaces it. `MaxNext` of 2: a second call of
  `Next` by the same handler. One content per column in `OrmEngine` besides `Null`, since
  columns are told apart by name; what holds of more is proved.
* Channels have capacity 1, the least the code accepts and the one with which
  `done()` blocks soonest.
* Sequence numbers are not bounded: there are as many as calls.

Deadlocks are reported in every run but `libraries`, whose behaviours end because a route
table is full or a request is answered: the end of everything is a step that stutters
(`Finished`, or `Stranded`, where each goroutine has panicked in a `Getter` or waits
for one that has), so that a stop before that is an error. `SYMMETRY` is used for
one run of safety properties only, over callers that no property tells apart.

### Fairness

Weak fairness of each goroutine's steps is the Go scheduler. Strong fairness of
taking a lock is `sync.Mutex`, which hands itself to a waiter that has starved
for a millisecond. Timers fire. The client's liveness assumes in addition that a
`Write` ends (`WriteFairness`), and the run without that assumption is the
first finding. Nobody need read the channel given to `Client.Go`: in `client_liveness`
the channels have room for their calls, as `DoneHasRoom` asks; with less room the
client stands still until its user reads. The liveness of the server assumes likewise that a
response that is being written gets written or fails: a client that stops reading and
keeps the connection open would hold `sending` for ever. Nothing is assumed
of servers answering, of methods returning (except in `server_eager_client`, whose
point is not a slow method), of clients hanging up, or of connections breaking. In
`CacheGroup` the `Getter` and peers end somehow, with a value, an error or a panic.
In `Discovery` the one assumption is that time passes (`[]<>Tick`): with it come the
heartbeats, the answers and the selections that `Tick` waits for. In `XClient` an
attempt to connect ends, with `net.DialTimeout`, and so does a handshake, by the
timeout that the run sets. A call ends when its context does, but only from the `select`
of `client.Call` on; a `send` ends when the connection is closed, and otherwise nothing
is assumed of it: `BroadcastEnds` has as its premise that no worker stays in `send` on a
connection that is not closed. Nothing is assumed of servers. In `CachePeers` handlers run and Getters return, and no fairness makes a
request fail, since `http.Get` is called without a timeout: `GetReturns` must hold for
the reason that nodes do not wait for each other.

## Proofs

Every safety invariant and every action property that a passing run checks is also a
theorem, for all values of the constants that satisfy the named assumptions. What is
left to TLC is liveness. The theorems a reader should know of are listed in
`PROJECT.json`; this is how they are obtained.

### RpcClient

For any sets of calls and channels that satisfy `ClientAssumption`: `TypeOK`,
`SignalledAtMostOnce`, `ReplyMatchesRequest`, `ReplyWasServed`, `NoOrphan`,
`DoneHasRoom` and `NothingSentAfterShutdown`. None of these is inductive. The
strengthening `IInv` (checked with TLC on the instance of `client_safety` before it
was proved) says

* `LockInv`: `sending` is held by exactly the caller inside `send` or by
  `terminateCalls`, and once `shutdown` is set nobody is past registration;
* `SeqInv`: sequence numbers are below `seq`, identify calls, agree between the
  call, the map, the shared header and the wire;
* `ResponseInv`: a response carries the number of the request it answers;
* `ReceiverInv`: what the receiver holds in each of its states;
* `DutyInv`, `OwedInv`: for every registered call that is not completed exactly one
  place has the duty to complete it: the map, the receiver's hand, the list of
  `terminateCalls`, or the sender whose write failed.

`IInv` is needed as a whole: that a call is completed once depends on its being
in one place only, which depends on the numbers in the map, and in
`terminateCalls` on the lock.

`PromiseKept` is the refinement of `RpcCall`: every step of the client is one of a
single call in the abstract specification, or changes nothing there. What `IInv` lacks
for that is in `MapInv`: a `Done` channel holds only calls of its own that are settled,
so what `Client.Call` takes out of it is its own verdict.

`DoneNeverWaits` is `DoneHasRoom`: a call that is about to be signalled has not been
(`IInv`), and a channel holds each call at most once and only after its signal
(`OnceInv`). So the channel holds fewer calls than use it (`FindsRoom`).

### RpcServer

`TypeOK`, `OneWholeResponse`, `OnlyTimeoutsLeak` and `AnsweredBeforeClose` for any
requests, any of them known, any body bad, and any timeout that may or may not pass. The
second part of `AnsweredBeforeClose` speaks of every request whose handler was started
(`Accepted`), its method still running or not, and the first of every handler and worker
(`Answering`). The invariant gives `sending` one owner (`LockInv`), puts the handler and the worker of a
request together in one of five places that the verdict tells apart (`PairInv`), keeps the
request in the loop's hands from both (`LoopInv`), and lets a header arrive once and for a
request nobody knows (`StreamInv`). `OutInv` counts what has been written: the last frame is
a header exactly if somebody is about to write its body (`Half`), and a request that nobody
will answer any more (`Over`) has been answered, as long as the connection is open.

### SingleFlight and CacheGroup

`OneInFlight`, `WaitersHaveLeader` and `MappedMeansInside` for any sets of goroutines,
keys and values. `FlightInv` ties the map, the leaders and the waiters of a call object to
each other: a leader's object is mapped under its key and done exactly when `fn` has
returned; what is mapped has a leader inside; what a waiter holds is done or has a leader in
`fn`.

Every behaviour of `CacheGroup` is one of `SingleFlight` (`GroupUsesFlight`), so that the
theorems about `SingleFlight` hold inside a group. `CacheOnlyGetsNewer`, `MonotonicReads` and
`TypeOK` hold for any numbers of goroutines, keys and versions and whatever the LRU cache
evicts. `GroupInv` adds to `FlightInv` that a `Get` in the closure of `load` is the one that
runs `fn` for its key (`LoadInv`), and that what it is about to put in the cache is between
what was put there last and what the source has (`AgeInv`). The argument turns on
`OneLoad`: another `Get` that could fill the cache for the same key in between would be a
second execution of `fn`. `ReadInv` then follows a value from the cache to the caller: the
cache has the version put in last (`CacheInv`, from what `LruProofs` says of `AddTo` and
`Touch`), a leader returns it, and a waiter returns a version that was put in since it came
(`Returns`), which is why `MonotonicReads` survives waiting for a load of somebody else.

### XClient

`TypeOK`, `EveryConnectionOwned`, `ErrorIsGenuine` and `AnsweredByAll` for any servers,
callers and connections. `PoolInv` adds to the first two what `dial` relies on: while a
goroutine connects, and so holds `xc.mu`, the pool has no client for its server
(`DialInv`), since a new client would otherwise take the place of one that nobody closes.
`BroadcastInv` says that a `Broadcast` has cancelled exactly when it has an error, and that
"cancelled" is only reported by calls of one that has.

### Registry and Discovery

`NeverDropsBeating` for any timeouts with `Period + Late < Expiry`, whatever the clients do:
the age of an item is at most the time since the heartbeat that renewed it (`MarginInv`),
because a heartbeat that did not arrive ends the loop. `HandedOutIsRecent` for any `Expiry`,
`Delay`, `UpdateTimeout` and `Wait`: each of the two caches, the way between them and the
time a client is kept between its two sections adds its own delay (`RecentInv`,
`WaitStep`). `TurnsAreFair` for any number of servers and any index to start from:
the turns are those taken from this very list, the last just behind the index (`TurnsInv`).
That a refresh which brings the same servers brings the same list is where the sorting in
`aliveServers` counts: two increasing lists of the same elements are equal (`SortedOnce`).

### ConsistentHash and CachePeers

`OneHop` and `TypeOK` for any nodes, lists of peers, keys and hashes. `SameRing`: if no two
virtual nodes share a hash, a position belongs to one peer, so that lists with the same
members make the same ring. Then, as long as the nodes agree, whom a flight asks is the owner
in every node's ring (`AskedInv`), and so asks nobody else. For the types, that only a node is
ever asked needs a least position behind a hash, or one at all; a flight that someone waits
for is under way (`FlightInv`). `PeersAssumption` says that a list names no peer twice, as
`main.go` does, and that a hash is a natural number, as a `uint32` is.

### The sequential libraries

* LRU: `BytesWithinLimit`, `KeepsMostRecent` and the types for keys and values of any sizes.
  `LruInv` says that no key is twice in the list, that the list is the beginning of the order of
  use, and that `nbytes` is `Bytes` of it. `Bytes` is a cardinality, that of the pairs of a
  place and a unit of the size of its entry, so that moving an entry is a bijection, adding one
  a disjoint union, and no induction over the list is needed.
* Transactions: `AllOrNothing` and `MigrateKeepsColumns` for any columns, rows and failures.
  `MigrateInv` describes the table between two statements: its old columns and those of
  the new ones that were added, with the old values or `Null` (`Altered`); three lemmas say what
  one `ALTER`, the `SELECT` of the rebuild, and no change do to such rows. `EngineInv` adds that
  rows always have the columns of their table.
* Sessions: `OwnConditions` for any models and arguments. `ChainInv`: the session holds no
  conditions but those asked for unless some were left in it, all of them unless some were
  lost, and the table meant unless a hook turned it; an operation that was executed has used
  up what was chained. `BuiltStatement` says what `Build` makes of a session's clauses.
* Middlewares: `EachOnceNoneAfterFail` for chains of any length: the index is never behind a
  handler that was started, and beyond the chain after `Fail` (`IndexInv`).
* Router: `Routed` for patterns of any length and any number of routes. `Shape` says what the
  trie of an orderly table is: the nodes are the beginnings of the routes, a node has a pattern
  exactly if it is a route, and of siblings only the last is a wildcard. It is stated for a trie
  while `insert` is on its way, level by level (`DescendsAlong`, `WalksAlong`). `FindsBest` then says what
  `search` finds at any node when so many parts are left: of the routes below that match, the one
  preferred to all others (`Best`), by induction on the parts left.
* `TypesOK`: a behaviour of `Libraries` is one of each library (`EachLibrary`), of which all but
  one stand still, so that the types follow from those of each.

### How inductions are done

The library's induction theorems take an operator as a parameter, which none of the
provers can instantiate. Where an induction over natural numbers is needed (the levels of
`insert` and `search`, sorted lists, sequences of entries), the proof takes the least
counterexample instead (`LeastNatural`, from the well-foundedness of `<`), and functions
defined by recursion are first shown to exist (`WalkExists`, `FoundExists`).

### Only model-checked

Liveness, since fairness and ENABLED are out of the prover's reach: `DeadlinedCallReturns` and
`BrokenConnectionEndsCalls` of the client, `AcceptedIsAnswered` and `HangUpEndsServing` of the
server, `BeatingGetsListed`, `BroadcastEnds`, and `GetReturns` of a group and of the peers.
`ReplyWasServed`, `NothingSentAfterShutdown`, `WaitersHaveLeader` and `MappedMeansInside` are
proved and not run any more.

## Not modelled

* The earlier days of each program. A day is a copy of the one before it with something
  added, so the last day has nearly all the code of the others, and a second model of the
  same lines would say nothing new. They are most of the files: the models stand for a
  large part of the last days and for a small one of the whole.
* Services by reflection (`service.go`) and the debug page: a method found or not is the
  constant `Known` of `RpcServer`; the counter of calls is atomic and only displayed.
* The table of groups (`NewGroup`, `GetGroup`) and `RegisterPeers`: set up once.
* gee-orm's schema, dialects, logging and the text of statements; gee-web's rendering,
  templates, static files and groups, which decide only how long a chain is.
* gee-bolt: casts of pages and a `DB` without operations; nothing calls `node.put`,
  `node.del` or the pages, so that there is no contract to check.
* self-cache and self-rpc: rewrites of gee-cache and of the first days of gee-rpc. What
  differs in them is in the inventory and, where it bites, under `hazards`.
* demo-wasm: pages without state.

## Plan

What is left, in this order:

1. The groups of gee-web and the middlewares they contribute, to complete `GeeContext`.
2. Abstract specifications of the other components in the manner of `RpcCall`, with the
   refinement proved: what a registry and its discovery promise together, and a key's
   value as callers of a group see it.
3. `Orderly` weakened as far as the router keeps its promise.

## How to run

    tlc -config MCRpcClient.cfg MCRpcClient
    tlapm RpcClientProofs.tla

and likewise for the other runs in `PROJECT.json` and the other proof modules.
