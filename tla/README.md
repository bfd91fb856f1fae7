# apigate-benchmark in TLA+

Specifications of the programs in this repository, the TLC runs that check them
on small instances, and TLAPS proofs of what matters most for every instance.
Paths below are relative to the repository root.

## The system

| Part | State it keeps | Operations | Talks to |
|---|---|---|---|
| `auth-service` (Go) | account map behind an RWMutex; no disk | `/register`, `/login`, `/verify` | called by clients and by every gateway |
| `data-service` (Go) | catalogue, read-only after start | `/items`, `/my-items`, `/items/search`, `/items/lookup` | called by gateways; trusts `x-user-id` |
| `gateway-python` (ASGI, aiohttp) | one session with a connection pool per worker; per request: a coroutine | the four public routes, lifespan | auth-service `/verify`, then data-service |
| `gateway-kong`, `gateway-apisix` (Lua), `gateway-apigate` (Rust) | none of their own | the same four routes as hooks of a proxy | the same |
| `load-tests/run.sh`, k6 scenario | result files | probe for cAdvisor; a matrix of cells, each a k6 run and a collection | gateways, cAdvisor |
| `collect_resources.py` | none | sampling, quantiles, deltas | cAdvisor |

What is hard in it, and where:

* **Interleaving in auth-service.** bcrypt runs outside the lock on both paths
  (`users/store.go:31-52`): registrations race after hashing, and a login works on
  a pointer that it took out of the map long before.
* **Crash and restart.** Accounts are lost, signed tokens are not.
* **Awaits in gateway-python.** Every request gives up the event loop at each
  await, shares a bounded pool with the others, and can fail, time out or find its
  client gone at each of them, before or after the status line has left.
* **Time.** Token expiry in whole seconds; four timeouts that compose over two calls;
  an identity that is used after the token behind it was checked; idle timeouts equal on
  both ends of a connection.
* **Measurement from outside.** The driver cuts windows at whole seconds out of a buffer
  that cAdvisor fills and empties on its own, of counters that restart with their
  container, while k6, cAdvisor and the collector may each fail.
* **Four implementations of one contract**, in three languages with three JSON
  decoders.

Correctness, component by component: auth-service must behave like an atomic map of
accounts, must not race on the map, must answer everybody, and its tokens must name
one account for ever and live as long as they say. The gateway must give data-service
the verified identity and no other, turn every authentication failure into a 401,
send a well-formed response on every path, and give every connection back. The four
gateways must answer the same requests alike and keep clients from choosing limits or
identities; its waits must stay within the timeouts that are set; data-service's loops must find what they are asked for;
the collector must report, of each cell, what this cell caused, and the matrix must be
run to its end.

## Modules

| Module | Content | Lines of theory |
|---|---|---|
| `Issuer` | JWT expiry arithmetic (`internal/security`) | operators |
| `AuthService` | store, lock, handlers, tokens, clock, restart | state machine, properties |
| `Registry` | what auth-service promises: an atomic account map | abstract specification |
| `MCAuthService` | passwords and symmetry for TLC | instance |
| `AuthProofs` | inductive invariant, safety theorems, `AuthService` implements `Registry` | proofs |
| `PyGateway` | one worker of gateway-python: coroutines, pool, timeouts, lifespan | state machine, properties |
| `AsgiResponse` | what an ASGI application may send | abstract specification |
| `MCPyGateway` | queries, identities and symmetry for TLC | instance |
| `GatewayProofs` | inductive invariant, safety theorems, refinement | proofs |
| `TimedGateway` | `PyGateway` with a clock: budgets, token expiry, idle connections | state machine, properties |
| `MCTimedGateway` | a token that expires, for TLC | instance |
| `TimedProofs` | `TimedGateway` implements `PyGateway`; bounds on waiting and staleness | proofs |
| `Subsequences` | a loop that keeps some elements of a sequence, by their positions | operators |
| `SubsequenceProofs` | induction; what such a loop returns | lemmas |
| `DataService` | data-service: one request over the immutable catalogue | state machine, properties |
| `DataProofs` | types, soundness, completeness, order and limits of the two loops | proofs |
| `Contract` | one request through any of the four gateways (or none) to `DataService`: body, decoders, authentication, rewriting | state machine, properties |
| `MCContract` | catalogues, bodies, tokens and limits for TLC | instance |
| `ContractProofs` | `Contract` implements `DataService`; answers are those of the contract, limits, own products | proofs |
| `Collector` | `collect_resources.py`: rates, window, quantiles, deltas | operators |
| `CollectorProofs` | order statistics, quantiles, mean, delta and rates for any sequence | lemmas |
| `LoadRun` | `run.sh`, with cAdvisor and a measured container that may restart | state machine, properties |
| `MCLoadRun` | `LoadRun` for TLC | instance |
| `LoadProofs` | the probing, cAdvisor's buffer, and what reports say of it | proofs |

`Contract` and `TimedGateway` extend `DataService` and `PyGateway`: their actions are those
of the extended module, conjoined with what they do to the new variables. `Pick(s, I)` of
`Subsequences` stands for every loop and list comprehension of the code that keeps part of
a sequence; it takes the set `I` of positions where `SelectSeq` takes a predicate, so that
it can be proved about.

### AuthService and the code

A goroutine serves one request at a time; its `pc` names the stretch of code it is
about to run. `/register` is `Register` (decoding and validation), `Hash`, `Lock`,
`Drain`, then `EmailFree` and `Insert` or `EmailTaken`; `/login` is `Login`, `RLock`,
`Lookup`, `Compare`, `Issue`. Splitting `Lock` from `Drain` and the check from the
insert is what lets another goroutine in wherever the mutex would let it in:
`sync.RWMutex.Lock` first announces the writer, which stops new readers, and then
waits for the readers inside. `Reject` is every payload the handler turns down. A
user is `[id, email, key]` where `key` stands for the first 72 bytes of the
password, which is all bcrypt compares; `uuid.NewString` is a counter, because the
code relies on nothing but its never repeating. `Verify` reads no shared state but
the clock. `Restart` drops the store and every request in flight, keeps the tokens in
clients' hands and the source of fresh ids. Ticks are finer than a second because
`NumericDate` truncates the expiry while the clock it is compared to is not truncated.

`accounts` and `epoch` are history: every account ever created and the life of the
process it was created in.

### PyGateway and the code

The steps of a request are the stretches between awaits. `pc` names what it awaits:
the body, a connection to auth-service (`authConnect`), its answer (`verify`), a
connection to data-service (`connect`), its status line (`exchange`), more of the
body (`relay`) or the client (`sending`). `held` is the connector of aiohttp: who
occupies a connection to which host. `limit_per_host` bounds it, `Acquire` waits for
room, `VerifyConnectTimeout` and `ConnectTimeout` give up waiting, and leaving
`async with` on any path is `Release`. aiohttp takes a connection back as soon as the
body has been received, even if the client has not read it: `UpstreamEnds`; from then on
the total timer is off. A body that is over, or broken off, is `RelayStops` (the swallowed
`ClientError` included): `END_BODY_MESSAGE` is sent inside `async with`, so the connection
is still occupied, and `RelayEnds` gives it back (`ending` in between). A total timeout in
the middle of a body, which is not a `ClientError`, is `RelayTimeout`.
`sent` holds the ASGI messages, with body content left out. An authorization header
is a token; auth-service is external and says of a token who owns it, or fails in
one of four ways (`Failures`). `x-user-id` and `x-user-email` always come
together and are one identity.

External and modelled from their use: the ASGI server, aiohttp, both upstreams.
Assumed of the ASGI server: `lifespan.shutdown` arrives when no request is in flight.

### DataService and the code

`Begin` decodes a body, then `SearchStep` and `LookupStep` are one iteration each of the
loops in `products/store.go`, `SearchEnd` and `LookupEnd` leave them; `i` is the loop index,
`out` the slice under construction. The empty query never enters the loop (`LookupAll`),
and the break at the end of the body is `LimitReached`. `Found` stands for
`strings.Contains` on lower-cased names: any relation between query strings and names.
Requests write to nothing they share, so one at a time is modelled.

### Contract and the code

`ask` is the request as the client means it, `gate` the gateway it goes through, or
`"direct"` for a caller inside the network. A body is `Parts` pieces that mean nothing
unless joined in order. In gateway-python `ReadFirst` and `ReadNext` are the two loops of
`read_body`, an `http.request` message at a time, with any number of pieces (also none) in
each, and `Leave` is `http.disconnect` in either; the others buffer the body before their hooks run
(`TakeIn`). What came in is decoded by `PythonAccepts` (msgspec, strict), `LuaAccepts`
(cjson with the checks of `validate` and `remap`, the same in Kong and APISIX) or
`ApigateAccepts` (serde into borrowed strings); what a gateway lets through, data-service's
`json.Unmarshal` may still refuse (`Unmarshals`). `LookupInternal` is the body that
replaces a lookup. `HandleMine` is `require_auth` with every answer auth-service can give,
the routes' last step is an action of `DataService`. JSON values are told apart by what one
of the decoders tells apart: a string by its text, the spaces around it (`pad`) and whether
its JSON has a backslash (`escaped`), a number by whether it is an integer, a float that is
whole, or another. `spooled` is a body longer than nginx keeps in memory, for which the Lua
body functions return nothing.

`MeetsContract` names every case in which a gateway departs from the contract:

| Gateway | Case | Effect |
|---|---|---|
| kong, apisix | `null` for an optional field (`cjson.null` is not `nil`) | 400 |
| kong, apisix | a body that nginx wrote to a file | 400 |
| kong, apisix | spaces other than ASCII's around a lookup stay (`%s`) | nothing found |
| apigate | a string that is spelled with a backslash (`&str` cannot borrow it) | 400 |
| apigate | an array in place of the object of a lookup | taken |

Whole floats (`5.0`) are let through by Lua only, and then refused by data-service: 400
everywhere.

### TimedGateway and the code

Every step of `PyGateway` is kept, with a clock beside it. `Budget` gives the timeout a wait
runs on; the wait for a connection and for the answer share one start (`began`), as in
aiohttp's `ClientTimeout`. A timer may fire once it is due (`Due`), and the clock does not
pass a due timer: the event loop is assumed not to lag. `Check` is auth-service reading its
clock, at any moment between the request and the answer; `used` is when the identity is
sent on. Pooled connections to auth-service carry the two moments that matter: when the
gateway got it back (`since`) and when auth-service will close it (`closes`, counted from
its own answer, which is earlier). A request may be up to `Delay` under way and so may the
end of the connection: what is sent too late is `"lost"`, and since aiohttp does not repeat a
POST, ends as `ClientError`, a 401.

### LoadRun, Collector and the code

`pc` is where `run.sh` is: probing for cAdvisor (`probe`, and `retry` while it sleeps),
in `k6 run`, in `sleep 2` before a collection (`tail`), in the cooldown. The model begins behind the
check that k6 is on the PATH (`run.sh:39-42`), without which no cell is run. `Tick` is the
clock: while k6 runs, the container may do one unit of work per tick, and once a second
after `upAt` cAdvisor appends the counter to `buffer` and drops what is older than
`Retention`. Ticks are finer than `date +%s` (`Date`), so cells start and end in the middle
of seconds. A collection evaluates `Collector!Report`, whose operators are the functions
of the script: `ToSamples` pairs neighbouring entries, `InWindow` and `Kept` clip them,
`Stats` and `Delta` aggregate. One counter and one container stand for all; CPU time is
read as a rate, network bytes and throttled time as deltas. `caused` is history: the
traffic of the latest cell. A restarted container begins again at zero, and its series goes
on or begins anew, since the code (`collect_resources.py:139-140`) expects the former and
cAdvisor may do the latter. A probe is taken to need no time.

## Runs

| Run | Instance | Shows |
|---|---|---|
| `auth_race` | 3 goroutines, 1 e-mail, 2 passwords, 2 ids, 3 tokens, 1 restart | no concurrent map access, one account per e-mail, stale read impossible, tokens backed by one account |
| `auth_contract` | 2 goroutines, passwords of 3, 72 and 73 bytes, 2 ticks a second, TTL 2 s, 4 ticks, 1 restart | types; implements `Registry`; tokens live less than TTL and more than TTL − 1 s |
| `auth_live` | 3 goroutines | everybody is answered |
| `auth_register_doc` | passwords of 3, 8, 72 and 73 bytes | **violated**: `/register` answers 500 |
| `py_pool` | 3 requests, 1 connection per host, 6 kinds of query, two clients that may stop reading and be hit by total timeouts in mid-body | slots, identities, 401s, complete responses; the responses to the others implement `AsgiResponse` |
| `py_live` | 3 requests, 1 connection, client of r1 never reads | everybody else is answered |
| `py_late_timeout` | 1 request, late timeouts | **violated**: a second `http.response.start` |
| `py_idle_cap` | 2 requests, 1 connection | **violated**: a request waits for another's connection |
| `contract` | 4 gateways and direct calls, all catalogues of up to 3 products, 136 requests, bodies of 2 pieces cut up in any way, limit 2 for a gateway, −1 to 9 directly | answers are those of the contract but for the cases above; lookups limited; own products only; both loops give a declarative selection, in its order |
| `timed` | 2 requests, 1 connection, token expiring at 2, 6 ticks, keep-alive 1 or 5 against 5, delay 1 | waits within both totals; identities at most `AuthTotal + UpConnect` stale; a margin between the idle times loses no connection |
| `load_matrix` | 2 adjoining cells of up to 1½ and up to 5 s, 2 ticks a second, warm-up 2 s, 9 entries asked for, 9½ s kept, cAdvisor up after ½, 2 or 2½ s, 1 restart at any time, k6 and collector may fail | reports hold their cell's samples and traffic; aggregates in order; cold start covered; the matrix is run to its end |
| `load_reset` | 1 restart | **violated**: a report claims more than its cell caused |

### Bounds, and why they are enough

* One e-mail: registrations and logins of different e-mails only meet in the mutex,
  which does not know about e-mails. Three goroutines make two racing writers and a
  reader. Two ids (`MaxUuid`) with one restart (`MaxEpoch`) give an e-mail a second
  account; a third token (`MaxTokens`) lets tokens of both lives coexist.
* `MaxUuid` and `MaxTokens` count requests under way too, so they stop clients from
  starting work and never block a goroutine that holds a lock.
* `MaxTime = 4` ticks of half a second exceed a TTL of two seconds from each phase.
* Passwords stand on both sides of each limit in the code (6, 72, 128 of which only
  72 has two sides inside the valid range); 72 and 73 bytes share their first 72.
* Two connections' worth of contention needs more requests than the limit: 2 or 3
  requests and `LimitPerHost = 1`. A larger limit with more requests behaves alike; the
  proofs cover every limit.
* `MaxChunks` 1 or 2: after the first body message the relay is in the same state as
  after any other.
* Catalogues of three products have one before, at and after any break; limits lie below,
  at and above zero and the number of matches, and `LookupLimit = 2` below that of products,
  so it cuts. The proofs cover every catalogue and limit.
* Bodies of two pieces can arrive together, one by one, and with empty messages before,
  between and after. Every combination of category and maximum kinds is asked for, and every
  way to write the one query that finds something; `spooled` and `garbled` bodies vary apart
  from the fields, which are not looked at then.
* `timed`: timeouts of 1, 2, 1 and 3 ticks differ where the code's may (connect below total,
  auth below upstream), so swapping any two shows; 6 ticks are longer than both totals
  together, and than the token's life with both waits. A tick stands for a second: aiohttp
  lets a timeout of 5 s or more end with a whole second of its clock, so finer ticks would
  have to grant `UPSTREAM_TOTAL_TIMEOUT=10` up to almost 11 s, and `BoundedWait` with it
  (the other three, of 3 s, are not rounded). Of the keep-alive times, 1 leaves
  the margin `AuthTotal + Delay` below 5 and 5 is the parity of the code.
* `MaxRun` bounds each cell's k6 run: 3 ticks for the first and 10 for the second. Two cells
  make one boundary, with `Cooldown = 0` the tightest, and the short first cell ends in
  either half of a second. A delta may miss less than the warm-up and three seconds, here
  at most 8 ticks; the long cell causes more than that, so the lower bound of
  `DeltaIsTheCells` can fail, and does under its mutant `FetchedHalf`. `Retention = 19`
  ticks let the buffer grow to 10 entries, one more than `Count = 9` asks for: the
  collector's answer is cut, and the condition `BufferCovers` of `DeltaIsTheCells` and
  `NoSampleLost` is met and missed. Both are about runs without a restart (`load_reset`
  shows why); `StatsOrdered` is not. `UpTimes` puts cAdvisor between the first two probes,
  at the very moment of the last, and behind it.

Deadlock is checked in the auth runs (a goroutine can always be sent another invalid
payload). In the gateway runs every request comes once, so the system stops when all are
served or the clock has run out: `CHECK_DEADLOCK FALSE`; that it stops nowhere else is what `Settled` says. A
data-service request ends with its answer and a matrix with its last cell, hence the same
setting; that a matrix stops nowhere else is `AllCellsRun`.

### Fairness

* `AuthService`: goroutines keep running (weak fairness of `Serve`); strong fairness of
  `Lock` and `RLock`, because Go's `sync.Mutex` hands itself to the longest waiter in
  starvation mode and a leaving writer admits the readers it held up. Nobody is
  assumed to send requests.
* `PyGateway`: timers fire (weak fairness of the four timeouts), a relay that has the
  whole body comes to its end, clients other than `SlowClients` read. Nothing is
  assumed of upstreams, which may hang for ever, nor of clients that send a body,
  for `read_body` has no timeout; so `Settled` starts behind it. The total timer
  does not run during `send`: a client that never reads is never settled itself.
* `LoadRun`: time passes, k6 comes to an end (its profiles have durations) and the script
  goes on. Nothing is assumed of cAdvisor or the container.

## Proofs

All for any sets of goroutines, e-mails, passwords, requests, queries, catalogues and any
limit, from the named assumptions of the modules (`TimeAssumption`, `AuthAssumption`,
`GatewayAssumption`, `DataAssumption`, `ContractAssumption`, `TimedAssumption`,
`LoadAssumption`), which say that the special values differ from the ordinary
ones, that `TTL`, `TicksPerSecond` and `LimitPerHost` are positive, that every token
has an owner, that clients are slow only where late timeouts are possible, that connect
budgets are no longer than totals, and that nothing in the catalogue contains a query with
spaces other than ASCII's around it (`seed()` in `products/store.go` names products in
ASCII; `Contract` depends on it where the Lua gateways leave such spaces in a lookup).

* `AuthProofs!Invariance`: the invariant is `TypeOK`, `LockInv` (readers and the writer
  are the goroutines whose `pc` says so, and a writer past `Drain` is alone),
  `ProgressInv` (what a goroutine's registers hold at each step), `StoreInv` (the store
  is the accounts of this epoch), `UniqueAccounts`, `SnapshotCurrent`, `TokensBacked` and
  `ExpiryInv` (the expiry is the one computed at signing). `UniqueAccounts` alone is not
  inductive: between the check and the insert it needs that the writer is alone, hence
  `LockInv`, and that the map mirrors this epoch's accounts, hence `StoreInv`. Theorems:
  `TypeCorrect`, `MapAccessExclusive`, `OneAccountPerEmail`, `StaleReadImpossible`,
  `TokensNameTheirOwner`, `ExpiryWindow`.
* `AuthProofs!ImplementsRegistry`: `Spec => RefinesRegistry`. A registration takes
  effect at `Insert` or `EmailTaken`, a login already at `Lookup`: the comparison that
  follows has its result decided there, since the account cannot change
  (`SnapshotCurrent`); so `Compare` and `Issue` are stutters.
* `GatewayProofs!Invariance`: `TypeOK`, `ResponseInv` (nothing sent before the status
  line, open while relaying, closed when done), `CallerInv` (what is known of the
  caller at each step), `SlotsFinite`, and the four safety properties. Every step of a
  request is `Quiet`, `Whole`, `First`, `More` or `Last` for the response
  (`SendCases`), which does the work for both the invariant and the refinement.
  Theorems: `TypeCorrect`, `SlotsNeverLeak`, `IdentityIsVerified`, `AuthFailuresAre401`,
  `ResponsesComplete`, and `ImplementsAsgi`: the responses to the requests outside
  `LateTimeouts` implement `AsgiResponse`, whatever becomes of the others. The run
  `py_late_timeout` shows that those cannot be included.
* `SubsequenceProofs` has the induction the others need. The library's induction theorems
  take an operator, which the provers cannot instantiate; `SetInduction` states them with
  a set instead, and follows from `WellFoundedInduction`'s minimum of a set. From it come
  that `Picked` obeys its recursion (`PickedLoop`), that `Pick` only looks at positions of
  the sequence, and that what it returns are the elements of the chosen positions, all of
  them and in order (`PickPositions`, `PickMembers`, `PickOrdered`).
* `DataProofs!Invariance`: `TypeOK` and the loop invariants `SearchExact` and `LookupExact`
  (what is in `out` belongs there, what was passed over does not) are inductive together. `Pass` says what one iteration does to soundness and completeness whatever the
  loop looks for, and serves both; `LookupExact` needs in addition that the loop is left as
  soon as its limit is reached. They give `DataTypeCorrect`, and `GatewayLookupsLimited`
  below. What is answered, and in which order, is `LoopInv`: in the middle of a loop, `out` is what
  the selection has come to after `i` passes. `LookupIsPrefix` needs that this grows by
  appending only (`PickPrefix`), so that leaving the loop early cuts a prefix off. Theorems:
  `SearchSelects`, `LookupIsFirst`.
* `ContractProofs!ContractImplementsData`: `CSpec => Spec`. The handlers of `Contract` only
  pass queries and filters that `DataService` allows for, whatever the body; so its theorems
  hold behind every gateway (`SearchesStayRight`, `LookupsStayRight`). `GatewayLookupsLimited` needs in addition
  that a lookup under way carries the gateway's limit (`LookupInv`).
* `ContractProofs!ContractMet`, `OnlyOwnProducts`. What the client is answered depends on all
  that happened before, so the invariant `AInv` keeps the whole way: `BodyInv` (the pieces
  received so far are the first `fed`, in order, and until the handler runs data-service
  knows nothing of the request), `AnswerInv` (what data-service works on is what the body
  stands for, or the request was refused with nothing listed), and `LoopInv`. At the end
  the four gateways' decoders are compared with the contract, case by case.
* `TimedProofs!TimedImplementsGateway`: `TSpec => Spec`, every timed step being one of
  `PyGateway` or a stutter. The invariant `TInv` is that of `PyGateway` with `Deadlines` (a
  wait has not outlived its budget, and began within the budgets of the waits before it),
  `Verdicts` (an identity stems from a check at most one verify ago, made before the token
  expired), `Pooled` (`since` and `closes` of a pooled connection are at most a verify
  apart) and the two properties that follow from them only step by step. Theorems:
  `WaitsAreBounded`, `StalenessIsBounded`, `MarginSuffices`, for all timeouts.
* `CollectorProofs`: for any sequence of natural numbers, `Ranked(values, k)` exists, lies between
  the smallest and the largest and rises with `k` (`RankedIs`, by counting the values up to
  a bound); a quantile is the straight line between two ranks and rises with `q`
  (`QuantileIs`, `QuantileOrder`), the mean lies between minimum and maximum
  (`TotalBounds`), so `StatsInOrder`; a delta is a difference of two
  of the values and no smaller than any other (`DeltaIs`). `RateBounds`: from 0 to 100 percent, if the counter gains no more than a tick's
  work in a tick.
* `LoadProofs`: four invariants, each used by the ones behind it.
  `ProbeInv`: the k-th probe is made at least k − 1 seconds after the first; this gives `ColdStart`.
  `FlowInv`: the cell's two dates are less than a second behind the moments they stand for.
  `BufferInv`: two entries of the buffer are at least as many seconds apart as they are
  places apart, with no more work between them than ticks, restarts or not; with `FlowInv`
  and `ProbeInv` this gives `TypesKept`, and with `CollectorProofs` `StatsSound`.
  `Coverage`: until a restart, the buffer has every entry younger than `Retention`. That the
  collector's `Count` entries reach back to the cell's start needs the distances of
  `BufferInv`; that the samples counted are as many as the moments sampled is a bijection
  between positions and times. This gives `NothingLostEver`.
  `Traffic` says of every entry how far it can be from the counter: between cells an entry of
  the last second is up to date (`Quiet`), since the start of a cell an entry has missed at
  most the cell's own work since its time (`Own`), and while the script waits behind k6 it
  lacks at most the work done since its time (`Drained`). `DeltaIsTheCells` speaks of the
  moment of a report alone and is not inductive: that the window begins with the cell's
  own traffic depends on the wait before the cell having been sampled. This gives `DeltaSound`.

So every invariant that a passing run checks, and both refinements, are theorems for all
values of the constants; the runs are where the invariants were tried out first, and where
the mutants show that they can fail.

Only model-checked: `Answered`, `Settled` and `AllCellsRun` (liveness under fairness is
beyond the prover), and the properties that are violated.

## Where code and documents disagree

1. `auth-service/README.md:10` promises `201` or `409` of `/register`; a password of 73 to
   128 bytes passes validation (`handlers.go:53`), bcrypt refuses it, and the answer is 500
   (`auth_register_doc`).
2. The comment at `gateway.py:109-110` says that errors in mid-stream must not start a
   second response; the total timeout does (`py_late_timeout`).
3. `settings.py:20` and `gateway-python/README.md:25` call `AIOHTTP_LIMIT_PER_HOST` an idle
   pool cap; it limits connections in use (`py_idle_cap`).
4. The comment at `collect_resources.py:194-195` calls the delta of a counter what the
   benchmark caused; after a restart inside the window it contains what earlier cells
   caused (`load_reset`). The same script clamps the CPU rate against that reset.

Not runs of their own:

* The comment at `collect_resources.py:47-48` has 1800 entries cover a cell of 30 minutes,
  but cAdvisor keeps ten minutes (`docker-compose.yml:126`). That is the condition
  `BufferCovers`; the default profiles last five minutes at most and meet it.
* `auth-service/internal/server/server.go:30-33` sets the idle timeout to the gateways'
  120 s, so that no side closes first. `KeepaliveMargin` needs the gateway's time to be
  shorter than the server's by `AUTH_TOTAL_TIMEOUT` and a network delay. With parity the
  run `timed` (its keep-alive time of 5) reaches states with a lost connection, after which
  a valid token is answered with 401; a GET would have been repeated, the POST to `/verify` is not.
* With the settings of the repository `BoundedStaleness` is 3 + 3 s past a token's expiry.
* The table under MeetsContract above: the READMEs of the four gateways describe one
  contract and say nothing of these cases.

## Not modelled, and why

* Header copying other than identity and authorization, JSON encoding of answers, logging,
  `/health`, memory gauges and timestamp parsing of the collector, argument tables of
  `run.sh`: no control flow that another part depends on.
* The proxies themselves of Kong, APISIX and apigate, their timeouts, retries and pools:
  external programs, of which the repository holds configuration. The same goes for
  `docker-compose.yml`, Dockerfiles, `kong.yml` and `apisix.yaml`.
* k6's scenario and profiles: declarative, but for a `setup` that registers and logs in,
  which `AuthService` covers as a client.
* DNS caching, TCP keep-alive probes and `enable_cleanup_closed`: handled inside aiohttp and
  the kernel.
* Idle connections to data-service: as with auth-service; lost POSTs to it are
  `ExchangeFails`.
* JSON that Go matches in another case (`"Category"`), duplicate keys, a top-level `null`
  and integers beyond 64 bits: further differences between decoders, not between the
  gateways' code.
* `JWT_TTL_MINUTES` above 153722867 overflows `time.Duration` (`config.go:33`); `Issuer`
  takes a TTL that does not.

What could still be proved: the safe half of the liveness properties, that a request or a
matrix that has not come to its end has a step whose guard holds; and how far a delta can
exceed a cell's traffic when the container does restart.
