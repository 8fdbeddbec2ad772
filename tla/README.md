# A TLA+ model of turl

turl is a URL shortener: read-write and read-only server processes in front of one
MySQL and one redis. This directory models what in it can go wrong between steps:
processes that share a sequence of numbers, requests that share a table and two levels
of cache, limiters that share a bucket, and a shutdown that runs beside all of them.
The modules are written from the code; the line of code behind each definition is in
`PROJECT.json` under `map`.

## The system

| part | state | operations | what makes it correct |
|---|---|---|---|
| sequence generator, `pkg/tddl` | a row (sequence, version) in MySQL; per process a segment curr..max, a worker goroutine, a stop channel | constructor, renew (optimistic lock), Next, Close | no number is given twice, whatever fails or crashes; callers are served; Close returns |
| services, `app/turl/service.go`, handlers | none of their own | Create, Retrieve, GetByLong, Delete, janitor | one URL has one link; a code leads to its URL; expired and deleted links do not resolve |
| storage, `pkg/storage` | table tiny_urls: short, long_url (unique), expires_at, deleted_at | Insert, GetByShortID, GetByLongURL, Delete (soft), DeleteExpired (hard) | truth for the services |
| cache, `pkg/cache` | redis shared by all; a local cache per proxy | Set, Get, Del through the proxy | holds only what the table held, for a bounded time |
| token limiter, `pkg/workqueue` | two keys in redis; per process redisAlive, a lock, a rescue bucket | Take, waitForRedis | rate and burst hold over all processes; rescue ends |
| per-item limiters, `pkg/workqueue` | a map of failures each, behind a mutex of its own; MaxOfRateLimiter over them without one | When, Forget, Take, Retries | retries get no faster; the limiters agree |
| codes, `pkg/mapping`, length check in `handler.go` | tables | Base58Encode, Base58Decode | a code leads back to its number |
| router and middleware, `http.go`, `gin.go` | read bucket | chain of a request | the right requests are limited |
| startup and shutdown, `cli`, `pkg/shutdown`; admin server, `pkg/observability` | configuration, listeners, handler, five seconds | configure, connect, listen, probe; drain, close, flush | nobody is cut off early; readiness is not reported while draining or closing; it ends |

How they interact: Create calls Next of the sequence generator, writes the table and
then the caches; Retrieve reads local cache, redis, table and writes both caches back;
Delete writes the table and then redis; the janitor writes the table only. The router
asks the limiters before the handlers. The shutdown closes the sequence generator and
the caches after draining the HTTP servers. All of it is concurrent: requests with each
other, with janitors, with other processes and with cache expiry. MySQL and redis can
fail a call, or carry it out and lose the reply. Requests have a deadline, which ends
their calls to MySQL but not a redis command that has been sent.

Not modelled: command line, database clients, logging, metrics, tracing, validation and
API documents (see `components`). They build library objects or only write: metrics, log
lines and spans are never read by the program, and no modelled part depends on them. Of
the configuration the model has what decides between behaviours (read-only or not, admin
server or not, an invalid one ends the process); its numbers are constants. Retries and
When of the token limiter add no effect to Take, and its Forget has no caller.

## Modules

`SegmentLease` is the abstract specification of the sequence generator: a mark, segments
leased from it, numbers issued lowest first, numbers lost. It has no database, no lock
and no retry.

`Tddl` models `pkg/tddl`. A client is a process; `pc` is where its constructor or worker
is. `RenewTake` and `RenewCas` are separate steps, since other processes run between the
SELECT and the UPDATE. `RenewCasLost` is the UPDATE whose reply is lost. `Deliver` is the
rendezvous on the unbuffered channel; Go's select takes any ready case, so it can happen
after stop was closed. `Exit` is a crash or the end of a process. `issued` and `lost` are
history. Refinement mapping: `hi` is the row's mark (or the configured start while there
is no row), `held[c]` is `curr[c] .. max[c]-1`.

`LinkMap` is the abstract specification of the link service: a map from numbers to links
that never change and only go from none to live to deleted or reaped, with one link per
URL, and answers that are true of the map when they are given. There is no cache, no
request in flight and no failing call. What it allows beyond the truth is that a redirect
follows an expired link for less than `Delay` more and a deleted one for `Grace` more.

`LinkService` models services, storage and cache together. A request is a slot; its `pc`
names the next call to MySQL or redis, or the reply it waits for. A call and its reply are
two steps, with time and other requests between them, wherever the code does something on
the reply that depends on when it comes: it looks at the clock, fills a local cache or
sends a visitor on.

- `RowReply` is the row's arrival: Retrieve checks the expiry (`service.go:325`) and the
  lifetime of the cache entry is computed (`service.go:332`, `service.go:220`) with
  nothing awaited between, so these are one step and the lifetime travels in the request
  (`ttl`). `RowReplyPanics` is the link that expires between the two, and the expired row
  that Create finds or has just stored.
- `SetRedis` is redis carrying out the SET, with the lifetime fixed before. `SetReply` is
  its reply: the local cache is filled and the visitor sent on without another look at the
  expiry (`service.go:336`), so a redirect may leave after it. `SetRedisFails` ends in the
  same answer.
- `RetrieveHitRedis` is redis reading the key; `GetReply` its reply, on which `proxy.Get`
  fills the local cache, whatever the context says (`proxy.go:67`), and fromCache checks
  the expiry.

The other calls are one step with what follows them in memory, since only their effect or
the row they read matters: Next, the duplicate INSERT, the lookups, the misses, Delete's
UPDATE and DEL. A request starts at `start` and its context is done after `ReqTimeout`
(`InTime`). The redis client is built without `ContextTimeoutEnabled`
(`pkg/db/redis/client.go:18`), so a command sent by then is ended by the socket timeouts
only: it may be carried out and answered up to `SocketTimeout` later (`Sent`), and so may
a statement that MySQL has received when its caller gives up. The client sends a redis
command again when its connection fails (`SetRedisAgain`, `DeleteCachedAgain`).

`state[s]` is none, live, deleted (deleted_at set, still in the unique index) or
reaped. `Collate` is what the unique index tells apart: MySQL's default is not
case-sensitive and the DDL names no collation. The command service's own local cache has
no variable: it is written and never read, which is itself the cause of one finding.
Long URLs are opaque; a code is a number and a count of leading zero digits. The numbers
come from a counter here, which is what `Tddl` is proved to provide; since a number is
only a name in this module, putting `SegmentLease` in the counter's place would add states
and no behaviour (lost numbers are those that a failed Create has drawn). Refinement
mapping to `LinkMap`: the table is the map, `resp` is the answer with its code decoded,
`Delay` is `ReqTimeout`, `Grace` is `StaleBound`.

`TokenLimiter` models the Lua script, reserveN, the rescue bucket and waitForRedis.
Tokens are counted in 1/Second of a token, so that all arithmetic is in integers as the
script's is in milliseconds. The script uses the clock of the process that calls it, and
redis its own to expire the keys: a request brings any time from `now` to `now + MaxSkew`.
`behind` counts the requests whose time is before the stored one; each of them moves the
stored time back, and `GlobalLimit` states what that costs. `SkewBelowFill` assumes that
clocks differ by less than the time in which a bucket fills: then a bucket whose keys
expire, which takes twice that time, is full by then on whichever clock it was written.

`ItemLimiters` models the exponential and the fast/slow limiter under a MaxOfRateLimiter,
as the tests put them together; tddl uses the exponential one alone. A call takes two
steps, one per limiter and mutex, and calls of several goroutines interleave between. An
integer has `MaxInt` as its largest value, so that the backoff overflows within reach of
TLC. Assumed: fast is no slower than slow, the base delay is positive and no power of two
(`BaseNoPowerOfTwo`, see below), and there are finitely many goroutines.

`Base58` models codes: encoding, decoding with its tables, the lengths Redirect accepts.
The loops are recursive functions, one round each (`digits`, `Sums`), and `pow[n][x]` is
pow(x, n). Assumed: the alphabet has at least two characters, all different
(`CharsAssumption`), and the numbers given have codes of accepted lengths
(`NumbersHaveCodes`; the example configuration starts at 700000000, above 58^5).

`Server` models one process from its start to its exit. `main` is where serverStart is:
configuration, handler, listener, admin server, signal.Notify, waiting, shutdown. The
configuration (read-only, admin server) is chosen in `Init`. Listeners start in goroutines
and may fail, which serverStart does not notice; a signal before signal.Notify kills the
process. Requests go through the middleware chain that the order of the statements of
NewServer gives each route, and finish or time out. A readiness probe pings MySQL and then
redis, each of which may be down, while everything else goes on. The shutdown steps run
under their common context.

The `MC*` modules give TLC the constants and symmetries; each `.cfg` is one run.
`MCPackages` checks the two modules about `pkg/workqueue` and the one about `pkg/mapping` in
one run: they share nothing, so it lets one of them at a time leave its initial state.

## Runs

Passing runs:

| run | what it shows | bounds |
|---|---|---|
| tddl | `TypeOK`, `IdsAccounted`, `NoLostUpdate`, `ImplementsLease`, `ClosedSilent`, `NextServed`, `StartReturns` | two processes with steps 2 and 1, one caller, numbers 1 to 4: the process with step 1 can renew several times, the other once beside it, and they compete, crash and restart between |
| links | `CacheCoherent`, `NeverServesExpired`, `SameURLSameLink`, `ImplementsLinkMap`, `TypeOK` | two requests at a time, two URLs that the index takes for one, two numbers, links that live for one tick, requests of up to one tick, faults; a link may expire at every wait of a request. The clock is too short for `Grace` to pass, which is what links_stale is for |
| links_stale | `DeletedFadesOut` | one link without expiry under a code and its alias, two requests, calls that take up to a tick before the deadline and a tick after it, jitter, time for all lifetimes to pass; calls are slow and not faulty, as a failed call writes no cache and a lost reply only leaves one entry less |
| links_live | `RequestsAnswered`, `ExpiredReaped` | two URLs and two numbers, links that all expire, batches of one: both rows, deleted or not, can wait for the same batch. One request at a time, as requests hold no lock and wait for no other request; calls end without faults, since a failed call only ends its request sooner |
| packages | `GlobalLimit`, `RescueLimit`, `TypeOK`; `NeverSooner`, `LimitersAgree`, `LimiterTypeOK`; `FoundByItsCode`, `CodesResolve`, `CodeTypeOK` | two processes, a rate that does not divide the capacity (so the lifetime of the keys is rounded), time for keys to expire, clocks up to one tick apart, two requests that are behind; two goroutines, two items, failures past the overflow of the backoff; base 3, codes of 3 or 4 digits, all numbers that have one, all strings of up to 5 characters over the alphabet and a foreign character |
| server | `ClosedAfterDrain`, `NobodyCutOff`, `ReadyMeansOpen`, `HealthNotLimited`, `ShutdownEnds`, `TypeOK` | all four configurations, two requests that may hang, a probe in flight, dependencies that come and go, burst 1; deadlock is not checked, as the process exits |

`NeverServesExpired` is about the visitor who comes when the link has expired. One who
comes before may still be sent on after it, as the code waits for redis between its check
and its answer; `ImplementsLinkMap` bounds that by the request timeout.

`DeletedFadesOut` bounds how long a deleted link is served by `StaleBound`: the time of a
request that read the row before the deletion (`ReqTimeout + SocketTimeout`), the lifetime
of the redis entry it writes, the time of a request that reads that entry at the last
moment, and the lifetime of the local entry which that one writes. With one tick less in
the bound TLC finds a counterexample, so within the model the bound is attained. The model
lets redis carry out a command right before its reply is due or long before, so for the
code it is an upper bound, with `SocketTimeout` for whatever the retries and socket
timeouts of the redis client add up to.

The three passing runs about links have one process. Processes meet only in redis and
MySQL; no process clears the local cache that serves its visitors, and `EvictLocal` may
drop any local entry at any time. So whatever a second process does to redis and the table
the first one can do too, with the entry in question evicted, and a read-only process does
a part of it. The proofs are for any set of processes.

Runs in which the code does not do what a document or comment says (`findings` has the
quotations):

| run | what happens |
|---|---|
| links_deleted | Delete clears the command proxy's local cache; the query proxy's goes on serving the link |
| links_recreate | a deleted URL cannot be shortened again: the index still has the row, the lookup does not see it |
| tddl_close | stop closed while an exhausted segment is renewed: the worker spins, Close hangs |
| token_rescue | "ping: PONG" is compared with "pong": rescue never ends |
| server_ready | a probe that comes during the shutdown is told 200 while the public server drains; the comment on GracefulShutdown says the health check is set to unhealthy first |
| server_read_rate | the read limiter is attached after the redirect route |

Each property of a passing run has a mutant: a definition changed the way a plausible
bug would change the code, under which TLC finds the property violated.

## Met while modelling, without a run of their own

- A URL whose link has expired and was not reaped yet: Create finds the row as a
  duplicate, no lifetime is left for redis, `rand.IntN` in `redisCache.Set`
  (`redis_remote_cache.go:38`) gets an argument it panics on, and the client gets a 500
  where the comment at `service.go:218` says that a failure to cache does not fail the
  request. `RowReplyPanics` models it. No property forbids it: `RequestsAnswered` and the
  map of links take a panic for an answer.
- A URL that differs only in case from a stored one is a duplicate to the index; the
  value cached under the existing code then holds the URL of the request
  (`service.go:220`). `ImplementsLinkMap` compares URLs by `Collate` for this reason.
- With `start_num` below 58^5 the codes are shorter than Redirect accepts
  (`handler.go:97`), and nothing checks it; `NumbersHaveCodes` excludes it, and without it
  `CodesResolve` fails.
- A link that expires while Retrieve waits for redis is answered all the same
  (`service.go:336`), and a redis command under way when the deadline passes still fills
  the caches. Both are in the model and within the bounds that `LinkMap` allows.
- A backoff of exactly 2^63 passes the check of the exponential limiter
  (`rate_limiters.go:116`) and does not fit its type; the configured base delay is no
  power of two, so tddl does not meet it. `BaseNoPowerOfTwo` excludes it.
- A listener that fails leaves the process running without its server, and `/readyz`
  answers 200 all the same (`server_command.go:100`); `Listen` models it.
- A signal between the start of the listener and signal.Notify cuts off requests that
  have been accepted; `NobodyCutOff` names this exception.
- `storage.Close` does nothing (`storage.go:145`), so the MySQL pool outlives the handler.
- A configuration without `cache.redis` passes Validate, as the field is not required, and
  newService dereferences it.
- A When and a Forget of MaxOfRateLimiter that meet leave its limiters with different
  counts for the item until the next Forget; `LimitersAgree` names this exception.

## Fairness

- `Tddl`: goroutines that can run do run (weak fairness of the worker's and constructor's
  steps). Strong fairness of `RenewTake` and `RenewCas`: a database that is asked again
  and again does not always fail, and backoff lets a process win the optimistic lock at
  last. Strong fairness of `Deliver` and `WorkerStop`: select chooses at random among
  ready cases. None of `Exit`, `Close`, `CtxExpire`, `Start`.
- `LinkService`: weak fairness of each request's steps (a call returns or times out) and
  of the janitor, whose ticker goes on after an error.
- `TokenLimiter`: the goroutine of waitForRedis and its ticker run.
- `Server`: the main goroutine and the timer of the shutdown context run; nothing is
  assumed of requests or of seq.Close.

## Proofs

TLAPS checks the proofs. Every invariant and action property of a passing run, and both
refinements, are proved for every value of the constants that satisfies the assumptions.
TLC checked each inductive invariant on a small instance first.

### Sequence generator: `TddlProofs`

For any sets of processes and callers, any steps and any start, from `ClientStep` (steps
are natural numbers) and `StartBelowMax`: `TypeCorrect` (`TypeOK`), `Accounted`
(`IdsAccounted`), `LockSafe` (`NoLostUpdate`), `Silence` (`ClosedSilent`) and `Refinement`
(`ImplementsLease`).

`IdsAccounted` is not inductive: it says nothing of what a process that is about to
write the row remembers. The inductive invariant `IInv` adds `Control` (where a process
can be in which phase of its life, and that it holds nothing while it renews),
`SnapFresh` (a remembered row is not newer than the row, and has the row's sequence if it
has its version: this is what makes the version condition sufficient), `RowOK` (the mark
is not below the start) and `Partition` (each number below the mark is issued, held or
lost, in exactly one place). `Silence` rests on `WorkerGone`: a closed generator's worker
has returned, since Close returns only then and nothing but a restart brings a worker
back. Each action has a lemma; the refinement maps `RenewCas` to `Lease`, `RenewCasLost`
to `Waste`, `Deliver` to `Issue`, `Exit` to `Drop`, and every other step to a stutter.

### Link service: `LinkProofs`

For any processes, requests, URLs, collation, aliases, lifetimes, batch size and timeout,
with or without faults, from `CodesAssumption` and `TimesAssumption` (the configured
lifetimes are positive, the other times natural numbers): `LinkTyped` (`TypeOK`),
`CachesCoherent` (`CacheCoherent`), `ExpiredNeverServed` (`NeverServesExpired`),
`OneLinkPerURL` (`SameURLSameLink`), `DeletedGone` (`DeletedFadesOut`) and
`ServiceImplementsMap` (`ImplementsLinkMap`).

What a cache holds was decided when the request that wrote it read the row, so the
inductive invariant `LinkInv` has to follow the value through the request. `Sound` says
what a request carries at each call and each reply: a request with the row, or about to
fill the caches with it, carries the link of its key, and that had not been deleted when
the request started (`NotDeletedBefore`); a request with a value of redis, that it had not
been deleted longer than a redis entry can last (`RedisBound`) before; and a visitor whom
the code will send on without another look at the expiry came before it. `Kept` says of an
entry that it is the link of its key, with the time by which it is dropped: `RedisBound`
after the deletion in redis, `LocalBound` in a local cache, each a tick more than what
`StaleBound` adds up. Both bounds hold the time of the calls (`CallTime`), once for each
level. `Table` (no two present rows have the same URL; a live row was never deleted) and
`Drawn` (a number about to be inserted has no row and belongs to one request) make a row
unique. `Monotone` is what every step of the map
preserves (a link never changes, a deletion stays and is dated), and one lemma each shows
that `Sound` and `Kept` survive it; so an action has to be looked at only for what it
writes itself. Each step ends in `Outcome`: the invariant holds, the table took a step of
the map, and the answer is true of it (`TrueResponse`). The refinement is that; expiry and
staleness of redirects follow from the truth of the answers.

### Limiters: `TokenLimiterProofs`, `ItemLimitersProofs`

For every rate, capacity, clock resolution, number of processes and every skew below the
fill time (`SkewBelowFill`): `LimiterTyped` (`TypeOK`), `LimitHolds` (`GlobalLimit`) and
`RescueHolds` (`RescueLimit`). `GlobalLimit` is not inductive: a script that finds no keys
starts with a full bucket. `LimitInv` adds `Account` (the bound at the time the script
stored, counting the tokens that are left) and `KeysOutlive` (the keys go a lifetime after
the request that wrote them). The lemma `TTLCovers` is the reason that nothing is given
away: twice the fill time, rounded down, still covers a fill and a skew.

For any items, any finite set of goroutines (`GoroutinesFinite`) and all delays
(`DelaysFit`): `LimitersTyped` (`LimiterTypeOK`), `BackoffNeverSooner` (`NeverSooner`) and
`LimitersInAgreement` (`LimitersAgree`). `LimitersInv` adds `Counted` (the first limiter is
ahead of the second by the number of calls of When that are between the two; while an item
is being forgotten the first has count 0) and `Growing` (the counts justify the longest
delay returned and what the calls that no Forget met carry). That powers of two grow is
proved by counting: 2^n is the number of subsets of 1..n.

### Server: `ServerProofs`

For any number of requests, any burst and rate (`RatesNatural`), and the four
configurations: `ServerTyped` (`TypeOK`), `DrainFirst` (`ClosedAfterDrain`),
`NobodyIsCutOff` (`NobodyCutOff`), `ReadinessHonest` (`ReadyMeansOpen`) and
`HealthAnswered` (`HealthNotLimited`). `ServerInv` adds `Shut` (what each step of the
shutdown leaves behind: a server is closed before it is drained, so what has drained stays
so), `Phase` and `Born` (what there is before the shutdown). `ReadinessHonest` is about the
handler: a 200 is never said of one that is not open. It leaves open that 200 is said
while the public server drains, which the run server_ready shows.

### Codes: `Recursion`, `Base58Proofs`

For every alphabet and every length, from `CharsAssumption`, `LengthsAssumption` and
`NumsAssumption`: `DecodeUndoesEncode`, `EncodeUndoesDecode` (a string that is accepted is
the code of its number behind zeros), `DecodeBounded` (the number is below the power of
the base for `maxBytes`, so nothing overflows), and with them `CodesTyped` (`CodeTypeOK`),
`OnlyItsCode` (`FoundByItsCode`) and `EveryCodeResolves` (`CodesResolve`); only the last
needs `NumbersHaveCodes`. The inductive invariant `CodesInv` says that an answer that is
out is what Redirect answers with the numbers given so far.

The properties are about what loops compute, and the provers at hand cannot apply the
library's induction theorems, which have a predicate as a parameter. `Recursion` states
induction about a set of numbers instead (`SetInduction`, from the fact that every set of
numbers has a least element), and shows that a linear recursion, given by sets and
functions, has a solution (`LinearRecursion`, by approximations that agree where both are
right). From it follow the equations of `pow`, `digits` and `Sums`. `PowNext` shows that
powers by squaring are powers; `ValueOfAppend` and `EncodeOfDigit`, that decoding and
encoding are positional: one more character is one more digit. Both directions of the
round trip are then inductions, over the number and over the length of the string, and
`CodeLength` says how many characters a number has.

### Only model-checked

- Liveness (`NextServed`, `StartReturns`, `RequestsAnswered`, `ExpiredReaped`,
  `ShutdownEnds`), which is out of the prover's reach.

## Abstractions to know of

- One clock for all processes and databases, but in `TokenLimiter`, where the processes'
  clocks run ahead of redis's by up to `MaxSkew`. In `LinkService` a skew would move the
  moment at which a link counts as expired by as much.
- The jitter of redisCache.Set is at most a tenth of the lifetime; the model allows any
  amount up to a constant.
- bigcache drops outdated entries when its cleaner runs (once a second); the model drops
  them at the tick.
- A past deadline makes every later call fail, as the request's context is cancelled; a
  call that is under way then may take effect for `SocketTimeout` more, or never does.
- A request that is told of a timeout keeps its slot until its goroutine is done.
- Deadlines, lifetimes and the clock are bounded; the bounds are constants of the modules.

## Plan

1. Done: sequence generator with abstract specification and proofs; link service with
   abstract specification; limiters of `pkg/workqueue`; codes; server from start to exit.
2. Left out for good: what is listed as not modelled above. `Server` with `Tddl` in the
   place of `SeqClosed` would add nothing to `tddl_close` and `ShutdownEnds`, which together
   say when the shutdown hangs.
3. Done: proofs of all safety properties and both refinements. What is left to TLC is
   liveness.
