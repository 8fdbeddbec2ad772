---------------------------- MODULE LinkService ----------------------------
(***************************************************************************)
(* app/turl, pkg/storage and pkg/cache: creating, resolving, deleting and  *)
(* reaping short links.                                                    *)
(*                                                                         *)
(* The table tiny_urls is the truth.  In front of it stand one redis,      *)
(* shared by all processes, and in every process the in-memory cache of    *)
(* its query service.  A read-write process has a second in-memory cache,  *)
(* since newService builds another cache proxy for its command service;    *)
(* the command service only sets and deletes keys and never asks for one,  *)
(* so that cache influences nothing and has no variable here.              *)
(*                                                                         *)
(* A request is a slot of Reqs; requests interleave between steps, and     *)
(* time passes between them.  Its pc names the call to MySQL or redis it   *)
(* makes next, or the reply it waits for.  A call and its reply are two    *)
(* steps where the code, once the reply is back, looks at the clock, fills *)
(* a local cache or sends a visitor on (pc rowReply, setReply, getReply),  *)
(* and one step where it does none of these.                               *)
(*                                                                         *)
(* A call can fail without having taken effect, and can fail although it   *)
(* has (the reply is lost).  The request's deadline ends a call to MySQL,  *)
(* not one to redis: the redis client is built without                     *)
(* ContextTimeoutEnabled, so only its socket timeouts end a command that   *)
(* has been sent.  A statement on its way to MySQL may still be executed   *)
(* when the caller has given up; the slot is then kept until it is.        *)
(***************************************************************************)
EXTENDS Integers, FiniteSets

CONSTANTS
  RWNodes,      \* read-write processes
  RONodes,      \* read-only processes
  Reqs,         \* slots for concurrent requests
  Ops,          \* the operations the clients use
  Longs,        \* long URLs
  NoLong,       \* no long URL
  Collate,      \* Collate[l]: what the unique index on long_url tells apart
  MaxSeq,       \* how many numbers the sequence generator can still give
  MaxPad,       \* how many leading '1' digits a client may put before a code
  TTLs,         \* the lifetimes clients ask for; 0 is a link without expiry
  RedisTTL,     \* configured lifetime of a redis entry
  Jitter,       \* the most that redisCache.Set adds to it
  LocalTTL,     \* configured lifetime of a local entry
  ReqTimeout,   \* the server's request timeout
  SocketTimeout,\* how long a call sent by the deadline may still take
  BatchSize,    \* janitorBatchSize
  MaxTime,      \* bound of the clock
  Faults        \* whether calls to MySQL and redis can fail

ASSUME CodesAssumption ==
  /\ MaxSeq \in Nat \ {0}
  /\ MaxPad \in Nat
  /\ NoLong \notin Longs

\* The configuration requires lifetimes for the caches.
ASSUME TimesAssumption ==
  /\ {RedisTTL, LocalTTL, MaxTime} \subseteq Nat \ {0}
  /\ {Jitter, ReqTimeout, SocketTimeout} \subseteq Nat
  /\ TTLs \subseteq Nat

Nodes == RWNodes \cup RONodes
Seqs == 1 .. MaxSeq
Times == 1 .. MaxTime

\* A short code is a number and the digits '1' (of value zero) before it.
Keys == Seqs \X (0 .. MaxPad)
Base58Decode(k) == k[1]
Base58Encode(s) == <<s, 0>>

\* A cached value: the URL, its expiry (0 is none), when the cache drops it.
NoEntry == [long |-> NoLong, exp |-> 0, until |-> 0]

VARIABLES
  now,      \* the clock of all processes and of the databases
  nextSeq,  \* the number the sequence generator gives next
  link,     \* link[s]: long URL and expiry of the row with short = s
  state,    \* state[s]: none, live, deleted (deleted_at is set), reaped
  redis,    \* redis[k]
  local,    \* local[n][k]: the local cache of node n's query service
  req,      \* req[r]: where request r is and what it carries
  resp,     \* the response that the last step sent
  deletedAt,\* deletedAt[s]: when the row was marked deleted (deleted_at)
  promised  \* history: promised[u]: the links that were answered for URL u

vars == <<now, nextSeq, link, state, redis, local, req, resp, deletedAt,
          promised>>

Idle == [pc |-> "idle", op |-> "none", node |-> "none", key |-> Base58Encode(1),
         long |-> NoLong, exp |-> 0, ttl |-> 0, start |-> 0]

NoResp == [op |-> "none", status |-> "none", key |-> Base58Encode(1),
           long |-> NoLong, start |-> 0]

Classes == {Collate[l] : l \in Longs}

Init ==
  /\ now = 1
  /\ nextSeq = 1
  /\ link = [s \in Seqs |-> [long |-> NoLong, exp |-> 0]]
  /\ state = [s \in Seqs |-> "none"]
  /\ redis = [k \in Keys |-> NoEntry]
  /\ local = [n \in Nodes |-> [k \in Keys |-> NoEntry]]
  /\ req = [r \in Reqs |-> Idle]
  /\ resp = NoResp
  /\ deletedAt = [s \in Seqs |-> 0]
  /\ promised = [u \in Classes |-> {}]

-----------------------------------------------------------------------------
(* Shared by the operations *)

\* isExpired: an expiry is set and not after now.
isExpired(exp) == exp # 0 /\ exp <= now

\* cacheTTL: the configured lifetime, bounded by what the link has left.
cacheTTL(exp) ==
  IF exp # 0 /\ exp - now < RedisTTL THEN exp - now ELSE RedisTTL

\* The request goes on with its call p.
Goto(r, p) == req' = [req EXCEPT ![r].pc = p]

\* The request's context is not done.
InTime(r) == now <= req[r].start + ReqTimeout

\* A call made before the deadline may still be executed and answered.
Sent(r) == now <= req[r].start + ReqTimeout + SocketTimeout

\* The handler answers and the slot is free again.  Past the deadline the
\* client has been told "request timeout" already.
Respond(r, status, long) ==
  /\ req' = [req EXCEPT ![r] = Idle]
  /\ resp' = IF InTime(r)
               THEN [op |-> req[r].op, status |-> status, key |-> req[r].key,
                     long |-> long, start |-> req[r].start]
               ELSE [NoResp EXCEPT !.op = req[r].op, !.status = "timeout"]

Fails(r, status) ==
  /\ req' = [req EXCEPT ![r] = Idle]
  /\ resp' = [NoResp EXCEPT !.op = req[r].op,
                             !.status = IF InTime(r) THEN status ELSE "timeout"]

At(r, p) == req[r].pc = p

\* A call to MySQL or to redis fails: by a fault, or past the deadline.
CallFails(r) == Faults \/ ~InTime(r)

\* What redisCache.Set stores, with the lifetime computed before the call.
RedisSet(k, long, exp, ttl) ==
  \E j \in 0 .. Jitter :
    redis' = [redis EXCEPT ![k] =
                [long |-> long, exp |-> exp, until |-> now + ttl + j]]

\* localCache.Set, with the one lifetime bigcache has for all entries.
LocalSet(n, k, long, exp) ==
  local' = [local EXCEPT ![n][k] =
              [long |-> long, exp |-> exp, until |-> now + LocalTTL]]

-----------------------------------------------------------------------------
(* commandService.Create *)

\* The URL has been validated; the request waits for a number.
CreateStart(r, n, l, ttl) ==
  /\ At(r, "idle")
  /\ req' = [req EXCEPT ![r] =
               [Idle EXCEPT !.pc = "next", !.op = "create", !.node = n,
                            !.long = l, !.exp = ttl,
                            !.start = now]]
  /\ resp' = NoResp
  /\ UNCHANGED <<now, nextSeq, link, state, redis, local, deletedAt,
                 promised>>

\* seq.Next gives a number that nobody else gets (module Tddl), and the expiry
\* is computed from the lifetime asked for.
CreateNext(r) ==
  /\ At(r, "next")
  /\ nextSeq \in Seqs
  /\ InTime(r)
  /\ nextSeq' = nextSeq + 1
  /\ req' = [req EXCEPT ![r].pc = "insert", ![r].key = Base58Encode(nextSeq),
                        ![r].exp = IF @ > 0 THEN now + @ ELSE 0]
  /\ resp' = NoResp
  /\ UNCHANGED <<now, link, state, redis, local, deletedAt, promised>>

\* seq.Next fails: the context is done, or there are no numbers left.
CreateNextFails(r) ==
  /\ At(r, "next")
  /\ CallFails(r) \/ nextSeq \notin Seqs
  /\ Fails(r, "error")
  /\ UNCHANGED <<now, nextSeq, link, state, redis, local, deletedAt,
                 promised>>

\* Mutant: a unique index that leaves out rows marked deleted.
RowsOfLive(l) ==
  {s \in Seqs : state[s] = "live" /\ Collate[link[s].long] = Collate[l]}

\* The rows the unique index on long_url holds for URL l, deleted ones too.
RowsOf(l) ==
  {s \in Seqs : state[s] \in {"live", "deleted"}
                  /\ Collate[link[s].long] = Collate[l]}

\* MySQL executes the INSERT.
CreateInsert(r) ==
  LET s == Base58Decode(req[r].key)
  IN /\ At(r, "insert")
     /\ Sent(r)
     /\ RowsOf(req[r].long) = {}
     /\ link' = [link EXCEPT ![s] = [long |-> req[r].long, exp |-> req[r].exp]]
     /\ state' = [state EXCEPT ![s] = "live"]
     /\ Goto(r, "rowReply")
     /\ resp' = NoResp
     /\ UNCHANGED <<now, nextSeq, redis, local, deletedAt, promised>>

\* The index refuses a duplicate: Create looks the existing row up.
CreateInsertDup(r) ==
  /\ At(r, "insert")
  /\ InTime(r)
  /\ RowsOf(req[r].long) # {}
  /\ Goto(r, "lookup")
  /\ resp' = NoResp
  /\ UNCHANGED <<now, nextSeq, link, state, redis, local, deletedAt,
                 promised>>

\* The INSERT fails and the row is not stored; see RowReplyFails if it is.
CreateInsertFails(r) ==
  /\ At(r, "insert")
  /\ CallFails(r)
  /\ Fails(r, "error")
  /\ UNCHANGED <<now, nextSeq, link, state, redis, local, deletedAt,
                 promised>>

\* Mutant: the answer keeps the number it drew, not the one of the row found.
CreateLookupKeepsSeq(r) ==
  /\ At(r, "lookup")
  /\ InTime(r)
  /\ \E s \in RowsOf(req[r].long) :
       /\ state[s] = "live"
       /\ req' = [req EXCEPT ![r].pc = "rowReply", ![r].exp = link[s].exp]
  /\ resp' = NoResp
  /\ UNCHANGED <<now, nextSeq, link, state, redis, local, deletedAt,
                 promised>>

\* Mutant: the cached value gets the expiry this request asked for.
CreateLookupKeepsExpiry(r) ==
  /\ At(r, "lookup")
  /\ InTime(r)
  /\ \E s \in RowsOf(req[r].long) :
       /\ state[s] = "live"
       /\ req' = [req EXCEPT ![r].pc = "rowReply", ![r].key = Base58Encode(s)]
  /\ resp' = NoResp
  /\ UNCHANGED <<now, nextSeq, link, state, redis, local, deletedAt,
                 promised>>

\* GetByLongURL finds the row, expired or not: its number and expiry are used.
CreateLookup(r) ==
  /\ At(r, "lookup")
  /\ InTime(r)
  /\ \E s \in RowsOf(req[r].long) :
       /\ state[s] = "live"
       /\ req' = [req EXCEPT ![r].pc = "rowReply", ![r].key = Base58Encode(s),
                             ![r].exp = link[s].exp]
  /\ resp' = NoResp
  /\ UNCHANGED <<now, nextSeq, link, state, redis, local, deletedAt,
                 promised>>

\* The row is marked deleted, or has been reaped since the INSERT, or MySQL
\* fails: Create returns the error.
CreateLookupFails(r) ==
  /\ At(r, "lookup")
  /\ CallFails(r) \/ \A s \in RowsOf(req[r].long) : state[s] # "live"
  /\ Fails(r, "error")
  /\ UNCHANGED <<now, nextSeq, link, state, redis, local, deletedAt,
                 promised>>

\* Create answers with the link.
CreateAnswers(r) ==
  /\ Respond(r, "ok", req[r].long)
  /\ promised' = IF InTime(r)
                   THEN [promised EXCEPT ![Collate[req[r].long]] =
                           @ \cup {Base58Decode(req[r].key)}]
                   ELSE promised

-----------------------------------------------------------------------------
(* How Create and Retrieve end: the row is back from MySQL, cache.Set of the    *)
(* proxies writes redis, then the local cache, and the client gets the answer.  *)

\* The reply with the row.  Retrieve looks at the expiry, both compute the
\* lifetime of the cache entry, and redisCache.Set sends its command.
RowReply(r) ==
  /\ At(r, "rowReply")
  /\ InTime(r)
  /\ req[r].op = "retrieve" => ~isExpired(req[r].exp)
  /\ cacheTTL(req[r].exp) > 0
  /\ req' = [req EXCEPT ![r].pc = "setRedis", ![r].ttl = cacheTTL(req[r].exp)]
  /\ resp' = NoResp
  /\ UNCHANGED <<now, nextSeq, link, state, redis, local, deletedAt,
                 promised>>

\* Retrieve's row has expired.
RowReplyExpired(r) ==
  /\ At(r, "rowReply")
  /\ InTime(r)
  /\ req[r].op = "retrieve"
  /\ isExpired(req[r].exp)
  /\ Respond(r, "expired", NoLong)
  /\ UNCHANGED <<now, nextSeq, link, state, redis, local, deletedAt,
                 promised>>

\* The jitter is a random number below a tenth of the lifetime, and drawing it
\* panics when no lifetime is left: Create has stored or found a row that has
\* expired, or the link that Retrieve just saw alive expires before cacheTTL
\* reads the clock again.  The panic ends the request.
RowReplyPanics(r) ==
  /\ At(r, "rowReply")
  /\ InTime(r)
  /\ \/ req[r].op = "create" /\ cacheTTL(req[r].exp) <= 0
     \/ req[r].op = "retrieve" /\ req[r].exp = now + 1
  /\ Fails(r, "panic")
  /\ UNCHANGED <<now, nextSeq, link, state, redis, local, deletedAt,
                 promised>>

\* The reply of MySQL is lost, or comes too late.
RowReplyFails(r) ==
  /\ At(r, "rowReply")
  /\ CallFails(r)
  /\ Fails(r, "error")
  /\ UNCHANGED <<now, nextSeq, link, state, redis, local, deletedAt,
                 promised>>

\* redis executes the SET.
SetRedis(r) ==
  /\ At(r, "setRedis")
  /\ Sent(r)
  /\ RedisSet(req[r].key, req[r].long, req[r].exp, req[r].ttl)
  /\ Goto(r, "setReply")
  /\ resp' = NoResp
  /\ UNCHANGED <<now, nextSeq, link, state, local, deletedAt, promised>>

\* The reply is lost and the redis client sends the command again.
SetRedisAgain(r) ==
  /\ At(r, "setReply")
  /\ Faults
  /\ InTime(r)
  /\ Goto(r, "setRedis")
  /\ resp' = NoResp
  /\ UNCHANGED <<now, nextSeq, link, state, redis, local, deletedAt,
                 promised>>

\* The caller's answer once cache.Set has returned.  Retrieve does not look at
\* the expiry again.
Answer(r) ==
  \/ /\ req[r].op = "create"
     /\ CreateAnswers(r)
  \/ /\ req[r].op = "retrieve"
     /\ Respond(r, "found", req[r].long)
     /\ UNCHANGED promised

\* redis confirms: the proxy fills the local cache of a query service too.
SetReply(r) ==
  /\ At(r, "setReply")
  /\ Sent(r)
  /\ IF req[r].op = "retrieve"
       THEN LocalSet(req[r].node, req[r].key, req[r].long, req[r].exp)
       ELSE UNCHANGED local
  /\ Answer(r)
  /\ UNCHANGED <<now, nextSeq, link, state, redis, deletedAt>>

\* Mutant: a SET that failed is tried again until it succeeds.
SetRedisFailsRetries(r) ==
  /\ At(r, "setRedis") \/ At(r, "setReply")
  /\ CallFails(r)
  /\ Goto(r, "setRedis")
  /\ resp' = NoResp
  /\ UNCHANGED <<now, nextSeq, link, state, redis, local, deletedAt,
                 promised>>

\* The SET fails, whether or not redis executed it.  That is logged and skips the
\* local cache, and the client gets the answer all the same.
SetRedisFails(r) ==
  /\ At(r, "setRedis") \/ At(r, "setReply")
  /\ CallFails(r)
  /\ Answer(r)
  /\ UNCHANGED <<now, nextSeq, link, state, redis, local, deletedAt>>

-----------------------------------------------------------------------------
(* queryService.Retrieve *)

\* The request as it is when proxy.Get misses the local cache.
Retrieving(n, k) ==
  [Idle EXCEPT !.pc = "getRedis", !.op = "retrieve", !.node = n, !.key = k,
               !.start = now]

RetrieveMissLocal(r, n, k) ==
  /\ At(r, "idle")
  /\ local[n][k] = NoEntry
  /\ req' = [req EXCEPT ![r] = Retrieving(n, k)]
  /\ resp' = NoResp
  /\ UNCHANGED <<now, nextSeq, link, state, redis, local, deletedAt,
                 promised>>

\* Mutant: a cached value is served without a look at its expiry.
CachedStatusUnchecked(exp) == "found"

\* The status for a cached value: fromCache checks the expiry stored with it.
CachedStatus(exp) == IF isExpired(exp) THEN "expired" ELSE "found"

\* The local cache has the key: the answer needs no other call.
RetrieveHitLocal(r, n, k) ==
  /\ At(r, "idle")
  /\ local[n][k] # NoEntry
  /\ LET e == local[n][k]
     IN resp' = [op |-> "retrieve", key |-> k, long |-> e.long,
                 status |-> CachedStatus(e.exp), start |-> now]
  /\ UNCHANGED <<now, nextSeq, link, state, redis, local, req, deletedAt,
                 promised>>

\* redis has the key, and its reply is on the way.
RetrieveHitRedis(r) ==
  LET e == redis[req[r].key]
  IN /\ At(r, "getRedis")
     /\ Sent(r)
     /\ e # NoEntry
     /\ req' = [req EXCEPT ![r].pc = "getReply", ![r].long = e.long,
                           ![r].exp = e.exp]
     /\ resp' = NoResp
     /\ UNCHANGED <<now, nextSeq, link, state, redis, local, deletedAt,
                    promised>>

\* The value is back: proxy.Get fills the local cache on its way out, even past
\* the deadline, and fromCache checks the expiry.
GetReply(r) ==
  /\ At(r, "getReply")
  /\ Sent(r)
  /\ LocalSet(req[r].node, req[r].key, req[r].long, req[r].exp)
  /\ Respond(r, CachedStatus(req[r].exp), req[r].long)
  /\ UNCHANGED <<now, nextSeq, link, state, redis, deletedAt, promised>>

RetrieveMissRedis(r) ==
  /\ At(r, "getRedis")
  /\ InTime(r)
  /\ redis[req[r].key] = NoEntry
  /\ Goto(r, "getDB")
  /\ resp' = NoResp
  /\ UNCHANGED <<now, nextSeq, link, state, redis, local, deletedAt,
                 promised>>

\* A failure of redis is the request's failure: MySQL is not asked.  So is a
\* failure of MySQL.
RetrieveFails(r) ==
  /\ req[r].pc \in {"getRedis", "getReply", "getDB"}
  /\ CallFails(r)
  /\ Fails(r, "error")
  /\ UNCHANGED <<now, nextSeq, link, state, redis, local, deletedAt,
                 promised>>

\* Mutant: the soft-delete scope is forgotten.
GetByShortIDUnscoped(s) == state[s] \in {"live", "deleted"}

\* The row is visible to gorm's default scope.
GetByShortID(s) == state[s] = "live"

\* MySQL reads the row, expired or not.
RetrieveFromDB(r) ==
  LET s == Base58Decode(req[r].key)
  IN /\ At(r, "getDB")
     /\ InTime(r)
     /\ GetByShortID(s)
     /\ req' = [req EXCEPT ![r].pc = "rowReply", ![r].long = link[s].long,
                           ![r].exp = link[s].exp]
     /\ resp' = NoResp
     /\ UNCHANGED <<now, nextSeq, link, state, redis, local, deletedAt,
                    promised>>

\* There is no such row.
RetrieveNotFound(r) ==
  /\ At(r, "getDB")
  /\ InTime(r)
  /\ ~GetByShortID(Base58Decode(req[r].key))
  /\ Respond(r, "notFound", NoLong)
  /\ UNCHANGED <<now, nextSeq, link, state, redis, local, deletedAt,
                 promised>>

-----------------------------------------------------------------------------
(* queryService.GetByLong: one call to MySQL, the same as Create's lookup.      *)

\* The client is told the code of the row, expired or not.
GetByLong(r, l) ==
  /\ At(r, "idle")
  /\ \E s \in RowsOf(l) :
       /\ state[s] = "live"
       /\ resp' = [NoResp EXCEPT !.op = "info", !.status = "ok",
                                 !.key = Base58Encode(s),
                                 !.long = link[s].long]
       /\ promised' = [promised EXCEPT ![Collate[l]] = @ \cup {s}]
  /\ UNCHANGED <<now, nextSeq, link, state, redis, local, req, deletedAt>>

\* There is no such row, or MySQL fails: both are errors to the client.
GetByLongFails(r, l) ==
  /\ At(r, "idle")
  /\ Faults \/ \A s \in RowsOf(l) : state[s] # "live"
  /\ resp' = [NoResp EXCEPT !.op = "info", !.status = "error"]
  /\ UNCHANGED <<now, nextSeq, link, state, redis, local, req, deletedAt,
                 promised>>

-----------------------------------------------------------------------------
(* commandService.Delete *)

DeleteStart(r, n, k) ==
  /\ At(r, "idle")
  /\ req' = [req EXCEPT ![r] =
               [Idle EXCEPT !.pc = "deleteDB", !.op = "delete", !.node = n,
                            !.key = k, !.start = now]]
  /\ resp' = NoResp
  /\ UNCHANGED <<now, nextSeq, link, state, redis, local, deletedAt,
                 promised>>

\* UPDATE ... SET deleted_at = now WHERE short = ? AND deleted_at IS NULL
SoftDelete(r) ==
  LET s == Base58Decode(req[r].key)
  IN /\ Sent(r)
     /\ state[s] = "live"
     /\ state' = [state EXCEPT ![s] = "deleted"]
     /\ deletedAt' = [deletedAt EXCEPT ![s] = now]

DeleteRow(r) ==
  /\ At(r, "deleteDB")
  /\ InTime(r)
  /\ SoftDelete(r)
  /\ Goto(r, "delRedis")
  /\ resp' = NoResp
  /\ UNCHANGED <<now, nextSeq, link, redis, local, promised>>

\* No row is affected: the caches are left as they are.
DeleteNotFound(r) ==
  /\ At(r, "deleteDB")
  /\ InTime(r)
  /\ state[Base58Decode(req[r].key)] # "live"
  /\ Respond(r, "notFound", NoLong)
  /\ UNCHANGED <<now, nextSeq, link, state, redis, local, deletedAt,
                 promised>>

DeleteRowFails(r) ==
  /\ At(r, "deleteDB")
  /\ CallFails(r)
  /\ SoftDelete(r) \/ UNCHANGED <<state, deletedAt>>
  /\ Fails(r, "error")
  /\ UNCHANGED <<now, nextSeq, link, redis, local, promised>>

\* The effect of the redis DEL: the code as the client wrote it is the key.
DelKey(r) == redis' = [redis EXCEPT ![req[r].key] = NoEntry]

\* After redis only the command service's own local cache is cleared.
DeleteCached(r) ==
  /\ At(r, "delRedis")
  /\ InTime(r)
  /\ DelKey(r)
  /\ Respond(r, "ok", NoLong)
  /\ UNCHANGED <<now, nextSeq, link, state, local, deletedAt, promised>>

\* The reply is lost and the redis client sends the command again.
DeleteCachedAgain(r) ==
  /\ At(r, "delRedis")
  /\ Faults
  /\ InTime(r)
  /\ DelKey(r)
  /\ resp' = NoResp
  /\ UNCHANGED <<now, nextSeq, link, state, local, req, deletedAt, promised>>

\* The row is deleted, but the client gets the error.
DeleteCachedFails(r) ==
  /\ At(r, "delRedis")
  /\ CallFails(r)
  /\ UNCHANGED redis \/ (Sent(r) /\ DelKey(r))
  /\ Fails(r, "error")
  /\ UNCHANGED <<now, nextSeq, link, state, local, deletedAt, promised>>

-----------------------------------------------------------------------------
(* Background *)

Reapable == {s \in Seqs : state[s] \in {"live", "deleted"}
                            /\ link[s].exp # 0 /\ link[s].exp < now}

\* What one DELETE ... LIMIT removes of the rows that match.
Batches(rows) ==
  {S \in SUBSET rows :
     Cardinality(S) = BatchSize \/ (S = rows /\ Cardinality(S) < BatchSize)}

\* Mutant: without Unscoped the janitor overlooks rows marked deleted.
JanitorScoped ==
  /\ \E S \in Batches({s \in Reapable : state[s] = "live"}) \ {{}} :
       state' = [s \in Seqs |-> IF s \in S THEN "reaped" ELSE state[s]]
  /\ resp' = NoResp
  /\ UNCHANGED <<now, nextSeq, link, redis, local, req, deletedAt,
                 promised>>

\* One round of a janitor: DELETE of up to BatchSize expired rows, those marked
\* deleted included.  It leaves the caches alone.
Janitor ==
  /\ \E S \in Batches(Reapable) \ {{}} :
       state' = [s \in Seqs |-> IF s \in S THEN "reaped" ELSE state[s]]
  /\ resp' = NoResp
  /\ UNCHANGED <<now, nextSeq, link, redis, local, req, deletedAt,
                 promised>>

\* A cache may drop an entry at any time, for want of room or by a restart.
EvictRedis(k) ==
  /\ redis[k] # NoEntry
  /\ redis' = [redis EXCEPT ![k] = NoEntry]
  /\ resp' = NoResp
  /\ UNCHANGED <<now, nextSeq, link, state, local, req, deletedAt,
                 promised>>

EvictLocal(n, k) ==
  /\ local[n][k] # NoEntry
  /\ local' = [local EXCEPT ![n][k] = NoEntry]
  /\ resp' = NoResp
  /\ UNCHANGED <<now, nextSeq, link, state, redis, req, deletedAt,
                 promised>>

\* Mutant: an entry outlives its lifetime by a tick.
OutdatedLate(cache, t) ==
  [k \in Keys |-> IF cache[k].until < t THEN NoEntry ELSE cache[k]]

\* A cache without the entries whose lifetime ends by time t.
Outdated(cache, t) ==
  [k \in Keys |-> IF cache[k].until <= t THEN NoEntry ELSE cache[k]]

\* Time passes, and the caches drop what is too old.
Tick ==
  /\ now < MaxTime
  /\ now' = now + 1
  /\ redis' = Outdated(redis, now + 1)
  /\ local' = [n \in Nodes |-> Outdated(local[n], now + 1)]
  /\ resp' = NoResp
  /\ UNCHANGED <<nextSeq, link, state, req, deletedAt, promised>>

-----------------------------------------------------------------------------
ReqStep(r) ==
  \/ CreateNext(r) \/ CreateNextFails(r) \/ CreateInsert(r)
  \/ CreateInsertDup(r) \/ CreateInsertFails(r)
  \/ CreateLookup(r) \/ CreateLookupFails(r)
  \/ RowReply(r) \/ RowReplyExpired(r) \/ RowReplyPanics(r)
  \/ RowReplyFails(r)
  \/ SetRedis(r) \/ SetRedisAgain(r) \/ SetReply(r) \/ SetRedisFails(r)
  \/ RetrieveHitRedis(r) \/ GetReply(r) \/ RetrieveMissRedis(r)
  \/ RetrieveFails(r) \/ RetrieveFromDB(r) \/ RetrieveNotFound(r)
  \/ DeleteRow(r) \/ DeleteNotFound(r) \/ DeleteRowFails(r)
  \/ DeleteCached(r) \/ DeleteCachedAgain(r) \/ DeleteCachedFails(r)

\* A client uses one of Ops, with a code whose number has been drawn.
ReqStart(r) ==
  \/ /\ "create" \in Ops
     /\ \E n \in RWNodes, l \in Longs, ttl \in TTLs : CreateStart(r, n, l, ttl)
  \/ /\ "retrieve" \in Ops
     /\ \E n \in Nodes, k \in Keys :
          /\ Base58Decode(k) < nextSeq
          /\ RetrieveMissLocal(r, n, k) \/ RetrieveHitLocal(r, n, k)
  \/ /\ "info" \in Ops
     /\ \E l \in Longs : GetByLong(r, l) \/ GetByLongFails(r, l)
  \/ /\ "delete" \in Ops
     /\ \E n \in RWNodes, k \in Keys :
          Base58Decode(k) < nextSeq /\ DeleteStart(r, n, k)

Evict ==
  \/ \E k \in Keys : EvictRedis(k)
  \/ \E n \in Nodes, k \in Keys : EvictLocal(n, k)

Next ==
  \/ \E r \in Reqs : ReqStart(r) \/ ReqStep(r)
  \/ Janitor
  \/ Evict
  \/ Tick

Spec == Init /\ [][Next]_vars

\* A request that can take a step takes one (goroutines are scheduled, and calls
\* return or time out); every janitor round is followed by another one, and
\* MySQL does not fail them all.
FairSpec ==
  /\ Spec
  /\ \A r \in Reqs : WF_vars(ReqStep(r))
  /\ WF_vars(Janitor)

-----------------------------------------------------------------------------
(* Properties *)

\* The longest that the calls of a request can take.
CallTime == ReqTimeout + SocketTimeout

\* How long a deleted link can still be served, see DeletedFadesOut: a request
\* that read the row before the deletion writes it to redis, a request that reads
\* the redis entry on its last tick writes it to a local cache, and there it has
\* a lifetime to go.
StaleBound ==
  CallTime + (RedisTTL + Jitter - 1) + CallTime + (LocalTTL - 1)

\* A cache that keeps entries for at most d holds none past its lifetime.
CacheType(cache, d) ==
  \A k \in Keys :
    cache[k] # NoEntry =>
      /\ cache[k].long \in Longs
      /\ cache[k].exp \in Nat
      /\ cache[k].until \in (now + 1) .. (now + d)

TypeOK ==
  /\ now \in Times
  /\ nextSeq \in 1 .. (MaxSeq + 1)
  /\ link \in [Seqs -> [long : Longs \cup {NoLong}, exp : Nat]]
  /\ state \in [Seqs -> {"none", "live", "deleted", "reaped"}]
  /\ CacheType(redis, RedisTTL + Jitter)
  /\ \A n \in Nodes : CacheType(local[n], LocalTTL)
  /\ \A r \in Reqs :
       /\ req[r].pc \in {"idle", "next", "insert", "lookup", "rowReply",
                         "setRedis", "setReply", "getRedis", "getReply", "getDB",
                         "deleteDB", "delRedis"}
       /\ req[r].ttl \in 0 .. RedisTTL
       /\ req[r].start \in 0 .. now
  /\ deletedAt \in [Seqs -> 0 .. MaxTime]
  /\ promised \in [Classes -> SUBSET Seqs]

\* A value cached under a code is the link
\* that code stands for: the same URL up to the collation, the same expiry.
Coherent(k, e) ==
  LET s == Base58Decode(k)
  IN /\ state[s] # "none"
     /\ Collate[e.long] = Collate[link[s].long]
     /\ e.exp = link[s].exp

CacheCoherent ==
  /\ \A k \in Keys : redis[k] # NoEntry => Coherent(k, redis[k])
  /\ \A n \in Nodes, k \in Keys :
       local[n][k] # NoEntry => Coherent(k, local[n][k])

\* A visitor who comes when the link has expired is never sent on, whichever
\* cache answers and however old the entry is ("once expired it is no longer
\* resolvable").  One who comes before may be: Retrieve checks the expiry once,
\* and then waits for redis.
NeverServesExpired ==
  resp.status = "found" =>
    LET exp == link[Base58Decode(resp.key)].exp IN exp = 0 \/ resp.start < exp

\* Two answers of Create or GetByLong for one URL name the same link, unless one
\* of the two has expired and been reaped; and the link named was stored.
SameURLSameLink ==
  \A u \in Classes, s, t \in Seqs :
    s \in promised[u] /\ t \in promised[u] =>
      /\ state[s] # "none"
      /\ Collate[link[s].long] = u
      /\ s = t \/ "reaped" \in {state[s], state[t]}

\* Whatever is cached where, and whether or not the deletion reached the caches,
\* a deleted link stops resolving once two requests, a redis entry and a local
\* entry have had their time.
DeletedFadesOut ==
  resp.status = "found" =>
    LET s == Base58Decode(resp.key)
    IN deletedAt[s] = 0 \/ now <= deletedAt[s] + StaleBound

\* The table is the map, and a response names the number its code stands for.
Map == INSTANCE LinkMap
         WITH Expiries <- {0} \cup {t + ttl : t \in Times, ttl \in TTLs},
              Delay <- ReqTimeout,
              Grace <- StaleBound,
              answer <- [op |-> resp.op, status |-> resp.status,
                         seq |-> Base58Decode(resp.key), long |-> resp.long]

\* Caches, requests in flight, failing calls and lost replies are invisible to
\* the clients, but for errors and for the time a deleted link is still served:
\* every step is a step of the map, and every answer is true of it.
ImplementsLinkMap == Map!MapSpec

\* An expired row does not stay in the table, even if it was deleted by a client
\* before and whatever share of the batches other rows take.
ExpiredReaped == \A s \in Seqs : s \in Reapable ~> state[s] = "reaped"

\* No request hangs in the service: each is answered, by a result or an error.
RequestsAnswered == \A r \in Reqs : ~At(r, "idle") ~> At(r, "idle")

\* "a short link can be deleted, after which it is no longer resolvable"
\* (README.md:136): a visitor who comes later than the deletion is not sent on.
\* The run has one request at a time, so that the deletion has been answered.
DeletedNotServed ==
  resp.status = "found" =>
    LET s == Base58Decode(resp.key)
    IN deletedAt[s] = 0 \/ resp.start <= deletedAt[s]

\* "given a long URL, produce a unique short URL" (README.md:129): while MySQL
\* and redis work and there are numbers left, Create does not fail.
CreateSucceeds ==
  resp.op = "create" /\ ~Faults /\ nextSeq \in Seqs => resp.status # "error"

=============================================================================
