----------------------------- MODULE LinkProofs -----------------------------
(***************************************************************************)
(* Proofs about LinkService, for any processes, requests, URLs, numbers,   *)
(* aliases and lifetimes.                                                  *)
(*                                                                         *)
(* That a cache entry is its link's, and how old it can be, is decided by  *)
(* the request that wrote it; what the request carries, by the row as it   *)
(* was when it was read.  Sound says what a request carries at each call   *)
(* it makes, Kept what an entry holds and until when, Table and Drawn what *)
(* makes a row the only one of its number and of its URL.  These parts are *)
(* inductive together.  The answers are true of the map by then (Truthful, *)
(* of module LinkMap), and what is promised to visitors follows.           *)
(***************************************************************************)
EXTENDS LinkService, TLAPS

-----------------------------------------------------------------------------
(* The inductive invariant *)

Entries == [long : Longs \cup {NoLong}, exp : Nat, until : Nat]

Requests ==
  [pc : {"idle", "next", "insert", "lookup", "rowReply", "setRedis", "setReply",
         "getRedis", "getReply", "getDB", "deleteDB", "delRedis"},
   op : {"none", "create", "retrieve", "delete"},
   node : Nodes \cup {"none"}, key : Keys, long : Longs \cup {NoLong},
   exp : Nat, ttl : Nat, start : Nat]

Typed ==
  /\ now \in Times
  /\ nextSeq \in 1 .. (MaxSeq + 1)
  /\ link \in [Seqs -> [long : Longs \cup {NoLong}, exp : Nat]]
  /\ state \in [Seqs -> {"none", "live", "deleted", "reaped"}]
  /\ redis \in [Keys -> Entries]
  /\ local \in [Nodes -> [Keys -> Entries]]
  /\ req \in [Reqs -> Requests]
  /\ deletedAt \in [Seqs -> 0 .. MaxTime]
  /\ promised \in [Classes -> SUBSET Seqs]

\* The expiries that Create computes.
LinkExpiries == {0} \cup {t + ttl : t \in Times, ttl \in TTLs}

\* The rows: each holds a URL, no two that are present hold the same one, and
\* a row that is live has not been deleted before.
Table ==
  /\ \A s \in Seqs : state[s] # "none" => link[s].long \in Longs
  /\ \A s, t \in Seqs :
       /\ state[s] \in {"live", "deleted"} /\ state[t] \in {"live", "deleted"}
       /\ Collate[link[s].long] = Collate[link[t].long]
       => s = t
  /\ \A s \in Seqs : state[s] \in {"none", "live"} => deletedAt[s] = 0

\* A number that was not drawn, or whose row is about to be inserted, has no row,
\* and one request only has drawn it.
Drawn ==
  /\ \A s \in Seqs : s >= nextSeq => state[s] = "none"
  /\ \A r \in Reqs : req[r].pc = "insert" =>
       /\ Base58Decode(req[r].key) < nextSeq
       /\ state[Base58Decode(req[r].key)] = "none"
  /\ \A r, q \in Reqs :
       /\ req[r].pc = "insert" /\ req[q].pc = "insert"
       /\ Base58Decode(req[r].key) = Base58Decode(req[q].key)
       => r = q

RedisBound == CallTime + RedisTTL + Jitter
LocalBound == RedisBound - 1 + CallTime + LocalTTL

\* The deletion of the link of key k, if there was one, was at time t or later.
NotDeletedBefore(k, t) ==
  LET d == deletedAt[Base58Decode(k)] IN d = 0 \/ t <= d

\* What request v carries, by what it does next.  A request that is to fill the
\* caches carries the link of its key as it is in the table.  If it read the row,
\* the link had not been deleted when the request started; if it read redis, the
\* entry was not past its time.  A visitor who will be sent on without another
\* look at the expiry came before it.
Sound(v) ==
  /\ v.start <= now /\ v.ttl <= RedisTTL
  /\ v.pc # "idle" => v.node \in Nodes
  /\ v.pc = "next" => v.op = "create" /\ v.long \in Longs /\ v.exp \in TTLs
  /\ v.pc = "insert" =>
       v.op = "create" /\ v.long \in Longs /\ v.exp \in LinkExpiries
  /\ v.pc = "lookup" => v.op = "create" /\ v.long \in Longs
  /\ v.pc \in {"rowReply", "setRedis", "setReply"} =>
       /\ v.op \in {"create", "retrieve"} /\ v.long \in Longs
       /\ Coherent(v.key, v) /\ NotDeletedBefore(v.key, v.start)
  /\ v.pc \in {"setRedis", "setReply"} =>
       /\ v.ttl >= 1
       /\ v.op = "retrieve" => v.exp = 0 \/ v.start < v.exp
  /\ v.pc = "getReply" =>
       /\ v.op = "retrieve" /\ v.long \in Longs
       /\ Coherent(v.key, v) /\ NotDeletedBefore(v.key, v.start - (RedisBound - 1))
  /\ v.pc \in {"getRedis", "getDB"} => v.op = "retrieve"
  /\ v.pc = "deleteDB" => v.op = "delete"
  /\ v.pc = "delRedis" =>
       v.op = "delete" /\ state[Base58Decode(v.key)] \in {"deleted", "reaped"}

\* Entry e of a cache with lifetime d is the link of its key k, and goes at the
\* latest b after the link's deletion.
Kept(k, e, d, b) ==
  e # NoEntry =>
    /\ e.long \in Longs /\ e.until \in (now + 1) .. (now + d)
    /\ Coherent(k, e)
    /\ NotDeletedBefore(k, e.until - b)

RedisOK == \A k \in Keys : Kept(k, redis[k], RedisTTL + Jitter, RedisBound)
LocalOK ==
  \A n \in Nodes, k \in Keys : Kept(k, local[n][k], LocalTTL, LocalBound)

PromisesOK ==
  \A u \in Classes, s \in Seqs :
    s \in promised[u] => state[s] # "none" /\ Collate[link[s].long] = u

\* The response as the map sees it, and that it is true and no late redirect.
Response == [op |-> resp.op, status |-> resp.status,
             seq |-> Base58Decode(resp.key), long |-> resp.long]
TrueResponse == Map!Truthful(Response) /\ NeverServesExpired

LinkInv ==
  /\ Typed /\ Table /\ Drawn
  /\ \A r \in Reqs : Sound(req[r])
  /\ RedisOK /\ LocalOK
  /\ PromisesOK

-----------------------------------------------------------------------------
(* Facts about the data *)

USE CodesAssumption, TimesAssumption

LEMMA KeyFacts ==
  /\ \A k \in Keys : Base58Decode(k) \in Seqs
  /\ \A s \in Seqs : Base58Encode(s) \in Keys /\ Base58Decode(Base58Encode(s)) = s
  /\ 1 \in Seqs
BY DEF Keys, Seqs, Base58Decode, Base58Encode

LEMMA IdleFacts == Idle \in Requests /\ Idle.pc = "idle"
BY KeyFacts DEF Idle, Requests

LEMMA EntryFacts ==
  /\ NoEntry \in Entries
  /\ \A l \in Longs, x, u \in Nat :
       /\ [long |-> l, exp |-> x, until |-> u] \in Entries
       /\ [long |-> l, exp |-> x, until |-> u] # NoEntry
BY DEF NoEntry, Entries

LEMMA ClassFacts == \A l \in Longs : Collate[l] \in Classes
BY DEF Classes

\* What Typed says of single values.
LEMMA TypedFacts ==
  ASSUME Typed
  PROVE  /\ now \in Nat /\ now >= 1 /\ now <= MaxTime
         /\ \A s \in Seqs : /\ link[s].exp \in Nat
                            /\ link[s].long \in Longs \cup {NoLong}
                            /\ deletedAt[s] \in Nat
                            /\ state[s] \in {"none", "live", "deleted", "reaped"}
         /\ \A r \in Reqs : /\ req[r] \in Requests /\ req[r].key \in Keys
                            /\ req[r].exp \in Nat /\ req[r].start \in Nat
                            /\ req[r].ttl \in Nat
                            /\ Base58Decode(req[r].key) \in Seqs
BY KeyFacts DEF Typed, Times, Requests

-----------------------------------------------------------------------------
(* The table changes as the map does *)

TableStep ==
  \/ UNCHANGED <<now, link, state, deletedAt>>
  \/ Map!Pass
  \/ \E s \in Seqs : Map!Remove(s)
  \/ \E S \in SUBSET Seqs : Map!Reap(S)
  \/ \E s \in Seqs, l \in Longs, exp \in LinkExpiries : Map!Shorten(s, l, exp)

\* A row once stored keeps its link and is never forgotten, a deleted one does
\* not come back, and a deletion is dated by the clock.
Monotone ==
  /\ now' \in {now, now + 1}
  /\ \A s \in Seqs :
       /\ state[s] # "none" => state'[s] # "none" /\ link'[s] = link[s]
       /\ state[s] \in {"deleted", "reaped"} => state'[s] \in {"deleted", "reaped"}
       /\ deletedAt'[s] = deletedAt[s] \/ deletedAt'[s] = now'

LEMMA TableMonotone ==
  ASSUME Typed, TableStep
  PROVE  Monotone
<1>1. CASE UNCHANGED <<now, link, state, deletedAt>>
  BY <1>1 DEF Monotone
<1>2. CASE Map!Pass
  BY <1>2 DEF Map!Pass, Monotone
<1>3. ASSUME NEW s \in Seqs, Map!Remove(s)
      PROVE  Monotone
  BY <1>3 DEF Map!Remove, Monotone, Typed
<1>4. ASSUME NEW S \in SUBSET Seqs, Map!Reap(S)
      PROVE  Monotone
  BY <1>4 DEF Map!Reap, Map!Seqs, Map!Present, Monotone, Typed, Seqs
<1>5. ASSUME NEW s \in Seqs, NEW l \in Longs, NEW x \in LinkExpiries,
             Map!Shorten(s, l, x)
      PROVE  Monotone
  BY <1>5 DEF Map!Shorten, Monotone, Typed
<1> QED
  BY <1>1, <1>2, <1>3, <1>4, <1>5 DEF TableStep

LEMMA ExpiriesNatural == LinkExpiries \subseteq Nat
BY DEF LinkExpiries, Times

\* Table is an invariant of the map alone.
LEMMA TableKept ==
  ASSUME Typed, Table, TableStep
  PROVE  Table'
<1>0. now \in Nat
  BY TypedFacts
<1>1. CASE UNCHANGED <<now, link, state, deletedAt>>
  BY <1>1 DEF Table
<1>2. CASE Map!Pass
  BY <1>0, <1>2, TypedFacts DEF Map!Pass, Table
<1>3. ASSUME NEW s \in Seqs, Map!Remove(s)
      PROVE  Table'
  BY <1>3 DEF Map!Remove, Table, Typed
<1>4. ASSUME NEW S \in SUBSET Seqs, Map!Reap(S)
      PROVE  Table'
  BY <1>4 DEF Map!Reap, Map!Seqs, Map!Present, Table, Typed, Seqs
<1>5. ASSUME NEW s \in Seqs, NEW l \in Longs, NEW x \in LinkExpiries,
             Map!Shorten(s, l, x)
      PROVE  Table'
  BY <1>5, ExpiriesNatural
     DEF Map!Shorten, Map!Seqs, Map!Present, Map!Same, Table, Typed, Seqs
<1> QED
  BY <1>1, <1>2, <1>3, <1>4, <1>5 DEF TableStep

-----------------------------------------------------------------------------
(* What survives a step of the table *)

LEMMA BoundFacts ==
  /\ CallTime \in Nat /\ RedisTTL + Jitter \in Nat
  /\ RedisBound \in Nat \ {0} /\ LocalBound \in Nat
  /\ CallTime + RedisTTL + Jitter = RedisBound
  /\ RedisTTL + Jitter <= RedisBound /\ LocalTTL <= LocalBound
  /\ LocalTTL \in Nat /\ RedisBound - 1 + CallTime <= LocalBound - LocalTTL
  /\ StaleBound = LocalBound - 1
BY DEF CallTime, RedisBound, LocalBound, StaleBound

\* A time that is not to come stays before every deletion still to come.
LEMMA NotDeletedKept ==
  ASSUME Typed, Monotone, NEW k \in Keys, NEW t \in Int, t <= now',
         NotDeletedBefore(k, t)
  PROVE  NotDeletedBefore(k, t)'
<1>1. Base58Decode(k) \in Seqs
  BY KeyFacts
<1> QED
  BY <1>1 DEF NotDeletedBefore, Monotone, Base58Decode

\* A request goes on carrying what it should, whatever happens to the table.
LEMMA SoundKept ==
  ASSUME Typed, Monotone, NEW v \in Requests, Sound(v)
  PROVE  Sound(v)'
<1>1. now \in Nat /\ now' >= now /\ now' \in Nat
  BY TypedFacts DEF Monotone
<1>2. v.key \in Keys /\ Base58Decode(v.key) \in Seqs /\ v.start \in Nat
  BY KeyFacts DEF Requests
<1>3. v.start <= now' /\ v.start <= now
  BY <1>1, <1>2 DEF Sound
<1>4. v.pc \in {"rowReply", "setRedis", "setReply"} =>
        Coherent(v.key, v)' /\ NotDeletedBefore(v.key, v.start)'
  <2>1. SUFFICES ASSUME v.pc \in {"rowReply", "setRedis", "setReply"}
                 PROVE  Coherent(v.key, v)' /\ NotDeletedBefore(v.key, v.start)'
    OBVIOUS
  <2>2. Coherent(v.key, v) /\ NotDeletedBefore(v.key, v.start)
    BY <2>1 DEF Sound
  <2>3. Coherent(v.key, v)'
    BY <1>2, <2>2 DEF Coherent, Monotone, Base58Decode
  <2> QED
    BY <1>2, <1>3, <2>2, <2>3, NotDeletedKept
<1>5. v.pc = "getReply" =>
        Coherent(v.key, v)' /\ NotDeletedBefore(v.key, v.start - (RedisBound - 1))'
  <2>1. SUFFICES ASSUME v.pc = "getReply"
                 PROVE  /\ Coherent(v.key, v)'
                        /\ NotDeletedBefore(v.key, v.start - (RedisBound - 1))'
    OBVIOUS
  <2>2. /\ Coherent(v.key, v)
        /\ NotDeletedBefore(v.key, v.start - (RedisBound - 1))
    BY <2>1 DEF Sound
  <2>3. Coherent(v.key, v)'
    BY <1>2, <2>2 DEF Coherent, Monotone, Base58Decode
  <2>4. PICK t \in Int : t = v.start - (RedisBound - 1) /\ t <= now'
    BY <1>1, <1>2, <1>3, BoundFacts
  <2>5. NotDeletedBefore(v.key, t)'
    BY <1>2, <2>2, <2>4, NotDeletedKept
  <2> QED
    BY <2>3, <2>4, <2>5 DEF NotDeletedBefore, RedisBound, CallTime
<1>6. v.pc = "delRedis" => state'[Base58Decode(v.key)] \in {"deleted", "reaped"}
  BY <1>2 DEF Sound, Monotone
<1> QED
  BY <1>3, <1>4, <1>5, <1>6
     DEF Sound, Nodes, LinkExpiries, Times, Base58Decode

\* An entry that is not dropped stays what it should be.
LEMMA EntryKept ==
  ASSUME Typed, Monotone, NEW k \in Keys, NEW e \in Entries,
         NEW d \in Nat, NEW b \in Nat, d <= b,
         Kept(k, e, d, b), e = NoEntry \/ e.until > now'
  PROVE  Kept(k, e, d, b)'
<1> SUFFICES ASSUME e # NoEntry
             PROVE  Kept(k, e, d, b)'
  BY DEF Kept, NoEntry
<1>1. now \in Nat /\ now' >= now /\ now' \in Nat /\ e.until \in Nat
  BY TypedFacts DEF Monotone, Entries
<1>2. Base58Decode(k) \in Seqs
  BY KeyFacts
<1>3. e.long \in Longs /\ e.until \in (now' + 1) .. (now' + d)
  BY <1>1 DEF Kept
<1>4. Coherent(k, e)'
  BY <1>2 DEF Kept, Coherent, Monotone, Base58Decode
<1>5. PICK t \in Int : t = e.until - b /\ t <= now'
  BY <1>1, <1>3
<1>6. NotDeletedBefore(k, t)'
  BY <1>5, NotDeletedKept DEF Kept
<1> QED
  BY <1>3, <1>4, <1>5, <1>6 DEF Kept, Base58Decode, NotDeletedBefore

\* redis keeps its promise if one key is set to a proper value or dropped.
LEMMA RedisPut ==
  ASSUME Typed, RedisOK, Monotone, now' = now, NEW k \in Keys, NEW e \in Entries,
         redis' = [redis EXCEPT ![k] = e],
         Kept(k, e, RedisTTL + Jitter, RedisBound)'
  PROVE  RedisOK' /\ redis' \in [Keys -> Entries]
<1>1. redis' \in [Keys -> Entries]
  BY DEF Typed
<1> SUFFICES ASSUME NEW j \in Keys
             PROVE  Kept(j, redis[j], RedisTTL + Jitter, RedisBound)'
  BY <1>1 DEF RedisOK
<1>2. CASE j = k
  BY <1>2 DEF Typed, Kept, Coherent, NotDeletedBefore
<1>3. CASE j # k
  <2>1. PICK f \in Entries : f = redis[j] /\ redis'[j] = f
    BY <1>3 DEF Typed
  <2>2. Kept(j, f, RedisTTL + Jitter, RedisBound)
    BY <2>1 DEF RedisOK
  <2>3. f = NoEntry \/ f.until > now'
    BY <2>1, <2>2, TypedFacts DEF Kept, Entries
  <2>4. Kept(j, f, RedisTTL + Jitter, RedisBound)'
    BY <2>2, <2>3, BoundFacts, EntryKept
  <2> QED
    BY <2>1, <2>4 DEF Kept, Coherent, NotDeletedBefore
<1> QED
  BY <1>2, <1>3

LEMMA RedisSame ==
  ASSUME Typed, RedisOK, Monotone, UNCHANGED <<now, redis>>
  PROVE  RedisOK'
<1> SUFFICES ASSUME NEW j \in Keys
             PROVE  Kept(j, redis[j], RedisTTL + Jitter, RedisBound)'
  BY DEF RedisOK
<1>1. PICK f \in Entries : f = redis[j] /\ redis'[j] = f
  BY DEF Typed
<1>2. Kept(j, f, RedisTTL + Jitter, RedisBound)
  BY <1>1 DEF RedisOK
<1>3. f = NoEntry \/ f.until > now'
  BY <1>1, <1>2, TypedFacts DEF Kept, Entries
<1>4. Kept(j, f, RedisTTL + Jitter, RedisBound)'
  BY <1>2, <1>3, BoundFacts, EntryKept
<1> QED
  BY <1>1, <1>4 DEF Kept, Coherent, NotDeletedBefore

\* The same for a local cache.
LEMMA LocalPut ==
  ASSUME Typed, LocalOK, Monotone, now' = now, NEW n \in Nodes, NEW k \in Keys,
         NEW e \in Entries, local' = [local EXCEPT ![n][k] = e],
         Kept(k, e, LocalTTL, LocalBound)'
  PROVE  LocalOK' /\ local' \in [Nodes -> [Keys -> Entries]]
<1>1. local' \in [Nodes -> [Keys -> Entries]]
  BY DEF Typed
<1> SUFFICES ASSUME NEW m \in Nodes, NEW j \in Keys
             PROVE  Kept(j, local[m][j], LocalTTL, LocalBound)'
  BY <1>1 DEF LocalOK, Nodes
<1>2. CASE m = n /\ j = k
  <2>1. local'[m][j] = e
    BY <1>2 DEF Typed
  <2> QED
    BY <1>2, <2>1 DEF Kept, Coherent, NotDeletedBefore
<1>3. CASE ~(m = n /\ j = k)
  <2>1. PICK f \in Entries : f = local[m][j] /\ local'[m][j] = f
    BY <1>3 DEF Typed
  <2>2. Kept(j, f, LocalTTL, LocalBound)
    BY <2>1 DEF LocalOK
  <2>3. f = NoEntry \/ f.until > now'
    BY <2>1, <2>2, TypedFacts DEF Kept, Entries
  <2>4. Kept(j, f, LocalTTL, LocalBound)'
    BY <2>2, <2>3, BoundFacts, EntryKept
  <2> QED
    BY <2>1, <2>4 DEF Kept, Coherent, NotDeletedBefore
<1> QED
  BY <1>2, <1>3

LEMMA LocalSame ==
  ASSUME Typed, LocalOK, Monotone, UNCHANGED <<now, local>>
  PROVE  LocalOK'
<1> SUFFICES ASSUME NEW m \in Nodes, NEW j \in Keys
             PROVE  Kept(j, local[m][j], LocalTTL, LocalBound)'
  BY DEF LocalOK, Nodes
<1>1. PICK f \in Entries : f = local[m][j] /\ local'[m][j] = f
  BY DEF Typed
<1>2. Kept(j, f, LocalTTL, LocalBound)
  BY <1>1 DEF LocalOK
<1>3. f = NoEntry \/ f.until > now'
  BY <1>1, <1>2, TypedFacts DEF Kept, Entries
<1>4. Kept(j, f, LocalTTL, LocalBound)'
  BY <1>2, <1>3, BoundFacts, EntryKept
<1> QED
  BY <1>1, <1>4 DEF Kept, Coherent, NotDeletedBefore

LEMMA PromisesKept ==
  ASSUME Typed, PromisesOK, Monotone, UNCHANGED promised
  PROVE  PromisesOK'
BY DEF PromisesOK, Monotone, Typed, Classes

\* One request moves to v, the others stay as they are.
LEMMA ReqMoves ==
  ASSUME Typed, Monotone, \A q \in Reqs : Sound(req[q]),
         NEW r \in Reqs, NEW v \in Requests, req' = [req EXCEPT ![r] = v], Sound(v)'
  PROVE  req' \in [Reqs -> Requests] /\ \A q \in Reqs : Sound(req[q])'
<1>1. req' \in [Reqs -> Requests]
  BY DEF Typed
<1>2. ASSUME NEW q \in Reqs
      PROVE  Sound(req[q])'
  <2>1. CASE q = r
    <3>1. req'[q] = v
      BY <2>1 DEF Typed
    <3> QED
      BY <3>1 DEF Sound, Coherent, NotDeletedBefore
  <2>2. CASE q # r
    <3>1. PICK w \in Requests : w = req[q] /\ req'[q] = w
      BY <2>2 DEF Typed
    <3>2. Sound(w)'
      BY <3>1, SoundKept
    <3> QED
      BY <3>1, <3>2 DEF Sound, Coherent, NotDeletedBefore
  <2> QED
    BY <2>1, <2>2
<1> QED
  BY <1>1, <1>2

LEMMA ReqSame ==
  ASSUME Typed, Monotone, \A q \in Reqs : Sound(req[q]), UNCHANGED req
  PROVE  \A q \in Reqs : Sound(req[q])'
<1> TAKE q \in Reqs
<1>1. PICK w \in Requests : w = req[q] /\ req'[q] = w
  BY DEF Typed
<1>2. Sound(w)'
  BY <1>1, SoundKept
<1> QED
  BY <1>1, <1>2 DEF Sound, Coherent, NotDeletedBefore

\* The table keeps its type.
LEMMA TableTyped ==
  ASSUME Typed, TableStep, now' \in Times
  PROVE  /\ link' \in [Seqs -> [long : Longs \cup {NoLong}, exp : Nat]]
         /\ state' \in [Seqs -> {"none", "live", "deleted", "reaped"}]
         /\ deletedAt' \in [Seqs -> 0 .. MaxTime]
<1>1. CASE UNCHANGED <<now, link, state, deletedAt>>
  BY <1>1 DEF Typed
<1>2. CASE Map!Pass
  BY <1>2 DEF Map!Pass, Typed
<1>3. ASSUME NEW s \in Seqs, Map!Remove(s)
      PROVE  /\ link' \in [Seqs -> [long : Longs \cup {NoLong}, exp : Nat]]
             /\ state' \in [Seqs -> {"none", "live", "deleted", "reaped"}]
             /\ deletedAt' \in [Seqs -> 0 .. MaxTime]
  BY <1>3, TypedFacts DEF Map!Remove, Typed
<1>4. ASSUME NEW S \in SUBSET Seqs, Map!Reap(S)
      PROVE  /\ link' \in [Seqs -> [long : Longs \cup {NoLong}, exp : Nat]]
             /\ state' \in [Seqs -> {"none", "live", "deleted", "reaped"}]
             /\ deletedAt' \in [Seqs -> 0 .. MaxTime]
  BY <1>4 DEF Map!Reap, Map!Seqs, Seqs, Typed
<1>5. ASSUME NEW s \in Seqs, NEW l \in Longs, NEW x \in LinkExpiries,
             Map!Shorten(s, l, x)
      PROVE  /\ link' \in [Seqs -> [long : Longs \cup {NoLong}, exp : Nat]]
             /\ state' \in [Seqs -> {"none", "live", "deleted", "reaped"}]
             /\ deletedAt' \in [Seqs -> 0 .. MaxTime]
  BY <1>5, ExpiriesNatural DEF Map!Shorten, Typed
<1> QED
  BY <1>1, <1>2, <1>3, <1>4, <1>5 DEF TableStep

\* No request gets to its INSERT, and numbers without a row stay so.
LEMMA DrawnKept ==
  ASSUME Typed, Drawn, UNCHANGED nextSeq,
         \A s \in Seqs : state[s] = "none" => state'[s] = "none",
         \A q \in Reqs : req'[q].pc = "insert" => req'[q] = req[q]
  PROVE  Drawn'
BY TypedFacts DEF Drawn, Base58Decode

-----------------------------------------------------------------------------
(* Steps of a request that change nothing but the request *)

LEMMA QuietStep ==
  ASSUME LinkInv,
         UNCHANGED <<now, nextSeq, link, state, redis, local, deletedAt, promised>>,
         NEW r \in Reqs, NEW v \in Requests, req' = [req EXCEPT ![r] = v],
         v.pc # "insert", Sound(v)
  PROVE  LinkInv' /\ TableStep
<1>1. TableStep
  BY DEF TableStep
<1>2. Typed /\ Monotone
  BY <1>1, TableMonotone DEF LinkInv
<1>3. Sound(v)'
  BY <1>2, SoundKept
<1>4. req' \in [Reqs -> Requests] /\ \A q \in Reqs : Sound(req[q])'
  BY <1>2, <1>3, ReqMoves DEF LinkInv
<1>5. Typed'
  BY <1>4 DEF LinkInv, Typed, Classes, Nodes
<1>6. Drawn'
  <2>1. \A q \in Reqs : req'[q].pc = "insert" => req'[q] = req[q]
    BY <1>2 DEF Typed
  <2> QED
    BY <1>2, <2>1, DrawnKept DEF LinkInv
<1>7. Table'
  BY <1>1, <1>2, TableKept DEF LinkInv
<1>8. RedisOK' /\ LocalOK' /\ PromisesOK'
  BY <1>2, RedisSame, LocalSame, PromisesKept DEF LinkInv
<1> QED
  BY <1>1, <1>4, <1>5, <1>6, <1>7, <1>8 DEF LinkInv

\* What every step of the service leads to.
Outcome == LinkInv' /\ TableStep /\ TrueResponse'

\* A response that names no link is true.
LEMMA SilentResponse ==
  ASSUME resp'.status \in {"none", "error", "timeout", "panic"}
  PROVE  TrueResponse'
BY DEF TrueResponse, Response, Map!Truthful, Map!Silent, NeverServesExpired

LEMMA NoResponse ==
  ASSUME resp' = NoResp
  PROVE  TrueResponse'
BY SilentResponse DEF NoResp

\* A request that fails frees its slot and names no link.
LEMMA FailFacts ==
  ASSUME NEW r \in Reqs, NEW st \in {"error", "panic"}, Fails(r, st)
  PROVE  req' = [req EXCEPT ![r] = Idle] /\ TrueResponse'
<1>1. resp'.status \in {"none", "error", "timeout", "panic"}
  BY DEF Fails, NoResp
<1> QED
  BY <1>1, SilentResponse DEF Fails

\* A request that is answered frees its slot, and past its deadline names no link.
LEMMA RespondFacts ==
  ASSUME NEW r \in Reqs, NEW st, NEW l, Respond(r, st, l)
  PROVE  /\ req' = [req EXCEPT ![r] = Idle]
         /\ ~InTime(r) => TrueResponse'
         /\ InTime(r) => /\ resp'.op = req[r].op /\ resp'.status = st
                         /\ resp'.key = req[r].key /\ resp'.long = l
                         /\ resp'.start = req[r].start
<1>1. ~InTime(r) => resp'.status = "timeout"
  BY DEF Respond, NoResp
<1>2. ~InTime(r) => TrueResponse'
  BY <1>1, SilentResponse
<1>3. InTime(r) => /\ resp'.op = req[r].op /\ resp'.status = st
                   /\ resp'.key = req[r].key /\ resp'.long = l
                   /\ resp'.start = req[r].start
  BY DEF Respond
<1> QED
  BY <1>2, <1>3 DEF Respond

LEMMA IdleSound ==
  ASSUME Typed
  PROVE  Sound(Idle)
BY TypedFacts DEF Sound, Idle

\* A step that only frees the slot.
LEMMA SlotFreed ==
  ASSUME LinkInv, NEW r \in Reqs, req' = [req EXCEPT ![r] = Idle],
         UNCHANGED <<now, nextSeq, link, state, redis, local, deletedAt, promised>>
  PROVE  LinkInv' /\ TableStep
BY QuietStep, IdleFacts, IdleSound DEF LinkInv

\* The steps that fail without an effect.
LEMMA FailingSteps ==
  ASSUME LinkInv, NEW r \in Reqs,
         \/ CreateNextFails(r) \/ CreateInsertFails(r) \/ CreateLookupFails(r)
         \/ RowReplyPanics(r) \/ RowReplyFails(r) \/ RetrieveFails(r)
  PROVE  Outcome
<1>1. PICK st \in {"error", "panic"} :
        /\ Fails(r, st)
        /\ UNCHANGED <<now, nextSeq, link, state, redis, local, deletedAt, promised>>
  BY DEF CreateNextFails, CreateInsertFails, CreateLookupFails, RowReplyPanics,
         RowReplyFails, RetrieveFails
<1>2. req' = [req EXCEPT ![r] = Idle] /\ TrueResponse'
  BY <1>1, FailFacts
<1> QED
  BY <1>1, <1>2, SlotFreed DEF Outcome

\* The beginnings of the requests that need a call.
LEMMA StartSteps ==
  ASSUME LinkInv, NEW r \in Reqs, NEW n \in Nodes,
         \/ \E l \in Longs, ttl \in TTLs : CreateStart(r, n, l, ttl)
         \/ \E k \in Keys : RetrieveMissLocal(r, n, k) \/ DeleteStart(r, n, k)
  PROVE  Outcome
<1>0. now \in Nat
  BY TypedFacts DEF LinkInv
<1>1. ASSUME NEW l \in Longs, NEW ttl \in TTLs, CreateStart(r, n, l, ttl)
      PROVE  Outcome
  <2> DEFINE w == [Idle EXCEPT !.pc = "next", !.op = "create", !.node = n,
                              !.long = l, !.exp = ttl, !.start = now]
  <2>0. /\ w \in Requests /\ w.pc = "next" /\ w.op = "create" /\ w.node = n
        /\ w.long = l /\ w.exp = ttl /\ w.start = now /\ w.ttl = 0
    BY <1>0, KeyFacts DEF Requests, Idle
  <2>1. PICK v \in Requests : v = w /\ req' = [req EXCEPT ![r] = v]
    BY <1>1, <2>0 DEF CreateStart
  <2>2. Sound(v) /\ v.pc # "insert"
    <3> HIDE DEF w
    <3> QED
      BY <1>0, <2>0, <2>1 DEF Sound
  <2> QED
    BY <1>1, <2>1, <2>2, QuietStep, NoResponse DEF CreateStart, Outcome
<1>2. ASSUME NEW k \in Keys, RetrieveMissLocal(r, n, k)
      PROVE  Outcome
  <2> DEFINE w == Retrieving(n, k)
  <2>0. /\ w \in Requests /\ w.pc = "getRedis" /\ w.op = "retrieve"
        /\ w.node = n /\ w.start = now /\ w.ttl = 0
    BY <1>0, KeyFacts DEF Retrieving, Requests, Idle
  <2>1. PICK v \in Requests : v = w /\ req' = [req EXCEPT ![r] = v]
    BY <1>2, <2>0 DEF RetrieveMissLocal
  <2>2. Sound(v) /\ v.pc # "insert"
    <3> HIDE DEF w
    <3> QED
      BY <1>0, <2>0, <2>1 DEF Sound
  <2> QED
    BY <1>2, <2>1, <2>2, QuietStep, NoResponse DEF RetrieveMissLocal, Outcome
<1>3. ASSUME NEW k \in Keys, DeleteStart(r, n, k)
      PROVE  Outcome
  <2> DEFINE w == [Idle EXCEPT !.pc = "deleteDB", !.op = "delete", !.node = n,
                              !.key = k, !.start = now]
  <2>0. /\ w \in Requests /\ w.pc = "deleteDB" /\ w.op = "delete"
        /\ w.node = n /\ w.start = now /\ w.ttl = 0
    BY <1>0, KeyFacts DEF Requests, Idle
  <2>1. PICK v \in Requests : v = w /\ req' = [req EXCEPT ![r] = v]
    BY <1>3, <2>0 DEF DeleteStart
  <2>2. Sound(v) /\ v.pc # "insert"
    <3> HIDE DEF w
    <3> QED
      BY <1>0, <2>0, <2>1 DEF Sound
  <2> QED
    BY <1>3, <2>1, <2>2, QuietStep, NoResponse DEF DeleteStart, Outcome
<1> QED
  BY <1>1, <1>2, <1>3

\* A request moves on to its next call and nothing else happens.
LEMMA MovingSteps ==
  ASSUME LinkInv, NEW r \in Reqs,
         \/ CreateInsertDup(r) \/ CreateLookup(r) \/ RetrieveMissRedis(r)
         \/ RetrieveFromDB(r) \/ SetRedisAgain(r)
  PROVE  Outcome
<1>0. /\ Typed /\ Table /\ Sound(req[r]) /\ req[r] \in Requests
      /\ req[r].key \in Keys /\ req[r].start \in Nat /\ now \in Nat
      /\ Base58Decode(req[r].key) \in Seqs
  BY TypedFacts DEF LinkInv
<1>1. CASE CreateInsertDup(r)
  <2> DEFINE w == [req[r] EXCEPT !.pc = "lookup"]
  <2>0. /\ req[r].pc = "insert" /\ w \in Requests
        /\ w.pc = "lookup" /\ w.op = req[r].op /\ w.node = req[r].node
        /\ w.long = req[r].long /\ w.start = req[r].start /\ w.ttl = req[r].ttl
    BY <1>0, <1>1 DEF CreateInsertDup, At, Requests
  <2>1. PICK v \in Requests : v = w /\ req' = [req EXCEPT ![r] = v]
    BY <1>0, <1>1, <2>0 DEF CreateInsertDup, Goto
  <2>2. Sound(v) /\ v.pc # "insert"
    <3> HIDE DEF w
    <3> QED
      BY <1>0, <2>0, <2>1 DEF Sound
  <2> QED
    BY <1>1, <2>1, <2>2, QuietStep, NoResponse DEF CreateInsertDup, Outcome
<1>2. CASE CreateLookup(r)
  <2>1. PICK s \in RowsOf(req[r].long) :
          /\ state[s] = "live"
          /\ req' = [req EXCEPT ![r].pc = "rowReply", ![r].key = Base58Encode(s),
                                ![r].exp = link[s].exp]
    BY <1>2 DEF CreateLookup
  <2>2. /\ s \in Seqs /\ Collate[link[s].long] = Collate[req[r].long]
        /\ link[s].exp \in Nat /\ Base58Encode(s) \in Keys
        /\ Base58Decode(Base58Encode(s)) = s /\ deletedAt[s] = 0
    BY <1>0, <2>1, TypedFacts, KeyFacts DEF RowsOf, Table
  <2> DEFINE w == [req[r] EXCEPT !.pc = "rowReply", !.key = Base58Encode(s),
                                !.exp = link[s].exp]
  <2>0. /\ req[r].pc = "lookup" /\ w \in Requests
        /\ w.pc = "rowReply" /\ w.op = req[r].op /\ w.node = req[r].node
        /\ w.long = req[r].long /\ w.start = req[r].start /\ w.ttl = req[r].ttl
        /\ w.key = Base58Encode(s) /\ w.exp = link[s].exp
    BY <1>0, <1>2, <2>2 DEF CreateLookup, At, Requests
  <2>5. req' = [req EXCEPT ![r] = w]
    BY <1>0, <2>1, Zenon DEF Typed
  <2>3. PICK v \in Requests : v = w /\ req' = [req EXCEPT ![r] = v]
    BY <2>0, <2>5
  <2>4. Sound(v) /\ v.pc # "insert"
    <3> HIDE DEF w
    <3> QED
      BY <1>0, <2>0, <2>1, <2>2, <2>3 DEF Sound, Coherent, NotDeletedBefore
  <2> QED
    BY <1>2, <2>3, <2>4, QuietStep, NoResponse DEF CreateLookup, Outcome
<1>3. CASE RetrieveMissRedis(r)
  <2> DEFINE w == [req[r] EXCEPT !.pc = "getDB"]
  <2>0. /\ req[r].pc = "getRedis" /\ w \in Requests
        /\ w.pc = "getDB" /\ w.op = req[r].op /\ w.node = req[r].node
        /\ w.start = req[r].start /\ w.ttl = req[r].ttl
    BY <1>0, <1>3 DEF RetrieveMissRedis, At, Requests
  <2>1. PICK v \in Requests : v = w /\ req' = [req EXCEPT ![r] = v]
    BY <1>0, <1>3, <2>0 DEF RetrieveMissRedis, Goto
  <2>2. Sound(v) /\ v.pc # "insert"
    <3> HIDE DEF w
    <3> QED
      BY <1>0, <2>0, <2>1 DEF Sound
  <2> QED
    BY <1>3, <2>1, <2>2, QuietStep, NoResponse DEF RetrieveMissRedis, Outcome
<1>4. CASE RetrieveFromDB(r)
  <2> DEFINE s == Base58Decode(req[r].key)
  <2>1. /\ s \in Seqs /\ state[s] = "live" /\ deletedAt[s] = 0
        /\ link[s].long \in Longs /\ link[s].exp \in Nat
    BY <1>0, <1>4, TypedFacts DEF RetrieveFromDB, GetByShortID, Table
  <2> DEFINE w == [req[r] EXCEPT !.pc = "rowReply", !.long = link[s].long,
                                !.exp = link[s].exp]
  <2>0. /\ req[r].pc = "getDB" /\ w \in Requests
        /\ w.pc = "rowReply" /\ w.op = req[r].op /\ w.node = req[r].node
        /\ w.long = link[s].long /\ w.start = req[r].start /\ w.ttl = req[r].ttl
        /\ w.key = req[r].key /\ w.exp = link[s].exp
    BY <1>0, <1>4, <2>1 DEF RetrieveFromDB, At, Requests
  <2>4. req' = [req EXCEPT ![r] = w]
    BY <1>0, <1>4, Zenon DEF RetrieveFromDB, Typed
  <2>2. PICK v \in Requests : v = w /\ req' = [req EXCEPT ![r] = v]
    BY <2>0, <2>4
  <2>3. Sound(v) /\ v.pc # "insert"
    <3> HIDE DEF w
    <3> QED
      BY <1>0, <2>0, <2>1, <2>2 DEF Sound, Coherent, NotDeletedBefore
  <2> QED
    BY <1>4, <2>2, <2>3, QuietStep, NoResponse DEF RetrieveFromDB, Outcome
<1>5. CASE SetRedisAgain(r)
  <2> DEFINE w == [req[r] EXCEPT !.pc = "setRedis"]
  <2>0. /\ req[r].pc = "setReply" /\ w \in Requests
        /\ w.pc = "setRedis" /\ w.op = req[r].op /\ w.node = req[r].node
        /\ w.long = req[r].long /\ w.key = req[r].key /\ w.exp = req[r].exp
        /\ w.start = req[r].start /\ w.ttl = req[r].ttl
    BY <1>0, <1>5 DEF SetRedisAgain, At, Requests
  <2>1. PICK v \in Requests : v = w /\ req' = [req EXCEPT ![r] = v]
    BY <1>0, <1>5, <2>0 DEF SetRedisAgain, Goto
  <2>2. Sound(v) /\ v.pc # "insert"
    <3> HIDE DEF w
    <3> QED
      BY <1>0, <2>0, <2>1 DEF Sound, Coherent
  <2> QED
    BY <1>5, <2>1, <2>2, QuietStep, NoResponse DEF SetRedisAgain, Outcome
<1> QED
  BY <1>1, <1>2, <1>3, <1>4, <1>5

\* The row is back: a visitor who goes on came before the expiry.
LEMMA RowReplyStep ==
  ASSUME LinkInv, NEW r \in Reqs, RowReply(r)
  PROVE  Outcome
<1>0. /\ Typed /\ Sound(req[r]) /\ req[r] \in Requests /\ req[r].start \in Nat
      /\ req[r].exp \in Nat /\ now \in Nat /\ req[r].pc = "rowReply"
  BY TypedFacts DEF LinkInv, RowReply, At
<1>1. PICK t \in Nat : t = cacheTTL(req[r].exp) /\ t >= 1 /\ t <= RedisTTL
  BY <1>0 DEF RowReply, cacheTTL
<1>2. req[r].op = "retrieve" => req[r].exp = 0 \/ req[r].start < req[r].exp
  BY <1>0 DEF RowReply, isExpired, Sound
<1> DEFINE w == [req[r] EXCEPT !.pc = "setRedis", !.ttl = t]
<1>3. /\ w \in Requests /\ w.pc = "setRedis" /\ w.op = req[r].op
      /\ w.node = req[r].node /\ w.long = req[r].long /\ w.key = req[r].key
      /\ w.exp = req[r].exp /\ w.start = req[r].start /\ w.ttl = t
  BY <1>0, <1>1 DEF Requests
<1>4. req' = [req EXCEPT ![r] = w]
  <2>1. req' = [req EXCEPT ![r].pc = "setRedis", ![r].ttl = t]
    BY <1>1 DEF RowReply
  <2> QED
    BY <1>0, <2>1, Zenon DEF Typed
<1>5. PICK v \in Requests : v = w /\ req' = [req EXCEPT ![r] = v]
  BY <1>3, <1>4
<1> HIDE DEF w
<1>6. Sound(v) /\ v.pc # "insert"
  BY <1>0, <1>1, <1>2, <1>3, <1>5 DEF Sound, Coherent
<1> QED
  BY <1>5, <1>6, QuietStep, NoResponse DEF RowReply, Outcome

\* redis answers with an entry that is not past its time.
LEMMA HitRedisStep ==
  ASSUME LinkInv, NEW r \in Reqs, RetrieveHitRedis(r)
  PROVE  Outcome
<1>0. /\ Typed /\ Sound(req[r]) /\ req[r] \in Requests /\ req[r].start \in Nat
      /\ req[r].key \in Keys /\ now \in Nat /\ req[r].pc = "getRedis"
      /\ deletedAt[Base58Decode(req[r].key)] \in Nat
  BY TypedFacts DEF LinkInv, RetrieveHitRedis, At
<1>1. PICK e \in Entries : e = redis[req[r].key] /\ e # NoEntry
  BY <1>0 DEF Typed, RetrieveHitRedis
<1>2. Kept(req[r].key, e, RedisTTL + Jitter, RedisBound)
  BY <1>0, <1>1 DEF LinkInv, RedisOK
<1>3. PICK l \in Longs, x \in Nat : l = e.long /\ x = e.exp
  BY <1>1, <1>2 DEF Kept, Entries
<1>4. Coherent(req[r].key, e)
  BY <1>1, <1>2 DEF Kept
<1>5. NotDeletedBefore(req[r].key, req[r].start - (RedisBound - 1))
  <2>1. e.until \in Nat /\ e.until >= now + 1 /\ req[r].start <= now
    BY <1>0, <1>1, <1>2 DEF Kept, Entries, Sound
  <2>2. NotDeletedBefore(req[r].key, e.until - RedisBound)
    BY <1>1, <1>2 DEF Kept
  <2> QED
    BY <1>0, <2>1, <2>2, BoundFacts DEF NotDeletedBefore
<1> DEFINE w == [req[r] EXCEPT !.pc = "getReply", !.long = l, !.exp = x]
<1>6. /\ w \in Requests /\ w.pc = "getReply" /\ w.op = req[r].op
      /\ w.node = req[r].node /\ w.long = l /\ w.key = req[r].key
      /\ w.exp = x /\ w.start = req[r].start /\ w.ttl = req[r].ttl
  BY <1>0, <1>3 DEF Requests
<1>7. req' = [req EXCEPT ![r] = w]
  <2>1. req' = [req EXCEPT ![r].pc = "getReply", ![r].long = l, ![r].exp = x]
    BY <1>1, <1>3 DEF RetrieveHitRedis
  <2> QED
    BY <1>0, <2>1, Zenon DEF Typed
<1>8. PICK v \in Requests : v = w /\ req' = [req EXCEPT ![r] = v]
  BY <1>6, <1>7
<1> HIDE DEF w
<1>9. Sound(v) /\ v.pc # "insert"
  BY <1>0, <1>3, <1>4, <1>5, <1>6, <1>8 DEF Sound, Coherent
<1> QED
  BY <1>8, <1>9, QuietStep, NoResponse DEF RetrieveHitRedis, Outcome

\* The row is not there for the visitor, or has expired, or is not there for the
\* one who deletes it.
LEMMA RefusingSteps ==
  ASSUME LinkInv, NEW r \in Reqs,
         RetrieveNotFound(r) \/ RowReplyExpired(r) \/ DeleteNotFound(r)
  PROVE  Outcome
<1> DEFINE s == Base58Decode(req[r].key)
<1>0. s \in Seqs /\ link[s].exp \in Nat /\ Sound(req[r])
  BY TypedFacts DEF LinkInv
<1>1. PICK st \in {"notFound", "expired"} :
        /\ InTime(r) /\ Respond(r, st, NoLong)
        /\ st = "notFound" => state[s] # "live"
        /\ st = "expired" => state[s] # "none" /\ isExpired(link[s].exp)
        /\ UNCHANGED <<now, nextSeq, link, state, redis, local, deletedAt, promised>>
  <2>1. CASE RetrieveNotFound(r) \/ DeleteNotFound(r)
    BY <2>1 DEF RetrieveNotFound, DeleteNotFound, GetByShortID
  <2>2. CASE RowReplyExpired(r)
    <3>1. state[s] # "none" /\ req[r].exp = link[s].exp
      BY <1>0, <2>2 DEF RowReplyExpired, At, Sound, Coherent
    <3> QED
      BY <2>2, <3>1 DEF RowReplyExpired
  <2> QED
    BY <2>1, <2>2
<1>2. /\ req' = [req EXCEPT ![r] = Idle]
      /\ resp'.status = st /\ Base58Decode(resp'.key) = s
  BY <1>1, RespondFacts
<1>3. TrueResponse'
  BY <1>1, <1>2
     DEF TrueResponse, Response, Map!Truthful, Map!Expired, isExpired, Base58Decode,
         NeverServesExpired
<1> QED
  BY <1>1, <1>2, <1>3, SlotFreed DEF Outcome

\* The table, the caches and the slots with nobody's help: steps that leave the
\* requests alone.
LEMMA StillStep ==
  ASSUME LinkInv, TableStep, now' \in Times, UNCHANGED <<nextSeq, req>>,
         \A s \in Seqs : state[s] = "none" => state'[s] = "none",
         redis' \in [Keys -> Entries], local' \in [Nodes -> [Keys -> Entries]],
         RedisOK', LocalOK', promised' \in [Classes -> SUBSET Seqs], PromisesOK'
  PROVE  LinkInv'
<1>1. Typed /\ Monotone
  BY TableMonotone DEF LinkInv
<1>2. Typed'
  BY <1>1, TableTyped DEF Typed, Classes, Nodes, Times, Seqs, Keys, Entries, Requests
<1>3. Table' /\ Drawn'
  BY <1>1, TableKept, DrawnKept DEF LinkInv
<1>4. \A q \in Reqs : Sound(req[q])'
  BY <1>1, ReqSame DEF LinkInv
<1> QED
  BY <1>2, <1>3, <1>4 DEF LinkInv

-----------------------------------------------------------------------------
(* Answers from a cache *)

\* A redirect to the link of the key, for a visitor who came at time t, is true:
\* the link had not expired then, and was not deleted too long ago.
LEMMA FoundTrue ==
  ASSUME Typed, UNCHANGED <<now, link, state, deletedAt>>,
         NEW k \in Keys, NEW e, Coherent(k, e), NEW t \in Nat,
         resp'.key = k, resp'.long = e.long, resp'.status = "found",
         resp'.start = t, e.exp = 0 \/ t < e.exp, now <= t + ReqTimeout,
         NotDeletedBefore(k, now - StaleBound)
  PROVE  TrueResponse'
<1> DEFINE s == Base58Decode(k)
<1>1. /\ s \in Seqs /\ state[s] # "none" /\ Collate[e.long] = Collate[link[s].long]
      /\ e.exp = link[s].exp /\ link[s].exp \in Nat /\ now \in Nat
      /\ deletedAt[s] \in Nat /\ StaleBound \in Int
  BY TypedFacts, KeyFacts, BoundFacts DEF Coherent
<1>2. link[s].exp = 0 \/ (t < link[s].exp /\ now < link[s].exp + ReqTimeout)
  BY <1>1
<1>3. deletedAt[s] = 0 \/ now <= deletedAt[s] + StaleBound
  BY <1>1 DEF NotDeletedBefore
<1> QED
  BY <1>1, <1>2, <1>3
     DEF TrueResponse, Response, Map!Truthful, Map!FoundIsTrue, Map!Same,
         NeverServesExpired, Base58Decode

\* A value that is its key's link, served with a look at its expiry.
LEMMA ServedTrue ==
  ASSUME Typed, UNCHANGED <<now, link, state, deletedAt>>,
         NEW k \in Keys, NEW e, Coherent(k, e), NEW t \in Nat,
         resp'.key = k, resp'.long = e.long, resp'.status = CachedStatus(e.exp),
         resp'.start = t, t <= now, now <= t + ReqTimeout,
         NotDeletedBefore(k, now - StaleBound)
  PROVE  TrueResponse'
<1> DEFINE s == Base58Decode(k)
<1>1. /\ s \in Seqs /\ state[s] # "none" /\ e.exp = link[s].exp
      /\ link[s].exp \in Nat /\ now \in Nat
  BY TypedFacts, KeyFacts DEF Coherent
<1>2. CASE isExpired(e.exp)
  BY <1>1, <1>2
     DEF TrueResponse, Response, Map!Truthful, Map!Expired, CachedStatus, isExpired,
         NeverServesExpired, Base58Decode
<1>3. CASE ~isExpired(e.exp)
  <2>1. resp'.status = "found" /\ (e.exp = 0 \/ t < e.exp)
    BY <1>1, <1>3 DEF CachedStatus, isExpired
  <2> QED
    BY <2>1, FoundTrue
<1> QED
  BY <1>2, <1>3

LEMMA HitLocalStep ==
  ASSUME LinkInv, NEW r \in Reqs, NEW n \in Nodes, NEW k \in Keys,
         RetrieveHitLocal(r, n, k)
  PROVE  Outcome
<1>1. /\ local[n][k] # NoEntry
      /\ UNCHANGED <<now, nextSeq, link, state, redis, local, req, deletedAt, promised>>
      /\ resp'.key = k /\ resp'.long = local[n][k].long
      /\ resp'.status = CachedStatus(local[n][k].exp) /\ resp'.start = now
  BY DEF RetrieveHitLocal
<1>2. TableStep /\ Typed /\ Table /\ Monotone /\ now' \in Times
  BY <1>1, TableMonotone DEF TableStep, LinkInv, Typed
<1>3. LinkInv'
  BY <1>1, <1>2, StillStep, RedisSame, LocalSame, PromisesKept DEF LinkInv, Typed
<1>4. Coherent(k, local[n][k]) /\ NotDeletedBefore(k, now - StaleBound)
  <2>1. Kept(k, local[n][k], LocalTTL, LocalBound)
    BY DEF LinkInv, LocalOK
  <2>2. now \in Nat /\ deletedAt[Base58Decode(k)] \in Nat /\ local[n][k].until \in Nat
    BY <1>2, TypedFacts, KeyFacts DEF Typed, Entries
  <2> QED
    BY <1>1, <2>1, <2>2, BoundFacts DEF Kept, NotDeletedBefore
<1>5. TrueResponse'
  BY <1>1, <1>2, <1>4, TypedFacts, ServedTrue
<1> QED
  BY <1>2, <1>3, <1>5 DEF Outcome

LEMMA GetByLongSteps ==
  ASSUME LinkInv, NEW r \in Reqs, NEW l \in Longs,
         GetByLong(r, l) \/ GetByLongFails(r, l)
  PROVE  Outcome
<1>0. /\ UNCHANGED <<now, nextSeq, link, state, redis, local, req, deletedAt>>
      /\ TableStep /\ Typed /\ Table /\ Monotone /\ now' \in Times
  <2>1. UNCHANGED <<now, nextSeq, link, state, redis, local, req, deletedAt>>
    BY DEF GetByLong, GetByLongFails
  <2> QED
    BY <2>1, TableMonotone DEF TableStep, LinkInv, Typed
<1>1. CASE GetByLong(r, l)
  <2>1. PICK s \in RowsOf(l) :
          /\ state[s] = "live"
          /\ resp' = [NoResp EXCEPT !.op = "info", !.status = "ok",
                                    !.key = Base58Encode(s), !.long = link[s].long]
          /\ promised' = [promised EXCEPT ![Collate[l]] = @ \cup {s}]
    BY <1>1 DEF GetByLong
  <2>2. /\ s \in Seqs /\ Collate[link[s].long] = Collate[l]
        /\ Base58Decode(Base58Encode(s)) = s /\ Collate[l] \in Classes
    BY <2>1, KeyFacts, ClassFacts DEF RowsOf
  <2>3. promised' \in [Classes -> SUBSET Seqs]
    BY <1>0, <2>1, <2>2 DEF Typed
  <2>4. PromisesOK'
    BY <1>0, <2>1, <2>2 DEF LinkInv, PromisesOK, Typed, Classes
  <2>5. LinkInv'
    BY <1>0, <2>3, <2>4, StillStep, RedisSame, LocalSame DEF LinkInv, Typed
  <2>6. /\ resp'.op = "info" /\ resp'.status = "ok" /\ resp'.long = link[s].long
        /\ Base58Decode(resp'.key) = s
    BY <2>1, <2>2 DEF NoResp
  <2>7. TrueResponse'
    BY <1>0, <2>1, <2>2, <2>6
       DEF TrueResponse, Response, Map!Truthful, Map!InfoIsTrue, Base58Decode,
           NeverServesExpired
  <2> QED
    BY <1>0, <2>5, <2>7 DEF Outcome
<1>2. CASE GetByLongFails(r, l)
  <2>1. UNCHANGED promised /\ resp'.status = "error"
    BY <1>2 DEF GetByLongFails, NoResp
  <2>2. LinkInv'
    BY <1>0, <2>1, StillStep, RedisSame, LocalSame, PromisesKept DEF LinkInv, Typed
  <2> QED
    BY <1>0, <2>1, <2>2, SilentResponse DEF Outcome
<1> QED
  BY <1>1, <1>2

-----------------------------------------------------------------------------
(* Background steps *)

LEMMA JanitorStep ==
  ASSUME LinkInv, Janitor
  PROVE  Outcome
<1>1. PICK S \in Batches(Reapable) \ {{}} :
        state' = [s \in Seqs |-> IF s \in S THEN "reaped" ELSE state[s]]
  BY DEF Janitor
<1>2. S \subseteq Reapable /\ S \in SUBSET Seqs
  BY DEF Batches, Reapable
<1>3. /\ UNCHANGED <<now, nextSeq, link, redis, local, req, deletedAt, promised>>
      /\ resp' = NoResp /\ Typed /\ now \in Nat
  BY TypedFacts DEF Janitor, LinkInv
<1>4. Map!Reap(S)
  BY <1>1, <1>2, <1>3, TypedFacts
     DEF Map!Reap, Map!Present, Map!Expired, Map!Seqs, Reapable, Seqs
<1>5. TableStep /\ Monotone /\ now' \in Times
  BY <1>2, <1>3, <1>4, TableMonotone DEF TableStep, Typed
<1>6. \A s \in Seqs : state[s] = "none" => state'[s] = "none"
  BY <1>1, <1>2 DEF Reapable
<1>7. LinkInv'
  BY <1>3, <1>5, <1>6, StillStep, RedisSame, LocalSame, PromisesKept
     DEF LinkInv, Typed
<1> QED
  BY <1>3, <1>5, <1>7, NoResponse DEF Outcome

LEMMA EvictStep ==
  ASSUME LinkInv, Evict
  PROVE  Outcome
<1>1. /\ UNCHANGED <<now, nextSeq, link, state, req, deletedAt, promised>>
      /\ resp' = NoResp /\ Typed /\ TableStep /\ Monotone /\ now' \in Times
  <2>1. /\ UNCHANGED <<now, nextSeq, link, state, req, deletedAt, promised>>
        /\ resp' = NoResp
    BY DEF Evict, EvictRedis, EvictLocal
  <2> QED
    BY <2>1, TableMonotone DEF LinkInv, TableStep, Typed
<1>2. ASSUME NEW k \in Keys, EvictRedis(k)
      PROVE  LinkInv'
  <2>1. Kept(k, NoEntry, RedisTTL + Jitter, RedisBound)'
    BY DEF Kept, NoEntry
  <2>2. RedisOK' /\ redis' \in [Keys -> Entries]
    BY <1>1, <1>2, <2>1, RedisPut, EntryFacts DEF EvictRedis, LinkInv
  <2>3. LocalOK' /\ local' \in [Nodes -> [Keys -> Entries]]
    BY <1>1, <1>2, LocalSame DEF EvictRedis, LinkInv, Typed
  <2> QED
    BY <1>1, <2>2, <2>3, StillStep, PromisesKept DEF LinkInv, Typed
<1>3. ASSUME NEW n \in Nodes, NEW k \in Keys, EvictLocal(n, k)
      PROVE  LinkInv'
  <2>1. Kept(k, NoEntry, LocalTTL, LocalBound)'
    BY DEF Kept, NoEntry
  <2>2. LocalOK' /\ local' \in [Nodes -> [Keys -> Entries]]
    BY <1>1, <1>3, <2>1, LocalPut, EntryFacts DEF EvictLocal, LinkInv
  <2>3. RedisOK' /\ redis' \in [Keys -> Entries]
    BY <1>1, <1>3, RedisSame DEF EvictLocal, LinkInv, Typed
  <2> QED
    BY <1>1, <2>2, <2>3, StillStep, PromisesKept DEF LinkInv, Typed
<1>4. LinkInv'
  BY <1>2, <1>3 DEF Evict
<1> QED
  BY <1>1, <1>4, NoResponse DEF Outcome

\* What the caches still hold after a tick has time left.
LEMMA TickStep ==
  ASSUME LinkInv, Tick
  PROVE  Outcome
<1>1. /\ Typed /\ now \in Nat /\ now' = now + 1 /\ now' \in Times
      /\ redis' = Outdated(redis, now + 1)
      /\ local' = [n \in Nodes |-> Outdated(local[n], now + 1)]
      /\ resp' = NoResp
      /\ UNCHANGED <<nextSeq, link, state, req, deletedAt, promised>>
  BY TypedFacts DEF Tick, LinkInv, Times
<1>2. TableStep /\ Monotone
  <2>1. Map!Pass
    BY <1>1 DEF Map!Pass
  <2> QED
    BY <1>1, <2>1, TableMonotone DEF TableStep
<1>3. redis' \in [Keys -> Entries] /\ local' \in [Nodes -> [Keys -> Entries]]
  BY <1>1, EntryFacts DEF Typed, Outdated
<1>4. RedisOK'
  <2> SUFFICES ASSUME NEW k \in Keys
               PROVE  Kept(k, redis[k], RedisTTL + Jitter, RedisBound)'
    BY DEF RedisOK
  <2>1. PICK f \in Entries : f = redis'[k]
    BY <1>3
  <2>2. f = NoEntry \/ (f = redis[k] /\ ~(f.until <= now'))
    BY <1>1, <2>1 DEF Outdated
  <2>3. Kept(k, f, RedisTTL + Jitter, RedisBound)
    BY <2>2 DEF LinkInv, RedisOK, Kept
  <2>4. f = NoEntry \/ f.until > now'
    BY <1>1, <2>1, <2>2 DEF Entries
  <2>5. Kept(k, f, RedisTTL + Jitter, RedisBound)'
    BY <1>1, <1>2, <2>3, <2>4, BoundFacts, EntryKept
  <2> QED
    BY <2>1, <2>5 DEF Kept, Coherent, NotDeletedBefore
<1>5. LocalOK'
  <2> SUFFICES ASSUME NEW n \in Nodes, NEW k \in Keys
               PROVE  Kept(k, local[n][k], LocalTTL, LocalBound)'
    BY DEF LocalOK, Nodes
  <2>1. PICK f \in Entries : f = local'[n][k]
    BY <1>3
  <2>2. f = NoEntry \/ (f = local[n][k] /\ ~(f.until <= now'))
    BY <1>1, <2>1 DEF Outdated
  <2>3. Kept(k, f, LocalTTL, LocalBound)
    BY <2>2 DEF LinkInv, LocalOK, Kept
  <2>4. f = NoEntry \/ f.until > now'
    BY <1>1, <2>1, <2>2 DEF Entries
  <2>5. Kept(k, f, LocalTTL, LocalBound)'
    BY <1>1, <1>2, <2>3, <2>4, BoundFacts, EntryKept
  <2> QED
    BY <2>1, <2>5 DEF Kept, Coherent, NotDeletedBefore
<1>6. LinkInv'
  BY <1>1, <1>2, <1>3, <1>4, <1>5, StillStep, PromisesKept DEF LinkInv, Typed
<1> QED
  BY <1>1, <1>2, <1>6, NoResponse DEF Outcome

-----------------------------------------------------------------------------
(* Steps of a request that write *)

LEMMA MoveStep ==
  ASSUME LinkInv, TableStep, now' = now, nextSeq' \in 1 .. (MaxSeq + 1), Drawn',
         NEW r \in Reqs, NEW v \in Requests, req' = [req EXCEPT ![r] = v], Sound(v)',
         redis' \in [Keys -> Entries], local' \in [Nodes -> [Keys -> Entries]],
         RedisOK', LocalOK', promised' \in [Classes -> SUBSET Seqs], PromisesOK'
  PROVE  LinkInv'
<1>1. Typed /\ Monotone /\ now' \in Times
  BY TableMonotone DEF LinkInv, Typed
<1>2. req' \in [Reqs -> Requests] /\ \A q \in Reqs : Sound(req[q])'
  BY <1>1, ReqMoves DEF LinkInv
<1>3. Typed'
  BY <1>1, <1>2, TableTyped
     DEF Typed, Classes, Nodes, Times, Seqs, Keys, Entries, Requests
<1>4. Table'
  BY <1>1, TableKept DEF LinkInv
<1> QED
  BY <1>2, <1>3, <1>4 DEF LinkInv

\* What is not written stays in order.
LEMMA Unwritten ==
  ASSUME LinkInv, TableStep, now' = now
  PROVE  /\ UNCHANGED redis => RedisOK' /\ redis' \in [Keys -> Entries]
         /\ UNCHANGED local => LocalOK' /\ local' \in [Nodes -> [Keys -> Entries]]
         /\ UNCHANGED promised =>
              PromisesOK' /\ promised' \in [Classes -> SUBSET Seqs]
<1>1. Typed /\ Monotone
  BY TableMonotone DEF LinkInv
<1> QED
  BY <1>1, RedisSame, LocalSame, PromisesKept DEF LinkInv, Typed

\* The number drawn is nobody else's.
LEMMA CreateNextStep ==
  ASSUME LinkInv, NEW r \in Reqs, CreateNext(r)
  PROVE  Outcome
<1> DEFINE x == IF req[r].exp > 0 THEN now + req[r].exp ELSE 0
           w == [req[r] EXCEPT !.pc = "insert", !.key = Base58Encode(nextSeq),
                               !.exp = x]
<1>1. /\ Typed /\ TableStep /\ Sound(req[r]) /\ now \in Nat /\ now' = now
      /\ req[r] \in Requests /\ req[r].exp \in Nat /\ req[r].start \in Nat
      /\ req[r].pc = "next" /\ resp' = NoResp
      /\ UNCHANGED <<redis, local, promised, state>>
      /\ nextSeq \in Seqs /\ nextSeq' = nextSeq + 1 /\ nextSeq' \in 1 .. (MaxSeq + 1)
  BY TypedFacts DEF LinkInv, CreateNext, At, TableStep, Seqs
<1>2. x \in LinkExpiries /\ x \in Nat
  <2>1. req[r].exp \in TTLs /\ now \in Times
    BY <1>1 DEF Sound, Typed
  <2> QED
    BY <1>1, <2>1, ExpiriesNatural DEF LinkExpiries
<1>3. /\ Base58Encode(nextSeq) \in Keys
      /\ Base58Decode(Base58Encode(nextSeq)) = nextSeq
  BY <1>1, KeyFacts
<1>4. req' = [req EXCEPT ![r] = w]
  BY <1>1, Zenon DEF CreateNext, Typed
<1>5. /\ w \in Requests /\ w.pc = "insert" /\ w.key = Base58Encode(nextSeq)
      /\ w.exp = x /\ w.op = req[r].op /\ w.long = req[r].long
      /\ w.node = req[r].node /\ w.start = req[r].start /\ w.ttl = req[r].ttl
  <2> HIDE DEF x
  <2> QED
    BY <1>1, <1>2, <1>3 DEF Requests
<1> HIDE DEF x, w
<1>6. PICK v \in Requests : v = w /\ req' = [req EXCEPT ![r] = v]
  BY <1>4, <1>5
<1>7. Sound(v)'
  BY <1>1, <1>2, <1>5, <1>6 DEF Sound, Nodes, LinkExpiries, Times
<1>8. Drawn'
  <2>0. nextSeq' = nextSeq + 1 /\ state' = state
    BY <1>1
  <2>1. /\ \A s \in Seqs : s >= nextSeq => state[s] = "none"
        /\ nextSeq \in Int /\ \A s \in Seqs : s \in Int
    BY <1>1 DEF LinkInv, Drawn, Seqs
  <2>2. \A q \in Reqs : req[q].pc = "insert" => Base58Decode(req[q].key) < nextSeq
    BY DEF LinkInv, Drawn
  <2>3. req'[r] = v /\ \A q \in Reqs : q # r => req'[q] = req[q]
    BY <1>1, <1>6 DEF Typed
  <2>4. \A q \in Reqs : Base58Decode(req[q].key) \in Seqs
    BY <1>1, TypedFacts
  <2>5. /\ v.pc = "insert" /\ Base58Decode(v.key) = nextSeq
    BY <1>3, <1>5, <1>6
  <2>6. \A s \in Seqs : s >= nextSeq' => state'[s] = "none"
    BY <2>0, <2>1
  <2>7. ASSUME NEW q \in Reqs, req'[q].pc = "insert"
        PROVE  /\ Base58Decode(req'[q].key) < nextSeq'
               /\ state'[Base58Decode(req'[q].key)] = "none"
    <3>1. CASE q = r
      BY <1>1, <2>1, <2>3, <2>5, <3>1
    <3>2. CASE q # r
      <4>1. req'[q] = req[q] /\ req[q].pc = "insert"
        BY <2>3, <2>7, <3>2
      <4>2. /\ Base58Decode(req[q].key) < nextSeq
            /\ state[Base58Decode(req[q].key)] = "none"
        BY <4>1 DEF LinkInv, Drawn
      <4> QED
        BY <2>0, <2>1, <2>4, <4>1, <4>2
    <3> QED
      BY <3>1, <3>2
  <2>8. ASSUME NEW p \in Reqs, NEW q \in Reqs, req'[p].pc = "insert",
               req'[q].pc = "insert",
               Base58Decode(req'[p].key) = Base58Decode(req'[q].key)
        PROVE  p = q
    <3>1. CASE p = r /\ q # r
      BY <2>1, <2>2, <2>3, <2>4, <2>5, <2>8, <3>1
    <3>2. CASE q = r /\ p # r
      BY <2>1, <2>2, <2>3, <2>4, <2>5, <2>8, <3>2
    <3>3. CASE p # r /\ q # r
      BY <2>3, <2>8, <3>3 DEF LinkInv, Drawn
    <3> QED
      BY <3>1, <3>2, <3>3
  <2> QED
    BY <2>6, <2>7, <2>8 DEF Drawn, Base58Decode
<1>9. LinkInv'
  BY <1>1, <1>6, <1>7, <1>8, MoveStep, Unwritten
<1> QED
  BY <1>1, <1>9, NoResponse DEF Outcome

\* The effect of the INSERT is that the map gets a link, under a number that no
\* other request is about to use.
LEMMA InsertFacts ==
  ASSUME LinkInv, NEW r \in Reqs, CreateInsert(r),
         \A q \in Reqs : req'[q].pc = "insert" => q # r /\ req'[q] = req[q]
  PROVE  TableStep /\ Drawn'
<1> DEFINE s == Base58Decode(req[r].key)
<1>1. /\ Typed /\ s \in Seqs /\ state[s] = "none" /\ s < nextSeq
      /\ req[r].long \in Longs /\ req[r].exp \in LinkExpiries
  BY TypedFacts DEF LinkInv, Drawn, Sound, CreateInsert, At
<1>2. /\ UNCHANGED <<now, deletedAt, nextSeq>>
      /\ link' = [link EXCEPT ![s] = [long |-> req[r].long, exp |-> req[r].exp]]
      /\ state' = [state EXCEPT ![s] = "live"]
      /\ \A t \in Seqs : state[t] \in {"live", "deleted"} =>
           Collate[req[r].long] # Collate[link[t].long]
  BY DEF CreateInsert, RowsOf
<1>3. Map!Shorten(s, req[r].long, req[r].exp)
  BY <1>1, <1>2 DEF Map!Shorten, Map!Present, Map!Same, Map!Seqs, Seqs
<1>4. TableStep
  BY <1>1, <1>3 DEF TableStep
<1>5. \A t \in Seqs : t # s => state'[t] = state[t]
  BY <1>1, <1>2 DEF Typed
<1>6. Drawn'
  <2>1. nextSeq \in Int /\ \A t \in Seqs : t \in Int
    BY <1>1 DEF Typed, Seqs
  <2>2. \A q \in Reqs : req'[q].pc = "insert" => Base58Decode(req[q].key) # s
    BY DEF LinkInv, Drawn, CreateInsert, At
  <2>3. \A q \in Reqs : Base58Decode(req[q].key) \in Seqs
    BY <1>1, TypedFacts
  <2> QED
    BY <1>1, <1>2, <1>5, <2>1, <2>2, <2>3 DEF LinkInv, Drawn, Base58Decode
<1> QED
  BY <1>4, <1>6

LEMMA CreateInsertStep ==
  ASSUME LinkInv, NEW r \in Reqs, CreateInsert(r)
  PROVE  Outcome
<1> DEFINE s == Base58Decode(req[r].key)
           w == [req[r] EXCEPT !.pc = "rowReply"]
<1>1. /\ Typed /\ Sound(req[r]) /\ now \in Nat /\ req[r] \in Requests
      /\ req[r].start \in Nat /\ req[r].pc = "insert" /\ s \in Seqs
      /\ resp' = NoResp /\ deletedAt[s] = 0
      /\ UNCHANGED <<now, nextSeq, redis, local, deletedAt, promised>>
  BY TypedFacts DEF LinkInv, Drawn, Table, CreateInsert, At
<1>2. /\ w \in Requests /\ w.pc = "rowReply" /\ w.key = req[r].key
      /\ w.exp = req[r].exp /\ w.op = req[r].op /\ w.long = req[r].long
      /\ w.node = req[r].node /\ w.start = req[r].start /\ w.ttl = req[r].ttl
  BY <1>1 DEF Requests
<1>3. PICK v \in Requests : v = w /\ req' = [req EXCEPT ![r] = v]
  BY <1>2 DEF CreateInsert, Goto
<1> HIDE DEF w
<1>4. \A q \in Reqs : req'[q].pc = "insert" => q # r /\ req'[q] = req[q]
  BY <1>1, <1>2, <1>3 DEF Typed
<1>5. TableStep /\ Drawn'
  BY <1>4, InsertFacts
<1>6. Sound(v)'
  <2>1. state'[s] = "live" /\ link'[s] = [long |-> req[r].long, exp |-> req[r].exp]
    BY <1>1 DEF CreateInsert, Typed
  <2> QED
    BY <1>1, <1>2, <1>3, <2>1 DEF Sound, Coherent, NotDeletedBefore, Nodes, Base58Decode
<1>7. nextSeq' \in 1 .. (MaxSeq + 1)
  BY <1>1 DEF Typed
<1>8. LinkInv'
  BY <1>1, <1>3, <1>5, <1>6, <1>7, MoveStep, Unwritten
<1> QED
  BY <1>1, <1>5, <1>8, NoResponse DEF Outcome

\* A step after which the slot is free.
LEMMA FreedStep ==
  ASSUME LinkInv, TableStep, UNCHANGED <<now, nextSeq>>,
         \A s \in Seqs : state[s] = "none" => state'[s] = "none",
         NEW r \in Reqs, req' = [req EXCEPT ![r] = Idle],
         redis' \in [Keys -> Entries], local' \in [Nodes -> [Keys -> Entries]],
         RedisOK', LocalOK', promised' \in [Classes -> SUBSET Seqs], PromisesOK'
  PROVE  LinkInv'
<1>1. Typed /\ nextSeq' \in 1 .. (MaxSeq + 1)
  BY DEF LinkInv, Typed
<1>2. \A q \in Reqs : req'[q].pc = "insert" => req'[q] = req[q]
  BY <1>1, IdleFacts DEF Typed
<1>3. Drawn'
  BY <1>1, <1>2, DrawnKept DEF LinkInv
<1>4. Sound(Idle)'
  BY <1>1, TypedFacts DEF Sound, Idle
<1> QED
  BY <1>1, <1>3, <1>4, MoveStep, IdleFacts

\* The answer of Create or Retrieve, when the value has been cached or could not be.
LEMMA AnswerFacts ==
  ASSUME LinkInv, UNCHANGED <<now, link, state, deletedAt>>, NEW r \in Reqs,
         At(r, "setRedis") \/ At(r, "setReply"), Answer(r)
  PROVE  /\ req' = [req EXCEPT ![r] = Idle] /\ TrueResponse'
         /\ promised' \in [Classes -> SUBSET Seqs] /\ PromisesOK'
<1> DEFINE s == Base58Decode(req[r].key)
<1>1. /\ Typed /\ Table /\ Sound(req[r]) /\ req[r].key \in Keys /\ s \in Seqs
      /\ req[r].exp \in Nat /\ req[r].start \in Nat /\ now \in Nat
      /\ deletedAt[s] \in Nat
  BY TypedFacts DEF LinkInv
<1>2. /\ Coherent(req[r].key, req[r]) /\ req[r].long \in Longs
      /\ NotDeletedBefore(req[r].key, req[r].start)
      /\ req[r].op = "retrieve" => req[r].exp = 0 \/ req[r].start < req[r].exp
  BY <1>1 DEF Sound, At
<1>3. state[s] # "none" /\ Collate[req[r].long] = Collate[link[s].long]
  BY <1>2 DEF Coherent
<1>4. TableStep
  BY DEF TableStep
<1>5. CASE req[r].op = "create" /\ CreateAnswers(r)
  <2>1. Respond(r, "ok", req[r].long)
    BY <1>5 DEF CreateAnswers
  <2>2. /\ req' = [req EXCEPT ![r] = Idle] /\ (~InTime(r) => TrueResponse')
        /\ InTime(r) => /\ resp'.op = "create" /\ resp'.status = "ok"
                        /\ resp'.key = req[r].key /\ resp'.long = req[r].long
    BY <1>5, <2>1, RespondFacts
  <2>3. TrueResponse'
    BY <1>3, <2>2
       DEF TrueResponse, Response, Map!Truthful, Map!CreatedIsTrue, Map!Same,
           NeverServesExpired, Base58Decode
  <2>4. Collate[req[r].long] \in Classes
    BY <1>2, ClassFacts
  <2>5. promised' \in [Classes -> SUBSET Seqs]
    BY <1>1, <1>5, <2>4 DEF CreateAnswers, Typed
  <2>6. PromisesOK'
    BY <1>1, <1>3, <1>5, <2>4 DEF CreateAnswers, LinkInv, PromisesOK, Typed, Classes
  <2> QED
    BY <2>2, <2>3, <2>5, <2>6
<1>6. CASE req[r].op = "retrieve" /\ Respond(r, "found", req[r].long)
             /\ UNCHANGED promised
  <2>1. /\ req' = [req EXCEPT ![r] = Idle] /\ (~InTime(r) => TrueResponse')
        /\ InTime(r) => /\ resp'.status = "found"
                        /\ resp'.key = req[r].key /\ resp'.long = req[r].long
                        /\ resp'.start = req[r].start
    BY <1>6, RespondFacts
  <2>2. InTime(r) => now <= req[r].start + ReqTimeout
    BY DEF InTime
  <2>3. InTime(r) => NotDeletedBefore(req[r].key, now - StaleBound)
    BY <1>1, <1>2, <2>2 DEF NotDeletedBefore, StaleBound, CallTime
  <2>4. InTime(r) => TrueResponse'
    BY <1>1, <1>2, <1>6, <2>1, <2>2, <2>3, FoundTrue
  <2> QED
    BY <1>4, <1>6, <2>1, <2>4, Unwritten
<1> QED
  BY <1>5, <1>6 DEF Answer

\* What is written to redis is the row's, and goes in time.
LEMMA RedisWritten ==
  ASSUME LinkInv, UNCHANGED <<now, link, state, deletedAt>>, NEW r \in Reqs,
         At(r, "setRedis"), Sent(r),
         RedisSet(req[r].key, req[r].long, req[r].exp, req[r].ttl)
  PROVE  RedisOK' /\ redis' \in [Keys -> Entries]
<1> DEFINE s == Base58Decode(req[r].key)
<1>1. /\ Typed /\ Sound(req[r]) /\ req[r].key \in Keys /\ s \in Seqs
      /\ req[r].exp \in Nat /\ req[r].start \in Nat /\ now \in Nat
      /\ deletedAt[s] \in Nat
  BY TypedFacts DEF LinkInv
<1>2. /\ Coherent(req[r].key, req[r]) /\ req[r].long \in Longs
      /\ NotDeletedBefore(req[r].key, req[r].start)
  BY <1>1 DEF Sound, At
<1>3. req[r].ttl \in 1 .. RedisTTL
  BY <1>1, TypedFacts DEF Sound, At
<1>4. PICK j \in 0 .. Jitter :
        redis' = [redis EXCEPT ![req[r].key] =
                    [long |-> req[r].long, exp |-> req[r].exp,
                     until |-> now + req[r].ttl + j]]
  BY DEF RedisSet
<1>5. PICK u \in Nat :
        /\ u = now + req[r].ttl + j
        /\ u \in (now + 1) .. (now + (RedisTTL + Jitter))
  BY <1>1, <1>3
<1>6. PICK k \in Keys, l \in Longs, x \in Nat :
        k = req[r].key /\ l = req[r].long /\ x = req[r].exp
  BY <1>1, <1>2
<1>7. PICK e \in Entries : e = [long |-> l, exp |-> x, until |-> u]
  BY EntryFacts
<1>8. redis' = [redis EXCEPT ![k] = e]
  BY <1>4, <1>5, <1>6, <1>7
<1>9. e.long = l /\ e.exp = x /\ e.until = u
  BY <1>7
<1>10. NotDeletedBefore(k, u - RedisBound)
  BY <1>1, <1>2, <1>5, <1>6 DEF Sent, NotDeletedBefore, RedisBound, CallTime
<1>11. Kept(k, e, RedisTTL + Jitter, RedisBound)'
  BY <1>2, <1>5, <1>6, <1>9, <1>10 DEF Kept, Coherent, NotDeletedBefore, Base58Decode
<1>12. Monotone
  BY <1>1, TableMonotone DEF TableStep
<1> QED
  BY <1>1, <1>8, <1>11, <1>12, RedisPut DEF LinkInv

\* The same for the local cache: the value comes from the row or from redis.
LEMMA LocalWritten ==
  ASSUME LinkInv, UNCHANGED <<now, link, state, deletedAt>>, NEW n \in Nodes,
         NEW k \in Keys, NEW l \in Longs, NEW x \in Nat, LocalSet(n, k, l, x),
         Coherent(k, [long |-> l, exp |-> x]),
         NotDeletedBefore(k, now - (RedisBound - 1 + CallTime))
  PROVE  LocalOK' /\ local' \in [Nodes -> [Keys -> Entries]]
<1>1. /\ Typed /\ now \in Nat /\ Base58Decode(k) \in Seqs
      /\ deletedAt[Base58Decode(k)] \in Nat
  BY TypedFacts, KeyFacts DEF LinkInv
<1>2. PICK u \in Nat : u = now + LocalTTL
  BY <1>1
<1>3. PICK e \in Entries : e = [long |-> l, exp |-> x, until |-> u]
  BY EntryFacts
<1>4. local' = [local EXCEPT ![n][k] = e]
  BY <1>2, <1>3 DEF LocalSet
<1>5. e.long = l /\ e.exp = x /\ e.until = u
  BY <1>3
<1>6. u \in (now + 1) .. (now + LocalTTL)
  BY <1>1, <1>2
<1>7. NotDeletedBefore(k, u - LocalBound)
  BY <1>1, <1>2 DEF NotDeletedBefore, LocalBound, RedisBound, CallTime
<1>8. Kept(k, e, LocalTTL, LocalBound)'
  BY <1>5, <1>6, <1>7 DEF Kept, Coherent, NotDeletedBefore, Base58Decode
<1>9. Monotone
  BY <1>1, TableMonotone DEF TableStep
<1> QED
  BY <1>1, <1>4, <1>8, <1>9, LocalPut DEF LinkInv

\* redis takes the value.
LEMMA SetRedisStep ==
  ASSUME LinkInv, NEW r \in Reqs, SetRedis(r)
  PROVE  Outcome
<1> DEFINE w == [req[r] EXCEPT !.pc = "setReply"]
<1>1. /\ UNCHANGED <<now, nextSeq, link, state, local, deletedAt, promised>>
      /\ At(r, "setRedis") /\ req[r].pc = "setRedis" /\ resp' = NoResp
  BY DEF SetRedis, At
<1>2. /\ Typed /\ TableStep /\ Monotone /\ Sound(req[r]) /\ req[r] \in Requests
      /\ nextSeq' \in 1 .. (MaxSeq + 1)
  BY <1>1, TypedFacts, TableMonotone DEF LinkInv, TableStep, Typed
<1>3. /\ w \in Requests /\ w.pc = "setReply" /\ w.op = req[r].op
      /\ w.node = req[r].node /\ w.long = req[r].long /\ w.key = req[r].key
      /\ w.exp = req[r].exp /\ w.start = req[r].start /\ w.ttl = req[r].ttl
  BY <1>2 DEF Requests
<1>4. PICK v \in Requests : v = w /\ req' = [req EXCEPT ![r] = v]
  BY <1>3 DEF SetRedis, Goto
<1> HIDE DEF w
<1>5. Sound(v)'
  <2>1. Sound(v)
    BY <1>1, <1>2, <1>3, <1>4 DEF Sound, Coherent
  <2> QED
    BY <1>2, <2>1, SoundKept
<1>6. RedisOK' /\ redis' \in [Keys -> Entries]
  BY <1>1, RedisWritten DEF SetRedis
<1>7. Drawn'
  <2>1. \A q \in Reqs : req'[q].pc = "insert" => req'[q] = req[q]
    BY <1>2, <1>3, <1>4 DEF Typed
  <2> QED
    BY <1>1, <1>2, <2>1, DrawnKept DEF LinkInv
<1>8. LinkInv'
  BY <1>1, <1>2, <1>4, <1>5, <1>6, <1>7, MoveStep, Unwritten
<1> QED
  BY <1>1, <1>2, <1>8, NoResponse DEF Outcome

\* The answer, and the local cache, when redis has taken the value or failed.
LEMMA SetReplySteps ==
  ASSUME LinkInv, NEW r \in Reqs, SetReply(r) \/ SetRedisFails(r)
  PROVE  Outcome
<1> DEFINE s == Base58Decode(req[r].key)
<1>1. /\ UNCHANGED <<now, nextSeq, link, state, redis, deletedAt>>
      /\ At(r, "setRedis") \/ At(r, "setReply")
      /\ Answer(r)
  BY DEF SetReply, SetRedisFails
<1>2. /\ Typed /\ TableStep /\ Sound(req[r]) /\ req[r].key \in Keys /\ s \in Seqs
      /\ req[r].exp \in Nat /\ req[r].start \in Nat /\ now \in Nat
      /\ deletedAt[s] \in Nat
  BY <1>1, TypedFacts DEF LinkInv, TableStep
<1>3. /\ req' = [req EXCEPT ![r] = Idle] /\ TrueResponse'
      /\ promised' \in [Classes -> SUBSET Seqs] /\ PromisesOK'
  BY <1>1, AnswerFacts
<1>4. LocalOK' /\ local' \in [Nodes -> [Keys -> Entries]]
  <2>1. CASE UNCHANGED local
    BY <1>1, <1>2, <2>1, Unwritten
  <2>2. CASE Sent(r) /\ LocalSet(req[r].node, req[r].key, req[r].long, req[r].exp)
    <3>1. /\ Coherent(req[r].key, req[r]) /\ req[r].long \in Longs
          /\ req[r].node \in Nodes /\ NotDeletedBefore(req[r].key, req[r].start)
      BY <1>1, <1>2 DEF Sound, At
    <3>2. PICK n \in Nodes, k \in Keys, l \in Longs, x \in Nat :
            n = req[r].node /\ k = req[r].key /\ l = req[r].long /\ x = req[r].exp
      BY <1>2, <3>1
    <3>3. Coherent(k, [long |-> l, exp |-> x])
      BY <3>1, <3>2 DEF Coherent
    <3>4. NotDeletedBefore(k, now - (RedisBound - 1 + CallTime))
      BY <1>2, <2>2, <3>1, <3>2 DEF Sent, NotDeletedBefore, RedisBound, CallTime
    <3> QED
      BY <1>1, <2>2, <3>2, <3>3, <3>4, LocalWritten
  <2> QED
    BY <2>1, <2>2 DEF SetReply, SetRedisFails
<1>5. LinkInv'
  BY <1>1, <1>2, <1>3, <1>4, FreedStep, Unwritten
<1> QED
  BY <1>2, <1>3, <1>5 DEF Outcome

\* A value that redis had goes to the local cache and to the visitor.
LEMMA GetReplyStep ==
  ASSUME LinkInv, NEW r \in Reqs, GetReply(r)
  PROVE  Outcome
<1>1. /\ UNCHANGED <<now, nextSeq, link, state, redis, deletedAt, promised>>
      /\ req[r].pc = "getReply" /\ Sent(r)
      /\ LocalSet(req[r].node, req[r].key, req[r].long, req[r].exp)
      /\ Respond(r, CachedStatus(req[r].exp), req[r].long)
  BY DEF GetReply, At
<1>2. /\ Typed /\ TableStep /\ Sound(req[r]) /\ req[r].key \in Keys
      /\ now \in Nat /\ req[r].start \in Nat /\ req[r].exp \in Nat
      /\ deletedAt[Base58Decode(req[r].key)] \in Nat
  BY <1>1, TypedFacts DEF LinkInv, TableStep
<1>3. /\ req[r].node \in Nodes /\ req[r].long \in Longs /\ req[r].start <= now
      /\ Coherent(req[r].key, req[r])
      /\ NotDeletedBefore(req[r].key, req[r].start - (RedisBound - 1))
  BY <1>1, <1>2 DEF Sound
<1>4. PICK n \in Nodes, k \in Keys, l \in Longs, x \in Nat :
        n = req[r].node /\ k = req[r].key /\ l = req[r].long /\ x = req[r].exp
  BY <1>2, <1>3
<1>5. Coherent(k, [long |-> l, exp |-> x])
  BY <1>3, <1>4 DEF Coherent
<1>6. NotDeletedBefore(k, now - (RedisBound - 1 + CallTime))
  BY <1>1, <1>2, <1>3, <1>4, BoundFacts DEF Sent, NotDeletedBefore, CallTime
<1>7. LocalOK' /\ local' \in [Nodes -> [Keys -> Entries]]
  BY <1>1, <1>4, <1>5, <1>6, LocalWritten
<1>8. /\ req' = [req EXCEPT ![r] = Idle] /\ (~InTime(r) => TrueResponse')
      /\ InTime(r) => /\ resp'.key = k /\ resp'.long = req[r].long
                      /\ resp'.status = CachedStatus(req[r].exp)
                      /\ resp'.start = req[r].start
  BY <1>1, <1>4, RespondFacts
<1>9. InTime(r) => TrueResponse'
  <2>1. NotDeletedBefore(k, now - StaleBound)
    BY <1>2, <1>4, <1>6, BoundFacts DEF NotDeletedBefore
  <2>2. InTime(r) => now <= req[r].start + ReqTimeout
    BY DEF InTime
  <2> QED
    BY <1>1, <1>2, <1>3, <1>4, <1>8, <2>1, <2>2, ServedTrue
<1>10. LinkInv'
  BY <1>1, <1>2, <1>7, <1>8, FreedStep, Unwritten
<1> QED
  BY <1>2, <1>8, <1>9, <1>10 DEF Outcome

\* The UPDATE of the row is the map's Remove.
LEMMA SoftDeleteFacts ==
  ASSUME LinkInv, NEW r \in Reqs, SoftDelete(r), UNCHANGED <<now, link>>
  PROVE  /\ TableStep /\ state'[Base58Decode(req[r].key)] = "deleted"
         /\ \A s \in Seqs : state[s] = "none" => state'[s] = "none"
<1>1. Typed /\ Base58Decode(req[r].key) \in Seqs
  BY TypedFacts DEF LinkInv
<1>2. Map!Remove(Base58Decode(req[r].key))
  BY DEF SoftDelete, Map!Remove
<1> QED
  BY <1>1, <1>2 DEF TableStep, Map!Remove, Typed

LEMMA DeleteRowSteps ==
  ASSUME LinkInv, NEW r \in Reqs, DeleteRow(r) \/ DeleteRowFails(r)
  PROVE  Outcome
<1>1. CASE DeleteRow(r)
  <2> DEFINE w == [req[r] EXCEPT !.pc = "delRedis"]
  <2>1. /\ Typed /\ Sound(req[r]) /\ now \in Nat /\ req[r] \in Requests
        /\ req[r].start \in Nat /\ req[r].pc = "deleteDB"
        /\ SoftDelete(r) /\ resp' = NoResp
        /\ UNCHANGED <<now, nextSeq, link, redis, local, promised>>
    BY <1>1, TypedFacts DEF LinkInv, DeleteRow, At
  <2>2. /\ w \in Requests /\ w.pc = "delRedis" /\ w.key = req[r].key
        /\ w.op = req[r].op /\ w.node = req[r].node /\ w.start = req[r].start /\ w.ttl = req[r].ttl
    BY <2>1 DEF Requests
  <2>3. PICK v \in Requests : v = w /\ req' = [req EXCEPT ![r] = v]
    BY <1>1, <2>2 DEF DeleteRow, Goto
  <2> HIDE DEF w
  <2>4. /\ TableStep /\ state'[Base58Decode(req[r].key)] = "deleted"
        /\ \A s \in Seqs : state[s] = "none" => state'[s] = "none"
    BY <2>1, SoftDeleteFacts
  <2>5. Sound(v)'
    BY <2>1, <2>2, <2>3, <2>4 DEF Sound, Nodes, Base58Decode
  <2>6. Drawn' /\ nextSeq' \in 1 .. (MaxSeq + 1)
    <3>1. \A q \in Reqs : req'[q].pc = "insert" => req'[q] = req[q]
      BY <2>1, <2>2, <2>3 DEF Typed
    <3> QED
      BY <2>1, <2>4, <3>1, DrawnKept DEF LinkInv, Typed
  <2>7. LinkInv'
    BY <2>1, <2>3, <2>4, <2>5, <2>6, MoveStep, Unwritten
  <2> QED
    BY <2>1, <2>4, <2>7, NoResponse DEF Outcome
<1>2. CASE DeleteRowFails(r)
  <2>1. /\ Fails(r, "error")
        /\ UNCHANGED <<now, nextSeq, link, redis, local, promised>>
        /\ SoftDelete(r) \/ UNCHANGED <<state, deletedAt>>
    BY <1>2 DEF DeleteRowFails
  <2>2. req' = [req EXCEPT ![r] = Idle] /\ TrueResponse'
    BY <2>1, FailFacts
  <2>3. CASE SoftDelete(r)
    BY <2>1, <2>2, <2>3, SoftDeleteFacts, FreedStep, Unwritten DEF Outcome
  <2>4. CASE UNCHANGED <<state, deletedAt>>
    BY <2>1, <2>2, <2>4, SlotFreed DEF Outcome
  <2> QED
    BY <2>1, <2>3, <2>4
<1> QED
  BY <1>1, <1>2

\* The key goes from redis, and the link is gone when the client hears of it.
LEMMA DeleteCachedSteps ==
  ASSUME LinkInv, NEW r \in Reqs,
         DeleteCached(r) \/ DeleteCachedAgain(r) \/ DeleteCachedFails(r)
  PROVE  Outcome
<1>1. /\ UNCHANGED <<now, nextSeq, link, state, local, deletedAt, promised>>
      /\ req[r].pc = "delRedis"
      /\ UNCHANGED redis \/ DelKey(r)
  BY DEF DeleteCached, DeleteCachedAgain, DeleteCachedFails, At
<1>2. /\ Typed /\ TableStep /\ Monotone /\ Sound(req[r]) /\ req[r].key \in Keys
  BY <1>1, TypedFacts, TableMonotone DEF LinkInv, TableStep
<1>3. RedisOK' /\ redis' \in [Keys -> Entries]
  <2>1. CASE UNCHANGED redis
    BY <1>1, <1>2, <2>1, Unwritten
  <2>2. CASE DelKey(r)
    <3>1. PICK k \in Keys : k = req[r].key
      BY <1>2
    <3>2. Kept(k, NoEntry, RedisTTL + Jitter, RedisBound)'
      BY DEF Kept, NoEntry
    <3> QED
      BY <1>1, <1>2, <2>2, <3>1, <3>2, RedisPut, EntryFacts DEF DelKey, LinkInv
  <2> QED
    BY <1>1, <2>1, <2>2
<1>4. CASE DeleteCachedAgain(r)
  <2>1. UNCHANGED req /\ resp' = NoResp /\ now' \in Times
    BY <1>1, <1>2, <1>4 DEF DeleteCachedAgain, Typed
  <2>2. LinkInv'
    BY <1>1, <1>2, <1>3, <2>1, StillStep, Unwritten
  <2> QED
    BY <1>2, <2>1, <2>2, NoResponse DEF Outcome
<1>5. CASE DeleteCached(r) \/ DeleteCachedFails(r)
  <2>1. req' = [req EXCEPT ![r] = Idle] /\ TrueResponse'
    <3>1. CASE DeleteCached(r)
      <4>1. /\ req' = [req EXCEPT ![r] = Idle] /\ resp'.op = "delete"
            /\ resp'.status = "ok" /\ resp'.key = req[r].key
        BY <1>1, <1>2, <3>1, RespondFacts DEF DeleteCached, Sound
      <4>2. state[Base58Decode(req[r].key)] \in {"deleted", "reaped"}
        BY <1>1, <1>2 DEF Sound
      <4> QED
        BY <1>1, <4>1, <4>2
           DEF TrueResponse, Response, Map!Truthful, Map!RemovedIsTrue,
               NeverServesExpired, Base58Decode
    <3>2. CASE DeleteCachedFails(r)
      BY <3>2, FailFacts DEF DeleteCachedFails
    <3> QED
      BY <1>5, <3>1, <3>2
  <2>2. LinkInv'
    BY <1>1, <1>2, <1>3, <2>1, FreedStep, Unwritten
  <2> QED
    BY <1>2, <2>1, <2>2 DEF Outcome
<1> QED
  BY <1>4, <1>5

-----------------------------------------------------------------------------
(* Together *)

LEMMA LinkInit == Init => LinkInv /\ TrueResponse
<1> SUFFICES ASSUME Init
             PROVE  LinkInv /\ TrueResponse
  OBVIOUS
<1>1. Typed
  BY EntryFacts, IdleFacts DEF Init, Typed, Times, Seqs
<1>2. Table /\ Drawn /\ PromisesOK
  BY IdleFacts DEF Init, Table, Drawn, PromisesOK
<1>3. \A r \in Reqs : Sound(req[r])
  BY <1>1, IdleSound DEF Init
<1>4. RedisOK /\ LocalOK
  BY DEF Init, RedisOK, LocalOK, Kept
<1>5. TrueResponse
  BY DEF Init, NoResp, TrueResponse, Response, Map!Truthful, Map!Silent,
         NeverServesExpired
<1> QED
  BY <1>1, <1>2, <1>3, <1>4, <1>5 DEF LinkInv

LEMMA LinkStep ==
  ASSUME LinkInv, Next
  PROVE  Outcome
<1>1. ASSUME NEW r \in Reqs, ReqStart(r)
      PROVE  Outcome
  BY <1>1, StartSteps, HitLocalStep, GetByLongSteps DEF ReqStart, Nodes
<1>2. ASSUME NEW r \in Reqs, ReqStep(r)
      PROVE  Outcome
  BY <1>2, FailingSteps, MovingSteps, RowReplyStep, HitRedisStep, RefusingSteps,
     CreateNextStep, CreateInsertStep, SetRedisStep, SetReplySteps, GetReplyStep,
     DeleteRowSteps, DeleteCachedSteps DEF ReqStep
<1> QED
  BY <1>1, <1>2, JanitorStep, EvictStep, TickStep DEF Next

\* LinkInv is inductive, and every answer is true.
THEOREM LinkInvariant == Spec => [](LinkInv /\ TrueResponse)
<1>1. LinkInv /\ TrueResponse /\ [Next]_vars => (LinkInv /\ TrueResponse)'
  <2> SUFFICES ASSUME LinkInv, TrueResponse, [Next]_vars
               PROVE  (LinkInv /\ TrueResponse)'
    OBVIOUS
  <2>1. CASE Next
    BY <2>1, LinkStep DEF Outcome
  <2>2. CASE UNCHANGED vars
    <3>1. TableStep /\ now' \in Times
      BY <2>2 DEF vars, TableStep, LinkInv, Typed
    <3>2. LinkInv'
      BY <2>2, <3>1, StillStep, Unwritten DEF vars
    <3>3. TrueResponse'
      BY <2>2
         DEF vars, TrueResponse, Response, Map!Truthful, Map!Silent, Map!FoundIsTrue,
             Map!CreatedIsTrue, Map!InfoIsTrue, Map!RemovedIsTrue,
             Map!Same, Map!Expired, NeverServesExpired, Base58Decode
    <3> QED
      BY <3>2, <3>3
  <2> QED
    BY <2>1, <2>2
<1> QED
  BY <1>1, LinkInit, PTL DEF Spec

\* The types, and that no cache holds an entry past its lifetime.
THEOREM LinkTyped == Spec => []TypeOK
<1>1. LinkInv => TypeOK
  <2> SUFFICES ASSUME LinkInv
               PROVE  TypeOK
    OBVIOUS
  <2>1. CacheType(redis, RedisTTL + Jitter)
    BY DEF LinkInv, RedisOK, Kept, CacheType, Typed, Entries
  <2>2. \A n \in Nodes : CacheType(local[n], LocalTTL)
    BY DEF LinkInv, LocalOK, Kept, CacheType, Typed, Entries
  <2>3. \A r \in Reqs :
          /\ req[r].pc \in {"idle", "next", "insert", "lookup", "rowReply",
                            "setRedis", "setReply", "getRedis", "getReply",
                            "getDB", "deleteDB", "delRedis"}
          /\ req[r].ttl \in 0 .. RedisTTL /\ req[r].start \in 0 .. now
    BY TypedFacts DEF LinkInv, Sound, Requests
  <2> QED
    BY <2>1, <2>2, <2>3 DEF LinkInv, Typed, TypeOK
<1> QED
  BY <1>1, LinkInvariant, PTL

\* A value cached under a code is the link of that code, in redis and in the
\* process of every query service, whoever wrote it and whatever happened to the
\* row between the read and the write.
THEOREM CachesCoherent == Spec => []CacheCoherent
<1>1. LinkInv => CacheCoherent
  BY DEF LinkInv, RedisOK, LocalOK, Kept, CacheCoherent
<1> QED
  BY <1>1, LinkInvariant, PTL

\* Two answers for one URL name the same link, or one of the two was reaped.
THEOREM OneLinkPerURL == Spec => []SameURLSameLink
<1>1. LinkInv => SameURLSameLink
  <2> SUFFICES ASSUME LinkInv, NEW u \in Classes, NEW s \in Seqs, NEW t \in Seqs,
                      s \in promised[u], t \in promised[u]
               PROVE  /\ state[s] # "none" /\ Collate[link[s].long] = u
                      /\ s = t \/ "reaped" \in {state[s], state[t]}
    BY DEF SameURLSameLink
  <2>1. /\ state[s] # "none" /\ Collate[link[s].long] = u
        /\ state[t] # "none" /\ Collate[link[t].long] = u
    BY DEF LinkInv, PromisesOK
  <2> QED
    BY <2>1, TypedFacts DEF LinkInv, Table
<1> QED
  BY <1>1, LinkInvariant, PTL

\* A visitor who comes when the link has expired is not sent on.
THEOREM ExpiredNeverServed == Spec => []NeverServesExpired
<1>1. LinkInv /\ TrueResponse => NeverServesExpired
  BY DEF TrueResponse
<1> QED
  BY <1>1, LinkInvariant, PTL

\* A redirect follows a deleted link for at most StaleBound.
THEOREM DeletedGone == Spec => []DeletedFadesOut
<1>1. LinkInv /\ TrueResponse => DeletedFadesOut
  BY DEF TrueResponse, Response, Map!Truthful, Map!Silent, Map!FoundIsTrue,
         DeletedFadesOut
<1> QED
  BY <1>1, LinkInvariant, PTL

\* The service with its caches, its requests in flight and its failing calls
\* implements the map: the table changes as the map does, and every answer is true
\* of the map, but for the time it may lag behind an expiry or a deletion.
THEOREM ServiceImplementsMap == Spec => ImplementsLinkMap
<1>1. Init => Map!MapInit
  BY DEF Init, Map!MapInit, Map!Seqs, Seqs, NoResp
<1>2. LinkInv /\ [Next]_vars => [Map!MapNext]_<<Map!map, Response>>
  <2> SUFFICES ASSUME LinkInv, [Next]_vars
               PROVE  [Map!MapNext]_<<Map!map, Response>>
    OBVIOUS
  <2>1. CASE Next
    <3>1. TableStep /\ TrueResponse'
      BY <2>1, LinkStep DEF Outcome
    <3> QED
      BY <3>1
         DEF TableStep, TrueResponse, Response, Map!MapNext, Map!map, Map!Seqs, Seqs,
             LinkExpiries
  <2>2. CASE UNCHANGED vars
    BY <2>2 DEF vars, Map!map, Response, Base58Decode
  <2> QED
    BY <2>1, <2>2
<1> QED
  BY <1>1, <1>2, LinkInvariant, PTL DEF Spec, ImplementsLinkMap, Map!MapSpec, Response

=============================================================================
