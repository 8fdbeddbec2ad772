---------------------------- MODULE TokenLimiter ----------------------------
(***************************************************************************)
(* The rate limiter of the management API (pkg/workqueue): a token bucket  *)
(* in redis that all processes share, kept by a Lua script, and in every   *)
(* process a bucket of its own that takes over ("rescue") while redis does *)
(* not answer.  A goroutine, waitForRedis, is to end the rescue.           *)
(*                                                                         *)
(* The script goes by the time the request brings along, which is the      *)
(* clock of the process that sends it; redis expires the keys by its own.  *)
(* A process's clock is ahead of redis's by something from 0 to MaxSkew,   *)
(* not always the same: clocks are adjusted.                               *)
(*                                                                         *)
(* Amounts of tokens are multiples of 1/Second of a token, where Second is *)
(* the number of clock ticks in a second, so that a tick adds Rate to a    *)
(* bucket and a request takes Second from it.                              *)
(***************************************************************************)
EXTENDS Integers

CONSTANTS
  Procs,       \* the processes
  Rate,        \* tokens per second
  Capacity,    \* tokens in a full bucket
  Second,      \* clock ticks per second (1000: the script counts milliseconds)
  MaxSkew,     \* how far the clocks of the processes are apart
  MaxTime,     \* bound of the clock
  MaxBehind,   \* bound on the requests behind the clock of an earlier one
  MaxProbes    \* bound on the goroutines waiting to run waitForRedis

ASSUME PositiveRates ==
  /\ Rate \in Nat \ {0}
  /\ Capacity \in Nat \ {0}
  /\ Second \in Nat \ {0}

ASSUME BoundsNatural == {MaxTime, MaxBehind, MaxProbes} \subseteq Nat

\* The clocks differ by less than the time in which an empty bucket fills.
ASSUME SkewBelowFill ==
  /\ MaxSkew \in Nat
  /\ Rate * (MaxSkew + 1) <= Capacity * Second

VARIABLES
  now,       \* the clock of redis
  \* redis: the two keys of the limiter, written and expired together
  tokens,    \* value of the tokens key
  ts,        \* value of the timestamp key
  until,     \* when both keys expire; 0 while they do not exist
  up,        \* redis answers
  \* every process
  alive,     \* alive[p]: redisAlive
  locked,    \* locked[p]: rescueLock is held, waitForRedis is in its loop
  probes,    \* probes[p]: started goroutines that have not tried the lock yet
  bucket,    \* bucket[p]: the tokens of rescueLimiter now
  \* history
  admitted,  \* requests that the bucket in redis let through
  behind,    \* requests whose time was before the one stored by an earlier one
  rescued    \* rescued[p]: requests that the rescue bucket of p let through

vars == <<now, tokens, ts, until, up, alive, locked, probes, bucket, admitted,
          behind, rescued>>

Full == Capacity * Second

Least(a, b) == IF a <= b THEN a ELSE b

\* Mutant: the keys expire after the time in which a bucket fills.
FillTime == (Second * Capacity) \div Rate

\* The keys expire after twice the time in which an empty bucket fills.
TTL == (2 * Second * Capacity) \div Rate

Init ==
  /\ now = 0
  /\ tokens = 0
  /\ ts = 0
  /\ until = 0
  /\ up = TRUE
  /\ alive = [p \in Procs |-> TRUE]
  /\ locked = [p \in Procs |-> FALSE]
  /\ probes = [p \in Procs |-> 0]
  /\ bucket = [p \in Procs |-> Full]
  /\ admitted = 0
  /\ behind = 0
  /\ rescued = [p \in Procs |-> 0]

-----------------------------------------------------------------------------
(* The Lua script *)

\* The request's time is before the one of an earlier request.
Behind(t) == until # 0 /\ t < ts

\* Mutant: the time since the last request, which may be negative.
ElapsedSigned(t) == t - ts

\* The time since the last request.
Elapsed(t) == IF t > ts THEN t - ts ELSE 0

\* What a request of time t finds in the bucket: a full one if the keys do not
\* exist, and otherwise what was left, with what time has added.
Filled(t) ==
  IF until = 0 THEN Full ELSE Least(Full, tokens + Elapsed(t) * Rate)

Allowed(t) == Filled(t) >= Second

\* Both keys are written whatever the outcome, also with a time before the one
\* that is there.  PSETEX refuses a lifetime of 0.
ScriptAt(t) ==
  /\ TTL > 0
  /\ tokens' = IF Allowed(t) THEN Filled(t) - Second ELSE Filled(t)
  /\ ts' = t
  /\ until' = now + TTL
  /\ admitted' = admitted + (IF Allowed(t) THEN 1 ELSE 0)
  /\ behind' = behind + (IF Behind(t) THEN 1 ELSE 0)

\* A process runs the script with the time of its own clock.
Script ==
  \E t \in now .. (now + MaxSkew) :
    /\ Behind(t) => behind < MaxBehind
    /\ ScriptAt(t)

keys == <<tokens, ts, until, admitted, behind>>

-----------------------------------------------------------------------------
(* reserveN *)

\* redis answers: the script decides.
TakeRedis(p) ==
  /\ alive[p]
  /\ up
  /\ Script
  /\ UNCHANGED <<now, up, alive, locked, probes, bucket, rescued>>

\* The request's context ends during the call: it is refused, whether or not the
\* script ran.
TakeCancelled(p) ==
  /\ alive[p]
  /\ (up /\ Script) \/ UNCHANGED keys
  /\ UNCHANGED <<now, up, alive, locked, probes, bucket, rescued>>

\* Mutant: a rescue limiter of its own for every request.
RescueTakeFresh(p) ==
  /\ rescued' = [rescued EXCEPT ![p] = @ + 1]
  /\ UNCHANGED bucket

\* rescueLimiter.Take, a rate.Limiter.
RescueTake(p) ==
  IF bucket[p] >= Second
    THEN /\ bucket' = [bucket EXCEPT ![p] = @ - Second]
         /\ rescued' = [rescued EXCEPT ![p] = @ + 1]
    ELSE UNCHANGED <<bucket, rescued>>

\* redis fails the call, possibly after the script ran: waitForRedis is started
\* and the rescue bucket decides.
TakeFails(p) ==
  /\ alive[p]
  /\ (up /\ Script) \/ UNCHANGED keys
  /\ probes[p] < MaxProbes
  /\ probes' = [probes EXCEPT ![p] = @ + 1]
  /\ RescueTake(p)
  /\ UNCHANGED <<now, up, alive, locked>>

\* redis is known to be down: the rescue bucket decides.
TakeRescue(p) ==
  /\ ~alive[p]
  /\ RescueTake(p)
  /\ UNCHANGED <<now, tokens, ts, until, up, alive, locked, probes, admitted,
                 behind>>

-----------------------------------------------------------------------------
(* waitForRedis *)

\* The goroutine tries the lock; if it is held, another one is waiting already.
WaitStart(p) ==
  /\ probes[p] > 0
  /\ probes' = [probes EXCEPT ![p] = @ - 1]
  /\ locked' = [locked EXCEPT ![p] = TRUE]
  /\ alive' = [alive EXCEPT ![p] = IF locked[p] THEN @ ELSE FALSE]
  /\ UNCHANGED <<now, tokens, ts, until, up, bucket, admitted,
                 behind, rescued>>

\* What StatusCmd.String of the redis client returns for a PING: the command and
\* its reply.
PingString == IF up THEN "ping: PONG" ELSE "ping: connection refused"

\* A tick of the goroutine: it compares the string and ends the rescue if equal.
WaitPing(p) ==
  /\ locked[p]
  /\ alive' = [alive EXCEPT ![p] = (PingString = "pong")]
  /\ locked' = [locked EXCEPT ![p] = (PingString # "pong")]
  /\ UNCHANGED <<now, tokens, ts, until, up, probes, bucket, admitted,
                 behind, rescued>>

-----------------------------------------------------------------------------
\* redis goes away or comes back, with its keys.
RedisChange ==
  /\ up' = ~up
  /\ UNCHANGED <<now, tokens, ts, until, alive, locked, probes, bucket, admitted,
                 behind, rescued>>

\* Time passes: redis expires the keys, the rescue buckets fill.
Tick ==
  /\ now < MaxTime
  /\ now' = now + 1
  /\ until' = IF until <= now + 1 THEN 0 ELSE until
  /\ bucket' = [p \in Procs |-> Least(Full, bucket[p] + Rate)]
  /\ UNCHANGED <<tokens, ts, up, alive, locked, probes, admitted,
                 behind, rescued>>

Take(p) == TakeRedis(p) \/ TakeCancelled(p) \/ TakeFails(p) \/ TakeRescue(p)

Next ==
  \/ \E p \in Procs : Take(p) \/ WaitStart(p) \/ WaitPing(p)
  \/ RedisChange
  \/ Tick

Spec == Init /\ [][Next]_vars

\* Goroutines are scheduled, and the ticker of waitForRedis ticks.
FairSpec ==
  /\ Spec
  /\ \A p \in Procs : WF_vars(WaitStart(p)) /\ WF_vars(WaitPing(p))

-----------------------------------------------------------------------------
(* Properties *)

TypeOK ==
  /\ now \in 0 .. MaxTime
  /\ tokens \in 0 .. Full
  /\ ts \in 0 .. (now + MaxSkew)
  /\ until \in Nat
  /\ up \in BOOLEAN
  /\ alive \in [Procs -> BOOLEAN]
  /\ locked \in [Procs -> BOOLEAN]
  /\ probes \in [Procs -> 0 .. MaxProbes]
  /\ bucket \in [Procs -> 0 .. Full]
  /\ admitted \in Nat
  /\ behind \in 0 .. MaxBehind
  /\ rescued \in [Procs -> Nat]

\* The processes together get no more through redis than a bucket of Capacity
\* refilled at Rate allows, and what is in the bucket counts against it.  The
\* expiry of the keys, after which the script starts with a full bucket, gives
\* nothing away: by then time alone would have filled it.  Clocks that differ
\* cost one skew once, and one more for each request whose clock is behind that
\* of an earlier request, since its time is credited again to the next one.
GlobalLimit ==
  admitted * Second + Filled(now + MaxSkew)
    <= Full + Rate * (now + MaxSkew * (1 + behind))

\* In rescue a process keeps to the same limit on its own.
RescueLimit ==
  \A p \in Procs : rescued[p] * Second + bucket[p] <= Full + Rate * now

\* "check redis connection status until it's alive" (rate_limiters.go:359): a
\* process whose redis has come back for good does not stay in rescue.
RescueEnds == \A p \in Procs : <>[]up => []<>alive[p]

=============================================================================
