------------------------- MODULE TokenLimiterProofs -------------------------
(***************************************************************************)
(* Proofs about TokenLimiter, for every number of processes, every rate,   *)
(* capacity and clock resolution, and every skew below the fill time.      *)
(*                                                                         *)
(* GlobalLimit is not inductive: a script that finds no keys starts with a *)
(* full bucket and the skew of its clock may still be ahead, so the bound  *)
(* must be known with room to spare when the keys are gone.  Account keeps *)
(* the bound by the time the script stored instead, and KeysOutlive says   *)
(* why nothing is given away when the keys expire.                         *)
(***************************************************************************)
EXTENDS TokenLimiter, TLAPS

\* While the keys exist, the bound at the time that the script stored; without
\* them, a full bucket below the bound at the present time.
Account ==
  IF until = 0
    THEN admitted * Second <= Rate * now + Rate * MaxSkew * behind
    ELSE admitted * Second + tokens
           <= Full + Rate * ts + Rate * MaxSkew * behind

\* The keys go a lifetime after the request that wrote them, whose clock was at
\* most MaxSkew ahead.
KeysOutlive == until # 0 => now < until /\ ts + TTL <= until + MaxSkew

\* The inductive invariant.
LimitInv == TypeOK /\ Account /\ KeysOutlive

-----------------------------------------------------------------------------
(* Arithmetic *)

\* Division rounds down by less than the divisor.
LEMMA Rounding ==
  ASSUME NEW a \in Nat, NEW b \in Nat, b > 0
  PROVE  a \div b \in Nat /\ b * (a \div b) > a - b
<1>1. a \div b \in Nat
  OBVIOUS
<1>2. b * (a \div b) + b > a
  OBVIOUS
<1> QED
  BY <1>1, <1>2

\* Products of naturals are natural and grow with their factors.
LEMMA Products ==
  /\ \A a, b \in Nat : a * b \in Nat
  /\ \A a, b, c \in Int : a * (b + c) = a * b + a * c
  /\ \A a \in Nat : \A b, c \in Int : b <= c => a * b <= a * c
<1>1. \A a, b \in Nat : a * b \in Nat
  OBVIOUS
<1>2. \A a, b, c \in Int : a * (b + c) = a * b + a * c
  OBVIOUS
<1>3. \A a \in Nat : \A b, c \in Int : b <= c => a * b <= a * c
  OBVIOUS
<1> QED
  BY <1>1, <1>2, <1>3

\* Twice the fill time, rounded down, still outlasts one fill and one skew.
LEMMA TTLCovers == TTL \in Nat /\ Rate * TTL >= Full + Rate * MaxSkew
<1> DEFINE F == Capacity * Second
<1>1. F \in Nat /\ 2 * Second * Capacity = 2 * F
  BY PositiveRates
<1>2. Rate * MaxSkew + Rate <= F
  BY PositiveRates, SkewBelowFill
<1>3. TTL = (2 * F) \div Rate /\ Full = F
  BY <1>1 DEF TTL, Full
<1> HIDE DEF F
<1>4. (2 * F) \div Rate \in Nat /\ Rate * ((2 * F) \div Rate) > 2 * F - Rate
  BY <1>1, Rounding, PositiveRates
<1>5. Rate * TTL \in Int /\ Rate * MaxSkew \in Int
  BY <1>3, <1>4, PositiveRates, SkewBelowFill
<1> QED
  BY <1>1, <1>2, <1>3, <1>4, <1>5, PositiveRates

\* A full bucket holds at least one token.
LEMMA FullHolds == Full \in Nat /\ Second <= Full
BY PositiveRates, Products DEF Full

-----------------------------------------------------------------------------
(* The script *)

\* What the script finds is an amount between empty and full, and while the keys
\* exist not more than what was left and what the time since has added.
LEMMA FilledBounds ==
  ASSUME TypeOK, NEW t \in Nat
  PROVE  /\ Filled(t) \in 0 .. Full
         /\ until # 0 /\ t > ts => Filled(t) <= tokens + Rate * (t - ts)
         /\ until # 0 /\ t <= ts => Filled(t) = tokens
<1>1. tokens \in 0 .. Full /\ ts \in Nat
  BY DEF TypeOK
<1>2. t > ts => Rate * (t - ts) \in Nat /\ (t - ts) * Rate = Rate * (t - ts)
  BY <1>1, PositiveRates
<1>3. CASE until = 0
  BY <1>3, FullHolds DEF Filled
<1>4. CASE until # 0 /\ t > ts
  BY <1>1, <1>2, <1>4, FullHolds DEF Filled, Elapsed, Least
<1>5. CASE until # 0 /\ ~(t > ts)
  <2>1. Elapsed(t) * Rate = 0
    BY <1>5, PositiveRates DEF Elapsed
  <2> QED
    BY <1>1, <1>5, <2>1, FullHolds DEF Filled, Least
<1> QED
  BY <1>3, <1>4, <1>5

\* A run of the script keeps the account: what it lets through it takes out of
\* the bucket, and a time before the stored one costs at most one skew.
LEMMA ScriptKeeps ==
  ASSUME LimitInv, now' = now, NEW t \in now .. (now + MaxSkew),
         Behind(t) => behind < MaxBehind, ScriptAt(t)
  PROVE  /\ tokens' \in 0 .. Full /\ ts' \in 0 .. (now + MaxSkew)
         /\ until' \in Nat /\ admitted' \in Nat /\ behind' \in 0 .. MaxBehind
         /\ Account' /\ KeysOutlive'
<1> DEFINE R == Rate * MaxSkew
<1>1. /\ now \in Nat /\ t \in Nat /\ ts \in Nat /\ ts <= now + MaxSkew
      /\ tokens \in 0 .. Full /\ until \in Nat /\ admitted \in Nat
      /\ behind \in 0 .. MaxBehind /\ behind \in Nat
  BY BoundsNatural, SkewBelowFill DEF LimitInv, TypeOK
<1>2. /\ Filled(t) \in 0 .. Full
      /\ until # 0 /\ t > ts => Filled(t) <= tokens + Rate * (t - ts)
      /\ until # 0 /\ t <= ts => Filled(t) = tokens
  BY <1>1, FilledBounds DEF LimitInv
<1>3. TTL \in Nat /\ TTL > 0 /\ ts' = t /\ until' = now + TTL /\ until' # 0
  BY <1>1, TTLCovers DEF ScriptAt
<1>4. /\ tokens' \in 0 .. Full /\ admitted' \in Nat
      /\ admitted' * Second + tokens' = admitted * Second + Filled(t)
  BY <1>1, <1>2, PositiveRates, FullHolds DEF ScriptAt, Allowed
<1>5. /\ behind' = IF Behind(t) THEN behind + 1 ELSE behind
      /\ behind' \in 0 .. MaxBehind
  BY <1>1, BoundsNatural DEF ScriptAt
<1>6. Account'
  <2>0. /\ R \in Nat /\ R * behind \in Nat /\ Rate * t \in Nat /\ Rate * ts \in Nat
        /\ Rate * now \in Nat /\ admitted * Second \in Nat /\ Full \in Nat
        /\ R * (behind + 1) = R * behind + R
    BY <1>1, PositiveRates, SkewBelowFill, Products, FullHolds
  <2>1. admitted * Second + Filled(t) <= Full + Rate * t + R * behind'
    <3>1. CASE until = 0
      <4>1. Rate * now <= Rate * t
        BY <1>1, PositiveRates, Products
      <4>2. behind' = behind
        BY <1>5, <3>1 DEF Behind
      <4>3. admitted * Second <= Rate * now + R * behind
        BY <3>1 DEF LimitInv, Account
      <4> HIDE DEF R
      <4> QED
        BY <1>2, <2>0, <4>1, <4>2, <4>3
    <3>2. CASE until # 0 /\ t > ts
      <4>1. Rate * (t - ts) = Rate * t - Rate * ts
        BY <1>1, PositiveRates
      <4>2. behind' = behind
        BY <1>1, <1>5, <3>2 DEF Behind
      <4>3. admitted * Second + tokens <= Full + Rate * ts + R * behind
        BY <3>2 DEF LimitInv, Account
      <4> HIDE DEF R
      <4> QED
        BY <1>1, <1>2, <2>0, <3>2, <4>1, <4>2, <4>3
    <3>3. CASE until # 0 /\ t = ts
      <4>1. behind' = behind
        BY <1>1, <1>5, <3>3 DEF Behind
      <4>2. admitted * Second + tokens <= Full + Rate * ts + R * behind
        BY <3>3 DEF LimitInv, Account
      <4> HIDE DEF R
      <4> QED
        BY <1>1, <1>2, <2>0, <3>3, <4>1, <4>2
    <3>4. CASE until # 0 /\ t < ts
      <4>1. behind' = behind + 1
        BY <1>5, <3>4 DEF Behind
      <4>2. admitted * Second + tokens <= Full + Rate * ts + R * behind
        BY <3>4 DEF LimitInv, Account
      <4>3. Rate * ts <= Rate * (t + MaxSkew) /\ Rate * (t + MaxSkew) = Rate * t + R
        BY <1>1, PositiveRates, SkewBelowFill, Products
      <4> HIDE DEF R
      <4> QED
        BY <1>1, <1>2, <2>0, <3>4, <4>1, <4>2, <4>3
    <3> QED
      BY <1>1, <3>1, <3>2, <3>3, <3>4
  <2> QED
    BY <1>3, <1>4, <2>1 DEF Account, Full
<1>7. KeysOutlive'
  BY <1>1, <1>3, SkewBelowFill DEF KeysOutlive, TTL
<1> QED
  BY <1>1, <1>3, <1>4, <1>5, <1>6, <1>7

-----------------------------------------------------------------------------
(* The steps *)

\* The parts of TypeOK that the script and the clock leave alone.
ProcsOK ==
  /\ up \in BOOLEAN
  /\ alive \in [Procs -> BOOLEAN]
  /\ locked \in [Procs -> BOOLEAN]
  /\ probes \in [Procs -> 0 .. MaxProbes]
  /\ bucket \in [Procs -> 0 .. Full]
  /\ rescued \in [Procs -> Nat]

\* A run of the script, or none, keeps what concerns the keys.
LEMMA KeysStep ==
  ASSUME LimitInv, now' = now, Script \/ UNCHANGED keys, ProcsOK'
  PROVE  LimitInv'
<1>1. CASE Script
  <2>1. PICK t \in now .. (now + MaxSkew) :
               (Behind(t) => behind < MaxBehind) /\ ScriptAt(t)
    BY <1>1 DEF Script
  <2>2. /\ tokens' \in 0 .. Full /\ ts' \in 0 .. (now + MaxSkew)
        /\ until' \in Nat /\ admitted' \in Nat /\ behind' \in 0 .. MaxBehind
        /\ Account' /\ KeysOutlive'
    BY <2>1, ScriptKeeps
  <2>3. TypeOK'
    BY <2>2 DEF TypeOK, LimitInv, ProcsOK
  <2> QED
    BY <2>2, <2>3 DEF LimitInv
<1>2. CASE UNCHANGED keys
  BY <1>2 DEF keys, LimitInv, TypeOK, ProcsOK, Account, KeysOutlive
<1> QED
  BY <1>1, <1>2

\* The rescue bucket stays between empty and full.
LEMMA RescueKeeps ==
  ASSUME TypeOK, NEW p \in Procs, RescueTake(p)
  PROVE  bucket' \in [Procs -> 0 .. Full] /\ rescued' \in [Procs -> Nat]
<1>1. bucket[p] \in 0 .. Full /\ rescued[p] + 1 \in Nat
  BY DEF TypeOK
<1>2. bucket[p] >= Second => bucket[p] - Second \in 0 .. Full
  BY <1>1, FullHolds, PositiveRates
<1> QED
  BY <1>1, <1>2 DEF RescueTake, TypeOK

\* When the keys expire a whole fill time has passed on every clock, so the full
\* bucket that the next script starts with has been earned.
LEMMA TickKeeps ==
  ASSUME LimitInv, Tick
  PROVE  LimitInv'
<1>1. /\ now \in Nat /\ now' = now + 1 /\ now' \in 0 .. MaxTime /\ until \in Nat
      /\ ts \in Nat /\ tokens \in Nat /\ admitted \in Nat /\ behind \in Nat
      /\ UNCHANGED <<tokens, ts, admitted, behind>>
      /\ until' = IF until <= now + 1 THEN 0 ELSE until
  BY BoundsNatural, FullHolds DEF LimitInv, TypeOK, Tick
<1>2. bucket' \in [Procs -> 0 .. Full]
  BY FullHolds, PositiveRates DEF LimitInv, TypeOK, Tick, Least
<1>3. TypeOK'
  BY <1>1, <1>2, SkewBelowFill DEF LimitInv, TypeOK, Tick
<1>4. KeysOutlive'
  BY <1>1 DEF LimitInv, KeysOutlive, TTL
<1>5. Account'
  <2> DEFINE R == Rate * MaxSkew
  <2>0. /\ R \in Nat /\ R * behind \in Nat /\ Rate * ts \in Nat /\ Full \in Nat
        /\ Rate * now \in Nat /\ Rate * (now + 1) \in Nat /\ admitted * Second \in Nat
        /\ Rate * now <= Rate * (now + 1)
    BY <1>1, PositiveRates, SkewBelowFill, Products, FullHolds
  <2>1. CASE until = 0
    <3>1. admitted * Second <= Rate * now + R * behind /\ until' = 0
      BY <1>1, <2>1 DEF LimitInv, Account
    <3>2. admitted * Second <= Rate * (now + 1) + R * behind
      <4> HIDE DEF R
      <4> QED
        BY <2>0, <3>1
    <3> QED
      BY <1>1, <3>1, <3>2 DEF Account
  <2>2. CASE until # 0 /\ until <= now + 1
    <3>1. admitted * Second + tokens <= Full + Rate * ts + R * behind /\ until' = 0
      BY <1>1, <2>2 DEF LimitInv, Account
    <3>2. ts + TTL <= (now + 1) + MaxSkew /\ TTL \in Nat
      BY <1>1, <2>2, TTLCovers, SkewBelowFill DEF LimitInv, KeysOutlive
    <3>3. Rate * (ts + TTL) <= Rate * ((now + 1) + MaxSkew)
      BY <1>1, <3>2, PositiveRates, SkewBelowFill, Products
    <3>4. /\ Rate * (ts + TTL) = Rate * ts + Rate * TTL
          /\ Rate * ((now + 1) + MaxSkew) = Rate * (now + 1) + R
      BY <1>1, <3>2, PositiveRates, SkewBelowFill, Products
    <3>5. Rate * TTL >= Full + R /\ Rate * TTL \in Nat
      BY TTLCovers, PositiveRates, Products
    <3>6. admitted * Second <= Rate * (now + 1) + R * behind
      <4> HIDE DEF R
      <4> QED
        BY <1>1, <2>0, <3>1, <3>3, <3>4, <3>5
    <3> QED
      BY <1>1, <3>1, <3>6 DEF Account
  <2>3. CASE ~(until <= now + 1)
    BY <1>1, <2>3 DEF LimitInv, Account, Full
  <2> QED
    BY <2>1, <2>2, <2>3
<1> QED
  BY <1>3, <1>4, <1>5 DEF LimitInv

LEMMA LimitInit == Init => LimitInv
<1>1. Init => TypeOK
  BY FullHolds, BoundsNatural, SkewBelowFill DEF Init, TypeOK
<1>2. Init => Account
  BY PositiveRates, SkewBelowFill DEF Init, Account
<1>3. Init => KeysOutlive
  BY DEF Init, KeysOutlive
<1> QED
  BY <1>1, <1>2, <1>3 DEF LimitInv

LEMMA LimitStep ==
  ASSUME LimitInv, [Next]_vars
  PROVE  LimitInv'
<1>0. ProcsOK /\ TypeOK
  BY DEF LimitInv, TypeOK, ProcsOK
<1>1. ASSUME NEW p \in Procs, TakeRedis(p)
      PROVE  LimitInv'
  <2>1. ProcsOK'
    BY <1>0, <1>1 DEF TakeRedis, ProcsOK
  <2> QED
    BY <1>1, <2>1, KeysStep DEF TakeRedis
<1>2. ASSUME NEW p \in Procs, TakeCancelled(p)
      PROVE  LimitInv'
  <2>1. ProcsOK'
    BY <1>0, <1>2 DEF TakeCancelled, ProcsOK
  <2> QED
    BY <1>2, <2>1, KeysStep DEF TakeCancelled
<1>3. ASSUME NEW p \in Procs, TakeFails(p)
      PROVE  LimitInv'
  <2>1. bucket' \in [Procs -> 0 .. Full] /\ rescued' \in [Procs -> Nat]
    BY <1>0, <1>3, RescueKeeps DEF TakeFails
  <2>2. probes' \in [Procs -> 0 .. MaxProbes]
    BY <1>0, <1>3, BoundsNatural DEF TakeFails, ProcsOK
  <2>3. ProcsOK'
    BY <1>0, <1>3, <2>1, <2>2 DEF TakeFails, ProcsOK
  <2> QED
    BY <1>3, <2>3, KeysStep DEF TakeFails
<1>4. ASSUME NEW p \in Procs, TakeRescue(p)
      PROVE  LimitInv'
  <2>1. bucket' \in [Procs -> 0 .. Full] /\ rescued' \in [Procs -> Nat]
    BY <1>0, <1>4, RescueKeeps DEF TakeRescue
  <2>2. ProcsOK'
    BY <1>0, <1>4, <2>1 DEF TakeRescue, ProcsOK
  <2> QED
    BY <1>4, <2>2, KeysStep DEF TakeRescue, keys
<1>5. ASSUME NEW p \in Procs, WaitStart(p)
      PROVE  LimitInv'
  <2>1. probes' \in [Procs -> 0 .. MaxProbes]
    BY <1>0, <1>5, BoundsNatural DEF WaitStart, ProcsOK
  <2>2. alive' \in [Procs -> BOOLEAN] /\ locked' \in [Procs -> BOOLEAN]
    BY <1>0, <1>5, Zenon DEF WaitStart, ProcsOK
  <2>3. ProcsOK'
    BY <1>0, <1>5, <2>1, <2>2 DEF WaitStart, ProcsOK
  <2> QED
    BY <1>5, <2>3, KeysStep DEF WaitStart, keys
<1>6. ASSUME NEW p \in Procs, WaitPing(p)
      PROVE  LimitInv'
  <2>1. ProcsOK'
    BY <1>0, <1>6 DEF WaitPing, ProcsOK
  <2> QED
    BY <1>6, <2>1, KeysStep DEF WaitPing, keys
<1>7. CASE RedisChange
  <2>1. ProcsOK'
    BY <1>0, <1>7 DEF RedisChange, ProcsOK
  <2> QED
    BY <1>7, <2>1, KeysStep DEF RedisChange, keys
<1>8. CASE Tick
  BY <1>8, TickKeeps
<1>9. CASE UNCHANGED vars
  <2>1. ProcsOK'
    BY <1>0, <1>9 DEF vars, ProcsOK
  <2> QED
    BY <1>9, <2>1, KeysStep DEF vars, keys
<1> QED
  BY <1>1, <1>2, <1>3, <1>4, <1>5, <1>6, <1>7, <1>8, <1>9 DEF Next, Take

\* What the rescue bucket lets through it gives up, and it fills by Rate a tick.
LEMMA RescueStep ==
  ASSUME TypeOK, RescueLimit, [Next]_vars
  PROVE  RescueLimit'
<1>0. /\ now \in Nat /\ Full \in Nat
      /\ \A p \in Procs : rescued[p] \in Nat /\ bucket[p] \in Nat
  BY BoundsNatural, FullHolds DEF TypeOK
<1>1. ASSUME NEW p \in Procs, RescueTake(p), now' = now
      PROVE  RescueLimit'
  <2> SUFFICES ASSUME NEW q \in Procs
               PROVE  rescued'[q] * Second + bucket'[q] <= Full + Rate * now
    BY <1>1 DEF RescueLimit, Full
  <2>1. rescued[q] * Second + bucket[q] <= Full + Rate * now
    BY DEF RescueLimit
  <2>2. CASE bucket[p] >= Second /\ q = p
    <3>1. rescued'[q] = rescued[q] + 1 /\ bucket'[q] = bucket[q] - Second
      BY <1>1, <2>2 DEF RescueTake, TypeOK
    <3>2. (rescued[q] + 1) * Second = rescued[q] * Second + Second
      BY <1>0, PositiveRates
    <3> QED
      BY <1>0, <2>1, <3>1, <3>2, PositiveRates
  <2>3. CASE ~(bucket[p] >= Second /\ q = p)
    <3>1. rescued'[q] = rescued[q] /\ bucket'[q] = bucket[q]
      BY <1>1, <2>3 DEF RescueTake, TypeOK
    <3> QED
      BY <2>1, <3>1
  <2> QED
    BY <2>2, <2>3
<1>2. CASE Tick
  <2> SUFFICES ASSUME NEW q \in Procs
               PROVE  rescued[q] * Second + bucket'[q] <= Full + Rate * (now + 1)
    BY <1>2 DEF RescueLimit, Full, Tick
  <2>1. rescued[q] * Second + bucket[q] <= Full + Rate * now
    BY DEF RescueLimit
  <2>2. bucket'[q] <= bucket[q] + Rate /\ bucket'[q] \in Int
    BY <1>0, <1>2, PositiveRates DEF Tick, Least
  <2>3. Rate * (now + 1) = Rate * now + Rate
    BY <1>0, PositiveRates
  <2>4. rescued[q] * Second \in Int /\ Rate * now \in Int
    BY <1>0, PositiveRates
  <2> QED
    BY <1>0, <2>1, <2>2, <2>3, <2>4, PositiveRates
<1>3. CASE UNCHANGED <<now, bucket, rescued>>
  BY <1>3 DEF RescueLimit, Full
<1> QED
  BY <1>1, <1>2, <1>3
     DEF Next, Take, TakeRedis, TakeCancelled, TakeFails, TakeRescue, WaitStart,
         WaitPing, RedisChange, vars

-----------------------------------------------------------------------------
(* The theorems *)

\* The account, brought up to the latest time that a request may carry.
LEMMA LimitImplied ==
  ASSUME LimitInv
  PROVE  GlobalLimit
<1> DEFINE R == Rate * MaxSkew
           t == now + MaxSkew
<1>1. /\ now \in Nat /\ t \in Nat /\ ts \in Nat /\ ts <= t /\ tokens \in Nat
      /\ admitted \in Nat /\ behind \in Nat
  BY BoundsNatural, SkewBelowFill, FullHolds DEF LimitInv, TypeOK
<1>2. /\ Filled(t) \in 0 .. Full
      /\ until # 0 /\ t > ts => Filled(t) <= tokens + Rate * (t - ts)
      /\ until # 0 /\ t <= ts => Filled(t) = tokens
  <2> HIDE DEF t
  <2> QED
    BY <1>1, FilledBounds DEF LimitInv
<1>3. /\ Rate * (now + MaxSkew * (1 + behind)) = Rate * now + R + R * behind
      /\ Rate * t = Rate * now + R
      /\ Rate * (t - ts) = Rate * t - Rate * ts
  BY <1>1, PositiveRates, SkewBelowFill, Products
<1>4. /\ R \in Nat /\ R * behind \in Nat /\ Rate * ts \in Nat /\ Full \in Nat
      /\ Rate * now \in Nat /\ admitted * Second \in Nat /\ Rate * ts <= Rate * t
  BY <1>1, PositiveRates, SkewBelowFill, Products, FullHolds
<1>5. /\ until = 0 => admitted * Second <= Rate * now + R * behind
      /\ until # 0 => admitted * Second + tokens <= Full + Rate * ts + R * behind
  BY DEF LimitInv, Account
<1>6. admitted * Second + Filled(t) <= Full + (Rate * now + R + R * behind)
  <2> HIDE DEF R, t
  <2> QED
    BY <1>1, <1>2, <1>3, <1>4, <1>5
<1> QED
  BY <1>3, <1>6 DEF GlobalLimit

\* The variables keep their types whatever the rates, the clocks and the number
\* of processes: no bucket is ever below empty or above full.
THEOREM LimiterTyped == Spec => []TypeOK
<1>1. LimitInv => TypeOK
  BY DEF LimitInv
<1> QED
  BY <1>1, LimitInit, LimitStep, PTL DEF Spec

\* The processes together keep to the configured rate and burst through redis,
\* up to the stated allowance for their clocks; the expiry of the keys gives
\* nothing away, though their lifetime is rounded down.
THEOREM LimitHolds == Spec => []GlobalLimit
BY LimitImplied, LimitInit, LimitStep, PTL DEF Spec

\* A process whose redis is down keeps to the limit by its rescue bucket alone.
THEOREM RescueHolds == Spec => []RescueLimit
<1>1. ASSUME Init
      PROVE  RescueLimit
  <2> SUFFICES ASSUME NEW p \in Procs
               PROVE  rescued[p] * Second + bucket[p] <= Full + Rate * now
    BY DEF RescueLimit
  <2>1. rescued[p] = 0 /\ bucket[p] = Full /\ now = 0
    BY <1>1 DEF Init
  <2>2. 0 * Second = 0 /\ Rate * 0 = 0
    BY PositiveRates
  <2> QED
    BY <2>1, <2>2, FullHolds
<1> QED
  BY <1>1, RescueStep, LimiterTyped, PTL DEF Spec

=============================================================================
