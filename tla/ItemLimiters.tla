---------------------------- MODULE ItemLimiters ----------------------------
(***************************************************************************)
(* The limiters of pkg/workqueue that count failures per item: the         *)
(* exponential one, with which tddl.renew spaces its retries, and the      *)
(* fast/slow one, together under a MaxOfRateLimiter.                       *)
(*                                                                         *)
(* Each limiter has a map of failures behind a mutex of its own.  A call   *)
(* of the MaxOfRateLimiter visits one after the other and holds neither    *)
(* mutex in between, so calls of several goroutines interleave there.  A   *)
(* call that call[g] records is between the two limiters.                  *)
(*                                                                         *)
(* An item is in a map exactly while its count is not 0.                   *)
(***************************************************************************)
EXTENDS Integers, FiniteSets

CONSTANTS
  Items,         \* the items
  Goroutines,    \* the goroutines that use the limiter
  BaseDelay,     \* baseDelay of the exponential limiter
  MaxDelay,      \* maxDelay of the exponential limiter
  FastDelay,     \* fastDelay of the fast/slow limiter
  SlowDelay,     \* slowDelay of the fast/slow limiter
  MaxFast,       \* maxFastAttempts of the fast/slow limiter
  MaxInt,        \* the longest delay a time.Duration can hold
  MaxFailures    \* bound on the failures of an item

ASSUME GoroutinesFinite == IsFiniteSet(Goroutines)

ASSUME DelaysFit ==
  /\ {BaseDelay, MaxDelay, FastDelay, SlowDelay} \subseteq 0 .. MaxInt
  /\ {MaxInt, MaxFast, MaxFailures} \subseteq Nat
  /\ BaseDelay > 0
  /\ FastDelay <= SlowDelay

\* The comparison with the largest integer is one of floating-point numbers,
\* where the largest integer is one too large: a delay of exactly that value
\* would pass it and not fit.  Only a power of two can grow to it.
ASSUME BaseNoPowerOfTwo ==
  \A n \in 0 .. MaxInt : BaseDelay * 2 ^ n # MaxInt + 1

VARIABLES
  fast,          \* fast[i]: failures of i in the fast/slow limiter
  exponential,   \* exponential[i]: failures of i in the exponential limiter
  call,          \* call[g]: the call of g that is between the two
  \* history
  longest,       \* longest[i]: longest delay returned since the last Forget
  mixed,         \* items that a When and a Forget used at the same time
  returned       \* the last delay returned, and one it may not be below

limiterVars == <<fast, exponential, call, longest, mixed, returned>>

Greater(a, b) == IF a >= b THEN a ELSE b

NoCall == [op |-> "none"]
NoDelay == [delay |-> 0, atLeast |-> 0]

LimiterInit ==
  /\ fast = [i \in Items |-> 0]
  /\ exponential = [i \in Items |-> 0]
  /\ call = [g \in Goroutines |-> NoCall]
  /\ longest = [i \in Items |-> 0]
  /\ mixed = {}
  /\ returned = NoDelay

-----------------------------------------------------------------------------
(* The delays *)

\* ItemFastSlowRateLimiter.When, for the n-th failure.
FastSlowDelay(n) == IF n <= MaxFast THEN FastDelay ELSE SlowDelay

Backoff(n) == BaseDelay * 2 ^ n

\* Mutant: no check for overflow; the conversion of a number that is too large
\* gives the smallest integer.
ExponentialDelayUnchecked(n) ==
  IF Backoff(n) > MaxInt + 1 THEN -MaxInt - 1
  ELSE IF Backoff(n) > MaxDelay THEN MaxDelay
  ELSE Backoff(n)

\* Mutant: only what does not fit is cut off at the maximal delay.
ExponentialDelayUncapped(n) ==
  IF Backoff(n) > MaxInt + 1 THEN MaxDelay ELSE Backoff(n)

\* ItemExponentialFailureRateLimiter.When, after n failures.
ExponentialDelay(n) ==
  IF Backoff(n) > MaxInt + 1 \/ Backoff(n) > MaxDelay
    THEN MaxDelay
    ELSE Backoff(n)

-----------------------------------------------------------------------------
(* MaxOfRateLimiter *)

Busy(op, i) == \E g \in Goroutines : call[g].op = op /\ call[g].item = i

\* The calls after g began one: calls of the kind other on item i are not alone
\* with their kind any more.
Begin(g, c, other) ==
  call' = [h \in Goroutines |->
             IF h = g THEN c
             ELSE IF call[h].op = other /\ call[h].item = c.item
                    THEN [call[h] EXCEPT !.alone = FALSE]
                    ELSE call[h]]

\* The first limiter of When.
WhenFastSlow(g, i) ==
  /\ call[g] = NoCall
  /\ fast[i] < MaxFailures /\ exponential[i] < MaxFailures
  /\ fast' = [fast EXCEPT ![i] = @ + 1]
  /\ Begin(g, [op |-> "when", item |-> i, delay |-> FastSlowDelay(fast'[i]),
               atLeast |-> longest[i], alone |-> ~Busy("forget", i)], "forget")
  /\ mixed' = IF Busy("forget", i) THEN mixed \cup {i} ELSE mixed
  /\ UNCHANGED <<exponential, longest, returned>>

\* The second limiter, and the longer of the two delays is returned.
WhenExponential(g) ==
  LET i == call[g].item
      delay == Greater(call[g].delay, ExponentialDelay(exponential[i]))
  IN /\ call[g].op = "when"
     /\ exponential' = [exponential EXCEPT ![i] = @ + 1]
     /\ call' = [call EXCEPT ![g] = NoCall]
     /\ IF call[g].alone
          THEN /\ longest' = [longest EXCEPT ![i] = Greater(@, delay)]
               /\ returned' = [delay |-> delay, atLeast |-> call[g].atLeast]
          ELSE /\ returned' = [delay |-> delay, atLeast |-> 0]
               /\ UNCHANGED longest
     /\ UNCHANGED <<fast, mixed>>

\* The first limiter of Forget.
ForgetFastSlow(g, i) ==
  /\ call[g] = NoCall
  /\ fast' = [fast EXCEPT ![i] = 0]
  /\ Begin(g, [op |-> "forget", item |-> i, alone |-> ~Busy("when", i)], "when")
  /\ mixed' = IF Busy("when", i) THEN mixed \cup {i} ELSE mixed
  /\ longest' = [longest EXCEPT ![i] = 0]
  /\ UNCHANGED <<exponential, returned>>

\* Mutant: the second limiter keeps the item.
DroppedNot(i) == exponential

\* The failures of the exponential limiter without item i.
Dropped(i) == [exponential EXCEPT ![i] = 0]

\* The second limiter of Forget.
ForgetExponential(g) ==
  LET i == call[g].item
  IN /\ call[g].op = "forget"
     /\ exponential' = Dropped(i)
     /\ call' = [call EXCEPT ![g] = NoCall]
     /\ mixed' = IF call[g].alone THEN mixed \ {i} ELSE mixed
     /\ UNCHANGED <<fast, longest, returned>>

LimiterNext ==
  \E g \in Goroutines :
    \/ \E i \in Items : WhenFastSlow(g, i) \/ ForgetFastSlow(g, i)
    \/ WhenExponential(g)
    \/ ForgetExponential(g)

LimiterSpec == LimiterInit /\ [][LimiterNext]_limiterVars

-----------------------------------------------------------------------------
(* Properties *)

\* The type invariant; a delay is never longer than the longest configured one.
LimiterTypeOK ==
  /\ fast \in [Items -> 0 .. MaxFailures]
  /\ exponential \in [Items -> Nat]
  /\ \A g \in Goroutines : call[g].op \in {"none", "when", "forget"}
  /\ longest \in [Items -> Nat]
  /\ mixed \in SUBSET Items
  /\ returned.delay \in 0 .. Greater(SlowDelay, MaxDelay)

\* Retries go on no faster: a When that began after another one for the same item
\* returned gives at least the same delay, unless the item was forgotten in
\* between, however many failures there have been ("The backoff is capped such
\* that 'calculated' value never overflows", rate_limiters.go:115).
NeverSooner == returned.delay >= returned.atLeast

\* Retries and Take of the MaxOfRateLimiter, outside of other calls.
Retries(i) == Greater(fast[i], exponential[i])
TakeItem(i) == fast[i] = 0 /\ exponential[i] = 0

\* When nobody is in a call, the limiters agree on the failures of an item, and
\* Take on whether it has any, unless a When and a Forget for it met.  A Forget
\* that meets no When sets even that right.
LimitersAgree ==
  (\A g \in Goroutines : call[g] = NoCall) =>
    \A i \in Items \ mixed :
      /\ fast[i] = Retries(i) /\ exponential[i] = Retries(i)
      /\ TakeItem(i) <=> Retries(i) = 0

=============================================================================
