------------------------- MODULE ItemLimitersProofs -------------------------
(***************************************************************************)
(* Proofs about ItemLimiters, for any items, any finite set of goroutines  *)
(* and all delays.                                                         *)
(*                                                                         *)
(* The limiters agree when no call is between them, because each call of   *)
(* When that is between them is one failure that only the first one has    *)
(* counted: Counted keeps the difference.  A delay is no shorter than the  *)
(* ones before it, because the counts only grow while no Forget is under   *)
(* way: Growing relates the longest delay, and what a call carries, to the *)
(* counts.                                                                 *)
(***************************************************************************)
EXTENDS ItemLimiters, FiniteSetTheorems, TLAPS

USE DelaysFit

-----------------------------------------------------------------------------
(* The inductive invariant *)

WhenCalls == [op : {"when"}, item : Items, delay : Nat, atLeast : Nat,
              alone : BOOLEAN]
ForgetCalls == [op : {"forget"}, item : Items, alone : BOOLEAN]
Calls == {NoCall} \cup WhenCalls \cup ForgetCalls

Typed ==
  /\ fast \in [Items -> 0 .. MaxFailures]
  /\ exponential \in [Items -> Nat]
  /\ call \in [Goroutines -> Calls]
  /\ longest \in [Items -> Nat]
  /\ mixed \in SUBSET Items
  /\ returned \in [delay : 0 .. Greater(SlowDelay, MaxDelay), atLeast : Nat]

\* The goroutines with a call of When, or of Forget, for i between the limiters.
Whens(i) == {g \in Goroutines : call[g].op = "when" /\ call[g].item = i}
Forgets(i) == {g \in Goroutines : call[g].op = "forget" /\ call[g].item = i}

\* The first limiter is ahead by the calls of When that are between the two.  While
\* an item is being forgotten its count in the first limiter is 0, if no When
\* came between.
Counted ==
  /\ \A i \in Items \ mixed :
       IF Forgets(i) = {}
         THEN fast[i] = exponential[i] + Cardinality(Whens(i))
         ELSE fast[i] = 0 /\ Whens(i) = {}
  /\ \A i \in Items : \A g \in Forgets(i) :
       call[g].alone => fast[i] = 0 /\ Whens(i) = {}

\* While an item is being forgotten no delay counts for it; else the counts still
\* justify the longest delay, and the delays of a call that no Forget met.
Justified(i) ==
  /\ Forgets(i) # {} => longest[i] = 0 /\ \A g \in Whens(i) : ~call[g].alone
  /\ longest[i] <= Greater(FastSlowDelay(fast[i]), ExponentialDelay(exponential[i]))
  /\ \A g \in Whens(i) :
       /\ call[g].alone =>
            /\ call[g].delay <= FastSlowDelay(fast[i])
            /\ call[g].atLeast <= Greater(call[g].delay,
                                          ExponentialDelay(exponential[i]))
       /\ call[g].delay <= SlowDelay

Growing == \A i \in Items : Justified(i)

LimitersInv == Typed /\ Counted /\ Growing /\ NeverSooner

-----------------------------------------------------------------------------
(* The delays *)

\* Powers of two count the subsets of an interval, so they grow with it.
LEMMA Powers ==
  ASSUME NEW m \in Nat, NEW n \in Nat, m <= n
  PROVE  2 ^ m \in Nat /\ 2 ^ n \in Nat /\ 2 ^ m <= 2 ^ n
<1>1. /\ IsFiniteSet(1 .. m) /\ Cardinality(1 .. m) = m
      /\ IsFiniteSet(1 .. n) /\ Cardinality(1 .. n) = n
  <2>0. 1 \in Int /\ m \in Int /\ n \in Int
    OBVIOUS
  <2>1. /\ IsFiniteSet(1 .. m)
        /\ Cardinality(1 .. m) = IF 1 > m THEN 0 ELSE m - 1 + 1
    BY <2>0, FS_Interval, Zenon
  <2>2. /\ IsFiniteSet(1 .. n)
        /\ Cardinality(1 .. n) = IF 1 > n THEN 0 ELSE n - 1 + 1
    BY <2>0, FS_Interval, Zenon
  <2> QED
    BY <2>1, <2>2
<1>2. /\ IsFiniteSet(SUBSET (1 .. m)) /\ Cardinality(SUBSET (1 .. m)) = 2 ^ m
      /\ IsFiniteSet(SUBSET (1 .. n)) /\ Cardinality(SUBSET (1 .. n)) = 2 ^ n
  BY <1>1, FS_SUBSET
<1>3. SUBSET (1 .. m) \in SUBSET (SUBSET (1 .. n))
  OBVIOUS
<1>4. Cardinality(SUBSET (1 .. m)) <= Cardinality(SUBSET (1 .. n))
  BY <1>2, <1>3, FS_Subset
<1>5. Cardinality(SUBSET (1 .. m)) \in Nat /\ Cardinality(SUBSET (1 .. n)) \in Nat
  BY <1>2, FS_CardinalityType
<1> QED
  BY <1>2, <1>4, <1>5

LEMMA BackoffGrows ==
  ASSUME NEW m \in Nat, NEW n \in Nat, m <= n
  PROVE  Backoff(m) \in Nat /\ Backoff(n) \in Nat /\ Backoff(m) <= Backoff(n)
<1>1. PICK p \in Nat, q \in Nat : p = 2 ^ m /\ q = 2 ^ n /\ p <= q
  BY Powers
<1>2. BaseDelay * p \in Nat /\ BaseDelay * q \in Nat /\ BaseDelay * p <= BaseDelay * q
  <2>1. BaseDelay \in Nat
    OBVIOUS
  <2>2. PICK d \in Nat : q = p + d
    BY <1>1
  <2>3. BaseDelay * d \in Nat /\ BaseDelay * p \in Nat
    BY <2>1
  <2>4. BaseDelay * q = BaseDelay * p + BaseDelay * d
    BY <2>1, <2>2
  <2> QED
    BY <2>3, <2>4
<1> QED
  BY <1>1, <1>2 DEF Backoff

\* The delays stay below the configured ones, and grow with the failures.
LEMMA DelayFacts ==
  /\ \A n \in Nat : ExponentialDelay(n) \in 0 .. MaxDelay
                    /\ FastSlowDelay(n) \in 0 .. SlowDelay
  /\ \A m, n \in Nat : m <= n => /\ ExponentialDelay(m) <= ExponentialDelay(n)
                                 /\ FastSlowDelay(m) <= FastSlowDelay(n)
<1>1. ASSUME NEW m \in Nat, NEW n \in Nat, m <= n
      PROVE  /\ ExponentialDelay(n) \in 0 .. MaxDelay
             /\ ExponentialDelay(m) <= ExponentialDelay(n)
  <2>1. Backoff(m) \in Nat /\ Backoff(n) \in Nat /\ Backoff(m) <= Backoff(n)
    BY <1>1, BackoffGrows
  <2> QED
    BY <2>1 DEF ExponentialDelay
<1>2. ASSUME NEW m \in Nat, NEW n \in Nat, m <= n
      PROVE  /\ FastSlowDelay(n) \in 0 .. SlowDelay
             /\ FastSlowDelay(m) <= FastSlowDelay(n)
  BY <1>2 DEF FastSlowDelay
<1> QED
  BY <1>1, <1>2

-----------------------------------------------------------------------------
(* The calls *)

LEMMA CallFacts ==
  ASSUME NEW v \in Calls
  PROVE  /\ v.op = "when" => v \in WhenCalls
         /\ v.op = "forget" => v \in ForgetCalls
         /\ v.op \notin {"when", "forget"} => v = NoCall
         /\ v = NoCall => v.op \notin {"when", "forget"}
BY DEF Calls, NoCall, WhenCalls, ForgetCalls

\* A call that began, and what it does to the others.
LEMMA BeginFacts ==
  ASSUME Typed, NEW g \in Goroutines, call[g] = NoCall,
         NEW c \in WhenCalls \cup ForgetCalls, NEW other \in {"when", "forget"},
         Begin(g, c, other)
  PROVE  /\ call' \in [Goroutines -> Calls]
         /\ call'[g] = c
         /\ \A h \in Goroutines \ {g} :
              /\ call'[h].op = call[h].op
              /\ call[h].op \in {"when", "forget"} =>
                   call'[h].item = call[h].item /\ (call'[h].alone => call[h].alone)
              /\ call[h].op = "when" =>
                   /\ call'[h].delay = call[h].delay
                   /\ call'[h].atLeast = call[h].atLeast
              /\ call[h].op = other /\ call[h].item = c.item => ~call'[h].alone
<1>1. call' = [h \in Goroutines |->
                 IF h = g THEN c
                 ELSE IF call[h].op = other /\ call[h].item = c.item
                        THEN [call[h] EXCEPT !.alone = FALSE]
                        ELSE call[h]]
  BY DEF Begin
<1> DEFINE P(h) ==
      /\ call'[h].op = call[h].op
      /\ call[h].op \in {"when", "forget"} =>
           call'[h].item = call[h].item /\ (call'[h].alone => call[h].alone)
      /\ call[h].op = "when" =>
           call'[h].delay = call[h].delay /\ call'[h].atLeast = call[h].atLeast
      /\ call[h].op = other /\ call[h].item = c.item => ~call'[h].alone
<1>2. ASSUME NEW h \in Goroutines, h # g
      PROVE  call'[h] \in Calls /\ P(h)
  <2>1. PICK v \in Calls : v = call[h]
    BY DEF Typed, Calls
  <2>2. CASE v.op = other /\ v.item = c.item
    <3>1. call'[h] = [v EXCEPT !.alone = FALSE]
      BY <1>1, <1>2, <2>1, <2>2
    <3>2. CASE v \in WhenCalls
      BY <2>1, <2>2, <3>1, <3>2 DEF WhenCalls, Calls
    <3>3. CASE v \in ForgetCalls
      BY <2>1, <2>2, <3>1, <3>3 DEF ForgetCalls, Calls
    <3> QED
      BY <2>2, <3>2, <3>3, CallFacts
  <2>3. CASE ~(v.op = other /\ v.item = c.item)
    <3>1. call'[h] = v
      BY <1>1, <1>2, <2>1, <2>3
    <3> QED
      BY <2>1, <2>3, <3>1
  <2> QED
    BY <2>2, <2>3
<1>3. call'[g] = c /\ c \in Calls
  BY <1>1 DEF Calls
<1>4. call' \in [Goroutines -> Calls]
  BY <1>1, <1>2, <1>3
<1> QED
  BY <1>2, <1>3, <1>4 DEF Calls

\* It is one more call of its kind for its item.
LEMMA BeginSets ==
  ASSUME Typed, NEW g \in Goroutines, call[g] = NoCall,
         NEW c \in WhenCalls \cup ForgetCalls, NEW other \in {"when", "forget"},
         Begin(g, c, other), NEW i \in Items
  PROVE  /\ g \notin Whens(i) /\ g \notin Forgets(i)
         /\ Whens(i)' = IF c.op = "when" /\ c.item = i THEN Whens(i) \cup {g}
                                                       ELSE Whens(i)
         /\ Forgets(i)' = IF c.op = "forget" /\ c.item = i THEN Forgets(i) \cup {g}
                                                           ELSE Forgets(i)
<1>1. call[g].op \notin {"when", "forget"}
  BY DEF NoCall
<1>2. call'[g] = c
  BY BeginFacts
<1>3. \A h \in Goroutines \ {g} :
        /\ call'[h].op = call[h].op
        /\ call[h].op \in {"when", "forget"} => call'[h].item = call[h].item
  BY BeginFacts
<1> QED
  BY <1>1, <1>2, <1>3 DEF Whens, Forgets

\* A call that ends.
LEMMA EndFacts ==
  ASSUME Typed, NEW g \in Goroutines, call' = [call EXCEPT ![g] = NoCall]
  PROVE  /\ call' \in [Goroutines -> Calls]
         /\ \A h \in Goroutines \ {g} : call'[h] = call[h]
         /\ \A i \in Items :
              Whens(i)' = Whens(i) \ {g} /\ Forgets(i)' = Forgets(i) \ {g}
<1>1. /\ call' \in [Goroutines -> Calls]
      /\ \A h \in Goroutines \ {g} : call'[h] = call[h]
      /\ call'[g] = NoCall
  BY DEF Typed, Calls
<1>2. NoCall.op \notin {"when", "forget"}
  BY DEF NoCall
<1> QED
  BY <1>1, <1>2 DEF Whens, Forgets

LEMMA BusyFacts ==
  \A i \in Items : /\ Busy("when", i) <=> Whens(i) # {}
                   /\ Busy("forget", i) <=> Forgets(i) # {}
BY DEF Busy, Whens, Forgets

\* A set of goroutines can be counted.
LEMMA WhensCounted ==
  ASSUME NEW i \in Items
  PROVE  /\ IsFiniteSet(Whens(i)) /\ Cardinality(Whens(i)) \in Nat
         /\ Cardinality(Whens(i)) = 0 <=> Whens(i) = {}
         /\ \A g \in Goroutines \ Whens(i) :
              Cardinality(Whens(i) \cup {g}) = Cardinality(Whens(i)) + 1
         /\ \A g \in Whens(i) :
              Cardinality(Whens(i) \ {g}) = Cardinality(Whens(i)) - 1
<1>1. Whens(i) \in SUBSET Goroutines
  BY DEF Whens
<1>2. IsFiniteSet(Whens(i))
  BY <1>1, GoroutinesFinite, FS_Subset
<1> QED
  BY <1>2, FS_CardinalityType, FS_EmptySet, FS_AddElement, FS_RemoveElement

-----------------------------------------------------------------------------
(* The steps *)

LEMMA LimitersInit ==
  ASSUME LimiterInit
  PROVE  LimitersInv
<1>1. Typed
  BY DEF LimiterInit, Typed, Calls, NoDelay, Greater
<1>2. \A i \in Items : Whens(i) = {} /\ Forgets(i) = {}
  BY DEF LimiterInit, NoCall, Whens, Forgets
<1>3. Counted
  BY <1>2, FS_EmptySet DEF LimiterInit, Counted
<1>4. Growing
  BY <1>2, DelayFacts DEF LimiterInit, Growing, Justified, Greater
<1> QED
  BY <1>1, <1>3, <1>4 DEF LimitersInv, LimiterInit, NeverSooner, NoDelay

\* The first half of When.
LEMMA WhenFastSlowStep ==
  ASSUME LimitersInv, NEW g \in Goroutines, NEW i \in Items, WhenFastSlow(g, i)
  PROVE  LimitersInv'
<1> DEFINE c == [op |-> "when", item |-> i, delay |-> FastSlowDelay(fast'[i]),
                 atLeast |-> longest[i], alone |-> ~Busy("forget", i)]
<1>1. /\ Typed /\ Counted /\ Growing /\ NeverSooner
      /\ call[g] = NoCall /\ fast[i] < MaxFailures
      /\ fast' = [fast EXCEPT ![i] = @ + 1] /\ Begin(g, c, "forget")
      /\ mixed' = (IF Forgets(i) # {} THEN mixed \cup {i} ELSE mixed)
      /\ UNCHANGED <<exponential, longest, returned>>
  BY BusyFacts DEF LimitersInv, WhenFastSlow
<1>2. /\ fast' \in [Items -> 0 .. MaxFailures] /\ fast[i] \in Nat
      /\ fast'[i] = fast[i] + 1 /\ \A j \in Items : j # i => fast'[j] = fast[j]
      /\ \A j \in Items : fast[j] \in Nat /\ fast'[j] \in Nat /\ fast[j] <= fast'[j]
  BY <1>1 DEF Typed
<1>3. /\ c \in WhenCalls /\ c.op = "when" /\ c.item = i
      /\ c.delay = FastSlowDelay(fast'[i]) /\ c.atLeast = longest[i]
      /\ c.alone <=> Forgets(i) = {}
  <2>1. FastSlowDelay(fast'[i]) \in Nat /\ longest[i] \in Nat
    BY <1>1, <1>2, DelayFacts DEF Typed
  <2>2. (~Busy("forget", i)) \in BOOLEAN
    BY DEF Busy
  <2> QED
    BY <2>1, <2>2, BusyFacts DEF WhenCalls
<1> HIDE DEF c
<1>4. /\ call' \in [Goroutines -> Calls] /\ call'[g] = c
      /\ \A h \in Goroutines \ {g} :
           /\ call[h].op \in {"when", "forget"} => (call'[h].alone => call[h].alone)
           /\ call[h].op = "when" =>
                /\ call'[h].delay = call[h].delay
                /\ call'[h].atLeast = call[h].atLeast
           /\ call[h].op = "forget" /\ call[h].item = i => ~call'[h].alone
  BY <1>1, <1>3, BeginFacts
<1>5. \A j \in Items :
        /\ g \notin Whens(j) /\ g \notin Forgets(j)
        /\ Whens(j)' = (IF i = j THEN Whens(j) \cup {g} ELSE Whens(j))
        /\ Forgets(j)' = Forgets(j)
  BY <1>1, <1>3, BeginSets
<1>6. Typed'
  BY <1>1, <1>2, <1>4 DEF Typed, Calls, WhenCalls, ForgetCalls
<1>7. Counted'
  <2>1. ASSUME NEW j \in Items, j \notin mixed'
        PROVE  IF Forgets(j)' = {}
                 THEN fast'[j] = exponential'[j] + Cardinality(Whens(j)')
                 ELSE fast'[j] = 0 /\ Whens(j)' = {}
    <3>1. j \notin mixed /\ (j = i => Forgets(i) = {})
      BY <1>1, <2>1
    <3>2. CASE j = i
      <4>1. fast[i] = exponential[i] + Cardinality(Whens(i))
        BY <1>1, <3>1, <3>2 DEF Counted
      <4>2. Cardinality(Whens(i) \cup {g}) = Cardinality(Whens(i)) + 1
        BY <1>5, WhensCounted
      <4>3. Cardinality(Whens(i)) \in Nat /\ exponential[i] \in Nat
        BY <1>1, WhensCounted DEF Typed
      <4>4. /\ Forgets(j)' = {} /\ Whens(j)' = Whens(i) \cup {g}
            /\ exponential'[j] = exponential[i] /\ fast'[j] = fast[i] + 1
        BY <1>1, <1>2, <1>5, <3>1, <3>2
      <4> QED
        BY <4>1, <4>2, <4>3, <4>4
    <3>3. CASE j # i
      BY <1>1, <1>2, <1>5, <3>1, <3>3 DEF Counted
    <3> QED
      BY <3>2, <3>3
  <2>2. ASSUME NEW j \in Items, NEW h \in Forgets(j)', call'[h].alone
        PROVE  fast'[j] = 0 /\ Whens(j)' = {}
    <3>1. h \in Forgets(j) /\ h # g /\ h \in Goroutines
      BY <1>5 DEF Forgets
    <3>2. j # i /\ call[h].alone
      BY <1>4, <2>2, <3>1 DEF Forgets
    <3> QED
      BY <1>1, <1>2, <1>5, <3>1, <3>2 DEF Counted
  <2> QED
    BY <2>1, <2>2 DEF Counted
<1>8. Growing'
  <2> SUFFICES ASSUME NEW j \in Items
               PROVE  Justified(j)'
    BY DEF Growing
  <2>1. /\ FastSlowDelay(fast[j]) \in 0 .. SlowDelay
        /\ FastSlowDelay(fast'[j]) \in 0 .. SlowDelay
        /\ FastSlowDelay(fast[j]) <= FastSlowDelay(fast'[j])
        /\ ExponentialDelay(exponential[j]) \in Nat /\ longest[j] \in Nat
    <3>1. /\ fast[j] \in Nat /\ fast'[j] \in Nat /\ fast[j] <= fast'[j]
          /\ exponential[j] \in Nat /\ longest[j] \in Nat
      BY <1>1, <1>2 DEF Typed
    <3> QED
      BY <3>1, DelayFacts
  <2>2. longest'[j] <= Greater(FastSlowDelay(fast'[j]),
                               ExponentialDelay(exponential'[j]))
    BY <1>1, <2>1 DEF Growing, Justified, Greater
  <2>3. Forgets(j)' # {} => longest'[j] = 0 /\ \A h \in Whens(j)' : ~call'[h].alone
    BY <1>1, <1>3, <1>4, <1>5 DEF Growing, Justified, Whens
  <2>4. ASSUME NEW h \in Whens(j)'
        PROVE  /\ call'[h].alone =>
                    /\ call'[h].delay <= FastSlowDelay(fast'[j])
                    /\ call'[h].atLeast <=
                         Greater(call'[h].delay, ExponentialDelay(exponential'[j]))
               /\ call'[h].delay <= SlowDelay
    <3>1. CASE h = g
      <4>1. j = i
        BY <1>5, <3>1
      <4> QED
        BY <1>1, <1>3, <1>4, <2>1, <2>2, <3>1, <4>1
    <3>2. CASE h # g
      <4>1. h \in Whens(j) /\ h \in Goroutines /\ call[h].op = "when"
        BY <1>5, <3>2 DEF Whens
      <4>2. call[h].delay \in Nat
        BY <1>1, <4>1, CallFacts DEF Typed, WhenCalls
      <4> QED
        BY <1>1, <1>4, <2>1, <3>2, <4>1, <4>2 DEF Growing, Justified
    <3> QED
      BY <3>1, <3>2
  <2> QED
    BY <2>2, <2>3, <2>4
       DEF Justified, FastSlowDelay, ExponentialDelay, Backoff, Greater
<1> QED
  BY <1>1, <1>6, <1>7, <1>8 DEF LimitersInv, NeverSooner

\* The second half: the failure is counted there too, and the delay is returned.
LEMMA WhenExponentialStep ==
  ASSUME LimitersInv, NEW g \in Goroutines, WhenExponential(g)
  PROVE  LimitersInv'
<1>1. /\ Typed /\ Counted /\ Growing /\ NeverSooner /\ call[g].op = "when"
      /\ call' = [call EXCEPT ![g] = NoCall] /\ UNCHANGED <<fast, mixed>>
  BY DEF LimitersInv, WhenExponential
<1>2. call[g] \in WhenCalls
  BY <1>1, CallFacts DEF Typed
<1>3. PICK i \in Items, d \in Nat, a \in Nat :
        i = call[g].item /\ d = call[g].delay /\ a = call[g].atLeast
  BY <1>2 DEF WhenCalls
<1>4. g \in Whens(i)
  BY <1>1, <1>3 DEF Whens
<1>5. PICK e \in 0 .. MaxDelay : e = ExponentialDelay(exponential[i])
  BY <1>1, DelayFacts DEF Typed
<1>6. /\ exponential' = [exponential EXCEPT ![i] = @ + 1]
      /\ IF call[g].alone
           THEN /\ longest' = [longest EXCEPT ![i] = Greater(@, Greater(d, e))]
                /\ returned' = [delay |-> Greater(d, e), atLeast |-> a]
           ELSE /\ returned' = [delay |-> Greater(d, e), atLeast |-> 0]
                /\ UNCHANGED longest
  BY <1>3, <1>5 DEF WhenExponential
<1>7. /\ Justified(i) /\ d <= SlowDelay
      /\ call[g].alone => d <= FastSlowDelay(fast[i]) /\ a <= Greater(d, e)
      /\ Forgets(i) # {} => ~call[g].alone
  BY <1>1, <1>3, <1>4, <1>5 DEF Growing, Justified
<1>8. Greater(d, e) \in 0 .. Greater(SlowDelay, MaxDelay) /\ Greater(d, e) \in Nat
  BY <1>7 DEF Greater
<1>9. /\ call' \in [Goroutines -> Calls]
      /\ \A h \in Goroutines \ {g} : call'[h] = call[h]
      /\ \A j \in Items : Whens(j)' = Whens(j) \ {g} /\ Forgets(j)' = Forgets(j) \ {g}
  BY <1>1, EndFacts
<1>10. \A j \in Items : g \notin Forgets(j) /\ (j # i => g \notin Whens(j))
  BY <1>1, <1>3 DEF Whens, Forgets
<1>11. /\ \A j \in Items : exponential[j] \in Nat /\ fast[j] \in Nat
       /\ exponential'[i] = exponential[i] + 1
       /\ \A j \in Items : j # i => exponential'[j] = exponential[j]
       /\ exponential' \in [Items -> Nat]
  BY <1>1, <1>6 DEF Typed
<1>12. /\ longest' \in [Items -> Nat]
       /\ \A j \in Items : j # i => longest'[j] = longest[j]
       /\ call[g].alone => longest'[i] = Greater(longest[i], Greater(d, e))
       /\ ~call[g].alone => longest'[i] = longest[i]
       /\ longest[i] \in Nat
  <2>1. longest \in [Items -> Nat]
    BY <1>1 DEF Typed
  <2>2. Greater(longest[i], Greater(d, e)) \in Nat
    BY <1>8, <2>1 DEF Greater
  <2> QED
    BY <1>6, <2>1, <2>2
<1>13. Typed'
  <2>1. returned' \in [delay : 0 .. Greater(SlowDelay, MaxDelay), atLeast : Nat]
    BY <1>6, <1>8
  <2> QED
    BY <1>1, <1>9, <1>11, <1>12, <2>1
       DEF Typed, Calls, WhenCalls, ForgetCalls, Greater
<1>14. NeverSooner'
  BY <1>6, <1>7, <1>8 DEF NeverSooner
<1>15. Counted'
  <2>1. ASSUME NEW j \in Items, j \notin mixed'
        PROVE  IF Forgets(j)' = {}
                 THEN fast'[j] = exponential'[j] + Cardinality(Whens(j)')
                 ELSE fast'[j] = 0 /\ Whens(j)' = {}
    <3>1. CASE j = i
      <4>1. Forgets(i) = {} /\ fast[i] = exponential[i] + Cardinality(Whens(i))
        BY <1>1, <1>4, <2>1, <3>1 DEF Counted
      <4>2. /\ Cardinality(Whens(i)) \in Nat
            /\ Cardinality(Whens(i) \ {g}) = Cardinality(Whens(i)) - 1
        BY <1>4, WhensCounted
      <4>3. /\ Forgets(j)' = {} /\ Whens(j)' = Whens(i) \ {g} /\ fast'[j] = fast[i]
            /\ exponential'[j] = exponential[i] + 1 /\ exponential[i] \in Nat
        BY <1>1, <1>9, <1>11, <3>1, <4>1
      <4> QED
        BY <4>1, <4>2, <4>3
    <3>2. CASE j # i
      <4>1. /\ Whens(j)' = Whens(j) /\ Forgets(j)' = Forgets(j)
            /\ fast'[j] = fast[j] /\ exponential'[j] = exponential[j] /\ j \notin mixed
        <5>1. g \notin Whens(j) /\ g \notin Forgets(j)
          BY <1>10, <3>2
        <5>2. Whens(j)' = Whens(j) /\ Forgets(j)' = Forgets(j)
          BY <1>9, <5>1
        <5> QED
          BY <1>1, <1>11, <2>1, <3>2, <5>2
      <4> QED
        BY <1>1, <4>1 DEF Counted
    <3> QED
      BY <3>1, <3>2
  <2>2. ASSUME NEW j \in Items, NEW h \in Forgets(j)', call'[h].alone
        PROVE  fast'[j] = 0 /\ Whens(j)' = {}
    <3>1. h \in Forgets(j) /\ call[h].alone
      BY <1>9, <2>2 DEF Forgets
    <3> QED
      BY <1>1, <1>9, <3>1 DEF Counted
  <2> QED
    BY <2>1, <2>2 DEF Counted
<1>16. Growing'
  <2> SUFFICES ASSUME NEW j \in Items
               PROVE  Justified(j)'
    BY DEF Growing
  <2>1. /\ ExponentialDelay(exponential[j]) \in Nat
        /\ ExponentialDelay(exponential'[j]) \in Nat
        /\ ExponentialDelay(exponential[j]) <= ExponentialDelay(exponential'[j])
        /\ FastSlowDelay(fast[j]) \in Nat /\ longest[j] \in Nat
    <3>1. /\ exponential[j] \in Nat /\ exponential'[j] \in Nat
          /\ exponential[j] <= exponential'[j] /\ fast[j] \in Nat /\ longest[j] \in Nat
      BY <1>1, <1>11 DEF Typed
    <3> QED
      BY <3>1, DelayFacts
  <2>2. Justified(j)
    BY <1>1 DEF Growing
  <2>3. Forgets(j)' # {} => longest'[j] = 0 /\ \A h \in Whens(j)' : ~call'[h].alone
    BY <1>7, <1>9, <1>10, <1>12, <2>2 DEF Justified, Whens
  <2>4. longest'[j] <= Greater(FastSlowDelay(fast'[j]),
                               ExponentialDelay(exponential'[j]))
    <3>1. longest[j] <= Greater(FastSlowDelay(fast[j]),
                                ExponentialDelay(exponential'[j]))
      BY <2>1, <2>2 DEF Justified, Greater
    <3>2. CASE j = i /\ call[g].alone
      BY <1>1, <1>5, <1>7, <1>12, <2>1, <3>1, <3>2 DEF Greater
    <3>3. CASE ~(j = i /\ call[g].alone)
      BY <1>1, <1>12, <3>1, <3>3
    <3> QED
      BY <3>2, <3>3
  <2>5. ASSUME NEW h \in Whens(j)'
        PROVE  /\ call'[h].alone =>
                    /\ call'[h].delay <= FastSlowDelay(fast'[j])
                    /\ call'[h].atLeast <=
                         Greater(call'[h].delay, ExponentialDelay(exponential'[j]))
               /\ call'[h].delay <= SlowDelay
    <3>1. h \in Whens(j) /\ h \in Goroutines /\ call[h].op = "when" /\ call'[h] = call[h]
      BY <1>9 DEF Whens
    <3>2. call[h].delay \in Nat /\ call[h].atLeast \in Nat
      BY <1>1, <3>1, CallFacts DEF Typed, WhenCalls
    <3> QED
      BY <1>1, <2>1, <2>2, <3>1, <3>2 DEF Justified, Greater
  <2> QED
    BY <2>3, <2>4, <2>5
       DEF Justified, FastSlowDelay, ExponentialDelay, Backoff, Greater
<1> QED
  BY <1>13, <1>14, <1>15, <1>16 DEF LimitersInv

\* The first half of Forget.
LEMMA ForgetFastSlowStep ==
  ASSUME LimitersInv, NEW g \in Goroutines, NEW i \in Items, ForgetFastSlow(g, i)
  PROVE  LimitersInv'
<1> DEFINE c == [op |-> "forget", item |-> i, alone |-> ~Busy("when", i)]
<1>1. /\ Typed /\ Counted /\ Growing /\ NeverSooner /\ call[g] = NoCall
      /\ fast' = [fast EXCEPT ![i] = 0] /\ longest' = [longest EXCEPT ![i] = 0]
      /\ Begin(g, c, "when")
      /\ mixed' = (IF Whens(i) # {} THEN mixed \cup {i} ELSE mixed)
      /\ UNCHANGED <<exponential, returned>>
  BY BusyFacts DEF LimitersInv, ForgetFastSlow
<1>2. /\ fast' \in [Items -> 0 .. MaxFailures] /\ longest' \in [Items -> Nat]
      /\ fast'[i] = 0 /\ longest'[i] = 0
      /\ \A j \in Items : j # i => fast'[j] = fast[j] /\ longest'[j] = longest[j]
  BY <1>1 DEF Typed
<1>3. /\ c \in ForgetCalls /\ c.op = "forget" /\ c.item = i
      /\ c.alone <=> Whens(i) = {}
  <2>1. (~Busy("when", i)) \in BOOLEAN
    BY DEF Busy
  <2> QED
    BY <2>1, BusyFacts DEF ForgetCalls
<1> HIDE DEF c
<1>4. /\ call' \in [Goroutines -> Calls] /\ call'[g] = c
      /\ \A h \in Goroutines \ {g} :
           /\ call[h].op \in {"when", "forget"} => (call'[h].alone => call[h].alone)
           /\ call[h].op = "when" =>
                /\ call'[h].delay = call[h].delay
                /\ call'[h].atLeast = call[h].atLeast
           /\ call[h].op = "when" /\ call[h].item = i => ~call'[h].alone
  BY <1>1, <1>3, BeginFacts
<1>5. \A j \in Items :
        /\ g \notin Whens(j) /\ g \notin Forgets(j) /\ Whens(j)' = Whens(j)
        /\ Forgets(j)' = (IF i = j THEN Forgets(j) \cup {g} ELSE Forgets(j))
  BY <1>1, <1>3, BeginSets
<1>6. Typed'
  BY <1>1, <1>2, <1>4 DEF Typed, Calls, WhenCalls, ForgetCalls
<1>7. Counted'
  <2>1. ASSUME NEW j \in Items, j \notin mixed'
        PROVE  IF Forgets(j)' = {}
                 THEN fast'[j] = exponential'[j] + Cardinality(Whens(j)')
                 ELSE fast'[j] = 0 /\ Whens(j)' = {}
    <3>1. CASE j = i
      BY <1>1, <1>2, <1>5, <2>1, <3>1
    <3>2. CASE j # i
      BY <1>1, <1>2, <1>5, <2>1, <3>2 DEF Counted
    <3> QED
      BY <3>1, <3>2
  <2>2. ASSUME NEW j \in Items, NEW h \in Forgets(j)', call'[h].alone
        PROVE  fast'[j] = 0 /\ Whens(j)' = {}
    <3>1. CASE h = g
      BY <1>2, <1>3, <1>4, <1>5, <2>2, <3>1
    <3>2. CASE h # g
      <4>1. h \in Forgets(j) /\ call[h].alone
        BY <1>4, <1>5, <2>2, <3>2 DEF Forgets
      <4>2. fast[j] = 0 /\ Whens(j) = {}
        BY <1>1, <4>1 DEF Counted
      <4> QED
        BY <1>2, <1>5, <4>2
    <3> QED
      BY <3>1, <3>2
  <2> QED
    BY <2>1, <2>2 DEF Counted
<1>8. Growing'
  <2> SUFFICES ASSUME NEW j \in Items
               PROVE  Justified(j)'
    BY DEF Growing
  <2>1. /\ ExponentialDelay(exponential[j]) \in Nat /\ FastSlowDelay(fast'[j]) \in Nat
    <3>1. exponential[j] \in Nat /\ fast'[j] \in Nat
      BY <1>1, <1>2 DEF Typed
    <3> QED
      BY <3>1, DelayFacts
  <2>2. Justified(j)
    BY <1>1 DEF Growing
  <2>3. \A h \in Whens(j) :
          /\ h \in Goroutines \ {g} /\ call[h].op = "when" /\ call[h].item = j
          /\ call'[h].delay = call[h].delay /\ call'[h].atLeast = call[h].atLeast
          /\ call'[h].alone => j # i /\ call[h].alone
    BY <1>4, <1>5 DEF Whens
  <2>4. CASE j = i
    <3>1. \A h \in Whens(j)' : ~call'[h].alone /\ call'[h].delay <= SlowDelay
      BY <1>5, <2>2, <2>3, <2>4 DEF Justified
    <3>2. longest'[j] = 0 /\ longest'[j] <= Greater(FastSlowDelay(fast'[j]),
                                                    ExponentialDelay(exponential'[j]))
      BY <1>1, <1>2, <2>1, <2>4 DEF Greater
    <3> QED
      BY <3>1, <3>2
         DEF Justified, FastSlowDelay, ExponentialDelay, Backoff, Greater
  <2>5. CASE j # i
    <3>1. /\ Whens(j)' = Whens(j) /\ Forgets(j)' = Forgets(j) /\ fast'[j] = fast[j]
          /\ longest'[j] = longest[j] /\ exponential' = exponential
      BY <1>1, <1>2, <1>5, <2>5
    <3> QED
      BY <2>2, <2>3, <3>1
         DEF Justified, FastSlowDelay, ExponentialDelay, Backoff, Greater
  <2> QED
    BY <2>4, <2>5
<1> QED
  BY <1>1, <1>6, <1>7, <1>8 DEF LimitersInv, NeverSooner

\* The second half: the item is gone from both limiters, or a When was counted in
\* the first one only.
LEMMA ForgetExponentialStep ==
  ASSUME LimitersInv, NEW g \in Goroutines, ForgetExponential(g)
  PROVE  LimitersInv'
<1>1. /\ Typed /\ Counted /\ Growing /\ NeverSooner /\ call[g].op = "forget"
      /\ call' = [call EXCEPT ![g] = NoCall] /\ UNCHANGED <<fast, longest, returned>>
  BY DEF LimitersInv, ForgetExponential
<1>2. PICK i \in Items : i = call[g].item
  BY <1>1, CallFacts DEF Typed, ForgetCalls
<1>3. g \in Forgets(i)
  BY <1>1, <1>2 DEF Forgets
<1>4. /\ exponential' = [exponential EXCEPT ![i] = 0]
      /\ mixed' = IF call[g].alone THEN mixed \ {i} ELSE mixed
  BY <1>2 DEF ForgetExponential, Dropped
<1>5. /\ exponential' \in [Items -> Nat] /\ exponential'[i] = 0
      /\ \A j \in Items : j # i => exponential'[j] = exponential[j]
  BY <1>1, <1>4 DEF Typed
<1>6. /\ call' \in [Goroutines -> Calls]
      /\ \A h \in Goroutines \ {g} : call'[h] = call[h]
      /\ \A j \in Items : Whens(j)' = Whens(j) \ {g} /\ Forgets(j)' = Forgets(j) \ {g}
  BY <1>1, EndFacts
<1>7. \A j \in Items : Whens(j)' = Whens(j) /\ (j # i => Forgets(j)' = Forgets(j))
  <2>1. \A j \in Items : g \notin Whens(j) /\ (j # i => g \notin Forgets(j))
    BY <1>1, <1>2 DEF Whens, Forgets
  <2> QED
    BY <1>6, <2>1
<1>8. Typed'
  BY <1>1, <1>4, <1>5, <1>6 DEF Typed, Calls, WhenCalls, ForgetCalls
<1>9. Counted'
  <2>1. ASSUME NEW j \in Items, j \notin mixed'
        PROVE  IF Forgets(j)' = {}
                 THEN fast'[j] = exponential'[j] + Cardinality(Whens(j)')
                 ELSE fast'[j] = 0 /\ Whens(j)' = {}
    <3>1. CASE j = i
      <4>1. fast[i] = 0 /\ Whens(i) = {}
        BY <1>1, <1>3, <1>4, <2>1, <3>1 DEF Counted
      <4>2. Whens(j)' = {} /\ fast'[j] = 0 /\ exponential'[j] = 0
        BY <1>1, <1>5, <1>7, <3>1, <4>1
      <4>3. Cardinality(Whens(j)') = 0
        BY <4>2, FS_EmptySet
      <4> QED
        BY <4>2, <4>3
    <3>2. CASE j # i
      <4>1. /\ Whens(j)' = Whens(j) /\ Forgets(j)' = Forgets(j) /\ j \notin mixed
            /\ fast'[j] = fast[j] /\ exponential'[j] = exponential[j]
        BY <1>1, <1>4, <1>5, <1>7, <2>1, <3>2
      <4> QED
        BY <1>1, <4>1 DEF Counted
    <3> QED
      BY <3>1, <3>2
  <2>2. ASSUME NEW j \in Items, NEW h \in Forgets(j)', call'[h].alone
        PROVE  fast'[j] = 0 /\ Whens(j)' = {}
    <3>1. h \in Forgets(j) /\ call[h].alone
      BY <1>6, <2>2 DEF Forgets
    <3> QED
      BY <1>1, <1>7, <3>1 DEF Counted
  <2> QED
    BY <2>1, <2>2 DEF Counted
<1>10. Growing'
  <2> SUFFICES ASSUME NEW j \in Items
               PROVE  Justified(j)'
    BY DEF Growing
  <2>1. /\ ExponentialDelay(exponential'[j]) \in Nat /\ FastSlowDelay(fast[j]) \in Nat
    <3>1. exponential'[j] \in Nat /\ fast[j] \in Nat
      BY <1>1, <1>5 DEF Typed
    <3> QED
      BY <3>1, DelayFacts
  <2>2. Justified(j)
    BY <1>1 DEF Growing
  <2>3. \A h \in Whens(j) : call'[h] = call[h]
    BY <1>1, <1>6 DEF Whens
  <2>4. CASE j = i
    <3>1. \A h \in Whens(j)' : ~call'[h].alone /\ call'[h].delay <= SlowDelay
      BY <1>3, <1>7, <2>2, <2>3, <2>4 DEF Justified
    <3>2. longest'[j] = 0 /\ longest'[j] <= Greater(FastSlowDelay(fast'[j]),
                                                    ExponentialDelay(exponential'[j]))
      BY <1>1, <1>3, <2>1, <2>2, <2>4 DEF Justified, Greater
    <3> QED
      BY <3>1, <3>2
         DEF Justified, FastSlowDelay, ExponentialDelay, Backoff, Greater
  <2>5. CASE j # i
    <3>1. /\ Whens(j)' = Whens(j) /\ Forgets(j)' = Forgets(j) /\ fast' = fast
          /\ longest' = longest /\ exponential'[j] = exponential[j]
      BY <1>1, <1>5, <1>7, <2>5
    <3> QED
      BY <2>2, <2>3, <3>1
         DEF Justified, FastSlowDelay, ExponentialDelay, Backoff, Greater
  <2> QED
    BY <2>4, <2>5
<1> QED
  BY <1>1, <1>8, <1>9, <1>10 DEF LimitersInv, NeverSooner

-----------------------------------------------------------------------------
(* Theorems *)

\* LimitersInv is inductive.
THEOREM LimitersInvariant == LimiterSpec => []LimitersInv
<1>1. LimitersInv /\ [LimiterNext]_limiterVars => LimitersInv'
  <2> SUFFICES ASSUME LimitersInv, [LimiterNext]_limiterVars
               PROVE  LimitersInv'
    OBVIOUS
  <2>1. CASE LimiterNext
    BY <2>1, WhenFastSlowStep, WhenExponentialStep, ForgetFastSlowStep,
       ForgetExponentialStep DEF LimiterNext
  <2>2. CASE UNCHANGED limiterVars
    BY <2>2
       DEF limiterVars, LimitersInv, Typed, Calls, WhenCalls, ForgetCalls, Counted,
           Growing, Justified, NeverSooner, Whens, Forgets, FastSlowDelay,
           ExponentialDelay, Backoff, Greater
  <2> QED
    BY <2>1, <2>2
<1> QED
  BY <1>1, LimitersInit, PTL DEF LimiterSpec

\* The types; no delay is longer than the longest configured one, however many
\* failures there have been.
THEOREM LimitersTyped == LimiterSpec => []LimiterTypeOK
<1>1. LimitersInv => LimiterTypeOK
  <2> SUFFICES ASSUME LimitersInv
               PROVE  LimiterTypeOK
    OBVIOUS
  <2>1. \A g \in Goroutines : call[g].op \in {"none", "when", "forget"}
    BY DEF LimitersInv, Typed, Calls, NoCall, WhenCalls, ForgetCalls
  <2> QED
    BY <2>1 DEF LimitersInv, Typed, LimiterTypeOK
<1> QED
  BY <1>1, LimitersInvariant, PTL

\* A When never returns a shorter delay than one that returned before it began,
\* since the item was last forgotten.
THEOREM BackoffNeverSooner == LimiterSpec => []NeverSooner
<1>1. LimitersInv => NeverSooner
  BY DEF LimitersInv
<1> QED
  BY <1>1, LimitersInvariant, PTL

\* Between calls the two limiters have counted the same failures.
THEOREM LimitersInAgreement == LimiterSpec => []LimitersAgree
<1>1. LimitersInv => LimitersAgree
  <2> SUFFICES ASSUME LimitersInv, \A g \in Goroutines : call[g] = NoCall,
                      NEW i \in Items \ mixed
               PROVE  /\ fast[i] = Retries(i) /\ exponential[i] = Retries(i)
                      /\ TakeItem(i) <=> Retries(i) = 0
    BY DEF LimitersAgree
  <2>1. Whens(i) = {} /\ Forgets(i) = {}
    BY DEF Whens, Forgets, NoCall
  <2>2. fast[i] = exponential[i] + Cardinality({})
    BY <2>1 DEF LimitersInv, Counted
  <2>3. fast[i] = exponential[i] /\ fast[i] \in Nat
    BY <2>2, FS_EmptySet DEF LimitersInv, Typed
  <2> QED
    BY <2>3 DEF Retries, TakeItem, Greater
<1> QED
  BY <1>1, LimitersInvariant, PTL

=============================================================================
