---------------------------- MODULE ServerProofs ----------------------------
(***************************************************************************)
(* Proofs about Server, for any number of concurrent requests, any burst   *)
(* and rate of the read limiter, and each of the four configurations.      *)
(*                                                                         *)
(* What the shutdown has reached says what has been closed: once its first *)
(* step is entered the public server takes no request, so that the drain,  *)
(* once it has succeeded, cannot be undone; the same for the admin server  *)
(* and its probe.  Shut relates step, the two servers and the handler,     *)
(* Phase and Born say what there is before the shutdown; with them the     *)
(* properties are inductive.                                               *)
(***************************************************************************)
EXTENDS Server, TLAPS

USE RatesNatural

-----------------------------------------------------------------------------
(* The inductive invariant *)

Steps == IF conf.admin THEN 4 ELSE 3

\* The shutdown has steps under way from the signal on, and only then, and only
\* the exit cuts off a client.
Phase ==
  /\ main = "shutdown" => step >= 1
  /\ main \notin {"shutdown", "exited"} => step = 0
  /\ main # "exited" => cut = {}

\* What exists before the shutdown: the admin server only if it is configured, and
\* no server before the handler.
Born ==
  /\ ~conf.admin => admin = "off"
  /\ admin = "off" => probe = "idle"
  /\ handler = "none" =>
       main \in {"config", "handler", "exited"} /\ public = "off" /\ admin = "off"
  /\ main \in {"config", "handler", "listen"} => public = "off" /\ admin = "off"
  /\ main = "admin" => admin = "off"

\* What each step of the shutdown leaves behind.
Shut ==
  /\ step >= 1 => public = "closed"
  /\ step >= 2 => quit \/ Drained
  /\ conf.admin /\ step >= 2 => admin = "closed"
  /\ conf.admin /\ step >= 3 => quit \/ probe = "idle"
  /\ handler = "closing" => step = Steps - 1
  /\ handler = "closed" => step = Steps

ServerInv ==
  /\ TypeOK /\ Phase /\ Born /\ Shut
  /\ NobodyCutOff /\ ReadyMeansOpen /\ HealthNotLimited

-----------------------------------------------------------------------------
(* The shutdown options *)

LEMMA OptionFacts ==
  ASSUME conf \in [readonly : BOOLEAN, admin : BOOLEAN]
  PROVE  /\ Len(shutdownOptions) = Steps
         /\ \A i \in 1 .. Steps :
              shutdownOptions[i] = IF i = 1 THEN "public"
                                   ELSE IF i = 2 /\ conf.admin THEN "admin"
                                   ELSE IF i = Steps - 1 THEN "handler"
                                   ELSE "tracing"
<1>1. CASE conf.admin
  <2>1. shutdownOptions = (<<"public">> \o <<"admin">>) \o <<"handler", "tracing">>
    BY <1>1 DEF shutdownOptions, AdminOption
  <2>2. /\ Len(shutdownOptions) = 4
        /\ shutdownOptions[1] = "public" /\ shutdownOptions[2] = "admin"
        /\ shutdownOptions[3] = "handler" /\ shutdownOptions[4] = "tracing"
    BY <2>1
  <2> QED
    BY <1>1, <2>2 DEF Steps
<1>2. CASE ~conf.admin
  <2>1. shutdownOptions = (<<"public">> \o <<>>) \o <<"handler", "tracing">>
    BY <1>2 DEF shutdownOptions, AdminOption
  <2>2. /\ Len(shutdownOptions) = 3 /\ shutdownOptions[1] = "public"
        /\ shutdownOptions[2] = "handler" /\ shutdownOptions[3] = "tracing"
    BY <2>1
  <2> QED
    BY <1>2, <2>2 DEF Steps
<1> QED
  BY <1>1, <1>2

-----------------------------------------------------------------------------
(* The middleware of the health check *)

\* The health check's path runs through what was registered before the redirect.
LEMMA RedirectFacts ==
  /\ NewServer[1] = Use("root", "health") /\ NewServer[2] = Use("root", "recovery")
  /\ Registered("redirect") = {3}
<1>1. CASE conf.readonly
  <2>1. /\ Len(NewServer) = 4
        /\ NewServer[1] = Use("root", "health")
        /\ NewServer[2] = Use("root", "recovery")
        /\ NewServer[3] = Route("root", "redirect")
        /\ NewServer[4] = Use("root", "readLimiter")
    BY <1>1 DEF NewServer
  <2> QED
    BY <2>1 DEF Registered, Use, Route
<1>2. CASE ~conf.readonly
  <2>1. /\ Len(NewServer) = 6
        /\ NewServer[1] = Use("root", "health")
        /\ NewServer[2] = Use("root", "recovery")
        /\ NewServer[3] = Route("root", "redirect")
        /\ NewServer[4] = Use("root", "readLimiter")
        /\ NewServer[5] = Use("management", "writeLimiter")
        /\ NewServer[6] = Route("management", "management")
    BY <1>2 DEF NewServer
  <2> QED
    BY <2>1 DEF Registered, Use, Route
<1> QED
  BY <1>1, <1>2

LEMMA HealthUnlimited ==
  ~TakesToken("health") /\ "writeLimiter" \notin Passes("health")
<1>1. (CHOOSE i \in Registered("redirect") : TRUE) = 3
  BY RedirectFacts
<1>2. Chain("redirect") \subseteq {1, 2}
  BY <1>1, RedirectFacts DEF Chain, Registered
<1>3. \A i \in {1, 2} : NewServer[i].name \in {"health", "recovery"}
  BY RedirectFacts DEF Use
<1>4. Passes("health") \subseteq {"health", "recovery"}
  BY <1>2, <1>3 DEF Passes
<1> QED
  BY <1>4 DEF TakesToken

-----------------------------------------------------------------------------
(* The steps *)

LEMMA ServerInit ==
  ASSUME Init
  PROVE  ServerInv
<1>1. conf \in [readonly : BOOLEAN, admin : BOOLEAN] /\ Steps \in 3 .. 4
  BY DEF Init, Steps
<1>2. TypeOK
  <2>1. step \in 0 .. Len(shutdownOptions)
    BY <1>1, OptionFacts DEF Init
  <2>2. last \in [kind : Kinds \cup {"none", "ready"},
                  status : {0, 200, 404, 429, 503}]
    BY DEF Init, NoAnswer
  <2>3. now \in 0 .. MaxTime /\ bucket \in 0 .. Burst
    BY DEF Init
  <2> QED
    BY <2>1, <2>2, <2>3 DEF Init, TypeOK
<1> QED
  BY <1>1, <1>2
     DEF Init, ServerInv, Phase, Born, Shut, NobodyCutOff, ReadyMeansOpen,
         HealthNotLimited, NoAnswer

\* What does not depend on the step: the number of shutdown options.
LEMMA StepsFacts ==
  ASSUME TypeOK
  PROVE  /\ Steps \in {3, 4} /\ step \in 0 .. Steps /\ (conf.admin <=> Steps = 4)
         /\ UNCHANGED conf => Steps' = Steps
                              /\ Len(shutdownOptions)' = Len(shutdownOptions)
BY OptionFacts DEF TypeOK, Steps, shutdownOptions, AdminOption

\* TypeOK, by the variables that a step may change.
LEMMA TypeKept ==
  ASSUME TypeOK, UNCHANGED conf, step' \in 0 .. Steps,
         main' \in {"config", "handler", "listen", "admin", "notify", "wait",
                    "shutdown", "exited"},
         up' \in SUBSET Dependencies, now' \in 0 .. MaxTime, bucket' \in 0 .. Burst,
         public' \in {"off", "starting", "up", "failed", "closed"},
         admin' \in {"off", "starting", "up", "failed", "closed"},
         req' \in [Reqs -> {"idle", "active", "abandoned"}],
         last' \in [kind : Kinds \cup {"none", "ready"},
                    status : {0, 200, 404, 429, 503}],
         served' \in Nat, probe' \in {"idle", "200", "503"} \cup Dependencies,
         handler' \in {"none", "open", "closing", "closed"}, quit' \in BOOLEAN,
         cut' \in SUBSET Reqs
  PROVE  TypeOK'
<1>1. conf' \in [readonly : BOOLEAN, admin : BOOLEAN]
  BY DEF TypeOK
<1>2. step' \in 0 .. Len(shutdownOptions)'
  BY StepsFacts, OptionFacts DEF TypeOK
<1> QED
  BY <1>1, <1>2 DEF TypeOK, Dependencies, Kinds

LEMMA SilentFacts ==
  ASSUME Silent
  PROVE  /\ last'.kind = "none"
         /\ last' \in [kind : Kinds \cup {"none", "ready"},
                       status : {0, 200, 404, 429, 503}]
BY DEF Silent, NoAnswer

\* The steps of serverStart before the signal.
LEMMA StartStep ==
  ASSUME ServerInv, ~Exited, Start
  PROVE  ServerInv'
<1>0. TypeOK /\ step \in 0 .. Steps
  BY StepsFacts DEF ServerInv
<1>1. TypeOK'
  <2>1. Silent
    BY DEF Start, Configure, ConfigRefused, NewHandler, NewHandlerFails, StartPublic,
           startObservabilityServer, Listen, Notify, Killed
  <2>2. UNCHANGED <<conf, up, serving, probe, step, quit>>
    BY DEF Start, Configure, ConfigRefused, NewHandler, NewHandlerFails, StartPublic,
           startObservabilityServer, Listen, Notify, Killed
  <2>3. /\ main' \in {"config", "handler", "listen", "admin", "notify", "wait",
                      "shutdown", "exited"}
        /\ public' \in {"off", "starting", "up", "failed", "closed"}
        /\ admin' \in {"off", "starting", "up", "failed", "closed"}
        /\ handler' \in {"none", "open", "closing", "closed"}
        /\ cut' \in SUBSET Reqs
    BY <1>0
       DEF TypeOK, Start, Configure, ConfigRefused, NewHandler, NewHandlerFails,
           StartPublic, startObservabilityServer, Listen, Notify, Killed
  <2> QED
    BY <1>0, <2>1, <2>2, <2>3, TypeKept, SilentFacts DEF TypeOK, serving
<1>2. Phase' /\ Born' /\ Shut'
  BY StepsFacts
     DEF ServerInv, TypeOK, Start, Configure, ConfigRefused, NewHandler,
         NewHandlerFails, StartPublic, startObservabilityServer, Listen, Notify,
         Killed, serving, Exited, Phase, Born, Shut, Drained
<1>3. NobodyCutOff' /\ ReadyMeansOpen' /\ HealthNotLimited'
  BY DEF ServerInv, TypeOK, Start, Configure, ConfigRefused, NewHandler,
         NewHandlerFails, StartPublic, startObservabilityServer, Listen, Notify,
         Killed, Silent, NoAnswer, Exited, Phase, NobodyCutOff, ReadyMeansOpen,
         HealthNotLimited
<1> QED
  BY <1>1, <1>2, <1>3 DEF ServerInv

\* Requests, the read limiter and the clock: no step of the shutdown.
LEMMA ServingStep ==
  ASSUME ServerInv,
         \/ \E r \in Reqs, kind \in Kinds : Arrive(r, kind)
         \/ \E kind \in Kinds : ReadLimited(kind) \/ WriteLimited(kind)
         \/ \E r \in Reqs : Finish(r) \/ Timeout(r) \/ AbandonedEnds(r)
         \/ Tick
  PROVE  ServerInv'
<1>0. TypeOK /\ step \in 0 .. Steps /\ Steps \in {3, 4}
  BY StepsFacts DEF ServerInv
<1>1. UNCHANGED lifecycle
  BY DEF Arrive, ReadLimited, WriteLimited, Finish, Timeout, AbandonedEnds, Tick
<1>2. /\ bucket' \in 0 .. Burst /\ now' \in 0 .. MaxTime /\ served' \in Nat
  <2>1. ASSUME NEW r \in Reqs, NEW kind \in Kinds, Arrive(r, kind)
        PROVE  bucket' \in 0 .. Burst /\ now' = now /\ served' \in Nat
    BY <1>0, <2>1 DEF TypeOK, Arrive, Spend
  <2>2. ASSUME NEW kind \in Kinds, ReadLimited(kind) \/ WriteLimited(kind)
        PROVE  bucket' \in 0 .. Burst /\ now' = now /\ served' \in Nat
    BY <1>0, <2>2 DEF TypeOK, ReadLimited, WriteLimited, Spend
  <2>3. CASE Tick
    BY <1>0, <2>3 DEF TypeOK, Tick
  <2> QED
    BY <1>0, <2>1, <2>2, <2>3 DEF TypeOK, Finish, Timeout, AbandonedEnds
<1>3. /\ req' \in [Reqs -> {"idle", "active", "abandoned"}]
      /\ public # "up" /\ Drained => Drained'
  <2>1. ASSUME NEW r \in Reqs, NEW kind \in Kinds, Arrive(r, kind)
        PROVE  req' \in [Reqs -> {"idle", "active", "abandoned"}] /\ public = "up"
    BY <1>0, <2>1 DEF TypeOK, Arrive
  <2>2. ASSUME NEW r \in Reqs, Finish(r) \/ Timeout(r) \/ AbandonedEnds(r)
        PROVE  /\ req' \in [Reqs -> {"idle", "active", "abandoned"}]
               /\ Drained => Drained'
    BY <1>0, <2>2 DEF TypeOK, Finish, Timeout, AbandonedEnds, Drained
  <2>3. UNCHANGED req => /\ req' \in [Reqs -> {"idle", "active", "abandoned"}]
                         /\ Drained => Drained'
    BY <1>0 DEF TypeOK, Drained
  <2> QED
    BY <2>1, <2>2, <2>3 DEF ReadLimited, WriteLimited, Tick
<1> DEFINE Proper ==
             /\ last' \in [kind : Kinds \cup {"none", "ready"},
                           status : {0, 200, 404, 429, 503}]
             /\ last'.kind # "ready" /\ HealthNotLimited'
<1>4. Proper
  <2>1. ASSUME NEW r \in Reqs, NEW kind \in Kinds, Arrive(r, kind)
        PROVE  Proper
    BY <2>1, SilentFacts DEF Arrive, Answer, HealthNotLimited, Kinds
  <2>2. ASSUME NEW kind \in Kinds, ReadLimited(kind) \/ WriteLimited(kind)
        PROVE  Proper
    BY <2>2, HealthUnlimited DEF ReadLimited, WriteLimited, Answer, HealthNotLimited,
       Kinds
  <2>3. Silent => Proper
    BY SilentFacts DEF HealthNotLimited
  <2> QED
    BY <2>1, <2>2, <2>3 DEF Finish, Timeout, AbandonedEnds, Tick
<1>5. TypeOK'
  BY <1>0, <1>1, <1>2, <1>3, <1>4, TypeKept DEF lifecycle, TypeOK
<1>6. Phase' /\ Born' /\ Shut'
  BY <1>0, <1>1, <1>3, StepsFacts DEF ServerInv, lifecycle, Phase, Born, Shut
<1>7. NobodyCutOff' /\ ReadyMeansOpen'
  BY <1>1, <1>4 DEF ServerInv, lifecycle, NobodyCutOff, ReadyMeansOpen
<1> QED
  BY <1>4, <1>5, <1>6, <1>7 DEF ServerInv

\* The readiness probe, and the dependencies it asks.
LEMMA ProbeStep ==
  ASSUME ServerInv,
         \/ Probe \/ ProbePing \/ ProbeAnswer
         \/ \E d \in Dependencies : DependencyChange(d)
  PROVE  ServerInv'
<1>0. TypeOK /\ step \in 0 .. Steps /\ Steps \in {3, 4}
  BY StepsFacts DEF ServerInv
<1>1. UNCHANGED <<conf, main, serving, public, admin, step, handler, quit, cut>>
  BY DEF Probe, ProbePing, ProbeAnswer, DependencyChange
<1>2. /\ up' \in SUBSET Dependencies
      /\ probe' \in {"idle", "200", "503"} \cup Dependencies
  <2>1. up' \in SUBSET Dependencies
    BY <1>0 DEF TypeOK, Probe, ProbePing, ProbeAnswer, DependencyChange
  <2>2. probe' = probe \/ probe' \in {"idle", "200", "503", "mysql", "redis"}
    BY DEF Probe, ProbePing, ProbeAnswer, DependencyChange
  <2> QED
    BY <1>0, <2>1, <2>2 DEF TypeOK, Dependencies
<1>3. probe' # "idle" => probe # "idle" \/ admin = "up"
  BY DEF Probe, ProbePing, ProbeAnswer, DependencyChange, Dependencies
<1>4. /\ last' \in [kind : Kinds \cup {"none", "ready"},
                    status : {0, 200, 404, 429, 503}]
      /\ last'.kind # "health" /\ (last'.kind = "ready" => probe # "idle")
  BY SilentFacts DEF Probe, ProbePing, ProbeAnswer, DependencyChange, Answer
<1>5. TypeOK'
  BY <1>0, <1>1, <1>2, <1>4, TypeKept DEF TypeOK, serving
<1>6. Phase' /\ Born' /\ Shut'
  BY <1>0, <1>1, <1>3, StepsFacts
     DEF ServerInv, serving, Phase, Born, Shut, Drained
<1>7. probe # "idle" => handler = "open" \/ quit
  BY <1>0, StepsFacts DEF ServerInv, TypeOK, Born, Shut
<1>8. NobodyCutOff' /\ ReadyMeansOpen' /\ HealthNotLimited'
  BY <1>1, <1>4, <1>7
     DEF ServerInv, NobodyCutOff, ReadyMeansOpen, HealthNotLimited
<1> QED
  BY <1>5, <1>6, <1>8 DEF ServerInv

\* Where the shutdown is, by the option it works on.
LEMMA AtFacts ==
  ASSUME TypeOK, Phase
  PROVE  /\ At("public") => step = 1
         /\ At("admin") => step = 2 /\ conf.admin
         /\ At("handler") => step = Steps - 1
         /\ At("tracing") => step = Steps
BY OptionFacts, StepsFacts DEF TypeOK, At, Phase

\* Entering a step closes the server that the step is for.
LEMMA EnterFacts ==
  ASSUME TypeOK, NEW i \in 1 .. Steps, Enter(i)
  PROVE  /\ step' = i
         /\ public' = IF i = 1 THEN "closed" ELSE public
         /\ admin' = IF i = 2 /\ conf.admin THEN "closed" ELSE admin
BY OptionFacts, StepsFacts DEF TypeOK, Enter

LEMMA ShutdownSteps ==
  ASSUME ServerInv, ~Exited, Signal \/ ShutdownStep \/ SeqClosed \/ QuitExpires
  PROVE  ServerInv'
<1>0. TypeOK /\ Phase /\ step \in 0 .. Steps /\ Steps \in {3, 4}
  BY StepsFacts DEF ServerInv
<1>1. UNCHANGED <<conf, up, serving, probe>> /\ Silent
  BY DEF Signal, ShutdownStep, DrainPublic, DrainAdmin, HandlerClose, FlushAndExit,
         SeqClosed, QuitExpires, draining
<1>2. /\ UNCHANGED Steps /\ (conf.admin <=> Steps = 4)
      /\ Drained' = Drained /\ last'.kind = "none"
  BY <1>0, <1>1, StepsFacts, SilentFacts DEF Drained, serving
<1>3. ReadyMeansOpen' /\ HealthNotLimited'
  BY <1>2 DEF ReadyMeansOpen, HealthNotLimited
<1> SUFFICES TypeOK' /\ Phase' /\ Born' /\ Shut' /\ NobodyCutOff'
  BY <1>3 DEF ServerInv
<1>4. CASE Signal
  <2>1. /\ main = "wait" /\ main' = "shutdown" /\ step = 0 /\ step' = 1
        /\ public' = "closed" /\ UNCHANGED <<admin, handler, quit, cut>>
    BY <1>0, <1>4, EnterFacts DEF Signal, Phase
  <2>2. TypeOK'
    BY <1>0, <1>1, <2>1, TypeKept, SilentFacts DEF TypeOK, serving
  <2> QED
    BY <1>0, <1>1, <1>2, <2>1, <2>2
       DEF ServerInv, Phase, Born, Shut, NobodyCutOff
<1>5. CASE DrainPublic
  <2>1. /\ main = "shutdown" /\ step = 1 /\ step' = 2 /\ (Drained \/ quit)
        /\ public' = public /\ admin' = (IF conf.admin THEN "closed" ELSE admin)
        /\ UNCHANGED <<main, handler, quit, cut>>
    BY <1>0, <1>5, AtFacts, EnterFacts DEF DrainPublic, At, draining
  <2>2. TypeOK'
    BY <1>0, <1>1, <2>1, TypeKept, SilentFacts DEF TypeOK, serving
  <2> QED
    BY <1>0, <1>1, <1>2, <2>1, <2>2
       DEF ServerInv, Phase, Born, Shut, NobodyCutOff
<1>6. CASE DrainAdmin
  <2>1. /\ main = "shutdown" /\ step = 2 /\ step' = 3 /\ conf.admin
        /\ probe = "idle" \/ quit
        /\ UNCHANGED <<main, public, admin, handler, quit, cut>>
    BY <1>0, <1>6, StepsFacts, AtFacts, EnterFacts DEF DrainAdmin, At, draining
  <2>2. TypeOK'
    BY <1>0, <1>1, <2>1, TypeKept, SilentFacts, StepsFacts DEF TypeOK, serving
  <2> QED
    BY <1>0, <1>1, <1>2, <2>1, <2>2
       DEF ServerInv, Phase, Born, Shut, NobodyCutOff
<1>7. CASE HandlerClose \/ SeqClosed
  <2>1. /\ main = "shutdown" /\ step = Steps - 1 /\ UNCHANGED <<main, quit, cut>>
        /\ \/ handler' = "closing" /\ UNCHANGED <<step, public, admin>>
           \/ handler' = "closed" /\ Enter(step + 1)
    BY <1>0, <1>7, AtFacts DEF HandlerClose, SeqClosed, At
  <2>2. /\ UNCHANGED <<public, admin>>
        /\ \/ handler' = "closing" /\ step' = Steps - 1
           \/ handler' = "closed" /\ step' = Steps
    <3>1. ASSUME Enter(step + 1)
          PROVE  step' = Steps /\ UNCHANGED <<public, admin>>
      BY <1>0, <1>2, <2>1, <3>1, EnterFacts
    <3> QED
      BY <2>1, <3>1
  <2>3. TypeOK'
    BY <1>0, <1>1, <2>1, <2>2, TypeKept, SilentFacts DEF TypeOK, serving
  <2> QED
    BY <1>0, <1>1, <1>2, <2>1, <2>2, <2>3
       DEF ServerInv, Phase, Born, Shut, NobodyCutOff
<1>8. CASE FlushAndExit
  <2>1. /\ main = "shutdown" /\ main' = "exited" /\ step = Steps
        /\ cut' = {r \in Reqs : req[r] = "active"}
        /\ UNCHANGED <<public, admin, step, handler, quit>>
    BY <1>0, <1>8, AtFacts DEF FlushAndExit, At
  <2>2. TypeOK'
    BY <1>0, <1>1, <2>1, TypeKept, SilentFacts DEF TypeOK, serving
  <2>3. quit \/ cut' = {}
    BY <1>0, <2>1 DEF ServerInv, Shut, Drained
  <2> QED
    BY <1>0, <1>1, <1>2, <2>1, <2>2, <2>3
       DEF ServerInv, Phase, Born, Shut, NobodyCutOff
<1>9. CASE QuitExpires
  <2>1. quit' = TRUE /\ UNCHANGED <<main, public, admin, step, handler, cut>>
    BY <1>9 DEF QuitExpires
  <2>2. TypeOK'
    BY <1>0, <1>1, <2>1, TypeKept, SilentFacts DEF TypeOK, serving
  <2> QED
    BY <1>0, <1>1, <1>2, <2>1, <2>2
       DEF ServerInv, Phase, Born, Shut, NobodyCutOff
<1> QED
  BY <1>4, <1>5, <1>6, <1>7, <1>8, <1>9 DEF ShutdownStep

-----------------------------------------------------------------------------
(* Theorems *)

\* ServerInv is inductive.
THEOREM ServerInvariant == Spec => []ServerInv
<1>1. ServerInv /\ [Next]_vars => ServerInv'
  <2> SUFFICES ASSUME ServerInv, [Next]_vars
               PROVE  ServerInv'
    OBVIOUS
  <2>1. CASE Next
    BY <2>1, StartStep, ServingStep, ProbeStep, ShutdownSteps DEF Next, Running
  <2>2. CASE UNCHANGED vars
    <3>0. TypeOK /\ step \in 0 .. Steps
      BY StepsFacts DEF ServerInv
    <3>1. TypeOK'
      BY <2>2, <3>0, TypeKept DEF TypeOK, vars, serving
    <3> QED
      BY <2>2, <3>0, <3>1, StepsFacts
         DEF ServerInv, vars, serving, Phase, Born, Shut, Drained, NobodyCutOff,
             ReadyMeansOpen, HealthNotLimited
  <2> QED
    BY <2>1, <2>2
<1> QED
  BY <1>1, ServerInit, PTL DEF Spec

\* The types; the read limiter never lends a token.
THEOREM ServerTyped == Spec => []TypeOK
<1>1. ServerInv => TypeOK
  BY DEF ServerInv
<1> QED
  BY <1>1, ServerInvariant, PTL

\* The handler is closed under nobody while the five seconds last, since the
\* options drain the servers first.
THEOREM DrainFirst == Spec => []ClosedAfterDrain
<1>1. ServerInv => ClosedAfterDrain
  BY StepsFacts DEF ServerInv, Shut, ClosedAfterDrain
<1> QED
  BY <1>1, ServerInvariant, PTL

\* The exit cuts nobody off but after the five seconds, or before serverStart has
\* asked for signals.
THEOREM NobodyIsCutOff == Spec => []NobodyCutOff
<1>1. ServerInv => NobodyCutOff
  BY DEF ServerInv
<1> QED
  BY <1>1, ServerInvariant, PTL

\* "ready" is said only of a process whose handler is open, for as long as the five
\* seconds last: the options drain the admin server before they close the handler.
\* That it is said while the public server drains is left open.
THEOREM ReadinessHonest == Spec => []ReadyMeansOpen
<1>1. ServerInv => ReadyMeansOpen
  BY DEF ServerInv
<1> QED
  BY <1>1, ServerInvariant, PTL

\* The order in which NewServer registers keeps every limiter off the health check.
THEOREM HealthAnswered == Spec => []HealthNotLimited
<1>1. ServerInv => HealthNotLimited
  BY DEF ServerInv
<1> QED
  BY <1>1, ServerInvariant, PTL

=============================================================================
