------------------------------- MODULE Server -------------------------------
(***************************************************************************)
(* One server process from its start to its exit: serverStart              *)
(* (cli/server_command.go), the middleware its routes run through          *)
(* (http.go, middleware/gin.go), the requests it works on, the admin       *)
(* server's readiness probe (pkg/observability), and the shutdown          *)
(* (pkg/shutdown).  On a signal the steps of shutdownOptions run one after *)
(* the other under one context of five seconds: drain the public HTTP      *)
(* server, drain the admin server, close the handler, flush the tracing    *)
(* spans; then the process exits.                                          *)
(*                                                                         *)
(* The configuration is chosen in Init: read-only or read-write, with or   *)
(* without the admin server.                                               *)
(***************************************************************************)
EXTENDS Integers, Sequences

CONSTANTS
  Reqs,       \* slots for concurrent requests
  Burst,      \* StandAloneReadBurst
  Rate,       \* StandAloneReadRate, per tick of the clock
  MaxServed,  \* bound on the redirects
  MaxTime     \* bound of the clock

ASSUME RatesNatural == {Burst, Rate, MaxServed, MaxTime} \subseteq Nat

VARIABLES
  conf,     \* the configuration: readonly, admin (observability enabled)
  main,     \* where the main goroutine is in serverStart
  up,       \* the dependencies that answer
  now,      \* the clock
  bucket,   \* the tokens of the read limiter, a rate.Limiter
  public,   \* the public server: off, starting, up, failed, closed
  req,      \* req[r]: idle, active, or abandoned (told "request timeout")
  last,     \* the answer that the last step sent
  served,   \* history: redirects that reached their handler
  admin,    \* the admin server, like public
  probe,    \* the readiness probe: idle, the ping it makes next, its answer
  step,     \* the shutdown step under way; 0 before the shutdown
  handler,  \* none, open, closing (waits in seq.Close), closed
  quit,     \* the five seconds of the shutdown are over
  cut       \* history: requests whose clients were cut off by the exit

serving == <<now, bucket, req, served>>
vars == <<conf, main, up, serving, public, last, admin, probe, step, handler,
          quit, cut>>

Dependencies == {"mysql", "redis"}

-----------------------------------------------------------------------------
(* NewServer *)

Use(group, name) == [do |-> "use", group |-> group, name |-> name]
Route(group, name) == [do |-> "route", group |-> group, name |-> name]

\* Mutant: the limiter is in force from the start.
NewServerLimiterFirst ==
  <<Use("root", "readLimiter"), Use("root", "health"), Use("root", "recovery"),
    Route("root", "redirect")>>

\* What NewServer registers, in its order.  The read limiter is attached to what
\* router.GET returns, which is the router and not the route.
NewServer ==
  <<Use("root", "health"), Use("root", "recovery"), Route("root", "redirect"),
    Use("root", "readLimiter")>>
  \o (IF conf.readonly THEN <<>>
      ELSE <<Use("management", "writeLimiter"),
             Route("management", "management")>>)

Registered(route) ==
  {i \in 1 .. Len(NewServer) :
     NewServer[i].do = "route" /\ NewServer[i].name = route}

\* gin: a route runs through the middleware that its group and the groups around
\* it had when the route was added; a path without a route, through all of the
\* router's.  The chain is given by the places in NewServer, in their order.
Chain(route) ==
  LET end   == IF Registered(route) = {} THEN Len(NewServer)
               ELSE CHOOSE i \in Registered(route) : TRUE
      group == IF Registered(route) = {} THEN "root" ELSE NewServer[end].group
  IN {i \in 1 .. end : /\ NewServer[i].do = "use"
                       /\ NewServer[i].group \in {"root", group}}

\* The middleware that a request of this kind passes.  The health check answers
\* its path, which matches the pattern of the redirects, and ends the chain.
Passes(kind) ==
  LET chain == Chain(IF kind = "health" THEN "redirect" ELSE kind)
      meets(i) == kind = "health" =>
                    \A h \in chain : h < i => NewServer[h].name # "health"
  IN {NewServer[i].name : i \in {j \in chain : meets(j)}}

Kinds == {"health", "redirect", "management", "unmatched"}

-----------------------------------------------------------------------------
Answer(kind, status) == last' = [kind |-> kind, status |-> status]
NoAnswer == [kind |-> "none", status |-> 0]
Silent == last' = NoAnswer

Init ==
  /\ conf \in [readonly : BOOLEAN, admin : BOOLEAN]
  /\ main = "config"
  /\ up \in SUBSET Dependencies
  /\ now = 0
  /\ bucket = Burst
  /\ public = "off"
  /\ req = [r \in Reqs |-> "idle"]
  /\ last = NoAnswer
  /\ served = 0
  /\ admin = "off"
  /\ probe = "idle"
  /\ step = 0
  /\ handler = "none"
  /\ quit = FALSE
  /\ cut = {}

Exited == main = "exited"

-----------------------------------------------------------------------------
(* serverStart *)

\* The configuration is read and validated, the logger and the tracer are set.
Configure ==
  /\ main = "config"
  /\ main' = "handler"
  /\ Silent
  /\ UNCHANGED <<conf, up, serving, public, admin, probe, step, handler, quit,
                 cut>>

\* NewHandler connects to MySQL and, in read-write mode, migrates the tables and
\* reserves the first segment of numbers, for as long as that takes.
NewHandler ==
  /\ main = "handler"
  /\ "mysql" \in up
  /\ main' = "listen"
  /\ handler' = "open"
  /\ Silent
  /\ UNCHANGED <<conf, up, serving, public, admin, probe, step, quit, cut>>

\* The configuration cannot be read or is invalid, or the logger or the tracer
\* cannot be set up: the error ends the process.
ConfigRefused ==
  /\ main = "config"
  /\ main' = "exited"
  /\ Silent
  /\ UNCHANGED <<conf, up, serving, public, admin, probe, step, handler, quit,
                 cut>>

\* MySQL fails one of the steps of NewHandler: so does that error.
NewHandlerFails ==
  /\ main = "handler"
  /\ main' = "exited"
  /\ Silent
  /\ UNCHANGED <<conf, up, serving, public, admin, probe, step, handler, quit,
                 cut>>

\* A goroutine is started that runs ListenAndServe.
StartPublic ==
  /\ main = "listen"
  /\ main' = "admin"
  /\ public' = "starting"
  /\ Silent
  /\ UNCHANGED <<conf, up, serving, admin, probe, step, handler, quit, cut>>

\* The admin server too runs in a goroutine, if the configuration enables it.
startObservabilityServer ==
  /\ main = "admin"
  /\ main' = "notify"
  /\ admin' = IF conf.admin THEN "starting" ELSE "off"
  /\ Silent
  /\ UNCHANGED <<conf, up, serving, public, probe, step, handler, quit, cut>>

\* ListenAndServe binds its address, or fails: that is logged, and the process
\* goes on without this server.
Listen ==
  /\ \/ /\ public = "starting"
        /\ public' \in {"up", "failed"}
        /\ UNCHANGED admin
     \/ /\ admin = "starting"
        /\ admin' \in {"up", "failed"}
        /\ UNCHANGED public
  /\ Silent
  /\ UNCHANGED <<conf, main, up, serving, probe, step, handler, quit, cut>>

\* From here on a signal is left to serverStart, which waits for one.
Notify ==
  /\ main = "notify"
  /\ main' = "wait"
  /\ Silent
  /\ UNCHANGED <<conf, up, serving, public, admin, probe, step, handler, quit,
                 cut>>

\* A signal before that ends the process at once.
Killed ==
  /\ main \notin {"wait", "shutdown"}
  /\ main' = "exited"
  /\ cut' = {r \in Reqs : req[r] = "active"}
  /\ Silent
  /\ UNCHANGED <<conf, up, serving, public, admin, probe, step, handler, quit>>

-----------------------------------------------------------------------------
(* Requests *)

lifecycle == <<conf, main, up, public, admin, probe, step, handler, quit, cut>>

\* The read limiter, where the request meets it, takes a token.
TakesToken(kind) == "readLimiter" \in Passes(kind)

\* Mutant: a request that meets no limiter takes a token too.
SpendUnchecked(kind) == bucket' = bucket - 1

Spend(kind) == bucket' = IF TakesToken(kind) THEN bucket - 1 ELSE bucket

\* A request gets to its handler, or to the 200 of the health check or the 404.
Arrive(r, kind) ==
  /\ public = "up"
  /\ req[r] = "idle"
  /\ kind = "redirect" => served < MaxServed
  /\ TakesToken(kind) => bucket >= 1
  /\ Spend(kind)
  /\ IF kind \in {"redirect", "management"} /\ Registered(kind) # {}
       THEN /\ req' = [req EXCEPT ![r] = "active"]
            /\ Silent
       ELSE /\ Answer(kind, IF kind = "health" THEN 200 ELSE 404)
            /\ UNCHANGED req
  /\ served' = served + (IF kind = "redirect" THEN 1 ELSE 0)
  /\ UNCHANGED <<now, lifecycle>>

\* The read limiter has no token.
ReadLimited(kind) ==
  /\ public = "up"
  /\ TakesToken(kind)
  /\ bucket < 1
  /\ Answer(kind, 429)
  /\ UNCHANGED <<now, bucket, req, served, lifecycle>>

\* The global write limiter (module TokenLimiter) refuses, which comes after the
\* read limiter.
WriteLimited(kind) ==
  /\ public = "up"
  /\ "writeLimiter" \in Passes(kind)
  /\ TakesToken(kind) => bucket >= 1
  /\ Spend(kind)
  /\ Answer(kind, 429)
  /\ UNCHANGED <<now, req, served, lifecycle>>

\* The handler answers, or panics and Recovery answers 500.
Finish(r) ==
  /\ req[r] = "active"
  /\ req' = [req EXCEPT ![r] = "idle"]
  /\ Silent
  /\ UNCHANGED <<now, bucket, served, lifecycle>>

\* TimeoutHandler answers "request timeout" in the handler's place; the handler's
\* goroutine goes on with a cancelled context.
Timeout(r) ==
  /\ req[r] = "active"
  /\ req' = [req EXCEPT ![r] = "abandoned"]
  /\ Silent
  /\ UNCHANGED <<now, bucket, served, lifecycle>>

AbandonedEnds(r) ==
  /\ req[r] = "abandoned"
  /\ req' = [req EXCEPT ![r] = "idle"]
  /\ Silent
  /\ UNCHANGED <<now, bucket, served, lifecycle>>

Tick ==
  /\ now < MaxTime
  /\ now' = now + 1
  /\ bucket' = IF bucket + Rate < Burst THEN bucket + Rate ELSE Burst
  /\ Silent
  /\ UNCHANGED <<req, served, lifecycle>>

-----------------------------------------------------------------------------
(* The admin server: handleReadiness and pingDeps *)

\* GET /readyz
Probe ==
  /\ admin = "up"
  /\ probe = "idle"
  /\ probe' = "mysql"
  /\ Silent
  /\ UNCHANGED <<conf, main, up, serving, public, admin, step, handler, quit, cut>>

\* Dependency d answers the ping.  The redis client stops working when the
\* handler is closed; the MySQL pool is not closed by storage.Close.
Reachable(d) == d \in up /\ (d = "redis" => handler # "closed")

\* The first dependency that does not answer in time makes the process not
\* ready, and the other one is not asked.
ProbePing ==
  /\ probe \in Dependencies
  /\ \/ /\ Reachable(probe)
        /\ probe' = IF probe = "mysql" THEN "redis" ELSE "200"
     \/ probe' = "503"
  /\ Silent
  /\ UNCHANGED <<conf, main, up, serving, public, admin, step, handler, quit, cut>>

ProbeAnswer ==
  /\ probe \in {"200", "503"}
  /\ Answer("ready", IF probe = "200" THEN 200 ELSE 503)
  /\ probe' = "idle"
  /\ UNCHANGED <<conf, main, up, serving, public, admin, step, handler, quit, cut>>

\* A dependency goes away or comes back.
DependencyChange(d) ==
  /\ up' = IF d \in up THEN up \ {d} ELSE up \cup {d}
  /\ Silent
  /\ UNCHANGED <<conf, main, serving, public, admin, probe, step, handler, quit,
                 cut>>

-----------------------------------------------------------------------------
(* GracefulShutdown *)

AdminOption == IF conf.admin THEN <<"admin">> ELSE <<>>

\* Mutant: the handler is closed before the servers have drained.
shutdownOptionsHandlerFirst ==
  <<"handler", "public">> \o AdminOption \o <<"tracing">>

\* Mutant: the admin server is drained after the handler was closed.
shutdownOptionsAdminLast ==
  <<"public", "handler">> \o AdminOption \o <<"tracing">>

shutdownOptions == <<"public">> \o AdminOption \o <<"handler", "tracing">>

At(opt) == main = "shutdown" /\ shutdownOptions[step] = opt

\* The shutdown gets to its step i.  The Shutdown of a server closes its
\* listener first, or keeps ListenAndServe from opening it.
Enter(i) ==
  /\ step' = i
  /\ public' = IF shutdownOptions[i] = "public" THEN "closed" ELSE public
  /\ admin' = IF shutdownOptions[i] = "admin" THEN "closed" ELSE admin

\* SIGINT or SIGTERM.
Signal ==
  /\ main = "wait"
  /\ main' = "shutdown"
  /\ Enter(1)
  /\ Silent
  /\ UNCHANGED <<conf, up, serving, probe, handler, quit, cut>>

Drained == \A r \in Reqs : req[r] # "active"

draining == <<conf, main, up, serving, probe, handler, quit, cut>>

\* Mutant: the drain pays no attention to the context.
DrainPublicPatient ==
  /\ At("public")
  /\ Drained
  /\ Enter(step + 1)
  /\ Silent
  /\ UNCHANGED draining

\* Mutant: the connections are closed and nobody is waited for.
DrainPublicHasty ==
  /\ At("public")
  /\ Enter(step + 1)
  /\ Silent
  /\ UNCHANGED draining

\* Shutdown returns when no connection is active, or with an error when the
\* context is done; the error is logged and the next step follows.  A request
\* that timed out has been answered, so its connection is not active.
DrainPublic ==
  /\ At("public")
  /\ Drained \/ quit
  /\ Enter(step + 1)
  /\ Silent
  /\ UNCHANGED draining

DrainAdmin ==
  /\ At("admin")
  /\ probe = "idle" \/ quit
  /\ Enter(step + 1)
  /\ Silent
  /\ UNCHANGED draining

\* service.Close: the janitor is told to stop, then seq.Close waits for the
\* worker.  A read-only process has neither.
HandlerClose ==
  /\ At("handler")
  /\ handler = "open"
  /\ IF conf.readonly
       THEN handler' = "closed" /\ Enter(step + 1)
       ELSE handler' = "closing" /\ UNCHANGED <<step, public, admin>>
  /\ Silent
  /\ UNCHANGED <<conf, main, up, serving, probe, quit, cut>>

\* seq.Close returns (it need not, see module Tddl) and the caches are closed.
SeqClosed ==
  /\ At("handler")
  /\ handler = "closing"
  /\ handler' = "closed"
  /\ Enter(step + 1)
  /\ Silent
  /\ UNCHANGED <<conf, main, up, serving, probe, quit, cut>>

\* The spans are flushed, or not in time, and the process exits with whatever
\* it was still doing.
FlushAndExit ==
  /\ At("tracing")
  /\ main' = "exited"
  /\ cut' = {r \in Reqs : req[r] = "active"}
  /\ Silent
  /\ UNCHANGED <<conf, up, serving, public, admin, probe, step, handler, quit>>

\* The context of the shutdown is done.
QuitExpires ==
  /\ main = "shutdown"
  /\ ~quit
  /\ quit' = TRUE
  /\ Silent
  /\ UNCHANGED <<conf, main, up, serving, public, admin, probe, step, handler, cut>>

Start ==
  \/ Configure \/ ConfigRefused \/ NewHandler \/ NewHandlerFails \/ StartPublic
  \/ startObservabilityServer \/ Listen \/ Notify \/ Killed

ShutdownStep == DrainPublic \/ DrainAdmin \/ HandlerClose \/ FlushAndExit

\* Nothing runs after the exit.
Running ==
  \/ Start
  \/ \E r \in Reqs, kind \in Kinds : Arrive(r, kind)
  \/ \E kind \in Kinds : ReadLimited(kind) \/ WriteLimited(kind)
  \/ \E r \in Reqs : Finish(r) \/ Timeout(r) \/ AbandonedEnds(r)
  \/ Probe \/ ProbePing \/ ProbeAnswer
  \/ \E d \in Dependencies : DependencyChange(d)
  \/ Tick
  \/ Signal \/ ShutdownStep \/ SeqClosed \/ QuitExpires

Next == ~Exited /\ Running

Spec == Init /\ [][Next]_vars

\* The main goroutine goes on with the shutdown and the timer of its context
\* fires.  Nothing is assumed of the requests, nor of seq.Close.
FairSpec == Spec /\ WF_vars(ShutdownStep) /\ WF_vars(QuitExpires)

-----------------------------------------------------------------------------
(* Properties *)

TypeOK ==
  /\ conf \in [readonly : BOOLEAN, admin : BOOLEAN]
  /\ main \in {"config", "handler", "listen", "admin", "notify", "wait",
               "shutdown", "exited"}
  /\ up \in SUBSET Dependencies
  /\ now \in 0 .. MaxTime
  /\ bucket \in 0 .. Burst
  /\ {public, admin} \subseteq {"off", "starting", "up", "failed", "closed"}
  /\ req \in [Reqs -> {"idle", "active", "abandoned"}]
  /\ last \in [kind : Kinds \cup {"none", "ready"},
               status : {0, 200, 404, 429, 503}]
  /\ served \in Nat
  /\ probe \in {"idle", "200", "503"} \cup Dependencies
  /\ step \in 0 .. Len(shutdownOptions)
  /\ handler \in {"none", "open", "closing", "closed"}
  /\ quit \in BOOLEAN
  /\ cut \in SUBSET Reqs

\* As long as the five seconds last, the sequence generator and the caches are
\* not taken from a request whose client still waits for its answer.
ClosedAfterDrain ==
  handler \in {"closing", "closed"} => quit \/ Drained

\* No client that waits is cut off by the exit, unless the five seconds were over
\* or the signal came in the short time when the public server was already
\* running and serverStart had not yet asked for signals.
NobodyCutOff == cut # {} => quit \/ step = 0

\* What a 200 of /readyz is worth, "readiness (pings MySQL and Redis)"
\* (README.md:69): the clients that were pinged are those of an open handler.
\* Nobody is told that the process is ready before its handler exists, and while
\* the five seconds last nobody is told so once the handler is being closed,
\* however a probe in flight and the shutdown interleave.  The property is about
\* the handler only: while the public server drains the handler is open and the
\* answer is still 200, which is what NotReadyInShutdown is about.
ReadyMeansOpen ==
  last.kind = "ready" /\ last.status = 200 => handler = "open" \/ quit

\* "1. tell the load balancer this node is offline, and stop sending new requests
\* 2. set the healthcheck status to unhealthy 3. stop accepting new HTTP requests"
\* (graceful_shutdown.go:48): no probe that comes during the shutdown is told
\* that the process is ready.
NotReadyInShutdown ==
  [](main = "shutdown" /\ probe = "idle" /\ last.kind # "ready" =>
       [](last.kind = "ready" => last.status # 200))

\* The health check of the public server is answered whatever the load: no
\* limiter refuses it.
HealthNotLimited == last.kind = "health" => last.status = 200

\* After the signal the process exits, even if requests and probes hang; only
\* the sequence generator's Close can hold it up.
ShutdownEnds == main = "shutdown" ~> Exited \/ handler = "closing"

\* "access to short links can be rate-limited per unit time" (README.md:134):
\* redirects keep to the configured rate and burst.
RedirectsLimited == served <= Burst + Rate * now

=============================================================================
