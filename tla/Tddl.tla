-------------------------------- MODULE Tddl --------------------------------
(***************************************************************************)
(* pkg/tddl: every short link gets its number from a sequence that all     *)
(* server processes share.  One row of the table "sequences" holds the     *)
(* next free number; a process reserves Step numbers at a time by a        *)
(* compare-and-swap on the row's version column, and a worker goroutine    *)
(* hands them out, one per rendezvous on an unbuffered channel, to the     *)
(* callers of Next.                                                        *)
(*                                                                         *)
(* A client is one process (one tddlSequence).  Its pc is the point its    *)
(* constructor or its worker has reached:                                  *)
(*   down -> getRowID -> create -> renew <-> cas <-> sleep                 *)
(*                                   |  ^                                  *)
(*                                  loop  -> select -> exited              *)
(* "loop" is the test `for next >= s.max` of the worker, "select" its      *)
(* select statement.  The local `next` of the worker always equals curr    *)
(* there, so it is not a variable of its own.                              *)
(***************************************************************************)
EXTENDS Integers

CONSTANTS
  Clients,      \* the server processes
  Callers,      \* the requests that call Next
  Step,         \* Step[c] is the configured segment length of client c
  StartNum,     \* the configured first number
  MaxSequence   \* the largest value the BIGINT column takes

ASSUME ClientStep == Step \in [Clients -> Nat]

ASSUME StartBelowMax ==
  /\ StartNum \in Nat
  /\ MaxSequence \in Nat
  /\ StartNum <= MaxSequence

VARIABLES
  \* The row of the table "sequences".
  sequence,   \* its column sequence: the next number not reserved
  version,    \* its optimistic-lock column; 0 while the row does not exist
  \* One tddlSequence per client.
  pc,         \* where the constructor or the worker is
  life,       \* new (in newSequence), open, closing (stop closed), closed
  snap,       \* the row as renew read it last
  curr,       \* the number the worker offers
  max,        \* the end of the reserved segment
  waiting,    \* waiting[c]: the callers blocked in Next on client c
  \* The callers.
  ctxDone,    \* the callers whose context is done
  \* History, for the properties.
  issued,     \* issued[n]: how many calls of Next returned n
  lost        \* the numbers that were reserved and will never be returned

row == <<sequence, version>>
vars == <<sequence, version, pc, life, snap, curr, max, waiting, ctxDone,
          issued, lost>>

Ids == 0 .. MaxSequence
Snapshot == [sequence : Ids, version : Nat]

\* The numbers client c has reserved and not yet handed out.
Held(c) == curr[c] .. (max[c] - 1)

\* Mutant: the loop condition off by one.
ExhaustedLate(c) == curr[c] > max[c]

\* The worker's loop condition: the segment has been used up.
Exhausted(c) == curr[c] >= max[c]

HighWater == IF version = 0 THEN StartNum ELSE sequence

TypeOK ==
  /\ sequence \in Ids
  /\ version \in Nat
  /\ pc \in [Clients -> {"down", "getRowID", "create", "renew", "cas",
                         "sleep", "loop", "select", "exited"}]
  /\ life \in [Clients -> {"new", "open", "closing", "closed"}]
  /\ snap \in [Clients -> Snapshot]
  /\ curr \in [Clients -> Ids]
  /\ max \in [Clients -> Ids]
  /\ waiting \in [Clients -> SUBSET Callers]
  /\ ctxDone \in SUBSET Callers
  /\ issued \in [Ids -> Nat]
  /\ lost \in SUBSET Ids

Init ==
  /\ sequence = 0
  /\ version = 0
  /\ pc = [c \in Clients |-> "down"]
  /\ life = [c \in Clients |-> "new"]
  /\ snap = [c \in Clients |-> [sequence |-> 0, version |-> 0]]
  /\ curr = [c \in Clients |-> 0]
  /\ max = [c \in Clients |-> 0]
  /\ waiting = [c \in Clients |-> {}]
  /\ ctxDone = {}
  /\ issued = [n \in Ids |-> 0]
  /\ lost = {}

-----------------------------------------------------------------------------
(* newSequence *)

Goto(c, l) == pc' = [pc EXCEPT ![c] = l]

\* A process starts; a step below 1 is refused (ErrStepTooSmall).
Start(c) ==
  /\ pc[c] = "down"
  /\ Step[c] >= 1
  /\ Goto(c, "getRowID")
  /\ UNCHANGED <<sequence, version, life, snap, curr, max, waiting, ctxDone,
                 issued, lost>>

\* The row is looked up by name.
GetRowID(c) ==
  /\ pc[c] = "getRowID"
  /\ Goto(c, IF version = 0 THEN "create" ELSE "renew")
  /\ UNCHANGED <<sequence, version, life, snap, curr, max, waiting, ctxDone,
                 issued, lost>>

\* The row is created.  Another process may have created it since the lookup:
\* then the unique name makes the insert fail and newSequence returns the error.
\* It returns the error too when the insert took place but its reply was lost.
CreateRecord(c) ==
  /\ pc[c] = "create"
  /\ IF version = 0
       THEN /\ sequence' = StartNum
            /\ version' = 1
            /\ \E l \in {"renew", "down"} : Goto(c, l)
       ELSE /\ Goto(c, "down")
            /\ UNCHANGED row
  /\ UNCHANGED <<life, snap, curr, max, waiting, ctxDone, issued, lost>>

\* The database fails the lookup or the insert: newSequence returns the error.
StartFail(c) ==
  /\ pc[c] \in {"getRowID", "create"}
  /\ Goto(c, "down")
  /\ UNCHANGED <<sequence, version, life, snap, curr, max, waiting, ctxDone,
                 issued, lost>>

-----------------------------------------------------------------------------
(* renew: called by newSequence for the first segment, then by the worker *)

Stopped(c) == life[c] \in {"closing", "closed"}

\* renew sees the stop signal and returns with the segment it had.
RenewStop(c) ==
  /\ pc[c] = "renew"
  /\ Stopped(c)
  /\ Goto(c, "loop")
  /\ UNCHANGED <<sequence, version, life, snap, curr, max, waiting, ctxDone,
                 issued, lost>>

\* No stop signal: renew reads the row.
RenewTake(c) ==
  /\ pc[c] = "renew"
  /\ ~Stopped(c)
  /\ snap' = [snap EXCEPT ![c] = [sequence |-> sequence, version |-> version]]
  /\ Goto(c, "cas")
  /\ UNCHANGED <<sequence, version, life, curr, max, waiting, ctxDone,
                 issued, lost>>

RenewTakeFail(c) ==
  /\ pc[c] = "renew"
  /\ ~Stopped(c)
  /\ Goto(c, "sleep")
  /\ UNCHANGED <<sequence, version, life, snap, curr, max, waiting, ctxDone,
                 issued, lost>>

\* Mutant: an UPDATE with no condition on the version.
MatchesAny(c) == TRUE

\* UPDATE ... SET sequence = ?, version = version + 1 WHERE id = ? AND
\* version = ? affects the row.
Matches(c) == version = snap[c].version

\* The UPDATE writes the value computed from the snapshot; a value the column
\* cannot hold is an error.
Update(c) ==
  /\ pc[c] = "cas"
  /\ Matches(c)
  /\ snap[c].sequence + Step[c] <= MaxSequence
  /\ sequence' = snap[c].sequence + Step[c]
  /\ version' = version + 1

\* Mutant: curr is left at the end of the new segment.
RenewCasAtEnd(c) ==
  /\ Update(c)
  /\ curr' = [curr EXCEPT ![c] = snap[c].sequence + Step[c]]
  /\ max' = [max EXCEPT ![c] = snap[c].sequence + Step[c]]
  /\ life' = [life EXCEPT ![c] = IF @ = "new" THEN "open" ELSE @]
  /\ Goto(c, "loop")
  /\ UNCHANGED <<snap, waiting, ctxDone, issued, lost>>

\* The compare-and-swap succeeds: curr and max delimit the new segment.  The
\* first segment completes newSequence, which starts the worker and returns.
RenewCas(c) ==
  /\ Update(c)
  /\ curr' = [curr EXCEPT ![c] = snap[c].sequence]
  /\ max' = [max EXCEPT ![c] = snap[c].sequence + Step[c]]
  /\ life' = [life EXCEPT ![c] = IF @ = "new" THEN "open" ELSE @]
  /\ Goto(c, "loop")
  /\ UNCHANGED <<snap, waiting, ctxDone, issued, lost>>

\* The UPDATE is applied but its reply is lost: renew takes it for a failure,
\* and the segment it reserved belongs to nobody.
RenewCasLost(c) ==
  /\ Update(c)
  /\ Goto(c, "sleep")
  /\ lost' = lost \cup (sequence .. (sequence' - 1))
  /\ UNCHANGED <<life, snap, curr, max, waiting, ctxDone, issued>>

\* Mutant: a failed update ends the worker.
RenewCasFailGiveUp(c) ==
  /\ pc[c] = "cas"
  /\ Goto(c, "exited")
  /\ UNCHANGED <<sequence, version, life, snap, curr, max, waiting, ctxDone,
                 issued, lost>>

\* The UPDATE affects no row, or the database fails it.
RenewCasFail(c) ==
  /\ pc[c] = "cas"
  /\ Goto(c, "sleep")
  /\ UNCHANGED <<sequence, version, life, snap, curr, max, waiting, ctxDone,
                 issued, lost>>

\* The backoff of the rate limiter is over.
Wake(c) ==
  /\ pc[c] = "sleep"
  /\ Goto(c, "renew")
  /\ UNCHANGED <<sequence, version, life, snap, curr, max, waiting, ctxDone,
                 issued, lost>>

-----------------------------------------------------------------------------
(* worker *)

\* The worker reloads curr and renews until the segment has a number to offer.
Loop(c) ==
  /\ pc[c] = "loop"
  /\ Goto(c, IF Exhausted(c) THEN "renew" ELSE "select")
  /\ UNCHANGED <<sequence, version, life, snap, curr, max, waiting, ctxDone,
                 issued, lost>>

\* The rendezvous on the queue: caller k receives curr, and the worker advances.
\* Both selects choose at random among their ready cases, so this can happen
\* after stop was closed and after the caller's context is done.  The next call
\* of k has a new context.
Deliver(c, k) ==
  /\ pc[c] = "select"
  /\ k \in waiting[c]
  /\ waiting' = [waiting EXCEPT ![c] = @ \ {k}]
  /\ issued' = [issued EXCEPT ![curr[c]] = @ + 1]
  /\ curr' = [curr EXCEPT ![c] = @ + 1]
  /\ ctxDone' = ctxDone \ {k}
  /\ Goto(c, "loop")
  /\ UNCHANGED <<sequence, version, life, snap, max, lost>>

\* The worker sees the stop signal in its select and returns.
WorkerStop(c) ==
  /\ pc[c] = "select"
  /\ Stopped(c)
  /\ Goto(c, "exited")
  /\ UNCHANGED <<sequence, version, life, snap, curr, max, waiting, ctxDone,
                 issued, lost>>

-----------------------------------------------------------------------------
(* Next and Close *)

\* A caller enters Next; a context already done is refused at once.  Nothing
\* stops a caller from calling Next on a client that has been closed.
NextCall(c, k) ==
  /\ life[c] # "new"
  /\ k \notin ctxDone
  /\ \A d \in Clients : k \notin waiting[d]
  /\ waiting' = [waiting EXCEPT ![c] = @ \cup {k}]
  /\ UNCHANGED <<sequence, version, pc, life, snap, curr, max, ctxDone,
                 issued, lost>>

\* The caller's context times out or its connection goes away.
CtxExpire(k) ==
  /\ k \notin ctxDone
  /\ \E c \in Clients : k \in waiting[c]
  /\ ctxDone' = ctxDone \cup {k}
  /\ UNCHANGED <<sequence, version, pc, life, snap, curr, max, waiting,
                 issued, lost>>

\* Next returns the context's error.
NextCancelled(c, k) ==
  /\ k \in waiting[c]
  /\ k \in ctxDone
  /\ waiting' = [waiting EXCEPT ![c] = @ \ {k}]
  /\ ctxDone' = ctxDone \ {k}
  /\ UNCHANGED <<sequence, version, pc, life, snap, curr, max, issued, lost>>

\* Close closes stop and starts to wait for the worker.
Close(c) ==
  /\ life[c] = "open"
  /\ life' = [life EXCEPT ![c] = "closing"]
  /\ UNCHANGED <<sequence, version, pc, snap, curr, max, waiting, ctxDone,
                 issued, lost>>

\* Mutant: Close does not wait for the worker.
CloseReturnAtOnce(c) ==
  /\ life[c] = "closing"
  /\ life' = [life EXCEPT ![c] = "closed"]
  /\ UNCHANGED <<sequence, version, pc, snap, curr, max, waiting, ctxDone,
                 issued, lost>>

\* The worker has returned, so Close returns.
CloseReturn(c) ==
  /\ life[c] = "closing"
  /\ pc[c] = "exited"
  /\ life' = [life EXCEPT ![c] = "closed"]
  /\ UNCHANGED <<sequence, version, pc, snap, curr, max, waiting, ctxDone,
                 issued, lost>>

\* The process ends, by a crash or after its shutdown, with its callers; the
\* numbers it still holds are lost, and a restart begins from nothing.
Exit(c) ==
  /\ pc[c] # "down"
  /\ Goto(c, "down")
  /\ life' = [life EXCEPT ![c] = "new"]
  /\ snap' = [snap EXCEPT ![c] = [sequence |-> 0, version |-> 0]]
  /\ curr' = [curr EXCEPT ![c] = 0]
  /\ max' = [max EXCEPT ![c] = 0]
  /\ waiting' = [waiting EXCEPT ![c] = {}]
  /\ ctxDone' = ctxDone \ waiting[c]
  /\ lost' = lost \cup Held(c)
  /\ UNCHANGED <<sequence, version, issued>>

-----------------------------------------------------------------------------
ClientStepOf(c) ==
  \/ Start(c) \/ GetRowID(c) \/ CreateRecord(c) \/ StartFail(c)
  \/ RenewStop(c) \/ RenewTake(c) \/ RenewTakeFail(c)
  \/ RenewCas(c) \/ RenewCasLost(c) \/ RenewCasFail(c) \/ Wake(c)
  \/ Loop(c) \/ WorkerStop(c)
  \/ Close(c) \/ CloseReturn(c) \/ Exit(c)

CallerStepOf(c, k) == Deliver(c, k) \/ NextCall(c, k) \/ NextCancelled(c, k)

Next ==
  \/ \E c \in Clients : ClientStepOf(c)
  \/ \E c \in Clients, k \in Callers : CallerStepOf(c, k)
  \/ \E k \in Callers : CtxExpire(k)

Spec == Init /\ [][Next]_vars

\* A goroutine that can run does run (the Go scheduler), a database that is
\* asked again and again does not fail every time, and a select with a case
\* that is ready again and again takes it (Go chooses at random).
Fairness ==
  /\ \A c \in Clients :
       /\ WF_vars(GetRowID(c)) /\ WF_vars(CreateRecord(c))
       /\ WF_vars(RenewStop(c)) /\ WF_vars(Wake(c)) /\ WF_vars(Loop(c))
       /\ WF_vars(CloseReturn(c))
       /\ WF_vars(RenewTakeFail(c) \/ RenewTake(c)) /\ SF_vars(RenewTake(c))
       /\ WF_vars(RenewCasFail(c) \/ RenewCas(c)) /\ SF_vars(RenewCas(c))
       /\ SF_vars(WorkerStop(c))
  /\ \A c \in Clients, k \in Callers :
       SF_vars(Deliver(c, k)) /\ WF_vars(NextCancelled(c, k))

FairSpec == Spec /\ Fairness

-----------------------------------------------------------------------------
(* Properties *)

Issued == {n \in Ids : issued[n] > 0}

\* No number is returned by two calls of Next, in whatever order processes
\* renew, fail, crash and restart: each number below the row's mark has been
\* returned once, or is held by exactly one process, or is lost for good.  It
\* is what makes the short codes of commandService.Create distinct.
IdsAccounted ==
  /\ \A n \in Ids : issued[n] <= 1
  /\ lost \cap Issued = {}
  /\ \A c \in Clients : Held(c) \cap (lost \cup Issued) = {}
  /\ \A c, d \in Clients : c # d => Held(c) \cap Held(d) = {}
  /\ StartNum .. (HighWater - 1) =
       lost \cup Issued \cup UNION {Held(c) : c \in Clients}

\* The optimistic lock loses no update: once the row exists, a step that
\* changes it adds one client's step to the mark as it is at that moment (not
\* as some process once read it) and advances the version by one.
NoLostUpdate ==
  [][version # 0 /\ row' # row =>
       /\ version' = version + 1
       /\ \E c \in Clients : Step[c] >= 1 /\ sequence' = sequence + Step[c]]_vars

\* The worker and the optimistic lock together implement leases of segments.
Lease == INSTANCE SegmentLease
           WITH hi <- HighWater, held <- [c \in Clients |-> Held(c)]

\* Every step of the sequence generator is a step of the lease specification.
ImplementsLease == Lease!LeaseSpec

\* A caller blocked in Next does not wait for ever on a running process, unless
\* the column has no room for another segment.
NextServed ==
  \A c \in Clients, k \in Callers :
    k \in waiting[c] ~> \/ k \notin waiting[c]
                        \/ Stopped(c)
                        \/ sequence + Step[c] > MaxSequence

\* Once Close has returned, the generator is silent: a late call of Next gets no
\* number from it, and no renewal is under way that would reserve a segment
\* after the process has let go of the sequence.
ClosedSilent ==
  [][\A c \in Clients :
       life[c] = "closed" /\ life'[c] = "closed" =>
         /\ pc[c] = "exited" /\ pc'[c] = "exited"
         /\ Held(c)' = Held(c)]_vars

\* newSequence, which the start of the server waits for with no time limit, comes
\* to an end: its renew gets a segment in the end whatever the other processes
\* do, unless the column has no room for one.
StartReturns ==
  \A c \in Clients :
    pc[c] = "getRowID" ~> \/ pc[c] = "down"
                          \/ life[c] # "new"
                          \/ sequence + Step[c] > MaxSequence

\* Close returns: "Close closes the tddl" (tddl.go:35), and the shutdown of the
\* command service waits for it.
CloseReturns ==
  \A c \in Clients : life[c] = "closing" ~> life[c] # "closing"

=============================================================================
