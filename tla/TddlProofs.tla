----------------------------- MODULE TddlProofs -----------------------------
(***************************************************************************)
(* Proofs about Tddl, for every set of processes, every choice of steps,   *)
(* every start number and every column bound.                              *)
(*                                                                         *)
(* IdsAccounted is not inductive: that a renewed segment is free depends   *)
(* on the snapshot the compare-and-swap is based on, and that a renewing   *)
(* process holds nothing depends on where its worker is.  IInv adds these  *)
(* two facts (SnapFresh, Control) and states the partition number by       *)
(* number (Partition), the form the provers can use.                       *)
(***************************************************************************)
EXTENDS Tddl, TLAPS

\* Client c holds number n.
Holds(c, n) == curr[c] <= n /\ n < max[c]

\* What is known of a client at each point of its code.
Control ==
  \A c \in Clients :
    /\ pc[c] # "down" => Step[c] >= 1
    /\ pc[c] \in {"renew", "cas", "sleep", "loop", "select", "exited"} =>
         version # 0
    /\ pc[c] \in {"down", "getRowID", "create", "renew", "cas", "sleep"} =>
         curr[c] >= max[c]
    /\ pc[c] = "select" => curr[c] < max[c]

\* A snapshot taken for a compare-and-swap is the row as it is, or is older.
SnapFresh ==
  \A c \in Clients :
    pc[c] = "cas" =>
      /\ snap[c].version <= version
      /\ snap[c].version = version => snap[c].sequence = sequence

\* IdsAccounted, number by number.
Partition ==
  /\ \A n \in Ids : issued[n] <= 1
  /\ \A n \in Ids : n \in lost => issued[n] = 0
  /\ \A c \in Clients, n \in Ids : Holds(c, n) => n \notin lost /\ issued[n] = 0
  /\ \A c, d \in Clients, n \in Ids : Holds(c, n) /\ Holds(d, n) => c = d
  /\ \A n \in Ids : n \in lost => StartNum <= n /\ n < HighWater
  /\ \A n \in Ids : issued[n] > 0 => StartNum <= n /\ n < HighWater
  /\ \A c \in Clients, n \in Ids : Holds(c, n) => StartNum <= n /\ n < HighWater
  /\ \A n \in Ids : StartNum <= n /\ n < HighWater =>
       n \in lost \/ issued[n] > 0 \/ \E c \in Clients : Holds(c, n)

RowOK == version # 0 => StartNum <= sequence

\* The inductive invariant.
IInv == TypeOK /\ Control /\ SnapFresh /\ RowOK /\ Partition

USE ClientStep, StartBelowMax

\* A segment that ends below a number of the column holds such numbers only.
LEMMA SegmentInIds ==
  ASSUME NEW a \in Ids, NEW b \in Ids
  PROVE  a .. (b - 1) \subseteq Ids
BY DEF Ids

\* Every action keeps the variables in their types.  Only Deliver needs Control:
\* the number it hands out is below max, so the next one is still a number the
\* column can hold.
LEMMA TypeStep ==
  ASSUME TypeOK, Control, Next
  PROVE  TypeOK'
<1>1. ASSUME NEW c \in Clients, Start(c)
      PROVE  TypeOK'
  BY <1>1, TypeOK DEF Start, TypeOK, Goto, Ids
<1>2. ASSUME NEW c \in Clients, GetRowID(c)
      PROVE  TypeOK'
  BY <1>2, TypeOK DEF GetRowID, TypeOK, Goto, Ids
<1>3. ASSUME NEW c \in Clients, CreateRecord(c)
      PROVE  TypeOK'
  <2>1. CASE version = 0
    <3>1. PICK l \in {"renew", "down"} : Goto(c, l)
      BY <1>3, <2>1 DEF CreateRecord
    <3>2. /\ sequence' = StartNum /\ version' = 1
          /\ UNCHANGED <<life, snap, curr, max, waiting, ctxDone, issued, lost>>
          /\ pc[c] = "create"
      BY <1>3, <2>1 DEF CreateRecord
    <3> QED
      BY <3>1, <3>2, TypeOK DEF TypeOK, Goto, Ids
  <2>2. CASE version # 0
    BY <1>3, <2>2, TypeOK DEF CreateRecord, TypeOK, Goto, Ids, row
  <2> QED
    BY <2>1, <2>2
<1>4. ASSUME NEW c \in Clients, StartFail(c)
      PROVE  TypeOK'
  BY <1>4, TypeOK DEF StartFail, TypeOK, Goto, Ids
<1>5. ASSUME NEW c \in Clients, RenewStop(c)
      PROVE  TypeOK'
  BY <1>5, TypeOK DEF RenewStop, TypeOK, Goto, Ids
<1>6. ASSUME NEW c \in Clients, RenewTake(c)
      PROVE  TypeOK'
  BY <1>6, TypeOK DEF RenewTake, TypeOK, Goto, Ids, Snapshot
<1>7. ASSUME NEW c \in Clients, RenewTakeFail(c)
      PROVE  TypeOK'
  BY <1>7, TypeOK DEF RenewTakeFail, TypeOK, Goto, Ids
<1>8. ASSUME NEW c \in Clients, RenewCas(c)
      PROVE  TypeOK'
  <2>1. /\ snap[c].sequence \in Nat /\ Step[c] \in Nat
        /\ snap[c].sequence + Step[c] \in Ids
    BY <1>8, TypeOK DEF RenewCas, Update, TypeOK, Snapshot, Ids
  <2>2. life' \in [Clients -> {"new", "open", "closing", "closed"}]
    BY <1>8, TypeOK DEF RenewCas, TypeOK
  <2>3. sequence' \in Ids /\ version' \in Nat
    BY <1>8, <2>1, TypeOK DEF RenewCas, Update, TypeOK
  <2>4. curr' \in [Clients -> Ids] /\ max' \in [Clients -> Ids]
    BY <1>8, <2>1, TypeOK DEF RenewCas, TypeOK, Snapshot, Ids
  <2> QED
    BY <1>8, <2>2, <2>3, <2>4, TypeOK DEF RenewCas, TypeOK, Goto
<1>9. ASSUME NEW c \in Clients, RenewCasLost(c)
      PROVE  TypeOK'
  <2>1. /\ snap[c].sequence \in Nat /\ Step[c] \in Nat
        /\ snap[c].sequence + Step[c] \in Ids
    BY <1>9, TypeOK DEF RenewCasLost, Update, TypeOK, Snapshot, Ids
  <2>2. sequence' \in Ids /\ version' \in Nat
    BY <1>9, <2>1, TypeOK DEF RenewCasLost, Update, TypeOK
  <2>3. sequence .. (sequence' - 1) \subseteq Ids
    BY <2>2, TypeOK, SegmentInIds DEF TypeOK
  <2> QED
    BY <1>9, <2>2, <2>3, TypeOK DEF RenewCasLost, TypeOK, Goto
<1>10. ASSUME NEW c \in Clients, RenewCasFail(c)
      PROVE  TypeOK'
  BY <1>10, TypeOK DEF RenewCasFail, TypeOK, Goto, Ids
<1>11. ASSUME NEW c \in Clients, Wake(c)
      PROVE  TypeOK'
  BY <1>11, TypeOK DEF Wake, TypeOK, Goto, Ids
<1>12. ASSUME NEW c \in Clients, Loop(c)
      PROVE  TypeOK'
  BY <1>12, TypeOK DEF Loop, TypeOK, Goto, Ids
<1>13. ASSUME NEW c \in Clients, WorkerStop(c)
      PROVE  TypeOK'
  BY <1>13, TypeOK DEF WorkerStop, TypeOK, Goto, Ids
<1>14. ASSUME NEW c \in Clients, Close(c)
      PROVE  TypeOK'
  BY <1>14, TypeOK DEF Close, TypeOK, Goto, Ids
<1>15. ASSUME NEW c \in Clients, CloseReturn(c)
      PROVE  TypeOK'
  BY <1>15, TypeOK DEF CloseReturn, TypeOK, Goto, Ids
<1>16. ASSUME NEW c \in Clients, Exit(c)
      PROVE  TypeOK'
  <2>1. Held(c) \subseteq Ids
    BY TypeOK, SegmentInIds DEF TypeOK, Held
  <2>2. [sequence |-> 0, version |-> 0] \in Snapshot /\ 0 \in Ids
    BY DEF Snapshot, Ids
  <2> QED
    BY <1>16, <2>1, <2>2, TypeOK DEF Exit, TypeOK, Goto
<1>17. ASSUME NEW c \in Clients, NEW k \in Callers, Deliver(c, k)
      PROVE  TypeOK'
  <2>1. curr[c] \in Ids /\ curr[c] + 1 \in Ids /\ issued[curr[c]] + 1 \in Nat
    BY <1>17, TypeOK, Control DEF Deliver, TypeOK, Control, Ids
  <2> QED
    BY <1>17, <2>1, TypeOK DEF Deliver, TypeOK, Goto
<1>18. ASSUME NEW c \in Clients, NEW k \in Callers, NextCall(c, k)
      PROVE  TypeOK'
  BY <1>18, TypeOK DEF NextCall, TypeOK, Goto, Ids
<1>19. ASSUME NEW c \in Clients, NEW k \in Callers, NextCancelled(c, k)
      PROVE  TypeOK'
  BY <1>19, TypeOK DEF NextCancelled, TypeOK, Goto, Ids
<1>20. ASSUME NEW k \in Callers, CtxExpire(k)
      PROVE  TypeOK'
  BY <1>20, TypeOK DEF CtxExpire, TypeOK, Goto, Ids
<1> QED
  BY <1>1, <1>2, <1>3, <1>4, <1>5, <1>6, <1>7, <1>8, <1>9, <1>10, <1>11,
     <1>12, <1>13, <1>14, <1>15, <1>16, <1>17, <1>18, <1>19, <1>20
     DEF Next, ClientStepOf, CallerStepOf

\* Every action keeps Control.
LEMMA ControlStep ==
  ASSUME TypeOK, Control, Next
  PROVE  Control'
<1>1. ASSUME NEW c \in Clients, Start(c)
      PROVE  Control'
  BY <1>1, TypeOK, Control DEF Start, TypeOK, Control, Goto, Ids
<1>2. ASSUME NEW c \in Clients, GetRowID(c)
      PROVE  Control'
  <2>1. CASE version = 0
    BY <1>2, <2>1, TypeOK, Control DEF GetRowID, TypeOK, Control, Goto, Ids
  <2>2. CASE ~(version = 0)
    BY <1>2, <2>2, TypeOK, Control DEF GetRowID, TypeOK, Control, Goto, Ids
  <2> QED
    BY <2>1, <2>2
<1>3. ASSUME NEW c \in Clients, CreateRecord(c)
      PROVE  Control'
  <2>1. CASE version = 0
    <3>1. PICK l \in {"renew", "down"} : Goto(c, l)
      BY <1>3, <2>1 DEF CreateRecord
    <3>2. /\ sequence' = StartNum /\ version' = 1
          /\ UNCHANGED <<life, snap, curr, max, waiting, ctxDone, issued, lost>>
          /\ pc[c] = "create"
      BY <1>3, <2>1 DEF CreateRecord
    <3> QED
      BY <3>1, <3>2, TypeOK, Control DEF TypeOK, Control, Goto, Ids
  <2>2. CASE version # 0
    BY <1>3, <2>2, TypeOK, Control
       DEF CreateRecord, TypeOK, Control, Goto, Ids, row
  <2> QED
    BY <2>1, <2>2
<1>4. ASSUME NEW c \in Clients, StartFail(c)
      PROVE  Control'
  BY <1>4, TypeOK, Control DEF StartFail, TypeOK, Control, Goto, Ids
<1>5. ASSUME NEW c \in Clients, RenewStop(c)
      PROVE  Control'
  BY <1>5, TypeOK, Control DEF RenewStop, TypeOK, Control, Goto, Ids
<1>6. ASSUME NEW c \in Clients, RenewTake(c)
      PROVE  Control'
  BY <1>6, TypeOK, Control DEF RenewTake, TypeOK, Control, Goto, Ids
<1>7. ASSUME NEW c \in Clients, RenewTakeFail(c)
      PROVE  Control'
  BY <1>7, TypeOK, Control DEF RenewTakeFail, TypeOK, Control, Goto, Ids
<1>8. ASSUME NEW c \in Clients, RenewCas(c)
      PROVE  Control'
  <2>1. version' # 0 /\ version # 0
    BY <1>8, TypeOK, Control DEF RenewCas, Update, TypeOK, Control
  <2> QED
    BY <1>8, <2>1, TypeOK, Control
       DEF RenewCas, Update, TypeOK, Control, Goto, Ids
<1>9. ASSUME NEW c \in Clients, RenewCasLost(c)
      PROVE  Control'
  <2>1. version' # 0 /\ version # 0
    BY <1>9, TypeOK, Control DEF RenewCasLost, Update, TypeOK, Control
  <2> QED
    BY <1>9, <2>1, TypeOK, Control
       DEF RenewCasLost, Update, TypeOK, Control, Goto, Ids
<1>10. ASSUME NEW c \in Clients, RenewCasFail(c)
      PROVE  Control'
  BY <1>10, TypeOK, Control DEF RenewCasFail, TypeOK, Control, Goto, Ids
<1>11. ASSUME NEW c \in Clients, Wake(c)
      PROVE  Control'
  BY <1>11, TypeOK, Control DEF Wake, TypeOK, Control, Goto, Ids
<1>12. ASSUME NEW c \in Clients, Loop(c)
      PROVE  Control'
  <2>1. CASE Exhausted(c)
    BY <1>12, <2>1, TypeOK, Control
       DEF Loop, TypeOK, Control, Goto, Ids, Exhausted
  <2>2. CASE ~(Exhausted(c))
    BY <1>12, <2>2, TypeOK, Control
       DEF Loop, TypeOK, Control, Goto, Ids, Exhausted
  <2> QED
    BY <2>1, <2>2
<1>13. ASSUME NEW c \in Clients, WorkerStop(c)
      PROVE  Control'
  BY <1>13, TypeOK, Control DEF WorkerStop, TypeOK, Control, Goto, Ids
<1>14. ASSUME NEW c \in Clients, Close(c)
      PROVE  Control'
  BY <1>14, TypeOK, Control DEF Close, TypeOK, Control, Goto, Ids
<1>15. ASSUME NEW c \in Clients, CloseReturn(c)
      PROVE  Control'
  BY <1>15, TypeOK, Control DEF CloseReturn, TypeOK, Control, Goto, Ids
<1>16. ASSUME NEW c \in Clients, Exit(c)
      PROVE  Control'
  BY <1>16, TypeOK, Control DEF Exit, TypeOK, Control, Goto, Ids
<1>17. ASSUME NEW c \in Clients, NEW k \in Callers, Deliver(c, k)
      PROVE  Control'
  BY <1>17, TypeOK, Control DEF Deliver, TypeOK, Control, Goto, Ids
<1>18. ASSUME NEW c \in Clients, NEW k \in Callers, NextCall(c, k)
      PROVE  Control'
  BY <1>18, TypeOK, Control DEF NextCall, TypeOK, Control, Goto, Ids
<1>19. ASSUME NEW c \in Clients, NEW k \in Callers, NextCancelled(c, k)
      PROVE  Control'
  BY <1>19, TypeOK, Control DEF NextCancelled, TypeOK, Control, Goto, Ids
<1>20. ASSUME NEW k \in Callers, CtxExpire(k)
      PROVE  Control'
  BY <1>20, TypeOK, Control DEF CtxExpire, TypeOK, Control, Goto, Ids
<1> QED
  BY <1>1, <1>2, <1>3, <1>4, <1>5, <1>6, <1>7, <1>8, <1>9, <1>10, <1>11,
     <1>12, <1>13, <1>14, <1>15, <1>16, <1>17, <1>18, <1>19, <1>20
     DEF Next, ClientStepOf, CallerStepOf

\* The fields of a snapshot, as the two columns they are read from, are
\* natural numbers.
LEMMA SnapshotsNatural ==
  ASSUME TypeOK
  PROVE  \A d \in Clients : snap[d].sequence \in Nat /\ snap[d].version \in Nat
<1> TAKE d \in Clients
<1>1. snap[d] \in [sequence : Ids, version : Nat]
  BY TypeOK DEF TypeOK, Snapshot
<1>2. snap[d].sequence \in Ids /\ snap[d].version \in Nat
  BY <1>1, SMTT(20)
<1>3. \A n \in Ids : n \in Nat
  BY StartBelowMax DEF Ids
<1> QED
  BY <1>2, <1>3

\* The row's version only grows, and with it a snapshot only gets older.
LEMMA SnapStep ==
  ASSUME TypeOK, Control, SnapFresh, Next
  PROVE  SnapFresh'
<1>1. ASSUME NEW c \in Clients, Start(c)
      PROVE  SnapFresh'
  BY <1>1, TypeOK, Control, SnapFresh
     DEF Start, TypeOK, Control, SnapFresh, Goto, row
<1>2. ASSUME NEW c \in Clients, GetRowID(c)
      PROVE  SnapFresh'
  BY <1>2, TypeOK, Control, SnapFresh
     DEF GetRowID, TypeOK, Control, SnapFresh, Goto, row
<1>3. ASSUME NEW c \in Clients, CreateRecord(c)
      PROVE  SnapFresh'
  BY <1>3, TypeOK, Control, SnapFresh
     DEF CreateRecord, TypeOK, Control, SnapFresh, Goto, row
<1>4. ASSUME NEW c \in Clients, StartFail(c)
      PROVE  SnapFresh'
  BY <1>4, TypeOK, Control, SnapFresh
     DEF StartFail, TypeOK, Control, SnapFresh, Goto, row
<1>5. ASSUME NEW c \in Clients, RenewStop(c)
      PROVE  SnapFresh'
  BY <1>5, TypeOK, Control, SnapFresh
     DEF RenewStop, TypeOK, Control, SnapFresh, Goto, row
<1>6. ASSUME NEW c \in Clients, RenewTake(c)
      PROVE  SnapFresh'
  BY <1>6, TypeOK, Control, SnapFresh
     DEF RenewTake, TypeOK, Control, SnapFresh, Goto, row
<1>7. ASSUME NEW c \in Clients, RenewTakeFail(c)
      PROVE  SnapFresh'
  BY <1>7, TypeOK, Control, SnapFresh
     DEF RenewTakeFail, TypeOK, Control, SnapFresh, Goto, row
<1>8. ASSUME NEW c \in Clients, RenewCas(c)
      PROVE  SnapFresh'
  <2>1. \A d \in Clients : snap[d].sequence \in Nat /\ snap[d].version \in Nat
    BY TypeOK, SnapshotsNatural
  <2> QED
    BY <1>8, <2>1, TypeOK, SnapFresh
       DEF RenewCas, Update, TypeOK, SnapFresh, Goto
<1>9. ASSUME NEW c \in Clients, RenewCasLost(c)
      PROVE  SnapFresh'
  <2>1. \A d \in Clients : snap[d].sequence \in Nat /\ snap[d].version \in Nat
    BY TypeOK, SnapshotsNatural
  <2> QED
    BY <1>9, <2>1, TypeOK, SnapFresh
       DEF RenewCasLost, Update, TypeOK, SnapFresh, Goto
<1>10. ASSUME NEW c \in Clients, RenewCasFail(c)
      PROVE  SnapFresh'
  BY <1>10, TypeOK, Control, SnapFresh
     DEF RenewCasFail, TypeOK, Control, SnapFresh, Goto, row
<1>11. ASSUME NEW c \in Clients, Wake(c)
      PROVE  SnapFresh'
  BY <1>11, TypeOK, Control, SnapFresh
     DEF Wake, TypeOK, Control, SnapFresh, Goto, row
<1>12. ASSUME NEW c \in Clients, Loop(c)
      PROVE  SnapFresh'
  BY <1>12, TypeOK, Control, SnapFresh
     DEF Loop, TypeOK, Control, SnapFresh, Goto, row
<1>13. ASSUME NEW c \in Clients, WorkerStop(c)
      PROVE  SnapFresh'
  BY <1>13, TypeOK, Control, SnapFresh
     DEF WorkerStop, TypeOK, Control, SnapFresh, Goto, row
<1>14. ASSUME NEW c \in Clients, Close(c)
      PROVE  SnapFresh'
  BY <1>14, TypeOK, Control, SnapFresh
     DEF Close, TypeOK, Control, SnapFresh, Goto, row
<1>15. ASSUME NEW c \in Clients, CloseReturn(c)
      PROVE  SnapFresh'
  BY <1>15, TypeOK, Control, SnapFresh
     DEF CloseReturn, TypeOK, Control, SnapFresh, Goto, row
<1>16. ASSUME NEW c \in Clients, Exit(c)
      PROVE  SnapFresh'
  BY <1>16, TypeOK, Control, SnapFresh
     DEF Exit, TypeOK, Control, SnapFresh, Goto, row
<1>17. ASSUME NEW c \in Clients, NEW k \in Callers, Deliver(c, k)
      PROVE  SnapFresh'
  BY <1>17, TypeOK, Control, SnapFresh
     DEF Deliver, TypeOK, Control, SnapFresh, Goto, row
<1>18. ASSUME NEW c \in Clients, NEW k \in Callers, NextCall(c, k)
      PROVE  SnapFresh'
  BY <1>18, TypeOK, Control, SnapFresh
     DEF NextCall, TypeOK, Control, SnapFresh, Goto, row
<1>19. ASSUME NEW c \in Clients, NEW k \in Callers, NextCancelled(c, k)
      PROVE  SnapFresh'
  BY <1>19, TypeOK, Control, SnapFresh
     DEF NextCancelled, TypeOK, Control, SnapFresh, Goto, row
<1>20. ASSUME NEW k \in Callers, CtxExpire(k)
      PROVE  SnapFresh'
  BY <1>20, TypeOK, Control, SnapFresh
     DEF CtxExpire, TypeOK, Control, SnapFresh, Goto, row
<1> QED
  BY <1>1, <1>2, <1>3, <1>4, <1>5, <1>6, <1>7, <1>8, <1>9, <1>10, <1>11,
     <1>12, <1>13, <1>14, <1>15, <1>16, <1>17, <1>18, <1>19, <1>20
     DEF Next, ClientStepOf, CallerStepOf

\* The actions that neither move a number nor the row's mark.
LEMMA StillPartition ==
  ASSUME Partition, UNCHANGED <<curr, max, issued, lost>>, HighWater' = HighWater
  PROVE  Partition'
BY DEF Partition, Holds

\* A successful compare-and-swap: the snapshot is the row, so the segment that
\* the update reserves starts at the row's mark.
LEMMA UpdateFacts ==
  ASSUME TypeOK, Control, SnapFresh, RowOK, NEW c \in Clients, Update(c)
  PROVE  /\ snap[c].sequence = sequence
         /\ sequence' = sequence + Step[c]
         /\ HighWater = sequence /\ HighWater' = sequence'
         /\ StartNum <= sequence /\ sequence < sequence'
         /\ sequence' \in Ids /\ sequence \in Nat
         /\ curr[c] >= max[c]
<1>1. version # 0 /\ version' # 0 /\ Step[c] >= 1 /\ curr[c] >= max[c]
  BY TypeOK, Control DEF Update, TypeOK, Control
<1>2. snap[c].sequence = sequence
  BY SnapFresh DEF Update, Matches, SnapFresh
<1> QED
  BY <1>1, <1>2, TypeOK, RowOK DEF Update, HighWater, TypeOK, RowOK, Ids

\* Every action keeps RowOK.
LEMMA RowStep ==
  ASSUME TypeOK, Control, SnapFresh, RowOK, Next
  PROVE  RowOK'
<1>1. ASSUME NEW c \in Clients, Update(c)
      PROVE  RowOK'
  <2>1. StartNum <= sequence /\ sequence < sequence' /\ sequence' \in Nat
        /\ sequence \in Nat
    BY <1>1, UpdateFacts DEF Ids
  <2> QED
    BY <2>1 DEF RowOK
<1>2. ASSUME NEW c \in Clients, CreateRecord(c)
      PROVE  RowOK'
  BY <1>2, RowOK DEF CreateRecord, RowOK, row
<1>3. CASE UNCHANGED row
  BY <1>3, RowOK DEF RowOK, row
<1> QED
  BY <1>1, <1>2, <1>3 DEF Next, ClientStepOf, CallerStepOf, row, RenewCas,
     RenewCasLost, Start, GetRowID, StartFail, RenewStop, RenewTake,
     RenewTakeFail, RenewCasFail, Wake, Loop, WorkerStop, Close, CloseReturn,
     Exit, Deliver, NextCall, NextCancelled, CtxExpire

\* Every action keeps the partition of the numbers.
LEMMA PartitionStep ==
  ASSUME IInv, Next
  PROVE  Partition'
<1> USE DEF IInv
<1>1. ASSUME NEW c \in Clients, RenewCas(c)
      PROVE  Partition'
  <2>1. Update(c)
    BY <1>1 DEF RenewCas
  <2>2. /\ snap[c].sequence = sequence /\ sequence' = sequence + Step[c]
        /\ HighWater = sequence /\ HighWater' = sequence'
        /\ StartNum <= sequence /\ sequence < sequence'
        /\ sequence' \in Nat /\ sequence \in Nat
        /\ curr[c] >= max[c]
    BY <2>1, UpdateFacts DEF Ids
  <2>3. /\ curr' = [curr EXCEPT ![c] = sequence]
        /\ max' = [max EXCEPT ![c] = sequence']
        /\ UNCHANGED <<issued, lost>>
    BY <1>1, <2>1, <2>2 DEF RenewCas, Update
  <2>4. \A d \in Clients, n \in Ids :
          Holds(d, n)' <=> IF d = c THEN sequence <= n /\ n < sequence'
                                    ELSE Holds(d, n)
    BY <2>3, TypeOK DEF TypeOK, Holds
  <2>5. \A n \in Ids : ~Holds(c, n)
    BY <2>2, TypeOK DEF TypeOK, Holds, Ids
  <2> QED
    <3>1. \A n \in Ids : n \in Nat
      BY DEF Ids
    <3>2. \A n \in Ids : sequence <= n => n \notin lost /\ ~(issued[n] > 0)
                                        /\ \A d \in Clients : ~Holds(d, n)
      BY <2>2, <3>1, Partition DEF Partition
    <3>3. \A n \in Ids : issued[n] \in Nat
      BY TypeOK DEF TypeOK
    <3> QED
      BY <2>2, <2>3, <2>4, <2>5, <3>1, <3>2, <3>3, Partition DEF Partition
<1>2. ASSUME NEW c \in Clients, RenewCasLost(c)
      PROVE  Partition'
  <2>1. Update(c)
    BY <1>2 DEF RenewCasLost
  <2>2. /\ HighWater = sequence /\ HighWater' = sequence'
        /\ StartNum <= sequence /\ sequence < sequence'
        /\ sequence' \in Nat /\ sequence \in Nat
    BY <2>1, UpdateFacts DEF Ids
  <2>3. \A n \in Ids :
          n \in lost' <=> n \in lost \/ (sequence <= n /\ n < sequence')
    <3>1. \A n \in Ids : n \in Int
      BY DEF Ids
    <3> QED
      BY <1>2, <2>2, <3>1 DEF RenewCasLost
  <2>4. \A d \in Clients, n \in Ids : Holds(d, n)' <=> Holds(d, n)
    BY <1>2 DEF RenewCasLost, Holds
  <2>5. issued' = issued
    BY <1>2 DEF RenewCasLost
  <2> QED
    BY <2>2, <2>3, <2>4, <2>5, TypeOK DEF Partition, TypeOK, Ids
<1>3. ASSUME NEW c \in Clients, NEW k \in Callers, Deliver(c, k)
      PROVE  Partition'
  <2>1. /\ curr[c] \in Ids /\ Holds(c, curr[c])
        /\ issued[curr[c]] = 0 /\ curr[c] \notin lost
    <3>1. curr[c] \in Ids /\ curr[c] < max[c] /\ curr[c] \in Nat
      BY <1>3, TypeOK, Control DEF Deliver, TypeOK, Control, Ids
    <3>2. Holds(c, curr[c])
      BY <3>1 DEF Holds
    <3> QED
      BY <3>1, <3>2, Partition DEF Partition
  <2>2. \A n \in Ids : issued'[n] = IF n = curr[c] THEN 1 ELSE issued[n]
    BY <1>3, <2>1, TypeOK DEF Deliver, TypeOK
  <2>3. \A d \in Clients, n \in Ids :
          Holds(d, n)' <=> Holds(d, n) /\ ~(d = c /\ n = curr[c])
    BY <1>3, <2>1, TypeOK DEF Deliver, TypeOK, Holds, Ids
  <2>4. lost' = lost /\ HighWater' = HighWater
    BY <1>3 DEF Deliver, HighWater
  <2> QED
    BY <2>1, <2>2, <2>3, <2>4, Partition DEF Partition
<1>4. ASSUME NEW c \in Clients, Exit(c)
      PROVE  Partition'
  <2>1. \A n \in Ids : n \in lost' <=> n \in lost \/ Holds(c, n)
    BY <1>4, TypeOK DEF Exit, Held, Holds, TypeOK, Ids
  <2>2. \A d \in Clients, n \in Ids : Holds(d, n)' <=> Holds(d, n) /\ d # c
    BY <1>4, TypeOK DEF Exit, Holds, TypeOK, Ids
  <2>3. issued' = issued /\ HighWater' = HighWater
    BY <1>4 DEF Exit, HighWater
  <2> QED
    BY <2>1, <2>2, <2>3, Partition DEF Partition
<1>5. ASSUME NEW c \in Clients, CreateRecord(c)
      PROVE  Partition'
  BY <1>5, StillPartition DEF CreateRecord, HighWater, row
<1>6. CASE UNCHANGED <<sequence, version, curr, max, issued, lost>>
  BY <1>6, StillPartition DEF HighWater
<1> QED
  BY <1>1, <1>2, <1>3, <1>4, <1>5, <1>6 DEF Next, ClientStepOf, CallerStepOf,
     Start, GetRowID, StartFail, RenewStop, RenewTake, RenewTakeFail,
     RenewCasFail, Wake, Loop, WorkerStop, Close, CloseReturn, NextCall,
     NextCancelled, CtxExpire

\* IInv holds in the initial states.
LEMMA InitIInv ==
  ASSUME Init
  PROVE  IInv
<1>1. TypeOK
  BY DEF Init, TypeOK, Snapshot, Ids
<1>2. Control /\ SnapFresh /\ RowOK
  BY DEF Init, Control, SnapFresh, RowOK
<1>3. Partition
  BY DEF Init, Partition, Holds, HighWater, Ids
<1> QED
  BY <1>1, <1>2, <1>3 DEF IInv

\* IInv is inductive.
LEMMA StepIInv ==
  ASSUME IInv, [Next]_vars
  PROVE  IInv'
<1>1. CASE Next
  BY <1>1, TypeStep, ControlStep, SnapStep, RowStep, PartitionStep DEF IInv
<1>2. CASE UNCHANGED vars
  <2>1. TypeOK' /\ Control' /\ SnapFresh' /\ RowOK'
    BY <1>2 DEF IInv, vars, TypeOK, Control, SnapFresh, RowOK
  <2>2. Partition'
    BY <1>2, StillPartition DEF IInv, vars, HighWater
  <2> QED
    BY <2>1, <2>2 DEF IInv
<1> QED
  BY <1>1, <1>2

\* The inductive invariant holds in every reachable state.
THEOREM Inductive == Spec => []IInv
BY InitIInv, StepIInv, PTL DEF Spec

\* Type correctness of the sequence generator.
THEOREM TypeCorrect == Spec => []TypeOK
<1>1. IInv => TypeOK
  BY DEF IInv
<1> QED
  BY <1>1, Inductive, PTL

\* The partition, number by number, is the partition IdsAccounted states.
LEMMA AccountedFromIInv ==
  ASSUME IInv
  PROVE  IdsAccounted
<1> USE DEF IInv
<1>1. \A c \in Clients : \A n : n \in Held(c) <=> n \in Ids /\ Holds(c, n)
  BY TypeOK DEF TypeOK, Held, Holds, Ids
<1>2. \A n : n \in Issued <=> n \in Ids /\ issued[n] > 0
  BY DEF Issued
<1>3. lost \subseteq Ids /\ HighWater \in Ids
  BY TypeOK DEF TypeOK, HighWater, Ids
<1>4. \A n \in Ids : issued[n] <= 1
  BY Partition DEF Partition
<1>5. lost \cap Issued = {}
  BY <1>2, Partition DEF Partition
<1>6. \A c \in Clients : Held(c) \cap (lost \cup Issued) = {}
  <2>1. \A c \in Clients, n \in Ids :
          Holds(c, n) => n \notin lost /\ ~(issued[n] > 0)
    BY Partition DEF Partition
  <2> QED
    BY <1>1, <1>2, <2>1
<1>7. \A c, d \in Clients : c # d => Held(c) \cap Held(d) = {}
  BY <1>1, Partition DEF Partition
<1>8. \A n : n \in StartNum .. (HighWater - 1) <=>
               n \in Ids /\ StartNum <= n /\ n < HighWater
  BY <1>3 DEF Ids
<1>9. StartNum .. (HighWater - 1) =
        lost \cup Issued \cup UNION {Held(c) : c \in Clients}
  BY <1>1, <1>2, <1>3, <1>8, Partition DEF Partition
<1> QED
  BY <1>4, <1>5, <1>6, <1>7, <1>9 DEF IdsAccounted

\* No number is ever returned by two calls of Next, and none that was reserved
\* goes unaccounted for.
THEOREM Accounted == Spec => []IdsAccounted
BY AccountedFromIInv, Inductive, PTL

-----------------------------------------------------------------------------
\* The optimistic lock loses no update, whatever the processes do between
\* reading the row and writing it.
THEOREM LockSafe == Spec => NoLostUpdate
<1> DEFINE A == version # 0 /\ row' # row =>
                  /\ version' = version + 1
                  /\ \E c \in Clients : Step[c] >= 1 /\ sequence' = sequence + Step[c]
<1>1. ASSUME IInv, [Next]_vars
      PROVE  [A]_vars
  <2>1. ASSUME NEW c \in Clients, Update(c)
        PROVE  A
    BY <1>1, <2>1, UpdateFacts DEF IInv, Update, Control
  <2>2. ASSUME NEW c \in Clients, CreateRecord(c)
        PROVE  A
    BY <2>2 DEF CreateRecord
  <2>3. CASE UNCHANGED row
    BY <2>3
  <2> QED
    BY <1>1, <2>1, <2>2, <2>3 DEF Next, ClientStepOf, CallerStepOf, row, vars,
       RenewCas, RenewCasLost, Start, GetRowID, StartFail, RenewStop,
       RenewTake, RenewTakeFail, RenewCasFail, Wake, Loop, WorkerStop, Close,
       CloseReturn, Exit, Deliver, NextCall, NextCancelled, CtxExpire
<1> QED
  BY <1>1, Inductive, PTL DEF Spec, NoLostUpdate

-----------------------------------------------------------------------------
(* A closed generator is silent. *)

\* The worker of a closed generator has returned.  Not part of IInv: nothing
\* else depends on it.
WorkerGone == \A c \in Clients : life[c] = "closed" => pc[c] = "exited"

\* Every action keeps WorkerGone: "exited" is left by the end of the process
\* only, and a generator is closed only from there.
LEMMA WorkerGoneStep ==
  ASSUME TypeOK, WorkerGone, [Next]_vars
  PROVE  WorkerGone'
<1>1. ASSUME NEW c \in Clients, ClientStepOf(c)
      PROVE  WorkerGone'
  <2>1. CASE RenewCas(c) \/ Close(c) \/ CloseReturn(c) \/ Exit(c)
    BY <2>1 DEF TypeOK, WorkerGone, RenewCas, Update, Close, CloseReturn,
       Exit, Goto
  <2>2. CASE CreateRecord(c)
    BY <2>2, Zenon DEF TypeOK, WorkerGone, CreateRecord, Goto
  <2>3. CASE Start(c) \/ GetRowID(c) \/ StartFail(c) \/ RenewStop(c)
               \/ RenewTake(c) \/ RenewTakeFail(c) \/ RenewCasLost(c)
               \/ RenewCasFail(c) \/ Wake(c) \/ Loop(c) \/ WorkerStop(c)
    BY <2>3 DEF TypeOK, WorkerGone, Start, GetRowID, StartFail, RenewStop,
       RenewTake, RenewTakeFail, RenewCasLost, Update, RenewCasFail, Wake,
       Loop, WorkerStop, Goto
  <2> QED
    BY <1>1, <2>1, <2>2, <2>3 DEF ClientStepOf
<1>2. ASSUME NEW c \in Clients, NEW k \in Callers, CallerStepOf(c, k)
      PROVE  WorkerGone'
  BY <1>2 DEF CallerStepOf, TypeOK, WorkerGone, Deliver, NextCall,
     NextCancelled, Goto
<1>3. ASSUME NEW k \in Callers, CtxExpire(k)
      PROVE  WorkerGone'
  BY <1>3 DEF WorkerGone, CtxExpire
<1>4. CASE UNCHANGED vars
  BY <1>4 DEF WorkerGone, vars
<1> QED
  BY <1>1, <1>2, <1>3, <1>4 DEF Next

\* A segment changes only while its process's worker runs, or as it ends.
LEMMA SilentStep ==
  ASSUME TypeOK, WorkerGone, WorkerGone', [Next]_vars,
         NEW c \in Clients, life[c] = "closed", life'[c] = "closed"
  PROVE  Held(c)' = Held(c)
<1>1. pc[c] = "exited"
  BY DEF WorkerGone
<1> SUFFICES curr'[c] = curr[c] /\ max'[c] = max[c]
  BY DEF Held
<1>2. ASSUME NEW d \in Clients,
             RenewCas(d) \/ Exit(d) \/ \E k \in Callers : Deliver(d, k)
      PROVE  curr'[c] = curr[c] /\ max'[c] = max[c]
  <2>1. d # c
    BY <1>1, <1>2 DEF TypeOK, RenewCas, Update, Exit, Deliver
  <2> QED
    BY <1>2, <2>1 DEF TypeOK, RenewCas, Exit, Deliver
<1>3. CASE UNCHANGED <<curr, max>>
  BY <1>3
<1> QED
  BY <1>2, <1>3 DEF Next, ClientStepOf, CallerStepOf, vars, Start, GetRowID,
     CreateRecord, StartFail, RenewStop, RenewTake, RenewTakeFail,
     RenewCasLost, RenewCasFail, Wake, Loop, WorkerStop, Close, CloseReturn,
     NextCall, NextCancelled, CtxExpire

\* A generator whose Close has returned hands out no number and reserves none,
\* whoever still calls its Next.
THEOREM Silence == Spec => ClosedSilent
<1>1. Init => WorkerGone
  BY DEF Init, WorkerGone
<1>2. TypeOK /\ WorkerGone /\ [Next]_vars => WorkerGone'
  BY WorkerGoneStep
<1>3. TypeOK /\ WorkerGone /\ WorkerGone' /\ [Next]_vars =>
        [\A c \in Clients :
           life[c] = "closed" /\ life'[c] = "closed" =>
             /\ pc[c] = "exited" /\ pc'[c] = "exited"
             /\ Held(c)' = Held(c)]_vars
  BY SilentStep DEF WorkerGone
<1> QED
  BY <1>1, <1>2, <1>3, TypeCorrect, PTL DEF Spec, ClosedSilent

-----------------------------------------------------------------------------
(* Tddl implements SegmentLease. *)

\* A segment that has been used up is empty.
LEMMA EmptySegment ==
  ASSUME NEW a \in Nat, NEW b \in Nat, a >= b
  PROVE  a .. (b - 1) = {}
OBVIOUS

\* A step that moves neither a number nor the mark is a stutter of the lease.
LEMMA LeaseStutter ==
  ASSUME UNCHANGED <<curr, max, issued, lost>>, HighWater' = HighWater
  PROVE  UNCHANGED Lease!leaseVars
BY DEF Lease!leaseVars, Held

\* The initial states are initial states of the lease specification.
LEMMA LeaseInitial ==
  ASSUME Init
  PROVE  Lease!LeaseInit
<1>1. ASSUME NEW c \in Clients
      PROVE  Held(c) = {}
  <2>1. curr[c] = 0 /\ max[c] = 0
    BY DEF Init
  <2>2. 0 .. (0 - 1) = {}
    BY EmptySegment
  <2> QED
    BY <2>1, <2>2 DEF Held
<1> QED
  BY <1>1 DEF Init, Lease!LeaseInit, Lease!Ids, Ids, HighWater

\* A successful compare-and-swap leases the next segment.
LEMMA RenewCasLeases ==
  ASSUME IInv, NEW c \in Clients, RenewCas(c)
  PROVE  Lease!Lease(c)
<1> USE DEF IInv
<1>1. Update(c)
  BY DEF RenewCas
<1>2. /\ snap[c].sequence = sequence /\ sequence' = sequence + Step[c]
      /\ HighWater = sequence /\ HighWater' = sequence'
      /\ sequence' \in Nat /\ sequence \in Nat /\ sequence' <= MaxSequence
      /\ curr[c] >= max[c]
  BY <1>1, UpdateFacts DEF Ids
<1>3. /\ curr' = [curr EXCEPT ![c] = sequence]
      /\ max' = [max EXCEPT ![c] = sequence']
      /\ UNCHANGED <<issued, lost>>
  BY <1>1, <1>2 DEF RenewCas, Update
<1>4. Held(c) = {}
  BY <1>2, TypeOK DEF TypeOK, Held, Ids
<1>5. Held(c)' = Lease!Segment(c)
  BY <1>2, <1>3, TypeOK DEF TypeOK, Held, Lease!Segment
<1>6. \A d \in Clients : d # c => Held(d)' = Held(d)
  BY <1>3, TypeOK DEF TypeOK, Held
<1>7. [d \in Clients |-> Held(d)]' =
        [[d \in Clients |-> Held(d)] EXCEPT ![c] = Lease!Segment(c)]
  BY <1>5, <1>6
<1> QED
  BY <1>2, <1>3, <1>4, <1>7 DEF Lease!Lease

\* An update whose reply is lost wastes a segment.
LEMMA RenewCasLostWastes ==
  ASSUME IInv, NEW c \in Clients, RenewCasLost(c)
  PROVE  Lease!Waste(c)
<1> USE DEF IInv
<1>1. Update(c)
  BY DEF RenewCasLost
<1>2. /\ sequence' = sequence + Step[c]
      /\ HighWater = sequence /\ HighWater' = sequence'
      /\ sequence \in Nat /\ sequence' \in Nat /\ sequence' <= MaxSequence
  BY <1>1, UpdateFacts DEF Ids
<1>3. lost' = lost \cup Lease!Segment(c)
  <2>1. sequence' - 1 = sequence + Step[c] - 1
    BY <1>2
  <2> QED
    BY <1>2, <2>1 DEF RenewCasLost, Lease!Segment
<1>4. [d \in Clients |-> Held(d)]' = [d \in Clients |-> Held(d)]
  BY DEF RenewCasLost, Held
<1> QED
  BY <1>2, <1>3, <1>4 DEF Lease!Waste, RenewCasLost

\* The rendezvous on the queue issues the lowest number of the segment.
LEMMA DeliverIssues ==
  ASSUME IInv, NEW c \in Clients, NEW k \in Callers, Deliver(c, k)
  PROVE  Lease!Issue(c)
<1> USE DEF IInv
<1>1. curr[c] \in Nat /\ max[c] \in Nat /\ curr[c] < max[c]
  BY TypeOK, Control DEF TypeOK, Control, Deliver, Ids
<1>2. curr' = [curr EXCEPT ![c] = curr[c] + 1] /\ UNCHANGED <<max, lost>>
  BY DEF Deliver
<1>3. curr[c] \in Held(c) /\ \A m \in Held(c) : curr[c] <= m
  BY <1>1 DEF Held
<1>4. Held(c)' = Held(c) \ {curr[c]}
  <2>1. curr'[c] = curr[c] + 1 /\ max'[c] = max[c]
    BY <1>2, TypeOK DEF TypeOK
  <2> QED
    BY <1>1, <2>1 DEF Held
<1>5. \A d \in Clients : d # c => Held(d)' = Held(d)
  BY <1>2, TypeOK DEF TypeOK, Held
<1>6. [d \in Clients |-> Held(d)]' =
        [[d \in Clients |-> Held(d)] EXCEPT ![c] = @ \ {curr[c]}]
  BY <1>4, <1>5
<1>7. HighWater' = HighWater /\ issued' = [issued EXCEPT ![curr[c]] = @ + 1]
  BY DEF Deliver, HighWater
<1> QED
  BY <1>2, <1>3, <1>6, <1>7 DEF Lease!Issue

\* The end of a process drops what it holds.
LEMMA ExitDrops ==
  ASSUME IInv, NEW c \in Clients, Exit(c)
  PROVE  Lease!Drop(c)
<1> USE DEF IInv
<1>1. Held(c)' = {}
  BY TypeOK DEF TypeOK, Exit, Held
<1>2. \A d \in Clients : d # c => Held(d)' = Held(d)
  BY TypeOK DEF TypeOK, Exit, Held
<1>3. [d \in Clients |-> Held(d)]' =
        [[d \in Clients |-> Held(d)] EXCEPT ![c] = {}]
  BY <1>1, <1>2
<1> QED
  BY <1>3 DEF Exit, Lease!Drop, HighWater

\* Every step of the sequence generator is a step of the lease specification
\* or leaves it alone.
LEMMA LeaseStep ==
  ASSUME IInv, [Next]_vars
  PROVE  [Lease!LeaseNext]_(Lease!leaseVars)
<1>1. ASSUME NEW c \in Clients, CreateRecord(c)
      PROVE  UNCHANGED Lease!leaseVars
  BY <1>1, LeaseStutter DEF CreateRecord, HighWater, row
<1>2. CASE UNCHANGED <<sequence, version, curr, max, issued, lost>>
  BY <1>2, LeaseStutter DEF HighWater
<1>3. ASSUME NEW c \in Clients,
             RenewCas(c) \/ RenewCasLost(c) \/ Exit(c)
               \/ \E k \in Callers : Deliver(c, k)
      PROVE  Lease!LeaseNext
  BY <1>3, RenewCasLeases, RenewCasLostWastes, ExitDrops, DeliverIssues
     DEF Lease!LeaseNext
<1> QED
  BY <1>1, <1>2, <1>3 DEF Next, ClientStepOf, CallerStepOf, vars, Start,
     GetRowID, StartFail, RenewStop, RenewTake, RenewTakeFail, RenewCasFail,
     Wake, Loop, WorkerStop, Close, CloseReturn, NextCall, NextCancelled,
     CtxExpire

\* The optimistic lock, the worker and their failures implement leases of
\* whole segments.
THEOREM Refinement == Spec => ImplementsLease
BY LeaseInitial, LeaseStep, Inductive, PTL
   DEF Spec, ImplementsLease, Lease!LeaseSpec

=============================================================================
