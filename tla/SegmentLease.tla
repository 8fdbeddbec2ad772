---------------------------- MODULE SegmentLease ----------------------------
(***************************************************************************)
(* What the distributed id generator of pkg/tddl promises, with no         *)
(* database, no optimistic lock and no retry: a single high-water mark     *)
(* from which clients lease whole segments of ids, and ids handed out one  *)
(* by one, lowest first, from the segment a client holds.                  *)
(*                                                                         *)
(* A leased id ends in exactly one of three places: it is issued to one    *)
(* caller, it is still held by one client, or it is lost (the client died, *)
(* or it never learned that its lease was granted).                        *)
(***************************************************************************)
EXTENDS Integers

CONSTANTS
  Clients,      \* the processes that generate ids
  Step,         \* Step[c] is the length of the segments client c leases
  StartNum,     \* the first id
  MaxSequence   \* ids stay below this mark

VARIABLES
  hi,       \* every id from StartNum up to hi - 1 has been leased
  held,     \* held[c] is the set of ids client c can still issue
  issued,   \* issued[n] counts the callers that received id n
  lost      \* ids that nobody will ever receive

leaseVars == <<hi, held, issued, lost>>

Ids == 0 .. MaxSequence

Segment(c) == hi .. (hi + Step[c] - 1)

LeaseInit ==
  /\ hi = StartNum
  /\ held = [c \in Clients |-> {}]
  /\ issued = [n \in Ids |-> 0]
  /\ lost = {}

\* Client c has used up its segment and leases the next one.
Lease(c) ==
  /\ held[c] = {}
  /\ hi + Step[c] <= MaxSequence
  /\ hi' = hi + Step[c]
  /\ held' = [held EXCEPT ![c] = Segment(c)]
  /\ UNCHANGED <<issued, lost>>

\* A segment is taken out of circulation for c and never reaches it.
Waste(c) ==
  /\ hi + Step[c] <= MaxSequence
  /\ hi' = hi + Step[c]
  /\ lost' = lost \cup Segment(c)
  /\ UNCHANGED <<held, issued>>

\* Client c gives its lowest id to one caller.
Issue(c) ==
  \E n \in held[c] :
    /\ \A m \in held[c] : n <= m
    /\ held' = [held EXCEPT ![c] = @ \ {n}]
    /\ issued' = [issued EXCEPT ![n] = @ + 1]
    /\ UNCHANGED <<hi, lost>>

\* Client c goes away with the ids it still holds.
Drop(c) ==
  /\ held' = [held EXCEPT ![c] = {}]
  /\ lost' = lost \cup held[c]
  /\ UNCHANGED <<hi, issued>>

LeaseNext == \E c \in Clients : Lease(c) \/ Waste(c) \/ Issue(c) \/ Drop(c)

LeaseSpec == LeaseInit /\ [][LeaseNext]_leaseVars

=============================================================================
