------------------------------ MODULE LinkMap ------------------------------
(***************************************************************************)
(* What the link service promises its clients, with no cache, no request   *)
(* in flight and no failing call: a map from numbers to links that answers *)
(* truthfully.                                                             *)
(*                                                                         *)
(* A link never changes.  It goes from "none" to "live", perhaps to        *)
(* "deleted", and once expired to "reaped"; no two links that are still in *)
(* the map have the same long URL.  Every answer but one is true at the    *)
(* step that gives it, which lies between the request and the moment the   *)
(* client sees the answer.  The exception is the redirect: an expired link *)
(* may be served for Delay more, to those who asked before, and a deleted  *)
(* one for Grace more.                                                     *)
(***************************************************************************)
EXTENDS Integers

CONSTANTS
  MaxSeq,     \* the last number
  Longs,      \* long URLs
  NoLong,     \* no long URL
  Collate,    \* Collate[l]: what makes two long URLs the same
  Expiries,   \* the expiries a link may have; 0 is none
  Delay,      \* how long an answer may take
  Grace       \* how long a deleted link may still be served

VARIABLES
  now,        \* the time
  link,       \* link[s]: long URL and expiry of link s
  state,      \* state[s]: none, live, deleted, reaped
  deletedAt,  \* deletedAt[s]: when s was deleted
  answer      \* the answer that the last step gave, if any

map == <<now, link, state, deletedAt>>

Seqs == 1 .. MaxSeq

Present(s) == state[s] \in {"live", "deleted"}
Same(l, m) == Collate[l] = Collate[m]
Expired(s) == link[s].exp # 0 /\ link[s].exp <= now

-----------------------------------------------------------------------------
(* What an answer says of the link it names *)

\* A redirect leads to the link's URL, less than Delay after its expiry and at
\* most Grace after its deletion.  The link may have been reaped since.
FoundIsTrue(a) ==
  /\ state[a.seq] # "none"
  /\ Same(a.long, link[a.seq].long)
  /\ link[a.seq].exp = 0 \/ now < link[a.seq].exp + Delay
  /\ deletedAt[a.seq] = 0 \/ now <= deletedAt[a.seq] + Grace

\* A link that was created, or found in place of a new one, is in the map, or
\* was until somebody else deleted it.
CreatedIsTrue(a) == state[a.seq] # "none" /\ Same(a.long, link[a.seq].long)

\* A lookup names a link that is live.
InfoIsTrue(a) == state[a.seq] = "live" /\ a.long = link[a.seq].long

\* After a deletion has been answered the link is not live, whoever deleted it.
RemovedIsTrue(a) == state[a.seq] \in {"deleted", "reaped"}

\* Answers that say nothing of a link.
Silent == {"none", "error", "timeout", "panic"}

Truthful(a) ==
  \/ a.status \in Silent
  \/ a.status = "found" /\ FoundIsTrue(a)
  \/ a.status = "notFound" /\ state[a.seq] # "live"
  \/ a.status = "expired" /\ state[a.seq] # "none" /\ Expired(a.seq)
  \/ a.status = "ok" /\ a.op = "create" /\ CreatedIsTrue(a)
  \/ a.status = "ok" /\ a.op = "info" /\ InfoIsTrue(a)
  \/ a.status = "ok" /\ a.op = "delete" /\ RemovedIsTrue(a)

-----------------------------------------------------------------------------
MapInit ==
  /\ now = 1
  /\ link = [s \in Seqs |-> [long |-> NoLong, exp |-> 0]]
  /\ state = [s \in Seqs |-> "none"]
  /\ deletedAt = [s \in Seqs |-> 0]
  /\ answer.status = "none"

\* A URL that is not in the map gets a link with a number never used before.
Shorten(s, l, exp) ==
  /\ state[s] = "none"
  /\ \A t \in Seqs : Present(t) => ~Same(l, link[t].long)
  /\ link' = [link EXCEPT ![s] = [long |-> l, exp |-> exp]]
  /\ state' = [state EXCEPT ![s] = "live"]
  /\ UNCHANGED <<now, deletedAt>>

Remove(s) ==
  /\ state[s] = "live"
  /\ state' = [state EXCEPT ![s] = "deleted"]
  /\ deletedAt' = [deletedAt EXCEPT ![s] = now]
  /\ UNCHANGED <<now, link>>

\* Some of the expired links go.
Reap(S) ==
  /\ \A s \in S : Present(s) /\ Expired(s)
  /\ state' = [s \in Seqs |-> IF s \in S THEN "reaped" ELSE state[s]]
  /\ UNCHANGED <<now, link, deletedAt>>

Pass ==
  /\ now' = now + 1
  /\ UNCHANGED <<link, state, deletedAt>>

\* A step may change the map, and may give an answer, which is true of the map
\* as the step leaves it.
MapNext ==
  /\ \/ UNCHANGED map
     \/ Pass
     \/ \E s \in Seqs : Remove(s)
     \/ \E S \in SUBSET Seqs : Reap(S)
     \/ \E s \in Seqs, l \in Longs, exp \in Expiries : Shorten(s, l, exp)
  /\ Truthful(answer)'

MapSpec == MapInit /\ [][MapNext]_<<map, answer>>

=============================================================================
