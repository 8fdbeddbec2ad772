--------------------------- MODULE MCLinkService ---------------------------
(* Instances of LinkService for TLC. *)
EXTENDS LinkService, TLC

CONSTANTS u1, u2

\* An index that tells all URLs apart.
CollateExact == [l \in Longs \cup {NoLong} |-> l]

\* A case-insensitive index: u2 is u1 in another case.
CollateFold == [l \in Longs \cup {NoLong} |-> IF l = u2 THEN u1 ELSE l]

ReqSymmetry == Permutations(Reqs)
=============================================================================
