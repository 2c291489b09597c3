---------------------------- MODULE MCRateLimiter ----------------------------
(* A small instance of RateLimiter for TLC.                                   *)
EXTENDS RateLimiter, TLC

\* Requests beyond the limit only count up.
FewRefused == \A c \in Clients : buckets[c] # NoBucket => buckets[c].count <= Limit + 2

Symmetry == Permutations(Clients)
=============================================================================
