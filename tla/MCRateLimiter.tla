---------------------------- MODULE MCRateLimiter ----------------------------
(* Two gateways share a Redis, and the clock of one of them is fast. Buckets *)
(* and windows are kept by tenant, so one tenant will do.                    *)
EXTENDS RateLimiter, TLC

CONSTANTS g1, g2, p1, p2

MCSkew == [g \in Gateway |-> IF g = g2 THEN 1 ELSE 0]
Symmetry == Permutations({p1, p2})
==============================================================================
