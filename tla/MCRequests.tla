----------------------------- MODULE MCRequests -----------------------------
(* Small instance of Requests: more requests than connections, so that     *)
(* they queue for the pool, and one widget, so that deletes collide.       *)
EXTENDS RequestsRefinement, TLC

Symmetry == Permutations(Requests)
=============================================================================
