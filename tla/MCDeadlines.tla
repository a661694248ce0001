---------------------------- MODULE MCDeadlines ----------------------------
(* Two requests and one connection.  The body may take longer than the     *)
(* deadline and than the write timeout, a probe less than a statement.     *)
EXTENDS Deadlines, TLC

Symmetry == Permutations(Requests)
=============================================================================
