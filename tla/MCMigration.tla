---------------------------- MODULE MCMigration -----------------------------
(* Small instance of Migration: two versions, as in db/migrations, the      *)
(* second of which changes the table the application uses, and one usable   *)
(* and several unusable environments.                                       *)
EXTENDS Migration, TLC

Unset == [kind |-> "unset", micros |-> 0]
Bad == [kind |-> "bad", micros |-> 0]
Value(n) == [kind |-> "value", micros |-> n]

Env(timeout, lockTimeout) == [url |-> TRUE, timeout |-> timeout, lock |-> lockTimeout]

MCEnvironments ==
    {Env(Unset, Value(2000)), Env(Unset, Value(0)), Env(Unset, Value(-1000)),
     Env(Value(0), Unset), Env(Unset, Bad), [url |-> FALSE, timeout |-> Unset, lock |-> Unset]}

\* For liveness, where refused environments add nothing.
NoLockTimeout == {Env(Value(1000), Value(0))}

\* For the documented bound: half a millisecond.
SubMillisecond == {Env(Unset, Value(500))}

Symmetry == Permutations(Jobs)
=============================================================================
