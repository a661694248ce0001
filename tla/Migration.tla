----------------------------- MODULE Migration ------------------------------
(***************************************************************************)
(* Migration jobs: cmd/migrate's run and database.Migrate over the goose   *)
(* provider, against one PostgreSQL database.  Jobs may overlap (a retried *)
(* deployment) and the provider takes no session lock; a job may be        *)
(* canceled, killed, or lose the answer to its COMMIT; the running         *)
(* application may hold the table a migration wants to lock.               *)
(*                                                                         *)
(* Durations are microseconds; time passes in milliseconds, the unit of    *)
(* PostgreSQL's lock_timeout.                                              *)
(***************************************************************************)
EXTENDS Integers

CONSTANTS
    Jobs,           \* runs of the migration image that may overlap
    N,              \* the embedded migrations are the versions 1..N
    TableVersions,  \* versions that lock a table the application uses
    Environments,   \* what a job may find in its environment
    MaxRuns,        \* bound: how often one job is started
    WaitCap         \* bound: waiting is not counted further than this

Versions == 1..N

\* A duration variable: unset or blank, not a duration, or a value.
Setting == [kind : {"unset", "bad", "value"}, micros : Int]

ASSUME MigrationAssumption ==
    /\ N \in Nat \ {0}
    /\ TableVersions \subseteq Versions
    /\ Environments \subseteq [url : BOOLEAN, timeout : Setting, lock : Setting]
    /\ MaxRuns \in Nat /\ WaitCap \in Nat

VARIABLES
    rows,       \* rows of goose_db_version, per version
    held,       \* a transaction of the application holds its table
    orphans,    \* versions whose transaction is open although its job is gone
    pc,         \* where each job is
    ctx,        \* the job's context: "live", or ended by MIGRATE_TIMEOUT or a signal
    lock,       \* MigrationOptions.LockTimeout
    todo,       \* the versions provider.Up still has to apply
    version,    \* the one it is at
    results,    \* the versions it has applied
    waited,     \* how long its statement has waited for a lock
    reported,   \* the versions run() returned
    exit,       \* how the job ended
    committed,  \* the versions this run of the job really committed
    runs        \* how often the job was started

database == <<rows, held, orphans>>
vars == <<rows, held, orphans, pc, ctx, lock, todo, version, results, waited, reported, exit, committed, runs>>

-----------------------------------------------------------------------------
(* cmd/migrate: reading the environment.                                   *)

defaultLockTimeout == 5000000

\* migrationTimeout: the default, or a positive duration.
migrationTimeout(s) == s.kind = "unset" \/ (s.kind = "value" /\ s.micros > 0)

\* migrationLockTimeout: the default, or a duration that is not negative.
LockTimeoutValid(s) == s.kind = "unset" \/ (s.kind = "value" /\ s.micros >= 0)

migrationLockTimeout(s) == IF s.kind = "unset" THEN defaultLockTimeout ELSE s.micros

Usable(env) == env.url /\ migrationTimeout(env.timeout) /\ LockTimeoutValid(env.lock)

\* Mutant: the option does not reach the connection.
LockTimeoutUnset(d) == 0

\* The lock_timeout parameter Migrate sets, in whole milliseconds.  0, or no
\* parameter at all, is no limit.
lockTimeoutParam(d) == IF d > 0 THEN d \div 1000 ELSE 0

-----------------------------------------------------------------------------
(* How a run ends.                                                         *)

\* Mutant: only the results of a successful Up are reported.
PartialDropped(applied) == {}

\* With an error Up returns no results; Migrate takes PartialError's.
partialApplied(applied) == applied

\* Mutant: main exits with 0 in spite of the error.
FailSilently(j) ==
    /\ pc' = [pc EXCEPT ![j] = "done"]
    /\ reported' = [reported EXCEPT ![j] = partialApplied(results[j])]
    /\ exit' = [exit EXCEPT ![j] = "ok"]

\* The error path of Migrate and main: the applied versions, and exit 1.
Fail(j) ==
    /\ pc' = [pc EXCEPT ![j] = "done"]
    /\ reported' = [reported EXCEPT ![j] = partialApplied(results[j])]
    /\ exit' = [exit EXCEPT ![j] = "error"]

\* The server has not noticed yet that the job behind an open transaction is
\* gone, or works on the COMMIT it had already sent.
Orphaned(j) ==
    /\ orphans' = IF pc[j] = "ran" THEN orphans \cup {version[j]} ELSE orphans
    /\ UNCHANGED <<rows, held>>

-----------------------------------------------------------------------------
(* run().                                                                  *)

Fresh(j) ==
    /\ pc[j] = "idle" /\ runs[j] < MaxRuns
    /\ runs' = [runs EXCEPT ![j] = @ + 1]

\* The environment is refused before anything is opened.
Refuse(j, env) ==
    /\ Fresh(j) /\ ~Usable(env)
    /\ Fail(j)
    /\ UNCHANGED <<database, ctx, lock, todo, version, results, waited, committed>>

\* The context starts its timeout, and Migrate builds the provider.
Launch(j, env) ==
    /\ Fresh(j) /\ Usable(env)
    /\ pc' = [pc EXCEPT ![j] = "start"]
    /\ lock' = [lock EXCEPT ![j] = migrationLockTimeout(env.lock)]
    /\ UNCHANGED <<database, ctx, todo, version, results, waited, reported, exit, committed>>

\* Mutant: the run has no deadline.
NoTimeout(j) == FALSE /\ UNCHANGED vars

\* MIGRATE_TIMEOUT passes, or SIGINT or SIGTERM arrives.
Timeout(j) ==
    /\ pc[j] \notin {"idle", "done"} /\ ctx[j] = "live"
    /\ ctx' = [ctx EXCEPT ![j] = "ended"]
    /\ UNCHANGED <<database, pc, lock, todo, version, results, waited, reported, exit, committed, runs>>

\* The URL does not parse, the provider finds no migrations, the database is
\* away, or the version table cannot be created or read.
StartFails(j) ==
    /\ pc[j] = "start"
    /\ Fail(j)
    /\ UNCHANGED <<database, ctx, lock, todo, version, results, waited, committed, runs>>

-----------------------------------------------------------------------------
(* provider.Up.                                                            *)

\* Up lists the recorded versions once; the others are to be applied.
List(j) ==
    /\ pc[j] = "start" /\ ctx[j] = "live"
    /\ pc' = [pc EXCEPT ![j] = "next"]
    /\ todo' = [todo EXCEPT ![j] = {v \in Versions : rows[v] = 0}]
    /\ UNCHANGED <<database, ctx, lock, version, results, waited, reported, exit, committed, runs>>

\* Up takes the lowest version and begins its transaction.
Begin(j, v) ==
    /\ pc[j] = "next" /\ ctx[j] = "live"
    /\ v \in todo[j] /\ \A u \in todo[j] : v <= u
    /\ pc' = [pc EXCEPT ![j] = "waiting"]
    /\ version' = [version EXCEPT ![j] = v]
    /\ waited' = [waited EXCEPT ![j] = 0]
    /\ UNCHANGED <<database, ctx, lock, todo, results, reported, exit, committed, runs>>

\* The same objects were created in a transaction that is still open, or the
\* application holds the table.
Blocked(j) ==
    \/ \E i \in Jobs \ {j} : pc[i] = "ran" /\ version[i] = version[j]
    \/ version[j] \in orphans
    \/ held /\ version[j] \in TableVersions

\* Mutant: the migrations are written with IF NOT EXISTS.
IfNotExists(v) == FALSE

\* The statements of a version fail where its objects exist already: CREATE
\* TABLE, CREATE FUNCTION and CREATE TRIGGER without IF NOT EXISTS.
Conflicts(v) == rows[v] > 0

\* The statements have run; the version's row is part of the transaction.
Run(j) ==
    /\ pc[j] = "waiting" /\ ~Blocked(j) /\ ~Conflicts(version[j])
    /\ pc' = [pc EXCEPT ![j] = "ran"]
    /\ UNCHANGED <<database, ctx, lock, todo, version, results, waited, reported, exit, committed, runs>>

\* A statement fails: the object exists, the lock was not granted in time, or
\* anything else.  PostgreSQL rolls the transaction back.
StatementFails(j) ==
    /\ pc[j] \in {"waiting", "ran"}
    /\ Fail(j)
    /\ UNCHANGED <<database, ctx, lock, todo, version, results, waited, committed, runs>>

\* COMMIT takes effect: the objects and the recorded version at once.
Commit(j) ==
    /\ pc[j] = "ran"
    /\ pc' = [pc EXCEPT ![j] = "committed"]
    /\ rows' = [rows EXCEPT ![version[j]] = @ + 1]
    /\ committed' = [committed EXCEPT ![j] = @ \cup {version[j]}]
    /\ UNCHANGED <<held, orphans, ctx, lock, todo, version, results, waited, reported, exit, runs>>

\* The answer to COMMIT arrives.
Ack(j) ==
    /\ pc[j] = "committed"
    /\ pc' = [pc EXCEPT ![j] = "next"]
    /\ results' = [results EXCEPT ![j] = @ \cup {version[j]}]
    /\ todo' = [todo EXCEPT ![j] = @ \ {version[j]}]
    /\ UNCHANGED <<database, ctx, lock, version, waited, reported, exit, committed, runs>>

\* The connection breaks; the fate of a COMMIT is unknown to the job.
Disconnect(j) ==
    /\ pc[j] \in {"waiting", "ran", "committed"}
    /\ Fail(j) /\ Orphaned(j)
    /\ UNCHANGED <<ctx, lock, todo, version, results, waited, committed, runs>>

\* The ended context stops Up wherever it waits.
Abandon(j) ==
    /\ ctx[j] = "ended"
    /\ \/ pc[j] \in {"start", "waiting", "ran", "committed"}
       \/ pc[j] = "next" /\ todo[j] # {}
    /\ Fail(j) /\ Orphaned(j)
    /\ UNCHANGED <<ctx, lock, todo, version, results, waited, committed, runs>>

\* Nothing is left to apply; closing the database may still fail.
Finish(j, closed) ==
    /\ pc[j] = "next" /\ todo[j] = {}
    /\ pc' = [pc EXCEPT ![j] = "done"]
    /\ reported' = [reported EXCEPT ![j] = results[j]]
    /\ exit' = [exit EXCEPT ![j] = IF closed THEN "ok" ELSE "error"]
    /\ UNCHANGED <<database, ctx, lock, todo, version, results, waited, committed, runs>>

-----------------------------------------------------------------------------
(* The environment.                                                        *)

\* The job is killed and reports nothing.
Kill(j) ==
    /\ pc[j] \notin {"idle", "done"}
    /\ pc' = [pc EXCEPT ![j] = "done"]
    /\ exit' = [exit EXCEPT ![j] = "killed"]
    /\ Orphaned(j)
    /\ UNCHANGED <<ctx, lock, todo, version, results, waited, reported, committed, runs>>

\* The deployment starts the job again, whatever became of it.
Retry(j) ==
    /\ pc[j] = "done" /\ runs[j] < MaxRuns
    /\ pc' = [pc EXCEPT ![j] = "idle"]
    /\ ctx' = [ctx EXCEPT ![j] = "live"]
    /\ todo' = [todo EXCEPT ![j] = {}]
    /\ version' = [version EXCEPT ![j] = 0]
    /\ results' = [results EXCEPT ![j] = {}]
    /\ waited' = [waited EXCEPT ![j] = 0]
    /\ reported' = [reported EXCEPT ![j] = {}]
    /\ exit' = [exit EXCEPT ![j] = "none"]
    /\ committed' = [committed EXCEPT ![j] = {}]
    /\ UNCHANGED <<database, lock, runs>>

\* PostgreSQL ends a transaction whose job is gone: it commits only if the job
\* had sent COMMIT.
EndOrphan(v, commit) ==
    /\ v \in orphans
    /\ orphans' = orphans \ {v}
    /\ rows' = IF commit THEN [rows EXCEPT ![v] = @ + 1] ELSE rows
    /\ UNCHANGED <<held, pc, ctx, lock, todo, version, results, waited, reported, exit, committed, runs>>

\* A transaction of the application takes or releases the table.
Application ==
    /\ held' = ~held
    /\ UNCHANGED <<rows, orphans, pc, ctx, lock, todo, version, results, waited, reported, exit, committed, runs>>

Waiting(j) == pc[j] = "waiting" /\ Blocked(j)

\* PostgreSQL fails a statement whose lock_timeout has passed before it waits on.
LockTimeoutDue(j) ==
    /\ Waiting(j)
    /\ lockTimeoutParam(lock[j]) > 0 /\ waited[j] >= lockTimeoutParam(lock[j])

\* A millisecond passes.
Tick ==
    /\ \A j \in Jobs : ~LockTimeoutDue(j)
    /\ waited' = [j \in Jobs |->
                    IF Waiting(j) /\ waited[j] < WaitCap THEN waited[j] + 1 ELSE waited[j]]
    /\ UNCHANGED <<database, pc, ctx, lock, todo, version, results, reported, exit, committed, runs>>

-----------------------------------------------------------------------------
Init ==
    /\ rows = [v \in Versions |-> 0]
    /\ held = FALSE
    /\ orphans = {}
    /\ pc = [j \in Jobs |-> "idle"]
    /\ ctx = [j \in Jobs |-> "live"]
    /\ lock = [j \in Jobs |-> 0]
    /\ todo = [j \in Jobs |-> {}]
    /\ version = [j \in Jobs |-> 0]
    /\ results = [j \in Jobs |-> {}]
    /\ waited = [j \in Jobs |-> 0]
    /\ reported = [j \in Jobs |-> {}]
    /\ exit = [j \in Jobs |-> "none"]
    /\ committed = [j \in Jobs |-> {}]
    /\ runs = [j \in Jobs |-> 0]

Job(j) ==
    \/ \E env \in Environments : Refuse(j, env) \/ Launch(j, env)
    \/ StartFails(j) \/ List(j) \/ (\E v \in todo[j] : Begin(j, v))
    \/ Run(j) \/ StatementFails(j) \/ Commit(j) \/ Ack(j) \/ Disconnect(j)
    \/ Timeout(j) \/ Abandon(j) \/ (\E closed \in BOOLEAN : Finish(j, closed))
    \/ Kill(j) \/ Retry(j)

Next ==
    \/ \E j \in Jobs : Job(j)
    \/ \E v \in orphans, commit \in BOOLEAN : EndOrphan(v, commit)
    \/ Application
    \/ Tick

Spec == Init /\ [][Next]_vars

\* The timer fires and the job returns from what its context ended.  Nothing is
\* assumed of PostgreSQL or of the application's transactions.
Fairness ==
    \A j \in Jobs :
        WF_vars(Timeout(j)) /\ WF_vars(Abandon(j)) /\ WF_vars(Finish(j, TRUE))

FairSpec == Spec /\ Fairness

-----------------------------------------------------------------------------
(* Properties.                                                             *)

TypeOK ==
    /\ rows \in [Versions -> Nat]
    /\ held \in BOOLEAN
    /\ orphans \subseteq Versions
    /\ pc \in [Jobs -> {"idle", "start", "next", "waiting", "ran", "committed", "done"}]
    /\ ctx \in [Jobs -> {"live", "ended"}]
    /\ lock \in [Jobs -> Nat]
    /\ todo \in [Jobs -> SUBSET Versions]
    /\ version \in [Jobs -> 0..N]
    /\ results \in [Jobs -> SUBSET Versions]
    /\ waited \in [Jobs -> Nat]
    /\ reported \in [Jobs -> SUBSET Versions]
    /\ exit \in [Jobs -> {"none", "ok", "error", "killed"}]
    /\ committed \in [Jobs -> SUBSET Versions]
    /\ runs \in [Jobs -> Nat]

\* Overlapping, retried and interrupted jobs record every version at most once
\* and in order, although Migrate's provider takes no session lock.
AppliedOnce ==
    \A v \in Versions :
        /\ rows[v] <= 1
        /\ rows[v] = 1 => \A u \in 1..v : rows[u] = 1

\* What main logs is how far the run got: every reported version was committed
\* by it, and the only commit it may miss is that of the version it failed at.
ReportIsTrue ==
    \A j \in Jobs :
        /\ reported[j] \subseteq committed[j]
        /\ exit[j] \in {"ok", "error"} => committed[j] \subseteq reported[j] \cup {version[j]}
        /\ exit[j] = "ok" => committed[j] = reported[j]

\* The deployment gate: a job exits with 0 only if every embedded version is
\* recorded.
SuccessMeansCurrent == \A j \in Jobs : exit[j] = "ok" => \A v \in Versions : rows[v] > 0

\* A lock timeout of a millisecond or more bounds every wait for a lock.
LockWaitBounded ==
    \A j \in Jobs : lock[j] >= 1000 => waited[j] <= lock[j] \div 1000

\* DEPLOYMENT.md: only 0 waits forever; any other MIGRATE_LOCK_TIMEOUT bounds the
\* wait, to the next whole millisecond.
LockWaitAsDocumented ==
    \A j \in Jobs : lock[j] > 0 => waited[j] <= lock[j] \div 1000 + 1

\* Every run ends, even if the application never releases its table and the
\* lock timeout is 0.
EveryRunEnds == \A j \in Jobs : (pc[j] # "idle") ~> (pc[j] = "done")

-----------------------------------------------------------------------------
(* The inductive invariant behind the proofs.                              *)

\* What Up still plans is upward closed: everything else is recorded.
Planned(j) ==
    /\ pc[j] \in {"next", "waiting", "ran", "committed"} =>
           \A u \in Versions \ todo[j] : rows[u] = 1
    /\ pc[j] \in {"waiting", "ran", "committed"} =>
           version[j] \in todo[j] /\ \A u \in todo[j] : version[j] <= u
    /\ pc[j] = "committed" => rows[version[j]] = 1

\* A version has at most one open transaction, and none once it is recorded.
OpenOnce ==
    /\ \A j \in Jobs : pc[j] = "ran" =>
           /\ rows[version[j]] = 0
           /\ version[j] \notin orphans
           /\ \A i \in Jobs : pc[i] = "ran" /\ version[i] = version[j] => i = j
    /\ \A v \in orphans : rows[v] = 0 /\ \A u \in 1..(v - 1) : rows[u] = 1

\* What the job knows of its commits.
Reported(j) ==
    /\ results[j] \subseteq committed[j]
    /\ pc[j] = "idle" => committed[j] = {} /\ waited[j] = 0
    /\ pc[j] \in {"idle", "start", "next", "waiting", "ran"} => committed[j] = results[j]
    /\ pc[j] = "committed" => version[j] \in committed[j]
    /\ committed[j] \subseteq results[j] \cup {version[j]}
    /\ pc[j] # "done" <=> exit[j] = "none"
    /\ exit[j] \in {"none", "killed"} => reported[j] = {}
    /\ exit[j] \in {"ok", "error"} => reported[j] = results[j]
    /\ exit[j] = "ok" => committed[j] = results[j] /\ \A v \in Versions : rows[v] = 1

MigrationInv ==
    /\ TypeOK
    /\ AppliedOnce
    /\ OpenOnce
    /\ \A j \in Jobs : Planned(j) /\ Reported(j)
    /\ LockWaitBounded
=============================================================================
