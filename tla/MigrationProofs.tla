-------------------------- MODULE MigrationProofs ---------------------------
(***************************************************************************)
(* Proofs about Migration for any number of overlapping jobs, versions and *)
(* retries, and every environment.                                         *)
(***************************************************************************)
EXTENDS Migration, TLAPS

\* Whole milliseconds of a duration.
LEMMA Milliseconds == \A d \in Nat : d \div 1000 \in Nat /\ (d >= 1000 => d \div 1000 > 0)
OBVIOUS

\* A lock timeout that run() accepts is not negative.
LEMMA UsableLock ==
    ASSUME NEW env \in Environments, Usable(env)
    PROVE  migrationLockTimeout(env.lock) \in Nat
<1>1. env.lock \in Setting
  BY MigrationAssumption
<1>2. env.lock.micros \in Int /\ (env.lock.kind = "unset" \/ env.lock.micros >= 0)
  BY <1>1 DEF Setting, Usable, LockTimeoutValid
<1> QED BY <1>2 DEF migrationLockTimeout, defaultLockTimeout

LEMMA InitInv == Init => MigrationInv
<1> SUFFICES ASSUME Init PROVE MigrationInv
  OBVIOUS
<1> USE MigrationAssumption DEF Init
<1>1. TypeOK
  <2>1. version \in [Jobs -> 0..N] /\ runs \in [Jobs -> Nat] /\ waited \in [Jobs -> Nat]
        /\ lock \in [Jobs -> Nat] /\ rows \in [Versions -> Nat]
    OBVIOUS
  <2>2. todo \in [Jobs -> SUBSET Versions] /\ results \in [Jobs -> SUBSET Versions]
        /\ reported \in [Jobs -> SUBSET Versions] /\ committed \in [Jobs -> SUBSET Versions]
    OBVIOUS
  <2> QED BY <2>1, <2>2 DEF TypeOK
<1>2. AppliedOnce /\ OpenOnce /\ LockWaitBounded
  BY DEF AppliedOnce, OpenOnce, LockWaitBounded, Versions
<1>3. \A j \in Jobs : Planned(j) /\ Reported(j)
  BY DEF Planned, Reported
<1> QED BY <1>1, <1>2, <1>3 DEF MigrationInv

\* The version a job is at comes directly after recorded ones.
LEMMA NextVersion ==
    ASSUME TypeOK, NEW j \in Jobs, Planned(j), pc[j] \in {"waiting", "ran", "committed"}
    PROVE  /\ version[j] \in Versions
           /\ \A u \in 1..(version[j] - 1) : u \in Versions /\ rows[u] = 1
<1>1. version[j] \in Versions /\ version[j] \in todo[j]
  BY DEF TypeOK, Planned
<1>2. ASSUME NEW u \in 1..(version[j] - 1) PROVE u \in Versions /\ rows[u] = 1
  <2>1. u \in Versions /\ u < version[j]
    BY <1>1, MigrationAssumption DEF Versions
  <2>2. u \notin todo[j]
    BY <2>1, <1>1 DEF Planned, Versions
  <2> QED BY <2>1, <2>2 DEF Planned
<1> QED BY <1>1, <1>2

\* What recording version v does, when it was not recorded and all before it were.
LEMMA RecordVersion ==
    ASSUME TypeOK, AppliedOnce, NEW v \in Versions, rows[v] = 0,
           \A u \in 1..(v - 1) : rows[u] = 1, rows' = [rows EXCEPT ![v] = @ + 1]
    PROVE  /\ rows' \in [Versions -> Nat]
           /\ rows'[v] = 1
           /\ \A u \in Versions : rows[u] = 1 => rows'[u] = 1
           /\ \A u \in Versions \ {v} : rows'[u] = rows[u]
           /\ AppliedOnce'
<1>1. rows' \in [Versions -> Nat] /\ rows'[v] = 1 /\ \A u \in Versions \ {v} : rows'[u] = rows[u]
  BY DEF TypeOK
<1>2. \A u \in Versions : rows[u] = 1 => rows'[u] = 1
  BY <1>1
<1>3. ASSUME NEW w \in Versions
      PROVE  rows'[w] <= 1 /\ (rows'[w] = 1 => \A u \in 1..w : rows'[u] = 1)
  <2>1. CASE w = v
    <3>1. \A u \in 1..w : u \in Versions /\ (u = v \/ u \in 1..(v - 1))
      BY <2>1, MigrationAssumption DEF Versions
    <3> QED BY <2>1, <3>1, <1>1, <1>2
  <2>2. CASE w # v
    <3>1. rows'[w] = rows[w] /\ \A u \in 1..w : u \in Versions
      BY <2>2, <1>1, MigrationAssumption DEF Versions
    <3> QED BY <3>1, <1>2 DEF AppliedOnce
  <2> QED BY <2>1, <2>2
<1>4. AppliedOnce'
  BY <1>3 DEF AppliedOnce, Versions
<1> QED BY <1>1, <1>2, <1>4

-----------------------------------------------------------------------------
(* One lemma per step.                                                     *)

LEMMA RefuseInv ==
    ASSUME MigrationInv, NEW j \in Jobs, NEW env \in Environments, Refuse(j, env)
    PROVE  MigrationInv'
<1> USE MigrationAssumption DEF MigrationInv, Refuse, Fail, Fresh, partialApplied, database
<1>1. TypeOK'
  <2>1. runs' \in [Jobs -> Nat] /\ exit' \in [Jobs -> {"none", "ok", "error", "killed"}]
    BY DEF TypeOK
  <2>2. reported' \in [Jobs -> SUBSET Versions]
    BY DEF TypeOK
  <2> QED BY <2>1, <2>2 DEF TypeOK
<1>2. AppliedOnce'
  BY DEF TypeOK, AppliedOnce
<1>3. OpenOnce'
  BY DEF TypeOK, OpenOnce
<1>4. \A i \in Jobs : Planned(i)'
  BY DEF TypeOK, Planned
<1>5. \A i \in Jobs : Reported(i)'
  BY DEF TypeOK, Reported
<1>6. LockWaitBounded'
  BY DEF TypeOK, LockWaitBounded
<1> QED BY <1>1, <1>2, <1>3, <1>4, <1>5, <1>6

\* The wait of a new run has not begun.
LEMMA LaunchInv ==
    ASSUME MigrationInv, NEW j \in Jobs, NEW env \in Environments, Launch(j, env)
    PROVE  MigrationInv'
<1> USE MigrationAssumption DEF MigrationInv, Launch, Fresh, database
<1>1. TypeOK'
  BY UsableLock DEF TypeOK
<1>2. AppliedOnce'
  BY DEF TypeOK, AppliedOnce
<1>3. OpenOnce'
  BY DEF TypeOK, OpenOnce
<1>4. \A i \in Jobs : Planned(i)'
  BY DEF TypeOK, Planned
<1>5. \A i \in Jobs : Reported(i)'
  BY DEF TypeOK, Reported
<1>6. LockWaitBounded'
  BY Milliseconds, UsableLock DEF TypeOK, LockWaitBounded, Reported
<1> QED BY <1>1, <1>2, <1>3, <1>4, <1>5, <1>6

LEMMA StartFailsInv ==
    ASSUME MigrationInv, NEW j \in Jobs, StartFails(j)
    PROVE  MigrationInv'
<1> USE MigrationAssumption DEF MigrationInv, StartFails, Fail, partialApplied, database
<1>1. TypeOK'
  BY DEF TypeOK, Versions
<1>2. AppliedOnce'
  BY DEF TypeOK, AppliedOnce
<1>3. OpenOnce'
  BY DEF TypeOK, OpenOnce
<1>4. \A i \in Jobs : Planned(i)'
  BY DEF TypeOK, Planned
<1>5. \A i \in Jobs : Reported(i)'
  BY DEF TypeOK, Reported
<1>6. LockWaitBounded'
  BY DEF TypeOK, LockWaitBounded
<1> QED BY <1>1, <1>2, <1>3, <1>4, <1>5, <1>6

\* What Up does not plan is recorded, once.
LEMMA ListInv ==
    ASSUME MigrationInv, NEW j \in Jobs, List(j)
    PROVE  MigrationInv'
<1> USE MigrationAssumption DEF MigrationInv, List, database
<1>1. TypeOK'
  BY DEF TypeOK, Versions
<1>2. AppliedOnce'
  BY DEF TypeOK, AppliedOnce
<1>3. OpenOnce'
  BY DEF TypeOK, OpenOnce
<1>4. \A i \in Jobs : Planned(i)'
  <2> TAKE i \in Jobs
  <2>1. CASE i = j
    <3>1. \A u \in Versions : rows[u] # 0 => rows[u] = 1
      BY DEF TypeOK, AppliedOnce
    <3> QED BY <2>1, <3>1 DEF TypeOK, Planned
  <2>2. CASE i # j
    BY <2>2 DEF TypeOK, Planned
  <2> QED BY <2>1, <2>2
<1>5. \A i \in Jobs : Reported(i)'
  BY DEF TypeOK, Reported
<1>6. LockWaitBounded'
  BY DEF TypeOK, LockWaitBounded
<1> QED BY <1>1, <1>2, <1>3, <1>4, <1>5, <1>6

LEMMA BeginInv ==
    ASSUME MigrationInv, NEW j \in Jobs, NEW v \in todo[j], Begin(j, v)
    PROVE  MigrationInv'
<1> USE MigrationAssumption DEF MigrationInv, Begin, database
<1>1. TypeOK'
  <2>1. v \in 0..N
    BY DEF TypeOK, Versions
  <2> QED BY <2>1 DEF TypeOK
<1>2. AppliedOnce'
  BY DEF TypeOK, AppliedOnce
<1>3. OpenOnce'
  BY DEF TypeOK, OpenOnce
<1>4. \A i \in Jobs : Planned(i)'
  BY DEF TypeOK, Planned
<1>5. \A i \in Jobs : Reported(i)'
  BY DEF TypeOK, Reported
<1>6. LockWaitBounded'
  BY Milliseconds DEF TypeOK, LockWaitBounded
<1> QED BY <1>1, <1>2, <1>3, <1>4, <1>5, <1>6

\* Nobody else has the version open, and it is not recorded.
LEMMA RunInv ==
    ASSUME MigrationInv, NEW j \in Jobs, Run(j)
    PROVE  MigrationInv'
<1> USE MigrationAssumption DEF MigrationInv, Run, Blocked, Conflicts, database
<1>1. TypeOK'
  BY DEF TypeOK, Versions
<1>2. AppliedOnce'
  BY DEF TypeOK, AppliedOnce
<1>3. OpenOnce'
  <2>1. version[j] \in Versions /\ rows[version[j]] = 0
    BY NextVersion DEF TypeOK
  <2>2. \A i \in Jobs : pc'[i] = "ran" => i = j \/ pc[i] = "ran"
    BY DEF TypeOK
  <2>3. \A i \in Jobs : pc[i] = "ran" => version[i] # version[j]
    BY DEF TypeOK
  <2> QED BY <2>1, <2>2, <2>3 DEF OpenOnce
<1>4. \A i \in Jobs : Planned(i)'
  BY DEF TypeOK, Planned
<1>5. \A i \in Jobs : Reported(i)'
  BY DEF TypeOK, Reported
<1>6. LockWaitBounded'
  BY DEF TypeOK, LockWaitBounded
<1> QED BY <1>1, <1>2, <1>3, <1>4, <1>5, <1>6

LEMMA StatementFailsInv ==
    ASSUME MigrationInv, NEW j \in Jobs, StatementFails(j)
    PROVE  MigrationInv'
<1> USE MigrationAssumption DEF MigrationInv, StatementFails, Fail, partialApplied, database
<1>1. TypeOK'
  BY DEF TypeOK, Versions
<1>2. AppliedOnce'
  BY DEF TypeOK, AppliedOnce
<1>3. OpenOnce'
  BY DEF TypeOK, OpenOnce
<1>4. \A i \in Jobs : Planned(i)'
  BY DEF TypeOK, Planned
<1>5. \A i \in Jobs : Reported(i)'
  BY DEF TypeOK, Reported
<1>6. LockWaitBounded'
  BY DEF TypeOK, LockWaitBounded
<1> QED BY <1>1, <1>2, <1>3, <1>4, <1>5, <1>6

\* The version is recorded for the first time, after all before it.
LEMMA CommitInv ==
    ASSUME MigrationInv, NEW j \in Jobs, Commit(j)
    PROVE  MigrationInv'
<1> USE MigrationAssumption DEF MigrationInv, Commit, database
<1>0. /\ version[j] \in Versions
      /\ \A u \in 1..(version[j] - 1) : u \in Versions /\ rows[u] = 1
  BY NextVersion
<1>a. rows[version[j]] = 0
  BY DEF OpenOnce
<1>b. /\ rows' \in [Versions -> Nat] /\ rows'[version[j]] = 1
      /\ \A u \in Versions : rows[u] = 1 => rows'[u] = 1
      /\ \A u \in Versions \ {version[j]} : rows'[u] = rows[u]
      /\ AppliedOnce'
  BY <1>0, <1>a, RecordVersion
<1>1. TypeOK'
  <2>1. committed' \in [Jobs -> SUBSET Versions]
    BY <1>0 DEF TypeOK
  <2> QED BY <1>b, <2>1 DEF TypeOK
<1>2. AppliedOnce'
  BY <1>b
<1>3. OpenOnce'
  <2>1. ASSUME NEW i \in Jobs, pc'[i] = "ran"
        PROVE  /\ rows'[version[i]] = 0 /\ version[i] \notin orphans
               /\ \A k \in Jobs : pc'[k] = "ran" /\ version[k] = version[i] => k = i
    <3>1. i # j /\ pc[i] = "ran" /\ version[i] \in Versions \ {version[j]}
      BY <2>1, NextVersion DEF TypeOK, OpenOnce
    <3>2. rows'[version[i]] = 0 /\ version[i] \notin orphans
      BY <3>1, <1>b DEF OpenOnce
    <3>3. \A k \in Jobs : pc'[k] = "ran" => pc[k] = "ran"
      BY DEF TypeOK
    <3> QED BY <3>1, <3>2, <3>3 DEF OpenOnce
  <2>2. ASSUME NEW w \in orphans
        PROVE  rows'[w] = 0 /\ \A u \in 1..(w - 1) : rows'[u] = 1
    <3>1. w \in Versions \ {version[j]} /\ \A u \in 1..(w - 1) : u \in Versions
      BY DEF TypeOK, OpenOnce, Versions
    <3> QED BY <3>1, <1>b DEF OpenOnce
  <2> QED BY <2>1, <2>2 DEF OpenOnce
<1>4. \A i \in Jobs : Planned(i)'
  BY <1>0, <1>b, NextVersion DEF TypeOK, Planned
<1>5. \A i \in Jobs : Reported(i)'
  <2> TAKE i \in Jobs
  <2>1. CASE i = j
    BY <2>1, <1>0 DEF TypeOK, Reported
  <2>2. CASE i # j
    BY <2>2, <1>b DEF TypeOK, Reported
  <2> QED BY <2>1, <2>2
<1>6. LockWaitBounded'
  BY DEF TypeOK, LockWaitBounded
<1> QED BY <1>1, <1>2, <1>3, <1>4, <1>5, <1>6

LEMMA AckInv ==
    ASSUME MigrationInv, NEW j \in Jobs, Ack(j)
    PROVE  MigrationInv'
<1> USE MigrationAssumption DEF MigrationInv, Ack, database
<1>0. version[j] \in Versions /\ todo[j] \subseteq Versions
  BY DEF TypeOK, Planned
<1>1. TypeOK'
  <2>1. results' \in [Jobs -> SUBSET Versions] /\ todo' \in [Jobs -> SUBSET Versions]
    BY <1>0 DEF TypeOK
  <2> QED BY <2>1 DEF TypeOK
<1>2. AppliedOnce'
  BY DEF TypeOK, AppliedOnce
<1>3. OpenOnce'
  BY DEF TypeOK, OpenOnce
<1>4. \A i \in Jobs : Planned(i)'
  BY DEF TypeOK, Planned
<1>5. \A i \in Jobs : Reported(i)'
  <2> TAKE i \in Jobs
  <2>1. CASE i = j
    BY <2>1 DEF TypeOK, Reported
  <2>2. CASE i # j
    BY <2>2 DEF TypeOK, Reported
  <2> QED BY <2>1, <2>2
<1>6. LockWaitBounded'
  BY DEF TypeOK, LockWaitBounded
<1> QED BY <1>1, <1>2, <1>3, <1>4, <1>5, <1>6

\* The open transaction passes to the server.
LEMMA DisconnectInv ==
    ASSUME MigrationInv, NEW j \in Jobs, Disconnect(j)
    PROVE  MigrationInv'
<1> USE MigrationAssumption DEF MigrationInv, Disconnect, Fail, partialApplied, Orphaned, database
<1>0. pc[j] = "ran" => version[j] \in Versions
  BY DEF TypeOK, Planned
<1>1. TypeOK'
  <2>1. orphans' \subseteq Versions
    BY <1>0 DEF TypeOK
  <2>2. reported' \in [Jobs -> SUBSET Versions]
    BY DEF TypeOK
  <2> QED BY <2>1, <2>2 DEF TypeOK
<1>2. AppliedOnce'
  BY DEF TypeOK, AppliedOnce
<1>3. OpenOnce'
  <2>1. CASE pc[j] = "ran"
    <3>1. rows[version[j]] = 0 /\ \A u \in 1..(version[j] - 1) : rows[u] = 1
      BY <2>1, NextVersion DEF OpenOnce
    <3> QED BY <2>1, <3>1 DEF TypeOK, OpenOnce
  <2>2. CASE pc[j] # "ran"
    BY <2>2 DEF TypeOK, OpenOnce
  <2> QED BY <2>1, <2>2
<1>4. \A i \in Jobs : Planned(i)'
  BY DEF TypeOK, Planned
<1>5. \A i \in Jobs : Reported(i)'
  BY DEF TypeOK, Reported
<1>6. LockWaitBounded'
  BY DEF TypeOK, LockWaitBounded
<1> QED BY <1>1, <1>2, <1>3, <1>4, <1>5, <1>6

LEMMA TimeoutInv ==
    ASSUME MigrationInv, NEW j \in Jobs, Timeout(j)
    PROVE  MigrationInv'
<1> USE MigrationAssumption DEF MigrationInv, Timeout, database
<1>1. TypeOK'
  BY DEF TypeOK, Versions
<1>2. AppliedOnce'
  BY DEF TypeOK, AppliedOnce
<1>3. OpenOnce'
  BY DEF TypeOK, OpenOnce
<1>4. \A i \in Jobs : Planned(i)'
  BY DEF TypeOK, Planned
<1>5. \A i \in Jobs : Reported(i)'
  BY DEF TypeOK, Reported
<1>6. LockWaitBounded'
  BY DEF TypeOK, LockWaitBounded
<1> QED BY <1>1, <1>2, <1>3, <1>4, <1>5, <1>6

LEMMA AbandonInv ==
    ASSUME MigrationInv, NEW j \in Jobs, Abandon(j)
    PROVE  MigrationInv'
<1> USE MigrationAssumption DEF MigrationInv, Abandon, Fail, partialApplied, Orphaned, database
<1>0. pc[j] = "ran" => version[j] \in Versions
  BY DEF TypeOK, Planned
<1>1. TypeOK'
  <2>1. orphans' \subseteq Versions
    BY <1>0 DEF TypeOK
  <2>2. reported' \in [Jobs -> SUBSET Versions]
    BY DEF TypeOK
  <2> QED BY <2>1, <2>2 DEF TypeOK
<1>2. AppliedOnce'
  BY DEF TypeOK, AppliedOnce
<1>3. OpenOnce'
  <2>1. CASE pc[j] = "ran"
    <3>1. rows[version[j]] = 0 /\ \A u \in 1..(version[j] - 1) : rows[u] = 1
      BY <2>1, NextVersion DEF OpenOnce
    <3> QED BY <2>1, <3>1 DEF TypeOK, OpenOnce
  <2>2. CASE pc[j] # "ran"
    BY <2>2 DEF TypeOK, OpenOnce
  <2> QED BY <2>1, <2>2
<1>4. \A i \in Jobs : Planned(i)'
  BY DEF TypeOK, Planned
<1>5. \A i \in Jobs : Reported(i)'
  BY DEF TypeOK, Reported
<1>6. LockWaitBounded'
  BY DEF TypeOK, LockWaitBounded
<1> QED BY <1>1, <1>2, <1>3, <1>4, <1>5, <1>6

\* With nothing planned, everything is recorded.
LEMMA FinishInv ==
    ASSUME MigrationInv, NEW j \in Jobs, NEW closed \in BOOLEAN, Finish(j, closed)
    PROVE  MigrationInv'
<1> USE MigrationAssumption DEF MigrationInv, Finish, database
<1>1. TypeOK'
  BY DEF TypeOK
<1>2. AppliedOnce'
  BY DEF TypeOK, AppliedOnce
<1>3. OpenOnce'
  BY DEF TypeOK, OpenOnce
<1>4. \A i \in Jobs : Planned(i)'
  BY DEF TypeOK, Planned
<1>5. \A i \in Jobs : Reported(i)'
  <2> TAKE i \in Jobs
  <2>1. CASE i = j
    BY <2>1 DEF TypeOK, Planned, Reported
  <2>2. CASE i # j
    BY <2>2 DEF TypeOK, Reported
  <2> QED BY <2>1, <2>2
<1>6. LockWaitBounded'
  BY DEF TypeOK, LockWaitBounded
<1> QED BY <1>1, <1>2, <1>3, <1>4, <1>5, <1>6

LEMMA KillInv ==
    ASSUME MigrationInv, NEW j \in Jobs, Kill(j)
    PROVE  MigrationInv'
<1> USE MigrationAssumption DEF MigrationInv, Kill, Orphaned, database
<1>0. pc[j] = "ran" => version[j] \in Versions
  BY DEF TypeOK, Planned
<1>1. TypeOK'
  <2>1. orphans' \subseteq Versions
    BY <1>0 DEF TypeOK
  <2>2. reported' \in [Jobs -> SUBSET Versions]
    BY DEF TypeOK
  <2> QED BY <2>1, <2>2 DEF TypeOK
<1>2. AppliedOnce'
  BY DEF TypeOK, AppliedOnce
<1>3. OpenOnce'
  <2>1. CASE pc[j] = "ran"
    <3>1. rows[version[j]] = 0 /\ \A u \in 1..(version[j] - 1) : rows[u] = 1
      BY <2>1, NextVersion DEF OpenOnce
    <3> QED BY <2>1, <3>1 DEF TypeOK, OpenOnce
  <2>2. CASE pc[j] # "ran"
    BY <2>2 DEF TypeOK, OpenOnce
  <2> QED BY <2>1, <2>2
<1>4. \A i \in Jobs : Planned(i)'
  BY DEF TypeOK, Planned
<1>5. \A i \in Jobs : Reported(i)'
  BY DEF TypeOK, Reported
<1>6. LockWaitBounded'
  BY DEF TypeOK, LockWaitBounded
<1> QED BY <1>1, <1>2, <1>3, <1>4, <1>5, <1>6

LEMMA RetryInv ==
    ASSUME MigrationInv, NEW j \in Jobs, Retry(j)
    PROVE  MigrationInv'
<1> USE MigrationAssumption DEF MigrationInv, Retry, database
<1>1. TypeOK'
  BY DEF TypeOK, Versions
<1>2. AppliedOnce'
  BY DEF TypeOK, AppliedOnce
<1>3. OpenOnce'
  BY DEF TypeOK, OpenOnce
<1>4. \A i \in Jobs : Planned(i)'
  BY DEF TypeOK, Planned
<1>5. \A i \in Jobs : Reported(i)'
  BY DEF TypeOK, Reported
<1>6. LockWaitBounded'
  BY Milliseconds DEF TypeOK, LockWaitBounded
<1> QED BY <1>1, <1>2, <1>3, <1>4, <1>5, <1>6

\* A late COMMIT records a version nobody else could.
LEMMA EndOrphanInv ==
    ASSUME MigrationInv, NEW v \in orphans, NEW commit \in BOOLEAN, EndOrphan(v, commit)
    PROVE  MigrationInv'
<1> USE MigrationAssumption DEF MigrationInv, EndOrphan, database
<1>0. v \in Versions /\ rows[v] = 0 /\ \A u \in 1..(v - 1) : rows[u] = 1
  BY DEF TypeOK, OpenOnce
<1>a. /\ rows' \in [Versions -> Nat]
      /\ \A u \in Versions : rows[u] = 1 => rows'[u] = 1
      /\ \A u \in Versions \ {v} : rows'[u] = rows[u]
      /\ AppliedOnce'
  <2>1. CASE commit
    BY <2>1, <1>0, RecordVersion
  <2>2. CASE ~commit
    BY <2>2 DEF TypeOK, AppliedOnce
  <2> QED BY <2>1, <2>2
<1>1. TypeOK'
  BY <1>a DEF TypeOK
<1>2. AppliedOnce'
  BY <1>a
<1>3. OpenOnce'
  <2>1. ASSUME NEW i \in Jobs, pc[i] = "ran"
        PROVE  rows'[version[i]] = 0
    <3>1. version[i] \in Versions \ {v}
      BY <2>1, NextVersion DEF OpenOnce
    <3> QED BY <2>1, <3>1, <1>a DEF OpenOnce
  <2>2. ASSUME NEW w \in orphans \ {v}
        PROVE  rows'[w] = 0 /\ \A u \in 1..(w - 1) : rows'[u] = 1
    <3>1. w \in Versions \ {v} /\ \A u \in 1..(w - 1) : u \in Versions
      BY DEF TypeOK, OpenOnce, Versions
    <3> QED BY <3>1, <1>a DEF OpenOnce
  <2> QED BY <2>1, <2>2 DEF OpenOnce
<1>4. \A i \in Jobs : Planned(i)'
  BY <1>a, NextVersion DEF TypeOK, Planned
<1>5. \A i \in Jobs : Reported(i)'
  BY <1>a DEF TypeOK, Reported
<1>6. LockWaitBounded'
  BY DEF TypeOK, LockWaitBounded
<1> QED BY <1>1, <1>2, <1>3, <1>4, <1>5, <1>6

LEMMA ApplicationInv ==
    ASSUME MigrationInv, Application
    PROVE  MigrationInv'
<1> USE MigrationAssumption DEF MigrationInv, Application, database
<1>1. TypeOK'
  BY DEF TypeOK, Versions
<1>2. AppliedOnce'
  BY DEF TypeOK, AppliedOnce
<1>3. OpenOnce'
  BY DEF TypeOK, OpenOnce
<1>4. \A i \in Jobs : Planned(i)'
  BY DEF TypeOK, Planned
<1>5. \A i \in Jobs : Reported(i)'
  BY DEF TypeOK, Reported
<1>6. LockWaitBounded'
  BY DEF TypeOK, LockWaitBounded
<1> QED BY <1>1, <1>2, <1>3, <1>4, <1>5, <1>6

\* Time passes only while every lock timeout has time left.
LEMMA TickInv ==
    ASSUME MigrationInv, Tick
    PROVE  MigrationInv'
<1> USE MigrationAssumption DEF MigrationInv, Tick, LockTimeoutDue, database
<1>1. TypeOK'
  BY DEF TypeOK, Versions
<1>2. AppliedOnce'
  BY DEF TypeOK, AppliedOnce
<1>3. OpenOnce'
  BY DEF TypeOK, OpenOnce
<1>4. \A i \in Jobs : Planned(i)'
  BY DEF TypeOK, Planned
<1>5. \A i \in Jobs : Reported(i)'
  BY DEF TypeOK, Reported, Waiting
<1>6. LockWaitBounded'
  BY Milliseconds DEF TypeOK, LockWaitBounded, lockTimeoutParam
<1> QED BY <1>1, <1>2, <1>3, <1>4, <1>5, <1>6

-----------------------------------------------------------------------------
(* The theorems.                                                           *)

\* Every behaviour keeps the inductive invariant.
THEOREM MigrationInvariant == Spec => []MigrationInv
<1>1. MigrationInv /\ [Next]_vars => MigrationInv'
  <2> SUFFICES ASSUME MigrationInv, [Next]_vars PROVE MigrationInv'
    OBVIOUS
  <2>1. CASE UNCHANGED vars
    BY <2>1 DEF vars, MigrationInv, TypeOK, AppliedOnce, OpenOnce, Planned, Reported, LockWaitBounded
  <2>2. ASSUME NEW j \in Jobs, Job(j) PROVE MigrationInv'
    BY <2>2, RefuseInv, LaunchInv, StartFailsInv, ListInv, BeginInv, RunInv, StatementFailsInv,
       CommitInv, AckInv, DisconnectInv, TimeoutInv, AbandonInv, FinishInv, KillInv, RetryInv DEF Job
  <2>3. CASE \E v \in orphans, commit \in BOOLEAN : EndOrphan(v, commit)
    BY <2>3, EndOrphanInv
  <2>4. CASE Application \/ Tick
    BY <2>4, ApplicationInv, TickInv
  <2> QED BY <2>1, <2>2, <2>3, <2>4 DEF Next
<1> QED BY <1>1, InitInv, PTL DEF Spec

\* Type correctness: every variable stays within the values the code gives it.
THEOREM MigrationTypes == Spec => []TypeOK
<1>1. MigrationInv => TypeOK
  BY DEF MigrationInv
<1> QED BY <1>1, MigrationInvariant, PTL

\* However many jobs overlap and however often they are retried, each version is
\* recorded at most once and after all versions before it.
THEOREM VersionsAppliedOnce == Spec => []AppliedOnce
<1>1. MigrationInv => AppliedOnce
  BY DEF MigrationInv
<1> QED BY <1>1, MigrationInvariant, PTL

\* The versions a run reports are those it committed, but for the one it failed at.
THEOREM ReportsAreTrue == Spec => []ReportIsTrue
<1>1. MigrationInv => ReportIsTrue
  BY DEF MigrationInv, Reported, ReportIsTrue, TypeOK
<1> QED BY <1>1, MigrationInvariant, PTL

\* Exit status 0 means that every embedded migration is recorded.
THEOREM SuccessIsCurrent == Spec => []SuccessMeansCurrent
<1>1. MigrationInv => SuccessMeansCurrent
  BY DEF MigrationInv, Reported, SuccessMeansCurrent, TypeOK
<1> QED BY <1>1, MigrationInvariant, PTL

\* A lock timeout of at least a millisecond bounds the wait for a lock.
THEOREM LockWaitsAreBounded == Spec => []LockWaitBounded
<1>1. MigrationInv => LockWaitBounded
  BY DEF MigrationInv
<1> QED BY <1>1, MigrationInvariant, PTL
=============================================================================
