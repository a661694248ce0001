-------------------------- MODULE LifecycleProofs ---------------------------
(***************************************************************************)
(* Proofs about Lifecycle for every drain delay, timeout and poll interval *)
(* and any number of requests.                                             *)
(***************************************************************************)
EXTENDS Lifecycle, TLAPS

\* The constants, as numbers.
LEMMA Numbers ==
    /\ DrainDelay \in Nat /\ ShutdownTimeout \in Nat /\ RequestTimeout \in Nat
    /\ ReadHeaderTimeout \in Nat /\ HeaderSlack \in Nat
    /\ PollInterval \in Nat /\ ProbeTimeout \in Nat /\ CloseTimeout \in Nat
    /\ ProbeTime \in Nat /\ Slack \in Nat
    /\ StopTimeCap \in Nat
    /\ ProbeTime <= RequestTimeout /\ ProbeTime <= PollInterval
    /\ HeaderSlack <= ReadHeaderTimeout /\ HeaderSlack <= ShutdownTimeout
    /\ HeaderSlack = ReadHeaderTimeout \/ HeaderSlack = ShutdownTimeout
    /\ HeaderSlack + RequestTimeout + CloseTimeout <= Slack /\ ShutdownTimeout <= Slack
BY LifecycleAssumption DEF ProbeTime, HeaderSlack, Slack, StopTimeCap

LEMMA InitInv == Init => LifecycleInv
<1> SUFFICES ASSUME Init PROVE LifecycleInv
  OBVIOUS
<1> USE Numbers DEF Init
<1>1. TypeOK
  <2>1. probeLeft \in 0..ProbeTime /\ poll \in 0..PollInterval /\ left \in Nat /\ stopTime \in Nat
        /\ teardown \in 0..CloseTimeout
    OBVIOUS
  <2>2. work \in [Requests -> Nat]
    OBVIOUS
  <2> QED BY <2>1, <2>2 DEF TypeOK
<1>2. Phases /\ RouterLearns /\ NothingLostYet /\ TimersStarted /\ TimeAccounted
  BY DEF Phases, RouterLearns, NothingLostYet, CleanExitLosesNothing, TimersStarted, TimeAccounted,
         Reading, Active
<1> QED BY <1>1, <1>2 DEF LifecycleInv

-----------------------------------------------------------------------------
(* One lemma per step.                                                     *)

\* A failed start exits before any traffic.
LEMMA StartFailsInv ==
    ASSUME LifecycleInv, StartFails
    PROVE  LifecycleInv'
<1> USE Numbers DEF LifecycleInv, StartFails, process, router
<1>1. TypeOK'
  BY DEF TypeOK
<1>2. Phases' /\ (~signalled => stopTime = 0)'
  BY DEF TypeOK, Phases
<1>3. RouterLearns'
  BY DEF TypeOK, Phases, RouterLearns
<1>4. NothingLostYet'
  BY DEF TypeOK, Phases, NothingLostYet, CleanExitLosesNothing, ServerBusy, Reading, Active
<1>5. TimersStarted'
  BY DEF TypeOK, TimersStarted, Reading, Active
<1>6. TimeAccounted'
  BY DEF TypeOK, Phases, TimersStarted, TimeAccounted, Reading, Active
<1> QED BY <1>1, <1>2, <1>3, <1>4, <1>5, <1>6

LEMMA ConfiguredInv ==
    ASSUME LifecycleInv, Configured
    PROVE  LifecycleInv'
<1> USE Numbers DEF LifecycleInv, Configured, process, router
<1>1. TypeOK'
  BY DEF TypeOK
<1>2. Phases' /\ (~signalled => stopTime = 0)'
  BY DEF TypeOK, Phases
<1>3. RouterLearns'
  BY DEF TypeOK, Phases, RouterLearns
<1>4. NothingLostYet'
  BY DEF TypeOK, Phases, NothingLostYet, CleanExitLosesNothing, ServerBusy, Reading, Active
<1>5. TimersStarted'
  BY DEF TypeOK, TimersStarted, Reading, Active
<1>6. TimeAccounted'
  BY DEF TypeOK, Phases, TimersStarted, TimeAccounted, Reading, Active
<1> QED BY <1>1, <1>2, <1>3, <1>4, <1>5, <1>6

LEMMA OpenedInv ==
    ASSUME LifecycleInv, Opened
    PROVE  LifecycleInv'
<1> USE Numbers DEF LifecycleInv, Opened, process, router
<1>1. TypeOK'
  BY DEF TypeOK
<1>2. Phases' /\ (~signalled => stopTime = 0)'
  BY DEF TypeOK, Phases
<1>3. RouterLearns'
  BY DEF TypeOK, Phases, RouterLearns
<1>4. NothingLostYet'
  BY DEF TypeOK, Phases, NothingLostYet, CleanExitLosesNothing, ServerBusy, Reading, Active
<1>5. TimersStarted'
  BY DEF TypeOK, TimersStarted, Reading, Active
<1>6. TimeAccounted'
  BY DEF TypeOK, Phases, TimersStarted, TimeAccounted, Reading, Active
<1> QED BY <1>1, <1>2, <1>3, <1>4, <1>5, <1>6

\* The signal starts the account of the stop time.
LEMMA SignalInv ==
    ASSUME LifecycleInv, Signal
    PROVE  LifecycleInv'
<1> USE Numbers DEF LifecycleInv, Signal, process, router
<1>1. TypeOK'
  BY DEF TypeOK
<1>2. Phases' /\ (~signalled => stopTime = 0)'
  BY DEF TypeOK, Phases
<1>3. RouterLearns'
  BY DEF TypeOK, Phases, RouterLearns
<1>4. NothingLostYet'
  BY DEF TypeOK, Phases, NothingLostYet, CleanExitLosesNothing, ServerBusy, Reading, Active
<1>5. TimersStarted'
  BY DEF TypeOK, TimersStarted, Reading, Active
<1>6. TimeAccounted'
  BY DEF TypeOK, Phases, TimersStarted, TimeAccounted, Reading, Active
<1> QED BY <1>1, <1>2, <1>3, <1>4, <1>5, <1>6

LEMMA ListenInv ==
    ASSUME LifecycleInv, Listen
    PROVE  LifecycleInv'
<1> USE Numbers DEF LifecycleInv, Listen, process, router
<1>1. TypeOK'
  BY DEF TypeOK
<1>2. Phases' /\ (~signalled => stopTime = 0)'
  BY DEF TypeOK, Phases
<1>3. RouterLearns'
  BY DEF TypeOK, Phases, RouterLearns
<1>4. NothingLostYet'
  BY DEF TypeOK, Phases, NothingLostYet, CleanExitLosesNothing, ServerBusy, Reading, Active
<1>5. TimersStarted'
  BY DEF TypeOK, TimersStarted, Reading, Active
<1>6. TimeAccounted'
  BY DEF TypeOK, Phases, TimersStarted, TimeAccounted, Reading, Active
<1> QED BY <1>1, <1>2, <1>3, <1>4, <1>5, <1>6

LEMMA ListenerFailsInv ==
    ASSUME LifecycleInv, ListenerFails
    PROVE  LifecycleInv'
<1> USE Numbers DEF LifecycleInv, ListenerFails, process, router
<1>1. TypeOK'
  BY DEF TypeOK
<1>2. Phases' /\ (~signalled => stopTime = 0)'
  BY DEF TypeOK, Phases
<1>3. RouterLearns'
  BY DEF TypeOK, Phases, RouterLearns
<1>4. NothingLostYet'
  BY DEF TypeOK, Phases, NothingLostYet, CleanExitLosesNothing, ServerBusy, Reading, Active
<1>5. TimersStarted'
  BY DEF TypeOK, TimersStarted, Reading, Active
<1>6. TimeAccounted'
  BY DEF TypeOK, Phases, TimersStarted, TimeAccounted, Reading, Active
<1> QED BY <1>1, <1>2, <1>3, <1>4, <1>5, <1>6

\* The whole delay is ahead when readiness starts to fail.
LEMMA BeginDrainInv ==
    ASSUME LifecycleInv, BeginDrain
    PROVE  LifecycleInv'
<1> USE Numbers DEF LifecycleInv, BeginDrain, process, router
<1>1. TypeOK'
  BY DEF TypeOK
<1>2. Phases' /\ (~signalled => stopTime = 0)'
  BY DEF TypeOK, Phases
<1>3. RouterLearns'
  BY DEF TypeOK, Phases, RouterLearns
<1>4. NothingLostYet'
  BY DEF TypeOK, Phases, NothingLostYet, CleanExitLosesNothing, ServerBusy, Reading, Active
<1>5. TimersStarted'
  BY DEF TypeOK, TimersStarted, Reading, Active
<1>6. TimeAccounted'
  BY DEF TypeOK, Phases, TimersStarted, TimeAccounted, Reading, Active
<1> QED BY <1>1, <1>2, <1>3, <1>4, <1>5, <1>6

LEMMA ServeFailedInv ==
    ASSUME LifecycleInv, ServeFailed
    PROVE  LifecycleInv'
<1> USE Numbers DEF LifecycleInv, ServeFailed, process, router
<1>1. TypeOK'
  BY DEF TypeOK
<1>2. Phases' /\ (~signalled => stopTime = 0)'
  BY DEF TypeOK, Phases
<1>3. RouterLearns'
  BY DEF TypeOK, Phases, RouterLearns
<1>4. NothingLostYet'
  BY DEF TypeOK, Phases, NothingLostYet, CleanExitLosesNothing, ServerBusy, Reading, Active
<1>5. TimersStarted'
  BY DEF TypeOK, TimersStarted, Reading, Active
<1>6. TimeAccounted'
  BY DEF TypeOK, Phases, TimersStarted, TimeAccounted, Reading, Active
<1> QED BY <1>1, <1>2, <1>3, <1>4, <1>5, <1>6

\* The router knows by now, so nothing is routed to the closed listener.
LEMMA ShutdownInv ==
    ASSUME LifecycleInv, Shutdown
    PROVE  LifecycleInv'
<1> USE Numbers DEF LifecycleInv, Shutdown, process, router
<1>1. TypeOK'
  BY DEF TypeOK
<1>2. Phases' /\ (~signalled => stopTime = 0)'
  BY DEF TypeOK, Phases
<1>3. RouterLearns'
  BY DEF TypeOK, Phases, RouterLearns
<1>4. NothingLostYet'
  BY DEF TypeOK, Phases, NothingLostYet, CleanExitLosesNothing, ServerBusy, Reading, Active
<1>5. TimersStarted'
  BY DEF TypeOK, TimersStarted, Reading, Active
<1>6. TimeAccounted'
  BY DEF TypeOK, Phases, TimersStarted, TimeAccounted, Reading, Active
<1> QED BY <1>1, <1>2, <1>3, <1>4, <1>5, <1>6

\* Every request has ended.
LEMMA ShutdownDoneInv ==
    ASSUME LifecycleInv, ShutdownDone
    PROVE  LifecycleInv'
<1> USE Numbers DEF LifecycleInv, ShutdownDone, process, router
<1>1. TypeOK'
  BY DEF TypeOK
<1>2. Phases' /\ (~signalled => stopTime = 0)'
  BY DEF TypeOK, Phases
<1>3. RouterLearns'
  BY DEF TypeOK, Phases, RouterLearns
<1>4. NothingLostYet'
  BY DEF TypeOK, Phases, NothingLostYet, CleanExitLosesNothing, ServerBusy, Reading, Active
<1>5. TimersStarted'
  BY DEF TypeOK, TimersStarted, Reading, Active
<1>6. TimeAccounted'
  BY DEF TypeOK, Phases, TimersStarted, TimeAccounted, Reading, Active
<1> QED BY <1>1, <1>2, <1>3, <1>4, <1>5, <1>6

LEMMA ShutdownTimedOutInv ==
    ASSUME LifecycleInv, ShutdownTimedOut
    PROVE  LifecycleInv'
<1> USE Numbers DEF LifecycleInv, ShutdownTimedOut, process, router
<1>1. TypeOK'
  BY DEF TypeOK
<1>2. Phases' /\ (~signalled => stopTime = 0)'
  BY DEF TypeOK, Phases
<1>3. RouterLearns'
  BY DEF TypeOK, Phases, RouterLearns
<1>4. NothingLostYet'
  BY DEF TypeOK, Phases, NothingLostYet, CleanExitLosesNothing, ServerBusy, Reading, Active
<1>5. TimersStarted'
  BY DEF TypeOK, TimersStarted, Reading, Active
<1>6. TimeAccounted'
  BY DEF TypeOK, Phases, TimersStarted, TimeAccounted, Reading, Active
<1> QED BY <1>1, <1>2, <1>3, <1>4, <1>5, <1>6

\* Only requests without a connection are killed, and only after an error.
LEMMA ExitInv ==
    ASSUME LifecycleInv, Exit
    PROVE  LifecycleInv'
<1> USE Numbers DEF LifecycleInv, Exit, process, router
<1>1. TypeOK'
  BY DEF TypeOK
<1>2. Phases' /\ (~signalled => stopTime = 0)'
  BY DEF TypeOK, Phases
<1>3. RouterLearns'
  BY DEF TypeOK, Phases, RouterLearns
<1>4. NothingLostYet'
  BY DEF TypeOK, Phases, NothingLostYet, CleanExitLosesNothing, ServerBusy, Reading, Active
<1>5. TimersStarted'
  BY DEF TypeOK, TimersStarted, Reading, Active
<1>6. TimeAccounted'
  BY DEF TypeOK, Phases, TimersStarted, TimeAccounted, Reading, Active
<1> QED BY <1>1, <1>2, <1>3, <1>4, <1>5, <1>6

LEMMA ProbeStartInv ==
    ASSUME LifecycleInv, ProbeStart
    PROVE  LifecycleInv'
<1> USE Numbers DEF LifecycleInv, ProbeStart, process, router
<1>1. TypeOK'
  <2>1. poll' \in 0..PollInterval /\ probeLeft' \in 0..ProbeTime
    BY DEF TypeOK
  <2>2. probe' \in {"none", "pinging"} /\ routing' \in BOOLEAN
    BY DEF TypeOK
  <2> QED BY <2>1, <2>2 DEF TypeOK
<1>2. Phases' /\ (~signalled => stopTime = 0)'
  BY DEF TypeOK, Phases
<1>3. RouterLearns'
  BY DEF TypeOK, Phases, RouterLearns
<1>4. NothingLostYet'
  BY DEF TypeOK, Phases, NothingLostYet, CleanExitLosesNothing, ServerBusy, Reading, Active
<1>5. TimersStarted'
  BY DEF TypeOK, TimersStarted, Reading, Active
<1>6. TimeAccounted'
  BY DEF TypeOK, Phases, TimersStarted, TimeAccounted, Reading, Active
<1> QED BY <1>1, <1>2, <1>3, <1>4, <1>5, <1>6

LEMMA ProbeEndInv ==
    ASSUME LifecycleInv, NEW ok \in BOOLEAN, ProbeEnd(ok)
    PROVE  LifecycleInv'
<1> USE Numbers DEF LifecycleInv, ProbeEnd, process, router
<1>1. TypeOK'
  BY DEF TypeOK
<1>2. Phases' /\ (~signalled => stopTime = 0)'
  BY DEF TypeOK, Phases
<1>3. RouterLearns'
  BY DEF TypeOK, Phases, RouterLearns
<1>4. NothingLostYet'
  BY DEF TypeOK, Phases, NothingLostYet, CleanExitLosesNothing, ServerBusy, Reading, Active
<1>5. TimersStarted'
  BY DEF TypeOK, TimersStarted, Reading, Active
<1>6. TimeAccounted'
  <2>1. teardown' = teardown \/ teardown' = CloseTimeout
    OBVIOUS
  <2>2. stopTime' = stopTime /\ signalled' = signalled /\ proc' = proc /\ left' = left
    OBVIOUS
  <2>3. signalled /\ proc # "exited" => stopTime <= DrainDelay + RequestTimeout
    BY DEF TypeOK, TimeAccounted
  <2>4. SUFFICES ASSUME signalled, proc # "exited"
                 PROVE  teardown' > 0 =>
                            stopTime + teardown' <= DrainDelay + HeaderSlack + RequestTimeout + CloseTimeout
    BY <2>2 DEF TimeAccounted, Reading, Active
  <2>5. CASE teardown' = teardown
    BY <2>4, <2>5 DEF TimeAccounted
  <2>6. CASE teardown' = CloseTimeout
    BY <2>3, <2>4, <2>6 DEF TypeOK
  <2> QED BY <2>1, <2>5, <2>6
<1> QED BY <1>1, <1>2, <1>3, <1>4, <1>5, <1>6

LEMMA RouteInv ==
    ASSUME LifecycleInv, NEW q \in Requests, Route(q)
    PROVE  LifecycleInv'
<1> USE Numbers DEF LifecycleInv, Route, process, router
<1>1. TypeOK'
  BY DEF TypeOK
<1>2. Phases' /\ (~signalled => stopTime = 0)'
  BY DEF TypeOK, Phases
<1>3. RouterLearns'
  BY DEF TypeOK, Phases, RouterLearns
<1>4. NothingLostYet'
  BY DEF TypeOK, Phases, NothingLostYet, CleanExitLosesNothing, ServerBusy, Reading, Active
<1>5. TimersStarted'
  BY DEF TypeOK, TimersStarted, Reading, Active
<1>6. TimeAccounted'
  BY DEF TypeOK, Phases, TimersStarted, TimeAccounted, Reading, Active
<1> QED BY <1>1, <1>2, <1>3, <1>4, <1>5, <1>6

\* The deadline starts within the header timeout of the last routed request, and
\* within the shutdown timeout, or too late to get a connection.
LEMMA ReadHeadersInv ==
    ASSUME LifecycleInv, NEW q \in Requests, ReadHeaders(q)
    PROVE  LifecycleInv'
<1> USE Numbers DEF LifecycleInv, ReadHeaders, process, router
<1>1. TypeOK'
  BY DEF TypeOK
<1>2. Phases' /\ (~signalled => stopTime = 0)'
  BY DEF TypeOK, Phases
<1>3. RouterLearns'
  BY DEF TypeOK, Phases, RouterLearns
<1>4. NothingLostYet'
  BY DEF TypeOK, Phases, NothingLostYet, CleanExitLosesNothing, ServerBusy, Reading, Active
<1>5. TimersStarted'
  BY DEF TypeOK, TimersStarted, Reading, Active
<1>6. TimeAccounted'
  BY DEF TypeOK, Phases, TimersStarted, TimeAccounted, Reading, Active
<1> QED BY <1>1, <1>2, <1>3, <1>4, <1>5, <1>6

LEMMA HeaderTimeoutInv ==
    ASSUME LifecycleInv, NEW q \in Requests, HeaderTimeout(q)
    PROVE  LifecycleInv'
<1> USE Numbers DEF LifecycleInv, HeaderTimeout, process, router
<1>1. TypeOK'
  BY DEF TypeOK
<1>2. Phases' /\ (~signalled => stopTime = 0)'
  BY DEF TypeOK, Phases
<1>3. RouterLearns'
  BY DEF TypeOK, Phases, RouterLearns
<1>4. NothingLostYet'
  BY DEF TypeOK, Phases, NothingLostYet, CleanExitLosesNothing, ServerBusy, Reading, Active
<1>5. TimersStarted'
  BY DEF TypeOK, TimersStarted, Reading, Active
<1>6. TimeAccounted'
  BY DEF TypeOK, Phases, TimersStarted, TimeAccounted, Reading, Active
<1> QED BY <1>1, <1>2, <1>3, <1>4, <1>5, <1>6

LEMMA HangupInv ==
    ASSUME LifecycleInv, NEW q \in Requests, Hangup(q)
    PROVE  LifecycleInv'
<1> USE Numbers DEF LifecycleInv, Hangup, process, router
<1>1. TypeOK'
  BY DEF TypeOK
<1>2. Phases' /\ (~signalled => stopTime = 0)'
  BY DEF TypeOK, Phases
<1>3. RouterLearns'
  BY DEF TypeOK, Phases, RouterLearns
<1>4. NothingLostYet'
  BY DEF TypeOK, Phases, NothingLostYet, CleanExitLosesNothing, ServerBusy, Reading, Active
<1>5. TimersStarted'
  BY DEF TypeOK, TimersStarted, Reading, Active
<1>6. TimeAccounted'
  BY DEF TypeOK, Phases, TimersStarted, TimeAccounted, Reading, Active
<1> QED BY <1>1, <1>2, <1>3, <1>4, <1>5, <1>6

LEMMA QueryInv ==
    ASSUME LifecycleInv, NEW q \in Requests, Query(q)
    PROVE  LifecycleInv'
<1> USE Numbers DEF LifecycleInv, Query, process, router
<1>1. TypeOK'
  BY DEF TypeOK
<1>2. Phases' /\ (~signalled => stopTime = 0)'
  BY DEF TypeOK, Phases
<1>3. RouterLearns'
  BY DEF TypeOK, Phases, RouterLearns
<1>4. NothingLostYet'
  BY DEF TypeOK, Phases, NothingLostYet, CleanExitLosesNothing, ServerBusy, Reading, Active
<1>5. TimersStarted'
  BY DEF TypeOK, TimersStarted, Reading, Active
<1>6. TimeAccounted'
  BY DEF TypeOK, Phases, TimersStarted, TimeAccounted, Reading, Active
<1> QED BY <1>1, <1>2, <1>3, <1>4, <1>5, <1>6

LEMMA FinishInv ==
    ASSUME LifecycleInv, NEW q \in Requests, Finish(q)
    PROVE  LifecycleInv'
<1> USE Numbers DEF LifecycleInv, Finish, process, router
<1>1. TypeOK'
  BY DEF TypeOK
<1>2. Phases' /\ (~signalled => stopTime = 0)'
  BY DEF TypeOK, Phases
<1>3. RouterLearns'
  BY DEF TypeOK, Phases, RouterLearns
<1>4. NothingLostYet'
  BY DEF TypeOK, Phases, NothingLostYet, CleanExitLosesNothing, ServerBusy, Reading, Active
<1>5. TimersStarted'
  BY DEF TypeOK, TimersStarted, Reading, Active
<1>6. TimeAccounted'
  BY DEF TypeOK, Phases, TimersStarted, TimeAccounted, Reading, Active
<1> QED BY <1>1, <1>2, <1>3, <1>4, <1>5, <1>6

\* An interrupted query began within its deadline.
LEMMA InterruptInv ==
    ASSUME LifecycleInv, NEW q \in Requests, Interrupt(q)
    PROVE  LifecycleInv'
<1> USE Numbers DEF LifecycleInv, Interrupt, process, router
<1>1. TypeOK'
  BY DEF TypeOK
<1>2. Phases' /\ (~signalled => stopTime = 0)'
  BY DEF TypeOK, Phases
<1>3. RouterLearns'
  BY DEF TypeOK, Phases, RouterLearns
<1>4. NothingLostYet'
  BY DEF TypeOK, Phases, NothingLostYet, CleanExitLosesNothing, ServerBusy, Reading, Active
<1>5. TimersStarted'
  BY DEF TypeOK, TimersStarted, Reading, Active
<1>6. TimeAccounted'
  BY DEF TypeOK, Phases, TimersStarted, TimeAccounted, Reading, Active
<1> QED BY <1>1, <1>2, <1>3, <1>4, <1>5, <1>6

LEMMA ClosedInv ==
    ASSUME LifecycleInv, Closed
    PROVE  LifecycleInv'
<1> USE Numbers DEF LifecycleInv, Closed, process, router
<1>1. TypeOK'
  BY DEF TypeOK
<1>2. Phases' /\ (~signalled => stopTime = 0)'
  BY DEF TypeOK, Phases
<1>3. RouterLearns'
  BY DEF TypeOK, Phases, RouterLearns
<1>4. NothingLostYet'
  BY DEF TypeOK, Phases, NothingLostYet, CleanExitLosesNothing, ServerBusy, Reading, Active
<1>5. TimersStarted'
  BY DEF TypeOK, TimersStarted, Reading, Active
<1>6. TimeAccounted'
  BY DEF TypeOK, Phases, TimersStarted, TimeAccounted, Reading, Active
<1> QED BY <1>1, <1>2, <1>3, <1>4, <1>5, <1>6

\* Time passes only while every wait has time left.
LEMMA TickInv ==
    ASSUME LifecycleInv, Tick
    PROVE  LifecycleInv'
<1> USE Numbers DEF LifecycleInv, Tick, process, router
<1>1. TypeOK'
  BY DEF TypeOK, Less, Reading, Active
<1>2. Phases' /\ (~signalled => stopTime = 0)'
  BY DEF TypeOK, Phases, Due, ProcessDue, Less
<1>3. RouterLearns'
  BY DEF TypeOK, Phases, RouterLearns, Due, ProcessDue, Less
<1>4. NothingLostYet'
  BY DEF TypeOK, Phases, NothingLostYet, CleanExitLosesNothing, ServerBusy, Reading, Active
<1>5. TimersStarted'
  BY DEF TypeOK, TimersStarted, Reading, Active, Less
<1>6. TimeAccounted'
  BY DEF TypeOK, Phases, TimersStarted, TimeAccounted, Reading, Active, Due, ProcessDue, Less,
         ServerBusy, PoolBusy, Querying
<1> QED BY <1>1, <1>2, <1>3, <1>4, <1>5, <1>6

-----------------------------------------------------------------------------
(* The theorems.                                                           *)

\* Every behaviour keeps the inductive invariant.
THEOREM LifecycleInvariant == Spec => []LifecycleInv
<1>1. LifecycleInv /\ [Next]_vars => LifecycleInv'
  <2> SUFFICES ASSUME LifecycleInv, [Next]_vars PROVE LifecycleInv'
    OBVIOUS
  <2>1. CASE UNCHANGED vars
    BY <2>1 DEF vars, LifecycleInv, TypeOK, Phases, RouterLearns, NothingLostYet,
                CleanExitLosesNothing, TimersStarted, TimeAccounted, Reading, Active
  <2>2. CASE Start
    BY <2>2, StartFailsInv, ConfiguredInv, OpenedInv DEF Start
  <2>3. CASE Signal \/ Listen \/ ListenerFails
    BY <2>3, SignalInv, ListenInv, ListenerFailsInv
  <2>4. CASE Stop
    BY <2>4, BeginDrainInv, ServeFailedInv, ShutdownInv, ShutdownDoneInv,
       ShutdownTimedOutInv, ExitInv DEF Stop
  <2>5. CASE ProbeStart \/ \E ok \in BOOLEAN : ProbeEnd(ok)
    BY <2>5, ProbeStartInv, ProbeEndInv
  <2>6. CASE \E q \in Requests :
                 \/ Route(q) \/ ReadHeaders(q) \/ HeaderTimeout(q) \/ Hangup(q)
                 \/ Query(q) \/ Finish(q) \/ Interrupt(q)
    BY <2>6, RouteInv, ReadHeadersInv, HeaderTimeoutInv, HangupInv, QueryInv, FinishInv, InterruptInv
  <2>7. CASE Closed \/ Tick
    BY <2>7, ClosedInv, TickInv
  <2> QED BY <2>1, <2>2, <2>3, <2>4, <2>5, <2>6, <2>7 DEF Next
<1> QED BY <1>1, InitInv, PTL DEF Spec

\* Type correctness: every variable stays within the values the code gives it.
THEOREM LifecycleTypes == Spec => []TypeOK
<1>1. LifecycleInv => TypeOK
  BY DEF LifecycleInv
<1> QED BY <1>1, LifecycleInvariant, PTL

\* With SHUTDOWN_DRAIN_DELAY above the router's poll interval, whatever both are,
\* no request reaches a listener that Shutdown has closed.
THEOREM DrainRefusesNothing == Spec => []NoRequestRefused
<1>1. LifecycleInv => NoRequestRefused
  BY DEF LifecycleInv, RouterLearns, NoRequestRefused
<1> QED BY <1>1, LifecycleInvariant, PTL

\* An exit without error means that every request with a handler was served.
THEOREM CleanExit == Spec => []CleanExitLosesNothing
<1>1. LifecycleInv => CleanExitLosesNothing
  BY DEF LifecycleInv, NothingLostYet
<1> QED BY <1>1, LifecycleInvariant, PTL

\* The stop time is bounded by the drain delay plus the longer of the shutdown
\* timeout and the time a request may take whose headers came in while Shutdown
\* was waiting: the header timeout (or the shutdown timeout, if that is shorter),
\* the request timeout and the closing of a broken connection.
THEOREM StopTimeBounded == Spec => []StopsWithin
<1>1. LifecycleInv => StopsWithin
  BY DEF LifecycleInv, TimeAccounted, StopsWithin
<1> QED BY <1>1, LifecycleInvariant, PTL
=============================================================================
