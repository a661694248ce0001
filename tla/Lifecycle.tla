----------------------------- MODULE Lifecycle ------------------------------
(***************************************************************************)
(* The API process from start to exit: cmd/api's run, database.Open,       *)
(* httpserver.Run with its serving goroutine, App.BeginDrain, the drain    *)
(* delay, the graceful shutdown, the deferred pool.Close; and around it    *)
(* the router that polls /health/ready and the requests it sends.          *)
(*                                                                         *)
(* Time is discrete.  Timers count down; a step that is due happens before *)
(* time passes (Due), so that bounds on time can be stated.                *)
(***************************************************************************)
EXTENDS Naturals, FiniteSets

CONSTANTS
    Requests,           \* requests the router may send
    DrainDelay,         \* SHUTDOWN_DRAIN_DELAY
    ShutdownTimeout,    \* SHUTDOWN_TIMEOUT
    ReadHeaderTimeout,  \* HTTP_READ_HEADER_TIMEOUT: bounds how late a handler starts
    RequestTimeout,     \* HTTP_REQUEST_TIMEOUT: bounds what a handler may query
    CloseTimeout,       \* how long pgx takes at most to close a broken connection
    PollInterval,       \* how often the router polls readiness
    ProbeTimeout        \* readinessCheckTimeout

ASSUME LifecycleAssumption ==
    /\ DrainDelay \in Nat
    /\ ShutdownTimeout \in Nat \ {0}
    /\ ReadHeaderTimeout \in Nat \ {0}
    /\ RequestTimeout \in Nat \ {0}
    /\ CloseTimeout \in Nat
    /\ PollInterval \in Nat \ {0}
    /\ ProbeTimeout \in 1..PollInterval

VARIABLES
    proc,       \* how far run() is
    exit,       \* the result run() has decided on
    signalled,  \* SIGINT or SIGTERM arrived: ctx.Done() is closed
    accepting,  \* App.acceptingTraffic
    listener,   \* the listening socket
    served,     \* what ListenAndServe returned: the content of errChannel
    left,       \* time left of the drain delay or of the shutdown timeout
    routing,    \* the router considers the process ready
    probe,      \* the readiness probe in progress
    probeLeft,  \* time left of its readinessCheckTimeout
    poll,       \* time until the next probe
    req,        \* the state of each request
    work,       \* time left to read each request's headers, then of its deadline
    teardown,   \* time left to close the connections that interrupted queries broke
    stopTime    \* time since the signal, until the process exits

process == <<proc, exit, signalled, accepting, listener, served, left>>
router == <<routing, probe, probeLeft, poll>>
vars == <<proc, exit, signalled, accepting, listener, served, left,
          routing, probe, probeLeft, poll, req, work, teardown, stopTime>>

\* Bound: stopTime is not counted further than this.
StopTimeCap ==
    DrainDelay + ShutdownTimeout + ReadHeaderTimeout + RequestTimeout + CloseTimeout + 1

Reading == {q \in Requests : req[q] = "reading"}
Active == {q \in Requests : req[q] \in {"active", "querying"}}
Querying == {q \in Requests : req[q] = "querying"}

\* Connections that Shutdown waits for, those whose headers are still to come
\* among them, and pool connections Close waits for.
ServerBusy == Reading # {} \/ Active # {} \/ probe = "pinging"
PoolBusy == Querying # {} \/ probe = "pinging" \/ teardown > 0

-----------------------------------------------------------------------------
(* run(): configuration, then the database.                                *)

\* config.Load fails, or database.Open fails: its ping times out, the database
\* is away, or the signal canceled its context.
StartFails ==
    /\ proc \in {"config", "open"}
    /\ proc' = "exited" /\ exit' = "error"
    /\ UNCHANGED <<signalled, accepting, listener, served, left, router, req, work, teardown, stopTime>>

Configured ==
    /\ proc = "config"
    /\ proc' = "open"
    /\ UNCHANGED <<exit, signalled, accepting, listener, served, left, router, req, work, teardown, stopTime>>

\* The pool answers, before or just as the signal arrives; app.New accepts
\* traffic and Run starts the goroutine.
Opened ==
    /\ proc = "open"
    /\ proc' = "serving"
    /\ accepting' = TRUE
    /\ UNCHANGED <<exit, signalled, listener, served, left, router, req, work, teardown, stopTime>>

\* NotifyContext is set up after config.Load: before that the signal kills.
Signal ==
    /\ ~signalled /\ proc # "exited"
    /\ signalled' = TRUE
    /\ proc' = IF proc = "config" THEN "exited" ELSE proc
    /\ exit' = IF proc = "config" THEN "error" ELSE exit
    /\ UNCHANGED <<accepting, listener, served, left, router, req, work, teardown, stopTime>>

-----------------------------------------------------------------------------
(* The serving goroutine of Run.                                           *)

\* ListenAndServe binds; after Shutdown it returns ErrServerClosed at once.
Listen ==
    /\ listener = "none" /\ proc \in {"serving", "draining", "stopping"}
    /\ IF proc = "stopping"
       THEN listener' = "closed" /\ served' = "closed"
       ELSE listener' = "open" /\ served' = served
    /\ UNCHANGED <<proc, exit, signalled, accepting, left, router, req, work, teardown, stopTime>>

\* Binding or accepting fails: the error goes into errChannel.
ListenerFails ==
    /\ listener \in {"none", "open"} /\ proc \in {"serving", "draining"}
    /\ listener' = "closed" /\ served' = "failed"
    /\ UNCHANGED <<proc, exit, signalled, accepting, left, router, req, work, teardown, stopTime>>

-----------------------------------------------------------------------------
(* Run and drain.                                                          *)

\* Mutant: BeginDrain is not called.
DrainSilently ==
    /\ proc = "serving" /\ signalled
    /\ proc' = "draining" /\ left' = DrainDelay
    /\ UNCHANGED <<exit, signalled, accepting, listener, served, router, req, work, teardown, stopTime>>

\* select: ctx.Done().  BeginDrain, then drain starts its timer.
BeginDrain ==
    /\ proc = "serving" /\ signalled
    /\ accepting' = FALSE
    /\ proc' = "draining" /\ left' = DrainDelay
    /\ UNCHANGED <<exit, signalled, listener, served, router, req, work, teardown, stopTime>>

\* select in Run or in drain: the error of ListenAndServe; run() returns it.
\* drain reads errChannel only if there is a delay to wait for.
ServeFailed ==
    /\ proc = "serving" \/ (proc = "draining" /\ DrainDelay > 0)
    /\ served = "failed"
    /\ proc' = "closing" /\ exit' = "error"
    /\ UNCHANGED <<signalled, accepting, listener, served, left, router, req, work, teardown, stopTime>>

\* Mutant: drain waits for ListenAndServe to return, without its timer.
DrainWithoutTimer ==
    /\ proc = "draining" /\ served = "closed"
    /\ proc' = "stopping" /\ left' = ShutdownTimeout
    /\ UNCHANGED <<exit, signalled, accepting, listener, served, router, req, work, teardown, stopTime>>

\* Mutant: Shutdown's context has no timeout of its own.
ShutdownUnbounded ==
    /\ proc = "draining" /\ left = 0
    /\ proc' = "stopping" /\ left' = StopTimeCap
    /\ listener' = IF listener = "none" THEN "none" ELSE "closed"
    /\ served' = IF listener = "open" THEN "closed" ELSE served
    /\ UNCHANGED <<exit, signalled, accepting, router, req, work, teardown, stopTime>>

\* The delay is over: Shutdown closes the listener and waits for requests.
Shutdown ==
    /\ proc = "draining" /\ left = 0
    /\ proc' = "stopping" /\ left' = ShutdownTimeout
    /\ listener' = IF listener = "none" THEN "none" ELSE "closed"
    /\ served' = IF listener = "open" THEN "closed" ELSE served
    /\ UNCHANGED <<exit, signalled, accepting, router, req, work, teardown, stopTime>>

\* Shutdown found every connection idle.
ShutdownDone ==
    /\ proc = "stopping" /\ ~ServerBusy
    /\ proc' = "closing" /\ exit' = "ok"
    /\ UNCHANGED <<signalled, accepting, listener, served, left, router, req, work, teardown, stopTime>>

\* Mutant: the error of Shutdown is dropped.
TimeoutIgnored ==
    /\ proc = "stopping" /\ left = 0 /\ ServerBusy
    /\ proc' = "closing" /\ exit' = "ok"
    /\ UNCHANGED <<signalled, accepting, listener, served, left, router, req, work, teardown, stopTime>>

\* Shutdown gave up: its context's deadline passed.
ShutdownTimedOut ==
    /\ proc = "stopping" /\ left = 0 /\ ServerBusy
    /\ proc' = "closing" /\ exit' = "error"
    /\ UNCHANGED <<signalled, accepting, listener, served, left, router, req, work, teardown, stopTime>>

\* The deferred pool.Close returns once every connection is back; then the
\* process exits and takes the requests that are left with it.
Exit ==
    /\ proc = "closing" /\ ~PoolBusy
    /\ proc' = "exited"
    /\ listener' = "closed"
    /\ req' = [q \in Requests |-> IF q \in Reading THEN "dropped"
                                  ELSE IF req[q] = "active" THEN "killed" ELSE req[q]]
    /\ UNCHANGED <<exit, signalled, accepting, served, left, router, work, teardown, stopTime>>

-----------------------------------------------------------------------------
(* The router.                                                             *)

\* A probe ends within readinessCheckTimeout and, like any request, within
\* HTTP_REQUEST_TIMEOUT.
ProbeTime == IF ProbeTimeout < RequestTimeout THEN ProbeTimeout ELSE RequestTimeout

\* GET /health/ready.  checkAcceptingTraffic is the first check, so a draining
\* process answers 503 without waiting for the database.
ProbeStart ==
    /\ probe = "none" /\ poll = 0
    /\ poll' = PollInterval
    /\ IF listener = "open" /\ accepting
       THEN probe' = "pinging" /\ probeLeft' = ProbeTime /\ routing' = routing
       ELSE routing' = FALSE /\ UNCHANGED <<probe, probeLeft>>
    /\ UNCHANGED <<process, req, work, teardown, stopTime>>

\* pool.Ping returns: 200, or 503 when the database or the pool does not answer;
\* a ping that was interrupted leaves a connection to close.
ProbeEnd(ok) ==
    /\ probe = "pinging"
    /\ probe' = "none"
    /\ routing' = ok
    /\ teardown' \in IF ok THEN {teardown} ELSE {teardown, CloseTimeout}
    /\ UNCHANGED <<process, probeLeft, poll, req, work, stopTime>>

\* The router sends a request; nobody accepts it if the listener is gone.
Route(q) ==
    /\ req[q] = "idle" /\ routing
    /\ req' = [req EXCEPT ![q] = IF listener = "open" THEN "reading" ELSE "refused"]
    /\ work' = [work EXCEPT ![q] = ReadHeaderTimeout]
    /\ UNCHANGED <<process, router, teardown, stopTime>>

-----------------------------------------------------------------------------
(* Requests in flight.                                                     *)

\* The headers are complete, before or after Shutdown has begun or given up: the
\* handler is called, and requestTimeout starts its deadline only now.
ReadHeaders(q) ==
    /\ req[q] = "reading"
    /\ req' = [req EXCEPT ![q] = "active"]
    /\ work' = [work EXCEPT ![q] = RequestTimeout]
    /\ UNCHANGED <<process, router, teardown, stopTime>>

\* The headers did not come in time: the connection is closed, no handler ran.
HeaderTimeout(q) ==
    /\ req[q] = "reading" /\ work[q] = 0
    /\ req' = [req EXCEPT ![q] = "dropped"]
    /\ UNCHANGED <<process, router, work, teardown, stopTime>>

\* Shutdown closes a connection whose headers are not there: a kept-alive one at
\* once, a new one when it is five seconds old.
Hangup(q) ==
    /\ req[q] = "reading" /\ proc = "stopping"
    /\ req' = [req EXCEPT ![q] = "dropped"]
    /\ UNCHANGED <<process, router, work, teardown, stopTime>>

\* The handler takes a connection while its context lives; a closed pool
\* refuses it.
Query(q) ==
    /\ req[q] = "active" /\ proc # "exited" /\ work[q] > 0
    /\ req' = [req EXCEPT ![q] = IF proc = "closing" THEN "failed" ELSE "querying"]
    /\ UNCHANGED <<process, router, work, teardown, stopTime>>

\* The handler answers and returns.  A slow body may keep it past its deadline.
Finish(q) ==
    /\ req[q] \in {"active", "querying"} /\ proc # "exited"
    /\ req' = [req EXCEPT ![q] = "done"]
    /\ UNCHANGED <<process, router, work, teardown, stopTime>>

\* The deadline, or the client, interrupts the query: the handler returns, and
\* pgx closes the broken connection in the background.
Interrupt(q) ==
    /\ req[q] = "querying" /\ proc # "exited"
    /\ req' = [req EXCEPT ![q] = "done"]
    /\ teardown' = CloseTimeout
    /\ UNCHANGED <<process, router, work, stopTime>>

\* The broken connections are closed sooner than CloseTimeout.
Closed ==
    /\ teardown > 0
    /\ teardown' = 0
    /\ UNCHANGED <<process, router, req, work, stopTime>>

-----------------------------------------------------------------------------
(* Time.                                                                   *)

\* Steps of the process that do not wait for time to pass.
ProcessDue ==
    \/ proc \in {"config", "open"} /\ signalled
    \/ proc = "serving" /\ (signalled \/ served = "failed")
    \/ proc = "draining" /\ (left = 0 \/ served = "failed")
    \/ proc = "stopping" /\ (left = 0 \/ ~ServerBusy)
    \/ proc = "closing" /\ ~PoolBusy

Due ==
    \/ ProcessDue
    \/ probe = "none" /\ poll = 0
    \/ probe = "pinging" /\ probeLeft = 0
    \/ \E q \in Reading \cup Querying : work[q] = 0

Less(t) == IF t > 0 THEN t - 1 ELSE 0

Tick ==
    /\ ~Due
    /\ left' = IF proc \in {"draining", "stopping"} THEN Less(left) ELSE left
    /\ poll' = Less(poll)
    /\ probeLeft' = IF probe = "pinging" THEN Less(probeLeft) ELSE probeLeft
    /\ work' = [q \in Requests |-> IF q \in Reading \cup Active THEN Less(work[q]) ELSE work[q]]
    /\ teardown' = Less(teardown)
    /\ stopTime' = IF signalled /\ proc # "exited" /\ stopTime < StopTimeCap
                   THEN stopTime + 1 ELSE stopTime
    /\ UNCHANGED <<proc, exit, signalled, accepting, listener, served, routing, probe, req>>

-----------------------------------------------------------------------------
Init ==
    /\ proc = "config" /\ exit = "none"
    /\ signalled = FALSE /\ accepting = FALSE
    /\ listener = "none" /\ served = "none"
    /\ left = 0
    /\ routing = FALSE /\ probe = "none" /\ probeLeft = 0
    /\ poll \in 0..PollInterval
    /\ req = [q \in Requests |-> "idle"]
    /\ work = [q \in Requests |-> 0]
    /\ teardown = 0
    /\ stopTime = 0

\* The process's own steps once it has been told to stop.
Stop == BeginDrain \/ ServeFailed \/ Shutdown \/ ShutdownDone \/ ShutdownTimedOut \/ Exit

Start == StartFails \/ Configured \/ Opened

Next ==
    \/ Start \/ Signal \/ Listen \/ ListenerFails \/ Stop
    \/ ProbeStart \/ \E ok \in BOOLEAN : ProbeEnd(ok)
    \/ \E q \in Requests :
           \/ Route(q) \/ ReadHeaders(q) \/ HeaderTimeout(q) \/ Hangup(q)
           \/ Query(q) \/ Finish(q) \/ Interrupt(q)
    \/ Closed \/ Tick

Spec == Init /\ [][Next]_vars

\* Time passes, the process takes its steps, probes end within their timeout,
\* queries within their deadline and the wait for headers within its own.  A
\* handler that holds no connection may never end, and no signal, failure or
\* traffic is assumed.
Fairness ==
    /\ WF_vars(Tick) /\ WF_vars(Start) /\ WF_vars(Stop)
    /\ WF_vars(ProbeStart) /\ WF_vars(\E ok \in BOOLEAN : ProbeEnd(ok))
    /\ \A q \in Requests : WF_vars(HeaderTimeout(q)) /\ WF_vars(Interrupt(q) /\ work[q] = 0)

FairSpec == Spec /\ Fairness

-----------------------------------------------------------------------------
(* Properties.                                                             *)

TypeOK ==
    /\ proc \in {"config", "open", "serving", "draining", "stopping", "closing", "exited"}
    /\ exit \in {"none", "ok", "error"}
    /\ signalled \in BOOLEAN /\ accepting \in BOOLEAN /\ routing \in BOOLEAN
    /\ listener \in {"none", "open", "closed"}
    /\ served \in {"none", "failed", "closed"}
    /\ left \in Nat
    /\ probe \in {"none", "pinging"}
    /\ probeLeft \in 0..ProbeTime
    /\ poll \in 0..PollInterval
    /\ req \in [Requests -> {"idle", "reading", "active", "querying", "done",
                            "dropped", "failed", "refused", "killed"}]
    /\ work \in [Requests -> Nat]
    /\ teardown \in 0..CloseTimeout
    /\ stopTime \in Nat

\* README, Shutdown: with the delay above the router's poll interval no request
\* is routed to a listener that Shutdown has closed, however the last probe that
\* passed, the signal and the timers fall.
NoRequestRefused ==
    DrainDelay > PollInterval /\ served # "failed" => \A q \in Requests : req[q] # "refused"

\* run() returns nil only when it was told to stop and no request whose handler
\* was called was killed by the exit or failed by the closed pool.  A connection
\* that was closed before its headers were there ("dropped") never had a handler.
CleanExitLosesNothing ==
    exit = "ok" => signalled /\ \A q \in Requests : req[q] \in {"idle", "done", "refused", "dropped"}

\* How long after the drain delay a handler may start that still gets a
\* connection: its headers came in time, and before Shutdown gave up.
HeaderSlack == IF ReadHeaderTimeout < ShutdownTimeout THEN ReadHeaderTimeout ELSE ShutdownTimeout

Slack ==
    IF ShutdownTimeout > HeaderSlack + RequestTimeout + CloseTimeout
    THEN ShutdownTimeout ELSE HeaderSlack + RequestTimeout + CloseTimeout

\* The process has exited by the end of the drain delay plus the longer of the
\* shutdown timeout and what the last request it accepted may still take: to send
\* its headers while Shutdown waits, to query until its deadline, to have its
\* broken connection closed.  pool.Close waits for connections after Shutdown has
\* given up, but never for a handler that holds none.
StopsWithin ==
    signalled /\ proc # "exited" => stopTime <= DrainDelay + Slack

\* ShutdownOptions.Timeout: "It is spent after DrainDelay, so the two together
\* bound total stop time."
StopTimeAsDocumented ==
    signalled /\ proc # "exited" /\ served # "failed" => stopTime <= DrainDelay + ShutdownTimeout

\* Once signalled the process exits.
Stops == signalled ~> (proc = "exited")

-----------------------------------------------------------------------------
(* The inductive invariant behind the proofs.                              *)

\* Phases of run() and of the listener.
Phases ==
    /\ exit # "none" <=> proc \in {"closing", "exited"}
    /\ proc \in {"draining", "stopping"} => signalled
    /\ proc \in {"config", "open"} => listener = "none" /\ ~accepting
    /\ proc \in {"stopping", "closing", "exited"} => listener # "open"
    /\ served = "failed" => listener = "closed"
    /\ listener = "none" => ~routing /\ probe = "none" /\ served = "none"
    /\ proc # "serving" /\ served # "failed" => ~accepting
    /\ listener = "closed" /\ proc \in {"serving", "draining"} => served = "failed"
    /\ probe = "pinging" => probeLeft <= poll

\* While draining, the router learns of it before the delay is over.
RouterLearns ==
    DrainDelay > PollInterval /\ served # "failed" =>
        /\ proc = "draining" => (~routing /\ probe = "none") \/ poll < left
        /\ proc \in {"stopping", "closing", "exited"} => ~routing /\ probe = "none"
        /\ \A q \in Requests : req[q] # "refused"

\* No accepted request is lost before run() has given up.
NothingLostYet ==
    /\ exit = "none" => \A q \in Requests : req[q] \notin {"failed", "killed"}
    /\ CleanExitLosesNothing

\* The wait for headers and the deadline as they were started.
TimersStarted ==
    /\ \A q \in Reading : work[q] <= ReadHeaderTimeout
    /\ \A q \in Active : work[q] <= RequestTimeout

\* How much of the stop time each wait may still use.  A handler that starts in
\* "closing" has all of its deadline, but the closed pool gives it no connection.
TimeAccounted ==
    signalled /\ proc # "exited" =>
        /\ proc \in {"config", "open", "serving"} => stopTime = 0
        /\ proc = "draining" => stopTime + left <= DrainDelay
        /\ proc = "stopping" => stopTime + left <= DrainDelay + ShutdownTimeout
        /\ \A q \in Reading : stopTime + work[q] <= DrainDelay + ReadHeaderTimeout
        /\ \A q \in Active :
               req[q] = "querying" \/ (work[q] > 0 /\ proc # "closing") =>
                   stopTime + work[q] <= DrainDelay + HeaderSlack + RequestTimeout
        /\ probe = "pinging" => stopTime + probeLeft <= DrainDelay + RequestTimeout
        /\ teardown > 0 =>
               stopTime + teardown <= DrainDelay + HeaderSlack + RequestTimeout + CloseTimeout
        /\ stopTime <= DrainDelay + Slack

LifecycleInv ==
    /\ TypeOK
    /\ ~signalled => stopTime = 0
    /\ Phases
    /\ RouterLearns
    /\ NothingLostYet
    /\ TimersStarted
    /\ TimeAccounted
=============================================================================
