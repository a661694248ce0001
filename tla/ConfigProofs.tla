---------------------------- MODULE ConfigProofs ----------------------------
(***************************************************************************)
(* Proofs about Config for every environment, and whatever number of       *)
(* duration units makes a millisecond.                                     *)
(***************************************************************************)
EXTENDS Config, TLAPS

\* Whole milliseconds, as time.Duration.Milliseconds counts them.
LEMMA WholeMilliseconds ==
    ASSUME NEW d \in Int, d >= Millisecond
    PROVE  /\ d \div Millisecond \in Int /\ d \div Millisecond > 0
           /\ (d \div Millisecond) * Millisecond <= d
BY ConfigAssumption

\* Numbers stay numbers: what does not parse is replaced.
LEMMA LoadedNumbers ==
    ASSUME env \in Environments, NEW k \in Numbers
    PROVE  k \in Keys /\ Loaded[k] \in Int
<1>1. Second \in Int
  BY ConfigAssumption DEF Second
<1>2. k \in Keys /\ k \in Parsed
  BY SMT DEF Numbers, Positive, NotNegative, Parsed, Keys, Fallback, Texts, Lists
<1>3. Fallback[k] \in Int
  <2>1. /\ Fallback["HTTP_READ_HEADER_TIMEOUT"] \in Int /\ Fallback["HTTP_READ_TIMEOUT"] \in Int
        /\ Fallback["HTTP_WRITE_TIMEOUT"] \in Int /\ Fallback["HTTP_IDLE_TIMEOUT"] \in Int
        /\ Fallback["HTTP_REQUEST_TIMEOUT"] \in Int /\ Fallback["HTTP_MAX_REQUEST_BYTES"] \in Int
        /\ Fallback["HTTP_TRUSTED_PROXY_COUNT"] \in Int
    BY <1>1, SMT DEF Fallback
  <2>2. /\ Fallback["DB_MAX_CONNS"] \in Int /\ Fallback["DB_MIN_CONNS"] \in Int
        /\ Fallback["DB_MAX_CONN_LIFETIME"] \in Int /\ Fallback["DB_MAX_CONN_IDLE_TIME"] \in Int
        /\ Fallback["DB_STATEMENT_TIMEOUT"] \in Int
        /\ Fallback["SHUTDOWN_DRAIN_DELAY"] \in Int /\ Fallback["SHUTDOWN_TIMEOUT"] \in Int
    BY <1>1, SMT DEF Fallback
  <2> QED BY <2>1, <2>2, Zenon DEF Numbers, Positive, NotNegative
<1>4. Loaded[k] = Read(k)
  BY <1>2 DEF Loaded
<1>5. Read(k) \in Int
  <2>1. CASE k \notin DOMAIN env \/ ~Parses(k)
    BY <1>2, <1>3, <2>1 DEF Read
  <2>2. CASE k \in DOMAIN env /\ Parses(k)
    <3>1. env[k] \in Int
      BY <2>2, EnvironmentsAssumption DEF Parses
    <3>2. k \notin Lists
      BY <1>2 DEF Parsed
    <3> QED BY <1>2, <2>2, <3>1, <3>2 DEF Read
  <2> QED BY <2>1, <2>2
<1> QED BY <1>2, <1>4, <1>5

\* What an empty report means.
LEMMA NoProblems ==
    ASSUME Problems(Loaded) = {}
    PROVE  Unparsable = {} /\ Invalid(Loaded) = {} /\ Relations(Loaded) = {}
<1>1. Unparsable = {}
  BY DEF Problems
<1>2. validate(Loaded) = {}
  BY <1>1 DEF Problems
<1> QED BY <1>1, <1>2 DEF validate

\* A configuration without problems is within every bound.
LEMMA AcceptedBounds ==
    ASSUME env \in Environments, Invalid(Loaded) = {}, Relations(Loaded) = {}
    PROVE  /\ \A k \in Positive : Loaded[k] \in Int /\ Loaded[k] > 0
           /\ \A k \in NotNegative : Loaded[k] \in Int /\ Loaded[k] >= 0
           /\ Loaded["DB_STATEMENT_TIMEOUT"] \in Int
           /\ Loaded["DB_STATEMENT_TIMEOUT"] >= Millisecond
           /\ InvalidClientIP(Loaded) = {}
           /\ ~DeadlineTooLong(Loaded) /\ ~StatementTooLong(Loaded)
           /\ ~(Loaded["DB_MIN_CONNS"] > Loaded["DB_MAX_CONNS"])
           /\ ~WildcardCredentials(Loaded)
<1>1. \A k \in Positive \cup NotNegative \cup {"DB_STATEMENT_TIMEOUT"} : Loaded[k] \in Int
  BY LoadedNumbers DEF Numbers
<1>2. /\ \A k \in Positive : ~(Loaded[k] <= 0)
      /\ \A k \in NotNegative : ~(Loaded[k] < 0)
      /\ ~(Loaded["DB_STATEMENT_TIMEOUT"] < Millisecond)
      /\ InvalidClientIP(Loaded) = {}
  BY DEF Invalid
<1>3. /\ ~DeadlineTooLong(Loaded) /\ ~StatementTooLong(Loaded)
      /\ ~(Loaded["DB_MIN_CONNS"] > Loaded["DB_MAX_CONNS"])
      /\ ~WildcardCredentials(Loaded)
  BY DEF Relations
<1>4. Millisecond \in Int
  BY ConfigAssumption
<1>5. \A n \in Int : (~(n <= 0) => n > 0) /\ (~(n < 0) => n >= 0) /\ (~(n < Millisecond) => n >= Millisecond)
  BY <1>4
<1> QED BY <1>1, <1>2, <1>3, <1>5

\* The constructors' conditions follow from validate's.
LEMMA NothingPanics ==
    ASSUME env \in Environments, cfg = Loaded, Invalid(Loaded) = {}, Relations(Loaded) = {}
    PROVE  ~NewJSONDecoderPanics /\ ~clientIPMiddlewarePanics /\ ~CORSPanics
<1>1. ~NewJSONDecoderPanics
  <2>1. Loaded["HTTP_MAX_REQUEST_BYTES"] \in Int /\ Loaded["HTTP_MAX_REQUEST_BYTES"] > 0
    BY AcceptedBounds DEF Positive
  <2> QED BY <2>1 DEF NewJSONDecoderPanics
<1>2. ~clientIPMiddlewarePanics
  <2>1. InvalidClientIP(cfg) = {}
    BY AcceptedBounds
  <2> QED BY <2>1 DEF InvalidClientIP, clientIPMiddlewarePanics
<1>3. ~CORSPanics
  BY AcceptedBounds DEF WildcardCredentials, CORSPanics
<1> QED BY <1>1, <1>2, <1>3

LEMMA InitInv == Init => ConfigInv
BY DEF Init, ConfigInv, Accepted

LEMMA NextInv == ConfigInv /\ [Next]_vars => ConfigInv'
<1> SUFFICES ASSUME ConfigInv, [Next]_vars PROVE ConfigInv'
  OBVIOUS
<1>1. ASSUME env' = env PROVE Loaded' = Loaded /\ Problems(Loaded)' = Problems(Loaded)
  <2>1. Loaded' = Loaded
    <3>1. \A k : Read(k)' = Read(k)
      BY <1>1, Zenon DEF Read, Parses
    <3> QED BY <3>1, Zenon DEF Loaded
  <2>2. Unparsable' = Unparsable
    BY <1>1, Zenon DEF Unparsable, Parses
  <2>3. validate(Loaded)' = validate(Loaded)
    BY <2>1, Zenon DEF validate, Invalid, InvalidClientIP, Relations, DeadlineTooLong,
         StatementTooLong, WildcardCredentials, Holds, Positive, NotNegative
  <2> QED BY <2>1, <2>2, <2>3, Zenon DEF Problems
<1>2. CASE Load
  BY <1>1, <1>2 DEF Load, ConfigInv, Accepted
<1>3. CASE Open
  BY <1>1, <1>3 DEF Open, Settings, ConfigInv, Accepted
<1>4. CASE OpenFails
  BY <1>1, <1>4 DEF OpenFails, ConfigInv, Accepted
<1>5. CASE Build
  <2>1. cfg = Loaded /\ Problems(Loaded) = {} /\ env \in Environments
    BY <1>5 DEF Build, ConfigInv, Accepted
  <2>2. ~NewJSONDecoderPanics /\ ~clientIPMiddlewarePanics /\ ~CORSPanics
    BY <2>1, NoProblems, NothingPanics
  <2>3. stage' = "serving" /\ chain' = Chain /\ UNCHANGED <<env, cfg, report, pool>> /\ stage = "opened"
    BY <1>5, <2>2 DEF Build
  <2>4. Chain' = Chain /\ Settings' = Settings
    BY <2>3 DEF Chain, Settings
  <2> QED BY <1>1, <2>1, <2>3, <2>4 DEF ConfigInv, Accepted
<1>6. CASE UNCHANGED vars
  <2>1. Chain' = Chain /\ Settings' = Settings
    BY <1>6 DEF vars, Chain, Settings
  <2> QED BY <1>1, <1>6, <2>1 DEF vars, ConfigInv, Accepted
<1>7. CASE Ended
  BY <1>6, <1>7 DEF Ended
<1> QED BY <1>2, <1>3, <1>4, <1>5, <1>6, <1>7 DEF Next

\* What is known at each stage of the process's start.
THEOREM ConfigInvariant == Spec => []ConfigInv
<1> QED BY InitInv, NextInv, PTL DEF Spec

\* The two 32-bit settings fit, whatever was written and whatever the parser
\* made of it.
LEMMA PoolSizesFit ==
    ASSUME env \in Environments, NEW k \in Int32s
    PROVE  k \in Keys /\ Fits32(Fallback[k]) /\ Fits32(Loaded[k])
<1>1. k \in Keys /\ k \in Parsed /\ k \notin Lists
  BY SMT DEF Int32s, Parsed, Keys, Fallback, Texts, Lists
<1>2. Fits32(Fallback[k])
  <2>1. Fallback["DB_MAX_CONNS"] = 10 /\ Fallback["DB_MIN_CONNS"] = 2
    BY SMT DEF Fallback
  <2> QED BY <2>1, ConfigAssumption DEF Int32s, Fits32
<1>3. Loaded[k] = Read(k)
  BY <1>1 DEF Loaded
<1>4. Fits32(Read(k))
  <2>1. CASE k \notin DOMAIN env \/ ~Parses(k)
    BY <1>1, <1>2, <2>1, Zenon DEF Read
  <2>2. CASE k \in DOMAIN env /\ Parses(k)
    <3>1. Read(k) = env[k]
      BY <1>1, <2>2, Zenon DEF Read
    <3>2. Fits32(env[k])
      BY <2>2, Zenon DEF Parses
    <3> QED BY <3>1, <3>2, Zenon
  <2> QED BY <2>1, <2>2
<1> QED BY <1>1, <1>2, <1>3, <1>4, Zenon

LEMMA InitTypes == Init => TypeOK
<1> SUFFICES ASSUME Init PROVE TypeOK
  OBVIOUS
<1>1. stage = "start" /\ cfg = Fallback /\ pool = NoPool /\ chain = <<>> /\ env \in Environments
  BY DEF Init
<1>2. \A k \in Int32s : Fits32(cfg[k])
  BY <1>1, PoolSizesFit, Zenon
<1>3. pool \in [maxConns : Int, minConns : Int, statement_timeout : Int]
  BY <1>1 DEF NoPool
<1>4. DOMAIN cfg = Keys
  BY <1>1, Zenon DEF Keys
<1>5. chain \in Seq(Middleware)
  BY <1>1
<1> QED BY <1>1, <1>2, <1>3, <1>4, <1>5, Zenon DEF TypeOK

LEMMA NextTypes == ConfigInv /\ TypeOK /\ [Next]_vars => TypeOK'
<1> SUFFICES ASSUME ConfigInv, TypeOK, [Next]_vars PROVE TypeOK'
  OBVIOUS
<1> DEFINE Stages == {"start", "loaded", "refused", "opened", "failed", "serving", "panicked"}
           Pools == [maxConns : Int, minConns : Int, statement_timeout : Int]
<1>1. /\ stage \in Stages /\ DOMAIN cfg = Keys /\ (\A k \in Int32s : Fits32(cfg[k]))
      /\ pool \in Pools /\ chain \in Seq(Middleware)
  BY Zenon DEF TypeOK
<1>2. env \in Environments
  BY Zenon DEF ConfigInv
\* What each step hands on is well typed if what it sets is.
<1>3. ASSUME stage' \in Stages, UNCHANGED cfg \/ cfg' = Loaded, UNCHANGED pool \/ pool' \in Pools,
             UNCHANGED chain \/ chain' \in Seq(Middleware)
      PROVE  TypeOK'
  <2>1. DOMAIN cfg' = Keys /\ \A k \in Int32s : Fits32(cfg'[k])
    <3>1. CASE UNCHANGED cfg
      BY <1>1, <3>1, Zenon
    <3>2. CASE cfg' = Loaded
      <4>1. DOMAIN Loaded = Keys
        BY Zenon DEF Loaded
      <4>2. \A k \in Int32s : Fits32(Loaded[k])
        BY <1>2, PoolSizesFit, Zenon
      <4> QED BY <3>2, <4>1, <4>2, Zenon
    <3> QED BY <1>3, <3>1, <3>2
  <2>2. pool' \in Pools /\ chain' \in Seq(Middleware)
    BY <1>1, <1>3, Zenon
  <2> QED BY <1>3, <2>1, <2>2, Zenon DEF TypeOK
<1>4. CASE Load
  <2>1. stage' \in Stages /\ (UNCHANGED cfg \/ cfg' = Loaded) /\ UNCHANGED <<pool, chain>>
    BY <1>4 DEF Load
  <2> QED BY <1>3, <2>1
<1>5. CASE Open
  <2>1. stage = "loaded" /\ stage' = "opened" /\ pool' = Settings /\ UNCHANGED <<cfg, chain>>
    BY <1>5 DEF Open
  <2>2. cfg = Loaded /\ Problems(Loaded) = {}
    BY <2>1 DEF ConfigInv, Accepted
  <2>3. /\ cfg["DB_MAX_CONNS"] \in Int /\ cfg["DB_MIN_CONNS"] \in Int
        /\ cfg["DB_STATEMENT_TIMEOUT"] \in Int /\ cfg["DB_STATEMENT_TIMEOUT"] >= Millisecond
    BY <1>2, <2>2, NoProblems, AcceptedBounds DEF Positive, NotNegative
  <2>4. cfg["DB_STATEMENT_TIMEOUT"] \div Millisecond \in Int
    BY <2>3, WholeMilliseconds
  <2>5. pool' \in Pools
    BY <2>1, <2>3, <2>4 DEF Settings
  <2> QED BY <1>3, <2>1, <2>5
<1>6. CASE OpenFails
  BY <1>3, <1>6 DEF OpenFails
<1>7. CASE Build
  <2>1. stage' \in Stages /\ UNCHANGED <<cfg, pool>> /\ (UNCHANGED chain \/ chain' = Chain)
    BY <1>7 DEF Build
  <2>2. Chain \in Seq(Middleware)
    <3>1. \A s, t : s \in Seq(Middleware) /\ t \in Seq(Middleware) => s \o t \in Seq(Middleware)
      OBVIOUS
    <3>2. <<"requestID", "clientIP", "securityHeaders", "logRequest", "recoverPanic">> \in Seq(Middleware)
      BY DEF Middleware
    <3>3. /\ (IF cfg.HTTP_REQUEST_TIMEOUT > 0 THEN <<"requestTimeout">> ELSE <<>>) \in Seq(Middleware)
          /\ (IF cfg.HTTP_CORS_ALLOWED_ORIGINS # <<>> THEN <<"cors">> ELSE <<>>) \in Seq(Middleware)
      <4>1. /\ <<"requestTimeout">> \in Seq(Middleware) /\ <<"cors">> \in Seq(Middleware)
            /\ <<>> \in Seq(Middleware)
        BY DEF Middleware
      <4> QED BY <4>1, Zenon
    <3> QED BY <3>1, <3>2, <3>3, Zenon DEF Chain
  <2> QED BY <1>3, <2>1, <2>2
<1>8. CASE UNCHANGED vars
  BY <1>1, <1>3, <1>8 DEF vars
<1> QED BY <1>4, <1>5, <1>6, <1>7, <1>8 DEF Next, Ended

\* The configuration has a value for every variable, and the pool's sizes are
\* 32-bit integers: envReader.Int32 never hands out one that was cut.
THEOREM ConfigTypes == Spec => []TypeOK
<1> QED BY InitTypes, NextTypes, ConfigInvariant, PTL DEF Spec

\* No environment whatsoever makes the process panic while it is assembled.
THEOREM StartNeverPanics == Spec => []AcceptedNeverPanics
<1>1. ConfigInv => AcceptedNeverPanics
  BY DEF ConfigInv, AcceptedNeverPanics
<1> QED BY <1>1, ConfigInvariant, PTL

\* In every environment a serving process has all its limits in force, so that
\* the assumptions of Requests, Deadlines and Lifecycle about the timers and
\* the pool are met.
THEOREM LimitsInForce == Spec => []NothingUnbounded
<1>1. ConfigInv => NothingUnbounded
  <2> SUFFICES ASSUME ConfigInv, stage = "serving" PROVE NothingUnbounded
    BY DEF NothingUnbounded
  <2>1. cfg = Loaded /\ pool = Settings /\ chain = Chain /\ Problems(Loaded) = {} /\ env \in Environments
    BY DEF ConfigInv, Accepted
  <2> DEFINE req == Loaded["HTTP_REQUEST_TIMEOUT"]
             write == Loaded["HTTP_WRITE_TIMEOUT"]
             stmt == Loaded["DB_STATEMENT_TIMEOUT"]
  <2>2. /\ \A k \in Positive : Loaded[k] \in Int /\ Loaded[k] > 0
        /\ \A k \in NotNegative : Loaded[k] \in Int /\ Loaded[k] >= 0
        /\ stmt \in Int /\ stmt >= Millisecond
        /\ ~DeadlineTooLong(Loaded) /\ ~StatementTooLong(Loaded)
        /\ ~(Loaded["DB_MIN_CONNS"] > Loaded["DB_MAX_CONNS"])
    BY <2>1, NoProblems, AcceptedBounds
  <2>3. req \in Int /\ req > 0 /\ write \in Int /\ write > 0
    BY <2>2 DEF Positive
  <2>4. req < write /\ stmt <= req
    BY <2>2, <2>3 DEF DeadlineTooLong, StatementTooLong
  <2>5. stmt \div Millisecond \in Int /\ stmt \div Millisecond > 0 /\ (stmt \div Millisecond) * Millisecond <= stmt
    BY <2>2, WholeMilliseconds
  <2>6. (stmt \div Millisecond) * Millisecond \in Int
    BY <2>5, ConfigAssumption
  <2>7. Holds(chain, "requestTimeout")
    <3>1. Chain = <<"requestID", "clientIP", "securityHeaders", "logRequest", "recoverPanic">>
                      \o <<"requestTimeout">>
                      \o (IF cfg.HTTP_CORS_ALLOWED_ORIGINS # <<>> THEN <<"cors">> ELSE <<>>)
      BY <2>1, <2>3 DEF Chain
    <3>2. Chain[6] = "requestTimeout" /\ 6 \in 1..Len(Chain)
      BY <3>1
    <3> QED BY <2>1, <3>2 DEF Holds
  <2>8. /\ pool.statement_timeout = stmt \div Millisecond
        /\ pool.maxConns = Loaded["DB_MAX_CONNS"] /\ pool.minConns = Loaded["DB_MIN_CONNS"]
    BY <2>1 DEF Settings
  <2>9. /\ pool.statement_timeout > 0
        /\ pool.statement_timeout * Millisecond <= cfg.HTTP_REQUEST_TIMEOUT
    BY <2>1, <2>2, <2>3, <2>4, <2>5, <2>6, <2>8
  <2>10. /\ cfg.HTTP_READ_HEADER_TIMEOUT > 0 /\ cfg.HTTP_READ_TIMEOUT > 0
         /\ cfg.HTTP_WRITE_TIMEOUT > cfg.HTTP_REQUEST_TIMEOUT /\ cfg.HTTP_IDLE_TIMEOUT > 0
         /\ cfg.SHUTDOWN_TIMEOUT > 0 /\ cfg.SHUTDOWN_DRAIN_DELAY >= 0
    BY <2>1, <2>2, <2>3, <2>4 DEF Positive, NotNegative
  <2>11. 1 <= pool.maxConns /\ 0 <= pool.minConns /\ pool.minConns <= pool.maxConns
    BY <2>2, <2>8 DEF Positive, NotNegative
  <2> QED BY <2>7, <2>9, <2>10, <2>11 DEF NothingUnbounded
<1> QED BY <1>1, ConfigInvariant, PTL

\* In every environment the process runs with the numbers, texts and switches
\* that were written.
THEOREM RunsWithWhatWasWritten == Spec => []RunsAsWritten
<1>1. ConfigInv => RunsAsWritten
  <2> SUFFICES ASSUME ConfigInv, Accepted, NEW k \in DOMAIN env \ Lists, k \in Keys
               PROVE  cfg[k] = env[k]
    BY DEF RunsAsWritten
  <2>1. cfg[k] = Read(k) /\ Unparsable = {}
    BY NoProblems DEF ConfigInv, Loaded
  <2>2. ~(k \in Parsed /\ ~Parses(k))
    BY <2>1 DEF Unparsable
  <2> QED BY <2>1, <2>2 DEF Read
<1> QED BY <1>1, ConfigInvariant, PTL

\* In every environment a report names the cause: unparsable values alone, or
\* else no timeout relation of a value that is refused on its own.
THEOREM ReportsBlameTheCause == Spec => []BlamesTheCause
<1>1. ConfigInv => BlamesTheCause
  <2> SUFFICES ASSUME ConfigInv, stage = "refused" PROVE BlamesTheCause
    BY DEF BlamesTheCause
  <2>1. report = Problems(Loaded) /\ report # {} /\ env \in Environments
    BY DEF ConfigInv
  <2>2. CASE Unparsable # {}
    BY <2>1, <2>2 DEF BlamesTheCause, Problems, Unparsable
  <2>3. CASE Unparsable = {}
    <3>1. report = validate(Loaded)
      BY <2>1, <2>3 DEF Problems
    <3>2. ASSUME NEW p \in report, "HTTP_REQUEST_TIMEOUT" \in p, NEW k \in p, p # {k}
          PROVE  {k} \notin report
      <4>1. p \in Relations(Loaded)
        BY <3>1, <3>2 DEF validate
      <4>2. \/ p = {"HTTP_REQUEST_TIMEOUT", "HTTP_WRITE_TIMEOUT"} /\ DeadlineTooLong(Loaded)
            \/ p = {"DB_STATEMENT_TIMEOUT", "HTTP_REQUEST_TIMEOUT"} /\ StatementTooLong(Loaded)
        BY <3>2, <4>1 DEF Relations
      <4>3. k \in {"HTTP_REQUEST_TIMEOUT", "HTTP_WRITE_TIMEOUT", "DB_STATEMENT_TIMEOUT"}
        BY <4>2
      <4>4. k \notin InvalidClientIP(Loaded)
        BY <4>3 DEF InvalidClientIP
      <4>5. Loaded["HTTP_REQUEST_TIMEOUT"] \in Int /\ Loaded["HTTP_WRITE_TIMEOUT"] \in Int
            /\ Loaded["DB_STATEMENT_TIMEOUT"] \in Int /\ Millisecond \in Int
        BY <2>1, LoadedNumbers, ConfigAssumption DEF Numbers, Positive
      <4>6. k \notin Invalid(Loaded)
        <5>1. k \notin NotNegative /\ k \notin {"HTTP_ADDR", "DATABASE_URL"}
          BY <4>3 DEF NotNegative
        <5>2. Loaded[k] \in Int /\ ~(Loaded[k] <= 0)
          BY <4>2, <4>3, <4>5, <3>2, ConfigAssumption DEF DeadlineTooLong, StatementTooLong
        <5>3. k = "DB_STATEMENT_TIMEOUT" => ~(Loaded[k] < Millisecond)
          BY <4>2, <4>5, <3>2 DEF DeadlineTooLong, StatementTooLong
        <5> QED BY <4>4, <5>1, <5>2, <5>3, Zenon DEF Invalid
      <4>7. {k} \notin Relations(Loaded)
        BY DEF Relations
      <4> QED BY <3>1, <4>6, <4>7 DEF validate
    <3> QED BY <2>1, <2>3, <3>2 DEF BlamesTheCause
  <2> QED BY <2>2, <2>3
<1> QED BY <1>1, ConfigInvariant, PTL
=============================================================================
