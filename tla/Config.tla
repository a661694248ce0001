------------------------------- MODULE Config -------------------------------
(***************************************************************************)
(* How the API process comes up: config.Load turns the environment into a  *)
(* configuration or a report, database.Open and app.Build turn the         *)
(* configuration into a pool, a middleware chain and a server.             *)
(*                                                                         *)
(* The environment is a partial function: its domain is what is set.       *)
(* Durations count a unit of which Millisecond make one millisecond.  What *)
(* no parser accepts, a number too large for 64 bits included, is Garbage. *)
(***************************************************************************)
EXTENDS Integers, Sequences

CONSTANTS
    Environments,   \* the environments the process may be started in
    Millisecond,    \* duration units per millisecond
    MaxInt32,       \* the largest 32-bit integer
    Garbage         \* a text that does not parse

ASSUME ConfigAssumption ==
    /\ Millisecond \in Nat \ {0}
    /\ MaxInt32 \in Nat /\ MaxInt32 >= 10
    /\ Garbage \notin Int /\ Garbage \notin BOOLEAN

VARIABLES
    env,        \* the process environment
    stage,      \* how far run() has come
    cfg,        \* what Load returned
    report,     \* Load's error: each problem as the set of variables it names
    pool,       \* the pool's settings that PostgreSQL enforces
    chain       \* the middleware NewRouter installed

vars == <<env, stage, cfg, report, pool, chain>>

Second == 1000 * Millisecond

\* The variables Load reads, with their fallbacks.
Fallback == [
    APP_ENV |-> "development", HTTP_ADDR |-> ":8080",
    HTTP_READ_HEADER_TIMEOUT |-> 5 * Second, HTTP_READ_TIMEOUT |-> 15 * Second,
    HTTP_WRITE_TIMEOUT |-> 30 * Second, HTTP_IDLE_TIMEOUT |-> 60 * Second,
    HTTP_REQUEST_TIMEOUT |-> 10 * Second, HTTP_MAX_REQUEST_BYTES |-> 1048576,
    HTTP_CORS_ALLOWED_ORIGINS |-> <<>>, HTTP_CORS_ALLOW_CREDENTIALS |-> FALSE,
    HTTP_CLIENT_IP_MODE |-> "remote", HTTP_CLIENT_IP_HEADER |-> "X-Real-IP",
    HTTP_TRUSTED_PROXY_CIDRS |-> <<>>, HTTP_TRUSTED_PROXY_COUNT |-> 1,
    DATABASE_URL |-> "", DB_MAX_CONNS |-> 10, DB_MIN_CONNS |-> 2,
    DB_MAX_CONN_LIFETIME |-> 1800 * Second, DB_MAX_CONN_IDLE_TIME |-> 300 * Second,
    DB_STATEMENT_TIMEOUT |-> 5 * Second,
    SHUTDOWN_DRAIN_DELAY |-> 5 * Second, SHUTDOWN_TIMEOUT |-> 10 * Second]

Keys == DOMAIN Fallback
Texts == {"APP_ENV", "HTTP_ADDR", "HTTP_CLIENT_IP_MODE", "HTTP_CLIENT_IP_HEADER", "DATABASE_URL"}
Lists == {"HTTP_CORS_ALLOWED_ORIGINS", "HTTP_TRUSTED_PROXY_CIDRS"}
Int32s == {"DB_MAX_CONNS", "DB_MIN_CONNS"}
Parsed == Keys \ (Texts \cup Lists)

-----------------------------------------------------------------------------
(* Reading the environment.                                                *)

Fits32(n) == -MaxInt32 - 1 <= n /\ n <= MaxInt32

\* Mutant: the integer is parsed with 64 bits and converted.
ParsesWide(k) == env[k] # Garbage

\* Whether the parser of k's type accepts what was written.
Parses(k) == env[k] # Garbage /\ (k \in Int32s => Fits32(env[k]))

\* A list loses its blank items.
NonBlank(list) == SelectSeq(list, LAMBDA item : item # "blank")

\* envReader: the written value, or the fallback of one that is unset or that
\* does not parse.
Read(k) ==
    IF k \notin DOMAIN env \/ (k \in Parsed /\ ~Parses(k)) THEN Fallback[k]
    ELSE IF k \in Lists THEN NonBlank(env[k])
    ELSE env[k]

\* Mutant: parseEnv falls back without recording a failure.
NothingUnparsable == {}

\* The failures parseEnv records.
Unparsable == {k \in Parsed \cap DOMAIN env : ~Parses(k)}

\* The configuration Load fills in.
Loaded == [k \in Keys |-> Read(k)]

-----------------------------------------------------------------------------
(* Validation.                                                             *)

Holds(list, item) == \E i \in 1..Len(list) : list[i] = item

Positive == {"HTTP_READ_HEADER_TIMEOUT", "HTTP_READ_TIMEOUT", "HTTP_WRITE_TIMEOUT",
    "HTTP_IDLE_TIMEOUT", "HTTP_REQUEST_TIMEOUT", "HTTP_MAX_REQUEST_BYTES", "DB_MAX_CONNS",
    "DB_MAX_CONN_LIFETIME", "DB_MAX_CONN_IDLE_TIME", "SHUTDOWN_TIMEOUT"}
NotNegative == {"DB_MIN_CONNS", "SHUTDOWN_DRAIN_DELAY"}
Numbers == Positive \cup NotNegative \cup {"DB_STATEMENT_TIMEOUT", "HTTP_TRUSTED_PROXY_COUNT"}

ASSUME EnvironmentsAssumption ==
    \A e \in Environments : \A k \in Numbers \cap DOMAIN e : e[k] \in Int \cup {Garbage}

\* The values no client IP mode but theirs looks at.
InvalidClientIP(c) ==
    CASE c.HTTP_CLIENT_IP_MODE = "remote" -> {}
      [] c.HTTP_CLIENT_IP_MODE = "header" ->
             IF c.HTTP_CLIENT_IP_HEADER = "" THEN {"HTTP_CLIENT_IP_HEADER"} ELSE {}
      [] c.HTTP_CLIENT_IP_MODE = "xff-cidrs" ->
             IF c.HTTP_TRUSTED_PROXY_CIDRS = <<>> \/ Holds(c.HTTP_TRUSTED_PROXY_CIDRS, "not-a-cidr")
             THEN {"HTTP_TRUSTED_PROXY_CIDRS"} ELSE {}
      [] c.HTTP_CLIENT_IP_MODE = "xff-count" ->
             IF c.HTTP_TRUSTED_PROXY_COUNT < 1 THEN {"HTTP_TRUSTED_PROXY_COUNT"} ELSE {}
      [] OTHER -> {"HTTP_CLIENT_IP_MODE"}

\* Mutant: any positive statement timeout will do.
InvalidAboveZero(c) ==
    {k \in Positive : c[k] <= 0} \cup {k \in NotNegative : c[k] < 0}
        \cup {k \in {"HTTP_ADDR", "DATABASE_URL"} : c[k] = ""}
        \cup {k \in {"DB_STATEMENT_TIMEOUT"} : c[k] <= 0} \cup InvalidClientIP(c)

\* The variables whose value is refused on its own.
Invalid(c) ==
    {k \in Positive : c[k] <= 0} \cup {k \in NotNegative : c[k] < 0}
        \cup {k \in {"HTTP_ADDR", "DATABASE_URL"} : c[k] = ""}
        \cup {k \in {"DB_STATEMENT_TIMEOUT"} : c[k] < Millisecond} \cup InvalidClientIP(c)

\* The write timeout closes the connection that carries a timeout response.
DeadlineTooLong(c) ==
    /\ c.HTTP_REQUEST_TIMEOUT > 0 /\ c.HTTP_WRITE_TIMEOUT > 0
    /\ c.HTTP_REQUEST_TIMEOUT >= c.HTTP_WRITE_TIMEOUT

\* A statement may not be allowed to outlive its request.
StatementTooLong(c) ==
    /\ c.DB_STATEMENT_TIMEOUT >= Millisecond /\ c.HTTP_REQUEST_TIMEOUT > 0
    /\ c.DB_STATEMENT_TIMEOUT > c.HTTP_REQUEST_TIMEOUT

\* Mutant: the wildcard is compared with the whole list.
WildcardAlone(c) == c.HTTP_CORS_ALLOW_CREDENTIALS /\ c.HTTP_CORS_ALLOWED_ORIGINS = <<"*">>

WildcardCredentials(c) ==
    c.HTTP_CORS_ALLOW_CREDENTIALS /\ Holds(c.HTTP_CORS_ALLOWED_ORIGINS, "*")

\* The relations between values.
Relations(c) ==
    {p \in {{"HTTP_REQUEST_TIMEOUT", "HTTP_WRITE_TIMEOUT"}} : DeadlineTooLong(c)}
        \cup {p \in {{"DB_STATEMENT_TIMEOUT", "HTTP_REQUEST_TIMEOUT"}} : StatementTooLong(c)}
        \cup {p \in {{"DB_MIN_CONNS", "DB_MAX_CONNS"}} : c.DB_MIN_CONNS > c.DB_MAX_CONNS}
        \cup {p \in {{"HTTP_CORS_ALLOWED_ORIGINS", "HTTP_CORS_ALLOW_CREDENTIALS"}} :
                  WildcardCredentials(c)}

validate(c) == {{k} : k \in Invalid(c)} \cup Relations(c)

-----------------------------------------------------------------------------
(* run().                                                                  *)

\* Mutant: Load goes on to judge the fallbacks of what it could not parse.
JudgesFallbacks(c) == {{k} : k \in Unparsable} \cup validate(c)

\* Unparsable values are reported on their own.
Problems(c) == IF Unparsable # {} THEN {{k} : k \in Unparsable} ELSE validate(c)

Load ==
    /\ stage = "start"
    /\ report' = Problems(Loaded)
    /\ IF Problems(Loaded) = {} THEN cfg' = Loaded /\ stage' = "loaded"
                               ELSE cfg' = cfg /\ stage' = "refused"
    /\ UNCHANGED <<env, pool, chain>>

\* statement_timeout goes to PostgreSQL in whole milliseconds.
Settings == [
    maxConns |-> cfg.DB_MAX_CONNS, minConns |-> cfg.DB_MIN_CONNS,
    statement_timeout |-> cfg.DB_STATEMENT_TIMEOUT \div Millisecond]

Open ==
    /\ stage = "loaded"
    /\ stage' = "opened"
    /\ pool' = Settings
    /\ UNCHANGED <<env, cfg, report, chain>>

\* The URL does not parse, the pool cannot be created or the ping fails.
OpenFails ==
    /\ stage = "loaded"
    /\ stage' = "failed"
    /\ UNCHANGED <<env, cfg, report, pool, chain>>

NewJSONDecoderPanics == cfg.HTTP_MAX_REQUEST_BYTES < 1

\* clientIPMiddleware, and the constructors of chi it hands its options to.
clientIPMiddlewarePanics ==
    CASE cfg.HTTP_CLIENT_IP_MODE \in {"", "remote", "header"} -> FALSE
      [] cfg.HTTP_CLIENT_IP_MODE = "xff-cidrs" -> Holds(cfg.HTTP_TRUSTED_PROXY_CIDRS, "not-a-cidr")
      [] cfg.HTTP_CLIENT_IP_MODE = "xff-count" -> cfg.HTTP_TRUSTED_PROXY_COUNT < 1
      [] OTHER -> TRUE

CORSPanics ==
    /\ cfg.HTTP_CORS_ALLOWED_ORIGINS # <<>>
    /\ cfg.HTTP_CORS_ALLOW_CREDENTIALS /\ Holds(cfg.HTTP_CORS_ALLOWED_ORIGINS, "*")

\* The middleware of NewRouter, outermost first.
Chain ==
    <<"requestID", "clientIP", "securityHeaders", "logRequest", "recoverPanic">>
        \o (IF cfg.HTTP_REQUEST_TIMEOUT > 0 THEN <<"requestTimeout">> ELSE <<>>)
        \o (IF cfg.HTTP_CORS_ALLOWED_ORIGINS # <<>> THEN <<"cors">> ELSE <<>>)

\* app.New and httpserver.New.
Build ==
    /\ stage = "opened"
    /\ IF NewJSONDecoderPanics \/ clientIPMiddlewarePanics \/ CORSPanics
       THEN stage' = "panicked" /\ chain' = chain
       ELSE stage' = "serving" /\ chain' = Chain
    /\ UNCHANGED <<env, cfg, report, pool>>

Ended == stage \in {"refused", "failed", "serving", "panicked"} /\ UNCHANGED vars

NoPool == [maxConns |-> 0, minConns |-> 0, statement_timeout |-> 0]

Init ==
    /\ env \in Environments
    /\ stage = "start"
    /\ cfg = Fallback     \* not looked at before Load
    /\ report = {}
    /\ pool = NoPool
    /\ chain = <<>>

Next == Load \/ Open \/ OpenFails \/ Build \/ Ended

Spec == Init /\ [][Next]_vars

-----------------------------------------------------------------------------
(* Properties.                                                             *)

\* What NewRouter may install.
Middleware == {"requestID", "clientIP", "securityHeaders", "logRequest", "recoverPanic",
    "requestTimeout", "cors"}

Accepted == stage \in {"loaded", "opened", "failed", "serving", "panicked"}

TypeOK ==
    /\ stage \in {"start", "loaded", "refused", "opened", "failed", "serving", "panicked"}
    /\ DOMAIN cfg = Keys
    /\ \A k \in Int32s : Fits32(cfg[k])
    /\ pool \in [maxConns : Int, minConns : Int, statement_timeout : Int]
    /\ chain \in Seq(Middleware)

\* What validate lets through, the constructors take: no environment makes the
\* process panic while it assembles the router, although the conditions are
\* written twice, in config and in the packages it configures.
AcceptedNeverPanics == stage # "panicked"

\* A serving process has every limit in force.  Zero would switch each of them
\* off: net/http's timeouts, the deadline NewRouter installs only for a positive
\* value, and statement_timeout, which PostgreSQL takes in whole milliseconds.
NothingUnbounded ==
    stage = "serving" =>
        /\ Holds(chain, "requestTimeout")
        /\ pool.statement_timeout > 0
        /\ pool.statement_timeout * Millisecond <= cfg.HTTP_REQUEST_TIMEOUT
        /\ cfg.HTTP_READ_HEADER_TIMEOUT > 0 /\ cfg.HTTP_READ_TIMEOUT > 0
        /\ cfg.HTTP_WRITE_TIMEOUT > cfg.HTTP_REQUEST_TIMEOUT /\ cfg.HTTP_IDLE_TIMEOUT > 0
        /\ cfg.SHUTDOWN_TIMEOUT > 0 /\ cfg.SHUTDOWN_DRAIN_DELAY >= 0
        /\ 1 <= pool.maxConns /\ 0 <= pool.minConns /\ pool.minConns <= pool.maxConns

\* The process runs with what was written: no value that is set is replaced by
\* its fallback or loses digits on the way to the configuration.
RunsAsWritten ==
    Accepted => \A k \in DOMAIN env \ Lists : k \in Keys => cfg[k] = env[k]

\* A report blames what is wrong: a value that does not parse is never judged by
\* its fallback, and a relation between timeouts is not reported of a value that
\* is invalid on its own.
BlamesTheCause ==
    stage = "refused" =>
        /\ report # {}
        /\ \/ \A p \in report : \A k \in p : k \in DOMAIN env /\ ~Parses(k)
           \/ /\ Unparsable = {}
              /\ \A p \in report : "HTTP_REQUEST_TIMEOUT" \in p =>
                     \A k \in p : p = {k} \/ {k} \notin report

-----------------------------------------------------------------------------
(* The inductive invariant behind the proofs.                              *)

ConfigInv ==
    /\ env \in Environments
    /\ Accepted => cfg = Loaded /\ Problems(Loaded) = {}
    /\ stage = "refused" => report = Problems(Loaded) /\ report # {}
    /\ stage \in {"opened", "serving"} => pool = Settings
    /\ stage = "serving" => chain = Chain
    /\ stage # "panicked"
=============================================================================
