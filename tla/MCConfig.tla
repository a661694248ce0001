------------------------------ MODULE MCConfig ------------------------------
(* A deployment that sets DATABASE_URL, with at most two further variables *)
(* set to a value at, below or beyond a bound of validate or of a parser.  *)
EXTENDS Config

Durations == {Garbage, -1, 0, 1, Millisecond, 5 * Second, 10 * Second, 30 * Second}
Integral == {Garbage, -1, 0, 1, 11, MaxInt32, MaxInt32 + 1, 2 * MaxInt32 + 4}

Written(k) ==
    CASE k = "HTTP_CLIENT_IP_MODE" -> {"", "header", "xff-cidrs", "xff-count", "automatic"}
      [] k \in Texts -> {"", "set"}
      [] k = "HTTP_CORS_ALLOWED_ORIGINS" -> {<<"blank">>, <<"*">>, <<"blank", "https://app">>, <<"*", "https://app">>}
      [] k = "HTTP_TRUSTED_PROXY_CIDRS" -> {<<"blank">>, <<"blank", "10.0.0.0/8">>, <<"10.0.0.0/8", "not-a-cidr">>}
      [] k \in Int32s \cup {"HTTP_MAX_REQUEST_BYTES", "HTTP_TRUSTED_PROXY_COUNT"} -> Integral
      [] k = "HTTP_CORS_ALLOW_CREDENTIALS" -> {Garbage, TRUE}
      [] OTHER -> Durations

Set(e, k, v) == [x \in DOMAIN e \cup {k} |-> IF x = k THEN v ELSE e[x]]
Deployed == [k \in {"DATABASE_URL"} |-> "postgres://"]
Changed(e) == UNION {{Set(e, k, v) : v \in Written(k)} : k \in Keys}

MCEnvironments == UNION {Changed(e) : e \in Changed(Deployed)}
=============================================================================
