----------------------------- MODULE ConfigLoad -----------------------------
(* internal/config: what Load makes of the environment, as operators.       *)
(*                                                                         *)
(* An environment is a record with one field per variable that has a say in *)
(* what the server does; "" is a variable that is not set, "bad" one that   *)
(* does not parse.  A number of calls per second is counted in thousandths. *)
EXTENDS Integers, Sequences

CONSTANT MaxInt  \* the largest int

ASSUME MaxIntAssumption == MaxInt \in Nat \ {0}

Unset == [kind |-> "unset", n |-> 0]

Bad == [kind |-> "bad", n |-> 0]

Number(n) == [kind |-> "number", n |-> n]

\* strconv.ParseFloat also takes "NaN" and "Inf".
NaN == [kind |-> "nan", n |-> 0]

Infinity == [kind |-> "inf", n |-> 0]

Thousand == 1000

-----------------------------------------------------------------------------
(* Comparisons and rounding of floating point numbers *)

Negative(x) == x.kind = "number" /\ x.n < 0

Positive(x) == x.kind = "inf" \/ (x.kind = "number" /\ x.n > 0)

\* As many whole calls as this are an int.
Fits(x) == x.kind = "number" /\ x.n <= MaxInt * Thousand

\* Mutant of Ceil: rounds down.
Floor(x, overflow) == IF Fits(x) THEN x.n \div Thousand ELSE overflow

\* int(math.Ceil(x)), for positive x.  What becomes of a value that is too large, be it
\* finite or not, depends on the machine: overflow is the result.
Ceil(x, overflow) == IF Fits(x) THEN (x.n + Thousand - 1) \div Thousand ELSE overflow

-----------------------------------------------------------------------------
(* Load *)

\* getEnvOrDefault
OrDefault(value, default) == IF value = "" THEN default ELSE value

ParseBool(value, default) == IF value \in {"", "bad"} THEN default ELSE value = "true"

ParseNumber(x) == IF x.kind \in {"unset", "bad"} THEN Number(0) ELSE x

\* Blank parts of a list are dropped; a list of blanks is no list.
ParseCSV(parts) == {parts[i] : i \in DOMAIN parts} \ {""}

Transport(env) == OrDefault(env.transport, "stdio")

AuthMode(env) == OrDefault(env.authMode, "token")

ToolMode(env) == OrDefault(env.toolMode, "search")

RateLimit(env) == ParseNumber(env.rateLimit)

BurstSetting(env) == ParseNumber(env.rateLimitBurst).n

\* Mutant of Legal: OAuth does without HTTP.
LegalWithOAuthOnly(env) ==
  /\ \A v \in {"embeddings", "disableWrite", "auditLog"} : env[v] # "bad"
  /\ \A v \in {"rateLimit", "rateLimitBurst"} : env[v].kind # "bad"
  /\ env.baseURL # ""
  /\ AuthMode(env) \in {"token", "oauth"}
  /\ AuthMode(env) = "token" => env.token # ""
  /\ Transport(env) \in {"stdio", "http"}
  /\ ToolMode(env) \in {"search", "generated"}
  /\ ~ Negative(RateLimit(env))
  /\ BurstSetting(env) >= 0

\* Load collects what is wrong and returns all of it, or else the configuration.
Legal(env) ==
  /\ \A v \in {"embeddings", "disableWrite", "auditLog"} : env[v] # "bad"
  /\ \A v \in {"rateLimit", "rateLimitBurst"} : env[v].kind # "bad"
  /\ env.baseURL # ""
  /\ AuthMode(env) \in {"token", "oauth"}
  /\ AuthMode(env) = "token" => env.token # ""
  /\ Transport(env) \in {"stdio", "http"}
  /\ AuthMode(env) = "oauth" => Transport(env) = "http"
  /\ ToolMode(env) \in {"search", "generated"}
  /\ ~ Negative(RateLimit(env))
  /\ BurstSetting(env) >= 0

\* Mutant of Burst: a default of at least ten.
BurstOfTen(env, overflow) ==
  IF BurstSetting(env) = 0 /\ Positive(RateLimit(env)) THEN 10 ELSE BurstSetting(env)

\* RATE_LIMIT_BURST, by default the rate.
Burst(env, overflow) ==
  IF BurstSetting(env) = 0 /\ Positive(RateLimit(env))
    THEN Ceil(RateLimit(env), overflow)
    ELSE BurstSetting(env)

Load(env, overflow) ==
  [transport |-> Transport(env),
   token |-> env.token,
   authMode |-> AuthMode(env),
   toolMode |-> ToolMode(env),
   embeddings |-> ParseBool(env.embeddings, FALSE),
   disableWrite |-> ParseBool(env.disableWrite, FALSE),
   auditLog |-> ParseBool(env.auditLog, TRUE),
   allowed |-> ParseCSV(env.allowed),
   rateLimit |-> RateLimit(env),
   burst |-> Burst(env, overflow)]

\* ratelimit.New: everything but a rate that is at most zero makes a limiter, a
\* rate that is not a number included.
IsLimited(cfg) == ~ (cfg.rateLimit.kind = "number" /\ cfg.rateLimit.n <= 0)
=============================================================================
