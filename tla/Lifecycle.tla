----------------------------- MODULE Lifecycle -----------------------------
(* cmd/argocd-mcp and internal/server: a process from its start to its end. *)
(*                                                                         *)
(* main loads the configuration; Run takes over SIGTERM and SIGINT, fetches *)
(* ArgoCD's Swagger document, filters it, indexes it for the vector search, *)
(* makes the limiter and its cleanup goroutine, registers the tools and     *)
(* serves them.  Signals come at any moment and more than once.  The        *)
(* requests of HTTP clients are connections here; ToolCalls has what        *)
(* happens in one.  ServeStdio, net/http and Ollama are external.           *)
EXTENDS ConfigLoad, Endpoints, FiniteSets

CONSTANTS
  Envs,       \* the environments the process may be started in
  Overflows,  \* what int() may make of a number that is too large
  Requests,   \* the HTTP requests
  MaxSignals  \* bound on the number of signals

ASSUME LifecycleAssumption ==
  /\ Overflows \subseteq (0 - MaxInt - 1) .. MaxInt
  /\ MaxSignals \in Nat
  /\ \A env \in Envs :
       /\ {env.rateLimit.kind, env.rateLimitBurst.kind} \subseteq STRING
       /\ env.rateLimit.n \in Int
       /\ env.rateLimitBurst.n \in Int

VARIABLES
  env,        \* the environment
  cfg,        \* the configuration, or NoConfig
  phase,      \* what main is doing
  ctx,        \* the context of NotifyContext: "none", "live" or "done"
  signals,    \* signals so far
  endpoints,  \* the endpoints the tools are made from
  sweeper,    \* the limiter's cleanup goroutine: "none", "running", "returned"
  listener,   \* ListenAndServe: "none", "starting", "listening", "failed", "closed"
  errCh,      \* errors in the channel of that name
  requests,   \* each request: "none", "open", "replied" or "cut"
  exit        \* how the process has ended: "running", "ok", "error", "killed"

vars == <<env, cfg, phase, ctx, signals, endpoints, sweeper, listener, errCh, requests, exit>>

serving == <<sweeper, listener, errCh, requests>>

NoConfig == [transport |-> "none"]

Open == {r \in Requests : requests[r] = "open"}

Init ==
  /\ env \in Envs
  /\ cfg = NoConfig
  /\ phase = "load"
  /\ ctx = "none"
  /\ signals = 0
  /\ endpoints = {}
  /\ sweeper = "none"
  /\ listener = "none"
  /\ errCh = 0
  /\ requests = [r \in Requests |-> "none"]
  /\ exit = "running"

-----------------------------------------------------------------------------
(* The end of the process takes its goroutines and connections with it *)

Finish(how) ==
  /\ phase' = "exited"
  /\ exit' = how
  /\ requests' = [r \in Requests |-> IF requests[r] = "open" THEN "cut" ELSE requests[r]]
  /\ UNCHANGED <<env, endpoints, sweeper, listener, errCh>>

\* Until Run has called NotifyContext a signal kills the process.  Afterwards it
\* ends the context and nothing else, except that ServeStdio listens as well.
Signal ==
  /\ phase # "exited"
  /\ signals < MaxSignals
  /\ signals' = signals + 1
  /\ IF phase = "load"
       THEN Finish("killed") /\ UNCHANGED <<cfg, ctx>>
       ELSE /\ ctx' = "done"
            /\ phase' = IF phase = "stdio" THEN "interrupted" ELSE phase
            /\ UNCHANGED <<env, cfg, endpoints, serving, exit>>

-----------------------------------------------------------------------------
(* Startup *)

LoadFails ==
  /\ phase = "load"
  /\ ~ Legal(env)
  /\ Finish("error")
  /\ UNCHANGED <<cfg, ctx, signals>>

\* Load returns a configuration and Run takes over the signals.
LoadSucceeds ==
  /\ phase = "load"
  /\ Legal(env)
  /\ \E overflow \in Overflows : cfg' = Load(env, overflow)
  /\ phase' = "fetch"
  /\ ctx' = "live"
  /\ UNCHANGED <<env, signals, endpoints, serving, exit>>

\* What DISABLE_WRITE and ALLOWED_RESOURCES leave of a document.
Filtered(eps) ==
  FilterByTags(IF cfg.disableWrite THEN FilterReadOnly(eps) ELSE eps, cfg.allowed)

\* ArgoCD answers within 30 seconds, with a document that has operations.
FetchSucceeds ==
  /\ phase = "fetch"
  /\ ParseSpec # {}
  /\ endpoints' = Filtered(ParseSpec)
  /\ phase' = IF cfg.embeddings THEN "index" ELSE "register"
  /\ UNCHANGED <<env, cfg, ctx, signals, serving, exit>>

\* No answer, a wrong one, one without operations, or a signal came first.
FetchFails ==
  /\ phase = "fetch"
  /\ Finish("error")
  /\ UNCHANGED <<cfg, ctx, signals>>

\* The index is built under a context of its own, which no signal ends.  The
\* vector store takes no empty list.
IndexSucceeds ==
  /\ phase = "index"
  /\ endpoints # {}
  /\ phase' = "register"
  /\ UNCHANGED <<env, cfg, ctx, signals, endpoints, serving, exit>>

IndexFails ==
  /\ phase = "index"
  /\ Finish("error")
  /\ UNCHANGED <<cfg, ctx, signals>>

\* The limiter, the tools and the transport.  runStdio is not given the context.
Register ==
  /\ phase = "register"
  /\ sweeper' = IF IsLimited(cfg) THEN "running" ELSE "none"
  /\ phase' = cfg.transport
  /\ listener' = IF cfg.transport = "http" THEN "starting" ELSE "none"
  /\ UNCHANGED <<env, cfg, ctx, signals, endpoints, errCh, requests, exit>>

SweeperReturns ==
  /\ sweeper = "running"
  /\ ctx = "done"
  /\ phase # "exited"
  /\ sweeper' = "returned"
  /\ UNCHANGED <<env, cfg, phase, ctx, signals, endpoints, listener, errCh, requests, exit>>

-----------------------------------------------------------------------------
(* HTTP: the goroutine of ListenAndServe, the clients and runHTTP's select *)

Listens ==
  /\ phase = "http"
  /\ listener = "starting"
  /\ listener' = "listening"
  /\ UNCHANGED <<env, cfg, phase, ctx, signals, endpoints, sweeper, errCh, requests, exit>>

\* Mutant of ListenFails: the error is dropped with the others.
ListenFailsQuietly ==
  /\ phase = "http"
  /\ listener \in {"starting", "listening"}
  /\ listener' = "failed"
  /\ UNCHANGED <<env, cfg, phase, ctx, signals, endpoints, sweeper, errCh, requests, exit>>

\* The address is taken, or accepting connections fails later on.
ListenFails ==
  /\ phase = "http"
  /\ listener \in {"starting", "listening"}
  /\ listener' = "failed"
  /\ errCh' = errCh + 1
  /\ UNCHANGED <<env, cfg, phase, ctx, signals, endpoints, sweeper, requests, exit>>

Connect(r) ==
  /\ listener = "listening"
  /\ phase # "exited"
  /\ requests[r] = "none"
  /\ requests' = [requests EXCEPT ![r] = "open"]
  /\ UNCHANGED <<env, cfg, phase, ctx, signals, endpoints, sweeper, listener, errCh, exit>>

Reply(r) ==
  /\ requests[r] = "open"
  /\ requests' = [requests EXCEPT ![r] = "replied"]
  /\ UNCHANGED <<env, cfg, phase, ctx, signals, endpoints, sweeper, listener, errCh, exit>>

\* Mutant of ShutDown: waits until the server is up.
ShutDownOnceListening ==
  /\ phase = "http"
  /\ ctx = "done"
  /\ listener = "listening"
  /\ phase' = "drain"
  /\ listener' = "closed"
  /\ UNCHANGED <<env, cfg, ctx, signals, endpoints, sweeper, errCh, requests, exit>>

\* The select takes the signal: Shutdown closes the listener, or keeps
\* ListenAndServe from opening it, which then returns ErrServerClosed.
ShutDown ==
  /\ phase = "http"
  /\ ctx = "done"
  /\ phase' = "drain"
  /\ listener' = IF listener = "failed" THEN "failed" ELSE "closed"
  /\ UNCHANGED <<env, cfg, ctx, signals, endpoints, sweeper, errCh, requests, exit>>

\* The select takes the error, signal or not.
ReportFailure ==
  /\ phase = "http"
  /\ errCh > 0
  /\ Finish("error")
  /\ UNCHANGED <<cfg, ctx, signals>>

Drained ==
  /\ phase = "drain"
  /\ Open = {}
  /\ Finish("ok")
  /\ UNCHANGED <<cfg, ctx, signals>>

\* Mutant of DrainTimesOut: the error of Shutdown is only logged.
DrainTimesOutWell ==
  /\ phase = "drain"
  /\ Open # {}
  /\ Finish("ok")
  /\ UNCHANGED <<cfg, ctx, signals>>

\* Five seconds have passed.
DrainTimesOut ==
  /\ phase = "drain"
  /\ Open # {}
  /\ Finish("error")
  /\ UNCHANGED <<cfg, ctx, signals>>

-----------------------------------------------------------------------------
(* Stdio: the client closes the input, or ServeStdio has seen a signal *)

InputEnds ==
  /\ phase = "stdio"
  /\ Finish("ok")
  /\ UNCHANGED <<cfg, ctx, signals>>

StdioReturns ==
  /\ phase = "interrupted"
  /\ \E how \in {"ok", "error"} : Finish(how)
  /\ UNCHANGED <<cfg, ctx, signals>>

-----------------------------------------------------------------------------
\* What main does without waiting for anybody, or not for ever.
Main ==
  \/ LoadFails \/ LoadSucceeds \/ FetchSucceeds \/ FetchFails \/ Register
  \/ ShutDown \/ ReportFailure \/ Drained \/ DrainTimesOut \/ StdioReturns

OllamaAnswers == IndexSucceeds \/ IndexFails

Next ==
  \/ Main
  \/ OllamaAnswers
  \/ Signal
  \/ SweeperReturns
  \/ Listens
  \/ ListenFails
  \/ \E r \in Requests : Connect(r) \/ Reply(r)
  \/ InputEnds

Spec == Init /\ [][Next]_vars

\* A fetch has a time limit, a drain has one; Ollama, the clients, who sends
\* signals and who closes the input owe nothing.
FairSpec == Spec /\ WF_vars(Main) /\ WF_vars(SweeperReturns)

\* The same when Ollama answers.
FairSpecWithOllama == FairSpec /\ WF_vars(OllamaAnswers)

-----------------------------------------------------------------------------
(* Properties *)

Phases ==
  {"load", "fetch", "index", "register", "http", "drain", "stdio", "interrupted", "exited"}

\* Types, and what one variable says of another: the configuration is what Load
\* makes of the environment, the transport's phases belong to it, only an HTTP
\* server has requests, and exit tells how main has ended.
TypeOK ==
  /\ env \in Envs
  /\ cfg = NoConfig \/ (Legal(env) /\ \E o \in Overflows : cfg = Load(env, o))
  /\ phase \in Phases
  /\ ctx \in {"none", "live", "done"}
  /\ signals \in 0 .. MaxSignals
  /\ endpoints \subseteq ParseSpec
  /\ sweeper \in {"none", "running", "returned"}
  /\ listener \in {"none", "starting", "listening", "failed", "closed"}
  /\ errCh \in {0, 1}
  /\ requests \in [Requests -> {"none", "open", "replied", "cut"}]
  /\ exit \in {"running", "ok", "error", "killed"}

\* The inductive invariant: what main is doing determines what the rest of the
\* process may be doing.
InOrder ==
  /\ (phase = "exited") <=> (exit # "running")
  /\ phase \notin {"load", "exited"} => cfg # NoConfig
  /\ phase \in {"http", "drain"} => cfg.transport = "http"
  /\ phase \in {"stdio", "interrupted"} => cfg.transport = "stdio"
  /\ Open # {} => phase \in {"http", "drain"}
  /\ phase = "drain" => ctx = "done"
  /\ phase \in {"load", "fetch", "index", "register", "stdio", "interrupted"} =>
       listener = "none"
  /\ (errCh = 1) <=> (listener = "failed")
  /\ exit \in {"running", "ok"} => \A r \in Requests : requests[r] # "cut"
  /\ exit = "ok" /\ cfg.transport = "http" => ctx = "done"

Inv == TypeOK /\ InOrder

\* An exit status of 0 (main.go:21) is a promise: nobody who was connected was cut
\* off, and an HTTP server has stopped because it was told to, not because its
\* listener failed (server.go:226-241).
CleanExitCutsNobody ==
  exit = "ok" =>
    /\ \A r \in Requests : requests[r] # "cut"
    /\ cfg.transport = "http" => ctx = "done"

\* A limiter lets everybody make a first call, if its burst was set or its rate is one
\* that an int can hold: what Load makes of a missing burst is not 0 then, nor below
\* (config.go:133, config.go:135).  The premise is needed: of RATE_LIMIT=1e19 some
\* machines make a burst below 0, and of NaN all make one of 0.
FirstCallIsAdmitted ==
  cfg # NoConfig /\ IsLimited(cfg) /\ (BurstSetting(env) # 0 \/ Fits(cfg.rateLimit)) =>
    cfg.burst >= 1

\* The limiter forgets a user after 600 seconds (limiter.go:11), at which its quota
\* holds only if a bucket refills meanwhile (RateLimiter!EvictionIsSlow).  With the
\* default burst it does, from two calls per thousand seconds on.
TTL == 600

DefaultBurstRefillsInTime ==
  cfg # NoConfig /\ BurstSetting(env) = 0
    /\ cfg.rateLimit.kind = "number" /\ cfg.rateLimit.n >= 2 =>
      cfg.burst * Thousand <= TTL * cfg.rateLimit.n

\* runHTTP puts the middleware in front of /mcp in OAuth mode; stdio has none.
HasMiddleware == cfg.transport = "http" /\ cfg.authMode = "oauth"

\* Whatever the environment, a server that serves has a token to send along: its
\* own, or that of the caller whom the middleware has asked for one
\* (config.go:106-115, server.go:209-214, gateway.go:79-93).
SomebodyIsForwarded ==
  phase \in {"http", "stdio"} => cfg.token # "" \/ HasMiddleware

\* An HTTP server whose listener fails does not go on without it: the process
\* ends, with an error unless there was a signal too (server.go:238).
ListenerFailureIsReported ==
  listener = "failed" ~> phase = "exited" /\ (exit = "error" \/ ctx = "done")

\* A signal ends an HTTP server, in every phase of its start as in service, with
\* requests open that never end; only the index may hold it up (server.go:180).
SignalEndsHTTP ==
  [](ctx = "done" /\ cfg.transport = "http" =>
       <>(phase = "exited" \/ [](phase = "index")))

\* "Server-wide context tied to SIGTERM/SIGINT for graceful shutdown."
\* (server.go:32): a signal ends the process.
SignalEndsProcess == ctx = "done" ~> phase = "exited"
=============================================================================
