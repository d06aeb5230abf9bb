# A verification development of argocd-mcp

argocd-mcp is an MCP server in Go that gives language models access to the REST
API of ArgoCD. This directory models it in TLA+, checks the model with TLC and
proves theorems about it with TLAPS. `src/...` paths are relative to the
repository; the sources are quoted as `file:line`.

Run the checks in this directory:

    tlc -config RateLimiter_overlap.cfg MCRateLimiter     # any cfg with its MC module
    tlapm RateLimiterProofs.tla                           # any *Proofs module

`PROJECT.json` lists the components, the runs with their properties, for every
property a plausible bug that it catches (a *mutant*: a definition of the same
module, with a comment "Mutant of ..."), for every definition the lines of Go it
stands for, the hazards, and the disagreements with the documentation.

## 1. Inventory

One process. At startup `server.Run` fetches ArgoCD's Swagger document, filters
its operations, builds a search back end, an ArgoCD client (*gateway*), a rate
limiter and an audit logger, registers tools and serves them over stdio or HTTP.
Then every tool call is a goroutine; the calls share the rate limiter, one HTTP
client, the audit log and the (by then immutable) list of endpoints.

| Component | State | Operations | Hard behaviour | What makes it correct |
|---|---|---|---|---|
| rate limiter, `internal/ratelimit` | map key → entry (bucket, lastSeen), a mutex, a ticker goroutine | `Allow`, `cleanup`, `evict`, `New` | entries are used after the mutex is released; clock readings overtake one another; eviction races with calls | quota in every window whatever the interleaving and the evictions; idle entries are reclaimed |
| search-mode handlers, `internal/gateway/tools.go` | none of their own | `search_operations`, `execute_operation` | four early returns with and without a log record; checks that must agree with what is sent | read-only mode, resource scope, blocked calls never reach ArgoCD, one truthful record per call |
| generated handlers, `internal/toolgen/generator.go` | one closure per endpoint | `GenerateAll`, the handler of each tool, `assembleBody` | the rate limit precedes the check of the arguments; arguments arrive typed or as strings, and go into the path as they are | as above, by filtering at registration; no argument is lost on its way |
| tool names and parameters, `internal/toolgen/naming.go`, `params.go` | none | `ToToolName`, `DeduplicateNames`, `BuildToolOptions` | suffixes that collide with other names; endpoints in another order after a restart | one tool per endpoint; a name stands for the same operation after a restart |
| gateway, `internal/gateway/gateway.go` | HTTP client, static token | `Execute` | timeouts, lost answers, net/http's replays, an answer that breaks off, a path that is parsed again after its checks | the caller's identity is forwarded; no write happens twice |
| audit log, `internal/audit` | a logger | `LogSearch`, `LogExecute` | calls that end by error, block or shutdown | every answered call has a record that agrees with what ArgoCD did |
| OpenAPI filters, `internal/openapi/parser.go`, `filter.go` | `AllowedEndpoints` | `ParseSpec`, `FilterReadOnly`, `FilterByTags`, `IsAllowed` | three consumers of one list must agree | what a search discovers may be executed, and nothing else |
| OpenAPI fetcher, `fetcher.go` | none | `FetchAndParse` | timeout at startup | no start without endpoints |
| search back ends, `search_keyword.go`, `search_vector.go` | the index | `Index`, `Search` | Ollama hangs; no time limit | results are loaded endpoints; bounded in number |
| server lifecycle, `internal/server` | context, HTTP server, `errCh` | `Run`, `runHTTP`, `runStdio` | SIGTERM during startup, listener failure, 5 s drain against 30 s calls | a signal ends the process; exit status 0 means that nobody was cut off |
| OAuth proxy and middleware, `internal/auth` | none | metadata, register, authorize, token, passthrough | a code that Dex has spent on an answer that was lost; late, broken and refusing answers, restarts between the steps of a login; clients that ask for other scopes; calls that outlive the session in which they were sent | every login succeeds in the end; a client is given every id_token there is; a call acts as the user for whom it was sent |
| configuration, `internal/config` | the `Config` record | `Load` | boundary values (0, empty, NaN, what no int can hold) | some token for every call; a limiter that admits a first call |
| prompts, `internal/gateway/prompts.go` | none | five text templates | none | (they name tools that exist) |

Interactions: handlers call `limiter.Allow(user)`, then `Gateway.Execute`, then
the auditor, in this order, on the caller's goroutine. The limiter's cleanup
goroutine shares the map with them. The middleware hands the bearer token down
through the request's context, from which the gateway (the token to forward) and
the handlers (the user to log and limit) each read it. The endpoint list is
copied to the search index, to the generated tools and, when ALLOWED_RESOURCES is
set, to the set `execute_operation` is checked against.

## 2. The modules

| Module | What it is |
|---|---|
| `TokenBucket` | the bucket of golang.org/x/time/rate, as pure operators; external |
| `RateLimiter` | `internal/ratelimit`: callers, cleanup goroutine, clock |
| `RateBudget` | the abstract specification of the limiter: a budget per key |
| `Endpoints` | the filters and the matching of `internal/openapi`, as pure operators |
| `ToolCalls` | a call from request to reply: handlers, limiter, gateway, audit log, ArgoCD, shutdown |
| `ToolAccess` | the abstract specification of tool calls: admitted or kept, acted upon, reported |
| `ConfigLoad` | `internal/config`: `Load`, as pure operators |
| `Lifecycle` | `cmd/argocd-mcp` and `internal/server`: a process from its environment to its exit status; composes `ConfigLoad` and `Endpoints` |
| `GeneratedTools` | `internal/toolgen` and the rest of `parser.go`: names, registration, schemas, the request of a call |
| `OAuthFlow` | `internal/auth`: login through Dex and the token of a call, with faults and restarts |
| `Sessions` | the abstract specification of OAuth mode |
| `RateBudgetProofs`, `RateLimiterProofs`, `ToolCallsProofs`, `ToolAccessProofs`, `LifecycleProofs`, `GeneratedToolsProofs`, `OAuthFlowProofs` | the theorems |
| `NaturalRecursion` | lemmas for them: induction over the numbers, and what a recursive function is |
| `MCRateBudget`, `MCRateLimiter`, `MCToolCalls`, `MCLifecycle`, `MCGeneratedTools`, `MCOAuthFlow` | instances for TLC |

### RateLimiter

An `*entry` is named by its index in `entries`, the heap; `limiters` is the map.
A caller that holds an index can therefore go on using an entry that the map has
dropped, as a goroutine with a pointer can. `Allow` has four steps, divided where
another goroutine can come between: `Begin` (limiter.go:74, the clock is read),
`Lookup` (76-86, the critical section), `ReadBucketClock` and `Admit` or `Refuse`
(89, the library reads the clock and then takes its own mutex). The cleanup
goroutine reads the clock (`Tock`, 107) before it gets the mutex (`Evict`,
108-115), and returns when the context ends (`Cancel`, `CleanupReturns`).

Time is counted in ticks. A bucket regains one unit per tick and a call costs
`Interval` units, so that RATE_LIMIT = 1/Interval and a full bucket holds
`Capacity = Interval * Burst`. `MaxStall` bounds how long one call of `Allow`
may take: it is an assumption about scheduling, stated as a guard of `Tick`, and
every result has it as a parameter. `opened` and `spent` belong to an observer
who counts the admissions from any moment on.

### RateBudget

What the limiter promises, with neither map nor goroutines: per key a level that
rises with the clock up to `Capacity` and pays `Interval` per admission. Because
the library credits the time between two readings that arrive out of order
twice, an admission may give back up to `MaxStall` units; for calls that take no
time the budget is the textbook token bucket the documentation describes.
`RateLimiter` implements it under the refinement mapping
`level <- LevelOf`, where a key without an entry counts as full.

### Endpoints

`ParseSpec`'s selection of operations, `FilterReadOnly`, `FilterByTags`,
`NewAllowedEndpoints` and `IsAllowed`. A path is the sequence of its segments, a
name is an atom; `Upper` maps the lower case spelling of each method, which
stands for every mixed spelling.

### ToolCalls

`pc[c]` follows the code of the handler of call `c`:

    ready -> called -> limit -> params -> waiting -> audit -> reply -> done
               |         |        |
               |         |        +-> reply  (refused, no record)
               |         +----------> audit  (rate limited)
               +--------------------> audit  (search, blocked) or reply (refused)

`execute_operation` runs through `called` (its two required arguments,
DISABLE_WRITE, ALLOWED_RESOURCES), `limit`, `params` (query_params), `waiting`
(the HTTP exchange); a generated tool has no check in `called`, its endpoints
having been filtered at startup, and looks for unfilled path placeholders in
`params`; a search goes straight to `audit`. `outcome` is what the handler will log and
reply. ArgoCD and the network are external: `wire[c]` is the exchange on which
the handler waits and `handled[c]` is what ArgoCD has done on behalf of the
call. ArgoCD may act after the handler has given up; the connection may break
with the request or with the answer; net/http repeats GET, HEAD, OPTIONS and TRACE, and
nothing else. `Shutdown` and `Exit` may come at any moment: `Shutdown` of the
HTTP server waits 5 seconds and a call may take 30, so that the model lets the
process exit with calls in flight. In this module the rate limiter is its abstract
specification, a budget per user (tokens instead of ticks); `refilled` counts
what came back.

A path is a sequence of texts, those between the slashes as it is *written*: by the
caller, or by putting the caller's texts in the places of a template's placeholders
(`Substituted`; a text may hold a slash). So it is checked and logged. What is
*served* is `ReadAs` of it: buildURL parses the path again behind ArgoCD's address
(gateway.go:146) and ArgoCD reads it in its own way, so that escapes, dot segments,
question marks and slashes within a text make another path of it. `ReadAs` is a
constant about which no more is assumed than that its values are paths; a path outside its domain does not parse
(`Unsendable`), and one that is served as it is written is `Plain`.

### ToolAccess

What the server promises of a call, without handlers, lists, filters or
connections. A call asks for something (`Request`): a search, something malformed,
or an operation that is a write or not, whose path is plain or not, and which is in
scope or not by the path that ArgoCD serves. Nobody is admitted (`Admit`) to a write
in read-only mode, to a plain path out of scope, or without paying; of paths that are
not plain the scope is not promised. Nobody is kept (`Keep`) from a permitted
operation with a plain path while calls are left to him. ArgoCD acts for admitted
calls, for a write once (`Act`), and a call is reported once, as what has become of it
(`Report`). `ToolCalls` implements it: `AskOf`, `StageOf` and `ReportsOf` say what of a
call is seen. Scope (`WithinScope`) is said of the Swagger document and of the path
that ArgoCD serves, while the handlers decide by the lists that are made of the
document at startup and by the path that is written.

### ConfigLoad and Lifecycle

An environment is a record of the variables that have a say; `Legal` is the
conjunction of everything `Load` collects errors for, `Load` the configuration it
returns. Numbers of calls per second are counted in thousandths; "NaN" and "Inf", which
`ParseFloat` takes, are values of their own, and a burst that no int
can hold (`MaxInt`), be the rate finite or not, is a choice (`Overflows`), as Go leaves
the conversion to the machine.

`phase` is where main is:

    load -> fetch -> index -> register -> http -> drain -> exited
                 \____________^       \-> stdio [-> interrupted] -> exited

every phase up to `index` may also end in `exited` by an error. `ctx` is the context
of `NotifyContext`: before Run a signal kills the process, afterwards it ends the
context and nothing else (`Signal`); who looks at it is the fetch, the limiter's
cleanup goroutine and `runHTTP`'s select, but neither the index, which runs under a
background context, nor `runStdio`. `ServeStdio` has a handler of its own, hence
`interrupted`. `listener` is the goroutine of `ListenAndServe`, `errCh` the channel
through which it reports. When both channels of the select are ready either
branch may be taken. Requests are connections here; what happens in them is
`ToolCalls`, what the OAuth endpoints do is `OAuthFlow`.

### GeneratedTools

`ParseSpec` is the set of lists that the code may make of a document: it ranges over
a map and sorts by path alone, unstably, so that the operations of one path come
in any order. `Deduplicate` is one round of `DeduplicateNames`' loop, `Register`
the registration, where `AddTool` replaces a tool of the same name. `Restart`
begins again with another order, while `listed` keeps what a client has been told
before. `Call` computes the request that the gateway is asked to send: placeholders
are filled parameter by parameter, also in what earlier ones have put there (a
recursive function over the list of parameters, like `Parameters`, the loop of
`parseOperation`), and
the body is converted property by property (`Converted`): a number may be written with
quotes, null is a zero, and JSON stands for its value, so that different texts may mean
the same (`JSONIn` is the value that a text spells). Names are sequences of words, paths
sequences of segments, operationIds pairs of sequences of words; of a path that has
been filled in only the string remains (`Joined`), in which slashes of arguments are
like any others, and any brace in it keeps the request back (`WithBrace`).
`ToolCalls` has the rate limit, the record and the
exchange of the same handler, and has no need of names.

### OAuthFlow and Sessions

The server keeps nothing between two requests. `stage[c]` is how far a client has
come; `asked` and `code` are what Dex knows of it, and `void` that Dex gives no tokens
for the code any more; `exchange[c]` is the client's POST /token from the server to
Dex and back; `late[c]` a request on which the server has given up and that Dex may
still handle. A client asks for any scopes and brings any client id, and both are
overridden.

What may come back of a POST /token, and what HandleToken makes of it:

| What happens | Action | Answer | What the client does |
|---|---|---|---|
| the form cannot be parsed | `PostMalformed`, `RefuseForm` | 400 | starts again |
| Dex gives tokens with an id_token | `DexExchanges`, `ReplyTokens` | the id_token as access_token | is logged in |
| without one, asked for it or not | `DexExchanges`, `DexWithholds`, `ReplyTokens` | Dex's own access_token | holds a token that ArgoCD refuses |
| Dex refuses: the code is spent, has expired, the proof is wrong | `DexExchanges`, `DexRefuses`, `ReplyError` | the same 4xx | starts again |
| 5xx, of Dex or of what stands before it | `DexBreaks`, `ReplyError` | the same 5xx | tries again |
| 200 with something other than a JSON object | `DexBreaks`, `ReplyUnreadable` | the same 200 | tries again or starts again |
| no answer, or one that breaks off | `Lose`, `TokenTimesOut`, `TokenFails`, `DexExchangesLate` | 502 | tries again |

`withheld[c]` says that Dex has left out an id_token for which it was asked. The
mishaps among these and restarts of the server (`Restart`) are bounded together by
`MaxFaults`.

`call[c]` is a call of the client: at the server, at ArgoCD (`Forward`) or done, the
token in its context, and as whom ArgoCD has acted. The client may log out, and come
back as another user, while its call is under way (`Forget` has no condition on calls);
the server may restart, which takes only what has not been forwarded; the token
may expire on the way. One call of each client is followed at a time: calls share
nothing but the client's token at the moment they are sent.

In `Sessions` a client is nobody until a user logs in there; a call is sent in the name
of who the client is at that moment, and keeps it whatever becomes of the session;
ArgoCD acts for a call in its name or not at all. `OAuthFlow` implements it: the
session is the user of the token that the client holds, the caller the user of the
token that its call carries, each while ArgoCD accepts the token.

## 3. The runs

| Run | Question | Instance |
|---|---|---|
| `budget` | does the abstract budget keep its books and the quota? | 2 keys, 2 tokens of 3 ticks, stall 1, clock to 9 |
| `limiter_overlap` | one user's overlapping calls against the cleanup: invariant, quota, refinement | 2 callers, 1 key, token of 2 ticks, stall 1, TTL 4 |
| `limiter_two_keys` | do two users' buckets and evictions stay apart, and are idle entries dropped? | 2 callers, 2 keys, TTL 1, stall 0, clock to 3 |
| `limiter_slow_rate` | violation: eviction before the bucket has refilled | token of 3 ticks, TTL 1 |
| `calls_guards` | both tool modes, DISABLE_WRITE × ALLOWED_RESOURCES, embeddings: what reaches ArgoCD, what is logged, is `ToolAccess` implemented, does every call end? | 2 calls, one request per branch of the checks, paths that are read otherwise or do not parse |
| `calls_limit` | competition for the rate limit, identities | 3 calls, with and without valid arguments, 2 OAuth users, burst 1, 1 refill |
| `calls_unlogged` | violation: a call without a record | default configuration |
| `lifecycle` | from any environment to an exit status, with signals at any moment | 125 environments, 2 requests, 2 signals |
| `signal_lost` | violation: a signal that a stdio server forgets | stdio with embeddings, 1 signal |
| `generated_tools` | names over restarts, arguments on their way | every set of up to 5 of 7 operations in every order; 3 operations with parameters everywhere and 7 texts |
| `typed_args` | violation: an argument of the declared type is dropped | the same 3 operations, 3 texts |
| `oauth` | login, calls and logout over faults; refinement | 2 clients, 2 users, 3 scopes, 2 client ids, 2 mishaps |

The properties, and what they would catch:

- `QuotaInAnyWindow`: two entries for one user, a bucket filled by its own
  eviction, credit for time that was counted already. Checked for the abstract
  budget and for the limiter with overlapping calls; with two keys it follows from
  `ImplementsBudget`.
- `HeldEntryIsMapped`, `Inv`: an entry evicted between mutex and bucket while a
  second one is made. `Inv` is the inductive invariant of the proofs.
- `EvictionIsInvisible` (action property): eviction drops full buckets only.
- `ImplementsBudget` (refinement): every step of the limiter is a step of the
  budget or changes nothing a user could see.
- `ExpiredIsReclaimed` (liveness): the map does not keep what nobody uses.
- `Inv` (of ToolCalls): where a call is, what is on the wire, what ArgoCD has done
  and what is logged agree; it is the inductive invariant of the proofs, and like
  `Accounts` it includes the types.
- `ReadOnlyMode`, `InScope`: judged by what ArgoCD has *done*, not by what the
  handler has decided. `InScope` has the premise that ArgoCD reads the path as it is
  written. Without it the property is false of the code, in either tool mode:
  `AllowedEndpoints` sees the written path only, and a generated tool checks none when
  it is called.
- `DiscoveredIsExecutable`: relates one call's search results with another
  call's refusal; the index and the allowed set come from one list.
- `BlockedNeverReaches`, `AuditTellsTheTruth`: relate the log with ArgoCD's own
  history, for every loss, delay, repetition and for a process killed at any
  moment.
- `WritesAtMostOnce`: counts what ArgoCD has done, over retries and late
  deliveries.
- `LoggedUserIsForwarded`: the two readers of the caller's token agree.
- `ImplementsAccess` (refinement): a permitted call that is blocked, by a list, a
  spelling or an order of the checks, as well as one that is admitted without payment,
  to a forbidden write or, with a plain path, out of scope; a second write; a record that does not fit. The invariants
  above would be kept by a server that blocks everything, this is not.
- `BooksBalance`: what a user has left and what his calls have drawn is what he was
  given, over every way a call can end.
- `LimitIsOwn`, `ReachingIsPaidFor`: a refusal is paid for by the same caller's
  calls, and so is everything that reaches ArgoCD.
- `EveryCallEnds` (liveness): ArgoCD may never answer.
- `CleanExitCutsNobody`: an exit status of 0 with a request cut off, or of an HTTP
  server that nobody has told to stop.
- `FirstCallIsAdmitted`, `DefaultBurstRefillsInTime`: a default burst of 0, which
  refuses every call (the premise is that the burst was set or that an int can hold the
  rate: the run has rates on both sides of the largest int), or one that is so large for its rate that the limiter forgets
  a user before the bucket has refilled: the premise `EvictionIsSlow` of the quota,
  which the run `limiter_slow_rate` shows to be needed.
- `SomebodyIsForwarded`: a combination of transport, mode and token that passes the
  validation and leaves calls without any token.
- `ListenerFailureIsReported`, `SignalEndsHTTP` (liveness): a process that goes on
  without its listener; a signal that is lost between the phases of the start and
  the select. The index is excepted: it may hang, and then no signal ends it.
- `OneToolPerEndpoint`: two operations behind one name, one of which would be
  replaced. Its premise `NoNameLooksNumbered` is needed: a list, a second list and
  an operation called "..._list_2" give two tools only.
- `CallDoesWhatWasListed`: a name that stands for another operation after a
  restart. Its premise `NamesDifferOnAPath` is needed: the operations of one path
  come in another order, and the suffixes with them.
- `StringArgumentsArrive`: two calls whose arguments mean different things and that
  become the same request, or a complete one that is refused. What an argument of a body's
  property means is its converted value, as a number may be written with quotes or a zero
  as null. Excepted are braces in a value, as the handler takes them for placeholders,
  slashes in one for the path, which make one path of several pairs of arguments, and the
  empty string, which `GetString` cannot tell from no argument.
- `TokensAreIDTokens`: an id_token that is passed over, or scopes for which Dex adds
  none, so that a client holds an opaque access_token though Dex has withheld nothing.
- `LoginIsLostOnlyWithTheCode` (action property), `LoginSucceeds` (liveness): a
  client that is sent back to its user although its code is good; one that never gets
  in.
- `ImplementsSessions` (refinement): a call with another client's token, or with that of
  the user who has come after the one who sent it; a login that a restart undoes.

**Bounds.** In the limiter two callers are enough for every race of the code: a
caller with a caller on one entry, and a caller with the cleanup; each race has
two parties. `MaxClock` is large enough for an entry to be made, to expire, to
be evicted and made again (TTL + 2 · MaxStall + 1 ticks) within an open window. In
`ToolCalls` the calls meet only in the rate limiter and in
`DiscoveredIsExecutable`, which relates two; `calls_limit` has three calls so
that two users can compete, one of them with himself. `MaxSends = 2` is one
repetition; `MaxRefills = 1` one token that comes back. The Swagger document has
a read and a write on one path with a placeholder, a read with another tag and
without an operationId, a key of a path item that is no method, and an operation that is not
well formed. The requests are one per branch of the handlers, one that does not parse as a
URL, one with an escaped space, and a generated tool's with a slash in its argument.
In `Lifecycle` two signals are one before and one after anything; the environments
combine what `Load` relates (transport, mode and token; rate and burst; index,
filters and transport) and give every other variable each of its values. In
`GeneratedTools` five operations are enough for three that share a name and one
whose name looks like the third's. In
`OAuthFlow` two mishaps are any two of a login, as an answer that is lost after Dex has
spent the code and a restart during the next attempt; clients meet only in the server,
which keeps nothing, so that two are enough. `MaxInt = 10` in `Lifecycle` puts rates
that fit and rates that do not into the run; the theorems have it as a parameter.

**Deadlock** is checked in `RateBudget` and `RateLimiter` (whose observer always can
move), in `GeneratedTools` and in `OAuthFlow`. In `ToolCalls` and `Lifecycle` it is
off: the process exits, and with it everything stops.

**Fairness.** `RateLimiter`: weak fairness of `Tock` and `Evict`, since the
ticker fires for ever and no critical section blocks; `ExpiredIsReclaimed`
excepts a cancelled context, after which the goroutine returns. `ToolCalls`: weak fairness of
`Handler(c)`, because a goroutine is scheduled and the HTTP client has a timeout
of 30 seconds (gateway.go:35), so that `GiveUp` will be taken if no answer
comes. Nothing is assumed of ArgoCD, of the network or of Ollama: a vector search may wait for
ever, as search_vector.go:84 has no time limit, and `EveryCallEnds` excepts it.
`Lifecycle`: weak fairness of `Main`, what the main goroutine does by itself or within
a time limit (the fetch 30 seconds, server.go:41; the drain 5, server.go:230), and of
the cleanup goroutine's return. Ollama, the clients, the listener and those who
send signals owe nothing; `signal_lost` assumes that Ollama answers, to show that
the signal is lost even so. `OAuthFlow`: weak fairness of `Login(c)` — a client that
wants in goes on, its user logs in, Dex answers or HandleToken's client gives up
after 15 seconds (token.go:18) — and no more than `MaxFaults` mishaps; a login
under endless mishaps, or at a Dex that refuses every code, need not succeed. Nothing is
assumed of calls, of their answers or of expiry.

## 4. Disagreements found

- The limiter drops an entry after 10 minutes without a call whether or not its
  bucket has refilled (limiter.go:112). If RATE_LIMIT_BURST/RATE_LIMIT exceeds
  10 minutes, a user gets more than the rate README.md:339 promises
  (`limiter_slow_rate`). `EvictionIsSlow` states the premise under which the
  quota holds, and `DefaultBurstRefillsInTime` that the default burst meets it.
- `execute_operation` with missing arguments or unreadable query_params is not
  logged, contrary to README.md:377 (`calls_unlogged`). The second of the two
  has been charged to the rate limit.
- A stdio server that is told to stop while it starts does not (`signal_lost`):
  `NotifyContext` swallows the signal and `runStdio` never looks at the context
  (server.go:155), although that is "tied to SIGTERM/SIGINT for graceful shutdown"
  (server.go:32). An index that hangs makes any server deaf (server.go:180).
- Arguments of a generated tool that are declared boolean or number are dropped
  unless they are sent as strings (`typed_args`): a sync with `dryRun: true`, as
  README.md:312 shows it, is sent without.

Read off the code while modelling, without a run:

- In static token mode the record's user is "static-token", and not empty as
  README.md:385 says.
- OAuth users without an email claim share one bucket, contrary to
  README.md:343; `LimitsAreOwn` has the premise `EmailsTellApart`.
- The default of SERVER_BASE_URL is "http://localhost" followed by MCP_ADDR
  (config.go:133), which is not "http://localhost:{port}" (config.go:26) when
  MCP_ADDR names a host.
- RATE_LIMIT=NaN passes the validation and makes a limiter that refuses every call. So
  may RATE_LIMIT=1e19 or Inf without RATE_LIMIT_BURST: `int(math.Ceil(x))` overflows
  (config.go:136), on some machines to the smallest int. `FirstCallIsAdmitted` has the
  premise that an int can hold the rate.
- ALLOWED_RESOURCES is enforced on the path as it is written (filter.go:54) and, for
  generated tools, when they are registered only. The arguments that go into the path
  are not escaped (generator.go:112), and the path is parsed again behind ArgoCD's
  address (gateway.go:146), so that the operation that is served need not be the one
  that was checked. `InScope` and `ScopeHolds` have the premise `Plain`.
- A token answer that is no JSON, or has no id_token, is passed on with status 200
  (token.go:72, 79): the client is not told that the login has failed.
- The check for an empty list of endpoints (server.go:50) comes before the filters: a
  misspelt ALLOWED_RESOURCES starts a server without a single operation.

## 5. What is proved

All theorems hold for every value of the constants that satisfies the named
assumptions: any finite or infinite sets of callers and keys, any burst, rate,
stall and TTL, any environments, documents and clients.

- `RateBudgetProofs`: `TypeCorrect`, `AccountsBalance` and `QuotaHolds`.
  `QuotaInAnyWindow` is not inductive, as it does not say where the tokens that were
  not spent have gone; `Accounts` adds `level`, is inductive, and implies it
  because `level` is never negative.
- `RateLimiterProofs`: `TypeCorrect` (no premise but the assumptions on the
  constants). Under `EvictionIsSlow` (Capacity + 2 · MaxStall ≤ TTL):
  - `InvHolds`: the inductive invariant. That a caller holds the mapped entry
    needs that its entry cannot expire meanwhile, which needs that lastSeen is
    no older than the caller's `now` less a stall (`HeldEntryIsFresh`: another caller of the key
    may set it back), that the call itself is recent (`CallsAreRecent`) and that evict compares
    with a time in the past.
  - `EvictionStaysInvisible`: the last time a bucket was drawn upon is at most
    two stalls after lastSeen (`EntriesInOrder`), so that an expired entry has
    had Capacity ticks to refill.
  - `Implementation`: `Spec => Budget!Spec`, one lemma per action; then
    `QuotaHolds` follows from the theorem about `RateBudget` and is not proved again.

- `ToolCallsProofs`: every safety property of `ToolCalls` that a passing run checks,
  for any finite set of calls and any document, requests, tokens and configurations.
  - `CallsInOrder`: the inductive invariant `Inv`, a conjunction over the calls of
    `NothingYet` (before the request is sent nothing has happened outside the
    handler), `Checked` (what is sent has passed the checks), `ServedAsAsked` (what
    ArgoCD has handled is what the call asks, again only if net/http may repeat
    it), `Concluded` (the outcome says what became of it) and `Logged` (exactly
    that is in the log). None of the properties is inductive alone: that a blocked call never reaches
    ArgoCD, say, needs that its wire is untouched and that no step takes it from
    `audit` back to `params`. `OneAtATime` says that a step touches one call, so that
    each conjunct is proved for the call that moves.
  - From it follow `ReadOnlyHolds`, `ScopeHolds`, `DiscoveryHolds`,
    `BlockedStaysOut`, `AuditHolds`, `NoSecondWrite` and `IdentityIsLogged` without
    another look at the actions.
  - `BooksHold` counts: a call is charged by its admission, once and for good
    (`ChargeStep`); `PaidFor` follows, since only charged calls reach ArgoCD.
  - `LimitsAreOwn` has the premise `EmailsTellApart` (every token has an email claim of
    its own).

- `ToolAccessProofs`: `AccessImplemented` is the refinement `Spec => ImplementsAccess`,
  with one lemma per abstract action: `ArriveIsRequest`, `ReturnIsKeep` (searches, missing arguments,
  blocked and limited calls), `AdmissionIsAdmit`, `HandlingIsAct`, `AuditIsReport`,
  `RefillIsTime`; and `PassageIsUnseen` for what lies between. That nobody is admitted
  to what is forbidden is `CheckedIsPermitted`, on which `ReadOnlyHolds` and `ScopeHolds`
  rest too: the handler's checks, and for generated tools the filters at startup and
  `SubstitutedMatches`, imply what is said of the document and, where the path is plain,
  of the path that ArgoCD serves. That nobody is kept without a reason is
  `PermittedIsNotForbidden`: no filter loses a permitted operation. The rest is `Inv`: who has a
  request on the wire has been charged (`SentIsCharged`), a write is sent once, and a
  record is that of the outcome.

- `LifecycleProofs`: `ProcessInOrder` is the inductive invariant, one lemma per group
  of actions and one for the end of the process in all its forms (`FinishInv`).
  `CleanExits` needs of it that requests are open only in the phases `http` and
  `drain` and that the drain has been ordered; `FirstCalls`, `DefaultsRefill` and
  `SomeToken` that a configuration is what `Load` makes of a legal environment, and
  then reason about `Load` (`CeilBounds`), for every number, every `MaxInt` and every
  outcome of an overflow.

- `GeneratedToolsProofs`: every property of `GeneratedTools` that a passing run checks.
  - `NamesInOrder`: the loop invariant of `DeduplicateNames`, for any document and
    order. `seen` is exactly how often a name has occurred and the n-th occurrence has
    the number n (`LoopInv`); and what a client has been told is what the document alone
    says (`NameByPath`), whatever order the process had then.
  - `ToolsAreDistinct`: numerals differ (`NumeralAssumption`), no name looks numbered, so
    that every name belongs to one endpoint and `AddTool` replaces nothing.
  - `ListedToolsStay`: where the operations of one path have different names, the
    occurrences of a name up to an endpoint are the endpoints of this name whose path comes
    no later, in whatever order of `ParseSpec`; the number is their count, and the same
    before and after a restart.
  - `ArgumentsArrive`: a parameter's placeholder stays in the path until its own turn and
    its value stays there to the end (`PathIsFilled`), as values without
    braces are no placeholders, so that a complete request is sent (`PlainIsSent`); where no
    value has a slash the values can be read off the path (`JoinedAssumption`,
    `SentPathIsSlots`); query and body keep each argument under its name, by its text or by
    its converted value (`ArgumentIsInRequest`); so arguments that mean different things
    make different requests (`RequestsDiffer`).
  - The path and the list of parameters are recursive functions over the numbers.
    `NaturalRecursion` has what is needed to reason about them without a theorem that
    takes an operator: induction is stated of a set of numbers (`Induction`, from
    `LeastElement`), and `Recursion` says that a recursive definition has a function that
    satisfies it.

- `OAuthFlowProofs`: `FlowInOrder`, the inductive invariant, gives `IDTokensOnly` (an
  answer without an id_token means that Dex has withheld it, which needs that what Dex was
  asked for holds openid) and `LoginIsKept` (a refusal means a void code), and the
  refinement `SessionsImplemented`: `ReplyTokens` is `LogIn`, or nothing for an opaque token
  (`RepliesLogIn`); `SendCall` is `Call`, `ArgoHandles` is `Serve`, and `CallIsLost` and
  `ExpireCall` are `Lapse` (`CallChanges`, `CallLapses`, `CallsKeepTheirName`); `Forget` and
  `Expire` are `End` (`LossEnds`, `ExpiryEnds`); `Restart` is `Lapse` of the calls that had
  not been forwarded (`RestartLapses`); everything else is nothing (`KeptSessions`). No step
  needs that a call's client still holds the token the call carries.

Assumptions: `BudgetAssumption`, `BucketAssumption` and `LimiterAssumption` (ranges of
the numbers), `DocAssumption` and `RequestsAssumption` (the shapes of documents,
requests and configurations), `UsersAssumption` (tokens are strings other than the
static token), `BoundsAssumption` (finitely many calls), `ReadingAssumption` (ArgoCD reads paths as
paths), `MaxIntAssumption` and `LifecycleAssumption` (numbers are integers, an overflow makes
an int), `ToolsAssumption` (documents are finite, operationIds are words, paths are ordered, a path
parameter has its placeholder in the path, as Swagger demands), `BracedAssumption`
(different parameters have different placeholders, which hold a brace), `JoinedAssumption`
(texts without slashes can be read off the path they make), `NumeralAssumption` (different
numbers are written differently), and of `OAuthFlow`
`UsersAssumption` (nobody is no user) and `FaultsAssumption`.

Only model-checked: the liveness properties `ExpiredIsReclaimed`,
`EveryCallEnds`, `ListenerFailureIsReported`, `SignalEndsHTTP` and `LoginSucceeds`, as
fairness and ENABLED are outside the prover. Every other property of a passing run
is stated by a theorem.

## 6. What is not modelled, and why

- Float rounding in x/time/rate; the period of the ticker.
- The representation of bodies and answers, descriptions, annotations, wording.
- What `net/url` and ArgoCD make of a path, character by character: `ReadAs` is any
  function. A value that itself contains a placeholder is in `GeneratedTools`, whose `PathOf`
  fills parameter by parameter; `Substituted` in `ToolCalls` fills them at once.
- The error of `assembleBody` (generator.go:124-127): all that it marshals is a string, a
  boolean, or has just been read as JSON, so that nothing can cause it.
- The 500 of HandleToken (token.go:36-40): it needs an ArgoCD address that does not
  parse, for which HandleAuthorize has answered 500 before.
- Ranking of search results (search.go:28-70, chromem's cosine similarity): what a search
  returns is some set of loaded endpoints, which is all that other parts rely on.
- Splitting CamelCase into words (naming.go:45-77): operationIds come as words.
- PKCE values, redirect URIs and states, which pass from the client to Dex unchanged;
  refresh tokens: the metadata offer the grant authorization_code only (metadata.go:32).
- The requests of a stdio client in `Lifecycle`.
- `RateLimiter` and `ToolCalls` in one state space: `ToolCalls` reckons with a budget of whole
  calls for each user, which `AdmitCall` draws upon in one step; that overlapping calls of
  `Allow` amount to that is `ImplementsBudget`, in ticks.
- URLs: the default of SERVER_BASE_URL, the address of the document.
- Prompts, Helm chart, CI, images: no behaviour of their own.

## 7. Plan

Done, in this order: `TokenBucket`, `RateLimiter`, `RateBudget` and the refinement;
`Endpoints` and `ToolCalls` with their proofs; `ConfigLoad` and `Lifecycle`;
`GeneratedTools`; `OAuthFlow` and `Sessions`, each with its proofs; the abstract
specification `ToolAccess` with its refinement, and the
theorems on restarts and arguments; paths as ArgoCD reads them, every answer of Dex, and
calls that outlive their sessions.

Left, by what it would add:

1. A bound of the calls that reach ArgoCD per second of clock time, from `ReachingIsPaidFor`
   and `QuotaInAnyWindow`; it needs a clock in `ToolCalls`.
2. An abstract specification of `Lifecycle`: what a signal may and may not do, with the
   phases of the start as its refinement.
3. Search: the limit of 20 results and ties, which an unstable sort breaks
   differently from call to call.
