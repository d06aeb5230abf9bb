----------------------------- MODULE ToolCalls -----------------------------
(***************************************************************************)
(* The path of a tool call through the server, from the client's request   *)
(* to its reply: the handlers of internal/gateway/tools.go (search mode)   *)
(* and internal/toolgen/generator.go (generated mode), the rate limiter,   *)
(* Gateway.Execute, the audit log, ArgoCD and the shutdown of the process. *)
(*                                                                         *)
(* Every call is a goroutine of its own.  ArgoCD and the network are       *)
(* external: a request or its answer may be lost or late, ArgoCD may act   *)
(* upon a request nobody waits for any more, and net/http sends some       *)
(* requests again.  Of bodies and answers only what the handlers decide    *)
(* upon is kept.                                                           *)
(*                                                                         *)
(* A path is written by the caller, or put together from a template and    *)
(* the caller's texts; it is checked, and logged, as it is written.        *)
(* net/url reads it again, and so does ArgoCD: slashes, escapes, dots and  *)
(* question marks within a text make another path of it.                   *)
(***************************************************************************)
EXTENDS Endpoints, FiniteSets

CONSTANTS
  Calls,      \* the tool calls
  Requests,   \* what clients may ask for
  Tokens,     \* the bearer tokens of OAuth users
  EmailOf,    \* EmailOf[t]: the email claim of token t, or NoEmail
  NoEmail,
  Configs,    \* the configurations the server may be started with
  ReadAs,     \* of each written path that parses as a URL, the path ArgoCD serves
  Burst,      \* calls a full rate limit bucket admits
  MaxRefills, \* bound of the model: tokens a bucket gets back
  MaxSends    \* bound of the model: times net/http sends one request

NoToken == "none"
StaticToken == "ARGOCD_TOKEN"
StaticUser == "static-token"

\* The requests of the three kinds of tools.  A string argument that is missing
\* is "missing", and so is a path without segments.
Request ==
  [tool : {"search_operations"}]
    \union [tool : {"execute_operation"}, method : STRING, path : Seq(STRING),
            params : {"valid", "invalid"}]
    \union [tool : {"generated"}, endpoint : Endpoint, args : [PathParams -> STRING]]

Config ==
  [disableWrite : BOOLEAN, allowed : SUBSET STRING, auditLog : BOOLEAN,
   rateLimit : BOOLEAN, authMode : {"token", "oauth"},
   toolMode : {"search", "generated"}, embeddings : BOOLEAN]

ASSUME RequestsAssumption == Requests \subseteq Request /\ Configs \subseteq Config

ASSUME UsersAssumption ==
  /\ Tokens \subseteq STRING \ {NoToken, StaticToken}
  /\ EmailOf \in [Tokens -> STRING]
  /\ NoEmail \in STRING

ASSUME ReadingAssumption == \A p \in DOMAIN ReadAs : ReadAs[p] \in Seq(STRING)

ASSUME BoundsAssumption ==
  IsFiniteSet(Calls) /\ Burst \in Nat /\ MaxRefills \in Nat /\ MaxSends \in Nat \ {0}

VARIABLES
  config,   \* config.Config, as far as the handlers depend on it
  process,  \* "serving", "draining" (SIGTERM was received) or "exited"
  pc,       \* where the handler of each call is
  request,  \* the CallToolRequest of each call
  token,    \* the bearer token in each call's context, or NoToken
  outcome,  \* what the handler is about to log and to reply
  found,    \* the endpoints a search has returned
  wire,     \* the call's HTTP request: "none", "sent", "answered" or "lost"
  handled,  \* what ArgoCD has handled on behalf of each call
  audit,    \* the audit records of each call
  budget,   \* rate limit tokens left to each user
  refilled  \* observer: tokens each user's bucket got back

handlerVars == <<request, token, outcome, found>>
argoVars == <<wire, handled>>
limitVars == <<budget, refilled>>
vars == <<config, process, pc, handlerVars, argoVars, audit, limitVars>>

-----------------------------------------------------------------------------
(* Configuration and users *)

\* What Run makes of the Swagger document: the endpoints that are indexed,
\* generated and, with ALLOWED_RESOURCES, allowed.
Loaded ==
  FilterByTags(IF config.disableWrite THEN FilterReadOnly(ParseSpec) ELSE ParseSpec,
               config.allowed)

\* Mutant of Scoped: requests are checked against all that was parsed.
ScopedByAll(method, path) ==
  config.allowed = {} \/ IsAllowed(NewAllowedEndpoints(ParseSpec), method, path)

\* Mutant of Scoped: a method is compared as it is written.
ScopedAsWritten(method, path) ==
  config.allowed = {} \/
    \E p \in NewAllowedEndpoints(Loaded) :
      p.method = method /\ MatchSegments(p.segments, path)

\* A nil set of allowed endpoints allows everything.
Scoped(method, path) ==
  config.allowed = {} \/ IsAllowed(NewAllowedEndpoints(Loaded), method, path)

\* Mutant of IsWriteMethod: a method is compared as it is written.
IsWriteAsWritten(method) == method \in WriteMethods

IsWriteMethod(method) == Upper(method) \in WriteMethods

\* Mutant of UserFromContext: there is one bucket for everybody.
OneUser(t) == StaticUser

UserFromContext(t) ==
  IF t = NoToken THEN StaticUser
  ELSE IF EmailOf[t] = NoEmail THEN StaticUser ELSE EmailOf[t]

Users == {UserFromContext(t) : t \in Tokens \union {NoToken}}

\* Mutant of TokenFor: the server's own token is preferred.
TokenForServer(t) == StaticToken

\* The user's token, or else the static one.
TokenFor(t) == IF t = NoToken THEN StaticToken ELSE t

-----------------------------------------------------------------------------
(* Requests *)

IsSearch(r) == r.tool = "search_operations"

IsExecute(r) == r.tool = "execute_operation"

IsGenerated(r) == r.tool = "generated"

\* GenerateAll makes no tool of an endpoint without an operationId, and looks
\* at DISABLE_WRITE once more.
Generated ==
  {ep \in Loaded :
    ep.operationId # "" /\ ~ (config.disableWrite /\ IsWriteMethod(ep.method))}

Registered(r) ==
  IF config.toolMode = "generated"
    THEN IsGenerated(r) /\ r.endpoint \in Generated
    ELSE IsSearch(r) \/ IsExecute(r)

\* The path of a generated tool, with the texts the caller gave in the places of
\* their placeholders, as they are; an empty one is none.
Substituted(path, args) ==
  [i \in DOMAIN path |->
     IF path[i] \in PathParams /\ args[path[i]] # "" THEN args[path[i]] ELSE path[i]]

\* The path as it is written, between its slashes: what is checked and logged.
PathOf(r) == IF IsExecute(r) THEN r.path ELSE Substituted(r.endpoint.path, r.args)

MethodOf(r) == IF IsExecute(r) THEN r.method ELSE r.endpoint.method

\* What the audit log names: execute_operation logs the method in upper case.
LoggedMethod(r) == IF IsExecute(r) THEN Upper(r.method) ELSE r.endpoint.method

\* The arguments handleExecute insists upon, before anything else.
MissingArguments(r) == IsExecute(r) /\ (r.method = "missing" \/ r.path = <<>>)

\* The arguments that are looked at only after the rate limit: query_params
\* that are no JSON object, a placeholder nobody filled in.  The body of a
\* generated tool cannot fail to be marshalled (generator.go:124): all that is in
\* it is a string, a boolean, or has just been read as JSON.
InvalidArguments(r) ==
  IF IsExecute(r) THEN r.params = "invalid"
  ELSE \E i \in DOMAIN PathOf(r) : PathOf(r)[i] \in PathParams

\* buildURL cannot parse the path behind ArgoCD's address.
Unsendable(r) == PathOf(r) \notin DOMAIN ReadAs

\* ArgoCD reads the path as it is written.
Plain(r) == ~ Unsendable(r) /\ ReadAs[PathOf(r)] = PathOf(r)

\* net/http: a request without a method is a GET.
SentMethod(m) == IF m = "" THEN "GET" ELSE Upper(m)

\* net/http sends a request again when the connection broke before an answer,
\* if its method is one of these.
Replayable(m) == SentMethod(m) \in {"GET", "HEAD", "OPTIONS", "TRACE"}

NoOutcome == [kind |-> "none", status |-> 0]
Blocked == [kind |-> "blocked", status |-> 0]
Refused == [kind |-> "refused", status |-> 0]
Failed == [kind |-> "error", status |-> 0]
Answered(s) == [kind |-> "answered", status |-> s]
FoundSome == [kind |-> "found", status |-> 0]

Statuses == {200, 403}

-----------------------------------------------------------------------------
Init ==
  /\ config \in Configs
  /\ process = "serving"
  /\ pc = [c \in Calls |-> "ready"]
  /\ request = [c \in Calls |-> [tool |-> "none"]]
  /\ token = [c \in Calls |-> NoToken]
  /\ outcome = [c \in Calls |-> NoOutcome]
  /\ found = [c \in Calls |-> {}]
  /\ wire = [c \in Calls |-> "none"]
  /\ handled = [c \in Calls |-> <<>>]
  /\ audit = [c \in Calls |-> <<>>]
  /\ budget = [u \in Users |-> Burst]
  /\ refilled = [u \in Users |-> 0]

Goto(c, from, to) ==
  /\ process # "exited"
  /\ pc[c] = from
  /\ pc' = [pc EXCEPT ![c] = to]

\* A client calls a registered tool.  In OAuth mode the middleware has put the
\* client's token into the context; in token mode there is none.
Arrive(c, r, t) ==
  /\ Goto(c, "ready", "called")
  /\ Registered(r)
  /\ (t = NoToken) <=> (config.authMode = "token")
  /\ request' = [request EXCEPT ![c] = r]
  /\ token' = [token EXCEPT ![c] = t]
  /\ UNCHANGED <<config, process, outcome, found, argoVars, audit, limitVars>>

Conclude(c, o) == outcome' = [outcome EXCEPT ![c] = o]

-----------------------------------------------------------------------------
(* The handlers: handleSearch, handleExecute and those buildHandler makes *)

\* The keyword search cannot fail; the vector search asks Ollama.
SearchReturns(c) ==
  /\ Goto(c, "called", "audit")
  /\ IsSearch(request[c])
  /\ \E results \in SUBSET Loaded : found' = [found EXCEPT ![c] = results]
  /\ Conclude(c, FoundSome)
  /\ UNCHANGED <<config, process, request, token, argoVars, audit, limitVars>>

SearchFails(c) ==
  /\ config.embeddings
  /\ Goto(c, "called", "audit")
  /\ IsSearch(request[c])
  /\ Conclude(c, Failed)
  /\ UNCHANGED <<config, process, request, token, found, argoVars, audit, limitVars>>

\* Without its arguments a call is refused, and not logged.
RefuseArguments(c) ==
  /\ Goto(c, "called", "reply")
  /\ MissingArguments(request[c])
  /\ Conclude(c, Refused)
  /\ UNCHANGED <<config, process, request, token, found, argoVars, audit, limitVars>>

Forbidden(r) ==
  /\ IsExecute(r)
  /\ \/ config.disableWrite /\ IsWriteMethod(r.method)
     \/ ~ Scoped(r.method, r.path)

\* DISABLE_WRITE and ALLOWED_RESOURCES, in execute_operation only: the generated
\* tools have been filtered.
Block(c) ==
  /\ Goto(c, "called", "audit")
  /\ ~ MissingArguments(request[c])
  /\ Forbidden(request[c])
  /\ Conclude(c, Blocked)
  /\ UNCHANGED <<config, process, request, token, found, argoVars, audit, limitVars>>

PassChecks(c) ==
  /\ Goto(c, "called", "limit")
  /\ ~ IsSearch(request[c])
  /\ ~ MissingArguments(request[c])
  /\ ~ Forbidden(request[c])
  /\ UNCHANGED <<config, process, handlerVars, argoVars, audit, limitVars>>

User(c) == UserFromContext(token[c])

\* Mutant of AdmitCall: the bucket is looked at, and not drawn upon.
AdmitUncharged(c) ==
  /\ Goto(c, "limit", "params")
  /\ config.rateLimit => budget[User(c)] > 0
  /\ UNCHANGED <<config, process, handlerVars, argoVars, audit, limitVars>>

\* limiter.Allow(user) is true.  With RATE_LIMIT=0 the limiter is a noopLimiter.
AdmitCall(c) ==
  /\ Goto(c, "limit", "params")
  /\ IF config.rateLimit
       THEN budget[User(c)] > 0 /\ budget' = [budget EXCEPT ![User(c)] = @ - 1]
       ELSE UNCHANGED budget
  /\ UNCHANGED <<config, process, handlerVars, argoVars, audit, refilled>>

\* Mutant of LimitCall: the call is logged as blocked, and goes on.
LimitCallInName(c) ==
  /\ Goto(c, "limit", "params")
  /\ config.rateLimit /\ budget[User(c)] = 0
  /\ audit' = [audit EXCEPT ![c] = Append(@,
       [user |-> User(c), method |-> LoggedMethod(request[c]), blocked |-> TRUE,
        failed |-> FALSE, status |-> 0])]
  /\ UNCHANGED <<config, process, handlerVars, argoVars, limitVars>>

LimitCall(c) ==
  /\ Goto(c, "limit", "audit")
  /\ config.rateLimit /\ budget[User(c)] = 0
  /\ Conclude(c, Blocked)
  /\ UNCHANGED <<config, process, request, token, found, argoVars, audit, limitVars>>

\* Refused after the rate limit took its token, and not logged.
RefuseParams(c) ==
  /\ Goto(c, "params", "reply")
  /\ InvalidArguments(request[c])
  /\ Conclude(c, Refused)
  /\ UNCHANGED <<config, process, request, token, found, argoVars, audit, limitVars>>

-----------------------------------------------------------------------------
(* Gateway.Execute *)

\* http.Client.Do puts the request on the wire.
Send(c) ==
  /\ Goto(c, "params", "waiting")
  /\ ~ InvalidArguments(request[c])
  /\ ~ Unsendable(request[c])
  /\ wire' = [wire EXCEPT ![c] = "sent"]
  /\ UNCHANGED <<config, process, handlerVars, handled, audit, limitVars>>

\* Nothing is sent.
BuildFails(c) ==
  /\ Goto(c, "params", "audit")
  /\ ~ InvalidArguments(request[c])
  /\ Unsendable(request[c])
  /\ Conclude(c, Failed)
  /\ UNCHANGED <<config, process, request, token, found, argoVars, audit, limitVars>>

LastOf(s) == s[Len(s)]

ReceiveAnswer(c) ==
  /\ Goto(c, "waiting", "audit")
  /\ wire[c] = "answered"
  /\ Conclude(c, Answered(LastOf(handled[c]).status))
  /\ UNCHANGED <<config, process, request, token, found, argoVars, audit, limitVars>>

\* Mutant of GiveUp: the HTTP client has no timeout.
GiveUpOnLoss(c) ==
  /\ Goto(c, "waiting", "audit")
  /\ wire[c] = "lost"
  /\ Conclude(c, Failed)
  /\ UNCHANGED <<config, process, request, token, found, argoVars, audit, limitVars>>

\* No answer within 30 seconds, a broken connection, a caller who has gone
\* (the context is cancelled), an answer that breaks off or exceeds 10 MB.
GiveUp(c) ==
  /\ Goto(c, "waiting", "audit")
  /\ Conclude(c, Failed)
  /\ UNCHANGED <<config, process, request, token, found, argoVars, audit, limitVars>>

-----------------------------------------------------------------------------
(* The audit record and the reply *)

Record(c) ==
  [user |-> User(c),
   method |-> IF IsSearch(request[c]) THEN "" ELSE LoggedMethod(request[c]),
   blocked |-> outcome[c].kind = "blocked",
   failed |-> outcome[c].kind = "error",
   status |-> outcome[c].status]

\* Mutant of Audit: an error returns before it is logged.
AuditSkipsErrors(c) ==
  /\ Goto(c, "audit", "reply")
  /\ audit' = IF config.auditLog /\ outcome[c].kind # "error"
                THEN [audit EXCEPT ![c] = Append(@, Record(c))]
                ELSE audit
  /\ UNCHANGED <<config, process, handlerVars, argoVars, limitVars>>

\* With AUDIT_LOG=false the handler passes by.
Audit(c) ==
  /\ Goto(c, "audit", "reply")
  /\ audit' = IF config.auditLog
                THEN [audit EXCEPT ![c] = Append(@, Record(c))]
                ELSE audit
  /\ UNCHANGED <<config, process, handlerVars, argoVars, limitVars>>

Reply(c) ==
  /\ Goto(c, "reply", "done")
  /\ UNCHANGED <<config, process, handlerVars, argoVars, audit, limitVars>>

-----------------------------------------------------------------------------
(* ArgoCD and the network: external *)

\* ArgoCD serves the path that it reads.
Served(c, s) ==
  [method |-> SentMethod(MethodOf(request[c])), path |-> ReadAs[PathOf(request[c])],
   token |-> TokenFor(token[c]), status |-> s]

\* ArgoCD does what it is asked, whether or not anybody still waits for it.
ArgoHandles(c, s) ==
  /\ wire[c] = "sent"
  /\ handled' = [handled EXCEPT ![c] = Append(@, Served(c, s))]
  /\ wire' = [wire EXCEPT ![c] = "answered"]
  /\ UNCHANGED <<config, process, pc, handlerVars, audit, limitVars>>

\* The connection the handler waits on breaks, with the request or with its answer.
Lose(c) ==
  /\ pc[c] = "waiting"
  /\ wire[c] \in {"sent", "answered"}
  /\ wire' = [wire EXCEPT ![c] = "lost"]
  /\ UNCHANGED <<config, process, pc, handlerVars, handled, audit, limitVars>>

\* Mutant of Resend: whatever the method, a lost request is sent again.
ResendAnything(c) ==
  /\ process # "exited"
  /\ pc[c] = "waiting"
  /\ wire[c] = "lost"
  /\ Len(handled[c]) < MaxSends
  /\ wire' = [wire EXCEPT ![c] = "sent"]
  /\ UNCHANGED <<config, process, pc, handlerVars, handled, audit, limitVars>>

\* net/http's own retry, while the client waits.
Resend(c) ==
  /\ process # "exited"
  /\ pc[c] = "waiting"
  /\ wire[c] = "lost"
  /\ Replayable(MethodOf(request[c]))
  /\ Len(handled[c]) < MaxSends
  /\ wire' = [wire EXCEPT ![c] = "sent"]
  /\ UNCHANGED <<config, process, pc, handlerVars, handled, audit, limitVars>>

-----------------------------------------------------------------------------
(* The rate limiter, and the process *)

\* A bucket regains a token: RateLimiter implements a budget per user.
Refill(u) ==
  /\ config.rateLimit
  /\ budget[u] < Burst
  /\ refilled[u] < MaxRefills
  /\ budget' = [budget EXCEPT ![u] = @ + 1]
  /\ refilled' = [refilled EXCEPT ![u] = @ + 1]
  /\ UNCHANGED <<config, process, pc, handlerVars, argoVars, audit>>

\* SIGTERM or SIGINT: the listener closes, and only calls whose connections had
\* been accepted may still arrive.
Shutdown ==
  /\ process = "serving"
  /\ process' = "draining"
  /\ UNCHANGED <<config, pc, handlerVars, argoVars, audit, limitVars>>

\* httpServer.Shutdown returns when the handlers have, or after 5 seconds.
Exit ==
  /\ process = "draining"
  /\ process' = "exited"
  /\ UNCHANGED <<config, pc, handlerVars, argoVars, audit, limitVars>>

\* What the goroutine of a call does by itself.
Handler(c) ==
  \/ SearchReturns(c) /\ ~ config.embeddings
  \/ RefuseArguments(c)
  \/ Block(c)
  \/ PassChecks(c)
  \/ AdmitCall(c)
  \/ LimitCall(c)
  \/ RefuseParams(c)
  \/ Send(c)
  \/ BuildFails(c)
  \/ ReceiveAnswer(c)
  \/ GiveUp(c)
  \/ Audit(c)
  \/ Reply(c)

Next ==
  \/ \E c \in Calls, r \in Requests, t \in Tokens \union {NoToken} : Arrive(c, r, t)
  \/ \E c \in Calls : Handler(c)
  \/ \E c \in Calls : SearchReturns(c) \/ SearchFails(c)
  \/ \E c \in Calls, s \in Statuses : ArgoHandles(c, s)
  \/ \E c \in Calls : Lose(c) \/ Resend(c)
  \/ \E u \in Users : Refill(u)
  \/ Shutdown
  \/ Exit

Spec == Init /\ [][Next]_vars

\* A goroutine is scheduled, and the client's 30 seconds pass.  A search that
\* waits for Ollama is not bounded by anything.
FairSpec == Spec /\ \A c \in Calls : WF_vars(Handler(c))

-----------------------------------------------------------------------------
(* Properties *)

Outcome ==
  {NoOutcome, Blocked, Refused, Failed, FoundSome} \union {Answered(s) : s \in Statuses}

Operations == {r \in Requests : ~ IsSearch(r)}

AuditRecord ==
  [user : Users, method : {""} \union {LoggedMethod(r) : r \in Operations},
   blocked : BOOLEAN, failed : BOOLEAN, status : Statuses \union {0}]

ServedRecord ==
  [method : {SentMethod(MethodOf(r)) : r \in Operations},
   path : {ReadAs[PathOf(r)] : r \in {q \in Operations : ~ Unsendable(q)}},
   token : Tokens \union {StaticToken}, status : Statuses]

TypeOK ==
  /\ config \in Configs
  /\ process \in {"serving", "draining", "exited"}
  /\ pc \in [Calls -> {"ready", "called", "limit", "params", "waiting", "audit",
                       "reply", "done"}]
  /\ request \in [Calls -> Requests \union {[tool |-> "none"]}]
  /\ token \in [Calls -> Tokens \union {NoToken}]
  /\ outcome \in [Calls -> Outcome]
  /\ found \in [Calls -> SUBSET ParseSpec]
  /\ wire \in [Calls -> {"none", "sent", "answered", "lost"}]
  /\ handled \in [Calls -> Seq(ServedRecord)]
  /\ audit \in [Calls -> Seq(AuditRecord)]
  /\ budget \in [Users -> 0 .. Burst]
  /\ refilled \in [Users -> 0 .. MaxRefills]

\* Why the properties below hold, as an inductive invariant of each call.
\* Before the request is sent nothing has happened outside the handler ...
NothingYet(c) ==
  /\ pc[c] \in {"ready", "called", "limit", "params"} => wire[c] = "none"
  /\ pc[c] = "waiting" => wire[c] # "none"
  /\ wire[c] = "none" => handled[c] = <<>>
  /\ pc[c] \in {"ready", "called", "limit", "params", "waiting"} =>
       outcome[c] = NoOutcome

\* ... it is sent only after the checks ...
Checked(c) ==
  /\ pc[c] # "ready" => request[c] \in Requests /\ Registered(request[c])
  /\ wire[c] # "none" \/ pc[c] \in {"limit", "params", "waiting"} =>
       /\ ~ IsSearch(request[c])
       /\ ~ MissingArguments(request[c])
       /\ ~ Forbidden(request[c])
  /\ wire[c] # "none" => ~ Unsendable(request[c])

\* ... ArgoCD does what it was asked in the caller's name, again only if net/http
\* may ask again ...
ServedAsAsked(c) ==
  /\ \A i \in DOMAIN handled[c] : \E s \in Statuses : handled[c][i] = Served(c, s)
  /\ wire[c] = "answered" => handled[c] # <<>>
  /\ Len(handled[c]) <= MaxSends
  /\ wire[c] = "sent" => Len(handled[c]) < MaxSends
  /\ wire[c] # "none" /\ ~ Replayable(MethodOf(request[c])) =>
       /\ Len(handled[c]) <= 1
       /\ wire[c] = "sent" => handled[c] = <<>>

\* ... the outcome says what has come of it ...
Concluded(c) ==
  /\ pc[c] = "audit" =>
       outcome[c].kind \notin {"none", "refused"} /\ ~ MissingArguments(request[c])
  /\ pc[c] \in {"reply", "done"} => outcome[c].kind # "none"
  /\ outcome[c].kind = "found" => IsSearch(request[c])
  /\ outcome[c].kind = "blocked" => wire[c] = "none" /\ ~ IsSearch(request[c])
  /\ outcome[c].kind = "answered" =>
       wire[c] = "answered" /\ outcome[c].status = LastOf(handled[c]).status

\* ... and exactly that is logged.
Logged(c) ==
  audit[c] = IF /\ pc[c] \in {"reply", "done"}
                /\ config.auditLog
                /\ outcome[c].kind # "refused"
               THEN <<Record(c)>>
               ELSE <<>>

CallInv(c) ==
  /\ NothingYet(c)
  /\ Checked(c)
  /\ ServedAsAsked(c)
  /\ Concluded(c)
  /\ Logged(c)
  /\ found[c] \subseteq Loaded

\* With the types: every call is somewhere on the one path from its checks to its
\* record, and a search has found what was loaded (tools.go:94-236,
\* generator.go:83-160).
Inv == TypeOK /\ \A c \in Calls : CallInv(c)

ServedFor(c) == {handled[c][i] : i \in DOMAIN handled[c]}

LoggedFor(c) == {audit[c][i] : i \in DOMAIN audit[c]}

\* With DISABLE_WRITE nothing that could change the cluster reaches ArgoCD, by
\* whichever tool, spelling or order of calls (README.md:220, tools.go:152).
ReadOnlyMode ==
  config.disableWrite =>
    \A c \in Calls : \A h \in ServedFor(c) : h.method \notin WriteMethods

\* With ALLOWED_RESOURCES, what ArgoCD is made to do is an operation of its API that
\* carries one of the tags (README.md:242, tools.go:168), if ArgoCD reads the path
\* as it is written.  The premise is needed: the patterns are compared with the
\* written path, and the path that a generated tool puts together with none.
InScope ==
  config.allowed # {} =>
    \A c \in Calls : \A h \in ServedFor(c) :
      Plain(request[c]) =>
        \E ep \in ParseSpec :
          /\ \E t \in ep.tags, a \in config.allowed : LowerOf[t] = LowerOf[a]
          /\ ep.method = h.method
          /\ MatchSegments(ep.path, h.path)

\* What one call's search has found, no other call is forbidden to execute: the
\* search index and the execute-time checks agree (server.go:55-74, 99-102).
DiscoveredIsExecutable ==
  \A c, d \in Calls :
    outcome[c].kind = "blocked" /\ Forbidden(request[c]) =>
      ~ \E ep \in found[d] :
          /\ ep.method = Upper(request[c].method)
          /\ MatchSegments(ep.path, request[c].path)

\* A call that is logged as blocked has not reached ArgoCD and never will: "the
\* call never reaches ArgoCD" (README.md:349).
BlockedNeverReaches ==
  \A c \in Calls :
    (\E a \in LoggedFor(c) : a.blocked) \/ outcome[c].kind = "blocked" =>
      wire[c] = "none" /\ handled[c] = <<>>

\* Whoever has a reply can find it in the log, be the server killed right after
\* it: one record per call, unless its arguments were refused; the record of an
\* answer is that of ArgoCD's last one to this very call, and a record without
\* one says blocked or failed.
AuditTellsTheTruth ==
  config.auditLog =>
    \A c \in Calls :
      /\ Len(audit[c]) <= 1
      /\ pc[c] = "done" /\ outcome[c].kind # "refused" => Len(audit[c]) = 1
      /\ \A a \in LoggedFor(c) :
           IF a.status # 0
             THEN /\ handled[c] # <<>>
                  /\ a.status = handled[c][Len(handled[c])].status
                  /\ ~ a.blocked /\ ~ a.failed
             ELSE a.blocked \/ a.failed \/ IsSearch(request[c])

\* A write is done at most once per call, whatever is lost, late or sent again:
\* the handlers do not retry, and net/http does not replay a write.
WritesAtMostOnce ==
  \A c \in Calls :
    Cardinality({i \in DOMAIN handled[c] : handled[c][i].method \in WriteMethods}) <= 1

\* ArgoCD sees the identity the log names: the two look at the caller's token
\* each in its own way (gateway.go:80-94, tools.go:241-251).
LoggedUserIsForwarded ==
  \A c \in Calls : \A a \in LoggedFor(c), h \in ServedFor(c) :
    a.user = UserFromContext(IF h.token = StaticToken THEN NoToken ELSE h.token)

\* The call has drawn upon the rate limit.
Charged(c) ==
  /\ request[c].tool \in {"execute_operation", "generated"}
  /\ \/ pc[c] \in {"params", "waiting"}
     \/ /\ pc[c] \in {"audit", "reply", "done"}
        /\ outcome[c].kind # "blocked"
        /\ ~ MissingArguments(request[c])

ChargedTo(u) == {c \in Calls : Charged(c) /\ User(c) = u}

\* The rate limit keeps its books: what a user has left and what all his calls have
\* drawn, refused, lost and overlapping ones included, is what he was given.
BooksBalance ==
  config.rateLimit =>
    \A u \in Users : budget[u] + Cardinality(ChargedTo(u)) = Burst + refilled[u]

\* A caller is rate limited only for calls made with the same token: "each user
\* has an independent limit" (README.md:343).
LimitIsOwn ==
  \A c \in Calls :
    outcome[c].kind = "blocked" /\ ~ Forbidden(request[c]) =>
      Cardinality({d \in Calls : Charged(d) /\ token[d] = token[c]}) >= Burst

\* The premise of LimitIsOwn: the tokens name their users, each another one.
EmailsTellApart ==
  \A t \in Tokens :
    /\ EmailOf[t] \notin {NoEmail, StaticUser}
    /\ \A s \in Tokens : EmailOf[s] = EmailOf[t] => s = t

\* Calls that reach ArgoCD have been paid for, also those that overlap and those
\* ArgoCD comes to only after their handlers have given up.
ReachingIsPaidFor ==
  config.rateLimit =>
    \A u \in Users :
      Cardinality({c \in Calls : handled[c] # <<>> /\ User(c) = u})
        <= Burst + refilled[u]

\* A tool call is replied to, even if ArgoCD never answers: the HTTP client's
\* timeout sees to it.  Only a search that waits for Ollama may hang, and the
\* process may exit first.
EveryCallEnds ==
  \A c \in Calls :
    pc[c] = "called" ~>
      \/ pc[c] = "done"
      \/ process = "exited"
      \/ IsSearch(request[c]) /\ config.embeddings

-----------------------------------------------------------------------------
(* What the calls implement *)

NoAsk == [kind |-> "none"]

KindOf(r) ==
  IF IsSearch(r) THEN "search" ELSE IF MissingArguments(r) THEN "malformed" ELSE "operation"

IsWrite(r) == Upper(MethodOf(r)) \in WriteMethods

\* What ALLOWED_RESOURCES lets through, said of the Swagger document and of the path
\* that ArgoCD serves, and not of the lists and of the path that are checked.
WithinScope(r) ==
  config.allowed # {} =>
    /\ ~ Unsendable(r)
    /\ \E ep \in ParseSpec :
         /\ \E t \in ep.tags, a \in config.allowed : LowerOf[t] = LowerOf[a]
         /\ ep.method = Upper(MethodOf(r))
         /\ MatchSegments(ep.path, ReadAs[PathOf(r)])

AskOf(c) ==
  LET r == request[c]
      isOperation == KindOf(r) = "operation"
  IN  IF pc[c] = "ready" THEN NoAsk
      ELSE [user |-> User(c), kind |-> KindOf(r), write |-> isOperation /\ IsWrite(r),
            plain |-> isOperation /\ Plain(r), inScope |-> isOperation /\ WithinScope(r)]

\* A call is admitted by its charge.
StageOf(c) ==
  IF pc[c] = "ready" THEN "new"
  ELSE IF pc[c] \in {"called", "limit"} THEN "asked"
  ELSE IF Charged(c) THEN "admitted" ELSE "kept"

Told(a) == IF a.blocked THEN "blocked" ELSE IF a.failed THEN "failed" ELSE "answered"

ReportsOf(c) == [i \in DOMAIN audit[c] |-> Told(audit[c][i])]

Access == INSTANCE ToolAccess WITH
  Owners <- Users,
  tokens <- budget,
  readOnly <- config.disableWrite,
  limited <- config.rateLimit,
  logging <- config.auditLog,
  asked <- [c \in Calls |-> AskOf(c)],
  stage <- [c \in Calls |-> StageOf(c)],
  acts <- [c \in Calls |-> Len(handled[c])],
  reports <- [c \in Calls |-> ReportsOf(c)]

\* The handlers, with their lists, their early returns and their lost connections,
\* admit what is paid for and writes nothing that must not be written, among the
\* plain paths those in scope and no others; they have a write done once and log
\* what has become of it (tools.go:94-236, generator.go:83-160).
ImplementsAccess == Access!Spec

-----------------------------------------------------------------------------
(* What the documentation says and the code does not do *)

\* "Every search_operations and execute_operation call emits a structured JSON
\* log entry" (README.md:377); handleExecute refuses arguments without one.
EveryCallIsLogged ==
  config.auditLog => \A c \in Calls : pc[c] = "done" => audit[c] # <<>>
=============================================================================
