----------------------------- MODULE OAuthFlow -----------------------------
(* internal/auth: how a client comes to a token that ArgoCD accepts, and    *)
(* how the token of a call comes to ArgoCD.                                 *)
(*                                                                         *)
(* The server keeps nothing between two requests: it answers /register with *)
(* its own client id, redirects /authorize to ArgoCD's Dex, hands /token    *)
(* through to Dex and swaps the id_token into the answer, and puts the      *)
(* bearer token of a call into the call's context.  Dex, ArgoCD, browsers,  *)
(* clients and the network are external.  Answers may be late, lost, broken *)
(* or refusals; the server may be started again at any moment; a call may   *)
(* outlive the session in which it was sent.  The grant is                  *)
(* authorization_code, the only one announced (metadata.go:32), and the     *)
(* base URL of ArgoCD is one that parses: with another, /authorize answers  *)
(* 500 and nobody comes to the 500 of /token.                               *)
EXTENDS Integers

CONSTANTS
  Clients,      \* MCP clients
  Users,        \* users of ArgoCD's Dex
  NoUser,
  DexClientID,  \* the client id that Dex knows
  ClientIDs,    \* the client ids that clients bring along
  Scopes,       \* the sets of scopes that clients ask for
  MaxFaults     \* bound on mishaps: lost, late, broken or refusing answers, restarts

ASSUME UsersAssumption == NoUser \notin Users

ASSUME FaultsAssumption == MaxFaults \in Nat

VARIABLES
  stage,     \* each client: "start", "registered", "redirected", "coded" or "ready"
  asked,     \* the client id and scopes that Dex has seen from the browser
  code,      \* the user a client's authorization code stands for
  void,      \* Dex gives no tokens for that code any more
  withheld,  \* Dex has left the id_token out, though it was asked for openid
  exchange,  \* POST /token: see Exchanges
  late,      \* Dex still has a token request on which the server has given up
  token,     \* the token a client holds
  call,      \* a client's call: where it is, its token, and as whom ArgoCD acted
  faults     \* mishaps so far

codeVars == <<code, void, late>>
loginVars == <<stage, asked, codeVars, withheld, exchange>>
vars == <<loginVars, token, call, faults>>

\* Nothing, a form that cannot be parsed, a request before Dex, and what may come
\* back: a JSON object with or without an id_token, 200 with something else, 4xx,
\* 5xx, or no answer that can be read.
Exchanges == {"none", "malformed", "sent", "id_token", "access_token", "unreadable",
              "refused", "unavailable", "lost"}

-----------------------------------------------------------------------------
NoToken == [kind |-> "none", user |-> NoUser, fresh |-> FALSE]

\* Dex's access_token, which means nothing to ArgoCD.
Opaque == [kind |-> "opaque", user |-> NoUser, fresh |-> FALSE]

IDToken(u) == [kind |-> "id", user |-> u, fresh |-> TRUE]

\* What ArgoCD accepts: an id_token that has not expired.
Accepted(t) == t.kind = "id" /\ t.fresh

\* As whom ArgoCD acts for a token.
Holder(t) == IF Accepted(t) THEN t.user ELSE NoUser

NothingAsked == [clientID |-> DexClientID, scope |-> {}]

NoCall == [at |-> "none", token |-> NoToken, as |-> NoUser]

Init ==
  /\ stage = [c \in Clients |-> "start"]
  /\ asked = [c \in Clients |-> NothingAsked]
  /\ code = [c \in Clients |-> NoUser]
  /\ void = [c \in Clients |-> FALSE]
  /\ withheld = [c \in Clients |-> FALSE]
  /\ exchange = [c \in Clients |-> "none"]
  /\ late = [c \in Clients |-> FALSE]
  /\ token = [c \in Clients |-> NoToken]
  /\ call = [c \in Clients |-> NoCall]
  /\ faults = 0

Fault == faults < MaxFaults /\ faults' = faults + 1

Goto(c, from, to) == stage[c] = from /\ stage' = [stage EXCEPT ![c] = to]

\* A client is done with its code: what becomes of it, or of late requests about it,
\* is of no interest any more.
DropCode(c) ==
  /\ code' = [code EXCEPT ![c] = NoUser]
  /\ void' = [void EXCEPT ![c] = FALSE]
  /\ late' = [late EXCEPT ![c] = FALSE]

-----------------------------------------------------------------------------
(* Login: register, authorize, token *)

\* A call without a token is answered with 401 and the address of the metadata,
\* which name /register; its answer is the client id that Dex knows.
Discover(c) ==
  /\ Goto(c, "start", "registered")
  /\ withheld' = [withheld EXCEPT ![c] = FALSE]
  /\ UNCHANGED <<asked, codeVars, exchange, token, call, faults>>

DexScopes == {"openid", "profile", "email", "groups", "offline_access"}

\* Mutant of Forwarded: the scopes are the client's.
ForwardedScope(id, scope) == [clientID |-> DexClientID, scope |-> scope]

\* Mutant of Forwarded: the client id is the client's.
ForwardedID(id, scope) == [clientID |-> id, scope |-> DexScopes]

\* What HandleAuthorize makes of the query: both are overridden.
Forwarded(id, scope) == [clientID |-> DexClientID, scope |-> DexScopes]

\* The client opens the browser at /authorize, with a client id and scopes of its
\* own choice, and the browser is redirected to Dex.
Authorize(c, id, scope) ==
  /\ Goto(c, "registered", "redirected")
  /\ asked' = [asked EXCEPT ![c] = Forwarded(id, scope)]
  /\ UNCHANGED <<codeVars, withheld, exchange, token, call, faults>>

\* A user logs in; Dex sends the browser back to the client with a fresh code.
LogIn(c, u) ==
  /\ Goto(c, "redirected", "coded")
  /\ asked[c].clientID = DexClientID
  /\ code' = [code EXCEPT ![c] = u]
  /\ UNCHANGED <<asked, void, late, withheld, exchange, token, call, faults>>

\* HandleToken sends the client's form on to Dex, with the client id that Dex knows.
PostToken(c) ==
  /\ stage[c] = "coded"
  /\ exchange[c] = "none"
  /\ exchange' = [exchange EXCEPT ![c] = "sent"]
  /\ UNCHANGED <<stage, asked, codeVars, withheld, token, call, faults>>

\* A form that HandleToken cannot parse goes nowhere.
PostMalformed(c) ==
  /\ stage[c] = "coded"
  /\ exchange[c] = "none"
  /\ Fault
  /\ exchange' = [exchange EXCEPT ![c] = "malformed"]
  /\ UNCHANGED <<stage, asked, codeVars, withheld, token, call>>

\* 400, and the client starts again.
RefuseForm(c) ==
  /\ exchange[c] = "malformed"
  /\ Goto(c, "coded", "start")
  /\ exchange' = [exchange EXCEPT ![c] = "none"]
  /\ DropCode(c)
  /\ UNCHANGED <<asked, withheld, token, call, faults>>

\* Dex takes a code once, and adds an id_token for the scope "openid".
DexExchanges(c) ==
  /\ exchange[c] = "sent"
  /\ exchange' = [exchange EXCEPT ![c] =
       IF void[c] THEN "refused"
       ELSE IF "openid" \in asked[c].scope THEN "id_token" ELSE "access_token"]
  /\ void' = [void EXCEPT ![c] = TRUE]
  /\ UNCHANGED <<stage, asked, code, late, withheld, token, call, faults>>

\* Dex leaves out an id_token for which it was asked.
DexWithholds(c) ==
  /\ exchange[c] = "sent"
  /\ ~ void[c]
  /\ "openid" \in asked[c].scope
  /\ Fault
  /\ exchange' = [exchange EXCEPT ![c] = "access_token"]
  /\ void' = [void EXCEPT ![c] = TRUE]
  /\ withheld' = [withheld EXCEPT ![c] = TRUE]
  /\ UNCHANGED <<stage, asked, code, late, token, call>>

\* Dex refuses a code that nobody has used: it has expired, or the client's proof
\* does not match.
DexRefuses(c) ==
  /\ exchange[c] = "sent"
  /\ Fault
  /\ exchange' = [exchange EXCEPT ![c] = "refused"]
  /\ void' = [void EXCEPT ![c] = TRUE]
  /\ UNCHANGED <<stage, asked, code, late, withheld, token, call>>

\* 5xx, or a page with status 200, of Dex or of what stands before it, whether or
\* not Dex has seen the code.
DexBreaks(c) ==
  /\ exchange[c] = "sent"
  /\ Fault
  /\ \E answer \in {"unavailable", "unreadable"} : exchange' = [exchange EXCEPT ![c] = answer]
  /\ \E seen \in BOOLEAN : void' = [void EXCEPT ![c] = @ \/ seen]
  /\ UNCHANGED <<stage, asked, code, late, withheld, token, call>>

\* Dex handles a request for which nobody waits any more.
DexExchangesLate(c) ==
  /\ late[c]
  /\ late' = [late EXCEPT ![c] = FALSE]
  /\ void' = [void EXCEPT ![c] = TRUE]
  /\ UNCHANGED <<stage, asked, code, withheld, exchange, token, call, faults>>

\* Mutant of Swapped: the access_token stays Dex's.
SwappedNot(c) == Opaque

\* The access_token of the answer: Dex's id_token, where there is one.
Swapped(c) == IF exchange[c] = "id_token" THEN IDToken(code[c]) ELSE Opaque

ReplyTokens(c) ==
  /\ exchange[c] \in {"id_token", "access_token"}
  /\ Goto(c, "coded", "ready")
  /\ exchange' = [exchange EXCEPT ![c] = "none"]
  /\ token' = [token EXCEPT ![c] = Swapped(c)]
  /\ DropCode(c)
  /\ UNCHANGED <<asked, withheld, call, faults>>

\* What is no JSON object is passed on with status 200: the client tries again, or
\* starts again.
ReplyUnreadable(c) ==
  /\ exchange[c] = "unreadable"
  /\ exchange' = [exchange EXCEPT ![c] = "none"]
  /\ \/ UNCHANGED <<stage, codeVars>>
     \/ Goto(c, "coded", "start") /\ DropCode(c)
  /\ UNCHANGED <<asked, withheld, token, call, faults>>

\* An error is passed on as it is: at 4xx the client starts again, at 5xx it tries
\* again.
ReplyError(c) ==
  /\ exchange' = [exchange EXCEPT ![c] = "none"]
  /\ \/ exchange[c] = "refused" /\ Goto(c, "coded", "start") /\ DropCode(c)
     \/ exchange[c] = "unavailable" /\ UNCHANGED <<stage, codeVars>>
  /\ UNCHANGED <<asked, withheld, token, call, faults>>

\* An answer is lost before the server or before the client, or is too large for
\* the server.
Lose(c) ==
  /\ exchange[c] \notin {"none", "lost"}
  /\ Fault
  /\ exchange' = [exchange EXCEPT ![c] = "lost"]
  /\ UNCHANGED <<stage, asked, codeVars, withheld, token, call>>

\* Mutant of TokenFails: the client is told what Dex says of a spent code.
TokenFailsForGood(c) ==
  /\ exchange[c] = "lost"
  /\ Goto(c, "coded", "start")
  /\ exchange' = [exchange EXCEPT ![c] = "none"]
  /\ DropCode(c)
  /\ UNCHANGED <<asked, withheld, token, call, faults>>

\* 502 after 15 seconds or at a broken connection; the client tries again.
TokenFails(c) ==
  /\ exchange[c] = "lost"
  /\ exchange' = [exchange EXCEPT ![c] = "none"]
  /\ UNCHANGED <<stage, asked, codeVars, withheld, token, call, faults>>

\* The same while Dex is at work.
TokenTimesOut(c) ==
  /\ exchange[c] = "sent"
  /\ Fault
  /\ exchange' = [exchange EXCEPT ![c] = "none"]
  /\ late' = [late EXCEPT ![c] = TRUE]
  /\ UNCHANGED <<stage, asked, code, void, withheld, token, call>>

-----------------------------------------------------------------------------
(* Calls *)

\* Mutant of WithBearerToken: one context for all.
WithSharedToken(c) ==
  [d \in Clients |->
     IF d = c THEN [at |-> "server", token |-> token[c], as |-> NoUser]
     ELSE IF call[d].at = "server" THEN [call[d] EXCEPT !.token = token[c]]
     ELSE call[d]]

WithBearerToken(c) ==
  [call EXCEPT ![c] = [at |-> "server", token |-> token[c], as |-> NoUser]]

\* The middleware puts the bearer token into the context of the call, whatever it
\* is.  One call of each client is followed at a time.
SendCall(c) ==
  /\ stage[c] = "ready"
  /\ call[c].at \in {"none", "done"}
  /\ call' = WithBearerToken(c)
  /\ UNCHANGED <<loginVars, token, faults>>

\* The gateway forwards the token of the context.
Forward(c) ==
  /\ call[c].at = "server"
  /\ call' = [call EXCEPT ![c] = [@ EXCEPT !.at = "argocd"]]
  /\ UNCHANGED <<loginVars, token, faults>>

\* ArgoCD acts as the token's user, or answers 401, which the client reads as the
\* result of its call; whether anybody still waits for the answer, and what the
\* client has done meanwhile, it does not know.
ArgoHandles(c) ==
  /\ call[c].at = "argocd"
  /\ call' = [call EXCEPT ![c] = [at |-> "done", token |-> NoToken, as |-> Holder(call[c].token)]]
  /\ UNCHANGED <<loginVars, token, faults>>

\* The call is refused before it is forwarded, cancelled, or lost on its way.
CallIsLost(c) ==
  /\ call[c].at \in {"server", "argocd"}
  /\ call' = [call EXCEPT ![c] = NoCall]
  /\ UNCHANGED <<loginVars, token, faults>>

Stale(t) == [kind |-> t.kind, user |-> t.user, fresh |-> FALSE]

WithStale(k) == [k EXCEPT !.token = Stale(k.token)]

\* Time passes over the token in a client's hands, and over the same in its call.
Expire(c) ==
  /\ token[c].fresh
  /\ token' = [token EXCEPT ![c] = Stale(@)]
  /\ call' = [call EXCEPT ![c] = IF @.token = token[c] THEN WithStale(@) ELSE @]
  /\ UNCHANGED <<loginVars, faults>>

\* Time passes over the token of an earlier session in a call.
ExpireCall(c) ==
  /\ call[c].token.fresh
  /\ call' = [call EXCEPT ![c] = WithStale(@)]
  /\ UNCHANGED <<loginVars, token, faults>>

\* The client has minded expires_in, or its user logs out, whatever is under way.
Forget(c) ==
  /\ Goto(c, "ready", "start")
  /\ token' = [token EXCEPT ![c] = NoToken]
  /\ UNCHANGED <<asked, codeVars, withheld, exchange, call, faults>>

\* The server stops and starts again: what it has under way is lost, and nothing
\* else, since there is nothing else.  What Dex and ArgoCD have is still handled.
Restart ==
  /\ Fault
  /\ exchange' = [c \in Clients |-> IF exchange[c] = "none" THEN "none" ELSE "lost"]
  /\ late' = [c \in Clients |-> late[c] \/ exchange[c] = "sent"]
  /\ call' = [c \in Clients |-> IF call[c].at = "server" THEN NoCall ELSE call[c]]
  /\ UNCHANGED <<stage, asked, code, void, withheld, token>>

-----------------------------------------------------------------------------
\* The steps of a login that somebody has to take: the client, its user, Dex and
\* the server.
Login(c) ==
  \/ Discover(c)
  \/ \E id \in ClientIDs, scope \in Scopes : Authorize(c, id, scope)
  \/ \E u \in Users : LogIn(c, u)
  \/ PostToken(c)
  \/ RefuseForm(c)
  \/ DexExchanges(c)
  \/ ReplyTokens(c)
  \/ ReplyUnreadable(c)
  \/ ReplyError(c)
  \/ TokenFails(c)

Mishap(c) ==
  \/ PostMalformed(c)
  \/ DexWithholds(c)
  \/ DexRefuses(c)
  \/ DexBreaks(c)
  \/ DexExchangesLate(c)
  \/ Lose(c)
  \/ TokenTimesOut(c)

Use(c) ==
  \/ SendCall(c)
  \/ Forward(c)
  \/ ArgoHandles(c)
  \/ CallIsLost(c)
  \/ Expire(c)
  \/ ExpireCall(c)
  \/ Forget(c)

Next == Restart \/ \E c \in Clients : Login(c) \/ Mishap(c) \/ Use(c)

Spec == Init /\ [][Next]_vars

\* A client that wants in goes on, its user logs in, Dex answers, HandleToken's
\* HTTP client has a time limit.  Nothing is assumed of calls, of expiry or of the
\* mishaps, but that these are at most MaxFaults.
FairSpec == Spec /\ \A c \in Clients : WF_vars(Login(c))

-----------------------------------------------------------------------------
(* Properties *)

IDTokens == [kind : {"id"}, user : Users, fresh : BOOLEAN]

Tokens == IDTokens \union {NoToken, Opaque}

Calls == [at : {"none", "server", "argocd", "done"}, token : Tokens, as : Users \union {NoUser}]

TypeOK ==
  /\ stage \in [Clients -> {"start", "registered", "redirected", "coded", "ready"}]
  /\ asked \in [Clients -> [clientID : {DexClientID}, scope : {{}, DexScopes}]]
  /\ code \in [Clients -> Users \union {NoUser}]
  /\ void \in [Clients -> BOOLEAN]
  /\ withheld \in [Clients -> BOOLEAN]
  /\ exchange \in [Clients -> Exchanges]
  /\ late \in [Clients -> BOOLEAN]
  /\ token \in [Clients -> Tokens]
  /\ call \in [Clients -> Calls]
  /\ faults \in 0 .. MaxFaults

\* What a client has reached says what it holds and what is under way for it; a
\* refusal or tokens of Dex mean a code that is void; a token or an answer without
\* an id_token means that Dex has withheld it; a call carries a token only while it
\* is under way, and before ArgoCD has handled it nobody has been acted for.
InOrder(c) ==
  /\ stage[c] # "ready" => token[c] = NoToken
  /\ stage[c] = "ready" => token[c] # NoToken
  /\ exchange[c] # "none" => stage[c] = "coded"
  /\ exchange[c] \in {"id_token", "access_token", "refused"} => void[c]
  /\ exchange[c] = "access_token" => withheld[c]
  /\ token[c] = Opaque => withheld[c]
  /\ stage[c] \in {"redirected", "coded"} => "openid" \in asked[c].scope
  /\ stage[c] = "coded" => code[c] \in Users
  /\ call[c].token # NoToken => call[c].at \in {"server", "argocd"}
  /\ call[c].at # "done" => call[c].as = NoUser

\* The inductive invariant.
Inv == TypeOK /\ \A c \in Clients : InOrder(c)

\* A client is given Dex's opaque access token, which ArgoCD refuses at every call,
\* only when Dex has left out the id_token of a login with the scope openid:
\* whatever scopes and client id the client asks for, the override in
\* HandleAuthorize (authorize.go:13-16) lets Dex add one, and HandleToken
\* (token.go:79) swaps every one there is.
TokensAreIDTokens == \A c \in Clients : token[c].kind = "opaque" => withheld[c]

\* A client is sent back to its user only when Dex has done with its code, when its
\* own form was broken, or when the answer was passed on though nobody can read it:
\* the server tells a refusal of Dex (token.go:62) from a Dex that did not answer
\* (token.go:45-51, 56-59), and passes on which of both a status means, with
\* requests that Dex still handles after the server has given them up.
LoginIsLostOnlyWithTheCode ==
  [][\A c \in Clients : stage[c] = "coded" /\ stage'[c] = "start" =>
       void[c] \/ exchange[c] \in {"malformed", "unreadable"}]_vars

\* A client that starts gets an id_token, or the token of an answer from which Dex
\* has withheld it, over lost, late, broken and refusing answers and restarts of the
\* server between any two of its requests, once these mishaps end.
LoginSucceeds ==
  \A c \in Clients :
    stage[c] = "start" ~> token[c].kind = "id" \/ (token[c] = Opaque /\ withheld[c])

\* A client's session is the user of the token it holds, and a call is the user's
\* whose token it carries, while ArgoCD accepts it.
Abstract == INSTANCE Sessions WITH
  session <- [c \in Clients |-> Holder(token[c])],
  caller <- [c \in Clients |-> Holder(call[c].token)],
  served <- [c \in Clients |-> call[c].as]

\* "The user's Dex id_token is forwarded to ArgoCD" (README.md:134): ArgoCD acts for
\* a call as the user who was logged in at its client when it was sent, and as no
\* other, though the client may have logged out or changed its user since, the
\* server may have restarted, and calls of other clients are under way.
ImplementsSessions == Abstract!Spec
=============================================================================
