--------------------------- MODULE OAuthFlowProofs ---------------------------
(* Theorems about OAuthFlow, for any clients, users, client ids and scopes,  *)
(* and any number of mishaps.                                                *)
EXTENDS OAuthFlow, TLAPS

\* The three sorts of token differ.
LEMMA SortsOfTokens ==
  /\ NoToken \in Tokens /\ Opaque \in Tokens /\ NoToken # Opaque
  /\ \A u \in Users : IDToken(u) \in Tokens \ {NoToken, Opaque}
  /\ \A t \in Tokens : t.kind = "opaque" => t = Opaque
  /\ \A t \in Tokens : t.fresh => t \in IDTokens /\ Accepted(t) /\ t.user \in Users
  /\ \A t \in Tokens : Accepted(t) => t.fresh
BY DEF Tokens, IDTokens, NoToken, Opaque, IDToken, Accepted

\* ArgoCD acts as somebody or as nobody, and for a token that is not fresh as nobody.
LEMMA HolderIsUser ==
  /\ \A t \in Tokens : Holder(t) \in Users \union {NoUser}
  /\ \A t \in Tokens : ~ t.fresh => Holder(t) = NoUser
  /\ \A u \in Users : Holder(IDToken(u)) = u
  /\ Holder(NoToken) = NoUser /\ Holder(Opaque) = NoUser
BY SortsOfTokens DEF Holder, Accepted, IDToken, NoToken, Opaque, IDTokens

\* An id_token that ages stays one.
LEMMA StaleIsToken ==
  ASSUME NEW t \in Tokens, t.fresh
  PROVE  Stale(t) \in Tokens \ {NoToken, Opaque} /\ ~ Stale(t).fresh
BY SortsOfTokens DEF Stale, Tokens, IDTokens, NoToken, Opaque

\* A call that moves or ages, field by field.
LEMMA ChangedCall ==
  ASSUME NEW k \in Calls
  PROVE  /\ [k EXCEPT !.at = "argocd"] = [at |-> "argocd", token |-> k.token, as |-> k.as]
         /\ WithStale(k) = [at |-> k.at, token |-> Stale(k.token), as |-> k.as]
BY DEF Calls, WithStale

\* At the start every client is without a token, and nothing is under way.
LEMMA InitInv == Init => Inv
<1> SUFFICES ASSUME Init PROVE Inv
  OBVIOUS
<1> USE UsersAssumption, FaultsAssumption
<1>1. TypeOK
  BY DEF Init, TypeOK, Tokens, NothingAsked, Exchanges, Calls, NoCall
<1>2. ASSUME NEW c \in Clients PROVE InOrder(c)
  BY SortsOfTokens DEF Init, InOrder, NothingAsked, NoCall
<1> QED BY <1>1, <1>2 DEF Inv

\* What a client's login does.
LEMMA LoginInv ==
  ASSUME Inv, NEW c \in Clients, Login(c)
  PROVE  Inv'
<1> USE UsersAssumption, FaultsAssumption, SortsOfTokens DEF Exchanges, codeVars
<1>1. CASE Discover(c)
  <2>1. TypeOK'
    BY <1>1 DEF Discover, Goto, Inv, TypeOK
  <2>2. ASSUME NEW d \in Clients PROVE InOrder(d)'
    BY <1>1, <2>2 DEF Discover, Goto, Inv, TypeOK, InOrder
  <2> QED BY <2>1, <2>2 DEF Inv
<1>2. ASSUME NEW id \in ClientIDs, NEW scope \in Scopes, Authorize(c, id, scope)
      PROVE  Inv'
  <2>0. "openid" \in Forwarded(id, scope).scope /\ Forwarded(id, scope) \in [clientID : {DexClientID}, scope : {{}, DexScopes}]
    BY DEF Forwarded, DexScopes
  <2>1. TypeOK'
    BY <1>2, <2>0 DEF Authorize, Goto, Inv, TypeOK
  <2>2. ASSUME NEW d \in Clients PROVE InOrder(d)'
    BY <1>2, <2>0, <2>2 DEF Authorize, Goto, Inv, TypeOK, InOrder
  <2> QED BY <2>1, <2>2 DEF Inv
<1>3. ASSUME NEW u \in Users, LogIn(c, u) PROVE Inv'
  <2>1. TypeOK'
    BY <1>3 DEF LogIn, Goto, Inv, TypeOK
  <2>2. ASSUME NEW d \in Clients PROVE InOrder(d)'
    BY <1>3, <2>2 DEF LogIn, Goto, Inv, TypeOK, InOrder
  <2> QED BY <2>1, <2>2 DEF Inv
<1>4. CASE PostToken(c)
  <2>1. TypeOK'
    BY <1>4 DEF PostToken, Inv, TypeOK
  <2>2. ASSUME NEW d \in Clients PROVE InOrder(d)'
    BY <1>4, <2>2 DEF PostToken, Inv, TypeOK, InOrder
  <2> QED BY <2>1, <2>2 DEF Inv
<1>5. CASE RefuseForm(c)
  <2>1. TypeOK'
    BY <1>5 DEF RefuseForm, Goto, DropCode, Inv, TypeOK
  <2>2. ASSUME NEW d \in Clients PROVE InOrder(d)'
    BY <1>5, <2>2 DEF RefuseForm, Goto, DropCode, Inv, TypeOK, InOrder
  <2> QED BY <2>1, <2>2 DEF Inv
<1>6. CASE DexExchanges(c)
  <2>0. stage[c] = "coded" /\ "openid" \in asked[c].scope
    BY <1>6 DEF DexExchanges, Inv, InOrder
  <2>1. exchange' = [exchange EXCEPT ![c] = IF void[c] THEN "refused" ELSE "id_token"]
    BY <1>6, <2>0 DEF DexExchanges
  <2>2. TypeOK'
    BY <1>6, <2>1 DEF DexExchanges, Inv, TypeOK
  <2>3. ASSUME NEW d \in Clients PROVE InOrder(d)'
    BY <1>6, <2>0, <2>1, <2>3 DEF DexExchanges, Inv, TypeOK, InOrder
  <2> QED BY <2>2, <2>3 DEF Inv
<1>7. CASE ReplyTokens(c)
  <2>1. stage[c] = "coded" /\ code[c] \in Users
    BY <1>7 DEF ReplyTokens, Goto, Inv, InOrder
  <2>2. Swapped(c) \in Tokens \ {NoToken} /\ (Swapped(c) = Opaque => withheld[c])
    BY <1>7, <2>1 DEF ReplyTokens, Swapped, Inv, InOrder
  <2>3. TypeOK'
    BY <1>7, <2>2 DEF ReplyTokens, Goto, DropCode, Inv, TypeOK
  <2>4. ASSUME NEW d \in Clients PROVE InOrder(d)'
    BY <1>7, <2>2, <2>4 DEF ReplyTokens, Goto, DropCode, Inv, TypeOK, InOrder
  <2> QED BY <2>3, <2>4 DEF Inv
<1>8. CASE ReplyUnreadable(c)
  <2>1. TypeOK'
    BY <1>8 DEF ReplyUnreadable, Goto, DropCode, Inv, TypeOK
  <2>2. ASSUME NEW d \in Clients PROVE InOrder(d)'
    BY <1>8, <2>2 DEF ReplyUnreadable, Goto, DropCode, Inv, TypeOK, InOrder
  <2> QED BY <2>1, <2>2 DEF Inv
<1>9. CASE ReplyError(c)
  <2>1. TypeOK'
    BY <1>9 DEF ReplyError, Goto, DropCode, Inv, TypeOK
  <2>2. ASSUME NEW d \in Clients PROVE InOrder(d)'
    BY <1>9, <2>2 DEF ReplyError, Goto, DropCode, Inv, TypeOK, InOrder
  <2> QED BY <2>1, <2>2 DEF Inv
<1>10. CASE TokenFails(c)
  <2>1. TypeOK'
    BY <1>10 DEF TokenFails, Inv, TypeOK
  <2>2. ASSUME NEW d \in Clients PROVE InOrder(d)'
    BY <1>10, <2>2 DEF TokenFails, Inv, TypeOK, InOrder
  <2> QED BY <2>1, <2>2 DEF Inv
<1> QED BY <1>1, <1>2, <1>3, <1>4, <1>5, <1>6, <1>7, <1>8, <1>9, <1>10 DEF Login

\* Late, lost, broken and refusing answers.
LEMMA MishapInv ==
  ASSUME Inv, NEW c \in Clients, Mishap(c)
  PROVE  Inv'
<1> USE UsersAssumption, FaultsAssumption DEF Exchanges, codeVars
<1>1. CASE PostMalformed(c)
  <2>1. TypeOK'
    BY <1>1 DEF PostMalformed, Fault, Inv, TypeOK
  <2>2. ASSUME NEW d \in Clients PROVE InOrder(d)'
    BY <1>1, <2>2 DEF PostMalformed, Fault, Inv, TypeOK, InOrder
  <2> QED BY <2>1, <2>2 DEF Inv
<1>2. CASE DexWithholds(c)
  <2>1. TypeOK'
    BY <1>2 DEF DexWithholds, Fault, Inv, TypeOK
  <2>2. ASSUME NEW d \in Clients PROVE InOrder(d)'
    BY <1>2, <2>2 DEF DexWithholds, Fault, Inv, TypeOK, InOrder
  <2> QED BY <2>1, <2>2 DEF Inv
<1>3. CASE DexRefuses(c)
  <2>1. TypeOK'
    BY <1>3 DEF DexRefuses, Fault, Inv, TypeOK
  <2>2. ASSUME NEW d \in Clients PROVE InOrder(d)'
    BY <1>3, <2>2 DEF DexRefuses, Fault, Inv, TypeOK, InOrder
  <2> QED BY <2>1, <2>2 DEF Inv
<1>4. CASE DexBreaks(c)
  <2>1. TypeOK'
    BY <1>4 DEF DexBreaks, Fault, Inv, TypeOK
  <2>2. ASSUME NEW d \in Clients PROVE InOrder(d)'
    BY <1>4, <2>2 DEF DexBreaks, Fault, Inv, TypeOK, InOrder
  <2> QED BY <2>1, <2>2 DEF Inv
<1>5. CASE DexExchangesLate(c)
  <2>1. TypeOK'
    BY <1>5 DEF DexExchangesLate, Inv, TypeOK
  <2>2. ASSUME NEW d \in Clients PROVE InOrder(d)'
    BY <1>5, <2>2 DEF DexExchangesLate, Inv, TypeOK, InOrder
  <2> QED BY <2>1, <2>2 DEF Inv
<1>6. CASE Lose(c)
  <2>1. TypeOK'
    BY <1>6 DEF Lose, Fault, Inv, TypeOK
  <2>2. ASSUME NEW d \in Clients PROVE InOrder(d)'
    BY <1>6, <2>2 DEF Lose, Fault, Inv, TypeOK, InOrder
  <2> QED BY <2>1, <2>2 DEF Inv
<1>7. CASE TokenTimesOut(c)
  <2>1. TypeOK'
    BY <1>7 DEF TokenTimesOut, Fault, Inv, TypeOK
  <2>2. ASSUME NEW d \in Clients PROVE InOrder(d)'
    BY <1>7, <2>2 DEF TokenTimesOut, Fault, Inv, TypeOK, InOrder
  <2> QED BY <2>1, <2>2 DEF Inv
<1> QED BY <1>1, <1>2, <1>3, <1>4, <1>5, <1>6, <1>7 DEF Mishap

\* Calls, and the end of a token's life.
LEMMA UseInv ==
  ASSUME Inv, NEW c \in Clients, Use(c)
  PROVE  Inv'
<1> USE UsersAssumption, FaultsAssumption, SortsOfTokens DEF codeVars, loginVars
<1>0. call[c] \in Calls /\ token[c] \in Tokens
  BY DEF Inv, TypeOK
<1>1. CASE SendCall(c)
  <2>1. [at |-> "server", token |-> token[c], as |-> NoUser] \in Calls
    BY <1>0 DEF Calls
  <2>2. TypeOK'
    BY <1>1, <2>1 DEF SendCall, WithBearerToken, Inv, TypeOK
  <2>3. ASSUME NEW d \in Clients PROVE InOrder(d)'
    BY <1>1, <2>3 DEF SendCall, WithBearerToken, Inv, TypeOK, InOrder
  <2> QED BY <2>2, <2>3 DEF Inv
<1>2. CASE Forward(c)
  <2> DEFINE k == [call[c] EXCEPT !.at = "argocd"]
  <2>1. call' = [call EXCEPT ![c] = k]
    BY <1>2 DEF Forward
  <2>2. k = [at |-> "argocd", token |-> call[c].token, as |-> call[c].as]
    BY <1>0, ChangedCall
  <2>3. k \in Calls /\ k.at = "argocd" /\ k.as = call[c].as
    BY <1>0, <2>2 DEF Calls
  <2>4. call[c].as = NoUser
    BY <1>2 DEF Forward, Inv, InOrder
  <2> HIDE DEF k
  <2>5. TypeOK'
    BY <1>2, <2>1, <2>3 DEF Forward, Inv, TypeOK
  <2>6. ASSUME NEW d \in Clients PROVE InOrder(d)'
    BY <1>2, <2>1, <2>3, <2>4, <2>6 DEF Forward, Inv, TypeOK, InOrder
  <2> QED BY <2>5, <2>6 DEF Inv
<1>3. CASE ArgoHandles(c)
  <2>1. [at |-> "done", token |-> NoToken, as |-> Holder(call[c].token)] \in Calls
    BY <1>0, HolderIsUser DEF Calls
  <2>2. TypeOK'
    BY <1>3, <2>1 DEF ArgoHandles, Inv, TypeOK
  <2>3. ASSUME NEW d \in Clients PROVE InOrder(d)'
    BY <1>3, <2>3 DEF ArgoHandles, Inv, TypeOK, InOrder
  <2> QED BY <2>2, <2>3 DEF Inv
<1>4. CASE CallIsLost(c)
  <2>1. NoCall \in Calls
    BY DEF NoCall, Calls
  <2>2. TypeOK'
    BY <1>4, <2>1 DEF CallIsLost, Inv, TypeOK
  <2>3. ASSUME NEW d \in Clients PROVE InOrder(d)'
    BY <1>4, <2>3 DEF CallIsLost, NoCall, Inv, TypeOK, InOrder
  <2> QED BY <2>2, <2>3 DEF Inv
<1>5. CASE Expire(c)
  <2> DEFINE k == IF call[c].token = token[c] THEN WithStale(call[c]) ELSE call[c]
  <2>1. Stale(token[c]) \in Tokens \ {NoToken, Opaque} /\ token[c] \notin {NoToken, Opaque}
    BY <1>0, <1>5, StaleIsToken DEF Expire, NoToken, Opaque
  <2>2. /\ call' = [call EXCEPT ![c] = k]
        /\ token' = [token EXCEPT ![c] = Stale(token[c])]
    BY <1>5 DEF Expire
  <2>3. WithStale(call[c]) = [at |-> call[c].at, token |-> Stale(call[c].token), as |-> call[c].as]
    BY <1>0, ChangedCall
  <2>4. /\ k \in Calls /\ k.at = call[c].at /\ k.as = call[c].as
        /\ k.token = NoToken <=> call[c].token = NoToken
    BY <1>0, <2>1, <2>3 DEF Calls
  <2> HIDE DEF k
  <2>5. TypeOK'
    BY <1>5, <2>1, <2>2, <2>4 DEF Expire, Inv, TypeOK
  <2>6. ASSUME NEW d \in Clients PROVE InOrder(d)'
    BY <1>5, <2>1, <2>2, <2>4, <2>6 DEF Expire, Inv, TypeOK, InOrder
  <2> QED BY <2>5, <2>6 DEF Inv
<1>6. CASE ExpireCall(c)
  <2> DEFINE k == WithStale(call[c])
  <2>1. call[c].token \in Tokens /\ call[c].token.fresh
    BY <1>0, <1>6 DEF Calls, ExpireCall
  <2>2. Stale(call[c].token) \in Tokens \ {NoToken, Opaque} /\ call[c].token # NoToken
    BY <2>1, StaleIsToken DEF NoToken
  <2>3. call' = [call EXCEPT ![c] = k]
    BY <1>6 DEF ExpireCall
  <2>4. k = [at |-> call[c].at, token |-> Stale(call[c].token), as |-> call[c].as]
    BY <1>0, ChangedCall
  <2>5. k \in Calls /\ k.at = call[c].at /\ k.as = call[c].as /\ k.token # NoToken
    BY <1>0, <2>2, <2>4 DEF Calls
  <2> HIDE DEF k
  <2>6. TypeOK'
    BY <1>6, <2>3, <2>5 DEF ExpireCall, Inv, TypeOK
  <2>7. ASSUME NEW d \in Clients PROVE InOrder(d)'
    BY <1>6, <2>2, <2>3, <2>5, <2>7 DEF ExpireCall, Inv, TypeOK, InOrder
  <2> QED BY <2>6, <2>7 DEF Inv
<1>7. CASE Forget(c)
  <2>1. TypeOK'
    BY <1>7 DEF Forget, Goto, Inv, TypeOK
  <2>2. ASSUME NEW d \in Clients PROVE InOrder(d)'
    BY <1>7, <2>2 DEF Forget, Goto, Inv, TypeOK, InOrder
  <2> QED BY <2>1, <2>2 DEF Inv
<1> QED BY <1>1, <1>2, <1>3, <1>4, <1>5, <1>6, <1>7 DEF Use

\* A restart.
LEMMA RestartInv ==
  ASSUME Inv, Restart
  PROVE  Inv'
<1> USE UsersAssumption, FaultsAssumption, SortsOfTokens
<1>0. NoCall \in Calls
  BY DEF NoCall, Calls
<1>1. TypeOK'
  BY <1>0 DEF Restart, Fault, Inv, TypeOK, Exchanges
<1>2. ASSUME NEW d \in Clients PROVE InOrder(d)'
  BY <1>2 DEF Restart, NoCall, Inv, TypeOK, InOrder
<1> QED BY <1>1, <1>2 DEF Inv

LEMMA StutterInv ==
  ASSUME Inv, UNCHANGED vars
  PROVE  Inv'
<1>1. TypeOK'
  BY DEF vars, loginVars, codeVars, Inv, TypeOK
<1>2. ASSUME NEW d \in Clients PROVE InOrder(d)'
  BY <1>2 DEF vars, loginVars, codeVars, Inv, InOrder
<1> QED BY <1>1, <1>2 DEF Inv

\* The invariant of the OAuth flow: a client's stage, its token, its call and its
\* exchange with Dex agree, whatever Dex answers, over mishaps and restarts of the
\* server.
THEOREM FlowInOrder == Spec => []Inv
<1>1. Inv /\ [Next]_vars => Inv'
  <2> SUFFICES ASSUME Inv, [Next]_vars PROVE Inv'
    OBVIOUS
  <2>1. CASE Restart
    BY <2>1, RestartInv
  <2>2. ASSUME NEW c \in Clients, Login(c) PROVE Inv'
    BY <2>2, LoginInv
  <2>3. ASSUME NEW c \in Clients, Mishap(c) PROVE Inv'
    BY <2>3, MishapInv
  <2>4. ASSUME NEW c \in Clients, Use(c) PROVE Inv'
    BY <2>4, UseInv
  <2>5. CASE UNCHANGED vars
    BY <2>5, StutterInv
  <2> QED BY <2>1, <2>2, <2>3, <2>4, <2>5 DEF Next
<1> QED BY InitInv, <1>1, PTL DEF Spec

\* A client is given an opaque access token only when Dex has withheld the id_token
\* of a login with the scope openid, whatever scopes the client asks for and
\* whatever else Dex answers.
THEOREM IDTokensOnly == Spec => []TokensAreIDTokens
<1>1. Inv => TokensAreIDTokens
  BY SortsOfTokens DEF Inv, TypeOK, InOrder, TokensAreIDTokens
<1> QED BY FlowInOrder, <1>1, PTL

\* A client goes back to its user only when Dex has done with its code, its own form
\* was broken or Dex's answer could not be read, and never because Dex was late,
\* lost or unavailable.
THEOREM LoginIsKept == Spec => LoginIsLostOnlyWithTheCode
<1> DEFINE Kept == \A c \in Clients : stage[c] = "coded" /\ stage'[c] = "start" =>
                     void[c] \/ exchange[c] \in {"malformed", "unreadable"}
<1>1. Inv /\ [Next]_vars => [Kept]_vars
  <2> SUFFICES ASSUME Inv, Next, NEW c \in Clients, stage[c] = "coded", stage'[c] = "start"
               PROVE  void[c] \/ exchange[c] \in {"malformed", "unreadable"}
    OBVIOUS
  <2>1. PICK d \in Clients : Login(d) \/ Mishap(d) \/ Use(d)
    BY DEF Next, Restart, Inv, TypeOK
  <2>2. ~ Mishap(d)
    BY DEF Mishap, PostMalformed, DexWithholds, DexRefuses, DexBreaks, DexExchangesLate, Lose,
      TokenTimesOut
  <2>3. exchange[c] \in {"malformed", "unreadable", "refused"}
    <3>1. CASE Login(d)
      BY <3>1 DEF Inv, TypeOK, Login, Goto, loginVars, codeVars, Discover, Authorize, LogIn, PostToken,
        RefuseForm, DexExchanges, ReplyTokens, ReplyUnreadable, ReplyError, TokenFails
    <3>2. CASE Use(d)
      BY <3>2 DEF Inv, TypeOK, Use, Goto, loginVars, SendCall, Forward, ArgoHandles, CallIsLost,
        Expire, ExpireCall, Forget
    <3> QED BY <2>1, <2>2, <3>1, <3>2
  <2> QED BY <2>3 DEF Inv, InOrder
<1> QED BY FlowInOrder, <1>1, PTL DEF Spec, LoginIsLostOnlyWithTheCode

-----------------------------------------------------------------------------
(* Refinement *)

\* The variables of Abstract.
Session == [c \in Clients |-> Holder(token[c])]
Caller == [c \in Clients |-> Holder(call[c].token)]
Served == [c \in Clients |-> call[c].as]

\* A function changed at one place.
LEMMA ChangedAtOnePlace ==
  ASSUME NEW S, NEW f, NEW g, NEW c \in S, NEW v,
         f = [d \in S |-> f[d]], g = [d \in S |-> g[d]],
         g[c] = v, \A d \in S : d # c => g[d] = f[d]
  PROVE  g = [f EXCEPT ![c] = v]
<1> DEFINE h == [f EXCEPT ![c] = v]
<1>1. h = [d \in S |-> h[d]] /\ \A d \in S : h[d] = g[d]
  OBVIOUS
<1> HIDE DEF h
<1>2. h = g
  BY <1>1
<1> QED BY <1>2 DEF h

\* A step that leaves tokens and calls alone is no step of Abstract.
LEMMA KeptSessions ==
  ASSUME UNCHANGED <<token, call>>
  PROVE  UNCHANGED Abstract!vars
BY DEF Abstract!vars

\* A client that is given its tokens becomes the user of its code, or nobody.
LEMMA RepliesLogIn ==
  ASSUME Inv, NEW c \in Clients, ReplyTokens(c)
  PROVE  [Abstract!Next]_(Abstract!vars)
<1>1. stage[c] = "coded" /\ code[c] \in Users
  BY DEF ReplyTokens, Goto, Inv, InOrder
<1>2. token' = [token EXCEPT ![c] = Swapped(c)] /\ UNCHANGED call
  BY DEF ReplyTokens
<1>3. token'[c] = Swapped(c) /\ \A d \in Clients : d # c => token'[d] = token[d]
  BY <1>2 DEF Inv, TypeOK
<1>4. Session[c] = NoUser
  BY <1>1, HolderIsUser DEF Session, Inv, InOrder
<1>5. Session' = [Session EXCEPT ![c] = Holder(Swapped(c))]
  <2>1. Session'[c] = Holder(Swapped(c)) /\ \A d \in Clients : d # c => Session'[d] = Session[d]
    BY <1>3 DEF Session
  <2>2. Session = [d \in Clients |-> Session[d]] /\ Session' = [d \in Clients |-> Session'[d]]
    BY DEF Session
  <2> QED BY <2>1, <2>2, ChangedAtOnePlace
<1>6. Caller' = Caller /\ Served' = Served
  BY <1>2 DEF Caller, Served
<1>7. CASE exchange[c] = "id_token"
  <2>1. Holder(Swapped(c)) = code[c]
    BY <1>1, <1>7, HolderIsUser DEF Swapped
  <2>2. Abstract!LogIn(c, code[c])
    BY <1>4, <1>5, <1>6, <2>1 DEF Abstract!LogIn, Session, Caller, Served
  <2> QED BY <1>1, <2>2 DEF Abstract!Next
<1>8. CASE exchange[c] # "id_token"
  <2>1. Holder(Swapped(c)) = NoUser
    BY <1>8, HolderIsUser DEF Swapped
  <2>2. Abstract!End(c)
    BY <1>5, <1>6, <2>1 DEF Abstract!End, Session, Caller, Served
  <2> QED BY <2>2 DEF Abstract!Next
<1> QED BY <1>7, <1>8

\* What a change of one call is for Abstract.
LEMMA CallChanges ==
  ASSUME NEW c \in Clients, \A d \in Clients : d # c => call'[d] = call[d]
  PROVE  /\ Caller' = [Caller EXCEPT ![c] = Holder(call'[c].token)]
         /\ Served' = [Served EXCEPT ![c] = call'[c].as]
<1>1. /\ Caller'[c] = Holder(call'[c].token) /\ \A d \in Clients : d # c => Caller'[d] = Caller[d]
      /\ Served'[c] = call'[c].as /\ \A d \in Clients : d # c => Served'[d] = Served[d]
  BY DEF Caller, Served
<1>2. /\ Caller = [d \in Clients |-> Caller[d]] /\ Caller' = [d \in Clients |-> Caller'[d]]
      /\ Served = [d \in Clients |-> Served[d]] /\ Served' = [d \in Clients |-> Served'[d]]
  BY DEF Caller, Served
<1> QED BY <1>1, <1>2, ChangedAtOnePlace

\* A function that is given the value it has.
LEMMA UnchangedCall ==
  ASSUME NEW c \in Clients
  PROVE  /\ [Served EXCEPT ![c] = call[c].as] = Served
         /\ [Caller EXCEPT ![c] = Holder(call[c].token)] = Caller
BY DEF Served, Caller

\* A call that comes to nothing is a Lapse of its client.
LEMMA CallLapses ==
  ASSUME Inv, NEW c \in Clients, UNCHANGED token,
         Caller' = [Caller EXCEPT ![c] = NoUser], Served' = Served
  PROVE  Abstract!Next
<1>1. Session' = Session
  BY DEF Session
<1>2. Caller' = [d \in Clients |-> IF d \in {c} THEN NoUser ELSE Caller[d]]
  BY DEF Caller
<1>3. Abstract!Lapse({c})
  BY <1>1, <1>2 DEF Abstract!Lapse, Session, Caller, Served
<1> QED BY <1>3 DEF Abstract!Next

\* A call is sent, forwarded and handled in the name of who its client was.
LEMMA CallsKeepTheirName ==
  ASSUME Inv, NEW c \in Clients,
         SendCall(c) \/ Forward(c) \/ ArgoHandles(c) \/ CallIsLost(c) \/ ExpireCall(c)
  PROVE  [Abstract!Next]_(Abstract!vars)
<1>0. call[c] \in Calls /\ UNCHANGED token /\ Session' = Session
  BY DEF Inv, TypeOK, SendCall, Forward, ArgoHandles, CallIsLost, ExpireCall, Session
<1>a. \A d \in Clients : d # c => call'[d] = call[d]
  BY DEF Inv, TypeOK, SendCall, WithBearerToken, Forward, ArgoHandles, CallIsLost, ExpireCall
<1>b. /\ Caller' = [Caller EXCEPT ![c] = Holder(call'[c].token)]
      /\ Served' = [Served EXCEPT ![c] = call'[c].as]
  BY <1>a, CallChanges
<1>1. CASE SendCall(c)
  <2>1. call'[c] = [at |-> "server", token |-> token[c], as |-> NoUser]
    BY <1>1 DEF SendCall, WithBearerToken, Inv, TypeOK
  <2>2. Holder(call'[c].token) = Session[c] /\ call'[c].as = NoUser
    BY <2>1 DEF Session
  <2>3. Caller' = [Caller EXCEPT ![c] = Session[c]] /\ Served' = [Served EXCEPT ![c] = NoUser]
    BY <1>b, <2>2
  <2>4. Abstract!Call(c)
    BY <1>0, <2>3 DEF Abstract!Call, Session, Caller, Served
  <2> QED BY <2>4 DEF Abstract!Next
<1>2. CASE Forward(c)
  <2>1. call'[c] = [call[c] EXCEPT !.at = "argocd"]
    BY <1>2 DEF Forward, Inv, TypeOK
  <2>2. Holder(call'[c].token) = Holder(call[c].token) /\ call'[c].as = call[c].as
    BY <1>0, <2>1, ChangedCall
  <2>3. /\ Caller' = [Caller EXCEPT ![c] = Holder(call[c].token)]
        /\ Served' = [Served EXCEPT ![c] = call[c].as]
    BY <1>b, <2>2
  <2>4. Caller' = Caller /\ Served' = Served
    BY <2>3, UnchangedCall
  <2> QED BY <1>0, <2>4 DEF Abstract!vars, Session, Caller, Served
<1>3. CASE ArgoHandles(c)
  <2>1. call'[c] = [at |-> "done", token |-> NoToken, as |-> Holder(call[c].token)]
    BY <1>3 DEF ArgoHandles, Inv, TypeOK
  <2>2. Holder(call'[c].token) = NoUser /\ call'[c].as = Caller[c]
    BY <2>1, HolderIsUser DEF Caller
  <2>3. Caller' = [Caller EXCEPT ![c] = NoUser] /\ Served' = [Served EXCEPT ![c] = Caller[c]]
    BY <1>b, <2>2
  <2>4. Abstract!Serve(c)
    BY <1>0, <2>3 DEF Abstract!Serve, Session, Caller, Served
  <2> QED BY <2>4 DEF Abstract!Next
<1>4. CASE CallIsLost(c) \/ ExpireCall(c)
  <2>1. Holder(call'[c].token) = NoUser /\ call'[c].as = call[c].as
    <3>1. CASE CallIsLost(c)
      <4>1. call[c].as = NoUser
        BY <3>1 DEF CallIsLost, Inv, InOrder
      <4>2. call'[c] = NoCall
        BY <3>1 DEF CallIsLost, Inv, TypeOK
      <4> QED BY <4>1, <4>2, HolderIsUser DEF NoCall
    <3>2. CASE ExpireCall(c)
      <4>1. call'[c] = WithStale(call[c])
        BY <3>2 DEF ExpireCall, Inv, TypeOK
      <4>2. call'[c] = [at |-> call[c].at, token |-> Stale(call[c].token), as |-> call[c].as]
        BY <1>0, <4>1, ChangedCall
      <4>3. call[c].token \in Tokens
        BY <1>0 DEF Calls
      <4>4. Holder(Stale(call[c].token)) = NoUser
        BY <3>2, <4>3, StaleIsToken, HolderIsUser DEF ExpireCall
      <4> QED BY <4>2, <4>4
    <3> QED BY <1>4, <3>1, <3>2
  <2>2. Caller' = [Caller EXCEPT ![c] = NoUser] /\ Served' = [Served EXCEPT ![c] = call[c].as]
    BY <1>b, <2>1
  <2>3. Served' = Served
    BY <2>2, UnchangedCall
  <2> QED BY <1>0, <2>2, <2>3, CallLapses
<1> QED BY <1>1, <1>2, <1>3, <1>4

\* A session ends at its client alone; its call lapses or goes on.
LEMMA LossEnds ==
  ASSUME Inv, NEW c \in Clients, NEW t, Holder(t) = NoUser,
         token' = [token EXCEPT ![c] = t], Served' = Served,
         Caller' = Caller \/ Caller' = [Caller EXCEPT ![c] = NoUser]
  PROVE  Abstract!Next
<1>1. token'[c] = t /\ \A d \in Clients : d # c => token'[d] = token[d]
  BY DEF Inv, TypeOK
<1>2. Session'[c] = NoUser /\ \A d \in Clients : d # c => Session'[d] = Session[d]
  BY <1>1 DEF Session
<1>3. Session' = [Session EXCEPT ![c] = NoUser]
  <2>1. Session = [d \in Clients |-> Session[d]] /\ Session' = [d \in Clients |-> Session'[d]]
    BY DEF Session
  <2> QED BY <1>2, <2>1, ChangedAtOnePlace
<1>4. Abstract!End(c)
  BY <1>3 DEF Abstract!End, Session, Caller, Served
<1> QED BY <1>4 DEF Abstract!Next

\* A token that expires ends the session of its client, and its call with it when
\* that carries the same token.
LEMMA ExpiryEnds ==
  ASSUME Inv, NEW c \in Clients, Expire(c)
  PROVE  Abstract!Next
<1>1. call[c] \in Calls /\ token[c] \in Tokens /\ token[c].fresh
  BY DEF Expire, Inv, TypeOK
<1>2. Holder(Stale(token[c])) = NoUser
  BY <1>1, StaleIsToken, HolderIsUser
<1>3. token' = [token EXCEPT ![c] = Stale(token[c])]
  BY DEF Expire
<1>4. CASE call[c].token = token[c]
  <2>1. call'[c] = WithStale(call[c]) /\ \A d \in Clients : d # c => call'[d] = call[d]
    BY <1>4 DEF Expire, Inv, TypeOK
  <2>2. call'[c] = [at |-> call[c].at, token |-> Stale(token[c]), as |-> call[c].as]
    BY <1>1, <1>4, <2>1, ChangedCall
  <2>3. Holder(call'[c].token) = NoUser /\ call'[c].as = call[c].as
    BY <1>2, <2>2
  <2>4. /\ Caller' = [Caller EXCEPT ![c] = Holder(call'[c].token)]
        /\ Served' = [Served EXCEPT ![c] = call'[c].as]
    BY <2>1, CallChanges
  <2>5. Caller' = [Caller EXCEPT ![c] = NoUser] /\ Served' = [Served EXCEPT ![c] = call[c].as]
    BY <2>3, <2>4
  <2>6. Served' = Served
    BY <2>5, UnchangedCall
  <2> QED BY <1>2, <1>3, <2>5, <2>6, LossEnds
<1>5. CASE call[c].token # token[c]
  <2>1. call' = [call EXCEPT ![c] = call[c]]
    BY <1>5 DEF Expire
  <2>2. call' = call
    BY <2>1 DEF Inv, TypeOK
  <2>3. Served' = Served /\ Caller' = Caller
    BY <2>2 DEF Served, Caller
  <2> QED BY <1>2, <1>3, <2>3, LossEnds
<1> QED BY <1>4, <1>5

\* A restart loses the calls that are in the server.
LEMMA RestartLapses ==
  ASSUME Inv, Restart
  PROVE  Abstract!Next
<1> DEFINE lost == {c \in Clients : call[c].at = "server"}
<1>1. Session' = Session
  BY DEF Restart, Session
<1>2. \A c \in Clients : call'[c] = IF c \in lost THEN NoCall ELSE call[c]
  BY DEF Restart
<1>3. Caller' = [c \in Clients |-> IF c \in lost THEN NoUser ELSE Caller[c]]
  BY <1>2, HolderIsUser DEF Caller, NoCall
<1>4. \A c \in Clients : call'[c].as = call[c].as
  BY <1>2 DEF NoCall, Inv, InOrder
<1>5. Served' = Served
  BY <1>4 DEF Served
<1>6. Abstract!Lapse(lost)
  BY <1>1, <1>3, <1>5 DEF Abstract!Lapse, Session, Caller, Served
<1>7. lost \in SUBSET Clients
  OBVIOUS
<1> QED BY <1>6, <1>7 DEF Abstract!Next

\* OAuth mode implements Sessions: ArgoCD acts for a call as the user who was logged
\* in at its client when it was sent, or not at all, whatever is lost, late or
\* started again, and whoever the client is by then.
THEOREM SessionsImplemented == Spec => ImplementsSessions
<1>1. Init => Abstract!Init
  BY HolderIsUser DEF Init, Abstract!Init, NoCall
<1>2. Inv /\ [Next]_vars => [Abstract!Next]_(Abstract!vars)
  <2> SUFFICES ASSUME Inv, [Next]_vars PROVE [Abstract!Next]_(Abstract!vars)
    OBVIOUS
  <2>1. CASE UNCHANGED vars
    BY <2>1, KeptSessions DEF vars
  <2>2. CASE Restart
    BY <2>2, RestartLapses
  <2>3. ASSUME NEW c \in Clients, Login(c) PROVE [Abstract!Next]_(Abstract!vars)
    <3>1. CASE ReplyTokens(c)
      BY <3>1, RepliesLogIn
    <3>2. CASE ~ ReplyTokens(c)
      <4>1. UNCHANGED <<token, call>>
        BY <2>3, <3>2 DEF Login, Discover, Authorize, LogIn, PostToken, RefuseForm, DexExchanges,
          ReplyUnreadable, ReplyError, TokenFails
      <4> QED BY <4>1, KeptSessions
    <3> QED BY <3>1, <3>2
  <2>4. ASSUME NEW c \in Clients, Mishap(c) PROVE [Abstract!Next]_(Abstract!vars)
    <3>1. UNCHANGED <<token, call>>
      BY <2>4 DEF Mishap, PostMalformed, DexWithholds, DexRefuses, DexBreaks, DexExchangesLate,
        Lose, TokenTimesOut
    <3> QED BY <3>1, KeptSessions
  <2>5. ASSUME NEW c \in Clients, Use(c) PROVE [Abstract!Next]_(Abstract!vars)
    <3>1. CASE Expire(c)
      BY <3>1, ExpiryEnds
    <3>2. CASE Forget(c)
      <4>1. Caller' = Caller /\ Served' = Served
        BY <3>2 DEF Forget, Caller, Served
      <4> QED BY <3>2, <4>1, LossEnds, HolderIsUser DEF Forget
    <3>3. CASE ~ Expire(c) /\ ~ Forget(c)
      BY <2>5, <3>3, CallsKeepTheirName DEF Use
    <3> QED BY <3>1, <3>2, <3>3
  <2> QED BY <2>1, <2>2, <2>3, <2>4, <2>5 DEF Next
<1> QED BY FlowInOrder, <1>1, <1>2, PTL DEF Spec, Abstract!Spec, ImplementsSessions
=============================================================================
