-------------------------- MODULE ToolCallsProofs --------------------------
(* The guarantees of the tool handlers, for any calls, requests, Swagger    *)
(* document, tokens and configurations.                                    *)
EXTENDS ToolCalls, FiniteSetTheorems, SequenceTheorems, TLAPS

\* strings.ToUpper changes nothing in what is in upper case, and a write is not
\* sent again.
LEMMA UpperFacts ==
  /\ \A m : Upper(Upper(m)) = Upper(m)
  /\ \A m : Upper(m) \in WriteMethods => ~ Replayable(m)
<1>1. DOMAIN UpperOf = {"get", "head", "options", "post", "put", "patch", "delete", "trace"}
  BY DEF UpperOf
<1>2. \A m \in DOMAIN UpperOf :
        UpperOf[m] \notin DOMAIN UpperOf
  <2>1. /\ UpperOf["get"] = "GET" /\ UpperOf["head"] = "HEAD"
        /\ UpperOf["options"] = "OPTIONS" /\ UpperOf["post"] = "POST"
        /\ UpperOf["put"] = "PUT" /\ UpperOf["patch"] = "PATCH"
        /\ UpperOf["delete"] = "DELETE" /\ UpperOf["trace"] = "TRACE"
    BY DEF UpperOf
  <2> QED
    BY <1>1, <2>1
<1>4. \A m : Upper(Upper(m)) = Upper(m)
  BY <1>2 DEF Upper
<1>5. \A m : Upper(m) \in WriteMethods => ~ Replayable(m)
  BY DEF Replayable, SentMethod, WriteMethods, Upper, UpperOf
<1> QED
  BY <1>4, <1>5

\* What is parsed are endpoints, their methods in upper case and not empty.
LEMMA ParsedFacts ==
  \A ep \in ParseSpec :
    ep.path \in Seq(STRING) /\ ep.method # "" /\ Upper(ep.method) = ep.method
<1> SUFFICES ASSUME NEW ep \in ParseSpec
             PROVE  ep.path \in Seq(STRING) /\ ep.method # "" /\ Upper(ep.method) = ep.method
  OBVIOUS
<1>1. PICK op \in Doc :
        /\ ep = [method |-> Upper(op.method), path |-> op.path, tags |-> op.tags,
                 operationId |-> op.operationId]
        /\ IsHTTPMethod(Upper(op.method))
  BY DEF ParseSpec
<1>2. op \in [method : STRING, path : Seq(STRING), tags : SUBSET STRING,
              operationId : STRING, wellFormed : BOOLEAN]
  BY DocAssumption
<1>3. ep.path \in Seq(STRING)
  BY <1>1, <1>2
<1>4. ep.method # ""
  BY <1>1 DEF IsHTTPMethod, ReadOnlyMethods, WriteMethods
<1> QED
  BY <1>1, <1>3, <1>4, UpperFacts

\* Filters only leave out.
LEMMA LoadedIsParsed == Loaded \subseteq ParseSpec
  BY DEF Loaded, FilterByTags, FilterReadOnly

\* The configuration does not change, nor what follows from it.
LEMMA ConfigStable ==
  ASSUME [Next]_vars
  PROVE  config' = config
  BY DEF Next, Arrive, Handler, SearchReturns, RefuseArguments, Block, PassChecks, AdmitCall,
     LimitCall, RefuseParams, Send, BuildFails, ReceiveAnswer, GiveUp, Audit, Reply,
     SearchFails, ArgoHandles, Lose, Resend, Refill, Shutdown, Exit, vars

\* The bearer token of a call stands for one of the users.
LEMMA UserIsKnown ==
  ASSUME TypeOK, NEW c \in Calls
  PROVE  User(c) \in Users
  BY DEF TypeOK, User, Users

-----------------------------------------------------------------------------
(* One step, seen from one call *)

Untouched(c) ==
  /\ config' = config
  /\ pc'[c] = pc[c] /\ request'[c] = request[c] /\ token'[c] = token[c]
  /\ outcome'[c] = outcome[c] /\ found'[c] = found[c]
  /\ wire'[c] = wire[c] /\ handled'[c] = handled[c]
  /\ audit'[c] = audit[c]

StepOf(c) ==
  \/ \E r \in Requests, t \in Tokens \union {NoToken} : Arrive(c, r, t)
  \/ Handler(c)
  \/ SearchReturns(c)
  \/ SearchFails(c)
  \/ \E s \in Statuses : ArgoHandles(c, s)
  \/ Lose(c)
  \/ Resend(c)

\* A step is one of one call, and leaves every other call alone.
LEMMA OneAtATime ==
  ASSUME TypeOK, [Next]_vars
  PROVE  \/ \E d \in Calls : StepOf(d) /\ \A c \in Calls : c # d => Untouched(c)
         \/ /\ \A c \in Calls : Untouched(c)
            /\ UNCHANGED limitVars \/ \E u \in Users : Refill(u)
<1> USE DEF TypeOK, Untouched, Goto, Conclude, handlerVars, argoVars, limitVars
<1>1. ASSUME NEW d \in Calls, StepOf(d), NEW c \in Calls, c # d PROVE Untouched(c)
  <2>1. CASE \E r \in Requests, t \in Tokens \union {NoToken} : Arrive(d, r, t)
    BY <1>1, <2>1 DEF Arrive
  <2>2. CASE SearchReturns(d) \/ SearchFails(d)
    BY <1>1, <2>2 DEF SearchReturns, SearchFails
  <2>3. CASE RefuseArguments(d) \/ Block(d) \/ PassChecks(d)
    BY <1>1, <2>3 DEF RefuseArguments, Block, PassChecks
  <2>4. CASE AdmitCall(d) \/ LimitCall(d) \/ RefuseParams(d)
    BY <1>1, <2>4 DEF AdmitCall, LimitCall, RefuseParams
  <2>5. CASE Send(d) \/ BuildFails(d) \/ ReceiveAnswer(d) \/ GiveUp(d)
    BY <1>1, <2>5 DEF Send, BuildFails, ReceiveAnswer, GiveUp
  <2>6. CASE Audit(d) \/ Reply(d)
    BY <1>1, <2>6 DEF Audit, Reply
  <2>7. CASE (\E s \in Statuses : ArgoHandles(d, s)) \/ Lose(d) \/ Resend(d)
    BY <1>1, <2>7 DEF ArgoHandles, Lose, Resend
  <2> QED
    BY <1>1, <2>1, <2>2, <2>3, <2>4, <2>5, <2>6, <2>7 DEF StepOf, Handler
<1>2. CASE \E d \in Calls : StepOf(d)
  BY <1>1, <1>2
<1>3. ASSUME NEW u \in Users, Refill(u) PROVE \A c \in Calls : Untouched(c)
  BY <1>3 DEF Refill
<1>4. CASE Shutdown \/ Exit \/ UNCHANGED vars
  BY <1>4 DEF Shutdown, Exit, vars
<1> QED
  BY <1>2, <1>3, <1>4 DEF Next, StepOf

\* What nobody touches stays as it is.
LEMMA UntouchedKeeps ==
  ASSUME NEW c \in Calls, CallInv(c), Untouched(c)
  PROVE  CallInv(c)'
<1> USE DEF CallInv, Untouched
<1>1. NothingYet(c)'
  BY DEF NothingYet
<1>2. Checked(c)'
  BY DEF Checked, Registered, Generated, Loaded, Forbidden, Scoped
<1>3. ServedAsAsked(c)'
  BY DEF ServedAsAsked, Served
<1>4. Concluded(c)'
  BY DEF Concluded
<1>5. Logged(c)'
  BY DEF Logged, Record, User
<1>6. (found[c] \subseteq Loaded)'
  BY DEF Loaded
<1> QED
  BY <1>1, <1>2, <1>3, <1>4, <1>5, <1>6

-----------------------------------------------------------------------------
(* One step of one call *)

\* Before the request is sent nothing happens outside the handler.
LEMMA NothingYetKept ==
  ASSUME TypeOK, NEW c \in Calls, CallInv(c), StepOf(c)
  PROVE  NothingYet(c)'
<1> USE DEF TypeOK, CallInv, NothingYet, Goto, Conclude, handlerVars, argoVars, limitVars
<1>1. CASE \E r \in Requests, t \in Tokens \union {NoToken} : Arrive(c, r, t)
  BY <1>1 DEF Arrive
<1>2. CASE SearchReturns(c) \/ SearchFails(c)
  BY <1>2 DEF SearchReturns, SearchFails
<1>3. CASE RefuseArguments(c) \/ Block(c) \/ PassChecks(c)
  BY <1>3 DEF RefuseArguments, Block, PassChecks
<1>4. CASE AdmitCall(c) \/ LimitCall(c) \/ RefuseParams(c)
  BY <1>4 DEF AdmitCall, LimitCall, RefuseParams
<1>5. CASE Send(c) \/ BuildFails(c)
  BY <1>5 DEF Send, BuildFails
<1>6. CASE ReceiveAnswer(c) \/ GiveUp(c) \/ Audit(c) \/ Reply(c)
  BY <1>6 DEF ReceiveAnswer, GiveUp, Audit, Reply
<1>7. CASE \E s \in Statuses : ArgoHandles(c, s)
  BY <1>7 DEF ArgoHandles
<1>8. CASE Lose(c) \/ Resend(c)
  BY <1>8 DEF Lose, Resend
<1> QED
  BY <1>1, <1>2, <1>3, <1>4, <1>5, <1>6, <1>7, <1>8 DEF StepOf, Handler

\* Only a step of the checks lets a call come nearer to ArgoCD.
LEMMA CheckedKept ==
  ASSUME TypeOK, NEW c \in Calls, CallInv(c), StepOf(c), config' = config
  PROVE  Checked(c)'
<1> USE DEF TypeOK, CallInv, Checked, Registered, Generated, Loaded, Forbidden, Scoped,
            Goto, Conclude, handlerVars, argoVars, limitVars
<1>1. CASE \E r \in Requests, t \in Tokens \union {NoToken} : Arrive(c, r, t)
  BY <1>1 DEF Arrive, NothingYet
<1>2. CASE SearchReturns(c) \/ SearchFails(c)
  BY <1>2 DEF SearchReturns, SearchFails
<1>3. CASE RefuseArguments(c) \/ Block(c)
  BY <1>3 DEF RefuseArguments, Block
<1>4. CASE PassChecks(c)
  BY <1>4 DEF PassChecks
<1>5. CASE AdmitCall(c) \/ LimitCall(c) \/ RefuseParams(c)
  BY <1>5 DEF AdmitCall, LimitCall, RefuseParams
<1>6. CASE Send(c) \/ BuildFails(c)
  BY <1>6 DEF Send, BuildFails
<1>7. CASE ReceiveAnswer(c) \/ GiveUp(c) \/ Audit(c) \/ Reply(c)
  BY <1>7 DEF ReceiveAnswer, GiveUp, Audit, Reply
<1>8. CASE (\E s \in Statuses : ArgoHandles(c, s)) \/ Lose(c) \/ Resend(c)
  BY <1>8 DEF ArgoHandles, Lose, Resend
<1> QED
  BY <1>1, <1>2, <1>3, <1>4, <1>5, <1>6, <1>7, <1>8 DEF StepOf, Handler

\* A sequence that grows by one element.
LEMMA Appended ==
  ASSUME NEW S, NEW q \in Seq(S), NEW x \in S
  PROVE  /\ Append(q, x) # <<>>
         /\ Len(Append(q, x)) = Len(q) + 1
         /\ Append(q, x)[Len(q) + 1] = x
         /\ \A i \in DOMAIN Append(q, x) :
              Append(q, x)[i] = x \/ (i \in DOMAIN q /\ Append(q, x)[i] = q[i])
<1>1. /\ Append(q, x) \in Seq(S)
      /\ Append(q, x) # <<>>
      /\ Len(Append(q, x)) = Len(q) + 1
      /\ \A i \in 1 .. Len(q) : Append(q, x)[i] = q[i]
      /\ Append(q, x)[Len(q) + 1] = x
  BY AppendProperties
<1>2. Len(q) \in Nat /\ DOMAIN q = 1 .. Len(q)
  BY LenProperties
<1>3. DOMAIN Append(q, x) = 1 .. Len(q) + 1
  BY <1>1, LenProperties
<1>4. \A i \in 1 .. Len(q) + 1 : i = Len(q) + 1 \/ i \in 1 .. Len(q)
  BY <1>2
<1> QED
  BY <1>1, <1>2, <1>3, <1>4

\* What ArgoCD is asked on behalf of a call is one of the requests.
LEMMA ServedIsRecord ==
  ASSUME TypeOK, NEW c \in Calls, CallInv(c), wire[c] # "none", NEW s \in Statuses
  PROVE  Served(c, s) \in ServedRecord
<1>1. request[c] \in Operations /\ ~ Unsendable(request[c])
  BY DEF TypeOK, CallInv, NothingYet, Checked, Operations
<1>2. TokenFor(token[c]) \in Tokens \union {StaticToken}
  BY DEF TypeOK, TokenFor
<1> QED
  BY <1>1, <1>2 DEF Served, ServedRecord

\* ArgoCD does what the call asks for, and a write once.
LEMMA ServedAsAskedKept ==
  ASSUME TypeOK, NEW c \in Calls, CallInv(c), StepOf(c)
  PROVE  ServedAsAsked(c)'
<1> USE DEF TypeOK, CallInv, NothingYet, Goto, Conclude, handlerVars, argoVars, limitVars
<1>1. CASE \E r \in Requests, t \in Tokens \union {NoToken} : Arrive(c, r, t)
  BY <1>1, BoundsAssumption DEF Arrive, ServedAsAsked
<1>2. ASSUME UNCHANGED <<request, token, argoVars>> PROVE ServedAsAsked(c)'
  BY <1>2 DEF ServedAsAsked, Served
<1>3. CASE Send(c)
  BY <1>3, BoundsAssumption DEF Send, ServedAsAsked
<1>4. ASSUME NEW s \in Statuses, ArgoHandles(c, s) PROVE ServedAsAsked(c)'
  <2>1. /\ handled'[c] = Append(handled[c], Served(c, s))
        /\ wire[c] = "sent" /\ wire'[c] = "answered"
        /\ request' = request /\ token' = token
    BY <1>4 DEF ArgoHandles
  <2>2. handled[c] \in Seq(ServedRecord) /\ Served(c, s) \in ServedRecord
    BY <2>1, ServedIsRecord
  <2>3. /\ Len(handled'[c]) = Len(handled[c]) + 1
        /\ \A i \in DOMAIN handled'[c] :
             \/ handled'[c][i] = Served(c, s)
             \/ i \in DOMAIN handled[c] /\ handled'[c][i] = handled[c][i]
    BY ONLY <2>1, <2>2, Appended
  <2>4. \A i \in DOMAIN handled'[c] : \E q \in Statuses : handled'[c][i] = Served(c, q)'
    BY <2>1, <2>3 DEF ServedAsAsked, Served
  <2>5. handled'[c] # <<>>
    BY ONLY <2>1, <2>2, Appended
  <2>6. Len(handled'[c]) <= MaxSends
    BY <2>1, <2>2, <2>3, BoundsAssumption DEF ServedAsAsked
  <2>7. ~ Replayable(MethodOf(request[c])) => Len(handled'[c]) <= 1
    BY <2>1, <2>3 DEF ServedAsAsked
  <2> QED
    BY <2>1, <2>4, <2>5, <2>6, <2>7 DEF ServedAsAsked
<1>5. CASE Lose(c)
  BY <1>5 DEF Lose, ServedAsAsked, Served
<1>6. CASE Resend(c)
  BY <1>6 DEF Resend, ServedAsAsked, Served
<1> QED
  BY <1>1, <1>2, <1>3, <1>4, <1>5, <1>6
     DEF StepOf, Handler, SearchReturns, SearchFails, RefuseArguments, Block, PassChecks,
         AdmitCall, LimitCall, RefuseParams, BuildFails, ReceiveAnswer, GiveUp, Audit, Reply


\* The outcome tells what became of the call.
LEMMA ConcludedKept ==
  ASSUME TypeOK, NEW c \in Calls, CallInv(c), StepOf(c)
  PROVE  Concluded(c)'
<1> USE DEF TypeOK, CallInv, NothingYet, Concluded, Goto, Conclude, handlerVars, argoVars,
            limitVars, NoOutcome, Blocked, Refused, Failed, FoundSome, Answered
<1>1. CASE \E r \in Requests, t \in Tokens \union {NoToken} : Arrive(c, r, t)
  BY <1>1 DEF Arrive
<1>2. CASE SearchReturns(c) \/ SearchFails(c)
  BY <1>2 DEF SearchReturns, SearchFails, IsSearch, IsExecute, MissingArguments
<1>3. CASE RefuseArguments(c) \/ PassChecks(c)
  BY <1>3 DEF RefuseArguments, PassChecks
<1>4. CASE Block(c)
  <2>1. ~ IsSearch(request[c])
    BY <1>4 DEF Block, Forbidden, IsSearch, IsExecute
  <2> QED
    BY <1>4, <2>1 DEF Block
<1>5. CASE AdmitCall(c) \/ LimitCall(c) \/ RefuseParams(c)
  BY <1>5 DEF AdmitCall, LimitCall, RefuseParams, Checked
<1>6. CASE Send(c) \/ BuildFails(c)
  BY <1>6 DEF Send, BuildFails, Checked
<1>7. CASE ReceiveAnswer(c)
  BY <1>7 DEF ReceiveAnswer, Checked
<1>8. CASE GiveUp(c) \/ Audit(c) \/ Reply(c)
  BY <1>8 DEF GiveUp, Audit, Reply, Checked
<1>9. CASE \E s \in Statuses : ArgoHandles(c, s)
  BY <1>9 DEF ArgoHandles
<1>10. CASE Lose(c) \/ Resend(c)
  BY <1>10 DEF Lose, Resend
<1> QED
  BY <1>1, <1>2, <1>3, <1>4, <1>5, <1>6, <1>7, <1>8, <1>9, <1>10 DEF StepOf, Handler

\* The record is that of the outcome, and is written once.
LEMMA LoggedKept ==
  ASSUME TypeOK, NEW c \in Calls, CallInv(c), StepOf(c), config' = config
  PROVE  Logged(c)'
<1> USE DEF TypeOK, CallInv, NothingYet, Logged, Goto, Conclude, handlerVars, argoVars,
            limitVars, NoOutcome, Blocked, Refused, Failed, FoundSome, Answered
<1>1. CASE \E r \in Requests, t \in Tokens \union {NoToken} : Arrive(c, r, t)
  BY <1>1 DEF Arrive
<1>2. CASE SearchReturns(c) \/ SearchFails(c)
  BY <1>2 DEF SearchReturns, SearchFails
<1>3. CASE RefuseArguments(c) \/ Block(c) \/ PassChecks(c)
  BY <1>3 DEF RefuseArguments, Block, PassChecks
<1>4. CASE AdmitCall(c) \/ LimitCall(c) \/ RefuseParams(c)
  BY <1>4 DEF AdmitCall, LimitCall, RefuseParams
<1>5. CASE Send(c) \/ BuildFails(c)
  BY <1>5 DEF Send, BuildFails
<1>6. CASE ReceiveAnswer(c) \/ GiveUp(c)
  BY <1>6 DEF ReceiveAnswer, GiveUp
<1>7. CASE Audit(c)
  <2>1. audit[c] = <<>> /\ outcome[c].kind # "refused"
    BY <1>7 DEF Audit, Concluded
  <2>2. audit'[c] = IF config.auditLog THEN <<Record(c)>> ELSE <<>>
    BY <1>7, <2>1 DEF Audit
  <2>3. Record(c)' = Record(c) /\ pc'[c] = "reply" /\ outcome'[c] = outcome[c]
    BY <1>7 DEF Audit, Record, User
  <2> QED
    BY <2>1, <2>2, <2>3
<1>8. CASE Reply(c)
  BY <1>8 DEF Reply, Record, User
<1>9. CASE (\E s \in Statuses : ArgoHandles(c, s)) \/ Lose(c) \/ Resend(c)
  BY <1>9 DEF ArgoHandles, Lose, Resend, Record, User
<1> QED
  BY <1>1, <1>2, <1>3, <1>4, <1>5, <1>6, <1>7, <1>8, <1>9 DEF StepOf, Handler

\* A search finds what was loaded.
LEMMA FoundKept ==
  ASSUME TypeOK, NEW c \in Calls, CallInv(c), StepOf(c), config' = config
  PROVE  (found[c] \subseteq Loaded)'
<1> USE DEF TypeOK, CallInv, Loaded, handlerVars, argoVars, limitVars
<1>1. CASE SearchReturns(c)
  BY <1>1 DEF SearchReturns
<1>2. ASSUME UNCHANGED found PROVE (found[c] \subseteq Loaded)'
  BY <1>2
<1> QED
  BY <1>1, <1>2
     DEF StepOf, Handler, Arrive, SearchFails, RefuseArguments, Block, PassChecks, AdmitCall,
         LimitCall, RefuseParams, Send, BuildFails, ReceiveAnswer, GiveUp, Audit, Reply,
         ArgoHandles, Lose, Resend


\* Every variable keeps its type; what is logged and what ArgoCD does is made of the
\* requests.
LEMMA TypeKept ==
  ASSUME TypeOK, Inv, [Next]_vars
  PROVE  TypeOK'
<1> USE DEF TypeOK, Goto, Conclude, handlerVars, argoVars, limitVars, Outcome
<1>1. ASSUME NEW c \in Calls, NEW r \in Requests, NEW t \in Tokens \union {NoToken},
             Arrive(c, r, t)
      PROVE  TypeOK'
  BY <1>1 DEF Arrive
<1>2. ASSUME NEW c \in Calls, SearchReturns(c) PROVE TypeOK'
  <2>1. PICK results \in SUBSET Loaded : found' = [found EXCEPT ![c] = results]
    BY <1>2 DEF SearchReturns
  <2>2. found' \in [Calls -> SUBSET ParseSpec]
    BY <2>1, LoadedIsParsed
  <2> QED
    BY <1>2, <2>2 DEF SearchReturns
<1>3. ASSUME NEW c \in Calls, SearchFails(c) \/ RefuseArguments(c) \/ Block(c) \/ PassChecks(c)
      PROVE  TypeOK'
  BY <1>3 DEF SearchFails, RefuseArguments, Block, PassChecks
<1>4. ASSUME NEW c \in Calls, AdmitCall(c) PROVE TypeOK'
  <2>1. PICK u \in Users : u = User(c)
    BY UserIsKnown
  <2>2. CASE config.rateLimit
    <3>1. budget[u] > 0 /\ budget' = [budget EXCEPT ![u] = @ - 1]
      BY <1>4, <2>1, <2>2 DEF AdmitCall
    <3>2. budget[u] - 1 \in 0 .. Burst
      BY <3>1, BoundsAssumption
    <3>3. budget' \in [Users -> 0 .. Burst]
      BY <3>1, <3>2
    <3> QED
      BY <1>4, <3>3 DEF AdmitCall
  <2>3. CASE ~ config.rateLimit
    BY <1>4, <2>3 DEF AdmitCall
  <2> QED
    BY <2>2, <2>3
<1>5. ASSUME NEW c \in Calls, LimitCall(c) \/ RefuseParams(c) \/ BuildFails(c) \/ GiveUp(c)
      PROVE  TypeOK'
  BY <1>5 DEF LimitCall, RefuseParams, BuildFails, GiveUp
<1>6. ASSUME NEW c \in Calls, Send(c) \/ Reply(c) \/ Lose(c) \/ Resend(c) PROVE TypeOK'
  BY <1>6 DEF Send, Reply, Lose, Resend
<1>7. ASSUME NEW c \in Calls, ReceiveAnswer(c) PROVE TypeOK'
  <2>1. LastOf(handled[c]) \in ServedRecord
    <3>1. handled[c] \in Seq(ServedRecord) /\ handled[c] # <<>>
      BY <1>7 DEF ReceiveAnswer, Inv, CallInv, ServedAsAsked
    <3> QED
      BY <3>1 DEF LastOf
  <2>2. LastOf(handled[c]).status \in Statuses
    BY <2>1 DEF ServedRecord
  <2>3. outcome' \in [Calls -> Outcome]
    BY <1>7, <2>2 DEF ReceiveAnswer
  <2> QED
    BY <1>7, <2>3 DEF ReceiveAnswer
<1>8. ASSUME NEW c \in Calls, Audit(c) PROVE TypeOK'
  <2>1. CallInv(c) /\ pc[c] = "audit"
    BY <1>8 DEF Audit, Inv
  <2>2. User(c) \in Users
    BY UserIsKnown
  <2>3. ~ IsSearch(request[c]) => request[c] \in Operations
    BY <2>1 DEF CallInv, Checked, Operations
  <2>4. outcome[c].status \in Statuses \union {0}
    BY DEF NoOutcome, Blocked, Refused, Failed, FoundSome, Answered
  <2>5. Record(c) \in AuditRecord
    BY <2>2, <2>3, <2>4 DEF Record, AuditRecord
  <2>6. Append(audit[c], Record(c)) \in Seq(AuditRecord)
    BY <2>5
  <2>7. audit' \in [Calls -> Seq(AuditRecord)]
    BY <1>8, <2>6 DEF Audit
  <2> QED
    BY <1>8, <2>7 DEF Audit
<1>9. ASSUME NEW c \in Calls, NEW s \in Statuses, ArgoHandles(c, s) PROVE TypeOK'
  <2>1. Served(c, s) \in ServedRecord
    BY <1>9, ServedIsRecord DEF ArgoHandles, Inv
  <2>2. Append(handled[c], Served(c, s)) \in Seq(ServedRecord)
    BY <2>1
  <2>3. handled' \in [Calls -> Seq(ServedRecord)]
    BY <1>9, <2>2 DEF ArgoHandles
  <2> QED
    BY <1>9, <2>3 DEF ArgoHandles
<1>10. ASSUME NEW u \in Users, Refill(u) PROVE TypeOK'
  BY <1>10, BoundsAssumption DEF Refill
<1>11. CASE Shutdown \/ Exit \/ UNCHANGED vars
  BY <1>11 DEF Shutdown, Exit, vars
<1> QED
  BY <1>1, <1>2, <1>3, <1>4, <1>5, <1>6, <1>7, <1>8, <1>9, <1>10, <1>11 DEF Next, Handler

-----------------------------------------------------------------------------
(* The invariant *)

\* Type and invariant of the calls carry each other through every step.
THEOREM InvHolds == Spec => [](TypeOK /\ Inv)
<1>1. Init => TypeOK /\ Inv
  <2> SUFFICES ASSUME Init PROVE TypeOK /\ Inv
    OBVIOUS
  <2>1. TypeOK
    BY BoundsAssumption DEF Init, TypeOK, Outcome
  <2>2. ASSUME NEW c \in Calls PROVE CallInv(c)
    BY BoundsAssumption
       DEF Init, CallInv, NothingYet, Checked, ServedAsAsked, Concluded, Logged, NoOutcome
  <2> QED
    BY <2>1, <2>2 DEF Inv
<1>2. TypeOK /\ Inv /\ [Next]_vars => (TypeOK /\ Inv)'
  <2> SUFFICES ASSUME TypeOK, Inv, [Next]_vars PROVE TypeOK' /\ Inv'
    OBVIOUS
  <2>1. ASSUME NEW c \in Calls PROVE CallInv(c)'
    <3>1. CallInv(c) /\ config' = config
      BY ConfigStable DEF Inv
    <3>2. CASE StepOf(c)
      BY <3>1, <3>2, NothingYetKept, CheckedKept, ServedAsAskedKept, ConcludedKept,
         LoggedKept, FoundKept DEF CallInv
    <3>3. CASE Untouched(c)
      BY <3>1, <3>3, UntouchedKeeps
    <3> QED
      BY <3>2, <3>3, OneAtATime
  <2> QED
    BY <2>1, TypeKept DEF Inv
<1> QED
  BY <1>1, <1>2, PTL DEF Spec


\* No variable leaves its type: what ArgoCD has handled is made of clients' requests,
\* and no user's budget goes below zero or above the burst.
THEOREM TypeCorrect == Spec => []TypeOK
  BY InvHolds, PTL

\* Every call stays on the path from its checks to its record.
THEOREM CallsInOrder == Spec => []Inv
  BY InvHolds, PTL

-----------------------------------------------------------------------------
(* What passes the checks *)

\* The arguments a generated tool fills in are where its endpoint has placeholders.
LEMMA SubstitutedMatches ==
  ASSUME NEW p \in Seq(STRING), NEW args
  PROVE  MatchSegments(p, Substituted(p, args))
<1> DEFINE path == Substituted(p, args)
           S == {path[i] : i \in 1 .. Len(p)}
<1>1. DOMAIN p = 1 .. Len(p) /\ Len(p) \in Nat
  OBVIOUS
<1>2. path = [i \in DOMAIN p |->
                IF p[i] \in PathParams /\ args[p[i]] # "" THEN args[p[i]] ELSE p[i]]
  BY DEF Substituted
<1>3. path \in [1 .. Len(p) -> S]
  BY <1>1, <1>2
<1>4. path \in Seq(S)
  BY <1>1, <1>3, SeqDef
<1>5. 1 .. Len(path) = 1 .. Len(p) /\ Len(path) \in Nat
  BY <1>3, <1>4, LenProperties
<1>6. Len(path) = Len(p)
  BY <1>1, <1>5
<1>7. \A i \in DOMAIN p : p[i] \in PathParams \/ p[i] = path[i]
  BY <1>2
<1> QED
  BY <1>6, <1>7 DEF MatchSegments

\* What passes the checks writes nothing in read-only mode, and is in scope where ArgoCD
\* reads the path as it is written: by the checks of handleExecute, and by the filters
\* the generated tools have been through.
LEMMA CheckedIsPermitted ==
  ASSUME NEW r, Registered(r), ~ IsSearch(r), ~ Forbidden(r)
  PROVE  (config.disableWrite => ~ IsWrite(r)) /\ (Plain(r) => WithinScope(r))
<1>1. CASE IsExecute(r)
  <2>1. config.disableWrite => ~ IsWrite(r)
    BY <1>1 DEF Forbidden, IsWriteMethod, MethodOf, IsWrite
  <2>2. ASSUME Plain(r), config.allowed # {}
        PROVE  \E ep \in ParseSpec :
                 /\ \E t \in ep.tags, a \in config.allowed : LowerOf[t] = LowerOf[a]
                 /\ ep.method = Upper(MethodOf(r))
                 /\ MatchSegments(ep.path, ReadAs[PathOf(r)])
    <3>1. IsAllowed(NewAllowedEndpoints(Loaded), r.method, r.path)
      BY <1>1, <2>2 DEF Forbidden, Scoped
    <3>2. PICK ep \in Loaded :
            Upper(ep.method) = Upper(r.method) /\ MatchSegments(ep.path, r.path)
      BY <3>1 DEF IsAllowed, NewAllowedEndpoints
    <3>3. ep \in ParseSpec /\ ep.method = Upper(r.method)
      BY <3>2, LoadedIsParsed, ParsedFacts
    <3>4. \E t \in ep.tags, a \in config.allowed : LowerOf[t] = LowerOf[a]
      BY <2>2, <3>2 DEF Loaded, FilterByTags
    <3>5. ReadAs[PathOf(r)] = r.path
      BY <1>1, <2>2 DEF Plain, PathOf
    <3> QED
      BY <1>1, <3>2, <3>3, <3>4, <3>5 DEF MethodOf
  <2> QED
    BY <2>1, <2>2 DEF WithinScope, Plain
<1>2. CASE ~ IsExecute(r)
  <2>1. r.endpoint \in Loaded /\ ~ (config.disableWrite /\ IsWriteMethod(r.endpoint.method))
    BY <1>2 DEF Registered, Generated
  <2>2. config.disableWrite => ~ IsWrite(r)
    BY <1>2, <2>1 DEF IsWriteMethod, MethodOf, IsWrite
  <2>3. r.endpoint \in ParseSpec /\ r.endpoint.method = Upper(MethodOf(r))
    BY <1>2, <2>1, LoadedIsParsed, ParsedFacts DEF MethodOf
  <2>4. config.allowed # {} =>
          \E t \in r.endpoint.tags, a \in config.allowed : LowerOf[t] = LowerOf[a]
    BY <2>1 DEF Loaded, FilterByTags
  <2>5. Plain(r) => MatchSegments(r.endpoint.path, ReadAs[PathOf(r)])
    BY <1>2, <2>3, ParsedFacts, SubstitutedMatches DEF PathOf, Plain
  <2> QED
    BY <2>2, <2>3, <2>4, <2>5 DEF WithinScope, Plain
<1> QED
  BY <1>1, <1>2

-----------------------------------------------------------------------------
(* What follows *)

\* What ArgoCD has handled, it was asked by the call, which had passed the checks.
LEMMA ServedFacts ==
  ASSUME TypeOK, Inv, NEW c \in Calls, NEW h \in ServedFor(c)
  PROVE  /\ \E s \in Statuses : h = Served(c, s)
         /\ wire[c] # "none"
         /\ request[c] \in Requests
         /\ Registered(request[c])
         /\ ~ IsSearch(request[c])
         /\ ~ Forbidden(request[c])
<1>1. CallInv(c) /\ handled[c] \in Seq(ServedRecord)
  BY DEF Inv, TypeOK
<1>2. PICK i \in DOMAIN handled[c] : h = handled[c][i]
  BY DEF ServedFor
<1>3. handled[c] # <<>>
  BY <1>1, <1>2
<1> QED
  BY <1>1, <1>2, <1>3 DEF CallInv, NothingYet, Checked, ServedAsAsked

\* The record of a call is that of its outcome.
LEMMA LoggedFacts ==
  ASSUME Inv, NEW c \in Calls, NEW a \in LoggedFor(c)
  PROVE  a = Record(c) /\ outcome[c].kind \notin {"none", "refused"}
<1>1. CallInv(c)
  BY DEF Inv
<1> QED
  BY <1>1 DEF CallInv, Logged, Concluded, LoggedFor

\* DISABLE_WRITE holds of everything ArgoCD ever does for any client.
THEOREM ReadOnlyHolds == Spec => []ReadOnlyMode
<1>1. TypeOK /\ Inv => ReadOnlyMode
  <2> SUFFICES ASSUME TypeOK, Inv, config.disableWrite, NEW c \in Calls, NEW h \in ServedFor(c)
               PROVE  h.method \notin WriteMethods
    BY DEF ReadOnlyMode
  <2>1. h.method = SentMethod(MethodOf(request[c]))
    BY ServedFacts DEF Served
  <2>2. Upper(MethodOf(request[c])) \notin WriteMethods
    BY ServedFacts, CheckedIsPermitted DEF IsWrite
  <2> QED
    BY <2>1, <2>2 DEF SentMethod, WriteMethods
<1> QED
  BY <1>1, InvHolds, PTL

\* A blocked call never reaches ArgoCD.
THEOREM BlockedStaysOut == Spec => []BlockedNeverReaches
<1>1. TypeOK /\ Inv => BlockedNeverReaches
  <2> SUFFICES ASSUME Inv, NEW c \in Calls,
                      (\E a \in LoggedFor(c) : a.blocked) \/ outcome[c].kind = "blocked"
               PROVE  wire[c] = "none" /\ handled[c] = <<>>
    BY DEF BlockedNeverReaches
  <2>1. outcome[c].kind = "blocked"
    <3>1. ASSUME NEW a \in LoggedFor(c), a.blocked PROVE outcome[c].kind = "blocked"
      <4>1. a = Record(c)
        BY LoggedFacts
      <4> QED
        BY <3>1, <4>1 DEF Record
    <3> QED
      BY <3>1
  <2> QED
    BY <2>1 DEF Inv, CallInv, Concluded, NothingYet
<1> QED
  BY <1>1, InvHolds, PTL

\* ArgoCD sees the identity the log names.
THEOREM IdentityIsLogged == Spec => []LoggedUserIsForwarded
<1>1. TypeOK /\ Inv => LoggedUserIsForwarded
  <2> SUFFICES ASSUME TypeOK, Inv, NEW c \in Calls, NEW a \in LoggedFor(c), NEW h \in ServedFor(c)
               PROVE  a.user = UserFromContext(IF h.token = StaticToken THEN NoToken ELSE h.token)
    BY DEF LoggedUserIsForwarded
  <2>0. a = Record(c)
    BY LoggedFacts
  <2>1. a.user = UserFromContext(token[c])
    BY <2>0 DEF Record, User
  <2>2. h.token = TokenFor(token[c])
    BY ServedFacts DEF Served
  <2>3. token[c] \in Tokens \union {NoToken}
    BY DEF TypeOK
  <2>4. token[c] = (IF h.token = StaticToken THEN NoToken ELSE h.token)
    BY <2>2, <2>3, UsersAssumption DEF TokenFor
  <2> QED
    BY <2>1, <2>4
<1> QED
  BY <1>1, InvHolds, PTL

\* Whatever is lost or late, a call has at most one write done.
THEOREM NoSecondWrite == Spec => []WritesAtMostOnce
<1>1. TypeOK /\ Inv => WritesAtMostOnce
  <2> SUFFICES ASSUME TypeOK, Inv, NEW c \in Calls
               PROVE  Cardinality({i \in DOMAIN handled[c] :
                                     handled[c][i].method \in WriteMethods}) <= 1
    BY DEF WritesAtMostOnce
  <2> DEFINE writes == {i \in DOMAIN handled[c] : handled[c][i].method \in WriteMethods}
  <2>1. handled[c] \in Seq(ServedRecord) /\ CallInv(c)
    BY DEF TypeOK, Inv
  <2>2. ASSUME NEW i \in writes PROVE Len(handled[c]) <= 1
    <3>1. handled[c][i] \in ServedFor(c)
      BY DEF ServedFor
    <3>2. handled[c][i].method = SentMethod(MethodOf(request[c])) /\ wire[c] # "none"
      BY <3>1, ServedFacts DEF Served
    <3>3. ~ Replayable(MethodOf(request[c]))
      BY <3>2 DEF Replayable, WriteMethods
    <3> QED
      BY <2>1, <3>2, <3>3 DEF CallInv, ServedAsAsked
  <2>3. writes = {} \/ writes = {1}
    BY <2>1, <2>2
  <2> QED
    BY <2>3, FS_EmptySet, FS_Singleton, 0 <= 1, 1 <= 1
<1> QED
  BY <1>1, InvHolds, PTL

\* A reply can be found in the log, and the log agrees with what ArgoCD answered.
THEOREM AuditHolds == Spec => []AuditTellsTheTruth
<1>1. TypeOK /\ Inv => AuditTellsTheTruth
  <2> SUFFICES ASSUME TypeOK, Inv, config.auditLog, NEW c \in Calls
               PROVE  /\ Len(audit[c]) <= 1
                      /\ pc[c] = "done" /\ outcome[c].kind # "refused" => Len(audit[c]) = 1
                      /\ \A a \in LoggedFor(c) :
                           IF a.status # 0
                             THEN /\ handled[c] # <<>>
                                  /\ a.status = handled[c][Len(handled[c])].status
                                  /\ ~ a.blocked /\ ~ a.failed
                             ELSE a.blocked \/ a.failed \/ IsSearch(request[c])
    BY DEF AuditTellsTheTruth
  <2>1. CallInv(c)
    BY DEF Inv
  <2>2. Len(audit[c]) <= 1
    BY <2>1 DEF CallInv, Logged
  <2>3. pc[c] = "done" /\ outcome[c].kind # "refused" => Len(audit[c]) = 1
    BY <2>1 DEF CallInv, Logged
  <2>4. ASSUME NEW a \in LoggedFor(c)
        PROVE  IF a.status # 0
                 THEN /\ handled[c] # <<>>
                      /\ a.status = handled[c][Len(handled[c])].status
                      /\ ~ a.blocked /\ ~ a.failed
                 ELSE a.blocked \/ a.failed \/ IsSearch(request[c])
    <3>0. a = Record(c) /\ outcome[c].kind \notin {"none", "refused"}
      BY LoggedFacts
    <3>1. /\ a.status = outcome[c].status
          /\ a.blocked <=> outcome[c].kind = "blocked"
          /\ a.failed <=> outcome[c].kind = "error"
      BY <3>0 DEF Record
    <3>2. outcome[c] \in Outcome
      BY DEF TypeOK
    <3>3. CASE outcome[c] \in {Answered(s) : s \in Statuses}
      BY <2>1, <3>1, <3>3 DEF Answered, Statuses, CallInv, Concluded, ServedAsAsked, LastOf
    <3>4. CASE outcome[c] \in {NoOutcome, Blocked, Refused, Failed, FoundSome}
      BY <2>1, <3>0, <3>1, <3>4
         DEF NoOutcome, Blocked, Refused, Failed, FoundSome, CallInv, Concluded
    <3> QED
      BY <3>2, <3>3, <3>4 DEF Outcome
  <2> QED
    BY <2>2, <2>3, <2>4
<1> QED
  BY <1>1, InvHolds, PTL


\* With ALLOWED_RESOURCES ArgoCD serves operations that carry one of the tags, where it
\* reads the path as it is written, be it asked by execute_operation or by a generated
\* tool.
THEOREM ScopeHolds == Spec => []InScope
<1>1. TypeOK /\ Inv => InScope
  <2> SUFFICES ASSUME TypeOK, Inv, config.allowed # {}, NEW c \in Calls, NEW h \in ServedFor(c),
                      Plain(request[c])
               PROVE  \E ep \in ParseSpec :
                        /\ \E t \in ep.tags, a \in config.allowed : LowerOf[t] = LowerOf[a]
                        /\ ep.method = h.method
                        /\ MatchSegments(ep.path, h.path)
    BY DEF InScope
  <2>1. h.method = SentMethod(MethodOf(request[c])) /\ h.path = ReadAs[PathOf(request[c])]
    BY ServedFacts DEF Served
  <2>2. PICK ep \in ParseSpec :
          /\ \E t \in ep.tags, a \in config.allowed : LowerOf[t] = LowerOf[a]
          /\ ep.method = Upper(MethodOf(request[c]))
          /\ MatchSegments(ep.path, ReadAs[PathOf(request[c])])
    BY ServedFacts, CheckedIsPermitted DEF WithinScope
  <2>3. Upper("") = ""
    BY DEF Upper, UpperOf
  <2>4. h.method = ep.method
    BY <2>1, <2>2, <2>3, ParsedFacts DEF SentMethod
  <2> QED
    BY <2>1, <2>2, <2>4
<1> QED
  BY <1>1, InvHolds, PTL

\* What a search has found may be executed, whoever searches and whoever executes.
THEOREM DiscoveryHolds == Spec => []DiscoveredIsExecutable
<1>1. TypeOK /\ Inv => DiscoveredIsExecutable
  <2> SUFFICES ASSUME TypeOK, Inv, NEW c \in Calls, NEW d \in Calls,
                      Forbidden(request[c]), NEW ep \in found[d],
                      ep.method = Upper(request[c].method),
                      MatchSegments(ep.path, request[c].path)
               PROVE  FALSE
    BY DEF DiscoveredIsExecutable
  <2> DEFINE r == request[c]
  <2>1. ep \in Loaded
    BY DEF Inv, CallInv
  <2>2. CASE config.disableWrite /\ IsWriteMethod(r.method)
    <3>1. IsReadOnlyMethod(ep.method)
      BY <2>1, <2>2 DEF Loaded, FilterByTags, FilterReadOnly
    <3>2. Upper(ep.method) = Upper(r.method)
      BY UpperFacts
    <3> QED
      BY <2>2, <3>1, <3>2 DEF IsReadOnlyMethod, ReadOnlyMethods, IsWriteMethod, WriteMethods
  <2>3. CASE ~ Scoped(r.method, r.path)
    <3>1. Upper(ep.method) = Upper(r.method)
      BY UpperFacts
    <3>2. [method |-> Upper(ep.method), segments |-> ep.path] \in NewAllowedEndpoints(Loaded)
      BY <2>1 DEF NewAllowedEndpoints
    <3>3. IsAllowed(NewAllowedEndpoints(Loaded), r.method, r.path)
      BY <3>1, <3>2 DEF IsAllowed
    <3> QED
      BY <2>3, <3>3 DEF Scoped
  <2> QED
    BY <2>2, <2>3 DEF Forbidden
<1> QED
  BY <1>1, InvHolds, PTL

-----------------------------------------------------------------------------
(* The books of the rate limit *)

\* Only an admission charges a call, and a charged call stays charged.
LEMMA ChargedByAdmission ==
  ASSUME TypeOK, NEW c \in Calls, CallInv(c), StepOf(c)
  PROVE  \/ /\ AdmitCall(c)
            /\ ~ Charged(c) /\ Charged(c)'
            /\ token' = token
         \/ /\ Charged(c)' <=> Charged(c)
            /\ Charged(c) => token' = token
            /\ UNCHANGED limitVars
<1> USE DEF TypeOK, CallInv, NothingYet, Concluded, Charged, Goto, Conclude, handlerVars,
            argoVars, limitVars, NoOutcome, Blocked, Refused, Failed, FoundSome, Answered
<1>1. CASE \E r \in Requests, t \in Tokens \union {NoToken} : Arrive(c, r, t)
  BY <1>1 DEF Arrive
<1>2. CASE SearchReturns(c) \/ SearchFails(c)
  BY <1>2 DEF SearchReturns, SearchFails, IsSearch
<1>3. CASE RefuseArguments(c) \/ Block(c) \/ PassChecks(c)
  BY <1>3 DEF RefuseArguments, Block, PassChecks
<1>4. CASE AdmitCall(c)
  <2>1. request[c].tool \in {"execute_operation", "generated"}
    BY <1>4 DEF AdmitCall, Checked, Registered, IsSearch, IsExecute, IsGenerated
  <2> QED
    BY <1>4, <2>1 DEF AdmitCall
<1>5. CASE LimitCall(c) \/ RefuseParams(c)
  BY <1>5 DEF LimitCall, RefuseParams, Checked
<1>6. CASE Send(c) \/ BuildFails(c)
  BY <1>6 DEF Send, BuildFails, Checked
<1>7. CASE ReceiveAnswer(c) \/ GiveUp(c)
  BY <1>7 DEF ReceiveAnswer, GiveUp, Checked
<1>8. CASE Audit(c) \/ Reply(c)
  BY <1>8 DEF Audit, Reply
<1>9. CASE (\E s \in Statuses : ArgoHandles(c, s)) \/ Lose(c) \/ Resend(c)
  BY <1>9 DEF ArgoHandles, Lose, Resend
<1> QED
  BY <1>1, <1>2, <1>3, <1>4, <1>5, <1>6, <1>7, <1>8, <1>9 DEF StepOf, Handler

\* A call nobody touches is as charged as before, to the same user.
LEMMA UntouchedCharge ==
  ASSUME NEW c \in Calls, Untouched(c)
  PROVE  (Charged(c)' <=> Charged(c)) /\ token'[c] = token[c]
  BY DEF Untouched, Charged

\* A step charges one call with an admission, and no other in any other way.
LEMMA ChargeStep ==
  ASSUME TypeOK, Inv, [Next]_vars
  PROVE  \/ \E c \in Calls :
              /\ AdmitCall(c)
              /\ c \notin ChargedTo(User(c))
              /\ \A u : ChargedTo(u)' =
                          IF u = User(c) THEN ChargedTo(u) \union {c} ELSE ChargedTo(u)
         \/ /\ \A u : ChargedTo(u)' = ChargedTo(u)
            /\ UNCHANGED limitVars \/ \E u \in Users : Refill(u)
<1>1. ASSUME NEW c \in Calls, StepOf(c), \A d \in Calls : d # c => Untouched(d),
             AdmitCall(c), ~ Charged(c), Charged(c)', token' = token
      PROVE  /\ c \notin ChargedTo(User(c))
             /\ \A u : ChargedTo(u)' =
                         IF u = User(c) THEN ChargedTo(u) \union {c} ELSE ChargedTo(u)
  <2>1. \A d \in Calls : d # c => (Charged(d)' <=> Charged(d))
    BY <1>1, UntouchedCharge
  <2> QED
    BY <1>1, <2>1 DEF ChargedTo, User
<1>2. ASSUME \A d \in Calls : (Charged(d)' <=> Charged(d)) /\ (Charged(d) => token'[d] = token[d])
      PROVE  \A u : ChargedTo(u)' = ChargedTo(u)
  BY <1>2 DEF ChargedTo, User
<1>3. ASSUME NEW c \in Calls, StepOf(c), \A d \in Calls : d # c => Untouched(d),
             ~ AdmitCall(c) \/ Charged(c) \/ ~ Charged(c)' \/ token' # token
      PROVE  (\A u : ChargedTo(u)' = ChargedTo(u)) /\ UNCHANGED limitVars
  <2>1. /\ Charged(c)' <=> Charged(c)
        /\ Charged(c) => token' = token
        /\ UNCHANGED limitVars
    BY <1>3, ChargedByAdmission DEF Inv
  <2>2. \A d \in Calls : d # c => (Charged(d)' <=> Charged(d)) /\ token'[d] = token[d]
    BY <1>3, UntouchedCharge
  <2> QED
    BY <1>2, <2>1, <2>2
<1>4. CASE \E c \in Calls : StepOf(c) /\ \A d \in Calls : d # c => Untouched(d)
  BY <1>1, <1>3, <1>4
<1>5. ASSUME \A c \in Calls : Untouched(c) PROVE \A u : ChargedTo(u)' = ChargedTo(u)
  <2>1. \A d \in Calls : (Charged(d)' <=> Charged(d)) /\ token'[d] = token[d]
    BY <1>5, UntouchedCharge
  <2> QED
    BY <1>2, <2>1
<1> QED
  BY <1>4, <1>5, OneAtATime

\* The books balance whatever becomes of the calls that were admitted.
THEOREM BooksHold == Spec => []BooksBalance
<1>1. \A u : IsFiniteSet(ChargedTo(u)) /\ Cardinality(ChargedTo(u)) \in Nat
  BY BoundsAssumption, FS_Subset, FS_CardinalityType DEF ChargedTo
<1>2. Init => BooksBalance
  <2> SUFFICES ASSUME Init, NEW u \in Users
               PROVE  budget[u] + Cardinality(ChargedTo(u)) = Burst + refilled[u]
    BY DEF BooksBalance
  <2>1. ChargedTo(u) = {}
    BY DEF Init, ChargedTo, Charged
  <2> QED
    BY <2>1, FS_EmptySet, BoundsAssumption DEF Init
<1>3. TypeOK /\ Inv /\ BooksBalance /\ [Next]_vars => BooksBalance'
  <2> SUFFICES ASSUME TypeOK, Inv, BooksBalance, [Next]_vars, config'.rateLimit, NEW u \in Users
               PROVE  budget'[u] + Cardinality(ChargedTo(u)') = Burst + refilled'[u]
    BY DEF BooksBalance
  <2>1. config' = config /\ config.rateLimit
    BY ConfigStable
  <2>2. /\ budget[u] + Cardinality(ChargedTo(u)) = Burst + refilled[u]
        /\ budget[u] \in Int /\ refilled[u] \in Int /\ Cardinality(ChargedTo(u)) \in Int
    BY <1>1, <2>1, BoundsAssumption DEF BooksBalance, TypeOK
  <2>3. ASSUME NEW c \in Calls, AdmitCall(c), c \notin ChargedTo(User(c)),
               ChargedTo(u)' = IF u = User(c) THEN ChargedTo(u) \union {c} ELSE ChargedTo(u)
        PROVE  budget'[u] + Cardinality(ChargedTo(u)') = Burst + refilled'[u]
    <3>1. budget' = [budget EXCEPT ![User(c)] = @ - 1] /\ refilled' = refilled
      BY <2>1, <2>3 DEF AdmitCall
    <3>2. CASE u = User(c)
      <4>1. Cardinality(ChargedTo(u)') = Cardinality(ChargedTo(u)) + 1
        BY <1>1, <2>3, <3>2, FS_AddElement
      <4>2. budget'[u] = budget[u] - 1
        BY <3>1, <3>2 DEF TypeOK
      <4> QED
        BY <2>2, <3>1, <4>1, <4>2
    <3>3. CASE u # User(c)
      BY <2>2, <2>3, <3>1, <3>3 DEF TypeOK
    <3> QED
      BY <3>2, <3>3
  <2>4. ASSUME ChargedTo(u)' = ChargedTo(u), UNCHANGED limitVars \/ \E v \in Users : Refill(v)
        PROVE  budget'[u] + Cardinality(ChargedTo(u)') = Burst + refilled'[u]
    <3>1. CASE UNCHANGED limitVars
      BY <2>2, <2>4, <3>1 DEF limitVars
    <3>2. ASSUME NEW v \in Users, Refill(v)
          PROVE  budget'[u] - refilled'[u] = budget[u] - refilled[u] /\ refilled'[u] \in Int
                   /\ budget'[u] \in Int
      BY <2>2, <3>2, BoundsAssumption DEF Refill, TypeOK
    <3>3. CASE \E v \in Users : Refill(v)
      BY <2>2, <2>4, <3>2, <3>3, BoundsAssumption
    <3> QED
      BY <2>4, <3>1, <3>3
  <2> QED
    BY <2>3, <2>4, ChargeStep
<1> QED
  BY <1>2, <1>3, InvHolds, PTL DEF Spec

\* Everything that reaches ArgoCD has been paid for, be it early, late or twice.
THEOREM PaidFor == Spec => []ReachingIsPaidFor
<1>1. TypeOK /\ Inv /\ BooksBalance => ReachingIsPaidFor
  <2> SUFFICES ASSUME TypeOK, Inv, BooksBalance, config.rateLimit, NEW u \in Users
               PROVE  Cardinality({c \in Calls : handled[c] # <<>> /\ User(c) = u})
                        <= Burst + refilled[u]
    BY DEF ReachingIsPaidFor
  <2> DEFINE reached == {c \in Calls : handled[c] # <<>> /\ User(c) = u}
  <2>1. ASSUME NEW c \in Calls, handled[c] # <<>> PROVE Charged(c)
    <3>1. CallInv(c) /\ wire[c] # "none"
      BY <2>1 DEF Inv, CallInv, NothingYet
    <3>2. request[c].tool \in {"execute_operation", "generated"}
      BY <3>1 DEF CallInv, NothingYet, Checked, Registered, IsSearch, IsExecute, IsGenerated
    <3>3. outcome[c].kind # "blocked" /\ ~ MissingArguments(request[c])
      BY <3>1 DEF CallInv, Checked, Concluded
    <3> QED
      BY <3>1, <3>2, <3>3 DEF Charged, CallInv, NothingYet, TypeOK
  <2>2. reached \subseteq ChargedTo(u)
    BY <2>1 DEF ChargedTo
  <2>3. IsFiniteSet(ChargedTo(u))
    BY BoundsAssumption, FS_Subset DEF ChargedTo
  <2>4. /\ Cardinality(reached) <= Cardinality(ChargedTo(u))
        /\ Cardinality(reached) \in Nat /\ Cardinality(ChargedTo(u)) \in Nat
    BY <2>2, <2>3, FS_Subset, FS_CardinalityType
  <2>5. budget[u] \in Nat /\ refilled[u] \in Nat
    BY BoundsAssumption DEF TypeOK
  <2> QED
    BY <2>4, <2>5, BoundsAssumption DEF BooksBalance
<1> QED
  BY <1>1, InvHolds, BooksHold, PTL

-----------------------------------------------------------------------------
(* Whom a refusal is for *)

\* The key of a refused call has been drawn upon as often as its bucket is deep.
RefusalsAreEarned ==
  \A c \in Calls :
    outcome[c].kind = "blocked" /\ ~ Forbidden(request[c]) =>
      Cardinality(ChargedTo(User(c))) >= Burst

\* A call is refused by the limiter only when its user's bucket is empty.
LEMMA RefusalsEarned == Spec => []RefusalsAreEarned
<1>0. \A u : IsFiniteSet(ChargedTo(u)) /\ Cardinality(ChargedTo(u)) \in Nat
  BY BoundsAssumption, FS_Subset, FS_CardinalityType DEF ChargedTo
<1>1. Init => RefusalsAreEarned
  BY DEF Init, RefusalsAreEarned, NoOutcome
<1>2. TypeOK /\ Inv /\ BooksBalance /\ RefusalsAreEarned /\ [Next]_vars => RefusalsAreEarned'
  <2> SUFFICES ASSUME TypeOK, Inv, BooksBalance, RefusalsAreEarned, [Next]_vars,
                      NEW c \in Calls, outcome'[c].kind = "blocked", ~ Forbidden(request[c])'
               PROVE  Cardinality(ChargedTo(User(c)))' >= Burst
    BY DEF RefusalsAreEarned
  <2>1. CallInv(c) /\ config' = config
    BY ConfigStable DEF Inv
  <2>2. PICK u \in Users : u = User(c)
    BY UserIsKnown
  <2>3. /\ User(c)' = u
        /\ \/ outcome[c].kind = "blocked" /\ ~ Forbidden(request[c])
           \/ LimitCall(c)
    <3> USE DEF TypeOK, Goto, Conclude, handlerVars, argoVars, limitVars, NoOutcome, Blocked,
                Refused, Failed, FoundSome, Answered, Forbidden, Scoped, Loaded
    <3>1. CASE Untouched(c)
      BY <2>1, <2>2, <3>1 DEF Untouched, User
    <3>2. CASE \E r \in Requests, t \in Tokens \union {NoToken} : Arrive(c, r, t)
      BY <2>1, <3>2 DEF Arrive, CallInv, NothingYet
    <3>3. CASE SearchReturns(c) \/ SearchFails(c) \/ RefuseArguments(c)
      BY <3>3 DEF SearchReturns, SearchFails, RefuseArguments
    <3>4. CASE Block(c)
      BY <2>1, <3>4 DEF Block
    <3>5. CASE LimitCall(c)
      BY <2>2, <3>5 DEF LimitCall, User
    <3>6. CASE RefuseParams(c) \/ BuildFails(c) \/ ReceiveAnswer(c) \/ GiveUp(c)
      BY <3>6 DEF RefuseParams, BuildFails, ReceiveAnswer, GiveUp
    <3>7. CASE PassChecks(c) \/ AdmitCall(c) \/ Send(c) \/ Audit(c) \/ Reply(c)
      BY <2>1, <2>2, <3>7 DEF PassChecks, AdmitCall, Send, Audit, Reply, User
    <3>8. CASE (\E s \in Statuses : ArgoHandles(c, s)) \/ Lose(c) \/ Resend(c)
      BY <2>1, <2>2, <3>8 DEF ArgoHandles, Lose, Resend, User
    <3>9. StepOf(c) \/ Untouched(c)
      BY OneAtATime
    <3> QED
      BY <3>1, <3>2, <3>3, <3>4, <3>5, <3>6, <3>7, <3>8, <3>9 DEF StepOf, Handler
  <2>4. Cardinality(ChargedTo(u)) >= Burst
    <3>1. CASE outcome[c].kind = "blocked" /\ ~ Forbidden(request[c])
      BY <2>2, <3>1 DEF RefusalsAreEarned
    <3>2. CASE LimitCall(c)
      <4>1. config.rateLimit /\ budget[u] = 0
        BY <2>2, <3>2 DEF LimitCall
      <4>2. refilled[u] \in Nat
        BY BoundsAssumption DEF TypeOK
      <4> QED
        BY <1>0, <4>1, <4>2, BoundsAssumption DEF BooksBalance
    <3> QED
      BY <2>3, <3>1, <3>2
  <2>5. /\ Cardinality(ChargedTo(u)') >= Cardinality(ChargedTo(u))
        /\ Cardinality(ChargedTo(u)') \in Nat
    <3>1. ChargedTo(u)' = ChargedTo(u) \/ \E d \in Calls : ChargedTo(u)' = ChargedTo(u) \union {d}
      BY ChargeStep
    <3>2. ASSUME NEW d PROVE /\ Cardinality(ChargedTo(u) \union {d}) >= Cardinality(ChargedTo(u))
                             /\ Cardinality(ChargedTo(u) \union {d}) \in Nat
      <4>1. PICK S : S = ChargedTo(u)
        OBVIOUS
      <4>2. IsFiniteSet(S) /\ Cardinality(S) \in Nat
        BY <1>0, <4>1
      <4>3. Cardinality(S \union {d}) = IF d \in S THEN Cardinality(S) ELSE Cardinality(S) + 1
        BY <4>2, FS_AddElement
      <4> QED
        BY <4>1, <4>2, <4>3
    <3> QED
      BY <1>0, <3>1, <3>2
  <2> QED
    BY <1>0, <2>3, <2>4, <2>5, BoundsAssumption
<1> QED
  BY <1>1, <1>2, InvHolds, BooksHold, PTL DEF Spec

\* Where tokens name their users a caller is limited for his own calls only.
THEOREM LimitsAreOwn ==
  ASSUME EmailsTellApart
  PROVE  Spec => []LimitIsOwn
<1>1. TypeOK /\ RefusalsAreEarned => LimitIsOwn
  <2> SUFFICES ASSUME TypeOK, RefusalsAreEarned, NEW c \in Calls,
                      outcome[c].kind = "blocked", ~ Forbidden(request[c])
               PROVE  Cardinality({d \in Calls : Charged(d) /\ token[d] = token[c]}) >= Burst
    BY DEF LimitIsOwn
  <2>1. ASSUME NEW d \in Calls, User(d) = User(c) PROVE token[d] = token[c]
    BY <2>1, EmailsTellApart DEF EmailsTellApart, User, UserFromContext, TypeOK
  <2>2. {d \in Calls : Charged(d) /\ token[d] = token[c]} = ChargedTo(User(c))
    BY <2>1 DEF ChargedTo, User
  <2> QED
    BY <2>2 DEF RefusalsAreEarned
<1> QED
  BY <1>1, RefusalsEarned, InvHolds, PTL
=============================================================================
