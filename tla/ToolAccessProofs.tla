-------------------------- MODULE ToolAccessProofs --------------------------
(* The handlers of ToolCalls implement ToolAccess: every step of theirs is a *)
(* step of it, or one it does not see.                                      *)
EXTENDS ToolCallsProofs

-----------------------------------------------------------------------------
(* What is permitted, and what the handlers let through *)

\* What is permitted passes the checks: an operation in scope is in every list.
LEMMA PermittedIsNotForbidden ==
  ASSUME NEW r, Plain(r), WithinScope(r), ~ (config.disableWrite /\ IsWrite(r))
  PROVE  ~ Forbidden(r)
<1> SUFFICES ASSUME Forbidden(r) PROVE FALSE
  OBVIOUS
<1>1. MethodOf(r) = r.method /\ ReadAs[PathOf(r)] = r.path
  BY DEF Forbidden, MethodOf, PathOf, Plain
<1>2. ~ (config.disableWrite /\ IsWriteMethod(r.method))
  BY <1>1 DEF IsWrite, IsWriteMethod
<1>3. config.allowed # {} /\ ~ IsAllowed(NewAllowedEndpoints(Loaded), r.method, r.path)
  BY <1>2 DEF Forbidden, Scoped
<1>4. PICK ep \in ParseSpec :
        /\ \E t \in ep.tags, a \in config.allowed : LowerOf[t] = LowerOf[a]
        /\ ep.method = Upper(r.method)
        /\ MatchSegments(ep.path, r.path)
  BY <1>1, <1>3 DEF WithinScope
<1>5. Upper(ep.method) = Upper(r.method)
  BY <1>4, ParsedFacts
<1>6. config.disableWrite => IsReadOnlyMethod(ep.method)
  <2>1. ep.method \in ReadOnlyMethods \union WriteMethods
    BY DEF ParseSpec, IsHTTPMethod
  <2> QED
    BY <1>2, <1>4, <1>5, <2>1 DEF IsWriteMethod, IsReadOnlyMethod
<1>7. ep \in Loaded
  BY <1>4, <1>6 DEF Loaded, FilterByTags, FilterReadOnly
<1>8. [method |-> Upper(ep.method), segments |-> ep.path] \in NewAllowedEndpoints(Loaded)
  BY <1>7 DEF NewAllowedEndpoints
<1> QED
  BY <1>3, <1>4, <1>5, <1>8 DEF IsAllowed

-----------------------------------------------------------------------------
(* What ToolAccess sees of the calls *)

Asks == [c \in Calls |-> AskOf(c)]

Stages == [c \in Calls |-> StageOf(c)]

Acts == [c \in Calls |-> Len(handled[c])]

Reports == [c \in Calls |-> ReportsOf(c)]

\* A step of one call changes what is seen of this one only.
LEMMA OneIsSeen ==
  ASSUME NEW d \in Calls, config' = config, \A c \in Calls : c # d => Untouched(c)
  PROVE  /\ Asks' = [Asks EXCEPT ![d] = AskOf(d)']
         /\ Stages' = [Stages EXCEPT ![d] = StageOf(d)']
         /\ Acts' = [Acts EXCEPT ![d] = Len(handled[d])']
         /\ Reports' = [Reports EXCEPT ![d] = ReportsOf(d)']
<1>1. ASSUME NEW c \in Calls, c # d
      PROVE  /\ AskOf(c)' = AskOf(c)
             /\ StageOf(c)' = StageOf(c)
             /\ Len(handled[c])' = Len(handled[c])
             /\ ReportsOf(c)' = ReportsOf(c)
  BY <1>1 DEF Untouched, AskOf, WithinScope, User, StageOf, Charged, ReportsOf
<1>2. Asks' = [Asks EXCEPT ![d] = AskOf(d)']
  BY <1>1 DEF Asks
<1>3. Stages' = [Stages EXCEPT ![d] = StageOf(d)']
  BY <1>1 DEF Stages
<1>4. Acts' = [Acts EXCEPT ![d] = Len(handled[d])']
  BY <1>1 DEF Acts
<1>5. Reports' = [Reports EXCEPT ![d] = ReportsOf(d)']
  BY <1>1 DEF Reports
<1> QED
  BY <1>2, <1>3, <1>4, <1>5

\* Where nobody is touched nothing is seen to change.
LEMMA NothingIsSeen ==
  ASSUME config' = config, \A c \in Calls : Untouched(c)
  PROVE  Asks' = Asks /\ Stages' = Stages /\ Acts' = Acts /\ Reports' = Reports
<1>1. ASSUME NEW c \in Calls
      PROVE  /\ AskOf(c)' = AskOf(c)
             /\ StageOf(c)' = StageOf(c)
             /\ Len(handled[c])' = Len(handled[c])
             /\ ReportsOf(c)' = ReportsOf(c)
  BY <1>1 DEF Untouched, AskOf, WithinScope, User, StageOf, Charged, ReportsOf
<1> QED
  BY <1>1 DEF Asks, Stages, Acts, Reports

\* What a call asks stays what it was.
LEMMA AskIsKept ==
  ASSUME TypeOK, NEW c \in Calls, CallInv(c), StepOf(c), pc[c] # "ready", config' = config
  PROVE  AskOf(c)' = AskOf(c)
<1>1. request'[c] = request[c] /\ token'[c] = token[c] /\ pc'[c] # "ready"
  <2> USE DEF TypeOK, Goto, handlerVars, argoVars, limitVars
  <2>1. CASE \E r \in Requests, t \in Tokens \union {NoToken} : Arrive(c, r, t)
    BY <2>1 DEF Arrive
  <2>2. CASE SearchReturns(c) \/ SearchFails(c)
    BY <2>2 DEF SearchReturns, SearchFails
  <2>3. CASE RefuseArguments(c) \/ Block(c) \/ PassChecks(c)
    BY <2>3 DEF RefuseArguments, Block, PassChecks
  <2>4. CASE AdmitCall(c) \/ LimitCall(c) \/ RefuseParams(c)
    BY <2>4 DEF AdmitCall, LimitCall, RefuseParams
  <2>5. CASE Send(c) \/ BuildFails(c) \/ ReceiveAnswer(c) \/ GiveUp(c)
    BY <2>5 DEF Send, BuildFails, ReceiveAnswer, GiveUp
  <2>6. CASE Audit(c) \/ Reply(c)
    BY <2>6 DEF Audit, Reply
  <2>7. CASE (\E s \in Statuses : ArgoHandles(c, s)) \/ Lose(c) \/ Resend(c)
    BY <2>7 DEF ArgoHandles, Lose, Resend
  <2> QED
    BY <2>1, <2>2, <2>3, <2>4, <2>5, <2>6, <2>7 DEF StepOf, Handler
<1>2. pc[c] # "ready"
  OBVIOUS
<1> QED
  BY <1>1, <1>2 DEF AskOf, WithinScope, User

\* Only a call that was admitted has a request on the wire.
LEMMA SentIsCharged ==
  ASSUME TypeOK, NEW c \in Calls, CallInv(c), wire[c] # "none"
  PROVE  Charged(c) /\ StageOf(c) = "admitted" /\ KindOf(request[c]) = "operation"
<1>1. pc[c] \in {"waiting", "audit", "reply", "done"}
  BY DEF TypeOK, CallInv, NothingYet
<1>2. ~ IsSearch(request[c]) /\ ~ MissingArguments(request[c])
  BY DEF CallInv, Checked
<1>3. request[c].tool \in {"execute_operation", "generated"}
  BY <1>1, <1>2 DEF CallInv, Checked, Registered, IsSearch, IsExecute, IsGenerated
<1>4. outcome[c].kind # "blocked"
  BY DEF CallInv, Concluded
<1> QED
  BY <1>1, <1>2, <1>3, <1>4 DEF Charged, StageOf, KindOf

\* A step of a handler that ToolAccess sees nothing of.
LEMMA Unseen ==
  ASSUME NEW d \in Calls, config' = config, \A c \in Calls : c # d => Untouched(c),
         AskOf(d)' = AskOf(d), StageOf(d)' = StageOf(d), handled' = handled, audit' = audit,
         budget' = budget
  PROVE  UNCHANGED Access!vars
<1>1. Asks' = Asks /\ Stages' = Stages /\ Acts' = Acts /\ Reports' = Reports
  BY OneIsSeen DEF Asks, Stages, Acts, Reports, ReportsOf
<1> QED
  BY <1>1 DEF Access!vars, Access!choices, Asks, Stages, Acts, Reports

-----------------------------------------------------------------------------
(* One step of one call *)

\* A call that arrives is a request.
LEMMA ArriveIsRequest ==
  ASSUME TypeOK, TypeOK', NEW d \in Calls, NEW r \in Requests,
         NEW t \in Tokens \union {NoToken}, Arrive(d, r, t), config' = config,
         \A c \in Calls : c # d => Untouched(c)
  PROVE  Access!Request(d)
<1>1. Stages[d] = "new" /\ StageOf(d)' = "asked"
  BY DEF TypeOK, Arrive, Goto, Stages, StageOf
<1>2. AskOf(d)' \in Access!Ask
  <2>1. User(d)' \in Users
    BY DEF TypeOK, User, Users
  <2>2. pc'[d] # "ready"
    BY DEF TypeOK, Arrive, Goto
  <2>3. KindOf(request[d])' \in {"search", "malformed", "operation"}
    BY DEF KindOf
  <2>4. /\ (KindOf(request[d]) = "operation" /\ IsWrite(request[d]))' \in BOOLEAN
        /\ (KindOf(request[d]) = "operation" /\ Plain(request[d]))' \in BOOLEAN
        /\ (KindOf(request[d]) = "operation" /\ WithinScope(request[d]))' \in BOOLEAN
    OBVIOUS
  <2> QED
    BY <2>1, <2>2, <2>3, <2>4 DEF AskOf, Access!Ask
<1>3. UNCHANGED <<budget, Acts, Reports>>
  BY DEF Arrive, argoVars, limitVars, Acts, Reports, ReportsOf
<1>4. /\ Stages' = [Stages EXCEPT ![d] = "asked"]
      /\ Asks' = [Asks EXCEPT ![d] = AskOf(d)']
  BY <1>1, OneIsSeen
<1> QED
  BY <1>1, <1>2, <1>3, <1>4
     DEF Access!Request, Access!Enter, Access!choices, Asks, Stages, Acts, Reports

\* A search, missing arguments, a blocked and a limited call keep the call from ArgoCD.
LEMMA ReturnIsKeep ==
  ASSUME TypeOK, NEW d \in Calls, CallInv(d), config' = config,
         \A c \in Calls : c # d => Untouched(c),
         \/ SearchReturns(d) \/ SearchFails(d) \/ RefuseArguments(d)
         \/ Block(d) \/ LimitCall(d)
  PROVE  Access!Keep(d)
<1> USE DEF TypeOK, Goto, Conclude, handlerVars, argoVars, limitVars
<1>1. /\ pc[d] \in {"called", "limit"} /\ pc'[d] \in {"audit", "reply"}
      /\ UNCHANGED <<request, token, handled, audit, budget>>
  BY DEF SearchReturns, SearchFails, RefuseArguments, Block, LimitCall
<1>2. \/ IsSearch(request[d])
      \/ MissingArguments(request[d])
      \/ outcome'[d].kind = "blocked"
  BY DEF SearchReturns, SearchFails, RefuseArguments, Block, LimitCall, Blocked
<1>3. StageOf(d) = "asked" /\ StageOf(d)' = "kept"
  <2>1. ~ Charged(d)'
    BY <1>1, <1>2 DEF Charged, IsSearch
  <2> QED
    BY <1>1, <2>1 DEF StageOf
<1>4. AskOf(d)' = AskOf(d)
  BY <1>1 DEF AskOf, WithinScope, User
<1>5. \/ KindOf(request[d]) # "operation"
      \/ config.disableWrite /\ IsWrite(request[d])
      \/ ~ Plain(request[d])
      \/ ~ WithinScope(request[d])
      \/ config.rateLimit /\ budget[User(d)] = 0
  <2>1. CASE SearchReturns(d) \/ SearchFails(d) \/ RefuseArguments(d)
    BY <2>1 DEF SearchReturns, SearchFails, RefuseArguments, KindOf
  <2>2. CASE Block(d)
    BY <2>2, PermittedIsNotForbidden DEF Block
  <2>3. CASE LimitCall(d)
    BY <2>3 DEF LimitCall
  <2> QED
    BY <2>1, <2>2, <2>3
<1>6. /\ AskOf(d).kind = KindOf(request[d])
      /\ AskOf(d).write <=> KindOf(request[d]) = "operation" /\ IsWrite(request[d])
      /\ AskOf(d).plain <=> KindOf(request[d]) = "operation" /\ Plain(request[d])
      /\ AskOf(d).inScope <=> KindOf(request[d]) = "operation" /\ WithinScope(request[d])
      /\ AskOf(d).user = User(d)
  BY <1>1 DEF AskOf
<1>7. /\ Asks[d] = AskOf(d) /\ Stages[d] = "asked"
      /\ Stages' = [Stages EXCEPT ![d] = "kept"]
      /\ Asks' = Asks /\ Acts' = Acts /\ Reports' = Reports
  BY <1>1, <1>3, <1>4, OneIsSeen DEF Asks, Stages, Acts, Reports, ReportsOf
<1> QED
  BY <1>1, <1>5, <1>6, <1>7
     DEF Access!Keep, Access!Enter, Access!choices, Asks, Stages, Acts, Reports

\* The rate limiter admits what has passed the checks.
LEMMA AdmissionIsAdmit ==
  ASSUME TypeOK, NEW d \in Calls, CallInv(d), config' = config,
         \A c \in Calls : c # d => Untouched(c), AdmitCall(d)
  PROVE  Access!Admit(d)
<1>1. /\ pc[d] = "limit" /\ pc'[d] = "params"
      /\ UNCHANGED <<request, token, outcome, handled, audit>>
  BY DEF TypeOK, AdmitCall, Goto, handlerVars, argoVars
<1>2. /\ ~ IsSearch(request[d]) /\ ~ MissingArguments(request[d])
      /\ config.disableWrite => ~ IsWrite(request[d])
      /\ Plain(request[d]) => WithinScope(request[d])
  BY <1>1, CheckedIsPermitted DEF CallInv, Checked
<1>3. /\ AskOf(d).kind = "operation" /\ AskOf(d).user = User(d)
      /\ config.disableWrite => ~ AskOf(d).write
      /\ AskOf(d).plain => AskOf(d).inScope
  BY <1>1, <1>2 DEF AskOf, KindOf
<1>4. StageOf(d) = "asked" /\ StageOf(d)' = "admitted"
  <2>1. request[d].tool \in {"execute_operation", "generated"}
    BY <1>1, <1>2 DEF CallInv, Checked, Registered, IsSearch, IsExecute, IsGenerated
  <2> QED
    BY <1>1, <2>1 DEF StageOf, Charged
<1>5. IF config.rateLimit THEN Access!Pay(User(d)) ELSE UNCHANGED budget
  BY DEF AdmitCall, Access!Pay
<1>6. AskOf(d)' = AskOf(d)
  BY <1>1 DEF AskOf, WithinScope, User
<1>7. /\ Asks[d] = AskOf(d) /\ Stages[d] = "asked"
      /\ Stages' = [Stages EXCEPT ![d] = "admitted"]
      /\ Asks' = Asks /\ Acts' = Acts /\ Reports' = Reports
  BY <1>1, <1>4, <1>6, OneIsSeen DEF Asks, Stages, Acts, Reports, ReportsOf
<1> QED
  BY <1>3, <1>5, <1>7
     DEF Access!Admit, Access!Enter, Access!choices, Asks, Stages, Acts, Reports

\* ArgoCD acts for who was admitted, and once if it is to write.
LEMMA HandlingIsAct ==
  ASSUME TypeOK, NEW d \in Calls, CallInv(d), config' = config,
         \A c \in Calls : c # d => Untouched(c), NEW s \in Statuses, ArgoHandles(d, s)
  PROVE  Access!Act(d)
<1>1. /\ wire[d] = "sent" /\ handled'[d] = Append(handled[d], Served(d, s))
      /\ UNCHANGED <<pc, request, token, outcome, audit, budget>>
  BY DEF TypeOK, ArgoHandles, handlerVars, limitVars
<1>2. /\ StageOf(d) = "admitted" /\ KindOf(request[d]) = "operation"
      /\ pc[d] # "ready"
  BY <1>1, SentIsCharged DEF CallInv, NothingYet
<1>3. Len(handled'[d]) = Len(handled[d]) + 1
  <2>1. handled[d] \in Seq(ServedRecord) /\ Served(d, s) \in ServedRecord
    BY <1>1, ServedIsRecord DEF TypeOK
  <2> QED
    BY ONLY <1>1, <2>1, Appended
<1>4. AskOf(d).write => Len(handled[d]) = 0
  <2>1. SUFFICES ASSUME AskOf(d).write PROVE Len(handled[d]) = 0
    OBVIOUS
  <2>2. Upper(MethodOf(request[d])) \in WriteMethods
    BY <1>2, <2>1 DEF AskOf, IsWrite
  <2>3. ~ Replayable(MethodOf(request[d]))
    BY <2>2, UpperFacts
  <2> QED
    BY <1>1, <2>3 DEF CallInv, ServedAsAsked
<1>5. AskOf(d)' = AskOf(d) /\ StageOf(d)' = StageOf(d)
  BY <1>1 DEF AskOf, WithinScope, User, StageOf, Charged
<1>6. /\ Asks[d] = AskOf(d) /\ Stages[d] = "admitted" /\ Acts[d] = Len(handled[d])
      /\ Acts' = [Acts EXCEPT ![d] = Acts[d] + 1]
      /\ Asks' = Asks /\ Stages' = Stages /\ Reports' = Reports
  BY <1>1, <1>2, <1>3, <1>5, OneIsSeen DEF Asks, Stages, Acts, Reports, ReportsOf
<1> QED
  BY <1>1, <1>4, <1>6 DEF Access!Act, Access!choices, Asks, Stages, Acts, Reports

\* What is logged is what has become of the call.
LEMMA AuditIsReport ==
  ASSUME TypeOK, NEW d \in Calls, CallInv(d), config' = config, config.auditLog,
         \A c \in Calls : c # d => Untouched(c), Audit(d)
  PROVE  Access!Report(d)
<1> DEFINE r == request[d]
           what == Told(Record(d))
<1>1. /\ pc[d] = "audit" /\ pc'[d] = "reply"
      /\ UNCHANGED <<request, token, outcome, handled, budget>>
  BY DEF TypeOK, Audit, Goto, handlerVars, argoVars, limitVars
<1>2. audit[d] = <<>> /\ audit'[d] = <<Record(d)>>
  BY <1>1 DEF CallInv, Logged, Audit, TypeOK
<1>3. ReportsOf(d) = <<>> /\ ReportsOf(d)' = <<what>>
  BY <1>2 DEF ReportsOf
<1>4. AskOf(d)' = AskOf(d) /\ StageOf(d)' = StageOf(d)
  BY <1>1 DEF AskOf, WithinScope, User, StageOf, Charged
<1>5. /\ r.tool \in {"search_operations", "execute_operation", "generated"}
      /\ ~ MissingArguments(r)
      /\ KindOf(r) = (IF IsSearch(r) THEN "search" ELSE "operation")
      /\ StageOf(d) = (IF IsSearch(r) \/ outcome[d].kind = "blocked" THEN "kept"
                       ELSE "admitted")
  <2>1. Registered(r) /\ ~ MissingArguments(r)
    BY <1>1 DEF CallInv, Checked, Concluded
  <2>2. r.tool \in {"search_operations", "execute_operation", "generated"}
    BY <2>1 DEF Registered, IsSearch, IsExecute, IsGenerated
  <2> QED
    BY <1>1, <2>1, <2>2 DEF KindOf, StageOf, Charged, IsSearch
<1>6. AskOf(d).kind = KindOf(r)
  BY <1>1 DEF AskOf
<1>7. /\ what \in {"blocked", "failed", "answered"}
      /\ \/ what = "blocked" /\ StageOf(d) = "kept" /\ KindOf(r) = "operation"
         \/ what = "failed" /\ StageOf(d) = "admitted"
         \/ what = "answered" /\ Len(handled[d]) > 0
         \/ what # "blocked" /\ StageOf(d) = "kept" /\ KindOf(r) = "search"
  <2>1. what = IF outcome[d].kind = "blocked" THEN "blocked"
               ELSE IF outcome[d].kind = "error" THEN "failed" ELSE "answered"
    BY DEF Told, Record
  <2>2. outcome[d].kind \in {"blocked", "error", "found", "answered"}
    BY <1>1 DEF TypeOK, Outcome, NoOutcome, Blocked, Refused, Failed, FoundSome, Answered,
       CallInv, Concluded
  <2>3. CASE outcome[d].kind = "blocked"
    BY <1>5, <2>1, <2>3 DEF CallInv, Concluded
  <2>4. CASE outcome[d].kind = "error"
    BY <1>5, <2>1, <2>4
  <2>5. CASE outcome[d].kind = "found"
    BY <1>5, <2>1, <2>5 DEF CallInv, Concluded
  <2>6. CASE outcome[d].kind = "answered"
    <3>1. handled[d] \in Seq(ServedRecord) /\ handled[d] # <<>>
      BY <2>6 DEF TypeOK, CallInv, Concluded, ServedAsAsked
    <3>2. Len(handled[d]) > 0
      BY <3>1
    <3> QED
      BY <2>1, <2>6, <3>2
  <2> QED
    BY <2>2, <2>3, <2>4, <2>5, <2>6
<1>8. /\ Asks[d] = AskOf(d) /\ Stages[d] = StageOf(d) /\ Acts[d] = Len(handled[d])
      /\ Reports[d] = <<>>
      /\ Reports' = [Reports EXCEPT ![d] = <<what>>]
      /\ Asks' = Asks /\ Stages' = Stages /\ Acts' = Acts
  BY <1>1, <1>3, <1>4, OneIsSeen DEF Asks, Stages, Acts, Reports
<1> HIDE DEF what
<1> QED
  BY <1>1, <1>6, <1>7, <1>8 DEF Access!Report, Access!choices, Asks, Stages, Acts, Reports

\* What happens between the admission and the record is not seen, nor is the reply.
LEMMA PassageIsUnseen ==
  ASSUME TypeOK, NEW d \in Calls, CallInv(d), config' = config,
         \A c \in Calls : c # d => Untouched(c),
         \/ PassChecks(d) \/ RefuseParams(d) \/ Send(d) \/ BuildFails(d)
         \/ ReceiveAnswer(d) \/ GiveUp(d) \/ Reply(d) \/ Lose(d) \/ Resend(d)
         \/ Audit(d) /\ ~ config.auditLog
  PROVE  UNCHANGED Access!vars
<1> USE DEF TypeOK, Goto, Conclude, handlerVars, argoVars, limitVars
<1>1. UNCHANGED <<request, token, handled, audit, budget>>
  BY DEF PassChecks, RefuseParams, Send, BuildFails, ReceiveAnswer, GiveUp, Reply, Lose,
     Resend, Audit
<1>2. pc[d] # "ready" /\ pc'[d] # "ready"
  BY DEF PassChecks, RefuseParams, Send, BuildFails, ReceiveAnswer, GiveUp, Reply, Lose,
     Resend, Audit
<1>3. StageOf(d)' = StageOf(d)
  <2>1. CASE PassChecks(d)
    BY <2>1 DEF PassChecks, StageOf
  <2>2. CASE RefuseParams(d) \/ Send(d) \/ BuildFails(d) \/ ReceiveAnswer(d) \/ GiveUp(d)
    <3>1. /\ pc[d] \in {"params", "waiting"}
          /\ pc'[d] \in {"waiting", "audit", "reply"}
          /\ outcome'[d].kind # "blocked"
      BY <2>2 DEF RefuseParams, Send, BuildFails, ReceiveAnswer, GiveUp, Refused, Failed,
         Answered, CallInv, NothingYet, NoOutcome
    <3>2. ~ MissingArguments(request[d])
      BY <3>1 DEF CallInv, Checked
    <3>3. Charged(d)' <=> Charged(d)
      BY <1>1, <3>1, <3>2 DEF Charged
    <3> QED
      BY <3>1, <3>3 DEF StageOf
  <2>3. CASE Reply(d) \/ Audit(d)
    BY <2>3 DEF Reply, Audit, StageOf, Charged
  <2>4. CASE Lose(d) \/ Resend(d)
    BY <2>4 DEF Lose, Resend, StageOf, Charged
  <2> QED
    BY <2>1, <2>2, <2>3, <2>4
<1>4. AskOf(d)' = AskOf(d)
  BY <1>1, <1>2 DEF AskOf, WithinScope, User
<1> QED
  BY <1>1, <1>3, <1>4, Unseen

-----------------------------------------------------------------------------
(* The refinement *)

\* The handlers start as promised.
LEMMA InitIsInit ==
  ASSUME Init
  PROVE  Access!Init
<1>1. /\ config.disableWrite \in BOOLEAN /\ config.rateLimit \in BOOLEAN
      /\ config.auditLog \in BOOLEAN
  BY RequestsAssumption DEF Init, Config
<1>2. ASSUME NEW c \in Calls
      PROVE  AskOf(c) = NoAsk /\ StageOf(c) = "new" /\ Len(handled[c]) = 0 /\ ReportsOf(c) = <<>>
  BY DEF Init, AskOf, StageOf, ReportsOf
<1>3. budget = [u \in Users |-> Burst]
  BY DEF Init
<1> QED
  BY <1>1, <1>2, <1>3 DEF Access!Init

\* A step of one call is one of the abstract call, or none.
LEMMA StepImplements ==
  ASSUME TypeOK, TypeOK', NEW d \in Calls, CallInv(d), config' = config, StepOf(d),
         \A c \in Calls : c # d => Untouched(c)
  PROVE  \/ Access!Request(d) \/ Access!Admit(d) \/ Access!Keep(d)
         \/ Access!Act(d) \/ Access!Report(d)
         \/ UNCHANGED Access!vars
<1>1. CASE \E r \in Requests, t \in Tokens \union {NoToken} : Arrive(d, r, t)
  BY <1>1, ArriveIsRequest
<1>2. CASE SearchReturns(d) \/ SearchFails(d) \/ RefuseArguments(d) \/ Block(d) \/ LimitCall(d)
  BY <1>2, ReturnIsKeep
<1>3. CASE AdmitCall(d)
  BY <1>3, AdmissionIsAdmit
<1>4. CASE \E s \in Statuses : ArgoHandles(d, s)
  BY <1>4, HandlingIsAct
<1>5. CASE Audit(d)
  BY <1>5, AuditIsReport, PassageIsUnseen
<1>6. CASE \/ PassChecks(d) \/ RefuseParams(d) \/ Send(d) \/ BuildFails(d)
           \/ ReceiveAnswer(d) \/ GiveUp(d) \/ Reply(d) \/ Lose(d) \/ Resend(d)
  BY <1>6, PassageIsUnseen
<1> QED
  BY <1>1, <1>2, <1>3, <1>4, <1>5, <1>6 DEF StepOf, Handler

\* A step that touches no call gives a token back, or is none.
LEMMA OtherImplements ==
  ASSUME TypeOK, config' = config, \A c \in Calls : Untouched(c),
         UNCHANGED limitVars \/ \E u \in Users : Refill(u)
  PROVE  (\E u \in Users : Access!Regain(u)) \/ UNCHANGED Access!vars
<1>1. Asks' = Asks /\ Stages' = Stages /\ Acts' = Acts /\ Reports' = Reports
  BY NothingIsSeen
<1>2. CASE UNCHANGED limitVars
  BY <1>1, <1>2 DEF limitVars, Access!vars, Access!choices, Asks, Stages, Acts, Reports
<1>3. ASSUME NEW u \in Users, Refill(u) PROVE Access!Regain(u)
  BY <1>1, <1>3 DEF Refill, Access!Regain, Access!choices, Asks, Stages, Acts, Reports
<1> QED
  BY <1>2, <1>3

\* The handlers keep the promise of ToolAccess: whoever is admitted has paid, writes
\* nothing in read-only mode and, if ArgoCD reads his path as it is written, is in
\* scope; nobody else's calls and no other reason keep him out; a write is done once,
\* and what has become of a call is reported.
THEOREM AccessImplemented == Spec => ImplementsAccess
<1>1. Init => Access!Init
  BY InitIsInit
<1>2. TypeOK /\ Inv /\ TypeOK' /\ [Next]_vars => [Access!Next]_(Access!vars)
  <2> SUFFICES ASSUME TypeOK, Inv, TypeOK', [Next]_vars
               PROVE  Access!Next \/ UNCHANGED Access!vars
    OBVIOUS
  <2>1. config' = config /\ \A c \in Calls : CallInv(c)
    BY ConfigStable DEF Inv
  <2>2. CASE \E d \in Calls : StepOf(d) /\ \A c \in Calls : d # c => Untouched(c)
    <3>1. PICK d \in Calls : StepOf(d) /\ \A c \in Calls : c # d => Untouched(c)
      BY <2>2
    <3> QED
      BY <2>1, <3>1, StepImplements DEF Access!Next
  <2>3. CASE (\A c \in Calls : Untouched(c)) /\ (UNCHANGED limitVars \/ \E u \in Users : Refill(u))
    BY <2>1, <2>3, OtherImplements DEF Access!Next
  <2> QED
    BY <2>2, <2>3, OneAtATime
<1> QED
  BY <1>1, <1>2, InvHolds, PTL DEF Spec, ImplementsAccess, Access!Spec
=============================================================================
