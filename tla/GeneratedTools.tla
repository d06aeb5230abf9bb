--------------------------- MODULE GeneratedTools ---------------------------
(* internal/toolgen and the parts of internal/openapi it builds on: from the *)
(* operations of the Swagger document to named tools, and from a tool's      *)
(* arguments to the request that the gateway is asked to send.               *)
(*                                                                         *)
(* An operationId is a pair of sequences of words in lower case, those before *)
(* and those after its first underscore; the name of a tool is a sequence of *)
(* words, which the code joins with underscores.  A path is the sequence of  *)
(* its segments; one with arguments filled in is the string they make, where *)
(* a slash in an argument is like any other.  The rate limit, the audit      *)
(* record and the exchange with ArgoCD, which the handler has too, are in    *)
(* ToolCalls.                                                                *)
EXTENDS Integers, Sequences, FiniteSets, Functions

CONSTANTS
  Docs,        \* documents: sets of operations
  Definitions, \* the schemas a body may refer to: names and types of properties
  PathRank,    \* the place of each path in the order of strings
  Numeral,     \* strconv.Itoa
  Braced,      \* of a parameter's name, its placeholder
  WithBrace,   \* the texts that contain an opening brace
  Segments,    \* texts that contain no slash
  Joined,      \* of a sequence of texts, the string they make with slashes between
  JSONIn,      \* of a text that is JSON, the value
  Texts        \* what callers write

\* No operationId.
NoId == [service |-> <<>>, action |-> <<>>]

\* A path parameter has its placeholder in the path, as Swagger asks.
ASSUME ToolsAssumption ==
  \A doc \in Docs :
    /\ IsFiniteSet(doc)
    /\ \A op \in doc :
         /\ op.operationId.service \in Seq(STRING)
         /\ op.operationId.action \in Seq(STRING)
         /\ op.path \in Seq(Segments)
         /\ PathRank[op.path] \in Nat
         /\ op.params \in Seq(Range(op.params))
         /\ \A p \in Range(op.params) : p.in = "path" =>
              p.name \in DOMAIN Braced /\ Braced[p.name] \in Range(op.path)
    /\ \A op, other \in doc : PathRank[op.path] = PathRank[other.path] => op.path = other.path

Placeholders == {Braced[n] : n \in DOMAIN Braced}

\* Different parameters have different placeholders, and no text holds one in part.
ASSUME BracedAssumption ==
  /\ \A m, n \in DOMAIN Braced : Braced[m] = Braced[n] => m = n
  /\ Placeholders \subseteq WithBrace

\* Where no text has a slash of its own, the texts can be read off the string.
ASSUME JoinedAssumption ==
  \A path \in {op.path : op \in UNION Docs} :
    \A p, q \in [DOMAIN path -> Segments] : Joined[p] = Joined[q] => p = q

\* Different numbers are written differently.
ASSUME NumeralAssumption ==
  \A doc \in Docs : \A m, n \in 0 .. Cardinality(doc) + 1 : Numeral[m] = Numeral[n] => m = n

VARIABLES
  doc,       \* the document ArgoCD serves
  phase,     \* "dedup" while DeduplicateNames loops, "serving" afterwards
  endpoints, \* ParseSpec's list
  i,         \* DeduplicateNames: the index of its loop,
  seen,      \*   how often each name has occurred,
  result,    \*   and the names so far
  tools,     \* the MCP server's tools: the endpoint behind each name
  listed,    \* the tools a client has been told of, perhaps before a restart
  call,      \* the client's last call
  request    \* what the gateway was asked to send for it

vars == <<doc, phase, endpoints, i, seen, result, tools, listed, call, request>>

-----------------------------------------------------------------------------
(* ParseSpec *)

\* The properties of a schema: an unknown schema has none, and a property without a
\* type is an object.
BodyProperties(ref) ==
  IF ref \notin DOMAIN Definitions THEN {}
  ELSE {[b EXCEPT !.type = IF b.type = "" THEN "object" ELSE b.type] : b \in Definitions[ref]}

IsBody(p) == p.in = "body" /\ p.ref # ""

\* The loop over the parameters keeps those that are no body.
Parameters(params) ==
  LET kept[k \in 0 .. Len(params)] ==
        IF k = 0 THEN <<>>
        ELSE IF IsBody(params[k]) THEN kept[k - 1] ELSE Append(kept[k - 1], params[k])
  IN  kept[Len(params)]

Last(S) == CHOOSE k \in S : \A j \in S : j <= k

\* Swagger allows one body; of several the last one is taken.
ParseOperation(op) ==
  LET bodies == {j \in DOMAIN op.params : IsBody(op.params[j])}
  IN  [method |-> op.method,
       path |-> op.path,
       operationId |-> op.operationId,
       params |-> Parameters(op.params),
       body |-> IF bodies = {} THEN {} ELSE BodyProperties(op.params[Last(bodies)].ref)]

\* Mutant of Sorted: the order of the map they come from.
Unsorted(list) == \A j, k \in DOMAIN list : list[j] = list[k] => j = k

\* The endpoints come out of a map and are sorted by path alone, so that those of
\* one path stand in any order.
Sorted(list) ==
  /\ \A j, k \in DOMAIN list : list[j] = list[k] => j = k
  /\ \A j, k \in DOMAIN list : j < k => PathRank[list[j].path] <= PathRank[list[k].path]

Parsed == {ParseOperation(op) : op \in doc}

ParseSpec == {list \in [1 .. Cardinality(doc) -> Parsed] : Sorted(list)}

-----------------------------------------------------------------------------
(* Names *)

NoName == <<>>

\* "ApplicationService" becomes "application".
TrimService(words) ==
  IF words # <<>> /\ words[Len(words)] = "service"
    THEN SubSeq(words, 1, Len(words) - 1)
    ELSE words

ToToolName(id) ==
  IF id = NoId THEN NoName ELSE <<"argocd">> \o TrimService(id.service) \o id.action

NameOf(ep) == ToToolName(ep.operationId)

Suffixed(name, n) == Append(name, Numeral[n])

-----------------------------------------------------------------------------
(* Startup *)

NoTools == [n \in {} |-> NoName]

NoCall == [tool |-> NoName, args |-> <<>>]

NoRequest == [kind |-> "none"]

\* The process starts, or starts again: server.Run up to GenerateAll's names.
Start ==
  /\ phase' = "dedup"
  /\ endpoints' \in ParseSpec
  /\ i' = 1
  /\ seen' = [n \in {} |-> 0]
  /\ result' = <<>>
  /\ tools' = NoTools
  /\ call' = NoCall
  /\ request' = NoRequest

Init ==
  /\ doc \in Docs
  /\ phase = "dedup"
  /\ endpoints \in ParseSpec
  /\ i = 1
  /\ seen = [n \in {} |-> 0]
  /\ result = <<>>
  /\ tools = NoTools
  /\ listed = NoTools
  /\ call = NoCall
  /\ request = NoRequest

\* Mutant of Count: the occurrences of a name are not counted on.
CountOnce(name) ==
  seen' = [n \in DOMAIN seen \union {name} |-> IF n = name THEN 1 ELSE seen[n]]

Count(name) ==
  seen' = [n \in DOMAIN seen \union {name} |->
             IF n # name THEN seen[n] ELSE IF n \in DOMAIN seen THEN seen[n] + 1 ELSE 1]

\* One round of DeduplicateNames' loop.
Deduplicate ==
  /\ phase = "dedup"
  /\ i \in DOMAIN endpoints
  /\ LET name == NameOf(endpoints[i]) IN
       IF name = NoName
         THEN result' = Append(result, NoName) /\ UNCHANGED seen
         ELSE /\ result' = Append(result, IF name \in DOMAIN seen
                                            THEN Suffixed(name, seen[name] + 1)
                                            ELSE name)
              /\ Count(name)
  /\ i' = i + 1
  /\ UNCHANGED <<doc, phase, endpoints, tools, listed, call, request>>

\* GenerateAll builds a tool per name, and AddTool, with a name it has, replaces
\* the tool.
Named(n) == {k \in DOMAIN result : result[k] = n}

Generated ==
  [n \in {result[k] : k \in DOMAIN result} \ {NoName} |-> endpoints[Last(Named(n))]]

Register ==
  /\ phase = "dedup"
  /\ i \notin DOMAIN endpoints
  /\ tools' = Generated
  /\ phase' = "serving"
  /\ UNCHANGED <<doc, endpoints, i, seen, result, listed, call, request>>

Restart ==
  /\ phase = "serving"
  /\ Start
  /\ UNCHANGED <<doc, listed>>

\* A client asks for the tools.
List ==
  /\ phase = "serving"
  /\ listed' = tools
  /\ UNCHANGED <<doc, phase, endpoints, i, seen, result, tools, call, request>>

-----------------------------------------------------------------------------
(* The schema of a tool: BuildToolOptions *)

ToolType(type) ==
  IF type = "boolean" THEN "boolean"
  ELSE IF type \in {"integer", "number"} THEN "number" ELSE "string"

ParamsIn(ep, where) == {ep.params[k] : k \in {j \in DOMAIN ep.params : ep.params[j].in = where}}

\* A property of the body replaces a parameter of its name.
Declared(ep) ==
  LET params == ParamsIn(ep, "path") \union ParamsIn(ep, "query")
      fields == {b.name : b \in ep.body}
  IN  [n \in {p.name : p \in params} \union fields |->
         ToolType((CHOOSE d \in IF n \in fields THEN ep.body ELSE params : d.name = n).type)]

Spelled(text) == [type |-> "string", text |-> text]

\* Callers leave arguments out, write them as strings or give them as the type that
\* the schema declares.
Arguments(ep) ==
  {args \in UNION {[D -> {Spelled(t) : t \in Texts} \union Range(JSONIn)] :
                     D \in SUBSET DOMAIN Declared(ep)} :
     \A n \in DOMAIN args : args[n].type \in {"string", Declared(ep)[n]}}

-----------------------------------------------------------------------------
(* The handler of buildHandler: from the arguments to the request *)

\* mcp-go's GetString: what is no JSON string is as good as absent.
GetString(args, n) == IF n \in DOMAIN args /\ args[n].type = "string" THEN args[n].text ELSE ""

\* Parameter by parameter, every occurrence of its placeholder is replaced, also
\* in what earlier parameters have put there.
PathOf(ep, args) ==
  LET after[k \in 0 .. Len(ep.params)] ==
        IF k = 0 THEN ep.path
        ELSE IF GetString(args, ep.params[k].name) = "" \/ ep.params[k].in # "path"
          THEN after[k - 1]
          ELSE [s \in DOMAIN ep.path |->
                  IF after[k - 1][s] = Braced[ep.params[k].name]
                    THEN GetString(args, ep.params[k].name)
                    ELSE after[k - 1][s]]
  IN  after[Len(ep.params)]

QueryOf(ep, args) ==
  [n \in {p.name : p \in {q \in ParamsIn(ep, "query") : GetString(args, q.name) # ""}} |->
     GetString(args, n)]

\* The texts of JSON numbers.
Numerals == {t \in DOMAIN JSONIn : JSONIn[t] = [type |-> "number", text |-> t]}

\* What json.Unmarshal makes of a text for a number is the number it spells, with or
\* without quotes, and of null it is zero.  A text that does not fit its property's type
\* stays a string.
Converted(type, text) ==
  LET value == IF text \in DOMAIN JSONIn THEN JSONIn[text] ELSE Spelled(text) IN
    CASE type = "boolean" ->
           IF text \in {"true", "false"} THEN [type |-> "boolean", text |-> text] ELSE Spelled(text)
      [] type \in {"integer", "number"} ->
           IF value.type = "number" THEN value
           ELSE IF value.type = "null" THEN [type |-> "number", text |-> "0"]
           ELSE IF value.type = "string" /\ value.text \in Numerals
             THEN [type |-> "number", text |-> value.text]
           ELSE Spelled(text)
      [] type \in {"object", "array"} -> value
      [] OTHER -> Spelled(text)

TypeIn(body, n) == (CHOOSE b \in body : b.name = n).type

\* Mutant of BodyOf: only strings and booleans go into the body.
BodyOfScalars(ep, args) ==
  LET given == {b \in ep.body : GetString(args, b.name) # "" /\ b.type # "object"}
  IN  [n \in {b.name : b \in given} |-> Converted(TypeIn(ep.body, n), GetString(args, n))]

\* assembleBody
BodyOf(ep, args) ==
  LET given == {b \in ep.body : GetString(args, b.name) # ""}
  IN  [n \in {b.name : b \in given} |-> Converted(TypeIn(ep.body, n), GetString(args, n))]

\* A brace in the path, a placeholder's or an argument's, keeps the request back.
Handle(ep, args) ==
  IF \E s \in DOMAIN ep.path : PathOf(ep, args)[s] \in WithBrace
    THEN [kind |-> "refused"]
    ELSE [kind |-> "sent", method |-> ep.method, path |-> Joined[PathOf(ep, args)],
          query |-> QueryOf(ep, args), body |-> BodyOf(ep, args)]

\* A client calls a tool that it has seen listed; the server may have started again
\* since, and knows it still, or not.
Call(n, args) ==
  /\ phase = "serving"
  /\ n \in DOMAIN listed
  /\ args \in Arguments(listed[n])
  /\ call' = [tool |-> n, args |-> args]
  /\ request' = IF n \in DOMAIN tools THEN Handle(tools[n], args) ELSE [kind |-> "unknown"]
  /\ UNCHANGED <<doc, phase, endpoints, i, seen, result, tools, listed>>

-----------------------------------------------------------------------------
Next ==
  \/ Deduplicate
  \/ Register
  \/ Restart
  \/ List
  \/ \E n \in DOMAIN listed : \E args \in Arguments(listed[n]) : Call(n, args)

Spec == Init /\ [][Next]_vars

-----------------------------------------------------------------------------
(* Properties *)

Numbered(name, n) ==
  IF name = NoName THEN NoName ELSE IF n = 1 THEN name ELSE Suffixed(name, n)

\* The endpoints up to index k that have a name.
Occurrences(name, k) == {j \in 1 .. k : NameOf(endpoints[j]) = name}

\* No operation is called what another becomes with a suffix: there is no
\* "..._list_2" beside two "..._list".
NoNameLooksNumbered ==
  \A ep, other \in Parsed : \A n \in 2 .. Cardinality(doc) :
    NameOf(ep) # NoName => NameOf(other) # Suffixed(NameOf(ep), n)

\* The operations of one path have names of their own.
NamesDifferOnAPath ==
  \A ep, other \in Parsed :
    ep # other /\ ep.path = other.path /\ NameOf(ep) # NoName => NameOf(ep) # NameOf(other)

\* The name of an endpoint by the document alone: its number is how many endpoints of
\* its name have a path up to its own.
NameByPath(ep) ==
  Numbered(NameOf(ep), Cardinality({other \in Parsed :
    NameOf(other) = NameOf(ep) /\ PathRank[other.path] <= PathRank[ep.path]}))

\* The inductive invariant of the loop, with the types: seen counts the occurrences
\* of a name, and the n-th occurrence has the number n.
LoopInv ==
  /\ i \in 1 .. Len(endpoints) + 1
  /\ result \in [1 .. i - 1 -> Range(result)]
  /\ DOMAIN seen = {NameOf(endpoints[k]) : k \in 1 .. i - 1} \ {NoName}
  /\ \A n \in DOMAIN seen : seen[n] = Cardinality(Occurrences(n, i - 1))
  /\ \A k \in 1 .. i - 1 :
       result[k] = Numbered(NameOf(endpoints[k]),
                            Cardinality(Occurrences(NameOf(endpoints[k]), k)))

\* What the phases leave behind, and what a client remembers from before a restart.
Inv ==
  /\ doc \in Docs
  /\ phase \in {"dedup", "serving"}
  /\ endpoints \in ParseSpec
  /\ LoopInv
  /\ phase = "dedup" => tools = NoTools /\ call = NoCall
  /\ phase = "serving" => i = Len(endpoints) + 1 /\ tools = Generated
  /\ call.tool \in DOMAIN tools => request = Handle(tools[call.tool], call.args)
  /\ NamesDifferOnAPath =>
       \A n \in DOMAIN listed :
         n # NoName /\ listed[n] \in Parsed /\ n = NameByPath(listed[n])

\* "creates one MCP tool per endpoint" (generator.go:38), also when operationIds of
\* different services make the same name, as ApplicationSetService_List and
\* ApplicationService_SetList do: names are told apart, so that AddTool replaces no
\* tool by another.  The premise is needed: a suffixed name is not noted as taken.
OneToolPerEndpoint ==
  phase = "serving" /\ NoNameLooksNumbered =>
    /\ \A ep \in Range(endpoints) : NameOf(ep) # NoName => ep \in Range(tools)
    /\ \A m, n \in DOMAIN tools : tools[m] = tools[n] => m = n

\* A client that has listed the tools before a restart asks for the same operation
\* after it, although ParseSpec puts those of one path in any order
\* (parser.go:36): what gets which suffix does not depend on that order.
CallDoesWhatWasListed ==
  phase = "serving" /\ NoNameLooksNumbered /\ NamesDifferOnAPath =>
    \A n \in DOMAIN listed : n \in DOMAIN tools /\ tools[n] = listed[n]

\* The arguments that are strings without braces and not empty, those for the path
\* without a slash: an empty string is what GetString returns for none.
PlainArguments(ep) ==
  {args \in UNION {[D -> {Spelled(t) : t \in Texts \ (WithBrace \union {""})}] :
                     D \in SUBSET DOMAIN Declared(ep)} :
     \A p \in ParamsIn(ep, "path") : p.name \in DOMAIN args => args[p.name].text \in Segments}

\* Every placeholder of the path is that of a parameter with an argument.
Complete(ep, args) ==
  \A s \in DOMAIN ep.path : ep.path[s] \in WithBrace =>
    \E p \in ParamsIn(ep, "path") : p.name \in DOMAIN args /\ Braced[p.name] = ep.path[s]

\* What an argument says to ArgoCD: that of a body's property alone its value, any
\* other its text.
Meaning(ep, args, n) ==
  IF \E p \in ParamsIn(ep, "path") \union ParamsIn(ep, "query") : p.name = n
    THEN args[n]
    ELSE Converted(TypeIn(ep.body, n), args[n].text)

SameMeaning(ep, args, other) ==
  /\ DOMAIN args = DOMAIN other
  /\ \A n \in DOMAIN args : Meaning(ep, args, n) = Meaning(ep, other, n)

\* No argument written as a string is lost on its way into path, query and body: the
\* request is sent, and arguments that say something else, or are others, make another
\* request (generator.go:105-116, 169-210).  Two limits are the code's own: slashes in
\* arguments for the path make one path of several pairs, hence the premise; and a
\* number may be written with quotes, and a zero as null.
StringArgumentsArrive ==
  \A ep \in {tools[n] : n \in {call.tool} \intersect DOMAIN tools} :
    call.args \in PlainArguments(ep) =>
      /\ request.kind = IF Complete(ep, call.args) THEN "sent" ELSE "refused"
      /\ \A other \in PlainArguments(ep) :
           request.kind = "sent" /\ Handle(ep, other) = request =>
             SameMeaning(ep, call.args, other)

\* "Parameters are typed individually" (README.md:306), as in "dryRun: true": an
\* argument of the type that the schema declares arrives as well.
TypedArgumentsArrive ==
  \A ep \in {tools[n] : n \in {call.tool} \intersect DOMAIN tools} :
    \A m \in DOMAIN call.args :
      request.kind = "sent" =>
        Handle(ep, [n \in DOMAIN call.args \ {m} |-> call.args[n]]) # request
=============================================================================
