-------------------------- MODULE MCGeneratedTools --------------------------
(* Instances of GeneratedTools for TLC.                                     *)
EXTENDS GeneratedTools, TLC

Param(name, in, type) == [name |-> name, in |-> in, type |-> type, ref |-> ""]

Body(ref) == [name |-> "body", in |-> "body", type |-> "", ref |-> ref]

Schemas ==
  "SyncRequest" :> {[name |-> "name", type |-> "string"], [name |-> "dryRun", type |-> "boolean"],
     [name |-> "strategy", type |-> ""]} @@
  "RollbackRequest" :> {[name |-> "revision", type |-> "integer"]}

Op(method, path, service, action, params) ==
  [method |-> method, path |-> path, params |-> params,
   operationId |-> [service |-> service, action |-> action]]

App == <<"applications", "{name}">>
AppSets == <<"applicationsets">>
Links == <<"{name}", "{id}">>

AppService == <<"application", "service">>
SetService == <<"application", "set", "service">>

Ranks == App :> 1 @@ AppSets :> 2 @@ Links :> 3

Name == Param("name", "path", "string")

\* Operations whose names collide over words, over a number and on one path, and
\* one without an operationId.
Operations ==
  {Op("GET", App, AppService, <<"set", "list">>, <<>>),
   Op("POST", App, AppService, <<"set", "list">>, <<>>),
   Op("DELETE", App, SetService, <<"list", "2">>, <<>>),
   Op("GET", AppSets, SetService, <<"list">>, <<>>),
   Op("POST", AppSets, <<>>, <<"application", "set", "list", "3">>, <<>>),
   Op("PUT", AppSets, <<>>, <<>>, <<>>),
   Op("GET", Links, SetService, <<"list">>, <<>>)}

\* Operations with parameters everywhere, one of which is called like a property
\* of the body.
Get ==
  Op("GET", Links, AppService, <<"get">>,
     <<Name, Param("id", "path", "integer"), Param("project", "query", "string"),
       Param("trace", "header", "string")>>)

Sync == Op("POST", App, AppService, <<"sync">>, <<Name, Body("SyncRequest")>>)

NameDocs == {d \in SUBSET Operations : Cardinality(d) <= 5}

\* Its last body counts.
Rollback ==
  Op("PUT", App, AppService, <<"rollback">>,
     <<Name, Body("SyncRequest"), Body("RollbackRequest")>>)

ArgumentDocs == {{Get}, {Sync}, {Rollback}}

AllDocs == NameDocs \union ArgumentDocs

Digits == [n \in 0 .. 9 |-> ToString(n)]

Braces == [n \in {"name", "id"} |-> "{" \o n \o "}"]

\* Braces, a slash, and what a number may be written like.
AllTexts == {"7", "\"7\"", "true", "null", "{id}", "{", "team/7", ""}

FewTexts == {"7", "true", "{id}"}

JSON ==
  "7" :> [type |-> "number", text |-> "7"] @@
  "\"7\"" :> [type |-> "string", text |-> "7"] @@
  "true" :> [type |-> "boolean", text |-> "true"] @@
  "null" :> [type |-> "null", text |-> "null"]

BraceTexts == {"{", "{id}", "{name}"}

SlashFree ==
  {"applications", "applicationsets"} \union BraceTexts
    \union (AllTexts \ {"team/7", ""})

Slots == SlashFree \union AllTexts

\* The strings of the paths of one and of two segments.
Slashed ==
  [p \in {<<s>> : s \in Slots} |-> p[1]] @@
  [p \in Slots \X Slots |-> p[1] \o "/" \o p[2]]
=============================================================================
