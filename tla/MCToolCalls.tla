---------------------------- MODULE MCToolCalls ----------------------------
(* Instances of ToolCalls for TLC: a small Swagger document, the requests   *)
(* that tell the handlers' branches apart, and the configurations.          *)
EXTENDS ToolCalls, TLC

CONSTANTS k1, k2, k3

TwoCalls == {k1, k2}

ThreeCalls == {k1, k2, k3}

CallSymmetry == Permutations(Calls)

-----------------------------------------------------------------------------
Op(method, path, tag, id) ==
  [method |-> method, path |-> path, tags |-> {tag}, operationId |-> id,
   wellFormed |-> TRUE]

App == <<"applications", "{name}">>

SmallDoc ==
  {Op("get", App, "ApplicationService", "ApplicationService_Get"),
   Op("delete", App, "ApplicationService", "ApplicationService_Delete"),
   Op("get", <<"clusters">>, "ClusterService", ""),
   Op("parameters", App, "ApplicationService", ""),
   [Op("post", <<"clusters">>, "ClusterService", "ClusterService_Create")
      EXCEPT !.wellFormed = FALSE]}

Params == {"{name}"}

Lowered ==
  [t \in {"ApplicationService", "applicationservice", "ClusterService"} |->
     IF t = "ClusterService" THEN "clusterservice" ELSE "applicationservice"]

-----------------------------------------------------------------------------
Exec(method, path, params) ==
  [tool |-> "execute_operation", method |-> method, path |-> path, params |-> params]

Guestbook == <<"applications", "guestbook">>

Search == [tool |-> "search_operations"]

GuardRequests ==
  {Search,
   Exec("delete", Guestbook, "valid"),
   Exec("GET", <<"clusters">>, "valid"),
   Exec("GET", Guestbook, "invalid"),
   Exec("GET", <<"applications", "100%">>, "valid"),
   Exec("get", <<"applications", "my%20app">>, "valid")}

LimitRequests ==
  {Exec("GET", Guestbook, "valid"), Exec("POST", Guestbook, "invalid"), Exec("GET", <<>>, "valid")}

Tool(ep, args) == [tool |-> "generated", endpoint |-> ep, args |-> args]

\* An argument that fills its segment, is missing, or holds a slash.
ToolRequests ==
  {Tool(ep, [p \in Params |-> "guestbook"]) : ep \in ParseSpec}
    \union {Tool(ep, [p \in Params |-> name]) :
              ep \in {e \in ParseSpec : e.method = "GET" /\ e.path = App},
              name \in {"", "team/guestbook"}}

\* What net/url and ArgoCD make of the paths: an escaped space is a space, a qualified
\* name is two segments, and a percent sign alone does not parse.
Read ==
  <<"applications", "my%20app">> :> <<"applications", "my app">> @@
  <<"applications", "team/guestbook">> :> <<"applications", "team", "guestbook">> @@
  [p \in {Guestbook, App, <<"clusters">>, <<>>} |-> p]

AllRequests == GuardRequests \union ToolRequests

-----------------------------------------------------------------------------
Emails == [t \in {"alice", "bob"} |-> t \o "@example.com"]

Default ==
  [disableWrite |-> FALSE, allowed |-> {}, auditLog |-> TRUE, rateLimit |-> FALSE,
   authMode |-> "token", toolMode |-> "search", embeddings |-> FALSE]

GuardConfigs ==
  {[Default EXCEPT !.disableWrite = w, !.allowed = a] :
     w \in BOOLEAN, a \in {{}, {"applicationservice"}}}

LimitConfigs == {[Default EXCEPT !.rateLimit = TRUE, !.authMode = "oauth"]}

ToolConfigs ==
  {[Default EXCEPT !.toolMode = "generated", !.disableWrite = w, !.allowed = a,
                   !.rateLimit = TRUE] :
     w \in BOOLEAN, a \in {{}, {"applicationservice"}}}

EndConfigs == {[Default EXCEPT !.embeddings = TRUE, !.rateLimit = TRUE, !.auditLog = FALSE]}

AllConfigs == GuardConfigs \union ToolConfigs \union EndConfigs

DefaultOnly == {Default}
=============================================================================
