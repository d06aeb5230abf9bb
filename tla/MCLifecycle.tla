---------------------------- MODULE MCLifecycle ----------------------------
(* Instances of Lifecycle for TLC.                                          *)
EXTENDS Lifecycle, TLC

CONSTANTS r1, r2

TwoRequests == {r1, r2}

\* Conversions saturate on some machines and give the smallest integer on others.
MachineOverflows == {0 - MaxInt - 1, MaxInt}

Op(method, tag) ==
  [method |-> method, path |-> <<tag>>, tags |-> {tag}, operationId |-> tag,
   wellFormed |-> TRUE]

SmallDoc == {Op("get", "applications"), Op("delete", "applications"), Op("get", "clusters")}

Lowered == [t \in {"applications", "clusters", "aplications"} |-> t]

Basic ==
  [transport |-> "", authMode |-> "", toolMode |-> "", baseURL |-> "https://argocd",
   token |-> "secret", embeddings |-> "", disableWrite |-> "", auditLog |-> "",
   allowed |-> <<>>, rateLimit |-> Unset, rateLimitBurst |-> Unset]

\* Every transport with every way to authenticate.
Modes ==
  {[Basic EXCEPT !.transport = t, !.authMode = a, !.token = k, !.baseURL = u] :
     t \in {"", "http", "sse"}, a \in {"", "oauth", "none"}, k \in {"", "secret"},
     u \in {"", "https://argocd"}}

\* Every spelling of a rate, with every spelling of a burst.
Rates ==
  {[Basic EXCEPT !.rateLimit = r, !.rateLimitBurst = b] :
     r \in {Unset, Bad, NaN, Infinity, Number(-1), Number(0), Number(1), Number(2),
            Number(1000), Number(1500), Number(MaxInt * Thousand),
            Number(MaxInt * Thousand + 1)},
     b \in {Unset, Bad, Number(-1), Number(0), Number(5)}}

\* Indexed, filtered, empty after the filters, and unreadable.
Scopes ==
  {[Basic EXCEPT !.transport = t, !.embeddings = e, !.disableWrite = w, !.allowed = a,
                 !.rateLimit = Number(10000)] :
     t \in {"stdio", "http"}, e \in {"", "true", "bad"}, w \in {"", "true"},
     a \in {<<>>, <<"clusters", "">>, <<"aplications">>}}

Environments ==
  Modes \union Rates \union Scopes
    \union {[Basic EXCEPT !.toolMode = m, !.auditLog = l] :
              m \in {"generated", "both"}, l \in {"false", "bad"}}

\* A stdio server with embeddings.
StdioWithEmbeddings == {[Basic EXCEPT !.embeddings = "true"]}
=============================================================================
