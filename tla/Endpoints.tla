----------------------------- MODULE Endpoints -----------------------------
(* internal/openapi: the endpoints the server knows, what DISABLE_WRITE and *)
(* ALLOWED_RESOURCES leave of them, and the set of patterns against which a *)
(* request is checked when it is executed.                                  *)
(*                                                                         *)
(* A path is the sequence of its segments; the slashes around it and a      *)
(* query string are gone (filter.go:62-65).  Names are strings that only    *)
(* Upper and LowerOf look into.                                             *)
EXTENDS Naturals, Sequences

CONSTANTS
  Doc,        \* the operations of the Swagger document, as they are written there
  PathParams, \* the segments in braces
  LowerOf     \* strings.ToLower on the names of tags

ASSUME DocAssumption ==
  Doc \subseteq [method : STRING, path : Seq(STRING), tags : SUBSET STRING,
                operationId : STRING, wellFormed : BOOLEAN]

\* Of the spellings of a method, the lower case one stands for all that are
\* not upper case.
UpperOf ==
  [get |-> "GET", head |-> "HEAD", options |-> "OPTIONS", post |-> "POST",
   put |-> "PUT", patch |-> "PATCH", delete |-> "DELETE", trace |-> "TRACE"]

Upper(m) == IF m \in DOMAIN UpperOf THEN UpperOf[m] ELSE m

ReadOnlyMethods == {"GET", "HEAD", "OPTIONS"}

WriteMethods == {"POST", "PUT", "PATCH", "DELETE"}

IsReadOnlyMethod(m) == Upper(m) \in ReadOnlyMethods

\* openapi.Endpoint, without its texts and parameters.
Endpoint ==
  [method : STRING, path : Seq(STRING), tags : SUBSET STRING, operationId : STRING]

IsHTTPMethod(m) == m \in ReadOnlyMethods \union WriteMethods

\* An operation whose JSON does not have the expected shape is skipped, and so
\* is a key of a path item that is no method ("parameters").
ParseSpec ==
  {[method |-> Upper(op.method), path |-> op.path, tags |-> op.tags,
    operationId |-> op.operationId] :
      op \in {o \in Doc : o.wellFormed /\ IsHTTPMethod(Upper(o.method))}}

\* Mutant of FilterReadOnly: deletions pass as read-only.
FilterKeepsDeletes(endpoints) ==
  {ep \in endpoints : IsReadOnlyMethod(ep.method) \/ ep.method = "DELETE"}

FilterReadOnly(endpoints) == {ep \in endpoints : IsReadOnlyMethod(ep.method)}

\* Without tags nothing is filtered out.
FilterByTags(endpoints, tags) ==
  {ep \in endpoints :
    tags = {} \/ \E t \in ep.tags, a \in tags : LowerOf[t] = LowerOf[a]}

NewAllowedEndpoints(endpoints) ==
  {[method |-> Upper(ep.method), segments |-> ep.path] : ep \in endpoints}

\* A segment in braces stands for exactly one segment.
MatchSegments(pattern, actual) ==
  /\ Len(pattern) = Len(actual)
  /\ \A i \in DOMAIN pattern : pattern[i] \in PathParams \/ pattern[i] = actual[i]

IsAllowed(patterns, method, path) ==
  \E p \in patterns : p.method = Upper(method) /\ MatchSegments(p.segments, path)
=============================================================================
