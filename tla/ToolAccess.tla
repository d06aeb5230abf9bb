----------------------------- MODULE ToolAccess -----------------------------
(* What the server promises about tool calls, without its handlers, its      *)
(* connections or its filters: a call is admitted, and paid for, or kept from *)
(* ArgoCD for a reason; ArgoCD acts for admitted calls only, and for a write  *)
(* once; and a call is reported once, as what has become of it.              *)
(*                                                                         *)
(* An operation is in scope by the path that ArgoCD serves.  The server      *)
(* promises that of operations whose path is plain: one that ArgoCD reads as *)
(* it is written.                                                           *)
EXTENDS Integers, Sequences

CONSTANTS
  Calls,  \* tool calls
  NoAsk,  \* what a call asks that has not been made
  Owners, \* who has a rate limit of his own
  Burst   \* the calls left to whoever has been idle for long

VARIABLES
  readOnly, \* nothing may be written
  limited,  \* the rate limit is on
  logging,  \* so is the audit log
  asked,    \* what each call asks
  stage,    \* "new", "asked", "admitted" or "kept"
  tokens,   \* the calls left to each owner
  acts,     \* how often ArgoCD has acted for each call
  reports   \* what the audit log says of it

choices == <<readOnly, limited, logging>>
vars == <<choices, tokens, stage, acts, reports, asked>>

\* A search needs no ArgoCD.
Ask == [user : Owners, kind : {"search", "malformed", "operation"},
        write : BOOLEAN, plain : BOOLEAN, inScope : BOOLEAN]

Init ==
  /\ readOnly \in BOOLEAN
  /\ limited \in BOOLEAN
  /\ logging \in BOOLEAN
  /\ asked = [c \in Calls |-> NoAsk]
  /\ stage = [c \in Calls |-> "new"]
  /\ tokens = [u \in Owners |-> Burst]
  /\ acts = [c \in Calls |-> 0]
  /\ reports = [c \in Calls |-> <<>>]

Enter(c, from, to) == stage[c] = from /\ stage' = [stage EXCEPT ![c] = to]

Request(c) ==
  /\ Enter(c, "new", "asked")
  /\ asked'[c] \in Ask
  /\ asked' = [asked EXCEPT ![c] = asked'[c]]
  /\ UNCHANGED <<choices, tokens, acts, reports>>

Pay(u) == tokens[u] > 0 /\ tokens' = [tokens EXCEPT ![u] = @ - 1]

\* Nobody is admitted to what is not permitted, nor without paying.
Admit(c) ==
  /\ Enter(c, "asked", "admitted")
  /\ asked[c].kind = "operation"
  /\ readOnly => ~ asked[c].write
  /\ asked[c].plain => asked[c].inScope
  /\ IF limited THEN Pay(asked[c].user) ELSE UNCHANGED tokens
  /\ UNCHANGED <<choices, asked, acts, reports>>

\* Nobody is kept from what is permitted while he has calls left.
Keep(c) ==
  /\ Enter(c, "asked", "kept")
  /\ \/ asked[c].kind # "operation"
     \/ readOnly /\ asked[c].write
     \/ ~ asked[c].plain
     \/ ~ asked[c].inScope
     \/ limited /\ tokens[asked[c].user] = 0
  /\ UNCHANGED <<choices, tokens, asked, acts, reports>>

\* ArgoCD acts, whether or not somebody still waits for it.
Act(c) ==
  /\ stage[c] = "admitted"
  /\ asked[c].write => acts[c] = 0
  /\ acts' = [acts EXCEPT ![c] = @ + 1]
  /\ UNCHANGED <<choices, tokens, asked, stage, reports>>

\* Whoever is reported as blocked has been kept, and for a reason other than his
\* spelling; whoever is reported as answered has been.
Report(c) ==
  /\ logging
  /\ reports[c] = <<>>
  /\ \E what \in {"blocked", "failed", "answered"} :
       /\ \/ what = "blocked" /\ stage[c] = "kept" /\ asked[c].kind = "operation"
          \/ what = "failed" /\ stage[c] = "admitted"
          \/ what = "answered" /\ acts[c] > 0
          \/ what # "blocked" /\ stage[c] = "kept" /\ asked[c].kind = "search"
       /\ reports' = [reports EXCEPT ![c] = <<what>>]
  /\ UNCHANGED <<choices, tokens, asked, stage, acts>>

\* Time gives back a call that was paid for.
Regain(u) ==
  /\ limited
  /\ tokens[u] < Burst
  /\ tokens' = [tokens EXCEPT ![u] = @ + 1]
  /\ UNCHANGED <<choices, asked, stage, acts, reports>>

Next ==
  \/ \E c \in Calls : Request(c) \/ Admit(c) \/ Keep(c) \/ Act(c) \/ Report(c)
  \/ \E u \in Owners : Regain(u)

Spec == Init /\ [][Next]_vars
=============================================================================
