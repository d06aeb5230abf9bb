------------------------------ MODULE Sessions ------------------------------
(* What OAuth mode promises, without codes, tokens or a proxy: a client is  *)
(* nobody until a user logs in at it; a call is sent in the name of who the *)
(* client is at that moment, and keeps it when the client changes; ArgoCD   *)
(* acts for a call in its name or not at all; and a session ends with the   *)
(* token's life or the client's will.  It is the specification that         *)
(* OAuthFlow implements.                                                    *)
CONSTANTS
  Clients,  \* MCP clients
  Users,    \* users of ArgoCD's Dex
  NoUser

VARIABLES
  session,  \* who each client is
  caller,   \* in whose name its call is under way
  served    \* as whom ArgoCD has acted for its call

vars == <<session, caller, served>>

Init ==
  /\ session = [c \in Clients |-> NoUser]
  /\ caller = [c \in Clients |-> NoUser]
  /\ served = [c \in Clients |-> NoUser]

LogIn(c, u) ==
  /\ session[c] = NoUser
  /\ session' = [session EXCEPT ![c] = u]
  /\ UNCHANGED <<caller, served>>

Call(c) ==
  /\ caller' = [caller EXCEPT ![c] = session[c]]
  /\ served' = [served EXCEPT ![c] = NoUser]
  /\ UNCHANGED session

Serve(c) ==
  /\ served' = [served EXCEPT ![c] = caller[c]]
  /\ caller' = [caller EXCEPT ![c] = NoUser]
  /\ UNCHANGED session

\* Of some clients the calls come to nothing.
Lapse(cs) ==
  /\ caller' = [c \in Clients |-> IF c \in cs THEN NoUser ELSE caller[c]]
  /\ UNCHANGED <<session, served>>

\* With the token's life, or with the client's will, which leaves its call alone.
End(c) ==
  /\ session' = [session EXCEPT ![c] = NoUser]
  /\ caller' = caller \/ caller' = [caller EXCEPT ![c] = NoUser]
  /\ UNCHANGED served

Next ==
  \/ \E c \in Clients : (\E u \in Users : LogIn(c, u)) \/ Call(c) \/ Serve(c) \/ End(c)
  \/ \E cs \in SUBSET Clients : Lapse(cs)

Spec == Init /\ [][Next]_vars
=============================================================================
