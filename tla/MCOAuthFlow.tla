---------------------------- MODULE MCOAuthFlow ----------------------------
(* Instances of OAuthFlow for TLC.                                          *)
EXTENDS OAuthFlow

CONSTANTS c1, c2, u1, u2

TwoClients == {c1, c2}

TwoUsers == {u1, u2}

\* What a client may ask for: nothing, its own scope, or what Dex needs.
AskedScopes == {{}, {"mcp"}, {"openid"}}
=============================================================================
