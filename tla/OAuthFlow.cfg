\* Two clients, two users, two mishaps.
SPECIFICATION FairSpec
CONSTANTS
  c1 = c1
  c2 = c2
  u1 = u1
  u2 = u2
  NoUser = NoUser
  Clients <- TwoClients
  Users <- TwoUsers
  DexClientID = "argo-cd-cli"
  ClientIDs = {"argo-cd-cli", "mcp-client"}
  Scopes <- AskedScopes
  MaxFaults = 2
INVARIANTS
  Inv
  TokensAreIDTokens
PROPERTIES
  LoginIsLostOnlyWithTheCode
  LoginSucceeds
  ImplementsSessions
