\* Documents of up to five operations with colliding names, and one with arguments.
SPECIFICATION Spec
CONSTANTS
  Docs <- AllDocs
  Definitions <- Schemas
  PathRank <- Ranks
  Numeral <- Digits
  Braced <- Braces
  WithBrace <- BraceTexts
  Segments <- SlashFree
  Joined <- Slashed
  JSONIn <- JSON
  Texts <- AllTexts
INVARIANTS
  Inv
  OneToolPerEndpoint
  CallDoesWhatWasListed
  StringArgumentsArrive
