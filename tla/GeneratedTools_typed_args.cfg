\* Arguments of every type.
SPECIFICATION Spec
CONSTANTS
  Docs <- ArgumentDocs
  Definitions <- Schemas
  PathRank <- Ranks
  Numeral <- Digits
  Braced <- Braces
  WithBrace <- BraceTexts
  Segments <- SlashFree
  Joined <- Slashed
  JSONIn <- JSON
  Texts <- FewTexts
INVARIANTS
  TypedArgumentsArrive
