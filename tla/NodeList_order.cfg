SPECIFICATION SpecElements

CONSTANTS
  Ident <- AllIdents
  Schemas <- Schemata
  Givens <- AllGivens
  Elements <- ElementIds
  Settings <- ElementSettings
  Prefix <- NsPrefix
  NoPrefix = "none"

INVARIANTS
  StrongFirst
  ListedOnce
  CircularIsReal
  OnlyLostBasesMissing
  MembersComplete
  NamesDistinct

PROPERTIES
  ElementsReturn
