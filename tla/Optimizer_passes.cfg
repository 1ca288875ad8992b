SPECIFICATION Spec
CONSTANTS
  Unbounded = 99
  MaxLength = 3
  Ident <- SmallIdent
  ContentOf <- SmallContentOf
  Literals <- SmallLiterals
  Facets <- SmallFacets
  PropertyName <- SmallPropertyName
  Worlds <- SmallWorlds
  FlagSets <- SmallFlagSets
INVARIANTS
  TypedefsSound
  FailsOnlyOnReferences
  NamesApart
PROPERTIES
  NothingLost
  Ends
