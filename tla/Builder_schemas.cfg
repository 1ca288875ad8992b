SPECIFICATION SmallSpec
CONSTANTS
  Loc = {"a", "b"}
  Name = {"p", "q", "u"}
  NoLoc = "none"
  NoNs = "anonymous"
  NoPrefix = "none"
  Extended <- Underscore
  Resolved <- SmallResolver
  Ns = {"n", "m"}
  Prefix = {"x", "y"}
  Corpora <- BothCorpora
  Texts <- BothTexts
  Settable = {"RESOLVE_INCLUDES", "GENERATE_PREFIXES", "ALTERNATIVE_PREFIXES"}
  LateResolver = FALSE
  MaxIds = 3
  MaxEntries = 3
INVARIANTS
  LoadedOnce
  IdsAccounted
  DependenciesFollowed
  IncludedNamespace
  NeverUnreachable
  SchemasComplete
  DependenciesResolve
  PrefixesDistinct
PROPERTIES
  Returns
