SPECIFICATION ScopeSpec
CONSTANTS
  Schemas <- SmallSchemas
  Modules <- SmallModules
  NoPrefix = "none"
  Xsi = "xsi"
  Xs = "xs"
  Simple = "simple"
  AnySimple = "anySimple"
  AnyElement = "anyElement"
  Captured <- SmallCaptured
  MaxElements = 5
  MaxDepth = 4
INVARIANTS
  CollectedComplete
  TableIsInScope
  ReadAsWritten
  NamespacesInScope
