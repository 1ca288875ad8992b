SPECIFICATION Spec

CONSTANTS
  Ident <- Idents
  Schemas <- Mixed
  Givens <- GivenTypes

INVARIANTS
  HardDependenciesAvailable
