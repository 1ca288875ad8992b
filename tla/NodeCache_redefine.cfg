SPECIFICATION Spec
CONSTANTS
  Schema = {1, 2, 3, 4}
  Ns = {"m", "d"}
  Name = {"a", "x", "y", "z"}
  NoIdent = NoIdent
  Worlds <- Redefining
INVARIANTS
  RedefinitionsReachAll
