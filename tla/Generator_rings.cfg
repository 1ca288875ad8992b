SPECIFICATION Spec
CONSTANTS
  Ident = {0, 1, 2, 3}
  NoIdent = 99
  Models <- RingModels
  BoxModes = { {} }
  MaxFixed = 0
INVARIANTS
  NoInfiniteType
