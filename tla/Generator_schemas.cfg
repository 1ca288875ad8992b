SPECIFICATION SmallSpec
CONSTANTS
  Ident = {0, 1, 2}
  NoIdent = 99
  Models <- SmallModels
  BoxModes = { {}, {"ENUM_ELEMENTS"}, {"STRUCT_ELEMENTS"}, {"ENUM_ELEMENTS", "STRUCT_ELEMENTS"} }
  MaxFixed = 2
INVARIANTS
  GeneratedOnce
  BoxOnlyOnCycle
  NoInfiniteType
  ReachSound
PROPERTIES
  Returns
  ImplementsClosure
