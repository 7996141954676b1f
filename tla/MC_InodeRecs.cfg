CONSTANTS
  Images <- MCImages
  RootDirId = 256
  OrphanObjectid <- MCOrphan
  U64Max = 99999
  Sector = 2
  NameLen <- MCNameLen
SPECIFICATION Spec
INVARIANT TypeOK
INVARIANT CurrentLive
INVARIANT VerdictMatchesTree
CHECK_DEADLOCK FALSE
