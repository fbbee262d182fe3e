SPECIFICATION ProvSpec
CONSTANTS
  other = other
  Absent = Absent
  Half = Half
  Names = {1, 2}
  Worlds <- Checkouts
  Foreign = {other}
  MaxChanges = 3
INVARIANTS
  FilesNeverTorn
  ShasumsAgree
  GateIsSound
  GateTiesBytesToBuild
  GateRefusesNothingCurrent
PROPERTIES
  RegeneratingRecovers
CHECK_DEADLOCK FALSE
