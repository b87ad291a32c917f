SPECIFICATION ValuesSpec
CONSTANTS
  Strings = {s1, s2, s3}
  Planets = {A, B}
  Letters = {"x", " "}
  Texts <- MCBlanks
  MaxText = 2
  MaxCalls = 4
  CropCopyLimit = 2
  Fronts = {0}
  Lengths <- MCLengths
  Pieces <- MCPieces
  Names = {"a", "b", "c"}
  Checksum <- MCChecksum
  NoName = ""
  Values = {"v", "w"}
  Contents = {"b"}
  Most <- MCMost
  Objects = {"x", "y"}
  MaxEntries = 3
INVARIANTS
  ValuesTypeOK
  ValuesKept
SYMMETRY Symmetry
CHECK_DEADLOCK FALSE
