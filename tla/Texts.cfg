SPECIFICATION TextsSpec
CONSTANTS
  Numbers <- MCNumbers
  Code <- MCCode
  Builtin <- MCBuiltin
  Trees <- MCTrees
  Tables <- MCTables
  Formats = {"json", "php", "phpattr", "msgpack", "shox", "csv", "csvfile", "csvbare", "xml", "xmlcompact"}
  MaxSpaces = 1
  MaxCut = 70
  MaskCharacters <- MCMaskCharacters
  MaxMask = 4
  Matched <- MCMatched
  Lower <- MCLower
  IntBits = 4
  LongBits = 16
  Numbered <- MCNumbered
  Wordings <- MCWordings
  MaxChanges = 3
INVARIANTS
  TextsTypeOK
  TextsKept GlobAsMeant
  NumbersKept
CHECK_DEADLOCK FALSE
