SPECIFICATION Spec
CHECK_DEADLOCK FALSE
CONSTANTS
  Keys = {"a", "b", "c", "kk"}
  Vals = {"empty", "mid", "big"}
  KeyLen <- MCKeyLen
  ValLen <- MCValLen
  MaxBytes = 7
  Models = {"User", "Account"}
  Args = {1, 2}
  Nil = Nil
  Columns = {"Name", "Age", "Old"}
  Fields = {"Name", "Age"}
  Contents = {"v"}
  Null = "null"
  NoTable = NoTable
  Parts <- MCParts
  Patterns <- MCPatterns
  Requests <- MCRequests
  Wild = {":x", "*f"}
  Star = {"*f"}
  MaxRoutes = 3
  NoRoute = NoRoute
  Size = 5
  Recovers = {0, 2}
  MaxNext = 2
INVARIANTS
  TypesOK
  BytesWithinLimit
  KeepsMostRecent
  OwnConditions
  AllOrNothing
  MigrateKeepsColumns
  Routed
PROPERTIES
  EachOnceNoneAfterFail
