SPECIFICATION MCSpec
INVARIANTS ListsEachOnce OnlyNamed SuccessMeansDone FiltersKeepText ErrorReported
PROPERTIES RunsEnd
CONSTANTS
  Threads = {1, 2}
  Assigned <- MCAssigned
  OnDisk <- MCFiles
  CurrentDir = "cwd"
  Path <- MCPath
  PathExt <- MCPathExt
  Batches = {".bat"}
  Internal = {"cd"}
  StartScripts <- MCStartScripts
  Parts = {"files", "filters", "programs", "line", "console"}
CHECK_DEADLOCK FALSE
