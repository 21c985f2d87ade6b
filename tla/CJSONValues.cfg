SPECIFICATION Spec
CONSTANTS
  NULL = NULL
  CJSON_NESTING_LIMIT = 2
  Values <- MCValues
  Patches <- MCPatches
  Edits <- MCEdits
  CodeUnits <- MCCodeUnits
  MergePatches <- MCMergePatches
  MaxItems = 3
INVARIANTS
  RoundTrip
  EscapesBecomeUtf8
  PrintFits
  AcceptsWhatItReads
  CompareIsEquality
  PatchesLeadThere
  MergePatchLeadsThere
CHECK_DEADLOCK FALSE
