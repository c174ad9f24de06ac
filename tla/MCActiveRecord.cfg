CONSTANTS
  Keys = {1}
  Values = {10, 20, 30}
  MaxSavePoint = 2
  None = None
SPECIFICATION Spec
INVARIANTS
  CleanCopyIsRow
  SkippedSaveIsSaved
