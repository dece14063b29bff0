SPECIFICATION Spec
CONSTANTS
  Entries <- MCEntries
  Worlds <- MCWorlds
  Requests = {"Copy", "Move", "Delete"}
  maximumDepth = 4
  maximumNodeCount = 5
  MaxMeddling = 1
INVARIANTS
  TreeTypeOK
  LinkTargetsAreKept
  RemovesOnlyWhatWentCompletely
  ProgressMeetsTotals
  CompletedMeansAll
PROPERTIES
  ManifestIsTheTree
  CancelEnds
