SPECIFICATION Spec
CONSTANTS
  ShardSeq <- MCShardSeq
  MaxWrites = 2
  MaxFails = 2
  Faults = {"open", "sync", "map", "append", "crash", "power"}
INVARIANTS
  TypeOK
  AllFilesOrNone
  FlushedSurvives
  AheadOnlyByKernel
PROPERTY ReadOnlyHarmless
