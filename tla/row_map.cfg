CONSTANTS
  Thread = {t1, t2}
  Row = {a42, b42}
  NoRow = NoRow
  Colliding = {a42, b42}
  Ident = {"h42", "h7"}
  NoIdent = NoIdent
  IdentOf <- MCIdentOf
  StartOf <- MCStartOf
  Shard = {s1}
  ShardOf <- MCShardOf
  Key = {k1, k2}
  Val = {v1}
  NoVal = NoVal
  BlockSizeOf <- MCSizeOf
  Batch <- MCBatch
  BucketCount = 4
  MaxItems = 2
  MaxCalls = 3
  Kinds = {"PutRowStructs", "PutRowStruct", "GetRowStruct"}
  CallerSerializes = TRUE
  IOFails = FALSE
SYMMETRY Symmetry
SPECIFICATION Spec
INVARIANT RebuildAgrees
PROPERTY ImplementsRowMap
