CONSTANTS
  Thread = {t1, t2, t3}
  Row = {0, 1, 2, 3}
  NoRow = NoRow
  Colliding = {}
  Ident = {0, 1, 2, 3}
  NoIdent = NoIdent
  IdentOf <- RowIdent
  StartOf <- RowStart
  Shard = {s1}
  ShardOf <- MCShardOf
  Key = {k1}
  Val = {v1}
  NoVal = NoVal
  BlockSizeOf <- MCSizeOf
  Batch <- MCBatch
  BucketCount = 4
  MaxItems = 1
  MaxCalls = 4
  Kinds = {"PutRowStructs"}
  CallerSerializes = TRUE
  IOFails = FALSE
SYMMETRY Symmetry
SPECIFICATION Spec
INVARIANT CapacityRespected
