CONSTANTS
  Thread = {t1, t2}
  Row = {a42, b42, a7}
  NoRow = NoRow
  Colliding = {a42, b42}
  Ident = {"h42", "h7"}
  NoIdent = NoIdent
  IdentOf <- MCIdentOf
  StartOf <- MCStartOf
  Shard = {s1}
  ShardOf <- MCShardOf
  Key = {k1}
  Val = {v1}
  NoVal = NoVal
  BlockSizeOf <- MCSizeOf
  Batch <- MCBatch
  BucketCount = 2
  MaxItems = 1
  MaxCalls = 3
  Kinds = {"PutRowStructs", "PutRowStruct", "GetRowStruct"}
  CallerSerializes = FALSE
  IOFails = FALSE
SPECIFICATION FairSpec
INVARIANT TypeOK
PROPERTY CallsReturn
