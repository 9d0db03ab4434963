SPECIFICATION Spec
CONSTANTS
  o1 = o1  o3 = o3  a = a  b = b
  NoObj = NoObj  NoVal = NoVal  Unreadable = Unreadable
  Obj = {o1, o2}
  Val = {a, b}
  Column = {"A", "B"}
  ColumnOf <- MCColumnOf
  HashOf <- MCHashOf
  ValLen <- MCValLen
  Longest = 1
  LegacyIndex = FALSE
  Batch <- MCBatch
  UniqueBatch <- MCUnique
  InitialFiles <- BothFiles
  InitialBucketCount = 2
  LoadNum = 3
  LoadDen = 4
  MaxCalls = 2
  MaxCrashes = 1
  Faults = {"append", "read", "map", "crash", "delete"}
INVARIANTS
  LossNeedsCutBuild
  LayoutValid
  BucketsNameRecords
