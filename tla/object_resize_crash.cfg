SPECIFICATION Spec
CONSTANTS
  o1 = o1  o3 = o3  a = a  b = b
  NoObj = NoObj  NoVal = NoVal  Unreadable = Unreadable
  Obj = {o1, o2, o3}
  Val = {a, b}
  Column = {"A", "B"}
  ColumnOf <- MCColumnOf
  HashOf <- MCHashOf
  ValLen <- MCValLen
  Longest = 2
  LegacyIndex = FALSE
  Batch <- MCBatch
  UniqueBatch <- MCUnique
  InitialFiles <- NewFiles
  InitialBucketCount = 2
  LoadNum = 3
  LoadDen = 4
  MaxCalls = 2
  MaxCrashes = 1
  Faults = {"crash"}
INVARIANTS
  ObjectsReadable
