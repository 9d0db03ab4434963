SPECIFICATION Spec
CONSTANTS
  Key <- MCKey
  HashOf <- MCHashOf
  Val <- MCVal
  NoVal = NoVal
  Column <- MCColumn
  Ident = Ident
  Batch <- MCBatch
  MinBuckets = 2
  LoadNum = 3
  LoadDen = 4
  IovMax = 2
  MaxCalls = 2
  WriteFails = TRUE
INVARIANTS
  TypeOK
  LookupAgrees
  DecodeAgrees
  TableNeverFull
