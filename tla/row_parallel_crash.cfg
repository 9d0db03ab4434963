SPECIFICATION Spec
CONSTANTS
  Thread = {t1, t2}
  r1 = r1  r2 = r2  NoRow = NoRow
  Row = {r1, r2}
  HashOf <- MCHashOf
  Options <- OneShard
  LoadNum = 3
  LoadDen = 4
  MaxCalls = 3
  MaxCrashes = 1
  Faults = {"crash"}
SYMMETRY Symmetry
INVARIANTS
  RowsReadable
