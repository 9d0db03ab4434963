SPECIFICATION Spec
CONSTANTS
  Thread = {t1, t2}
  r1 = r1  r2 = r2  NoRow = NoRow
  Row = {r1, r2}
  HashOf <- MCHashOf
  Options <- Resharded
  LoadNum = 3
  LoadDen = 4
  MaxCalls = 2
  MaxCrashes = 1
  Faults = {"write", "read", "crash", "delete"}
SYMMETRY Symmetry
INVARIANTS
  TypeOK
  RowLossNeedsTornBuild
  SequencesAhead
  RowDumpAgrees
PROPERTY RebuildRejectsOnlyTorn
