--------------------------- MODULE MCObjectStore ---------------------------
(* Instances of ObjectStore for TLC: hashes, value sizes, batches and the  *)
(* files that the first Open finds.                                        *)
EXTENDS ObjectStore

CONSTANTS o1, o3, a, b,
  Longest,      \* the most entries in a batch
  LegacyIndex   \* an index of the preceding format passes HasValidIndexLayout

MCColumnOf == [o \in Obj |-> IF o = o1 THEN "A" ELSE "B"]

\* o1 and o2 have the same 64-bit hash; o3 probes into theirs.
MCHashOf == [o \in Obj |-> IF o = o3 THEN 4 ELSE 3]

\* Two sizes, so that a failed write need not be overwritten exactly.
MCValLen == [v \in Val |-> IF v = a THEN 1 ELSE 2]

\* Single entries, and pairs that write values of both sizes, of one object or
\* of two.
Pairs == {<<x, y>> : x \in {e \in Entry : e.val = a}, y \in Entry}
MCBatch == {<<e>> : e \in Entry} \cup (IF Longest = 1 THEN {} ELSE Pairs)
MCUnique == Pairs

\* No files, and a database of the preceding format with two objects: with its
\* index or without, and with its last record cut.
OldRecord(e) == [i \in 1 .. 2 + ValLen[e.val] |->
  [obj |-> e.obj, val |-> e.val, at |-> IF i <= 2 THEN i - 3 ELSE i - 2]]
TwoRecords == <<LegacyHeader>> \o OldRecord([obj |-> o1, val |-> a])
                               \o OldRecord([obj |-> CHOOSE o \in Obj : o # o1, val |-> b])
OldIndex ==
  [header |-> TRUE, bucketCount |-> 4, itemCount |-> 2,
   slot |-> [n \in 0 .. 3 |->
     CASE n = 3 -> [hash |-> 3, offset |-> 1]
       [] n = 0 -> [hash |-> HashOf[CHOOSE o \in Obj : o # o1], offset |-> 4]
       [] OTHER -> EmptySlot]]
NewFiles == {[values |-> <<>>, index |-> NoIndex]}
OldFiles ==
  {[values |-> TwoRecords, index |-> IF LegacyIndex THEN OldIndex ELSE NoIndex],
   [values |-> SubSeq(TwoRecords, 1, Len(TwoRecords) - 1), index |-> NoIndex]}
BothFiles == NewFiles \cup OldFiles
=============================================================================
