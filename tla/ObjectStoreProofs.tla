------------------------- MODULE ObjectStoreProofs -------------------------
(***************************************************************************)
(* The object files and the object index, for any objects, hashes, value   *)
(* sizes, batches and faults: types, appends that leave no hole, and an    *)
(* index in use whose buckets are all counted and always have room.        *)
(***************************************************************************)
EXTENDS ObjectStore, FiniteSetTheorems, SequenceTheorems,
        WellFoundedInduction, TLAPS

BuildPcs == {"double", "truncate", "zero", "header", "place", "placeCount"}
Resizing == pc \in BuildPcs /\ build.resume = "append"
InCall   == pc \in {"append", "store", "count"} \/ Resizing

FilesTyped == values \in Seq(Cell) /\ temp \in Seq(Cell)
IndexTyped ==
  /\ index = [header |-> index.header, bucketCount |-> index.bucketCount,
              itemCount |-> index.itemCount, slot |-> index.slot]
  /\ index.bucketCount \in Nat /\ index.itemCount \in Nat
  /\ index.slot \in [DOMAIN index.slot -> SlotType]
  /\ DOMAIN index.slot \in SUBSET Nat /\ IsFiniteSet(DOMAIN index.slot)
CallTyped ==
  /\ call = [batch |-> call.batch, unique |-> call.unique, entry |-> call.entry]
  /\ call.batch \in Seq(Entry) /\ call.entry \in Nat
  /\ ~InCall => call = NoCall
  /\ InCall => call.batch # <<>> /\ call.entry \in 1 .. Len(call.batch) + 1
  /\ InCall /\ pc # "store" => call.entry <= Len(call.batch)
BuildTyped ==
  /\ build = [count |-> build.count, copy |-> build.copy, resume |-> build.resume]
  /\ build.count \in Nat /\ build.resume \in {"idle", "scan", "append"}
  /\ build.copy \in [ToPlace -> SlotType]
  /\ ToPlace \in SUBSET Nat /\ IsFiniteSet(ToPlace)
  /\ \A b \in ToPlace : build.copy[b].hash # 0
  /\ pc \in BuildPcs => build.count > 0 /\ build.resume \in {"scan", "append"}
  /\ pc \notin BuildPcs => ToPlace = {}
SessionTyped ==
  /\ pc \in PcLabels
  /\ status \in {"OK", "Corruption", "IOError", "InvalidArgument"}
  /\ calls \in 0 .. MaxCalls /\ crashes \in 0 .. MaxCrashes
HistoryTyped ==
  acked \in [Obj -> Val \cup {NoVal}] /\ maybe \in [Obj -> SUBSET Val]
FlagsTyped == index.header \in BOOLEAN /\ call.unique \in BOOLEAN /\ suspect \in BOOLEAN
Typed == /\ FilesTyped /\ IndexTyped /\ CallTyped /\ BuildTyped /\ SessionTyped
         /\ HistoryTyped /\ FlagsTyped

\* The value file starts with its header, and a file of the preceding format
\* is neither read as one of this format nor appended to.
HeaderInv ==
  /\ values # <<>> => values[1] \in {FileHeader, LegacyHeader}
  /\ pc \notin {"closed", "migrate"} => values # <<>> /\ values[1] = FileHeader
  /\ pc = "migrate" => IsLegacy /\ temp # <<>> /\ temp[1] = FileHeader

\* Record e is in a value file at offset s.
RecordIn(file, s, e) ==
  /\ s + RecordSize(e) <= Len(file)
  /\ \A i \in 1 .. RecordSize(e) : file[s + i] = Record(e)[i]

\* Where the records of a batch lie: f gives the offsets of entries 1 to n, and
\* the records of those before n are in the file.
LaidIn(file, start, batch, f, n) ==
  /\ f \in [1 .. n -> 0 .. Len(file)]
  /\ f[1] = start
  /\ \A i \in 1 .. n - 1 : f[i + 1] = f[i] + RecordSize(batch[i]) /\ RecordIn(file, f[i], batch[i])
  /\ \A i, k \in 1 .. n : i < k => f[i] + RecordSize(batch[i]) <= f[k]
Laid(f, n) == LaidIn(values, appendOffset, call.batch, f, n)

OffsetInv ==
  /\ appendOffset \in 0 .. Len(values) /\ next \in Nat
  /\ pc \in {"closed", "migrate", "removeIndex"} => appendOffset = 0
  /\ pc \notin {"closed", "migrate", "removeIndex"} => appendOffset > 0
  /\ pc \in {"closed", "removeIndex", "openIndex", "idle", "readonly", "unmapped"} =>
       next = 0
  /\ pc \in {"migrate", "scan", "scanCount"} => next > 0
  /\ pc = "scanCount" => ScanValid
  /\ Resizing => call.entry = 1 /\ next = appendOffset
  /\ pc = "append" => \E f \in [1 .. call.entry -> 0 .. Len(values)] :
                        Laid(f, call.entry) /\ next = f[call.entry]
  /\ pc \in {"store", "count"} =>
       \E f \in [1 .. Len(call.batch) + 1 -> 0 .. Len(values)] :
         Laid(f, Len(call.batch) + 1) /\ next = f[call.entry]

\* Every bucket of the index is counted, but for the one just stored into.
Ready == index.header /\ index.bucketCount > 0 /\ DOMAIN index.slot = 0 .. index.bucketCount - 1
LayoutInv ==
  /\ pc \in {"idle", "readonly", "double", "place", "scan", "append", "store"} =>
       Ready /\ Cardinality(Filled) = index.itemCount
  /\ pc \in {"placeCount", "scanCount", "count"} =>
       Ready /\ Cardinality(Filled) = index.itemCount + 1
  /\ pc = "zero" => DOMAIN index.slot = 0 .. build.count - 1
  /\ pc = "header" => /\ index.slot = [b \in 0 .. build.count - 1 |-> EmptySlot]
                      /\ index.itemCount = 0 /\ ~index.header
  /\ pc \in {"place", "placeCount"} => index.bucketCount = build.count
  /\ pc = "placeCount" => ToPlace # {}

\* The load factor leaves room for what the running write, or the resize, has
\* still to store.
Within(items, buckets) == items * LoadDen <= LoadNum * buckets
Asked == IF build.resume = "append" THEN Len(call.batch) ELSE 0
RoomInv ==
  /\ pc = "double" => Cardinality(ToPlace) = index.itemCount
  /\ pc \in {"truncate", "zero", "header"} => Within(Cardinality(ToPlace) + Asked, build.count)
  /\ pc \in {"place", "placeCount"} =>
       Within(index.itemCount + Cardinality(ToPlace) + Asked, build.count)
  /\ pc = "append" => Within(index.itemCount + Len(call.batch), index.bucketCount)
  /\ pc \in {"store", "count"} =>
       Within(index.itemCount + (Len(call.batch) + 1 - call.entry), index.bucketCount)

StoreInv == Typed /\ HeaderInv /\ OffsetInv /\ LayoutInv /\ RoomInv

-----------------------------------------------------------------------------
(* Numbers.                                                                *)

LEMMA MaxOfTwo ==
  ASSUME NEW m \in Nat, NEW n \in Nat
  PROVE  Max({m, n}) \in Nat /\ Max({m, n}) = IF m >= n THEN m ELSE n
<1> DEFINE IsMax(x) == \A y \in {m, n} : x >= y
<1>1. \E x \in {m, n} : IsMax(x)  OBVIOUS
<1>2. Max({m, n}) = CHOOSE x \in {m, n} : IsMax(x)  BY DEF Max
<1>3. Max({m, n}) \in {m, n} /\ IsMax(Max({m, n}))  BY <1>1, <1>2
<1> QED  BY <1>3

LEMMA MinOfSome ==
  ASSUME NEW S \in SUBSET Nat, S # {}
  PROVE  Min(S) \in S /\ \A y \in S : Min(S) <= y
<1>1. PICK x \in S : \A y \in S : ~(<<y, x>> \in OpToRel(<, Nat))
  BY NatLessThanWellFounded, WFMin, Zenon
<1>2. \A y \in S : ~(y < x)  BY <1>1 DEF OpToRel
<1>3. \A y \in S : x <= y  BY <1>2
<1> QED  BY <1>3 DEF Min

LEMMA FunctionIsSeq ==
  ASSUME NEW S, NEW n \in Nat, NEW g \in [1 .. n -> S]
  PROVE  g \in Seq(S) /\ Len(g) = n /\ DOMAIN g = 1 .. n
<1>1. g \in Seq(S)  BY SeqDef
<1>2. Len(g) \in Nat /\ DOMAIN g = 1 .. Len(g)  BY <1>1, LenProperties
<1>3. DOMAIN g = 1 .. n  OBVIOUS
<1>4. 1 .. n = 1 .. Len(g)  BY <1>2, <1>3
<1>5. n \in 1 .. n \/ n = 0  OBVIOUS
<1>6. Len(g) \in 1 .. Len(g) \/ Len(g) = 0  BY <1>2
<1>7. n <= Len(g) /\ Len(g) <= n  BY <1>2, <1>4, <1>5, <1>6
<1> QED  BY <1>1, <1>2, <1>3, <1>7

\* A remainder is determined by what it leaves.
LEMMA Remainder ==
  ASSUME NEW n \in Nat \ {0}, NEW q \in Nat, NEW b \in 0 .. n - 1
  PROVE  (n * q + b) % n = b
<1> DEFINE a == n * q + b
           d == a \div n
           r == a % n
<1>1. a \in Nat  OBVIOUS
<1>2. d \in Nat /\ r \in 0 .. n - 1 /\ a = n * d + r  BY <1>1
<1> HIDE DEF d, r
<1>3. n * q + b = n * d + r  BY <1>2
<1>4. CASE d = q  BY <1>2, <1>3, <1>4 DEF r
<1>5. CASE d > q
  <2>1. n * d >= n * (q + 1)  BY <1>2, <1>5
  <2>2. n * (q + 1) = n * q + n  OBVIOUS
  <2> QED  BY <1>2, <1>3, <2>1, <2>2
<1>6. CASE d < q
  <2>1. n * q >= n * (d + 1)  BY <1>2, <1>6
  <2>2. n * (d + 1) = n * d + n  BY <1>2
  <2> QED  BY <1>2, <1>3, <2>1, <2>2
<1> QED  BY <1>2, <1>4, <1>5, <1>6

\* A probe sequence meets every bucket.
LEMMA ProbeOnto ==
  ASSUME NEW n \in Nat \ {0}, NEW h \in Nat, NEW b \in 0 .. n - 1
  PROVE  \E k \in 0 .. n - 1 : (h + k) % n = b
<1> DEFINE q == h \div n
           r == h % n
<1>1. q \in Nat /\ r \in 0 .. n - 1 /\ h = n * q + r  OBVIOUS
<1> HIDE DEF q, r
<1>2. CASE b >= r
  <2>1. b - r \in 0 .. n - 1 /\ h + (b - r) = n * q + b  BY <1>1, <1>2
  <2>2. (n * q + b) % n = b  BY <1>1, Remainder
  <2> QED  BY <2>1, <2>2
<1>3. CASE b < r
  <2>1. b - r + n \in 0 .. n - 1 /\ h + (b - r + n) = n * q + n + b  BY <1>1, <1>3
  <2>2. n * q + n = n * (q + 1)  BY <1>1
  <2>3. (n * (q + 1) + b) % n = b  BY <1>1, Remainder
  <2> QED  BY <2>1, <2>2, <2>3, <1>1
<1> QED  BY <1>1, <1>2, <1>3

\* What the load factor allows is less than all buckets.
LEMMA WithinRoom ==
  ASSUME NEW m \in Nat, NEW n \in Nat, n > 0, Within(m, n)
  PROVE  m < n
<1>1. LoadNum \in Nat /\ LoadDen \in Nat /\ LoadNum < LoadDen  BY ObjectAssumption
<1>2. m * LoadDen <= LoadNum * n  BY DEF Within
<1>3. LoadNum * n < LoadDen * n  BY <1>1
<1>4. CASE m >= n
  <2>1. m * LoadDen >= n * LoadDen  BY <1>1, <1>4
  <2> QED  BY <1>1, <1>2, <1>3, <2>1
<1> QED  BY <1>4

LEMMA WithinLess ==
  ASSUME NEW m \in Nat, NEW n \in Nat, NEW k \in Nat, Within(m, n), k <= m
  PROVE  Within(k, n)
<1>1. LoadNum \in Nat /\ LoadDen \in Nat  BY ObjectAssumption
<1>2. k * LoadDen <= m * LoadDen  BY <1>1
<1> QED  BY <1>1, <1>2 DEF Within

-----------------------------------------------------------------------------
(* Cells.                                                                  *)

LEMMA EntryFields ==
  ASSUME NEW e \in Entry
  PROVE  /\ e.obj \in Obj /\ e.val \in Val /\ ValLen[e.val] \in Nat
         /\ RecordSize(e) \in Nat /\ RecordSize(e) > 0 /\ HashOf[e.obj] \in Nat /\ HashOf[e.obj] # 0
<1>1. e.obj \in Obj /\ e.val \in Val  BY DEF Entry
<1>2. ValLen[e.val] \in Nat /\ HashOf[e.obj] \in Nat \ {0}  BY <1>1, ObjectAssumption
<1> QED  BY <1>1, <1>2 DEF RecordSize

LEMMA MarksTyped ==
  FileHeader \in Cell /\ LegacyHeader \in Cell /\ Fragment \in Cell
BY DEF Cell

LEMMA RecordCells ==
  ASSUME NEW e \in Entry
  PROVE  /\ Record(e) \in Seq(Cell) /\ Len(Record(e)) = RecordSize(e)
         /\ \A i \in 1 .. RecordSize(e) :
              Record(e)[i] = [obj |-> e.obj, val |-> e.val, at |-> i - 1]
<1> DEFINE c(i) == [obj |-> e.obj, val |-> e.val, at |-> i - 1]
<1>1. RecordSize(e) \in Nat /\ e.obj \in Obj /\ e.val \in Val  BY EntryFields
<1>2. \A i \in 1 .. RecordSize(e) : c(i) \in Cell  BY <1>1 DEF Cell
<1>3. Record(e) = [i \in 1 .. RecordSize(e) |-> c(i)]  BY DEF Record
<1>4. Record(e) \in [1 .. RecordSize(e) -> Cell]  BY <1>2, <1>3
<1>5. Record(e) \in Seq(Cell) /\ Len(Record(e)) = RecordSize(e)  BY <1>1, <1>4, FunctionIsSeq
<1> QED  BY <1>3, <1>5

\* A cut record is the start of the record, perhaps with a piece of the rest.
LEMMA CutCells ==
  ASSUME NEW e \in Entry, NEW c \in Cut(e)
  PROVE  /\ c \in Seq(Cell) /\ Len(c) < RecordSize(e)
         /\ \A i \in 1 .. Len(c) : c[i] = Record(e)[i] \/ c[i] = Fragment
<1> DEFINE r == Record(e)
           m == RecordSize(e)
<1>1. m \in Nat /\ m > 0 /\ r \in Seq(Cell) /\ Len(r) = m  BY RecordCells, EntryFields
<1> HIDE DEF r, m
<1>2. \A k \in 0 .. m - 1 : /\ SubSeq(r, 1, k) \in Seq(Cell)
                            /\ Len(SubSeq(r, 1, k)) = k
                            /\ \A i \in 1 .. k : SubSeq(r, 1, k)[i] = r[i]
  <2>1. TAKE k \in 0 .. m - 1
  <2>2. \A i \in 1 .. k : r[i] \in Cell  BY <1>1, LenProperties
  <2>3. /\ SubSeq(r, 1, k) \in Seq(Cell)
        /\ Len(SubSeq(r, 1, k)) = IF 1 <= k THEN k - 1 + 1 ELSE 0
        /\ \A i \in 1 .. k - 1 + 1 : SubSeq(r, 1, k)[i] = r[1 + i - 1]
    BY <1>1, <2>2, SubSeqProperties
  <2> QED  BY <2>3, <1>1
<1>3. CASE \E k \in 0 .. m - 1 : c = SubSeq(r, 1, k)
  <2>1. PICK k \in 0 .. m - 1 : c = SubSeq(r, 1, k)  BY <1>3
  <2> QED  BY <1>1, <1>2, <2>1 DEF r, m
<1>4. CASE \E k \in 0 .. m - 2 : c = Append(SubSeq(r, 1, k), Fragment)
  <2>1. PICK k \in 0 .. m - 2 : c = Append(SubSeq(r, 1, k), Fragment)  BY <1>4
  <2> DEFINE p == SubSeq(r, 1, k)
  <2>2. p \in Seq(Cell) /\ Len(p) = k /\ \A i \in 1 .. k : p[i] = r[i]  BY <1>1, <1>2
  <2>3. c = Append(p, Fragment)  BY <2>1
  <2> HIDE DEF p
  <2>4. /\ c \in Seq(Cell) /\ Len(c) = k + 1 /\ c[k + 1] = Fragment
        /\ \A i \in 1 .. k : c[i] = p[i]
    BY <2>2, <2>3, MarksTyped
  <2>5. \A i \in 1 .. k + 1 : i = k + 1 \/ i \in 1 .. k  OBVIOUS
  <2>6. \A i \in 1 .. Len(c) : c[i] = r[i] \/ c[i] = Fragment  BY <2>2, <2>4, <2>5
  <2> QED  BY <1>1, <2>4, <2>6 DEF r, m
<1> QED  BY <1>3, <1>4 DEF Cut, r, m

\* pwritev leaves what it does not write.
LEMMA OverwriteCells ==
  ASSUME NEW f \in Seq(Cell), NEW o \in 0 .. Len(f), NEW c \in Seq(Cell)
  PROVE  /\ Overwrite(f, o, c) \in Seq(Cell)
         /\ Len(Overwrite(f, o, c)) = IF Len(f) >= o + Len(c) THEN Len(f) ELSE o + Len(c)
         /\ \A i \in o + 1 .. o + Len(c) : Overwrite(f, o, c)[i] = c[i - o]
         /\ \A i \in 1 .. Len(Overwrite(f, o, c)) : i \notin o + 1 .. o + Len(c) =>
              i <= Len(f) /\ Overwrite(f, o, c)[i] = f[i]
<1> DEFINE m == Max({Len(f), o + Len(c)})
           e(i) == IF i \in o + 1 .. o + Len(c) THEN c[i - o] ELSE f[i]
           g == Overwrite(f, o, c)
<1>1. Len(f) \in Nat /\ Len(c) \in Nat /\ o \in Nat /\ o <= Len(f)  OBVIOUS
<1>2. m \in Nat /\ m = IF Len(f) >= o + Len(c) THEN Len(f) ELSE o + Len(c)  BY <1>1, MaxOfTwo
<1>3. g = [i \in 1 .. m |-> e(i)]  BY DEF Overwrite
<1> HIDE DEF m, g
<1>4. \A i \in 1 .. m : i \notin o + 1 .. o + Len(c) => i \in 1 .. Len(f)  BY <1>1, <1>2
<1>5. \A i \in o + 1 .. o + Len(c) : i \in 1 .. m /\ i - o \in 1 .. Len(c)  BY <1>1, <1>2
<1>6. \A i \in 1 .. Len(f) : f[i] \in Cell  OBVIOUS
<1>7. \A i \in 1 .. Len(c) : c[i] \in Cell  OBVIOUS
<1>8. \A i \in 1 .. m : e(i) \in Cell  BY <1>4, <1>5, <1>6, <1>7
<1>9. \A i \in 1 .. m : i \notin o + 1 .. o + Len(c) => e(i) = f[i]  OBVIOUS
<1>10. \A i \in o + 1 .. o + Len(c) : e(i) = c[i - o]  OBVIOUS
<1> HIDE DEF e
<1>11. g \in [1 .. m -> Cell] /\ \A i \in 1 .. m : g[i] = e(i)  BY <1>3, <1>8
<1>12. g \in Seq(Cell) /\ Len(g) = m  BY <1>2, <1>11, FunctionIsSeq
<1>13. \A i \in o + 1 .. o + Len(c) : g[i] = c[i - o]  BY <1>5, <1>10, <1>11
<1>14. \A i \in 1 .. m : i \notin o + 1 .. o + Len(c) => i <= Len(f) /\ g[i] = f[i]
  BY <1>4, <1>9, <1>11
<1> QED  BY <1>2, <1>12, <1>13, <1>14 DEF g

-----------------------------------------------------------------------------
(* The index.                                                              *)

LEMMA IndexFields ==
  ASSUME NEW x, NEW h, NEW n, NEW m, NEW f,
         x = [header |-> h, bucketCount |-> n, itemCount |-> m, slot |-> f]
  PROVE  x.header = h /\ x.bucketCount = n /\ x.itemCount = m /\ x.slot = f
OBVIOUS

\* The fields of the index that a step leaves.
LEMMA IndexParts ==
  ASSUME NEW h, NEW n \in Nat, NEW m \in Nat, NEW D \in SUBSET Nat, IsFiniteSet(D),
         NEW f \in [D -> SlotType],
         index' = [header |-> h, bucketCount |-> n, itemCount |-> m, slot |-> f]
  PROVE  /\ IndexTyped'
         /\ index'.header = h /\ index'.bucketCount = n
         /\ index'.itemCount = m /\ index'.slot = f
<1>1. index'.header = h /\ index'.bucketCount = n /\ index'.itemCount = m /\ index'.slot = f
  BY IndexFields
<1>2. DOMAIN f = D  OBVIOUS
<1>3. index' = [header |-> index'.header, bucketCount |-> index'.bucketCount,
                itemCount |-> index'.itemCount, slot |-> index'.slot]
  BY <1>1
<1>4. /\ index'.bucketCount \in Nat /\ index'.itemCount \in Nat
      /\ index'.slot \in [DOMAIN index'.slot -> SlotType]
      /\ DOMAIN index'.slot \in SUBSET Nat /\ IsFiniteSet(DOMAIN index'.slot)
  BY <1>1, <1>2
<1>5. IndexTyped'  BY <1>3, <1>4 DEF IndexTyped
<1> QED  BY <1>1, <1>5

LEMMA IndexShape ==
  ASSUME IndexTyped
  PROVE  /\ index = [header |-> index.header, bucketCount |-> index.bucketCount,
                     itemCount |-> index.itemCount, slot |-> index.slot]
         /\ index.bucketCount \in Nat /\ index.itemCount \in Nat
         /\ index.slot \in [DOMAIN index.slot -> SlotType]
         /\ DOMAIN index.slot \in SUBSET Nat /\ IsFiniteSet(DOMAIN index.slot)
         /\ IsFiniteSet(Filled) /\ Cardinality(Filled) \in Nat
         /\ Filled \in SUBSET DOMAIN index.slot
<1>1. Filled \in SUBSET DOMAIN index.slot  BY DEF Filled
<1>2. IsFiniteSet(DOMAIN index.slot)  BY DEF IndexTyped
<1>3. IsFiniteSet(Filled) /\ Cardinality(Filled) \in Nat  BY <1>1, <1>2, FS_Subset, FS_CardinalityType
<1> QED  BY <1>1, <1>3 DEF IndexTyped

\* A slot is stored into.
LEMMA SlotStored ==
  ASSUME IndexTyped, NEW b \in DOMAIN index.slot, NEW s \in SlotType, s.hash # 0,
         index' = [index EXCEPT !.slot[b] = s]
  PROVE  /\ IndexTyped'
         /\ index'.header = index.header /\ index'.bucketCount = index.bucketCount
         /\ index'.itemCount = index.itemCount
         /\ DOMAIN index'.slot = DOMAIN index.slot
         /\ index'.slot[b] = s
         /\ \A c \in DOMAIN index.slot : c # b => index'.slot[c] = index.slot[c]
         /\ Filled' = Filled \cup {b}
         /\ b \in Filled => Cardinality(Filled') = Cardinality(Filled)
         /\ b \notin Filled => Cardinality(Filled') = Cardinality(Filled) + 1
<1> DEFINE f == [index.slot EXCEPT ![b] = s]
           D == DOMAIN index.slot
<1>1. /\ index = [header |-> index.header, bucketCount |-> index.bucketCount,
                  itemCount |-> index.itemCount, slot |-> index.slot]
      /\ index.bucketCount \in Nat /\ index.itemCount \in Nat
      /\ index.slot \in [D -> SlotType] /\ D \in SUBSET Nat /\ IsFiniteSet(D)
  BY IndexShape
<1>2. index' = [header |-> index.header, bucketCount |-> index.bucketCount,
               itemCount |-> index.itemCount, slot |-> f]
  BY ONLY <1>1, index' = [index EXCEPT !.slot[b] = s]
<1>3. f \in [D -> SlotType]  BY <1>1
<1> HIDE DEF f, D
<1>4. /\ IndexTyped'
      /\ index'.header = index.header /\ index'.bucketCount = index.bucketCount
      /\ index'.itemCount = index.itemCount /\ index'.slot = f
  BY ONLY <1>1, <1>2, <1>3, IndexParts
<1>5. /\ DOMAIN index'.slot = DOMAIN index.slot /\ index'.slot[b] = s
      /\ \A c \in DOMAIN index.slot : c # b => index'.slot[c] = index.slot[c]
  BY <1>1, <1>3, <1>4 DEF f, D
<1>6. Filled' = Filled \cup {b}  BY <1>5 DEF Filled
<1>7. /\ b \in Filled => Cardinality(Filled') = Cardinality(Filled)
      /\ b \notin Filled => Cardinality(Filled') = Cardinality(Filled) + 1
  <2>1. IsFiniteSet(Filled)  BY IndexShape
  <2>2. b \in Filled => Filled' = Filled  BY <1>6
  <2> QED  BY <1>6, <2>1, <2>2, FS_AddElement
<1> QED  BY <1>4, <1>5, <1>6, <1>7

\* The item count is stored.
LEMMA ItemCounted ==
  ASSUME IndexTyped, index' = [index EXCEPT !.itemCount = @ + 1]
  PROVE  /\ IndexTyped'
         /\ index'.header = index.header /\ index'.bucketCount = index.bucketCount
         /\ index'.itemCount = index.itemCount + 1 /\ index'.slot = index.slot
         /\ Filled' = Filled
<1> DEFINE m == index.itemCount + 1
           D == DOMAIN index.slot
<1>1. /\ index = [header |-> index.header, bucketCount |-> index.bucketCount,
                  itemCount |-> index.itemCount, slot |-> index.slot]
      /\ index.bucketCount \in Nat /\ index.itemCount \in Nat
      /\ index.slot \in [D -> SlotType] /\ D \in SUBSET Nat /\ IsFiniteSet(D)
  BY IndexShape
<1>2. index' = [header |-> index.header, bucketCount |-> index.bucketCount,
               itemCount |-> m, slot |-> index.slot]
  BY ONLY <1>1, index' = [index EXCEPT !.itemCount = @ + 1]
<1>3. m \in Nat  BY <1>1
<1> HIDE DEF m, D
<1>4. /\ IndexTyped'
      /\ index'.header = index.header /\ index'.bucketCount = index.bucketCount
      /\ index'.itemCount = m /\ index'.slot = index.slot
  BY ONLY <1>1, <1>2, <1>3, IndexParts
<1> QED  BY <1>4 DEF Filled, m

\* The header is stored.
LEMMA HeaderStored ==
  ASSUME IndexTyped, NEW n \in Nat,
         index' = [index EXCEPT !.header = TRUE, !.bucketCount = n]
  PROVE  /\ IndexTyped'
         /\ index'.header = TRUE /\ index'.bucketCount = n
         /\ index'.itemCount = index.itemCount /\ index'.slot = index.slot
         /\ Filled' = Filled
<1> DEFINE D == DOMAIN index.slot
<1>1. /\ index = [header |-> index.header, bucketCount |-> index.bucketCount,
                  itemCount |-> index.itemCount, slot |-> index.slot]
      /\ index.itemCount \in Nat
      /\ index.slot \in [D -> SlotType] /\ D \in SUBSET Nat /\ IsFiniteSet(D)
  BY IndexShape
<1>2. index' = [header |-> TRUE, bucketCount |-> n,
               itemCount |-> index.itemCount, slot |-> index.slot]
  BY ONLY <1>1, index' = [index EXCEPT !.header = TRUE, !.bucketCount = n]
<1> HIDE DEF D
<1>4. /\ IndexTyped'
      /\ index'.header = TRUE /\ index'.bucketCount = n
      /\ index'.itemCount = index.itemCount /\ index'.slot = index.slot
  BY ONLY <1>1, <1>2, n \in Nat, IndexParts
<1> QED  BY <1>4 DEF Filled

LEMMA EmptySlotTyped == EmptySlot \in SlotType /\ EmptySlot.hash = 0
BY DEF EmptySlot, SlotType

LEMMA FiniteRange ==
  ASSUME NEW n \in Nat
  PROVE  0 .. n - 1 \in SUBSET Nat /\ IsFiniteSet(0 .. n - 1) /\ Cardinality(0 .. n - 1) = n
<1>1. 0 \in Int /\ n - 1 \in Int  OBVIOUS
<1>2. IsFiniteSet(0 .. n - 1) /\ Cardinality(0 .. n - 1) = IF 0 > n - 1 THEN 0 ELSE n - 1 - 0 + 1
  BY <1>1, FS_Interval
<1> QED  BY <1>2

\* ftruncate keeps the slots that fit and adds empty ones.
LEMMA SlotsTruncated ==
  ASSUME IndexTyped, build.count \in Nat, index' = Truncated
  PROVE  /\ IndexTyped'
         /\ index'.header = index.header /\ index'.bucketCount = index.bucketCount
         /\ index'.itemCount = index.itemCount
         /\ DOMAIN index'.slot = 0 .. build.count - 1
         /\ \A b \in 0 .. build.count - 1 :
              index'.slot[b] = IF b \in DOMAIN index.slot THEN index.slot[b] ELSE EmptySlot
         /\ Filled' = Filled \cap (0 .. build.count - 1)
<1> DEFINE D == 0 .. build.count - 1
           g(b) == IF b \in DOMAIN index.slot THEN index.slot[b] ELSE EmptySlot
           f == [b \in D |-> g(b)]
<1>1. /\ index = [header |-> index.header, bucketCount |-> index.bucketCount,
                  itemCount |-> index.itemCount, slot |-> index.slot]
      /\ index.bucketCount \in Nat /\ index.itemCount \in Nat
      /\ index.slot \in [DOMAIN index.slot -> SlotType]
  BY IndexShape
<1>2. index' = [header |-> index.header, bucketCount |-> index.bucketCount,
               itemCount |-> index.itemCount, slot |-> f]
  BY ONLY <1>1, index' = Truncated DEF Truncated
<1>3. D \in SUBSET Nat /\ IsFiniteSet(D)  BY FiniteRange
<1>4. \A b \in D : g(b) \in SlotType  BY <1>1, EmptySlotTyped
<1>5. f \in [D -> SlotType] /\ \A b \in D : f[b] = g(b)  BY <1>4
<1> HIDE DEF f, D
<1>6. /\ IndexTyped'
      /\ index'.header = index.header /\ index'.bucketCount = index.bucketCount
      /\ index'.itemCount = index.itemCount /\ index'.slot = f
  BY ONLY <1>1, <1>2, <1>3, <1>5, IndexParts
<1>7. DOMAIN index'.slot = D /\ \A b \in D : index'.slot[b] = g(b)  BY <1>5, <1>6
<1>8. Filled' = Filled \cap D
  <2>1. \A b \in D : index'.slot[b].hash # 0 <=> b \in Filled  BY <1>7, EmptySlotTyped DEF Filled
  <2> QED  BY <1>7, <2>1 DEF Filled
<1> QED  BY <1>6, <1>7, <1>8 DEF D

\* memset leaves a table of empty slots, without a header.
LEMMA SlotsZeroed ==
  ASSUME NEW n \in Nat,
         index' = [NoIndex EXCEPT !.slot = [b \in 0 .. n - 1 |-> EmptySlot]]
  PROVE  /\ IndexTyped'
         /\ index'.header = FALSE /\ index'.bucketCount = 0 /\ index'.itemCount = 0
         /\ index'.slot = [b \in 0 .. n - 1 |-> EmptySlot]
         /\ Filled' = {}
<1> DEFINE D == 0 .. n - 1
           f == [b \in D |-> EmptySlot]
<1>1. index' = [header |-> FALSE, bucketCount |-> 0, itemCount |-> 0, slot |-> f]
  BY ONLY index' = [NoIndex EXCEPT !.slot = [b \in 0 .. n - 1 |-> EmptySlot]] DEF NoIndex
<1>2. D \in SUBSET Nat /\ IsFiniteSet(D)  BY FiniteRange
<1>3. f \in [D -> SlotType]  BY EmptySlotTyped
<1>4. DOMAIN f = D /\ \A b \in D : f[b].hash = 0  BY EmptySlotTyped
<1> HIDE DEF f, D
<1>5. /\ IndexTyped'
      /\ index'.header = FALSE /\ index'.bucketCount = 0 /\ index'.itemCount = 0
      /\ index'.slot = f
  BY ONLY <1>1, <1>2, <1>3, 0 \in Nat, IndexParts
<1>6. Filled' = {}  BY <1>4, <1>5 DEF Filled
<1> QED  BY <1>5, <1>6 DEF f, D

\* No index file.
LEMMA IndexRemoved ==
  ASSUME index' = NoIndex
  PROVE  IndexTyped' /\ index'.header = FALSE /\ Filled' = {} /\ DOMAIN index'.slot = {}
<1>1. NoSlots \in [{} -> SlotType] /\ DOMAIN NoSlots = {}  BY DEF NoSlots
<1>2. {} \in SUBSET Nat /\ IsFiniteSet({})  BY FS_EmptySet
<1>3. /\ IndexTyped' /\ index'.header = FALSE /\ index'.slot = NoSlots
  BY <1>1, <1>2, IndexParts DEF NoIndex
<1>4. Filled' = {}  BY <1>1, <1>3 DEF Filled
<1> QED  BY <1>1, <1>3, <1>4

-----------------------------------------------------------------------------
(* Probing.                                                                *)

LEMMA ProbeInTable ==
  ASSUME IndexTyped, Ready, NEW h \in Nat, NEW k \in Probes
  PROVE  k \in Nat /\ Probe(h, k) \in DOMAIN index.slot /\ Probe(h, k) \in 0 .. index.bucketCount - 1
<1>1. index.bucketCount \in Nat \ {0}  BY DEF IndexTyped, Ready
<1>2. k \in Nat /\ h + k \in Nat  BY DEF Probes
<1>3. (h + k) % index.bucketCount \in 0 .. index.bucketCount - 1  BY <1>1, <1>2
<1> QED  BY <1>2, <1>3 DEF Probe, Ready

\* An index that is not full has an empty bucket on every probe path.
LEMMA EmptyAhead ==
  ASSUME IndexTyped, Ready, Cardinality(Filled) < index.bucketCount, NEW h \in Nat
  PROVE  \E k \in Probes : Probe(h, k) \notin Filled
<1> DEFINE D == 0 .. index.bucketCount - 1
<1>1. index.bucketCount \in Nat \ {0}  BY DEF IndexTyped, Ready
<1>2. Cardinality(D) = index.bucketCount  BY <1>1, FiniteRange
<1>3. Filled \subseteq D  BY IndexShape DEF Ready
<1>4. Filled # D  BY <1>1, <1>2
<1>5. PICK b \in D : b \notin Filled  BY <1>3, <1>4
<1>6. PICK k \in 0 .. index.bucketCount - 1 : (h + k) % index.bucketCount = b
  BY <1>1, <1>5, ProbeOnto
<1> QED  BY <1>5, <1>6 DEF Probes, Probe

\* PlaceExistingBucket and PlaceNewBucket find the first empty bucket.
LEMMA FirstEmptyFacts ==
  ASSUME IndexTyped, Ready, Cardinality(Filled) < index.bucketCount, NEW h \in Nat
  PROVE  /\ FirstEmpty(h) \in DOMAIN index.slot /\ FirstEmpty(h) \notin Filled
         /\ \E k \in Probes : /\ FirstEmpty(h) = Probe(h, k)
                              /\ \A j \in 0 .. k - 1 : Probe(h, j) \in Filled
<1> DEFINE S == {k \in Probes : Probe(h, k) \notin Filled}
           m == Min(S)
<1>0. index.bucketCount \in Nat  BY DEF IndexTyped
<1>1. S # {}  BY EmptyAhead
<1>2. S \in SUBSET Nat  BY <1>0 DEF Probes
<1>3. m \in S /\ \A y \in S : m <= y  BY <1>1, <1>2, MinOfSome
<1>4. FirstEmpty(h) = Probe(h, m)  BY DEF FirstEmpty
<1> HIDE DEF m
<1>5. m \in Probes /\ Probe(h, m) \notin Filled  BY <1>3
<1>6. Probe(h, m) \in DOMAIN index.slot  BY <1>5, ProbeInTable
<1>7. ASSUME NEW j \in 0 .. m - 1  PROVE Probe(h, j) \in Filled
  <2>1. j \in Probes /\ ~(m <= j)  BY <1>0, <1>5 DEF Probes
  <2> QED  BY <1>3, <2>1
<1> QED  BY <1>4, <1>5, <1>6, <1>7

\* FindBucket stops at the first bucket where it can.
LEMMA FindBucketFacts ==
  ASSUME IndexTyped, Ready, NEW o \in Obj, Stops(o) # {}
  PROVE  /\ FindBucket(o) \in DOMAIN index.slot
         /\ Found(o) <=> FindBucket(o) \in Filled
         /\ \E k \in Stops(o) : /\ k \in Probes /\ FindBucket(o) = Probe(HashOf[o], k)
                                /\ \A j \in 0 .. k - 1 : j \in Probes /\ j \notin Stops(o)
<1> DEFINE m == Min(Stops(o))
<1>0. index.bucketCount \in Nat  BY DEF IndexTyped
<1>1. HashOf[o] \in Nat  BY ObjectAssumption
<1>2. Stops(o) \in SUBSET Probes /\ Stops(o) \in SUBSET Nat  BY <1>0 DEF Stops, Probes
<1>3. m \in Stops(o) /\ \A y \in Stops(o) : m <= y  BY <1>2, MinOfSome
<1>4. FindBucket(o) = Probe(HashOf[o], m)  BY DEF FindBucket
<1> HIDE DEF m
<1>5. m \in Probes  BY <1>2, <1>3
<1>6. FindBucket(o) \in DOMAIN index.slot  BY <1>1, <1>4, <1>5, ProbeInTable
<1>7. Found(o) <=> FindBucket(o) \in Filled  BY <1>6 DEF Found, Filled
<1>8. ASSUME NEW j \in 0 .. m - 1  PROVE j \in Probes /\ j \notin Stops(o)
  <2>1. j \in Probes /\ ~(m <= j)  BY <1>0, <1>5 DEF Probes
  <2> QED  BY <1>3, <2>1
<1> QED  BY <1>3, <1>4, <1>5, <1>6, <1>7, <1>8

-----------------------------------------------------------------------------
(* Steps that have much in common.                                         *)

LEMMA NoCallTyped ==
  ASSUME call' = NoCall, ~InCall'
  PROVE  CallTyped'
<1>1. <<>> \in Seq(Entry)  OBVIOUS
<1> QED  BY <1>1 DEF CallTyped, NoCall

LEMMA NoBuildTyped ==
  ASSUME build' = NoBuild, pc' \notin BuildPcs
  PROVE  BuildTyped' /\ ToPlace' = {}
<1>1. NoSlots \in [{} -> SlotType] /\ DOMAIN NoSlots = {}  BY DEF NoSlots
<1>2. {} \in SUBSET Nat /\ IsFiniteSet({})  BY FS_EmptySet
<1>3. /\ build'.count = 0 /\ build'.resume = "idle" /\ build'.copy = NoSlots
      /\ build' = [count |-> build'.count, copy |-> build'.copy, resume |-> build'.resume]
  BY DEF NoBuild
<1>4. ToPlace' = {}  BY <1>1, <1>3 DEF ToPlace
<1> QED  BY <1>1, <1>2, <1>3, <1>4 DEF BuildTyped

\* CloseFiles leaves nothing of the session.
LEMMA ClosedStep ==
  ASSUME Closed, values' \in Seq(Cell)
  PROVE  CallTyped' /\ BuildTyped' /\ OffsetInv' /\ LayoutInv' /\ RoomInv'
<1>1. pc' = "closed" /\ appendOffset' = 0 /\ next' = 0 /\ call' = NoCall /\ build' = NoBuild
  BY DEF Closed, Reset
<1>2. ~InCall' /\ ~Resizing' /\ pc' \notin BuildPcs  BY <1>1 DEF InCall, Resizing, BuildPcs
<1>3. CallTyped' /\ BuildTyped'  BY <1>1, <1>2, NoCallTyped, NoBuildTyped
<1>4. OffsetInv'  BY <1>1, <1>2 DEF OffsetInv
<1>5. LayoutInv'  BY <1>1 DEF LayoutInv
<1>6. RoomInv'  BY <1>1 DEF RoomInv
<1> QED  BY <1>3, <1>4, <1>5, <1>6

LEMMA FlagsKept ==
  ASSUME FlagsTyped, 
         index'.header = index.header \/ index'.header = TRUE \/ index'.header = FALSE,
         call'.unique = call.unique \/ call'.unique = TRUE \/ call'.unique = FALSE,
         suspect' \in BOOLEAN
  PROVE  FlagsTyped'
<1>1. index'.header \in BOOLEAN  BY Zenon DEF FlagsTyped
<1>2. call'.unique \in BOOLEAN  BY Zenon DEF FlagsTyped
<1> QED  BY <1>1, <1>2, Zenon DEF FlagsTyped

\* The entry in hand.
LEMMA InHandFacts ==
  ASSUME StoreInv, InCall, call.entry <= Len(call.batch)
  PROVE  /\ call.entry \in 1 .. Len(call.batch) /\ InHand \in Entry
         /\ RecordSize(InHand) \in Nat /\ RecordSize(InHand) > 0
<1>1. call.batch \in Seq(Entry) /\ call.entry \in 1 .. Len(call.batch)
  BY DEF StoreInv, Typed, CallTyped
<1>2. InHand \in Entry  BY <1>1 DEF InHand
<1> QED  BY <1>1, <1>2, EntryFields

LEMMA UseIndexStep ==
  ASSUME StoreInv, UseIndex
  PROVE  StoreInv'
<1>1. /\ pc = "openIndex" /\ pc' = "idle" /\ UNCHANGED <<values, temp, index, appendOffset>>
      /\ UNCHANGED <<next, call, build, status, calls, crashes, acked, maybe, suspect>>
  BY DEF UseIndex, disk, locals, bounds, history
<1>2. ~InCall /\ ~InCall' /\ ~Resizing' /\ pc \notin BuildPcs /\ pc' \notin BuildPcs
  BY <1>1 DEF InCall, Resizing, BuildPcs
<1>3. FilesTyped' /\ HistoryTyped'  BY <1>1 DEF StoreInv, Typed, FilesTyped, HistoryTyped
<1>4. IndexTyped'  BY <1>1 DEF StoreInv, Typed, IndexTyped
<1>5. FlagsTyped'  BY <1>1, Zenon DEF StoreInv, Typed, FlagsTyped
<1>6. CallTyped'  BY <1>1, <1>2 DEF StoreInv, Typed, CallTyped
<1>7. BuildTyped'  BY <1>1, <1>2 DEF StoreInv, Typed, BuildTyped, ToPlace
<1>8. SessionTyped'  BY <1>1 DEF StoreInv, Typed, SessionTyped, PcLabels
<1>9. HeaderInv'  BY <1>1 DEF StoreInv, HeaderInv
<1>10. OffsetInv'  BY <1>1, <1>2 DEF StoreInv, OffsetInv
<1>11. LayoutInv'  BY <1>1 DEF UseIndex, LayoutInv, HasValidIndexLayout, Ready, Filled
<1>12. RoomInv'  BY <1>1 DEF RoomInv
<1> QED  BY <1>3, <1>4, <1>5, <1>6, <1>7, <1>8, <1>9, <1>10, <1>11, <1>12 DEF StoreInv, Typed

-----------------------------------------------------------------------------
(* Open.                                                                   *)

LEMMA ConcatCells ==
  ASSUME NEW u \in Seq(Cell), NEW t \in Seq(Cell)
  PROVE  /\ u \o t \in Seq(Cell) /\ Len(u \o t) = Len(u) + Len(t)
         /\ \A i \in 1 .. Len(u) : (u \o t)[i] = u[i]
         /\ \A i \in 1 .. Len(t) : (u \o t)[Len(u) + i] = t[i]
<1> DEFINE w == u \o t
<1>1. /\ w \in Seq(Cell) /\ Len(w) = Len(u) + Len(t)
      /\ \A i \in 1 .. Len(u) + Len(t) : w[i] = IF i <= Len(u) THEN u[i] ELSE t[i - Len(u)]
  BY ConcatProperties
<1>2. Len(u) \in Nat /\ Len(t) \in Nat  OBVIOUS
<1> HIDE DEF w
<1>3. \A i \in 1 .. Len(u) : w[i] = u[i]  BY <1>1, <1>2
<1>4. ASSUME NEW i \in 1 .. Len(t)  PROVE w[Len(u) + i] = t[i]
  <2>1. Len(u) + i \in 1 .. Len(u) + Len(t) /\ ~(Len(u) + i <= Len(u)) /\ Len(u) + i - Len(u) = i
    BY <1>2
  <2> QED  BY <1>1, <2>1
<1> QED  BY <1>1, <1>3, <1>4 DEF w

\* MigrateLegacyValueFile appends cells.
LEMMA CopyRecordCells ==
  ASSUME StoreInv, pc = "migrate", next < Len(values), CopyValid,
         temp' = temp \o <<[values[next + 1] EXCEPT !.at = 0]>>
                     \o SubSeq(values, next + 3, next + 2 + ValLenAt(next)),
         next' = next + 2 + ValLenAt(next)
  PROVE  /\ next' \in Nat /\ next' > 0 /\ temp' \in Seq(Cell)
         /\ temp' # <<>> /\ temp'[1] = temp[1]
         /\ ValLenAt(next) \in Nat
         /\ Len(temp') = Len(temp) + 1 + ValLenAt(next)
         /\ \A i \in 1 .. Len(temp) : temp'[i] = temp[i]
         /\ temp'[Len(temp) + 1] = [values[next + 1] EXCEPT !.at = 0]
         /\ \A i \in 1 .. ValLenAt(next) : temp'[Len(temp) + 1 + i] = values[next + 2 + i]
<1> DEFINE c == [values[next + 1] EXCEPT !.at = 0]
           v == ValLenAt(next)
           t == SubSeq(values, next + 3, next + 2 + v)
<1>1. values \in Seq(Cell) /\ temp \in Seq(Cell) /\ temp # <<>> /\ next \in Nat
  BY DEF StoreInv, Typed, FilesTyped, HeaderInv, OffsetInv
<1>2. next + 1 \in DOMAIN values /\ values[next + 1] \in Cell /\ values[next + 1].obj \in Obj
  BY <1>1 DEF CopyValid, IsValidLegacyRecordHeader, HeadAt
<1>3. values[next + 1] \in [obj : Obj, val : Val, at : {-2, -1} \cup Nat]
  BY <1>2, ObjectAssumption DEF Cell, FileHeader, LegacyHeader, Fragment
<1>4. c \in Cell  BY <1>3 DEF Cell
<1>5. v \in Nat  BY <1>3, ObjectAssumption DEF ValLenAt
<1>6. next + 2 + v <= Len(values)  BY DEF CopyValid
<1>7. temp' = temp \o <<c>> \o t /\ next' = next + 2 + v  OBVIOUS
<1> HIDE DEF c, v
<1>8. t \in Seq(Cell) /\ Len(t) = v /\ \A i \in 1 .. v : t[i] = values[next + 2 + i]
  <2>1. \A i \in next + 3 .. next + 2 + v : values[i] \in Cell  BY <1>1, <1>5, <1>6, LenProperties
  <2>2. /\ t \in Seq(Cell)
        /\ Len(t) = IF next + 3 <= next + 2 + v THEN (next + 2 + v) - (next + 3) + 1 ELSE 0
        /\ \A i \in 1 .. (next + 2 + v) - (next + 3) + 1 : t[i] = values[next + 3 + i - 1]
    <3>1. next + 3 \in Int /\ next + 2 + v \in Int  BY <1>1, <1>5
    <3> QED  BY ONLY <2>1, <3>1, SubSeqProperties DEF t
  <2> QED  BY <1>1, <1>5, <2>2
<1> HIDE DEF t
<1> DEFINE u == temp \o <<c>>
<1>9. /\ u \in Seq(Cell) /\ Len(u) = Len(temp) + 1 /\ u[Len(temp) + 1] = c
      /\ \A i \in 1 .. Len(temp) : u[i] = temp[i]
  BY <1>1, <1>4
<1>10. temp' = u \o t  BY <1>7
<1> HIDE DEF u
<1>11. /\ temp' \in Seq(Cell) /\ Len(temp') = Len(temp) + 1 + v
       /\ \A i \in 1 .. Len(u) : temp'[i] = u[i]
       /\ \A i \in 1 .. v : temp'[Len(u) + i] = t[i]
  <2>1. /\ u \o t \in Seq(Cell) /\ Len(u \o t) = Len(u) + Len(t)
        /\ \A i \in 1 .. Len(u) : (u \o t)[i] = u[i]
        /\ \A i \in 1 .. Len(t) : (u \o t)[Len(u) + i] = t[i]
    BY <1>8, <1>9, ConcatCells
  <2> QED  BY ONLY <1>8, <1>9, <1>10, <2>1
<1>12. Len(temp) \in Nat /\ Len(temp) > 0  BY <1>1
<1>13. \A i \in 1 .. Len(temp) : temp'[i] = temp[i]  BY <1>9, <1>11, <1>12
<1>14. temp'[Len(temp) + 1] = c  BY <1>9, <1>11, <1>12
<1>15. \A i \in 1 .. v : temp'[Len(temp) + 1 + i] = values[next + 2 + i]  BY <1>8, <1>9, <1>11
<1>16. temp' # <<>> /\ temp'[1] = temp[1]  BY <1>11, <1>12, <1>13, <1>5
<1>17. next' \in Nat /\ next' > 0  BY <1>1, <1>5, <1>7
<1> QED  BY <1>5, <1>11, <1>13, <1>14, <1>15, <1>16, <1>17 DEF c, v

LEMMA FlagsClosed ==
  ASSUME StoreInv, Closed, UNCHANGED <<index, suspect>>
  PROVE  FlagsTyped'
<1>1. call'.unique = FALSE  BY DEF Closed, Reset, NoCall
<1> QED  BY <1>1, Zenon DEF StoreInv, Typed, FlagsTyped

LEMMA OpenReadOnlyStep ==
  ASSUME StoreInv, OpenReadOnly
  PROVE  StoreInv'
<1>1. /\ pc = "closed" /\ UNCHANGED <<values, temp, index>>
      /\ UNCHANGED <<next, call, build, calls, crashes, acked, maybe, suspect>>
      /\ \/ /\ pc' = "readonly" /\ appendOffset' = Len(values) /\ status' = "OK"
            /\ values # <<>> /\ ~IsLegacy /\ HasValidIndexLayout
         \/ /\ UNCHANGED <<pc, appendOffset>>
            /\ status' \in {"IOError", "InvalidArgument", "Corruption"}
  BY DEF OpenReadOnly, disk, locals, bounds, history
<1>2. ~InCall /\ ~InCall' /\ ~Resizing' /\ pc \notin BuildPcs /\ pc' \notin BuildPcs
  BY <1>1 DEF InCall, Resizing, BuildPcs
<1>21. FilesTyped'  BY <1>1 DEF StoreInv, Typed, FilesTyped
<1>22. HistoryTyped'  BY <1>1 DEF StoreInv, Typed, HistoryTyped
<1>23. IndexTyped'  BY <1>1 DEF StoreInv, Typed, IndexTyped
<1>24. FlagsTyped'  BY <1>1, Zenon DEF StoreInv, Typed, FlagsTyped
<1>25. CallTyped'  BY <1>1, <1>2 DEF StoreInv, Typed, CallTyped
<1>26. BuildTyped'  BY <1>1, <1>2 DEF StoreInv, Typed, BuildTyped, ToPlace
<1>27. SessionTyped'  BY <1>1 DEF StoreInv, Typed, SessionTyped, PcLabels
<1>28. HeaderInv'  BY <1>1 DEF StoreInv, HeaderInv, IsLegacy
<1>29. OffsetInv'
  <2>1. Len(values) \in Nat /\ (values # <<>> => Len(values) > 0)
    BY DEF StoreInv, Typed, FilesTyped
  <2> QED  BY <1>1, <1>2, <2>1 DEF StoreInv, OffsetInv
<1>30. LayoutInv'  BY <1>1 DEF LayoutInv, HasValidIndexLayout, Ready, Filled
<1>31. RoomInv'  BY <1>1 DEF RoomInv
<1> QED
  BY <1>21, <1>22, <1>23, <1>24, <1>25, <1>26, <1>27, <1>28, <1>29, <1>30, <1>31
  DEF StoreInv, Typed

LEMMA OpenValueFileStep ==
  ASSUME StoreInv, OpenValueFile
  PROVE  StoreInv'
<1>1. /\ pc = "closed" /\ status' = "OK"
      /\ UNCHANGED <<index, call, build, calls, crashes, acked, maybe, suspect>>
      /\ \/ /\ IsLegacy /\ pc' = "migrate" /\ temp' = <<FileHeader>> /\ next' = 1
            /\ UNCHANGED <<values, appendOffset>>
         \/ /\ ~IsLegacy /\ pc' = "openIndex"
            /\ values' = IF values = <<>> THEN <<FileHeader>> ELSE values
            /\ appendOffset' = Len(values') /\ UNCHANGED <<temp, next>>
  BY DEF OpenValueFile, EndOf, bounds, history
<1>2. ~InCall /\ ~InCall' /\ ~Resizing' /\ pc \notin BuildPcs /\ pc' \notin BuildPcs
  BY <1>1 DEF InCall, Resizing, BuildPcs
<1>3. /\ <<FileHeader>> \in Seq(Cell) /\ Len(<<FileHeader>>) = 1 /\ <<FileHeader>>[1] = FileHeader
      /\ values' \in Seq(Cell) /\ (values' = <<>> => values = <<>> /\ IsLegacy)
      /\ temp' \in Seq(Cell)
  <2> DEFINE h == <<FileHeader>>
  <2>1. h \in Seq(Cell) /\ Len(h) = 1 /\ h[1] = FileHeader  BY MarksTyped
  <2>2. h # <<>>  OBVIOUS
  <2>3. CASE temp' = h /\ values' = values /\ IsLegacy
    BY <2>1, <2>3 DEF StoreInv, Typed, FilesTyped
  <2>4. CASE temp' = temp /\ values' = IF values = <<>> THEN h ELSE values
    <3> HIDE DEF h
    <3> QED  BY <2>1, <2>2, <2>4 DEF StoreInv, Typed, FilesTyped, h
  <2> QED  BY <1>1, <2>3, <2>4
<1>21. FilesTyped'  BY <1>1, <1>3 DEF FilesTyped
<1>22. HistoryTyped'  BY <1>1 DEF StoreInv, Typed, HistoryTyped
<1>23. IndexTyped'  BY <1>1 DEF StoreInv, Typed, IndexTyped
<1>24. FlagsTyped'  BY <1>1, Zenon DEF StoreInv, Typed, FlagsTyped
<1>25. CallTyped'  BY <1>1, <1>2 DEF StoreInv, Typed, CallTyped
<1>26. BuildTyped'  BY <1>1, <1>2 DEF StoreInv, Typed, BuildTyped, ToPlace
<1>27. SessionTyped'  BY <1>1 DEF StoreInv, Typed, SessionTyped, PcLabels
<1>28. HeaderInv'  BY <1>1, <1>3 DEF StoreInv, HeaderInv, IsLegacy
<1>29. OffsetInv'  BY <1>1, <1>2, <1>3 DEF StoreInv, OffsetInv
<1>30. LayoutInv'  BY <1>1 DEF LayoutInv
<1>31. RoomInv'  BY <1>1 DEF RoomInv
<1> QED
  BY <1>21, <1>22, <1>23, <1>24, <1>25, <1>26, <1>27, <1>28, <1>29, <1>30, <1>31
  DEF StoreInv, Typed

LEMMA CopyRecordStep ==
  ASSUME StoreInv, CopyRecord
  PROVE  StoreInv'
<1>1. /\ pc = "migrate" /\ pc' = "migrate" /\ next < Len(values) /\ CopyValid
      /\ UNCHANGED <<values, index, appendOffset, call, build, status, calls, crashes>>
      /\ UNCHANGED <<acked, maybe, suspect>>
      /\ temp' = temp \o <<[values[next + 1] EXCEPT !.at = 0]>>
                     \o SubSeq(values, next + 3, next + 2 + ValLenAt(next))
      /\ next' = next + 2 + ValLenAt(next)
  BY DEF CopyRecord, bounds, history
<1>2. ~InCall /\ ~InCall' /\ ~Resizing' /\ pc \notin BuildPcs /\ pc' \notin BuildPcs
  BY <1>1 DEF InCall, Resizing, BuildPcs
<1>3. /\ next' \in Nat /\ next' > 0 /\ temp' \in Seq(Cell)
      /\ temp' # <<>> /\ temp'[1] = temp[1]
  BY <1>1, CopyRecordCells DEF StoreInv
<1>21. FilesTyped'  BY <1>1, <1>3 DEF StoreInv, Typed, FilesTyped
<1>22. HistoryTyped'  BY <1>1 DEF StoreInv, Typed, HistoryTyped
<1>23. IndexTyped'  BY <1>1 DEF StoreInv, Typed, IndexTyped
<1>24. FlagsTyped'  BY <1>1, Zenon DEF StoreInv, Typed, FlagsTyped
<1>25. CallTyped'  BY <1>1, <1>2 DEF StoreInv, Typed, CallTyped
<1>26. BuildTyped'  BY <1>1, <1>2 DEF StoreInv, Typed, BuildTyped, ToPlace
<1>27. SessionTyped'  BY <1>1 DEF StoreInv, Typed, SessionTyped, PcLabels
<1>28. HeaderInv'  BY <1>1, <1>3 DEF StoreInv, HeaderInv, IsLegacy
<1>29. OffsetInv'  BY <1>1, <1>2, <1>3 DEF StoreInv, OffsetInv
<1>30. LayoutInv'  BY <1>1 DEF LayoutInv
<1>31. RoomInv'  BY <1>1 DEF RoomInv
<1> QED
  BY <1>21, <1>22, <1>23, <1>24, <1>25, <1>26, <1>27, <1>28, <1>29, <1>30, <1>31
  DEF StoreInv, Typed

LEMMA CopyFailsStep ==
  ASSUME StoreInv, CopyFails
  PROVE  StoreInv'
<1>1. /\ pc = "migrate" /\ Closed /\ pc' = "closed" /\ status' \in {"Corruption", "IOError"}
      /\ UNCHANGED <<values, temp, index, calls, crashes, acked, maybe, suspect>>
  BY DEF CopyFails, Closed, disk, bounds, history
<1>2. CallTyped' /\ BuildTyped' /\ OffsetInv' /\ LayoutInv' /\ RoomInv'
  BY <1>1, ClosedStep DEF StoreInv, Typed, FilesTyped
<1>21. FilesTyped'  BY <1>1 DEF StoreInv, Typed, FilesTyped
<1>22. HistoryTyped'  BY <1>1 DEF StoreInv, Typed, HistoryTyped
<1>23. IndexTyped'  BY <1>1 DEF StoreInv, Typed, IndexTyped
<1>24. FlagsTyped'  BY <1>1, FlagsClosed
<1>25. CallTyped'  BY <1>2
<1>26. BuildTyped'  BY <1>2
<1>27. SessionTyped'  BY <1>1 DEF StoreInv, Typed, SessionTyped, PcLabels
<1>28. HeaderInv'  BY <1>1 DEF StoreInv, HeaderInv
<1>29. OffsetInv'  BY <1>2
<1>30. LayoutInv'  BY <1>2
<1>31. RoomInv'  BY <1>2
<1> QED
  BY <1>21, <1>22, <1>23, <1>24, <1>25, <1>26, <1>27, <1>28, <1>29, <1>30, <1>31
  DEF StoreInv, Typed

LEMMA RenameMigratedStep ==
  ASSUME StoreInv, RenameMigrated
  PROVE  StoreInv'
<1>1. /\ pc = "migrate" /\ pc' = "removeIndex" /\ values' = temp /\ temp' = <<>> /\ next' = 0
      /\ UNCHANGED <<index, appendOffset, call, build, status, calls, crashes>>
      /\ UNCHANGED <<acked, maybe, suspect>>
  BY DEF RenameMigrated, bounds, history
<1>2. ~InCall /\ ~InCall' /\ ~Resizing' /\ pc \notin BuildPcs /\ pc' \notin BuildPcs
  BY <1>1 DEF InCall, Resizing, BuildPcs
<1>21. FilesTyped'  BY <1>1 DEF StoreInv, Typed, FilesTyped
<1>22. HistoryTyped'  BY <1>1 DEF StoreInv, Typed, HistoryTyped
<1>23. IndexTyped'  BY <1>1 DEF StoreInv, Typed, IndexTyped
<1>24. FlagsTyped'  BY <1>1, Zenon DEF StoreInv, Typed, FlagsTyped
<1>25. CallTyped'  BY <1>1, <1>2 DEF StoreInv, Typed, CallTyped
<1>26. BuildTyped'  BY <1>1, <1>2 DEF StoreInv, Typed, BuildTyped, ToPlace
<1>27. SessionTyped'  BY <1>1 DEF StoreInv, Typed, SessionTyped, PcLabels
<1>28. HeaderInv'  BY <1>1 DEF StoreInv, HeaderInv
<1>29. OffsetInv'
  <2>1. Len(values') \in Nat  BY <1>1 DEF StoreInv, Typed, FilesTyped
  <2> QED  BY <1>1, <1>2, <2>1 DEF StoreInv, OffsetInv
<1>30. LayoutInv'  BY <1>1 DEF LayoutInv
<1>31. RoomInv'  BY <1>1 DEF RoomInv
<1> QED
  BY <1>21, <1>22, <1>23, <1>24, <1>25, <1>26, <1>27, <1>28, <1>29, <1>30, <1>31
  DEF StoreInv, Typed

LEMMA RemoveStaleIndexStep ==
  ASSUME StoreInv, RemoveStaleIndex
  PROVE  StoreInv'
<1>1. /\ pc = "removeIndex" /\ pc' = "openIndex" /\ index' = NoIndex /\ appendOffset' = Len(values)
      /\ UNCHANGED <<values, temp, next, call, build, status, calls, crashes>>
      /\ UNCHANGED <<acked, maybe, suspect>>
  BY DEF RemoveStaleIndex, locals, bounds, history
<1>2. ~InCall /\ ~InCall' /\ ~Resizing' /\ pc \notin BuildPcs /\ pc' \notin BuildPcs
  BY <1>1 DEF InCall, Resizing, BuildPcs
<1>21. FilesTyped'  BY <1>1 DEF StoreInv, Typed, FilesTyped
<1>22. HistoryTyped'  BY <1>1 DEF StoreInv, Typed, HistoryTyped
<1>23. IndexTyped'  BY <1>1, IndexRemoved
<1>24. FlagsTyped'
  <2>1. index'.header = FALSE  BY <1>1, IndexRemoved
  <2> QED  BY <1>1, <2>1, Zenon DEF StoreInv, Typed, FlagsTyped
<1>25. CallTyped'  BY <1>1, <1>2 DEF StoreInv, Typed, CallTyped
<1>26. BuildTyped'  BY <1>1, <1>2 DEF StoreInv, Typed, BuildTyped, ToPlace
<1>27. SessionTyped'  BY <1>1 DEF StoreInv, Typed, SessionTyped, PcLabels
<1>28. HeaderInv'  BY <1>1 DEF StoreInv, HeaderInv
<1>29. OffsetInv'
  <2>1. Len(values) \in Nat /\ Len(values) > 0
    BY <1>1 DEF StoreInv, Typed, FilesTyped, HeaderInv
  <2> QED  BY <1>1, <1>2, <2>1 DEF StoreInv, OffsetInv
<1>30. LayoutInv'  BY <1>1 DEF LayoutInv
<1>31. RoomInv'  BY <1>1 DEF RoomInv
<1> QED
  BY <1>21, <1>22, <1>23, <1>24, <1>25, <1>26, <1>27, <1>28, <1>29, <1>30, <1>31
  DEF StoreInv, Typed

LEMMA DeleteIndexStep ==
  ASSUME StoreInv, DeleteIndex
  PROVE  StoreInv'
<1>1. /\ pc = "closed" /\ pc' = "closed" /\ index' = NoIndex
      /\ UNCHANGED <<values, temp, appendOffset, next, call, build, status, calls, crashes>>
      /\ UNCHANGED <<acked, maybe, suspect>>
  BY DEF DeleteIndex, locals, bounds, history
<1>2. ~InCall /\ ~InCall' /\ ~Resizing' /\ pc \notin BuildPcs /\ pc' \notin BuildPcs
  BY <1>1 DEF InCall, Resizing, BuildPcs
<1>21. FilesTyped'  BY <1>1 DEF StoreInv, Typed, FilesTyped
<1>22. HistoryTyped'  BY <1>1 DEF StoreInv, Typed, HistoryTyped
<1>23. IndexTyped'  BY <1>1, IndexRemoved
<1>24. FlagsTyped'
  <2>1. index'.header = FALSE  BY <1>1, IndexRemoved
  <2> QED  BY <1>1, <2>1, Zenon DEF StoreInv, Typed, FlagsTyped
<1>25. CallTyped'  BY <1>1, <1>2 DEF StoreInv, Typed, CallTyped
<1>26. BuildTyped'  BY <1>1, <1>2 DEF StoreInv, Typed, BuildTyped, ToPlace
<1>27. SessionTyped'  BY <1>1 DEF StoreInv, Typed, SessionTyped, PcLabels
<1>28. HeaderInv'  BY <1>1 DEF StoreInv, HeaderInv
<1>29. OffsetInv'  BY <1>1, <1>2 DEF StoreInv, OffsetInv
<1>30. LayoutInv'  BY <1>1 DEF LayoutInv
<1>31. RoomInv'  BY <1>1 DEF RoomInv
<1> QED
  BY <1>21, <1>22, <1>23, <1>24, <1>25, <1>26, <1>27, <1>28, <1>29, <1>30, <1>31
  DEF StoreInv, Typed

-----------------------------------------------------------------------------
(* Building the index.                                                     *)

LEMMA InitialBuckets == InitialBucketCount \in Nat /\ InitialBucketCount > 0
BY ObjectAssumption

LEMMA WithinNone ==
  ASSUME NEW n \in Nat
  PROVE  Within(0, n)
<1>1. LoadNum \in Nat /\ LoadDen \in Nat  BY ObjectAssumption
<1>2. LoadNum * n \in Nat  BY <1>1
<1> QED  BY <1>1, <1>2 DEF Within

\* ResizeIndex keeps the filled buckets.
LEMMA ResizeStarted ==
  ASSUME IndexTyped, Ready, NEW label \in {"scan", "append"}, StartResize(label)
  PROVE  /\ BuildTyped' /\ build'.resume = label /\ ToPlace' = Filled
         /\ pc' = "double" /\ build'.count = 2 * index.bucketCount
         /\ \A b \in Filled : build'.copy[b] = index.slot[b]
<1> DEFINE c == Restrict(index.slot, Filled)
           n == 2 * index.bucketCount
<1>1. /\ index.slot \in [DOMAIN index.slot -> SlotType] /\ Filled \in SUBSET DOMAIN index.slot
      /\ Filled \in SUBSET Nat /\ IsFiniteSet(Filled)
  BY IndexShape
<1>2. c = [b \in Filled |-> index.slot[b]]  BY DEF Restrict
<1>3. c \in [Filled -> SlotType] /\ \A b \in Filled : c[b] = index.slot[b]  BY <1>1, <1>2
<1>4. \A b \in Filled : index.slot[b].hash # 0  BY DEF Filled
<1>5. n \in Nat /\ n > 0  BY DEF IndexTyped, Ready
<1>6. build' = [count |-> n, copy |-> c, resume |-> label] /\ pc' = "double"  BY DEF StartResize
<1> HIDE DEF c, n
<1>7. build'.count = n /\ build'.copy = c /\ build'.resume = label  BY <1>6
<1>8. ToPlace' = Filled  BY <1>3, <1>7 DEF ToPlace
<1>9. BuildTyped'
  <2>1. build' = [count |-> build'.count, copy |-> build'.copy, resume |-> build'.resume]
    BY <1>6, <1>7
  <2>2. build'.copy \in [ToPlace' -> SlotType] /\ \A b \in ToPlace' : build'.copy[b].hash # 0
    BY <1>3, <1>4, <1>7, <1>8
  <2> QED  BY <1>1, <1>5, <1>6, <1>7, <1>8, <2>1, <2>2 DEF BuildTyped, BuildPcs
<1> QED  BY <1>3, <1>6, <1>7, <1>8, <1>9 DEF n

LEMMA StartRebuildStep ==
  ASSUME StoreInv, StartRebuild
  PROVE  StoreInv'
<1>1. /\ pc = "openIndex" /\ pc' = "truncate"
      /\ build' = [NoBuild EXCEPT !.count = InitialBucketCount, !.resume = "scan"]
      /\ UNCHANGED <<values, temp, index, appendOffset, next, call, status, calls, crashes>>
      /\ UNCHANGED <<acked, maybe, suspect>>
  BY DEF StartRebuild, disk, bounds, history
<1>2. /\ build'.count = InitialBucketCount /\ build'.resume = "scan" /\ build'.copy = NoSlots
      /\ build' = [count |-> build'.count, copy |-> build'.copy, resume |-> build'.resume]
  BY <1>1 DEF NoBuild
<1>3. ~InCall /\ ~InCall' /\ ~Resizing' /\ pc' \in BuildPcs
  BY <1>1, <1>2 DEF InCall, Resizing, BuildPcs
<1>4. NoSlots \in [{} -> SlotType] /\ DOMAIN NoSlots = {} /\ IsFiniteSet({}) /\ Cardinality({}) = 0
  BY FS_EmptySet DEF NoSlots
<1>5. ToPlace' = {}  BY <1>2, <1>4 DEF ToPlace
<1>21. FilesTyped'  BY <1>1 DEF StoreInv, Typed, FilesTyped
<1>22. HistoryTyped'  BY <1>1 DEF StoreInv, Typed, HistoryTyped
<1>23. IndexTyped'  BY <1>1 DEF StoreInv, Typed, IndexTyped
<1>24. FlagsTyped'  BY <1>1, Zenon DEF StoreInv, Typed, FlagsTyped
<1>25. CallTyped'  BY <1>1, <1>3 DEF StoreInv, Typed, CallTyped
<1>26. BuildTyped'  BY <1>2, <1>4, <1>5, InitialBuckets DEF BuildTyped
<1>27. SessionTyped'  BY <1>1 DEF StoreInv, Typed, SessionTyped, PcLabels
<1>28. HeaderInv'  BY <1>1 DEF StoreInv, HeaderInv
<1>29. OffsetInv'  BY <1>1, <1>3 DEF StoreInv, OffsetInv
<1>30. LayoutInv'  BY <1>1 DEF LayoutInv
<1>31. RoomInv'
  <2>1. Asked' = 0  BY <1>2 DEF Asked
  <2>2. Within(0, InitialBucketCount)  BY WithinNone, InitialBuckets
  <2>3. Within(Cardinality(ToPlace') + Asked', build'.count)  BY <1>2, <1>4, <1>5, <2>1, <2>2
  <2> QED  BY <1>1, <2>3 DEF RoomInv
<1> QED
  BY <1>21, <1>22, <1>23, <1>24, <1>25, <1>26, <1>27, <1>28, <1>29, <1>30, <1>31
  DEF StoreInv, Typed

LEMMA TruncateStep ==
  ASSUME StoreInv, Truncate
  PROVE  StoreInv'
<1>1. /\ pc = "truncate" /\ pc' = "zero" /\ index' = Truncated
      /\ UNCHANGED <<values, temp, appendOffset, call, status, calls, crashes, acked, maybe>>
      /\ UNCHANGED <<next, build, suspect>>
  BY DEF Truncate, BuildIndex, bounds
<1>2. /\ pc \in BuildPcs /\ pc' \in BuildPcs /\ pc # "store" /\ pc' # "store"
      /\ InCall' = InCall /\ Resizing' = Resizing
  BY <1>1 DEF InCall, Resizing, BuildPcs
<1>3. /\ IndexTyped' /\ index'.header = index.header
      /\ DOMAIN index'.slot = 0 .. build.count - 1
  BY <1>1, SlotsTruncated DEF StoreInv, Typed, BuildTyped
<1>21. FilesTyped'  BY <1>1 DEF StoreInv, Typed, FilesTyped
<1>22. HistoryTyped'  BY <1>1 DEF StoreInv, Typed, HistoryTyped
<1>23. IndexTyped'  BY <1>3
<1>24. FlagsTyped'
  <2>1. suspect \in BOOLEAN  BY DEF StoreInv, Typed, FlagsTyped
  <2> QED  BY <1>1, <1>3, <2>1, FlagsKept DEF StoreInv, Typed
<1>25. CallTyped'  BY <1>1, <1>2 DEF StoreInv, Typed, CallTyped
<1>26. BuildTyped'  BY <1>1, <1>2 DEF StoreInv, Typed, BuildTyped, ToPlace
<1>27. SessionTyped'  BY <1>1 DEF StoreInv, Typed, SessionTyped, PcLabels
<1>28. HeaderInv'  BY <1>1 DEF StoreInv, HeaderInv
<1>29. OffsetInv'  BY <1>1, <1>2 DEF StoreInv, OffsetInv
<1>30. LayoutInv'  BY <1>1, <1>3 DEF LayoutInv
<1>31. RoomInv'  BY <1>1 DEF StoreInv, RoomInv, ToPlace, Asked
<1> QED
  BY <1>21, <1>22, <1>23, <1>24, <1>25, <1>26, <1>27, <1>28, <1>29, <1>30, <1>31
  DEF StoreInv, Typed

LEMMA ZeroStep ==
  ASSUME StoreInv, Zero
  PROVE  StoreInv'
<1>1. /\ pc = "zero" /\ pc' = "header" /\ index' = [NoIndex EXCEPT !.slot = [b \in 0 .. build.count - 1 |-> EmptySlot]]
      /\ UNCHANGED <<values, temp, appendOffset, call, status, calls, crashes, acked, maybe>>
      /\ UNCHANGED <<next, build>>
  BY DEF Zero, BuildIndex, bounds
<1>2. /\ pc \in BuildPcs /\ pc' \in BuildPcs /\ pc # "store" /\ pc' # "store"
      /\ InCall' = InCall /\ Resizing' = Resizing
  BY <1>1 DEF InCall, Resizing, BuildPcs
<1>3. /\ IndexTyped' /\ index'.header = FALSE /\ index'.itemCount = 0
      /\ index'.slot = [b \in 0 .. build.count - 1 |-> EmptySlot]
  BY <1>1, SlotsZeroed DEF StoreInv, Typed, BuildTyped
<1>21. FilesTyped'  BY <1>1 DEF StoreInv, Typed, FilesTyped
<1>22. HistoryTyped'  BY <1>1 DEF StoreInv, Typed, HistoryTyped
<1>23. IndexTyped'  BY <1>3
<1>24. FlagsTyped'
  <2>1. suspect' \in BOOLEAN  BY Zenon DEF Zero, StoreInv, Typed, FlagsTyped
  <2> QED  BY <1>1, <1>3, <2>1, FlagsKept DEF StoreInv, Typed
<1>25. CallTyped'  BY <1>1, <1>2 DEF StoreInv, Typed, CallTyped
<1>26. BuildTyped'  BY <1>1, <1>2 DEF StoreInv, Typed, BuildTyped, ToPlace
<1>27. SessionTyped'  BY <1>1 DEF StoreInv, Typed, SessionTyped, PcLabels
<1>28. HeaderInv'  BY <1>1 DEF StoreInv, HeaderInv
<1>29. OffsetInv'  BY <1>1, <1>2 DEF StoreInv, OffsetInv
<1>30. LayoutInv'  BY <1>1, <1>3 DEF LayoutInv
<1>31. RoomInv'  BY <1>1 DEF StoreInv, RoomInv, ToPlace, Asked
<1> QED
  BY <1>21, <1>22, <1>23, <1>24, <1>25, <1>26, <1>27, <1>28, <1>29, <1>30, <1>31
  DEF StoreInv, Typed

LEMMA StoreHeaderStep ==
  ASSUME StoreInv, StoreHeader
  PROVE  StoreInv'
<1>1. /\ pc = "header" /\ pc' = "place" /\ index' = [index EXCEPT !.header = TRUE, !.bucketCount = build.count]
      /\ UNCHANGED <<values, temp, appendOffset, call, status, calls, crashes, acked, maybe>>
      /\ UNCHANGED <<next, build, suspect>>
  BY DEF StoreHeader, BuildIndex, bounds
<1>2. /\ pc \in BuildPcs /\ pc' \in BuildPcs /\ pc # "store" /\ pc' # "store"
      /\ InCall' = InCall /\ Resizing' = Resizing
  BY <1>1 DEF InCall, Resizing, BuildPcs
<1>3. /\ IndexTyped' /\ index'.header = TRUE /\ index'.bucketCount = build.count
      /\ index'.itemCount = index.itemCount /\ index'.slot = index.slot /\ Filled' = Filled
  BY <1>1, HeaderStored DEF StoreInv, Typed, BuildTyped
<1>21. FilesTyped'  BY <1>1 DEF StoreInv, Typed, FilesTyped
<1>22. HistoryTyped'  BY <1>1 DEF StoreInv, Typed, HistoryTyped
<1>23. IndexTyped'  BY <1>3
<1>24. FlagsTyped'
  <2>1. suspect \in BOOLEAN  BY DEF StoreInv, Typed, FlagsTyped
  <2> QED  BY <1>1, <1>3, <2>1, FlagsKept DEF StoreInv, Typed
<1>25. CallTyped'  BY <1>1, <1>2 DEF StoreInv, Typed, CallTyped
<1>26. BuildTyped'  BY <1>1, <1>2 DEF StoreInv, Typed, BuildTyped, ToPlace
<1>27. SessionTyped'  BY <1>1 DEF StoreInv, Typed, SessionTyped, PcLabels
<1>28. HeaderInv'  BY <1>1 DEF StoreInv, HeaderInv
<1>29. OffsetInv'  BY <1>1, <1>2 DEF StoreInv, OffsetInv
<1>30. LayoutInv'
  <2>1. build.count > 0 /\ index.slot = [b \in 0 .. build.count - 1 |-> EmptySlot]
    BY <1>1, <1>2 DEF StoreInv, Typed, BuildTyped, LayoutInv
  <2>2. DOMAIN index.slot = 0 .. build.count - 1  BY <2>1
  <2>3. Filled = {}  BY <2>1, <2>2, EmptySlotTyped DEF Filled
  <2>4. Cardinality(Filled') = 0  BY <1>3, <2>3, FS_EmptySet
  <2>5. Ready'  BY <1>1, <1>3, <2>1, <2>2 DEF Ready
  <2>6. index'.itemCount = 0  BY <1>1, <1>3 DEF StoreInv, LayoutInv
  <2> QED  BY <1>1, <1>3, <2>4, <2>5, <2>6 DEF LayoutInv
<1>31. RoomInv'
  <2>1. index'.itemCount = 0  BY <1>1, <1>3 DEF StoreInv, LayoutInv
  <2>2. Asked' = Asked /\ ToPlace' = ToPlace /\ Asked \in Nat /\ Cardinality(ToPlace) \in Nat
    BY <1>1, FS_CardinalityType DEF Asked, ToPlace, StoreInv, Typed, BuildTyped, CallTyped
  <2>3. 0 + Cardinality(ToPlace) + Asked = Cardinality(ToPlace) + Asked  BY <2>2
  <2>4. Within(Cardinality(ToPlace) + Asked, build.count)  BY <1>1 DEF StoreInv, RoomInv
  <2> QED  BY <1>1, <2>1, <2>2, <2>3, <2>4 DEF RoomInv
<1> QED
  BY <1>21, <1>22, <1>23, <1>24, <1>25, <1>26, <1>27, <1>28, <1>29, <1>30, <1>31
  DEF StoreInv, Typed

\* The load factor leaves a bucket for what PlaceExistingBucket has in hand.
LEMMA PlaceFacts ==
  ASSUME StoreInv, pc = "place", ToPlace # {}
  PROVE  LET s == build.copy[Min(ToPlace)]  b == FirstEmpty(s.hash) IN
         /\ Min(ToPlace) \in ToPlace /\ s \in SlotType /\ s.hash \in Nat /\ s.hash # 0
         /\ IndexTyped /\ Ready /\ Cardinality(Filled) < index.bucketCount
         /\ b \in DOMAIN index.slot /\ b \notin Filled
<1> DEFINE s == build.copy[Min(ToPlace)]
<1>1. /\ ToPlace \in SUBSET Nat /\ IsFiniteSet(ToPlace) /\ build.copy \in [ToPlace -> SlotType]
      /\ build.count \in Nat /\ build.count > 0 /\ \A b \in ToPlace : build.copy[b].hash # 0
  BY DEF StoreInv, Typed, BuildTyped, BuildPcs
<1>2. Min(ToPlace) \in ToPlace  BY <1>1, MinOfSome
<1>3. s \in SlotType /\ s.hash # 0  BY <1>1, <1>2
<1>4. s.hash \in Nat  BY <1>3 DEF SlotType
<1>5. /\ IndexTyped /\ Ready /\ Cardinality(Filled) = index.itemCount
      /\ index.bucketCount = build.count /\ index.itemCount \in Nat
  BY DEF StoreInv, Typed, LayoutInv, IndexTyped
<1>6. Cardinality(ToPlace) \in Nat /\ Asked \in Nat
  BY <1>1, FS_CardinalityType DEF Asked, StoreInv, Typed, CallTyped
<1>7. Within(index.itemCount + Cardinality(ToPlace) + Asked, build.count)  BY DEF StoreInv, RoomInv
<1>8. index.itemCount + Cardinality(ToPlace) + Asked < build.count
  BY <1>1, <1>2, <1>5, <1>6, <1>7, WithinRoom
<1>9. Cardinality(Filled) < index.bucketCount  BY <1>1, <1>5, <1>6, <1>8
<1>10. FirstEmpty(s.hash) \in DOMAIN index.slot /\ FirstEmpty(s.hash) \notin Filled
  BY <1>4, <1>5, <1>9, FirstEmptyFacts
<1> QED  BY <1>2, <1>3, <1>4, <1>5, <1>9, <1>10

\* A placed bucket is not placed again.
LEMMA PlacedTaken ==
  ASSUME BuildTyped, ToPlace # {},
         build' = [build EXCEPT !.copy = Restrict(@, ToPlace \ {Min(ToPlace)})]
  PROVE  /\ build' = [count |-> build'.count, copy |-> build'.copy, resume |-> build'.resume]
         /\ build'.count = build.count /\ build'.resume = build.resume
         /\ ToPlace' = ToPlace \ {Min(ToPlace)} /\ build'.copy \in [ToPlace' -> SlotType]
         /\ \A b \in ToPlace' : build'.copy[b] = build.copy[b]
         /\ Cardinality(ToPlace') = Cardinality(ToPlace) - 1 /\ IsFiniteSet(ToPlace')
         /\ Min(ToPlace) \in ToPlace
<1> DEFINE S == ToPlace \ {Min(ToPlace)}
           c == Restrict(build.copy, S)
<1>1. /\ build = [count |-> build.count, copy |-> build.copy, resume |-> build.resume]
      /\ build.copy \in [ToPlace -> SlotType] /\ ToPlace \in SUBSET Nat /\ IsFiniteSet(ToPlace)
  BY DEF BuildTyped
<1>2. build' = [count |-> build.count, copy |-> c, resume |-> build.resume]
  BY ONLY <1>1, build' = [build EXCEPT !.copy = Restrict(@, ToPlace \ {Min(ToPlace)})]
<1>3. c = [b \in S |-> build.copy[b]]  BY DEF Restrict
<1>4. c \in [S -> SlotType] /\ DOMAIN c = S /\ \A b \in S : c[b] = build.copy[b]  BY <1>1, <1>3
<1> HIDE DEF c
<1>5. build'.count = build.count /\ build'.copy = c /\ build'.resume = build.resume  BY <1>2
<1>6. ToPlace' = S  BY <1>4, <1>5 DEF ToPlace
<1>7. Min(ToPlace) \in ToPlace  BY <1>1, MinOfSome
<1>8. Cardinality(S) = Cardinality(ToPlace) - 1 /\ IsFiniteSet(S)
  BY <1>1, <1>7, FS_RemoveElement
<1> QED  BY <1>2, <1>4, <1>5, <1>6, <1>7, <1>8

LEMMA PlaceExistingBucketStep ==
  ASSUME StoreInv, PlaceExistingBucket
  PROVE  StoreInv'
<1>1. /\ pc = "place" /\ pc' = "placeCount" /\ ToPlace # {}
      /\ index' = [index EXCEPT !.slot[FirstEmpty(build.copy[Min(ToPlace)].hash)] =
                     build.copy[Min(ToPlace)]]
      /\ UNCHANGED <<values, temp, appendOffset, call, status, calls, crashes, acked, maybe>>
      /\ UNCHANGED <<next, build, suspect>>
  BY DEF PlaceExistingBucket, BuildIndex, bounds
<1>2. /\ pc \in BuildPcs /\ pc' \in BuildPcs /\ pc # "store" /\ pc' # "store"
      /\ InCall' = InCall /\ Resizing' = Resizing
  BY <1>1 DEF InCall, Resizing, BuildPcs
<1>3. /\ IndexTyped' /\ index'.header = index.header /\ index'.bucketCount = index.bucketCount
      /\ index'.itemCount = index.itemCount /\ DOMAIN index'.slot = DOMAIN index.slot
      /\ Cardinality(Filled') = Cardinality(Filled) + 1
  BY <1>1, PlaceFacts, SlotStored
<1>21. FilesTyped'  BY <1>1 DEF StoreInv, Typed, FilesTyped
<1>22. HistoryTyped'  BY <1>1 DEF StoreInv, Typed, HistoryTyped
<1>23. IndexTyped'  BY <1>3
<1>24. FlagsTyped'
  <2>1. suspect \in BOOLEAN  BY DEF StoreInv, Typed, FlagsTyped
  <2> QED  BY <1>1, <1>3, <2>1, FlagsKept DEF StoreInv, Typed
<1>25. CallTyped'  BY <1>1, <1>2 DEF StoreInv, Typed, CallTyped
<1>26. BuildTyped'  BY <1>1, <1>2 DEF StoreInv, Typed, BuildTyped, ToPlace
<1>27. SessionTyped'  BY <1>1 DEF StoreInv, Typed, SessionTyped, PcLabels
<1>28. HeaderInv'  BY <1>1 DEF StoreInv, HeaderInv
<1>29. OffsetInv'  BY <1>1, <1>2 DEF StoreInv, OffsetInv
<1>30. LayoutInv'
  <2>1. Ready /\ Cardinality(Filled) = index.itemCount /\ index.bucketCount = build.count
    BY <1>1 DEF StoreInv, LayoutInv
  <2>2. Ready'  BY <1>3, <2>1 DEF Ready
  <2> QED  BY <1>1, <1>3, <2>1, <2>2 DEF LayoutInv, ToPlace
<1>31. RoomInv'  BY <1>1, <1>3 DEF StoreInv, RoomInv, ToPlace, Asked
<1> QED
  BY <1>21, <1>22, <1>23, <1>24, <1>25, <1>26, <1>27, <1>28, <1>29, <1>30, <1>31
  DEF StoreInv, Typed

LEMMA CountPlacedStep ==
  ASSUME StoreInv, CountPlaced
  PROVE  StoreInv'
<1>1. /\ pc = "placeCount" /\ pc' = "place" /\ index' = [index EXCEPT !.itemCount = @ + 1]
      /\ build' = [build EXCEPT !.copy = Restrict(@, ToPlace \ {Min(ToPlace)})]
      /\ UNCHANGED <<values, temp, appendOffset, call, status, calls, crashes, acked, maybe>>
      /\ UNCHANGED <<next, suspect>>
  BY DEF CountPlaced, BuildIndex, bounds
<1>4. /\ build' = [count |-> build'.count, copy |-> build'.copy, resume |-> build'.resume]
      /\ build'.count = build.count /\ build'.resume = build.resume
      /\ ToPlace' = ToPlace \ {Min(ToPlace)} /\ build'.copy \in [ToPlace' -> SlotType]
      /\ \A b \in ToPlace' : build'.copy[b] = build.copy[b]
      /\ Cardinality(ToPlace') = Cardinality(ToPlace) - 1 /\ IsFiniteSet(ToPlace')
  BY <1>1, PlacedTaken DEF StoreInv, Typed, LayoutInv
<1>2. /\ pc \in BuildPcs /\ pc' \in BuildPcs /\ pc # "store" /\ pc' # "store"
      /\ InCall' = InCall /\ Resizing' = Resizing
  BY <1>1, <1>4 DEF InCall, Resizing, BuildPcs
<1>3. /\ IndexTyped' /\ index'.header = index.header /\ index'.bucketCount = index.bucketCount
      /\ index'.itemCount = index.itemCount + 1 /\ index'.slot = index.slot /\ Filled' = Filled
  BY <1>1, ItemCounted DEF StoreInv, Typed
<1>21. FilesTyped'  BY <1>1 DEF StoreInv, Typed, FilesTyped
<1>22. HistoryTyped'  BY <1>1 DEF StoreInv, Typed, HistoryTyped
<1>23. IndexTyped'  BY <1>3
<1>24. FlagsTyped'
  <2>1. suspect \in BOOLEAN  BY DEF StoreInv, Typed, FlagsTyped
  <2> QED  BY <1>1, <1>3, <2>1, FlagsKept DEF StoreInv, Typed
<1>25. CallTyped'  BY <1>1, <1>2 DEF StoreInv, Typed, CallTyped
<1>26. BuildTyped'  BY <1>1, <1>2, <1>4 DEF StoreInv, Typed, BuildTyped
<1>27. SessionTyped'  BY <1>1 DEF StoreInv, Typed, SessionTyped, PcLabels
<1>28. HeaderInv'  BY <1>1 DEF StoreInv, HeaderInv
<1>29. OffsetInv'  BY <1>1, <1>2 DEF StoreInv, OffsetInv
<1>30. LayoutInv'
  <2>1. Ready /\ Cardinality(Filled) = index.itemCount + 1 /\ index.bucketCount = build.count
    BY <1>1 DEF StoreInv, LayoutInv
  <2>2. Ready'  BY <1>3, <2>1 DEF Ready
  <2> QED  BY <1>1, <1>3, <1>4, <2>1, <2>2 DEF LayoutInv
<1>31. RoomInv'
  <2>1. Asked' = Asked  BY <1>1, <1>4 DEF Asked
  <2>2. Within(index.itemCount + Cardinality(ToPlace) + Asked, build.count)
    BY <1>1 DEF StoreInv, RoomInv
  <2>3. index.itemCount \in Nat /\ Cardinality(ToPlace) \in Nat
    BY FS_CardinalityType DEF StoreInv, Typed, IndexTyped, BuildTyped
  <2>4. index'.itemCount + Cardinality(ToPlace') = index.itemCount + Cardinality(ToPlace)
    BY <1>3, <1>4, <2>3
  <2> QED  BY <1>1, <1>4, <2>1, <2>2, <2>4 DEF RoomInv
<1> QED
  BY <1>21, <1>22, <1>23, <1>24, <1>25, <1>26, <1>27, <1>28, <1>29, <1>30, <1>31
  DEF StoreInv, Typed

LEMMA BuiltStep ==
  ASSUME StoreInv, Built
  PROVE  StoreInv'
<1>1. /\ pc = "place" /\ pc' = build.resume /\ ToPlace = {}
      /\ UNCHANGED <<values, temp, appendOffset, call, status, calls, crashes, acked, maybe>>
      /\ UNCHANGED <<index, build, suspect>>
      /\ next' = IF build.resume = "scan" /\ next = 0 THEN 1 ELSE next
      /\ build.resume \in {"scan", "append"} /\ pc \in BuildPcs /\ ToPlace' = {}
  BY DEF Built, BuildIndex, bounds, StoreInv, Typed, BuildTyped, BuildPcs, ToPlace
<1>2. /\ pc' \notin BuildPcs /\ ~Resizing' /\ (Resizing <=> build.resume = "append")
      /\ (InCall <=> build.resume = "append") /\ (InCall' <=> build.resume = "append")
  BY <1>1 DEF InCall, Resizing, BuildPcs
<1>21. FilesTyped'  BY <1>1 DEF StoreInv, Typed, FilesTyped
<1>22. HistoryTyped'  BY <1>1 DEF StoreInv, Typed, HistoryTyped
<1>23. IndexTyped'  BY <1>1 DEF StoreInv, Typed, IndexTyped
<1>24. FlagsTyped'  BY <1>1, Zenon DEF StoreInv, Typed, FlagsTyped
<1>25. CallTyped'  BY <1>1, <1>2 DEF StoreInv, Typed, CallTyped
<1>26. BuildTyped'  BY <1>1, <1>2 DEF StoreInv, Typed, BuildTyped
<1>27. SessionTyped'  BY <1>1 DEF StoreInv, Typed, SessionTyped, PcLabels
<1>28. HeaderInv'  BY <1>1 DEF StoreInv, HeaderInv
<1>29. OffsetInv'
  <2>1. CASE build.resume = "scan"  BY <1>1, <1>2, <2>1 DEF StoreInv, OffsetInv
  <2>2. CASE build.resume = "append"
    <3>1. call.entry = 1 /\ next = appendOffset /\ next' = next
      BY <1>1, <1>2, <2>2 DEF StoreInv, OffsetInv
    <3>2. appendOffset \in 0 .. Len(values)  BY DEF StoreInv, OffsetInv
    <3>3. PICK f \in [1 .. 1 -> 0 .. Len(values)] : f[1] = appendOffset
      <4> DEFINE g == [i \in 1 .. 1 |-> appendOffset]
      <4>1. g \in [1 .. 1 -> 0 .. Len(values)] /\ g[1] = appendOffset  BY <3>2
      <4> HIDE DEF g
      <4> QED  BY <4>1
    <3>4. Laid(f, 1)'  BY <1>1, <3>3 DEF Laid, LaidIn
    <3>5. \E g \in [1 .. call'.entry -> 0 .. Len(values')] : Laid(g, call.entry)' /\ next' = g[call'.entry]
      BY <1>1, <3>1, <3>3, <3>4
    <3> QED  BY <1>1, <1>2, <2>2, <3>5 DEF StoreInv, OffsetInv
  <2> QED  BY <1>1, <2>1, <2>2
<1>30. LayoutInv'  BY <1>1 DEF StoreInv, LayoutInv, Ready, Filled
<1>31. RoomInv'
  <2>1. CASE build.resume = "scan"  BY <1>1, <2>1 DEF RoomInv
  <2>2. CASE build.resume = "append"
    <3>1. Cardinality(ToPlace) = 0 /\ Asked = Len(call.batch) /\ Len(call.batch) \in Nat
      BY <1>1, <2>2, FS_EmptySet DEF Asked, StoreInv, Typed, CallTyped
    <3>2. Within(index.itemCount + Cardinality(ToPlace) + Asked, build.count)
      BY <1>1 DEF StoreInv, RoomInv
    <3>3. build.count = index.bucketCount /\ index.itemCount \in Nat
      BY <1>1 DEF StoreInv, LayoutInv, Typed, IndexTyped
    <3>4. index.itemCount + Cardinality(ToPlace) + Asked = index.itemCount + Len(call.batch)
      BY <3>1, <3>3
    <3>5. Within(index.itemCount + Len(call.batch), index.bucketCount)  BY <3>2, <3>3, <3>4
    <3> QED  BY <1>1, <2>2, <3>5 DEF RoomInv
  <2> QED  BY <1>1, <2>1, <2>2
<1> QED
  BY <1>21, <1>22, <1>23, <1>24, <1>25, <1>26, <1>27, <1>28, <1>29, <1>30, <1>31
  DEF StoreInv, Typed

LEMMA EnsureCapacityForInsertStep ==
  ASSUME StoreInv, EnsureCapacityForInsert
  PROVE  StoreInv'
<1>1. /\ pc = "double" /\ UNCHANGED <<values, temp, index, appendOffset, next, call, status>>
      /\ UNCHANGED <<calls, crashes, acked, maybe, suspect>>
      /\ \/ pc' = "truncate" /\ build' = build /\ Allows(build.count, Wanted)
         \/ pc' = "double" /\ build' = [build EXCEPT !.count = 2 * @]
  BY DEF EnsureCapacityForInsert, disk, bounds, history
<1>3. /\ build = [count |-> build.count, copy |-> build.copy, resume |-> build.resume]
      /\ build.count \in Nat /\ build.count > 0
  BY <1>1 DEF StoreInv, Typed, BuildTyped, BuildPcs
<1>4. /\ build' = [count |-> build'.count, copy |-> build'.copy, resume |-> build'.resume]
      /\ build'.count \in Nat /\ build'.count > 0
      /\ build'.copy = build.copy /\ build'.resume = build.resume /\ ToPlace' = ToPlace
  BY <1>1, <1>3 DEF ToPlace
<1>2. /\ pc \in BuildPcs /\ pc' \in BuildPcs /\ pc # "store" /\ pc' # "store"
      /\ InCall' = InCall /\ Resizing' = Resizing
  BY <1>1, <1>4 DEF InCall, Resizing, BuildPcs
<1>21. FilesTyped'  BY <1>1 DEF StoreInv, Typed, FilesTyped
<1>22. HistoryTyped'  BY <1>1 DEF StoreInv, Typed, HistoryTyped
<1>23. IndexTyped'  BY <1>1 DEF StoreInv, Typed, IndexTyped
<1>24. FlagsTyped'  BY <1>1, Zenon DEF StoreInv, Typed, FlagsTyped
<1>25. CallTyped'  BY <1>1, <1>2 DEF StoreInv, Typed, CallTyped
<1>26. BuildTyped'  BY <1>1, <1>2, <1>4 DEF StoreInv, Typed, BuildTyped
<1>27. SessionTyped'  BY <1>1 DEF StoreInv, Typed, SessionTyped, PcLabels
<1>28. HeaderInv'  BY <1>1 DEF StoreInv, HeaderInv
<1>29. OffsetInv'  BY <1>1, <1>2 DEF StoreInv, OffsetInv
<1>30. LayoutInv'  BY <1>1 DEF StoreInv, LayoutInv, Ready, Filled
<1>31. RoomInv'
  <2>1. Cardinality(ToPlace) = index.itemCount /\ index.itemCount \in Nat
    BY <1>1 DEF StoreInv, RoomInv, Typed, IndexTyped
  <2>2. CASE pc' = "double"  BY <1>1, <1>4, <2>1, <2>2 DEF RoomInv
  <2>3. CASE pc' = "truncate" /\ build' = build /\ Allows(build.count, Wanted)
    <3>1. Within(index.itemCount + Wanted, build.count)  BY <2>3 DEF Allows, Within
    <3>2. Asked' = Asked /\ Asked \in Nat /\ Wanted \in Nat /\ Asked <= Wanted
      BY <1>1, <1>4 DEF Asked, Wanted, StoreInv, Typed, CallTyped
    <3>3. Within(Cardinality(ToPlace) + Asked, build.count)
      BY <1>3, <2>1, <3>1, <3>2, WithinLess
    <3> QED  BY <1>4, <2>3, <3>2, <3>3 DEF RoomInv
  <2> QED  BY <1>1, <2>2, <2>3
<1> QED
  BY <1>21, <1>22, <1>23, <1>24, <1>25, <1>26, <1>27, <1>28, <1>29, <1>30, <1>31
  DEF StoreInv, Typed

LEMMA ScanGrowsStep ==
  ASSUME StoreInv, ScanGrows
  PROVE  StoreInv'
<1>1. /\ pc = "scan" /\ pc' = "double" /\ StartResize("scan")
      /\ UNCHANGED <<values, temp, index, appendOffset, next, call, status>>
      /\ UNCHANGED <<calls, crashes, acked, maybe, suspect>>
  BY DEF ScanGrows, Scanning, StartResize, disk, bounds, history
<1>3. Ready /\ IndexTyped /\ Cardinality(Filled) = index.itemCount
  BY <1>1 DEF StoreInv, LayoutInv, Typed
<1>4. BuildTyped' /\ build'.resume = "scan" /\ ToPlace' = Filled  BY <1>1, <1>3, ResizeStarted
<1>2. ~InCall /\ ~InCall' /\ ~Resizing'  BY <1>1, <1>4 DEF InCall, Resizing, BuildPcs
<1>21. FilesTyped'  BY <1>1 DEF StoreInv, Typed, FilesTyped
<1>22. HistoryTyped'  BY <1>1 DEF StoreInv, Typed, HistoryTyped
<1>23. IndexTyped'  BY <1>1 DEF StoreInv, Typed, IndexTyped
<1>24. FlagsTyped'  BY <1>1, Zenon DEF StoreInv, Typed, FlagsTyped
<1>25. CallTyped'  BY <1>1, <1>2 DEF StoreInv, Typed, CallTyped
<1>26. BuildTyped'  BY <1>4
<1>27. SessionTyped'  BY <1>1 DEF StoreInv, Typed, SessionTyped, PcLabels
<1>28. HeaderInv'  BY <1>1 DEF StoreInv, HeaderInv
<1>29. OffsetInv'  BY <1>1, <1>2 DEF StoreInv, OffsetInv
<1>30. LayoutInv'  BY <1>1 DEF StoreInv, LayoutInv, Ready, Filled
<1>31. RoomInv'  BY <1>1, <1>3, <1>4 DEF RoomInv
<1> QED
  BY <1>21, <1>22, <1>23, <1>24, <1>25, <1>26, <1>27, <1>28, <1>29, <1>30, <1>31
  DEF StoreInv, Typed

-----------------------------------------------------------------------------
(* The scan of the value file.                                             *)

LEMMA ValidCell ==
  ASSUME FilesTyped, NEW s \in Nat, IsValidRecordHeader(s)
  PROVE  /\ s + 1 \in 1 .. Len(values) /\ values[s + 1].obj \in Obj /\ values[s + 1].val \in Val
         /\ values[s + 1].at = 0 /\ ValLenAt(s) \in Nat /\ ValLenAt(s) = ValLen[values[s + 1].val]
         /\ RecordEnd(s) = s + 1 + ValLenAt(s) /\ RecordEnd(s) \in Nat /\ RecordEnd(s) > s
         /\ values[s + 1] = [obj |-> values[s + 1].obj, val |-> values[s + 1].val, at |-> 0]
<1>1. s + 1 \in 1 .. Len(values) /\ values[s + 1] \in Cell /\ values[s + 1].obj \in Obj
      /\ values[s + 1].at = 0
  BY DEF IsValidRecordHeader, HeadAt, FilesTyped
<1>2. values[s + 1] \in [obj : Obj, val : Val, at : {-2, -1} \cup Nat]
  BY <1>1, ObjectAssumption DEF Cell, FileHeader, LegacyHeader, Fragment
<1>3. values[s + 1].val \in Val /\ values[s + 1].obj \in Obj
      /\ values[s + 1] = [obj |-> values[s + 1].obj, val |-> values[s + 1].val, at |-> 0]
  BY <1>1, <1>2
<1>4. ValLenAt(s) = ValLen[values[s + 1].val] /\ ValLenAt(s) \in Nat
  BY <1>3, ObjectAssumption DEF ValLenAt
<1> QED  BY <1>1, <1>3, <1>4 DEF RecordEnd

\* The bucket for the record that the scan has in hand.
LEMMA ScanFacts ==
  ASSUME StoreInv, pc = "scan", Fits(1), NEW o \in Obj, ~FindCorrupt(o)
  PROVE  /\ IndexTyped /\ Ready /\ Stops(o) # {} /\ FindBucket(o) \in DOMAIN index.slot
         /\ Found(o) <=> FindBucket(o) \in Filled
         /\ index.itemCount + 1 < index.bucketCount
         /\ Cardinality(Filled) = index.itemCount
         /\ Within(index.itemCount + 1, index.bucketCount)
<1>1. IndexTyped /\ Ready /\ Cardinality(Filled) = index.itemCount  BY DEF StoreInv, Typed, LayoutInv
<1>2. Stops(o) # {}  BY DEF FindCorrupt
<1>3. FindBucket(o) \in DOMAIN index.slot /\ (Found(o) <=> FindBucket(o) \in Filled)
  BY <1>1, <1>2, FindBucketFacts
<1>4. Within(index.itemCount + 1, index.bucketCount)  BY DEF Fits, Allows, Within
<1>5. index.itemCount + 1 \in Nat /\ index.bucketCount \in Nat /\ index.bucketCount > 0
  BY <1>1 DEF IndexTyped, Ready
<1>6. index.itemCount + 1 < index.bucketCount  BY <1>4, <1>5, WithinRoom
<1> QED  BY <1>1, <1>2, <1>3, <1>4, <1>6

LEMMA ScanRecordStep ==
  ASSUME StoreInv, ScanRecord
  PROVE  StoreInv'
<1> DEFINE o == values[next + 1].obj
<1>1. /\ pc = "scan" /\ next < Len(values) /\ ScanValid /\ Fits(1) /\ ~FindCorrupt(o)
      /\ index' = [index EXCEPT !.slot[FindBucket(o)] = [hash |-> HashOf[o], offset |-> next]]
      /\ \/ Found(o) /\ next' = RecordEnd(next) /\ pc' = "scan"
         \/ ~Found(o) /\ next' = next /\ pc' = "scanCount"
      /\ UNCHANGED <<values, temp, appendOffset, call, build, status, calls, crashes>>
      /\ UNCHANGED <<acked, maybe, suspect>>
  BY DEF ScanRecord, Scanning, Scanned, WithBucket, NextRecord, bounds, history
<1>2. ~InCall /\ ~InCall' /\ ~Resizing' /\ pc \notin BuildPcs /\ pc' \notin BuildPcs
  BY <1>1 DEF InCall, Resizing, BuildPcs
<1>4. next \in Nat /\ o \in Obj /\ HashOf[o] \in Nat \ {0} /\ IsValidRecordHeader(next)
  <2>1. next \in Nat /\ IsValidRecordHeader(next)  BY <1>1 DEF StoreInv, OffsetInv, ScanValid
  <2>2. o \in Obj  BY <2>1, ValidCell DEF StoreInv, Typed
  <2> QED  BY <2>1, <2>2, ObjectAssumption
<1> HIDE DEF o
<1>5. /\ IndexTyped /\ Ready /\ FindBucket(o) \in DOMAIN index.slot
      /\ Found(o) <=> FindBucket(o) \in Filled
      /\ Cardinality(Filled) = index.itemCount
  BY <1>1, <1>4, ScanFacts
<1>3. /\ IndexTyped' /\ index'.header = index.header /\ index'.bucketCount = index.bucketCount
      /\ index'.itemCount = index.itemCount /\ DOMAIN index'.slot = DOMAIN index.slot
      /\ Found(o) => Cardinality(Filled') = Cardinality(Filled)
      /\ ~Found(o) => Cardinality(Filled') = Cardinality(Filled) + 1
  <2> DEFINE s == [hash |-> HashOf[o], offset |-> next]
  <2>1. s \in SlotType /\ s.hash # 0  BY <1>4 DEF SlotType
  <2>2. index' = [index EXCEPT !.slot[FindBucket(o)] = s]  BY <1>1
  <2> HIDE DEF s
  <2> QED  BY <1>5, <2>1, <2>2, SlotStored
<1>21. FilesTyped'  BY <1>1 DEF StoreInv, Typed, FilesTyped
<1>22. HistoryTyped'  BY <1>1 DEF StoreInv, Typed, HistoryTyped
<1>23. IndexTyped'  BY <1>3
<1>24. FlagsTyped'
  <2>1. suspect \in BOOLEAN  BY DEF StoreInv, Typed, FlagsTyped
  <2> QED  BY <1>1, <1>3, <2>1, FlagsKept DEF StoreInv, Typed
<1>25. CallTyped'  BY <1>1, <1>2 DEF StoreInv, Typed, CallTyped
<1>26. BuildTyped'  BY <1>1, <1>2 DEF StoreInv, Typed, BuildTyped, ToPlace
<1>27. SessionTyped'  BY <1>1 DEF StoreInv, Typed, SessionTyped, PcLabels
<1>28. HeaderInv'  BY <1>1 DEF StoreInv, HeaderInv
<1>29. OffsetInv'
  <2>0. RecordEnd(next) \in Nat /\ RecordEnd(next) > next  BY <1>4, ValidCell DEF StoreInv, Typed
  <2>1. RecordEnd(next) > 0  BY <1>4, <2>0
  <2>2. pc' = "scanCount" => ScanValid'
    BY <1>1 DEF ScanValid, IsValidRecordHeader, HeadAt, RecordEnd, ValLenAt
  <2> QED  BY <1>1, <1>2, <2>0, <2>1, <2>2 DEF StoreInv, OffsetInv
<1>30. LayoutInv'
  <2>1. Ready'  BY <1>3, <1>5 DEF Ready
  <2> QED  BY <1>1, <1>3, <1>5, <2>1 DEF LayoutInv
<1>31. RoomInv'  BY <1>1 DEF RoomInv
<1> QED
  BY <1>21, <1>22, <1>23, <1>24, <1>25, <1>26, <1>27, <1>28, <1>29, <1>30, <1>31
  DEF StoreInv, Typed

LEMMA CountScannedStep ==
  ASSUME StoreInv, CountScanned
  PROVE  StoreInv'
<1>1. /\ pc = "scanCount" /\ pc' = "scan" /\ index' = [index EXCEPT !.itemCount = @ + 1]
      /\ next' = RecordEnd(next)
      /\ UNCHANGED <<values, temp, appendOffset, call, build, status, calls, crashes>>
      /\ UNCHANGED <<acked, maybe, suspect>>
  BY DEF CountScanned, NextRecord, bounds, history
<1>2. ~InCall /\ ~InCall' /\ ~Resizing' /\ pc \notin BuildPcs /\ pc' \notin BuildPcs
  BY <1>1 DEF InCall, Resizing, BuildPcs
<1>3. /\ IndexTyped' /\ index'.header = index.header /\ index'.bucketCount = index.bucketCount
      /\ index'.itemCount = index.itemCount + 1 /\ index'.slot = index.slot /\ Filled' = Filled
  BY <1>1, ItemCounted DEF StoreInv, Typed
<1>21. FilesTyped'  BY <1>1 DEF StoreInv, Typed, FilesTyped
<1>22. HistoryTyped'  BY <1>1 DEF StoreInv, Typed, HistoryTyped
<1>23. IndexTyped'  BY <1>3
<1>24. FlagsTyped'
  <2>1. suspect \in BOOLEAN  BY DEF StoreInv, Typed, FlagsTyped
  <2> QED  BY <1>1, <1>3, <2>1, FlagsKept DEF StoreInv, Typed
<1>25. CallTyped'  BY <1>1, <1>2 DEF StoreInv, Typed, CallTyped
<1>26. BuildTyped'  BY <1>1, <1>2 DEF StoreInv, Typed, BuildTyped, ToPlace
<1>27. SessionTyped'  BY <1>1 DEF StoreInv, Typed, SessionTyped, PcLabels
<1>28. HeaderInv'  BY <1>1 DEF StoreInv, HeaderInv
<1>29. OffsetInv'
  <2>1. next \in Nat /\ IsValidRecordHeader(next)  BY <1>1 DEF StoreInv, OffsetInv, ScanValid
  <2>0. RecordEnd(next) \in Nat /\ RecordEnd(next) > next  BY <2>1, ValidCell DEF StoreInv, Typed
  <2>2. RecordEnd(next) > 0  BY <2>1, <2>0
  <2> QED  BY <1>1, <1>2, <2>0, <2>2 DEF StoreInv, OffsetInv
<1>30. LayoutInv'
  <2>1. Ready /\ Cardinality(Filled) = index.itemCount + 1  BY <1>1 DEF StoreInv, LayoutInv
  <2>2. Ready'  BY <1>3, <2>1 DEF Ready
  <2> QED  BY <1>1, <1>3, <2>1, <2>2 DEF LayoutInv
<1>31. RoomInv'  BY <1>1 DEF RoomInv
<1> QED
  BY <1>21, <1>22, <1>23, <1>24, <1>25, <1>26, <1>27, <1>28, <1>29, <1>30, <1>31
  DEF StoreInv, Typed

LEMMA ScanFailsStep ==
  ASSUME StoreInv, ScanFails
  PROVE  StoreInv'
<1>1. /\ pc = "scan" /\ Closed /\ pc' = "closed" /\ status' \in {"Corruption", "IOError"}
      /\ suspect' = TRUE /\ UNCHANGED <<values, temp, index, calls, crashes, acked, maybe>>
  BY DEF ScanFails, Scanning, Closed, disk, bounds
<1>2. CallTyped' /\ BuildTyped' /\ OffsetInv' /\ LayoutInv' /\ RoomInv'
  BY <1>1, ClosedStep DEF StoreInv, Typed, FilesTyped
<1>21. FilesTyped'  BY <1>1 DEF StoreInv, Typed, FilesTyped
<1>22. HistoryTyped'  BY <1>1 DEF StoreInv, Typed, HistoryTyped
<1>23. IndexTyped'  BY <1>1 DEF StoreInv, Typed, IndexTyped
<1>24. FlagsTyped'
  <2>1. call'.unique = FALSE /\ index'.header = index.header  BY <1>1 DEF Closed, Reset, NoCall
  <2> QED  BY <1>1, <2>1, FlagsKept DEF StoreInv, Typed
<1>25. CallTyped'  BY <1>2
<1>26. BuildTyped'  BY <1>2
<1>27. SessionTyped'  BY <1>1 DEF StoreInv, Typed, SessionTyped, PcLabels
<1>28. HeaderInv'  BY <1>1 DEF StoreInv, HeaderInv
<1>29. OffsetInv'  BY <1>2
<1>30. LayoutInv'  BY <1>2
<1>31. RoomInv'  BY <1>2
<1> QED
  BY <1>21, <1>22, <1>23, <1>24, <1>25, <1>26, <1>27, <1>28, <1>29, <1>30, <1>31
  DEF StoreInv, Typed

LEMMA ScanEndsStep ==
  ASSUME StoreInv, ScanEnds
  PROVE  StoreInv'
<1>1. /\ pc = "scan" /\ pc' = "idle" /\ appendOffset' = Len(values) /\ next' = 0
      /\ UNCHANGED <<values, temp, index, call, build, status, calls, crashes>>
      /\ UNCHANGED <<acked, maybe, suspect>>
  BY DEF ScanEnds, disk, bounds, history
<1>2. ~InCall /\ ~InCall' /\ ~Resizing' /\ pc \notin BuildPcs /\ pc' \notin BuildPcs
  BY <1>1 DEF InCall, Resizing, BuildPcs
<1>21. FilesTyped'  BY <1>1 DEF StoreInv, Typed, FilesTyped
<1>22. HistoryTyped'  BY <1>1 DEF StoreInv, Typed, HistoryTyped
<1>23. IndexTyped'  BY <1>1 DEF StoreInv, Typed, IndexTyped
<1>24. FlagsTyped'  BY <1>1, Zenon DEF StoreInv, Typed, FlagsTyped
<1>25. CallTyped'  BY <1>1, <1>2 DEF StoreInv, Typed, CallTyped
<1>26. BuildTyped'  BY <1>1, <1>2 DEF StoreInv, Typed, BuildTyped, ToPlace
<1>27. SessionTyped'  BY <1>1 DEF StoreInv, Typed, SessionTyped, PcLabels
<1>28. HeaderInv'  BY <1>1 DEF StoreInv, HeaderInv
<1>29. OffsetInv'
  <2>1. Len(values) \in Nat /\ Len(values) > 0
    BY <1>1 DEF StoreInv, Typed, FilesTyped, HeaderInv
  <2> QED  BY <1>1, <1>2, <2>1 DEF StoreInv, OffsetInv
<1>30. LayoutInv'  BY <1>1, <1>2 DEF StoreInv, LayoutInv, Ready, Filled
<1>31. RoomInv'  BY <1>1 DEF RoomInv
<1> QED
  BY <1>21, <1>22, <1>23, <1>24, <1>25, <1>26, <1>27, <1>28, <1>29, <1>30, <1>31
  DEF StoreInv, Typed

LEMMA UseUnmappedStep ==
  ASSUME StoreInv, UseUnmapped
  PROVE  StoreInv'
<1>1. /\ pc = "unmapped" /\ Closed /\ pc' = "closed" /\ calls < MaxCalls /\ calls' = calls + 1
      /\ UNCHANGED <<values, temp, index, status, crashes, acked, maybe, suspect>>
  BY DEF UseUnmapped, Closed, disk, history
<1>2. CallTyped' /\ BuildTyped' /\ OffsetInv' /\ LayoutInv' /\ RoomInv'
  BY <1>1, ClosedStep DEF StoreInv, Typed, FilesTyped
<1>21. FilesTyped'  BY <1>1 DEF StoreInv, Typed, FilesTyped
<1>22. HistoryTyped'  BY <1>1 DEF StoreInv, Typed, HistoryTyped
<1>23. IndexTyped'  BY <1>1 DEF StoreInv, Typed, IndexTyped
<1>24. FlagsTyped'  BY <1>1, FlagsClosed
<1>25. CallTyped'  BY <1>2
<1>26. BuildTyped'  BY <1>2
<1>27. SessionTyped'  BY <1>1, ObjectAssumption DEF StoreInv, Typed, SessionTyped, PcLabels
<1>28. HeaderInv'  BY <1>1 DEF StoreInv, HeaderInv
<1>29. OffsetInv'  BY <1>2
<1>30. LayoutInv'  BY <1>2
<1>31. RoomInv'  BY <1>2
<1> QED
  BY <1>21, <1>22, <1>23, <1>24, <1>25, <1>26, <1>27, <1>28, <1>29, <1>30, <1>31
  DEF StoreInv, Typed

LEMMA CloseStep ==
  ASSUME StoreInv, Close
  PROVE  StoreInv'
<1>1. /\ pc \in {"idle", "readonly", "unmapped"} /\ Closed /\ pc' = "closed" /\ status' = "OK"
      /\ UNCHANGED <<values, temp, index, calls, crashes, acked, maybe, suspect>>
  BY DEF Close, Closed, disk, bounds, history
<1>2. CallTyped' /\ BuildTyped' /\ OffsetInv' /\ LayoutInv' /\ RoomInv'
  BY <1>1, ClosedStep DEF StoreInv, Typed, FilesTyped
<1>21. FilesTyped'  BY <1>1 DEF StoreInv, Typed, FilesTyped
<1>22. HistoryTyped'  BY <1>1 DEF StoreInv, Typed, HistoryTyped
<1>23. IndexTyped'  BY <1>1 DEF StoreInv, Typed, IndexTyped
<1>24. FlagsTyped'  BY <1>1, FlagsClosed
<1>25. CallTyped'  BY <1>2
<1>26. BuildTyped'  BY <1>2
<1>27. SessionTyped'  BY <1>1 DEF StoreInv, Typed, SessionTyped, PcLabels
<1>28. HeaderInv'  BY <1>1 DEF StoreInv, HeaderInv
<1>29. OffsetInv'  BY <1>2
<1>30. LayoutInv'  BY <1>2
<1>31. RoomInv'  BY <1>2
<1> QED
  BY <1>21, <1>22, <1>23, <1>24, <1>25, <1>26, <1>27, <1>28, <1>29, <1>30, <1>31
  DEF StoreInv, Typed

-----------------------------------------------------------------------------
(* Writes.                                                                 *)

LEMMA MaxOfBounded ==
  ASSUME NEW n \in Nat, NEW S \in SUBSET (0 .. n), S # {}
  PROVE  Max(S) \in S /\ \A y \in S : y <= Max(S)
<1> DEFINE T == {n - x : x \in S}
           m == Min(T)
<1>0. \A x \in S : n - x \in Nat  OBVIOUS
<1>1. T \in SUBSET Nat /\ T # {}
  <2>1. \A y \in T : y \in Nat  BY <1>0
  <2>2. PICK x \in S : TRUE  OBVIOUS
  <2>3. n - x \in T  OBVIOUS
  <2> QED  BY <2>1, <2>3
<1>2. m \in T /\ \A y \in T : m <= y  BY <1>1, MinOfSome
<1> HIDE DEF m
<1>3. PICK x \in S : m = n - x  BY <1>2
<1>4. \A y \in S : y <= x
  <2>1. TAKE y \in S
  <2>2. n - y \in T  OBVIOUS
  <2>3. m <= n - y  BY <1>2, <2>2
  <2> QED  BY <1>3, <2>3
<1>5. \E z \in S : \A y \in S : z >= y  BY <1>4
<1>6. Max(S) = CHOOSE z \in S : \A y \in S : z >= y  BY DEF Max
<1>7. Max(S) \in S /\ \A y \in S : Max(S) >= y  BY <1>5, <1>6
<1> QED  BY <1>7

LEMMA EntriesTyped ==
  ASSUME call.batch \in Seq(Entry), NEW o
  PROVE  /\ Entries(o) \in SUBSET (0 .. Len(call.batch))
         /\ \A i \in Entries(o) : /\ i \in 1 .. Len(call.batch) /\ call.batch[i] \in Entry
                                  /\ call.batch[i].obj = o /\ call.batch[i].val \in Val
<1>1. Len(call.batch) \in Nat /\ DOMAIN call.batch = 1 .. Len(call.batch)  OBVIOUS
<1>2. \A i \in 1 .. Len(call.batch) : call.batch[i] \in Entry  OBVIOUS
<1>3. \A i \in 1 .. Len(call.batch) : call.batch[i].val \in Val  BY <1>2, EntryFields
<1> QED  BY <1>1, <1>2, <1>3 DEF Entries

LEMMA UnacknowledgedTyped ==
  ASSUME HistoryTyped, call.batch \in Seq(Entry), Unacknowledged
  PROVE  HistoryTyped'
<1> DEFINE v(o) == maybe[o] \cup {call.batch[i].val : i \in Entries(o)}
<1>1. \A o \in Obj : v(o) \in SUBSET Val  BY EntriesTyped DEF HistoryTyped
<1>2. maybe' = [o \in Obj |-> v(o)] /\ acked' = acked  BY DEF Unacknowledged
<1> HIDE DEF v
<1>3. maybe' \in [Obj -> SUBSET Val]  BY <1>1, <1>2
<1> QED  BY <1>2, <1>3 DEF HistoryTyped

LEMMA AcknowledgedTyped ==
  ASSUME HistoryTyped, call.batch \in Seq(Entry), Acknowledged
  PROVE  HistoryTyped'
<1> DEFINE a(o) == IF Entries(o) = {} THEN acked[o] ELSE call.batch[Max(Entries(o))].val
           m(o) == IF Entries(o) = {} THEN maybe[o] ELSE {}
<1>1. ASSUME NEW o \in Obj  PROVE a(o) \in Val \cup {NoVal}
  <2>1. CASE Entries(o) = {}  BY <2>1 DEF HistoryTyped
  <2>2. CASE Entries(o) # {}
    <3>1. Len(call.batch) \in Nat  OBVIOUS
    <3>2. Max(Entries(o)) \in Entries(o)  BY <2>2, <3>1, EntriesTyped, MaxOfBounded
    <3>3. call.batch[Max(Entries(o))].val \in Val  BY <3>2, EntriesTyped
    <3> QED  BY <2>2, <3>3
  <2> QED  BY <2>1, <2>2
<1>2. \A o \in Obj : m(o) \in SUBSET Val  BY DEF HistoryTyped
<1>3. acked' = [o \in Obj |-> a(o)] /\ maybe' = [o \in Obj |-> m(o)]  BY DEF Acknowledged
<1> HIDE DEF a, m
<1>4. acked' \in [Obj -> Val \cup {NoVal}] /\ maybe' \in [Obj -> SUBSET Val]  BY <1>1, <1>2, <1>3
<1> QED  BY <1>4 DEF HistoryTyped

\* A write that fails leaves appendOffset_ and nothing of the call.
LEMMA WriteFailsStep ==
  ASSUME StoreInv, InCall, NEW s \in {"Corruption", "IOError"}, NEW label \in {"idle", "unmapped"},
         WriteFails(s, label), values' \in Seq(Cell), Len(values') >= Len(values)
  PROVE  /\ CallTyped' /\ BuildTyped' /\ SessionTyped' /\ HistoryTyped' /\ OffsetInv' /\ RoomInv'
         /\ temp' = temp /\ pc' = label /\ call'.unique = FALSE
<1>1. /\ status' = s /\ pc' = label /\ Unacknowledged /\ next' = 0 /\ call' = NoCall
      /\ build' = NoBuild /\ UNCHANGED <<temp, appendOffset, calls, crashes>>
  BY DEF WriteFails, Reset, bounds
<1>2. /\ ~InCall' /\ ~Resizing' /\ pc' \notin BuildPcs /\ pc \notin {"closed", "migrate", "removeIndex"}
  BY <1>1 DEF InCall, Resizing, BuildPcs
<1>3. CallTyped' /\ BuildTyped'  BY <1>1, <1>2, NoCallTyped, NoBuildTyped
<1>4. HistoryTyped'  BY <1>1, UnacknowledgedTyped DEF StoreInv, Typed, CallTyped
<1>5. SessionTyped'  BY <1>1 DEF StoreInv, Typed, SessionTyped, PcLabels
<1>6. OffsetInv'
  <2>1. Len(values) \in Nat /\ Len(values') \in Nat  BY DEF StoreInv, Typed, FilesTyped
  <2>2. appendOffset \in 0 .. Len(values) /\ appendOffset > 0  BY <1>2 DEF StoreInv, OffsetInv
  <2>3. appendOffset' \in 0 .. Len(values') /\ appendOffset' > 0  BY <1>1, <2>1, <2>2
  <2> QED  BY <1>1, <1>2, <2>3 DEF OffsetInv
<1>7. RoomInv'  BY <1>1 DEF RoomInv
<1>8. call'.unique = FALSE  BY <1>1 DEF NoCall
<1> QED  BY <1>1, <1>3, <1>4, <1>5, <1>6, <1>7, <1>8

\* Where WriteVAllAt writes.
LEMMA AppendPlace ==
  ASSUME StoreInv, pc = "append"
  PROVE  /\ next \in 0 .. Len(values) /\ next >= appendOffset /\ appendOffset > 0 /\ next > 0
         /\ InCall /\ InHand \in Entry /\ call.entry \in 1 .. Len(call.batch)
         /\ values \in Seq(Cell)
<1>1. InCall  BY DEF InCall
<1>2. call.entry \in 1 .. Len(call.batch) /\ InHand \in Entry
  BY <1>1, InHandFacts DEF StoreInv, Typed, CallTyped
<1>3. PICK f \in [1 .. call.entry -> 0 .. Len(values)] : Laid(f, call.entry) /\ next = f[call.entry]
  BY DEF StoreInv, OffsetInv
<1>4. appendOffset \in Nat /\ appendOffset > 0  BY DEF StoreInv, OffsetInv
<1>5. next \in 0 .. Len(values)  BY <1>2, <1>3
<1>6. next >= appendOffset
  <2>1. CASE call.entry = 1  BY <1>3, <1>4, <2>1 DEF Laid, LaidIn
  <2>2. CASE call.entry > 1
    <3>1. 1 \in 1 .. call.entry /\ call.entry \in 1 .. call.entry /\ 1 \in 1 .. Len(call.batch)
      BY <1>2, <2>2
    <3>2. f[1] + RecordSize(call.batch[1]) <= f[call.entry] /\ f[1] = appendOffset
      BY <1>3, <2>2, <3>1 DEF Laid, LaidIn
    <3>3. call.batch[1] \in Entry  BY <3>1 DEF StoreInv, Typed, CallTyped
    <3>4. RecordSize(call.batch[1]) \in Nat  BY <3>3, EntryFields
    <3> QED  BY <1>3, <1>4, <1>5, <3>2, <3>4
  <2> QED  BY <1>2, <2>1, <2>2
<1>7. values \in Seq(Cell)  BY DEF StoreInv, Typed, FilesTyped
<1> QED  BY <1>1, <1>2, <1>4, <1>5, <1>6, <1>7

\* A cut append keeps the file behind which it was to be.
LEMMA CutPlace ==
  ASSUME StoreInv, pc = "append", NEW cells \in Cut(InHand),
         values' = Overwrite(values, next, cells)
  PROVE  /\ values' \in Seq(Cell) /\ Len(values') >= Len(values)
         /\ \A i \in 1 .. next : values'[i] = values[i]
         /\ values' # <<>> /\ values'[1] = FileHeader
<1>1. /\ next \in 0 .. Len(values) /\ next > 0 /\ InHand \in Entry /\ values \in Seq(Cell)
  BY AppendPlace
<1>2. cells \in Seq(Cell)  BY <1>1, CutCells
<1>3. /\ values' \in Seq(Cell)
      /\ Len(values') = IF Len(values) >= next + Len(cells) THEN Len(values) ELSE next + Len(cells)
      /\ \A i \in 1 .. Len(values') : i \notin next + 1 .. next + Len(cells) => values'[i] = values[i]
  BY <1>1, <1>2, OverwriteCells
<1>4. Len(values) \in Nat /\ Len(cells) \in Nat  BY <1>1, <1>2
<1>5. Len(values') >= Len(values)  BY <1>3, <1>4
<1>6. \A i \in 1 .. next : values'[i] = values[i]  BY <1>1, <1>3, <1>4, <1>5
<1>7. values[1] = FileHeader  BY DEF StoreInv, HeaderInv
<1>8. values' # <<>>  BY <1>1, <1>3, <1>4, <1>5
<1> QED  BY <1>1, <1>3, <1>5, <1>6, <1>7, <1>8

LEMMA AppendFailsStep ==
  ASSUME StoreInv, AppendFails
  PROVE  StoreInv'
<1>1. /\ pc = "append" /\ WriteFails("IOError", "idle") /\ pc' = "idle" /\ InCall
      /\ UNCHANGED <<index, suspect>>
      /\ \E cells \in Cut(InHand) : values' = Overwrite(values, next, cells)
  BY DEF AppendFails, AfterCut, WriteFails, InCall
<1>2. values' \in Seq(Cell) /\ Len(values') >= Len(values) /\ values' # <<>> /\ values'[1] = FileHeader
  BY <1>1, CutPlace
<1>3. /\ CallTyped' /\ BuildTyped' /\ SessionTyped' /\ HistoryTyped' /\ OffsetInv' /\ RoomInv'
      /\ temp' = temp /\ call'.unique = FALSE
  BY <1>1, <1>2, WriteFailsStep
<1>21. FilesTyped'  BY <1>2, <1>3 DEF StoreInv, Typed, FilesTyped
<1>22. HistoryTyped'  BY <1>3
<1>23. IndexTyped'  BY <1>1 DEF StoreInv, Typed, IndexTyped
<1>24. FlagsTyped'  BY <1>1, <1>3, Zenon DEF StoreInv, Typed, FlagsTyped
<1>25. CallTyped'  BY <1>3
<1>26. BuildTyped'  BY <1>3
<1>27. SessionTyped'  BY <1>3
<1>28. HeaderInv'  BY <1>1, <1>2 DEF HeaderInv
<1>29. OffsetInv'  BY <1>3
<1>30. LayoutInv'  BY <1>1 DEF StoreInv, LayoutInv, Ready, Filled
<1>31. RoomInv'  BY <1>3
<1> QED
  BY <1>21, <1>22, <1>23, <1>24, <1>25, <1>26, <1>27, <1>28, <1>29, <1>30, <1>31
  DEF StoreInv, Typed

LEMMA FindFailsStep ==
  ASSUME StoreInv, FindFails
  PROVE  StoreInv'
<1>1. /\ pc = "store" /\ pc' = "idle" /\ InCall /\ UNCHANGED <<values, index, suspect>>
      /\ WriteFails(FindStatus(InHand.obj), "idle")
      /\ FindStatus(InHand.obj) \in {"Corruption", "IOError"}
  BY DEF FindFails, Storing, WriteFails, InCall, FindStatus
<1>2. values' \in Seq(Cell) /\ Len(values') >= Len(values)
  BY <1>1 DEF StoreInv, Typed, FilesTyped
<1>3. /\ CallTyped' /\ BuildTyped' /\ SessionTyped' /\ HistoryTyped' /\ OffsetInv' /\ RoomInv'
      /\ temp' = temp /\ call'.unique = FALSE
  BY <1>1, <1>2, WriteFailsStep
<1>21. FilesTyped'  BY <1>2, <1>3 DEF StoreInv, Typed, FilesTyped
<1>22. HistoryTyped'  BY <1>3
<1>23. IndexTyped'  BY <1>1 DEF StoreInv, Typed, IndexTyped
<1>24. FlagsTyped'  BY <1>1, <1>3, Zenon DEF StoreInv, Typed, FlagsTyped
<1>25. CallTyped'  BY <1>3
<1>26. BuildTyped'  BY <1>3
<1>27. SessionTyped'  BY <1>3
<1>28. HeaderInv'  BY <1>1 DEF StoreInv, HeaderInv
<1>29. OffsetInv'  BY <1>3
<1>30. LayoutInv'  BY <1>1 DEF StoreInv, LayoutInv, Ready, Filled
<1>31. RoomInv'  BY <1>3
<1> QED
  BY <1>21, <1>22, <1>23, <1>24, <1>25, <1>26, <1>27, <1>28, <1>29, <1>30, <1>31
  DEF StoreInv, Typed

\* A crash, or a failure of the mapping in Open, ends the session.
LEMMA SessionEnds ==
  ASSUME StoreInv, Closed, values' \in Seq(Cell), temp' = temp,
         values' # <<>> => values'[1] \in {FileHeader, LegacyHeader},
         IndexTyped', index'.header = index.header, suspect' \in BOOLEAN,
         HistoryTyped', calls' \in 0 .. MaxCalls, crashes' \in 0 .. MaxCrashes,
         status' \in {"OK", "IOError"}
  PROVE  StoreInv'
<1>1. pc' = "closed"  BY DEF Closed
<1>2. CallTyped' /\ BuildTyped' /\ OffsetInv' /\ LayoutInv' /\ RoomInv'  BY ClosedStep
<1>3. FilesTyped'  BY DEF StoreInv, Typed, FilesTyped
<1>4. FlagsTyped'
  <2>1. call'.unique = FALSE  BY DEF Closed, Reset, NoCall
  <2> QED  BY <2>1, FlagsKept DEF StoreInv, Typed
<1>5. SessionTyped'  BY <1>1 DEF SessionTyped, PcLabels
<1>6. HeaderInv'  BY <1>1 DEF HeaderInv
<1> QED  BY <1>2, <1>3, <1>4, <1>5, <1>6 DEF StoreInv, Typed

LEMMA CrashStep ==
  ASSUME StoreInv, Crash
  PROVE  StoreInv'
<1>1. /\ Closed /\ Unacknowledged /\ status' = "OK" /\ UNCHANGED <<temp, index, calls>>
      /\ crashes < MaxCrashes /\ crashes' = crashes + 1
      /\ \/ values' = values
         \/ pc = "append" /\ \E cells \in Cut(InHand) : values' = Overwrite(values, next, cells)
  BY DEF Crash
<1>2. suspect' \in BOOLEAN  BY Zenon DEF Crash
<1>3. values' \in Seq(Cell) /\ (values' # <<>> => values'[1] \in {FileHeader, LegacyHeader})
  <2>1. CASE values' = values  BY <2>1 DEF StoreInv, Typed, FilesTyped, HeaderInv
  <2>2. CASE values' # values  BY <1>1, <2>2, CutPlace
  <2> QED  BY <2>1, <2>2
<1>4. IndexTyped' /\ index'.header = index.header  BY <1>1 DEF StoreInv, Typed, IndexTyped
<1>5. HistoryTyped'  BY <1>1, UnacknowledgedTyped DEF StoreInv, Typed, CallTyped
<1>6. calls' \in 0 .. MaxCalls /\ crashes' \in 0 .. MaxCrashes
  BY <1>1, ObjectAssumption DEF StoreInv, Typed, SessionTyped
<1> QED  BY <1>1, <1>2, <1>3, <1>4, <1>5, <1>6, SessionEnds

LEMMA MapFailsStep ==
  ASSUME StoreInv, MapFails
  PROVE  StoreInv'
<1>1. pc = "truncate" /\ index' \in {index, Truncated} /\ values' = values  BY DEF MapFails
<1>2. IndexTyped' /\ index'.header = index.header
  <2>1. CASE index' = index  BY <2>1 DEF StoreInv, Typed, IndexTyped
  <2>2. CASE index' = Truncated  BY <2>2, SlotsTruncated DEF StoreInv, Typed, BuildTyped
  <2> QED  BY <1>1, <2>1, <2>2
<1>3. values' \in Seq(Cell) /\ Len(values') >= Len(values)
  BY <1>1 DEF StoreInv, Typed, FilesTyped
<1>4. CASE build.resume = "append"
  <2>1. WriteFails("IOError", "unmapped") /\ suspect' = suspect  BY <1>4 DEF MapFails
  <2>2. InCall  BY <1>1, <1>4 DEF InCall, Resizing, BuildPcs
  <2>3. /\ CallTyped' /\ BuildTyped' /\ SessionTyped' /\ HistoryTyped' /\ OffsetInv' /\ RoomInv'
        /\ temp' = temp /\ pc' = "unmapped" /\ call'.unique = FALSE
    BY <1>3, <2>1, <2>2, WriteFailsStep
  <2>4. FilesTyped'  BY <1>1, <2>3 DEF StoreInv, Typed, FilesTyped
  <2>5. FlagsTyped'  BY <1>2, <2>1, <2>3, Zenon DEF StoreInv, Typed, FlagsTyped
  <2>6. HeaderInv'  BY <1>1, <2>3 DEF StoreInv, HeaderInv
  <2>7. LayoutInv'  BY <2>3 DEF LayoutInv
  <2> QED  BY <1>2, <2>3, <2>4, <2>5, <2>6, <2>7 DEF StoreInv, Typed
<1>5. CASE build.resume # "append"
  <2>1. /\ status' = "IOError" /\ Closed /\ UNCHANGED <<temp, calls, crashes, acked, maybe>>
    BY <1>5 DEF MapFails, bounds
  <2>2. suspect' \in BOOLEAN  BY <1>5, Zenon DEF MapFails
  <2>3. HistoryTyped' /\ calls' \in 0 .. MaxCalls /\ crashes' \in 0 .. MaxCrashes
    BY <2>1 DEF StoreInv, Typed, SessionTyped, HistoryTyped
  <2>4. values' # <<>> => values'[1] \in {FileHeader, LegacyHeader}
    BY <1>1 DEF StoreInv, HeaderInv
  <2> QED  BY <1>2, <1>3, <2>1, <2>2, <2>3, <2>4, SessionEnds
<1> QED  BY <1>4, <1>5

\* The records before the one in hand stay, and the one in hand is laid down.
LEMMA LaidExtends ==
  ASSUME StoreInv, pc = "append", values' = Overwrite(values, next, Record(InHand)),
         call'.batch = call.batch, appendOffset' = appendOffset, NEW n, n = call.entry
  PROVE  \E g \in [1 .. n + 1 -> 0 .. Len(values')] :
            /\ Laid(g, n + 1)' /\ g[1] = appendOffset /\ g[n] = next
            /\ g[n + 1] = next + RecordSize(InHand)
<1>0. PICK e, p, r : e = InHand /\ p = next /\ r = RecordSize(e)  OBVIOUS
<1>1. /\ p \in 0 .. Len(values) /\ e \in Entry /\ n \in 1 .. Len(call.batch)
      /\ values \in Seq(Cell)
  BY <1>0, AppendPlace
<1>2. r \in Nat /\ r > 0 /\ Record(e) \in Seq(Cell) /\ Len(Record(e)) = r
  BY <1>0, <1>1, EntryFields, RecordCells
<1>3. /\ Len(values') = IF Len(values) >= p + r THEN Len(values) ELSE p + r
      /\ \A i \in p + 1 .. p + r : values'[i] = Record(e)[i - p]
      /\ \A i \in 1 .. Len(values') : i \notin p + 1 .. p + r => values'[i] = values[i]
  <2> DEFINE w == Overwrite(values, p, Record(e))
  <2>1. values' = w  BY <1>0
  <2>2. /\ Len(w) = IF Len(values) >= p + Len(Record(e)) THEN Len(values) ELSE p + Len(Record(e))
        /\ \A i \in p + 1 .. p + Len(Record(e)) : w[i] = Record(e)[i - p]
        /\ \A i \in 1 .. Len(w) : i \notin p + 1 .. p + Len(Record(e)) => w[i] = values[i]
    <3> HIDE DEF w
    <3>1. PICK c : c = Record(e)  OBVIOUS
    <3>2. w = Overwrite(values, p, c) /\ c \in Seq(Cell)  BY <1>2, <3>1 DEF w
    <3>3. /\ Len(w) = IF Len(values) >= p + Len(c) THEN Len(values) ELSE p + Len(c)
          /\ \A i \in p + 1 .. p + Len(c) : w[i] = c[i - p]
          /\ \A i \in 1 .. Len(w) : i \notin p + 1 .. p + Len(c) => i <= Len(values) /\ w[i] = values[i]
      BY ONLY <1>1, <3>2, OverwriteCells
    <3> QED  BY ONLY <3>1, <3>3
  <2> HIDE DEF w
  <2> QED  BY <1>2, <2>1, <2>2
<1>4. PICK f \in [1 .. n -> 0 .. Len(values)] : Laid(f, n) /\ p = f[n]
  BY <1>0 DEF StoreInv, OffsetInv
<1>5. Len(values) \in Nat /\ Len(values') \in Nat /\ Len(values') >= Len(values) /\ p + r <= Len(values')
  BY <1>1, <1>2, <1>3
<1>6. call.batch[n] = e  BY <1>0 DEF InHand
<1>7. \A i \in 1 .. n : f[i] \in Nat /\ f[i] <= Len(values)  BY <1>4, <1>5
<1>8. n \in Nat /\ n >= 1 /\ n \in 1 .. n /\ p \in Nat  BY <1>1
<1>10. PICK g \in [1 .. n + 1 -> 0 .. Len(values')] :
         g[n + 1] = p + r /\ \A i \in 1 .. n : g[i] = f[i]
  <2> DEFINE d(i) == IF i = n + 1 THEN p + r ELSE f[i]
             h == [i \in 1 .. n + 1 |-> d(i)]
  <2>1. \A i \in 1 .. n + 1 : d(i) \in 0 .. Len(values')
    <3>1. TAKE i \in 1 .. n + 1
    <3>2. CASE i = n + 1  BY <1>1, <1>2, <1>5, <3>2
    <3>3. CASE i # n + 1
      <4>1. i \in 1 .. n  BY <1>8, <3>3
      <4> QED  BY <1>5, <1>7, <3>3, <4>1
    <3> QED  BY <3>2, <3>3
  <2>2. /\ h \in [1 .. n + 1 -> 0 .. Len(values')] /\ h[n + 1] = p + r
        /\ \A i \in 1 .. n : i # n + 1 /\ i \in 1 .. n + 1 /\ h[i] = f[i]
    BY <1>8, <2>1
  <2> HIDE DEF h
  <2> QED  BY <2>2
<1>11. \A i \in 1 .. n - 1 : f[i] + RecordSize(call.batch[i]) <= p /\ RecordSize(call.batch[i]) \in Nat
  <2>1. TAKE i \in 1 .. n - 1
  <2>2. i \in 1 .. n /\ i < n /\ i \in 1 .. Len(call.batch)  BY <1>1, <1>8
  <2>3. call.batch[i] \in Entry  BY <2>2 DEF StoreInv, Typed, CallTyped
  <2> QED  BY <1>4, <1>8, <2>2, <2>3, EntryFields DEF Laid, LaidIn
<1>12. ASSUME NEW i \in 1 .. n
       PROVE  /\ g[i + 1] = g[i] + RecordSize(call.batch[i])
              /\ RecordIn(values', g[i], call.batch[i])
  <2>1. CASE i = n
    <3>1. g[i + 1] = g[i] + RecordSize(call.batch[i])  BY <1>0, <1>4, <1>6, <1>8, <1>10, <2>1
    <3>2. g[i] = p /\ call.batch[i] = e  BY <1>4, <1>6, <1>8, <1>10, <2>1
    <3>3. \A j \in 1 .. r : values'[p + j] = Record(e)[j]
      <4>1. TAKE j \in 1 .. r
      <4>2. PICK k : k = p + j  OBVIOUS
      <4>3. k \in p + 1 .. p + r /\ k - p = j  BY <1>2, <1>8, <4>2
      <4>4. values'[k] = Record(e)[k - p]  BY <1>3, <4>3
      <4> QED  BY <4>2, <4>3, <4>4
    <3>4. RecordIn(values', p, e)  BY <1>0, <1>5, <3>3 DEF RecordIn
    <3>5. RecordIn(values', g[i], call.batch[i])  BY <3>2, <3>4
    <3> QED  BY <3>1, <3>5
  <2>2. CASE i # n
    <3>1. i \in 1 .. n - 1 /\ i + 1 \in 1 .. n /\ i \in 1 .. n  BY <1>8, <2>2
    <3>2. f[i + 1] = f[i] + RecordSize(call.batch[i]) /\ RecordIn(values, f[i], call.batch[i])
      BY <1>4, <3>1 DEF Laid, LaidIn
    <3>3. g[i + 1] = f[i + 1] /\ g[i] = f[i]  BY <1>10, <3>1
    <3> DEFINE m == RecordSize(call.batch[i])
               c == Record(call.batch[i])
               s == f[i]
    <3>4. m \in Nat /\ s \in Nat /\ s + m <= p  BY <1>7, <1>11, <3>1
    <3>5. s + m <= Len(values) /\ \A j \in 1 .. m : values[s + j] = c[j]  BY <3>2 DEF RecordIn
    <3> HIDE DEF m, c, s
    <3>6. ASSUME NEW j \in 1 .. m  PROVE values'[s + j] = c[j]
      <4>1. s + j \in 1 .. Len(values') /\ s + j \notin p + 1 .. p + r
        BY <1>8, <1>5, <3>4, <3>5
      <4>2. values'[s + j] = values[s + j]  BY ONLY <1>3, <4>1
      <4> QED  BY <3>5, <4>2
    <3>7. s + m <= Len(values')  BY <1>5, <3>4, <3>5
    <3>8. RecordIn(values', g[i], call.batch[i])  BY <3>3, <3>6, <3>7 DEF RecordIn, m, c, s
    <3> QED  BY <3>2, <3>3, <3>8
  <2> QED  BY <2>1, <2>2
<1>13. ASSUME NEW i \in 1 .. n + 1, NEW k \in 1 .. n + 1, i < k
       PROVE  g[i] + RecordSize(call.batch[i]) <= g[k]
  <2>1. i \in 1 .. n  BY <1>8, <1>13
  <2>2. CASE k = n + 1
    <3>1. CASE i = n  BY <1>8, <1>12, <2>1, <2>2, <3>1, <1>10, <1>5
    <3>2. CASE i # n
      <4>1. i \in 1 .. n - 1  BY <1>8, <2>1, <3>2
      <4>2. g[i] + RecordSize(call.batch[i]) <= p /\ RecordSize(call.batch[i]) \in Nat /\ g[i] \in Nat
        BY <1>7, <1>10, <1>11, <2>1, <4>1
      <4> QED  BY <1>1, <1>2, <1>10, <2>2, <4>2
    <3> QED  BY <3>1, <3>2
  <2>3. CASE k # n + 1
    <3>1. k \in 1 .. n  BY <1>8, <2>3
    <3> QED  BY <1>4, <1>10, <1>13, <2>1, <3>1 DEF Laid, LaidIn
  <2> QED  BY <2>2, <2>3
<1>14. g[1] = appendOffset /\ g[n] = p
  <2>1. f[1] = appendOffset  BY <1>4 DEF Laid, LaidIn
  <2> QED  BY <1>4, <1>8, <1>10, <2>1
<1>15. Laid(g, n + 1)'
  <2>1. n + 1 - 1 = n  BY <1>8
  <2>2. LaidIn(values', appendOffset, call.batch, g, n + 1)
    BY <1>8, <1>10, <1>12, <1>13, <1>14, <2>1 DEF LaidIn
  <2> QED  BY <2>2 DEF Laid
<1> QED  BY <1>0, <1>10, <1>14, <1>15

LEMMA CallShape ==
  ASSUME StoreInv
  PROVE  /\ call = [batch |-> call.batch, unique |-> call.unique, entry |-> call.entry]
         /\ call.batch \in Seq(Entry) /\ Len(call.batch) \in Nat /\ call.entry \in Nat
BY DEF StoreInv, Typed, CallTyped

LEMMA FirstLaid ==
  ASSUME NEW file \in Seq(Cell), NEW start \in 0 .. Len(file), NEW batch
  PROVE  \E f \in [1 .. 1 -> 0 .. Len(file)] : LaidIn(file, start, batch, f, 1) /\ f[1] = start
<1> DEFINE g == [i \in 1 .. 1 |-> start]
<1>1. g \in [1 .. 1 -> 0 .. Len(file)] /\ g[1] = start  OBVIOUS
<1> HIDE DEF g
<1> QED  BY <1>1 DEF LaidIn

LEMMA CallWriteStructsStep ==
  ASSUME StoreInv, NEW b \in Seq(Entry), b # <<>>, NEW u \in BOOLEAN, CallWriteStructs(b, u)
  PROVE  StoreInv'
<1>1. /\ pc = "idle" /\ calls < MaxCalls /\ calls' = calls + 1 /\ next' = appendOffset
      /\ call' = [batch |-> b, unique |-> u, entry |-> 1]
      /\ UNCHANGED <<values, temp, index, appendOffset, status, crashes, acked, maybe, suspect>>
      /\ \/ Fits(Len(b)) /\ pc' = "append" /\ build' = build
         \/ StartResize("append") /\ pc' = "double"
  BY DEF CallWriteStructs, StartResize, disk, history
<1>2. /\ call'.batch = b /\ call'.unique = u /\ call'.entry = 1
      /\ call' = [batch |-> call'.batch, unique |-> call'.unique, entry |-> call'.entry]
  BY <1>1
<1>3. Len(b) \in Nat /\ Len(b) > 0  OBVIOUS
<1>4. /\ Ready /\ IndexTyped /\ Cardinality(Filled) = index.itemCount /\ BuildTyped
      /\ ToPlace = {} /\ pc \notin BuildPcs
  BY <1>1 DEF StoreInv, LayoutInv, Typed, BuildTyped, BuildPcs
<1>5. /\ BuildTyped' /\ (pc' = "double" => build'.resume = "append" /\ ToPlace' = Filled)
  <2>1. CASE pc' = "append" /\ build' = build
    BY <1>4, <2>1 DEF BuildTyped, BuildPcs, ToPlace
  <2>2. CASE StartResize("append")  BY <1>4, <2>2, ResizeStarted
  <2> QED  BY <1>1, <2>1, <2>2
<1>6. /\ pc' \in {"append", "double"} /\ InCall' /\ (Resizing' <=> pc' = "double")
  BY <1>1, <1>5 DEF InCall, Resizing, BuildPcs
<1>7. appendOffset \in 0 .. Len(values) /\ appendOffset > 0 /\ appendOffset \in Nat
  BY <1>1 DEF StoreInv, OffsetInv
<1>21. FilesTyped'  BY <1>1 DEF StoreInv, Typed, FilesTyped
<1>22. HistoryTyped'  BY <1>1 DEF StoreInv, Typed, HistoryTyped
<1>23. IndexTyped'  BY <1>1 DEF StoreInv, Typed, IndexTyped
<1>24. FlagsTyped'  BY <1>1, <1>2, Zenon DEF StoreInv, Typed, FlagsTyped
<1>25. CallTyped'  BY <1>2, <1>3, <1>6 DEF CallTyped
<1>26. BuildTyped'  BY <1>5
<1>27. SessionTyped'  BY <1>1, ObjectAssumption DEF StoreInv, Typed, SessionTyped, PcLabels
<1>28. HeaderInv'  BY <1>1 DEF StoreInv, HeaderInv
<1>29. OffsetInv'
  <2>1. PICK f \in [1 .. 1 -> 0 .. Len(values)] :
          LaidIn(values, appendOffset, b, f, 1) /\ f[1] = appendOffset
    BY <1>7, FirstLaid DEF StoreInv, Typed, FilesTyped
  <2>2. \E g \in [1 .. call'.entry -> 0 .. Len(values')] : Laid(g, call.entry)' /\ next' = g[call'.entry]
    BY <1>1, <1>2, <2>1 DEF Laid
  <2> QED  BY <1>1, <1>2, <1>6, <1>7, <2>2 DEF OffsetInv
<1>30. LayoutInv'  BY <1>1, <1>4, <1>6 DEF LayoutInv, Ready, Filled
<1>31. RoomInv'
  <2>1. CASE pc' = "double"  BY <1>1, <1>4, <1>5, <2>1 DEF RoomInv
  <2>2. CASE pc' = "append"
    <3>1. Within(index.itemCount + Len(b), index.bucketCount)
      BY <1>1, <2>2 DEF Fits, Allows, Within
    <3> QED  BY <1>1, <1>2, <2>2, <3>1 DEF RoomInv
  <2> QED  BY <1>6, <2>1, <2>2
<1> QED
  BY <1>21, <1>22, <1>23, <1>24, <1>25, <1>26, <1>27, <1>28, <1>29, <1>30, <1>31
  DEF StoreInv, Typed

LEMMA AppendRecordStep ==
  ASSUME StoreInv, AppendRecord
  PROVE  StoreInv'
<1>1. /\ pc = "append" /\ values' = Overwrite(values, next, Record(InHand))
      /\ \/ /\ call.entry < Len(call.batch) /\ call' = [call EXCEPT !.entry = @ + 1]
            /\ next' = next + RecordSize(InHand) /\ pc' = "append"
         \/ /\ ~(call.entry < Len(call.batch)) /\ call' = [call EXCEPT !.entry = 1]
            /\ next' = appendOffset /\ pc' = "store"
      /\ UNCHANGED <<temp, index, appendOffset, build, status, calls, crashes>>
      /\ UNCHANGED <<acked, maybe, suspect>>
  BY DEF AppendRecord, bounds, history
<1>2. /\ next \in 0 .. Len(values) /\ next > 0 /\ next \in Nat /\ InHand \in Entry
      /\ call.entry \in 1 .. Len(call.batch) /\ values \in Seq(Cell) /\ appendOffset > 0
  BY <1>1, AppendPlace
<1>3. PICK n : n = call.entry  OBVIOUS
<1>4. /\ call'.batch = call.batch /\ call'.unique = call.unique
      /\ call' = [batch |-> call'.batch, unique |-> call'.unique, entry |-> call'.entry]
      /\ \/ call.entry < Len(call.batch) /\ call'.entry = n + 1 /\ pc' = "append"
         \/ call.entry = Len(call.batch) /\ call'.entry = 1 /\ pc' = "store"
  BY <1>1, <1>2, <1>3, CallShape
<1>5. /\ InCall' /\ ~Resizing' /\ pc' \notin BuildPcs /\ pc \notin BuildPcs /\ pc' \in {"append", "store"}
  BY <1>1 DEF InCall, Resizing, BuildPcs
<1>6. PICK g \in [1 .. n + 1 -> 0 .. Len(values')] :
        /\ Laid(g, n + 1)' /\ g[1] = appendOffset /\ g[n] = next
        /\ g[n + 1] = next + RecordSize(InHand)
  BY <1>1, <1>3, <1>4, LaidExtends
<1>7. /\ values' \in Seq(Cell) /\ Len(values') >= Len(values) /\ values'[1] = values[1]
  <2>1. Record(InHand) \in Seq(Cell)  BY <1>2, RecordCells
  <2>2. Len(values) \in Nat /\ Len(Record(InHand)) \in Nat  BY <1>2, <2>1
  <2>3. /\ values' \in Seq(Cell)
        /\ Len(values') = IF Len(values) >= next + Len(Record(InHand)) THEN Len(values)
                          ELSE next + Len(Record(InHand))
        /\ \A i \in 1 .. Len(values') :
             i \notin next + 1 .. next + Len(Record(InHand)) => values'[i] = values[i]
    BY <1>1, <1>2, <2>1, OverwriteCells
  <2>4. Len(values') >= Len(values) /\ Len(values) >= 1  BY <1>2, <2>2, <2>3
  <2>5. 1 \in 1 .. Len(values') /\ 1 \notin next + 1 .. next + Len(Record(InHand))
    BY <1>2, <2>2, <2>3, <2>4
  <2>6. values'[1] = values[1]  BY <2>3, <2>5
  <2> QED  BY <2>3, <2>4, <2>6
<1>21. FilesTyped'  BY <1>1, <1>7 DEF StoreInv, Typed, FilesTyped
<1>22. HistoryTyped'  BY <1>1 DEF StoreInv, Typed, HistoryTyped
<1>23. IndexTyped'  BY <1>1 DEF StoreInv, Typed, IndexTyped
<1>24. FlagsTyped'  BY <1>1, <1>4, Zenon DEF StoreInv, Typed, FlagsTyped
<1>25. CallTyped'  BY <1>1, <1>2, <1>3, <1>4, <1>5, CallShape DEF CallTyped
<1>26. BuildTyped'  BY <1>1, <1>5 DEF StoreInv, Typed, BuildTyped, ToPlace
<1>27. SessionTyped'  BY <1>1 DEF StoreInv, Typed, SessionTyped, PcLabels
<1>28. HeaderInv'
  <2>1. values # <<>> /\ values[1] = FileHeader  BY <1>1 DEF StoreInv, HeaderInv
  <2>2. values' # <<>>  BY <1>2, <1>7, <2>1
  <2> QED  BY <1>5, <1>7, <2>1, <2>2 DEF HeaderInv
<1>29. OffsetInv'
  <2>1. Len(values) \in Nat /\ Len(values') \in Nat /\ appendOffset \in 0 .. Len(values)
    BY <1>2, <1>7 DEF StoreInv, OffsetInv
  <2>2. appendOffset' \in 0 .. Len(values') /\ appendOffset' > 0  BY <1>1, <1>2, <1>7, <2>1
  <2>3. n \in Nat /\ n + 1 \in 1 .. n + 1 /\ n \in 1 .. n + 1  BY <1>2, <1>3
  <2>4. g[n + 1] \in Nat  BY <1>6, <2>1, <2>3
  <2>5. next' \in Nat  BY <1>1, <1>6, <2>1, <2>4
  <2>6. CASE pc' = "append"
    <3>1. \E f \in [1 .. call'.entry -> 0 .. Len(values')] : Laid(f, call.entry)' /\ next' = f[call'.entry]
      BY <1>1, <1>4, <1>6, <2>6 DEF Laid
    <3> QED  BY <1>5, <2>2, <2>5, <2>6, <3>1 DEF OffsetInv
  <2>7. CASE pc' = "store"
    <3>1. Len(call'.batch) + 1 = n + 1 /\ call'.entry = 1  BY <1>3, <1>4, <2>7
    <3>2. \E f \in [1 .. Len(call'.batch) + 1 -> 0 .. Len(values')] :
            Laid(f, Len(call.batch) + 1)' /\ next' = f[call'.entry]
      BY <1>1, <1>6, <2>7, <3>1 DEF Laid
    <3> QED  BY <1>5, <2>2, <2>5, <2>7, <3>2 DEF OffsetInv
  <2> QED  BY <1>5, <2>6, <2>7
<1>30. LayoutInv'  BY <1>1, <1>5 DEF StoreInv, LayoutInv, Ready, Filled
<1>31. RoomInv'
  <2>1. Within(index.itemCount + Len(call.batch), index.bucketCount)  BY <1>1 DEF StoreInv, RoomInv
  <2>2. CASE pc' = "append"  BY <1>1, <1>4, <2>1, <2>2 DEF RoomInv
  <2>3. CASE pc' = "store"
    <3>1. Len(call.batch) + 1 - call'.entry = Len(call.batch)  BY <1>4, <2>3, CallShape
    <3> QED  BY <1>1, <1>4, <2>1, <2>3, <3>1 DEF RoomInv
  <2> QED  BY <1>5, <2>2, <2>3
<1> QED
  BY <1>21, <1>22, <1>23, <1>24, <1>25, <1>26, <1>27, <1>28, <1>29, <1>30, <1>31
  DEF StoreInv, Typed

\* The offsets of the entries while the index loop runs.
LEMMA StorePlace ==
  ASSUME StoreInv, pc \in {"store", "count"}
  PROVE  \E f \in [1 .. Len(call.batch) + 1 -> 0 .. Len(values)] :
           /\ Laid(f, Len(call.batch) + 1) /\ next = f[call.entry]
           /\ call.entry \in 1 .. Len(call.batch) + 1
           /\ next \in 0 .. Len(values) /\ next >= appendOffset /\ appendOffset > 0
           /\ call.entry <= Len(call.batch) => f[call.entry + 1] = next + RecordSize(InHand)
<1>1. call.entry \in 1 .. Len(call.batch) + 1 /\ Len(call.batch) \in Nat /\ call.batch \in Seq(Entry)
  BY CallShape DEF StoreInv, Typed, CallTyped, InCall
<1>2. PICK f \in [1 .. Len(call.batch) + 1 -> 0 .. Len(values)] :
        Laid(f, Len(call.batch) + 1) /\ next = f[call.entry]
  BY DEF StoreInv, OffsetInv
<1>3. appendOffset \in Nat /\ appendOffset > 0 /\ Len(values) \in Nat
  BY DEF StoreInv, OffsetInv, Typed, FilesTyped
<1>4. next \in 0 .. Len(values)  BY <1>1, <1>2
<1>5. next >= appendOffset
  <2>1. f[1] = appendOffset  BY <1>2 DEF Laid, LaidIn
  <2>2. CASE call.entry = 1  BY <1>2, <1>3, <2>1, <2>2
  <2>3. CASE call.entry # 1
    <3>1. 1 \in 1 .. Len(call.batch) /\ 1 \in 1 .. Len(call.batch) + 1 /\ 1 < call.entry
      BY <1>1, <2>3
    <3>2. f[1] + RecordSize(call.batch[1]) <= f[call.entry]  BY <1>1, <1>2, <3>1 DEF Laid, LaidIn
    <3>3. call.batch[1] \in Entry  BY <1>1, <3>1
    <3>4. RecordSize(call.batch[1]) \in Nat  BY <3>3, EntryFields
    <3> QED  BY <1>2, <1>3, <1>4, <2>1, <3>2, <3>4
  <2> QED  BY <2>2, <2>3
<1>6. ASSUME call.entry <= Len(call.batch)  PROVE f[call.entry + 1] = next + RecordSize(InHand)
  <2>1. call.entry \in 1 .. Len(call.batch) + 1 - 1  BY <1>1, <1>6
  <2> QED  BY <1>2, <2>1 DEF Laid, LaidIn, InHand
<1> QED  BY <1>1, <1>2, <1>3, <1>4, <1>5, <1>6

\* The index loop goes on to the next entry.
LEMMA NextEntryStep ==
  ASSUME StoreInv, pc \in {"store", "count"}, pc' = "store", call.entry <= Len(call.batch),
         NextEntry, UNCHANGED <<values, appendOffset>>
  PROVE  /\ call'.batch = call.batch /\ call'.unique = call.unique /\ call'.entry = call.entry + 1
         /\ CallTyped' /\ OffsetInv'
<1>1. call' = [call EXCEPT !.entry = @ + 1] /\ next' = next + RecordSize(InHand)  BY DEF NextEntry
<1>2. /\ call'.batch = call.batch /\ call'.unique = call.unique /\ call'.entry = call.entry + 1
      /\ call' = [batch |-> call'.batch, unique |-> call'.unique, entry |-> call'.entry]
  BY <1>1, CallShape
<1>3. PICK f \in [1 .. Len(call.batch) + 1 -> 0 .. Len(values)] :
           /\ Laid(f, Len(call.batch) + 1) /\ next = f[call.entry]
           /\ call.entry \in 1 .. Len(call.batch) + 1
           /\ next \in 0 .. Len(values) /\ next >= appendOffset /\ appendOffset > 0
           /\ call.entry <= Len(call.batch) => f[call.entry + 1] = next + RecordSize(InHand)
  BY StorePlace
<1>4. InCall /\ InCall' /\ ~Resizing'  BY DEF InCall, Resizing, BuildPcs
<1>5. call.batch # <<>> /\ call.batch \in Seq(Entry) /\ Len(call.batch) \in Nat
  BY <1>4, CallShape DEF StoreInv, Typed, CallTyped
<1>6. CallTyped'  BY <1>2, <1>3, <1>4, <1>5 DEF CallTyped
<1>7. OffsetInv'
  <2>1. call'.entry \in 1 .. Len(call.batch) + 1  BY <1>2, <1>3, <1>5
  <2>2. next' = f[call'.entry]  BY <1>1, <1>2, <1>3
  <2>3. next' \in Nat  BY <2>1, <2>2
  <2>4. \E g \in [1 .. Len(call'.batch) + 1 -> 0 .. Len(values')] :
          Laid(g, Len(call.batch) + 1)' /\ next' = g[call'.entry]
    BY <1>2, <1>3, <2>2 DEF Laid
  <2>5. appendOffset' \in 0 .. Len(values') /\ appendOffset' > 0  BY <1>3 DEF StoreInv, OffsetInv
  <2> QED  BY <1>4, <2>3, <2>4, <2>5 DEF OffsetInv
<1> QED  BY <1>2, <1>6, <1>7

\* The bucket for the entry that the index loop has in hand.
LEMMA StoreFacts ==
  ASSUME StoreInv, pc = "store", call.entry <= Len(call.batch),
         call.unique \/ ~FindCorrupt(InHand.obj)
  PROVE  LET o == InHand.obj IN
         /\ InHand \in Entry /\ o \in Obj /\ HashOf[o] \in Nat /\ HashOf[o] # 0
         /\ IndexTyped /\ Ready /\ Cardinality(Filled) < index.bucketCount
         /\ Target(o) \in DOMAIN index.slot
         /\ IsNew(o) <=> Target(o) \notin Filled
         /\ Cardinality(Filled) = index.itemCount
<1> DEFINE o == InHand.obj
<1>1. InCall  BY DEF InCall
<1>2. InHand \in Entry /\ call.entry \in 1 .. Len(call.batch)  BY <1>1, InHandFacts
<1>3. o \in Obj /\ HashOf[o] \in Nat /\ HashOf[o] # 0  BY <1>2, EntryFields
<1>4. IndexTyped /\ Ready /\ Cardinality(Filled) = index.itemCount  BY DEF StoreInv, Typed, LayoutInv
<1>5. Cardinality(Filled) < index.bucketCount
  <2>1. Within(index.itemCount + (Len(call.batch) + 1 - call.entry), index.bucketCount)
    BY DEF StoreInv, RoomInv
  <2>2. index.itemCount \in Nat /\ index.bucketCount \in Nat /\ index.bucketCount > 0
    BY <1>4 DEF IndexTyped, Ready
  <2>3. Len(call.batch) + 1 - call.entry \in Nat /\ Len(call.batch) + 1 - call.entry >= 1
    BY <1>2, CallShape
  <2>4. index.itemCount + (Len(call.batch) + 1 - call.entry) < index.bucketCount
    BY <2>1, <2>2, <2>3, WithinRoom
  <2> QED  BY <1>4, <2>2, <2>3, <2>4
<1> HIDE DEF o
<1>6. CASE call.unique
  <2>1. FirstEmpty(HashOf[o]) \in DOMAIN index.slot /\ FirstEmpty(HashOf[o]) \notin Filled
    BY <1>3, <1>4, <1>5, FirstEmptyFacts
  <2>2. Target(o) = FirstEmpty(HashOf[o]) /\ IsNew(o)  BY <1>6 DEF Target, IsNew
  <2> QED  BY <1>2, <1>3, <1>4, <1>5, <2>1, <2>2 DEF o
<1>7. CASE ~call.unique
  <2>1. Stops(o) # {}  BY <1>7 DEF FindCorrupt, o
  <2>2. FindBucket(o) \in DOMAIN index.slot /\ (Found(o) <=> FindBucket(o) \in Filled)
    BY <1>3, <1>4, <2>1, FindBucketFacts
  <2>3. Target(o) = FindBucket(o) /\ (IsNew(o) <=> ~Found(o))  BY <1>7 DEF Target, IsNew
  <2> QED  BY <1>2, <1>3, <1>4, <1>5, <2>2, <2>3 DEF o
<1> QED  BY <1>6, <1>7

LEMMA StoreEntryStep ==
  ASSUME StoreInv, StoreEntry
  PROVE  StoreInv'
<1> DEFINE o == InHand.obj
           s == [hash |-> HashOf[o], offset |-> next]
<1>1. /\ pc = "store" /\ call.entry <= Len(call.batch) /\ (call.unique \/ ~FindCorrupt(o))
      /\ index' = [index EXCEPT !.slot[Target(o)] = s]
      /\ \/ IsNew(o) /\ pc' = "count" /\ UNCHANGED <<call, next>>
         \/ ~IsNew(o) /\ NextEntry /\ pc' = "store"
      /\ UNCHANGED <<values, temp, appendOffset, build, status, calls, crashes>>
      /\ UNCHANGED <<acked, maybe, suspect>>
  BY DEF StoreEntry, Storing, bounds, history
<1>2. /\ InHand \in Entry /\ o \in Obj /\ HashOf[o] \in Nat /\ HashOf[o] # 0
      /\ IndexTyped /\ Ready /\ Target(o) \in DOMAIN index.slot
      /\ IsNew(o) <=> Target(o) \notin Filled
      /\ Cardinality(Filled) = index.itemCount
  BY <1>1, StoreFacts
<1>4. next \in Nat  BY DEF StoreInv, OffsetInv
<1>5. s \in SlotType /\ s.hash # 0  BY <1>2, <1>4 DEF SlotType
<1> HIDE DEF o, s
<1>3. /\ IndexTyped' /\ index'.header = index.header /\ index'.bucketCount = index.bucketCount
      /\ index'.itemCount = index.itemCount /\ DOMAIN index'.slot = DOMAIN index.slot
      /\ ~IsNew(o) => Cardinality(Filled') = Cardinality(Filled)
      /\ IsNew(o) => Cardinality(Filled') = Cardinality(Filled) + 1
  BY <1>1, <1>2, <1>5, SlotStored
<1>7. pc \notin BuildPcs /\ pc' \notin BuildPcs /\ ~Resizing' /\ InCall /\ InCall'
  BY <1>1 DEF BuildPcs, Resizing, InCall
<1>6. /\ CallTyped' /\ OffsetInv' /\ RoomInv' /\ call'.unique = call.unique
      /\ \/ pc' = "count" /\ Cardinality(Filled') = index'.itemCount + 1
         \/ pc' = "store" /\ Cardinality(Filled') = index'.itemCount
  <2>8. CASE IsNew(o) /\ pc' = "count" /\ UNCHANGED <<call, next>>
    <3>1. CallTyped'  BY <1>1, <1>7, <2>8 DEF StoreInv, Typed, CallTyped
    <3>2. OffsetInv'
      <4>1. PICK f \in [1 .. Len(call.batch) + 1 -> 0 .. Len(values)] :
              Laid(f, Len(call.batch) + 1) /\ next = f[call.entry]
        BY <1>1 DEF StoreInv, OffsetInv
      <4>2. \E g \in [1 .. Len(call'.batch) + 1 -> 0 .. Len(values')] :
              Laid(g, Len(call.batch) + 1)' /\ next' = g[call'.entry]
        BY <1>1, <2>8, <4>1 DEF Laid
      <4> QED  BY <1>1, <1>7, <2>8, <4>2 DEF StoreInv, OffsetInv
    <3>3. RoomInv'  BY <1>1, <1>3, <2>8 DEF StoreInv, RoomInv
    <3> QED  BY <1>2, <1>3, <2>8, <3>1, <3>2, <3>3
  <2>9. CASE ~IsNew(o) /\ NextEntry /\ pc' = "store"
    <3>1. /\ call'.batch = call.batch /\ call'.unique = call.unique /\ call'.entry = call.entry + 1
          /\ CallTyped' /\ OffsetInv'
      BY <1>1, <2>9, NextEntryStep
    <3>2. RoomInv'
      <4>1. Within(index.itemCount + (Len(call.batch) + 1 - call.entry), index.bucketCount)
        BY <1>1 DEF StoreInv, RoomInv
      <4>2. index.itemCount \in Nat /\ index.bucketCount \in Nat  BY <1>2 DEF IndexTyped
      <4>3. Len(call.batch) + 1 - (call.entry + 1) \in Nat /\ Len(call.batch) + 1 - call.entry \in Nat
            /\ Len(call.batch) + 1 - (call.entry + 1) <= Len(call.batch) + 1 - call.entry
        BY <1>1, CallShape
      <4>4. Within(index.itemCount + (Len(call.batch) + 1 - (call.entry + 1)), index.bucketCount)
        BY <4>1, <4>2, <4>3, WithinLess
      <4> QED  BY <1>3, <2>9, <3>1, <4>4 DEF RoomInv
    <3> QED  BY <1>2, <1>3, <2>9, <3>1, <3>2
  <2> QED  BY <1>1, <2>8, <2>9
<1>21. FilesTyped'  BY <1>1 DEF StoreInv, Typed, FilesTyped
<1>22. HistoryTyped'  BY <1>1 DEF StoreInv, Typed, HistoryTyped
<1>23. IndexTyped'  BY <1>3
<1>24. FlagsTyped'
  <2>1. suspect \in BOOLEAN  BY DEF StoreInv, Typed, FlagsTyped
  <2> QED  BY <1>1, <1>3, <1>6, <2>1, FlagsKept DEF StoreInv, Typed
<1>25. CallTyped'  BY <1>6
<1>26. BuildTyped'  BY <1>1, <1>7 DEF StoreInv, Typed, BuildTyped, ToPlace
<1>27. SessionTyped'  BY <1>1 DEF StoreInv, Typed, SessionTyped, PcLabels
<1>28. HeaderInv'  BY <1>1 DEF StoreInv, HeaderInv
<1>29. OffsetInv'  BY <1>6
<1>30. LayoutInv'
  <2>1. Ready'  BY <1>2, <1>3 DEF Ready
  <2> QED  BY <1>1, <1>6, <2>1 DEF LayoutInv
<1>31. RoomInv'  BY <1>6
<1> QED
  BY <1>21, <1>22, <1>23, <1>24, <1>25, <1>26, <1>27, <1>28, <1>29, <1>30, <1>31
  DEF StoreInv, Typed

LEMMA CountEntryStep ==
  ASSUME StoreInv, CountEntry
  PROVE  StoreInv'
<1>1. /\ pc = "count" /\ pc' = "store" /\ NextEntry /\ index' = [index EXCEPT !.itemCount = @ + 1]
      /\ UNCHANGED <<values, temp, appendOffset, build, status, calls, crashes>>
      /\ UNCHANGED <<acked, maybe, suspect>>
  BY DEF CountEntry, bounds, history
<1>2. pc \notin BuildPcs /\ pc' \notin BuildPcs /\ InCall  BY <1>1 DEF BuildPcs, InCall
<1>3. /\ IndexTyped' /\ index'.header = index.header /\ index'.bucketCount = index.bucketCount
      /\ index'.itemCount = index.itemCount + 1 /\ index'.slot = index.slot /\ Filled' = Filled
  BY <1>1, ItemCounted DEF StoreInv, Typed
<1>4. call.entry <= Len(call.batch)  BY <1>1, <1>2 DEF StoreInv, Typed, CallTyped
<1>6. /\ call'.batch = call.batch /\ call'.unique = call.unique /\ call'.entry = call.entry + 1
      /\ CallTyped' /\ OffsetInv'
  BY <1>1, <1>4, NextEntryStep
<1>21. FilesTyped'  BY <1>1 DEF StoreInv, Typed, FilesTyped
<1>22. HistoryTyped'  BY <1>1 DEF StoreInv, Typed, HistoryTyped
<1>23. IndexTyped'  BY <1>3
<1>24. FlagsTyped'
  <2>1. suspect \in BOOLEAN  BY DEF StoreInv, Typed, FlagsTyped
  <2> QED  BY <1>1, <1>3, <1>6, <2>1, FlagsKept DEF StoreInv, Typed
<1>25. CallTyped'  BY <1>6
<1>26. BuildTyped'  BY <1>1, <1>2 DEF StoreInv, Typed, BuildTyped, ToPlace
<1>27. SessionTyped'  BY <1>1 DEF StoreInv, Typed, SessionTyped, PcLabels
<1>28. HeaderInv'  BY <1>1 DEF StoreInv, HeaderInv
<1>29. OffsetInv'  BY <1>6
<1>30. LayoutInv'
  <2>1. Ready /\ Cardinality(Filled) = index.itemCount + 1  BY <1>1 DEF StoreInv, LayoutInv
  <2>2. Ready'  BY <1>3, <2>1 DEF Ready
  <2> QED  BY <1>1, <1>3, <2>1, <2>2 DEF LayoutInv
<1>31. RoomInv'
  <2>1. Within(index.itemCount + (Len(call.batch) + 1 - call.entry), index.bucketCount)
    BY <1>1 DEF StoreInv, RoomInv
  <2>2. index.itemCount \in Nat  BY DEF StoreInv, Typed, IndexTyped
  <2>3. index'.itemCount + (Len(call'.batch) + 1 - call'.entry)
          = index.itemCount + (Len(call.batch) + 1 - call.entry)
    BY <1>3, <1>6, <2>2, CallShape
  <2> QED  BY <1>1, <1>3, <2>1, <2>3 DEF RoomInv
<1> QED
  BY <1>21, <1>22, <1>23, <1>24, <1>25, <1>26, <1>27, <1>28, <1>29, <1>30, <1>31
  DEF StoreInv, Typed

LEMMA FinishWriteStep ==
  ASSUME StoreInv, FinishWrite
  PROVE  StoreInv'
<1>1. /\ pc = "store" /\ pc' = "idle" /\ call.entry > Len(call.batch) /\ appendOffset' = next
      /\ status' = "OK" /\ Acknowledged /\ next' = 0 /\ call' = NoCall /\ build' = NoBuild
      /\ UNCHANGED <<values, temp, index, calls, crashes, suspect>>
  BY DEF FinishWrite, EndOfBatch, Reset, disk, bounds
<1>2. ~InCall' /\ ~Resizing' /\ pc' \notin BuildPcs  BY <1>1 DEF InCall, Resizing, BuildPcs
<1>3. CallTyped' /\ BuildTyped'  BY <1>1, <1>2, NoCallTyped, NoBuildTyped
<1>4. call'.unique = FALSE  BY <1>1 DEF NoCall
<1>21. FilesTyped'  BY <1>1 DEF StoreInv, Typed, FilesTyped
<1>22. HistoryTyped'  BY <1>1, AcknowledgedTyped DEF StoreInv, Typed, CallTyped
<1>23. IndexTyped'  BY <1>1 DEF StoreInv, Typed, IndexTyped
<1>24. FlagsTyped'  BY <1>1, <1>4, Zenon DEF StoreInv, Typed, FlagsTyped
<1>25. CallTyped'  BY <1>3
<1>26. BuildTyped'  BY <1>3
<1>27. SessionTyped'  BY <1>1 DEF StoreInv, Typed, SessionTyped, PcLabels
<1>28. HeaderInv'  BY <1>1 DEF StoreInv, HeaderInv
<1>29. OffsetInv'
  <2>1. next \in 0 .. Len(values) /\ next >= appendOffset /\ appendOffset > 0  BY <1>1, StorePlace
  <2>2. next > 0  BY <2>1 DEF StoreInv, OffsetInv
  <2> QED  BY <1>1, <1>2, <2>1, <2>2 DEF OffsetInv
<1>30. LayoutInv'  BY <1>1, <1>2 DEF StoreInv, LayoutInv, Ready, Filled
<1>31. RoomInv'  BY <1>1 DEF RoomInv
<1> QED
  BY <1>21, <1>22, <1>23, <1>24, <1>25, <1>26, <1>27, <1>28, <1>29, <1>30, <1>31
  DEF StoreInv, Typed

-----------------------------------------------------------------------------
(* The inductive invariant.                                                *)

LEMMA InitStore == Init => StoreInv
<1> SUFFICES ASSUME Init  PROVE StoreInv  OBVIOUS
<1>1. /\ temp = <<>> /\ pc = "closed" /\ appendOffset = 0 /\ next = 0 /\ call = NoCall
      /\ build = NoBuild /\ status = "OK" /\ calls = 0 /\ crashes = 0 /\ suspect = FALSE
      /\ maybe = [o \in Obj |-> {}] /\ acked = [o \in Obj |-> LegacyVal(values, o)]
  BY DEF Init
<1>2. (values = <<>> \/ OldFile(values)) /\ IndexFile(index)  BY FilesAssumption DEF Init
<1>3. values \in Seq(Cell) /\ (values # <<>> => values[1] = LegacyHeader)
  <2>1. CASE values = <<>>  BY <2>1
  <2>2. CASE OldFile(values)  BY <2>2 DEF OldFile
  <2> QED  BY <1>2, <2>1, <2>2
<1>4. /\ index = [header |-> index.header, bucketCount |-> index.bucketCount,
                  itemCount |-> index.itemCount, slot |-> index.slot]
      /\ index.bucketCount \in Nat /\ index.itemCount \in Nat
      /\ index.slot \in [DOMAIN index.slot -> SlotType]
  <2> DEFINE S == [DOMAIN index.slot -> SlotType]
  <2>1. index \in [header : BOOLEAN, bucketCount : Nat, itemCount : Nat, slot : S]
    BY <1>2 DEF IndexFile
  <2> HIDE DEF S
  <2>2. /\ index = [header |-> index.header, bucketCount |-> index.bucketCount,
                    itemCount |-> index.itemCount, slot |-> index.slot]
        /\ index.bucketCount \in Nat /\ index.itemCount \in Nat /\ index.slot \in S
    BY <2>1
  <2> QED  BY <2>2 DEF S
<1>5. index.header \in BOOLEAN
  <2>1. index \in [header : BOOLEAN, bucketCount : Nat, itemCount : Nat,
                   slot : [DOMAIN index.slot -> SlotType]]
    BY <1>2 DEF IndexFile
  <2> QED  BY <2>1, Zenon
<1>6. IndexTyped  BY <1>2, <1>4 DEF IndexTyped, IndexFile
<1>7. ~InCall /\ ~Resizing /\ pc \notin BuildPcs  BY <1>1 DEF InCall, Resizing, BuildPcs
<1>8. CallTyped
  <2>1. <<>> \in Seq(Entry)  OBVIOUS
  <2> QED  BY <1>1, <1>7, <2>1 DEF CallTyped, NoCall
<1>9. BuildTyped
  <2>1. NoSlots \in [{} -> SlotType] /\ DOMAIN NoSlots = {} /\ IsFiniteSet({})
    BY FS_EmptySet DEF NoSlots
  <2>2. /\ build.count = 0 /\ build.resume = "idle" /\ build.copy = NoSlots
        /\ build = [count |-> build.count, copy |-> build.copy, resume |-> build.resume]
    BY <1>1 DEF NoBuild
  <2>3. ToPlace = {}  BY <2>1, <2>2 DEF ToPlace
  <2> QED  BY <1>7, <2>1, <2>2, <2>3 DEF BuildTyped
<1>10. SessionTyped  BY <1>1, ObjectAssumption DEF SessionTyped, PcLabels
<1>11. HistoryTyped
  <2>1. ASSUME NEW o \in Obj  PROVE LegacyVal(values, o) \in Val \cup {NoVal}
    <3> DEFINE Of == {i \in DOMAIN values : values[i].obj = o /\ values[i].at = -2}
    <3>1. Len(values) \in Nat /\ DOMAIN values = 1 .. Len(values)  BY <1>3
    <3>2. CASE Of = {}  BY <3>2 DEF LegacyVal
    <3>3. CASE Of # {}
      <4>1. Of \in SUBSET (0 .. Len(values))  BY <3>1
      <4>2. Max(Of) \in Of  BY <3>1, <3>3, <4>1, MaxOfBounded
      <4>3. LegacyVal(values, o) = values[Max(Of)].val  BY <3>3 DEF LegacyVal
      <4>4. Max(Of) \in DOMAIN values /\ values[Max(Of)] \in Cell /\ values[Max(Of)].obj = o
        BY <1>3, <4>2
      <4> QED  BY <4>3, <4>4 DEF Cell, FileHeader, LegacyHeader, Fragment
    <3> QED  BY <3>2, <3>3
  <2>2. acked \in [Obj -> Val \cup {NoVal}]  BY <1>1, <2>1
  <2>3. maybe \in [Obj -> SUBSET Val]  BY <1>1
  <2> QED  BY <2>2, <2>3 DEF HistoryTyped
<1>12. FlagsTyped
  <2>1. call.unique = FALSE  BY <1>1 DEF NoCall
  <2> QED  BY <1>1, <1>5, <2>1, Zenon DEF FlagsTyped
<1>13. FilesTyped  BY <1>1, <1>3 DEF FilesTyped
<1>14. HeaderInv  BY <1>1, <1>3 DEF HeaderInv
<1>15. OffsetInv
  <2>1. Len(values) \in Nat  BY <1>3
  <2> QED  BY <1>1, <1>7, <2>1 DEF OffsetInv
<1>16. LayoutInv  BY <1>1 DEF LayoutInv
<1>17. RoomInv  BY <1>1 DEF RoomInv
<1> QED
  BY <1>6, <1>8, <1>9, <1>10, <1>11, <1>12, <1>13, <1>14, <1>15, <1>16, <1>17
  DEF StoreInv, Typed

LEMMA StoreStutter ==
  ASSUME StoreInv, UNCHANGED vars
  PROVE  StoreInv'
<1>1. /\ values' = values /\ temp' = temp /\ index' = index /\ pc' = pc
      /\ appendOffset' = appendOffset /\ next' = next /\ call' = call /\ build' = build
      /\ status' = status /\ calls' = calls /\ crashes' = crashes
      /\ acked' = acked /\ maybe' = maybe /\ suspect' = suspect
  BY DEF vars, disk, locals, bounds, history
<1>2. Typed'
  BY <1>1 DEF StoreInv, Typed, FilesTyped, IndexTyped, CallTyped, BuildTyped, ToPlace, SessionTyped,
              HistoryTyped, FlagsTyped, InCall, Resizing
<1>3. HeaderInv'  BY <1>1 DEF StoreInv, HeaderInv, IsLegacy
<1>4. OffsetInv'
  BY <1>1 DEF StoreInv, OffsetInv, Resizing, Laid, ScanValid, IsValidRecordHeader, HeadAt,
              RecordEnd, ValLenAt
<1>5. LayoutInv'  BY <1>1 DEF StoreInv, LayoutInv, Ready, Filled, ToPlace
<1>6. RoomInv'  BY <1>1 DEF StoreInv, RoomInv, ToPlace, Asked
<1> QED  BY <1>2, <1>3, <1>4, <1>5, <1>6 DEF StoreInv

LEMMA WritesStep ==
  ASSUME StoreInv, PutStructs \/ PutUniqueStructs
  PROVE  StoreInv'
<1>1. CASE PutStructs
  <2>1. PICK b \in Batch : CallWriteStructs(b, FALSE)  BY <1>1 DEF PutStructs
  <2>2. b \in Seq(Entry) /\ b # <<>>  BY ObjectAssumption
  <2> QED  BY <2>1, <2>2, CallWriteStructsStep
<1>2. CASE PutUniqueStructs
  <2>1. PICK b \in UniqueBatch : CallWriteStructs(b, TRUE)  BY <1>2 DEF PutUniqueStructs
  <2>2. b \in Seq(Entry) /\ b # <<>>  BY ObjectAssumption
  <2> QED  BY <2>1, <2>2, CallWriteStructsStep
<1> QED  BY <1>1, <1>2

LEMMA NextStore ==
  ASSUME StoreInv, [Next]_vars
  PROVE  StoreInv'
<1>1. CASE UNCHANGED vars  BY <1>1, StoreStutter
<1>2. CASE \/ OpenValueFile \/ CopyRecord \/ CopyFails \/ RenameMigrated
           \/ RemoveStaleIndex \/ UseIndex \/ StartRebuild \/ OpenReadOnly
  BY <1>2, OpenValueFileStep, CopyRecordStep, CopyFailsStep, RenameMigratedStep,
     RemoveStaleIndexStep, UseIndexStep, StartRebuildStep, OpenReadOnlyStep
<1>3. CASE \/ Truncate \/ Zero \/ StoreHeader \/ PlaceExistingBucket \/ CountPlaced
           \/ Built \/ EnsureCapacityForInsert \/ MapFails
  BY <1>3, TruncateStep, ZeroStep, StoreHeaderStep, PlaceExistingBucketStep, CountPlacedStep,
     BuiltStep, EnsureCapacityForInsertStep, MapFailsStep
<1>4. CASE ScanGrows \/ ScanRecord \/ CountScanned \/ ScanFails \/ ScanEnds
  BY <1>4, ScanGrowsStep, ScanRecordStep, CountScannedStep, ScanFailsStep, ScanEndsStep
<1>5. CASE \/ PutStructs \/ PutUniqueStructs \/ AppendRecord \/ AppendFails
           \/ StoreEntry \/ CountEntry \/ FindFails \/ FinishWrite
  BY <1>5, WritesStep, AppendRecordStep, AppendFailsStep, StoreEntryStep, CountEntryStep,
     FindFailsStep, FinishWriteStep
<1>6. CASE UseUnmapped \/ Close \/ Crash \/ DeleteIndex
  BY <1>6, UseUnmappedStep, CloseStep, CrashStep, DeleteIndexStep
<1> QED  BY <1>1, <1>2, <1>3, <1>4, <1>5, <1>6 DEF Next

\* The inductive invariant of the object store: types, a value file without
\* holes, batches laid down one record after the other, every bucket counted
\* but the one just stored into, and room in the index for what is under way.
THEOREM StoreInvariant == Spec => []StoreInv
<1>1. Init => StoreInv  BY InitStore
<1>2. StoreInv /\ [Next]_vars => StoreInv'  BY NextStore
<1> QED  BY <1>1, <1>2, PTL DEF Spec

LEMMA TypesImplied == StoreInv => TypeOK
<1> SUFFICES ASSUME StoreInv  PROVE TypeOK  OBVIOUS
<1>1. IndexFile(index)
  <2> DEFINE S == [DOMAIN index.slot -> SlotType]
  <2>1. /\ index = [header |-> index.header, bucketCount |-> index.bucketCount,
                    itemCount |-> index.itemCount, slot |-> index.slot]
        /\ index.bucketCount \in Nat /\ index.itemCount \in Nat /\ index.slot \in S
        /\ DOMAIN index.slot \in SUBSET Nat /\ IsFiniteSet(DOMAIN index.slot)
    BY DEF StoreInv, Typed, IndexTyped
  <2>2. index.header \in BOOLEAN  BY DEF StoreInv, Typed, FlagsTyped
  <2> HIDE DEF S
  <2>3. index \in [header : BOOLEAN, bucketCount : Nat, itemCount : Nat, slot : S]
    BY <2>1, <2>2, Zenon
  <2> QED  BY <2>1, <2>3 DEF IndexFile, S
<1>2. call.batch \in Seq(Entry) /\ call.entry \in 0 .. Len(call.batch) + 1
  <2>1. CASE InCall  BY <2>1 DEF StoreInv, Typed, CallTyped
  <2>2. CASE ~InCall  BY <2>2 DEF StoreInv, Typed, CallTyped, NoCall
  <2> QED  BY <2>1, <2>2
<1>3. \A b \in ToPlace : b \in Nat /\ build.copy[b] \in SlotType  BY DEF StoreInv, Typed, BuildTyped
<1>4. call.unique \in BOOLEAN /\ suspect \in BOOLEAN  BY DEF StoreInv, Typed, FlagsTyped
<1>5. appendOffset \in 0 .. Len(values) /\ next \in Nat  BY DEF StoreInv, OffsetInv
<1> QED
  BY <1>1, <1>2, <1>3, <1>4, <1>5
  DEF TypeOK, StoreInv, Typed, FilesTyped, BuildTyped, SessionTyped, HistoryTyped

\* TypeOK: whatever fails, appendOffset_ stays inside the value file, so that
\* no append leaves a hole, and every variable keeps its type.
THEOREM ObjectTypeOK == Spec => []TypeOK
BY StoreInvariant, TypesImplied, PTL

\* LayoutValid: the index in use is one that HasValidIndexLayout accepts, also
\* after a batch that failed half way, a cut append or a cut rebuild.
THEOREM ObjectLayoutValid == Spec => []LayoutValid
<1>1. StoreInv => LayoutValid
  BY DEF StoreInv, LayoutInv, LayoutValid, Serving, HasValidIndexLayout, Ready
<1> QED  BY <1>1, StoreInvariant, PTL
=============================================================================
