---------------------------- MODULE ObjectStore ----------------------------
(***************************************************************************)
(* The object path of LumoDB (src/src/lumodb/database.cpp): one process    *)
(* opens a database (migrating a file of the preceding format), writes     *)
(* batches of objects, reads and dumps them, closes, dies, reopens.        *)
(* Object calls are serial (README:149), so there is one thread here; what *)
(* makes this path hard is where it may be cut: an append that fails half  *)
(* way, a record read that fails in the middle of a batch, a process that  *)
(* dies between two stores to the memory-mapped index, an index file that  *)
(* is missing, stale or half built at the next Open.                       *)
(*                                                                         *)
(* A crash is the death of the process: what it wrote with pwritev and     *)
(* what it stored through the shared mapping survives, in the order it     *)
(* was done.  Loss of power is the subject of module Lifecycle.            *)
(***************************************************************************)
EXTENDS Integers, Sequences, FiniteSets, FiniteSetsExt, Functions

CONSTANTS
  Obj,          \* (column, key) pairs
  NoObj,
  Column,
  ColumnOf,     \* Obj -> Column
  HashOf,       \* Obj -> ObjectIndexHash(column, key), never 0
  Val, NoVal,
  ValLen,       \* Val -> cells that the value takes in the file
  Unreadable,   \* GetStruct returns an error, or bytes nobody wrote as a value
  Batch,        \* the entry lists that PutStructs is called with
  UniqueBatch,  \* the entry lists that PutUniqueStructs is called with
  InitialFiles, \* the [values, index] pairs that the first Open may find
  InitialBucketCount, \* as CreateEmptyIndex rounds it up
  LoadNum, LoadDen,   \* maxLoadFactor as a fraction
  MaxCalls,     \* bound: write calls
  MaxCrashes,   \* bound: process deaths
  Faults        \* which of append, read, map, crash and delete may happen

Entry == [obj : Obj, val : Val]

ASSUME ObjectAssumption ==
  /\ NoObj \notin Obj /\ NoVal \notin Val /\ Unreadable \notin Val \cup {NoVal}
  /\ ColumnOf \in [Obj -> Column]
  /\ HashOf \in [Obj -> Nat \ {0}]
  /\ ValLen \in [Val -> Nat]
  /\ \A b \in Batch \cup UniqueBatch : b \in Seq(Entry) /\ b # <<>>
  /\ InitialBucketCount \in Nat \ {0} /\ \E k \in 0 .. 30 : InitialBucketCount = 2 ^ k
  /\ LoadNum \in Nat \ {0} /\ LoadDen \in Nat /\ LoadNum < LoadDen
  /\ MaxCalls \in Nat /\ MaxCrashes \in Nat
  /\ Faults \subseteq {"append", "read", "map", "crash", "delete"}

VARIABLES
  values,       \* values.lumov as a sequence of cells; offset o is values[o+1]
  temp,         \* values.lumov.migrating
  index,        \* index.lumoi: header, bucketCount, itemCount and slots
  pc,           \* where the process is
  appendOffset, \* appendOffset_
  next,         \* the offset of the record in hand (write, rebuild, migration)
  call,         \* WriteStructs: entries, keysAreUnique and the entry in hand
  build,        \* CreateEmptyIndex: bucketCount, the buckets that ResizeIndex
                \* has still to place, and where it returns to
  status,       \* what the last Open, Close or write returned
  calls, crashes,
  \* History: the value that the last acknowledged write gave an object, the
  \* values of later writes that failed or were cut, and whether the index
  \* comes from a build that was cut or that scanned a torn value file.
  acked, maybe, suspect

disk    == <<values, temp, index>>
locals  == <<next, call, build>>
bounds  == <<calls, crashes>>
history == <<acked, maybe, suspect>>
vars == <<disk, pc, appendOffset, locals, status, bounds, history>>

-----------------------------------------------------------------------------
(* The value file: a file header, then records.  A record is a head (its   *)
(* header, column and key) and as many cells as its value takes; in the    *)
(* preceding format the head takes two cells.                              *)

FileHeader   == [obj |-> NoObj, val |-> NoVal, at |-> 0]
LegacyHeader == [obj |-> NoObj, val |-> NoVal, at |-> -1]
Fragment     == [obj |-> NoObj, val |-> NoVal, at |-> 1]
Cell == [obj : Obj, val : Val, at : {-2, -1} \cup Nat]
          \cup {FileHeader, LegacyHeader, Fragment}

RecordSize(e) == 1 + ValLen[e.val]
Record(e) == [i \in 1 .. RecordSize(e) |->
                [obj |-> e.obj, val |-> e.val, at |-> i - 1]]

\* What pwritev leaves behind: cells at offset o, the rest as it was.
Overwrite(file, o, cells) ==
  [i \in 1 .. Max({Len(file), o + Len(cells)}) |->
     IF i \in o + 1 .. o + Len(cells) THEN cells[i - o] ELSE file[i]]

\* A record that was cut: some of its cells, and perhaps a piece of the next.
Cut(e) ==
  LET Part(k) == SubSeq(Record(e), 1, k) IN
  {Part(k) : k \in 0 .. RecordSize(e) - 1}
    \cup {Append(Part(k), Fragment) : k \in 0 .. RecordSize(e) - 2}

\* Is there a head of the given kind at offset o?
HeadAt(o, kind) ==
  /\ o + 1 \in DOMAIN values
  /\ values[o + 1].obj \in Obj /\ values[o + 1].at = kind
IsValidRecordHeader(o) == HeadAt(o, 0)
IsValidLegacyRecordHeader(o) == HeadAt(o, -2) /\ HeadAt(o + 1, -1)
ValLenAt(o) == ValLen[values[o + 1].val]
RecordEnd(o) == o + 1 + ValLenAt(o)

\* Every cell behind the file header belongs to a whole record.
Whole ==
  \A i \in 2 .. Len(values) :
    LET c == values[i] IN
    /\ c.obj \in Obj /\ c.at \in 0 .. ValLen[c.val]
    /\ \A n \in 0 .. ValLen[c.val] :
         /\ i - c.at + n \in 2 .. Len(values)
         /\ values[i - c.at + n] = [c EXCEPT !.at = n]

-----------------------------------------------------------------------------
(* The index file.                                                         *)

EmptySlot == [hash |-> 0, offset |-> 0]
NoSlots == [b \in {} |-> EmptySlot]
NoIndex == [header |-> FALSE, bucketCount |-> 0, itemCount |-> 0,
            slot |-> NoSlots]

SlotType == [hash : Nat, offset : Nat]
IndexFile(f) ==
  /\ f \in [header : BOOLEAN, bucketCount : Nat, itemCount : Nat,
            slot : [DOMAIN f.slot -> SlotType]]
  /\ DOMAIN f.slot \subseteq Nat /\ IsFiniteSet(DOMAIN f.slot)

\* The first Open finds no files, or a value file of the preceding format: perhaps
\* cut, each cell behind its header in a record whose cells are in their places.
OldFile(file) ==
  LET Place(at) == IF at < 0 THEN at + 2 ELSE at + 1 IN
  /\ file \in Seq(Cell) /\ file # <<>> /\ file[1] = LegacyHeader
  /\ \A i \in 2 .. Len(file) :
       LET c  == file[i]
           At == {-2, -1} \cup 1 .. ValLen[c.val]
           s  == i - Place(c.at) IN
       /\ c.obj \in Obj /\ c.at \in At /\ s > 1
       /\ \A n \in At : s + Place(n) <= Len(file) =>
                        file[s + Place(n)] = [c EXCEPT !.at = n]

ASSUME FilesAssumption ==
  \A f \in InitialFiles : /\ (f.values = <<>> /\ f.index = NoIndex) \/ OldFile(f.values)
                          /\ IndexFile(f.index)

Filled == {b \in DOMAIN index.slot : index.slot[b].hash # 0}

HasValidIndexLayout ==
  /\ index.header /\ index.bucketCount > 0
  /\ DOMAIN index.slot = 0 .. index.bucketCount - 1
  /\ Cardinality(Filled) = index.itemCount

\* The k-th bucket that a probe for hash h meets.
Probe(h, k) == (h + k) % index.bucketCount
Probes == 0 .. index.bucketCount - 1

\* PlaceExistingBucket and PlaceNewBucket: the first empty bucket.
FirstEmpty(h) == Probe(h, Min({k \in Probes : Probe(h, k) \notin Filled}))

\* FindBucket: the first bucket that is empty, or has the hash and a record
\* that is the object's or cannot be read.
Stops(o) ==
  {k \in Probes :
     LET s == index.slot[Probe(HashOf[o], k)] IN
     \/ s.hash = 0
     \/ /\ s.hash = HashOf[o]
        /\ IsValidRecordHeader(s.offset) => values[s.offset + 1].obj = o}
FindBucket(o) == Probe(HashOf[o], Min(Stops(o)))
Found(o) == index.slot[FindBucket(o)].hash # 0
FindCorrupt(o) ==
  \/ Stops(o) = {}
  \/ Found(o) /\ ~IsValidRecordHeader(index.slot[FindBucket(o)].offset)

\* FindBucket has to read a record, so the read may fail.
FindReads(o) ==
  \E k \in Probes : /\ index.slot[Probe(HashOf[o], k)].hash = HashOf[o]
                    /\ Stops(o) # {} => k <= Min(Stops(o))

\* FindBucket returns an error, of its own or of ReadAllAt.
FindErrs(o) == FindCorrupt(o) \/ ("read" \in Faults /\ FindReads(o))
FindStatus(o) == IF FindCorrupt(o) THEN "Corruption" ELSE "IOError"

\* The value that is read behind the record header at offset s.
ReadRecord(s) ==
  LET c == values[s + 1] IN
  IF \A i \in 1 .. ValLen[c.val] :
       s + i + 1 \in DOMAIN values /\ values[s + i + 1] = [c EXCEPT !.at = i]
  THEN c.val ELSE Unreadable

\* What GetStruct answers for object o.
GetStruct(o) ==
  IF FindCorrupt(o) THEN Unreadable
  ELSE IF ~Found(o) THEN NoVal
  ELSE ReadRecord(index.slot[FindBucket(o)].offset)

\* Dump and GetColumnStats go through the buckets instead of probing.
RecordOf(b) == index.slot[b].offset
Dump == {<<values[RecordOf(b) + 1].obj, ReadRecord(RecordOf(b))>> : b \in Filled}
ObjectCount(c) ==
  Cardinality({b \in Filled : ColumnOf[values[RecordOf(b) + 1].obj] = c})

\* The load factor allows n more items than the index has.
Allows(buckets, n) == (index.itemCount + n) * LoadDen <= LoadNum * buckets
Fits(n) == Allows(index.bucketCount, n)

-----------------------------------------------------------------------------
NoCall  == [batch |-> <<>>, unique |-> FALSE, entry |-> 0]
NoBuild == [count |-> 0, copy |-> NoSlots, resume |-> "idle"]
Reset   == next' = 0 /\ call' = NoCall /\ build' = NoBuild

\* The last record of an object in a file of the preceding format.
LegacyVal(file, o) ==
  LET Of == {i \in DOMAIN file : file[i].obj = o /\ file[i].at = -2} IN
  IF Of = {} THEN NoVal ELSE file[Max(Of)].val

Init ==
  /\ \E f \in InitialFiles : values = f.values /\ index = f.index
  /\ temp = <<>>
  /\ pc = "closed"
  /\ appendOffset = 0
  /\ next = 0 /\ call = NoCall /\ build = NoBuild
  /\ status = "OK"
  /\ calls = 0 /\ crashes = 0
  /\ acked = [o \in Obj |-> LegacyVal(values, o)]
  /\ maybe = [o \in Obj |-> {}]
  /\ suspect = FALSE

\* The entries of the running write for object o.
Entries(o) == {i \in DOMAIN call.batch : call.batch[i].obj = o}

\* The running write ends without an acknowledgement.
Unacknowledged ==
  /\ maybe' = [o \in Obj |-> maybe[o] \cup {call.batch[i].val : i \in Entries(o)}]
  /\ UNCHANGED acked

\* The last entry for a key is the one that counts.
Acknowledged ==
  /\ acked' = [o \in Obj |-> IF Entries(o) = {} THEN acked[o]
                             ELSE call.batch[Max(Entries(o))].val]
  /\ maybe' = [o \in Obj |-> IF Entries(o) = {} THEN maybe[o] ELSE {}]

\* CloseFiles.
Closed == pc' = "closed" /\ appendOffset' = 0 /\ Reset

-----------------------------------------------------------------------------
(* Open: the value file.                                                   *)

\* Mutant: a reopened file is appended to from its start.
EndOf_Start(file) == 1

EndOf(file) == Len(file)

IsLegacy == values # <<>> /\ values[1] = LegacyHeader

\* A new file gets its header, a file of the preceding format is migrated, any
\* other is appended to from its end.
OpenValueFile ==
  /\ pc = "closed"
  /\ status' = "OK"
  /\ IF IsLegacy
     THEN /\ pc' = "migrate"
          /\ temp' = <<FileHeader>> /\ next' = 1
          /\ UNCHANGED <<values, appendOffset>>
     ELSE /\ pc' = "openIndex"
          /\ values' = IF values = <<>> THEN <<FileHeader>> ELSE values
          /\ appendOffset' = EndOf(values')
          /\ UNCHANGED <<temp, next>>
  /\ UNCHANGED <<index, call, build, bounds, history>>

\* MigrateLegacyValueFile: a compact header, then the bytes of the record.
CopyValid ==
  IsValidLegacyRecordHeader(next) /\ next + 2 + ValLenAt(next) <= Len(values)

CopyRecord ==
  /\ pc = "migrate" /\ next < Len(values)
  /\ CopyValid
  /\ LET end == next + 2 + ValLenAt(next) IN
     /\ temp' = temp \o <<[values[next + 1] EXCEPT !.at = 0]>>
                     \o SubSeq(values, next + 3, end)
     /\ next' = end
  /\ UNCHANGED <<values, index, pc, appendOffset, call, build, status, bounds,
                 history>>

\* The file is cut or cannot be read: Open returns the error, the value file
\* is as it was.
CopyFails ==
  /\ pc = "migrate" /\ next < Len(values)
  /\ \/ ~CopyValid /\ status' = "Corruption"
     \/ "read" \in Faults /\ status' = "IOError"
  /\ Closed
  /\ UNCHANGED <<disk, bounds, history>>

RenameMigrated ==
  /\ pc = "migrate" /\ next >= Len(values)
  /\ values' = temp /\ temp' = <<>>
  /\ pc' = "removeIndex"
  /\ next' = 0
  /\ UNCHANGED <<index, appendOffset, call, build, status, bounds, history>>

\* The old index names offsets of the old file.
RemoveStaleIndex ==
  /\ pc = "removeIndex"
  /\ index' = NoIndex
  /\ appendOffset' = Len(values)
  /\ pc' = "openIndex"
  /\ UNCHANGED <<values, temp, locals, status, bounds, history>>

-----------------------------------------------------------------------------
(* Open: the index file.                                                   *)

UseIndex ==
  /\ pc = "openIndex"
  /\ HasValidIndexLayout
  /\ pc' = "idle"
  /\ UNCHANGED <<disk, appendOffset, locals, status, bounds, history>>

\* The index file is missing or invalid: CreateEmptyIndex, then the scan.
StartRebuild ==
  /\ pc = "openIndex"
  /\ ~HasValidIndexLayout
  /\ pc' = "truncate"
  /\ build' = [NoBuild EXCEPT !.count = InitialBucketCount, !.resume = "scan"]
  /\ UNCHANGED <<disk, appendOffset, next, call, status, bounds, history>>

\* OpenReadOnly takes the files as they are or not at all.
OpenReadOnly ==
  /\ pc = "closed"
  /\ IF values # <<>> /\ ~IsLegacy /\ HasValidIndexLayout
     THEN pc' = "readonly" /\ appendOffset' = Len(values) /\ status' = "OK"
     ELSE /\ status' = IF values = <<>> \/ (~IsLegacy /\ index = NoIndex)
                       THEN "IOError"
                       ELSE IF IsLegacy THEN "InvalidArgument" ELSE "Corruption"
          /\ UNCHANGED <<pc, appendOffset>>
  /\ UNCHANGED <<disk, locals, bounds, history>>

-----------------------------------------------------------------------------
(* CreateEmptyIndex and ResizeIndex, each store that a crash can follow.   *)

Truncated ==
  [index EXCEPT !.slot =
     [b \in 0 .. build.count - 1 |->
        IF b \in DOMAIN index.slot THEN index.slot[b] ELSE EmptySlot]]

\* A step of the build that changes only the index file.
BuildIndex(from, file, to) ==
  /\ pc = from
  /\ index' = file
  /\ pc' = to
  /\ UNCHANGED <<values, temp, appendOffset, call, status, bounds, acked, maybe>>

Truncate ==
  /\ BuildIndex("truncate", Truncated, "zero")
  /\ UNCHANGED <<next, build, suspect>>

Zero ==
  /\ BuildIndex("zero", [NoIndex EXCEPT !.slot =
                           [b \in 0 .. build.count - 1 |-> EmptySlot]], "header")
  /\ suspect' = IF build.resume = "scan" THEN ~Whole ELSE suspect
  /\ UNCHANGED <<next, build>>

StoreHeader ==
  /\ BuildIndex("header", [index EXCEPT !.header = TRUE,
                                        !.bucketCount = build.count], "place")
  /\ UNCHANGED <<next, build, suspect>>

\* The old buckets are placed in index order.
ToPlace == DOMAIN build.copy

PlaceExistingBucket ==
  /\ ToPlace # {}
  /\ LET s == build.copy[Min(ToPlace)] IN
     BuildIndex("place", [index EXCEPT !.slot[FirstEmpty(s.hash)] = s], "placeCount")
  /\ UNCHANGED <<next, build, suspect>>

CountPlaced ==
  /\ BuildIndex("placeCount", [index EXCEPT !.itemCount = @ + 1], "place")
  /\ build' = [build EXCEPT !.copy = Restrict(@, ToPlace \ {Min(ToPlace)})]
  /\ UNCHANGED <<next, suspect>>

\* The index is built: a scan that has not begun starts behind the file header.
Built ==
  /\ ToPlace = {}
  /\ BuildIndex("place", index, build.resume)
  /\ next' = IF build.resume = "scan" /\ next = 0 THEN 1 ELSE next
  /\ UNCHANGED <<build, suspect>>

\* EnsureCapacityForInsert finds the load too high and starts to double the
\* bucket count; ResizeIndex keeps the filled buckets.
StartResize(label) ==
  /\ build' = [count |-> 2 * index.bucketCount, copy |-> Restrict(index.slot, Filled),
               resume |-> label]
  /\ pc' = "double"

\* How many items EnsureCapacityForInsert makes room for.
Wanted == IF build.resume = "append" THEN Len(call.batch) ELSE 1

EnsureCapacityForInsert ==
  /\ pc = "double"
  /\ IF Allows(build.count, Wanted)
     THEN pc' = "truncate" /\ UNCHANGED build
     ELSE build' = [build EXCEPT !.count = 2 * @] /\ UNCHANGED pc
  /\ UNCHANGED <<disk, appendOffset, next, call, status, bounds, history>>

-----------------------------------------------------------------------------
(* RebuildIndexFromValues.                                                 *)

Scanning == pc = "scan" /\ next < Len(values)
ScanValid == IsValidRecordHeader(next) /\ RecordEnd(next) <= Len(values)

ScanGrows ==
  /\ Scanning /\ ScanValid
  /\ ~Fits(1)
  /\ StartResize("scan")
  /\ UNCHANGED <<disk, appendOffset, next, call, status, bounds, history>>

\* The index with object o's bucket naming the record at offset s.
WithBucket(o, s) ==
  [index EXCEPT !.slot[FindBucket(o)] = [hash |-> HashOf[o], offset |-> s]]

\* Mutant: the first record of an object wins.
Scanned_KeepsFirst(o) == IF Found(o) THEN index ELSE WithBucket(o, next)

\* A later record of an object replaces an earlier one.
Scanned(o) == WithBucket(o, next)

\* Mutant: the scan steps over a record's header, not over the record.
NextRecord_HeaderOnly == next + 1

NextRecord == RecordEnd(next)

ScanRecord ==
  /\ Scanning /\ ScanValid
  /\ Fits(1)
  /\ LET o == values[next + 1].obj IN
     /\ ~FindCorrupt(o)
     /\ index' = Scanned(o)
     /\ IF Found(o) THEN next' = NextRecord /\ UNCHANGED pc
                    ELSE pc' = "scanCount" /\ UNCHANGED next
  /\ UNCHANGED <<values, temp, appendOffset, call, build, status, bounds, history>>

CountScanned ==
  /\ pc = "scanCount"
  /\ index' = [index EXCEPT !.itemCount = @ + 1]
  /\ next' = NextRecord
  /\ pc' = "scan"
  /\ UNCHANGED <<values, temp, appendOffset, call, build, status, bounds, history>>

\* The scan meets something that is no record, or a record that is cut, or a
\* read fails: Open returns the error, and leaves the index as far as it got.
ScanFails ==
  /\ Scanning
  /\ \/ ~ScanValid /\ status' = "Corruption"
     \/ "read" \in Faults /\ status' = "IOError"
  /\ Closed
  /\ suspect' = TRUE
  /\ UNCHANGED <<disk, bounds, acked, maybe>>

ScanEnds ==
  /\ pc = "scan"
  /\ next >= Len(values)
  /\ appendOffset' = Len(values)
  /\ pc' = "idle"
  /\ next' = 0
  /\ UNCHANGED <<disk, call, build, status, bounds, history>>

-----------------------------------------------------------------------------
(* WriteStructs.                                                           *)

\* EnsureCapacityForInsert for the whole batch, then the append.
CallWriteStructs(b, u) ==
  /\ pc = "idle"
  /\ calls < MaxCalls
  /\ calls' = calls + 1
  /\ call' = [batch |-> b, unique |-> u, entry |-> 1]
  /\ next' = appendOffset
  /\ \/ Fits(Len(b)) /\ pc' = "append" /\ UNCHANGED build
     \/ ~Fits(Len(b)) /\ StartResize("append")
  /\ UNCHANGED <<disk, appendOffset, status, crashes, history>>

\* README:163: PutUniqueStructs' caller ensures that every key is new.  Here the
\* caller does not repeat a PutUniqueStructs that failed either, although its keys
\* are then in no acknowledged record.
New(b) ==
  /\ \A i \in DOMAIN b : acked[b[i].obj] = NoVal /\ maybe[b[i].obj] = {}
  /\ \A i, j \in DOMAIN b : b[i].obj = b[j].obj => i = j

PutStructs == \E b \in Batch : CallWriteStructs(b, FALSE)
PutUniqueStructs == \E b \in UniqueBatch : New(b) /\ CallWriteStructs(b, TRUE)

InHand == call.batch[call.entry]

\* WriteVAllAt, record by record; after the last one the index loop starts.
AppendRecord ==
  /\ pc = "append"
  /\ values' = Overwrite(values, next, Record(InHand))
  /\ IF call.entry < Len(call.batch)
     THEN /\ call' = [call EXCEPT !.entry = @ + 1]
          /\ next' = next + RecordSize(InHand)
          /\ UNCHANGED pc
     ELSE call' = [call EXCEPT !.entry = 1] /\ next' = appendOffset /\ pc' = "store"
  /\ UNCHANGED <<temp, index, appendOffset, build, status, bounds, history>>

\* The write returns an error: appendOffset_ stays where it was.
WriteFails(s, label) ==
  /\ status' = s
  /\ pc' = label
  /\ Unacknowledged
  /\ Reset
  /\ UNCHANGED <<temp, appendOffset, bounds>>

\* Mutant: the result of WriteVAllAt is not looked at.
AfterCut_Ignored ==
  /\ call' = [call EXCEPT !.entry = 1] /\ next' = appendOffset /\ pc' = "store"
  /\ UNCHANGED <<temp, appendOffset, build, status, bounds, acked, maybe>>

AfterCut == WriteFails("IOError", "idle")

AppendFails ==
  /\ pc = "append"
  /\ "append" \in Faults
  /\ \E cells \in Cut(InHand) : values' = Overwrite(values, next, cells)
  /\ AfterCut
  /\ UNCHANGED <<index, suspect>>

\* Mutant: an entry of PutStructs takes a new bucket without looking.
Target_NoFind(o) == FirstEmpty(HashOf[o])

\* PlaceNewBucket for unique keys, FindBucket otherwise.
Target(o) == IF call.unique THEN FirstEmpty(HashOf[o]) ELSE FindBucket(o)

\* Mutant: an entry is counted whether or not it was there.
IsNew_Always(o) == TRUE

IsNew(o) == call.unique \/ ~Found(o)

Storing == pc = "store" /\ call.entry <= Len(call.batch)
NextEntry ==
  /\ call' = [call EXCEPT !.entry = @ + 1]
  /\ next' = next + RecordSize(InHand)

StoreEntry ==
  /\ Storing
  /\ LET o == InHand.obj IN
     /\ call.unique \/ ~FindCorrupt(o)
     /\ index' = [index EXCEPT !.slot[Target(o)] =
                    [hash |-> HashOf[o], offset |-> next]]
     /\ IF IsNew(o) THEN pc' = "count" /\ UNCHANGED <<call, next>>
                    ELSE NextEntry /\ UNCHANGED pc
  /\ UNCHANGED <<values, temp, appendOffset, build, status, bounds, history>>

CountEntry ==
  /\ pc = "count"
  /\ index' = [index EXCEPT !.itemCount = @ + 1]
  /\ NextEntry
  /\ pc' = "store"
  /\ UNCHANGED <<values, temp, appendOffset, build, status, bounds, history>>

\* A record that FindBucket has to read cannot be read, or is none: the write
\* returns with the entries before this one already in the index.
FindFails ==
  /\ Storing
  /\ ~call.unique
  /\ FindErrs(InHand.obj)
  /\ WriteFails(FindStatus(InHand.obj), "idle")
  /\ UNCHANGED <<values, index, suspect>>

\* Mutant: appendOffset_ moves one cell too far.
EndOfBatch_LeavesGap == next + 1

EndOfBatch == next

\* Every entry is in the index: appendOffset_ moves behind the batch.
FinishWrite ==
  /\ pc = "store"
  /\ call.entry > Len(call.batch)
  /\ appendOffset' = EndOfBatch
  /\ status' = "OK"
  /\ pc' = "idle"
  /\ Acknowledged
  /\ Reset
  /\ UNCHANGED <<disk, bounds, suspect>>

-----------------------------------------------------------------------------
(* Failures of the mapping, closing, and what happens from outside.        *)

\* The index file holds only some of the objects, and may be valid.
HalfBuilt ==
  \/ pc \in {"place", "placeCount", "scan", "scanCount"}
  \/ pc \in {"double", "truncate", "zero"} /\ build.resume = "scan" /\ next > 0

\* CreateEmptyIndex has unmapped the index when ftruncate fails, or mmap after
\* it: Open returns the error; a write returns it too, but the database stays
\* open without an index.
MapFails ==
  /\ pc = "truncate"
  /\ "map" \in Faults
  /\ index' \in {index, Truncated}
  /\ IF build.resume = "append"
     THEN WriteFails("IOError", "unmapped") /\ UNCHANGED suspect
     ELSE /\ status' = "IOError"
          /\ Closed
          /\ suspect' = (suspect \/ HalfBuilt)
          /\ UNCHANGED <<temp, bounds, acked, maybe>>
  /\ UNCHANGED values

\* The next call dereferences the mapping that is not there, and the process
\* dies.
UseUnmapped ==
  /\ pc = "unmapped"
  /\ calls < MaxCalls
  /\ calls' = calls + 1
  /\ Closed
  /\ UNCHANGED <<disk, status, crashes, history>>

\* Close: Flush, then CloseFiles.
Close ==
  /\ pc \in {"idle", "readonly", "unmapped"}
  /\ Closed
  /\ status' = "OK"
  /\ UNCHANGED <<disk, bounds, history>>

\* The process dies, perhaps in the middle of an append.
Crash ==
  /\ "crash" \in Faults
  /\ crashes < MaxCrashes
  /\ pc # "closed"
  /\ crashes' = crashes + 1
  /\ \/ UNCHANGED values
     \/ /\ pc = "append"
        /\ \E cells \in Cut(InHand) : values' = Overwrite(values, next, cells)
  /\ Closed
  /\ Unacknowledged
  /\ suspect' = (suspect \/ HalfBuilt)
  /\ status' = "OK"
  /\ UNCHANGED <<temp, index, calls>>

\* Someone removes the index file of a closed database.
DeleteIndex ==
  /\ "delete" \in Faults
  /\ pc = "closed"
  /\ index # NoIndex
  /\ index' = NoIndex
  /\ UNCHANGED <<values, temp, pc, appendOffset, locals, status, bounds, history>>

Next ==
  \/ OpenValueFile \/ CopyRecord \/ CopyFails \/ RenameMigrated
  \/ RemoveStaleIndex \/ UseIndex \/ StartRebuild \/ OpenReadOnly
  \/ Truncate \/ Zero \/ StoreHeader \/ PlaceExistingBucket \/ CountPlaced
  \/ Built \/ EnsureCapacityForInsert \/ MapFails
  \/ ScanGrows \/ ScanRecord \/ CountScanned \/ ScanFails \/ ScanEnds
  \/ PutStructs \/ PutUniqueStructs \/ AppendRecord \/ AppendFails
  \/ StoreEntry \/ CountEntry \/ FindFails \/ FinishWrite
  \/ UseUnmapped \/ Close \/ Crash \/ DeleteIndex

Spec == Init /\ [][Next]_vars

-----------------------------------------------------------------------------
PcLabels == {"closed", "migrate", "removeIndex", "openIndex", "double",
             "truncate", "zero", "header", "place", "placeCount", "scan", "scanCount",
             "idle", "append", "store", "count", "unmapped", "readonly"}

\* The type of the program's variables; appendOffset_ never points outside
\* the file, so that no append leaves a hole.
TypeOK ==
  /\ values \in Seq(Cell) /\ temp \in Seq(Cell)
  /\ IndexFile(index)
  /\ pc \in PcLabels
  /\ appendOffset \in 0 .. Len(values)
  /\ next \in Nat
  /\ call.batch \in Seq(Entry) /\ call.unique \in BOOLEAN
  /\ call.entry \in 0 .. Len(call.batch) + 1
  /\ \A b \in ToPlace : b \in Nat /\ build.copy[b] \in SlotType
  /\ build.count \in Nat
  /\ build.resume \in {"idle", "scan", "append"}
  /\ status \in {"OK", "Corruption", "IOError", "InvalidArgument"}
  /\ calls \in 0 .. MaxCalls /\ crashes \in 0 .. MaxCrashes
  /\ acked \in [Obj -> Val \cup {NoVal}] /\ maybe \in [Obj -> SUBSET Val]
  /\ suspect \in BOOLEAN

\* The database answers calls.
Serving == pc \in {"idle", "readonly"}

AnswersAcked == \A o \in Obj : GetStruct(o) \in {acked[o]} \cup maybe[o]

\* Between calls GetStruct answers for every object the value that the last
\* acknowledged write gave it, or that of a later write that was cut: through
\* resizes, hash collisions, closes, read-only sessions, migration from the
\* preceding format, crashes and index rebuilds.
ObjectsReadable == Serving => AnswersAcked

\* With all faults together, and PutStructs of one object at a time, an
\* acknowledged value is lost in two ways only: the index comes from a build
\* that was cut (ResizeIndex and RebuildIndexFromValues fill it in place), or
\* from a scan of a value file with a cut record.  In particular a failed growth
\* of the index, which leaves the open database without a mapping, loses
\* nothing.  A batch of several objects that fails on a read loses one too.
LossNeedsCutBuild == Serving /\ ~suspect => AnswersAcked

\* Between calls the index in use is one that HasValidIndexLayout accepts: a
\* call that failed half way through a batch left no bucket uncounted.
LayoutValid == Serving => HasValidIndexLayout

\* A filled bucket of the index in use names a record of an object with the
\* bucket's hash: nothing that the index names is overwritten.
BucketsNameRecords ==
  Serving =>
    \A b \in Filled :
      /\ IsValidRecordHeader(RecordOf(b))
      /\ HashOf[values[RecordOf(b) + 1].obj] = index.slot[b].hash

\* Dump and GetColumnStats, which go through the buckets, tell the same story
\* as GetStruct, which probes: every object once, with its current value, and
\* counted once in its column.
DumpAgrees ==
  Serving =>
    LET Live == {o \in Obj : GetStruct(o) # NoVal} IN
    /\ Dump = {<<o, GetStruct(o)>> : o \in Live}
    /\ \A c \in Column : ObjectCount(c) = Cardinality({o \in Live : ColumnOf[o] = c})

\* A rebuild over files that no failure has touched never reports Corruption.
RebuildSucceeds == [][pc = "scan" => status' # "Corruption"]_vars
=============================================================================
