-------------------------- MODULE ObjectReadProofs --------------------------
(***************************************************************************)
(* What the object files hold of the acknowledged writes.  The index names *)
(* records, each in a bucket that a probe finds, and no object twice; the  *)
(* value file holds, for every object, the record of its last acknowledged *)
(* write behind all others; and an index that no build left half filled    *)
(* answers with that record: through failed writes, crashes, migration,    *)
(* resizes and rebuilds.                                                   *)
(***************************************************************************)
EXTENDS ObjectStoreProofs

\* What the theorems below assume of the faults.  A write that fails in the
\* index loop has stored no entry before: a batch whose second entry cannot be
\* looked up leaves the first in the index, behind appendOffset_ (run
\* object_batch_error).
SafeErrors == "read" \in Faults => \A b \in Batch : Len(b) = 1

\* The process does not die between the rename that ends a migration and the
\* removal of the old index, which names offsets of the old file.
NoOldIndex == "crash" \in Faults => \A f \in InitialFiles : f.index = NoIndex

\* The index may still be one of the preceding format.
Stale == IsLegacy \/ pc \in {"migrate", "removeIndex"}

\* A slot names a record, within the first n cells, of an object with its hash.
NamedIn(file, s, n) ==
  /\ s.offset + 1 \in DOMAIN file /\ file[s.offset + 1].obj \in Obj
  /\ file[s.offset + 1].at = 0 /\ HashOf[file[s.offset + 1].obj] = s.hash
  /\ s.offset + 1 + ValLen[file[s.offset + 1].val] <= n

\* The part of the file that no write overwrites.
Limit ==
  IF pc \in {"idle", "unmapped", "append"} \/ Resizing THEN appendOffset
  ELSE IF pc = "store" THEN next
  ELSE IF pc = "count" THEN next + RecordSize(InHand)
  ELSE Len(values)

NameInv ==
  /\ ~Stale => /\ \A x \in Filled : NamedIn(values, index.slot[x], Limit)
               /\ \A x \in ToPlace : NamedIn(values, build.copy[x], Limit)
  /\ pc = "openIndex" => appendOffset = Len(values)
  /\ "crash" \in Faults /\ Stale => Filled = {}
  /\ InCall => call.batch \in IF call.unique THEN UniqueBatch ELSE Batch

-----------------------------------------------------------------------------
(* What a step leaves of the names.                                        *)

LEMMA CellFields ==
  ASSUME NEW c \in Cell, c.obj \in Obj
  PROVE  /\ c.val \in Val /\ ValLen[c.val] \in Nat
         /\ c = [obj |-> c.obj, val |-> c.val, at |-> c.at] /\ c.at \in {-2, -1} \cup Nat
<1>1. c \in [obj : Obj, val : Val, at : {-2, -1} \cup Nat]
  BY ObjectAssumption DEF Cell, FileHeader, LegacyHeader, Fragment
<1> QED  BY <1>1, ObjectAssumption

LEMMA NamedKept ==
  ASSUME NEW f \in Seq(Cell), NEW g \in Seq(Cell), NEW m \in Nat, NEW n \in Nat, m <= n,
         \A i \in 1 .. Len(f) : i <= m => i <= Len(g) /\ g[i] = f[i],
         NEW s, s.offset \in Nat, NamedIn(f, s, m)
  PROVE  NamedIn(g, s, n)
<1> DEFINE i == s.offset + 1
<1>1. i \in 1 .. Len(f) /\ f[i] \in Cell /\ f[i].obj \in Obj  BY DEF NamedIn
<1>2. ValLen[f[i].val] \in Nat  BY <1>1, CellFields
<1>3. i + ValLen[f[i].val] <= m  BY DEF NamedIn
<1>4. i \in Nat /\ i <= m  BY <1>1, <1>2, <1>3
<1>5. g[i] = f[i] /\ i \in DOMAIN g  BY <1>1, <1>4
<1>6. i + ValLen[f[i].val] <= n  BY <1>1, <1>2, <1>3
<1> QED  BY <1>5, <1>6 DEF NamedIn

\* Where a step takes a slot from: the index, the buckets that a resize has
\* still to place, or the record in hand.
Sourced(s) == \/ \E x \in Filled : s = index.slot[x]
              \/ \E x \in ToPlace : s = build.copy[x]
              \/ NamedIn(values', s, Limit')

LEMMA LimitTyped ==
  ASSUME StoreInv
  PROVE  Limit \in Nat
<1>1. appendOffset \in Nat /\ next \in Nat /\ Len(values) \in Nat
  BY DEF StoreInv, OffsetInv, Typed, FilesTyped
<1>2. pc = "count" => RecordSize(InHand) \in Nat
  BY InHandFacts DEF StoreInv, Typed, CallTyped, InCall
<1> QED  BY <1>1, <1>2 DEF Limit

LEMMA LimitTypedNext ==
  ASSUME StoreInv'
  PROVE  Limit' \in Nat
<1>1. appendOffset' \in Nat /\ next' \in Nat /\ Len(values') \in Nat
  BY DEF StoreInv, OffsetInv, Typed, FilesTyped
<1>2. ASSUME pc' = "count"  PROVE RecordSize(InHand)' \in Nat
  <2>1. call'.batch \in Seq(Entry) /\ call'.entry \in 1 .. Len(call'.batch)
    BY <1>2 DEF StoreInv, Typed, CallTyped, InCall
  <2>2. call'.batch[call'.entry] \in Entry  BY <2>1
  <2>3. RecordSize(call'.batch[call'.entry]) \in Nat  BY <2>2, EntryFields
  <2> QED  BY <2>3 DEF InHand, RecordSize
<1> QED  BY <1>1, <1>2 DEF Limit

LEMMA SlotsTyped ==
  ASSUME StoreInv
  PROVE  /\ \A x \in Filled : index.slot[x] \in SlotType /\ index.slot[x].offset \in Nat
         /\ \A x \in ToPlace : build.copy[x] \in SlotType /\ build.copy[x].offset \in Nat
<1>1. \A x \in Filled : index.slot[x] \in SlotType  BY DEF StoreInv, Typed, IndexTyped, Filled
<1>2. \A x \in ToPlace : build.copy[x] \in SlotType  BY DEF StoreInv, Typed, BuildTyped
<1> QED  BY <1>1, <1>2 DEF SlotType

LEMMA NameStep ==
  ASSUME StoreInv, NameInv, FilesTyped', Limit' \in Nat,
         ~Stale' => ~Stale, ~Stale' => Limit <= Limit',
         ~Stale' => \A i \in 1 .. Len(values) :
                      i <= Limit => i <= Len(values') /\ values'[i] = values[i],
         ~Stale' => \A x \in Filled' : Sourced(index'.slot[x]),
         ~Stale' => \A x \in ToPlace' : Sourced(build'.copy[x]),
         pc' = "openIndex" => appendOffset' = Len(values'),
         "crash" \in Faults /\ Stale' => Filled' = {},
         InCall' => call'.batch \in IF call'.unique THEN UniqueBatch ELSE Batch
  PROVE  NameInv'
<1>1. ASSUME NEW s, Sourced(s), ~Stale'  PROVE NamedIn(values', s, Limit')
  <2>1. /\ \A x \in Filled : NamedIn(values, index.slot[x], Limit)
        /\ \A x \in ToPlace : NamedIn(values, build.copy[x], Limit)
    BY <1>1 DEF NameInv
  <2>2. CASE s.offset \in Nat /\ NamedIn(values, s, Limit)
    <3>1. values \in Seq(Cell) /\ values' \in Seq(Cell)  BY DEF StoreInv, Typed, FilesTyped
    <3>2. Limit \in Nat  BY LimitTyped
    <3> QED  BY <1>1, <2>2, <3>1, <3>2, NamedKept
  <2> QED  BY <1>1, <2>1, <2>2, SlotsTyped DEF Sourced
<1>2. ASSUME ~Stale'
      PROVE  /\ \A x \in Filled' : NamedIn(values', index'.slot[x], Limit')
             /\ \A x \in ToPlace' : NamedIn(values', build'.copy[x], Limit')
  BY <1>1, <1>2
<1> QED  BY <1>2 DEF NameInv

\* A step that leaves the value file and the slots.
LEMMA NameQuiet ==
  ASSUME StoreInv, NameInv, StoreInv', values' = values, index'.slot = index.slot,
         \A x \in ToPlace' : x \in ToPlace /\ build'.copy[x] = build.copy[x],
         ~Stale' => ~Stale, "crash" \in Faults /\ Stale' => Stale,
         ~Stale' => Limit <= Limit',
         pc' = "openIndex" => appendOffset' = Len(values'),
         InCall' => call'.batch \in IF call'.unique THEN UniqueBatch ELSE Batch
  PROVE  NameInv'
<1>1. Filled' = Filled  BY DEF Filled
<1>2. \A x \in Filled' : Sourced(index'.slot[x])  BY <1>1 DEF Sourced
<1>3. \A x \in ToPlace' : Sourced(build'.copy[x])  BY DEF Sourced
<1>4. Limit' \in Nat  BY LimitTypedNext
<1>5. FilesTyped'  BY DEF StoreInv, Typed
<1>6. \A i \in 1 .. Len(values) : i <= Limit => i <= Len(values') /\ values'[i] = values[i]
  BY <1>5 DEF FilesTyped
<1>7. "crash" \in Faults /\ Stale' => Filled' = {}  BY <1>1 DEF NameInv
<1> QED  BY <1>2, <1>3, <1>4, <1>5, <1>6, <1>7, NameStep

\* A file in use is not one of the preceding format.
LEMMA InUse ==
  ASSUME StoreInv, pc \notin {"closed", "migrate", "removeIndex"}
  PROVE  ~Stale
<1>1. FileHeader # LegacyHeader  BY DEF FileHeader, LegacyHeader
<1> QED  BY <1>1 DEF StoreInv, HeaderInv, Stale, IsLegacy

LEMMA InUseNext ==
  ASSUME StoreInv', pc' \notin {"closed", "migrate", "removeIndex"}
  PROVE  ~Stale'
<1>1. FileHeader # LegacyHeader  BY DEF FileHeader, LegacyHeader
<1> QED  BY <1>1 DEF StoreInv, HeaderInv, Stale, IsLegacy

-----------------------------------------------------------------------------
(* Open.                                                                   *)

LEMMA NameOpens ==
  ASSUME StoreInv, NameInv, StoreInv', OpenReadOnly \/ OpenValueFile \/ CopyRecord \/ CopyFails
  PROVE  NameInv'
<1> USE DEF Stale
<1>1. CASE OpenReadOnly
  <2>1. /\ pc = "closed" /\ UNCHANGED <<values, index, build, call>>
        /\ pc' \in {"closed", "readonly"}
    BY <1>1 DEF OpenReadOnly, disk, locals
  <2>2. ~InCall' /\ Limit = Len(values) /\ Limit' = Len(values')
    BY <2>1 DEF InCall, Resizing, Limit, BuildPcs
  <2>3. Len(values) \in Nat  BY DEF StoreInv, Typed, FilesTyped
  <2> QED  BY <2>1, <2>2, <2>3, NameQuiet DEF ToPlace, IsLegacy
<1>2. CASE OpenValueFile /\ (IsLegacy \/ values # <<>>)
  <2>1. /\ pc = "closed" /\ UNCHANGED <<values, index, build, call>>
        /\ \/ pc' = "migrate" /\ IsLegacy
           \/ pc' = "openIndex" /\ ~IsLegacy /\ appendOffset' = Len(values')
    BY <1>2 DEF OpenValueFile, EndOf
  <2>2. ~InCall' /\ Limit = Len(values) /\ Limit' = Len(values')
    BY <2>1 DEF InCall, Resizing, Limit, BuildPcs
  <2>3. Len(values) \in Nat  BY DEF StoreInv, Typed, FilesTyped
  <2> QED  BY <2>1, <2>2, <2>3, NameQuiet DEF ToPlace, IsLegacy
<1>3. CASE OpenValueFile /\ ~IsLegacy /\ values = <<>>
  <2>1. /\ pc = "closed" /\ pc' = "openIndex" /\ UNCHANGED <<index, build, call>>
        /\ appendOffset' = Len(values') /\ values = <<>>
    BY <1>3 DEF OpenValueFile, EndOf
  <2>2. ~Stale /\ ~InCall' /\ ~Stale'  BY <1>3, <2>1, InUseNext DEF InCall, Resizing, BuildPcs
  <2>3. Filled = {} /\ ToPlace = {}  BY <2>1, <2>2 DEF NameInv, NamedIn
  <2>4. Filled' = {} /\ ToPlace' = {}  BY <2>1, <2>3 DEF Filled, ToPlace
  <2> QED  BY <2>1, <2>2, <2>4 DEF NameInv
<1>4. CASE CopyRecord \/ CopyFails
  <2>1. /\ pc = "migrate" /\ UNCHANGED <<values, index>> /\ pc' \in {"migrate", "closed"}
        /\ IsLegacy /\ (build' = build \/ build' = NoBuild)
    BY <1>4 DEF CopyRecord, CopyFails, Closed, Reset, disk, StoreInv, HeaderInv
  <2>2. ~InCall' /\ Stale'  BY <2>1 DEF InCall, Resizing, BuildPcs, IsLegacy
  <2>3. Filled' = Filled  BY <2>1 DEF Filled
  <2> QED  BY <2>1, <2>2, <2>3 DEF NameInv
<1> QED  BY <1>1, <1>2, <1>3, <1>4

LEMMA NameRename ==
  ASSUME StoreInv, NameInv, StoreInv', RenameMigrated \/ RemoveStaleIndex \/ DeleteIndex
  PROVE  NameInv'
<1> USE DEF Stale
<1>1. CASE RenameMigrated
  <2>1. pc = "migrate" /\ pc' = "removeIndex" /\ index' = index /\ build' = build
    BY <1>1 DEF RenameMigrated
  <2>2. ~InCall' /\ Filled' = Filled  BY <2>1 DEF InCall, Resizing, BuildPcs, Filled
  <2> QED  BY <2>1, <2>2 DEF NameInv
<1>2. CASE RemoveStaleIndex
  <2>1. /\ pc = "removeIndex" /\ pc' = "openIndex" /\ index' = NoIndex /\ build' = build
        /\ appendOffset' = Len(values) /\ values' = values
    BY <1>2 DEF RemoveStaleIndex, locals
  <2>2. ~InCall' /\ Filled' = {} /\ ToPlace' = {}
    BY <2>1, IndexRemoved DEF InCall, Resizing, BuildPcs, StoreInv, Typed, BuildTyped
  <2> QED  BY <2>1, <2>2 DEF NameInv
<1>3. CASE DeleteIndex
  <2>1. /\ pc = "closed" /\ pc' = "closed" /\ index' = NoIndex
    BY <1>3 DEF DeleteIndex
  <2>2. ~InCall' /\ Filled' = {} /\ ToPlace' = {}
    BY <2>1, IndexRemoved DEF InCall, Resizing, BuildPcs, StoreInv, Typed, BuildTyped
  <2> QED  BY <2>1, <2>2 DEF NameInv
<1> QED  BY <1>1, <1>2, <1>3

LEMMA NameUse ==
  ASSUME StoreInv, NameInv, StoreInv', UseIndex \/ StartRebuild \/ ScanEnds
  PROVE  NameInv'
<1>1. /\ UNCHANGED <<values, index, call>> /\ pc \in {"openIndex", "scan"}
      /\ \/ pc' = "idle" /\ build' = build /\ appendOffset' = Len(values)
         \/ /\ pc' = "truncate" /\ build'.copy = NoSlots /\ build'.resume = "scan"
  BY DEF UseIndex, StartRebuild, ScanEnds, disk, locals, NoBuild, NameInv
<1>2. Limit = Len(values) /\ Limit' = Len(values) /\ ~InCall'
  BY <1>1 DEF Limit, InCall, Resizing, BuildPcs
<1>3. ToPlace' \in SUBSET ToPlace /\ \A x \in ToPlace' : build'.copy[x] = build.copy[x]
  <2>1. DOMAIN NoSlots = {}  BY DEF NoSlots
  <2> QED  BY <1>1, <2>1 DEF ToPlace
<1>4. ~Stale /\ ~Stale'  BY <1>1, InUse, InUseNext
<1>5. Len(values) \in Nat  BY DEF StoreInv, Typed, FilesTyped
<1> QED  BY <1>1, <1>2, <1>3, <1>4, <1>5, NameQuiet

LEMMA NameClose ==
  ASSUME StoreInv, NameInv, StoreInv', ScanFails \/ UseUnmapped \/ Close
  PROVE  NameInv'
<1>1. /\ UNCHANGED <<values, index>> /\ Closed /\ pc \in {"scan", "unmapped", "idle", "readonly"}
  BY DEF ScanFails, Scanning, UseUnmapped, Close, disk
<1>2. pc' = "closed" /\ ToPlace' = {}  BY <1>1 DEF Closed, StoreInv, Typed, BuildTyped, BuildPcs
<1>3. Limit <= Limit' /\ ~InCall'
  <2>1. appendOffset \in 0 .. Len(values) /\ Len(values) \in Nat  BY DEF StoreInv, OffsetInv, Typed, FilesTyped
  <2> QED  BY <1>1, <1>2, <2>1 DEF Limit, InCall, Resizing, BuildPcs
<1>4. ~Stale  BY <1>1, InUse
<1>5. ~Stale'  BY <1>1, <1>2, <1>4 DEF Stale, IsLegacy
<1> QED  BY <1>1, <1>2, <1>3, <1>4, <1>5, NameQuiet

-----------------------------------------------------------------------------
(* Building the index.                                                     *)

LEMMA BuildLimit ==
  ASSUME StoreInv, pc \in BuildPcs, pc' \in BuildPcs \cup {build.resume},
         UNCHANGED <<values, appendOffset, call>>, build'.resume = build.resume
  PROVE  Limit' = Limit /\ InCall' = InCall /\ Limit \in Nat
<1>1. build.resume \in {"scan", "append"}  BY DEF StoreInv, Typed, BuildTyped
<1> QED  BY <1>1, LimitTyped DEF Limit, InCall, Resizing, BuildPcs

LEMMA NameBuild ==
  ASSUME StoreInv, NameInv, StoreInv', Built \/ EnsureCapacityForInsert \/ StoreHeader
  PROVE  NameInv'
<1>1. /\ UNCHANGED <<values, appendOffset, call>> /\ index'.slot = index.slot
      /\ build'.copy = build.copy /\ build'.resume = build.resume
      /\ pc \in BuildPcs /\ pc' \in BuildPcs \cup {build.resume}
  <2>1. CASE Built  BY <2>1 DEF Built, BuildIndex, BuildPcs
  <2>2. CASE EnsureCapacityForInsert
    <3>1. build = [count |-> build.count, copy |-> build.copy, resume |-> build.resume]
      BY DEF StoreInv, Typed, BuildTyped
    <3> QED  BY <2>2, <3>1 DEF EnsureCapacityForInsert, disk, BuildPcs
  <2>3. CASE StoreHeader
    <3>1. index' = [index EXCEPT !.header = TRUE, !.bucketCount = build.count]
      BY <2>3 DEF StoreHeader, BuildIndex
    <3>2. index'.slot = index.slot
      BY <3>1, HeaderStored DEF StoreInv, Typed, BuildTyped
    <3> QED  BY <2>3, <3>2 DEF StoreHeader, BuildIndex, BuildPcs
  <2> QED  BY <2>1, <2>2, <2>3
<1>2. Limit' = Limit /\ InCall' = InCall /\ Limit \in Nat  BY <1>1, BuildLimit
<1>3. build.resume \in {"scan", "append"}  BY <1>1 DEF StoreInv, Typed, BuildTyped
<1>4. ~Stale /\ ~Stale' /\ pc' # "openIndex"  BY <1>1, <1>3, InUse, InUseNext DEF BuildPcs
<1> QED  BY <1>1, <1>2, <1>4, NameQuiet DEF ToPlace, NameInv

LEMMA NameCount ==
  ASSUME StoreInv, NameInv, StoreInv', CountPlaced
  PROVE  NameInv'
<1>1. /\ pc = "placeCount" /\ pc' = "place" /\ index' = [index EXCEPT !.itemCount = @ + 1]
      /\ build' = [build EXCEPT !.copy = Restrict(@, ToPlace \ {Min(ToPlace)})]
      /\ UNCHANGED <<values, appendOffset, call>> /\ pc \in BuildPcs /\ pc' \in BuildPcs
  BY DEF CountPlaced, BuildIndex, BuildPcs
<1>2. index'.slot = index.slot  BY <1>1, ItemCounted DEF StoreInv, Typed
<1>3. /\ build'.resume = build.resume
      /\ \A x \in ToPlace' : x \in ToPlace /\ build'.copy[x] = build.copy[x]
  BY <1>1, PlacedTaken DEF StoreInv, Typed, LayoutInv
<1>4. Limit' = Limit /\ InCall' = InCall /\ Limit \in Nat  BY <1>1, <1>3, BuildLimit
<1>5. ~Stale /\ ~Stale' /\ values' = values /\ pc' # "openIndex"  BY <1>1, InUse, InUseNext
<1>6. InCall' => call'.batch \in IF call'.unique THEN UniqueBatch ELSE Batch
  BY <1>1, <1>4 DEF NameInv
<1>7. Limit <= Limit'  BY <1>4
<1> QED
  BY ONLY StoreInv, NameInv, StoreInv', <1>2, <1>3, <1>5, <1>6, <1>7, NameQuiet

\* Truncate and Zero take buckets away, PlaceExistingBucket puts one back.
LEMMA NameSlots ==
  ASSUME StoreInv, NameInv, StoreInv', Truncate \/ Zero \/ PlaceExistingBucket
  PROVE  NameInv'
<1>1. /\ UNCHANGED <<values, appendOffset, call, build>> /\ pc \in BuildPcs /\ pc' \in BuildPcs
  BY DEF Truncate, Zero, PlaceExistingBucket, BuildIndex, BuildPcs
<1>2. \A x \in Filled' : Sourced(index'.slot[x])
  <2>1. CASE Truncate
    <3>1. index' = Truncated  BY <2>1 DEF Truncate, BuildIndex
    <3>2. /\ Filled' = Filled \cap (0 .. build.count - 1)
          /\ \A b \in 0 .. build.count - 1 :
               index'.slot[b] = IF b \in DOMAIN index.slot THEN index.slot[b] ELSE EmptySlot
      BY <3>1, SlotsTruncated DEF StoreInv, Typed, BuildTyped
    <3>3. \A x \in Filled' : x \in Filled /\ index'.slot[x] = index.slot[x]
      BY <3>2 DEF Filled
    <3> QED  BY <3>3 DEF Sourced
  <2>2. CASE Zero
    <3>1. Filled' = {}  BY <2>2, SlotsZeroed DEF Zero, BuildIndex, StoreInv, Typed, BuildTyped
    <3> QED  BY <3>1
  <2>3. CASE PlaceExistingBucket
    <3> DEFINE s == build.copy[Min(ToPlace)]
               b == FirstEmpty(s.hash)
    <3>1. pc = "place" /\ ToPlace # {} /\ index' = [index EXCEPT !.slot[b] = s]
      BY <2>3 DEF PlaceExistingBucket, BuildIndex
    <3>2. /\ Min(ToPlace) \in ToPlace /\ s \in SlotType /\ s.hash # 0 /\ IndexTyped
          /\ b \in DOMAIN index.slot
      BY <3>1, PlaceFacts
    <3> HIDE DEF b
    <3>3. /\ Filled' = Filled \cup {b} /\ index'.slot[b] = s
          /\ \A c \in DOMAIN index.slot : c # b => index'.slot[c] = index.slot[c]
      BY <3>1, <3>2, SlotStored
    <3>4. \A x \in Filled : x \in DOMAIN index.slot  BY DEF Filled
    <3>5. \A x \in Filled' : index'.slot[x] = s \/ (x \in Filled /\ index'.slot[x] = index.slot[x])
      BY <3>3, <3>4
    <3> QED  BY <3>2, <3>5 DEF Sourced
  <2> QED  BY <2>1, <2>2, <2>3
<1>3. \A x \in ToPlace' : Sourced(build'.copy[x])  BY <1>1 DEF Sourced, ToPlace
<1>4. Limit' = Limit /\ InCall' = InCall /\ Limit \in Nat  BY <1>1, BuildLimit
<1>5. ~Stale /\ ~Stale' /\ pc' # "openIndex"  BY <1>1, InUse, InUseNext DEF BuildPcs
<1>6. FilesTyped' /\ \A i \in 1 .. Len(values) : i <= Len(values') /\ values'[i] = values[i]
  BY <1>1 DEF StoreInv, Typed, FilesTyped
<1>7. InCall' => call'.batch \in IF call'.unique THEN UniqueBatch ELSE Batch
  BY <1>1, <1>4 DEF NameInv
<1> QED  BY <1>2, <1>3, <1>4, <1>5, <1>6, <1>7, NameStep

\* ResizeIndex names what the index named.
LEMMA NameResize ==
  ASSUME StoreInv, NameInv, StoreInv', NEW label \in {"scan", "append"}, StartResize(label),
         pc \in {"scan", "idle"}, UNCHANGED <<values, index, appendOffset>>, Limit <= Limit',
         InCall' => call'.batch \in IF call'.unique THEN UniqueBatch ELSE Batch
  PROVE  NameInv'
<1>1. IndexTyped /\ Ready  BY DEF StoreInv, LayoutInv, Typed
<1>2. pc' = "double" /\ ToPlace' = Filled /\ \A b \in Filled : build'.copy[b] = index.slot[b]
  BY <1>1, ResizeStarted
<1>3. \A x \in ToPlace' : Sourced(build'.copy[x])  BY <1>2 DEF Sourced
<1>4. \A x \in Filled' : Sourced(index'.slot[x])  BY DEF Sourced, Filled
<1>5. ~Stale /\ ~Stale' /\ pc' # "openIndex"  BY <1>2, InUse, InUseNext
<1>6. FilesTyped' /\ \A i \in 1 .. Len(values) : i <= Len(values') /\ values'[i] = values[i]
  BY DEF StoreInv, Typed, FilesTyped
<1> QED  BY <1>3, <1>4, <1>5, <1>6, LimitTypedNext, NameStep

LEMMA NameScanGrows ==
  ASSUME StoreInv, NameInv, StoreInv', ScanGrows
  PROVE  NameInv'
<1>1. /\ pc = "scan" /\ StartResize("scan") /\ UNCHANGED <<values, index, appendOffset>>
      /\ pc' = "double" /\ build'.resume = "scan"
  BY DEF ScanGrows, Scanning, StartResize, disk
<1>2. Limit = Len(values) /\ Limit' = Len(values) /\ ~InCall'
  BY <1>1 DEF Limit, InCall, Resizing, BuildPcs
<1>3. Len(values) \in Nat  BY DEF StoreInv, Typed, FilesTyped
<1> QED  BY <1>1, <1>2, <1>3, NameResize

LEMMA NameCall ==
  ASSUME StoreInv, NameInv, StoreInv', PutStructs \/ PutUniqueStructs
  PROVE  NameInv'
<1>1. PICK b, u : /\ CallWriteStructs(b, u) /\ u \in BOOLEAN
                  /\ b \in IF u THEN UniqueBatch ELSE Batch
  BY Zenon DEF PutStructs, PutUniqueStructs
<1>2. /\ pc = "idle" /\ UNCHANGED <<values, index, appendOffset>>
      /\ call' = [batch |-> b, unique |-> u, entry |-> 1]
      /\ \/ pc' = "append" /\ build' = build
         \/ pc' = "double" /\ StartResize("append") /\ build'.resume = "append"
  BY <1>1 DEF CallWriteStructs, StartResize, disk
<1>3. call'.batch \in IF call'.unique THEN UniqueBatch ELSE Batch  BY <1>1, <1>2
<1>4. Limit = appendOffset /\ Limit' = appendOffset /\ appendOffset \in Nat
  BY <1>2 DEF Limit, Resizing, BuildPcs, StoreInv, OffsetInv
<1>5. CASE StartResize("append")  BY <1>2, <1>3, <1>4, <1>5, NameResize
<1>6. CASE pc' = "append" /\ build' = build
  <2>1. ~Stale /\ ~Stale'  BY <1>2, <1>6, InUse, InUseNext
  <2> QED  BY <1>2, <1>3, <1>4, <1>6, <2>1, NameQuiet DEF ToPlace
<1> QED  BY <1>2, <1>5, <1>6

\* A failure of the mapping takes buckets away, or none.
LEMMA NameMapFails ==
  ASSUME StoreInv, NameInv, StoreInv', MapFails
  PROVE  NameInv'
<1>1. /\ pc = "truncate" /\ values' = values /\ index' \in {index, Truncated}
      /\ \/ build.resume = "append" /\ pc' = "unmapped" /\ appendOffset' = appendOffset
         \/ build.resume = "scan" /\ pc' = "closed"
  BY DEF MapFails, WriteFails, Closed, StoreInv, Typed, BuildTyped, BuildPcs
<1>2. ToPlace' = {} /\ ~InCall'
  BY <1>1 DEF StoreInv, Typed, BuildTyped, BuildPcs, InCall, Resizing
<1>3. \A x \in Filled' : x \in Filled /\ index'.slot[x] = index.slot[x]
  <2>1. CASE index' = index  BY <2>1 DEF Filled
  <2>2. CASE index' = Truncated
    <3>1. /\ Filled' = Filled \cap (0 .. build.count - 1)
          /\ \A b \in 0 .. build.count - 1 :
               index'.slot[b] = IF b \in DOMAIN index.slot THEN index.slot[b] ELSE EmptySlot
      BY <2>2, SlotsTruncated DEF StoreInv, Typed, BuildTyped
    <3> QED  BY <3>1 DEF Filled
  <2> QED  BY <1>1, <2>1, <2>2
<1>4. \A x \in Filled' : Sourced(index'.slot[x])  BY <1>3 DEF Sourced
<1>5. Limit <= Limit' /\ Limit' \in Nat
  <2>1. appendOffset \in Nat /\ Len(values) \in Nat  BY DEF StoreInv, OffsetInv, Typed, FilesTyped
  <2> QED  BY <1>1, <2>1 DEF Limit, Resizing, BuildPcs
<1>6. ~Stale  BY <1>1, InUse
<1>7. ~Stale'  BY <1>1, <1>6 DEF Stale, IsLegacy
<1>8. FilesTyped' /\ \A i \in 1 .. Len(values) : i <= Len(values') /\ values'[i] = values[i]
  BY <1>1 DEF StoreInv, Typed, FilesTyped
<1> QED  BY <1>1, <1>2, <1>4, <1>5, <1>6, <1>7, <1>8, NameStep

-----------------------------------------------------------------------------
(* A slot is stored.                                                       *)

LEMMA NameStored ==
  ASSUME StoreInv, NameInv, StoreInv', values' = values, build' = build,
         pc \in {"scan", "store"}, pc' \in {"scan", "scanCount", "store", "count"},
         NEW b \in DOMAIN index.slot, NEW s \in SlotType, s.hash # 0,
         index' = [index EXCEPT !.slot[b] = s],
         NamedIn(values', s, Limit'), Limit <= Limit',
         InCall' => call'.batch \in IF call'.unique THEN UniqueBatch ELSE Batch
  PROVE  NameInv'
<1>1. /\ Filled' = Filled \cup {b} /\ index'.slot[b] = s
      /\ \A c \in DOMAIN index.slot : c # b => index'.slot[c] = index.slot[c]
  BY SlotStored DEF StoreInv, Typed
<1>2. \A x \in Filled : x \in DOMAIN index.slot  BY DEF Filled
<1>3. \A x \in Filled' : index'.slot[x] = s \/ (x \in Filled /\ index'.slot[x] = index.slot[x])
  BY <1>1, <1>2
<1>4. \A x \in Filled' : Sourced(index'.slot[x])  BY <1>3 DEF Sourced
<1>5. \A x \in ToPlace' : Sourced(build'.copy[x])  BY DEF Sourced, ToPlace
<1>6. ~Stale /\ ~Stale' /\ pc' # "openIndex"  BY InUse, InUseNext
<1>7. FilesTyped' /\ \A i \in 1 .. Len(values) : i <= Len(values') /\ values'[i] = values[i]
  BY DEF StoreInv, Typed, FilesTyped
<1> QED
  BY ONLY StoreInv, NameInv, StoreInv', <1>4, <1>5, <1>6, <1>7, Limit <= Limit', LimitTypedNext,
     NameStep, InCall' => call'.batch \in IF call'.unique THEN UniqueBatch ELSE Batch

LEMMA NameScanRecord ==
  ASSUME StoreInv, NameInv, StoreInv', ScanRecord
  PROVE  NameInv'
<1> DEFINE o == values[next + 1].obj
           s == [hash |-> HashOf[o], offset |-> next]
<1>1. /\ pc = "scan" /\ ScanValid /\ Fits(1) /\ ~FindCorrupt(o) /\ values' = values /\ build' = build
      /\ index' = [index EXCEPT !.slot[FindBucket(o)] = s] /\ pc' \in {"scan", "scanCount"}
  BY DEF ScanRecord, Scanning, Scanned, WithBucket
<1>2. next \in Nat /\ IsValidRecordHeader(next) /\ RecordEnd(next) <= Len(values)
  BY <1>1 DEF StoreInv, OffsetInv, ScanValid
<1>3. o \in Obj /\ HashOf[o] \in Nat \ {0}
  BY <1>2, ValidCell, ObjectAssumption DEF StoreInv, Typed
<1>4. FindBucket(o) \in DOMAIN index.slot  BY <1>1, <1>3, ScanFacts
<1>5. Limit = Len(values) /\ Limit' = Len(values) /\ ~InCall' /\ Len(values) \in Nat
  BY <1>1 DEF Limit, InCall, Resizing, BuildPcs, StoreInv, Typed, FilesTyped
<1>6. s \in SlotType /\ s.hash # 0 /\ s.hash = HashOf[o] /\ s.offset = next  BY <1>2, <1>3 DEF SlotType
<1>7. NamedIn(values', s, Limit')
  BY <1>1, <1>2, <1>3, <1>5, <1>6 DEF NamedIn, IsValidRecordHeader, HeadAt, RecordEnd, ValLenAt
<1> HIDE DEF s, o
<1> QED  BY <1>1, <1>4, <1>5, <1>6, <1>7, NameStored

\* The record of the entry in hand is in the file.
LEMMA InHandStored ==
  ASSUME StoreInv, pc \in {"store", "count"}, call.entry <= Len(call.batch)
  PROVE  /\ next + RecordSize(InHand) <= Len(values)
         /\ \A i \in 1 .. RecordSize(InHand) : values[next + i] = Record(InHand)[i]
         /\ values[next + 1] = [obj |-> InHand.obj, val |-> InHand.val, at |-> 0]
         /\ RecordSize(InHand) = 1 + ValLen[InHand.val] /\ ValLen[InHand.val] \in Nat
         /\ next \in Nat /\ InHand \in Entry /\ next + 1 \in DOMAIN values
<1>1. InCall  BY DEF InCall
<1>2. InHand \in Entry /\ call.entry \in 1 .. Len(call.batch)  BY <1>1, InHandFacts
<1>3. PICK f \in [1 .. Len(call.batch) + 1 -> 0 .. Len(values)] :
        Laid(f, Len(call.batch) + 1) /\ next = f[call.entry]
  BY DEF StoreInv, OffsetInv
<1>4. call.entry \in 1 .. Len(call.batch) + 1 - 1  BY <1>2
<1>5. RecordIn(values, next, InHand)  BY <1>3, <1>4 DEF Laid, LaidIn, InHand
<1>6. RecordSize(InHand) = 1 + ValLen[InHand.val] /\ ValLen[InHand.val] \in Nat
  BY <1>2, EntryFields DEF RecordSize
<1>7. next \in Nat /\ values \in Seq(Cell)  BY DEF StoreInv, OffsetInv, Typed, FilesTyped
<1>8. /\ next + RecordSize(InHand) <= Len(values)
      /\ \A i \in 1 .. RecordSize(InHand) : values[next + i] = Record(InHand)[i]
  BY <1>5 DEF RecordIn
<1>9. 1 \in 1 .. RecordSize(InHand)  BY <1>6
<1>10. Record(InHand)[1] = [obj |-> InHand.obj, val |-> InHand.val, at |-> 1 - 1]
  BY <1>2, <1>9, RecordCells
<1>11. next + 1 \in DOMAIN values  BY <1>6, <1>7, <1>8
<1> QED  BY <1>2, <1>6, <1>7, <1>8, <1>9, <1>10, <1>11

LEMMA NameStoreEntry ==
  ASSUME StoreInv, NameInv, StoreInv', StoreEntry
  PROVE  NameInv'
<1> DEFINE o == InHand.obj
           s == [hash |-> HashOf[o], offset |-> next]
<1>1. /\ pc = "store" /\ call.entry <= Len(call.batch) /\ (call.unique \/ ~FindCorrupt(o))
      /\ index' = [index EXCEPT !.slot[Target(o)] = s] /\ values' = values /\ build' = build
      /\ \/ pc' = "count" /\ UNCHANGED <<call, next>>
         \/ NextEntry /\ pc' = "store"
      /\ UNCHANGED appendOffset
  BY DEF StoreEntry, Storing
<1>2. /\ o \in Obj /\ HashOf[o] \in Nat /\ HashOf[o] # 0 /\ Target(o) \in DOMAIN index.slot
  BY <1>1, StoreFacts
<1>3. /\ next + RecordSize(InHand) <= Len(values) /\ next \in Nat
      /\ values[next + 1] = [obj |-> o, val |-> InHand.val, at |-> 0]
      /\ RecordSize(InHand) = 1 + ValLen[InHand.val] /\ ValLen[InHand.val] \in Nat
      /\ next + 1 \in DOMAIN values
  BY <1>1, InHandStored
<1>4. Limit = next /\ Limit' = next + RecordSize(InHand)
  <2>1. CASE pc' = "count" /\ UNCHANGED <<call, next>>
    BY <1>1, <2>1 DEF Limit, Resizing, BuildPcs, InHand, RecordSize
  <2>2. CASE NextEntry /\ pc' = "store"
    BY <1>1, <2>2 DEF Limit, Resizing, BuildPcs, NextEntry
  <2> QED  BY <1>1, <2>1, <2>2
<1>5. Limit <= Limit'  BY <1>3, <1>4
<1>6. call'.batch = call.batch /\ call'.unique = call.unique
  <2>1. CASE call' = call  BY <2>1
  <2>2. CASE NextEntry /\ pc' = "store"  BY <1>1, <2>2, NextEntryStep
  <2> QED  BY <1>1, <2>1, <2>2
<1>7. InCall' => call'.batch \in IF call'.unique THEN UniqueBatch ELSE Batch
  BY <1>1, <1>6 DEF NameInv, InCall
<1>8. s \in SlotType /\ s.hash # 0 /\ s.hash = HashOf[o] /\ s.offset = next  BY <1>2, <1>3 DEF SlotType
<1> HIDE DEF s, o
<1>9. NamedIn(values', s, Limit')
  <2>1. next + 1 + ValLen[InHand.val] <= next + RecordSize(InHand)  BY <1>3
  <2> QED  BY <1>1, <1>2, <1>3, <1>4, <1>8, <2>1 DEF NamedIn
<1>10. pc' \in {"scan", "scanCount", "store", "count"}  BY <1>1
<1> QED  BY <1>1, <1>2, <1>5, <1>7, <1>8, <1>9, <1>10, NameStored

LEMMA NameCounts ==
  ASSUME StoreInv, NameInv, StoreInv', CountScanned \/ CountEntry
  PROVE  NameInv'
<1>1. /\ UNCHANGED <<values, build, appendOffset>> /\ index' = [index EXCEPT !.itemCount = @ + 1]
      /\ \/ pc = "scanCount" /\ pc' = "scan"
         \/ pc = "count" /\ pc' = "store" /\ NextEntry
  BY DEF CountScanned, CountEntry
<1>2. index'.slot = index.slot  BY <1>1, ItemCounted DEF StoreInv, Typed
<1>3. Limit <= Limit' /\ (InCall' => call'.batch \in IF call'.unique THEN UniqueBatch ELSE Batch)
  <2>1. CASE pc = "scanCount" /\ pc' = "scan"
    <3>1. Len(values) \in Nat  BY DEF StoreInv, Typed, FilesTyped
    <3> QED  BY <1>1, <2>1, <3>1 DEF Limit, InCall, Resizing, BuildPcs
  <2>2. CASE pc = "count" /\ pc' = "store" /\ NextEntry
    <3>1. InCall /\ call.entry <= Len(call.batch)  BY <2>2 DEF StoreInv, Typed, CallTyped, InCall
    <3>2. call'.batch = call.batch /\ call'.unique = call.unique
      BY <1>1, <2>2, <3>1, NextEntryStep
    <3>3. Limit = next + RecordSize(InHand) /\ Limit' = next + RecordSize(InHand)
      BY <2>2 DEF Limit, Resizing, BuildPcs, NextEntry
    <3>4. Limit <= Limit'  BY <3>3, LimitTyped
    <3> QED  BY <3>1, <3>2, <3>4 DEF NameInv
  <2> QED  BY <1>1, <2>1, <2>2
<1>4. ~Stale /\ ~Stale' /\ pc' # "openIndex"  BY <1>1, InUse, InUseNext
<1>5. \A x \in ToPlace' : x \in ToPlace /\ build'.copy[x] = build.copy[x]  BY <1>1 DEF ToPlace
<1>6. values' = values  BY <1>1
<1> QED  BY ONLY StoreInv, NameInv, StoreInv', <1>2, <1>3, <1>4, <1>5, <1>6, NameQuiet

-----------------------------------------------------------------------------
(* Appends, failures and the end of a write.                               *)

\* A step that leaves the slots and the file up to where it is named.
LEMMA NameFile ==
  ASSUME StoreInv, NameInv, StoreInv', index' = index, build' = build \/ build' = NoBuild,
         \A i \in 1 .. Len(values) : i <= Limit => i <= Len(values') /\ values'[i] = values[i],
         ~Stale, ~Stale', Limit <= Limit', pc' # "openIndex",
         InCall' => call'.batch \in IF call'.unique THEN UniqueBatch ELSE Batch
  PROVE  NameInv'
<1>1. \A x \in Filled' : Sourced(index'.slot[x])  BY DEF Sourced, Filled
<1>2. \A x \in ToPlace' : Sourced(build'.copy[x])
  <2>1. CASE build' = build  BY <2>1 DEF Sourced, ToPlace
  <2>2. CASE build' = NoBuild
    <3>1. build'.copy = NoSlots /\ DOMAIN NoSlots = {}  BY <2>2 DEF NoBuild, NoSlots
    <3> QED  BY <3>1 DEF ToPlace
  <2> QED  BY <2>1, <2>2
<1>3. FilesTyped' /\ Limit' \in Nat  BY LimitTypedNext DEF StoreInv, Typed
<1> QED  BY <1>1, <1>2, <1>3, NameStep

LEMMA NameAppend ==
  ASSUME StoreInv, NameInv, StoreInv', AppendRecord
  PROVE  NameInv'
<1>1. /\ pc = "append" /\ values' = Overwrite(values, next, Record(InHand))
      /\ \/ /\ call' = [call EXCEPT !.entry = @ + 1] /\ pc' = "append"
         \/ /\ call' = [call EXCEPT !.entry = 1] /\ next' = appendOffset /\ pc' = "store"
      /\ UNCHANGED <<index, appendOffset, build>>
  BY DEF AppendRecord
<1>2. /\ next \in 0 .. Len(values) /\ next >= appendOffset /\ next \in Nat /\ InHand \in Entry
      /\ values \in Seq(Cell) /\ InCall
  BY <1>1, AppendPlace
<1>3. call'.batch = call.batch /\ call'.unique = call.unique  BY <1>1, CallShape
<1>4. Limit = appendOffset /\ Limit' = appendOffset /\ appendOffset \in Nat
  BY <1>1 DEF Limit, Resizing, BuildPcs, StoreInv, OffsetInv
<1>5. \A i \in 1 .. Len(values) : i <= Limit => i <= Len(values') /\ values'[i] = values[i]
  <2>1. Record(InHand) \in Seq(Cell)  BY <1>2, RecordCells
  <2>2. Len(values) \in Nat /\ Len(Record(InHand)) \in Nat  BY <1>2, <2>1
  <2>3. /\ Len(values') = IF Len(values) >= next + Len(Record(InHand)) THEN Len(values)
                          ELSE next + Len(Record(InHand))
        /\ \A i \in 1 .. Len(values') :
             i \notin next + 1 .. next + Len(Record(InHand)) => values'[i] = values[i]
    BY <1>1, <1>2, <2>1, OverwriteCells
  <2>4. Len(values') >= Len(values) /\ Len(values') \in Nat  BY <2>2, <2>3
  <2> QED  BY <1>2, <1>4, <2>2, <2>3, <2>4
<1>6. ~Stale /\ ~Stale' /\ pc' # "openIndex"  BY <1>1, InUse, InUseNext
<1>7. InCall' => call'.batch \in IF call'.unique THEN UniqueBatch ELSE Batch
  BY <1>2, <1>3 DEF NameInv
<1>8. Limit <= Limit' /\ index' = index /\ build' = build  BY <1>1, <1>4
<1> QED  BY ONLY StoreInv, NameInv, StoreInv', <1>5, <1>6, <1>7, <1>8, NameFile

LEMMA NameAppendFails ==
  ASSUME StoreInv, NameInv, StoreInv', AppendFails
  PROVE  NameInv'
<1>1. /\ pc = "append" /\ pc' = "idle" /\ UNCHANGED <<index, appendOffset>> /\ build' = NoBuild
      /\ \E cells \in Cut(InHand) : values' = Overwrite(values, next, cells)
  BY DEF AppendFails, AfterCut, WriteFails, Reset
<1>2. next \in 0 .. Len(values) /\ next >= appendOffset /\ values \in Seq(Cell)  BY <1>1, AppendPlace
<1>3. Len(values') >= Len(values) /\ Len(values') \in Nat /\ \A i \in 1 .. next : values'[i] = values[i]
  BY <1>1, CutPlace
<1>4. Limit = appendOffset /\ Limit' = appendOffset /\ appendOffset \in Nat
  BY <1>1 DEF Limit, Resizing, BuildPcs, StoreInv, OffsetInv
<1>5. \A i \in 1 .. Len(values) : i <= Limit => i <= Len(values') /\ values'[i] = values[i]
  BY <1>2, <1>3, <1>4
<1>6. ~Stale /\ ~Stale' /\ ~InCall'  BY <1>1, InUse, InUseNext DEF InCall, Resizing, BuildPcs
<1>7. Limit <= Limit'  BY <1>4
<1> QED  BY <1>1, <1>5, <1>6, <1>7, NameFile

\* FindBucket does not fail on an index that names records and is not full.
LEMMA NotCorrupt ==
  ASSUME StoreInv, NameInv, ~Stale, Ready, Cardinality(Filled) < index.bucketCount, NEW o \in Obj
  PROVE  ~FindCorrupt(o) /\ Stops(o) # {} /\ FindBucket(o) \in DOMAIN index.slot
         /\ (Found(o) <=> FindBucket(o) \in Filled)
<1>1. IndexTyped /\ HashOf[o] \in Nat  BY ObjectAssumption DEF StoreInv, Typed
<1>2. PICK k \in Probes : Probe(HashOf[o], k) \notin Filled  BY <1>1, EmptyAhead
<1>3. Probe(HashOf[o], k) \in DOMAIN index.slot  BY <1>1, <1>2, ProbeInTable
<1>4. index.slot[Probe(HashOf[o], k)].hash = 0  BY <1>2, <1>3 DEF Filled
<1>5. k \in Stops(o)  BY <1>2, <1>4 DEF Stops
<1>6. FindBucket(o) \in DOMAIN index.slot /\ (Found(o) <=> FindBucket(o) \in Filled)
  BY <1>1, <1>5, FindBucketFacts
<1>7. ASSUME Found(o)  PROVE IsValidRecordHeader(index.slot[FindBucket(o)].offset)
  BY <1>6, <1>7 DEF NameInv, NamedIn, IsValidRecordHeader, HeadAt
<1> QED  BY <1>5, <1>6, <1>7 DEF FindCorrupt

LEMMA FindFailsFirst ==
  ASSUME SafeErrors, StoreInv, NameInv, FindFails
  PROVE  Len(call.batch) = 1 /\ call.entry = 1
<1>1. /\ pc = "store" /\ call.entry <= Len(call.batch) /\ ~call.unique /\ FindErrs(InHand.obj)
  BY DEF FindFails, Storing
<1>2. InCall /\ ~Stale  BY <1>1, InUse DEF InCall
<1>3. InHand \in Entry /\ InHand.obj \in Obj /\ call.entry \in 1 .. Len(call.batch)
  BY <1>1, <1>2, InHandFacts, EntryFields
<1>4. Ready /\ Cardinality(Filled) < index.bucketCount
  <2>1. Within(index.itemCount + (Len(call.batch) + 1 - call.entry), index.bucketCount)
    BY <1>1 DEF StoreInv, RoomInv
  <2>2. /\ index.itemCount \in Nat /\ index.bucketCount \in Nat /\ index.bucketCount > 0
        /\ Ready /\ Cardinality(Filled) = index.itemCount
    BY <1>1 DEF StoreInv, Typed, IndexTyped, LayoutInv, Ready
  <2>3. Len(call.batch) + 1 - call.entry \in Nat /\ Len(call.batch) + 1 - call.entry >= 1
    BY <1>3, CallShape
  <2>4. index.itemCount + (Len(call.batch) + 1 - call.entry) < index.bucketCount
    BY <2>1, <2>2, <2>3, WithinRoom
  <2> QED  BY <2>2, <2>3, <2>4
<1>5. ~FindCorrupt(InHand.obj)  BY <1>2, <1>3, <1>4, NotCorrupt
<1>6. "read" \in Faults  BY <1>1, <1>5 DEF FindErrs
<1>7. call.batch \in Batch  BY <1>1, <1>2 DEF NameInv
<1>8. Len(call.batch) = 1  BY <1>6, <1>7 DEF SafeErrors
<1> QED  BY <1>3, <1>8

LEMMA NameFindFails ==
  ASSUME StoreInv, NameInv, StoreInv', SafeErrors, FindFails
  PROVE  NameInv'
<1>1. /\ pc = "store" /\ call.entry <= Len(call.batch) /\ ~call.unique /\ FindErrs(InHand.obj)
      /\ pc' = "idle" /\ UNCHANGED <<values, index, appendOffset>> /\ build' = NoBuild
  BY DEF FindFails, Storing, WriteFails, Reset
<1>2. InCall /\ ~Stale /\ ~Stale' /\ ~InCall'
  BY <1>1, InUse, InUseNext DEF InCall, Resizing, BuildPcs
<1>9. call.entry = 1  BY FindFailsFirst
<1>10. next = appendOffset /\ appendOffset \in Nat
  BY <1>1, <1>9 DEF StoreInv, OffsetInv, Laid, LaidIn
<1>11. Limit = appendOffset /\ Limit' = appendOffset
  BY <1>1, <1>10 DEF Limit, Resizing, BuildPcs
<1>12. Limit <= Limit'  BY <1>10, <1>11
<1>13. values \in Seq(Cell)  BY DEF StoreInv, Typed, FilesTyped
<1> QED  BY <1>1, <1>2, <1>12, <1>13, NameFile

LEMMA NameFinish ==
  ASSUME StoreInv, NameInv, StoreInv', FinishWrite
  PROVE  NameInv'
<1>1. /\ pc = "store" /\ pc' = "idle" /\ UNCHANGED <<values, index>> /\ build' = NoBuild
      /\ appendOffset' = next
  BY DEF FinishWrite, EndOfBatch, Reset, disk
<1>2. ~Stale /\ ~Stale' /\ ~InCall' BY <1>1, InUse, InUseNext DEF InCall, Resizing, BuildPcs
<1>3. Limit = next /\ Limit' = next /\ next \in Nat
  BY <1>1 DEF Limit, Resizing, BuildPcs, StoreInv, OffsetInv
<1>4. Limit <= Limit' /\ values \in Seq(Cell)  BY <1>3 DEF StoreInv, Typed, FilesTyped
<1> QED  BY <1>1, <1>2, <1>4, NameFile

LEMMA LimitInFile ==
  ASSUME StoreInv
  PROVE  Limit <= Len(values)
<1>1. appendOffset \in 0 .. Len(values) /\ Len(values) \in Nat
  BY DEF StoreInv, OffsetInv, Typed, FilesTyped
<1>2. CASE pc = "store"
  <2>1. next \in 0 .. Len(values)  BY <1>2, StorePlace
  <2> QED  BY <1>1, <1>2, <2>1 DEF Limit, Resizing, BuildPcs
<1>3. CASE pc = "count"
  <2>1. call.entry <= Len(call.batch)  BY <1>3 DEF StoreInv, Typed, CallTyped, InCall
  <2>2. next + RecordSize(InHand) <= Len(values)  BY <1>3, <2>1, InHandStored
  <2> QED  BY <1>1, <1>3, <2>2 DEF Limit, Resizing, BuildPcs
<1>4. CASE pc \notin {"store", "count"}  BY <1>1, <1>4 DEF Limit
<1> QED  BY <1>2, <1>3, <1>4

LEMMA NameCrash ==
  ASSUME StoreInv, NameInv, StoreInv', Crash
  PROVE  NameInv'
<1>1. /\ "crash" \in Faults /\ pc' = "closed" /\ build' = NoBuild /\ index' = index /\ pc # "closed"
      /\ \/ values' = values
         \/ pc = "append" /\ \E cells \in Cut(InHand) : values' = Overwrite(values, next, cells)
  BY DEF Crash, Closed, Reset
<1>2. ~InCall' /\ Filled' = Filled /\ Limit' = Len(values')
  BY <1>1 DEF InCall, Resizing, BuildPcs, Filled, Limit
<1>3. ToPlace' = {}
  BY <1>1 DEF StoreInv, Typed, BuildTyped, BuildPcs
<1>4. CASE Stale
  <2>1. Filled' = {}  BY <1>1, <1>2, <1>4 DEF NameInv
  <2> QED  BY <1>1, <1>2, <1>3, <2>1 DEF NameInv
<1>5. CASE ~Stale
  <2>1. CASE values' = values
    <3>1. ~Stale'  BY <1>1, <1>5, <2>1 DEF Stale, IsLegacy
    <3>2. Limit <= Limit' /\ values \in Seq(Cell)
      BY <1>2, <2>1, LimitInFile DEF StoreInv, Typed, FilesTyped
    <3> QED  BY <1>1, <1>2, <1>5, <2>1, <3>1, <3>2, NameFile
  <2>2. CASE values' # values
    <3>1. pc = "append" /\ \E cells \in Cut(InHand) : values' = Overwrite(values, next, cells)
      BY <1>1, <2>2
    <3>2. /\ Len(values') >= Len(values) /\ Len(values') \in Nat
          /\ \A i \in 1 .. next : values'[i] = values[i]
          /\ values'[1] = FileHeader
      BY <3>1, CutPlace
    <3>3. next \in 0 .. Len(values) /\ next >= appendOffset /\ values \in Seq(Cell)
      BY <3>1, AppendPlace
    <3>4. Limit = appendOffset /\ appendOffset \in Nat
      BY <3>1 DEF Limit, StoreInv, OffsetInv
    <3>5. \A i \in 1 .. Len(values) : i <= Limit => i <= Len(values') /\ values'[i] = values[i]
      BY <3>2, <3>3, <3>4
    <3>6. Limit <= Limit'  BY <1>2, <3>2, <3>3, <3>4
    <3>7. FileHeader # LegacyHeader  BY DEF FileHeader, LegacyHeader
    <3>8. ~Stale'  BY <1>1, <3>2, <3>7 DEF Stale, IsLegacy
    <3> QED  BY <1>1, <1>2, <1>5, <3>5, <3>6, <3>8, NameFile
  <2> QED  BY <2>1, <2>2
<1> QED  BY <1>4, <1>5

-----------------------------------------------------------------------------
(* The names are invariant.                                                *)

LEMMA InitName ==
  ASSUME Init, NoOldIndex
  PROVE  NameInv
<1>1. /\ pc = "closed" /\ build = NoBuild
      /\ \E f \in InitialFiles : values = f.values /\ index = f.index
  BY DEF Init
<1>2. ~InCall /\ ToPlace = {}
  <2>1. build.copy = NoSlots /\ DOMAIN NoSlots = {}  BY <1>1 DEF NoBuild, NoSlots
  <2> QED  BY <1>1, <2>1 DEF InCall, Resizing, BuildPcs, ToPlace
<1>3. index = NoIndex => Filled = {}
  <2>1. NoIndex.slot = NoSlots /\ DOMAIN NoSlots = {}  BY DEF NoIndex, NoSlots
  <2> QED  BY <2>1 DEF Filled
<1>4. index = NoIndex \/ (Stale /\ "crash" \notin Faults)
  <2>1. index = NoIndex \/ OldFile(values)  BY <1>1, FilesAssumption
  <2>2. OldFile(values) => IsLegacy  BY DEF OldFile, IsLegacy
  <2>3. "crash" \in Faults => index = NoIndex  BY <1>1 DEF NoOldIndex
  <2> QED  BY <2>1, <2>2, <2>3 DEF Stale
<1> QED  BY <1>1, <1>2, <1>3, <1>4 DEF NameInv

LEMMA NameStutter ==
  ASSUME StoreInv, NameInv, StoreInv', UNCHANGED vars
  PROVE  NameInv'
<1>1. /\ values' = values /\ index' = index /\ pc' = pc /\ next' = next
      /\ appendOffset' = appendOffset /\ call' = call /\ build' = build
  BY DEF vars, disk, locals
<1>2. /\ Stale' = Stale /\ Filled' = Filled /\ ToPlace' = ToPlace /\ InCall' = InCall
  BY <1>1 DEF Stale, IsLegacy, Filled, ToPlace, InCall, Resizing
<1>3. Limit' = Limit  BY <1>1 DEF Limit, Resizing, InHand, RecordSize
<1> QED  BY <1>1, <1>2, <1>3 DEF NameInv

LEMMA NextName ==
  ASSUME SafeErrors, StoreInv, NameInv, StoreInv', [Next]_vars
  PROVE  NameInv'
<1>1. CASE UNCHANGED vars  BY <1>1, NameStutter
<1>2. CASE \/ OpenValueFile \/ CopyRecord \/ CopyFails \/ RenameMigrated
           \/ RemoveStaleIndex \/ UseIndex \/ StartRebuild \/ OpenReadOnly
  BY <1>2, NameOpens, NameRename, NameUse
<1>3. CASE \/ Truncate \/ Zero \/ StoreHeader \/ PlaceExistingBucket \/ CountPlaced
           \/ Built \/ EnsureCapacityForInsert \/ MapFails
  BY <1>3, NameSlots, NameBuild, NameCount, NameMapFails
<1>4. CASE ScanGrows \/ ScanRecord \/ CountScanned \/ ScanFails \/ ScanEnds
  BY <1>4, NameScanGrows, NameScanRecord, NameCounts, NameClose, NameUse
<1>5. CASE \/ PutStructs \/ PutUniqueStructs \/ AppendRecord \/ AppendFails
           \/ StoreEntry \/ CountEntry \/ FindFails \/ FinishWrite
  BY <1>5, NameCall, NameAppend, NameAppendFails, NameStoreEntry, NameCounts, NameFindFails, NameFinish
<1>6. CASE UseUnmapped \/ Close \/ Crash \/ DeleteIndex
  BY <1>6, NameClose, NameCrash, NameRename
<1> QED  BY <1>1, <1>2, <1>3, <1>4, <1>5, <1>6 DEF Next

LEMMA NamesImplied == StoreInv /\ NameInv => BucketsNameRecords
<1> SUFFICES ASSUME StoreInv, NameInv, Serving  PROVE
      \A b \in Filled : /\ IsValidRecordHeader(RecordOf(b))
                        /\ HashOf[values[RecordOf(b) + 1].obj] = index.slot[b].hash
  BY DEF BucketsNameRecords
<1>1. ~Stale  BY InUse DEF Serving
<1> QED  BY <1>1 DEF NameInv, NamedIn, IsValidRecordHeader, HeadAt, RecordOf

\* BucketsNameRecords: every filled bucket of the index in use names a record
\* of an object with the bucket's hash, through appends and crashes that cut
\* records, failures of the mapping, resizes, rebuilds and migration, as long
\* as no read fails behind the first entry of a batch and no crash meets an
\* index of the preceding format.
THEOREM ObjectBucketsNameRecords ==
  ASSUME SafeErrors, NoOldIndex
  PROVE  Spec => []BucketsNameRecords
<1>1. Init => StoreInv /\ NameInv  BY InitStore, InitName
<1>2. StoreInv /\ NameInv /\ [Next]_vars => StoreInv' /\ NameInv'  BY NextStore, NextName
<1> QED  BY <1>1, <1>2, NamesImplied, PTL DEF Spec

-----------------------------------------------------------------------------
(* Every filled bucket is where a probe for its hash stops: the invariant. *)

Grown == 0 .. index.bucketCount - 1 \subseteq DOMAIN index.slot
HomedAt(x, h) == \E k \in Probes : /\ x = Probe(h, k)
                                   /\ \A j \in 0 .. k - 1 : Probe(h, j) \in Filled
Homed(x) == HomedAt(x, index.slot[x].hash)

\* A file with fewer buckets than its header says comes from a rebuild that was
\* cut, and no later truncation makes it whole again.
ProbeInv ==
  /\ ~Stale /\ index.header /\ Grown =>
       /\ index.bucketCount > 0
       /\ Cardinality(Filled) < index.bucketCount
       /\ \A x \in Filled : x < index.bucketCount /\ Homed(x)
  /\ ~Stale /\ index.header /\ ~Grown => DOMAIN index.slot = 0 .. InitialBucketCount - 1
  /\ pc = "double" => build.count >= index.bucketCount
  /\ pc = "truncate" => \/ build.count = InitialBucketCount
                        \/ Ready /\ build.count >= index.bucketCount
  /\ "crash" \in Faults /\ Stale => index.header = FALSE

\* The steps that leave the index file as it is.
SameIndex ==
  \/ OpenValueFile \/ CopyRecord \/ CopyFails \/ RenameMigrated
  \/ UseIndex \/ StartRebuild \/ OpenReadOnly
  \/ Built \/ EnsureCapacityForInsert \/ ScanGrows \/ ScanFails \/ ScanEnds
  \/ PutStructs \/ PutUniqueStructs \/ AppendRecord \/ AppendFails
  \/ FindFails \/ FinishWrite \/ UseUnmapped \/ Close \/ Crash \/ UNCHANGED vars

LEMMA SameIndexKeeps ==
  ASSUME SameIndex
  PROVE  index' = index
BY DEF SameIndex, OpenValueFile, CopyRecord, CopyFails, RenameMigrated, UseIndex, StartRebuild,
       OpenReadOnly, Built, BuildIndex, EnsureCapacityForInsert, ScanGrows, ScanFails, ScanEnds,
       PutStructs, PutUniqueStructs, CallWriteStructs, AppendRecord, AppendFails, FindFails,
       FinishWrite, UseUnmapped, Close, Crash, vars, disk

\* How a step leaves the preceding format.
LEMMA StaleStep ==
  ASSUME StoreInv, StoreInv', SameIndex
  PROVE  /\ Stale' => Stale
         /\ ~Stale' => ~Stale \/ ("crash" \in Faults /\ pc' = "closed")
<1>0. FileHeader # LegacyHeader  BY DEF FileHeader, LegacyHeader
<1>1. CASE OpenValueFile \/ OpenReadOnly
  <2>1. pc = "closed" /\ (values' = values \/ (values = <<>> /\ values' = <<FileHeader>>))
    BY <1>1 DEF OpenValueFile, OpenReadOnly, disk
  <2>2. pc' = "migrate" => IsLegacy  BY <1>1 DEF OpenValueFile, OpenReadOnly
  <2>3. pc' # "removeIndex"  BY <1>1, <2>1 DEF OpenValueFile, OpenReadOnly
  <2>4. IsLegacy' = IsLegacy
    <3>1. CASE values' = values  BY <3>1 DEF IsLegacy
    <3>2. CASE values = <<>> /\ values' = <<FileHeader>>
      <4>1. values'[1] = FileHeader  BY <3>2
      <4> QED  BY <1>0, <3>2, <4>1 DEF IsLegacy
    <3> QED  BY <2>1, <3>1, <3>2
  <2> QED  BY <2>1, <2>2, <2>3, <2>4 DEF Stale
<1>2. CASE CopyRecord \/ CopyFails
  <2>1. pc = "migrate" /\ values' = values /\ IsLegacy
    BY <1>2 DEF CopyRecord, CopyFails, disk, StoreInv, HeaderInv
  <2> QED  BY <2>1 DEF Stale, IsLegacy
<1>3. CASE RenameMigrated  BY <1>3 DEF RenameMigrated, Stale
<1>4. CASE UNCHANGED vars  BY <1>4 DEF vars, disk, Stale, IsLegacy
<1>5. CASE Crash
  <2>1. CASE Stale  BY <1>5, <2>1 DEF Crash, Closed
  <2>2. CASE ~Stale
    <3>1. pc' = "closed"  BY <1>5 DEF Crash, Closed
    <3>2. ~IsLegacy'
      <4>1. CASE values' = values  BY <2>2, <4>1 DEF Stale, IsLegacy
      <4>2. CASE values' # values
        <5>1. pc = "append" /\ \E cells \in Cut(InHand) : values' = Overwrite(values, next, cells)
          BY <1>5, <4>2 DEF Crash
        <5>2. values'[1] = FileHeader  BY <5>1, CutPlace
        <5> QED  BY <1>0, <5>2 DEF IsLegacy
      <4> QED  BY <4>1, <4>2
    <3> QED  BY <2>2, <3>1, <3>2 DEF Stale
  <2> QED  BY <2>1, <2>2
<1>6. CASE \/ UseIndex \/ StartRebuild \/ Built \/ EnsureCapacityForInsert \/ ScanGrows
           \/ ScanFails \/ ScanEnds \/ UseUnmapped \/ Close
  <2>1. values' = values /\ pc \notin {"closed", "migrate", "removeIndex"}
    BY <1>6 DEF UseIndex, StartRebuild, Built, BuildIndex, EnsureCapacityForInsert, ScanGrows,
                ScanFails, ScanEnds, Scanning, UseUnmapped, Close, disk
  <2>2. ~Stale  BY <2>1, InUse
  <2>3. pc' \notin {"migrate", "removeIndex"}
    <3>1. CASE Built
      BY <3>1 DEF Built, BuildIndex, StoreInv, Typed, BuildTyped, BuildPcs
    <3>2. CASE ~Built
      BY <1>6, <2>1, <3>2
      DEF UseIndex, StartRebuild, EnsureCapacityForInsert, ScanGrows, StartResize,
                ScanFails, ScanEnds, Scanning, UseUnmapped, Close, Closed
    <3> QED  BY <3>1, <3>2
  <2> QED  BY <2>1, <2>2, <2>3 DEF Stale, IsLegacy
<1>7. CASE \/ PutStructs \/ PutUniqueStructs \/ AppendRecord \/ AppendFails \/ FindFails \/ FinishWrite
  <2>1. /\ pc \in {"idle", "append", "store"} /\ pc' \in {"append", "double", "store", "idle"}
    BY <1>7 DEF PutStructs, PutUniqueStructs, CallWriteStructs, StartResize, AppendRecord,
                AppendFails, AfterCut, WriteFails, FindFails, Storing, FinishWrite
  <2> QED  BY <2>1, InUse, InUseNext
<1> QED  BY <1>1, <1>2, <1>3, <1>4, <1>5, <1>6, <1>7 DEF SameIndex

LEMMA ProbeSame ==
  ASSUME StoreInv, StoreInv', ProbeInv, SameIndex
  PROVE  ProbeInv'
<1>1. index' = index  BY SameIndexKeeps
<1>2. /\ Grown' = Grown /\ Filled' = Filled /\ (Ready' <=> Ready)
      /\ \A x \in Filled : Homed(x)' <=> Homed(x)
  BY <1>1 DEF Grown, Filled, Ready, Homed, HomedAt, Probes, Probe
<1>3. /\ Stale' => Stale
      /\ ~Stale' => ~Stale \/ ("crash" \in Faults /\ pc' = "closed")
  BY StaleStep
<1>4. /\ ~Stale' /\ index'.header => ~Stale /\ index.header
      /\ "crash" \in Faults /\ Stale' => index'.header = FALSE
  BY <1>1, <1>3 DEF ProbeInv
<1>5. /\ pc' = "double" => build'.count >= index.bucketCount
      /\ pc' = "truncate" => \/ build'.count = InitialBucketCount
                             \/ Ready /\ build'.count >= index.bucketCount
  <2>0. index.bucketCount \in Nat /\ build.count \in Nat
    BY DEF StoreInv, Typed, IndexTyped, BuildTyped
  <2>1. CASE UNCHANGED vars  BY <2>1 DEF ProbeInv, vars, locals
  <2>2. CASE StartRebuild
    <3>1. pc' = "truncate" /\ build'.count = InitialBucketCount
      BY <2>2 DEF StartRebuild, NoBuild
    <3> QED  BY <3>1
  <2>3. CASE ScanGrows \/ PutStructs \/ PutUniqueStructs
    <3>1. pc' # "truncate" /\ (pc' = "double" => build'.count = 2 * index.bucketCount)
      BY <2>3 DEF ScanGrows, PutStructs, PutUniqueStructs, CallWriteStructs, StartResize
    <3> QED  BY <2>0, <3>1
  <2>4. CASE EnsureCapacityForInsert
    <3>1. /\ pc = "double" /\ \/ pc' = "truncate" /\ build' = build
                              \/ pc' = "double" /\ build' = [build EXCEPT !.count = 2 * @]
      BY <2>4 DEF EnsureCapacityForInsert
    <3>2. Ready /\ build.count >= index.bucketCount  BY <3>1 DEF StoreInv, LayoutInv, ProbeInv
    <3>3. CASE pc' = "truncate" /\ build' = build  BY <3>2, <3>3
    <3>4. CASE pc' = "double" /\ build' = [build EXCEPT !.count = 2 * @]
      <4>1. build = [count |-> build.count, copy |-> build.copy, resume |-> build.resume]
        BY DEF StoreInv, Typed, BuildTyped
      <4>2. build'.count = 2 * build.count  BY <3>4, <4>1
      <4> QED  BY <2>0, <3>2, <3>4, <4>2
    <3> QED  BY <3>1, <3>3, <3>4
  <2>5. CASE OpenValueFile \/ CopyRecord \/ CopyFails \/ RenameMigrated \/ UseIndex \/ OpenReadOnly
    <3>1. pc' \notin {"double", "truncate"}
      BY <2>5 DEF OpenValueFile, CopyRecord, CopyFails, RenameMigrated, UseIndex, OpenReadOnly, Closed
    <3> QED  BY <3>1
  <2>6. CASE \/ Built \/ ScanFails \/ ScanEnds \/ AppendRecord \/ AppendFails
             \/ FindFails \/ FinishWrite \/ UseUnmapped \/ Close \/ Crash
    <3>1. pc' \notin {"double", "truncate"}
      BY <2>6 DEF Built, BuildIndex, ScanFails, ScanEnds, AppendRecord, AppendFails, AfterCut,
                  WriteFails, FindFails, FinishWrite, UseUnmapped, Close, Crash, Closed,
                  StoreInv, Typed, BuildTyped, BuildPcs
    <3> QED  BY <3>1
  <2> QED  BY <2>1, <2>2, <2>3, <2>4, <2>5, <2>6 DEF SameIndex
<1> QED  BY <1>1, <1>2, <1>4, <1>5 DEF ProbeInv

LEMMA ProbeCount ==
  ASSUME StoreInv, StoreInv', ProbeInv, CountPlaced \/ CountScanned \/ CountEntry
  PROVE  ProbeInv'
<1>1. /\ index' = [index EXCEPT !.itemCount = @ + 1] /\ pc \in {"placeCount", "scanCount", "count"}
      /\ pc' \in {"place", "scan", "store"}
  BY DEF CountPlaced, CountScanned, CountEntry, BuildIndex
<1>2. /\ index'.header = index.header /\ index'.bucketCount = index.bucketCount
      /\ index'.slot = index.slot /\ Filled' = Filled
  BY <1>1, ItemCounted DEF StoreInv, Typed
<1>3. Grown' = Grown /\ \A x \in Filled : Homed(x)' <=> Homed(x)
  BY <1>2 DEF Grown, Homed, HomedAt, Probes, Probe
<1>4. ~Stale /\ ~Stale'  BY <1>1, InUse, InUseNext
<1> QED  BY <1>1, <1>2, <1>3, <1>4 DEF ProbeInv

\* The index is removed, or zeroed.
LEMMA ProbeGone ==
  ASSUME StoreInv, StoreInv', RemoveStaleIndex \/ DeleteIndex \/ Zero
  PROVE  ProbeInv'
<1>1. index'.header = FALSE /\ pc' \notin {"double", "truncate"}
  <2>1. CASE RemoveStaleIndex  BY <2>1, IndexRemoved DEF RemoveStaleIndex
  <2>2. CASE DeleteIndex  BY <2>2, IndexRemoved DEF DeleteIndex
  <2>3. CASE Zero  BY <2>3, SlotsZeroed DEF Zero, BuildIndex, StoreInv, Typed, BuildTyped
  <2> QED  BY <2>1, <2>2, <2>3
<1> QED  BY <1>1 DEF ProbeInv

LEMMA ProbeHeader ==
  ASSUME StoreInv, StoreInv', StoreHeader
  PROVE  ProbeInv'
<1>1. /\ pc = "header" /\ pc' = "place" /\ build' = build
      /\ index' = [index EXCEPT !.header = TRUE, !.bucketCount = build.count]
  BY DEF StoreHeader, BuildIndex
<1>2. build.count \in Nat /\ build.count > 0  BY <1>1 DEF StoreInv, Typed, BuildTyped, BuildPcs
<1>3. /\ index'.bucketCount = build.count /\ index'.slot = index.slot /\ Filled' = Filled
  BY <1>1, <1>2, HeaderStored DEF StoreInv, Typed
<1>4. index.slot = [b \in 0 .. build.count - 1 |-> EmptySlot]  BY <1>1 DEF StoreInv, LayoutInv
<1>5. Filled' = {} /\ DOMAIN index'.slot = 0 .. build.count - 1
  BY <1>3, <1>4, EmptySlotTyped DEF Filled
<1>6. Grown' /\ Cardinality(Filled') = 0  BY <1>3, <1>5, FS_EmptySet DEF Grown
<1>7. ~Stale'  BY <1>1, InUseNext
<1> QED  BY <1>1, <1>2, <1>3, <1>5, <1>6, <1>7 DEF ProbeInv

\* ftruncate keeps the buckets of an index that is not shrunk, or shrinks it to
\* the initial number.
LEMMA ProbeTruncate ==
  ASSUME StoreInv, StoreInv', ProbeInv, pc = "truncate", pc' \notin {"double", "truncate"},
         index' = Truncated, ~Stale, ~Stale'
  PROVE  ProbeInv'
<1>0. IndexTyped /\ build.count \in Nat /\ InitialBucketCount \in Nat
  BY InitialBuckets DEF StoreInv, Typed, BuildTyped
<1>1. /\ index'.header = index.header /\ index'.bucketCount = index.bucketCount
      /\ DOMAIN index'.slot = 0 .. build.count - 1
      /\ \A b \in 0 .. build.count - 1 :
           index'.slot[b] = IF b \in DOMAIN index.slot THEN index.slot[b] ELSE EmptySlot
      /\ Filled' = Filled \cap (0 .. build.count - 1)
  BY <1>0, SlotsTruncated
<1>2. index.bucketCount \in Nat /\ IsFiniteSet(Filled) /\ Filled \in SUBSET DOMAIN index.slot
  BY <1>0, IndexShape
<1>3. CASE index.header /\ Grown'
  <2>1. Grown
    <3>1. CASE build.count = InitialBucketCount /\ ~Grown
      <4>1. DOMAIN index.slot = 0 .. InitialBucketCount - 1  BY <1>3, <3>1 DEF ProbeInv
      <4> QED  BY <1>1, <1>3, <3>1, <4>1 DEF Grown
    <3>2. CASE Ready  BY <3>2 DEF Grown, Ready
    <3> QED  BY <3>1, <3>2 DEF ProbeInv
  <2>2. /\ index.bucketCount > 0 /\ Cardinality(Filled) < index.bucketCount
        /\ \A x \in Filled : x < index.bucketCount /\ Homed(x)
    BY <1>3, <2>1 DEF ProbeInv
  <2>3. 0 .. index.bucketCount - 1 \subseteq 0 .. build.count - 1  BY <1>1, <1>3 DEF Grown
  <2>4. \A x \in Filled : x \in 0 .. index.bucketCount - 1
    <3>1. \A x \in Filled : x \in Nat  BY <1>0, <1>2 DEF IndexTyped
    <3> QED  BY <1>2, <2>2, <3>1
  <2>5. Filled' = Filled /\ \A x \in Filled : index'.slot[x] = index.slot[x]
    BY <1>1, <1>2, <2>3, <2>4
  <2>6. \A x \in Filled : Homed(x)' <=> Homed(x)
    BY <1>1, <2>5 DEF Homed, HomedAt, Probes, Probe
  <2> QED  BY <1>1, <1>3, <2>2, <2>5, <2>6 DEF ProbeInv
<1>4. CASE index.header /\ ~Grown'
  <2>1. build.count = InitialBucketCount
    <3>1. CASE Ready /\ build.count >= index.bucketCount
      BY <1>0, <1>1, <1>2, <1>4, <3>1 DEF Grown
    <3> QED  BY <3>1 DEF ProbeInv
  <2> QED  BY <1>1, <1>4, <2>1 DEF ProbeInv
<1>5. CASE ~index.header  BY <1>1, <1>5 DEF ProbeInv
<1> QED  BY <1>3, <1>4, <1>5

LEMMA ProbeTruncates ==
  ASSUME StoreInv, StoreInv', ProbeInv, Truncate \/ MapFails
  PROVE  ProbeInv'
<1>1. /\ pc = "truncate" /\ pc' \in {"zero", "unmapped", "closed"} /\ values' = values
      /\ index' \in {index, Truncated}
  BY DEF Truncate, BuildIndex, MapFails, WriteFails, Closed
<1>2. ~Stale  BY <1>1, InUse
<1>3. ~Stale'  BY <1>1, <1>2 DEF Stale, IsLegacy
<1>4. CASE index' = Truncated  BY <1>1, <1>2, <1>3, <1>4, ProbeTruncate
<1>5. CASE index' = index
  <2>1. Grown' = Grown /\ Filled' = Filled /\ \A x \in Filled : Homed(x)' <=> Homed(x)
    BY <1>5 DEF Grown, Filled, Homed, HomedAt, Probes, Probe
  <2> QED  BY <1>1, <1>2, <1>3, <1>5, <2>1 DEF ProbeInv
<1> QED  BY <1>1, <1>4, <1>5

\* A slot is stored in a bucket that a probe for its hash meets.
LEMMA ProbeStored ==
  ASSUME StoreInv, StoreInv', ProbeInv, Ready, ~Stale, ~Stale', pc' \notin {"double", "truncate"},
         NEW b \in DOMAIN index.slot, NEW s \in SlotType, s.hash # 0,
         index' = [index EXCEPT !.slot[b] = s], HomedAt(b, s.hash),
         Cardinality(Filled') < index.bucketCount
  PROVE  ProbeInv'
<1>1. /\ index'.header = index.header /\ index'.bucketCount = index.bucketCount
      /\ DOMAIN index'.slot = DOMAIN index.slot /\ index'.slot[b] = s
      /\ \A c \in DOMAIN index.slot : c # b => index'.slot[c] = index.slot[c]
      /\ Filled' = Filled \cup {b}
  BY SlotStored DEF StoreInv, Typed
<1>2. Filled \in SUBSET DOMAIN index.slot  BY DEF Filled
<1>3. Grown /\ Grown' /\ index.header /\ index.bucketCount > 0
  BY <1>1 DEF Ready, Grown
<1>4. \A x \in Filled' : x < index.bucketCount
  <2>1. index.bucketCount \in Nat  BY DEF StoreInv, Typed, IndexTyped
  <2> QED  BY <1>1, <1>2, <2>1 DEF Ready
<1>5. ASSUME NEW x, NEW h, HomedAt(x, h)  PROVE HomedAt(x, h)'
  BY <1>1, <1>5 DEF HomedAt, Probes, Probe
<1>6. \A x \in Filled : Homed(x)  BY <1>3 DEF ProbeInv
<1>7. \A x \in Filled' : Homed(x)'
  <2>1. Homed(b)'  BY <1>1, <1>5 DEF Homed
  <2>2. ASSUME NEW x \in Filled, x # b  PROVE Homed(x)'
    <3>1. index'.slot[x] = index.slot[x]  BY <1>1, <1>2, <2>2
    <3>2. HomedAt(x, index.slot[x].hash)  BY <1>6, <2>2 DEF Homed
    <3>3. HomedAt(x, index.slot[x].hash)'  BY <1>1, <3>2 DEF HomedAt, Probes, Probe
    <3> QED  BY <3>1, <3>3 DEF Homed, HomedAt, Probes, Probe
  <2> QED  BY <1>1, <2>1, <2>2
<1> QED  BY <1>1, <1>3, <1>4, <1>7 DEF ProbeInv

\* A slot goes into a bucket that a probe for its hash meets, and the index does
\* not become full.
StoresIn(b, s) ==
  /\ b \in DOMAIN index.slot /\ s \in SlotType /\ s.hash # 0
  /\ index' = [index EXCEPT !.slot[b] = s] /\ HomedAt(b, s.hash)
  /\ Cardinality(Filled') < index.bucketCount
  /\ values' = values /\ build' = build /\ Ready /\ ~Stale /\ ~Stale'

LEMMA FindHomed ==
  ASSUME IndexTyped, Ready, NEW o \in Obj, Stops(o) # {}
  PROVE  HomedAt(FindBucket(o), HashOf[o])
<1>1. HashOf[o] \in Nat  BY ObjectAssumption
<1>2. PICK k \in Stops(o) : /\ k \in Probes /\ FindBucket(o) = Probe(HashOf[o], k)
                            /\ \A j \in 0 .. k - 1 : j \in Probes /\ j \notin Stops(o)
  BY FindBucketFacts
<1>3. ASSUME NEW j \in 0 .. k - 1  PROVE Probe(HashOf[o], j) \in Filled
  <2>1. j \in Probes /\ j \notin Stops(o)  BY <1>2
  <2>2. Probe(HashOf[o], j) \in DOMAIN index.slot  BY <1>1, <2>1, ProbeInTable
  <2>3. index.slot[Probe(HashOf[o], j)].hash # 0  BY <2>1 DEF Stops
  <2> QED  BY <2>2, <2>3 DEF Filled
<1> QED  BY <1>2, <1>3 DEF HomedAt

LEMMA PlaceStores ==
  ASSUME StoreInv, StoreInv', PlaceExistingBucket
  PROVE  LET s == build.copy[Min(ToPlace)] IN
         /\ StoresIn(FirstEmpty(s.hash), s) /\ FirstEmpty(s.hash) \notin Filled
         /\ Min(ToPlace) \in ToPlace /\ pc = "place" /\ pc' = "placeCount" /\ call' = call
<1> DEFINE s == build.copy[Min(ToPlace)]
           b == FirstEmpty(s.hash)
<1>1. /\ pc = "place" /\ pc' = "placeCount" /\ ToPlace # {} /\ values' = values /\ build' = build
      /\ index' = [index EXCEPT !.slot[b] = s] /\ call' = call
  BY DEF PlaceExistingBucket, BuildIndex
<1>2. /\ Min(ToPlace) \in ToPlace /\ s \in SlotType /\ s.hash \in Nat /\ s.hash # 0
      /\ IndexTyped /\ Ready /\ Cardinality(Filled) < index.bucketCount
      /\ b \in DOMAIN index.slot /\ b \notin Filled
  BY <1>1, PlaceFacts
<1>3. HomedAt(b, s.hash)  BY <1>2, FirstEmptyFacts DEF HomedAt
<1>4. Cardinality(Filled') < index.bucketCount
  <2>1. /\ Cardinality(Filled') = index'.itemCount + 1 /\ index'.bucketCount = build'.count
        /\ ToPlace' # {} /\ index'.itemCount \in Nat /\ build'.count \in Nat /\ build'.count > 0
        /\ IsFiniteSet(ToPlace') /\ Asked' \in Nat
        /\ Within(index'.itemCount + Cardinality(ToPlace') + Asked', build'.count)
    BY <1>1 DEF StoreInv, LayoutInv, RoomInv, Typed, IndexTyped, BuildTyped, BuildPcs, CallTyped, Asked
  <2>2. Cardinality(ToPlace') \in Nat /\ Cardinality(ToPlace') # 0
    BY <2>1, FS_CardinalityType, FS_EmptySet
  <2>3. index'.itemCount + Cardinality(ToPlace') + Asked' \in Nat  BY <2>1, <2>2
  <2>4. index'.itemCount + Cardinality(ToPlace') + Asked' < build'.count
    BY <2>1, <2>3, WithinRoom
  <2>5. index.bucketCount = build'.count  BY <1>1 DEF StoreInv, LayoutInv
  <2> QED  BY ONLY <2>1, <2>2, <2>4, <2>5
<1>5. ~Stale /\ ~Stale'  BY <1>1, InUse, InUseNext
<1> HIDE DEF s, b
<1>6. StoresIn(b, s)  BY <1>1, <1>2, <1>3, <1>4, <1>5 DEF StoresIn
<1> QED  BY <1>1, <1>2, <1>6 DEF s, b

LEMMA ScanStores ==
  ASSUME StoreInv, StoreInv', ScanRecord
  PROVE  LET o == values[next + 1].obj IN
         /\ StoresIn(FindBucket(o), [hash |-> HashOf[o], offset |-> next])
         /\ o \in Obj /\ Stops(o) # {} /\ pc = "scan" /\ pc' \in {"scan", "scanCount"}
         /\ ToPlace = {} /\ ~InCall /\ call' = call /\ ~FindCorrupt(o) /\ ScanValid
<1> DEFINE o == values[next + 1].obj
           s == [hash |-> HashOf[o], offset |-> next]
           b == FindBucket(o)
<1>1. /\ pc = "scan" /\ ScanValid /\ Fits(1) /\ ~FindCorrupt(o) /\ values' = values /\ build' = build
      /\ index' = [index EXCEPT !.slot[b] = s] /\ pc' \in {"scan", "scanCount"} /\ call' = call
  BY DEF ScanRecord, Scanning, Scanned, WithBucket
<1>2. next \in Nat /\ IsValidRecordHeader(next)  BY <1>1 DEF StoreInv, OffsetInv, ScanValid
<1>3. o \in Obj /\ HashOf[o] \in Nat \ {0}
  BY <1>2, ValidCell, ObjectAssumption DEF StoreInv, Typed
<1>4. /\ IndexTyped /\ Ready /\ b \in DOMAIN index.slot /\ Stops(o) # {}
      /\ index.itemCount + 1 < index.bucketCount /\ Cardinality(Filled) = index.itemCount
      /\ index.itemCount \in Nat /\ index.bucketCount \in Nat
  BY <1>1, <1>3, ScanFacts DEF IndexTyped
<1>5. s \in SlotType /\ s.hash # 0 /\ s.hash = HashOf[o]  BY <1>2, <1>3 DEF SlotType
<1>6. HomedAt(b, s.hash)  BY <1>3, <1>4, <1>5, FindHomed
<1>7. ~Stale /\ ~Stale'  BY <1>1, InUse, InUseNext
<1>8. ToPlace = {} /\ ~InCall
  BY <1>1 DEF StoreInv, Typed, BuildTyped, BuildPcs, InCall, Resizing
<1> HIDE DEF o, s, b
<1>9. Cardinality(Filled') < index.bucketCount
  <2>1. Cardinality(Filled') = Cardinality(Filled) \/ Cardinality(Filled') = Cardinality(Filled) + 1
    BY <1>1, <1>4, <1>5, SlotStored
  <2> QED  BY <1>4, <2>1
<1>10. StoresIn(b, s)  BY <1>1, <1>4, <1>5, <1>6, <1>7, <1>9 DEF StoresIn
<1> QED  BY <1>1, <1>3, <1>4, <1>8, <1>10 DEF o, s, b

LEMMA EntryStores ==
  ASSUME StoreInv, StoreInv', StoreEntry
  PROVE  LET o == InHand.obj IN
         /\ StoresIn(Target(o), [hash |-> HashOf[o], offset |-> next])
         /\ o \in Obj /\ (~call.unique => Stops(o) # {}) /\ pc = "store" /\ ToPlace = {} /\ InCall
         /\ call.entry \in 1 .. Len(call.batch)
         /\ Target(o) \in Filled => ~call.unique
         /\ \/ pc' = "count" /\ call' = call
            \/ pc' = "store" /\ call' = [call EXCEPT !.entry = @ + 1]
<1> DEFINE o == InHand.obj
           s == [hash |-> HashOf[o], offset |-> next]
           b == Target(o)
<1>1. /\ pc = "store" /\ call.entry <= Len(call.batch) /\ (call.unique \/ ~FindCorrupt(o))
      /\ index' = [index EXCEPT !.slot[b] = s] /\ values' = values /\ build' = build
      /\ \/ pc' = "count" /\ call' = call
         \/ pc' = "store" /\ call' = [call EXCEPT !.entry = @ + 1]
  BY DEF StoreEntry, Storing, NextEntry
<1>2. /\ o \in Obj /\ HashOf[o] \in Nat /\ HashOf[o] # 0 /\ IndexTyped /\ Ready
      /\ Cardinality(Filled) < index.bucketCount /\ Cardinality(Filled) = index.itemCount
      /\ b \in DOMAIN index.slot /\ (IsNew(o) <=> b \notin Filled)
  BY <1>1, StoreFacts
<1>3. InCall  BY <1>1 DEF InCall
<1>4. call.entry \in 1 .. Len(call.batch) /\ next \in Nat
  BY <1>1, <1>3, InHandFacts DEF StoreInv, OffsetInv
<1>5. s \in SlotType /\ s.hash # 0 /\ s.hash = HashOf[o]  BY <1>2, <1>4 DEF SlotType
<1>6. ~call.unique => Stops(o) # {}  BY <1>1 DEF FindCorrupt
<1>7. HomedAt(b, s.hash)
  <2>1. CASE call.unique
    <3>1. b = FirstEmpty(HashOf[o])  BY <2>1 DEF Target
    <3> QED  BY <1>2, <1>5, <3>1, FirstEmptyFacts DEF HomedAt
  <2>2. CASE ~call.unique
    <3>1. b = FindBucket(o)  BY <2>2 DEF Target
    <3> QED  BY <1>2, <1>5, <1>6, <2>2, <3>1, FindHomed
  <2> QED  BY <2>1, <2>2
<1>8. ~Stale /\ ~Stale'  BY <1>1, InUse, InUseNext
<1>9. ToPlace = {}  BY <1>1 DEF StoreInv, Typed, BuildTyped, BuildPcs
<1>10. b \in Filled => ~call.unique  BY <1>2 DEF IsNew
<1> HIDE DEF o, s, b
<1>11. Cardinality(Filled') < index.bucketCount
  <2>1. Cardinality(Filled') = Cardinality(Filled) \/ Cardinality(Filled') = Cardinality(Filled) + 1
    BY <1>1, <1>2, <1>5, SlotStored
  <2>2. Within(index.itemCount + (Len(call.batch) + 1 - call.entry), index.bucketCount)
    BY <1>1 DEF StoreInv, RoomInv
  <2>3. index.itemCount \in Nat /\ index.bucketCount \in Nat /\ index.bucketCount > 0
    BY <1>2 DEF IndexTyped, Ready
  <2>4. Len(call.batch) + 1 - call.entry \in Nat /\ Len(call.batch) + 1 - call.entry >= 1
    BY <1>4, CallShape
  <2>5. index.itemCount + (Len(call.batch) + 1 - call.entry) < index.bucketCount
    BY <2>2, <2>3, <2>4, WithinRoom
  <2> QED  BY <1>2, <2>1, <2>3, <2>4, <2>5
<1>12. StoresIn(b, s)  BY <1>1, <1>2, <1>5, <1>7, <1>8, <1>11 DEF StoresIn
<1> QED  BY <1>1, <1>2, <1>3, <1>4, <1>6, <1>9, <1>10, <1>12 DEF o, s, b

LEMMA ProbeStores ==
  ASSUME StoreInv, StoreInv', ProbeInv, PlaceExistingBucket \/ ScanRecord \/ StoreEntry
  PROVE  ProbeInv'
<1>1. /\ \E b, s : StoresIn(b, s)
      /\ pc' \in {"placeCount", "scan", "scanCount", "count", "store"}
  BY PlaceStores, ScanStores, EntryStores
<1>2. PICK b, s : StoresIn(b, s)  BY <1>1
<1> QED  BY <1>1, <1>2, ProbeStored DEF StoresIn

LEMMA InitProbe ==
  ASSUME Init, NoOldIndex
  PROVE  ProbeInv
<1>1. /\ pc = "closed" /\ \E f \in InitialFiles : values = f.values /\ index = f.index
  BY DEF Init
<1>2. index = NoIndex => index.header = FALSE  BY DEF NoIndex
<1>3. index = NoIndex \/ (Stale /\ "crash" \notin Faults)
  <2>1. index = NoIndex \/ OldFile(values)  BY <1>1, FilesAssumption
  <2>2. OldFile(values) => IsLegacy  BY DEF OldFile, IsLegacy
  <2>3. "crash" \in Faults => index = NoIndex  BY <1>1 DEF NoOldIndex
  <2> QED  BY <2>1, <2>2, <2>3 DEF Stale
<1> QED  BY <1>1, <1>2, <1>3 DEF ProbeInv

LEMMA NextProbe ==
  ASSUME StoreInv, StoreInv', ProbeInv, [Next]_vars
  PROVE  ProbeInv'
<1>1. CASE SameIndex  BY <1>1, ProbeSame
<1>2. CASE ~SameIndex
  <2>1. \/ CountPlaced \/ CountScanned \/ CountEntry \/ RemoveStaleIndex \/ DeleteIndex \/ Zero
        \/ StoreHeader \/ Truncate \/ MapFails \/ PlaceExistingBucket \/ ScanRecord \/ StoreEntry
    BY <1>2, Zenon DEF Next, SameIndex
  <2> QED  BY <2>1, ProbeCount, ProbeGone, ProbeHeader, ProbeTruncates, ProbeStores
<1> QED  BY <1>1, <1>2

-----------------------------------------------------------------------------
(* No object has two buckets: probing finds the bucket that names it.      *)

ObjIn(file, s) == file[s.offset + 1].obj
Distinct(file, f, S) == \A x, y \in S : ObjIn(file, f[x]) = ObjIn(file, f[y]) => x = y

\* What PlaceExistingBucket has still to place.
Pending == IF pc = "placeCount" THEN ToPlace \ {Min(ToPlace)} ELSE ToPlace

UniqueInv ==
  /\ ~Stale => Distinct(values, index.slot, Filled)
  /\ Distinct(values, build.copy, ToPlace)
  /\ pc \in {"place", "placeCount"} =>
       \A x \in Filled, y \in Pending : ObjIn(values, index.slot[x]) # ObjIn(values, build.copy[y])

LEMMA FindsNamed ==
  ASSUME StoreInv, NameInv, ProbeInv, ~Stale, Ready, NEW o \in Obj, NEW x \in Filled,
         ObjIn(values, index.slot[x]) = o
  PROVE  /\ Stops(o) # {} /\ FindBucket(o) \in Filled /\ Found(o)
         /\ ObjIn(values, index.slot[FindBucket(o)]) = o
<1>1. IndexTyped /\ HashOf[o] \in Nat /\ x \in DOMAIN index.slot
  BY ObjectAssumption DEF StoreInv, Typed, Filled
<1>2. Grown /\ index.header  BY DEF Grown, Ready
<1>3. Homed(x)  BY <1>2 DEF ProbeInv
<1>4. /\ \A y \in Filled : NamedIn(values, index.slot[y], Limit)
      /\ index.slot[x].hash = HashOf[o]
  BY DEF NameInv, NamedIn, ObjIn
<1>5. PICK k \in Probes : /\ x = Probe(HashOf[o], k)
                          /\ \A j \in 0 .. k - 1 : Probe(HashOf[o], j) \in Filled
  BY <1>3, <1>4 DEF Homed, HomedAt
<1>6. k \in Stops(o)  BY <1>4, <1>5 DEF Stops, ObjIn
<1>7. PICK m \in Stops(o) : /\ m \in Probes /\ FindBucket(o) = Probe(HashOf[o], m)
                            /\ \A j \in 0 .. m - 1 : j \in Probes /\ j \notin Stops(o)
  BY <1>1, <1>6, FindBucketFacts
<1>8. index.bucketCount \in Nat /\ k \in Nat /\ m \in Nat  BY <1>1, <1>5, <1>7 DEF IndexTyped, Probes
<1>9. m <= k  BY <1>6, <1>7, <1>8
<1>10. FindBucket(o) \in Filled
  <2>1. CASE m = k  BY <1>5, <1>7, <2>1
  <2>2. CASE m # k
    <3>1. m \in 0 .. k - 1  BY <1>8, <1>9, <2>2
    <3> QED  BY <1>5, <1>7, <3>1
  <2> QED  BY <2>1, <2>2
<1>11. Found(o)  BY <1>10 DEF Found, Filled
<1>12. IsValidRecordHeader(index.slot[FindBucket(o)].offset)
  BY <1>4, <1>10 DEF NamedIn, IsValidRecordHeader, HeadAt
<1>13. ObjIn(values, index.slot[FindBucket(o)]) = o
  BY <1>7, <1>11, <1>12 DEF Stops, Found, ObjIn
<1> QED  BY <1>6, <1>10, <1>11, <1>13

LEMMA AppendKeeps ==
  ASSUME StoreInv, AppendRecord
  PROVE  /\ pc = "append" /\ values' \in Seq(Cell) /\ Len(values') >= Len(values)
         /\ \A i \in 1 .. next : values'[i] = values[i]
         /\ next \in 0 .. Len(values) /\ next >= appendOffset
<1>1. pc = "append" /\ values' = Overwrite(values, next, Record(InHand))  BY DEF AppendRecord
<1>2. /\ next \in 0 .. Len(values) /\ next >= appendOffset /\ InHand \in Entry /\ values \in Seq(Cell)
  BY <1>1, AppendPlace
<1>3. Record(InHand) \in Seq(Cell)  BY <1>2, RecordCells
<1>4. Len(values) \in Nat /\ Len(Record(InHand)) \in Nat  BY <1>2, <1>3
<1>5. /\ values' \in Seq(Cell)
      /\ Len(values') = IF Len(values) >= next + Len(Record(InHand)) THEN Len(values)
                        ELSE next + Len(Record(InHand))
      /\ \A i \in 1 .. Len(values') :
           i \notin next + 1 .. next + Len(Record(InHand)) => values'[i] = values[i]
  BY <1>1, <1>2, <1>3, OverwriteCells
<1>6. Len(values') >= Len(values) /\ Len(values') \in Nat  BY <1>4, <1>5
<1>7. \A i \in 1 .. next : values'[i] = values[i]  BY <1>2, <1>4, <1>5, <1>6
<1> QED  BY <1>1, <1>2, <1>5, <1>6, <1>7

\* No step changes the file up to where the index names records.
LEMMA FileKept ==
  ASSUME StoreInv, [Next]_vars, ~Stale
  PROVE  \A i \in 1 .. Len(values) : i <= Limit => i <= Len(values') /\ values'[i] = values[i]
<1>0. values \in Seq(Cell) /\ Len(values) \in Nat  BY DEF StoreInv, Typed, FilesTyped
<1>1. CASE values' = values  BY <1>0, <1>1
<1>2. CASE values = <<>>  BY <1>2
<1>3. CASE pc = "append" /\ values' \in Seq(Cell) /\ Len(values') >= Len(values)
           /\ (\A i \in 1 .. next : values'[i] = values[i])
  <2>1. next \in 0 .. Len(values) /\ next >= appendOffset  BY <1>3, AppendPlace
  <2>2. Limit = appendOffset /\ appendOffset \in Nat  BY <1>3 DEF Limit, StoreInv, OffsetInv
  <2>3. Len(values') \in Nat  BY <1>3
  <2> QED  BY <1>0, <1>3, <2>1, <2>2, <2>3
<1>4. \/ values' = values \/ values = <<>> \/ AppendRecord
      \/ pc = "append" /\ \E cells \in Cut(InHand) : values' = Overwrite(values, next, cells)
  <2>1. CASE UNCHANGED vars  BY <2>1 DEF vars, disk
  <2>2. CASE OpenValueFile  BY <2>2 DEF OpenValueFile
  <2>3. CASE CopyRecord \/ CopyFails \/ RenameMigrated \/ RemoveStaleIndex
    <3>1. pc \in {"migrate", "removeIndex"}
      BY <2>3 DEF CopyRecord, CopyFails, RenameMigrated, RemoveStaleIndex
    <3> QED  BY <3>1 DEF Stale
  <2>4. CASE UseIndex \/ StartRebuild \/ OpenReadOnly \/ EnsureCapacityForInsert \/ MapFails
             \/ ScanGrows \/ ScanRecord \/ CountScanned \/ ScanFails \/ ScanEnds
    BY <2>4 DEF UseIndex, StartRebuild, OpenReadOnly, EnsureCapacityForInsert, MapFails, ScanGrows,
                ScanRecord, CountScanned, ScanFails, ScanEnds, disk
  <2>5. CASE Truncate \/ Zero \/ StoreHeader \/ PlaceExistingBucket \/ CountPlaced \/ Built
    BY <2>5 DEF Truncate, Zero, StoreHeader, PlaceExistingBucket, CountPlaced, Built, BuildIndex
  <2>6. CASE PutStructs \/ PutUniqueStructs
    BY <2>6 DEF PutStructs, PutUniqueStructs, CallWriteStructs, disk
  <2>7. CASE AppendRecord \/ AppendFails \/ Crash  BY <2>7 DEF AppendFails, Crash
  <2>8. CASE StoreEntry \/ CountEntry \/ FindFails \/ FinishWrite \/ UseUnmapped \/ Close \/ DeleteIndex
    BY <2>8 DEF StoreEntry, CountEntry, FindFails, FinishWrite, UseUnmapped, Close, DeleteIndex, disk
  <2> QED  BY <2>1, <2>2, <2>3, <2>4, <2>5, <2>6, <2>7, <2>8 DEF Next
<1>5. CASE AppendRecord  BY <1>3, <1>5, AppendKeeps
<1>6. CASE pc = "append" /\ \E cells \in Cut(InHand) : values' = Overwrite(values, next, cells)
  BY <1>3, <1>6, CutPlace
<1> QED  BY <1>1, <1>2, <1>4, <1>5, <1>6

\* So what a bucket names stays what it is.
LEMMA ObjKept ==
  ASSUME StoreInv, NameInv, [Next]_vars, ~Stale
  PROVE  /\ \A x \in Filled : ObjIn(values', index.slot[x]) = ObjIn(values, index.slot[x])
         /\ \A x \in ToPlace : ObjIn(values', build.copy[x]) = ObjIn(values, build.copy[x])
<1>1. ASSUME NEW s, s.offset \in Nat, NamedIn(values, s, Limit)
      PROVE  ObjIn(values', s) = ObjIn(values, s)
  <2>1. values \in Seq(Cell)  BY DEF StoreInv, Typed, FilesTyped
  <2>2. s.offset + 1 \in 1 .. Len(values) /\ values[s.offset + 1] \in Cell
        /\ values[s.offset + 1].obj \in Obj
    BY <1>1, <2>1 DEF NamedIn
  <2>3. ValLen[values[s.offset + 1].val] \in Nat  BY <2>2, CellFields
  <2>4. s.offset + 1 + ValLen[values[s.offset + 1].val] <= Limit  BY <1>1 DEF NamedIn
  <2>5. s.offset + 1 <= Limit  BY <1>1, <2>3, <2>4, LimitTyped
  <2>6. values'[s.offset + 1] = values[s.offset + 1]  BY <2>2, <2>5, FileKept
  <2> QED  BY <2>6 DEF ObjIn
<1> QED  BY <1>1, SlotsTyped DEF NameInv

\* No slot comes in, none moves.
Shrunk ==
  /\ \A x \in Filled' : x \in Filled /\ index'.slot[x] = index.slot[x]
  /\ \A x \in ToPlace' : x \in ToPlace /\ build'.copy[x] = build.copy[x]
  /\ pc' \in {"place", "placeCount"} =>
       Filled' = {} \/ (pc \in {"place", "placeCount"} /\ Pending' \subseteq Pending)
  /\ ~Stale' => ~Stale \/ Filled' = {}

LEMMA UniqueShrunk ==
  ASSUME StoreInv, NameInv, UniqueInv, [Next]_vars, Shrunk
  PROVE  UniqueInv'
<1>1. Stale => ToPlace = {}
  <2>1. Stale => pc \notin BuildPcs  BY InUse DEF BuildPcs
  <2> QED  BY <2>1 DEF StoreInv, Typed, BuildTyped
<1>2. ASSUME ~Stale'  PROVE Distinct(values', index'.slot, Filled')
  <2>1. CASE Filled' = {}  BY <2>1 DEF Distinct
  <2>2. CASE ~Stale  BY <2>2, ObjKept DEF UniqueInv, Distinct, Shrunk
  <2> QED  BY <1>2, <2>1, <2>2 DEF Shrunk
<1>3. Distinct(values', build'.copy, ToPlace')
  <2>1. CASE ToPlace = {}  BY <2>1 DEF Distinct, Shrunk
  <2>2. CASE ~Stale  BY <2>2, ObjKept DEF UniqueInv, Distinct, Shrunk
  <2> QED  BY <1>1, <2>1, <2>2
<1>4. ASSUME pc' \in {"place", "placeCount"}, NEW x \in Filled', NEW y \in Pending'
      PROVE  ObjIn(values', index'.slot[x]) # ObjIn(values', build'.copy[y])
  <2>1. pc \in {"place", "placeCount"} /\ y \in Pending /\ x \in Filled /\ y \in ToPlace'
    BY <1>4 DEF Shrunk, Pending
  <2>2. index'.slot[x] = index.slot[x] /\ y \in ToPlace /\ build'.copy[y] = build.copy[y]
    BY <2>1 DEF Shrunk
  <2>3. ~Stale  BY <2>1, InUse
  <2>4. ObjIn(values, index.slot[x]) # ObjIn(values, build.copy[y])  BY <2>1 DEF UniqueInv
  <2> QED  BY <2>1, <2>2, <2>3, <2>4, ObjKept
<1> QED  BY <1>2, <1>3, <1>4 DEF UniqueInv

\* The steps that store nothing and start no resize.
LEMMA SameShrinks ==
  ASSUME StoreInv, StoreInv', NameInv, SameIndex, pc' # "double" \/ EnsureCapacityForInsert \/ UNCHANGED vars
  PROVE  Shrunk
<1>1. index' = index  BY SameIndexKeeps
<1>2. Filled' = Filled  BY <1>1 DEF Filled
<1>3. ~Stale' => ~Stale \/ Filled' = {}  BY <1>2, StaleStep DEF NameInv
<1>4. \A x \in ToPlace' : x \in ToPlace /\ build'.copy[x] = build.copy[x]
  <2>1. CASE build' = build  BY <2>1 DEF ToPlace
  <2>2. CASE pc' \notin BuildPcs  BY <2>2 DEF StoreInv, Typed, BuildTyped
  <2>3. CASE EnsureCapacityForInsert
    <3>1. build'.copy = build.copy
      BY <2>3 DEF EnsureCapacityForInsert, StoreInv, Typed, BuildTyped
    <3> QED  BY <3>1 DEF ToPlace
  <2>4. CASE StartRebuild
    <3>1. build'.copy = NoSlots /\ DOMAIN NoSlots = {}  BY <2>4 DEF StartRebuild, NoBuild, NoSlots
    <3> QED  BY <3>1 DEF ToPlace
  <2>5. CASE \/ OpenValueFile \/ CopyRecord \/ CopyFails \/ RenameMigrated \/ UseIndex \/ OpenReadOnly
    BY <2>1, <2>2, <2>5 DEF OpenValueFile, CopyRecord, CopyFails, RenameMigrated, UseIndex,
                            OpenReadOnly, Closed, BuildPcs, locals
  <2>6. CASE \/ Built \/ ScanFails \/ ScanEnds \/ UseUnmapped \/ Close \/ Crash \/ UNCHANGED vars
    BY <2>1, <2>2, <2>6 DEF Built, ScanFails, ScanEnds, UseUnmapped, Close, Crash, Closed,
                            BuildPcs, vars, locals
  <2>7. CASE AppendRecord \/ AppendFails \/ FindFails \/ FinishWrite
    BY <2>1, <2>2, <2>7 DEF AppendRecord, AppendFails, AfterCut, WriteFails, FindFails, FinishWrite,
                            BuildPcs
  <2>8. CASE ScanGrows \/ PutStructs \/ PutUniqueStructs
    <3>1. pc' = "double" \/ pc' = "append"
      BY <2>8 DEF ScanGrows, PutStructs, PutUniqueStructs, CallWriteStructs, StartResize
    <3> QED  BY <2>1, <2>2, <2>3, <2>8, <3>1 DEF BuildPcs, vars, locals
  <2> QED  BY <2>3, <2>4, <2>5, <2>6, <2>7, <2>8 DEF SameIndex
<1>5. pc' \in {"place", "placeCount"} => pc' = pc /\ build' = build
  <2>1. CASE UNCHANGED vars  BY <2>1 DEF vars, locals
  <2>2. CASE \/ OpenValueFile \/ CopyRecord \/ CopyFails \/ RenameMigrated \/ UseIndex \/ OpenReadOnly
             \/ StartRebuild \/ EnsureCapacityForInsert
    BY <2>2 DEF OpenValueFile, CopyRecord, CopyFails, RenameMigrated, UseIndex, StartRebuild,
                OpenReadOnly, Closed, EnsureCapacityForInsert
  <2>3. CASE Built  BY <2>3 DEF Built, BuildIndex, StoreInv, Typed, BuildTyped
  <2>4. CASE \/ ScanFails \/ ScanEnds \/ UseUnmapped \/ Close \/ Crash
             \/ AppendRecord \/ AppendFails \/ FindFails \/ FinishWrite
    BY <2>4 DEF ScanFails, ScanEnds, UseUnmapped, Close, Crash, Closed,
                AppendRecord, AppendFails, AfterCut, WriteFails, FindFails, FinishWrite
  <2>5. CASE ScanGrows \/ PutStructs \/ PutUniqueStructs
    BY <2>5 DEF ScanGrows, PutStructs, PutUniqueStructs, CallWriteStructs, StartResize
  <2> QED  BY <2>1, <2>2, <2>3, <2>4, <2>5 DEF SameIndex
<1>6. pc' \in {"place", "placeCount"} => pc \in {"place", "placeCount"} /\ Pending' \subseteq Pending
  BY <1>5 DEF Pending, ToPlace
<1> QED  BY <1>1, <1>2, <1>3, <1>4, <1>6 DEF Shrunk

LEMMA OtherShrinks ==
  ASSUME StoreInv, StoreInv', \/ CountPlaced \/ CountScanned \/ CountEntry \/ RemoveStaleIndex
                              \/ DeleteIndex \/ Zero \/ StoreHeader \/ Truncate \/ MapFails
  PROVE  Shrunk
<1>1. CASE CountPlaced
  <2>1. /\ pc = "placeCount" /\ pc' = "place" /\ index' = [index EXCEPT !.itemCount = @ + 1]
        /\ build' = [build EXCEPT !.copy = Restrict(@, ToPlace \ {Min(ToPlace)})]
    BY <1>1 DEF CountPlaced, BuildIndex
  <2>2. index'.slot = index.slot /\ Filled' = Filled  BY <2>1, ItemCounted DEF StoreInv, Typed
  <2>3. /\ ToPlace' = ToPlace \ {Min(ToPlace)}
        /\ \A x \in ToPlace' : x \in ToPlace /\ build'.copy[x] = build.copy[x]
    BY <2>1, PlacedTaken DEF StoreInv, Typed, LayoutInv
  <2>4. Pending' = Pending  BY <2>1, <2>3 DEF Pending
  <2>5. pc = "placeCount" /\ ~Stale  BY <2>1, InUse
  <2> QED  BY ONLY <2>2, <2>3, <2>4, <2>5 DEF Shrunk
<1>2. CASE CountScanned \/ CountEntry
  <2>1. /\ pc \in {"scanCount", "count"} /\ pc' \in {"scan", "store"} /\ build' = build
        /\ index' = [index EXCEPT !.itemCount = @ + 1]
    BY <1>2 DEF CountScanned, CountEntry
  <2>2. index'.slot = index.slot /\ Filled' = Filled  BY <2>1, ItemCounted DEF StoreInv, Typed
  <2>3. ToPlace' = ToPlace /\ build' = build /\ pc' \notin {"place", "placeCount"} /\ ~Stale
    BY <2>1, InUse DEF ToPlace
  <2> QED  BY ONLY <2>2, <2>3 DEF Shrunk
<1>3. CASE RemoveStaleIndex \/ DeleteIndex
  <2>1. /\ index' = NoIndex /\ build' = build /\ pc' \in {"openIndex", "closed"}
    BY <1>3 DEF RemoveStaleIndex, DeleteIndex, locals
  <2>2. Filled' = {}  BY <2>1, IndexRemoved
  <2> QED  BY <2>1, <2>2 DEF Shrunk, ToPlace
<1>4. CASE Zero
  <2>1. pc' = "header" /\ build' = build  BY <1>4 DEF Zero, BuildIndex
  <2>2. Filled' = {}  BY <1>4, SlotsZeroed DEF Zero, BuildIndex, StoreInv, Typed, BuildTyped
  <2> QED  BY <2>1, <2>2 DEF Shrunk, ToPlace
<1>5. CASE StoreHeader
  <2>1. /\ pc = "header" /\ pc' = "place" /\ build' = build /\ build.count \in Nat
        /\ index' = [index EXCEPT !.header = TRUE, !.bucketCount = build.count]
    BY <1>5 DEF StoreHeader, BuildIndex, StoreInv, Typed, BuildTyped
  <2>2. index'.slot = index.slot /\ Filled' = Filled  BY <2>1, HeaderStored DEF StoreInv, Typed
  <2>3. index.slot = [b \in 0 .. build.count - 1 |-> EmptySlot]  BY <2>1 DEF StoreInv, LayoutInv
  <2>4. Filled' = {} /\ ToPlace' = ToPlace  BY <2>1, <2>2, <2>3, EmptySlotTyped DEF Filled, ToPlace
  <2>5. build' = build  BY <2>1
  <2> QED  BY ONLY <2>4, <2>5 DEF Shrunk
<1>6. CASE Truncate \/ MapFails
  <2>1. /\ pc = "truncate" /\ pc' \in {"zero", "unmapped", "closed"} /\ index' \in {index, Truncated}
        /\ pc' = "zero" => build' = build
    BY <1>6 DEF Truncate, BuildIndex, MapFails, WriteFails, Closed
  <2>2. \A x \in Filled' : x \in Filled /\ index'.slot[x] = index.slot[x]
    <3>1. CASE index' = index  BY <3>1 DEF Filled
    <3>2. CASE index' = Truncated
      <4>1. /\ Filled' = Filled \cap (0 .. build.count - 1)
            /\ \A b \in 0 .. build.count - 1 :
                 index'.slot[b] = IF b \in DOMAIN index.slot THEN index.slot[b] ELSE EmptySlot
        BY <3>2, SlotsTruncated DEF StoreInv, Typed, BuildTyped
      <4> QED  BY <4>1 DEF Filled
    <3> QED  BY <2>1, <3>1, <3>2
  <2>3. \A x \in ToPlace' : x \in ToPlace /\ build'.copy[x] = build.copy[x]
    <3>1. CASE pc' = "zero"  BY <2>1, <3>1 DEF ToPlace
    <3>2. CASE pc' # "zero"  BY <2>1, <3>2 DEF StoreInv, Typed, BuildTyped, BuildPcs
    <3> QED  BY <3>1, <3>2
  <2>4. ~Stale  BY <2>1, InUse
  <2> QED  BY <2>1, <2>2, <2>3, <2>4 DEF Shrunk
<1> QED  BY <1>1, <1>2, <1>3, <1>4, <1>5, <1>6

LEMMA UniqueResize ==
  ASSUME StoreInv, StoreInv', UniqueInv, ScanGrows \/ PutStructs \/ PutUniqueStructs, pc' = "double"
  PROVE  UniqueInv' /\ ToPlace' = Filled /\ (\A x \in Filled : build'.copy[x] = index.slot[x])
         /\ values' = values /\ index' = index
<1>1. /\ StartResize("scan") \/ StartResize("append")
      /\ pc \in {"scan", "idle"} /\ UNCHANGED <<values, index>>
  BY DEF ScanGrows, Scanning, PutStructs, PutUniqueStructs, CallWriteStructs, disk
<1>2. Ready /\ IndexTyped  BY <1>1 DEF StoreInv, LayoutInv, Typed
<1>3. ToPlace' = Filled /\ \A x \in Filled : build'.copy[x] = index.slot[x]
  BY <1>1, <1>2, ResizeStarted
<1>4. ~Stale  BY <1>1, InUse
<1>5. Distinct(values, index.slot, Filled)  BY <1>4 DEF UniqueInv
<1>6. Filled' = Filled  BY <1>1 DEF Filled
<1>7. Distinct(values', index'.slot, Filled') /\ Distinct(values', build'.copy, ToPlace')
  BY <1>1, <1>3, <1>5, <1>6 DEF Distinct
<1> QED  BY <1>1, <1>3, <1>7 DEF UniqueInv

\* A slot is stored of an object that no other bucket names.
LEMMA DistinctStored ==
  ASSUME StoreInv, UniqueInv, NEW b, NEW s, StoresIn(b, s),
         \A x \in Filled : ObjIn(values, index.slot[x]) = ObjIn(values, s) => x = b
  PROVE  /\ Distinct(values', index'.slot, Filled') /\ index'.slot[b] = s
         /\ \A x \in Filled' : index'.slot[x] = s \/ (x \in Filled /\ index'.slot[x] = index.slot[x])
<1>1. /\ index'.slot[b] = s /\ Filled' = Filled \cup {b}
      /\ \A c \in DOMAIN index.slot : c # b => index'.slot[c] = index.slot[c]
  BY SlotStored DEF StoresIn, StoreInv, Typed
<1>2. \A x \in Filled : x # b => index'.slot[x] = index.slot[x]  BY <1>1 DEF Filled
<1>3. Distinct(values, index.slot, Filled) /\ values' = values  BY DEF UniqueInv, StoresIn
<1>4. ASSUME NEW x \in Filled', NEW y \in Filled', ObjIn(values, index'.slot[x]) = ObjIn(values, index'.slot[y])
      PROVE  x = y
  <2>1. CASE x = b /\ y # b
    <3>1. y \in Filled /\ index'.slot[y] = index.slot[y] /\ index'.slot[x] = s  BY <1>1, <1>2, <2>1
    <3> QED  BY <1>4, <2>1, <3>1
  <2>2. CASE y = b /\ x # b
    <3>1. x \in Filled /\ index'.slot[x] = index.slot[x] /\ index'.slot[y] = s  BY <1>1, <1>2, <2>2
    <3> QED  BY <1>4, <2>2, <3>1
  <2>3. CASE x # b /\ y # b
    <3>1. x \in Filled /\ y \in Filled /\ index'.slot[x] = index.slot[x] /\ index'.slot[y] = index.slot[y]
      BY <1>1, <1>2, <2>3
    <3> QED  BY <1>3, <1>4, <3>1 DEF Distinct
  <2> QED  BY <2>1, <2>2, <2>3
<1>5. Distinct(values', index'.slot, Filled')  BY <1>3, <1>4 DEF Distinct
<1>6. \A x \in Filled' : index'.slot[x] = s \/ (x \in Filled /\ index'.slot[x] = index.slot[x])
  BY <1>1, <1>2
<1> QED  BY <1>1, <1>5, <1>6

LEMMA UniquePlace ==
  ASSUME StoreInv, StoreInv', UniqueInv, PlaceExistingBucket
  PROVE  UniqueInv'
<1>1. PICK m : m = Min(ToPlace)  OBVIOUS
<1>2. PICK s : s = build.copy[m]  OBVIOUS
<1>3. PICK b : b = FirstEmpty(s.hash)  OBVIOUS
<1>4. /\ StoresIn(b, s) /\ m \in ToPlace /\ pc = "place" /\ pc' = "placeCount"
  BY <1>1, <1>2, <1>3, PlaceStores
<1>5. values' = values /\ build' = build  BY <1>4 DEF StoresIn
<1>6. \A x \in Filled, y \in ToPlace : ObjIn(values, index.slot[x]) # ObjIn(values, build.copy[y])
  BY <1>4 DEF UniqueInv, Pending
<1>7. \A x \in Filled : ObjIn(values, index.slot[x]) # ObjIn(values, s)  BY <1>2, <1>4, <1>6
<1>8. /\ Distinct(values', index'.slot, Filled')
      /\ \A x \in Filled' : index'.slot[x] = s \/ (x \in Filled /\ index'.slot[x] = index.slot[x])
  BY <1>4, <1>7, DistinctStored
<1>9. ToPlace' = ToPlace /\ Pending' = ToPlace \ {m}  BY <1>1, <1>4, <1>5 DEF ToPlace, Pending
<1>10. Distinct(values, build.copy, ToPlace)  BY DEF UniqueInv
<1>11. ASSUME NEW x \in Filled', NEW y \in Pending'
       PROVE  ObjIn(values', index'.slot[x]) # ObjIn(values', build'.copy[y])
  <2>1. y \in ToPlace /\ y # m  BY <1>9
  <2>2. CASE index'.slot[x] = s  BY <1>2, <1>4, <1>5, <1>10, <2>1, <2>2 DEF Distinct
  <2>3. CASE x \in Filled /\ index'.slot[x] = index.slot[x]  BY <1>5, <1>6, <2>1, <2>3
  <2> QED  BY <1>8, <2>2, <2>3
<1> QED  BY <1>4, <1>5, <1>8, <1>9, <1>10, <1>11 DEF UniqueInv

-----------------------------------------------------------------------------
(* An object that PutUniqueStructs is called with is in no file.           *)

Known(o) == acked[o] # NoVal \/ maybe[o] # {} \/ Entries(o) # {}
FileKnown(file) == \A i \in DOMAIN file : file[i].obj \in Obj => Known(file[i].obj)

\* The entries that the index loop has still to store.
Ahead == CASE pc = "store" -> call.entry .. Len(call.batch)
           [] pc = "count" -> call.entry + 1 .. Len(call.batch)
           [] OTHER -> 1 .. Len(call.batch)
Unnamed(o) == /\ \A x \in Filled : ObjIn(values, index.slot[x]) # o
              /\ \A x \in ToPlace : ObjIn(values, build.copy[x]) # o

KnownInv == FileKnown(values) /\ FileKnown(temp)
FreshInv == InCall /\ call.unique =>
              New(call.batch) /\ \A i \in Ahead : Unnamed(call.batch[i].obj)

\* What a step does to the running call and to the history.
LEMMA HistoryStep ==
  ASSUME StoreInv, StoreInv', [Next]_vars
  PROVE  \/ UNCHANGED <<acked, maybe>> /\ call'.batch = call.batch /\ call'.unique = call.unique
         \/ UNCHANGED <<acked, maybe>> /\ ~InCall /\ (PutStructs \/ PutUniqueStructs)
         \/ Unacknowledged /\ call' = NoCall /\ ~InCall'
         \/ Acknowledged /\ call' = NoCall /\ ~InCall'
<1>0. call = [batch |-> call.batch, unique |-> call.unique, entry |-> call.entry]
  BY DEF StoreInv, Typed, CallTyped
<1>1. CASE call' = call /\ UNCHANGED <<acked, maybe>>  BY <1>1
<1>2. CASE UNCHANGED vars  BY <1>1, <1>2 DEF vars, locals, history
<1>3. CASE \/ OpenValueFile \/ CopyRecord \/ RenameMigrated \/ RemoveStaleIndex \/ UseIndex
           \/ StartRebuild \/ OpenReadOnly \/ DeleteIndex
  BY <1>1, <1>3 DEF OpenValueFile, CopyRecord, RenameMigrated, RemoveStaleIndex, UseIndex,
                    StartRebuild, OpenReadOnly, DeleteIndex, locals, history
<1>4. CASE Truncate \/ Zero \/ StoreHeader \/ PlaceExistingBucket \/ CountPlaced \/ Built
  BY <1>1, <1>4 DEF Truncate, Zero, StoreHeader, PlaceExistingBucket, CountPlaced, Built, BuildIndex
<1>5. CASE \/ EnsureCapacityForInsert \/ ScanGrows \/ ScanRecord \/ CountScanned \/ ScanEnds
  BY <1>1, <1>5 DEF EnsureCapacityForInsert, ScanGrows, ScanRecord, CountScanned, ScanEnds, history
<1>6. CASE CopyFails \/ ScanFails \/ UseUnmapped \/ Close
  <2>1. /\ call' = NoCall /\ UNCHANGED <<acked, maybe>>
        /\ pc \in {"migrate", "scan", "unmapped", "idle", "readonly"}
    BY <1>6 DEF CopyFails, ScanFails, Scanning, UseUnmapped, Close, Closed, Reset, history
  <2>2. ~InCall  BY <2>1 DEF InCall, Resizing, BuildPcs
  <2> QED  BY <1>1, <2>1, <2>2 DEF StoreInv, Typed, CallTyped
<1>7. CASE MapFails
  <2>1. CASE build.resume = "append"
    <3>1. Unacknowledged /\ call' = NoCall /\ pc' = "unmapped"
      BY <1>7, <2>1 DEF MapFails, WriteFails, Reset
    <3> QED  BY <3>1 DEF InCall, Resizing, BuildPcs
  <2>2. CASE build.resume # "append"
    <3>1. call' = NoCall /\ UNCHANGED <<acked, maybe>> /\ pc = "truncate"
      BY <1>7, <2>2 DEF MapFails, Closed, Reset
    <3>2. ~InCall  BY <2>2, <3>1 DEF InCall, Resizing, BuildPcs
    <3> QED  BY <1>1, <3>1, <3>2 DEF StoreInv, Typed, CallTyped
  <2> QED  BY <2>1, <2>2
<1>8. CASE PutStructs \/ PutUniqueStructs
  <2>1. pc = "idle" /\ UNCHANGED <<acked, maybe>>
    BY <1>8 DEF PutStructs, PutUniqueStructs, CallWriteStructs, history
  <2>2. ~InCall  BY <2>1 DEF InCall, Resizing, BuildPcs
  <2> QED  BY <1>8, <2>1, <2>2
<1>9. CASE AppendRecord \/ StoreEntry \/ CountEntry
  <2>1. /\ UNCHANGED <<acked, maybe>>
        /\ \/ call' = [call EXCEPT !.entry = @ + 1]
           \/ call' = [call EXCEPT !.entry = 1]
           \/ call' = call
    BY <1>9 DEF AppendRecord, StoreEntry, CountEntry, NextEntry, history
  <2> QED  BY <1>0, <2>1
<1>10. CASE AppendFails \/ FindFails \/ Crash
  <2>1. Unacknowledged /\ call' = NoCall /\ pc' \in {"idle", "closed"}
    BY <1>10 DEF AppendFails, AfterCut, WriteFails, FindFails, Crash, Closed, Reset
  <2> QED  BY <2>1 DEF InCall, Resizing, BuildPcs
<1>11. CASE FinishWrite
  <2>1. Acknowledged /\ call' = NoCall /\ pc' = "idle"  BY <1>11 DEF FinishWrite, Reset
  <2> QED  BY <2>1 DEF InCall, Resizing, BuildPcs
<1> QED  BY <1>2, <1>3, <1>4, <1>5, <1>6, <1>7, <1>8, <1>9, <1>10, <1>11 DEF Next

LEMMA KnownGrows ==
  ASSUME StoreInv, StoreInv', [Next]_vars, NEW o \in Obj, Known(o)
  PROVE  Known(o)'
<1>0. /\ call.batch \in Seq(Entry) /\ acked \in [Obj -> Val \cup {NoVal}] /\ maybe \in [Obj -> SUBSET Val]
      /\ ~InCall => call = NoCall
  BY DEF StoreInv, Typed, CallTyped, HistoryTyped
<1>1. CASE UNCHANGED <<acked, maybe>> /\ call'.batch = call.batch
  BY <1>1 DEF Known, Entries
<1>2. CASE UNCHANGED <<acked, maybe>> /\ ~InCall
  <2>1. Entries(o) = {}  BY <1>0, <1>2 DEF Entries, NoCall
  <2> QED  BY <1>2, <2>1 DEF Known
<1>3. CASE Unacknowledged
  <2>1. acked' = acked /\ maybe'[o] = maybe[o] \cup {call.batch[i].val : i \in Entries(o)}
    BY <1>3 DEF Unacknowledged
  <2> QED  BY <2>1 DEF Known
<1>4. CASE Acknowledged
  <2>1. CASE Entries(o) = {}
    <3>1. acked'[o] = acked[o] /\ maybe'[o] = maybe[o]  BY <1>4, <2>1 DEF Acknowledged
    <3> QED  BY <2>1, <3>1 DEF Known
  <2>2. CASE Entries(o) # {}
    <3>1. acked'[o] = call.batch[Max(Entries(o))].val  BY <1>4, <2>2 DEF Acknowledged
    <3>2. Len(call.batch) \in Nat  BY <1>0
    <3>3. Max(Entries(o)) \in Entries(o)  BY <1>0, <2>2, <3>2, EntriesTyped, MaxOfBounded
    <3>4. acked'[o] \in Val  BY <1>0, <3>1, <3>3, EntriesTyped
    <3> QED  BY <3>4, ObjectAssumption DEF Known
  <2> QED  BY <2>1, <2>2
<1> QED  BY <1>1, <1>2, <1>3, <1>4, HistoryStep

LEMMA RecordObj ==
  ASSUME NEW e \in Entry
  PROVE  \A i \in 1 .. RecordSize(e) : Record(e)[i].obj = e.obj
<1>1. \A i \in 1 .. RecordSize(e) : Record(e)[i] = [obj |-> e.obj, val |-> e.val, at |-> i - 1]
  BY RecordCells
<1>2. ASSUME NEW i \in 1 .. RecordSize(e)  PROVE Record(e)[i].obj = e.obj
  <2>1. Record(e)[i] = [obj |-> e.obj, val |-> e.val, at |-> i - 1]  BY <1>1
  <2> QED  BY ONLY <2>1
<1> QED  BY <1>2

\* The cells that a write puts into the file are of the entry in hand.
LEMMA WrittenKnown ==
  ASSUME StoreInv, KnownInv, pc = "append", NEW c \in Seq(Cell), values' = Overwrite(values, next, c),
         \A i \in 1 .. Len(c) : c[i].obj \in Obj => c[i].obj = InHand.obj
  PROVE  \A i \in DOMAIN values' : values'[i].obj \in Obj => Known(values'[i].obj)
<1>1. /\ next \in 0 .. Len(values) /\ InHand \in Entry /\ values \in Seq(Cell)
      /\ call.entry \in 1 .. Len(call.batch) /\ call.batch \in Seq(Entry)
  BY AppendPlace, CallShape
<1>2. Known(InHand.obj)
  <2>1. call.entry \in Entries(InHand.obj)  BY <1>1 DEF Entries, InHand
  <2> QED  BY <2>1 DEF Known
<1>3. /\ values' \in Seq(Cell)
      /\ \A i \in next + 1 .. next + Len(c) : values'[i] = c[i - next]
      /\ \A i \in 1 .. Len(values') : i \notin next + 1 .. next + Len(c) =>
           i <= Len(values) /\ values'[i] = values[i]
  BY <1>1, OverwriteCells
<1>4. ASSUME NEW i \in 1 .. Len(values'), values'[i].obj \in Obj  PROVE Known(values'[i].obj)
  <2>1. CASE i \in next + 1 .. next + Len(c)
    <3>1. i - next \in 1 .. Len(c)  BY <1>1, <2>1
    <3>2. values'[i].obj = InHand.obj  BY <1>3, <1>4, <2>1, <3>1
    <3> QED  BY <1>2, <3>2
  <2>2. CASE i \notin next + 1 .. next + Len(c)
    <3>1. i \in DOMAIN values /\ values'[i] = values[i]  BY <1>1, <1>3, <1>4, <2>2
    <3> QED  BY <1>4, <3>1 DEF KnownInv, FileKnown
  <2> QED  BY <2>1, <2>2
<1>5. DOMAIN values' = 1 .. Len(values')  BY <1>3
<1> QED  BY <1>4, <1>5

LEMMA CutKnown ==
  ASSUME StoreInv, KnownInv, pc = "append",
         \E cells \in Cut(InHand) : values' = Overwrite(values, next, cells)
  PROVE  \A i \in DOMAIN values' : values'[i].obj \in Obj => Known(values'[i].obj)
<1>1. PICK c \in Cut(InHand) : values' = Overwrite(values, next, c)  OBVIOUS
<1>2. InHand \in Entry  BY AppendPlace
<1>3. /\ c \in Seq(Cell) /\ Len(c) < RecordSize(InHand)
      /\ \A i \in 1 .. Len(c) : c[i] = Record(InHand)[i] \/ c[i] = Fragment
  BY <1>2, CutCells
<1>4. Fragment.obj \notin Obj  BY ObjectAssumption DEF Fragment
<1>5. \A i \in 1 .. RecordSize(InHand) : Record(InHand)[i].obj = InHand.obj  BY <1>2, RecordObj
<1>6. Len(c) \in Nat /\ RecordSize(InHand) \in Nat  BY <1>2, <1>3, EntryFields
<1>7. ASSUME NEW i \in 1 .. Len(c), c[i].obj \in Obj  PROVE c[i].obj = InHand.obj
  <2>1. i \in 1 .. RecordSize(InHand)  BY <1>3, <1>6
  <2>2. c[i] = Record(InHand)[i]  BY <1>3, <1>4, <1>7
  <2> QED  BY <1>5, <2>1, <2>2
<1> QED  BY <1>1, <1>3, <1>7, WrittenKnown

LEMMA CopyKnown ==
  ASSUME StoreInv, KnownInv, CopyRecord
  PROVE  \A i \in DOMAIN temp' : temp'[i].obj \in Obj => Known(temp'[i].obj)
<1>1. /\ pc = "migrate" /\ next < Len(values) /\ CopyValid
      /\ temp' = temp \o <<[values[next + 1] EXCEPT !.at = 0]>>
                     \o SubSeq(values, next + 3, next + 2 + ValLenAt(next))
      /\ next' = next + 2 + ValLenAt(next)
  BY DEF CopyRecord
<1>2. /\ temp' \in Seq(Cell) /\ ValLenAt(next) \in Nat
      /\ Len(temp') = Len(temp) + 1 + ValLenAt(next)
      /\ \A i \in 1 .. Len(temp) : temp'[i] = temp[i]
      /\ temp'[Len(temp) + 1] = [values[next + 1] EXCEPT !.at = 0]
      /\ \A i \in 1 .. ValLenAt(next) : temp'[Len(temp) + 1 + i] = values[next + 2 + i]
  BY <1>1, CopyRecordCells
<1>3. /\ temp \in Seq(Cell) /\ values \in Seq(Cell) /\ Len(temp) \in Nat /\ Len(values) \in Nat
      /\ next \in Nat /\ next + 2 + ValLenAt(next) <= Len(values) /\ next + 1 \in DOMAIN values
  BY <1>1 DEF StoreInv, Typed, FilesTyped, OffsetInv, CopyValid, IsValidLegacyRecordHeader, HeadAt
<1>4. temp'[Len(temp) + 1].obj = values[next + 1].obj
  <2>1. values[next + 1] \in Cell  BY <1>3
  <2>2. values[next + 1] = [obj |-> values[next + 1].obj, val |-> values[next + 1].val,
                            at |-> values[next + 1].at]
    BY <2>1 DEF Cell, FileHeader, LegacyHeader, Fragment
  <2> QED  BY <1>2, <2>2
<1>5. ASSUME NEW i \in 1 .. Len(temp'), temp'[i].obj \in Obj  PROVE Known(temp'[i].obj)
  <2>1. CASE i \in 1 .. Len(temp)
    <3>1. temp'[i] = temp[i] /\ i \in DOMAIN temp  BY <1>2, <1>3, <2>1
    <3> QED  BY <1>5, <3>1 DEF KnownInv, FileKnown
  <2>2. CASE i = Len(temp) + 1  BY <1>3, <1>4, <1>5, <2>2 DEF KnownInv, FileKnown
  <2>3. CASE i > Len(temp) + 1
    <3>1. PICK j \in 1 .. ValLenAt(next) : i = Len(temp) + 1 + j
      <4>1. i - Len(temp) - 1 \in 1 .. ValLenAt(next) /\ i = Len(temp) + 1 + (i - Len(temp) - 1)
        <5>1. i \in Nat /\ i <= Len(temp) + 1 + ValLenAt(next)  BY ONLY <1>2, <1>3, i \in 1 .. Len(temp')
        <5>2. Len(temp) \in Nat /\ ValLenAt(next) \in Nat /\ i > Len(temp) + 1  BY <1>2, <1>3, <2>3
        <5> QED  BY ONLY <5>1, <5>2
      <4> QED  BY <4>1
    <3>2. temp'[i] = values[next + 2 + j]  BY <1>2, <3>1
    <3>3. next + 2 + j \in DOMAIN values
      <4>1. DOMAIN values = 1 .. Len(values)  BY <1>3
      <4>2. /\ j \in Nat /\ j <= ValLenAt(next) /\ ValLenAt(next) \in Nat /\ next \in Nat
            /\ Len(values) \in Nat /\ next + 2 + ValLenAt(next) <= Len(values) /\ j >= 1
        BY <1>2, <1>3, <3>1
      <4> QED  BY ONLY <4>1, <4>2
    <3> QED  BY <1>5, <3>2, <3>3 DEF KnownInv, FileKnown
  <2> QED  BY <1>3, <1>5, <2>1, <2>2, <2>3
<1>6. DOMAIN temp' = 1 .. Len(temp')  BY <1>2
<1> QED  BY <1>5, <1>6

LEMMA NextKnown ==
  ASSUME StoreInv, StoreInv', KnownInv, [Next]_vars
  PROVE  KnownInv'
<1>0. FileHeader.obj \notin Obj  BY ObjectAssumption DEF FileHeader
<1>1. \A i \in DOMAIN <<FileHeader>> : <<FileHeader>>[i].obj \in Obj => Known(<<FileHeader>>[i].obj)
  BY <1>0
<1>2. ASSUME values' \in {values, temp, <<FileHeader>>}
      PROVE  \A i \in DOMAIN values' : values'[i].obj \in Obj => Known(values'[i].obj)
  BY <1>1, <1>2 DEF KnownInv, FileKnown
<1>3. ASSUME temp' \in {temp, <<>>, <<FileHeader>>}
      PROVE  \A i \in DOMAIN temp' : temp'[i].obj \in Obj => Known(temp'[i].obj)
  BY <1>1, <1>3 DEF KnownInv, FileKnown
<1>4. /\ \A i \in DOMAIN values' : values'[i].obj \in Obj => Known(values'[i].obj)
      /\ \A i \in DOMAIN temp' : temp'[i].obj \in Obj => Known(temp'[i].obj)
  <2>1. CASE UNCHANGED vars  BY <1>2, <1>3, <2>1 DEF vars, disk
  <2>2. CASE OpenValueFile \/ CopyFails \/ RenameMigrated \/ RemoveStaleIndex \/ DeleteIndex
    BY <1>2, <1>3, <2>2 DEF OpenValueFile, CopyFails, RenameMigrated, RemoveStaleIndex, DeleteIndex, disk
  <2>3. CASE CopyRecord
    <3>1. values' = values  BY <2>3 DEF CopyRecord
    <3> QED  BY <1>2, <2>3, <3>1, CopyKnown
  <2>4. CASE UseIndex \/ StartRebuild \/ OpenReadOnly \/ EnsureCapacityForInsert \/ MapFails
             \/ ScanGrows \/ ScanRecord \/ CountScanned \/ ScanFails \/ ScanEnds
    <3>1. values' = values /\ temp' = temp
      BY <2>4 DEF UseIndex, StartRebuild, OpenReadOnly, EnsureCapacityForInsert, MapFails, WriteFails,
                  ScanGrows, ScanRecord, CountScanned, ScanFails, ScanEnds, disk
    <3> QED  BY <1>2, <1>3, <3>1
  <2>5. CASE Truncate \/ Zero \/ StoreHeader \/ PlaceExistingBucket \/ CountPlaced \/ Built
    <3>1. values' = values /\ temp' = temp
      BY <2>5 DEF Truncate, Zero, StoreHeader, PlaceExistingBucket, CountPlaced, Built, BuildIndex
    <3> QED  BY <1>2, <1>3, <3>1
  <2>6. CASE PutStructs \/ PutUniqueStructs
    <3>1. values' = values /\ temp' = temp
      BY <2>6 DEF PutStructs, PutUniqueStructs, CallWriteStructs, disk
    <3> QED  BY <1>2, <1>3, <3>1
  <2>7. CASE AppendRecord
    <3>1. pc = "append" /\ values' = Overwrite(values, next, Record(InHand)) /\ temp' = temp
      BY <2>7 DEF AppendRecord
    <3>2. InHand \in Entry  BY <3>1, AppendPlace
    <3>3. /\ Record(InHand) \in Seq(Cell) /\ Len(Record(InHand)) = RecordSize(InHand)
          /\ \A i \in 1 .. RecordSize(InHand) : Record(InHand)[i].obj = InHand.obj
      BY <3>2, RecordCells, RecordObj
    <3> QED  BY <1>3, <3>1, <3>3, WrittenKnown
  <2>8. CASE AppendFails \/ Crash
    <3>1. temp' = temp /\ \/ values' = values
                          \/ pc = "append" /\ \E cells \in Cut(InHand) : values' = Overwrite(values, next, cells)
      BY <2>8 DEF AppendFails, AfterCut, WriteFails, Crash
    <3> QED  BY <1>2, <1>3, <3>1, CutKnown
  <2>9. CASE StoreEntry \/ CountEntry \/ FindFails \/ FinishWrite \/ UseUnmapped \/ Close
    <3>1. values' = values /\ temp' = temp
      BY <2>9 DEF StoreEntry, CountEntry, FindFails, WriteFails, FinishWrite, UseUnmapped, Close, disk
    <3> QED  BY <1>2, <1>3, <3>1
  <2> QED  BY <2>1, <2>2, <2>3, <2>4, <2>5, <2>6, <2>7, <2>8, <2>9 DEF Next
<1>5. \A o \in Obj : Known(o) => Known(o)'  BY KnownGrows
<1> QED  BY <1>4, <1>5 DEF KnownInv, FileKnown, Known, Entries

LEMMA InitKnown == Init => KnownInv
<1> SUFFICES ASSUME Init  PROVE KnownInv  OBVIOUS
<1>1. temp = <<>> /\ acked = [o \in Obj |-> LegacyVal(values, o)] /\ (values = <<>> \/ OldFile(values))
  BY FilesAssumption DEF Init
<1>2. FileKnown(temp)  BY <1>1 DEF FileKnown
<1>3. ASSUME OldFile(values), NEW i \in DOMAIN values, values[i].obj \in Obj
      PROVE  acked[values[i].obj] # NoVal
  <2>1. PICK o : o = values[i].obj  OBVIOUS
  <2>2. values \in Seq(Cell) /\ values[1] = LegacyHeader /\ Len(values) \in Nat  BY <1>3 DEF OldFile
  <2>3. LegacyHeader.obj \notin Obj  BY ObjectAssumption DEF LegacyHeader
  <2>4. i \in 2 .. Len(values)  BY <1>3, <2>2, <2>3
  <2> DEFINE Of == {j \in DOMAIN values : values[j].obj = o /\ values[j].at = -2}
  <2>5. Of # {}
    <3> DEFINE c == values[i]
               p == i - (IF c.at < 0 THEN c.at + 2 ELSE c.at + 1)
    <3>1. /\ p > 1 /\ c.at \in {-2, -1} \cup 1 .. ValLen[c.val]
          /\ (p + 0 <= Len(values) => values[p + 0] = [c EXCEPT !.at = -2])
      <4> DEFINE Place(at) == IF at < 0 THEN at + 2 ELSE at + 1
                 At == {-2, -1} \cup 1 .. ValLen[c.val]
      <4>1. /\ c.at \in At /\ i - Place(c.at) > 1
            /\ \A n \in At : i - Place(c.at) + Place(n) <= Len(values) =>
                             values[i - Place(c.at) + Place(n)] = [c EXCEPT !.at = n]
        BY <1>3, <2>4 DEF OldFile
      <4>2. Place(-2) = 0 /\ -2 \in At  OBVIOUS
      <4>3. p = i - Place(c.at)  OBVIOUS
      <4> HIDE DEF Place, p, c
      <4>4. p + Place(-2) <= Len(values) => values[p + Place(-2)] = [c EXCEPT !.at = -2]
        BY <4>1, <4>2, <4>3
      <4> QED  BY <4>1, <4>2, <4>3, <4>4 DEF At
    <3>2. c \in Cell /\ c.obj \in Obj  BY <1>3, <2>2
    <3>3. ValLen[c.val] \in Nat /\ c = [obj |-> c.obj, val |-> c.val, at |-> c.at]
      BY <3>2, CellFields
    <3>4. p \in Nat /\ p <= i  BY <2>4, <3>1, <3>3
    <3>5. p \in DOMAIN values /\ p + 0 = p /\ p <= Len(values)  BY <2>2, <2>4, <3>1, <3>4
    <3>6. values[p].obj = o /\ values[p].at = -2  BY <2>1, <3>1, <3>3, <3>5
    <3> QED  BY <3>5, <3>6
  <2>6. Of \in SUBSET (0 .. Len(values))  BY <2>2
  <2>7. Max(Of) \in Of  BY <2>2, <2>5, <2>6, MaxOfBounded
  <2>8. Max(Of) \in DOMAIN values /\ values[Max(Of)].obj \in Obj  BY <1>3, <2>1, <2>7
  <2>9. values[Max(Of)] \in Cell  BY <2>2, <2>8
  <2>10. values[Max(Of)].val \in Val  BY <2>8, <2>9, CellFields
  <2>11. acked[o] = values[Max(Of)].val  BY <1>1, <1>3, <2>1, <2>5 DEF LegacyVal
  <2> QED  BY <2>1, <2>10, <2>11, ObjectAssumption
<1>4. FileKnown(values)
  <2>1. CASE values = <<>>  BY <2>1 DEF FileKnown
  <2>2. CASE OldFile(values)  BY <1>3, <2>2 DEF FileKnown, Known
  <2> QED  BY <1>1, <2>1, <2>2
<1> QED  BY <1>2, <1>4 DEF KnownInv

-----------------------------------------------------------------------------
(* An entry goes into the bucket that names its object, if one does.       *)

LEMMA OnlyFound ==
  ASSUME StoreInv, NameInv, ProbeInv, UniqueInv, ~Stale, Ready, NEW o \in Obj, NEW x \in Filled,
         ObjIn(values, index.slot[x]) = o
  PROVE  x = FindBucket(o)
<1>1. FindBucket(o) \in Filled /\ ObjIn(values, index.slot[FindBucket(o)]) = o  BY FindsNamed
<1>2. Distinct(values, index.slot, Filled)  BY DEF UniqueInv
<1> QED  BY <1>1, <1>2 DEF Distinct

LEMMA UniqueStored ==
  ASSUME StoreInv, UniqueInv, NEW b, NEW s, StoresIn(b, s), ToPlace = {},
         pc' \notin {"place", "placeCount"},
         \A x \in Filled : ObjIn(values, index.slot[x]) = ObjIn(values, s) => x = b
  PROVE  UniqueInv'
<1>1. Distinct(values', index'.slot, Filled')  BY DistinctStored
<1>2. ToPlace' = {}  BY DEF StoresIn, ToPlace
<1>3. Distinct(values', build'.copy, ToPlace')  BY <1>2 DEF Distinct
<1> QED  BY <1>1, <1>3 DEF UniqueInv

LEMMA UniqueScan ==
  ASSUME StoreInv, StoreInv', NameInv, ProbeInv, UniqueInv, ScanRecord
  PROVE  UniqueInv'
<1>1. PICK o : o = values[next + 1].obj  OBVIOUS
<1>2. PICK s : s = [hash |-> HashOf[o], offset |-> next]  OBVIOUS
<1>3. /\ StoresIn(FindBucket(o), s) /\ o \in Obj /\ pc' \in {"scan", "scanCount"} /\ ToPlace = {}
  BY <1>1, <1>2, ScanStores
<1>4. ~Stale /\ Ready  BY <1>3 DEF StoresIn
<1>5. ObjIn(values, s) = o  BY <1>1, <1>2 DEF ObjIn
<1>6. \A x \in Filled : ObjIn(values, index.slot[x]) = ObjIn(values, s) => x = FindBucket(o)
  BY <1>3, <1>4, <1>5, OnlyFound
<1>7. pc' \notin {"place", "placeCount"}  BY <1>3
<1> QED  BY <1>3, <1>6, <1>7, UniqueStored

LEMMA UniqueEntry ==
  ASSUME StoreInv, StoreInv', NameInv, ProbeInv, UniqueInv, FreshInv, StoreEntry
  PROVE  UniqueInv'
<1>1. PICK o : o = InHand.obj  OBVIOUS
<1>2. PICK s : s = [hash |-> HashOf[o], offset |-> next]  OBVIOUS
<1>3. PICK b : b = Target(o)  OBVIOUS
<1>4. /\ StoresIn(b, s) /\ o \in Obj /\ pc = "store" /\ ToPlace = {} /\ InCall
      /\ call.entry \in 1 .. Len(call.batch) /\ pc' \in {"count", "store"}
  BY <1>1, <1>2, <1>3, EntryStores
<1>5. ~Stale /\ Ready  BY <1>4 DEF StoresIn
<1>6. ObjIn(values, s) = o
  <2>1. values[next + 1] = [obj |-> o, val |-> InHand.val, at |-> 0]  BY <1>1, <1>4, InHandStored
  <2>2. s.offset = next  BY <1>2
  <2> QED  BY <2>1, <2>2 DEF ObjIn
<1>7. ASSUME NEW x \in Filled, ObjIn(values, index.slot[x]) = o  PROVE x = b
  <2>1. CASE call.unique
    <3>1. call.entry \in Ahead  BY <1>4, CallShape DEF Ahead
    <3>2. Unnamed(o)  BY <1>1, <1>4, <2>1, <3>1 DEF FreshInv, InHand
    <3> QED  BY <1>7, <3>2 DEF Unnamed
  <2>2. CASE ~call.unique
    <3>1. b = FindBucket(o)  BY <1>3, <2>2 DEF Target
    <3> QED  BY <1>4, <1>5, <1>7, <3>1, OnlyFound
  <2> QED  BY <2>1, <2>2
<1>8. pc' \notin {"place", "placeCount"}  BY <1>4
<1> QED  BY <1>4, <1>6, <1>7, <1>8, UniqueStored

LEMMA StepKinds ==
  ASSUME StoreInv, [Next]_vars
  PROVE  \/ SameIndex /\ (pc' # "double" \/ EnsureCapacityForInsert \/ UNCHANGED vars)
         \/ (ScanGrows \/ PutStructs \/ PutUniqueStructs) /\ pc' = "double"
         \/ CountPlaced \/ CountScanned \/ CountEntry \/ RemoveStaleIndex
         \/ DeleteIndex \/ Zero \/ StoreHeader \/ Truncate \/ MapFails
         \/ PlaceExistingBucket \/ ScanRecord \/ StoreEntry
<1>1. CASE SameIndex /\ pc' # "double"  BY <1>1
<1>2. CASE SameIndex /\ pc' = "double"
  <2>1. \/ EnsureCapacityForInsert \/ UNCHANGED vars \/ ScanGrows \/ PutStructs \/ PutUniqueStructs
    <3>1. CASE OpenValueFile \/ CopyRecord \/ CopyFails \/ RenameMigrated \/ UseIndex \/ StartRebuild
               \/ OpenReadOnly
      BY <1>2, <3>1 DEF OpenValueFile, CopyRecord, CopyFails, RenameMigrated, UseIndex, StartRebuild,
                        OpenReadOnly, Closed
    <3>2. CASE ScanFails \/ ScanEnds \/ AppendRecord \/ AppendFails \/ FindFails
               \/ FinishWrite \/ UseUnmapped \/ Close \/ Crash
      BY <1>2, <3>2 DEF ScanFails, ScanEnds, AppendRecord, AppendFails, AfterCut, WriteFails,
                        FindFails, FinishWrite, UseUnmapped, Close, Crash, Closed
    <3>3. CASE Built
      BY <1>2, <3>3 DEF Built, BuildIndex, StoreInv, Typed, BuildTyped
    <3> QED  BY <1>2, <3>1, <3>2, <3>3 DEF SameIndex
  <2> QED  BY <1>2, <2>1
<1>3. CASE ~SameIndex  BY <1>3, Zenon DEF Next, SameIndex
<1> QED  BY <1>1, <1>2, <1>3

LEMMA NextUnique ==
  ASSUME StoreInv, StoreInv', NameInv, ProbeInv, UniqueInv, FreshInv, [Next]_vars
  PROVE  UniqueInv'
<1>1. CASE SameIndex /\ (pc' # "double" \/ EnsureCapacityForInsert \/ UNCHANGED vars)
  BY <1>1, SameShrinks, UniqueShrunk
<1>2. CASE (ScanGrows \/ PutStructs \/ PutUniqueStructs) /\ pc' = "double"  BY <1>2, UniqueResize
<1>3. CASE \/ CountPlaced \/ CountScanned \/ CountEntry \/ RemoveStaleIndex
           \/ DeleteIndex \/ Zero \/ StoreHeader \/ Truncate \/ MapFails
  BY <1>3, OtherShrinks, UniqueShrunk
<1>4. CASE PlaceExistingBucket  BY <1>4, UniquePlace
<1>5. CASE ScanRecord  BY <1>5, UniqueScan
<1>6. CASE StoreEntry  BY <1>6, UniqueEntry
<1> QED  BY <1>1, <1>2, <1>3, <1>4, <1>5, <1>6, StepKinds

LEMMA AheadShrinks ==
  ASSUME StoreInv, StoreInv', [Next]_vars, InCall, InCall', call.unique, call'.batch = call.batch
  PROVE  /\ \A i \in Ahead' : i \in Ahead
         /\ StoreEntry => \A i \in Ahead' : i > call.entry
<1>0. /\ call = [batch |-> call.batch, unique |-> call.unique, entry |-> call.entry]
      /\ Len(call.batch) \in Nat /\ call.entry \in Nat /\ call'.entry \in 1 .. Len(call.batch) + 1
  BY CallShape DEF StoreInv, Typed, CallTyped
<1>1. CASE pc \notin {"store", "count"}
  <2>1. Ahead = 1 .. Len(call.batch) /\ ~StoreEntry  BY <1>1 DEF Ahead, StoreEntry, Storing
  <2>2. CASE pc' = "store"
    <3>1. Ahead' = call'.entry .. Len(call.batch)  BY <2>2 DEF Ahead
    <3> QED  BY <1>0, <2>1, <3>1
  <2>3. CASE pc' = "count"
    <3>1. Ahead' = call'.entry + 1 .. Len(call.batch)  BY <2>3 DEF Ahead
    <3> QED  BY <1>0, <2>1, <3>1
  <2>4. CASE pc' \notin {"store", "count"}
    <3>1. Ahead' = 1 .. Len(call.batch)  BY <2>4 DEF Ahead
    <3> QED  BY <2>1, <3>1
  <2> QED  BY <2>2, <2>3, <2>4
<1>2. CASE pc \in {"store", "count"}
  <2>1. StoreEntry \/ CountEntry \/ UNCHANGED vars
    <3>1. CASE FindFails \/ FinishWrite \/ Crash
      <4>1. pc' \in {"idle", "closed"}
        BY <3>1 DEF FindFails, WriteFails, FinishWrite, Crash, Closed
      <4> QED  BY <4>1 DEF InCall, Resizing, BuildPcs
    <3>2. CASE \/ OpenValueFile \/ CopyRecord \/ CopyFails \/ RenameMigrated
               \/ RemoveStaleIndex \/ UseIndex \/ StartRebuild \/ OpenReadOnly
               \/ Truncate \/ Zero \/ StoreHeader \/ PlaceExistingBucket \/ CountPlaced \/ Built
      BY <1>2, <3>2 DEF OpenValueFile, CopyRecord, CopyFails, RenameMigrated, RemoveStaleIndex,
         UseIndex, StartRebuild, OpenReadOnly, Truncate, Zero, StoreHeader, PlaceExistingBucket,
         CountPlaced, Built, BuildIndex
    <3>3. CASE \/ EnsureCapacityForInsert \/ MapFails \/ ScanGrows \/ ScanRecord \/ CountScanned
               \/ ScanFails \/ ScanEnds \/ PutStructs \/ PutUniqueStructs \/ AppendRecord
               \/ AppendFails \/ UseUnmapped \/ Close \/ DeleteIndex
      BY <1>2, <3>3 DEF EnsureCapacityForInsert, MapFails, ScanGrows, ScanRecord, Scanning,
         CountScanned, ScanFails, ScanEnds, PutStructs, PutUniqueStructs, CallWriteStructs,
         AppendRecord, AppendFails, UseUnmapped, Close, DeleteIndex
    <3> QED  BY <3>1, <3>2, <3>3 DEF Next
  <2>2. CASE StoreEntry
    <3>1. pc = "store" /\ pc' = "count" /\ call' = call
      BY <2>2 DEF StoreEntry, Storing, IsNew
    <3>2. Ahead = call.entry .. Len(call.batch) /\ Ahead' = call.entry + 1 .. Len(call.batch)
      BY <3>1 DEF Ahead
    <3> QED  BY <1>0, <3>2
  <2>3. CASE CountEntry
    <3>1. pc = "count" /\ pc' = "store" /\ call' = [call EXCEPT !.entry = @ + 1]
      BY <2>3 DEF CountEntry, NextEntry
    <3>2. call'.entry = call.entry + 1  BY <1>0, <3>1
    <3>3. Ahead = call.entry + 1 .. Len(call.batch) /\ Ahead' = call.entry + 1 .. Len(call.batch)
      BY <3>1, <3>2 DEF Ahead
    <3>4. ~StoreEntry  BY <3>1 DEF StoreEntry, Storing
    <3> QED  BY <3>3, <3>4
  <2>4. CASE UNCHANGED vars /\ ~StoreEntry
    <3>1. Ahead' = Ahead  BY <2>4 DEF Ahead, vars, locals
    <3> QED  BY <2>4, <3>1
  <2> QED  BY <2>1, <2>2, <2>3, <2>4
<1> QED  BY <1>1, <1>2

\* A call of PutUniqueStructs begins: its objects are in no bucket.
LEMMA FreshCall ==
  ASSUME StoreInv, StoreInv', NameInv, UniqueInv, KnownInv, PutUniqueStructs
  PROVE  FreshInv'
<1>1. PICK b \in UniqueBatch : New(b) /\ CallWriteStructs(b, TRUE)  BY DEF PutUniqueStructs
<1>2. /\ pc = "idle" /\ UNCHANGED <<values, index, acked, maybe>> /\ pc' \in {"append", "double"}
      /\ pc' = "append" => build' = build
  BY <1>1 DEF CallWriteStructs, StartResize, disk, history
<1>3. call' = [batch |-> b, unique |-> TRUE, entry |-> 1]  BY <1>1 DEF CallWriteStructs
<1>4. call'.batch = b /\ b \in Seq(Entry)  BY <1>3, ObjectAssumption
<1>5. call = NoCall /\ ~Stale /\ ToPlace = {}
  <2>1. ~InCall /\ pc \notin BuildPcs  BY <1>2 DEF InCall, Resizing, BuildPcs
  <2> QED  BY <1>2, <2>1, InUse DEF StoreInv, Typed, CallTyped, BuildTyped
<1>6. ASSUME NEW i \in 1 .. Len(b)  PROVE \A x \in Filled : ObjIn(values, index.slot[x]) # b[i].obj
  <2>1. b[i] \in Entry /\ i \in DOMAIN b  BY <1>4, <1>6
  <2>2. b[i].obj \in Obj  BY <2>1, EntryFields
  <2>3. acked[b[i].obj] = NoVal /\ maybe[b[i].obj] = {}  BY <1>1, <2>1 DEF New
  <2>4. Entries(b[i].obj) = {}  BY <1>5 DEF Entries, NoCall
  <2>5. ~Known(b[i].obj)  BY <2>3, <2>4 DEF Known
  <2>6. ASSUME NEW x \in Filled, ObjIn(values, index.slot[x]) = b[i].obj  PROVE FALSE
    <3>1. index.slot[x].offset + 1 \in DOMAIN values  BY <1>5 DEF NameInv, NamedIn
    <3> QED  BY <2>2, <2>5, <2>6, <3>1 DEF ObjIn, KnownInv, FileKnown
  <2> QED  BY <2>6
<1>7. /\ Filled' = Filled
      /\ \A x \in ToPlace' : x \in Filled /\ build'.copy[x] = index.slot[x]
  <2>1. CASE pc' = "append"  BY <1>2, <1>5, <2>1 DEF Filled, ToPlace
  <2>2. CASE pc' = "double"  BY <1>2, <2>2, UniqueResize DEF Filled
  <2> QED  BY <1>2, <2>1, <2>2
<1>8. Ahead' = 1 .. Len(b)  BY <1>2, <1>4 DEF Ahead
<1>9. \A i \in 1 .. Len(b) : Unnamed(b[i].obj)'
  BY <1>2, <1>6, <1>7 DEF Unnamed
<1>10. New(b)'  BY <1>1, <1>2 DEF New
<1> QED  BY <1>4, <1>8, <1>9, <1>10 DEF FreshInv, New, Unnamed

\* While the call runs, a bucket gets a slot of the old index, or of the entry in
\* hand.
LEMMA SlotsFrom ==
  ASSUME StoreInv, StoreInv', NameInv, [Next]_vars, InCall, InCall'
  PROVE  /\ \A x \in Filled' : \/ x \in Filled /\ index'.slot[x] = index.slot[x]
                               \/ \E y \in ToPlace : index'.slot[x] = build.copy[y]
                               \/ StoreEntry /\ index'.slot[x].offset = next
         /\ \A x \in ToPlace' : x \in ToPlace /\ build'.copy[x] = build.copy[x]
<1>1. CASE Shrunk  BY <1>1 DEF Shrunk
<1>2. CASE PlaceExistingBucket
  <2>1. PICK s : s = build.copy[Min(ToPlace)]  OBVIOUS
  <2>2. PICK b : b = FirstEmpty(s.hash)  OBVIOUS
  <2>3. StoresIn(b, s) /\ Min(ToPlace) \in ToPlace  BY <1>2, <2>1, <2>2, PlaceStores
  <2>4. /\ index'.slot[b] = s /\ Filled' = Filled \cup {b}
        /\ \A c \in DOMAIN index.slot : c # b => index'.slot[c] = index.slot[c]
    BY <2>3, SlotStored DEF StoresIn, StoreInv, Typed
  <2>5. build' = build  BY <2>3 DEF StoresIn
  <2> QED  BY <2>1, <2>3, <2>4, <2>5 DEF Filled, ToPlace
<1>3. CASE StoreEntry
  <2>1. PICK s : s = [hash |-> HashOf[InHand.obj], offset |-> next]  OBVIOUS
  <2>2. PICK b : b = Target(InHand.obj)  OBVIOUS
  <2>3. StoresIn(b, s) /\ s.offset = next  BY <1>3, <2>1, <2>2, EntryStores
  <2>4. /\ index'.slot[b] = s /\ Filled' = Filled \cup {b}
        /\ \A c \in DOMAIN index.slot : c # b => index'.slot[c] = index.slot[c]
    BY <2>3, SlotStored DEF StoresIn, StoreInv, Typed
  <2>5. build' = build  BY <2>3 DEF StoresIn
  <2>6. ASSUME NEW x \in Filled'
        PROVE  \/ x \in Filled /\ index'.slot[x] = index.slot[x]
               \/ index'.slot[x].offset = next
    <3>1. CASE x = b  BY <2>3, <2>4, <3>1
    <3>2. CASE x # b
      <4>1. x \in Filled /\ x \in DOMAIN index.slot  BY <2>4, <3>2 DEF Filled
      <4> QED  BY <2>4, <3>2, <4>1
    <3> QED  BY <3>1, <3>2
  <2> QED  BY <1>3, <2>5, <2>6 DEF ToPlace
<1>4. CASE ScanRecord \/ ScanGrows \/ PutStructs \/ PutUniqueStructs
  <2>1. pc \in {"scan", "idle"}
    BY <1>4 DEF ScanRecord, ScanGrows, Scanning, PutStructs, PutUniqueStructs, CallWriteStructs
  <2> QED  BY <2>1 DEF InCall, Resizing, BuildPcs
<1> QED  BY <1>1, <1>2, <1>3, <1>4, SameShrinks, OtherShrinks, StepKinds

LEMMA FreshKept ==
  ASSUME StoreInv, StoreInv', NameInv, FreshInv, [Next]_vars, InCall, InCall', call.unique,
         UNCHANGED <<acked, maybe>>, call'.batch = call.batch
  PROVE  FreshInv'
<1>1. New(call.batch) /\ \A i \in Ahead : Unnamed(call.batch[i].obj)  BY DEF FreshInv
<1>2. ~Stale
  <2>1. pc \notin {"closed", "migrate", "removeIndex"}  BY DEF InCall, Resizing, BuildPcs
  <2> QED  BY <2>1, InUse
<1>3. New(call.batch)'  BY <1>1 DEF New
<1>4. ASSUME NEW i \in Ahead'
      PROVE  /\ \A x \in Filled' : ObjIn(values', index'.slot[x]) # call.batch[i].obj
             /\ \A x \in ToPlace' : ObjIn(values', build'.copy[x]) # call.batch[i].obj
  <2>1. i \in Ahead /\ (StoreEntry => i > call.entry)  BY <1>4, AheadShrinks
  <2>2. /\ \A x \in Filled : ObjIn(values, index.slot[x]) # call.batch[i].obj
        /\ \A x \in ToPlace : ObjIn(values, build.copy[x]) # call.batch[i].obj
    BY <1>1, <2>1 DEF Unnamed
  <2>3. /\ \A x \in Filled : ObjIn(values', index.slot[x]) # call.batch[i].obj
        /\ \A x \in ToPlace : ObjIn(values', build.copy[x]) # call.batch[i].obj
    BY <1>2, <2>2, ObjKept
  <2>4. ASSUME StoreEntry, NEW s, s.offset = next  PROVE ObjIn(values', s) # call.batch[i].obj
    <3>1. pc = "store" /\ call.entry \in 1 .. Len(call.batch) /\ values' = values
      BY <2>4, EntryStores DEF StoreEntry
    <3>2. values[next + 1] = [obj |-> InHand.obj, val |-> InHand.val, at |-> 0]
      BY <3>1, InHandStored
    <3>3. ObjIn(values', s) = call.batch[call.entry].obj  BY <2>4, <3>1, <3>2 DEF ObjIn, InHand
    <3>4. i # call.entry /\ i \in 1 .. Len(call.batch) /\ DOMAIN call.batch = 1 .. Len(call.batch)
      <4>1. call.batch \in Seq(Entry) /\ Len(call.batch) \in Nat  BY CallShape
      <4>2. Ahead = call.entry .. Len(call.batch)  BY <3>1 DEF Ahead
      <4> QED  BY <2>1, <2>4, <3>1, <4>1, <4>2
    <3>5. \A j, k \in DOMAIN call.batch : call.batch[j].obj = call.batch[k].obj => j = k
      BY <1>1 DEF New
    <3>6. call.batch[i].obj # call.batch[call.entry].obj  BY <3>1, <3>4, <3>5
    <3> QED  BY <3>3, <3>6
  <2>5. ASSUME NEW x \in Filled'  PROVE ObjIn(values', index'.slot[x]) # call.batch[i].obj
    BY <2>3, <2>4, <2>5, SlotsFrom
  <2>6. ASSUME NEW x \in ToPlace'  PROVE ObjIn(values', build'.copy[x]) # call.batch[i].obj
    BY <2>3, <2>6, SlotsFrom
  <2> QED  BY <2>5, <2>6
<1> QED  BY <1>3, <1>4 DEF FreshInv, New, Unnamed

LEMMA NextFresh ==
  ASSUME StoreInv, StoreInv', NameInv, UniqueInv, KnownInv, FreshInv, [Next]_vars
  PROVE  FreshInv'
<1>0. ~InCall => call = NoCall  BY DEF StoreInv, Typed, CallTyped
<1>1. CASE PutUniqueStructs  BY <1>1, FreshCall
<1>2. CASE PutStructs
  <2>1. PICK b \in Batch : call' = [batch |-> b, unique |-> FALSE, entry |-> 1]
    BY <1>2 DEF PutStructs, CallWriteStructs
  <2>2. ~call'.unique  BY <2>1
  <2> QED  BY <2>2 DEF FreshInv
<1>3. CASE UNCHANGED <<acked, maybe>> /\ call'.batch = call.batch /\ call'.unique = call.unique
  <2>1. SUFFICES ASSUME InCall', call'.unique  PROVE FreshInv'  BY DEF FreshInv
  <2>2. call.unique  BY <1>3, <2>1, Zenon
  <2>3. ~NoCall.unique  BY DEF NoCall
  <2>4. InCall  BY <1>0, <2>2, <2>3, Zenon
  <2> QED  BY <1>3, <2>1, <2>2, <2>4, FreshKept
<1>4. CASE ~InCall'  BY <1>4 DEF FreshInv
<1> QED  BY <1>1, <1>2, <1>3, <1>4, HistoryStep

ReadInv == NameInv /\ ProbeInv /\ UniqueInv /\ KnownInv /\ FreshInv

LEMMA InitRead ==
  ASSUME Init, NoOldIndex
  PROVE  ReadInv
<1>1. /\ pc = "closed" /\ build = NoBuild /\ \E f \in InitialFiles : values = f.values /\ index = f.index
  BY DEF Init
<1>2. ToPlace = {} /\ ~InCall  BY <1>1 DEF ToPlace, NoBuild, NoSlots, InCall, Resizing, BuildPcs
<1>3. ASSUME ~Stale  PROVE Filled = {}
  <2>1. PICK f \in InitialFiles : values = f.values /\ index = f.index  BY <1>1
  <2>2. ~OldFile(values)  BY <1>3 DEF OldFile, Stale, IsLegacy
  <2>3. index = NoIndex  BY <2>1, <2>2, FilesAssumption
  <2> QED  BY <2>3 DEF Filled, NoIndex, NoSlots
<1>4. UniqueInv  BY <1>1, <1>2, <1>3 DEF UniqueInv, Distinct
<1>5. FreshInv  BY <1>2 DEF FreshInv
<1> QED  BY <1>4, <1>5, InitName, InitProbe, InitKnown DEF ReadInv

LEMMA NextRead ==
  ASSUME SafeErrors, StoreInv, StoreInv', ReadInv, [Next]_vars
  PROVE  ReadInv'
BY NextName, NextProbe, NextUnique, NextKnown, NextFresh DEF ReadInv

-----------------------------------------------------------------------------
(* Probing and going through the buckets tell the same story.              *)

LEMMA ReadAnswers ==
  ASSUME StoreInv, NameInv, ~Stale, NEW x \in Filled
  PROVE  /\ ReadRecord(RecordOf(x)) # NoVal
         /\ values[RecordOf(x) + 1].obj = ObjIn(values, index.slot[x])
         /\ ObjIn(values, index.slot[x]) \in Obj
<1>1. NamedIn(values, index.slot[x], Limit)  BY DEF NameInv
<1>2. values \in Seq(Cell) /\ values[RecordOf(x) + 1] \in Cell /\ values[RecordOf(x) + 1].obj \in Obj
  BY <1>1 DEF NamedIn, RecordOf, StoreInv, Typed, FilesTyped
<1>3. values[RecordOf(x) + 1].val \in Val  BY <1>2, CellFields
<1>4. ReadRecord(RecordOf(x)) \in {values[RecordOf(x) + 1].val, Unreadable}  BY DEF ReadRecord
<1>5. ReadRecord(RecordOf(x)) # NoVal  BY <1>3, <1>4, ObjectAssumption
<1> QED  BY <1>2, <1>5 DEF ObjIn, RecordOf

LEMMA DumpImplied ==
  ASSUME StoreInv, ReadInv
  PROVE  DumpAgrees
<1> SUFFICES ASSUME Serving  PROVE DumpAgrees  BY DEF DumpAgrees
<1> USE DEF ReadInv
<1>1. ~Stale /\ Ready
  BY InUse DEF Serving, StoreInv, LayoutInv
<1>2. Grown /\ index.header /\ Cardinality(Filled) < index.bucketCount
  BY <1>1 DEF Grown, Ready, ProbeInv
<1>3. \A o \in Obj : /\ ~FindCorrupt(o) /\ Stops(o) # {}
                     /\ (Found(o) <=> FindBucket(o) \in Filled)
  BY <1>1, <1>2, NotCorrupt
<1> DEFINE Live == {o \in Obj : GetStruct(o) # NoVal}
           N(x) == values[RecordOf(x) + 1].obj
<1>4. ASSUME NEW x \in Filled
      PROVE  /\ N(x) \in Live /\ FindBucket(N(x)) = x /\ GetStruct(N(x)) = ReadRecord(RecordOf(x))
  <2>1. PICK o : o = N(x)  OBVIOUS
  <2>2. ReadRecord(RecordOf(x)) # NoVal /\ o \in Obj /\ ObjIn(values, index.slot[x]) = o
    BY <1>1, <2>1, ReadAnswers
  <2>3. FindBucket(o) = x  BY <1>1, <2>2, OnlyFound
  <2>4. Found(o) /\ ~FindCorrupt(o)  BY <1>3, <2>2, <2>3
  <2>5. GetStruct(o) = ReadRecord(RecordOf(x))  BY <2>3, <2>4 DEF GetStruct, RecordOf
  <2> QED  BY <2>1, <2>2, <2>3, <2>5
<1>5. ASSUME NEW o \in Live
      PROVE  FindBucket(o) \in Filled /\ N(FindBucket(o)) = o
  <2>1. Found(o) /\ FindBucket(o) \in Filled  BY <1>3 DEF GetStruct
  <2>2. ObjIn(values, index.slot[FindBucket(o)]) = o
    <3>1. /\ IndexTyped /\ HashOf[o] \in Nat  BY ObjectAssumption DEF StoreInv, Typed
    <3>2. PICK m \in Stops(o) : m \in Probes /\ FindBucket(o) = Probe(HashOf[o], m)
      BY <1>1, <1>3, <3>1, FindBucketFacts
    <3>3. IsValidRecordHeader(index.slot[FindBucket(o)].offset)
      BY <1>3, <2>1 DEF FindCorrupt
    <3> QED  BY <2>1, <3>2, <3>3 DEF Stops, Found, ObjIn
  <2> QED  BY <2>1, <2>2 DEF ObjIn, RecordOf
<1> HIDE DEF Live
<1>6. Dump = {<<o, GetStruct(o)>> : o \in Live}
  <2>1. \A d \in Dump : d \in {<<o, GetStruct(o)>> : o \in Live}  BY <1>4 DEF Dump
  <2>2. ASSUME NEW o \in Live  PROVE <<o, GetStruct(o)>> \in Dump
    <3>1. PICK x \in Filled : x = FindBucket(o) /\ N(x) = o  BY <1>5
    <3>2. GetStruct(o) = ReadRecord(RecordOf(x))  BY <1>4, <3>1
    <3> QED  BY <3>1, <3>2 DEF Dump
  <2> QED  BY <2>1, <2>2
<1>7. ASSUME NEW c \in Column
      PROVE  ObjectCount(c) = Cardinality({o \in Live : ColumnOf[o] = c})
  <2> DEFINE S == {x \in Filled : ColumnOf[N(x)] = c}
             T == {o \in Live : ColumnOf[o] = c}
             f == [x \in S |-> N(x)]
  <2>1. f \in [S -> T]  BY <1>4
  <2>2. \A x, y \in S : f[x] = f[y] => x = y
    <3>1. ASSUME NEW x \in S, NEW y \in S, N(x) = N(y)  PROVE x = y
      <4>1. x = FindBucket(N(x)) /\ y = FindBucket(N(y))  BY <1>4
      <4> QED  BY <3>1, <4>1
    <3> QED  BY <3>1
  <2>3. \A o \in T : \E x \in S : f[x] = o
    <3>1. ASSUME NEW o \in T  PROVE \E x \in S : f[x] = o
      <4>1. FindBucket(o) \in Filled /\ N(FindBucket(o)) = o /\ ColumnOf[o] = c  BY <1>5
      <4> HIDE DEF N
      <4>2. FindBucket(o) \in S  BY <4>1
      <4> QED  BY <4>1, <4>2
    <3> QED  BY <3>1
  <2>4. IsFiniteSet(S)
    <3>1. IsFiniteSet(Filled)  BY IndexShape DEF StoreInv, Typed
    <3> QED  BY <3>1, FS_Subset
  <2> HIDE DEF S, T, f
  <2>5. f \in Bijection(S, T)  BY <2>1, <2>2, <2>3 DEF Bijection, Injection, Surjection, IsInjective
  <2>6. ExistsBijection(S, T)  BY <2>5 DEF ExistsBijection
  <2>7. Cardinality(S) = Cardinality(T)  BY <2>4, <2>6, FS_Bijection
  <2> QED  BY <2>7 DEF S, T, ObjectCount
<1> QED  BY <1>6, <1>7 DEF DumpAgrees, Live

\* Between calls Dump and GetColumnStats, which go through the buckets, agree with
\* GetStruct, which probes: every object has one bucket, the one that FindBucket
\* finds, through resizes cut by a crash, failed writes and rebuilds.
THEOREM ObjectDumpAgrees ==
  ASSUME SafeErrors, NoOldIndex
  PROVE  Spec => []DumpAgrees
<1>1. Init => StoreInv /\ ReadInv  BY InitStore, InitRead
<1>2. StoreInv /\ ReadInv /\ [Next]_vars => (StoreInv /\ ReadInv)'  BY NextStore, NextRead
<1>3. StoreInv /\ ReadInv => DumpAgrees  BY DumpImplied
<1> QED  BY <1>1, <1>2, <1>3, PTL DEF Spec

-----------------------------------------------------------------------------
(* What a value file holds of the acknowledged writes.                     *)

\* A failed append leaves no whole record behind the next one.  The second of two
\* whole records that a failed write of three leaves behind appendOffset_ outlives
\* an acknowledged write over the first, and wins in a later rebuild.
SafeAppends == "append" \in Faults => \A b \in Batch \cup UniqueBatch : Len(b) <= 2

\* Cell i is the last one of a record, of object o.
EndIn(file, i) == file[i].obj \in Obj /\ file[i].at = ValLen[file[i].val]
EndOfObj(file, i, o) == EndIn(file, i) /\ file[i].obj = o

\* The first n cells are whole records.
WholeTo(file, n) ==
  \A i \in 2 .. n :
    LET c == file[i] IN
    /\ c.obj \in Obj /\ c.at \in 0 .. ValLen[c.val]
    /\ \A k \in 0 .. ValLen[c.val] :
         /\ i - c.at + k \in 2 .. n
         /\ file[i - c.at + k] = [c EXCEPT !.at = k]

\* The last record of o that ends in the first n cells has a value in V.
IsLast(file, i, o, n) ==
  i \in 1 .. n /\ EndOfObj(file, i, o) /\ \A j \in i + 1 .. n : ~EndOfObj(file, j, o)
Agrees(file, o, n, V) ==
  \/ NoVal \in V /\ \A i \in 1 .. n : ~EndOfObj(file, i, o)
  \/ \E i \in 1 .. n : IsLast(file, i, o, n) /\ file[i].val \in V

\* No record goes across offset n.
Boundary(file, n) == \/ n = Len(file) \/ EndIn(file, n)
                     \/ file[n + 1].obj \notin Obj \/ file[n + 1].at = 0

\* What writes that failed left behind offset e: no record ends there that starts
\* behind offset n, but one.
Leftover(file, n, e, M) ==
  \A i \in e + 1 .. Len(file) :
    EndIn(file, i) => \/ i - file[i].at <= n
                      \/ i - file[i].at = n + 1 /\ file[i].val \in M[file[i].obj]

\* A file that is appended to from offset n: as it was there, and up to offset e.
Written(file, n, e, C, A, M) ==
  /\ Boundary(file, n)
  /\ WholeTo(file, n) => \A o \in Obj : Agrees(file, o, n, C[o]) /\ Agrees(file, o, e, A[o])
  /\ Leftover(file, n, e, M)

\* The values that an object may have: before the running call, and once its
\* entries before entry m count.
Current == [o \in Obj |-> {acked[o]} \cup maybe[o]]
Before(b, o, m) == {i \in DOMAIN b : b[i].obj = o /\ i < m}
Allowed(b, m, C) == [o \in Obj |-> IF Before(b, o, m) = {} THEN C[o]
                                   ELSE {b[Max(Before(b, o, m))].val}]

Appending == pc \in {"idle", "unmapped"} \/ InCall
FileInv ==
  /\ pc \in {"idle", "unmapped"} \/ Resizing =>
       Written(values, appendOffset, appendOffset, Current, Current, maybe)
  /\ pc = "append" => Written(values, appendOffset, next, Current,
                               Allowed(call.batch, call.entry, Current), maybe)
  /\ pc \in {"store", "count"} =>
       \E f \in [1 .. Len(call.batch) + 1 -> 0 .. Len(values)] :
         /\ Laid(f, Len(call.batch) + 1) /\ next = f[call.entry]
         /\ Written(values, appendOffset, f[Len(call.batch) + 1], Current,
                    Allowed(call.batch, Len(call.batch) + 1, Current), maybe)
  /\ ~Appending /\ ~IsLegacy /\ WholeTo(values, Len(values)) =>
       \A o \in Obj : Agrees(values, o, Len(values), Current[o])

\* The migration: what the first n cells of the old file hold of o, the new file
\* holds too.
OldHead(file, i, o) == file[i].obj = o /\ file[i].at = -2
Migrated(file, t, o, n) ==
  \/ /\ \A i \in 1 .. n : ~OldHead(file, i, o)
     /\ \A j \in 1 .. Len(t) : ~EndOfObj(t, j, o)
  \/ \E i \in 1 .. n, j \in 1 .. Len(t) :
       /\ OldHead(file, i, o) /\ \A k \in i + 1 .. n : ~OldHead(file, k, o)
       /\ IsLast(t, j, o, Len(t)) /\ t[j].val = file[i].val
MigrateInv ==
  /\ IsLegacy => /\ OldFile(values)
                 /\ acked = [o \in Obj |-> LegacyVal(values, o)]
                 /\ maybe = [o \in Obj |-> {}]
  /\ pc = "migrate" => next <= Len(values) /\ \A o \in Obj : Migrated(values, temp, o, next)

\* A file that keeps its first n cells keeps what they hold.
LEMMA AgreesKept ==
  ASSUME NEW f, NEW g, NEW n \in Nat, \A i \in 1 .. n : g[i] = f[i],
         NEW o, NEW V, NEW W, \A v \in V : v \in W, Agrees(f, o, n, V)
  PROVE  Agrees(g, o, n, W)
<1>1. \A i \in 1 .. n : EndOfObj(g, i, o) <=> EndOfObj(f, i, o)  BY DEF EndOfObj, EndIn
<1>2. CASE NoVal \in V /\ \A i \in 1 .. n : ~EndOfObj(f, i, o)  BY <1>1, <1>2 DEF Agrees
<1>3. CASE \E i \in 1 .. n : IsLast(f, i, o, n) /\ f[i].val \in V
  <2>1. PICK i \in 1 .. n : IsLast(f, i, o, n) /\ f[i].val \in V  BY <1>3
  <2>2. EndOfObj(f, i, o) /\ \A j \in i + 1 .. n : ~EndOfObj(f, j, o)  BY <2>1 DEF IsLast
  <2>3. ASSUME NEW j \in i + 1 .. n  PROVE ~EndOfObj(g, j, o)
    <3>1. j \in 1 .. n  BY <2>1, <2>3
    <3> QED  BY <1>1, <2>2, <2>3, <3>1
  <2>4. IsLast(g, i, o, n)  BY <1>1, <2>1, <2>2, <2>3 DEF IsLast
  <2> QED  BY <2>1, <2>4 DEF Agrees
<1> QED  BY <1>2, <1>3 DEF Agrees

LEMMA WholeKept ==
  ASSUME NEW f, NEW g, NEW n \in Nat, \A i \in 1 .. n : g[i] = f[i], WholeTo(g, n)
  PROVE  WholeTo(f, n)
<1>1. ASSUME NEW i \in 2 .. n
      PROVE  /\ f[i].obj \in Obj /\ f[i].at \in 0 .. ValLen[f[i].val]
             /\ \A k \in 0 .. ValLen[f[i].val] : /\ i - f[i].at + k \in 2 .. n
                                                 /\ f[i - f[i].at + k] = [f[i] EXCEPT !.at = k]
  <2>1. i \in 1 .. n  BY <1>1
  <2>2. g[i] = f[i]  BY <2>1
  <2>3. /\ f[i].obj \in Obj /\ f[i].at \in 0 .. ValLen[f[i].val]
        /\ \A k \in 0 .. ValLen[f[i].val] : /\ i - f[i].at + k \in 2 .. n
                                            /\ g[i - f[i].at + k] = [f[i] EXCEPT !.at = k]
    BY <1>1, <2>2 DEF WholeTo
  <2>4. \A p \in 2 .. n : g[p] = f[p]  OBVIOUS
  <2> QED  BY <2>3, <2>4
<1> QED  BY <1>1 DEF WholeTo

\* The cells of a whole record.
LEMMA WholeCell ==
  ASSUME NEW f \in Seq(Cell), NEW n \in 0 .. Len(f), WholeTo(f, n), NEW i \in 2 .. n
  PROVE  /\ f[i].obj \in Obj /\ f[i].val \in Val /\ ValLen[f[i].val] \in Nat
         /\ f[i].at \in 0 .. ValLen[f[i].val]
         /\ \A k \in 0 .. ValLen[f[i].val] :
              /\ i - f[i].at + k \in 2 .. n
              /\ f[i - f[i].at + k] = [obj |-> f[i].obj, val |-> f[i].val, at |-> k]
<1>1. f[i] \in Cell  OBVIOUS
<1>2. /\ f[i].obj \in Obj /\ f[i].at \in 0 .. ValLen[f[i].val]
      /\ \A k \in 0 .. ValLen[f[i].val] : /\ i - f[i].at + k \in 2 .. n
                                          /\ f[i - f[i].at + k] = [f[i] EXCEPT !.at = k]
  BY DEF WholeTo
<1>3. /\ f[i].val \in Val /\ ValLen[f[i].val] \in Nat
      /\ f[i] = [obj |-> f[i].obj, val |-> f[i].val, at |-> f[i].at]
  BY <1>1, <1>2, CellFields
<1>4. \A k : [f[i] EXCEPT !.at = k] = [obj |-> f[i].obj, val |-> f[i].val, at |-> k]
  BY ONLY <1>3
<1> QED  BY <1>2, <1>3, <1>4

\* A record with cells on both sides of offset n has two neighbours there.
LEMMA CrossingCells ==
  ASSUME NEW i \in Nat, NEW n \in Nat, NEW a \in Nat, NEW l \in Nat, NEW k \in Nat,
         i <= n, a <= l, k <= l, i - a + k > n
  PROVE  \E x \in Nat : /\ x \in 0 .. l /\ x > 0 /\ x - 1 \in 0 .. l
                        /\ i - a + x = n + 1 /\ i - a + (x - 1) = n
<1>1. n + 1 - i + a \in Nat  OBVIOUS
<1>2. PICK x \in Nat : x = n + 1 - i + a  BY <1>1
<1> QED  BY <1>2

LEMMA WholeCut ==
  ASSUME NEW f \in Seq(Cell), NEW m \in 0 .. Len(f), NEW n \in 1 .. m,
         WholeTo(f, m), Boundary(f, n)
  PROVE  WholeTo(f, n)
<1>1. ASSUME NEW i \in 2 .. n, NEW k \in 0 .. ValLen[f[i].val]  PROVE i - f[i].at + k <= n
  <2> SUFFICES ASSUME i - f[i].at + k > n  PROVE FALSE
    <3>1. i - f[i].at + k \in Int
      <4>1. f[i].at \in 0 .. ValLen[f[i].val]  BY <1>1, WholeCell
      <4>2. ValLen[f[i].val] \in Nat  BY <1>1, WholeCell
      <4> QED  BY <1>1, <4>1, <4>2
    <3> QED  BY <3>1
  <2>1. /\ i \in 2 .. m /\ i \in Nat /\ i <= n /\ n \in Nat /\ m \in Nat /\ m <= Len(f) /\ Len(f) \in Nat
    BY <1>1
  <2>0. /\ f[i].obj \in Obj /\ f[i].val \in Val /\ ValLen[f[i].val] \in Nat
        /\ f[i].at \in 0 .. ValLen[f[i].val]
        /\ \A x \in 0 .. ValLen[f[i].val] :
             /\ i - f[i].at + x \in 2 .. m
             /\ f[i - f[i].at + x] = [obj |-> f[i].obj, val |-> f[i].val, at |-> x]
    BY <2>1, WholeCell
  <2>2. PICK a \in Nat, l \in Nat : a = f[i].at /\ l = ValLen[f[i].val] /\ a <= l
    <3>1. f[i].at \in Nat /\ f[i].at <= ValLen[f[i].val]  BY <2>0
    <3> QED  BY <2>0, <3>1
  <2>3. /\ f[i].obj \in Obj
        /\ \A x \in 0 .. l : /\ i - a + x \in 2 .. m
                             /\ f[i - a + x] = [obj |-> f[i].obj, val |-> f[i].val, at |-> x]
    BY <2>0, <2>2
  <2>4. k \in 0 .. l  BY <1>1, <2>2
  <2>5. k \in Nat /\ k <= l /\ i - a + k > n /\ i - a + k \in 2 .. m
    <3>1. k \in Nat /\ k <= l  BY <2>2, <2>4
    <3>2. i - a + k > n  BY <2>2
    <3> QED  BY <2>3, <2>4, <3>1, <3>2
  <2>6. PICK x \in Nat : /\ x \in 0 .. l /\ x > 0 /\ x - 1 \in 0 .. l
                         /\ i - a + x = n + 1 /\ i - a + (x - 1) = n
    <3>1. i \in Nat /\ n \in Nat /\ i <= n /\ a <= l  BY <2>1, <2>2
    <3> QED  BY ONLY <2>5, <3>1, a \in Nat, l \in Nat, CrossingCells
  <2>7. f[n + 1] = [obj |-> f[i].obj, val |-> f[i].val, at |-> x]  BY <2>3, <2>6
  <2>8. f[n] = [obj |-> f[i].obj, val |-> f[i].val, at |-> x - 1]  BY <2>3, <2>6
  <2>9. f[n + 1].obj \in Obj /\ f[n + 1].at # 0
    <3>1. f[n + 1].obj = f[i].obj /\ f[n + 1].at = x  BY ONLY <2>7
    <3> QED  BY <2>3, <2>6, <3>1
  <2>10. ~EndIn(f, n)
    <3>1. f[n].at = x - 1 /\ f[n].val = f[i].val  BY ONLY <2>8
    <3> QED  BY <2>2, <2>6, <3>1 DEF EndIn
  <2>11. n # Len(f)  BY ONLY <2>1, <2>5
  <2> QED  BY <2>9, <2>10, <2>11 DEF Boundary
<1>2. \A i \in 2 .. n : i \in 2 .. m  OBVIOUS
<1>3. ASSUME NEW i \in 2 .. n, NEW k \in 0 .. ValLen[f[i].val]  PROVE i - f[i].at + k \in 2 .. n
  <2>1. i - f[i].at + k \in 2 .. m  BY <1>2, <1>3 DEF WholeTo
  <2> QED  BY <1>1, <1>3, <2>1
<1> QED  BY <1>2, <1>3 DEF WholeTo

\* More cells, in which o has no record or only records with values in V.
LEMMA AgreesExtends ==
  ASSUME NEW f, NEW n \in Nat, NEW m \in Nat, n <= m, NEW o, NEW V, Agrees(f, o, n, V),
         \A i \in n + 1 .. m : EndOfObj(f, i, o) => f[i].val \in V
  PROVE  Agrees(f, o, m, V)
<1> DEFINE S == {i \in n + 1 .. m : EndOfObj(f, i, o)}
<1>1. CASE S = {}
  <2>1. \A i \in n + 1 .. m : ~EndOfObj(f, i, o)  BY <1>1
  <2>2. CASE NoVal \in V /\ \A i \in 1 .. n : ~EndOfObj(f, i, o)
    <3>1. \A i \in 1 .. m : i \in 1 .. n \/ i \in n + 1 .. m  OBVIOUS
    <3> QED  BY <2>1, <2>2, <3>1 DEF Agrees
  <2>3. CASE \E i \in 1 .. n : IsLast(f, i, o, n) /\ f[i].val \in V
    <3>1. PICK i \in 1 .. n : IsLast(f, i, o, n) /\ f[i].val \in V  BY <2>3
    <3>2. \A j \in i + 1 .. m : j \in i + 1 .. n \/ j \in n + 1 .. m  BY <3>1
    <3>3. i \in 1 .. m  BY <3>1
    <3>4. IsLast(f, i, o, m)  BY <2>1, <3>1, <3>2, <3>3 DEF IsLast
    <3> QED  BY <3>1, <3>3, <3>4 DEF Agrees
  <2> QED  BY <2>2, <2>3 DEF Agrees
<1>2. CASE S # {}
  <2>1. S \in SUBSET (0 .. m)  OBVIOUS
  <2>2. PICK i \in S : \A j \in S : j <= i
    <3> HIDE DEF S
    <3>1. Max(S) \in S /\ \A j \in S : j <= Max(S)  BY <1>2, <2>1, MaxOfBounded
    <3> QED  BY <3>1
  <2>3. i \in n + 1 .. m /\ EndOfObj(f, i, o) /\ f[i].val \in V  BY <2>2
  <2>4. ASSUME NEW j \in i + 1 .. m  PROVE ~EndOfObj(f, j, o)
    <3>1. j \in n + 1 .. m /\ ~(j <= i)  BY <2>3, <2>4
    <3> QED  BY <2>2, <3>1
  <2>5. i \in 1 .. m  BY <2>3
  <2> QED  BY <2>3, <2>4, <2>5 DEF Agrees, IsLast
<1> QED  BY <1>1, <1>2

\* A record has one end.
LEMMA RecordEnds ==
  ASSUME NEW f \in Seq(Cell), NEW s \in Nat, NEW e \in Entry, RecordIn(f, s, e)
  PROVE  /\ RecordSize(e) \in Nat /\ RecordSize(e) > 0 /\ s + RecordSize(e) <= Len(f)
         /\ \A i \in s + 1 .. s + RecordSize(e) :
              /\ f[i] = [obj |-> e.obj, val |-> e.val, at |-> i - s - 1]
              /\ EndIn(f, i) <=> i = s + RecordSize(e)
<1>1. /\ RecordSize(e) \in Nat /\ RecordSize(e) > 0 /\ e.obj \in Obj /\ ValLen[e.val] \in Nat
      /\ RecordSize(e) = 1 + ValLen[e.val]
  BY EntryFields DEF RecordSize
<1>2. ASSUME NEW i \in s + 1 .. s + RecordSize(e)
      PROVE  f[i] = [obj |-> e.obj, val |-> e.val, at |-> i - s - 1]
  <2>1. i - s \in 1 .. RecordSize(e) /\ s + (i - s) = i  BY <1>1, <1>2
  <2>2. f[s + (i - s)] = Record(e)[i - s]  BY <2>1 DEF RecordIn
  <2>3. Record(e)[i - s] = [obj |-> e.obj, val |-> e.val, at |-> (i - s) - 1]  BY <2>1, RecordCells
  <2> QED  BY <2>1, <2>2, <2>3
<1>3. ASSUME NEW i \in s + 1 .. s + RecordSize(e)
      PROVE  EndIn(f, i) <=> i = s + RecordSize(e)
  <2>1. f[i].obj = e.obj /\ f[i].val = e.val /\ f[i].at = i - s - 1
    <3>1. f[i] = [obj |-> e.obj, val |-> e.val, at |-> i - s - 1]  BY <1>2, <1>3
    <3> QED  BY ONLY <3>1
  <2>2. i \in Nat  BY <1>1, <1>3
  <2>3. i - s - 1 = ValLen[e.val] <=> i = s + RecordSize(e)  BY <1>1, <2>2
  <2> QED  BY <1>1, <2>1, <2>3 DEF EndIn
<1> QED  BY <1>1, <1>2, <1>3 DEF RecordIn

\* The writer forgets where it was: if the file is whole, it holds the values.
LEMMA Settles ==
  ASSUME NEW f \in Seq(Cell), NEW n \in 1 .. Len(f), NEW e \in n .. Len(f), NEW C, NEW A, NEW M,
         Written(f, n, e, C, A, M), WholeTo(f, Len(f)),
         NEW o \in Obj, NEW W, \A v \in A[o] : v \in W, \A v \in M[o] : v \in W
  PROVE  Agrees(f, o, Len(f), W)
<1>1. Len(f) \in Nat /\ n \in Nat /\ e \in Nat /\ n <= e /\ e <= Len(f)  OBVIOUS
<1>2. WholeTo(f, n)
  <2>1. Len(f) \in 0 .. Len(f) /\ Boundary(f, n)  BY <1>1 DEF Written
  <2> QED  BY <2>1, WholeCut
<1>3. Agrees(f, o, e, A[o])  BY <1>2 DEF Written
<1>4. Agrees(f, o, e, W)  BY <1>1, <1>3, AgreesKept
<1>5. ASSUME NEW i \in e + 1 .. Len(f), EndOfObj(f, i, o)  PROVE f[i].val \in W
  <2>1. /\ EndIn(f, i) /\ f[i].obj = o /\ i \in 2 .. Len(f) /\ i \in Nat /\ i > n
    BY <1>1, <1>5 DEF EndOfObj
  <2>2. \/ i - f[i].at <= n
        \/ f[i].val \in M[o]
    BY <1>5, <2>1 DEF Written, Leftover
  <2>3. CASE i - f[i].at <= n
    <3>1. Len(f) \in 0 .. Len(f)  BY <1>1
    <3>2. /\ f[i].obj \in Obj /\ f[i].val \in Val /\ ValLen[f[i].val] \in Nat
          /\ f[i].at \in 0 .. ValLen[f[i].val]
          /\ \A k \in 0 .. ValLen[f[i].val] :
               /\ i - f[i].at + k \in 2 .. Len(f)
               /\ f[i - f[i].at + k] = [obj |-> f[i].obj, val |-> f[i].val, at |-> k]
      BY <2>1, <3>1, WholeCell
    <3>3. PICK l \in Nat : l = ValLen[f[i].val] /\ l = f[i].at  BY <2>1, <3>2 DEF EndIn
    <3>4. 0 \in 0 .. l  OBVIOUS
    <3>5. /\ i - l + 0 \in 2 .. Len(f)
          /\ f[i - l + 0] = [obj |-> f[i].obj, val |-> f[i].val, at |-> 0]
      BY <3>2, <3>3, <3>4
    <3>6. PICK p \in Nat : p = i - l /\ p \in 2 .. n /\ i - l + 0 = p
      <4>1. i - l + 0 = i - l /\ i - l \in Nat /\ i - l >= 2  BY <2>1, <3>5
      <4>2. i - l <= n  BY <2>3, <3>3
      <4> QED  BY <1>1, <4>1, <4>2
    <3>7. f[p].val = f[i].val /\ f[p].at = 0  BY <3>5, <3>6
    <3>8. p - f[p].at + l \in 2 .. n
      <4>1. n \in 0 .. Len(f)  BY <1>1
      <4>2. \A k \in 0 .. ValLen[f[p].val] : p - f[p].at + k \in 2 .. n
        BY <1>2, <3>6, <4>1, WholeCell
      <4>3. ValLen[f[p].val] = l  BY ONLY <3>3, <3>7
      <4>4. l \in 0 .. l  BY ONLY l \in Nat
      <4> QED  BY <4>2, <4>3, <4>4
    <3>9. p - f[p].at + l = i  BY <2>1, <3>6, <3>7
    <3> QED  BY <1>1, <2>1, <3>8, <3>9
  <2> QED  BY <2>2, <2>3
<1> QED  BY <1>1, <1>4, <1>5, AgreesExtends

\* A file of which only the cells behind e change, and not their ends.
LEMMA WrittenKept ==
  ASSUME NEW f \in Seq(Cell), NEW g \in Seq(Cell), NEW n \in 1 .. Len(f), NEW e \in n .. Len(f),
         NEW C, NEW A, NEW M, Written(f, n, e, C, A, M), Len(g) >= Len(f),
         \A i \in 1 .. e : g[i] = f[i],
         n < e \/ g = f \/ g[n + 1].obj \notin Obj \/ g[n + 1].at = 0
  PROVE  /\ Boundary(g, n)
         /\ WholeTo(g, n) => /\ WholeTo(f, n)
                             /\ \A o \in Obj : Agrees(g, o, n, C[o]) /\ Agrees(g, o, e, A[o])
<1>1. /\ Len(f) \in Nat /\ n \in Nat /\ e \in Nat /\ n <= e /\ e <= Len(f) /\ Len(g) \in Nat
      /\ n \in 1 .. e
  OBVIOUS
<1>2. Boundary(g, n)
  <2>1. CASE n < e
    <3>1. n + 1 \in 1 .. e /\ n # Len(f)  BY <1>1, <2>1
    <3>2. g[n] = f[n] /\ g[n + 1] = f[n + 1]  BY <1>1, <3>1
    <3>3. EndIn(f, n) \/ f[n + 1].obj \notin Obj \/ f[n + 1].at = 0  BY <3>1 DEF Written, Boundary
    <3> QED  BY <3>2, <3>3 DEF Boundary, EndIn
  <2>2. CASE g = f  BY <2>2 DEF Written
  <2>3. CASE g[n + 1].obj \notin Obj \/ g[n + 1].at = 0  BY <2>3 DEF Boundary
  <2> QED  BY <2>1, <2>2, <2>3
<1>3. ASSUME WholeTo(g, n)
      PROVE  /\ WholeTo(f, n)
             /\ \A o \in Obj : Agrees(g, o, n, C[o]) /\ Agrees(g, o, e, A[o])
  <2>1. \A i \in 1 .. n : g[i] = f[i]  BY <1>1
  <2>2. WholeTo(f, n)  BY <1>1, <1>3, <2>1, WholeKept
  <2>3. \A o \in Obj : Agrees(f, o, n, C[o]) /\ Agrees(f, o, e, A[o])  BY <2>2 DEF Written
  <2>4. ASSUME NEW o \in Obj  PROVE Agrees(g, o, n, C[o]) /\ Agrees(g, o, e, A[o])
    <3>1. Agrees(g, o, n, C[o])  BY <1>1, <2>1, <2>3, AgreesKept
    <3>2. Agrees(g, o, e, A[o])  BY <1>1, <2>3, AgreesKept
    <3> QED  BY <3>1, <3>2
  <2> QED  BY <2>2, <2>4
<1> QED  BY <1>2, <1>3

\* An append is cut.
LEMMA CutWritten ==
  ASSUME NEW f \in Seq(Cell), NEW n \in 1 .. Len(f), NEW e \in n .. Len(f), NEW C, NEW A, NEW M,
         Written(f, n, e, C, A, M), NEW x \in Entry, NEW c \in Cut(x),
         NEW g, g = Overwrite(f, e, c)
  PROVE  g \in Seq(Cell) /\ Len(g) >= Len(f) /\ Written(g, n, e, C, A, M)
<1>0. /\ Len(f) \in Nat /\ n \in Nat /\ e \in Nat /\ n <= e /\ e <= Len(f) /\ e \in 0 .. Len(f)
  OBVIOUS
<1>1. /\ c \in Seq(Cell) /\ Len(c) < RecordSize(x)
      /\ \A i \in 1 .. Len(c) : c[i] = Record(x)[i] \/ c[i] = Fragment
  BY CutCells
<1>2. /\ g \in Seq(Cell)
      /\ Len(g) = IF Len(f) >= e + Len(c) THEN Len(f) ELSE e + Len(c)
      /\ \A i \in e + 1 .. e + Len(c) : g[i] = c[i - e]
      /\ \A i \in 1 .. Len(g) : i \notin e + 1 .. e + Len(c) => i <= Len(f) /\ g[i] = f[i]
  BY <1>0, <1>1, OverwriteCells
<1>3. Len(c) \in Nat /\ Len(g) \in Nat /\ Len(g) >= Len(f)  BY <1>0, <1>1, <1>2
<1>4. ASSUME NEW i \in 1 .. e  PROVE g[i] = f[i]
  <2>1. i \in 1 .. Len(g) /\ i \notin e + 1 .. e + Len(c)  BY <1>0, <1>3, <1>4
  <2> QED  BY <1>2, <2>1
<1>5. /\ RecordSize(x) \in Nat /\ RecordSize(x) = 1 + ValLen[x.val] /\ ValLen[x.val] \in Nat
      /\ \A i \in 1 .. RecordSize(x) : Record(x)[i] = [obj |-> x.obj, val |-> x.val, at |-> i - 1]
  BY EntryFields, RecordCells DEF RecordSize
<1>6. ASSUME NEW i \in 1 .. Len(c)
      PROVE  \/ c[i] = [obj |-> x.obj, val |-> x.val, at |-> i - 1] /\ i - 1 < ValLen[x.val]
             \/ c[i] = Fragment
  <2>1. i \in 1 .. RecordSize(x) /\ i - 1 < ValLen[x.val]  BY <1>1, <1>3, <1>5
  <2> QED  BY <1>1, <1>5, <2>1
<1>7. Fragment.obj \notin Obj  BY ObjectAssumption DEF Fragment
<1>8. n < e \/ g = f \/ g[n + 1].obj \notin Obj \/ g[n + 1].at = 0
  <2>1. CASE n = e /\ Len(c) = 0
    <3>1. Len(g) = Len(f) /\ \A i \in 1 .. Len(g) : g[i] = f[i]  BY <1>0, <1>2, <1>3, <2>1
    <3> QED  BY <1>2, <3>1, SeqEqual
  <2>2. CASE n = e /\ Len(c) > 0
    <3>1. 1 \in 1 .. Len(c) /\ n + 1 \in e + 1 .. e + Len(c) /\ (n + 1) - e = 1
      BY <1>0, <1>3, <2>2
    <3>2. g[n + 1] = c[1]  BY <1>2, <3>1
    <3>3. c[1] = [obj |-> x.obj, val |-> x.val, at |-> 1 - 1] \/ c[1] = Fragment  BY <1>6, <3>1
    <3> QED  BY <1>7, <3>2, <3>3
  <2> QED  BY <1>0, <1>3, <2>1, <2>2
<1>9. ASSUME NEW i \in e + 1 .. Len(g), EndIn(g, i)
      PROVE  \/ i - g[i].at <= n
             \/ i - g[i].at = n + 1 /\ g[i].val \in M[g[i].obj]
  <2>1. CASE i \in e + 1 .. e + Len(c)
    <3>1. i - e \in 1 .. Len(c) /\ g[i] = c[i - e]  BY <1>0, <1>2, <1>3, <2>1
    <3>2. CASE g[i] = Fragment  BY <1>7, <1>9, <3>2 DEF EndIn
    <3>3. CASE g[i] = [obj |-> x.obj, val |-> x.val, at |-> (i - e) - 1] /\ (i - e) - 1 < ValLen[x.val]
      <4>1. g[i].at = (i - e) - 1 /\ g[i].val = x.val  BY <3>3
      <4>2. (i - e) - 1 # ValLen[x.val]  BY <1>0, <1>5, <1>9, <3>3
      <4> QED  BY <1>9, <4>1, <4>2 DEF EndIn
    <3> QED  BY <1>6, <3>1, <3>2, <3>3
  <2>2. CASE i \notin e + 1 .. e + Len(c)
    <3>1. i \in 1 .. Len(g)  BY <1>0, <1>3, <1>9
    <3>2. g[i] = f[i] /\ i <= Len(f)  BY <1>2, <2>2, <3>1
    <3>3. i \in e + 1 .. Len(f)  BY <1>0, <1>9, <3>2
    <3>4. EndIn(f, i)  BY <1>9, <3>2 DEF EndIn
    <3> QED  BY <3>2, <3>3, <3>4 DEF Written, Leftover
  <2> QED  BY <2>1, <2>2
<1>10. /\ Boundary(g, n)
       /\ WholeTo(g, n) => \A o \in Obj : Agrees(g, o, n, C[o]) /\ Agrees(g, o, e, A[o])
  BY <1>2, <1>3, <1>4, <1>8, WrittenKept
<1>11. Leftover(g, n, e, M)  BY <1>9 DEF Leftover
<1> QED  BY <1>2, <1>3, <1>10, <1>11 DEF Written

\* A write fails: its records, one at most, are left over.
LEMMA FallsBack ==
  ASSUME NEW f \in Seq(Cell), NEW n \in 1 .. Len(f), NEW e \in n .. Len(f), NEW C, NEW A, NEW M,
         Written(f, n, e, C, A, M), NEW D, NEW N,
         \A o \in Obj : (\A v \in C[o] : v \in D[o]) /\ (\A v \in M[o] : v \in N[o]),
         e = n \/ \E x \in Entry : RecordIn(f, n, x) /\ e = n + RecordSize(x) /\ x.val \in N[x.obj]
  PROVE  Written(f, n, n, D, D, N)
<1>0. /\ Len(f) \in Nat /\ n \in Nat /\ e \in Nat /\ n <= e /\ e <= Len(f)  OBVIOUS
<1>1. Boundary(f, n)  BY DEF Written
<1>2. ASSUME WholeTo(f, n), NEW o \in Obj  PROVE Agrees(f, o, n, D[o])
  <2>1. Agrees(f, o, n, C[o])  BY <1>2 DEF Written
  <2> QED  BY <1>0, <2>1, AgreesKept
<1>3. ASSUME NEW i \in n + 1 .. Len(f), EndIn(f, i)
      PROVE  \/ i - f[i].at <= n
             \/ i - f[i].at = n + 1 /\ f[i].val \in N[f[i].obj]
  <2>1. CASE i > e
    <3>1. i \in e + 1 .. Len(f) /\ f[i].obj \in Obj  BY <1>0, <1>3, <2>1 DEF EndIn
    <3> QED  BY <1>3, <3>1 DEF Written, Leftover
  <2>2. CASE ~(i > e)
    <3>1. i <= e /\ i >= n + 1 /\ i \in Nat /\ e # n  BY <1>0, <1>3, <2>2
    <3>2. PICK x \in Entry : RecordIn(f, n, x) /\ e = n + RecordSize(x) /\ x.val \in N[x.obj]
      BY <3>1
    <3>3. i \in n + 1 .. n + RecordSize(x)  BY <1>0, <3>1, <3>2
    <3>4. f[i] = [obj |-> x.obj, val |-> x.val, at |-> i - n - 1]  BY <1>0, <3>2, <3>3, RecordEnds
    <3>5. f[i].obj = x.obj /\ f[i].val = x.val /\ f[i].at = i - n - 1  BY ONLY <3>4
    <3>6. i - f[i].at = n + 1  BY <1>0, <3>1, <3>5
    <3> QED  BY <3>2, <3>5, <3>6
  <2> QED  BY <2>1, <2>2
<1> QED  BY <1>1, <1>2, <1>3 DEF Written, Leftover

\* A record is appended at offset e.
LEMMA RecordWritten ==
  ASSUME NEW f \in Seq(Cell), NEW n \in 1 .. Len(f), NEW e \in n .. Len(f), NEW C, NEW A, NEW M,
         Written(f, n, e, C, A, M), NEW x \in Entry,
         NEW g, g = Overwrite(f, e, Record(x)), NEW B,
         B[x.obj] = {x.val}, \A o \in Obj : o # x.obj => B[o] = A[o]
  PROVE  Written(g, n, e + RecordSize(x), C, B, M)
<1>0. /\ Len(f) \in Nat /\ n \in Nat /\ e \in Nat /\ n <= e /\ e <= Len(f) /\ e \in 0 .. Len(f)
  OBVIOUS
<1> DEFINE z == RecordSize(x)
<1>1. /\ Record(x) \in Seq(Cell) /\ Len(Record(x)) = z /\ z \in Nat /\ z > 0
      /\ \A i \in 1 .. z : Record(x)[i] = [obj |-> x.obj, val |-> x.val, at |-> i - 1]
  BY RecordCells, EntryFields
<1> HIDE DEF z
<1>2. /\ g \in Seq(Cell)
      /\ Len(g) = IF Len(f) >= e + z THEN Len(f) ELSE e + z
      /\ \A i \in e + 1 .. e + z : g[i] = Record(x)[i - e]
      /\ \A i \in 1 .. Len(g) : i \notin e + 1 .. e + z => i <= Len(f) /\ g[i] = f[i]
  <2>1. PICK r \in Seq(Cell) : r = Record(x)  BY <1>1
  <2>2. g = Overwrite(f, e, r)  BY <2>1
  <2>3. /\ g \in Seq(Cell)
        /\ Len(g) = IF Len(f) >= e + Len(r) THEN Len(f) ELSE e + Len(r)
        /\ \A i \in e + 1 .. e + Len(r) : g[i] = r[i - e]
        /\ \A i \in 1 .. Len(g) : i \notin e + 1 .. e + Len(r) => i <= Len(f) /\ g[i] = f[i]
    BY <1>0, <2>2, OverwriteCells
  <2>4. Len(r) = z  BY <1>1, <2>1
  <2> QED  BY <2>1, <2>3, <2>4
<1>3. Len(g) \in Nat /\ Len(g) >= Len(f) /\ Len(g) >= e + z  BY <1>0, <1>1, <1>2
<1>4. ASSUME NEW i \in 1 .. e  PROVE g[i] = f[i]
  <2>1. i \in 1 .. Len(g) /\ i \notin e + 1 .. e + z  BY <1>0, <1>1, <1>3, <1>4
  <2> QED  BY <1>2, <2>1
<1>5. RecordIn(g, e, x)
  <2>1. ASSUME NEW i \in 1 .. z  PROVE g[e + i] = Record(x)[i]
    <3>1. e + i \in e + 1 .. e + z /\ (e + i) - e = i  BY <1>0, <1>1, <2>1
    <3> QED  BY <1>2, <3>1
  <2> QED  BY <1>3, <2>1 DEF RecordIn, z
<1>6. \A i \in e + 1 .. e + z : /\ g[i] = [obj |-> x.obj, val |-> x.val, at |-> i - e - 1]
                                /\ EndIn(g, i) <=> i = e + z
  BY <1>0, <1>2, <1>5, RecordEnds DEF z
<1>7. n < e \/ g = f \/ g[n + 1].obj \notin Obj \/ g[n + 1].at = 0
  <2>1. CASE n = e
    <3>1. n + 1 \in e + 1 .. e + z /\ (n + 1) - e - 1 = 0  BY <1>0, <1>1, <2>1
    <3>2. g[n + 1] = [obj |-> x.obj, val |-> x.val, at |-> (n + 1) - e - 1]  BY <1>6, <3>1
    <3> QED  BY <3>1, <3>2
  <2> QED  BY <1>0, <2>1
<1>8. /\ Boundary(g, n)
      /\ WholeTo(g, n) => \A o \in Obj : Agrees(g, o, n, C[o]) /\ Agrees(g, o, e, A[o])
  BY <1>2, <1>3, <1>4, <1>7, WrittenKept
<1>9. ASSUME WholeTo(g, n), NEW o \in Obj  PROVE Agrees(g, o, e + z, B[o])
  <2>1. CASE o = x.obj
    <3>1. e + z \in 1 .. e + z /\ e + z \in e + 1 .. e + z  BY <1>0, <1>1
    <3>2. g[e + z] = [obj |-> x.obj, val |-> x.val, at |-> (e + z) - e - 1] /\ EndIn(g, e + z)
      BY <1>6, <3>1
    <3>3. g[e + z].obj = o /\ g[e + z].val \in B[o]
      <4>1. g[e + z].obj = x.obj /\ g[e + z].val = x.val  BY ONLY <3>2
      <4> QED  BY <2>1, <4>1
    <3>4. \A j \in (e + z) + 1 .. e + z : FALSE  BY <1>0, <1>1
    <3>5. IsLast(g, e + z, o, e + z)  BY <3>1, <3>2, <3>3, <3>4 DEF IsLast, EndOfObj
    <3> QED  BY <3>1, <3>3, <3>5 DEF Agrees
  <2>2. CASE o # x.obj
    <3>1. Agrees(g, o, e, B[o])  BY <1>8, <1>9, <2>2
    <3>2. \A i \in e + 1 .. e + z : ~EndOfObj(g, i, o)
      <4>1. ASSUME NEW i \in e + 1 .. e + z  PROVE g[i].obj = x.obj
        <5>1. g[i] = [obj |-> x.obj, val |-> x.val, at |-> i - e - 1]  BY <1>6, <4>1
        <5> QED  BY ONLY <5>1
      <4> QED  BY <2>2, <4>1 DEF EndOfObj
    <3>3. e + z \in Nat /\ e <= e + z  BY <1>0, <1>1
    <3> QED  BY <1>0, <3>1, <3>2, <3>3, AgreesExtends
  <2> QED  BY <2>1, <2>2
<1>10. ASSUME NEW i \in e + z + 1 .. Len(g), EndIn(g, i)
       PROVE  \/ i - g[i].at <= n
              \/ i - g[i].at = n + 1 /\ g[i].val \in M[g[i].obj]
  <2>1. i \in 1 .. Len(g) /\ i \notin e + 1 .. e + z  BY <1>0, <1>1, <1>3, <1>10
  <2>2. g[i] = f[i] /\ i <= Len(f)  BY <1>2, <2>1
  <2>3. i \in e + 1 .. Len(f)  BY <1>0, <1>1, <1>10, <2>2
  <2>4. EndIn(f, i)  BY <1>10, <2>2 DEF EndIn
  <2> QED  BY <2>2, <2>3, <2>4 DEF Written, Leftover
<1>11. Leftover(g, n, e + z, M)  BY <1>10 DEF Leftover
<1> QED  BY <1>8, <1>9, <1>11 DEF Written, z

\* The write is done: the file is appended to from the end of its records.
LEMMA Finishes ==
  ASSUME NEW f \in Seq(Cell), NEW n \in 1 .. Len(f), NEW e \in n .. Len(f), NEW C, NEW A, NEW M,
         Written(f, n, e, C, A, M), NEW D, NEW N, \A o \in Obj : D[o] = A[o],
         NEW s \in n .. e, NEW x \in Entry, RecordIn(f, s, x), e = s + RecordSize(x)
  PROVE  Written(f, e, e, D, D, N)
<1>0. /\ Len(f) \in Nat /\ n \in Nat /\ e \in Nat /\ n <= e /\ e <= Len(f) /\ s \in Nat /\ n <= s
  OBVIOUS
<1>1. /\ RecordSize(x) \in Nat /\ RecordSize(x) > 0
      /\ \A i \in s + 1 .. s + RecordSize(x) : EndIn(f, i) <=> i = s + RecordSize(x)
  BY <1>0, RecordEnds
<1>2. e \in s + 1 .. s + RecordSize(x) /\ n + 1 <= e  BY <1>0, <1>1
<1>3. EndIn(f, e)  BY <1>1, <1>2
<1>4. Boundary(f, e)  BY <1>3 DEF Boundary
<1>5. ASSUME WholeTo(f, e), NEW o \in Obj  PROVE Agrees(f, o, e, D[o])
  <2>1. e \in 0 .. Len(f) /\ n \in 1 .. e /\ Boundary(f, n)  BY <1>0 DEF Written
  <2>2. WholeTo(f, n)  BY <1>5, <2>1, WholeCut
  <2> QED  BY <2>2 DEF Written
<1>6. Leftover(f, e, e, N)
  <2>1. ASSUME NEW i \in e + 1 .. Len(f), EndIn(f, i)  PROVE i - f[i].at <= e
    <3>1. i - f[i].at <= n \/ i - f[i].at = n + 1  BY <2>1 DEF Written, Leftover
    <3>2. f[i] \in Cell /\ f[i].obj \in Obj /\ i \in Nat  BY <1>0, <2>1 DEF EndIn
    <3>3. f[i].at \in Int  BY <3>2, CellFields
    <3> QED  BY <1>0, <1>2, <3>1, <3>2, <3>3
  <2> QED  BY <2>1 DEF Leftover
<1> QED  BY <1>4, <1>5, <1>6 DEF Written

\* A session begins.
LEMMA Starts ==
  ASSUME NEW f \in Seq(Cell), NEW D, NEW N,
         WholeTo(f, Len(f)) => \A o \in Obj : Agrees(f, o, Len(f), D[o])
  PROVE  Written(f, Len(f), Len(f), D, D, N)
<1>1. \A i \in Len(f) + 1 .. Len(f) : FALSE  OBVIOUS
<1> QED  BY <1>1 DEF Written, Boundary, Leftover

(* What counts once some entries of the call are in the file.              *)

LEMMA AllowedFirst ==
  ASSUME NEW b \in Seq(Entry)
  PROVE  Allowed(b, 1, Current) = Current
<1>1. \A o \in Obj : Before(b, o, 1) = {}  BY DEF Before
<1> QED  BY <1>1 DEF Allowed, Current

LEMMA BeforeFacts ==
  ASSUME NEW b \in Seq(Entry), NEW o, NEW m \in Nat, Before(b, o, m) # {}
  PROVE  /\ Max(Before(b, o, m)) \in Before(b, o, m)
         /\ \A y \in Before(b, o, m) : y <= Max(Before(b, o, m))
<1>1. Before(b, o, m) \in SUBSET (0 .. m)  BY DEF Before
<1>2. PICK S : S = Before(b, o, m)  OBVIOUS
<1> QED  BY <1>1, <1>2, MaxOfBounded

LEMMA AllowedNext ==
  ASSUME NEW b \in Seq(Entry), NEW k \in 1 .. Len(b), NEW m, m = k + 1, NEW C
  PROVE  /\ Allowed(b, m, C)[b[k].obj] = {b[k].val}
         /\ \A o \in Obj : o # b[k].obj => Allowed(b, m, C)[o] = Allowed(b, k, C)[o]
<1>1. k \in DOMAIN b /\ k \in Nat /\ b[k] \in Entry /\ b[k].obj \in Obj
  <2>1. k \in DOMAIN b /\ k \in Nat /\ b[k] \in Entry  OBVIOUS
  <2> QED  BY <2>1, EntryFields
<1>2. PICK p : p = b[k].obj  OBVIOUS
<1>3. k \in Before(b, p, k + 1)  BY <1>1, <1>2 DEF Before
<1>4. Max(Before(b, p, k + 1)) = k
  <2>1. PICK x : x = Max(Before(b, p, k + 1))  OBVIOUS
  <2>2. x \in Before(b, p, k + 1) /\ k <= x  BY <1>1, <1>3, <2>1, BeforeFacts
  <2>3. x \in DOMAIN b /\ x < k + 1  BY <2>2 DEF Before
  <2>4. x \in Nat  BY <2>3
  <2> QED  BY <1>1, <2>1, <2>2, <2>3, <2>4
<1>5. Allowed(b, k + 1, C)[p] = {b[k].val}  BY <1>1, <1>2, <1>3, <1>4 DEF Allowed
<1>6. ASSUME NEW o \in Obj, o # p  PROVE Allowed(b, k + 1, C)[o] = Allowed(b, k, C)[o]
  <2>1. Before(b, o, k + 1) = Before(b, o, k)
    <3>1. \A i \in DOMAIN b : b[i].obj = o => (i < k + 1 <=> i < k)  BY <1>1, <1>2, <1>6
    <3> QED  BY <3>1 DEF Before
  <2> QED  BY <2>1 DEF Allowed
<1> QED  BY <1>2, <1>5, <1>6

LEMMA AllowedCut ==
  ASSUME call.batch \in Seq(Entry), Unacknowledged, NEW m \in Nat, NEW o \in Obj
  PROVE  /\ \A v \in Allowed(call.batch, m, Current)[o] : v \in Current'[o]
         /\ \A v \in Current[o] : v \in Current'[o]
         /\ \A v \in maybe[o] : v \in maybe'[o]
         /\ \A i \in Entries(o) : call.batch[i].val \in maybe'[o]
<1>1. /\ maybe'[o] = maybe[o] \cup {call.batch[i].val : i \in Entries(o)} /\ acked' = acked
  BY DEF Unacknowledged
<1>2. Current'[o] = {acked'[o]} \cup maybe'[o] /\ Current[o] = {acked[o]} \cup maybe[o]
  BY DEF Current
<1>3. CASE Before(call.batch, o, m) = {}
  <2>1. Allowed(call.batch, m, Current)[o] = Current[o]  BY <1>3 DEF Allowed
  <2> QED  BY <1>1, <1>2, <2>1
<1>4. CASE Before(call.batch, o, m) # {}
  <2>1. PICK x : x = Max(Before(call.batch, o, m))  OBVIOUS
  <2>2. x \in Before(call.batch, o, m)  BY <1>4, <2>1, BeforeFacts
  <2>3. x \in Entries(o)  BY <2>2 DEF Before, Entries
  <2>4. Allowed(call.batch, m, Current)[o] = {call.batch[x].val}  BY <1>4, <2>1 DEF Allowed
  <2> QED  BY <1>1, <1>2, <2>3, <2>4
<1> QED  BY <1>3, <1>4

LEMMA AllowedDone ==
  ASSUME call.batch \in Seq(Entry), Acknowledged, NEW o \in Obj
  PROVE  Current'[o] = Allowed(call.batch, Len(call.batch) + 1, Current)[o]
<1>1. Before(call.batch, o, Len(call.batch) + 1) = Entries(o)
  <2>1. \A i \in DOMAIN call.batch : i < Len(call.batch) + 1  OBVIOUS
  <2> QED  BY <2>1 DEF Before, Entries
<1>2. /\ acked'[o] = IF Entries(o) = {} THEN acked[o] ELSE call.batch[Max(Entries(o))].val
      /\ maybe'[o] = IF Entries(o) = {} THEN maybe[o] ELSE {}
  BY DEF Acknowledged
<1>3. Current'[o] = {acked'[o]} \cup maybe'[o]  BY DEF Current
<1>4. Allowed(call.batch, Len(call.batch) + 1, Current)[o] =
        IF Entries(o) = {} THEN {acked[o]} \cup maybe[o] ELSE {call.batch[Max(Entries(o))].val}
  BY <1>1 DEF Allowed, Current
<1>5. CASE Entries(o) = {}  BY <1>2, <1>3, <1>4, <1>5
<1>6. CASE Entries(o) # {}  BY <1>2, <1>3, <1>4, <1>6
<1> QED  BY <1>5, <1>6

LEMMA CallWritten ==
  ASSUME StoreInv, FileInv, Appending
  PROVE  /\ values \in Seq(Cell) /\ appendOffset \in 1 .. Len(values) /\ call.batch \in Seq(Entry)
         /\ \E e \in appendOffset .. Len(values), m \in Nat :
              /\ Written(values, appendOffset, e, Current, Allowed(call.batch, m, Current), maybe)
              /\ pc = "append" => e = next
<1>1. values \in Seq(Cell) /\ call.batch \in Seq(Entry) /\ Len(values) \in Nat /\ Len(call.batch) \in Nat
  BY DEF StoreInv, Typed, FilesTyped, CallTyped
<1>2. appendOffset \in 1 .. Len(values)
  <2>1. pc \notin {"closed", "migrate", "removeIndex"}  BY DEF Appending, InCall, Resizing, BuildPcs
  <2> QED  BY <1>1, <2>1 DEF StoreInv, OffsetInv
<1>3. CASE pc \in {"idle", "unmapped"} \/ Resizing
  <2>1. Written(values, appendOffset, appendOffset, Current, Allowed(call.batch, 1, Current), maybe)
    BY <1>1, <1>3, AllowedFirst DEF FileInv
  <2>2. appendOffset \in appendOffset .. Len(values) /\ pc # "append"
    BY <1>1, <1>2, <1>3 DEF Resizing, BuildPcs
  <2> QED  BY <1>1, <1>2, <2>1, <2>2
<1>4. CASE pc = "append"
  <2>1. next \in appendOffset .. Len(values) /\ call.entry \in Nat  BY <1>1, <1>2, <1>4, AppendPlace
  <2>2. Written(values, appendOffset, next, Current, Allowed(call.batch, call.entry, Current), maybe)
    BY <1>4 DEF FileInv
  <2> QED  BY <1>1, <1>2, <2>1, <2>2
<1>5. CASE pc \in {"store", "count"}
  <2>1. PICK f \in [1 .. Len(call.batch) + 1 -> 0 .. Len(values)] :
           /\ Laid(f, Len(call.batch) + 1)
           /\ Written(values, appendOffset, f[Len(call.batch) + 1], Current,
                      Allowed(call.batch, Len(call.batch) + 1, Current), maybe)
    BY <1>5 DEF FileInv
  <2>2. PICK n : n = Len(call.batch)  OBVIOUS
  <2>3. n \in Nat /\ n > 0
    <3>1. call.batch # <<>>  BY <1>5 DEF StoreInv, Typed, CallTyped, InCall
    <3> QED  BY <1>1, <2>2, <3>1
  <2>4. f[1] = appendOffset /\ f[1] + RecordSize(call.batch[1]) <= f[n + 1]
    <3>1. 1 \in 1 .. n + 1 /\ n + 1 \in 1 .. n + 1 /\ 1 < n + 1  BY <2>3
    <3> QED  BY <2>1, <2>2, <3>1 DEF Laid, LaidIn
  <2>5. RecordSize(call.batch[1]) \in Nat
    <3>1. call.batch[1] \in Entry  BY <1>1, <2>2, <2>3
    <3> QED  BY <3>1, EntryFields
  <2>6. f[n + 1] \in 0 .. Len(values)  BY <2>1, <2>2, <2>3
  <2>7. f[n + 1] \in appendOffset .. Len(values)  BY <1>1, <1>2, <2>4, <2>5, <2>6
  <2> QED  BY <1>1, <1>2, <1>5, <2>1, <2>2, <2>3, <2>7
<1> QED  BY <1>3, <1>4, <1>5 DEF Appending, InCall

LEMMA FileSettled ==
  ASSUME ~Appending', ~IsLegacy' /\ WholeTo(values', Len(values')) =>
                        \A o \in Obj : Agrees(values', o, Len(values'), Current'[o])
  PROVE  FileInv'
BY DEF FileInv, Appending, InCall

LEMMA FileRests ==
  ASSUME StoreInv', pc' \in {"idle", "unmapped"} \/ Resizing',
         Written(values', appendOffset', appendOffset', Current', Current', maybe')
  PROVE  FileInv'
<1>1. Appending' /\ pc' \notin {"append", "store", "count"}
  BY DEF Appending, InCall, Resizing, BuildPcs
<1> QED  BY <1>1 DEF FileInv

LEMMA FileClosed ==
  ASSUME StoreInv, StoreInv', FileInv, pc' = "closed",
         \/ values' = values
         \/ pc = "append" /\ \E cells \in Cut(InHand) : values' = Overwrite(values, next, cells),
         Unacknowledged \/ (UNCHANGED <<acked, maybe>> /\ ~InCall)
  PROVE  FileInv'
<1>0. call.batch \in Seq(Entry) /\ Len(values) \in Nat  BY DEF StoreInv, Typed, CallTyped, FilesTyped
<1>1. ~Appending'  BY DEF Appending, InCall, Resizing, BuildPcs
<1>2. ASSUME NEW o \in Obj, NEW m \in Nat
      PROVE  /\ \A v \in Allowed(call.batch, m, Current)[o] : v \in Current'[o]
             /\ \A v \in Current[o] : v \in Current'[o]
             /\ \A v \in maybe[o] : v \in Current'[o]
  <2>1. \A v \in maybe[o] : v \in Current[o]  BY DEF Current
  <2>2. CASE Unacknowledged  BY <1>0, <2>1, <2>2, AllowedCut
  <2>3. CASE UNCHANGED <<acked, maybe>> /\ ~InCall
    <3>1. call.batch = <<>>  BY <2>3 DEF StoreInv, Typed, CallTyped, NoCall
    <3>2. Before(call.batch, o, m) = {}  BY <3>1 DEF Before
    <3>3. Allowed(call.batch, m, Current)[o] = Current[o]  BY <3>2 DEF Allowed
    <3>4. Current' = Current  BY <2>3 DEF Current
    <3> QED  BY <2>1, <3>3, <3>4
  <2> QED  BY <2>2, <2>3
<1>3. CASE Appending
  <2>1. PICK e \in appendOffset .. Len(values), m \in Nat :
          /\ Written(values, appendOffset, e, Current, Allowed(call.batch, m, Current), maybe)
          /\ pc = "append" => e = next
    BY <1>3, CallWritten
  <2>2. PICK n : n = appendOffset  OBVIOUS
  <2>3. values \in Seq(Cell) /\ n \in 1 .. Len(values)  BY <1>3, <2>2, CallWritten
  <2>4. /\ values' \in Seq(Cell) /\ Len(values') \in Nat /\ Len(values') >= Len(values)
        /\ Written(values', n, e, Current, Allowed(call.batch, m, Current), maybe)
    <3>1. CASE values' = values  BY <1>0, <2>1, <2>2, <2>3, <3>1
    <3>2. CASE pc = "append" /\ \E cells \in Cut(InHand) : values' = Overwrite(values, next, cells)
      <4>1. PICK cells \in Cut(InHand) : values' = Overwrite(values, e, cells)  BY <2>1, <3>2
      <4>2. InHand \in Entry  BY <3>2, AppendPlace
      <4>3. PICK x \in Entry : x = InHand  BY <4>2
      <4>4. cells \in Cut(x) /\ Written(values, n, e, Current, Allowed(call.batch, m, Current), maybe)
            /\ e \in n .. Len(values)
        BY <2>1, <2>2, <4>3
      <4>5. values' \in Seq(Cell) /\ Len(values') >= Len(values)
            /\ Written(values', n, e, Current, Allowed(call.batch, m, Current), maybe)
        BY <2>3, <4>1, <4>4, CutWritten
      <4> QED  BY <4>5
    <3> QED  BY <3>1, <3>2
  <2>5. n \in 1 .. Len(values') /\ e \in n .. Len(values')  BY <1>0, <2>1, <2>2, <2>3, <2>4
  <2>6. ASSUME NEW o \in Obj, WholeTo(values', Len(values'))
        PROVE  Agrees(values', o, Len(values'), Current'[o])
    <3>1. /\ \A v \in Allowed(call.batch, m, Current)[o] : v \in Current'[o]
          /\ \A v \in maybe[o] : v \in Current'[o]
      BY <1>2
    <3>2. PICK f \in Seq(Cell) : f = values'  BY <2>4
    <3>3. n \in 1 .. Len(f) /\ e \in n .. Len(f) /\ WholeTo(f, Len(f))
          /\ Written(f, n, e, Current, Allowed(call.batch, m, Current), maybe)
      BY <2>4, <2>5, <2>6, <3>2
    <3>4. Agrees(f, o, Len(f), Current'[o])  BY <3>1, <3>3, Settles
    <3> QED  BY <3>2, <3>4
  <2> QED  BY <1>1, <2>6, FileSettled
<1>4. CASE ~Appending
  <2>1. values' = values  BY <1>4 DEF Appending, InCall
  <2>2. ~IsLegacy' => ~IsLegacy  BY <2>1 DEF IsLegacy
  <2>3. ASSUME ~IsLegacy', WholeTo(values', Len(values')), NEW o \in Obj
        PROVE  Agrees(values', o, Len(values'), Current'[o])
    <3>1. Agrees(values, o, Len(values), Current[o])  BY <1>4, <2>1, <2>2, <2>3 DEF FileInv
    <3>2. \A v \in Current[o] : v \in Current'[o]  BY <1>2
    <3> QED  BY <1>0, <2>1, <3>1, <3>2, AgreesKept
  <2> QED  BY <1>1, <2>3, FileSettled
<1> QED  BY <1>3, <1>4

LEMMA FileQuiet ==
  ASSUME StoreInv, FileInv, ~Appending, ~Appending', UNCHANGED <<values, acked, maybe>>
  PROVE  FileInv'
<1>1. Current' = Current  BY DEF Current
<1>2. IsLegacy' <=> IsLegacy  BY DEF IsLegacy
<1> QED  BY <1>1, <1>2, FileSettled DEF FileInv

LEMMA FileOpens ==
  ASSUME StoreInv, FileInv, OpenValueFile
  PROVE  FileInv'
<1>0. /\ pc = "closed" /\ UNCHANGED <<acked, maybe>>
      /\ \/ pc' = "migrate" /\ values' = values
         \/ pc' = "openIndex" /\ values' = IF values = <<>> THEN <<FileHeader>> ELSE values
  BY DEF OpenValueFile, history
<1>1. /\ pc = "closed" /\ pc' \in {"migrate", "openIndex"} /\ UNCHANGED <<acked, maybe>>
      /\ values' = values \/ (values = <<>> /\ values' = <<FileHeader>>)
  <2>1. PICK h : h = <<FileHeader>>  OBVIOUS
  <2>2. values' = values \/ values' = IF values = <<>> THEN h ELSE values  BY <1>0, <2>1
  <2>3. values' = values \/ (values = <<>> /\ values' = h)  BY ONLY <2>2
  <2> QED  BY <1>0, <2>1, <2>3
<1>2. ~Appending /\ ~Appending'  BY <1>1 DEF Appending, InCall, Resizing, BuildPcs
<1>3. CASE values' = values  BY <1>1, <1>2, <1>3, FileQuiet
<1>4. CASE values = <<>> /\ values' = <<FileHeader>>
  <2>1. ~IsLegacy /\ WholeTo(values, Len(values)) /\ Len(values) = 0  BY <1>4 DEF IsLegacy, WholeTo
  <2>2. Len(values') = 1 /\ values'[1] = FileHeader  BY <1>4
  <2>3. FileHeader.obj \notin Obj  BY ObjectAssumption DEF FileHeader
  <2>4. ASSUME NEW o \in Obj  PROVE Agrees(values', o, Len(values'), Current'[o])
    <3>1. Agrees(values, o, 0, Current[o])  BY <1>2, <2>1 DEF FileInv
    <3>2. NoVal \in Current[o]  BY <3>1 DEF Agrees
    <3>3. Current' = Current  BY <1>1 DEF Current
    <3>4. \A i \in 1 .. 1 : ~EndOfObj(values', i, o)  BY <2>2, <2>3 DEF EndOfObj, EndIn
    <3> QED  BY <2>2, <3>2, <3>3, <3>4 DEF Agrees
  <2> QED  BY <1>2, <2>4, FileSettled
<1> QED  BY <1>1, <1>3, <1>4

\* The open database appends from the end of the file.
LEMMA FileUse ==
  ASSUME StoreInv, StoreInv', NameInv, FileInv, UseIndex \/ ScanEnds
  PROVE  FileInv'
<1>1. /\ pc \in {"openIndex", "scan"} /\ pc' = "idle" /\ UNCHANGED <<values, acked, maybe>>
      /\ appendOffset' = Len(values)
  BY DEF UseIndex, ScanEnds, NameInv, disk, history
<1>2. ~Appending  BY <1>1 DEF Appending, InCall, Resizing, BuildPcs
<1>3. ~IsLegacy  BY <1>1, InUse DEF Stale
<1>4. WholeTo(values, Len(values)) => \A o \in Obj : Agrees(values, o, Len(values), Current[o])
  BY <1>2, <1>3 DEF FileInv
<1>5. PICK f \in Seq(Cell) : f = values  BY DEF StoreInv, Typed, FilesTyped
<1>6. Written(f, Len(f), Len(f), Current, Current, maybe)  BY <1>4, <1>5, Starts
<1>7. Current' = Current /\ maybe' = maybe  BY <1>1 DEF Current
<1>8. Written(values', appendOffset', appendOffset', Current', Current', maybe')
  BY <1>1, <1>5, <1>6, <1>7
<1> QED  BY <1>1, <1>8, FileRests

LEMMA FileBuild ==
  ASSUME StoreInv, StoreInv', FileInv, pc \in BuildPcs, pc' \in BuildPcs, build'.resume = build.resume,
         UNCHANGED <<values, appendOffset, acked, maybe>>
  PROVE  FileInv'
<1>1. Resizing' <=> Resizing  BY DEF Resizing
<1>2. Current' = Current  BY DEF Current
<1>3. CASE Resizing
  <2>1. Written(values', appendOffset', appendOffset', Current', Current', maybe')
    BY <1>2, <1>3 DEF FileInv
  <2> QED  BY <1>1, <1>3, <2>1, FileRests
<1>4. CASE ~Resizing
  <2>1. ~Appending /\ ~Appending'  BY <1>1, <1>4 DEF Appending, InCall, BuildPcs
  <2> QED  BY <2>1, FileQuiet
<1> QED  BY <1>3, <1>4

LEMMA FileBuilt ==
  ASSUME StoreInv, StoreInv', FileInv, Built
  PROVE  FileInv'
<1>1. /\ pc = "place" /\ pc' = build.resume /\ UNCHANGED <<values, appendOffset, call, acked, maybe>>
      /\ build.resume \in {"scan", "append"}
      /\ build.resume = "append" => next' = next
  BY DEF Built, BuildIndex, StoreInv, Typed, BuildTyped, BuildPcs
<1>2. CASE build.resume = "append"
  <2>1. Resizing  BY <1>1, <1>2 DEF Resizing, BuildPcs
  <2>2. call.entry = 1 /\ next = appendOffset  BY <2>1 DEF StoreInv, OffsetInv
  <2>3. Written(values, appendOffset, appendOffset, Current, Current, maybe)  BY <2>1 DEF FileInv
  <2>4. Allowed(call.batch, 1, Current) = Current  BY AllowedFirst, CallShape
  <2>5. Current' = Current  BY <1>1 DEF Current
  <2>6. Written(values', appendOffset', next', Current',
                Allowed(call'.batch, call'.entry, Current'), maybe')
    BY <1>1, <1>2, <2>2, <2>3, <2>4, <2>5
  <2>7. pc' = "append" /\ Appending' /\ ~Resizing'  BY <1>1, <1>2 DEF Appending, InCall, Resizing, BuildPcs
  <2> QED  BY <2>6, <2>7 DEF FileInv
<1>3. CASE build.resume = "scan"
  <2>1. ~Appending /\ ~Appending'  BY <1>1, <1>3 DEF Appending, InCall, Resizing, BuildPcs
  <2> QED  BY <1>1, <2>1, FileQuiet
<1> QED  BY <1>1, <1>2, <1>3

LEMMA FileCall ==
  ASSUME StoreInv, StoreInv', FileInv, PutStructs \/ PutUniqueStructs
  PROVE  FileInv'
<1>1. PICK b \in Batch \cup UniqueBatch, u \in BOOLEAN : CallWriteStructs(b, u)
  BY DEF PutStructs, PutUniqueStructs
<1>2. /\ pc = "idle" /\ call' = [batch |-> b, unique |-> u, entry |-> 1] /\ next' = appendOffset
      /\ UNCHANGED <<values, appendOffset, acked, maybe>>
      /\ \/ pc' = "append"
         \/ pc' = "double" /\ build' = [count |-> 2 * index.bucketCount,
                                        copy |-> Restrict(index.slot, Filled), resume |-> "append"]
  BY <1>1 DEF CallWriteStructs, StartResize, disk, history
<1>3. call'.batch = b /\ call'.entry = 1 /\ b \in Seq(Entry)  BY <1>2, ObjectAssumption
<1>4. Written(values, appendOffset, appendOffset, Current, Current, maybe)  BY <1>2 DEF FileInv
<1>5. Current' = Current  BY <1>2 DEF Current
<1>6. CASE pc' = "append"
  <2>1. Allowed(b, 1, Current) = Current  BY <1>3, AllowedFirst
  <2>2. Written(values', appendOffset', next', Current',
                Allowed(call'.batch, call'.entry, Current'), maybe')
    BY <1>2, <1>3, <1>4, <1>5, <2>1
  <2>3. Appending' /\ ~Resizing'  BY <1>6 DEF Appending, InCall, Resizing, BuildPcs
  <2> QED  BY <1>6, <2>2, <2>3 DEF FileInv
<1>7. CASE pc' = "double"
  <2>1. build'.resume = "append"  BY <1>2, <1>7
  <2>2. Resizing'  BY <1>7, <2>1 DEF Resizing, BuildPcs
  <2>3. Written(values', appendOffset', appendOffset', Current', Current', maybe')  BY <1>2, <1>4, <1>5
  <2> QED  BY <2>2, <2>3, FileRests
<1> QED  BY <1>2, <1>6, <1>7

LEMMA AppendLaid ==
  ASSUME StoreInv, pc = "append"
  PROVE  \/ call.entry = 1 /\ next = appendOffset
         \/ /\ call.entry > 1 /\ RecordIn(values, appendOffset, call.batch[1])
            /\ call.entry = 2 => next = appendOffset + RecordSize(call.batch[1])
<1>1. PICK f \in [1 .. call.entry -> 0 .. Len(values)] : Laid(f, call.entry) /\ next = f[call.entry]
  BY DEF StoreInv, OffsetInv
<1>2. call.entry \in Nat /\ call.entry >= 1  BY AppendPlace
<1>3. f[1] = appendOffset  BY <1>1 DEF Laid, LaidIn
<1>4. CASE call.entry = 1  BY <1>1, <1>3, <1>4
<1>5. CASE call.entry > 1
  <2>1. 1 \in 1 .. call.entry - 1 /\ 1 + 1 = 2  BY <1>2, <1>5
  <2>2. f[2] = appendOffset + RecordSize(call.batch[1]) /\ RecordIn(values, appendOffset, call.batch[1])
    BY <1>1, <1>3, <2>1 DEF Laid, LaidIn
  <2> QED  BY <1>1, <1>5, <2>2
<1> QED  BY <1>2, <1>4, <1>5

\* A call fails: at most its first record is whole, and behind appendOffset_.
LEMMA FileFails ==
  ASSUME StoreInv, StoreInv', InCall, Unacknowledged, pc' \in {"idle", "unmapped"},
         appendOffset' = appendOffset, NEW e \in appendOffset .. Len(values'), NEW m \in Nat,
         Written(values', appendOffset, e, Current, Allowed(call.batch, m, Current), maybe),
         \/ e = appendOffset
         \/ RecordIn(values', appendOffset, call.batch[1]) /\ e = appendOffset + RecordSize(call.batch[1])
  PROVE  FileInv'
<1>1. call.batch \in Seq(Entry) /\ call.batch # <<>>  BY DEF StoreInv, Typed, CallTyped
<1>2. \A o \in Obj : (\A v \in Current[o] : v \in Current'[o]) /\ (\A v \in maybe[o] : v \in maybe'[o])
  BY <1>1, AllowedCut
<1>3. PICK f \in Seq(Cell) : f = values'  BY DEF StoreInv, Typed, FilesTyped
<1>4. PICK n : n = appendOffset  OBVIOUS
<1>5. n \in 1 .. Len(f) /\ e \in n .. Len(f)
  <2>1. appendOffset' \in 0 .. Len(values') /\ appendOffset' > 0  BY DEF StoreInv, OffsetInv
  <2>2. Len(f) \in Nat  BY <1>3
  <2> QED  BY <1>3, <1>4, <2>1, <2>2
<1>6. \/ e = n
      \/ \E x \in Entry : RecordIn(f, n, x) /\ e = n + RecordSize(x) /\ x.val \in maybe'[x.obj]
  <2>1. CASE e = n  BY <2>1
  <2>2. CASE e # n
    <3>1. PICK x : x = call.batch[1]  OBVIOUS
    <3>2. x \in Entry /\ 1 \in DOMAIN call.batch  BY <1>1, <3>1
    <3>3. x.obj \in Obj /\ 1 \in Entries(x.obj)  BY <3>1, <3>2, EntryFields DEF Entries
    <3>4. x.val \in maybe'[x.obj]  BY <1>1, <3>1, <3>3, AllowedCut
    <3> QED  BY <1>3, <1>4, <2>2, <3>1, <3>2, <3>4
  <2> QED  BY <2>1, <2>2
<1>7. Written(f, n, e, Current, Allowed(call.batch, m, Current), maybe)  BY <1>3, <1>4
<1>8. Written(f, n, n, Current', Current', maybe')
  <2>1. PICK D : D = Current'  OBVIOUS
  <2>2. PICK N : N = maybe'  OBVIOUS
  <2>3. PICK A : A = Allowed(call.batch, m, Current)  OBVIOUS
  <2>4. /\ Written(f, n, e, Current, A, maybe)
        /\ \A o \in Obj : (\A v \in Current[o] : v \in D[o]) /\ (\A v \in maybe[o] : v \in N[o])
        /\ e = n \/ \E x \in Entry : RecordIn(f, n, x) /\ e = n + RecordSize(x) /\ x.val \in N[x.obj]
    BY <1>2, <1>6, <1>7, <2>1, <2>2, <2>3
  <2>5. Written(f, n, n, D, D, N)  BY <1>5, <2>4, FallsBack
  <2> QED  BY <2>1, <2>2, <2>5
<1> QED  BY <1>3, <1>4, <1>8, FileRests

LEMMA FileMapFails ==
  ASSUME StoreInv, StoreInv', FileInv, MapFails
  PROVE  FileInv'
<1>1. pc = "truncate" /\ values' = values  BY DEF MapFails
<1>2. CASE build.resume = "append"
  <2>1. pc' = "unmapped" /\ Unacknowledged /\ appendOffset' = appendOffset
    BY <1>2 DEF MapFails, WriteFails
  <2>2. Resizing /\ InCall  BY <1>1, <1>2 DEF Resizing, BuildPcs, InCall
  <2>3. Written(values', appendOffset, appendOffset, Current, Allowed(call.batch, 1, Current), maybe)
    BY <1>1, <2>2, AllowedFirst, CallShape DEF FileInv
  <2>4. appendOffset \in appendOffset .. Len(values')
    <3>1. appendOffset \in Nat /\ appendOffset <= Len(values) /\ Len(values) \in Nat
      BY DEF StoreInv, OffsetInv, Typed, FilesTyped
    <3> QED  BY <1>1, <3>1
  <2> QED  BY <2>1, <2>2, <2>3, <2>4, FileFails
<1>3. CASE build.resume # "append"
  <2>1. pc' = "closed" /\ UNCHANGED <<acked, maybe>>  BY <1>3 DEF MapFails, Closed
  <2>2. ~InCall  BY <1>1, <1>3 DEF InCall, Resizing
  <2> QED  BY <1>1, <2>1, <2>2, FileClosed
<1> QED  BY <1>2, <1>3

LEMMA FileAppendFails ==
  ASSUME SafeAppends, StoreInv, StoreInv', NameInv, FileInv, AppendFails
  PROVE  FileInv'
<1>1. /\ pc = "append" /\ "append" \in Faults /\ pc' = "idle" /\ Unacknowledged
      /\ appendOffset' = appendOffset
      /\ \E cells \in Cut(InHand) : values' = Overwrite(values, next, cells)
  BY DEF AppendFails, AfterCut, WriteFails
<1>2. /\ next \in 0 .. Len(values) /\ next >= appendOffset /\ appendOffset > 0
      /\ InCall /\ InHand \in Entry /\ call.entry \in 1 .. Len(call.batch) /\ values \in Seq(Cell)
  BY <1>1, AppendPlace
<1>3. appendOffset \in Nat /\ Len(values) \in Nat /\ call.batch \in Seq(Entry) /\ Len(call.batch) \in Nat
  BY <1>2, CallShape DEF StoreInv, OffsetInv
<1>4. PICK n \in 1 .. Len(values) : n = appendOffset  BY <1>2, <1>3
<1>5. PICK e \in n .. Len(values) : e = next  BY <1>2, <1>3, <1>4
<1>6. PICK A : A = Allowed(call.batch, call.entry, Current)  OBVIOUS
<1>7. Written(values, n, e, Current, A, maybe)  BY <1>1, <1>4, <1>5, <1>6 DEF FileInv
<1>8. PICK x \in Entry : x = InHand  BY <1>2
<1>9. PICK cells \in Cut(x) : values' = Overwrite(values, e, cells)  BY <1>1, <1>5, <1>8
<1>10. values' \in Seq(Cell) /\ Len(values') >= Len(values) /\ Written(values', n, e, Current, A, maybe)
  BY <1>2, <1>7, <1>9, CutWritten
<1>11. \A i \in 1 .. next : values'[i] = values[i]  BY <1>1, CutPlace
<1>12. Len(call.batch) <= 2
  <2>1. call.batch \in Batch \cup UniqueBatch  BY <1>2 DEF NameInv
  <2> QED  BY <1>1, <2>1 DEF SafeAppends
<1>13. \/ e = appendOffset
       \/ RecordIn(values', appendOffset, call.batch[1]) /\ e = appendOffset + RecordSize(call.batch[1])
  <2>1. CASE call.entry = 1 /\ next = appendOffset  BY <1>5, <2>1
  <2>2. CASE /\ call.entry > 1 /\ RecordIn(values, appendOffset, call.batch[1])
             /\ call.entry = 2 => next = appendOffset + RecordSize(call.batch[1])
    <3>1. call.entry = 2  BY <1>2, <1>3, <1>12, <2>2
    <3>2. next = appendOffset + RecordSize(call.batch[1])  BY <2>2, <3>1
    <3>3. PICK z : z = RecordSize(call.batch[1])  OBVIOUS
    <3>4. z \in Nat
      <4>1. call.batch[1] \in Entry  BY <1>2, <1>3
      <4> QED  BY <3>3, <4>1, EntryFields
    <3>5. \A i \in 1 .. z : appendOffset + i \in 1 .. next  BY <1>2, <1>3, <3>2, <3>3, <3>4
    <3>6. appendOffset + z <= Len(values')
      <4>1. Len(values') \in Nat  BY <1>10
      <4> QED  BY <1>2, <1>3, <1>10, <3>2, <3>3, <4>1
    <3>7. RecordIn(values', appendOffset, call.batch[1])
      BY <1>11, <2>2, <3>3, <3>5, <3>6 DEF RecordIn
    <3> QED  BY <1>5, <3>2, <3>7
  <2> QED  BY <1>1, <2>1, <2>2, AppendLaid
<1>14. e \in appendOffset .. Len(values')
  <2>1. Len(values') \in Nat  BY <1>10
  <2> QED  BY <1>3, <1>4, <1>5, <1>10, <2>1
<1>15. Written(values', appendOffset, e, Current, Allowed(call.batch, call.entry, Current), maybe)
  BY <1>4, <1>6, <1>10
<1>16. call.entry \in Nat  BY <1>2
<1> QED  BY <1>1, <1>2, <1>13, <1>14, <1>15, <1>16, FileFails

LEMMA FileFindFails ==
  ASSUME SafeErrors, StoreInv, StoreInv', NameInv, FileInv, FindFails
  PROVE  FileInv'
<1>1. /\ pc = "store" /\ call.entry <= Len(call.batch) /\ ~call.unique /\ FindErrs(InHand.obj)
      /\ pc' = "idle" /\ UNCHANGED <<values, appendOffset>> /\ Unacknowledged /\ InCall
  BY DEF FindFails, Storing, WriteFails, InCall
<1>2. Len(call.batch) = 1  BY <1>1, FindFailsFirst
<1>3. PICK f \in [1 .. Len(call.batch) + 1 -> 0 .. Len(values)] :
         /\ Laid(f, Len(call.batch) + 1)
         /\ Written(values, appendOffset, f[Len(call.batch) + 1], Current,
                    Allowed(call.batch, Len(call.batch) + 1, Current), maybe)
  BY <1>1 DEF FileInv
<1>4. Laid(f, 2) /\ Len(call.batch) + 1 = 2 /\ f \in [1 .. 2 -> 0 .. Len(values)]
  <2>1. Len(call.batch) + 1 = 2  BY <1>2
  <2> QED  BY <1>3, <2>1
<1>5. /\ f[1] = appendOffset /\ f[2] = f[1] + RecordSize(call.batch[1])
      /\ RecordIn(values, f[1], call.batch[1])
  <2>1. 1 \in 1 .. 2 - 1 /\ 1 + 1 = 2  OBVIOUS
  <2> QED  BY <1>4, <2>1 DEF Laid, LaidIn
<1>6. f[2] \in appendOffset .. Len(values')
  <2>1. call.batch[1] \in Entry  BY <1>2, CallShape
  <2>2. RecordSize(call.batch[1]) \in Nat  BY <2>1, EntryFields
  <2>3. f[2] \in 0 .. Len(values) /\ f[1] \in 0 .. Len(values) /\ Len(values) \in Nat
    BY <1>4 DEF StoreInv, Typed, FilesTyped
  <2> QED  BY <1>1, <1>5, <2>2, <2>3
<1>7. Written(values', appendOffset, f[2], Current, Allowed(call.batch, 2, Current), maybe)
  BY <1>1, <1>3, <1>4
<1>8. RecordIn(values', appendOffset, call.batch[1]) /\ f[2] = appendOffset + RecordSize(call.batch[1])
  BY <1>1, <1>5
<1> QED  BY <1>1, <1>6, <1>7, <1>8, FileFails

LEMMA FileAppend ==
  ASSUME StoreInv, StoreInv', FileInv, AppendRecord
  PROVE  FileInv'
<1>1. /\ pc = "append" /\ values' = Overwrite(values, next, Record(InHand))
      /\ \/ /\ call.entry < Len(call.batch) /\ call' = [call EXCEPT !.entry = @ + 1]
            /\ next' = next + RecordSize(InHand) /\ pc' = "append"
         \/ /\ ~(call.entry < Len(call.batch)) /\ call' = [call EXCEPT !.entry = 1]
            /\ next' = appendOffset /\ pc' = "store"
      /\ UNCHANGED <<appendOffset, acked, maybe>>
  BY DEF AppendRecord, history
<1>2. /\ next \in 0 .. Len(values) /\ next >= appendOffset /\ appendOffset > 0
      /\ InHand \in Entry /\ call.entry \in 1 .. Len(call.batch) /\ values \in Seq(Cell)
  BY <1>1, AppendPlace
<1>3. /\ appendOffset \in Nat /\ Len(values) \in Nat /\ call.batch \in Seq(Entry)
      /\ Len(call.batch) \in Nat /\ call.entry \in Nat
  BY <1>2, CallShape DEF StoreInv, OffsetInv
<1>4. call'.batch = call.batch
  <2>1. call = [batch |-> call.batch, unique |-> call.unique, entry |-> call.entry]  BY CallShape
  <2> QED  BY <1>1, <2>1
<1>5. PICK n \in 1 .. Len(values) : n = appendOffset  BY <1>2, <1>3
<1>6. PICK e \in n .. Len(values) : e = next  BY <1>2, <1>3, <1>5
<1>7. PICK A : A = Allowed(call.batch, call.entry, Current)  OBVIOUS
<1>8. PICK B : B = Allowed(call.batch, call.entry + 1, Current)  OBVIOUS
<1>9. PICK x \in Entry : x = InHand  BY <1>2
<1>10. Written(values, n, e, Current, A, maybe)  BY <1>1, <1>5, <1>6, <1>7 DEF FileInv
<1>11. B[x.obj] = {x.val} /\ \A o \in Obj : o # x.obj => B[o] = A[o]
  <2>1. x = call.batch[call.entry]  BY <1>9 DEF InHand
  <2>2. PICK b \in Seq(Entry) : b = call.batch  BY <1>3
  <2>3. PICK k \in 1 .. Len(b) : k = call.entry  BY <1>2, <2>2
  <2>4. PICK C : C = Current  OBVIOUS
  <2>5. PICK m : m = k + 1  OBVIOUS
  <2>6. A = Allowed(b, k, C) /\ B = Allowed(b, m, C) /\ x = b[k]
    BY <1>7, <1>8, <2>1, <2>2, <2>3, <2>4, <2>5
  <2>7. /\ Allowed(b, m, C)[b[k].obj] = {b[k].val}
        /\ \A o \in Obj : o # b[k].obj => Allowed(b, m, C)[o] = Allowed(b, k, C)[o]
    <3>1. k \in 1 .. Len(b)  BY <2>3
    <3> QED  BY ONLY SMTT(30), <2>5, <3>1, b \in Seq(Entry), AllowedNext
  <2> QED  BY <2>6, <2>7
<1>12. values' = Overwrite(values, e, Record(x))  BY <1>1, <1>6, <1>9
<1>13. Written(values', n, e + RecordSize(x), Current, B, maybe)
  BY <1>2, <1>10, <1>11, <1>12, RecordWritten
<1>14. Current' = Current  BY <1>1 DEF Current
<1>15. CASE call.entry < Len(call.batch)
  <2>1. /\ call' = [call EXCEPT !.entry = @ + 1] /\ next' = next + RecordSize(InHand) /\ pc' = "append"
    BY <1>1, <1>15
  <2>2. call'.entry = call.entry + 1
    <3>1. call = [batch |-> call.batch, unique |-> call.unique, entry |-> call.entry]  BY CallShape
    <3> QED  BY <2>1, <3>1
  <2>3. Written(values', appendOffset', next', Current',
                Allowed(call'.batch, call'.entry, Current'), maybe')
    BY <1>1, <1>4, <1>5, <1>6, <1>8, <1>9, <1>13, <1>14, <2>1, <2>2
  <2>4. Appending' /\ ~Resizing'  BY <2>1 DEF Appending, InCall, Resizing, BuildPcs
  <2> QED  BY <2>1, <2>3, <2>4 DEF FileInv
<1>16. CASE ~(call.entry < Len(call.batch))
  <2>1. /\ call' = [call EXCEPT !.entry = 1] /\ next' = appendOffset /\ pc' = "store"
    BY <1>1, <1>16
  <2>2. call'.entry = 1
    <3>1. call = [batch |-> call.batch, unique |-> call.unique, entry |-> call.entry]  BY CallShape
    <3> QED  BY <2>1, <3>1
  <2>3. call.entry = Len(call.batch)  BY <1>2, <1>3, <1>16
  <2>4. PICK k : k = call.entry  OBVIOUS
  <2>5. \E g \in [1 .. k + 1 -> 0 .. Len(values')] :
          /\ Laid(g, k + 1)' /\ g[1] = appendOffset /\ g[k] = next
          /\ g[k + 1] = next + RecordSize(InHand)
    BY <1>1, <1>4, <2>4, LaidExtends
  <2>6. PICK g \in [1 .. k + 1 -> 0 .. Len(values')] :
          /\ LaidIn(values', appendOffset', call'.batch, g, k + 1) /\ g[1] = appendOffset
          /\ g[k + 1] = next + RecordSize(InHand)
    BY <2>5 DEF Laid
  <2>7. Appending' /\ ~Resizing'  BY <2>1 DEF Appending, InCall, Resizing, BuildPcs
  <2>8. /\ g \in [1 .. k + 1 -> 0 .. Len(values')]
        /\ LaidIn(values', appendOffset', call'.batch, g, k + 1) /\ next' = g[call'.entry]
        /\ Written(values', appendOffset', g[k + 1], Current', Allowed(call'.batch, k + 1, Current'), maybe')
    <3>1. g[k + 1] = e + RecordSize(x) /\ Allowed(call'.batch, k + 1, Current') = B
      BY <1>4, <1>6, <1>8, <1>9, <1>14, <2>4, <2>6
    <3>2. appendOffset' = n /\ maybe' = maybe  BY <1>1, <1>5
    <3>3. Written(values', appendOffset', g[k + 1], Current', Allowed(call'.batch, k + 1, Current'), maybe')
      BY <1>13, <1>14, <3>1, <3>2
    <3> QED  BY <2>1, <2>2, <2>6, <3>3
  <2>9. Len(call'.batch) = k  BY <1>4, <2>3, <2>4
  <2> QED  BY <2>1, <2>7, <2>8, <2>9 DEF FileInv, Laid
<1> QED  BY <1>15, <1>16

LEMMA FileEntry ==
  ASSUME StoreInv, StoreInv', FileInv, StoreEntry \/ CountEntry
  PROVE  FileInv'
<1>1. /\ pc \in {"store", "count"} /\ pc' \in {"store", "count"} /\ call.entry <= Len(call.batch)
      /\ UNCHANGED <<values, appendOffset, acked, maybe>>
      /\ NextEntry \/ UNCHANGED <<call, next>>
  <2>1. CASE StoreEntry  BY <2>1 DEF StoreEntry, Storing, history
  <2>2. CASE CountEntry
    <3>1. call.entry <= Len(call.batch)  BY <2>2 DEF CountEntry, StoreInv, Typed, CallTyped, InCall
    <3> QED  BY <2>2, <3>1 DEF CountEntry, history
  <2> QED  BY <2>1, <2>2
<1>2. /\ call = [batch |-> call.batch, unique |-> call.unique, entry |-> call.entry]
      /\ call.batch \in Seq(Entry) /\ Len(call.batch) \in Nat /\ call.entry \in Nat
  BY CallShape
<1>3. call'.batch = call.batch
  <2>1. CASE NextEntry  BY <1>2, <2>1 DEF NextEntry
  <2>2. CASE UNCHANGED <<call, next>>  BY <2>2
  <2> QED  BY <1>1, <2>1, <2>2
<1>4. PICK k \in Nat : k = Len(call.batch)  BY <1>2
<1>5. PICK f \in [1 .. k + 1 -> 0 .. Len(values)] :
         /\ LaidIn(values, appendOffset, call.batch, f, k + 1) /\ next = f[call.entry]
         /\ Written(values, appendOffset, f[k + 1], Current, Allowed(call.batch, k + 1, Current), maybe)
  BY <1>1, <1>4 DEF FileInv, Laid
<1>6. next' = f[call'.entry]
  <2>1. CASE NextEntry
    <3>1. call'.entry = call.entry + 1 /\ next' = next + RecordSize(call.batch[call.entry])
      BY <1>2, <2>1 DEF NextEntry, InHand
    <3>2. call.entry \in 1 .. k + 1 - 1
      <4>1. call.entry >= 1  BY <1>1 DEF StoreInv, Typed, CallTyped, InCall
      <4> QED  BY <1>1, <1>2, <1>4, <4>1
    <3>3. f[call.entry + 1] = f[call.entry] + RecordSize(call.batch[call.entry])
      <4>1. PICK i \in 1 .. k + 1 - 1 : i = call.entry  BY <3>2
      <4>2. f[i + 1] = f[i] + RecordSize(call.batch[i])
        BY <1>5 DEF LaidIn
      <4> QED  BY ONLY <4>1, <4>2
    <3> QED  BY <1>5, <3>1, <3>3
  <2>2. CASE UNCHANGED <<call, next>>  BY <1>5, <2>2
  <2> QED  BY <1>1, <2>1, <2>2
<1>7. Current' = Current  BY <1>1 DEF Current
<1>8. /\ f \in [1 .. k + 1 -> 0 .. Len(values')]
      /\ LaidIn(values', appendOffset', call'.batch, f, k + 1) /\ next' = f[call'.entry]
      /\ Written(values', appendOffset', f[k + 1], Current', Allowed(call'.batch, k + 1, Current'), maybe')
  BY <1>1, <1>3, <1>5, <1>6, <1>7
<1>9. Len(call'.batch) = k  BY <1>3, <1>4
<1>10. Appending' /\ ~Resizing'  BY <1>1 DEF Appending, InCall, Resizing, BuildPcs
<1> QED  BY <1>1, <1>8, <1>9, <1>10 DEF FileInv, Laid

LEMMA FileFinish ==
  ASSUME StoreInv, StoreInv', FileInv, FinishWrite
  PROVE  FileInv'
<1>1. /\ pc = "store" /\ call.entry > Len(call.batch) /\ appendOffset' = next /\ pc' = "idle"
      /\ Acknowledged /\ values' = values /\ InCall
  BY DEF FinishWrite, EndOfBatch, disk, InCall
<1>2. /\ call.batch \in Seq(Entry) /\ Len(call.batch) \in Nat /\ call.batch # <<>>
      /\ call.entry \in 1 .. Len(call.batch) + 1
  BY <1>1, CallShape DEF StoreInv, Typed, CallTyped
<1>3. PICK k : k = Len(call.batch)  OBVIOUS
<1>4. k \in Nat /\ k > 0 /\ call.entry = k + 1  BY <1>1, <1>2, <1>3
<1>5. PICK f \in [1 .. k + 1 -> 0 .. Len(values)] :
         /\ LaidIn(values, appendOffset, call.batch, f, k + 1) /\ next = f[call.entry]
         /\ Written(values, appendOffset, f[k + 1], Current, Allowed(call.batch, k + 1, Current), maybe)
  BY <1>1, <1>3 DEF FileInv, Laid
<1>6. PICK x : x = call.batch[k]  OBVIOUS
<1>7. x \in Entry  BY <1>2, <1>3, <1>4, <1>6
<1>8. RecordSize(x) \in Nat /\ \A i \in 1 .. k : RecordSize(call.batch[i]) \in Nat
  <2>1. \A i \in 1 .. k : call.batch[i] \in Entry  BY <1>2, <1>3
  <2> QED  BY <1>7, <2>1, EntryFields
<1>9. RecordIn(values, f[k], x) /\ f[k + 1] = f[k] + RecordSize(x)
  <2>1. k \in 1 .. k + 1 - 1  BY <1>4
  <2> QED  BY <1>5, <1>6, <2>1 DEF LaidIn
<1>10. appendOffset \in Nat /\ appendOffset > 0 /\ Len(values) \in Nat /\ values \in Seq(Cell)
  BY <1>1 DEF StoreInv, OffsetInv, Typed, FilesTyped
<1>11. f[k] \in 0 .. Len(values) /\ f[k + 1] \in 0 .. Len(values)  BY <1>4, <1>5
<1>12. f[k] >= appendOffset
  <2>1. f[1] = appendOffset  BY <1>5 DEF LaidIn
  <2>2. CASE k = 1  BY <1>10, <2>1, <2>2
  <2>3. CASE k > 1
    <3>1. 1 \in 1 .. k + 1 /\ k \in 1 .. k + 1 /\ 1 < k /\ 1 \in 1 .. k  BY <1>4, <2>3
    <3>2. f[1] + RecordSize(call.batch[1]) <= f[k]  BY <1>5, <3>1 DEF LaidIn
    <3>3. RecordSize(call.batch[1]) \in Nat  BY <1>8, <3>1
    <3> QED  BY <1>10, <1>11, <2>1, <3>2, <3>3
  <2> QED  BY <1>4, <2>2, <2>3
<1>13. PICK g \in Seq(Cell) : g = values  BY <1>10
<1>14. PICK n \in 1 .. Len(g) : n = appendOffset  BY <1>10, <1>11, <1>12, <1>13
<1>15. PICK e \in n .. Len(g) : e = f[k + 1]  BY <1>8, <1>9, <1>10, <1>11, <1>12, <1>13, <1>14
<1>16. PICK s \in n .. e : s = f[k]  BY <1>8, <1>9, <1>10, <1>11, <1>12, <1>14, <1>15
<1>17. PICK A : A = Allowed(call.batch, k + 1, Current)  OBVIOUS
<1>18. PICK D : D = Current'  OBVIOUS
<1>19. PICK N : N = maybe'  OBVIOUS
<1>20. \A o \in Obj : D[o] = A[o]  BY <1>1, <1>2, <1>3, <1>17, <1>18, AllowedDone
<1>21. Written(g, n, e, Current, A, maybe)  BY <1>5, <1>13, <1>14, <1>15, <1>17
<1>22. RecordIn(g, s, x) /\ e = s + RecordSize(x)  BY <1>9, <1>13, <1>15, <1>16
<1>23. Written(g, e, e, D, D, N)  BY <1>7, <1>20, <1>21, <1>22, Finishes
<1>24. appendOffset' = e  BY <1>1, <1>4, <1>5, <1>15
<1> QED  BY <1>1, <1>13, <1>18, <1>19, <1>23, <1>24, FileRests

-----------------------------------------------------------------------------
(* The migration keeps the last record of every object.                    *)

LEMMA OldCells ==
  ASSUME NEW file \in Seq(Cell), OldFile(file), NEW s \in 2 .. Len(file), NEW l \in Nat,
         file[s].obj \in Obj, file[s].at = -2, l = ValLen[file[s].val], s + 1 + l <= Len(file)
  PROVE  /\ file[s] = [obj |-> file[s].obj, val |-> file[s].val, at |-> -2]
         /\ file[s + 1] = [obj |-> file[s].obj, val |-> file[s].val, at |-> -1]
         /\ \A k \in 1 .. l :
              file[s + 1 + k] = [obj |-> file[s].obj, val |-> file[s].val, at |-> k]
<1>1. file[s] \in Cell /\ Len(file) \in Nat  OBVIOUS
<1>2. file[s] = [obj |-> file[s].obj, val |-> file[s].val, at |-> file[s].at]
  BY <1>1 DEF Cell, FileHeader, LegacyHeader, Fragment
<1>3. PICK c : c = file[s]  OBVIOUS
<1> DEFINE Place(at) == IF at < 0 THEN at + 2 ELSE at + 1
           At == {-2, -1} \cup 1 .. ValLen[c.val]
<1>4. s - Place(c.at) = s  BY <1>3
<1>5. \A n \in At : (s - Place(c.at)) + Place(n) <= Len(file) =>
                      file[(s - Place(c.at)) + Place(n)] = [c EXCEPT !.at = n]
  BY <1>3 DEF OldFile
<1>6. \A n \in At : s + Place(n) <= Len(file) => file[s + Place(n)] = [c EXCEPT !.at = n]
  BY <1>4, <1>5
<1>7. \A n : [c EXCEPT !.at = n] = [obj |-> file[s].obj, val |-> file[s].val, at |-> n]
  BY <1>2, <1>3
<1>8. file[s + 1] = [obj |-> file[s].obj, val |-> file[s].val, at |-> -1]
  <2>1. -1 \in At /\ Place(-1) = 1 /\ s + 1 <= Len(file)  BY <1>1
  <2> QED  BY <1>6, <1>7, <2>1
<1>9. ASSUME NEW k \in 1 .. l
      PROVE  file[s + 1 + k] = [obj |-> file[s].obj, val |-> file[s].val, at |-> k]
  <2>1. k \in At /\ Place(k) = k + 1 /\ s + (k + 1) <= Len(file) /\ s + (k + 1) = s + 1 + k
    BY <1>1, <1>3
  <2>2. file[s + (k + 1)] = [c EXCEPT !.at = k]  BY <1>6, <2>1
  <2> QED  BY <1>7, <2>1, <2>2
<1> QED  BY <1>2, <1>8, <1>9

\* The record of p behind offset n of the old file is appended to the new file.
Copied(file, n, l, p, v, t, a, u) ==
  /\ l = ValLen[v] /\ n + 2 + l <= Len(file)
  /\ file[n + 1].obj = p /\ file[n + 1].val = v /\ file[n + 1].at = -2
  /\ \A i \in n + 2 .. n + 2 + l : file[i].at # -2
  /\ a = Len(t) /\ Len(u) = a + 1 + l /\ \A i \in 1 .. a : u[i] = t[i]
  /\ \A i \in a + 1 .. a + 1 + l : u[i].obj = p /\ u[i].val = v /\ u[i].at = i - a - 1

LEMMA RecordMigrates ==
  ASSUME NEW file \in Seq(Cell), NEW t \in Seq(Cell), NEW u \in Seq(Cell), NEW n \in Nat, NEW l \in Nat,
         NEW p \in Obj, NEW v \in Val, NEW a \in Nat, Copied(file, n, l, p, v, t, a, u),
         NEW o \in Obj, Migrated(file, t, o, n)
  PROVE  Migrated(file, u, o, n + 2 + l)
<1>0. /\ l = ValLen[v] /\ n + 2 + l <= Len(file)
      /\ file[n + 1].obj = p /\ file[n + 1].val = v /\ file[n + 1].at = -2
      /\ \A i \in n + 2 .. n + 2 + l : file[i].at # -2
      /\ a = Len(t) /\ Len(u) = a + 1 + l /\ \A i \in 1 .. a : u[i] = t[i]
      /\ \A i \in a + 1 .. a + 1 + l : u[i].obj = p /\ u[i].val = v /\ u[i].at = i - a - 1
  BY DEF Copied
<1> USE <1>0
<1>1. PICK m \in Nat : m = n + 2 + l  OBVIOUS
<1>2. PICK z \in Nat : z = a + 1 + l  OBVIOUS
<1>3. Len(u) = z  BY <1>2
<1>4. CASE o = p
  <2>y. PICK y \in Nat : y = n + 1  OBVIOUS
  <2>1. /\ y \in 1 .. m /\ OldHead(file, y, o) /\ file[y].val = v
        /\ \A k \in y + 1 .. m : ~OldHead(file, k, o)
    BY SMTT(30), <1>1, <1>4, <2>y DEF OldHead
  <2>2. z \in a + 1 .. a + 1 + l /\ z - a - 1 = l /\ z \in 1 .. z
    BY ONLY <1>2, a \in Nat, l \in Nat
  <2>3. u[z].obj = p /\ u[z].val = v /\ u[z].at = l  BY <2>2
  <2>4. EndOfObj(u, z, o)  BY <1>4, <2>3 DEF EndOfObj, EndIn
  <2>5. \A j \in z + 1 .. z : FALSE  OBVIOUS
  <2>6. IsLast(u, z, o, z)  BY <2>2, <2>4, <2>5 DEF IsLast
  <2>7. \E i \in 1 .. m, j \in 1 .. z :
          /\ OldHead(file, i, o) /\ \A k \in i + 1 .. m : ~OldHead(file, k, o)
          /\ IsLast(u, j, o, z) /\ u[j].val = file[i].val
    BY <2>1, <2>2, <2>3, <2>6, Zenon
  <2>8. Migrated(file, u, o, m)
    BY ONLY <1>3, <2>7, Zenon DEF Migrated
  <2> QED  BY <1>1, <2>8
<1>5. CASE o # p
  <2>1. \A i \in n + 1 .. m : ~OldHead(file, i, o)
    <3>1. \A i \in n + 1 .. m : i = n + 1 \/ i \in n + 2 .. n + 2 + l  BY <1>1
    <3> QED  BY <1>5, <3>1 DEF OldHead
  <2>2. \A j \in a + 1 .. z : ~EndOfObj(u, j, o)  BY <1>2, <1>5 DEF EndOfObj
  <2>3. \A j \in 1 .. a : EndOfObj(u, j, o) <=> EndOfObj(t, j, o)  BY DEF EndOfObj, EndIn
  <2>4. CASE /\ \A i \in 1 .. n : ~OldHead(file, i, o)
             /\ \A j \in 1 .. Len(t) : ~EndOfObj(t, j, o)
    <3>1. \A i \in 1 .. m : i \in 1 .. n \/ i \in n + 1 .. m  BY <1>1
    <3>2. \A j \in 1 .. z : j \in 1 .. a \/ j \in a + 1 .. z  BY <1>2
    <3>3. \A i \in 1 .. m : ~OldHead(file, i, o)  BY <2>1, <2>4, <3>1
    <3>4. \A j \in 1 .. z : ~EndOfObj(u, j, o)  BY <2>2, <2>3, <2>4, <3>2
    <3> QED  BY <1>1, <1>3, <3>3, <3>4 DEF Migrated
  <2>5. CASE \E i \in 1 .. n, j \in 1 .. Len(t) :
               /\ OldHead(file, i, o) /\ \A k \in i + 1 .. n : ~OldHead(file, k, o)
               /\ IsLast(t, j, o, Len(t)) /\ t[j].val = file[i].val
    <3>1. PICK i \in 1 .. n, j \in 1 .. a :
               /\ OldHead(file, i, o) /\ \A k \in i + 1 .. n : ~OldHead(file, k, o)
               /\ IsLast(t, j, o, a) /\ t[j].val = file[i].val
      BY <2>5
    <3>2. \A k \in i + 1 .. m : k \in i + 1 .. n \/ k \in n + 1 .. m  BY <1>1
    <3>3. \A k \in i + 1 .. m : ~OldHead(file, k, o)  BY <2>1, <3>1, <3>2
    <3>4. EndOfObj(t, j, o) /\ \A k \in j + 1 .. a : ~EndOfObj(t, k, o)  BY <3>1 DEF IsLast
    <3>5. \A k \in j + 1 .. z : (k \in 1 .. a /\ k \in j + 1 .. a) \/ k \in a + 1 .. z  BY <1>2
    <3>6. \A k \in j + 1 .. z : ~EndOfObj(u, k, o)  BY <2>2, <2>3, <3>4, <3>5
    <3>7. j \in 1 .. z /\ EndOfObj(u, j, o) /\ u[j] = t[j]  BY <1>2, <2>3, <3>4
    <3>8. IsLast(u, j, o, z)  BY <3>6, <3>7 DEF IsLast
    <3>9. i \in 1 .. m  BY SMTT(30), <1>1
    <3>10. \E y \in 1 .. m, x \in 1 .. z :
             /\ OldHead(file, y, o) /\ \A k \in y + 1 .. m : ~OldHead(file, k, o)
             /\ IsLast(u, x, o, z) /\ u[x].val = file[y].val
      BY <3>1, <3>3, <3>7, <3>8, <3>9
    <3> QED  BY <1>1, <1>3, <3>10 DEF Migrated
  <2> QED  BY <2>4, <2>5 DEF Migrated
<1> QED  BY <1>4, <1>5

LEMMA CopyMigrates ==
  ASSUME StoreInv, MigrateInv, CopyRecord
  PROVE  MigrateInv'
<1>1. /\ pc = "migrate" /\ next < Len(values) /\ CopyValid
      /\ temp' = temp \o <<[values[next + 1] EXCEPT !.at = 0]>>
                     \o SubSeq(values, next + 3, next + 2 + ValLenAt(next))
      /\ next' = next + 2 + ValLenAt(next) /\ UNCHANGED <<values, pc, acked, maybe>>
  BY DEF CopyRecord, history
<1>2. PICK n \in Nat : n = next  BY DEF StoreInv, OffsetInv
<1>3. PICK l \in Nat : l = ValLenAt(next)  BY <1>1, CopyRecordCells
<1>4. /\ values \in Seq(Cell) /\ temp \in Seq(Cell) /\ temp' \in Seq(Cell) /\ n > 0 /\ IsLegacy
      /\ OldFile(values)
  <2>1. n > 0 /\ IsLegacy /\ values \in Seq(Cell) /\ temp \in Seq(Cell)
    BY <1>1, <1>2 DEF StoreInv, OffsetInv, HeaderInv, Typed, FilesTyped
  <2> QED  BY <1>1, <2>1, CopyRecordCells DEF MigrateInv
<1>5. PICK a \in Nat : a = Len(temp)  BY <1>4
<1>6. /\ Len(temp') = a + 1 + l /\ \A i \in 1 .. a : temp'[i] = temp[i]
      /\ temp'[a + 1] = [values[n + 1] EXCEPT !.at = 0]
      /\ \A i \in 1 .. l : temp'[a + 1 + i] = values[n + 2 + i]
  BY <1>1, <1>2, <1>3, <1>5, CopyRecordCells
<1>7. /\ n + 1 \in 2 .. Len(values) /\ values[n + 1].obj \in Obj /\ values[n + 1].at = -2
      /\ l = ValLen[values[n + 1].val] /\ n + 2 + l <= Len(values)
  <2>1. HeadAt(n, -2) /\ n + 2 + l <= Len(values)
    BY <1>1, <1>2, <1>3 DEF CopyValid, IsValidLegacyRecordHeader
  <2>2. n + 1 \in DOMAIN values /\ values[n + 1].obj \in Obj /\ values[n + 1].at = -2
    BY <2>1 DEF HeadAt
  <2>3. n + 1 \in 2 .. Len(values)  BY <1>4, <2>2
  <2>4. l = ValLen[values[n + 1].val]  BY <1>2, <1>3 DEF ValLenAt
  <2> QED  BY <2>1, <2>2, <2>3, <2>4
<1>8. PICK s \in 2 .. Len(values) : s = n + 1  BY <1>7
<1>9. PICK p \in Obj : p = values[n + 1].obj  BY <1>7
<1>10. PICK v \in Val : v = values[n + 1].val
  <2>1. values[n + 1] \in Cell  BY <1>4, <1>7
  <2> QED  BY <1>7, <2>1, CellFields
<1>11. /\ values[s] = [obj |-> p, val |-> v, at |-> -2]
       /\ values[s + 1] = [obj |-> p, val |-> v, at |-> -1]
       /\ \A k \in 1 .. l : values[s + 1 + k] = [obj |-> p, val |-> v, at |-> k]
  <2>1. values[s].obj = p /\ values[s].val = v /\ s + 1 + l <= Len(values)
        /\ values[s].at = -2 /\ l = ValLen[values[s].val]
    BY <1>7, <1>8, <1>9, <1>10
  <2>2. /\ values \in Seq(Cell) /\ OldFile(values) /\ s \in 2 .. Len(values) /\ l \in Nat
        /\ values[s].obj \in Obj /\ values[s].at = -2 /\ l = ValLen[values[s].val]
        /\ s + 1 + l <= Len(values)
    BY <1>4, <2>1
  <2>3. /\ values[s] = [obj |-> values[s].obj, val |-> values[s].val, at |-> -2]
        /\ values[s + 1] = [obj |-> values[s].obj, val |-> values[s].val, at |-> -1]
        /\ \A k \in 1 .. l :
             values[s + 1 + k] = [obj |-> values[s].obj, val |-> values[s].val, at |-> k]
    BY ONLY <2>2, OldCells
  <2> QED  BY ONLY <2>1, <2>3
<1>12. \A k \in 1 .. l : values[n + 2 + k] = [obj |-> p, val |-> v, at |-> k]
  <2>1. \A k \in 1 .. l : n + 2 + k = s + 1 + k  BY <1>8
  <2> QED  BY <1>11, <2>1
<1>13. \A i \in n + 2 .. n + 2 + l : values[i].at # -2
  <2> SUFFICES ASSUME NEW i \in n + 2 .. n + 2 + l  PROVE values[i].at # -2  OBVIOUS
  <2>1. CASE i = n + 2
    <3>1. i = s + 1  BY <1>8, <2>1
    <3> QED  BY <1>11, <3>1
  <2>2. CASE i # n + 2
    <3>1. PICK k \in 1 .. l : i = n + 2 + k
      <4>1. PICK k \in Int : k = i - n - 2  OBVIOUS
      <4>2. k \in 1 .. l /\ i = n + 2 + k
        BY ONLY <2>2, <4>1, n \in Nat, l \in Nat, i \in n + 2 .. n + 2 + l
      <4> QED  BY <4>2
    <3>2. values[i] = [obj |-> p, val |-> v, at |-> k]  BY <1>12, <3>1
    <3> QED  BY ONLY <3>2, k \in 1 .. l, l \in Nat
  <2> QED  BY <2>1, <2>2
<1>14. \A i \in a + 1 .. a + 1 + l :
         temp'[i].obj = p /\ temp'[i].val = v /\ temp'[i].at = i - a - 1
  <2> SUFFICES ASSUME NEW i \in a + 1 .. a + 1 + l
               PROVE  temp'[i].obj = p /\ temp'[i].val = v /\ temp'[i].at = i - a - 1
    OBVIOUS
  <2>1. CASE i = a + 1
    <3>1. temp'[i] = [values[s] EXCEPT !.at = 0]  BY <1>6, <1>8, <2>1
    <3>a. values[s] = [obj |-> p, val |-> v, at |-> -2]  BY <1>11
    <3>2. temp'[i] = [obj |-> p, val |-> v, at |-> 0]  BY ONLY <3>1, <3>a
    <3>3. i - a - 1 = 0  BY <2>1
    <3> QED  BY <3>2, <3>3
  <2>2. CASE i # a + 1
    <3>1. PICK k \in 1 .. l : i = a + 1 + k
      <4>1. PICK k \in Int : k = i - a - 1  OBVIOUS
      <4>2. k \in 1 .. l /\ i = a + 1 + k
        BY ONLY <2>2, <4>1, a \in Nat, l \in Nat, i \in a + 1 .. a + 1 + l
      <4> QED  BY <4>2
    <3>2. temp'[i] = [obj |-> p, val |-> v, at |-> k]  BY <1>6, <1>12, <3>1
    <3>3. i - a - 1 = k  BY <3>1
    <3> QED  BY <3>2, <3>3
  <2> QED  BY <2>1, <2>2
<1>15. \A o \in Obj : Migrated(values, temp', o, n + 2 + l)
  <2>1. \A o \in Obj : Migrated(values, temp, o, n)  BY <1>1, <1>2 DEF MigrateInv
  <2>2. values[n + 1].obj = p /\ values[n + 1].val = v /\ values[n + 1].at = -2 /\ l = ValLen[v]
    BY <1>7, <1>9, <1>10
  <2>3. PICK u \in Seq(Cell) : u = temp'  BY <1>4
  <2>4. /\ Len(u) = a + 1 + l /\ \A i \in 1 .. a : u[i] = temp[i]
        /\ \A i \in a + 1 .. a + 1 + l : u[i].obj = p /\ u[i].val = v /\ u[i].at = i - a - 1
    BY <1>6, <1>14, <2>3
  <2>5. ASSUME NEW o \in Obj  PROVE Migrated(values, u, o, n + 2 + l)
    <3>1. Migrated(values, temp, o, n)  BY <2>1
    <3>2. values \in Seq(Cell) /\ temp \in Seq(Cell) /\ n + 2 + l <= Len(values)  BY <1>4, <1>7
    <3>3. Copied(values, n, l, p, v, temp, a, u)  BY <1>5, <1>13, <2>2, <2>4, <3>2 DEF Copied
    <3> QED  BY <3>1, <3>2, <3>3, RecordMigrates
  <2> QED  BY <2>3, <2>5
<1>16. next' = n + 2 + l /\ next' <= Len(values')  BY <1>1, <1>2, <1>3, <1>7
<1>17. \A o \in Obj : Migrated(values, temp, o, next)'
  BY <1>1, <1>15, <1>16
<1>18. (IsLegacy => /\ OldFile(values)
                    /\ acked = [o \in Obj |-> LegacyVal(values, o)]
                    /\ maybe = [o \in Obj |-> {}])'
  <2>1. IsLegacy' = IsLegacy /\ OldFile(values)' = OldFile(values)
    BY <1>1 DEF IsLegacy, OldFile
  <2>2. ([o \in Obj |-> LegacyVal(values, o)])' = [o \in Obj |-> LegacyVal(values, o)]
    BY <1>1 DEF LegacyVal
  <2> QED  BY <1>1, <2>1, <2>2, Zenon DEF MigrateInv
<1> QED  BY <1>16, <1>17, <1>18 DEF MigrateInv

LEMMA LegacyKept ==
  ASSUME MigrateInv, IsLegacy' => IsLegacy /\ UNCHANGED <<values, acked, maybe>>
  PROVE  (IsLegacy => /\ OldFile(values)
                      /\ acked = [o \in Obj |-> LegacyVal(values, o)]
                      /\ maybe = [o \in Obj |-> {}])'
<1> SUFFICES ASSUME IsLegacy'
             PROVE  (/\ OldFile(values)
                     /\ acked = [o \in Obj |-> LegacyVal(values, o)]
                     /\ maybe = [o \in Obj |-> {}])'
  OBVIOUS
<1>1. IsLegacy /\ UNCHANGED <<values, acked, maybe>>  OBVIOUS
<1>2. OldFile(values)' = OldFile(values)  BY <1>1 DEF OldFile
<1>3. ([o \in Obj |-> LegacyVal(values, o)])' = [o \in Obj |-> LegacyVal(values, o)]
  BY <1>1 DEF LegacyVal
<1> QED  BY <1>1, <1>2, <1>3, Zenon DEF MigrateInv

LEMMA OpenMigrates ==
  ASSUME StoreInv, StoreInv', MigrateInv, OpenValueFile
  PROVE  MigrateInv'
<1>1. UNCHANGED <<acked, maybe>>  BY DEF OpenValueFile, history
<1>2. CASE ~IsLegacy
  <2>1. pc' = "openIndex"  BY <1>2 DEF OpenValueFile
  <2>2. ~IsLegacy'
    <3>1. values'[1] = FileHeader  BY <2>1 DEF StoreInv, HeaderInv
    <3> QED  BY <3>1 DEF IsLegacy, FileHeader, LegacyHeader
  <2> QED  BY <2>1, <2>2 DEF MigrateInv
<1>3. CASE IsLegacy
  <2>1. /\ pc' = "migrate" /\ temp' = <<FileHeader>> /\ next' = 1 /\ values' = values
    BY <1>3 DEF OpenValueFile
  <2>2. values \in Seq(Cell) /\ values # <<>> /\ values[1] = LegacyHeader
    BY <1>3 DEF IsLegacy, StoreInv, Typed, FilesTyped
  <2>3. 1 <= Len(values)  BY <2>2
  <2>4. NoObj \notin Obj  BY ObjectAssumption
  <2>5. PICK t : t = <<FileHeader>>  OBVIOUS
  <2>6. Len(t) = 1 /\ t[1].obj = NoObj  BY <2>5 DEF FileHeader
  <2>7. ASSUME NEW o \in Obj  PROVE Migrated(values, t, o, 1)
    <3>1. \A i \in 1 .. 1 : ~OldHead(values, i, o)  BY <2>2, <2>4 DEF OldHead, LegacyHeader
    <3>2. \A j \in 1 .. Len(t) : ~EndOfObj(t, j, o)  BY <2>4, <2>6 DEF EndOfObj
    <3> QED  BY <3>1, <3>2 DEF Migrated
  <2>8. next' <= Len(values') /\ \A o \in Obj : Migrated(values, temp, o, next)'
    BY <2>1, <2>3, <2>5, <2>7 DEF Migrated, OldHead, IsLast, EndOfObj, EndIn
  <2>9. IsLegacy' => IsLegacy /\ UNCHANGED <<values, acked, maybe>>  BY <1>1, <1>3, <2>1
  <2> QED  BY <2>8, <2>9, LegacyKept DEF MigrateInv
<1> QED  BY <1>2, <1>3

LEMMA LegacyStays ==
  ASSUME StoreInv, StoreInv', MigrateInv, pc' = "closed", values' = values,
         Unacknowledged \/ UNCHANGED <<acked, maybe>>
  PROVE  MigrateInv'
<1>1. ASSUME IsLegacy'  PROVE IsLegacy /\ UNCHANGED <<values, acked, maybe>>
  <2>1. IsLegacy  BY <1>1 DEF IsLegacy
  <2>2. pc \in {"closed", "migrate"}
    BY <2>1 DEF IsLegacy, StoreInv, HeaderInv, FileHeader, LegacyHeader
  <2>3. call = NoCall /\ maybe \in [Obj -> SUBSET Val]
    BY <2>2 DEF StoreInv, Typed, CallTyped, InCall, Resizing, BuildPcs, HistoryTyped
  <2>4. Unacknowledged => UNCHANGED <<acked, maybe>>
    <3>1. \A o \in Obj : Entries(o) = {}  BY <2>3 DEF Entries, NoCall
    <3>2. \A o \in Obj : maybe[o] \cup {call.batch[i].val : i \in Entries(o)} = maybe[o]  BY <3>1
    <3> QED  BY <2>3, <3>2 DEF Unacknowledged
  <2> QED  BY <2>1, <2>4
<1>2. pc' # "migrate"  OBVIOUS
<1> QED  BY <1>1, <1>2, LegacyKept, Zenon DEF MigrateInv

LEMMA NoLegacy ==
  ASSUME StoreInv', MigrateInv, pc' # "migrate",
         pc' # "closed" \/ (values' # <<>> /\ values'[1] = FileHeader)
  PROVE  MigrateInv'
<1>1. ~IsLegacy'
  <2>1. values'[1] = FileHeader
    BY DEF StoreInv, HeaderInv
  <2> QED  BY <2>1 DEF IsLegacy, FileHeader, LegacyHeader
<1> QED  BY <1>1 DEF MigrateInv

LEMMA CrashMigrates ==
  ASSUME StoreInv, StoreInv', MigrateInv, Crash
  PROVE  MigrateInv'
<1>1. pc' = "closed" /\ Unacknowledged  BY DEF Crash, Closed
<1>2. CASE values' = values  BY <1>1, <1>2, LegacyStays
<1>3. CASE pc = "append" /\ \E cells \in Cut(InHand) : values' = Overwrite(values, next, cells)
  <2>1. PICK cells \in Cut(InHand) : values' = Overwrite(values, next, cells)  BY <1>3
  <2>2. values' # <<>> /\ values'[1] = FileHeader  BY <1>3, <2>1, CutPlace
  <2> QED  BY <1>1, <2>2, NoLegacy
<1> QED  BY <1>2, <1>3 DEF Crash

LEMMA NextMigrate ==
  ASSUME StoreInv, StoreInv', MigrateInv, [Next]_vars
  PROVE  MigrateInv'
<1>1. CASE \/ RenameMigrated \/ RemoveStaleIndex \/ UseIndex \/ StartRebuild
           \/ Truncate \/ Zero \/ StoreHeader \/ PlaceExistingBucket \/ CountPlaced
  <2>1. pc' \notin {"migrate", "closed"}
    BY <1>1 DEF RenameMigrated, RemoveStaleIndex, UseIndex, StartRebuild, Truncate, Zero, StoreHeader,
                PlaceExistingBucket, CountPlaced, BuildIndex
  <2> QED  BY <2>1, NoLegacy
<1>2. CASE \/ EnsureCapacityForInsert \/ ScanGrows \/ ScanRecord \/ CountScanned \/ ScanEnds
           \/ PutStructs \/ PutUniqueStructs
  <2>1. pc' \notin {"migrate", "closed"}
    BY <1>2 DEF EnsureCapacityForInsert, ScanGrows, StartResize, ScanRecord, Scanning, CountScanned, ScanEnds,
                PutStructs, PutUniqueStructs, CallWriteStructs
  <2> QED  BY <2>1, NoLegacy
<1>3. CASE Built
  <2>1. pc' = build.resume /\ pc = "place"  BY <1>3 DEF Built, BuildIndex
  <2>2. pc' \in {"scan", "append"}  BY <2>1 DEF StoreInv, Typed, BuildTyped, BuildPcs
  <2> QED  BY <2>2, NoLegacy
<1>4. CASE AppendRecord \/ AppendFails \/ StoreEntry \/ CountEntry \/ FindFails \/ FinishWrite
  <2>1. pc' \notin {"migrate", "closed"}
    BY <1>4 DEF AppendRecord, AppendFails, AfterCut, WriteFails, StoreEntry, Storing, CountEntry,
                FindFails, FinishWrite
  <2> QED  BY <2>1, NoLegacy
<1>5. CASE CopyFails \/ ScanFails \/ UseUnmapped \/ Close
  <2>1. pc' = "closed" /\ values' = values /\ UNCHANGED <<acked, maybe>>
    BY <1>5 DEF CopyFails, ScanFails, UseUnmapped, Close, Closed, disk, history
  <2> QED  BY <2>1, LegacyStays
<1>6. CASE MapFails
  <2>1. CASE build.resume = "append"
    <3>1. pc' = "unmapped"  BY <1>6, <2>1 DEF MapFails, WriteFails
    <3> QED  BY <3>1, NoLegacy
  <2>2. CASE build.resume # "append"
    <3>1. pc' = "closed" /\ values' = values /\ UNCHANGED <<acked, maybe>>
      BY <1>6, <2>2 DEF MapFails, Closed
    <3> QED  BY <3>1, LegacyStays
  <2> QED  BY <2>1, <2>2
<1>7. CASE OpenReadOnly \/ DeleteIndex
  <2>1. pc' \in {"closed", "readonly"} /\ values' = values /\ UNCHANGED <<acked, maybe>>
    BY <1>7 DEF OpenReadOnly, DeleteIndex, disk, history
  <2> QED  BY <2>1, LegacyStays, NoLegacy
<1>8. CASE UNCHANGED vars
  <2>1. UNCHANGED <<values, temp, pc, next, acked, maybe>>
    BY <1>8 DEF vars, disk, locals, history
  <2>2. IsLegacy' => IsLegacy /\ UNCHANGED <<values, acked, maybe>>  BY <2>1 DEF IsLegacy
  <2>3. (pc = "migrate" => next <= Len(values) /\ \A o \in Obj : Migrated(values, temp, o, next))'
    BY <2>1 DEF MigrateInv, Migrated, OldHead, IsLast, EndOfObj, EndIn
  <2> QED  BY <2>2, <2>3, LegacyKept DEF MigrateInv
<1> QED
  BY <1>1, <1>2, <1>3, <1>4, <1>5, <1>6, <1>7, <1>8, CopyMigrates, OpenMigrates, CrashMigrates,
     Zenon DEF Next

LEMMA InitMigrate == Init => MigrateInv
<1> SUFFICES ASSUME Init  PROVE MigrateInv  OBVIOUS
<1>1. PICK f \in InitialFiles : values = f.values  BY DEF Init
<1>2. (values = <<>>) \/ OldFile(values)  BY <1>1, FilesAssumption
<1> QED  BY <1>2 DEF Init, MigrateInv, IsLegacy

\* The new file holds what the old one held.
LEMMA FileRename ==
  ASSUME StoreInv, MigrateInv, RenameMigrated
  PROVE  FileInv'
<1>1. /\ pc = "migrate" /\ next >= Len(values) /\ values' = temp /\ pc' = "removeIndex"
      /\ UNCHANGED <<acked, maybe>>
  BY DEF RenameMigrated, history
<1>2. IsLegacy /\ next = Len(values) /\ values \in Seq(Cell) /\ Len(values) \in Nat
  BY <1>1 DEF StoreInv, HeaderInv, OffsetInv, Typed, FilesTyped, MigrateInv
<1>3. acked = [o \in Obj |-> LegacyVal(values, o)]  BY <1>2 DEF MigrateInv
<1>4. ASSUME NEW o \in Obj  PROVE Agrees(temp, o, Len(temp), Current[o])
  <2>1. Migrated(values, temp, o, Len(values))  BY <1>1, <1>2 DEF MigrateInv
  <2>2. acked[o] \in Current[o] /\ acked[o] = LegacyVal(values, o)  BY <1>3 DEF Current
  <2> DEFINE Of == {i \in DOMAIN values : values[i].obj = o /\ values[i].at = -2}
  <2>3. Of \in SUBSET (0 .. Len(values)) /\ \A i \in Of : i \in 1 .. Len(values) /\ OldHead(values, i, o)
    BY <1>2 DEF OldHead
  <2>4. \A i \in 1 .. Len(values) : OldHead(values, i, o) => i \in Of  BY <1>2 DEF OldHead
  <2>5. LegacyVal(values, o) = IF Of = {} THEN NoVal ELSE values[Max(Of)].val  BY DEF LegacyVal
  <2> HIDE DEF Of
  <2>6. CASE /\ \A i \in 1 .. Len(values) : ~OldHead(values, i, o)
             /\ \A j \in 1 .. Len(temp) : ~EndOfObj(temp, j, o)
    <3>1. Of = {}  BY <2>3, <2>6
    <3>2. NoVal \in Current[o]  BY <2>2, <2>5, <3>1
    <3> QED  BY <2>6, <3>2 DEF Agrees
  <2>7. CASE \E i \in 1 .. Len(values), j \in 1 .. Len(temp) :
               /\ OldHead(values, i, o) /\ \A k \in i + 1 .. Len(values) : ~OldHead(values, k, o)
               /\ IsLast(temp, j, o, Len(temp)) /\ temp[j].val = values[i].val
    <3>1. PICK i \in 1 .. Len(values), j \in 1 .. Len(temp) :
               /\ OldHead(values, i, o) /\ \A k \in i + 1 .. Len(values) : ~OldHead(values, k, o)
               /\ IsLast(temp, j, o, Len(temp)) /\ temp[j].val = values[i].val
      BY <2>7
    <3>2. i \in Of  BY <2>4, <3>1
    <3>3. Max(Of) \in Of /\ \A y \in Of : y <= Max(Of)  BY <1>2, <2>3, <3>2, MaxOfBounded
    <3>4. Max(Of) = i
      <4>1. PICK m \in 1 .. Len(values) : m = Max(Of) /\ OldHead(values, m, o)  BY <2>3, <3>3
      <4>2. i <= m  BY <3>2, <3>3, <4>1
      <4>3. ~(m \in i + 1 .. Len(values))  BY <3>1, <4>1
      <4> QED  BY <1>2, <4>1, <4>2, <4>3
    <3>5. temp[j].val \in Current[o]  BY <2>2, <2>5, <3>1, <3>2, <3>4
    <3> QED  BY <3>1, <3>5 DEF Agrees
  <2> QED  BY <2>1, <2>6, <2>7 DEF Migrated
<1>5. ~Appending'  BY <1>1 DEF Appending, InCall, Resizing, BuildPcs
<1>6. \A o \in Obj : Agrees(values', o, Len(values'), Current'[o])
  <2>1. Current' = Current  BY <1>1 DEF Current
  <2> QED  BY <1>1, <1>4, <2>1
<1> QED  BY <1>5, <1>6, FileSettled

LEMMA FileScans ==
  ASSUME StoreInv, StoreInv', FileInv,
         \/ CopyRecord \/ RemoveStaleIndex \/ StartRebuild \/ OpenReadOnly \/ DeleteIndex
         \/ ScanGrows \/ ScanRecord \/ CountScanned
  PROVE  FileInv'
<1>1. UNCHANGED <<values, acked, maybe>>
  BY DEF CopyRecord, RemoveStaleIndex, StartRebuild, OpenReadOnly, DeleteIndex, ScanGrows, ScanRecord,
         CountScanned, disk, history
<1>2. ~Appending
  BY DEF CopyRecord, RemoveStaleIndex, StartRebuild, OpenReadOnly, DeleteIndex, ScanGrows, ScanRecord,
         Scanning, CountScanned, Appending, InCall, Resizing, BuildPcs
<1>3. CASE CopyRecord \/ RemoveStaleIndex \/ OpenReadOnly \/ DeleteIndex \/ ScanRecord \/ CountScanned
  <2>1. pc' \in {"migrate", "openIndex", "closed", "readonly", "scan", "scanCount"}
    <3>1. CASE CopyRecord \/ RemoveStaleIndex  BY <3>1 DEF CopyRecord, RemoveStaleIndex
    <3>2. CASE OpenReadOnly \/ DeleteIndex  BY <3>2 DEF OpenReadOnly, DeleteIndex
    <3>3. CASE ScanRecord \/ CountScanned  BY <3>3 DEF ScanRecord, Scanning, CountScanned
    <3> QED  BY <1>3, <3>1, <3>2, <3>3
  <2>2. ~Appending'  BY <2>1 DEF Appending, InCall, Resizing, BuildPcs
  <2> QED  BY <1>1, <1>2, <2>2, FileQuiet
<1>4. CASE StartRebuild \/ ScanGrows
  <2>1. build'.resume = "scan" /\ pc' \in {"truncate", "double"}
    <3>1. CASE StartRebuild
      <4>1. build' = [NoBuild EXCEPT !.count = InitialBucketCount, !.resume = "scan"] /\ pc' = "truncate"
        BY <3>1 DEF StartRebuild
      <4>2. build'.resume = "scan"  BY ONLY <4>1 DEF NoBuild
      <4> QED  BY <4>1, <4>2
    <3>2. CASE ScanGrows
      <4>1. pc' = "double" /\ \E m, c : build' = [count |-> m, copy |-> c, resume |-> "scan"]
        BY <3>2 DEF ScanGrows, StartResize
      <4> QED  BY ONLY <4>1
    <3> QED  BY <1>4, <3>1, <3>2
  <2>2. ~Appending'  BY <2>1 DEF Appending, InCall, Resizing, BuildPcs
  <2> QED  BY <1>1, <1>2, <2>2, FileQuiet
<1> QED  BY <1>3, <1>4

LEMMA FileCloses ==
  ASSUME StoreInv, StoreInv', FileInv, CopyFails \/ ScanFails \/ UseUnmapped \/ Close \/ Crash
  PROVE  FileInv'
<1>1. CASE Crash
  <2>1. /\ pc' = "closed" /\ Unacknowledged
        /\ \/ values' = values
           \/ pc = "append" /\ \E cells \in Cut(InHand) : values' = Overwrite(values, next, cells)
    BY <1>1 DEF Crash, Closed
  <2> QED  BY <2>1, FileClosed
<1>2. CASE CopyFails \/ ScanFails \/ UseUnmapped \/ Close
  <2>1. pc' = "closed" /\ values' = values /\ UNCHANGED <<acked, maybe>>
    BY <1>2 DEF CopyFails, ScanFails, UseUnmapped, Close, Closed, disk, history
  <2>2. ~InCall
    BY <1>2 DEF CopyFails, ScanFails, Scanning, UseUnmapped, Close, InCall, Resizing, BuildPcs
  <2> QED  BY <2>1, <2>2, FileClosed
<1> QED  BY <1>1, <1>2

LEMMA FileBuilds ==
  ASSUME StoreInv, StoreInv', FileInv,
         \/ Truncate \/ Zero \/ StoreHeader \/ PlaceExistingBucket \/ CountPlaced
         \/ EnsureCapacityForInsert
  PROVE  FileInv'
<1>1. build = [count |-> build.count, copy |-> build.copy, resume |-> build.resume]
  BY DEF StoreInv, Typed, BuildTyped
<1>2. pc \in BuildPcs /\ pc' \in BuildPcs /\ UNCHANGED <<values, appendOffset, acked, maybe>>
  BY DEF Truncate, Zero, StoreHeader, PlaceExistingBucket, CountPlaced, BuildIndex,
         EnsureCapacityForInsert, BuildPcs, disk, history
<1>3. build'.resume = build.resume
  <2>1. \/ build' = build \/ (\E c : build' = [build EXCEPT !.copy = c])
        \/ \E c : build' = [build EXCEPT !.count = c]
    BY DEF Truncate, Zero, StoreHeader, PlaceExistingBucket, CountPlaced, EnsureCapacityForInsert
  <2> QED  BY <1>1, <2>1
<1> QED  BY <1>2, <1>3, FileBuild

LEMMA FileStutter ==
  ASSUME FileInv, UNCHANGED vars
  PROVE  FileInv'
<1>1. UNCHANGED <<values, pc, appendOffset, next, call, build, acked, maybe>>
  BY DEF vars, disk, locals, history
<1>2. Current' = Current /\ IsLegacy' = IsLegacy /\ Resizing' = Resizing /\ Appending' = Appending
  BY <1>1 DEF Current, IsLegacy, Resizing, Appending, InCall
<1>3. \A f, n : Laid(f, n)' = Laid(f, n)  BY <1>1 DEF Laid
<1> QED  BY <1>1, <1>2, <1>3 DEF FileInv, Laid

LEMMA NextFile ==
  ASSUME SafeErrors, SafeAppends, StoreInv, StoreInv', NameInv, FileInv, MigrateInv, [Next]_vars
  PROVE  FileInv'
<1>1. CASE \/ CopyRecord \/ RemoveStaleIndex \/ StartRebuild \/ OpenReadOnly \/ DeleteIndex
           \/ ScanGrows \/ ScanRecord \/ CountScanned
  BY <1>1, FileScans
<1>2. CASE CopyFails \/ ScanFails \/ UseUnmapped \/ Close \/ Crash  BY <1>2, FileCloses
<1>3. CASE \/ Truncate \/ Zero \/ StoreHeader \/ PlaceExistingBucket \/ CountPlaced
           \/ EnsureCapacityForInsert
  BY <1>3, FileBuilds
<1>4. CASE OpenValueFile \/ RenameMigrated \/ UseIndex \/ ScanEnds \/ Built \/ MapFails
  BY <1>4, FileOpens, FileRename, FileUse, FileBuilt, FileMapFails
<1>5. CASE PutStructs \/ PutUniqueStructs \/ AppendRecord \/ AppendFails
  BY <1>5, FileCall, FileAppend, FileAppendFails
<1>6. CASE StoreEntry \/ CountEntry \/ FindFails \/ FinishWrite
  BY <1>6, FileEntry, FileFindFails, FileFinish
<1> QED  BY <1>1, <1>2, <1>3, <1>4, <1>5, <1>6, FileStutter, Zenon DEF Next

LEMMA InitFile == Init => FileInv
<1> SUFFICES ASSUME Init  PROVE FileInv  OBVIOUS
<1>1. PICK f \in InitialFiles : values = f.values  BY DEF Init
<1>2. values = <<>> \/ IsLegacy  BY <1>1, FilesAssumption DEF OldFile, IsLegacy
<1>3. ~Appending /\ pc = "closed"  BY DEF Init, Appending, InCall, Resizing, BuildPcs
<1>4. ASSUME values = <<>>, NEW o \in Obj  PROVE Agrees(values, o, Len(values), Current[o])
  <2>1. {i \in DOMAIN values : values[i].obj = o /\ values[i].at = -2} = {} /\ Len(values) = 0
    BY <1>4
  <2>2. LegacyVal(values, o) = NoVal  BY <2>1 DEF LegacyVal
  <2>3. NoVal \in Current[o]  BY <2>2 DEF Init, Current
  <2> QED  BY <2>1, <2>3 DEF Agrees
<1> QED  BY <1>2, <1>3, <1>4 DEF FileInv, Appending, InCall

-----------------------------------------------------------------------------
(* What the index holds of them.                                           *)

\* A slot names a whole record of o with a value in V.
Intact(file, s) ==
  \A n \in 1 .. ValLen[file[s + 1].val] :
    s + n + 1 \in DOMAIN file /\ file[s + n + 1] = [file[s + 1] EXCEPT !.at = n]
Good(file, s, o, V) ==
  ObjIn(file, s) = o /\ Intact(file, s.offset) /\ file[s.offset + 1].val \in V

\* The slots S of f answer for o with a value in V; those, or the slots P of c.
Held(file, o, f, S, V) == \E x \in S : Good(file, f[x], o, V)
Missing(file, o, f, S) == \A x \in S : ObjIn(file, f[x]) # o
Answers(file, o, f, S, V) == Held(file, o, f, S, V) \/ (NoVal \in V /\ Missing(file, o, f, S))
Carried(file, o, c, P, f, S, V) ==
  \/ Held(file, o, c, P, V) \/ Held(file, o, f, S, V)
  \/ NoVal \in V /\ Missing(file, o, c, P) /\ Missing(file, o, f, S)

\* The index loop has stored the entries before this one.
StoredTo == IF pc = "store" THEN call.entry ELSE IF pc = "count" THEN call.entry + 1 ELSE 1
Owed == Allowed(call.batch, StoredTo, Current)

\* An index that Open accepts, or the database uses, answers.
Trusted == ~suspect /\ ~Stale /\ ~HalfBuilt /\ index.header /\ Grown
IndexInv == Trusted => \A o \in Obj : Answers(values, o, index.slot, Filled, Owed[o])

\* The last value of o in the first n cells, as a set.
LastVals(file, o, n) == {v \in Val \cup {NoVal} : Agrees(file, o, n, {v})}

\* A build: what the index has to hold at the end is in the buckets that are filled,
\* or in those that are still to place.
Rebuilding == (pc \in BuildPcs /\ build.resume = "scan") \/ pc \in {"scan", "scanCount"}
Placed == IF pc \in {"double", "truncate", "zero", "header"} THEN {} ELSE Filled
Seen == IF pc = "scanCount" THEN RecordEnd(next) ELSE IF next = 0 THEN 1 ELSE next
BuildInv ==
  /\ Resizing /\ ~suspect =>
       \A o \in Obj : Carried(values, o, build.copy, Pending, index.slot, Placed, Current[o])
  /\ Rebuilding /\ Whole =>
       \A o \in Obj : Carried(values, o, build.copy, Pending, index.slot, Placed,
                              LastVals(values, o, Seen))
  /\ Rebuilding => Seen <= Len(values)
  /\ Rebuilding /\ ~suspect /\ (next > 0 \/ pc \notin {"truncate", "zero"}) => Whole

\* A file that keeps its first n cells keeps what is in them.
Keeps(f, g, n) == \A i \in 1 .. Len(f) : i <= n => i <= Len(g) /\ g[i] = f[i]

LEMMA GoodKept ==
  ASSUME NEW f \in Seq(Cell), NEW g \in Seq(Cell), NEW n \in Nat, Keeps(f, g, n),
         NEW s, s.offset \in Nat, NamedIn(f, s, n)
  PROVE  /\ ObjIn(g, s) = ObjIn(f, s)
         /\ \A o, V, W : Good(f, s, o, V) /\ (\A v \in V : v \in W) => Good(g, s, o, W)
<1>1. PICK t \in Nat : t = s.offset  OBVIOUS
<1>2. t + 1 \in DOMAIN f /\ f[t + 1].obj \in Obj  BY <1>1 DEF NamedIn
<1>3. PICK l \in Nat : l = ValLen[f[t + 1].val]
  <2>1. f[t + 1] \in Cell  BY <1>2
  <2> QED  BY <1>2, <2>1, CellFields
<1>4. t + 1 + l <= n  BY <1>1, <1>3 DEF NamedIn
<1>5. g[t + 1] = f[t + 1]
  <2>1. t + 1 \in 1 .. Len(f) /\ t + 1 <= n  BY <1>2, <1>4
  <2> QED  BY <2>1 DEF Keeps
<1>6. ASSUME Intact(f, t)  PROVE Intact(g, t)
  <2>1. ASSUME NEW k \in 1 .. l
        PROVE  t + k + 1 \in DOMAIN g /\ g[t + k + 1] = [g[t + 1] EXCEPT !.at = k]
    <3>1. t + k + 1 \in DOMAIN f /\ f[t + k + 1] = [f[t + 1] EXCEPT !.at = k]
      BY <1>3, <1>6 DEF Intact
    <3>2. t + k + 1 \in 1 .. Len(f) /\ t + k + 1 <= n  BY <1>4, <3>1
    <3>3. t + k + 1 <= Len(g) /\ g[t + k + 1] = f[t + k + 1]  BY <3>2 DEF Keeps
    <3> QED  BY <1>5, <3>1, <3>2, <3>3
  <2> QED  BY <1>3, <1>5, <2>1 DEF Intact
<1>7. ObjIn(g, s) = ObjIn(f, s)  BY <1>1, <1>5 DEF ObjIn
<1>8. ASSUME NEW o, NEW V, NEW W, Good(f, s, o, V), \A v \in V : v \in W  PROVE Good(g, s, o, W)
  BY <1>1, <1>5, <1>6, <1>7, <1>8 DEF Good
<1> QED  BY <1>7, <1>8

LEMMA AnswersKept ==
  ASSUME NEW f \in Seq(Cell), NEW g \in Seq(Cell), NEW n \in Nat, Keeps(f, g, n),
         NEW F, NEW S, \A x \in S : F[x].offset \in Nat /\ NamedIn(f, F[x], n),
         NEW o, NEW V, NEW W, \A v \in V : v \in W, Answers(f, o, F, S, V)
  PROVE  Answers(g, o, F, S, W)
<1>1. CASE Held(f, o, F, S, V)
  <2>1. PICK x \in S : Good(f, F[x], o, V)  BY <1>1 DEF Held
  <2>2. Good(g, F[x], o, W)
    <3>1. PICK s : s = F[x]  OBVIOUS
    <3>2. s.offset \in Nat /\ NamedIn(f, s, n)  BY <3>1
    <3>3. Good(f, s, o, V)  BY <2>1, <3>1
    <3>4. Good(g, s, o, W)  BY <3>2, <3>3, GoodKept
    <3> QED  BY <3>1, <3>4
  <2> QED  BY <2>2 DEF Held, Answers
<1>2. CASE NoVal \in V /\ Missing(f, o, F, S)
  <2>1. ASSUME NEW x \in S  PROVE ObjIn(g, F[x]) # o
    <3>1. PICK s : s = F[x]  OBVIOUS
    <3>2. s.offset \in Nat /\ NamedIn(f, s, n)  BY <3>1
    <3>3. ObjIn(g, s) = ObjIn(f, s)  BY <3>2, GoodKept
    <3>4. ObjIn(f, F[x]) # o  BY <1>2 DEF Missing
    <3> QED  BY <3>1, <3>3, <3>4
  <2> QED  BY <1>2, <2>1 DEF Missing, Answers
<1> QED  BY <1>1, <1>2 DEF Answers

\* The index stays, and is trusted no more often, and may answer more.
LEMMA IndexQuiet ==
  ASSUME StoreInv, StoreInv', NameInv, IndexInv, [Next]_vars, index'.slot = index.slot,
         Trusted' => Trusted, \A o \in Obj : \A v \in Owed[o] : v \in Owed'[o]
  PROVE  IndexInv'
<1> SUFFICES ASSUME Trusted', NEW o \in Obj
             PROVE  Answers(values', o, index'.slot, Filled', Owed'[o])
  BY DEF IndexInv
<1>1. Filled' = Filled  BY DEF Filled
<1>2. PICK n \in Nat : n = Limit  BY LimitTyped
<1>3. ~Stale /\ Answers(values, o, index.slot, Filled, Owed[o])  BY DEF IndexInv, Trusted
<1>4. Keeps(values, values', n)  BY <1>2, <1>3, FileKept DEF Keeps
<1>5. \A x \in Filled : index.slot[x].offset \in Nat /\ NamedIn(values, index.slot[x], n)
  BY <1>2, <1>3, SlotsTyped DEF NameInv
<1>6. values \in Seq(Cell) /\ values' \in Seq(Cell)  BY DEF StoreInv, Typed, FilesTyped
<1>7. Answers(values', o, index.slot, Filled, Owed'[o])  BY <1>3, <1>4, <1>5, <1>6, AnswersKept
<1> QED  BY <1>1, <1>7

LEMMA OwedRests ==
  ASSUME StoreInv, pc \notin {"store", "count"} \/ (pc = "store" /\ call.entry = 1)
  PROVE  Owed = Current
<1>1. StoredTo = 1 /\ call.batch \in Seq(Entry)  BY DEF StoredTo, StoreInv, Typed, CallTyped
<1> QED  BY <1>1, AllowedFirst DEF Owed

LEMMA OwedRestsNext ==
  ASSUME StoreInv', pc' \notin {"store", "count"} \/ (pc' = "store" /\ call'.entry = 1)
  PROVE  Owed' = Current'
<1>1. StoredTo' = 1 /\ call'.batch \in Seq(Entry)  BY DEF StoredTo, StoreInv, Typed, CallTyped
<1>2. Allowed(call'.batch, 1, Current') = Current'
  <2>1. ASSUME NEW b \in Seq(Entry), NEW m \in Nat, m = 1, NEW o  PROVE Before(b, o, m) = {}
    BY <2>1 DEF Before
  <2>2. PICK b \in Seq(Entry) : b = call'.batch  BY <1>1
  <2>3. Allowed(b, 1, Current') = [o \in Obj |-> Current'[o]]  BY <2>1 DEF Allowed
  <2>4. [o \in Obj |-> Current'[o]] = Current'  BY DEF Current
  <2> QED  BY <2>2, <2>3, <2>4
<1> QED  BY <1>1, <1>2 DEF Owed

\* What the running call owes stays allowed when it fails.
LEMMA OwedCut ==
  ASSUME StoreInv, StoreInv', Unacknowledged, pc' \notin {"store", "count"}, NEW o \in Obj
  PROVE  \A v \in Owed[o] : v \in Owed'[o]
<1>1. call.batch \in Seq(Entry) /\ call.entry \in Nat  BY DEF StoreInv, Typed, CallTyped
<1>2. PICK m \in Nat : m = StoredTo  BY <1>1 DEF StoredTo
<1>3. Owed' = Current'  BY OwedRestsNext
<1>4. Owed = Allowed(call.batch, m, Current)  BY <1>2 DEF Owed
<1> QED  BY <1>1, <1>3, <1>4, AllowedCut

LEMMA IndexSame ==
  ASSUME StoreInv, StoreInv', NameInv, ProbeInv, IndexInv, [Next]_vars, SameIndex,
         ~suspect' => ~suspect, ~suspect' /\ ~HalfBuilt' => ~HalfBuilt,
         \A o \in Obj : \A v \in Owed[o] : v \in Owed'[o]
  PROVE  IndexInv'
<1>1. index' = index  BY SameIndexKeeps
<1>2. ASSUME Trusted'  PROVE Trusted
  <2>1. ~suspect' /\ ~Stale' /\ ~HalfBuilt' /\ index'.header /\ Grown'  BY <1>2 DEF Trusted
  <2>2. index.header /\ Grown  BY <1>1, <2>1 DEF Grown
  <2>3. ~suspect /\ ~HalfBuilt  BY <2>1
  <2>4. ~Stale
    <3>1. ~Stale \/ "crash" \in Faults  BY <2>1, StaleStep
    <3>2. "crash" \in Faults /\ Stale => index.header = FALSE  BY DEF ProbeInv
    <3> QED  BY <2>2, <3>1, <3>2
  <2> QED  BY <2>2, <2>3, <2>4 DEF Trusted
<1> QED  BY <1>1, <1>2, IndexQuiet

LEMMA OwedSame ==
  ASSUME StoreInv, StoreInv', UNCHANGED <<acked, maybe>>, pc \notin {"store", "count"},
         pc' \notin {"store", "count"} \/ (pc' = "store" /\ call'.entry = 1)
  PROVE  \A o \in Obj : \A v \in Owed[o] : v \in Owed'[o]
<1>1. Owed = Current /\ Owed' = Current'  BY OwedRests, OwedRestsNext
<1>2. Current' = Current  BY DEF Current
<1> QED  BY <1>1, <1>2

LEMMA IndexOpens ==
  ASSUME StoreInv, StoreInv', NameInv, ProbeInv, IndexInv, [Next]_vars,
         \/ OpenValueFile \/ CopyRecord \/ CopyFails \/ RenameMigrated \/ UseIndex \/ StartRebuild
         \/ OpenReadOnly
  PROVE  IndexInv'
<1>1. /\ pc \in {"closed", "migrate", "openIndex"} /\ UNCHANGED <<acked, maybe, suspect>>
      /\ pc' \notin {"store", "count"}
  <2>1. CASE OpenValueFile \/ CopyRecord  BY <2>1 DEF OpenValueFile, CopyRecord, history
  <2>2. CASE CopyFails \/ RenameMigrated  BY <2>2 DEF CopyFails, RenameMigrated, Closed, history
  <2>3. CASE UseIndex \/ StartRebuild  BY <2>3 DEF UseIndex, StartRebuild, history
  <2>4. CASE OpenReadOnly  BY <2>4 DEF OpenReadOnly, history
  <2> QED  BY <2>1, <2>2, <2>3, <2>4
<1>2. ~HalfBuilt  BY <1>1 DEF HalfBuilt
<1>3. \A o \in Obj : \A v \in Owed[o] : v \in Owed'[o]  BY <1>1, OwedSame
<1>4. SameIndex  BY DEF SameIndex
<1> QED  BY <1>1, <1>2, <1>3, <1>4, IndexSame

LEMMA IndexCloses ==
  ASSUME StoreInv, StoreInv', NameInv, ProbeInv, IndexInv, [Next]_vars,
         ScanFails \/ UseUnmapped \/ Close \/ Crash
  PROVE  IndexInv'
<1>1. pc' = "closed"  BY DEF ScanFails, UseUnmapped, Close, Crash, Closed
<1>2. SameIndex  BY DEF SameIndex
<1>3. CASE Crash
  <2>1. suspect' = (suspect \/ HalfBuilt) /\ Unacknowledged  BY <1>3 DEF Crash
  <2>2. \A o \in Obj : \A v \in Owed[o] : v \in Owed'[o]  BY <1>1, <2>1, OwedCut
  <2> QED  BY <1>2, <2>1, <2>2, IndexSame
<1>4. CASE ScanFails
  <2>1. suspect' = TRUE  BY <1>4 DEF ScanFails
  <2> QED  BY <2>1 DEF IndexInv, Trusted
<1>5. CASE UseUnmapped \/ Close
  <2>1. pc \in {"idle", "readonly", "unmapped"} /\ UNCHANGED <<acked, maybe, suspect>>
    BY <1>5 DEF UseUnmapped, Close, history
  <2>2. ~HalfBuilt  BY <2>1 DEF HalfBuilt
  <2>3. \A o \in Obj : \A v \in Owed[o] : v \in Owed'[o]  BY <1>1, <2>1, OwedSame
  <2> QED  BY <1>2, <2>1, <2>2, <2>3, IndexSame
<1> QED  BY <1>3, <1>4, <1>5

LEMMA IndexWrites ==
  ASSUME StoreInv, StoreInv', NameInv, ProbeInv, IndexInv, [Next]_vars,
         PutStructs \/ PutUniqueStructs \/ AppendRecord \/ AppendFails \/ FindFails \/ FinishWrite
  PROVE  IndexInv'
<1>1. SameIndex  BY DEF SameIndex
<1>2. pc \in {"idle", "append", "store"} /\ suspect' = suspect
  BY DEF PutStructs, PutUniqueStructs, CallWriteStructs, AppendRecord, AppendFails, FindFails, Storing,
         FinishWrite, history
<1>3. ~HalfBuilt  BY <1>2 DEF HalfBuilt
<1>4. CASE PutStructs \/ PutUniqueStructs
  <2>1. pc = "idle" /\ pc' \in {"append", "double"} /\ UNCHANGED <<acked, maybe>>
    BY <1>4 DEF PutStructs, PutUniqueStructs, CallWriteStructs, StartResize, history
  <2>2. \A o \in Obj : \A v \in Owed[o] : v \in Owed'[o]  BY <2>1, OwedSame
  <2> QED  BY <1>1, <1>2, <1>3, <2>2, IndexSame
<1>5. CASE AppendRecord
  <2>1. call = [batch |-> call.batch, unique |-> call.unique, entry |-> call.entry]
    BY DEF StoreInv, Typed, CallTyped
  <2>2. /\ pc = "append" /\ UNCHANGED <<acked, maybe>>
        /\ pc' = "append" \/ (pc' = "store" /\ call' = [call EXCEPT !.entry = 1])
    BY <1>5 DEF AppendRecord, history
  <2>3. call' = [call EXCEPT !.entry = 1] => call'.entry = 1  BY <2>1
  <2>4. \A o \in Obj : \A v \in Owed[o] : v \in Owed'[o]  BY <2>2, <2>3, OwedSame
  <2> QED  BY <1>1, <1>2, <1>3, <2>4, IndexSame
<1>6. CASE AppendFails \/ FindFails
  <2>1. Unacknowledged /\ pc' = "idle"  BY <1>6 DEF AppendFails, AfterCut, FindFails, WriteFails
  <2>2. \A o \in Obj : \A v \in Owed[o] : v \in Owed'[o]  BY <2>1, OwedCut
  <2> QED  BY <1>1, <1>2, <1>3, <2>2, IndexSame
<1>7. CASE FinishWrite
  <2>1. Acknowledged /\ pc = "store" /\ pc' = "idle" /\ call.entry > Len(call.batch)
    BY <1>7 DEF FinishWrite
  <2>2. /\ call.batch \in Seq(Entry) /\ call.entry = Len(call.batch) + 1
    BY <2>1 DEF StoreInv, Typed, CallTyped, InCall
  <2>3. Owed = Allowed(call.batch, Len(call.batch) + 1, Current)  BY <2>1, <2>2 DEF Owed, StoredTo
  <2>4. Owed' = Current'  BY <2>1, OwedRestsNext
  <2>5. \A o \in Obj : \A v \in Owed[o] : v \in Owed'[o]  BY <2>1, <2>2, <2>3, <2>4, AllowedDone
  <2> QED  BY <1>1, <1>2, <1>3, <2>5, IndexSame
<1> QED  BY <1>4, <1>5, <1>6, <1>7

LEMMA IndexBuilds ==
  ASSUME StoreInv, StoreInv', NameInv, ProbeInv, IndexInv, [Next]_vars,
         EnsureCapacityForInsert \/ ScanGrows \/ UNCHANGED vars
  PROVE  IndexInv'
<1>1. SameIndex  BY DEF SameIndex
<1>2. CASE EnsureCapacityForInsert
  <2>1. /\ pc = "double" /\ pc' \in {"double", "truncate"} /\ UNCHANGED <<acked, maybe, suspect, next>>
        /\ build' = build \/ build' = [build EXCEPT !.count = 2 * @]
    BY <1>2 DEF EnsureCapacityForInsert, history
  <2>2. build'.resume = build.resume
    <3>1. build = [count |-> build.count, copy |-> build.copy, resume |-> build.resume]
      BY DEF StoreInv, Typed, BuildTyped
    <3> QED  BY <2>1, <3>1
  <2>3. HalfBuilt' = HalfBuilt  BY <2>1, <2>2 DEF HalfBuilt
  <2>4. \A o \in Obj : \A v \in Owed[o] : v \in Owed'[o]  BY <2>1, OwedSame
  <2> QED  BY <1>1, <2>1, <2>3, <2>4, IndexSame
<1>3. CASE ScanGrows
  <2>1. pc = "scan" /\ pc' = "double" /\ next' = next /\ StartResize("scan")
    BY <1>3 DEF ScanGrows, Scanning, StartResize
  <2>2. build'.resume = "scan"  BY <2>1 DEF StartResize
  <2>3. next > 0  BY <2>1 DEF StoreInv, OffsetInv
  <2>4. HalfBuilt'  BY <2>1, <2>2, <2>3 DEF HalfBuilt
  <2> QED  BY <2>4 DEF IndexInv, Trusted
<1>4. CASE UNCHANGED vars
  <2>1. UNCHANGED <<pc, next, call, build, acked, maybe, suspect>>
    BY <1>4 DEF vars, locals, history
  <2>2. HalfBuilt' = HalfBuilt  BY <2>1 DEF HalfBuilt
  <2>3. Owed' = Owed  BY <2>1 DEF Owed, Allowed, Current, StoredTo
  <2> QED  BY <1>1, <2>1, <2>2, <2>3, IndexSame
<1> QED  BY <1>2, <1>3, <1>4

LEMMA IndexUntrusted ==
  ASSUME StoreInv, StoreInv',
         \/ CountPlaced \/ CountScanned \/ StoreHeader \/ Zero \/ RemoveStaleIndex \/ DeleteIndex
         \/ PlaceExistingBucket \/ ScanRecord
  PROVE  IndexInv'
<1>1. CASE CountPlaced \/ CountScanned \/ StoreHeader \/ PlaceExistingBucket \/ ScanRecord
  <2>1. pc' \in {"place", "placeCount", "scan", "scanCount"}
    BY <1>1 DEF CountPlaced, CountScanned, StoreHeader, PlaceExistingBucket, BuildIndex, ScanRecord,
                Scanning
  <2>2. HalfBuilt'  BY <2>1 DEF HalfBuilt
  <2> QED  BY <2>2 DEF IndexInv, Trusted
<1>2. CASE Zero \/ RemoveStaleIndex \/ DeleteIndex
  <2>1. index'.header = FALSE
    <3>1. CASE RemoveStaleIndex \/ DeleteIndex
      <4>1. index' = NoIndex  BY <3>1 DEF RemoveStaleIndex, DeleteIndex
      <4> QED  BY <4>1, IndexRemoved
    <3>2. CASE Zero
      <4>1. index' = [NoIndex EXCEPT !.slot = [b \in 0 .. build.count - 1 |-> EmptySlot]]
            /\ build.count \in Nat
        BY <3>2 DEF Zero, BuildIndex, StoreInv, Typed, BuildTyped
      <4> QED  BY <4>1, SlotsZeroed
    <3> QED  BY <1>2, <3>1, <3>2
  <2> QED  BY <2>1 DEF IndexInv, Trusted
<1> QED  BY <1>1, <1>2

LEMMA IndexCounts ==
  ASSUME StoreInv, StoreInv', NameInv, IndexInv, [Next]_vars, CountEntry
  PROVE  IndexInv'
<1>1. /\ pc = "count" /\ pc' = "store" /\ UNCHANGED <<values, build, acked, maybe, suspect>>
      /\ NextEntry /\ index' = [index EXCEPT !.itemCount = @ + 1]
  BY DEF CountEntry, history
<1>2. /\ index'.slot = index.slot /\ index'.header = index.header
      /\ index'.bucketCount = index.bucketCount
  BY <1>1, ItemCounted DEF StoreInv, Typed
<1>3. call'.batch = call.batch /\ call'.entry = call.entry + 1
  BY <1>1, CallShape DEF NextEntry
<1>4. Owed' = Owed  BY <1>1, <1>3 DEF Owed, Allowed, Current, StoredTo
<1>5. Trusted' => Trusted  BY <1>1, <1>2 DEF Trusted, Stale, IsLegacy, HalfBuilt, Grown
<1> QED  BY <1>2, <1>4, <1>5, IndexQuiet

LEMMA AnswersSame ==
  ASSUME NEW f, NEW F, NEW G, NEW S, \A x \in S : G[x] = F[x],
         NEW o, NEW V, NEW W, \A v \in V : v \in W, Answers(f, o, F, S, V)
  PROVE  Answers(f, o, G, S, W)
<1>1. CASE Held(f, o, F, S, V)
  <2>1. PICK x \in S : Good(f, F[x], o, V)  BY <1>1 DEF Held
  <2>2. Good(f, G[x], o, W)  BY <2>1 DEF Good
  <2> QED  BY <2>2 DEF Held, Answers
<1>2. CASE NoVal \in V /\ Missing(f, o, F, S)  BY <1>2 DEF Missing, Answers
<1> QED  BY <1>1, <1>2 DEF Answers

\* A truncation that leaves the index acceptable cuts off no filled bucket.
LEMMA TruncateKeeps ==
  ASSUME StoreInv, ProbeInv, pc = "truncate", ~Stale, index' = Truncated, index'.header, Grown'
  PROVE  /\ index.header /\ Grown /\ Filled' = Filled
         /\ \A x \in Filled : index'.slot[x] = index.slot[x]
<1>1. IndexTyped /\ build.count \in Nat  BY DEF StoreInv, Typed, BuildTyped
<1>2. /\ index'.header = index.header /\ index'.bucketCount = index.bucketCount
      /\ DOMAIN index'.slot = 0 .. build.count - 1
      /\ \A b \in 0 .. build.count - 1 :
           index'.slot[b] = IF b \in DOMAIN index.slot THEN index.slot[b] ELSE EmptySlot
      /\ Filled' = Filled \cap (0 .. build.count - 1)
  BY <1>1, SlotsTruncated
<1>3. index.header  BY <1>2
<1>4. 0 .. index.bucketCount - 1 \subseteq 0 .. build.count - 1  BY <1>2 DEF Grown
<1>5. Grown
  <2> SUFFICES ASSUME ~Grown  PROVE FALSE  OBVIOUS
  <2>1. DOMAIN index.slot = 0 .. InitialBucketCount - 1  BY <1>3 DEF ProbeInv
  <2>2. ~Ready  BY DEF Ready, Grown
  <2>3. build.count = InitialBucketCount  BY <2>2 DEF ProbeInv
  <2> QED  BY <1>4, <2>1, <2>3 DEF Grown
<1>6. \A x \in Filled : x \in DOMAIN index.slot /\ x \in Nat /\ x < index.bucketCount
  BY <1>1, <1>3, <1>5, IndexShape DEF ProbeInv
<1>7. \A x \in Filled : x \in 0 .. build.count - 1
  <2>1. index.bucketCount \in Nat  BY <1>1 DEF IndexTyped
  <2>2. \A x \in Filled : x \in 0 .. index.bucketCount - 1  BY <1>6, <2>1
  <2> QED  BY <1>4, <2>2
<1> QED  BY <1>2, <1>3, <1>5, <1>6, <1>7

LEMMA IndexTruncates ==
  ASSUME StoreInv, StoreInv', NameInv, ProbeInv, IndexInv, Truncate \/ MapFails
  PROVE  IndexInv'
<1>1. /\ pc = "truncate" /\ values' = values /\ index' \in {index, Truncated}
      /\ pc' \notin {"store", "count"}
  <2>1. CASE Truncate  BY <2>1 DEF Truncate, BuildIndex
  <2>2. CASE MapFails  BY <2>2 DEF MapFails, WriteFails, Closed
  <2> QED  BY <2>1, <2>2
<1>2. ~Stale  BY <1>1, InUse
<1>3. /\ \A o \in Obj : \A v \in Owed[o] : v \in Owed'[o]
      /\ ~suspect' /\ ~HalfBuilt' => ~suspect /\ ~HalfBuilt
  <2>1. CASE Truncate
    <3>1. pc' = "zero" /\ UNCHANGED <<next, build, acked, maybe, suspect>>
      BY <2>1 DEF Truncate, BuildIndex
    <3>2. HalfBuilt' = HalfBuilt  BY <1>1, <3>1 DEF HalfBuilt
    <3> QED  BY <1>1, <3>1, <3>2, OwedSame
  <2>2. CASE MapFails /\ build.resume = "append"
    <3>1. Unacknowledged /\ suspect' = suspect  BY <2>2 DEF MapFails, WriteFails
    <3>2. ~HalfBuilt  BY <1>1, <2>2 DEF HalfBuilt
    <3> QED  BY <1>1, <3>1, <3>2, OwedCut
  <2>3. CASE MapFails /\ build.resume # "append"
    <3>1. UNCHANGED <<acked, maybe>> /\ suspect' = (suspect \/ HalfBuilt)  BY <2>3 DEF MapFails
    <3> QED  BY <1>1, <3>1, OwedSame
  <2> QED  BY <2>1, <2>2, <2>3
<1> SUFFICES ASSUME Trusted', NEW o \in Obj
             PROVE  Answers(values', o, index'.slot, Filled', Owed'[o])
  BY DEF IndexInv
<1>4. index'.header /\ Grown' /\ ~suspect /\ ~HalfBuilt  BY <1>3 DEF Trusted
<1>5. /\ index.header /\ Grown /\ Filled' = Filled
      /\ \A x \in Filled : index'.slot[x] = index.slot[x]
  <2>1. CASE index' = index  BY <1>4, <2>1 DEF Grown, Filled
  <2>2. CASE index' = Truncated  BY <1>1, <1>2, <1>4, <2>2, TruncateKeeps
  <2> QED  BY <1>1, <2>1, <2>2
<1>6. Answers(values, o, index.slot, Filled, Owed[o])  BY <1>2, <1>4, <1>5 DEF IndexInv, Trusted
<1>7. Answers(values, o, index'.slot, Filled, Owed'[o])  BY <1>3, <1>5, <1>6, AnswersSame
<1> QED  BY <1>1, <1>5, <1>7

\* The bucket that FindBucket finds is the object's.
LEMMA FoundIsOwn ==
  ASSUME StoreInv, Ready, NEW o \in Obj, Stops(o) # {}, ~FindCorrupt(o), FindBucket(o) \in Filled
  PROVE  ObjIn(values, index.slot[FindBucket(o)]) = o
<1>1. IndexTyped  BY DEF StoreInv, Typed
<1>2. Found(o) /\ \E k \in Stops(o) : FindBucket(o) = Probe(HashOf[o], k)
  BY <1>1, FindBucketFacts
<1>3. PICK k \in Stops(o) : FindBucket(o) = Probe(HashOf[o], k)  BY <1>2
<1>4. IsValidRecordHeader(index.slot[FindBucket(o)].offset)  BY <1>2 DEF FindCorrupt
<1>5. index.slot[FindBucket(o)].hash # 0  BY <1>2 DEF Found
<1>6. values[index.slot[FindBucket(o)].offset + 1].obj = o  BY <1>3, <1>4, <1>5 DEF Stops
<1> QED  BY <1>6 DEF ObjIn

\* A slot of p goes into an empty bucket or the bucket of p.
LEMMA AnswersStored ==
  ASSUME StoreInv, NEW b, NEW s, StoresIn(b, s), NEW p, ObjIn(values, s) = p,
         b \in Filled => ObjIn(values, index.slot[b]) = p,
         NEW o, NEW V, NEW W, Answers(values, o, index.slot, Filled, V),
         o # p => \A v \in V : v \in W, o = p => Good(values, s, p, W)
  PROVE  Answers(values, o, index'.slot, Filled', W)
<1>1. IndexTyped  BY DEF StoreInv, Typed
<1>2. /\ index'.slot[b] = s /\ \A c \in DOMAIN index.slot : c # b => index'.slot[c] = index.slot[c]
      /\ Filled' = Filled \cup {b} /\ \A x \in Filled : x \in DOMAIN index.slot
  <2>1. b \in DOMAIN index.slot /\ s \in SlotType /\ s.hash # 0 /\ index' = [index EXCEPT !.slot[b] = s]
    BY DEF StoresIn
  <2> QED  BY <1>1, <2>1, SlotStored DEF Filled
<1>3. CASE o = p
  <2>1. Good(values, index'.slot[b], o, W)  BY <1>2, <1>3
  <2> QED  BY <1>2, <2>1 DEF Held, Answers
<1>4. CASE o # p
  <2>1. CASE Held(values, o, index.slot, Filled, V)
    <3>1. PICK x \in Filled : Good(values, index.slot[x], o, V)  BY <2>1 DEF Held
    <3>2. x # b  BY <1>4, <3>1 DEF Good
    <3>3. index'.slot[x] = index.slot[x] /\ x \in Filled'  BY <1>2, <3>2
    <3>4. Good(values, index'.slot[x], o, W)  BY <1>4, <3>1, <3>3 DEF Good
    <3> QED  BY <3>3, <3>4 DEF Held, Answers
  <2>2. CASE NoVal \in V /\ Missing(values, o, index.slot, Filled)
    <3>1. ASSUME NEW x \in Filled'  PROVE ObjIn(values, index'.slot[x]) # o
      <4>1. CASE x = b  BY <1>2, <1>4, <4>1
      <4>2. CASE x # b
        <5>1. x \in Filled /\ index'.slot[x] = index.slot[x]  BY <1>2, <4>2
        <5> QED  BY <2>2, <5>1 DEF Missing
      <4> QED  BY <4>1, <4>2
    <3> QED  BY <1>4, <2>2, <3>1 DEF Missing, Answers
  <2> QED  BY <2>1, <2>2 DEF Answers
<1> QED  BY <1>3, <1>4

LEMMA InHandGood ==
  ASSUME StoreInv, pc = "store", call.entry <= Len(call.batch),
         NEW s, s.offset = next
  PROVE  Good(values, s, InHand.obj, {InHand.val})
<1>1. /\ next + RecordSize(InHand) <= Len(values)
      /\ \A i \in 1 .. RecordSize(InHand) : values[next + i] = Record(InHand)[i]
      /\ values[next + 1] = [obj |-> InHand.obj, val |-> InHand.val, at |-> 0]
      /\ RecordSize(InHand) = 1 + ValLen[InHand.val] /\ ValLen[InHand.val] \in Nat
      /\ next \in Nat /\ InHand \in Entry
  BY InHandStored
<1>2. PICK t \in Nat : t = next  BY <1>1
<1>3. PICK l \in Nat : l = ValLen[InHand.val]  BY <1>1
<1>4. values \in Seq(Cell) /\ Len(values) \in Nat  BY DEF StoreInv, Typed, FilesTyped
<1>5. \A i \in 1 .. 1 + l : values[t + i] = [obj |-> InHand.obj, val |-> InHand.val, at |-> i - 1]
  BY <1>1, <1>2, <1>3, RecordCells
<1>6. ASSUME NEW n \in 1 .. l
      PROVE  t + n + 1 \in DOMAIN values /\ values[t + n + 1] = [values[t + 1] EXCEPT !.at = n]
  <2>1. PICK i \in 1 .. 1 + l : i = n + 1  OBVIOUS
  <2>2. values[t + i] = [obj |-> InHand.obj, val |-> InHand.val, at |-> n]
    <3>1. i - 1 = n  BY <2>1
    <3> QED  BY <1>5, <3>1
  <2>3. t + i = t + n + 1 /\ t + n + 1 \in 1 .. Len(values)  BY <1>1, <1>2, <1>3, <1>4, <2>1
  <2>4. values[t + 1] = [obj |-> InHand.obj, val |-> InHand.val, at |-> 0]  BY <1>1, <1>2
  <2> QED  BY <1>4, <2>2, <2>3, <2>4
<1>7. values[t + 1].obj = InHand.obj /\ values[t + 1].val = InHand.val  BY <1>1, <1>2
<1>8. Intact(values, t)  BY <1>3, <1>6, <1>7 DEF Intact
<1> QED  BY <1>2, <1>7, <1>8 DEF Good, ObjIn

LEMMA IndexEntry ==
  ASSUME StoreInv, StoreInv', NameInv, IndexInv, StoreEntry
  PROVE  IndexInv'
<1>1. /\ StoresIn(Target(InHand.obj), [hash |-> HashOf[InHand.obj], offset |-> next])
      /\ InHand.obj \in Obj /\ (~call.unique => Stops(InHand.obj) # {}) /\ pc = "store"
      /\ call.entry \in 1 .. Len(call.batch)
      /\ Target(InHand.obj) \in Filled => ~call.unique
      /\ \/ pc' = "count" /\ call' = call
         \/ pc' = "store" /\ call' = [call EXCEPT !.entry = @ + 1]
  BY EntryStores
<1>2. PICK p \in Obj : p = InHand.obj  BY <1>1
<1>3. PICK s : s = [hash |-> HashOf[p], offset |-> next]  OBVIOUS
<1>4. PICK b : b = Target(p)  OBVIOUS
<1>5. StoresIn(b, s) /\ s.offset = next  BY <1>1, <1>2, <1>3, <1>4
<1>6. Good(values, s, p, {InHand.val}) /\ ObjIn(values, s) = p
  BY <1>1, <1>2, <1>5, InHandGood DEF Good
<1>7. ASSUME b \in Filled  PROVE ObjIn(values, index.slot[b]) = p
  <2>1. ~call.unique /\ Stops(p) # {} /\ b = FindBucket(p)  BY <1>1, <1>2, <1>4, <1>7 DEF Target
  <2>2. ~FindCorrupt(p) /\ Ready  BY <1>2, <1>5, <2>1 DEF StoreEntry, StoresIn
  <2> QED  BY <1>7, <2>1, <2>2, FoundIsOwn
<1> SUFFICES ASSUME Trusted', NEW o \in Obj
             PROVE  Answers(values', o, index'.slot, Filled', Owed'[o])
  BY DEF IndexInv
<1>8. UNCHANGED <<values, acked, maybe, suspect>>  BY DEF StoreEntry, history
<1>9. Trusted
  <2>1. ~suspect  BY <1>8 DEF Trusted
  <2>2. ~HalfBuilt  BY <1>1 DEF HalfBuilt
  <2>3. ~Stale /\ index.header /\ Grown  BY <1>5 DEF StoresIn, Ready, Grown
  <2> QED  BY <2>1, <2>2, <2>3 DEF Trusted
<1>10. Answers(values, o, index.slot, Filled, Owed[o])  BY <1>9 DEF IndexInv
<1>11. call.batch \in Seq(Entry) /\ Len(call.batch) \in Nat /\ call.entry \in Nat
  BY CallShape
<1>12. PICK k \in 1 .. Len(call.batch) : k = call.entry  BY <1>1
<1>13. PICK m : m = k + 1  OBVIOUS
<1>14. Owed = Allowed(call.batch, k, Current)  BY <1>1, <1>12 DEF Owed, StoredTo
<1>15. Owed' = Allowed(call.batch, m, Current)
  <2>1. call'.batch = call.batch /\ StoredTo' = m
    <3>1. CASE pc' = "count" /\ call' = call  BY <1>12, <1>13, <3>1 DEF StoredTo
    <3>2. CASE pc' = "store" /\ call' = [call EXCEPT !.entry = @ + 1]
      <4>1. call'.batch = call.batch /\ call'.entry = call.entry + 1  BY <3>2, CallShape
      <4> QED  BY <1>12, <1>13, <3>2, <4>1 DEF StoredTo
    <3> QED  BY <1>1, <3>1, <3>2
  <2>2. Current' = Current  BY <1>8 DEF Current
  <2> QED  BY <2>1, <2>2 DEF Owed
<1>16. call.batch[k].obj = p /\ call.batch[k].val = InHand.val  BY <1>2, <1>12 DEF InHand
<1>17. /\ Allowed(call.batch, m, Current)[p] = {InHand.val}
       /\ o # p => Allowed(call.batch, m, Current)[o] = Allowed(call.batch, k, Current)[o]
  <2>1. PICK c \in Seq(Entry) : c = call.batch  BY <1>11
  <2>2. /\ Allowed(c, m, Current)[c[k].obj] = {c[k].val}
        /\ \A q \in Obj : q # c[k].obj => Allowed(c, m, Current)[q] = Allowed(c, k, Current)[q]
    <3>1. k \in 1 .. Len(c)  BY <1>12, <2>1
    <3> QED  BY ONLY SMTT(30), <1>13, <3>1, c \in Seq(Entry), AllowedNext
  <2> QED  BY <1>16, <2>1, <2>2
<1>18. /\ o # p => \A v \in Owed[o] : v \in Owed'[o]
       /\ o = p => Good(values, s, p, Owed'[o])
  BY <1>6, <1>14, <1>15, <1>17
<1>19. Answers(values, o, index'.slot, Filled', Owed'[o])
  BY <1>5, <1>6, <1>7, <1>10, <1>18, AnswersStored
<1> QED  BY <1>8, <1>19

-----------------------------------------------------------------------------
(* The values that a scan has seen last.                                   *)

LEMMA LastFirst ==
  ASSUME StoreInv, pc \notin {"closed", "migrate"}, NEW o \in Obj
  PROVE  NoVal \in LastVals(values, o, 1) /\ 1 <= Len(values)
<1>1. values \in Seq(Cell) /\ values # <<>> /\ values[1] = FileHeader
  BY DEF StoreInv, HeaderInv, Typed, FilesTyped
<1>2. NoObj \notin Obj  BY ObjectAssumption
<1>3. \A i \in 1 .. 1 : ~EndOfObj(values, i, o)  BY <1>1, <1>2 DEF EndOfObj, EndIn, FileHeader
<1>4. Agrees(values, o, 1, {NoVal})  BY <1>3 DEF Agrees
<1> QED  BY <1>1, <1>4 DEF LastVals

LEMMA LastCurrent ==
  ASSUME NEW f \in Seq(Cell), NEW n \in 0 .. Len(f), NEW o \in Obj, NEW v \in LastVals(f, o, n),
         NEW V, Agrees(f, o, n, V)
  PROVE  v \in V
<1>1. Agrees(f, o, n, {v})  BY DEF LastVals
<1>2. Len(f) \in Nat /\ n \in Nat /\ NoVal \notin Val  BY ObjectAssumption
<1>3. ASSUME NEW i \in 1 .. n, EndOfObj(f, i, o)  PROVE f[i].val # NoVal
  <2>1. f[i] \in Cell /\ f[i].obj \in Obj  BY <1>2, <1>3 DEF EndOfObj
  <2> QED  BY <1>2, <2>1, CellFields
<1>4. CASE \A i \in 1 .. n : ~EndOfObj(f, i, o)
  <2>1. v = NoVal  BY <1>1, <1>4 DEF Agrees, IsLast
  <2>2. NoVal \in V  BY <1>4 DEF Agrees, IsLast
  <2> QED  BY <2>1, <2>2
<1>5. CASE \E i \in 1 .. n : EndOfObj(f, i, o)
  <2>1. PICK i \in 1 .. n : IsLast(f, i, o, n) /\ f[i].val = v  BY <1>1, <1>5 DEF Agrees
  <2>2. PICK j \in 1 .. n : IsLast(f, j, o, n) /\ f[j].val \in V  BY <1>5 DEF Agrees
  <2>3. ~(j \in i + 1 .. n) /\ ~(i \in j + 1 .. n)  BY <2>1, <2>2 DEF IsLast
  <2>4. i = j  BY <1>2, <2>3
  <2> QED  BY <2>1, <2>2, <2>4
<1> QED  BY <1>4, <1>5

\* The scan steps over a record of p.
LEMMA LastRecord ==
  ASSUME StoreInv, Whole, next > 0, ScanValid, NEW p, p = values[next + 1].obj,
         NEW e, e = RecordEnd(next), NEW s, s.offset = next
  PROVE  /\ p \in Obj /\ e \in Nat /\ e > 0 /\ e <= Len(values) /\ ObjIn(values, s) = p
         /\ Good(values, s, p, LastVals(values, p, e))
         /\ \A o \in Obj : o # p => \A v \in LastVals(values, o, next) : v \in LastVals(values, o, e)
<1>1. /\ next \in Nat /\ values \in Seq(Cell) /\ Len(values) \in Nat
      /\ IsValidRecordHeader(next) /\ RecordEnd(next) <= Len(values)
  BY DEF StoreInv, OffsetInv, Typed, FilesTyped, ScanValid
<1>2. PICK n \in Nat : n = next  BY <1>1
<1>3. PICK l \in Nat : l = ValLenAt(n)  BY <1>1, <1>2, ValidCell DEF StoreInv, Typed
<1>4. /\ n + 1 \in 2 .. Len(values) /\ values[n + 1].obj = p /\ p \in Obj /\ values[n + 1].val \in Val
      /\ values[n + 1].at = 0 /\ l = ValLen[values[n + 1].val] /\ e = n + 1 + l
  <2>1. /\ n + 1 \in 1 .. Len(values) /\ values[n + 1].obj \in Obj /\ values[n + 1].val \in Val
        /\ values[n + 1].at = 0 /\ ValLenAt(n) = ValLen[values[n + 1].val]
        /\ RecordEnd(n) = n + 1 + ValLenAt(n)
    BY <1>1, <1>2, ValidCell DEF StoreInv, Typed
  <2>2. n + 1 \in 2 .. Len(values)  BY <1>1, <1>2, <2>1
  <2> QED  BY <1>2, <1>3, <2>1, <2>2
<1>5. PICK v \in Val : v = values[n + 1].val  BY <1>4
<1>6. e <= Len(values) /\ e \in Nat  BY <1>1, <1>2, <1>4
<1>7. WholeTo(values, Len(values))  BY DEF Whole, WholeTo
<1>8. \A k \in 0 .. l : /\ n + 1 + k \in 2 .. Len(values)
                        /\ values[n + 1 + k] = [obj |-> p, val |-> v, at |-> k]
  <2>1. PICK i \in 2 .. Len(values) : i = n + 1  BY <1>4
  <2>2. /\ values[i].at = 0 /\ values[i].obj = p /\ values[i].val = v /\ l = ValLen[values[i].val]
    BY <1>4, <1>5, <2>1
  <2>3. \A k \in 0 .. ValLen[values[i].val] :
              /\ i - values[i].at + k \in 2 .. Len(values)
              /\ values[i - values[i].at + k] = [obj |-> values[i].obj, val |-> values[i].val, at |-> k]
    BY <1>1, <1>7, WholeCell
  <2>4. \A k \in 0 .. l : i - 0 + k = n + 1 + k  BY <2>1
  <2> QED  BY <2>2, <2>3, <2>4
<1>9. ASSUME NEW i \in n + 1 .. e  PROVE values[i].obj = p /\ values[i].val = v /\ values[i].at = i - n - 1
  <2>1. PICK k \in Int : k = i - n - 1  OBVIOUS
  <2>2. k \in 0 .. l /\ i = n + 1 + k  BY ONLY <1>4, <2>1, n \in Nat, l \in Nat, i \in n + 1 .. e
  <2>3. values[i] = [obj |-> p, val |-> v, at |-> k]  BY <1>8, <2>2
  <2> QED  BY <2>1, <2>3
<1>10. Agrees(values, p, e, {v})
  <2>1. e \in n + 1 .. e /\ e - n - 1 = l /\ e \in 1 .. e
    <3>1. e = n + 1 + l  BY <1>4
    <3> QED  BY ONLY <3>1, n \in Nat, l \in Nat
  <2>2. values[e].obj = p /\ values[e].val = v /\ values[e].at = l  BY <1>9, <2>1
  <2>3. EndOfObj(values, e, p)  BY <1>4, <1>5, <2>2 DEF EndOfObj, EndIn
  <2>4. \A j \in e + 1 .. e : FALSE  BY <1>6
  <2>5. IsLast(values, e, p, e)  BY <2>1, <2>3, <2>4 DEF IsLast
  <2> QED  BY <2>1, <2>2, <2>5 DEF Agrees
<1>11. v \in LastVals(values, p, e)  BY <1>10 DEF LastVals
<1>12. ASSUME NEW o \in Obj, o # p, NEW w \in LastVals(values, o, next)  PROVE w \in LastVals(values, o, e)
  <2>1. Agrees(values, o, n, {w}) /\ w \in Val \cup {NoVal}  BY <1>2 DEF LastVals
  <2>2. \A i \in n + 1 .. e : EndOfObj(values, i, o) => values[i].val \in {w}
    BY <1>9, <1>12 DEF EndOfObj
  <2>3. n <= e  BY <1>4
  <2>4. Agrees(values, o, e, {w})  BY <1>6, <2>1, <2>2, <2>3, AgreesExtends
  <2> QED  BY <2>1, <2>4 DEF LastVals
<1>13. Intact(values, n)
  <2>1. ASSUME NEW k \in 1 .. l
        PROVE  n + k + 1 \in DOMAIN values /\ values[n + k + 1] = [values[n + 1] EXCEPT !.at = k]
    <3>1. k \in 0 .. l /\ n + 1 + k = n + k + 1 /\ 0 \in 0 .. l /\ n + 1 + 0 = n + 1  OBVIOUS
    <3>2. /\ n + k + 1 \in 2 .. Len(values) /\ values[n + k + 1] = [obj |-> p, val |-> v, at |-> k]
          /\ values[n + 1] = [obj |-> p, val |-> v, at |-> 0]
      BY <1>8, <3>1
    <3> QED  BY <1>1, <3>2
  <2> QED  BY <1>4, <2>1 DEF Intact
<1>14. Good(values, s, p, LastVals(values, p, e)) /\ ObjIn(values, s) = p
  BY <1>2, <1>4, <1>5, <1>11, <1>13 DEF Good, ObjIn
<1>15. e > 0  BY <1>4
<1> QED  BY <1>4, <1>6, <1>12, <1>14, <1>15

-----------------------------------------------------------------------------
(* A build loses no bucket.                                                *)

LEMMA CarriedNone ==
  ASSUME NEW file, NEW o, NEW c, NEW f, NEW S, NEW V
  PROVE  /\ Carried(file, o, c, {}, f, S, V) <=> Answers(file, o, f, S, V)
         /\ Carried(file, o, f, S, c, {}, V) <=> Answers(file, o, f, S, V)
BY DEF Carried, Answers, Held, Missing

\* What the steps of a build have in common.
LEMMA BuildStep ==
  ASSUME StoreInv, StoreInv', \/ Truncate \/ Zero \/ StoreHeader \/ PlaceExistingBucket \/ CountPlaced
                              \/ EnsureCapacityForInsert
  PROVE  /\ pc \in BuildPcs /\ pc' \in BuildPcs /\ UNCHANGED <<values, next, acked, maybe>>
         /\ build'.resume = build.resume /\ Resizing' = Resizing /\ Rebuilding' = Rebuilding
         /\ Whole' = Whole /\ Current' = Current /\ Seen' = Seen
<1>1. build = [count |-> build.count, copy |-> build.copy, resume |-> build.resume]
  BY DEF StoreInv, Typed, BuildTyped
<1>2. pc \in BuildPcs /\ pc' \in BuildPcs /\ UNCHANGED <<values, next, acked, maybe>>
  BY DEF Truncate, Zero, StoreHeader, PlaceExistingBucket, CountPlaced, BuildIndex,
         EnsureCapacityForInsert, BuildPcs, disk, history
<1>3. build'.resume = build.resume
  <2>1. \/ build' = build \/ (\E c : build' = [build EXCEPT !.copy = c])
        \/ \E c : build' = [build EXCEPT !.count = c]
    BY DEF Truncate, Zero, StoreHeader, PlaceExistingBucket, CountPlaced, EnsureCapacityForInsert
  <2> QED  BY <1>1, <2>1
<1>4. Resizing' = Resizing /\ Rebuilding' = Rebuilding
  BY <1>2, <1>3 DEF Resizing, Rebuilding, BuildPcs
<1>5. Whole' = Whole /\ Current' = Current  BY <1>2 DEF Whole, Current
<1>6. Seen' = Seen  BY <1>2 DEF Seen, BuildPcs
<1> QED  BY <1>2, <1>3, <1>4, <1>5, <1>6

LEMMA CarriedBefore ==
  ASSUME StoreInv, StoreInv', Truncate \/ Zero \/ StoreHeader \/ EnsureCapacityForInsert,
         NEW o, NEW V, Carried(values, o, build.copy, Pending, index.slot, Placed, V)
  PROVE  Carried(values, o, build'.copy, Pending', index'.slot, Placed', V)
<1>1. /\ pc \in {"double", "truncate", "zero", "header"}
      /\ pc' \in {"double", "truncate", "zero", "header"} \/ (StoreHeader /\ pc = "header" /\ pc' = "place")
      /\ build' = build \/ build' = [build EXCEPT !.count = 2 * @]
  BY DEF Truncate, Zero, StoreHeader, BuildIndex, EnsureCapacityForInsert
<1>2. build'.copy = build.copy
  <2>1. build = [count |-> build.count, copy |-> build.copy, resume |-> build.resume]
    BY DEF StoreInv, Typed, BuildTyped
  <2> QED  BY <1>1, <2>1
<1>3. Pending' = Pending  BY <1>1, <1>2 DEF Pending, ToPlace
<1>4. Placed = {}  BY <1>1 DEF Placed
<1>5. Placed' = {}
  <2>1. CASE pc' \in {"double", "truncate", "zero", "header"}  BY <2>1 DEF Placed
  <2>2. CASE StoreHeader /\ pc = "header" /\ pc' = "place"
    <3>1. IndexTyped /\ build.count \in Nat /\ index' = [index EXCEPT !.header = TRUE, !.bucketCount = build.count]
      BY <2>2 DEF StoreInv, Typed, BuildTyped, StoreHeader, BuildIndex
    <3>2. Filled' = Filled  BY <3>1, HeaderStored
    <3>3. index.slot = [b \in 0 .. build.count - 1 |-> EmptySlot]  BY <2>2 DEF StoreInv, LayoutInv
    <3>4. Filled = {}
      <4>1. \A b \in DOMAIN index.slot : index.slot[b] = EmptySlot  BY <3>3
      <4> QED  BY <4>1, EmptySlotTyped DEF Filled
    <3> QED  BY <2>2, <3>2, <3>4 DEF Placed
  <2> QED  BY <1>1, <2>1, <2>2
<1>6. Answers(values, o, build.copy, Pending, V)  BY <1>4, CarriedNone
<1>7. Carried(values, o, build.copy, Pending, index'.slot, {}, V)  BY <1>6, CarriedNone
<1> QED  BY <1>2, <1>3, <1>5, <1>7

LEMMA CarriedPlace ==
  ASSUME StoreInv, StoreInv', PlaceExistingBucket,
         NEW o, NEW V, Carried(values, o, build.copy, Pending, index.slot, Placed, V)
  PROVE  Carried(values, o, build'.copy, Pending', index'.slot, Placed', V)
<1>1. PICK m : m = Min(ToPlace)  OBVIOUS
<1>2. PICK s : s = build.copy[m]  OBVIOUS
<1>3. PICK b : b = FirstEmpty(s.hash)  OBVIOUS
<1>4. /\ StoresIn(b, s) /\ b \notin Filled /\ m \in ToPlace /\ pc = "place" /\ pc' = "placeCount"
  BY <1>1, <1>2, <1>3, PlaceStores
<1>5. build' = build  BY <1>4 DEF StoresIn
<1>6. Pending = ToPlace /\ Pending' = ToPlace \ {m} /\ Placed = Filled /\ Placed' = Filled'
  BY <1>1, <1>4, <1>5 DEF Pending, Placed, ToPlace
<1>7. /\ index'.slot[b] = s /\ \A c \in Filled : index'.slot[c] = index.slot[c]
      /\ Filled' = Filled \cup {b}
  <2>1. IndexTyped /\ b \in DOMAIN index.slot /\ s \in SlotType /\ s.hash # 0
        /\ index' = [index EXCEPT !.slot[b] = s]
    BY <1>4 DEF StoresIn, StoreInv, Typed
  <2>2. /\ index'.slot[b] = s /\ Filled' = Filled \cup {b}
        /\ \A c \in DOMAIN index.slot : c # b => index'.slot[c] = index.slot[c]
    BY <2>1, SlotStored
  <2>3. \A c \in Filled : c \in DOMAIN index.slot /\ c # b  BY <1>4 DEF Filled
  <2> QED  BY <2>2, <2>3
<1>8. CASE Held(values, o, build.copy, ToPlace, V)
  <2>1. PICK x \in ToPlace : Good(values, build.copy[x], o, V)  BY <1>8 DEF Held
  <2>2. CASE x = m
    <3>1. Good(values, index'.slot[b], o, V) /\ b \in Filled'  BY <1>2, <1>7, <2>1, <2>2
    <3> QED  BY <1>6, <3>1 DEF Held, Carried
  <2>3. CASE x # m
    <3>1. x \in Pending' /\ Good(values, build'.copy[x], o, V)  BY <1>5, <1>6, <2>1, <2>3
    <3> QED  BY <3>1 DEF Held, Carried
  <2> QED  BY <2>2, <2>3
<1>9. CASE Held(values, o, index.slot, Filled, V)
  <2>1. PICK x \in Filled : Good(values, index.slot[x], o, V)  BY <1>9 DEF Held
  <2>2. x \in Placed' /\ Good(values, index'.slot[x], o, V)  BY <1>6, <1>7, <2>1
  <2> QED  BY <2>2 DEF Held, Carried
<1>10. CASE NoVal \in V /\ Missing(values, o, build.copy, ToPlace) /\ Missing(values, o, index.slot, Filled)
  <2>1. Missing(values, o, build'.copy, Pending')  BY <1>5, <1>6, <1>10 DEF Missing
  <2>2. ObjIn(values, s) # o  BY <1>2, <1>4, <1>10 DEF Missing
  <2>3. Missing(values, o, index'.slot, Placed')  BY <1>6, <1>7, <1>10, <2>2 DEF Missing
  <2> QED  BY <1>10, <2>1, <2>3 DEF Carried
<1> QED  BY <1>6, <1>8, <1>9, <1>10 DEF Carried

LEMMA CarriedCount ==
  ASSUME StoreInv, StoreInv', CountPlaced,
         NEW o, NEW V, Carried(values, o, build.copy, Pending, index.slot, Placed, V)
  PROVE  Carried(values, o, build'.copy, Pending', index'.slot, Placed', V)
<1>1. /\ pc = "placeCount" /\ pc' = "place" /\ index' = [index EXCEPT !.itemCount = @ + 1]
      /\ build' = [build EXCEPT !.copy = Restrict(@, ToPlace \ {Min(ToPlace)})]
  BY DEF CountPlaced, BuildIndex
<1>2. index'.slot = index.slot /\ Filled' = Filled  BY <1>1, ItemCounted DEF StoreInv, Typed
<1>3. ToPlace # {} /\ BuildTyped  BY <1>1 DEF StoreInv, LayoutInv, Typed
<1>4. ToPlace' = ToPlace \ {Min(ToPlace)} /\ \A b \in ToPlace' : build'.copy[b] = build.copy[b]
  BY <1>1, <1>3, PlacedTaken
<1>5. Pending' = Pending /\ Pending = ToPlace' /\ Placed = Filled /\ Placed' = Filled
  BY <1>1, <1>2, <1>4 DEF Pending, Placed
<1>6. PICK c : c = build'.copy  OBVIOUS
<1>7. \A b \in Pending : c[b] = build.copy[b]  BY <1>4, <1>5, <1>6
<1>8. Carried(values, o, c, Pending, index.slot, Filled, V)
  BY <1>5, <1>7 DEF Carried, Held, Missing
<1> QED  BY <1>2, <1>5, <1>6, <1>8

LEMMA BuildBuilds ==
  ASSUME StoreInv, StoreInv', BuildInv,
         \/ Truncate \/ Zero \/ StoreHeader \/ PlaceExistingBucket \/ CountPlaced
         \/ EnsureCapacityForInsert
  PROVE  BuildInv'
<1>1. /\ pc \in BuildPcs /\ pc' \in BuildPcs /\ UNCHANGED <<values, next, acked, maybe>>
      /\ build'.resume = build.resume /\ Resizing' = Resizing /\ Rebuilding' = Rebuilding
      /\ Whole' = Whole /\ Current' = Current /\ Seen' = Seen
  BY BuildStep
<1>2. \A o, V : Carried(values, o, build.copy, Pending, index.slot, Placed, V) =>
                Carried(values, o, build'.copy, Pending', index'.slot, Placed', V)
  BY CarriedBefore, CarriedPlace, CarriedCount
<1>3. Zero \/ suspect' = suspect
  BY DEF Truncate, StoreHeader, PlaceExistingBucket, CountPlaced, EnsureCapacityForInsert, history
<1>4. Zero => pc = "zero" /\ pc' = "header" /\ suspect' = IF build.resume = "scan" THEN ~Whole ELSE suspect
  BY DEF Zero, BuildIndex
<1>5. (Resizing /\ ~suspect =>
         \A o \in Obj : Carried(values, o, build.copy, Pending, index.slot, Placed, Current[o]))'
  <2> SUFFICES ASSUME Resizing', ~suspect', NEW o \in Obj
               PROVE  Carried(values', o, build'.copy, Pending', index'.slot, Placed', Current'[o])
    OBVIOUS
  <2>1. Resizing /\ build.resume = "append"  BY <1>1 DEF Resizing
  <2>2. ~suspect  BY <1>3, <1>4, <2>1
  <2>3. Carried(values, o, build.copy, Pending, index.slot, Placed, Current[o])
    BY <2>1, <2>2 DEF BuildInv
  <2> QED  BY <1>1, <1>2, <2>3
<1>6. (Rebuilding /\ Whole =>
         \A o \in Obj : Carried(values, o, build.copy, Pending, index.slot, Placed,
                                LastVals(values, o, Seen)))'
  <2> SUFFICES ASSUME Rebuilding', Whole', NEW o \in Obj
               PROVE  Carried(values', o, build'.copy, Pending', index'.slot, Placed',
                              LastVals(values', o, Seen'))
    OBVIOUS
  <2>1. Rebuilding /\ Whole  BY <1>1
  <2>2. Carried(values, o, build.copy, Pending, index.slot, Placed, LastVals(values, o, Seen))
    BY <2>1 DEF BuildInv
  <2> QED  BY <1>1, <1>2, <2>2
<1>7. Rebuilding' => Seen' <= Len(values')  BY <1>1 DEF BuildInv
<1>8. ASSUME Rebuilding', ~suspect', next' > 0 \/ pc' \notin {"truncate", "zero"}  PROVE Whole'
  <2>1. CASE Zero
    <3>1. build.resume = "scan"  BY <1>1, <1>8, <2>1 DEF Rebuilding, BuildPcs
    <3> QED  BY <1>1, <1>4, <1>8, <2>1, <3>1
  <2>2. CASE ~Zero
    <3>1. Rebuilding /\ ~suspect  BY <1>1, <1>3, <1>8, <2>2
    <3>2. next > 0 \/ pc \notin {"truncate", "zero"}
      <4>1. CASE Truncate  BY <1>1, <1>8, <4>1 DEF Truncate, BuildIndex
      <4>2. CASE StoreHeader \/ PlaceExistingBucket \/ CountPlaced \/ EnsureCapacityForInsert
        BY <4>2 DEF StoreHeader, PlaceExistingBucket, CountPlaced, EnsureCapacityForInsert, BuildIndex
      <4> QED  BY <2>2, <4>1, <4>2
    <3> QED  BY <1>1, <3>1, <3>2 DEF BuildInv
  <2> QED  BY <2>1, <2>2
<1> QED  BY <1>5, <1>6, <1>7, <1>8 DEF BuildInv

LEMMA NoneBuilding ==
  ASSUME pc' \notin BuildPcs \cup {"scan", "scanCount"}
  PROVE  BuildInv'
<1>1. ~Resizing' /\ ~Rebuilding'  BY DEF Resizing, Rebuilding
<1> QED  BY <1>1 DEF BuildInv

LEMMA BuildStarts ==
  ASSUME StoreInv, StoreInv', StartRebuild
  PROVE  BuildInv'
<1>1. /\ pc = "openIndex" /\ pc' = "truncate" /\ UNCHANGED <<values, next>>
      /\ build' = [NoBuild EXCEPT !.count = InitialBucketCount, !.resume = "scan"]
  BY DEF StartRebuild, disk
<1>2. build'.resume = "scan" /\ build'.copy = NoSlots  BY ONLY <1>1 DEF NoBuild
<1>3. next = 0  BY <1>1 DEF StoreInv, OffsetInv
<1>4. ToPlace' = {}  BY <1>2 DEF ToPlace, NoSlots
<1>5. Pending' = {} /\ Placed' = {} /\ Seen' = 1  BY <1>1, <1>3, <1>4 DEF Pending, Placed, Seen
<1>6. ~Resizing'  BY <1>2 DEF Resizing
<1>7. ASSUME NEW o \in Obj
      PROVE  /\ Carried(values', o, build'.copy, Pending', index'.slot, Placed', LastVals(values', o, Seen'))
             /\ Seen' <= Len(values')
  <2>1. NoVal \in LastVals(values, o, 1) /\ 1 <= Len(values)  BY <1>1, LastFirst
  <2> QED  BY <1>1, <1>5, <2>1 DEF Carried, Missing
<1>8. Seen' <= Len(values')
  <2>1. values \in Seq(Cell) /\ values # <<>>
    BY <1>1 DEF StoreInv, HeaderInv, Typed, FilesTyped
  <2> QED  BY <1>1, <1>5, <2>1
<1>9. ~(next' > 0 \/ pc' \notin {"truncate", "zero"})  BY <1>1, <1>3
<1> QED  BY <1>6, <1>7, <1>8, <1>9 DEF BuildInv

\* A resize starts with the buckets that are filled.
LEMMA CarriedResize ==
  ASSUME StoreInv, pc \in {"scan", "idle"}, NEW label \in {"scan", "append"}, StartResize(label),
         NEW o, NEW V, Answers(values, o, index.slot, Filled, V)
  PROVE  Carried(values, o, build'.copy, Pending', index'.slot, Placed', V)
<1>1. IndexTyped /\ Ready  BY DEF StoreInv, Typed, LayoutInv
<1>2. ToPlace' = Filled /\ pc' = "double" /\ \A b \in Filled : build'.copy[b] = index.slot[b]
  BY <1>1, ResizeStarted
<1>3. Pending' = Filled /\ Placed' = {}  BY <1>2 DEF Pending, Placed
<1>4. PICK c : c = build'.copy  OBVIOUS
<1>5. Answers(values, o, c, Filled, V)  BY <1>2, <1>4, AnswersSame
<1>6. Carried(values, o, c, Filled, index'.slot, {}, V)  BY <1>5, CarriedNone
<1> QED  BY <1>3, <1>4, <1>6

LEMMA BuildGrows ==
  ASSUME StoreInv, StoreInv', BuildInv, ScanGrows
  PROVE  BuildInv'
<1>1. pc = "scan" /\ pc' = "double" /\ UNCHANGED <<values, next, suspect>> /\ StartResize("scan")
  BY DEF ScanGrows, Scanning, StartResize, disk, history
<1>2. build'.resume = "scan"  BY <1>1 DEF StartResize
<1>3. next > 0  BY <1>1 DEF StoreInv, OffsetInv
<1>4. ToPlace = {}  BY <1>1 DEF StoreInv, Typed, BuildTyped, BuildPcs
<1>5. Pending = {} /\ Placed = Filled /\ Seen = next /\ Seen' = next
  BY <1>1, <1>3, <1>4 DEF Pending, Placed, Seen
<1>6. Rebuilding /\ ~Resizing' /\ Whole' = Whole  BY <1>1, <1>2 DEF Rebuilding, Resizing, Whole
<1>7. ASSUME Whole', NEW o \in Obj
      PROVE  Carried(values', o, build'.copy, Pending', index'.slot, Placed', LastVals(values', o, Seen'))
  <2>1. Carried(values, o, build.copy, {}, index.slot, Filled, LastVals(values, o, next))
    BY <1>5, <1>6, <1>7 DEF BuildInv
  <2>2. Answers(values, o, index.slot, Filled, LastVals(values, o, next))  BY <2>1, CarriedNone
  <2>3. Carried(values, o, build'.copy, Pending', index'.slot, Placed', LastVals(values, o, next))
    BY <1>1, <2>2, CarriedResize
  <2> QED  BY <1>1, <1>5, <2>3
<1>8. Seen' <= Len(values')  BY <1>1, <1>5, <1>6 DEF BuildInv
<1>9. ~suspect' => Whole'  BY <1>1, <1>3, <1>6 DEF BuildInv
<1> QED  BY <1>6, <1>7, <1>8, <1>9 DEF BuildInv

\* The index in use answers for every object.
LEMMA IndexAnswers ==
  ASSUME StoreInv, IndexInv, ~suspect, pc \in {"idle", "readonly"}
  PROVE  \A o \in Obj : Answers(values, o, index.slot, Filled, Current[o])
<1>1. ~Stale  BY InUse
<1>2. Ready  BY DEF StoreInv, LayoutInv
<1>3. Trusted  BY <1>1, <1>2 DEF Trusted, HalfBuilt, Ready, Grown
<1>4. Owed = Current  BY OwedRests
<1> QED  BY <1>3, <1>4 DEF IndexInv

LEMMA BuildCall ==
  ASSUME StoreInv, StoreInv', IndexInv, PutStructs \/ PutUniqueStructs
  PROVE  BuildInv'
<1>1. /\ pc = "idle" /\ UNCHANGED <<values, index, acked, maybe, suspect>>
      /\ pc' = "append" \/ StartResize("append")
  BY DEF PutStructs, PutUniqueStructs, CallWriteStructs, disk, history
<1>2. CASE pc' = "append"  BY <1>2, NoneBuilding DEF BuildPcs
<1>3. CASE StartResize("append")
  <2>1. pc' = "double" /\ build'.resume = "append"  BY <1>3 DEF StartResize
  <2>2. ~Rebuilding'  BY <2>1 DEF Rebuilding
  <2>3. Current' = Current  BY <1>1 DEF Current
  <2>4. ASSUME ~suspect', NEW o \in Obj
        PROVE  Carried(values', o, build'.copy, Pending', index'.slot, Placed', Current'[o])
    <3>1. Answers(values, o, index.slot, Filled, Current[o])  BY <1>1, <2>4, IndexAnswers
    <3>2. Carried(values, o, build'.copy, Pending', index'.slot, Placed', Current[o])
      BY <1>1, <1>3, <3>1, CarriedResize
    <3> QED  BY <1>1, <2>3, <3>2
  <2> QED  BY <2>2, <2>4 DEF BuildInv
<1> QED  BY <1>1, <1>2, <1>3

LEMMA BuildBuilt ==
  ASSUME StoreInv, StoreInv', BuildInv, Built
  PROVE  BuildInv'
<1>1. /\ pc = "place" /\ pc' = build.resume /\ UNCHANGED <<values, index, build, suspect>> /\ ToPlace = {}
      /\ next' = IF build.resume = "scan" /\ next = 0 THEN 1 ELSE next
  BY DEF Built, BuildIndex
<1>2. build.resume \in {"scan", "append"}  BY <1>1 DEF StoreInv, Typed, BuildTyped, BuildPcs
<1>3. CASE build.resume = "append"  BY <1>1, <1>3, NoneBuilding DEF BuildPcs
<1>4. CASE build.resume = "scan"
  <2>1. Rebuilding /\ ~Resizing' /\ Whole' = Whole
    BY <1>1, <1>4 DEF Rebuilding, Resizing, BuildPcs, Whole
  <2>2. Pending = {} /\ Pending' = {} /\ Placed = Filled /\ Placed' = Filled
    BY <1>1, <1>4 DEF Pending, Placed, ToPlace, Filled
  <2>3. Seen' = Seen  BY <1>1, <1>4 DEF Seen
  <2>4. ASSUME Whole', NEW o \in Obj
        PROVE  Carried(values', o, build'.copy, Pending', index'.slot, Placed', LastVals(values', o, Seen'))
    BY <1>1, <2>1, <2>2, <2>3, <2>4 DEF BuildInv
  <2>5. Seen' <= Len(values') /\ (~suspect' => Whole')  BY <1>1, <2>1, <2>3 DEF BuildInv
  <2> QED  BY <2>1, <2>4, <2>5 DEF BuildInv
<1> QED  BY <1>2, <1>3, <1>4

LEMMA BuildScans ==
  ASSUME StoreInv, StoreInv', BuildInv, ScanRecord
  PROVE  BuildInv'
<1>1. PICK p : p = values[next + 1].obj  OBVIOUS
<1>2. PICK s : s = [hash |-> HashOf[p], offset |-> next]  OBVIOUS
<1>3. /\ StoresIn(FindBucket(p), s) /\ p \in Obj /\ Stops(p) # {} /\ pc = "scan"
      /\ pc' \in {"scan", "scanCount"} /\ ToPlace = {} /\ ~FindCorrupt(p) /\ ScanValid
  BY <1>1, <1>2, ScanStores
<1>4. PICK e : e = RecordEnd(next)  OBVIOUS
<1>5. /\ UNCHANGED <<values, build, suspect>>
      /\ (pc' = "scan" /\ next' = e) \/ (pc' = "scanCount" /\ next' = next)
  BY <1>3, <1>4 DEF ScanRecord, NextRecord, history
<1>6. next > 0 /\ s.offset = next  BY <1>2, <1>3 DEF StoreInv, OffsetInv
<1>7. e \in Nat /\ e > 0 /\ e <= Len(values)
  <2>1. next \in Nat /\ IsValidRecordHeader(next) /\ FilesTyped
    BY <1>3 DEF ScanValid, StoreInv, OffsetInv, Typed
  <2>2. e \in Nat /\ e > next  BY <1>4, <2>1, ValidCell
  <2> QED  BY <1>3, <1>4, <1>6, <2>1, <2>2 DEF ScanValid
<1>8. Seen = next /\ Seen' = e
  <2>1. Seen = next  BY <1>3, <1>6 DEF Seen
  <2>2. CASE pc' = "scan" /\ next' = e  BY <1>7, <2>1, <2>2 DEF Seen
  <2>3. CASE pc' = "scanCount" /\ next' = next
    <3>1. RecordEnd(next)' = e  BY <1>4, <1>5, <2>3 DEF RecordEnd, ValLenAt
    <3> QED  BY <2>1, <2>3, <3>1 DEF Seen
  <2> QED  BY <1>5, <2>1, <2>2, <2>3
<1>9. Rebuilding /\ ~Resizing' /\ Whole' = Whole
  BY <1>3, <1>5 DEF Rebuilding, Resizing, BuildPcs, Whole
<1>10. Pending = {} /\ Pending' = {} /\ Placed = Filled /\ Placed' = Filled'
  BY <1>3, <1>5 DEF Pending, Placed, ToPlace
<1>11. ASSUME Whole', NEW o \in Obj
       PROVE  Carried(values', o, build'.copy, Pending', index'.slot, Placed', LastVals(values', o, Seen'))
  <2>1. /\ Good(values, s, p, LastVals(values, p, e)) /\ ObjIn(values, s) = p
        /\ o # p => \A v \in LastVals(values, o, next) : v \in LastVals(values, o, e)
    BY <1>1, <1>3, <1>4, <1>6, <1>9, <1>11, LastRecord
  <2>2. Answers(values, o, index.slot, Filled, LastVals(values, o, next))
    <3>1. Carried(values, o, build.copy, {}, index.slot, Filled, LastVals(values, o, next))
      BY <1>8, <1>9, <1>10, <1>11 DEF BuildInv
    <3> QED  BY <3>1, CarriedNone
  <2>3. PICK b : b = FindBucket(p)  OBVIOUS
  <2>4. StoresIn(b, s) /\ (b \in Filled => ObjIn(values, index.slot[b]) = p)
    BY <1>3, <2>3, FoundIsOwn DEF StoresIn
  <2>5. o = p => Good(values, s, p, LastVals(values, o, e))  BY <2>1
  <2>6. Answers(values, o, index'.slot, Filled', LastVals(values, o, e))
    BY <2>1, <2>2, <2>4, <2>5, AnswersStored
  <2>7. Carried(values, o, build'.copy, {}, index'.slot, Filled', LastVals(values, o, e))
    BY <2>6, CarriedNone
  <2> QED  BY <1>5, <1>8, <1>10, <2>7
<1>12. Seen' <= Len(values') /\ (~suspect' => Whole')
  BY <1>5, <1>7, <1>8, <1>9, <1>3 DEF BuildInv
<1> QED  BY <1>9, <1>11, <1>12 DEF BuildInv

LEMMA BuildCounts ==
  ASSUME StoreInv, StoreInv', BuildInv, CountScanned
  PROVE  BuildInv'
<1>1. /\ pc = "scanCount" /\ pc' = "scan" /\ UNCHANGED <<values, build, suspect>>
      /\ next' = RecordEnd(next) /\ index' = [index EXCEPT !.itemCount = @ + 1]
  BY DEF CountScanned, NextRecord, history
<1>2. index'.slot = index.slot /\ Filled' = Filled  BY <1>1, ItemCounted DEF StoreInv, Typed
<1>3. next' > 0  BY <1>1 DEF StoreInv, OffsetInv
<1>4. Seen' = Seen  BY <1>1, <1>3 DEF Seen
<1>5. ToPlace = {}  BY <1>1 DEF StoreInv, Typed, BuildTyped, BuildPcs
<1>6. Pending = {} /\ Pending' = {} /\ Placed = Filled /\ Placed' = Filled
  BY <1>1, <1>2, <1>5 DEF Pending, Placed, ToPlace
<1>7. Rebuilding /\ ~Resizing' /\ Whole' = Whole
  BY <1>1 DEF Rebuilding, Resizing, BuildPcs, Whole
<1>8. ASSUME Whole', NEW o \in Obj
      PROVE  Carried(values', o, build'.copy, Pending', index'.slot, Placed', LastVals(values', o, Seen'))
  BY <1>1, <1>2, <1>4, <1>6, <1>7, <1>8 DEF BuildInv
<1>9. Seen' <= Len(values') /\ (~suspect' => Whole')  BY <1>1, <1>4, <1>7 DEF BuildInv
<1> QED  BY <1>7, <1>8, <1>9 DEF BuildInv

LEMMA BuildStutter ==
  ASSUME BuildInv, UNCHANGED vars
  PROVE  BuildInv'
<1>1. UNCHANGED <<values, index, pc, next, build, acked, maybe, suspect>>
  BY DEF vars, disk, locals, history
<1>2. /\ Resizing' = Resizing /\ Rebuilding' = Rebuilding /\ Whole' = Whole /\ Current' = Current
      /\ Pending' = Pending /\ Placed' = Placed
  BY <1>1 DEF Resizing, Rebuilding, Whole, Current, Pending, Placed, ToPlace, Filled
<1>3. Seen' = Seen  BY <1>1 DEF Seen, RecordEnd, ValLenAt
<1> QED  BY <1>1, <1>2, <1>3 DEF BuildInv

LEMMA NextBuild ==
  ASSUME StoreInv, StoreInv', IndexInv, BuildInv, [Next]_vars
  PROVE  BuildInv'
<1>1. CASE \/ Truncate \/ Zero \/ StoreHeader \/ PlaceExistingBucket \/ CountPlaced
           \/ EnsureCapacityForInsert
  BY <1>1, BuildBuilds
<1>2. CASE StartRebuild \/ ScanGrows \/ PutStructs \/ PutUniqueStructs \/ Built \/ ScanRecord
           \/ CountScanned \/ UNCHANGED vars
  BY <1>2, BuildStarts, BuildGrows, BuildCall, BuildBuilt, BuildScans, BuildCounts, BuildStutter
<1>3. CASE \/ OpenValueFile \/ CopyRecord \/ CopyFails \/ RenameMigrated \/ RemoveStaleIndex
           \/ UseIndex \/ OpenReadOnly
  <2>1. pc' \in {"migrate", "openIndex", "closed", "removeIndex", "idle", "readonly"}
    <3>1. CASE OpenValueFile \/ CopyRecord \/ CopyFails  BY <3>1 DEF OpenValueFile, CopyRecord, CopyFails, Closed
    <3>2. CASE RenameMigrated \/ RemoveStaleIndex \/ UseIndex
      BY <3>2 DEF RenameMigrated, RemoveStaleIndex, UseIndex
    <3>3. CASE OpenReadOnly  BY <3>3 DEF OpenReadOnly
    <3> QED  BY <1>3, <3>1, <3>2, <3>3
  <2> QED  BY <2>1, NoneBuilding DEF BuildPcs
<1>4. CASE MapFails \/ ScanFails \/ ScanEnds \/ UseUnmapped \/ Close \/ Crash \/ DeleteIndex
  <2>1. pc' \in {"unmapped", "closed", "idle"}
    <3>1. CASE MapFails  BY <3>1 DEF MapFails, WriteFails, Closed
    <3>2. CASE ScanFails \/ ScanEnds \/ UseUnmapped  BY <3>2 DEF ScanFails, ScanEnds, UseUnmapped, Closed
    <3>3. CASE Close \/ Crash \/ DeleteIndex  BY <3>3 DEF Close, Crash, DeleteIndex, Closed
    <3> QED  BY <1>4, <3>1, <3>2, <3>3
  <2> QED  BY <2>1, NoneBuilding DEF BuildPcs
<1>5. CASE AppendRecord \/ AppendFails \/ StoreEntry \/ CountEntry \/ FindFails \/ FinishWrite
  <2>1. pc' \in {"append", "store", "count", "idle"}
    <3>1. CASE AppendRecord \/ AppendFails  BY <3>1 DEF AppendRecord, AppendFails, AfterCut, WriteFails
    <3>2. CASE StoreEntry \/ CountEntry  BY <3>2 DEF StoreEntry, CountEntry, Storing
    <3>3. CASE FindFails \/ FinishWrite  BY <3>3 DEF FindFails, WriteFails, FinishWrite
    <3> QED  BY <1>5, <3>1, <3>2, <3>3
  <2> QED  BY <2>1, NoneBuilding DEF BuildPcs
<1> QED  BY <1>1, <1>2, <1>3, <1>4, <1>5, Zenon DEF Next

LEMMA InitBuild == Init => BuildInv
BY DEF Init, BuildInv, Resizing, Rebuilding, BuildPcs

-----------------------------------------------------------------------------
(* The index of a build that ends answers, and so does every index in use. *)

LEMMA IndexBuilt ==
  ASSUME StoreInv, StoreInv', BuildInv, Built
  PROVE  IndexInv'
<1>1. /\ pc = "place" /\ pc' = build.resume /\ UNCHANGED <<values, index, acked, maybe, suspect>>
      /\ ToPlace = {}
  BY DEF Built, BuildIndex
<1>2. build.resume \in {"scan", "append"}  BY <1>1 DEF StoreInv, Typed, BuildTyped, BuildPcs
<1>3. CASE build.resume = "scan"
  <2>1. HalfBuilt'  BY <1>1, <1>3 DEF HalfBuilt
  <2> QED  BY <2>1 DEF IndexInv, Trusted
<1>4. CASE build.resume = "append"
  <2>1. Owed' = Current' /\ Current' = Current  BY <1>1, <1>4, OwedRestsNext DEF Current
  <2>2. Resizing /\ Pending = {} /\ Placed = Filled /\ Filled' = Filled
    BY <1>1, <1>4 DEF Resizing, BuildPcs, Pending, Placed, Filled
  <2>3. ASSUME ~suspect', NEW o \in Obj  PROVE Answers(values', o, index'.slot, Filled', Owed'[o])
    <3>1. Carried(values, o, build.copy, {}, index.slot, Filled, Current[o])
      BY <1>1, <2>2, <2>3 DEF BuildInv
    <3>2. Answers(values, o, index.slot, Filled, Current[o])  BY <3>1, CarriedNone
    <3> QED  BY <1>1, <2>1, <2>2, <3>2
  <2> QED  BY <2>3 DEF IndexInv, Trusted
<1> QED  BY <1>2, <1>3, <1>4

LEMMA IndexScanned ==
  ASSUME StoreInv, StoreInv', BuildInv, FileInv, ScanEnds
  PROVE  IndexInv'
<1>1. /\ pc = "scan" /\ next >= Len(values) /\ pc' = "idle"
      /\ UNCHANGED <<values, index, acked, maybe, suspect>>
  BY DEF ScanEnds, disk, history
<1>2. values \in Seq(Cell) /\ Len(values) \in Nat /\ next \in Nat /\ next > 0
  BY <1>1 DEF StoreInv, OffsetInv, Typed, FilesTyped
<1>3. Rebuilding /\ Seen = next  BY <1>1, <1>2 DEF Rebuilding, Seen
<1>4. next = Len(values)  BY <1>1, <1>2, <1>3 DEF BuildInv
<1>5. ToPlace = {}  BY <1>1 DEF StoreInv, Typed, BuildTyped, BuildPcs
<1>6. Pending = {} /\ Placed = Filled /\ Filled' = Filled  BY <1>1, <1>5 DEF Pending, Placed, Filled
<1>7. Owed' = Current' /\ Current' = Current  BY <1>1, OwedRestsNext DEF Current
<1>8. ~Appending /\ ~IsLegacy
  BY <1>1, InUse DEF Appending, InCall, Resizing, BuildPcs, Stale
<1>9. ASSUME ~suspect', NEW o \in Obj  PROVE Answers(values', o, index'.slot, Filled', Owed'[o])
  <2>1. Whole  BY <1>1, <1>2, <1>3, <1>9 DEF BuildInv
  <2>2. WholeTo(values, Len(values))  BY <2>1 DEF Whole, WholeTo
  <2>3. Agrees(values, o, Len(values), Current[o])  BY <1>8, <2>2 DEF FileInv
  <2>4. Carried(values, o, build.copy, {}, index.slot, Filled, LastVals(values, o, Len(values)))
    BY <1>3, <1>4, <1>6, <2>1 DEF BuildInv
  <2>5. Answers(values, o, index.slot, Filled, LastVals(values, o, Len(values)))  BY <2>4, CarriedNone
  <2>6. \A v \in LastVals(values, o, Len(values)) : v \in Current[o]
    <3>1. PICK n \in 0 .. Len(values) : n = Len(values)  BY <1>2
    <3>2. \A v \in LastVals(values, o, n) : v \in Current[o]  BY <1>2, <2>3, <3>1, LastCurrent
    <3> QED  BY <3>1, <3>2
  <2>7. Answers(values, o, index.slot, Filled, Current[o])  BY <2>5, <2>6, AnswersSame
  <2> QED  BY <1>1, <1>6, <1>7, <2>7
<1> QED  BY <1>9 DEF IndexInv, Trusted

LEMMA NextIndex ==
  ASSUME StoreInv, StoreInv', NameInv, ProbeInv, FileInv, BuildInv, IndexInv, [Next]_vars
  PROVE  IndexInv'
<1>1. CASE \/ OpenValueFile \/ CopyRecord \/ CopyFails \/ RenameMigrated \/ UseIndex \/ StartRebuild
           \/ OpenReadOnly
  BY <1>1, IndexOpens
<1>2. CASE ScanFails \/ UseUnmapped \/ Close \/ Crash  BY <1>2, IndexCloses
<1>3. CASE PutStructs \/ PutUniqueStructs \/ AppendRecord \/ AppendFails \/ FindFails \/ FinishWrite
  BY <1>3, IndexWrites
<1>4. CASE EnsureCapacityForInsert \/ ScanGrows \/ UNCHANGED vars  BY <1>4, IndexBuilds
<1>5. CASE \/ CountPlaced \/ CountScanned \/ StoreHeader \/ Zero \/ RemoveStaleIndex \/ DeleteIndex
           \/ PlaceExistingBucket \/ ScanRecord
  BY <1>5, IndexUntrusted
<1>6. CASE CountEntry \/ Truncate \/ MapFails \/ StoreEntry \/ Built \/ ScanEnds
  BY <1>6, IndexCounts, IndexTruncates, IndexEntry, IndexBuilt, IndexScanned
<1> QED  BY <1>1, <1>2, <1>3, <1>4, <1>5, <1>6, Zenon DEF Next

LEMMA InitIndex == Init => IndexInv
<1> SUFFICES ASSUME Init  PROVE IndexInv  OBVIOUS
<1>1. PICK f \in InitialFiles : values = f.values /\ index = f.index  BY DEF Init
<1>2. (values = <<>> /\ index = NoIndex) \/ OldFile(values)  BY <1>1, FilesAssumption
<1>3. CASE index = NoIndex
  <2>1. index.header = FALSE  BY <1>3 DEF NoIndex
  <2> QED  BY <2>1 DEF IndexInv, Trusted
<1>4. CASE OldFile(values)
  <2>1. IsLegacy  BY <1>4 DEF OldFile, IsLegacy
  <2> QED  BY <2>1 DEF IndexInv, Trusted, Stale
<1> QED  BY <1>2, <1>3, <1>4

\* The files, and what is held of them in the index.
AnswerInv == FileInv /\ MigrateInv /\ BuildInv /\ IndexInv

LEMMA InitAnswer == Init => AnswerInv
BY InitFile, InitMigrate, InitBuild, InitIndex DEF AnswerInv

LEMMA NextAnswer ==
  ASSUME SafeErrors, SafeAppends, StoreInv, StoreInv', ReadInv, AnswerInv, [Next]_vars
  PROVE  AnswerInv'
<1>1. NameInv /\ ProbeInv  BY DEF ReadInv
<1> QED  BY <1>1, NextFile, NextMigrate, NextBuild, NextIndex DEF AnswerInv

\* An index that holds the last values makes GetStruct answer with them.
LEMMA GetAnswers ==
  ASSUME StoreInv, ReadInv, Serving, NEW o \in Obj, NEW V,
         Answers(values, o, index.slot, Filled, V)
  PROVE  GetStruct(o) \in V
<1>1. NameInv /\ ProbeInv /\ UniqueInv  BY DEF ReadInv
<1>2. ~Stale /\ Ready  BY InUse DEF Serving, StoreInv, LayoutInv
<1>3. Cardinality(Filled) < index.bucketCount  BY <1>1, <1>2 DEF ProbeInv, Ready, Grown
<1>4. ~FindCorrupt(o) /\ Stops(o) # {} /\ (Found(o) <=> FindBucket(o) \in Filled)
  BY <1>1, <1>2, <1>3, NotCorrupt
<1>5. CASE Held(values, o, index.slot, Filled, V)
  <2>1. PICK x \in Filled : Good(values, index.slot[x], o, V)  BY <1>5 DEF Held
  <2>2. x = FindBucket(o)  BY <1>1, <1>2, <2>1, OnlyFound DEF Good
  <2>3. PICK t : t = index.slot[x].offset  OBVIOUS
  <2>4. Intact(values, t) /\ values[t + 1].val \in V  BY <2>1, <2>3 DEF Good
  <2>5. ReadRecord(t) = values[t + 1].val  BY <2>4 DEF ReadRecord, Intact
  <2>6. GetStruct(o) = ReadRecord(t)  BY <1>4, <2>2, <2>3 DEF GetStruct
  <2> QED  BY <2>4, <2>5, <2>6
<1>6. CASE NoVal \in V /\ Missing(values, o, index.slot, Filled)
  <2>1. ~Found(o)
    <3> SUFFICES ASSUME Found(o)  PROVE FALSE  OBVIOUS
    <3>1. FindBucket(o) \in Filled  BY <1>4
    <3>2. ObjIn(values, index.slot[FindBucket(o)]) = o  BY <1>2, <1>4, <3>1, FoundIsOwn
    <3> QED  BY <1>6, <3>1, <3>2 DEF Missing
  <2>2. GetStruct(o) = NoVal  BY <1>4, <2>1 DEF GetStruct
  <2> QED  BY <1>6, <2>2
<1> QED  BY <1>5, <1>6 DEF Answers

LEMMA LossImplied == StoreInv /\ ReadInv /\ AnswerInv => LossNeedsCutBuild
<1> SUFFICES ASSUME StoreInv, ReadInv, AnswerInv, Serving, ~suspect, NEW o \in Obj
             PROVE  GetStruct(o) \in {acked[o]} \cup maybe[o]
  BY DEF LossNeedsCutBuild, AnswersAcked
<1>1. Answers(values, o, index.slot, Filled, Current[o])
  BY IndexAnswers DEF AnswerInv, Serving
<1>2. GetStruct(o) \in Current[o]  BY <1>1, GetAnswers
<1> QED  BY <1>2 DEF Current

\* With crashes, a deleted index file, failed reads, failed appends and failed
\* mappings together, in any number and any order: GetStruct answers the value of
\* the last acknowledged write, or of a later one that was cut, unless the index
\* comes from a build that was cut (ResizeIndex and RebuildIndexFromValues fill it
\* in place) or from a scan of a value file with a cut record.
THEOREM ObjectLossNeedsCutBuild ==
  ASSUME SafeErrors, NoOldIndex, SafeAppends
  PROVE  Spec => []LossNeedsCutBuild
<1>1. Init => StoreInv /\ ReadInv /\ AnswerInv  BY InitStore, InitRead, InitAnswer
<1>2. StoreInv /\ ReadInv /\ AnswerInv /\ [Next]_vars => (StoreInv /\ ReadInv /\ AnswerInv)'
  <2> SUFFICES ASSUME StoreInv, ReadInv, AnswerInv, [Next]_vars
               PROVE  (StoreInv /\ ReadInv /\ AnswerInv)'
    OBVIOUS
  <2>1. StoreInv'  BY NextStore
  <2>2. ReadInv'  BY <2>1, NextRead
  <2> QED  BY <2>1, <2>2, NextAnswer
<1> QED  BY <1>1, <1>2, LossImplied, PTL DEF Spec

-----------------------------------------------------------------------------
(* Without failures.                                                       *)

\* The index file may be removed; no read, write or mapping fails, no process dies.
NoFaults == Faults \subseteq {"delete"}

\* A record starts at offset n, or the file ends there.
AtRecord(file, n) == n = Len(file) \/ (n + 1 \in DOMAIN file /\ file[n + 1].at = 0)

CleanFile ==
  /\ ~suspect
  /\ ~IsLegacy => WholeTo(values, Len(values))
  /\ pc = "migrate" => WholeTo(temp, Len(temp))

\* Nothing is left over behind what is acknowledged, or being written.
CleanEnd ==
  /\ pc = "idle" \/ Resizing => appendOffset = Len(values)
  /\ pc = "append" => next = Len(values)
  /\ pc \in {"store", "count"} =>
       \A f \in [1 .. Len(call.batch) + 1 -> 0 .. Len(values)] :
         Laid(f, Len(call.batch) + 1) => f[Len(call.batch) + 1] = Len(values)

CleanScan ==
  /\ Rebuilding => AtRecord(values, Seen)
  /\ pc \in {"migrate", "removeIndex", "openIndex"} \/ Rebuilding => status = "OK"

CleanInv == CleanFile /\ CleanEnd /\ CleanScan

\* A record of p is added to a file.
Grows(f, g, p, v, l) ==
  /\ l = ValLen[v] /\ Len(g) = Len(f) + 1 + l /\ \A i \in 1 .. Len(f) : g[i] = f[i]
  /\ \A i \in Len(f) + 1 .. Len(f) + 1 + l : g[i] = [obj |-> p, val |-> v, at |-> i - Len(f) - 1]

LEMMA GrowsWhole ==
  ASSUME NEW f \in Seq(Cell), NEW g \in Seq(Cell), NEW p \in Obj, NEW v \in Val, NEW l \in Nat,
         f # <<>>, Grows(f, g, p, v, l), WholeTo(f, Len(f))
  PROVE  WholeTo(g, Len(g))
<1>1. PICK a \in Nat : a = Len(f) /\ a > 0  OBVIOUS
<1>2. PICK m \in Nat : m = a + 1 + l  OBVIOUS
<1>3. /\ Len(g) = m /\ l = ValLen[v] /\ \A i \in 1 .. a : f[i] = g[i]
      /\ \A i \in a + 1 .. m : g[i] = [obj |-> p, val |-> v, at |-> i - a - 1]
  BY <1>1, <1>2 DEF Grows
<1>4. WholeTo(g, a)  BY <1>1, <1>3, WholeKept
<1>5. ASSUME NEW i \in 2 .. m
      PROVE  /\ g[i].obj \in Obj /\ g[i].at \in 0 .. ValLen[g[i].val]
             /\ \A k \in 0 .. ValLen[g[i].val] : /\ i - g[i].at + k \in 2 .. m
                                                 /\ g[i - g[i].at + k] = [g[i] EXCEPT !.at = k]
  <2>1. CASE i <= a
    <3>1. i \in 2 .. a  BY <2>1
    <3>2. 2 .. a \subseteq 2 .. m  BY <1>2
    <3> QED  BY <1>4, <3>1, <3>2 DEF WholeTo
  <2>2. CASE i > a
    <3>1. i \in a + 1 .. m  BY <2>2
    <3>2. PICK x \in 0 .. l : x = i - a - 1
      <4>1. PICK x \in Int : x = i - a - 1  BY <3>1
      <4>2. x \in 0 .. l  BY ONLY <1>2, <3>1, <4>1, a \in Nat, l \in Nat
      <4> QED  BY <4>1, <4>2
    <3>3. g[i] = [obj |-> p, val |-> v, at |-> x]  BY <1>3, <3>1, <3>2
    <3>4. g[i].obj = p /\ g[i].val = v /\ g[i].at = x  BY ONLY <3>3
    <3>5. ASSUME NEW k \in 0 .. l
          PROVE  i - x + k \in 2 .. m /\ g[i - x + k] = [g[i] EXCEPT !.at = k]
      <4>1. PICK j \in a + 1 .. m : j = a + 1 + k  BY <1>2
      <4>2. i - x + k = j  BY <3>1, <3>2, <4>1
      <4>3. j \in 2 .. m /\ j - a - 1 = k  BY <1>1, <4>1
      <4>4. g[j] = [obj |-> p, val |-> v, at |-> k]  BY <1>3, <4>3
      <4>5. [g[i] EXCEPT !.at = k] = [obj |-> p, val |-> v, at |-> k]  BY ONLY <3>3
      <4> QED  BY <4>2, <4>3, <4>4, <4>5
    <3> QED  BY <1>3, <3>2, <3>4, <3>5
  <2> QED  BY <1>1, <2>1, <2>2
<1> QED  BY <1>3, <1>5 DEF WholeTo

\* In a file of whole records, behind each record there is a record or the end.
LEMMA NextAt ==
  ASSUME NEW f \in Seq(Cell), WholeTo(f, Len(f)), NEW i \in 2 .. Len(f), f[i].at = 0,
         NEW e, e = i + ValLen[f[i].val]
  PROVE  /\ f[i].obj \in Obj /\ e \in 2 .. Len(f) /\ AtRecord(f, e)
<1>1. PICK m \in Nat : m = Len(f)  OBVIOUS
<1>2. PICK l \in Nat, v \in Val : l = ValLen[v] /\ v = f[i].val  BY <1>1, WholeCell
<1>3. /\ f[i].obj \in Obj /\ \A k \in 0 .. l : /\ i - 0 + k \in 2 .. m
                                               /\ f[i - 0 + k] = [obj |-> f[i].obj, val |-> v, at |-> k]
  BY SMTT(30), <1>1, <1>2, WholeCell
<1>4. e \in 2 .. m /\ f[e] = [obj |-> f[i].obj, val |-> v, at |-> l]
  <2>1. l \in 0 .. l /\ i - 0 + l = e  BY <1>2
  <2> QED  BY <1>3, <2>1
<1>5. f[e].val = v /\ f[e].at = l  BY ONLY <1>4
<1>6. ASSUME e # m  PROVE e + 1 \in DOMAIN f /\ f[e + 1].at = 0
  <2>1. PICK j \in 2 .. m : j = e + 1  BY <1>1, <1>4, <1>6
  <2>2. /\ f[j].at \in 0 .. ValLen[f[j].val] /\ ValLen[f[j].val] \in Nat
        /\ \A k \in 0 .. ValLen[f[j].val] :
             f[j - f[j].at + k] = [obj |-> f[j].obj, val |-> f[j].val, at |-> k]
    BY SMTT(30), <1>1, WholeCell
  <2>3. PICK x \in Nat, y \in Nat : x = f[j].at /\ y = ValLen[f[j].val] /\ x <= y
    <3>1. f[j].at \in Nat /\ f[j].at <= ValLen[f[j].val]  BY <2>2
    <3> QED  BY <2>2, <3>1
  <2>4. x = 0
    <3>a. SUFFICES ASSUME x > 0  PROVE FALSE  BY <2>3
    <3>b. x \in Nat /\ y \in Nat /\ x <= y  BY <2>3
    <3>0. x - 1 \in 0 .. y  BY ONLY <3>a, <3>b
    <3>1. PICK k \in 0 .. y : k = x - 1  BY ONLY <3>0
    <3>2. j - x + k = e  BY SMTT(30), <1>4, <2>1, <3>1
    <3>3. f[e] = [obj |-> f[j].obj, val |-> f[j].val, at |-> k]  BY <2>2, <2>3, <3>2
    <3>4. f[e].val = f[j].val /\ f[e].at = k  BY ONLY <3>3
    <3>5. y = l  BY <1>2, <1>5, <2>3, <3>4
    <3>6. k = l  BY <1>5, <3>4
    <3> QED  BY ONLY <3>b, <3>1, <3>5, <3>6
  <2> QED  BY <1>1, <2>1, <2>3, <2>4
<1> QED  BY <1>1, <1>3, <1>4, <1>6 DEF AtRecord

LEMMA StartAt ==
  ASSUME NEW f \in Seq(Cell), f # <<>>, WholeTo(f, Len(f))
  PROVE  AtRecord(f, 1)
<1>1. PICK m \in Nat : m = Len(f) /\ m > 0  OBVIOUS
<1>2. CASE m = 1  BY <1>1, <1>2 DEF AtRecord
<1>3. CASE m > 1
  <2>0. m \in 0 .. Len(f) /\ WholeTo(f, m)  BY <1>1
  <2>1. PICK i \in 2 .. m : i = 2  BY <1>3
  <2>2. /\ f[i].at \in 0 .. ValLen[f[i].val] /\ ValLen[f[i].val] \in Nat
        /\ \A k \in 0 .. ValLen[f[i].val] : i - f[i].at + k \in 2 .. m
    BY ONLY <2>0, f \in Seq(Cell), i \in 2 .. m, WholeCell
  <2>3. PICK x \in Nat : x = f[i].at  BY <2>2
  <2>4. i - x + 0 \in 2 .. m  BY <2>2, <2>3
  <2>5. f[i].at = 0  BY <2>1, <2>3, <2>4
  <2>6. i = 1 + 1 /\ i \in DOMAIN f  BY <1>1, <2>1
  <2> QED  BY <2>5, <2>6 DEF AtRecord
<1> QED  BY <1>1, <1>2, <1>3

LEMMA LaidUnique ==
  ASSUME NEW file, NEW start, NEW b, NEW n \in Nat \ {0}, NEW f, NEW g,
         LaidIn(file, start, b, f, n), LaidIn(file, start, b, g, n)
  PROVE  f[n] = g[n]
<1> DEFINE D == {i \in 1 .. n : f[i] # g[i]}
<1> SUFFICES ASSUME n \in D  PROVE FALSE  OBVIOUS
<1>1. D \in SUBSET Nat /\ D # {}  OBVIOUS
<1>2. PICK m \in D : \A y \in D : m <= y
  <2> HIDE DEF D
  <2> QED  BY <1>1, MinOfSome
<1>3. f[1] = start /\ g[1] = start  BY DEF LaidIn
<1>4. m \in 1 .. n /\ f[m] # g[m] /\ m # 1  BY <1>2, <1>3
<1>5. PICK k \in 1 .. n - 1 : m = k + 1
  <2>1. PICK k \in Int : k = m - 1  BY <1>4
  <2>2. k \in 1 .. n - 1 /\ m = k + 1  BY <1>4, <2>1
  <2> QED  BY <2>2
<1>6. f[k] = g[k]
  <2>1. k \in 1 .. n /\ ~(m <= k)  BY <1>5
  <2> QED  BY <1>2, <2>1
<1>7. f[k + 1] = f[k] + RecordSize(b[k]) /\ g[k + 1] = g[k] + RecordSize(b[k])  BY DEF LaidIn
<1> QED  BY <1>4, <1>5, <1>6, <1>7

LEMMA AtValid ==
  ASSUME StoreInv, WholeTo(values, Len(values)), next > 0, next < Len(values), AtRecord(values, next)
  PROVE  ScanValid
<1>1. values \in Seq(Cell) /\ Len(values) \in Nat /\ next \in Nat
  BY DEF StoreInv, OffsetInv, Typed, FilesTyped
<1>2. PICK i \in 2 .. Len(values) : i = next + 1  BY <1>1
<1>3. values[i].at = 0 /\ i \in DOMAIN values  BY <1>1, <1>2 DEF AtRecord
<1>4. PICK e : e = i + ValLen[values[i].val]  OBVIOUS
<1>5. values[i].obj \in Obj /\ e \in 2 .. Len(values)  BY <1>1, <1>3, <1>4, NextAt
<1>6. IsValidRecordHeader(next)  BY <1>2, <1>3, <1>5 DEF IsValidRecordHeader, HeadAt
<1>7. RecordEnd(next) = e  BY <1>2, <1>4 DEF RecordEnd, ValLenAt
<1>8. RecordEnd(next) <= Len(values)  BY <1>1, <1>5, <1>7
<1> QED  BY <1>6, <1>8 DEF ScanValid

\* Behind a valid record the next one starts.
LEMMA BehindValid ==
  ASSUME StoreInv, WholeTo(values, Len(values)), next > 0, ScanValid
  PROVE  AtRecord(values, RecordEnd(next)) /\ RecordEnd(next) > 0
<1>1. values \in Seq(Cell) /\ Len(values) \in Nat /\ next \in Nat
  BY DEF StoreInv, OffsetInv, Typed, FilesTyped
<1>2. next + 1 \in DOMAIN values /\ values[next + 1].at = 0  BY DEF ScanValid, IsValidRecordHeader, HeadAt
<1>3. PICK i \in 2 .. Len(values) : i = next + 1  BY <1>1, <1>2
<1>4. PICK e : e = i + ValLen[values[i].val]  OBVIOUS
<1>5. e \in 2 .. Len(values) /\ AtRecord(values, e)  BY <1>1, <1>2, <1>3, <1>4, NextAt
<1>6. RecordEnd(next) = e  BY <1>3, <1>4 DEF RecordEnd, ValLenAt
<1> QED  BY <1>1, <1>5, <1>6

LEMMA NeverFails ==
  ASSUME NoFaults, StoreInv, ReadInv, CleanInv
  PROVE  ~ScanFails /\ ~MapFails /\ ~AppendFails /\ ~FindFails /\ ~Crash
<1>1. "read" \notin Faults /\ "map" \notin Faults /\ "append" \notin Faults /\ "crash" \notin Faults
  BY DEF NoFaults
<1>2. ~MapFails /\ ~AppendFails /\ ~Crash  BY <1>1 DEF MapFails, AppendFails, Crash
<1>3. ASSUME ScanFails  PROVE FALSE
  <2>1. pc = "scan" /\ next < Len(values) /\ ~ScanValid  BY <1>1, <1>3 DEF ScanFails, Scanning
  <2>2. next \in Nat /\ next > 0  BY <2>1 DEF StoreInv, OffsetInv
  <2>3. AtRecord(values, next)  BY <2>1, <2>2 DEF CleanInv, CleanScan, Rebuilding, Seen
  <2>4. ~IsLegacy  BY <2>1, InUse DEF Stale
  <2> QED  BY <2>1, <2>2, <2>3, <2>4, AtValid DEF CleanInv, CleanFile
<1>4. ASSUME FindFails  PROVE FALSE
  <2>1. pc = "store" /\ call.entry <= Len(call.batch) /\ FindCorrupt(InHand.obj)
    BY <1>1, <1>4 DEF FindFails, Storing, FindErrs
  <2>2. InHand.obj \in Obj
    <3>1. InCall  BY <2>1 DEF InCall
    <3>2. InHand \in Entry  BY <2>1, <3>1, InHandFacts
    <3> QED  BY <3>2, EntryFields
  <2>3. ~Stale /\ Ready  BY <2>1, InUse DEF StoreInv, LayoutInv
  <2>4. Cardinality(Filled) < index.bucketCount  BY <2>3 DEF ReadInv, ProbeInv, Ready, Grown
  <2> QED  BY <2>1, <2>2, <2>3, <2>4, NotCorrupt DEF ReadInv
<1> QED  BY <1>2, <1>3, <1>4

-----------------------------------------------------------------------------
(* The files stay whole.                                                   *)

LEMMA FileStays ==
  ASSUME CleanFile, values' = values, ~suspect', pc' # "migrate"
  PROVE  CleanFile'
BY DEF CleanFile, IsLegacy, WholeTo

LEMMA CleanOpen ==
  ASSUME StoreInv, CleanFile, OpenValueFile
  PROVE  CleanFile'
<1>1. ~suspect'
  <2>1. suspect' = suspect /\ ~suspect  BY DEF OpenValueFile, history, CleanFile
  <2> QED  BY <2>1
<1>2. CASE IsLegacy
  <2>1. pc' = "migrate" /\ temp' = <<FileHeader>> /\ values' = values  BY <1>2 DEF OpenValueFile
  <2>2. Len(temp') = 1  BY <2>1
  <2>3. WholeTo(temp, Len(temp))'  BY <2>2 DEF WholeTo
  <2> QED  BY <1>1, <1>2, <2>1, <2>3 DEF CleanFile, IsLegacy
<1>3. CASE ~IsLegacy
  <2>1. pc' = "openIndex" /\ values' = IF values = <<>> THEN <<FileHeader>> ELSE values
    BY <1>3 DEF OpenValueFile
  <2>2. CASE values = <<>>
    <3>1. Len(values') = 1  BY <2>1, <2>2
    <3>2. WholeTo(values, Len(values))'  BY <3>1 DEF WholeTo
    <3> QED  BY <1>1, <2>1, <3>2 DEF CleanFile
  <2>3. CASE values # <<>>  BY <1>1, <2>1, <2>3, FileStays
  <2> QED  BY <2>2, <2>3
<1> QED  BY <1>2, <1>3

LEMMA CleanRename ==
  ASSUME CleanFile, RenameMigrated
  PROVE  CleanFile'
<1>1. pc = "migrate" /\ pc' = "removeIndex" /\ values' = temp /\ suspect' = suspect
  BY DEF RenameMigrated, history
<1>2. ~suspect' /\ WholeTo(temp, Len(temp))  BY <1>1 DEF CleanFile
<1>3. WholeTo(values', Len(values'))  BY <1>1, <1>2
<1> QED  BY <1>1, <1>2, <1>3 DEF CleanFile

LEMMA CleanZero ==
  ASSUME StoreInv, CleanFile, Zero
  PROVE  CleanFile'
<1>1. pc = "zero" /\ pc' = "header" /\ values' = values /\ (suspect' = ~Whole \/ suspect' = suspect)
  BY DEF Zero, BuildIndex
<1>2. ~IsLegacy  BY <1>1, InUse DEF Stale
<1>3. Whole  BY <1>2 DEF CleanFile, Whole, WholeTo
<1>4. ~suspect  BY DEF CleanFile
<1>5. ~suspect'  BY <1>1, <1>3, <1>4, Zenon
<1> QED  BY <1>1, <1>5, FileStays

LEMMA CleanAppend ==
  ASSUME StoreInv, StoreInv', CleanFile, CleanEnd, AppendRecord
  PROVE  CleanFile' /\ Len(values') = next + RecordSize(InHand)
<1>1. /\ pc = "append" /\ values' = Overwrite(values, next, Record(InHand)) /\ suspect' = suspect
      /\ pc' # "migrate"
  BY DEF AppendRecord, history
<1>2. next \in Nat /\ next > 0 /\ InHand \in Entry /\ values \in Seq(Cell)  BY <1>1, AppendPlace
<1>3. next = Len(values) /\ ~IsLegacy  BY <1>1, InUse DEF CleanEnd, Stale
<1>4. PICK e \in Entry : e = InHand  BY <1>2
<1>5. PICK a \in Nat : a = next /\ a > 0  BY <1>2
<1>6. PICK p \in Obj, v \in Val, l \in Nat : p = e.obj /\ v = e.val /\ l = ValLen[v] /\ RecordSize(e) = 1 + l
  BY EntryFields DEF RecordSize
<1>7. /\ Record(e) \in Seq(Cell) /\ Len(Record(e)) = 1 + l
      /\ \A i \in 1 .. 1 + l : Record(e)[i] = [obj |-> p, val |-> v, at |-> i - 1]
  BY <1>6, RecordCells
<1>8. PICK g : g = values'  OBVIOUS
<1>9. PICK c \in Seq(Cell) : c = Record(e)  BY <1>7
<1>10. /\ g \in Seq(Cell) /\ Len(g) = a + 1 + l
       /\ \A i \in a + 1 .. a + 1 + l : g[i] = c[i - a]
       /\ \A i \in 1 .. a : g[i] = values[i]
  <2>1. g = Overwrite(values, a, c) /\ a \in 0 .. Len(values) /\ a = Len(values) /\ Len(c) = 1 + l
    BY <1>1, <1>3, <1>4, <1>5, <1>7, <1>8, <1>9
  <2>0. PICK f \in Seq(Cell) : f = values  BY <1>2
  <2>2. /\ g \in Seq(Cell) /\ Len(g) = IF Len(f) >= a + Len(c) THEN Len(f) ELSE a + Len(c)
        /\ \A i \in a + 1 .. a + Len(c) : g[i] = c[i - a]
        /\ \A i \in 1 .. Len(g) : i \notin a + 1 .. a + Len(c) => g[i] = f[i]
    <3>1. g = Overwrite(f, a, c) /\ a \in 0 .. Len(f)  BY <2>0, <2>1
    <3> QED  BY ONLY <3>1, f \in Seq(Cell), c \in Seq(Cell), OverwriteCells
  <2>3. a + Len(c) = a + 1 + l /\ Len(g) = a + 1 + l  BY <2>0, <2>1, <2>2
  <2>4. \A i \in 1 .. a : i \in 1 .. Len(g) /\ i \notin a + 1 .. a + Len(c)  BY <2>3
  <2> QED  BY <2>0, <2>2, <2>3, <2>4
<1>11. ASSUME NEW i \in a + 1 .. a + 1 + l  PROVE g[i] = [obj |-> p, val |-> v, at |-> i - a - 1]
  <2>1. PICK k \in 1 .. 1 + l : k = i - a
    <3>1. PICK k \in Int : k = i - a  BY <1>11
    <3>2. k \in 1 .. 1 + l  BY ONLY <3>1, <1>11, a \in Nat, l \in Nat
    <3> QED  BY <3>1, <3>2
  <2>2. g[i] = [obj |-> p, val |-> v, at |-> k - 1]  BY <1>7, <1>9, <1>10, <2>1
  <2> QED  BY <2>1, <2>2
<1>12. Grows(values, g, p, v, l)
  <2>1. Len(values) = a  BY <1>3, <1>5
  <2> QED  BY <1>6, <1>10, <1>11, <2>1 DEF Grows
<1>13. values # <<>> /\ WholeTo(values, Len(values))  BY <1>2, <1>3 DEF CleanFile
<1>14. WholeTo(g, Len(g))  BY <1>2, <1>10, <1>12, <1>13, GrowsWhole
<1>15. WholeTo(values', Len(values'))  BY <1>8, <1>14
<1>16. CleanFile'
  <2>1. ~suspect'  BY <1>1 DEF CleanFile
  <2>2. pc' # "migrate"  BY <1>1
  <2> QED  BY ONLY <1>15, <2>1, <2>2, Zenon DEF CleanFile
<1>17. Len(values') = next + RecordSize(InHand)
  <2>1. RecordSize(InHand) = 1 + l /\ Len(values') = a + 1 + l /\ next = a  BY <1>4, <1>5, <1>6, <1>8, <1>10
  <2> QED  BY ONLY <2>1, a \in Nat, l \in Nat
<1> QED  BY <1>16, <1>17

LEMMA CleanCopy ==
  ASSUME StoreInv, MigrateInv, CleanFile, CopyRecord
  PROVE  CleanFile'
<1>1. /\ pc = "migrate" /\ next < Len(values) /\ CopyValid
      /\ temp' = temp \o <<[values[next + 1] EXCEPT !.at = 0]>>
                     \o SubSeq(values, next + 3, next + 2 + ValLenAt(next))
      /\ next' = next + 2 + ValLenAt(next) /\ UNCHANGED <<values, pc, suspect>>
  BY DEF CopyRecord, history
<1>2. PICK n \in Nat : n = next  BY DEF StoreInv, OffsetInv
<1>3. PICK l \in Nat : l = ValLenAt(next)  BY <1>1, CopyRecordCells
<1>4. /\ values \in Seq(Cell) /\ temp \in Seq(Cell) /\ temp' \in Seq(Cell) /\ n > 0 /\ IsLegacy
      /\ temp # <<>> /\ OldFile(values)
  <2>1. n > 0 /\ IsLegacy /\ values \in Seq(Cell) /\ temp \in Seq(Cell) /\ temp # <<>>
    BY <1>1, <1>2 DEF StoreInv, OffsetInv, HeaderInv, Typed, FilesTyped
  <2> QED  BY <1>1, <2>1, CopyRecordCells DEF MigrateInv
<1>5. PICK a \in Nat : a = Len(temp)  BY <1>4
<1>6. /\ Len(temp') = a + 1 + l /\ \A i \in 1 .. a : temp'[i] = temp[i]
      /\ temp'[a + 1] = [values[n + 1] EXCEPT !.at = 0]
      /\ \A i \in 1 .. l : temp'[a + 1 + i] = values[n + 2 + i]
  BY <1>1, <1>2, <1>3, <1>5, CopyRecordCells
<1>7. /\ n + 1 \in 2 .. Len(values) /\ values[n + 1].obj \in Obj /\ values[n + 1].at = -2
      /\ l = ValLen[values[n + 1].val] /\ n + 2 + l <= Len(values)
  <2>1. HeadAt(n, -2) /\ n + 2 + l <= Len(values)
    BY <1>1, <1>2, <1>3 DEF CopyValid, IsValidLegacyRecordHeader
  <2>2. n + 1 \in DOMAIN values /\ values[n + 1].obj \in Obj /\ values[n + 1].at = -2
    BY <2>1 DEF HeadAt
  <2>3. n + 1 \in 2 .. Len(values)  BY <1>4, <2>2
  <2>4. l = ValLen[values[n + 1].val]  BY <1>2, <1>3 DEF ValLenAt
  <2> QED  BY <2>1, <2>2, <2>3, <2>4
<1>8. PICK s \in 2 .. Len(values) : s = n + 1  BY <1>7
<1>9. PICK p \in Obj : p = values[n + 1].obj  BY <1>7
<1>10. PICK v \in Val : v = values[n + 1].val
  <2>1. values[n + 1] \in Cell  BY <1>4, <1>7
  <2> QED  BY <1>7, <2>1, CellFields
<1>11. /\ values[s] = [obj |-> p, val |-> v, at |-> -2]
       /\ \A k \in 1 .. l : values[s + 1 + k] = [obj |-> p, val |-> v, at |-> k]
  <2>1. values[s].obj = p /\ values[s].val = v /\ s + 1 + l <= Len(values)
        /\ values[s].at = -2 /\ l = ValLen[values[s].val]
    BY <1>7, <1>8, <1>9, <1>10
  <2>2. /\ values \in Seq(Cell) /\ OldFile(values) /\ s \in 2 .. Len(values) /\ l \in Nat
        /\ values[s].obj \in Obj /\ values[s].at = -2 /\ l = ValLen[values[s].val]
        /\ s + 1 + l <= Len(values)
    BY <1>4, <2>1
  <2>3. /\ values[s] = [obj |-> values[s].obj, val |-> values[s].val, at |-> -2]
        /\ values[s + 1] = [obj |-> values[s].obj, val |-> values[s].val, at |-> -1]
        /\ \A k \in 1 .. l :
             values[s + 1 + k] = [obj |-> values[s].obj, val |-> values[s].val, at |-> k]
    BY ONLY <2>2, OldCells
  <2> QED  BY ONLY <2>1, <2>3
<1>12. \A k \in 1 .. l : values[n + 2 + k] = [obj |-> p, val |-> v, at |-> k]
  <2>1. \A k \in 1 .. l : n + 2 + k = s + 1 + k  BY <1>8
  <2> QED  BY <1>11, <2>1
<1>13. \A i \in a + 1 .. a + 1 + l : temp'[i] = [obj |-> p, val |-> v, at |-> i - a - 1]
  <2> SUFFICES ASSUME NEW i \in a + 1 .. a + 1 + l
               PROVE  temp'[i] = [obj |-> p, val |-> v, at |-> i - a - 1]
    OBVIOUS
  <2>1. CASE i = a + 1
    <3>1. temp'[i] = [values[s] EXCEPT !.at = 0]  BY <1>6, <1>8, <2>1
    <3>a. values[s] = [obj |-> p, val |-> v, at |-> -2]  BY <1>11
    <3>2. temp'[i] = [obj |-> p, val |-> v, at |-> 0]  BY ONLY <3>1, <3>a
    <3>3. i - a - 1 = 0  BY <2>1
    <3> QED  BY <3>2, <3>3
  <2>2. CASE i # a + 1
    <3>1. PICK k \in 1 .. l : i = a + 1 + k
      <4>1. PICK k \in Int : k = i - a - 1  OBVIOUS
      <4>2. k \in 1 .. l /\ i = a + 1 + k
        BY ONLY <2>2, <4>1, a \in Nat, l \in Nat, i \in a + 1 .. a + 1 + l
      <4> QED  BY <4>2
    <3>2. temp'[i] = [obj |-> p, val |-> v, at |-> k]  BY <1>6, <1>12, <3>1
    <3>3. i - a - 1 = k  BY <3>1
    <3> QED  BY <3>2, <3>3
  <2> QED  BY <2>1, <2>2
<1>14. PICK u \in Seq(Cell) : u = temp'  BY <1>4
<1>15. Grows(temp, u, p, v, l)
  <2>1. l = ValLen[v]  BY <1>7, <1>10
  <2> QED  BY <1>5, <1>6, <1>13, <1>14, <2>1 DEF Grows
<1>16. WholeTo(temp, Len(temp))  BY <1>1 DEF CleanFile
<1>17. WholeTo(u, Len(u))  BY <1>4, <1>15, <1>16, GrowsWhole
<1>18. WholeTo(temp', Len(temp')) /\ IsLegacy' /\ ~suspect'
  BY <1>1, <1>4, <1>14, <1>17 DEF IsLegacy, CleanFile
<1> QED  BY ONLY <1>18, Zenon DEF CleanFile

LEMMA NextCleanFile ==
  ASSUME NoFaults, StoreInv, StoreInv', ReadInv, MigrateInv, CleanInv, [Next]_vars
  PROVE  CleanFile'
<1>0. CleanFile /\ CleanEnd /\ ~suspect  BY DEF CleanInv, CleanFile
<1>1. CASE OpenValueFile \/ CopyRecord \/ RenameMigrated \/ Zero \/ AppendRecord
  BY <1>0, <1>1, CleanOpen, CleanCopy, CleanRename, CleanZero, CleanAppend
<1>2. CASE ScanFails \/ MapFails \/ AppendFails \/ FindFails \/ Crash  BY <1>2, NeverFails
<1>3. CASE \/ CopyFails \/ RemoveStaleIndex \/ UseIndex \/ StartRebuild \/ OpenReadOnly \/ DeleteIndex
           \/ UseUnmapped \/ Close
  <2>1. values' = values /\ suspect' = suspect /\ pc' # "migrate"
    <3>1. CASE CopyFails \/ RemoveStaleIndex  BY <3>1 DEF CopyFails, RemoveStaleIndex, Closed, disk, history
    <3>2. CASE UseIndex \/ StartRebuild  BY <3>2 DEF UseIndex, StartRebuild, disk, history
    <3>3. CASE OpenReadOnly
      <4>1. pc' # "migrate"
        <5>1. pc = "closed" /\ (pc' = "readonly" \/ pc' = pc)  BY <3>3 DEF OpenReadOnly
        <5> QED  BY <5>1
      <4> QED  BY <3>3, <4>1 DEF OpenReadOnly, disk, history
    <3>4. CASE DeleteIndex \/ UseUnmapped \/ Close
      BY <3>4 DEF DeleteIndex, UseUnmapped, Close, Closed, disk, history
    <3> QED  BY <1>3, <3>1, <3>2, <3>3, <3>4
  <2>2. ~suspect'  BY <1>0, <2>1
  <2> QED  BY <1>0, <2>1, <2>2, FileStays
<1>4. CASE \/ Truncate \/ StoreHeader \/ PlaceExistingBucket \/ CountPlaced \/ Built
           \/ EnsureCapacityForInsert \/ ScanGrows
  <2>1. values' = values /\ suspect' = suspect /\ pc' # "migrate"
    <3>1. CASE Built
      <4>1. pc = "place" /\ pc' = build.resume /\ values' = values /\ suspect' = suspect
        BY <3>1 DEF Built, BuildIndex
      <4>2. build.resume \in {"scan", "append"}  BY <4>1 DEF StoreInv, Typed, BuildTyped, BuildPcs
      <4> QED  BY <4>1, <4>2
    <3>2. CASE Truncate \/ StoreHeader \/ PlaceExistingBucket \/ CountPlaced
      BY <3>2 DEF Truncate, StoreHeader, PlaceExistingBucket, CountPlaced, BuildIndex
    <3>3. CASE EnsureCapacityForInsert \/ ScanGrows
      BY <3>3 DEF EnsureCapacityForInsert, ScanGrows, StartResize, disk, history
    <3> QED  BY <1>4, <3>1, <3>2, <3>3
  <2>2. ~suspect'  BY <1>0, <2>1
  <2> QED  BY <1>0, <2>1, <2>2, FileStays
<1>5. CASE \/ ScanRecord \/ CountScanned \/ ScanEnds \/ PutStructs \/ PutUniqueStructs \/ StoreEntry
           \/ CountEntry \/ FinishWrite
  <2>1. values' = values /\ suspect' = suspect /\ pc' # "migrate"
    <3>1. CASE ScanRecord \/ CountScanned \/ ScanEnds
      BY <3>1 DEF ScanRecord, Scanning, CountScanned, ScanEnds, disk, history
    <3>2. CASE PutStructs \/ PutUniqueStructs
      BY <3>2 DEF PutStructs, PutUniqueStructs, CallWriteStructs, StartResize, disk, history
    <3>3. CASE StoreEntry \/ CountEntry \/ FinishWrite
      BY <3>3 DEF StoreEntry, Storing, CountEntry, FinishWrite, disk, history
    <3> QED  BY <1>5, <3>1, <3>2, <3>3
  <2>2. ~suspect'  BY <1>0, <2>1
  <2> QED  BY <1>0, <2>1, <2>2, FileStays
<1>6. CASE UNCHANGED vars
  <2>1. UNCHANGED <<values, temp, pc, suspect>>  BY <1>6 DEF vars, disk, history
  <2> QED  BY <1>0, <2>1 DEF CleanFile, IsLegacy, WholeTo
<1> QED  BY <1>1, <1>2, <1>3, <1>4, <1>5, <1>6, Zenon DEF Next

-----------------------------------------------------------------------------
(* Every write starts at the end of the file, and ends there.              *)

LEMMA NoEnd ==
  ASSUME pc' \notin BuildPcs \cup {"idle", "append", "store", "count"}
  PROVE  CleanEnd'
BY DEF CleanEnd, Resizing

LEMMA EndIdle ==
  ASSUME pc' = "idle", appendOffset' = Len(values')
  PROVE  CleanEnd'
BY DEF CleanEnd, Resizing, BuildPcs

LEMMA EndCall ==
  ASSUME StoreInv, CleanEnd, PutStructs \/ PutUniqueStructs
  PROVE  CleanEnd'
<1>1. /\ pc = "idle" /\ next' = appendOffset /\ UNCHANGED <<values, appendOffset>>
      /\ pc' \in {"append", "double"}
  BY DEF PutStructs, PutUniqueStructs, CallWriteStructs, StartResize, disk
<1>2. appendOffset = Len(values)  BY <1>1 DEF CleanEnd
<1> QED  BY <1>1, <1>2 DEF CleanEnd

LEMMA EndBuilds ==
  ASSUME StoreInv, StoreInv', CleanEnd,
         \/ Truncate \/ Zero \/ StoreHeader \/ PlaceExistingBucket \/ CountPlaced
         \/ EnsureCapacityForInsert \/ StartRebuild \/ ScanGrows
  PROVE  CleanEnd'
<1>1. pc' \in BuildPcs /\ UNCHANGED <<values, appendOffset>>
  BY DEF Truncate, Zero, StoreHeader, PlaceExistingBucket, CountPlaced, BuildIndex,
         EnsureCapacityForInsert, StartRebuild, ScanGrows, StartResize, BuildPcs, disk
<1>2. pc' \notin {"idle", "append", "store", "count"}  BY <1>1 DEF BuildPcs
<1>3. Resizing' => Resizing
  <2>1. CASE \/ Truncate \/ Zero \/ StoreHeader \/ PlaceExistingBucket \/ CountPlaced
             \/ EnsureCapacityForInsert
    BY <2>1, BuildStep
  <2>2. CASE StartRebuild
    <3>1. build' = [NoBuild EXCEPT !.count = InitialBucketCount, !.resume = "scan"]
      BY <2>2 DEF StartRebuild
    <3>2. build'.resume = "scan"  BY ONLY <3>1 DEF NoBuild
    <3> QED  BY <3>2 DEF Resizing
  <2>3. CASE ScanGrows
    <3>1. build'.resume = "scan"  BY <2>3 DEF ScanGrows, StartResize
    <3> QED  BY <3>1 DEF Resizing
  <2> QED  BY <2>1, <2>2, <2>3
<1>4. Resizing' => appendOffset' = Len(values')  BY <1>1, <1>3 DEF CleanEnd
<1> QED  BY ONLY <1>2, <1>4 DEF CleanEnd

LEMMA EndBuilt ==
  ASSUME StoreInv, StoreInv', CleanEnd, Built
  PROVE  CleanEnd'
<1>1. /\ pc = "place" /\ pc' = build.resume /\ UNCHANGED <<values, appendOffset>>
      /\ next' = IF build.resume = "scan" /\ next = 0 THEN 1 ELSE next
  BY DEF Built, BuildIndex
<1>2. build.resume \in {"scan", "append"}  BY <1>1 DEF StoreInv, Typed, BuildTyped, BuildPcs
<1>3. CASE build.resume = "scan"
  BY <1>1, <1>3, NoEnd DEF BuildPcs
<1>4. CASE build.resume = "append"
  <2>1. Resizing /\ pc' = "append" /\ next' = next  BY <1>1, <1>4 DEF Resizing, BuildPcs
  <2>2. next = appendOffset  BY <2>1 DEF StoreInv, OffsetInv
  <2>3. next' = Len(values')  BY <1>1, <2>1, <2>2 DEF CleanEnd
  <2> QED  BY <2>1, <2>3 DEF CleanEnd, Resizing, BuildPcs
<1> QED  BY <1>2, <1>3, <1>4

LEMMA EndAppend ==
  ASSUME StoreInv, StoreInv', CleanFile, CleanEnd, AppendRecord
  PROVE  CleanEnd'
<1>1. /\ pc = "append" /\ values' = Overwrite(values, next, Record(InHand))
      /\ \/ /\ call' = [call EXCEPT !.entry = @ + 1] /\ pc' = "append"
            /\ next' = next + RecordSize(InHand)
         \/ /\ ~(call.entry < Len(call.batch)) /\ call' = [call EXCEPT !.entry = 1] /\ pc' = "store"
      /\ UNCHANGED appendOffset
  BY DEF AppendRecord
<1>2. Len(values') = next + RecordSize(InHand)  BY CleanAppend
<1>3. ~Resizing'  BY <1>1 DEF Resizing, BuildPcs
<1>4. CASE pc' = "append"
  <2>1. next' = Len(values')  BY <1>1, <1>2, <1>4
  <2> QED  BY ONLY <1>3, <1>4, <2>1 DEF CleanEnd
<1>5. CASE pc' = "store"
  <2>1. call'.batch = call.batch /\ ~(call.entry < Len(call.batch))
    <3>1. call = [batch |-> call.batch, unique |-> call.unique, entry |-> call.entry]  BY CallShape
    <3> QED  BY <1>1, <1>5, <3>1
  <2>2. call.entry \in 1 .. Len(call.batch) /\ Len(call.batch) \in Nat  BY <1>1, AppendPlace, CallShape
  <2>3. PICK k \in Nat \ {0} : k = call.entry /\ k = Len(call.batch)  BY <2>1, <2>2
  <2>4. \E g \in [1 .. k + 1 -> 0 .. Len(values')] :
          /\ Laid(g, k + 1)' /\ g[1] = appendOffset /\ g[k] = next
          /\ g[k + 1] = next + RecordSize(InHand)
    BY <1>1, <2>1, <2>3, LaidExtends
  <2>5. PICK g : /\ LaidIn(values', appendOffset', call'.batch, g, k + 1)
                 /\ g[k + 1] = next + RecordSize(InHand)
    BY <2>4 DEF Laid
  <2>6. PICK m \in Nat \ {0} : m = k + 1  OBVIOUS
  <2>7. Len(call'.batch) + 1 = m  BY <2>1, <2>3, <2>6
  <2>8. ASSUME NEW f, LaidIn(values', appendOffset', call'.batch, f, m)  PROVE f[m] = Len(values')
    <3>1. LaidIn(values', appendOffset', call'.batch, g, m)  BY <2>5, <2>6
    <3>2. f[m] = g[m]  BY ONLY <2>8, <3>1, m \in Nat \ {0}, LaidUnique
    <3> QED  BY <1>2, <2>5, <2>6, <3>2
  <2> QED  BY ONLY <1>3, <1>5, <2>7, <2>8 DEF CleanEnd, Laid
<1> QED  BY <1>1, <1>4, <1>5

LEMMA EndEntry ==
  ASSUME StoreInv, StoreInv', CleanEnd, StoreEntry \/ CountEntry
  PROVE  CleanEnd'
<1>1. /\ pc \in {"store", "count"} /\ pc' \in {"store", "count"} /\ UNCHANGED <<values, appendOffset>>
      /\ NextEntry \/ UNCHANGED <<call, next>>
  BY DEF StoreEntry, Storing, CountEntry
<1>2. call = [batch |-> call.batch, unique |-> call.unique, entry |-> call.entry]  BY CallShape
<1>3. call'.batch = call.batch
  <2>1. CASE NextEntry  BY <1>2, <2>1 DEF NextEntry
  <2>2. CASE UNCHANGED <<call, next>>  BY <2>2
  <2> QED  BY <1>1, <2>1, <2>2
<1>4. \A f \in [1 .. Len(call.batch) + 1 -> 0 .. Len(values)] :
        LaidIn(values, appendOffset, call.batch, f, Len(call.batch) + 1) =>
          f[Len(call.batch) + 1] = Len(values)
  BY <1>1 DEF CleanEnd, Laid
<1>5. ~Resizing' /\ pc' # "idle" /\ pc' # "append"  BY <1>1 DEF Resizing, BuildPcs
<1>6. \A f \in [1 .. Len(call'.batch) + 1 -> 0 .. Len(values')] :
        LaidIn(values', appendOffset', call'.batch, f, Len(call'.batch) + 1) =>
          f[Len(call'.batch) + 1] = Len(values')
  BY <1>1, <1>3, <1>4
<1> QED  BY ONLY <1>5, <1>6 DEF CleanEnd, Laid

LEMMA EndFinish ==
  ASSUME StoreInv, CleanEnd, FinishWrite
  PROVE  CleanEnd'
<1>1. /\ pc = "store" /\ call.entry > Len(call.batch) /\ appendOffset' = next /\ pc' = "idle"
      /\ values' = values
  BY DEF FinishWrite, EndOfBatch, disk
<1>2. PICK f \in [1 .. Len(call.batch) + 1 -> 0 .. Len(values)] :
        /\ Laid(f, Len(call.batch) + 1) /\ next = f[call.entry]
        /\ call.entry \in 1 .. Len(call.batch) + 1
  BY <1>1, StorePlace
<1>3. Len(call.batch) \in Nat  BY CallShape
<1>4. call.entry = Len(call.batch) + 1  BY <1>1, <1>2, <1>3
<1>5. f[Len(call.batch) + 1] = Len(values)  BY <1>1, <1>2 DEF CleanEnd
<1> QED  BY <1>1, <1>2, <1>4, <1>5, EndIdle

LEMMA NextCleanEnd ==
  ASSUME NoFaults, StoreInv, StoreInv', ReadInv, CleanInv, [Next]_vars
  PROVE  CleanEnd'
<1>0. CleanFile /\ CleanEnd  BY DEF CleanInv
<1>1. CASE \/ PutStructs \/ PutUniqueStructs \/ Built \/ AppendRecord \/ StoreEntry \/ CountEntry
           \/ FinishWrite
  BY <1>0, <1>1, EndCall, EndBuilt, EndAppend, EndEntry, EndFinish
<1>2. CASE \/ Truncate \/ Zero \/ StoreHeader \/ PlaceExistingBucket \/ CountPlaced
           \/ EnsureCapacityForInsert \/ StartRebuild \/ ScanGrows
  BY <1>0, <1>2, EndBuilds
<1>3. CASE ScanFails \/ MapFails \/ AppendFails \/ FindFails \/ Crash  BY <1>3, NeverFails
<1>4. CASE UseIndex \/ ScanEnds
  <2>1. pc' = "idle" /\ appendOffset' = Len(values')
    <3>1. CASE UseIndex
      <4>1. pc = "openIndex" /\ pc' = "idle" /\ UNCHANGED <<values, appendOffset>>
        BY <3>1 DEF UseIndex, disk
      <4>2. appendOffset = Len(values)  BY <4>1 DEF ReadInv, NameInv
      <4> QED  BY <4>1, <4>2
    <3>2. CASE ScanEnds  BY <3>2 DEF ScanEnds, disk
    <3> QED  BY <1>4, <3>1, <3>2
  <2> QED  BY <2>1, EndIdle
<1>5. CASE \/ OpenValueFile \/ CopyRecord \/ CopyFails \/ RenameMigrated \/ RemoveStaleIndex
           \/ OpenReadOnly \/ ScanRecord \/ CountScanned \/ UseUnmapped \/ Close \/ DeleteIndex
  <2>1. pc' \in {"migrate", "openIndex", "closed", "removeIndex", "readonly", "scan", "scanCount"}
    <3>1. CASE OpenValueFile \/ CopyRecord \/ CopyFails  BY <3>1 DEF OpenValueFile, CopyRecord, CopyFails, Closed
    <3>2. CASE RenameMigrated \/ RemoveStaleIndex \/ OpenReadOnly
      BY <3>2 DEF RenameMigrated, RemoveStaleIndex, OpenReadOnly
    <3>3. CASE ScanRecord \/ CountScanned  BY <3>3 DEF ScanRecord, Scanning, CountScanned
    <3>4. CASE UseUnmapped \/ Close \/ DeleteIndex  BY <3>4 DEF UseUnmapped, Close, DeleteIndex, Closed
    <3> QED  BY <1>5, <3>1, <3>2, <3>3, <3>4
  <2> QED  BY <2>1, NoEnd DEF BuildPcs
<1>6. CASE UNCHANGED vars
  <2>1. UNCHANGED <<values, pc, appendOffset, next, call, build>>  BY <1>6 DEF vars, disk, locals
  <2> QED  BY <1>0, <2>1 DEF CleanEnd, Resizing, Laid
<1> QED  BY <1>1, <1>2, <1>3, <1>4, <1>5, <1>6, Zenon DEF Next

-----------------------------------------------------------------------------
(* A rebuild meets a record, or the end of the file, wherever it stands.   *)

LEMMA NoScan ==
  ASSUME pc' \notin BuildPcs \cup {"scan", "scanCount", "migrate", "removeIndex", "openIndex"}
  PROVE  CleanScan'
<1>1. ~Rebuilding'  BY DEF Rebuilding
<1> QED  BY ONLY <1>1, pc' \notin BuildPcs \cup {"scan", "scanCount", "migrate", "removeIndex", "openIndex"}
         DEF CleanScan

LEMMA ScanOpens ==
  ASSUME CleanScan, OpenValueFile \/ CopyRecord \/ RenameMigrated \/ RemoveStaleIndex
  PROVE  CleanScan'
<1>1. status' = "OK" /\ pc' \in {"migrate", "removeIndex", "openIndex"}
  <2>1. CASE OpenValueFile  BY <2>1 DEF OpenValueFile
  <2>2. CASE CopyRecord \/ RenameMigrated \/ RemoveStaleIndex
    BY <2>2 DEF CleanScan, CopyRecord, RenameMigrated, RemoveStaleIndex
  <2> QED  BY <2>1, <2>2
<1>2. ~Rebuilding'  BY <1>1 DEF Rebuilding, BuildPcs
<1> QED  BY ONLY <1>1, <1>2 DEF CleanScan

LEMMA ScanStarts ==
  ASSUME StoreInv, StoreInv', CleanFile, CleanScan, StartRebuild
  PROVE  CleanScan'
<1>1. /\ pc = "openIndex" /\ pc' = "truncate" /\ UNCHANGED <<values, next, status>>
  BY DEF StartRebuild, disk
<1>2. next = 0  BY <1>1 DEF StoreInv, OffsetInv
<1>3. Seen' = 1  BY <1>1, <1>2 DEF Seen
<1>4. values \in Seq(Cell) /\ values # <<>> /\ WholeTo(values, Len(values))
  <2>1. ~IsLegacy  BY <1>1, InUse DEF Stale
  <2> QED  BY <1>1, <2>1 DEF CleanFile, StoreInv, HeaderInv, Typed, FilesTyped
<1>5. AtRecord(values, 1)  BY <1>4, StartAt
<1>6. AtRecord(values', Seen')  BY <1>1, <1>3, <1>5
<1>7. status' = "OK"  BY <1>1 DEF CleanScan
<1> QED  BY ONLY <1>6, <1>7 DEF CleanScan

LEMMA ScanSame ==
  ASSUME CleanScan, UNCHANGED <<values, status>>, Rebuilding' => Rebuilding, Seen' = Seen,
         pc' \notin {"migrate", "removeIndex", "openIndex"}
  PROVE  CleanScan'
<1>1. Rebuilding' => status' = "OK" /\ AtRecord(values', Seen')
  <2> SUFFICES ASSUME Rebuilding'  PROVE status' = "OK" /\ AtRecord(values', Seen')  OBVIOUS
  <2>1. Rebuilding  OBVIOUS
  <2>2. status = "OK" /\ AtRecord(values, Seen)  BY <2>1 DEF CleanScan
  <2> QED  BY <2>2
<1> QED  BY ONLY <1>1, pc' \notin {"migrate", "removeIndex", "openIndex"} DEF CleanScan

LEMMA ScanBuilds ==
  ASSUME StoreInv, StoreInv', CleanScan,
         \/ Truncate \/ Zero \/ StoreHeader \/ PlaceExistingBucket \/ CountPlaced
         \/ EnsureCapacityForInsert
  PROVE  CleanScan'
<1>1. pc' \in BuildPcs /\ Rebuilding' = Rebuilding /\ Seen' = Seen /\ values' = values  BY BuildStep
<1>2. status' = status
  BY DEF Truncate, Zero, StoreHeader, PlaceExistingBucket, CountPlaced, BuildIndex,
         EnsureCapacityForInsert
<1>3. pc' \notin {"migrate", "removeIndex", "openIndex"}  BY <1>1 DEF BuildPcs
<1>4. Rebuilding' => Rebuilding  BY <1>1
<1> QED  BY <1>1, <1>2, <1>3, <1>4, ScanSame

LEMMA ScanBuilt ==
  ASSUME StoreInv, StoreInv', CleanScan, Built
  PROVE  CleanScan'
<1>1. /\ pc = "place" /\ pc' = build.resume /\ UNCHANGED <<values, build, status>>
      /\ next' = IF build.resume = "scan" /\ next = 0 THEN 1 ELSE next
  BY DEF Built, BuildIndex
<1>2. build.resume \in {"scan", "append"}  BY <1>1 DEF StoreInv, Typed, BuildTyped, BuildPcs
<1>3. CASE build.resume = "append"  BY <1>1, <1>3, NoScan DEF BuildPcs
<1>4. CASE build.resume = "scan"
  <2>1. Rebuilding  BY <1>1, <1>4 DEF Rebuilding, BuildPcs
  <2>2. Seen' = Seen  BY <1>1, <1>4 DEF Seen
  <2> QED  BY <1>1, <1>4, <2>1, <2>2, ScanSame
<1> QED  BY <1>2, <1>3, <1>4

LEMMA ScanResizes ==
  ASSUME StoreInv, CleanScan, ScanGrows
  PROVE  CleanScan'
<1>1. pc = "scan" /\ pc' = "double" /\ UNCHANGED <<values, next, status>>
  BY DEF ScanGrows, Scanning, StartResize, disk
<1>2. Rebuilding /\ Seen' = Seen  BY <1>1 DEF Rebuilding, Seen
<1> QED  BY <1>1, <1>2, ScanSame

LEMMA ScanSteps ==
  ASSUME StoreInv, StoreInv', CleanFile, CleanScan, ScanRecord \/ CountScanned
  PROVE  CleanScan'
<1>1. /\ pc \in {"scan", "scanCount"} /\ pc' \in {"scan", "scanCount"} /\ UNCHANGED <<values, status>>
      /\ (pc' = "scan" /\ next' = RecordEnd(next)) \/ (pc' = "scanCount" /\ next' = next)
  <2>1. CASE ScanRecord  BY <2>1 DEF ScanRecord, Scanning, NextRecord
  <2>2. CASE CountScanned  BY <2>2 DEF CountScanned, NextRecord
  <2> QED  BY <2>1, <2>2
<1>2. ScanValid /\ next > 0
  <2>1. next > 0  BY <1>1 DEF StoreInv, OffsetInv
  <2>2. CASE ScanRecord  BY <2>1, <2>2 DEF ScanRecord
  <2>3. CASE CountScanned  BY <2>1, <2>3 DEF CountScanned, StoreInv, OffsetInv
  <2> QED  BY <2>2, <2>3
<1>3. ~IsLegacy  BY <1>1, InUse DEF Stale
<1>4. PICK e : e = RecordEnd(next)  OBVIOUS
<1>5. AtRecord(values, e) /\ e > 0  BY <1>2, <1>3, <1>4, BehindValid DEF CleanFile
<1>6. Seen' = e
  <2>1. CASE pc' = "scan" /\ next' = RecordEnd(next)
    <3>1. next' = e /\ next' \in Nat  BY <1>4, <2>1 DEF StoreInv, OffsetInv
    <3> QED  BY <1>5, <2>1, <3>1 DEF Seen
  <2>2. CASE pc' = "scanCount" /\ next' = next
    <3>1. RecordEnd(next)' = e  BY <1>1, <1>4, <2>2 DEF RecordEnd, ValLenAt
    <3> QED  BY <2>2, <3>1 DEF Seen
  <2> QED  BY <1>1, <2>1, <2>2
<1>7. AtRecord(values', Seen')  BY <1>1, <1>5, <1>6
<1>8. status' = "OK"
  <2>1. Rebuilding  BY <1>1 DEF Rebuilding
  <2> QED  BY <1>1, <2>1 DEF CleanScan
<1> QED  BY ONLY <1>7, <1>8 DEF CleanScan

LEMMA NextCleanScan ==
  ASSUME NoFaults, StoreInv, StoreInv', ReadInv, CleanInv, [Next]_vars
  PROVE  CleanScan'
<1>0. CleanFile /\ CleanScan  BY DEF CleanInv
<1>1. CASE OpenValueFile \/ CopyRecord \/ RenameMigrated \/ RemoveStaleIndex  BY <1>0, <1>1, ScanOpens
<1>2. CASE \/ Truncate \/ Zero \/ StoreHeader \/ PlaceExistingBucket \/ CountPlaced
           \/ EnsureCapacityForInsert
  BY <1>0, <1>2, ScanBuilds
<1>3. CASE StartRebuild \/ Built \/ ScanGrows \/ ScanRecord \/ CountScanned
  BY <1>0, <1>3, ScanStarts, ScanBuilt, ScanResizes, ScanSteps
<1>4. CASE ScanFails \/ MapFails \/ AppendFails \/ FindFails \/ Crash  BY <1>4, NeverFails
<1>5. CASE \/ CopyFails \/ UseIndex \/ OpenReadOnly \/ ScanEnds \/ UseUnmapped \/ Close \/ DeleteIndex
           \/ AppendRecord \/ StoreEntry \/ CountEntry \/ FinishWrite
  <2>1. pc' \in {"closed", "idle", "readonly", "append", "store", "count"}
    <3>1. CASE CopyFails \/ UseIndex \/ ScanEnds  BY <3>1 DEF CopyFails, UseIndex, ScanEnds, Closed
    <3>2. CASE OpenReadOnly  BY <3>2 DEF OpenReadOnly
    <3>3. CASE UseUnmapped \/ Close \/ DeleteIndex  BY <3>3 DEF UseUnmapped, Close, DeleteIndex, Closed
    <3>4. CASE AppendRecord \/ StoreEntry  BY <3>4 DEF AppendRecord, StoreEntry, Storing
    <3>5. CASE CountEntry \/ FinishWrite  BY <3>5 DEF CountEntry, FinishWrite
    <3> QED  BY <1>5, <3>1, <3>2, <3>3, <3>4, <3>5
  <2> QED  BY <2>1, NoScan DEF BuildPcs
<1>6. CASE PutStructs \/ PutUniqueStructs
  <2>1. pc' = "append" \/ (pc' = "double" /\ build'.resume = "append")
    BY <1>6 DEF PutStructs, PutUniqueStructs, CallWriteStructs, StartResize
  <2>2. ~Rebuilding'  BY <2>1 DEF Rebuilding, BuildPcs
  <2>3. pc' \notin {"migrate", "removeIndex", "openIndex"}  BY <2>1
  <2> QED  BY ONLY <2>2, <2>3 DEF CleanScan
<1>7. CASE UNCHANGED vars
  <2>1. UNCHANGED <<values, pc, next, build, status>>  BY <1>7 DEF vars, disk, locals
  <2>2. Rebuilding' = Rebuilding /\ Seen' = Seen
    BY <2>1 DEF Rebuilding, Seen, RecordEnd, ValLenAt
  <2> QED  BY <1>0, <2>1, <2>2 DEF CleanScan
<1> QED  BY <1>1, <1>2, <1>3, <1>4, <1>5, <1>6, <1>7, Zenon DEF Next

-----------------------------------------------------------------------------
(* What a database without failures promises.                              *)

LEMMA InitClean == Init => CleanInv
<1> SUFFICES ASSUME Init  PROVE CleanInv  OBVIOUS
<1>1. PICK f \in InitialFiles : values = f.values  BY DEF Init
<1>2. (values = <<>>) \/ OldFile(values)  BY <1>1, FilesAssumption
<1>3. ~IsLegacy => WholeTo(values, Len(values))
  <2>1. OldFile(values) => IsLegacy  BY DEF OldFile, IsLegacy
  <2>2. values = <<>> => Len(values) = 0  OBVIOUS
  <2> QED  BY <1>2, <2>1, <2>2 DEF WholeTo
<1>4. pc = "closed" /\ ~suspect  BY DEF Init
<1>5. ~Resizing /\ ~Rebuilding  BY <1>4 DEF Resizing, Rebuilding, BuildPcs
<1> QED  BY ONLY <1>3, <1>4, <1>5 DEF CleanInv, CleanFile, CleanEnd, CleanScan

LEMMA FaultsSafe == NoFaults => SafeErrors /\ NoOldIndex /\ SafeAppends
BY DEF NoFaults, SafeErrors, NoOldIndex, SafeAppends

SoundInv == StoreInv /\ ReadInv /\ AnswerInv /\ CleanInv

LEMMA InitSound ==
  ASSUME NoFaults
  PROVE  Init => SoundInv
BY FaultsSafe, InitStore, InitRead, InitAnswer, InitClean DEF SoundInv

LEMMA NextSound ==
  ASSUME NoFaults, SoundInv, [Next]_vars
  PROVE  SoundInv'
<1>1. StoreInv /\ ReadInv /\ AnswerInv /\ CleanInv /\ SafeErrors /\ NoOldIndex /\ SafeAppends
  BY FaultsSafe DEF SoundInv
<1>2. StoreInv'  BY <1>1, NextStore
<1>3. ReadInv'  BY <1>1, <1>2, NextRead
<1>4. AnswerInv'  BY <1>1, <1>2, NextAnswer
<1>5. CleanInv'
  <2>1. MigrateInv  BY <1>1 DEF AnswerInv
  <2> QED  BY <1>1, <1>2, <2>1, NextCleanFile, NextCleanEnd, NextCleanScan DEF CleanInv
<1> QED  BY <1>2, <1>3, <1>4, <1>5 DEF SoundInv

\* Without failures GetStruct answers the last acknowledged value, for every object
\* and between any two calls: through resizes, hash collisions, closes, read-only
\* sessions, the migration of a file of the preceding format, and rebuilds of an
\* index file that was removed.
THEOREM ObjectObjectsReadable ==
  ASSUME NoFaults
  PROVE  Spec => []ObjectsReadable
<1>1. SoundInv /\ [Next]_vars => SoundInv'  BY NextSound
<1>2. SoundInv => ObjectsReadable
  BY LossImplied DEF SoundInv, CleanInv, CleanFile, LossNeedsCutBuild, ObjectsReadable
<1> QED  BY InitSound, <1>1, <1>2, PTL DEF Spec

\* Without failures a rebuild finds a record, or the end of the file, wherever its
\* scan stands, and its probes find a record of the object or an empty bucket: it
\* reports no Corruption.
THEOREM ObjectRebuildSucceeds ==
  ASSUME NoFaults
  PROVE  Spec => RebuildSucceeds
<1>1. SoundInv /\ [Next]_vars => SoundInv'  BY NextSound
<1>2. SoundInv /\ [Next]_vars => [pc = "scan" => status' # "Corruption"]_vars
  <2> SUFFICES ASSUME SoundInv, [Next]_vars, pc = "scan"
               PROVE  status' # "Corruption" \/ UNCHANGED vars
    OBVIOUS
  <2>1. StoreInv /\ ReadInv /\ CleanInv  BY DEF SoundInv
  <2>2. status = "OK"  BY <2>1 DEF CleanInv, CleanScan, Rebuilding
  <2>3. CASE ScanGrows \/ ScanRecord \/ ScanEnds  BY <2>2, <2>3 DEF ScanGrows, ScanRecord, ScanEnds
  <2>4. CASE ScanFails \/ MapFails \/ AppendFails \/ FindFails \/ Crash  BY <2>1, <2>4, NeverFails
  <2>5. CASE \/ OpenValueFile \/ CopyRecord \/ CopyFails \/ RenameMigrated \/ RemoveStaleIndex
             \/ UseIndex \/ StartRebuild \/ OpenReadOnly \/ EnsureCapacityForInsert
    BY <2>5 DEF OpenValueFile, CopyRecord, CopyFails, RenameMigrated, RemoveStaleIndex, UseIndex,
                StartRebuild, OpenReadOnly, EnsureCapacityForInsert
  <2>6. CASE Truncate \/ Zero \/ StoreHeader \/ PlaceExistingBucket \/ CountPlaced \/ Built
    BY <2>6 DEF Truncate, Zero, StoreHeader, PlaceExistingBucket, CountPlaced, Built, BuildIndex
  <2>7. CASE \/ CountScanned \/ PutStructs \/ PutUniqueStructs \/ AppendRecord \/ StoreEntry
             \/ CountEntry \/ FinishWrite
    BY <2>7 DEF CountScanned, PutStructs, PutUniqueStructs, CallWriteStructs, AppendRecord, StoreEntry,
                Storing, CountEntry, FinishWrite
  <2>8. CASE UseUnmapped \/ Close \/ DeleteIndex  BY <2>8 DEF UseUnmapped, Close, DeleteIndex
  <2> QED  BY <2>3, <2>4, <2>5, <2>6, <2>7, <2>8, Zenon DEF Next
<1> QED  BY InitSound, <1>1, <1>2, PTL DEF Spec, RebuildSucceeds
=============================================================================
