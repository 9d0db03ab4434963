------------------------------ MODULE RowBlock ------------------------------
(***************************************************************************)
(* The inside of a row block (src/src/lumodb/database.cpp and file.cpp):   *)
(* BuildRowBlockLayout lays the entries of a row out behind a hash table   *)
(* of their keys, WriteVAllAt gets the pieces into the shard file in as    *)
(* many pwritev calls as it takes, FindValueInRowBlockAt probes the table  *)
(* in the file, DecodeRowBlockEntries lists it, and PutRowStruct decodes,  *)
(* changes one entry and writes a new block.                               *)
(*                                                                         *)
(* One row and one thread: RowIndex has the threads and takes a block as   *)
(* the map that this module shows it to be.  Keys and values are sequences *)
(* of bytes, with two keys of one hash and one length among them, and with *)
(* an empty key and an empty value.                                        *)
(***************************************************************************)
EXTENDS Integers, Sequences, FiniteSets, SequencesExt

CONSTANTS
  Key,          \* the keys, as sequences of bytes
  HashOf,       \* Key -> HashString(key), mixed with the rowId
  Val,          \* the values, as sequences of bytes
  NoVal,        \* no value: NotFound
  Column,       \* the bytes of the column
  Ident,        \* the row's rowId and the hash of its column
  Batch,        \* the entry lists that PutRowStructs is called with
  MinBuckets,   \* kMinimumBucketCount, a power of two
  LoadNum, LoadDen,   \* maxLoadFactor as a fraction
  IovMax,       \* sysconf(_SC_IOV_MAX)
  MaxCalls,     \* bound: writes
  WriteFails    \* pwritev may fail

Entry == [key : Key, val : Val]

ASSUME BlockAssumption ==
  /\ HashOf \in [Key -> Nat]
  /\ NoVal \notin Val
  /\ \A b \in Batch : b \in Seq(Entry) /\ b # <<>>
  /\ \E k \in 0 .. 30 : MinBuckets = 2 ^ k
  /\ LoadNum \in Nat \ {0} /\ LoadDen \in Nat /\ LoadNum < LoadDen
  /\ IovMax \in Nat \ {0} /\ MaxCalls \in Nat
  /\ WriteFails \in BOOLEAN

VARIABLES
  file,         \* the shard file; offset o is file[o + 1]
  block,        \* blockOffset and blockSize of the row's bucket in the row index
  appendOffset, \* rowAppendOffsets_
  pc, status,
  entries,      \* the entries to write
  placed,       \* how many of them are in the table
  table,        \* layout.keyBuckets
  keyBytes,     \* layout.keyBytes
  selected,     \* selectedEntries
  header,       \* layout.header
  vectors,      \* WriteVAllAt: what is left of the slices
  blockOffset,
  offset,       \* currentOffset of WriteVAllAt
  calls,
  \* History: the row that the acknowledged writes, and the one in progress,
  \* leave behind, as a function from keys to values.
  expected, wanted

layout == <<entries, placed, table, keyBytes, selected, header>>
write  == <<vectors, blockOffset, offset>>
vars == <<file, block, appendOffset, pc, status, layout, write, calls, expected,
          wanted>>

-----------------------------------------------------------------------------
(* A block: header, key table, column, keys, values.                       *)

EmptyBucket == [state |-> "empty", keyHash |-> 0, keyOffset |-> 0, keySize |-> 0,
                valueOffset |-> 0, valueSize |-> 0]

Filled(t) == {b \in DOMAIN t : t[b].state = "filled"}

BlockSize(h) == 1 + h.bucketCount + h.columnSize + h.keyBytesSize + h.valueBytesSize

NoBlock == [offset |-> 0, size |-> 0]

Hole == [hole |-> TRUE]
IsHeader(c) == "itemCount" \in DOMAIN c
IsBucket(c) == "keyHash" \in DOMAIN c

\* ReadRowValueAt: a read of n > 0 cells that goes past the end of the file is
\* Corruption.  What was skipped by the writes reads as zeros.
PastEnd(o, n) == n > 0 /\ o + n > Len(file)
CellAt(o) == IF o + 1 \in DOMAIN file THEN file[o + 1] ELSE Hole
Bytes(o, n) == [i \in 1 .. n |-> CellAt(o + i - 1)]

\* Zeros are an empty bucket, and what is no bucket has some other state.
BucketAt(o, i) ==
  LET c == CellAt(o + 1 + i) IN
  IF c = Hole THEN EmptyBucket
  ELSE IF IsBucket(c) THEN c ELSE [EmptyBucket EXCEPT !.state = "invalid"]

IsValidRowBlockHeader(h) ==
  /\ IsHeader(h)
  /\ \E k \in 0 .. h.bucketCount : h.bucketCount = 2 ^ k
  /\ h.blockSize = BlockSize(h)

\* The offsets of the parts of the block at offset o.
ColumnAt(o) == o + 1 + CellAt(o).bucketCount
KeysAt(o) == ColumnAt(o) + CellAt(o).columnSize
ValuesAt(o) == KeysAt(o) + CellAt(o).keyBytesSize

KeyOf(o, m) == Bytes(KeysAt(o) + m.keyOffset, m.keySize)
ValueOf(o, m) == Bytes(ValuesAt(o) + m.valueOffset, m.valueSize)

\* What a read of the block b of the row's bucket answers.
OK(v) == [status |-> "OK", value |-> v]
NotFound == [status |-> "NotFound", value |-> NoVal]
Corruption == [status |-> "Corruption", value |-> NoVal]

\* The block holds the row of this column: FALSE for another column of its hash.
RowBlockMatches(b) ==
  LET h == CellAt(b.offset) IN
  IF \/ PastEnd(b.offset, 1) \/ ~IsValidRowBlockHeader(h)
     \/ h.ident # Ident \/ h.blockSize # b.size
  THEN Corruption
  ELSE IF h.columnSize # Len(Column) THEN OK(FALSE)
  ELSE IF PastEnd(ColumnAt(b.offset), h.columnSize) THEN Corruption
  ELSE OK(Bytes(ColumnAt(b.offset), h.columnSize) = Column)

\* The k-th bucket that a probe for key x meets in a table of n buckets.
Probe(x, k, n) == (HashOf[x] + k) % n

\* Mutant: an empty key or value may not begin where the bytes end.
InBlock_Strict(h, m) ==
  /\ m.keyOffset < h.keyBytesSize /\ m.keySize <= h.keyBytesSize - m.keyOffset
  /\ m.valueOffset <= h.valueBytesSize
  /\ m.valueSize <= h.valueBytesSize - m.valueOffset

InBlock(h, m) ==
  /\ m.keyOffset <= h.keyBytesSize /\ m.keySize <= h.keyBytesSize - m.keyOffset
  /\ m.valueOffset <= h.valueBytesSize
  /\ m.valueSize <= h.valueBytesSize - m.valueOffset

\* FindValueInRowBlockAt: the probe passes over the buckets of other keys and
\* stops at an empty bucket, at the key, and at what it cannot read or trust.
FindValue(b, x) ==
  LET o == b.offset
      h == CellAt(o)
      n == h.bucketCount
      At(k) == o + 1 + Probe(x, k, n)
      Met(k) == BucketAt(o, Probe(x, k, n))
      Candidate(k) == Met(k).keyHash = HashOf[x] /\ Met(k).keySize = Len(x)
      Rejected(k) ==
        \/ PastEnd(At(k), 1)
        \/ Met(k).state \notin {"empty", "filled"}
        \/ /\ Met(k).state = "filled" /\ Candidate(k)
           /\ ~InBlock(h, Met(k)) \/ PastEnd(KeysAt(o) + Met(k).keyOffset, Len(x))
      Holds(k) == Candidate(k) /\ KeyOf(o, Met(k)) = x
      Stops == {k \in 0 .. n - 1 : Rejected(k) \/ Met(k).state = "empty" \/ Holds(k)}
      stop == Min(Stops)
  IN IF ~IsValidRowBlockHeader(h) \/ h.blockSize # b.size THEN Corruption
     ELSE IF Stops = {} THEN NotFound
     ELSE IF Rejected(stop) THEN Corruption
     ELSE IF Met(stop).state = "empty" THEN NotFound
     ELSE IF PastEnd(ValuesAt(o) + Met(stop).valueOffset, Met(stop).valueSize)
     THEN Corruption
     ELSE OK(ValueOf(o, Met(stop)))

\* FindRowBucket passes over a bucket whose block is of another column.
GetRowStruct(x) ==
  IF block = NoBlock THEN NotFound
  ELSE LET matches == RowBlockMatches(block) IN
       IF matches.status # "OK" THEN matches
       ELSE IF matches.value THEN FindValue(block, x) ELSE NotFound

\* LoadRowBlock and DecodeRowBlockEntries: the entries in the order of the
\* buckets, when every part of the block is as it should be.
DecodeRowBlockEntries(b) ==
  LET o == b.offset
      h == CellAt(o)
      t == [i \in 0 .. h.bucketCount - 1 |-> BucketAt(o, i)]
      full == SetToSortSeq(Filled(t), <)
  IN IF \/ PastEnd(o, b.size) \/ b.size = 0
        \/ ~IsValidRowBlockHeader(h) \/ h.blockSize # b.size \/ h.ident # Ident
        \/ Bytes(ColumnAt(o), h.columnSize) # Column
        \/ \E i \in DOMAIN t : t[i].state \notin {"empty", "filled"}
        \/ \E i \in Filled(t) : \/ t[i].keyOffset + t[i].keySize > h.keyBytesSize
                                \/ t[i].valueOffset + t[i].valueSize > h.valueBytesSize
        \/ Len(full) # h.itemCount
     THEN Corruption
     ELSE OK([i \in DOMAIN full |-> [key |-> KeyOf(o, t[full[i]]),
                                     val |-> ValueOf(o, t[full[i]])]])

\* The entries of the row, none if no bucket of the index holds it.
LoadRowEntries ==
  IF block = NoBlock THEN OK(<<>>)
  ELSE LET matches == RowBlockMatches(block) IN
       IF matches.status # "OK" THEN matches
       ELSE IF matches.value THEN DecodeRowBlockEntries(block) ELSE OK(<<>>)

-----------------------------------------------------------------------------
NoTable == [b \in {} |-> EmptyBucket]
NoHeader == [blockSize |-> 0]
NoRow   == [x \in Key |-> NoVal]

Init ==
  /\ file = <<[fileHeader |-> TRUE]>>
  /\ block = NoBlock /\ appendOffset = 1
  /\ pc = "idle" /\ status = "OK"
  /\ entries = <<>> /\ placed = 0 /\ table = NoTable
  /\ keyBytes = <<>> /\ selected = <<>> /\ header = NoHeader
  /\ vectors = <<>> /\ blockOffset = 0 /\ offset = 0
  /\ calls = 0
  /\ expected = NoRow /\ wanted = NoRow

Return(s) ==
  /\ status' = s
  /\ pc' = "idle"
  /\ entries' = <<>> /\ placed' = 0 /\ table' = NoTable
  /\ keyBytes' = <<>> /\ selected' = <<>> /\ header' = NoHeader
  /\ vectors' = <<>> /\ blockOffset' = 0 /\ offset' = 0
  /\ wanted' = NoRow

\* RoundUpPowerOfTwo.
RoundUp(n) == MinBuckets * 2 ^ Min({k \in 0 .. n : MinBuckets * 2 ^ k >= n})

\* Mutant: the table does not grow with the number of entries.
BucketCountFor_Minimum(n) == MinBuckets

BucketCountFor(n) == RoundUp((n * LoadDen) \div LoadNum + 1)

\* WriteRowStructs: the layout starts with an empty table.
WriteRowStructs(es, row) ==
  /\ pc = "idle"
  /\ calls < MaxCalls
  /\ calls' = calls + 1
  /\ entries' = es
  /\ placed' = 0
  /\ table' = [b \in 0 .. BucketCountFor(Len(es)) - 1 |-> EmptyBucket]
  /\ selected' = [b \in DOMAIN table' |-> 0]
  /\ keyBytes' = <<>>
  /\ pc' = "place"
  /\ wanted' = row
  /\ UNCHANGED <<file, block, appendOffset, status, header, write, expected>>

\* The last entry of a key is the one that counts.
PutRowStructs ==
  \E es \in Batch :
    LET Of(x) == {i \in DOMAIN es : es[i].key = x} IN
    WriteRowStructs(es, [x \in Key |-> IF Of(x) = {} THEN NoVal ELSE es[Max(Of(x))].val])

\* The row's entries with e put in the place of its key, or at the end.
Merged(es, e) ==
  LET same == {i \in DOMAIN es : es[i].key = e.key} IN
  IF same = {} THEN Append(es, e)
  ELSE [es EXCEPT ![Min(same)].val = e.val]

\* A row that cannot be listed is not written again: the call answers why.
PutRowStruct ==
  \E e \in Entry :
    LET row == LoadRowEntries IN
    IF row.status = "OK"
    THEN WriteRowStructs(Merged(row.value, e), [expected EXCEPT ![e.key] = e.val])
    ELSE /\ pc = "idle" /\ calls < MaxCalls
         /\ calls' = calls + 1
         /\ Return(row.status)
         /\ UNCHANGED <<file, block, appendOffset, expected>>

-----------------------------------------------------------------------------
(* BuildRowBlockLayout.                                                    *)

InHand == entries[placed + 1]

\* Mutant: the key's offset is taken after its bytes were appended.
KeyOffset_After(x) == Len(keyBytes) + Len(x)

KeyOffset(x) == Len(keyBytes)

\* Mutant: an entry for a key that is there already changes nothing.
Selected_First(b) == IF table[b].state = "filled" THEN selected[b] ELSE placed + 1

\* The last entry of a key is the one whose value is written.
Selected(b) == placed + 1

StoredKey(b) == SubSeq(keyBytes, table[b].keyOffset + 1, table[b].keyOffset + table[b].keySize)

\* The first bucket that is empty or holds the key.
PlaceEntry ==
  /\ pc = "place" /\ placed < Len(entries)
  /\ LET x == InHand.key
         n == Cardinality(DOMAIN table)
         Stops == {k \in 0 .. n - 1 :
                     LET b == Probe(x, k, n) IN
                     \/ table[b].state = "empty"
                     \/ /\ table[b].keyHash = HashOf[x] /\ table[b].keySize = Len(x)
                        /\ StoredKey(b) = x}
         b == Probe(x, Min(Stops), n)
     IN IF Stops = {}
        THEN Return("Corruption")
        ELSE /\ selected' = [selected EXCEPT ![b] = Selected(b)]
             /\ IF table[b].state = "filled" THEN UNCHANGED <<table, keyBytes>>
                ELSE /\ keyBytes' = keyBytes \o x
                     /\ table' = [table EXCEPT ![b] =
                          [EmptyBucket EXCEPT !.state = "filled", !.keyHash = HashOf[x],
                             !.keyOffset = KeyOffset(x), !.keySize = Len(x)]]
             /\ placed' = placed + 1
             /\ UNCHANGED <<pc, status, entries, header, write, wanted>>
  /\ UNCHANGED <<file, block, appendOffset, calls, expected>>

\* The values in the order of the buckets, the header, and the range of the
\* shard file; empty slices are dropped by WriteVAllAt.
FinishLayout ==
  /\ pc = "place" /\ placed = Len(entries)
  /\ LET full   == SetToSortSeq(Filled(table), <)
         vals   == [i \in DOMAIN full |-> entries[selected[full[i]]].val]
         Before(b) == FlattenSeq([i \in 1 .. Cardinality({c \in Filled(table) : c < b})
                                    |-> vals[i]])
         valued == [b \in DOMAIN table |->
                      IF table[b].state = "filled"
                      THEN [table[b] EXCEPT !.valueOffset = Len(Before(b)),
                              !.valueSize = Len(entries[selected[b]].val)]
                      ELSE table[b]]
         sizes  == [ident |-> Ident, columnSize |-> Len(Column),
                    itemCount |-> Len(full), bucketCount |-> Cardinality(DOMAIN table),
                    keyBytesSize |-> Len(keyBytes),
                    valueBytesSize |-> Len(FlattenSeq(vals)), blockSize |-> 0]
     IN /\ table' = valued
        /\ header' = [sizes EXCEPT !.blockSize = BlockSize(sizes)]
        /\ vectors' = SelectSeq(<< <<header'>>,
                         [i \in 1 .. header'.bucketCount |-> valued[i - 1]],
                         Column, keyBytes >> \o vals, LAMBDA v : v # <<>>)
        /\ blockOffset' = appendOffset /\ offset' = appendOffset
        /\ appendOffset' = appendOffset + header'.blockSize
  /\ pc' = "write"
  /\ UNCHANGED <<file, block, status, entries, placed, keyBytes, selected, calls,
                 expected, wanted>>

-----------------------------------------------------------------------------
(* WriteVAllAt.                                                            *)

Overwrite(o, cells) ==
  [i \in 1 .. Max({Len(file), o + Len(cells)}) |->
     IF i \in o + 1 .. o + Len(cells) THEN cells[i - o]
     ELSE IF i <= Len(file) THEN file[i] ELSE Hole]

SizeOf(k) == Len(FlattenSeq(SubSeq(vectors, 1, k)))
WholeVectors(n) == Cardinality({k \in DOMAIN vectors : SizeOf(k) <= n})

\* The vectors without their first n bytes.
Consume(n) ==
  LET k == WholeVectors(n)
      rest == SubSeq(vectors, k + 1, Len(vectors))
  IN IF SizeOf(k) = n THEN rest
     ELSE [rest EXCEPT ![1] = SubSeq(@, n - SizeOf(k) + 1, Len(@))]

\* One pwritev of at most IovMax vectors writes at least one byte.
PWriteV ==
  /\ pc = "write" /\ vectors # <<>>
  /\ LET batch == FlattenSeq(SubSeq(vectors, 1, Min({Len(vectors), IovMax})))
     IN \E n \in 1 .. Len(batch) :
          /\ file' = Overwrite(offset, SubSeq(batch, 1, n))
          /\ offset' = offset + n
          /\ vectors' = Consume(n)
  /\ UNCHANGED <<block, appendOffset, pc, status, layout, blockOffset, calls, expected,
                 wanted>>

\* pwritev returns an error, or zero: so does the write, and the row keeps its
\* block.
PWriteVFails ==
  /\ pc = "write" /\ vectors # <<>>
  /\ WriteFails
  /\ Return("IOError")
  /\ UNCHANGED <<file, block, appendOffset, calls, expected>>

\* InsertOrUpdateRowBucket: the row's bucket names the new block, if the block
\* that it names now can be compared.
FinishWrite ==
  /\ pc = "write" /\ vectors = <<>>
  /\ LET matches == IF block = NoBlock THEN OK(FALSE) ELSE RowBlockMatches(block) IN
     IF matches.status = "OK"
     THEN /\ block' = [offset |-> blockOffset, size |-> header.blockSize]
          /\ expected' = wanted
          /\ Return("OK")
     ELSE /\ Return(matches.status)
          /\ UNCHANGED <<block, expected>>
  /\ UNCHANGED <<file, appendOffset, calls>>

\* GetRowStruct and Dump change nothing.
Read == pc = "idle" /\ UNCHANGED vars

Next ==
  \/ Read
  \/ PutRowStructs \/ PutRowStruct \/ PlaceEntry \/ FinishLayout
  \/ PWriteV \/ PWriteVFails \/ FinishWrite

Spec == Init /\ [][Next]_vars

-----------------------------------------------------------------------------
\* The type of the program's variables; a filled bucket's key lies in the key
\* bytes and is the one it was hashed from.
TypeOK ==
  /\ block.offset + block.size <= Len(file) /\ appendOffset \in Nat
  /\ pc \in {"idle", "place", "write"}
  /\ status \in {"OK", "IOError", "Corruption"}
  /\ entries \in Seq(Entry) /\ placed \in 0 .. Len(entries)
  /\ \A b \in Filled(table) :
       /\ table[b].keyOffset + table[b].keySize <= Len(keyBytes)
       /\ StoredKey(b) \in Key
       /\ selected[b] \in 1 .. placed
  /\ calls \in 0 .. MaxCalls

\* Whatever pieces pwritev wrote the block in, whichever keys collide in its
\* table, wherever an empty key or value begins and however often a call was
\* repeated or failed, no lookup finds anything wrong with the row's block: it
\* answers the value of the last acknowledged entry for its key, and an absent
\* key is not found.
LookupAgrees ==
  \A x \in Key :
    GetRowStruct(x) = IF expected[x] = NoVal THEN NotFound ELSE OK(expected[x])

\* PutRowStruct, which lists the block, finds nothing wrong with it either and
\* sees the same row as the lookups: every key once, with its value.
DecodeAgrees ==
  LET row == LoadRowEntries IN
  /\ row.status = "OK"
  /\ Len(row.value) = Cardinality({x \in Key : expected[x] # NoVal})
  /\ \A i \in DOMAIN row.value : expected[row.value[i].key] = row.value[i].val

\* A write never answers Corruption: the table of BuildRowBlockLayout has room
\* for the entries, and the block that PutRowStruct merges into can be listed.
TableNeverFull == status # "Corruption"
=============================================================================
