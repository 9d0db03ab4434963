---------------------------- MODULE RowRecovery ----------------------------
(***************************************************************************)
(* The row files of LumoDB across sessions (src/src/lumodb/database.cpp):  *)
(* threads append row blocks to shard files in parallel and publish them   *)
(* in row_index.lumori; the process closes the files or dies; the next     *)
(* Open, perhaps with other options, takes the index as it is or rebuilds  *)
(* it from the shard files.                                                *)
(*                                                                         *)
(* Module RowIndex has every atomic access of a running database.  Here a  *)
(* write is cut down to the steps that a file can be left behind in, and   *)
(* what is added is the files: blocks cut by a failed or dying write,      *)
(* holes left by a range that was reserved and never written, the scan     *)
(* that meets them, and a change of rowShardCount or initialRowBucketCount *)
(* between two sessions.  Rows whose columns collide are left to RowIndex. *)
(***************************************************************************)
EXTENDS Integers, Sequences, FiniteSets, FiniteSetsExt

CONSTANTS
  Thread,
  Row, NoRow,   \* (column, rowId) pairs
  HashOf,       \* Row -> MixHashes(columnHash, rowId)
  Options,      \* the [shards, buckets] that Open may be called with:
                \* rowShardCount and initialRowBucketCount, rounded up
  LoadNum, LoadDen,   \* maxLoadFactor as a fraction
  MaxCalls,     \* bound: row writes
  MaxCrashes,   \* bound: process deaths
  Faults        \* which of write, read, crash and delete may happen

Shard == UNION {0 .. o.shards - 1 : o \in Options}

ASSUME RecoveryAssumption ==
  /\ NoRow \notin Row
  /\ HashOf \in [Row -> Nat]
  /\ \A o \in Options :
       /\ o.shards \in Nat \ {0} /\ o.buckets \in Nat \ {0}
       /\ \E k \in 0 .. 30 : o.buckets = 2 ^ k
  /\ LoadNum \in Nat \ {0} /\ LoadDen \in Nat /\ LoadNum < LoadDen
  /\ MaxCalls \in Nat /\ MaxCrashes \in Nat
  /\ Faults \subseteq {"write", "read", "crash", "delete"}

VARIABLES
  file,         \* row_values-NNN.lumorv: [Shard -> sequence of cells]
  index,        \* row_index.lumori
  pc,           \* where Open or the database is
  opts,         \* options_
  append,       \* rowAppendOffsets_
  writer,       \* Thread -> the row write in progress
  scan,         \* RebuildRowIndexFromValues: shardId, offset, nextSequence
  build,        \* ResizeRowIndex: bucketCount, the old buckets still to place
  status,       \* what the last Open, Close or write returned
  calls, crashes,
  \* History: the last acknowledged write of a row, later writes of it that
  \* failed or were cut, the shard counts that blocks were written under,
  \* whether blocks were written under a count that is no multiple of an
  \* earlier one, and whether the index comes from a build that was cut or
  \* that scanned a torn shard file.
  acked, maybe, used, drift, suspect

session == <<pc, opts, append, writer, scan, build>>
bounds  == <<calls, crashes>>
history == <<acked, maybe, used, drift, suspect>>
vars == <<file, index, session, status, bounds, history>>

-----------------------------------------------------------------------------
(* A shard file: a file header, then blocks of three cells: the block      *)
(* header, the key table and column, the keys and values.  A range that    *)
(* was never written but lies before one that was reads as zeros.          *)

Mark(n)    == [row |-> NoRow, val |-> 0, seq |-> 0, at |-> n]
FileHeader == Mark(0)
Hole       == Mark(1)
Fragment   == Mark(2)
BlockSize  == 3
Block(r, v, s) ==
  [i \in 1 .. BlockSize |-> [row |-> r, val |-> v, seq |-> s, at |-> i - 1]]

\* What pwritev leaves behind: cells at offset o of f.
Overwrite(f, o, cells) ==
  [i \in 1 .. Max({Len(f), o + Len(cells)}) |->
     IF i \in o + 1 .. o + Len(cells) THEN cells[i - o]
     ELSE IF i <= Len(f) THEN f[i] ELSE Hole]

\* A block that was cut: some of its cells, and perhaps a piece of the next.
Pieces(b) ==
  {SubSeq(b, 1, k) : k \in 1 .. BlockSize - 1}
    \cup {Append(SubSeq(b, 1, k), Fragment) : k \in 0 .. BlockSize - 2}

CellAt(s, o) == IF o + 1 \in DOMAIN file[s] THEN file[s][o + 1] ELSE Hole
IsValidRowBlockHeader(s, o) == CellAt(s, o).row \in Row /\ CellAt(s, o).at = 0

\* ReadRowBlockColumn: the row's own column, or bytes that are no column.
ColumnAt(s, o) ==
  IF CellAt(s, o + 1) = [CellAt(s, o) EXCEPT !.at = 1] THEN CellAt(s, o).row ELSE NoRow

\* The value in the block at offset o, 0 if its bytes are not those written.
ValueAt(s, o) ==
  IF \A i \in 1 .. BlockSize - 1 : CellAt(s, o + i) = [CellAt(s, o) EXCEPT !.at = i]
  THEN CellAt(s, o).val ELSE 0

Opened == 0 .. opts.shards - 1

\* Every cell behind the file header belongs to a whole block.
Whole(f) ==
  \A i \in 2 .. Len(f) :
    /\ f[i].row \in Row
    /\ f[i].at < BlockSize - 1 => i < Len(f) /\ f[i + 1] = [f[i] EXCEPT !.at = @ + 1]
    /\ f[i].at > 0 => f[i - 1] = [f[i] EXCEPT !.at = @ - 1]
Torn == \E s \in Opened : ~Whole(file[s])

ShardForRow(r) == HashOf[r] % opts.shards

-----------------------------------------------------------------------------
(* The index file.                                                         *)

Empty   == 0
Filled  == 1
Writing == 2
EmptyBucket == [state |-> Empty, row |-> NoRow, shard |-> 0, offset |-> 0, seq |-> 0]
NoBuckets == [b \in {} |-> EmptyBucket]
NoIndex == [header |-> FALSE, shards |-> 0, items |-> 0, nextSequence |-> 1,
            bucket |-> NoBuckets]

Buckets == DOMAIN index.bucket
InState(x) == {b \in Buckets : index.bucket[b].state = x}

HasValidRowIndexLayout(shardCount) ==
  /\ index.header
  /\ index.shards = shardCount
  /\ InState(Writing) = {}
  /\ Cardinality(InState(Filled)) = index.items

\* The k-th bucket that a probe for row r meets.
Probe(r, k) == (HashOf[r] + k) % Cardinality(Buckets)

\* FindRowBucket: the first bucket that is empty, or is the row's own and
\* holds the given column.
Matches(b, r, column) ==
  LET x == index.bucket[b] IN
  x.state = Empty \/ (x.row = r /\ ColumnAt(x.shard, x.offset) = column)
FirstMatch(r, column) ==
  Min({k \in 0 .. Cardinality(Buckets) - 1 : Matches(Probe(r, k), r, column)})
FindRowBucket(r, column) == Probe(r, FirstMatch(r, column))

\* What GetRowStruct answers for row r.
GetRowStruct(r) ==
  LET x == index.bucket[FindRowBucket(r, r)] IN
  IF x.state = Empty THEN 0 ELSE ValueAt(x.shard, x.offset)

\* Dump and GetColumnStats go through the buckets instead of probing.
RowDump ==
  {LET x == index.bucket[b] IN <<ColumnAt(x.shard, x.offset), ValueAt(x.shard, x.offset)>> :
     b \in InState(Filled)}
RowCount == Cardinality(InState(Filled))

Fits(n) == (index.items + n) * LoadDen <= LoadNum * Cardinality(Buckets)

-----------------------------------------------------------------------------
Idle    == [pc |-> "idle", row |-> NoRow, val |-> 0, seq |-> 0, offset |-> 0,
            bucket |-> 0, inserted |-> FALSE]
NoScan  == [shard |-> 0, offset |-> 1, nextSequence |-> 1]
NoBuild == [count |-> 0, copy |-> NoBuckets, nextSequence |-> 1, resume |-> "serving"]
NoAppend == [s \in Shard |-> 0]

Init ==
  /\ file = [s \in Shard |-> <<>>]
  /\ index = NoIndex
  /\ pc = "closed"
  /\ opts \in Options
  /\ append = NoAppend
  /\ writer = [t \in Thread |-> Idle]
  /\ scan = NoScan /\ build = NoBuild
  /\ status = "OK"
  /\ calls = 0 /\ crashes = 0
  /\ acked = [r \in Row |-> 0] /\ maybe = [r \in Row |-> {}]
  /\ used = {} /\ drift = FALSE /\ suspect = FALSE

\* CloseFiles.
Closed ==
  /\ pc' = "closed"
  /\ append' = NoAppend
  /\ writer' = [t \in Thread |-> Idle]
  /\ scan' = NoScan /\ build' = NoBuild
  /\ UNCHANGED opts

-----------------------------------------------------------------------------
(* Open.                                                                   *)

\* OpenRowValueFiles: a new file gets its header, an old one is appended to
\* from its end.  OpenRowIndexFile: the index is used if it is valid.
Open(o) ==
  /\ pc = "closed"
  /\ opts' = o
  /\ file' = [s \in Shard |-> IF s < o.shards /\ file[s] = <<>>
                              THEN <<FileHeader>> ELSE file[s]]
  /\ append' = [s \in Shard |-> IF s < o.shards THEN Len(file'[s]) ELSE 0]
  /\ IF HasValidRowIndexLayout(o.shards)
     THEN pc' = "serving" /\ UNCHANGED build
     ELSE /\ pc' = "create"
          /\ build' = [NoBuild EXCEPT !.count = o.buckets, !.resume = "scan"]
  /\ status' = "OK"
  /\ UNCHANGED <<index, writer, scan, bounds, history>>

\* OpenReadOnly takes the files as they are or not at all.
OpenReadOnly(o) ==
  /\ pc = "closed"
  /\ opts' = o
  /\ LET missing == \E s \in 0 .. o.shards - 1 : file[s] = <<>> IN
     IF ~missing /\ HasValidRowIndexLayout(o.shards)
     THEN /\ pc' = "readonly" /\ status' = "OK"
          /\ append' = [s \in Shard |-> IF s < o.shards THEN Len(file[s]) ELSE 0]
     ELSE /\ status' = IF missing \/ index = NoIndex THEN "IOError" ELSE "Corruption"
          /\ UNCHANGED <<pc, append>>
  /\ UNCHANGED <<file, index, writer, scan, build, bounds, history>>

\* CreateEmptyRowIndex: unmap, truncate and clear the file, then its header.  An
\* Open that fails in between, because the file cannot be truncated or mapped,
\* leaves the files that a death of the process leaves there, and is left out.
ClearIndex ==
  /\ pc = "create"
  /\ index' = NoIndex
  /\ pc' = "header"
  /\ suspect' = IF build.resume = "scan" THEN Torn ELSE suspect
  /\ UNCHANGED <<file, opts, append, writer, scan, build, status, bounds, acked,
                 maybe, used, drift>>

CreateEmptyRowIndex ==
  /\ pc = "header"
  /\ index' = [header |-> TRUE, shards |-> opts.shards, items |-> 0,
               nextSequence |-> build.nextSequence,
               bucket |-> [b \in 0 .. build.count - 1 |-> EmptyBucket]]
  /\ pc' = "place"
  /\ UNCHANGED <<file, opts, append, writer, scan, build, status, bounds, history>>

\* The index with x in bucket b, which n counts as new.  (A process that dies
\* between the bucket and the count leaves a file that HasValidRowIndexLayout
\* rejects, which is a file that is rebuilt.)
WithBucket(b, x, n) == [index EXCEPT !.bucket[b] = x, !.items = @ + n]

PlaceExistingRowBucket ==
  /\ pc = "place"
  /\ DOMAIN build.copy # {}
  /\ LET c == Min(DOMAIN build.copy)
         x == build.copy[c]
         k == Min({i \in 0 .. build.count - 1 :
                     index.bucket[Probe(x.row, i)].state = Empty})
     IN /\ index' = WithBucket(Probe(x.row, k), x, 1)
        /\ build' = [build EXCEPT !.copy = Restrict(@, DOMAIN @ \ {c})]
  /\ UNCHANGED <<file, pc, opts, append, writer, scan, status, bounds, history>>

IndexReady ==
  /\ pc = "place"
  /\ DOMAIN build.copy = {}
  /\ pc' = build.resume
  /\ build' = NoBuild
  /\ UNCHANGED <<file, index, opts, append, writer, scan, status, bounds, history>>

-----------------------------------------------------------------------------
(* RebuildRowIndexFromValues: the shards in order, the blocks of a shard   *)
(* in the order of the file.                                               *)

Size == Len(file[scan.shard])
ScanValid ==
  /\ IsValidRowBlockHeader(scan.shard, scan.offset)
  /\ scan.offset + BlockSize <= Size

\* EnsureRowCapacityForInsert, then ResizeRowIndex.
ScanGrows ==
  /\ pc = "scan" /\ scan.offset < Size /\ ScanValid
  /\ ~Fits(1)
  /\ pc' = "create"
  /\ build' = [count |-> 2 * Cardinality(Buckets),
               copy |-> Restrict(index.bucket, InState(Filled)),
               nextSequence |-> index.nextSequence, resume |-> "insert"]
  /\ UNCHANGED <<file, index, opts, append, writer, scan, status, bounds, history>>

\* Mutant: the last sequence met, not the largest.
NextSequence_Last(s) == s + 1

NextSequence(s) == Max({scan.nextSequence, s + 1})

\* Mutant: a row that is already in the index keeps its bucket.
Winner_First(old, new) == IF old.state = Empty THEN new ELSE old

\* The block met last wins.
Winner(old, new) == new

\* Mutant: the scan steps over the block's header, not over the block.
NextBlock_HeaderOnly == scan.offset + 1

NextBlock == scan.offset + BlockSize

ScanBlock ==
  /\ \/ pc = "scan" /\ scan.offset < Size /\ ScanValid /\ Fits(1)
     \/ pc = "insert"
  /\ LET head == CellAt(scan.shard, scan.offset)
         b    == FindRowBucket(head.row, ColumnAt(scan.shard, scan.offset))
         new  == [state |-> Filled, row |-> head.row, shard |-> scan.shard,
                  offset |-> scan.offset, seq |-> head.seq]
     IN /\ index' = WithBucket(b, Winner(index.bucket[b], new),
                               IF index.bucket[b].state = Empty THEN 1 ELSE 0)
        /\ scan' = [scan EXCEPT !.offset = NextBlock,
                                !.nextSequence = NextSequence(head.seq)]
  /\ pc' = "scan"
  /\ UNCHANGED <<file, opts, append, writer, build, status, bounds, history>>

\* Something that is no block, a block that is cut, or a read that fails: Open
\* returns the error and leaves the index as far as it got.
ScanFails ==
  /\ pc = "scan" /\ scan.offset < Size
  /\ \/ ~ScanValid /\ status' = "Corruption"
     \/ "read" \in Faults /\ status' = "IOError"
  /\ Closed
  /\ suspect' = TRUE
  /\ UNCHANGED <<file, index, bounds, acked, maybe, used, drift>>

\* Mutant: one shard too many.
MoreShards_OffByOne == scan.shard < opts.shards

MoreShards == scan.shard + 1 < opts.shards

\* The append offset of the shard moves to the end of its file; after the last
\* shard nextSequence is stored.
ScanShardEnds ==
  /\ pc = "scan" /\ scan.offset >= Size
  /\ append' = [append EXCEPT ![scan.shard] = Size]
  /\ IF MoreShards
     THEN /\ scan' = [scan EXCEPT !.shard = @ + 1, !.offset = 1]
          /\ UNCHANGED <<index, pc>>
     ELSE /\ index' = [index EXCEPT !.nextSequence = scan.nextSequence]
          /\ scan' = NoScan
          /\ pc' = "serving"
  /\ UNCHANGED <<file, opts, writer, build, status, bounds, history>>

-----------------------------------------------------------------------------
(* WriteRowStructs, several at once.                                       *)

Pending == Cardinality({t \in Thread : writer[t].pc # "idle"})

At(t, label) == pc = "serving" /\ writer[t].pc = label
Goto(t, label) == writer' = [writer EXCEPT ![t].pc = label]

\* A slot, a sequence number and a range of the shard file are reserved.
\* Writes of one row are serialized by the caller (README:200).
PutRowStructs(t, r) ==
  /\ At(t, "idle")
  /\ calls < MaxCalls
  /\ \A u \in Thread : writer[u].row # r
  /\ calls' = calls + 1
  /\ IF Fits(Pending + 1)
     THEN /\ writer' = [writer EXCEPT ![t] =
               [Idle EXCEPT !.pc = "write", !.row = r, !.val = calls',
                            !.seq = index.nextSequence, !.offset = append[ShardForRow(r)]]]
          /\ index' = [index EXCEPT !.nextSequence = @ + 1]
          /\ append' = [append EXCEPT ![ShardForRow(r)] = @ + BlockSize]
          /\ used' = used \cup {opts.shards}
          /\ drift' = (drift \/ \E m \in used : opts.shards % m # 0)
          /\ UNCHANGED status
     ELSE /\ status' = "InvalidArgument"
          /\ UNCHANGED <<writer, index, append, used, drift>>
  /\ UNCHANGED <<file, pc, opts, scan, build, crashes, acked, maybe, suspect>>

BlockOf(w) == Block(w.row, w.val, w.seq)
Store(w, cells) ==
  file' = [file EXCEPT ![ShardForRow(w.row)] = Overwrite(@, w.offset, cells)]

\* WriteVAllAt gets some of the block into the file ...
WritePiece(t) ==
  /\ At(t, "write")
  /\ \E p \in Pieces(BlockOf(writer[t])) : Store(writer[t], p)
  /\ Goto(t, "writeRest")
  /\ UNCHANGED <<index, pc, opts, append, scan, build, status, bounds, history>>

\* ... and then the rest of it,
WriteBlock(t) ==
  /\ At(t, "write") \/ At(t, "writeRest")
  /\ Store(writer[t], BlockOf(writer[t]))
  /\ Goto(t, "claim")
  /\ UNCHANGED <<index, pc, opts, append, scan, build, status, bounds, history>>

\* or not: the write returns, the range stays as it is.
WriteBlockFails(t) ==
  /\ At(t, "write") \/ At(t, "writeRest")
  /\ "write" \in Faults
  /\ status' = "IOError"
  /\ maybe' = [maybe EXCEPT ![writer[t].row] = @ \cup {writer[t].val}]
  /\ writer' = [writer EXCEPT ![t] = Idle]
  /\ UNCHANGED <<file, index, pc, opts, append, scan, build, bounds, acked, used,
                 drift, suspect>>

\* InsertOrUpdateRowBucket: it starts over as long as it meets a bucket that
\* another thread is writing.  A failed read of the block that the row's bucket
\* names is left out: it leaves the files as the death of the writer does here,
\* with the new block whole and unnamed.
ClaimBucket(t) ==
  /\ At(t, "claim")
  /\ LET r == writer[t].row
         b == FindRowBucket(r, r)
     IN /\ \A k \in 0 .. FirstMatch(r, r) : Probe(r, k) \notin InState(Writing)
        /\ index' = [index EXCEPT !.bucket[b].state = Writing]
        /\ writer' = [writer EXCEPT ![t].pc = "publish", ![t].bucket = b,
                        ![t].inserted = index.bucket[b].state = Empty]
  /\ UNCHANGED <<file, pc, opts, append, scan, build, status, bounds, history>>

\* StoreRowBucketData, then state Filled.
PublishBucket(t) ==
  /\ At(t, "publish")
  /\ LET w == writer[t] IN
     index' = [index EXCEPT !.bucket[w.bucket] =
                 [state |-> Filled, row |-> w.row, shard |-> ShardForRow(w.row),
                  offset |-> w.offset, seq |-> w.seq]]
  /\ Goto(t, "count")
  /\ UNCHANGED <<file, pc, opts, append, scan, build, status, bounds, history>>

\* Mutant: every write counts a row.
Counted_Always(w) == 1

Counted(w) == IF w.inserted THEN 1 ELSE 0

\* IncrementRowItemCount if the row is new, the slot is released: the write is
\* acknowledged.
FinishWrite(t) ==
  /\ At(t, "count")
  /\ index' = [index EXCEPT !.items = @ + Counted(writer[t])]
  /\ writer' = [writer EXCEPT ![t] = Idle]
  /\ status' = "OK"
  /\ acked' = [acked EXCEPT ![writer[t].row] = writer[t].val]
  /\ maybe' = [maybe EXCEPT ![writer[t].row] = {}]
  /\ UNCHANGED <<file, pc, opts, append, scan, build, bounds, used, drift, suspect>>

-----------------------------------------------------------------------------
Quiet == \A t \in Thread : writer[t].pc = "idle"

Close ==
  /\ pc = "readonly" \/ (pc = "serving" /\ Quiet)
  /\ Closed
  /\ status' = "OK"
  /\ UNCHANGED <<file, index, bounds, history>>

\* The index file holds only some of the rows, and may be valid.
HalfBuilt ==
  \/ pc \in {"place", "scan", "insert"}
  \/ pc \in {"create", "header"} /\ build.resume = "insert"

\* The process dies, the files stay as they are.
Crash ==
  /\ "crash" \in Faults
  /\ crashes < MaxCrashes
  /\ pc # "closed"
  /\ crashes' = crashes + 1
  /\ Closed
  /\ maybe' = [r \in Row |-> maybe[r] \cup
                {writer[t].val : t \in {u \in Thread : writer[u].row = r}}]
  /\ suspect' = (suspect \/ HalfBuilt)
  /\ status' = "OK"
  /\ UNCHANGED <<file, index, calls, acked, used, drift>>

\* Someone removes the row index file of a closed database.
DeleteIndex ==
  /\ "delete" \in Faults
  /\ pc = "closed"
  /\ index # NoIndex
  /\ index' = NoIndex
  /\ UNCHANGED <<file, session, status, bounds, history>>

Write(t) ==
  \/ \E r \in Row : PutRowStructs(t, r)
  \/ WritePiece(t) \/ WriteBlock(t) \/ WriteBlockFails(t)
  \/ ClaimBucket(t) \/ PublishBucket(t) \/ FinishWrite(t)

Next ==
  \/ \E o \in Options : Open(o) \/ OpenReadOnly(o)
  \/ ClearIndex \/ CreateEmptyRowIndex \/ PlaceExistingRowBucket \/ IndexReady
  \/ ScanGrows \/ ScanBlock \/ ScanFails \/ ScanShardEnds
  \/ \E t \in Thread : Write(t)
  \/ Close \/ Crash \/ DeleteIndex

Spec == Init /\ [][Next]_vars

-----------------------------------------------------------------------------
PcLabels == {"closed", "create", "header", "place", "scan", "insert", "serving",
             "readonly"}

\* The type of the program's variables.
TypeOK ==
  /\ \A s \in Shard : \A i \in DOMAIN file[s] :
       file[s][i] \in [row : Row \cup {NoRow}, val : Nat, seq : Nat, at : 0 .. 2]
  /\ index.header \in BOOLEAN /\ index.shards \in Nat /\ index.items \in Nat
  /\ index.nextSequence \in Nat
  /\ \A b \in Buckets : index.bucket[b] \in
       [state : {Empty, Filled, Writing}, row : Row \cup {NoRow}, shard : Shard,
        offset : Nat, seq : Nat]
  /\ pc \in PcLabels /\ opts \in Options
  /\ append \in [Shard -> Nat]
  /\ \A t \in Thread : writer[t].row \in Row \cup {NoRow}
  /\ scan.shard \in Shard /\ scan.offset \in Nat /\ scan.nextSequence \in Nat
  /\ status \in {"OK", "IOError", "Corruption", "InvalidArgument"}
  /\ calls \in 0 .. MaxCalls /\ crashes \in 0 .. MaxCrashes
  /\ used \in SUBSET Nat /\ drift \in BOOLEAN /\ suspect \in BOOLEAN

\* The database answers calls, and no write is in progress.
Serving == pc = "readonly" \/ (pc = "serving" /\ Quiet)

\* Every shard that holds blocks is open, and a row's later blocks are in the
\* same shard as its earlier ones or in a later shard.
Ordered == ~drift /\ \A m \in used : opts.shards % m = 0

AnswersAcked == \A r \in Row : GetRowStruct(r) \in {acked[r]} \cup maybe[r]

\* Whenever Open succeeded, every row reads as its last acknowledged write, or
\* a later one that was cut, left it.
RowsReadable == Serving /\ Ordered => AnswersAcked

\* With all faults together an acknowledged row is lost in two ways only: the
\* index comes from a rebuild that was cut or failed half way, or from a
\* rebuild over a shard file with a hole or a cut block.  Changing
\* rowShardCount between sessions is harmless as long as each count that
\* blocks are written under is a multiple of the counts before it, although
\* the rebuild orders blocks by shard and not by sequence.
RowLossNeedsTornBuild == Serving /\ Ordered /\ ~suspect => AnswersAcked

\* No block in the open shards has a sequence number that the next write could
\* be given again.
SequencesAhead ==
  Serving /\ ~suspect =>
    \A s \in Opened : \A i \in DOMAIN file[s] : file[s][i].seq < index.nextSequence

\* Dump and GetColumnStats, which go through the buckets, list every row that
\* GetRowStruct finds, once, with its value; the count in the header is theirs.
RowDumpAgrees ==
  Serving /\ ~suspect =>
    LET Live == {r \in Row : GetRowStruct(r) # 0} IN
    /\ RowDump = {<<r, GetRowStruct(r)>> : r \in Live}
    /\ RowCount = Cardinality(Live)
    /\ index.items = Cardinality(Live)

\* A rebuild reports Corruption only if a shard file has a hole or a cut block.
RebuildRejectsOnlyTorn == [][pc = "scan" /\ ~Torn => status' # "Corruption"]_vars
=============================================================================
