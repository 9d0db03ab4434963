------------------------------ MODULE RowIndex ------------------------------
(***************************************************************************)
(* The row write and read path of an open, read-write LumoDB database      *)
(* (src/src/lumodb/database.cpp): several threads call PutRowStructs,      *)
(* PutRowStruct and GetRowStruct on one Database object.  They share the   *)
(* memory-mapped row index (an open-addressing table whose buckets go      *)
(* Empty -> Writing -> Filled -> Writing -> Filled ...), three atomic      *)
(* counters and one append offset per shard file, and they take no lock.   *)
(*                                                                         *)
(* Every atomic access to shared memory is a step of its own; code between *)
(* two accesses that touches only the thread's own variables is folded     *)
(* into the access before it.  Memory is sequentially consistent: the code *)
(* uses relaxed accesses for the bucket's fields, and what those add (a    *)
(* reader may see fields of two different publications) already happens    *)
(* here, when a replacement falls between two loads of one snapshot.       *)
(***************************************************************************)
EXTENDS Integers, FiniteSets

CONSTANTS
  Thread,       \* threads using the Database object
  Row,          \* (column, rowId) pairs
  NoRow,        \* "no row": the value of holds for an empty bucket
  Ident,        \* (columnHash, rowId) pairs, all a bucket knows of its row
  NoIdent,      \* the zeroed identity fields of a bucket never written
  IdentOf,      \* Row -> Ident; two columns may have the same 64-bit hash
  StartOf,      \* Ident -> first bucket: MixHashes(columnHash, rowId) & mask
  Shard,        \* row value files
  ShardOf,      \* Ident -> Shard: MixHashes(columnHash, rowId) % shards
  Key, Val,     \* keys and values inside a row
  NoVal,        \* the key is not in the row
  BlockSizeOf,  \* Content -> size of the encoded row block
  Batch,        \* the entry lists that PutRowStructs is called with
  BucketCount,  \* bucketCount of the row index header
  MaxItems,     \* the most items with items / bucketCount <= maxLoadFactor
  MaxCalls,     \* bound: calls made by all threads together
  Kinds,        \* which of the three operations the threads call
  CallerSerializes, \* callers serialize the writes of one row (README:202)
  IOFails       \* pread and pwritev may fail

(***************************************************************************)
(* A row's content maps its keys to values; NoVal marks an absent key.     *)
(* Among entries with one key the last wins, as BuildRowBlockLayout does.  *)
(***************************************************************************)
EmptyRow == [k \in Key |-> NoVal]
Content  == [Key -> Val \cup {NoVal}]

Bucket == 0 .. BucketCount - 1

ASSUME SizeAssumption ==
  /\ BucketCount \in Nat \ {0}
  /\ MaxItems \in 0 .. BucketCount - 1     \* maxLoadFactor < 0.95
  /\ MaxCalls \in Nat

ASSUME SetAssumption ==
  /\ NoRow \notin Row
  /\ NoIdent \notin Ident
  /\ NoVal \notin Val
  /\ Key # {}
  /\ Batch \subseteq Content \ {EmptyRow}
  /\ IsFiniteSet(Thread)
  /\ Thread # {}

ASSUME MapAssumption ==
  /\ IdentOf \in [Row -> Ident]
  /\ StartOf \in [Ident -> Bucket]
  /\ ShardOf \in [Ident -> Shard]
  /\ BlockSizeOf \in [Content -> Nat \ {0}]

ASSUME FlagAssumption ==
  /\ Kinds \subseteq {"PutRowStructs", "PutRowStruct", "GetRowStruct"}
  /\ CallerSerializes \in BOOLEAN
  /\ IOFails \in BOOLEAN

VARIABLES
  \* The memory-mapped row index: bucket fields and header counters.
  state, ident, blockOffset, blockSize, itemCount, nextSequence,
  \* The Database object's atomics.
  pending,      \* rowPendingInsertCount_
  appendOffset, \* rowAppendOffsets_[shard]
  \* The shard files: the complete blocks that were written.
  file,
  \* Each thread's position and locals.
  pc, call, mode, probe, entries, sequence, offset, snap,
  loaded, reserved, inserted, result, calls,
  \* History, read by no guard: the row a bucket was claimed for; the
  \* contents a call's row had during the call; and whether a row with the
  \* same identity was replaced during the call.
  holds, seen, disturbed

bucketVars  == <<state, ident, blockOffset, blockSize, holds>>
counterVars == <<itemCount, nextSequence, pending>>
fileVars    == <<appendOffset, file>>
walkVars    == <<mode, probe, snap>>
blockVars   == <<entries, sequence, offset>>
slotVars    == <<loaded, reserved, inserted>>
callVars    == <<call, result, calls, seen, disturbed>>
vars == <<bucketVars, counterVars, fileVars, pc, walkVars, blockVars,
          slotVars, callVars>>

-----------------------------------------------------------------------------
(* The probe sequence of a row, and the fields of blocks and snapshots.    *)

Slot(r, k) == (StartOf[IdentOf[r]] + k) % BucketCount
ShardForRow(r) == ShardOf[IdentOf[r]]

Merge(c, d) == [k \in Key |-> IF d[k] # NoVal THEN d[k] ELSE c[k]]
Single(k, v) == [EmptyRow EXCEPT ![k] = v]

Block == [shard : Shard, offset : Nat, row : Row, size : Nat,
          sequence : Nat, entries : Content]
BlocksAt(s, o) == {x \in file : x.shard = s /\ x.offset = o}

NoSnap == [ident |-> NoIdent, offset |-> 0, size |-> 0]
NoCall == [kind |-> "none", row |-> NoRow, key |-> CHOOSE k \in Key : TRUE,
           entries |-> EmptyRow]
NoResult == [status |-> "none", value |-> NoVal]

RowOf(t) == call[t].row
Here(t)  == Slot(RowOf(t), probe[t])
Busy(t)  == pc[t] \notin {"idle", "return"}
IsWrite(t) == call[t].kind \in {"PutRowStructs", "PutRowStruct"}

Init ==
  /\ state = [b \in Bucket |-> "Empty"]
  /\ ident = [b \in Bucket |-> NoIdent]
  /\ blockOffset = [b \in Bucket |-> 0]
  /\ blockSize = [b \in Bucket |-> 0]
  /\ itemCount = 0
  /\ nextSequence = 1
  /\ pending = 0
  /\ appendOffset = [s \in Shard |-> 0]
  /\ file = {}
  /\ pc = [t \in Thread |-> "idle"]
  /\ call = [t \in Thread |-> NoCall]
  /\ mode = [t \in Thread |-> "find"]
  /\ probe = [t \in Thread |-> 0]
  /\ entries = [t \in Thread |-> EmptyRow]
  /\ sequence = [t \in Thread |-> 0]
  /\ offset = [t \in Thread |-> 0]
  /\ snap = [t \in Thread |-> NoSnap]
  /\ loaded = [t \in Thread |-> 0]
  /\ reserved = [t \in Thread |-> FALSE]
  /\ inserted = [t \in Thread |-> FALSE]
  /\ result = [t \in Thread |-> NoResult]
  /\ calls = 0
  /\ holds = [b \in Bucket |-> NoRow]
  /\ seen = [t \in Thread |-> {}]
  /\ disturbed = [t \in Thread |-> FALSE]

-----------------------------------------------------------------------------
(* Small steps shared by the actions below.                                *)

Goto(t, label) == pc' = [pc EXCEPT ![t] = label]

\* The call is decided: its status, and the value of a successful read.
Decide(t, status, value) ==
  /\ pc' = [pc EXCEPT ![t] = "return"]
  /\ result' = [result EXCEPT ![t] = [status |-> status, value |-> value]]

\* The content of a row as the index and the files have it, a row being
\* written counting as already written.
Storing(t) == pc[t] \in {"storeIdent", "storeOffset", "storeSize", "publish"}
Writer(r)  == {t \in Thread : Storing(t) /\ RowOf(t) = r}
Current(r) ==
  IF Writer(r) # {}
  THEN entries[CHOOSE t \in Writer(r) : TRUE]
  ELSE LET B == {b \in Bucket : holds[b] = r}
       IN  IF B = {} THEN EmptyRow
           ELSE LET b == CHOOSE b \in B : TRUE
                IN  (CHOOSE x \in BlocksAt(ShardForRow(r), blockOffset[b]) :
                       TRUE).entries

\* History: row r gets content c now; replacing says it had one before.
Remember(r, c, replacing) ==
  /\ seen' = [u \in Thread |->
                IF Busy(u) /\ RowOf(u) = r THEN seen[u] \cup {c} ELSE seen[u]]
  /\ disturbed' = [u \in Thread |->
                     \/ disturbed[u]
                     \/ replacing /\ Busy(u) /\ IdentOf[RowOf(u)] = IdentOf[r]]

-----------------------------------------------------------------------------
(* Starting a call.                                                        *)

\* README:202: "Calls that replace or extend the same row are serialized by
\* the caller".
MayWrite(r) ==
  CallerSerializes =>
    \A u \in Thread : ~(pc[u] # "idle" /\ RowOf(u) = r /\ IsWrite(u))

Start(t, kind, r, k, c, label) ==
  /\ pc[t] = "idle"
  /\ calls < MaxCalls
  /\ kind \in Kinds
  /\ Goto(t, label)
  /\ call' = [call EXCEPT ![t] = [kind |-> kind, row |-> r, key |-> k,
                                  entries |-> c]]
  /\ calls' = calls + 1
  /\ seen' = [seen EXCEPT ![t] = {Current(r)}]
  /\ mode' = [mode EXCEPT ![t] = "find"]
  /\ probe' = [probe EXCEPT ![t] = 0]
  /\ UNCHANGED <<bucketVars, counterVars, fileVars, snap, sequence, offset,
                 slotVars, result, disturbed>>

\* PutRowStructs writes its entries as the whole row and always reserves.
CallPutRowStructs(t, r, c) ==
  /\ MayWrite(r)
  /\ Start(t, "PutRowStructs", r, NoCall.key, c, "loadItems")
  /\ entries' = [entries EXCEPT ![t] = c]

\* PutRowStruct first looks the row up, to merge one key into it.
CallPutRowStruct(t, r, k, v) ==
  /\ MayWrite(r)
  /\ Start(t, "PutRowStruct", r, k, Single(k, v), "loadState")
  /\ UNCHANGED entries

CallGetRowStruct(t, r, k) ==
  /\ Start(t, "GetRowStruct", r, k, EmptyRow, "loadState")
  /\ UNCHANGED entries

-----------------------------------------------------------------------------
(* ReserveRowIndexInsertSlot.                                              *)

LoadItemCount(t) ==
  /\ pc[t] = "loadItems"
  /\ loaded' = [loaded EXCEPT ![t] = itemCount]
  /\ Goto(t, "loadPending")
  /\ UNCHANGED <<bucketVars, counterVars, fileVars, walkVars, blockVars,
                 reserved, inserted, callVars>>

\* Mutant: the load-factor test forgets the row that is about to come.
LoadPending_OffByOne(t) ==
  /\ pc[t] = "loadPending"
  /\ \/ /\ loaded[t] + pending <= MaxItems
        /\ loaded' = [loaded EXCEPT ![t] = pending]
        /\ Goto(t, "reserve")
        /\ UNCHANGED result
     \/ /\ loaded[t] + pending > MaxItems
        /\ Decide(t, "InvalidArgument", NoVal)
        /\ UNCHANGED loaded
  /\ UNCHANGED <<bucketVars, counterVars, fileVars, walkVars, blockVars,
                 reserved, inserted, call, calls, seen, disturbed>>

\* The load of rowPendingInsertCount_ and the load-factor test.  From here on
\* loaded is the value that the compare-exchange expects.
LoadPending(t) ==
  /\ pc[t] = "loadPending"
  /\ \/ /\ loaded[t] + pending + 1 <= MaxItems
        /\ loaded' = [loaded EXCEPT ![t] = pending]
        /\ Goto(t, "reserve")
        /\ UNCHANGED result
     \/ /\ loaded[t] + pending + 1 > MaxItems
        /\ Decide(t, "InvalidArgument", NoVal)
        /\ UNCHANGED loaded
  /\ UNCHANGED <<bucketVars, counterVars, fileVars, walkVars, blockVars,
                 reserved, inserted, call, calls, seen, disturbed>>

ReserveSlot(t) ==
  /\ pc[t] = "reserve"
  /\ pending = loaded[t]
  /\ pending' = pending + 1
  /\ reserved' = [reserved EXCEPT ![t] = TRUE]
  /\ Goto(t, "sequence")
  /\ UNCHANGED <<bucketVars, itemCount, nextSequence, fileVars, walkVars,
                 blockVars, loaded, inserted, callVars>>

\* compare_exchange_weak fails when the counter moved, or spuriously.
ReserveRetry(t) ==
  /\ pc[t] = "reserve"
  /\ Goto(t, "loadItems")
  /\ UNCHANGED <<bucketVars, counterVars, fileVars, walkVars, blockVars,
                 slotVars, callVars>>

-----------------------------------------------------------------------------
(* WriteRowStructs: sequence number, append offset, block.                 *)

NextRowSequence(t) ==
  /\ pc[t] = "sequence"
  /\ sequence' = [sequence EXCEPT ![t] = nextSequence]
  /\ nextSequence' = nextSequence + 1
  /\ Goto(t, "append")
  /\ UNCHANGED <<bucketVars, itemCount, pending, fileVars, walkVars, entries,
                 offset, slotVars, callVars>>

\* Mutant: the file grows by the caller's entries, not by the merged ones.
ReserveOffset_CallSize(t) ==
  LET s == ShardForRow(RowOf(t)) IN
  /\ pc[t] = "append"
  /\ offset' = [offset EXCEPT ![t] = appendOffset[s]]
  /\ appendOffset' = [appendOffset EXCEPT ![s] = @ + BlockSizeOf[call[t].entries]]
  /\ Goto(t, "write")
  /\ UNCHANGED <<bucketVars, counterVars, file, walkVars, entries, sequence,
                 slotVars, callVars>>

ReserveOffset(t) ==
  LET s == ShardForRow(RowOf(t)) IN
  /\ pc[t] = "append"
  /\ offset' = [offset EXCEPT ![t] = appendOffset[s]]
  /\ appendOffset' = [appendOffset EXCEPT ![s] = @ + BlockSizeOf[entries[t]]]
  /\ Goto(t, "write")
  /\ UNCHANGED <<bucketVars, counterVars, file, walkVars, entries, sequence,
                 slotVars, callVars>>

\* The block of thread t, as WriteVAllAt puts it into the file.
NewBlock(t) ==
  [shard |-> ShardForRow(RowOf(t)), offset |-> offset[t], row |-> RowOf(t),
   size |-> BlockSizeOf[entries[t]], sequence |-> sequence[t],
   entries |-> entries[t]]

\* Mutant: the insert's probe loop starts at 1.
WriteBlock_FromSecondProbe(t) ==
  /\ pc[t] = "write"
  /\ file' = file \cup {NewBlock(t)}
  /\ mode' = [mode EXCEPT ![t] = "insert"]
  /\ probe' = [probe EXCEPT ![t] = 1]
  /\ Goto(t, "loadState")
  /\ UNCHANGED <<bucketVars, counterVars, appendOffset, snap, blockVars,
                 slotVars, callVars>>

WriteBlock(t) ==
  /\ pc[t] = "write"
  /\ file' = file \cup {NewBlock(t)}
  /\ mode' = [mode EXCEPT ![t] = "insert"]
  /\ probe' = [probe EXCEPT ![t] = 0]
  /\ Goto(t, "loadState")
  /\ UNCHANGED <<bucketVars, counterVars, appendOffset, snap, blockVars,
                 slotVars, callVars>>

\* The write fails: the reserved range is left without a valid block.
WriteBlockFails(t) ==
  /\ pc[t] = "write"
  /\ IOFails
  /\ Decide(t, "IOError", NoVal)
  /\ UNCHANGED <<bucketVars, counterVars, fileVars, walkVars, blockVars,
                 slotVars, call, calls, seen, disturbed>>

-----------------------------------------------------------------------------
(* LoadRowBucketSnapshot: state, fields, state again.                      *)

\* FindRowBucket meets an empty bucket: GetRowStruct answers NotFound.  The
\* second snapshot of PutRowStruct (mode "load") would answer Corruption.
MissRow(t) ==
  /\ pc[t] = "loadState"
  /\ state[Here(t)] = "Empty"
  /\ mode[t] # "insert"
  /\ mode[t] = "find" => call[t].kind = "GetRowStruct"
  /\ Decide(t, IF mode[t] = "find" THEN "NotFound" ELSE "Corruption", NoVal)
  /\ UNCHANGED <<bucketVars, counterVars, fileVars, walkVars, blockVars,
                 slotVars, call, calls, seen, disturbed>>

\* Mutant: PutRowStruct inserts a new row without a reservation.
MissRowForPut_Unreserved(t) ==
  /\ pc[t] = "loadState"
  /\ state[Here(t)] = "Empty"
  /\ mode[t] = "find"
  /\ call[t].kind = "PutRowStruct"
  /\ entries' = [entries EXCEPT ![t] = call[t].entries]
  /\ Goto(t, "sequence")
  /\ UNCHANGED <<bucketVars, counterVars, fileVars, walkVars, sequence,
                 offset, slotVars, callVars>>

\* PutRowStruct on a row that is not there writes a new row, reserving.
MissRowForPut(t) ==
  /\ pc[t] = "loadState"
  /\ state[Here(t)] = "Empty"
  /\ mode[t] = "find"
  /\ call[t].kind = "PutRowStruct"
  /\ entries' = [entries EXCEPT ![t] = call[t].entries]
  /\ Goto(t, "loadItems")
  /\ UNCHANGED <<bucketVars, counterVars, fileVars, walkVars, sequence,
                 offset, slotVars, callVars>>

InsertSeesEmpty(t) ==
  /\ pc[t] = "loadState"
  /\ state[Here(t)] = "Empty"
  /\ mode[t] = "insert"
  /\ Goto(t, "claimEmpty")
  /\ UNCHANGED <<bucketVars, counterVars, fileVars, walkVars, blockVars,
                 slotVars, callVars>>

LoadFilled(t) ==
  /\ pc[t] = "loadState"
  /\ state[Here(t)] = "Filled"
  /\ Goto(t, "loadIdent")
  /\ UNCHANGED <<bucketVars, counterVars, fileVars, walkVars, blockVars,
                 slotVars, callVars>>

\* yield() and again: FindRowBucket and InsertOrUpdateRowBucket from the
\* first probe, LoadFilledRowBucketSnapshot on the same bucket.
Retry(t) ==
  /\ probe' = [probe EXCEPT ![t] = IF mode[t] = "load" THEN @ ELSE 0]
  /\ snap' = [snap EXCEPT ![t] = NoSnap]
  /\ Goto(t, "loadState")
  /\ UNCHANGED <<bucketVars, counterVars, fileVars, mode, blockVars, slotVars,
                 callVars>>

\* Mutant: the probe loop runs one bucket too far.
Advance_TooFar(t) ==
  /\ probe' = [probe EXCEPT ![t] = @ + 1]
  /\ Goto(t, "loadState")
  /\ snap' = [snap EXCEPT ![t] = NoSnap]
  /\ UNCHANGED <<bucketVars, counterVars, fileVars, mode, blockVars, slotVars,
                 callVars>>

\* continue: the next probe, or "row index table is full" after the last.
Advance(t) ==
  /\ \/ /\ probe[t] + 1 < BucketCount
        /\ probe' = [probe EXCEPT ![t] = @ + 1]
        /\ Goto(t, "loadState")
        /\ UNCHANGED result
     \/ /\ probe[t] + 1 = BucketCount
        /\ Decide(t, "TableFull", NoVal)
        /\ UNCHANGED probe
  /\ snap' = [snap EXCEPT ![t] = NoSnap]
  /\ UNCHANGED <<bucketVars, counterVars, fileVars, mode, blockVars, slotVars,
                 call, calls, seen, disturbed>>

\* Mutant: a bucket being written is passed over like a foreign one.
SeeWriting_PassesOver(t) ==
  /\ pc[t] \in {"loadState", "recheck"}
  /\ state[Here(t)] = "Writing"
  /\ Advance(t)

\* The bucket is being written, at the first load or at the second.
SeeWriting(t) ==
  /\ pc[t] \in {"loadState", "recheck"}
  /\ state[Here(t)] = "Writing"
  /\ Retry(t)

LoadIdent(t) ==
  /\ pc[t] = "loadIdent"
  /\ snap' = [snap EXCEPT ![t].ident = ident[Here(t)]]
  /\ Goto(t, "loadOffset")
  /\ UNCHANGED <<bucketVars, counterVars, fileVars, mode, probe, blockVars,
                 slotVars, callVars>>

LoadOffset(t) ==
  /\ pc[t] = "loadOffset"
  /\ snap' = [snap EXCEPT ![t].offset = blockOffset[Here(t)]]
  /\ Goto(t, "loadSize")
  /\ UNCHANGED <<bucketVars, counterVars, fileVars, mode, probe, blockVars,
                 slotVars, callVars>>

LoadSize(t) ==
  /\ pc[t] = "loadSize"
  /\ snap' = [snap EXCEPT ![t].size = blockSize[Here(t)]]
  /\ Goto(t, "recheck")
  /\ UNCHANGED <<bucketVars, counterVars, fileVars, mode, probe, blockVars,
                 slotVars, callVars>>

\* The snapshot is accepted; a foreign identity is passed over, its own row's
\* block is inspected.
RecheckFilled(t) ==
  /\ pc[t] = "recheck"
  /\ state[Here(t)] = "Filled"
  /\ mode[t] # "load" => snap[t].ident = IdentOf[RowOf(t)]
  /\ Goto(t, IF mode[t] = "load" THEN "loadBlock" ELSE "match")
  /\ UNCHANGED <<bucketVars, counterVars, fileVars, walkVars, blockVars,
                 slotVars, callVars>>

PassForeignIdent(t) ==
  /\ pc[t] = "recheck"
  /\ state[Here(t)] = "Filled"
  /\ mode[t] # "load"
  /\ snap[t].ident # IdentOf[RowOf(t)]
  /\ Advance(t)

-----------------------------------------------------------------------------
(* RowBlockMatches, FindValueInRowBlockAt, LoadRowBlock.  A block's range   *)
(* is written once, before any bucket names it, so reading it is one step. *)

\* The blocks that pass the header checks for the snapshot that t holds.
Matching(t) == {x \in BlocksAt(ShardOf[snap[t].ident], snap[t].offset) :
                  /\ IdentOf[x.row] = snap[t].ident
                  /\ x.size = snap[t].size}

\* Mutant: RowBlockMatches does not compare the stored column.
MatchRow_AnyColumn(t) ==
  /\ pc[t] = "match"
  /\ Matching(t) # {}
  /\ IF mode[t] = "insert" THEN Goto(t, "claimFilled") /\ UNCHANGED mode
     ELSE IF call[t].kind = "GetRowStruct"
          THEN Goto(t, "readValue") /\ UNCHANGED mode
          ELSE Goto(t, "loadState") /\ mode' = [mode EXCEPT ![t] = "load"]
  /\ UNCHANGED <<bucketVars, counterVars, fileVars, probe, snap, blockVars,
                 slotVars, callVars>>

\* The block's column is the caller's: reads and replacements go on with it.
MatchRow(t) ==
  /\ pc[t] = "match"
  /\ \E x \in Matching(t) : x.row = RowOf(t)
  /\ IF mode[t] = "insert" THEN Goto(t, "claimFilled") /\ UNCHANGED mode
     ELSE IF call[t].kind = "GetRowStruct"
          THEN Goto(t, "readValue") /\ UNCHANGED mode
          ELSE Goto(t, "loadState") /\ mode' = [mode EXCEPT ![t] = "load"]
  /\ UNCHANGED <<bucketVars, counterVars, fileVars, probe, snap, blockVars,
                 slotVars, callVars>>

\* Another column with the same 64-bit hash.
MatchForeignColumn(t) ==
  /\ pc[t] = "match"
  /\ \E x \in Matching(t) : x.row # RowOf(t)
  /\ Advance(t)

\* Offset and size do not belong together: "row index points to an invalid
\* row block", or the second reading of PutRowStruct does not decode.
ReadCorruption(t) ==
  /\ pc[t] \in {"match", "loadBlock"}
  /\ \A x \in Matching(t) : pc[t] = "loadBlock" /\ x.row # RowOf(t)
  /\ Decide(t, "Corruption", NoVal)
  /\ UNCHANGED <<bucketVars, counterVars, fileVars, walkVars, blockVars,
                 slotVars, call, calls, seen, disturbed>>

ReadFails(t) ==
  /\ pc[t] \in {"match", "loadBlock", "readValue"}
  /\ IOFails
  /\ Decide(t, "IOError", NoVal)
  /\ UNCHANGED <<bucketVars, counterVars, fileVars, walkVars, blockVars,
                 slotVars, call, calls, seen, disturbed>>

\* FindValueInRowBlockAt: the key's value, or NotFound.
ReadValue(t) ==
  /\ pc[t] = "readValue"
  /\ \E x \in Matching(t) :
       LET v == x.entries[call[t].key] IN
       Decide(t, IF v = NoVal THEN "NotFound" ELSE "OK", v)
  /\ UNCHANGED <<bucketVars, counterVars, fileVars, walkVars, blockVars,
                 slotVars, call, calls, seen, disturbed>>

\* Mutant: PutRowStruct writes its key alone.
LoadRowEntries_NoMerge(t) ==
  /\ pc[t] = "loadBlock"
  /\ \E x \in Matching(t) :
       /\ x.row = RowOf(t)
       /\ entries' = [entries EXCEPT ![t] = call[t].entries]
  /\ Goto(t, "sequence")
  /\ UNCHANGED <<bucketVars, counterVars, fileVars, walkVars, sequence,
                 offset, slotVars, callVars>>

\* LoadRowEntries succeeds: PutRowStruct merges its key into the row's
\* entries and writes without reserving, for the row is already counted.
LoadRowEntries(t) ==
  /\ pc[t] = "loadBlock"
  /\ \E x \in Matching(t) :
       /\ x.row = RowOf(t)
       /\ entries' =
           [entries EXCEPT ![t] = Merge(x.entries, call[t].entries)]
  /\ Goto(t, "sequence")
  /\ UNCHANGED <<bucketVars, counterVars, fileVars, walkVars, sequence,
                 offset, slotVars, callVars>>

-----------------------------------------------------------------------------
(* InsertOrUpdateRowBucket: claim, store, publish; then the item count.    *)

ClaimEmpty(t) ==
  LET b == Here(t) IN
  /\ pc[t] = "claimEmpty"
  /\ state[b] = "Empty"
  /\ state' = [state EXCEPT ![b] = "Writing"]
  /\ holds' = [holds EXCEPT ![b] = RowOf(t)]
  /\ inserted' = [inserted EXCEPT ![t] = TRUE]
  /\ Goto(t, "storeIdent")
  /\ Remember(RowOf(t), entries[t], FALSE)
  /\ UNCHANGED <<ident, blockOffset, blockSize, counterVars, fileVars,
                 walkVars, blockVars, loaded, reserved, call, result, calls>>

\* Mutant: a replacement takes the bucket without a compare-exchange.
ClaimFilled_Store(t) ==
  LET b == Here(t) IN
  /\ pc[t] = "claimFilled"
  /\ state' = [state EXCEPT ![b] = "Writing"]
  /\ Goto(t, "storeIdent")
  /\ Remember(RowOf(t), entries[t], TRUE)
  /\ UNCHANGED <<ident, blockOffset, blockSize, holds, counterVars, fileVars,
                 walkVars, blockVars, slotVars, call, result, calls>>

\* Mutant: a replacement publishes the bucket without storing the new block.
ClaimFilled_SkipsStore(t) ==
  LET b == Here(t) IN
  /\ pc[t] = "claimFilled"
  /\ state[b] = "Filled"
  /\ state' = [state EXCEPT ![b] = "Writing"]
  /\ Goto(t, "publish")
  /\ Remember(RowOf(t), entries[t], TRUE)
  /\ UNCHANGED <<ident, blockOffset, blockSize, holds, counterVars, fileVars,
                 walkVars, blockVars, slotVars, call, result, calls>>

ClaimFilled(t) ==
  LET b == Here(t) IN
  /\ pc[t] = "claimFilled"
  /\ state[b] = "Filled"
  /\ state' = [state EXCEPT ![b] = "Writing"]
  /\ Goto(t, "storeIdent")
  /\ Remember(RowOf(t), entries[t], TRUE)
  /\ UNCHANGED <<ident, blockOffset, blockSize, holds, counterVars, fileVars,
                 walkVars, blockVars, slotVars, call, result, calls>>

\* compare_exchange_strong fails: somebody else claimed the bucket.
ClaimFails(t) ==
  /\ \/ pc[t] = "claimEmpty" /\ state[Here(t)] # "Empty"
     \/ pc[t] = "claimFilled" /\ state[Here(t)] # "Filled"
  /\ Retry(t)

StoreIdent(t) ==
  /\ pc[t] = "storeIdent"
  /\ ident' = [ident EXCEPT ![Here(t)] = IdentOf[RowOf(t)]]
  /\ Goto(t, "storeOffset")
  /\ UNCHANGED <<state, blockOffset, blockSize, holds, counterVars, fileVars,
                 walkVars, blockVars, slotVars, callVars>>

\* Mutant: the bucket is published before its size is stored.
StoreOffset_SkipsSize(t) ==
  /\ pc[t] = "storeOffset"
  /\ blockOffset' = [blockOffset EXCEPT ![Here(t)] = offset[t]]
  /\ Goto(t, "publish")
  /\ UNCHANGED <<state, ident, blockSize, holds, counterVars, fileVars,
                 walkVars, blockVars, slotVars, callVars>>

StoreOffset(t) ==
  /\ pc[t] = "storeOffset"
  /\ blockOffset' = [blockOffset EXCEPT ![Here(t)] = offset[t]]
  /\ Goto(t, "storeSize")
  /\ UNCHANGED <<state, ident, blockSize, holds, counterVars, fileVars,
                 walkVars, blockVars, slotVars, callVars>>

\* Mutant: the bucket gets the size of the caller's entries alone.
StoreSize_CallSize(t) ==
  /\ pc[t] = "storeSize"
  /\ blockSize' = [blockSize EXCEPT ![Here(t)] = BlockSizeOf[call[t].entries]]
  /\ Goto(t, "publish")
  /\ UNCHANGED <<state, ident, blockOffset, holds, counterVars, fileVars,
                 walkVars, blockVars, slotVars, callVars>>

StoreSize(t) ==
  /\ pc[t] = "storeSize"
  /\ blockSize' = [blockSize EXCEPT ![Here(t)] = BlockSizeOf[entries[t]]]
  /\ Goto(t, "publish")
  /\ UNCHANGED <<state, ident, blockOffset, holds, counterVars, fileVars,
                 walkVars, blockVars, slotVars, callVars>>

\* Mutant: a replaced bucket is left in state Writing.
PublishBucket_OnlyInserted(t) ==
  /\ pc[t] = "publish"
  /\ state' = IF inserted[t] THEN [state EXCEPT ![Here(t)] = "Filled"]
              ELSE state
  /\ IF inserted[t] THEN Goto(t, "count") /\ UNCHANGED result
                    ELSE Decide(t, "OK", NoVal)
  /\ UNCHANGED <<ident, blockOffset, blockSize, holds, counterVars, fileVars,
                 walkVars, blockVars, slotVars, call, calls, seen, disturbed>>

PublishBucket(t) ==
  /\ pc[t] = "publish"
  /\ state' = [state EXCEPT ![Here(t)] = "Filled"]
  /\ IF inserted[t] THEN Goto(t, "count") /\ UNCHANGED result
                    ELSE Decide(t, "OK", NoVal)
  /\ UNCHANGED <<ident, blockOffset, blockSize, holds, counterVars, fileVars,
                 walkVars, blockVars, slotVars, call, calls, seen, disturbed>>

IncrementRowItemCount(t) ==
  /\ pc[t] = "count"
  /\ itemCount' = itemCount + 1
  /\ inserted' = [inserted EXCEPT ![t] = FALSE]
  /\ Decide(t, "OK", NoVal)
  /\ UNCHANGED <<bucketVars, nextSequence, pending, fileVars, walkVars,
                 blockVars, loaded, reserved, call, calls, seen, disturbed>>

\* Mutant: a write that failed keeps its slot.
Release_OnlyOnSuccess(t) ==
  pending' = IF reserved[t] /\ result[t].status = "OK" THEN pending - 1
             ELSE pending

\* Every way out of WriteRowStructs gives the reserved slot back.
Release(t) == pending' = IF reserved[t] THEN pending - 1 ELSE pending

Return(t) ==
  /\ pc[t] = "return"
  /\ Release(t)
  /\ reserved' = [reserved EXCEPT ![t] = FALSE]
  /\ Goto(t, "idle")
  /\ call' = [call EXCEPT ![t] = NoCall]
  /\ probe' = [probe EXCEPT ![t] = 0]
  /\ mode' = [mode EXCEPT ![t] = "find"]
  /\ entries' = [entries EXCEPT ![t] = EmptyRow]
  /\ sequence' = [sequence EXCEPT ![t] = 0]
  /\ offset' = [offset EXCEPT ![t] = 0]
  /\ snap' = [snap EXCEPT ![t] = NoSnap]
  /\ loaded' = [loaded EXCEPT ![t] = 0]
  /\ result' = [result EXCEPT ![t] = NoResult]
  /\ seen' = [seen EXCEPT ![t] = {}]
  /\ disturbed' = [disturbed EXCEPT ![t] = FALSE]
  /\ UNCHANGED <<bucketVars, itemCount, nextSequence, fileVars, inserted,
                 calls>>

-----------------------------------------------------------------------------
Call(t) ==
  \E r \in Row :
    \/ \E c \in Batch : CallPutRowStructs(t, r, c)
    \/ \E k \in Key, v \in Val : CallPutRowStruct(t, r, k, v)
    \/ \E k \in Key : CallGetRowStruct(t, r, k)

\* The steps of a running call: the code takes them without waiting for the
\* caller.
Step(t) ==
  \/ LoadItemCount(t) \/ LoadPending(t) \/ ReserveSlot(t) \/ ReserveRetry(t)
  \/ NextRowSequence(t) \/ ReserveOffset(t) \/ WriteBlock(t)
  \/ WriteBlockFails(t)
  \/ MissRow(t) \/ MissRowForPut(t) \/ InsertSeesEmpty(t) \/ LoadFilled(t)
  \/ SeeWriting(t) \/ LoadIdent(t) \/ LoadOffset(t) \/ LoadSize(t)
  \/ RecheckFilled(t) \/ PassForeignIdent(t)
  \/ MatchRow(t) \/ MatchForeignColumn(t) \/ ReadCorruption(t)
  \/ ReadFails(t) \/ ReadValue(t) \/ LoadRowEntries(t)
  \/ ClaimEmpty(t) \/ ClaimFilled(t) \/ ClaimFails(t)
  \/ StoreIdent(t) \/ StoreOffset(t) \/ StoreSize(t) \/ PublishBucket(t)
  \/ IncrementRowItemCount(t) \/ Return(t)

\* Every thread has made its calls: the program stops here, nothing else may.
AllReturned ==
  /\ \A t \in Thread : pc[t] = "idle"
  /\ calls = MaxCalls
  /\ UNCHANGED vars

Next == (\E t \in Thread : Call(t) \/ Step(t)) \/ AllReturned

Spec == Init /\ [][Next]_vars

\* A thread inside a call keeps running, and a weak compare-exchange that can
\* succeed again and again does not fail spuriously for ever.
Fairness == \A t \in Thread : WF_vars(Step(t)) /\ SF_vars(ReserveSlot(t))

FairSpec == Spec /\ Fairness

-----------------------------------------------------------------------------
PcLabels == {"idle", "loadItems", "loadPending", "reserve", "sequence",
             "append", "write", "loadState", "loadIdent", "loadOffset",
             "loadSize", "recheck", "match", "loadBlock", "readValue",
             "claimEmpty", "claimFilled", "storeIdent", "storeOffset",
             "storeSize", "publish", "count", "return"}

BucketType ==
  /\ state \in [Bucket -> {"Empty", "Writing", "Filled"}]
  /\ ident \in [Bucket -> Ident \cup {NoIdent}]
  /\ blockOffset \in [Bucket -> Nat]
  /\ blockSize \in [Bucket -> Nat]
  /\ holds \in [Bucket -> Row \cup {NoRow}]

CounterType == itemCount \in Nat /\ nextSequence \in Nat /\ pending \in Int

FileType == appendOffset \in [Shard -> Nat] /\ file \subseteq Block

WalkType ==
  /\ mode \in [Thread -> {"find", "load", "insert"}]
  /\ probe \in [Thread -> Bucket]
  /\ snap \in [Thread -> [ident : Ident \cup {NoIdent}, offset : Nat,
                           size : Nat]]

BlockType ==
  /\ entries \in [Thread -> Content]
  /\ sequence \in [Thread -> Nat]
  /\ offset \in [Thread -> Nat]

SlotType ==
  /\ loaded \in [Thread -> Int]
  /\ reserved \in [Thread -> BOOLEAN]
  /\ inserted \in [Thread -> BOOLEAN]

Statuses == {"none", "OK", "NotFound", "Corruption", "TableFull",
             "InvalidArgument", "IOError"}

CallType ==
  /\ call \in [Thread -> [kind : Kinds \cup {"none"}, row : Row \cup {NoRow},
                           key : Key, entries : Content]]
  /\ result \in [Thread -> [status : Statuses, value : Val \cup {NoVal}]]
  /\ calls \in 0 .. MaxCalls

\* A call in progress has a row.
PcType ==
  /\ pc \in [Thread -> PcLabels]
  /\ \A t \in Thread : pc[t] # "idle" => RowOf(t) \in Row

\* The type of the program's variables.
TypeOK ==
  /\ BucketType /\ CounterType /\ FileType /\ WalkType /\ BlockType
  /\ SlotType /\ CallType /\ PcType

-----------------------------------------------------------------------------
(* Safety.                                                                 *)

NonEmpty == {b \in Bucket : state[b] # "Empty"}
AtRest == \A t \in Thread : pc[t] = "idle"

\* No row is ever in two buckets, however the probes, claims and retries of
\* the threads interleave and whether or not callers serialize: two inserts
\* of one row meet at the same first empty bucket, and the loser starts over.
UniqueRows ==
  \A b, c \in Bucket : holds[b] # NoRow /\ holds[b] = holds[c] => b = c

\* Every bucket before a row's bucket on its probe path is taken, so that
\* FindRowBucket, which stops at the first empty bucket, reaches the row.
ProbePath ==
  \A b \in Bucket : holds[b] # NoRow =>
    \E k \in Bucket : /\ b = Slot(holds[b], k)
                      /\ \A j \in 0 .. k - 1 : state[Slot(holds[b], j)] # "Empty"

\* A bucket is Writing exactly while one thread stores its fields: two
\* StoreRowBucketData never overlap, and no bucket stays Writing behind a
\* thread that left.
ExclusiveWriter ==
  \A b \in Bucket :
    LET W == {t \in Thread : Storing(t) /\ Here(t) = b} IN
    /\ \A t, u \in W : t = u
    /\ state[b] = "Writing" <=> W # {}

\* A published bucket names one complete block of its row: offset, size and
\* identity belong together.
PublishedComplete ==
  \A b \in Bucket : state[b] = "Filled" =>
    /\ ident[b] = IdentOf[holds[b]]
    /\ \E x \in BlocksAt(ShardForRow(holds[b]), blockOffset[b]) :
         x.row = holds[b] /\ x.size = blockSize[b]

\* The append offsets handed out by fetch_add keep blocks apart.
BlocksDisjoint ==
  \A x \in file :
    /\ x.offset + x.size <= appendOffset[x.shard]
    /\ \A y \in file : \/ x = y
                       \/ x.shard # y.shard
                       \/ x.offset + x.size <= y.offset
                       \/ y.offset + y.size <= x.offset

\* A new bucket is only ever claimed under a reservation: an unreserved
\* PutRowStruct, which found its row, never inserts.
InsertsReserved == \A t \in Thread : inserted[t] => reserved[t]

\* Between calls the index is one that HasValidRowIndexLayout accepts (no
\* bucket Writing, filled buckets = itemCount) and every slot was returned,
\* whatever errors the calls met.
LayoutValidAtRest ==
  AtRest => /\ \A b \in Bucket : state[b] # "Writing"
            /\ itemCount = Cardinality(NonEmpty)
            /\ pending = 0

\* The load-factor test reads two counters that others change in between, so
\* the limit can be passed, but by no more than the other threads.
OvershootBound ==
  Cardinality(NonEmpty) <= MaxItems + Cardinality(Thread) - 1

\* README:102: sized for its rows, a row index refuses further live rows with
\* InvalidArgument: it never holds more than maxLoadFactor allows.
CapacityRespected == Cardinality(NonEmpty) <= MaxItems

\* A read returns what its row held at some instant of the call, even when
\* callers do not serialize and the snapshot mixes two publications.
ReadsCurrent ==
  \A t \in Thread :
    result[t].status \in {"OK", "NotFound"} /\ call[t].kind = "GetRowStruct" =>
      \E c \in seen[t] : c[call[t].key] = result[t].value

\* A call answers Corruption only if a row of the same identity was replaced
\* while it ran.
CorruptionOnlyIfDisturbed ==
  \A t \in Thread : result[t].status = "Corruption" => disturbed[t]

\* With serialized writers a write that returns OK leaves its block as the one
\* the index names and the last of its row in the shard, which is the block
\* that RebuildRowIndexFromValues would pick.
RebuildAgrees ==
  \A t \in Thread : result[t].status = "OK" /\ IsWrite(t) =>
    /\ \E b \in Bucket : holds[b] = RowOf(t) /\ blockOffset[b] = offset[t]
    /\ \A x \in file : x.row = RowOf(t) => x.offset <= offset[t]

\* From some time on no call begins.  Only finitely many calls compete then.
NoMoreCalls == <>[][calls' = calls]_vars

\* When no more calls begin, every call that runs returns: no thread waits for
\* ever on a bucket being written or on the reservation counter.  With callers
\* that replace a row of its probe path again and again a reader may start over
\* for ever (2277-2281), so nothing is claimed there.
CallsReturn ==
  NoMoreCalls => \A t \in Thread : pc[t] # "idle" ~> pc[t] = "idle"

-----------------------------------------------------------------------------
(* The row API as a map, a write taking effect when it claims its bucket.  *)

Abstract == INSTANCE RowMap WITH
  rows  <- [r \in Row |-> Current(r)],
  phase <- [t \in Thread |->
              IF pc[t] = "idle" THEN "idle"
              ELSE IF pc[t] = "return" THEN "done"
              ELSE IF Storing(t) \/ pc[t] = "count" THEN "applied"
              ELSE "running"]

\* The threads' interleaved steps on buckets, counters and files implement
\* RowMap when callers serialize the writes of one row.
ImplementsRowMap == Abstract!Spec
=============================================================================
