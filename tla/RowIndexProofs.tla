--------------------------- MODULE RowIndexProofs ---------------------------
(***************************************************************************)
(* Theorems about RowIndex, for every set of threads, rows and shards,     *)
(* every table size and every hash function.                               *)
(***************************************************************************)
EXTENDS RowIndex, FiniteSetTheorems, TLAPS

USE SizeAssumption, SetAssumption, MapAssumption, FlagAssumption DEF Bucket

LEMMA SlotInTable ==
  ASSUME NEW r \in Row, NEW k \in Bucket
  PROVE  Slot(r, k) \in Bucket
BY DEF Slot

LEMMA NoCallType ==
  NoCall \in [kind : Kinds \cup {"none"}, row : Row \cup {NoRow}, key : Key,
             entries : Content]
<1>1. (CHOOSE k \in Key : TRUE) \in Key
  OBVIOUS
<1>. QED BY <1>1 DEF NoCall, EmptyRow, Content

LEMMA MergeType ==
  ASSUME NEW c \in Content, NEW d \in Content
  PROVE  Merge(c, d) \in Content
BY DEF Merge, Content

\* A step that leaves a group of variables alone keeps their types.
LEMMA Frames ==
  /\ BucketType /\ UNCHANGED bucketVars => BucketType'
  /\ CounterType /\ UNCHANGED counterVars => CounterType'
  /\ FileType /\ UNCHANGED fileVars => FileType'
  /\ WalkType /\ UNCHANGED walkVars => WalkType'
  /\ BlockType /\ UNCHANGED blockVars => BlockType'
  /\ SlotType /\ UNCHANGED slotVars => SlotType'
  /\ CallType /\ UNCHANGED <<call, result, calls>> => CallType'
BY DEF BucketType, bucketVars, CounterType, counterVars, FileType, fileVars,
       WalkType, walkVars, BlockType, blockVars, SlotType, slotVars, CallType

\* Moving one thread inside its call.
LEMMA PcFrame ==
  ASSUME PcType, NEW t \in Thread, pc[t] # "idle", UNCHANGED call,
         NEW l \in PcLabels, pc' = [pc EXCEPT ![t] = l]
  PROVE  PcType'
BY DEF PcType, RowOf

\* Where a thread inside a call looks.
LEMMA HereType ==
  ASSUME TypeOK, NEW t \in Thread, pc[t] # "idle"
  PROVE  /\ RowOf(t) \in Row
         /\ IdentOf[RowOf(t)] \in Ident
         /\ ShardForRow(RowOf(t)) \in Shard
         /\ Here(t) \in Bucket
BY SlotInTable DEF TypeOK, PcType, WalkType, Here, ShardForRow

\* Init gives every variable its type.
LEMMA InitTypeOK == Init => TypeOK
BY NoCallType DEF Init, TypeOK, BucketType, CounterType, FileType, WalkType,
  BlockType, SlotType, CallType, PcType, Statuses, PcLabels, NoSnap, NoResult,
  EmptyRow, Content, RowOf

\* Every step of a running call keeps the types: under each action one step
\* for each group of variables that it changes.
LEMMA StepTypeOK ==
  ASSUME TypeOK, NEW t \in Thread, Step(t)
  PROVE  TypeOK'
<1>. USE DEF TypeOK
<1>1. CASE LoadItemCount(t)
  <2>1. SlotType'
    BY <1>1 DEF LoadItemCount, SlotType, CounterType
  <2>2. PcType'
    BY <1>1, PcFrame DEF LoadItemCount, Goto, PcLabels, callVars
  <2>3. UNCHANGED <<bucketVars, counterVars, fileVars, walkVars,
                blockVars, call, result, calls>>
    BY <1>1 DEF LoadItemCount, callVars
  <2>. QED BY <2>1, <2>2, <2>3, Frames
<1>2. CASE LoadPending(t)
  <2>1. SlotType'
    BY <1>2 DEF LoadPending, SlotType, CounterType
  <2>2. CallType'
    <3>1. \/ UNCHANGED result
          \/ \E s \in Statuses :
               result' = [result EXCEPT ![t] = [status |-> s, value |-> NoVal]]
      BY <1>2 DEF LoadPending, Decide, Statuses
    <3>2. UNCHANGED <<call, calls>>
      BY <1>2 DEF LoadPending
    <3>. QED BY <3>1, <3>2 DEF CallType
  <2>3. PcType'
    BY <1>2, PcFrame DEF LoadPending, Goto, Decide, PcLabels, callVars
  <2>4. UNCHANGED <<bucketVars, counterVars, fileVars, walkVars, blockVars>>
    BY <1>2 DEF LoadPending
  <2>. QED BY <2>1, <2>2, <2>3, <2>4, Frames
<1>3. CASE ReserveSlot(t)
  <2>1. CounterType'
    BY <1>3 DEF ReserveSlot, CounterType
  <2>2. SlotType'
    BY <1>3 DEF ReserveSlot, SlotType
  <2>3. PcType'
    BY <1>3, PcFrame DEF ReserveSlot, Goto, PcLabels, callVars
  <2>4. UNCHANGED <<bucketVars, fileVars, walkVars,
                blockVars, call, result, calls>>
    BY <1>3 DEF ReserveSlot, callVars
  <2>. QED BY <2>1, <2>2, <2>3, <2>4, Frames
<1>4. CASE ReserveRetry(t)
  <2>1. PcType'
    BY <1>4, PcFrame DEF ReserveRetry, Goto, PcLabels, callVars
  <2>2. UNCHANGED <<bucketVars, counterVars, fileVars, walkVars,
                blockVars, slotVars, call, result, calls>>
    BY <1>4 DEF ReserveRetry, callVars
  <2>. QED BY <2>1, <2>2, Frames
<1>5. CASE NextRowSequence(t)
  <2>1. CounterType'
    BY <1>5 DEF NextRowSequence, CounterType
  <2>2. BlockType'
    BY <1>5 DEF NextRowSequence, BlockType, CounterType
  <2>3. PcType'
    BY <1>5, PcFrame DEF NextRowSequence, Goto, PcLabels, callVars
  <2>4. UNCHANGED <<bucketVars, fileVars, walkVars,
                slotVars, call, result, calls>>
    BY <1>5 DEF NextRowSequence, callVars
  <2>. QED BY <2>1, <2>2, <2>3, <2>4, Frames
<1>6. CASE ReserveOffset(t)
  <2>1. FileType'
    BY <1>6, HereType DEF ReserveOffset, FileType, BlockType
  <2>2. BlockType'
    BY <1>6, HereType DEF ReserveOffset, BlockType, FileType
  <2>3. PcType'
    BY <1>6, PcFrame DEF ReserveOffset, Goto, PcLabels, callVars
  <2>4. UNCHANGED <<bucketVars, counterVars, walkVars,
                slotVars, call, result, calls>>
    BY <1>6 DEF ReserveOffset, callVars
  <2>. QED BY <2>1, <2>2, <2>3, <2>4, Frames
<1>7. CASE WriteBlock(t)
  <2>1. FileType'
    BY <1>7, HereType DEF WriteBlock, FileType, NewBlock, Block, BlockType
  <2>2. WalkType'
    BY <1>7 DEF WriteBlock, WalkType
  <2>3. PcType'
    BY <1>7, PcFrame DEF WriteBlock, Goto, PcLabels, callVars
  <2>4. UNCHANGED <<bucketVars, counterVars, blockVars, slotVars, call, result, calls>>
    BY <1>7 DEF WriteBlock, callVars
  <2>. QED BY <2>1, <2>2, <2>3, <2>4, Frames
<1>8. CASE WriteBlockFails(t)
  <2>1. CallType'
    BY <1>8 DEF WriteBlockFails, CallType, Decide, Statuses
  <2>2. PcType'
    BY <1>8, PcFrame DEF WriteBlockFails, Goto, Decide, PcLabels, callVars
  <2>3. UNCHANGED <<bucketVars, counterVars, fileVars, walkVars,
                blockVars, slotVars>>
    BY <1>8 DEF WriteBlockFails
  <2>. QED BY <2>1, <2>2, <2>3, Frames
<1>9. CASE MissRow(t)
  <2>1. CallType'
    BY <1>9 DEF MissRow, CallType, Decide, Statuses
  <2>2. PcType'
    BY <1>9, PcFrame DEF MissRow, Goto, Decide, PcLabels, callVars
  <2>3. UNCHANGED <<bucketVars, counterVars, fileVars, walkVars,
                blockVars, slotVars>>
    BY <1>9 DEF MissRow
  <2>. QED BY <2>1, <2>2, <2>3, Frames
<1>10. CASE MissRowForPut(t)
  <2>1. BlockType'
    BY <1>10 DEF MissRowForPut, BlockType, CallType
  <2>2. PcType'
    BY <1>10, PcFrame DEF MissRowForPut, Goto, PcLabels, callVars
  <2>3. UNCHANGED <<bucketVars, counterVars, fileVars, walkVars,
                slotVars, call, result, calls>>
    BY <1>10 DEF MissRowForPut, callVars
  <2>. QED BY <2>1, <2>2, <2>3, Frames
<1>11. CASE InsertSeesEmpty(t)
  <2>1. PcType'
    BY <1>11, PcFrame DEF InsertSeesEmpty, Goto, PcLabels, callVars
  <2>2. UNCHANGED <<bucketVars, counterVars, fileVars, walkVars,
                blockVars, slotVars, call, result, calls>>
    BY <1>11 DEF InsertSeesEmpty, callVars
  <2>. QED BY <2>1, <2>2, Frames
<1>12. CASE LoadFilled(t)
  <2>1. PcType'
    BY <1>12, PcFrame DEF LoadFilled, Goto, PcLabels, callVars
  <2>2. UNCHANGED <<bucketVars, counterVars, fileVars, walkVars,
                blockVars, slotVars, call, result, calls>>
    BY <1>12 DEF LoadFilled, callVars
  <2>. QED BY <2>1, <2>2, Frames
<1>13. CASE SeeWriting(t)
  <2>1. WalkType'
    BY <1>13 DEF SeeWriting, WalkType, Retry, NoSnap
  <2>2. PcType'
    BY <1>13, PcFrame DEF SeeWriting, Retry, Goto, PcLabels, callVars
  <2>3. UNCHANGED <<bucketVars, counterVars, fileVars, blockVars, slotVars, call, result, calls>>
    BY <1>13 DEF SeeWriting, Retry, callVars
  <2>. QED BY <2>1, <2>2, <2>3, Frames
<1>14. CASE LoadIdent(t)
  <2>1. WalkType'
    <3>1. ident[Here(t)] \in Ident \cup {NoIdent}
      BY <1>14, HereType DEF LoadIdent, BucketType
    <3>2. snap' = [snap EXCEPT ![t].ident = ident[Here(t)]]
      BY <1>14 DEF LoadIdent
    <3>3. UNCHANGED <<mode, probe>>
      BY <1>14 DEF LoadIdent
    <3>4. [snap[t] EXCEPT !.ident = ident[Here(t)]] \in
            [ident : Ident \cup {NoIdent}, offset : Nat, size : Nat]
      BY <3>1 DEF WalkType
    <3>. QED BY <3>2, <3>3, <3>4 DEF WalkType
  <2>2. PcType'
    BY <1>14, PcFrame DEF LoadIdent, Goto, PcLabels, callVars
  <2>3. UNCHANGED <<bucketVars, counterVars, fileVars, blockVars, slotVars, call, result, calls>>
    BY <1>14 DEF LoadIdent, callVars
  <2>. QED BY <2>1, <2>2, <2>3, Frames
<1>15. CASE LoadOffset(t)
  <2>1. WalkType'
    <3>1. blockOffset[Here(t)] \in Nat
      BY <1>15, HereType DEF LoadOffset, BucketType
    <3>2. snap' = [snap EXCEPT ![t].offset = blockOffset[Here(t)]]
      BY <1>15 DEF LoadOffset
    <3>3. UNCHANGED <<mode, probe>>
      BY <1>15 DEF LoadOffset
    <3>4. [snap[t] EXCEPT !.offset = blockOffset[Here(t)]] \in
            [ident : Ident \cup {NoIdent}, offset : Nat, size : Nat]
      BY <3>1 DEF WalkType
    <3>. QED BY <3>2, <3>3, <3>4 DEF WalkType
  <2>2. PcType'
    BY <1>15, PcFrame DEF LoadOffset, Goto, PcLabels, callVars
  <2>3. UNCHANGED <<bucketVars, counterVars, fileVars, blockVars, slotVars, call, result, calls>>
    BY <1>15 DEF LoadOffset, callVars
  <2>. QED BY <2>1, <2>2, <2>3, Frames
<1>16. CASE LoadSize(t)
  <2>1. WalkType'
    <3>1. blockSize[Here(t)] \in Nat
      BY <1>16, HereType DEF LoadSize, BucketType
    <3>2. snap' = [snap EXCEPT ![t].size = blockSize[Here(t)]]
      BY <1>16 DEF LoadSize
    <3>3. UNCHANGED <<mode, probe>>
      BY <1>16 DEF LoadSize
    <3>4. [snap[t] EXCEPT !.size = blockSize[Here(t)]] \in
            [ident : Ident \cup {NoIdent}, offset : Nat, size : Nat]
      BY <3>1 DEF WalkType
    <3>. QED BY <3>2, <3>3, <3>4 DEF WalkType
  <2>2. PcType'
    BY <1>16, PcFrame DEF LoadSize, Goto, PcLabels, callVars
  <2>3. UNCHANGED <<bucketVars, counterVars, fileVars, blockVars, slotVars, call, result, calls>>
    BY <1>16 DEF LoadSize, callVars
  <2>. QED BY <2>1, <2>2, <2>3, Frames
<1>17. CASE RecheckFilled(t)
  <2>1. PcType'
    BY <1>17, PcFrame DEF RecheckFilled, Goto, PcLabels, callVars
  <2>2. UNCHANGED <<bucketVars, counterVars, fileVars, walkVars,
                blockVars, slotVars, call, result, calls>>
    BY <1>17 DEF RecheckFilled, callVars
  <2>. QED BY <2>1, <2>2, Frames
<1>18. CASE PassForeignIdent(t)
  <2>1. WalkType'
    BY <1>18 DEF PassForeignIdent, WalkType, Advance, NoSnap
  <2>2. CallType'
    BY <1>18 DEF PassForeignIdent, CallType, Advance, Decide, Statuses
  <2>3. PcType'
    BY <1>18, PcFrame DEF PassForeignIdent, Advance, Decide, Goto, PcLabels,
        callVars
  <2>4. UNCHANGED <<bucketVars, counterVars, fileVars, blockVars, slotVars>>
    BY <1>18 DEF PassForeignIdent, Advance
  <2>. QED BY <2>1, <2>2, <2>3, <2>4, Frames
<1>19. CASE MatchRow(t)
  <2>1. WalkType'
    BY <1>19 DEF MatchRow, WalkType
  <2>2. PcType'
    BY <1>19, PcFrame DEF MatchRow, Goto, PcLabels, callVars
  <2>3. UNCHANGED <<bucketVars, counterVars, fileVars, blockVars, slotVars, call, result, calls>>
    BY <1>19 DEF MatchRow, callVars
  <2>. QED BY <2>1, <2>2, <2>3, Frames
<1>20. CASE MatchForeignColumn(t)
  <2>1. WalkType'
    BY <1>20 DEF MatchForeignColumn, WalkType, Advance, NoSnap
  <2>2. CallType'
    <3>1. \/ UNCHANGED result
          \/ \E s \in Statuses :
               result' = [result EXCEPT ![t] = [status |-> s, value |-> NoVal]]
      BY <1>20 DEF MatchForeignColumn, Advance, Decide, Statuses
    <3>2. UNCHANGED <<call, calls>>
      BY <1>20 DEF MatchForeignColumn, Advance
    <3>. QED BY <3>1, <3>2 DEF CallType
  <2>3. PcType'
    BY <1>20, PcFrame DEF MatchForeignColumn, Advance, Decide, Goto, PcLabels,
        callVars
  <2>4. UNCHANGED <<bucketVars, counterVars, fileVars, blockVars, slotVars>>
    BY <1>20 DEF MatchForeignColumn, Advance
  <2>. QED BY <2>1, <2>2, <2>3, <2>4, Frames
<1>21. CASE ReadCorruption(t)
  <2>1. CallType'
    BY <1>21 DEF ReadCorruption, CallType, Decide, Statuses
  <2>2. PcType'
    BY <1>21, PcFrame DEF ReadCorruption, Goto, Decide, PcLabels, callVars
  <2>3. UNCHANGED <<bucketVars, counterVars, fileVars, walkVars,
                blockVars, slotVars>>
    BY <1>21 DEF ReadCorruption
  <2>. QED BY <2>1, <2>2, <2>3, Frames
<1>22. CASE ReadFails(t)
  <2>1. CallType'
    BY <1>22 DEF ReadFails, CallType, Decide, Statuses
  <2>2. PcType'
    BY <1>22, PcFrame DEF ReadFails, Goto, Decide, PcLabels, callVars
  <2>3. UNCHANGED <<bucketVars, counterVars, fileVars, walkVars,
                blockVars, slotVars>>
    BY <1>22 DEF ReadFails
  <2>. QED BY <2>1, <2>2, <2>3, Frames
<1>23. CASE ReadValue(t)
  <2>1. CallType'
    BY <1>23 DEF ReadValue, CallType, Decide, Statuses, Matching, BlocksAt,
        FileType, Block, Content
  <2>2. PcType'
    BY <1>23, PcFrame DEF ReadValue, Goto, Decide, PcLabels, callVars
  <2>3. UNCHANGED <<bucketVars, counterVars, fileVars, walkVars,
                blockVars, slotVars>>
    BY <1>23 DEF ReadValue
  <2>. QED BY <2>1, <2>2, <2>3, Frames
<1>24. CASE LoadRowEntries(t)
  <2>1. BlockType'
    BY <1>24, MergeType DEF LoadRowEntries, BlockType, Matching, BlocksAt,
        FileType, Block, CallType
  <2>2. PcType'
    BY <1>24, PcFrame DEF LoadRowEntries, Goto, PcLabels, callVars
  <2>3. UNCHANGED <<bucketVars, counterVars, fileVars, walkVars,
                slotVars, call, result, calls>>
    BY <1>24 DEF LoadRowEntries, callVars
  <2>. QED BY <2>1, <2>2, <2>3, Frames
<1>25. CASE ClaimEmpty(t)
  <2>1. BucketType'
    BY <1>25, HereType DEF ClaimEmpty, BucketType
  <2>2. SlotType'
    BY <1>25 DEF ClaimEmpty, SlotType
  <2>3. PcType'
    BY <1>25, PcFrame DEF ClaimEmpty, Goto, PcLabels, callVars
  <2>4. UNCHANGED <<counterVars, fileVars, walkVars,
                blockVars, call, result, calls>>
    BY <1>25 DEF ClaimEmpty, callVars
  <2>. QED BY <2>1, <2>2, <2>3, <2>4, Frames
<1>26. CASE ClaimFilled(t)
  <2>1. BucketType'
    BY <1>26 DEF ClaimFilled, BucketType
  <2>2. PcType'
    BY <1>26, PcFrame DEF ClaimFilled, Goto, PcLabels, callVars
  <2>3. UNCHANGED <<counterVars, fileVars, walkVars,
                blockVars, slotVars, call, result, calls>>
    BY <1>26 DEF ClaimFilled, callVars
  <2>. QED BY <2>1, <2>2, <2>3, Frames
<1>27. CASE ClaimFails(t)
  <2>1. WalkType'
    BY <1>27 DEF ClaimFails, WalkType, Retry, NoSnap
  <2>2. PcType'
    BY <1>27, PcFrame DEF ClaimFails, Retry, Goto, PcLabels, callVars
  <2>3. UNCHANGED <<bucketVars, counterVars, fileVars, blockVars, slotVars, call, result, calls>>
    BY <1>27 DEF ClaimFails, Retry, callVars
  <2>. QED BY <2>1, <2>2, <2>3, Frames
<1>28. CASE StoreIdent(t)
  <2>1. BucketType'
    BY <1>28, HereType DEF StoreIdent, BucketType
  <2>2. PcType'
    BY <1>28, PcFrame DEF StoreIdent, Goto, PcLabels, callVars
  <2>3. UNCHANGED <<counterVars, fileVars, walkVars,
                blockVars, slotVars, call, result, calls>>
    BY <1>28 DEF StoreIdent, callVars
  <2>. QED BY <2>1, <2>2, <2>3, Frames
<1>29. CASE StoreOffset(t)
  <2>1. BucketType'
    BY <1>29 DEF StoreOffset, BucketType, BlockType
  <2>2. PcType'
    BY <1>29, PcFrame DEF StoreOffset, Goto, PcLabels, callVars
  <2>3. UNCHANGED <<counterVars, fileVars, walkVars,
                blockVars, slotVars, call, result, calls>>
    BY <1>29 DEF StoreOffset, callVars
  <2>. QED BY <2>1, <2>2, <2>3, Frames
<1>30. CASE StoreSize(t)
  <2>1. BucketType'
    BY <1>30 DEF StoreSize, BucketType, BlockType
  <2>2. PcType'
    BY <1>30, PcFrame DEF StoreSize, Goto, PcLabels, callVars
  <2>3. UNCHANGED <<counterVars, fileVars, walkVars,
                blockVars, slotVars, call, result, calls>>
    BY <1>30 DEF StoreSize, callVars
  <2>. QED BY <2>1, <2>2, <2>3, Frames
<1>31. CASE PublishBucket(t)
  <2>1. BucketType'
    BY <1>31 DEF PublishBucket, BucketType
  <2>2. CallType'
    BY <1>31 DEF PublishBucket, CallType, Decide, Statuses
  <2>3. PcType'
    BY <1>31, PcFrame DEF PublishBucket, Goto, Decide, PcLabels, callVars
  <2>4. UNCHANGED <<counterVars, fileVars, walkVars, blockVars, slotVars>>
    BY <1>31 DEF PublishBucket
  <2>. QED BY <2>1, <2>2, <2>3, <2>4, Frames
<1>32. CASE IncrementRowItemCount(t)
  <2>1. CounterType'
    BY <1>32 DEF IncrementRowItemCount, CounterType
  <2>2. SlotType'
    BY <1>32 DEF IncrementRowItemCount, SlotType
  <2>3. CallType'
    BY <1>32 DEF IncrementRowItemCount, CallType, Decide, Statuses
  <2>4. PcType'
    BY <1>32, PcFrame DEF IncrementRowItemCount, Goto, Decide, PcLabels,
        callVars
  <2>5. UNCHANGED <<bucketVars, fileVars, walkVars, blockVars>>
    BY <1>32 DEF IncrementRowItemCount
  <2>. QED BY <2>1, <2>2, <2>3, <2>4, <2>5, Frames
<1>33. CASE Return(t)
  <2>1. CounterType' /\ SlotType'
    BY <1>33 DEF Return, Release, CounterType, SlotType
  <2>2. WalkType' /\ BlockType'
    BY <1>33 DEF Return, WalkType, BlockType, EmptyRow, Content, NoSnap
  <2>3. CallType'
    BY <1>33, NoCallType DEF Return, CallType, NoResult, Statuses
  <2>4. PcType'
    BY <1>33 DEF Return, Goto, PcType, PcLabels, RowOf, CallType
  <2>5. UNCHANGED <<bucketVars, fileVars>>
    BY <1>33 DEF Return
  <2>. QED BY <2>1, <2>2, <2>3, <2>4, <2>5, Frames
<1>. QED BY <1>1, <1>2, <1>3, <1>4, <1>5, <1>6, <1>7, <1>8, <1>9, <1>10,
    <1>11, <1>12, <1>13, <1>14, <1>15, <1>16, <1>17, <1>18, <1>19, <1>20,
    <1>21, <1>22, <1>23, <1>24, <1>25, <1>26, <1>27, <1>28, <1>29, <1>30,
    <1>31, <1>32, <1>33 DEF Step

\* The three ways to start a call.
LEMMA CallStarts ==
  ASSUME NEW t \in Thread, Call(t)
  PROVE  /\ \E r \in Row, kind \in Kinds, k \in Key, c \in Content,
              l \in {"loadItems", "loadState"} : Start(t, kind, r, k, c, l)
         /\ \/ UNCHANGED entries
            \/ \E c \in Batch : entries' = [entries EXCEPT ![t] = c]
<1>1. PICK r \in Row :
        \/ \E c \in Batch : CallPutRowStructs(t, r, c)
        \/ \E k \in Key, v \in Val : CallPutRowStruct(t, r, k, v)
        \/ \E k \in Key : CallGetRowStruct(t, r, k)
  BY DEF Call
<1>2. \A k \in Key, v \in Val : Single(k, v) \in Content
  BY DEF Single, EmptyRow, Content
<1>3. EmptyRow \in Content
  BY DEF EmptyRow, Content
<1>4. NoCall.key \in Key
  BY NoCallType
<1>. QED
  BY <1>1, <1>2, <1>3, <1>4
     DEF CallPutRowStructs, CallPutRowStruct, CallGetRowStruct, Start

\* Starting a call keeps the types.
LEMMA CallTypeOK ==
  ASSUME TypeOK, NEW t \in Thread, Call(t)
  PROVE  TypeOK'
<1>1. PICK r \in Row, kind \in Kinds, k \in Key, c \in Content,
           l \in {"loadItems", "loadState"} : Start(t, kind, r, k, c, l)
  BY CallStarts
<1>2. BlockType'
  <2>1. entries' \in [Thread -> Content]
    BY CallStarts DEF TypeOK, BlockType
  <2>. QED BY <1>1, <2>1 DEF Start, TypeOK, BlockType
<1>3. WalkType'
  BY <1>1 DEF Start, TypeOK, WalkType
<1>4. CallType'
  BY <1>1 DEF Start, TypeOK, CallType
<1>5. PcType'
  BY <1>1 DEF Start, Goto, TypeOK, CallType, PcType, PcLabels, RowOf
<1>6. UNCHANGED <<bucketVars, counterVars, fileVars, slotVars>>
  BY <1>1 DEF Start
<1>. QED BY <1>2, <1>3, <1>4, <1>5, <1>6, Frames DEF TypeOK

\* Every reachable state of the row index is well typed, whatever the number
\* of threads, rows, shards and buckets.
THEOREM TypeCorrect == Spec => []TypeOK
<1>1. Init => TypeOK
  BY InitTypeOK
<1>2. TypeOK /\ [Next]_vars => TypeOK'
  <2>1. ASSUME TypeOK, UNCHANGED vars
        PROVE  TypeOK'
    <3>1. PcType'
      BY <2>1 DEF TypeOK, PcType, RowOf, vars, callVars
    <3>. QED BY <2>1, <3>1, Frames DEF TypeOK, vars, callVars
  <2>. QED BY <2>1, StepTypeOK, CallTypeOK DEF Next, AllReturned
<1>. QED BY <1>1, <1>2, PTL DEF Spec

-----------------------------------------------------------------------------
(***************************************************************************)
(* The structure of the table.  UniqueRows and ProbePath are not inductive *)
(* by themselves: why a thread may claim the empty bucket it stands at     *)
(* depends on what it met on the way there, what a snapshot says of a      *)
(* bucket depends on what the bucket held when it was read, and that in    *)
(* turn on no two blocks sharing a file range.  StructureInv adds these.   *)
(***************************************************************************)

\* The range that thread t has reserved and is about to write.
SizeOf(t) == BlockSizeOf[entries[t]]
Apart(s1, o1, n1, s2, o2, n2) == s1 = s2 => o1 + n1 <= o2 \/ o2 + n2 <= o1

\* Blocks and reserved ranges lie below the append offset and do not overlap.
AppendInv ==
  /\ \A x \in file : x.size > 0 /\ x.offset + x.size <= appendOffset[x.shard]
  /\ \A x, y \in file :
       x # y => Apart(x.shard, x.offset, x.size, y.shard, y.offset, y.size)
  /\ \A t \in Thread : pc[t] = "write" =>
       /\ offset[t] + SizeOf(t) <= appendOffset[ShardForRow(RowOf(t))]
       /\ \A x \in file : Apart(x.shard, x.offset, x.size,
                                ShardForRow(RowOf(t)), offset[t], SizeOf(t))
  /\ \A t, u \in Thread : pc[t] = "write" /\ pc[u] = "write" /\ t # u =>
       Apart(ShardForRow(RowOf(t)), offset[t], SizeOf(t),
             ShardForRow(RowOf(u)), offset[u], SizeOf(u))

\* There is a block of row r at offset o (and of size n).
HasBlock(r, o) == \E x \in file :
  x.shard = ShardForRow(r) /\ x.offset = o /\ x.row = r
HasSized(r, o, n) == \E x \in file :
  x.shard = ShardForRow(r) /\ x.offset = o /\ x.row = r /\ x.size = n

\* A bucket whose fields, in whatever mixture of old and new, name its row.
\* Once true of a bucket this stays true.
Good(b) ==
  /\ holds[b] # NoRow
  /\ ident[b] = IdentOf[holds[b]]
  /\ HasBlock(holds[b], blockOffset[b])

\* What a thread that took a filled bucket's snapshot knows.
ReaderInv(t) ==
  /\ pc[t] \in {"loadIdent", "loadOffset", "loadSize", "recheck", "match",
                "claimFilled"} => Good(Here(t))
  /\ pc[t] \in {"loadOffset", "loadSize", "recheck", "match"} =>
       snap[t].ident = IdentOf[holds[Here(t)]]
  /\ pc[t] \in {"loadSize", "recheck", "match"} =>
       HasBlock(holds[Here(t)], snap[t].offset)
  /\ pc[t] = "claimFilled" => holds[Here(t)] = RowOf(t)

\* A thread inserting has its block in the file, and every bucket it passed
\* holds another row.
Passed(t) == \A j \in 0 .. probe[t] - 1 :
               holds[Slot(RowOf(t), j)] \notin {NoRow, RowOf(t)}
InsertInv(t) ==
  /\ pc[t] \in {"claimEmpty", "claimFilled"} => mode[t] = "insert"
  /\ /\ pc[t] \in {"loadState", "loadIdent", "loadOffset", "loadSize",
                   "recheck", "match", "claimEmpty", "claimFilled"}
     /\ mode[t] = "insert"
     => Passed(t) /\ HasSized(RowOf(t), offset[t], SizeOf(t))

\* A thread storing owns its bucket, and has stored what its pc says.
StoreInv(t) ==
  Storing(t) =>
    /\ state[Here(t)] = "Writing"
    /\ holds[Here(t)] = RowOf(t)
    /\ HasSized(RowOf(t), offset[t], SizeOf(t))
    /\ pc[t] # "storeIdent" => ident[Here(t)] = IdentOf[RowOf(t)]
    /\ pc[t] \in {"storeSize", "publish"} => blockOffset[Here(t)] = offset[t]
    /\ pc[t] = "publish" => blockSize[Here(t)] = SizeOf(t)

ThreadInv(t) == ReaderInv(t) /\ InsertInv(t) /\ StoreInv(t)

EmptyHolds == \A b \in Bucket : state[b] = "Empty" <=> holds[b] = NoRow
FilledGood == \A b \in Bucket : state[b] = "Filled" =>
                /\ Good(b)
                /\ HasSized(holds[b], blockOffset[b], blockSize[b])
OneWriter == \A t, u \in Thread :
               Storing(t) /\ Storing(u) /\ Here(t) = Here(u) => t = u
WritingOwned == \A b \in Bucket : state[b] = "Writing" =>
                  \E t \in Thread : Storing(t) /\ Here(t) = b

BucketInv == EmptyHolds /\ FilledGood /\ OneWriter /\ WritingOwned
             /\ UniqueRows /\ ProbePath

StructureInv == TypeOK /\ AppendInv /\ BucketInv
                /\ \A t \in Thread : ThreadInv(t)

-----------------------------------------------------------------------------
(* What a step of one thread leaves alone.                                 *)

\* Thread u's program counter and locals do not change.
Same(u) ==
  /\ pc'[u] = pc[u] /\ call'[u] = call[u]
  /\ mode'[u] = mode[u] /\ probe'[u] = probe[u] /\ snap'[u] = snap[u]
  /\ entries'[u] = entries[u] /\ offset'[u] = offset[u]

LEMMA StepOthers ==
  ASSUME TypeOK, NEW t \in Thread, Step(t), NEW u \in Thread, u # t
  PROVE  Same(u)
<1>. USE DEF TypeOK, PcType, CallType, WalkType, BlockType, Same, Goto, Decide,
             walkVars, blockVars, callVars
<1>1. CASE LoadItemCount(t)
  BY <1>1 DEF LoadItemCount
<1>2. CASE LoadPending(t)
  BY <1>2 DEF LoadPending
<1>3. CASE ReserveSlot(t)
  BY <1>3 DEF ReserveSlot
<1>4. CASE ReserveRetry(t)
  BY <1>4 DEF ReserveRetry
<1>5. CASE NextRowSequence(t)
  BY <1>5 DEF NextRowSequence
<1>6. CASE ReserveOffset(t)
  BY <1>6 DEF ReserveOffset
<1>7. CASE WriteBlock(t)
  BY <1>7 DEF WriteBlock
<1>8. CASE WriteBlockFails(t)
  BY <1>8 DEF WriteBlockFails
<1>9. CASE MissRow(t)
  BY <1>9 DEF MissRow
<1>10. CASE MissRowForPut(t)
  BY <1>10 DEF MissRowForPut
<1>11. CASE InsertSeesEmpty(t)
  BY <1>11 DEF InsertSeesEmpty
<1>12. CASE LoadFilled(t)
  BY <1>12 DEF LoadFilled
<1>13. CASE SeeWriting(t)
  BY <1>13 DEF SeeWriting, Retry
<1>14. CASE LoadIdent(t)
  BY <1>14 DEF LoadIdent
<1>15. CASE LoadOffset(t)
  BY <1>15 DEF LoadOffset
<1>16. CASE LoadSize(t)
  BY <1>16 DEF LoadSize
<1>17. CASE RecheckFilled(t)
  BY <1>17 DEF RecheckFilled
<1>18. CASE PassForeignIdent(t)
  BY <1>18 DEF PassForeignIdent, Advance
<1>19. CASE MatchRow(t)
  BY <1>19 DEF MatchRow
<1>20. CASE MatchForeignColumn(t)
  BY <1>20 DEF MatchForeignColumn, Advance
<1>21. CASE ReadCorruption(t)
  BY <1>21 DEF ReadCorruption
<1>22. CASE ReadFails(t)
  BY <1>22 DEF ReadFails
<1>23. CASE ReadValue(t)
  BY <1>23 DEF ReadValue
<1>24. CASE LoadRowEntries(t)
  BY <1>24 DEF LoadRowEntries
<1>25. CASE ClaimEmpty(t)
  BY <1>25 DEF ClaimEmpty
<1>26. CASE ClaimFilled(t)
  BY <1>26 DEF ClaimFilled
<1>27. CASE ClaimFails(t)
  BY <1>27 DEF ClaimFails, Retry
<1>28. CASE StoreIdent(t)
  BY <1>28 DEF StoreIdent
<1>29. CASE StoreOffset(t)
  BY <1>29 DEF StoreOffset
<1>30. CASE StoreSize(t)
  BY <1>30 DEF StoreSize
<1>31. CASE PublishBucket(t)
  BY <1>31 DEF PublishBucket
<1>32. CASE IncrementRowItemCount(t)
  BY <1>32 DEF IncrementRowItemCount
<1>33. CASE Return(t)
  BY <1>33 DEF Return
<1>. QED BY <1>1, <1>2, <1>3, <1>4, <1>5, <1>6, <1>7, <1>8, <1>9, <1>10,
    <1>11, <1>12, <1>13, <1>14, <1>15, <1>16, <1>17, <1>18, <1>19, <1>20,
    <1>21, <1>22, <1>23, <1>24, <1>25, <1>26, <1>27, <1>28, <1>29, <1>30,
    <1>31, <1>32, <1>33 DEF Step

\* Steps that touch neither buckets nor files and do not start or end a
\* write of either.
Quiet(t) ==
  /\ UNCHANGED <<bucketVars, fileVars>>
  /\ ~Storing(t)
  /\ ~Storing(t)'
  /\ pc'[t] # "write"

\* Places where a thread holds no snapshot and has no claim in view.
Aside == {"idle", "loadItems", "loadPending", "reserve", "sequence", "append",
          "loadBlock", "readValue", "count", "return"}

WalkStep(t) ==
  \/ InsertSeesEmpty(t) \/ LoadFilled(t) \/ SeeWriting(t) \/ LoadIdent(t)
  \/ LoadOffset(t) \/ LoadSize(t) \/ RecheckFilled(t) \/ PassForeignIdent(t)
  \/ MatchRow(t) \/ MatchForeignColumn(t) \/ ClaimFails(t)

SharedStep(t) ==
  \/ ReserveOffset(t) \/ WriteBlock(t) \/ ClaimEmpty(t) \/ ClaimFilled(t)
  \/ StoreIdent(t) \/ StoreOffset(t) \/ StoreSize(t) \/ PublishBucket(t)

\* Every step is one of three: a step aside, a step of a walk over the
\* buckets, or a step that writes shared data.
LEMMA StepKinds ==
  ASSUME TypeOK, NEW t \in Thread, Step(t)
  PROVE  \/ Quiet(t) /\ pc'[t] \in Aside
         \/ Quiet(t) /\ WalkStep(t)
         \/ SharedStep(t)
<1>. USE DEF TypeOK, PcType, Goto, Decide, Quiet, Storing, Aside
<1>1. CASE LoadItemCount(t)
  BY <1>1 DEF LoadItemCount
<1>2. CASE LoadPending(t)
  BY <1>2 DEF LoadPending
<1>3. CASE ReserveSlot(t)
  BY <1>3 DEF ReserveSlot
<1>4. CASE ReserveRetry(t)
  BY <1>4 DEF ReserveRetry
<1>5. CASE NextRowSequence(t)
  BY <1>5 DEF NextRowSequence
<1>6. CASE WriteBlockFails(t)
  BY <1>6 DEF WriteBlockFails
<1>7. CASE MissRow(t)
  BY <1>7 DEF MissRow
<1>8. CASE MissRowForPut(t)
  BY <1>8 DEF MissRowForPut
<1>9. CASE InsertSeesEmpty(t)
  BY <1>9 DEF InsertSeesEmpty, WalkStep
<1>10. CASE LoadFilled(t)
  BY <1>10 DEF LoadFilled, WalkStep
<1>11. CASE SeeWriting(t)
  BY <1>11 DEF SeeWriting, Retry, WalkStep
<1>12. CASE LoadIdent(t)
  BY <1>12 DEF LoadIdent, WalkStep
<1>13. CASE LoadOffset(t)
  BY <1>13 DEF LoadOffset, WalkStep
<1>14. CASE LoadSize(t)
  BY <1>14 DEF LoadSize, WalkStep
<1>15. CASE RecheckFilled(t)
  BY <1>15 DEF RecheckFilled, WalkStep
<1>16. CASE PassForeignIdent(t)
  BY <1>16 DEF PassForeignIdent, Advance, WalkStep
<1>17. CASE MatchRow(t)
  BY <1>17 DEF MatchRow, WalkStep
<1>18. CASE MatchForeignColumn(t)
  BY <1>18 DEF MatchForeignColumn, Advance, WalkStep
<1>19. CASE ReadCorruption(t)
  BY <1>19 DEF ReadCorruption
<1>20. CASE ReadFails(t)
  BY <1>20 DEF ReadFails
<1>21. CASE ReadValue(t)
  BY <1>21 DEF ReadValue
<1>22. CASE LoadRowEntries(t)
  BY <1>22 DEF LoadRowEntries
<1>23. CASE ClaimFails(t)
  BY <1>23 DEF ClaimFails, Retry, WalkStep
<1>24. CASE IncrementRowItemCount(t)
  BY <1>24 DEF IncrementRowItemCount
<1>25. CASE Return(t)
  BY <1>25 DEF Return
<1>. QED BY <1>1, <1>2, <1>3, <1>4, <1>5, <1>6, <1>7, <1>8, <1>9, <1>10,
    <1>11, <1>12, <1>13, <1>14, <1>15, <1>16, <1>17, <1>18, <1>19, <1>20,
    <1>21, <1>22, <1>23, <1>24, <1>25 DEF Step, SharedStep

LEMMA CallQuiet ==
  ASSUME TypeOK, NEW t \in Thread, Call(t)
  PROVE  /\ Quiet(t)
         /\ pc'[t] \in {"loadItems", "loadState"}
         /\ mode'[t] = "find"
         /\ \A u \in Thread : u # t => Same(u)
<1>1. PICK r \in Row, kind \in Kinds, k \in Key, c \in Content,
           l \in {"loadItems", "loadState"} : Start(t, kind, r, k, c, l)
  BY CallStarts
<1>2. \A u \in Thread : u # t => entries'[u] = entries[u]
  BY CallStarts DEF TypeOK, BlockType
<1>3. \A u \in Thread : u # t => Same(u)
  BY <1>1, <1>2 DEF Start, Goto, TypeOK, PcType, CallType, WalkType, Same
<1>. QED
  BY <1>1, <1>3 DEF Start, Goto, TypeOK, PcType, WalkType, Quiet, Storing

-----------------------------------------------------------------------------
(* File ranges.                                                            *)

\* Only ReserveOffset and WriteBlock move file ranges.
LEMMA QuietAppend ==
  ASSUME AppendInv, NEW t \in Thread, UNCHANGED fileVars, pc'[t] # "write",
         \A u \in Thread : u # t => Same(u)
  PROVE  AppendInv'
<1>1. \A u \in Thread : pc'[u] = "write" => Same(u)
  OBVIOUS
<1>2. UNCHANGED <<appendOffset, file>>
  BY DEF fileVars
<1>. QED BY <1>1, <1>2 DEF AppendInv, Same, SizeOf, RowOf

\* The range that fetch_add hands out starts where all others end.
LEMMA ReserveOffsetAppend ==
  ASSUME TypeOK, AppendInv, NEW t \in Thread, ReserveOffset(t),
         \A u \in Thread : u # t => Same(u)
  PROVE  AppendInv'
<1> DEFINE s == ShardForRow(RowOf(t))
           n == BlockSizeOf[entries[t]]
<1>1. /\ s \in Shard
      /\ n \in Nat \ {0}
      /\ appendOffset[s] \in Nat
      /\ appendOffset' = [appendOffset EXCEPT ![s] = appendOffset[s] + n]
      /\ appendOffset'[s] = appendOffset[s] + n
      /\ offset'[t] = appendOffset[s]
      /\ pc'[t] = "write"
      /\ SizeOf(t)' = n
      /\ RowOf(t)' = RowOf(t)
      /\ file' = file
  BY HereType DEF ReserveOffset, Goto, TypeOK, FileType, BlockType, PcType,
     SizeOf, RowOf, callVars
<1>2. \A x \in file : /\ x.shard \in Shard
                      /\ x.offset \in Nat /\ x.size \in Nat
                      /\ appendOffset[x.shard] \in Nat
                      /\ appendOffset'[x.shard] \in Nat
                      /\ appendOffset[x.shard] <= appendOffset'[x.shard]
  BY <1>1 DEF TypeOK, FileType, Block
<1>3. \A u \in Thread : pc[u] = "write" =>
        /\ ShardForRow(RowOf(u)) \in Shard
        /\ offset[u] \in Nat /\ SizeOf(u) \in Nat
        /\ appendOffset[ShardForRow(RowOf(u))] \in Nat
        /\ appendOffset[ShardForRow(RowOf(u))]
             <= appendOffset'[ShardForRow(RowOf(u))]
        /\ appendOffset'[ShardForRow(RowOf(u))] \in Nat
  BY <1>1, HereType DEF TypeOK, FileType, BlockType, SizeOf
<1>4. \A u \in Thread : u # t =>
        /\ pc'[u] = pc[u] /\ offset'[u] = offset[u]
        /\ SizeOf(u)' = SizeOf(u) /\ RowOf(u)' = RowOf(u)
  BY DEF Same, SizeOf, RowOf
<1>5. \A x \in file' : x.size > 0 /\ x.offset + x.size <= appendOffset'[x.shard]
  BY <1>1, <1>2 DEF AppendInv
<1>6. \A x, y \in file' :
        x # y => Apart(x.shard, x.offset, x.size, y.shard, y.offset, y.size)
  BY <1>1 DEF AppendInv
<1>7. ASSUME NEW u \in Thread, pc'[u] = "write"
      PROVE  /\ offset'[u] + SizeOf(u)' <= appendOffset'[ShardForRow(RowOf(u)')]
             /\ \A x \in file' :
                  Apart(x.shard, x.offset, x.size,
                        ShardForRow(RowOf(u)'), offset'[u], SizeOf(u)')
  <2>1. CASE u = t
    <3>1. \A x \in file : x.shard = s => x.offset + x.size <= appendOffset[s]
      BY DEF AppendInv
    <3>2. \A x \in file : Apart(x.shard, x.offset, x.size, s, appendOffset[s], n)
      BY <3>1 DEF Apart
    <3>. QED BY <1>1, <2>1, <3>2
  <2>2. CASE u # t
    BY <1>1, <1>3, <1>4, <1>7, <2>2 DEF AppendInv
  <2>. QED BY <2>1, <2>2
<1>8. ASSUME NEW u \in Thread, NEW v \in Thread, u # v,
             pc'[u] = "write", pc'[v] = "write"
      PROVE  Apart(ShardForRow(RowOf(u)'), offset'[u], SizeOf(u)',
                   ShardForRow(RowOf(v)'), offset'[v], SizeOf(v)')
  <2>1. CASE u = t
    BY <1>1, <1>3, <1>4, <1>8, <2>1 DEF AppendInv, Apart
  <2>2. CASE v = t
    BY <1>1, <1>3, <1>4, <1>8, <2>2 DEF AppendInv, Apart
  <2>3. CASE u # t /\ v # t
    BY <1>4, <1>8, <2>3 DEF AppendInv
  <2>. QED BY <2>1, <2>2, <2>3
<1>. QED BY <1>5, <1>6, <1>7, <1>8 DEF AppendInv, ShardForRow

\* The block is written into the range that was reserved for it.
LEMMA WriteBlockAppend ==
  ASSUME TypeOK, AppendInv, NEW t \in Thread, WriteBlock(t),
         \A u \in Thread : u # t => Same(u)
  PROVE  AppendInv'
<1> DEFINE z == NewBlock(t)
<1>1. /\ file' = file \cup {z}
      /\ z.shard = ShardForRow(RowOf(t)) /\ z.offset = offset[t]
      /\ z.size = SizeOf(t)
      /\ SizeOf(t) \in Nat \ {0} /\ offset[t] \in Nat
      /\ pc[t] = "write"
      /\ pc'[t] = "loadState"
      /\ appendOffset' = appendOffset
  BY DEF WriteBlock, NewBlock, Goto, TypeOK, PcType, BlockType, SizeOf
<1>2. \A u \in Thread : pc'[u] = "write" =>
        /\ u # t /\ pc[u] = "write" /\ offset'[u] = offset[u]
        /\ SizeOf(u)' = SizeOf(u) /\ RowOf(u)' = RowOf(u)
  BY <1>1 DEF Same, SizeOf, RowOf
<1>3. \A x \in file : x.offset \in Nat /\ x.size \in Nat
  BY DEF TypeOK, FileType, Block
<1>4. \A x \in file : /\ Apart(x.shard, x.offset, x.size, z.shard, z.offset, z.size)
                      /\ Apart(z.shard, z.offset, z.size, x.shard, x.offset, x.size)
  BY <1>1 DEF AppendInv, Apart
<1>5. \A x \in file' : x.size > 0 /\ x.offset + x.size <= appendOffset'[x.shard]
  BY <1>1 DEF AppendInv
<1>6. \A x, y \in file' :
        x # y => Apart(x.shard, x.offset, x.size, y.shard, y.offset, y.size)
  BY <1>1, <1>4 DEF AppendInv
<1>7. ASSUME NEW u \in Thread, pc'[u] = "write"
      PROVE  /\ offset'[u] + SizeOf(u)' <= appendOffset'[ShardForRow(RowOf(u)')]
             /\ \A x \in file' :
                  Apart(x.shard, x.offset, x.size,
                        ShardForRow(RowOf(u)'), offset'[u], SizeOf(u)')
  BY <1>1, <1>2, <1>7 DEF AppendInv
<1>8. ASSUME NEW u \in Thread, NEW v \in Thread, u # v,
             pc'[u] = "write", pc'[v] = "write"
      PROVE  Apart(ShardForRow(RowOf(u)'), offset'[u], SizeOf(u)',
                   ShardForRow(RowOf(v)'), offset'[v], SizeOf(v)')
  BY <1>2, <1>8 DEF AppendInv
<1>. QED BY <1>5, <1>6, <1>7, <1>8 DEF AppendInv, ShardForRow

\* Two blocks at one place are one block.
LEMMA OneBlock ==
  ASSUME TypeOK, AppendInv, NEW x \in file, NEW y \in file,
         x.shard = y.shard, x.offset = y.offset
  PROVE  x = y
<1>1. x.offset \in Nat /\ x.size \in Nat /\ y.offset \in Nat /\ y.size \in Nat
  BY DEF TypeOK, FileType, Block
<1>2. x.size > 0 /\ y.size > 0
  BY DEF AppendInv
<1>3. x # y => Apart(x.shard, x.offset, x.size, y.shard, y.offset, y.size)
  BY DEF AppendInv
<1>. QED BY <1>1, <1>2, <1>3 DEF Apart

-----------------------------------------------------------------------------
(* What other threads know survives a step.                                *)

\* Blocks stay, buckets keep their rows, Good buckets stay Good, and a bucket
\* being stored is changed by its owner alone: then every thread that does
\* not move keeps its invariant.
LEMMA OtherThread ==
  ASSUME StructureInv, NEW u \in Thread, Same(u), file \subseteq file',
         \A b \in Bucket : holds[b] # NoRow => holds'[b] = holds[b],
         \A b \in Bucket : Good(b) => Good(b)',
         Storing(u) => /\ state'[Here(u)] = state[Here(u)]
                       /\ ident'[Here(u)] = ident[Here(u)]
                       /\ blockOffset'[Here(u)] = blockOffset[Here(u)]
                       /\ blockSize'[Here(u)] = blockSize[Here(u)]
  PROVE  ThreadInv(u)'
<1>1. /\ Here(u)' = Here(u) /\ RowOf(u)' = RowOf(u) /\ SizeOf(u)' = SizeOf(u)
      /\ Storing(u)' = Storing(u)
      /\ pc'[u] = pc[u] /\ snap'[u] = snap[u] /\ offset'[u] = offset[u]
      /\ mode'[u] = mode[u] /\ probe'[u] = probe[u]
  BY DEF Same, Here, RowOf, SizeOf, Storing, Slot
<1>2. ThreadInv(u) /\ TypeOK
  BY DEF StructureInv
<1>3. pc[u] # "idle" => Here(u) \in Bucket /\ RowOf(u) \in Row
  BY <1>2, HereType
<1>4. \A r, o : HasBlock(r, o) => HasBlock(r, o)'
  BY DEF HasBlock, ShardForRow
<1>5. \A r, o, n : HasSized(r, o, n) => HasSized(r, o, n)'
  BY DEF HasSized, ShardForRow
<1>6. ReaderInv(u)'
  BY <1>1, <1>2, <1>3, <1>4 DEF ThreadInv, ReaderInv, Good
<1>7. InsertInv(u)'
  <2>1. pc[u] # "idle" /\ Passed(u) => Passed(u)'
    <3>1. ASSUME pc[u] # "idle", Passed(u), NEW j \in 0 .. probe[u] - 1
          PROVE  holds'[Slot(RowOf(u), j)] \notin {NoRow, RowOf(u)}
      <4>1. j \in Bucket
        BY <1>2, <3>1 DEF TypeOK, WalkType
      <4>. QED BY <1>3, <3>1, <4>1, SlotInTable DEF Passed
    <3>. QED BY <1>1, <3>1 DEF Passed, Slot
  <2>2. HasSized(RowOf(u), offset[u], SizeOf(u)) =>
          HasSized(RowOf(u), offset[u], SizeOf(u))'
    BY <1>1, <1>5
  <2>. QED BY <1>1, <1>2, <2>1, <2>2 DEF ThreadInv, InsertInv
<1>8. StoreInv(u)'
  <2>1. HasSized(RowOf(u), offset[u], SizeOf(u)) =>
          HasSized(RowOf(u), offset[u], SizeOf(u))'
    BY <1>1, <1>5
  <2>2. Storing(u) => holds'[Here(u)] = holds[Here(u)]
    BY <1>2, <1>3 DEF ThreadInv, StoreInv, Storing
  <2>. QED BY <1>1, <1>2, <2>1, <2>2 DEF ThreadInv, StoreInv
<1>. QED BY <1>6, <1>7, <1>8 DEF ThreadInv

-----------------------------------------------------------------------------
(* Steps that leave the buckets alone.                                     *)

\* They keep StructureInv if they keep what it says of the moving thread.
LEMMA QuietStep ==
  ASSUME StructureInv, TypeOK', AppendInv', NEW t \in Thread,
         UNCHANGED bucketVars, file \subseteq file', ~Storing(t), ~Storing(t)',
         ThreadInv(t)', \A u \in Thread : u # t => Same(u)
  PROVE  StructureInv'
<1>1. UNCHANGED <<state, ident, blockOffset, blockSize, holds>>
  BY DEF bucketVars
<1>2. \A b \in Bucket : Good(b) => Good(b)'
  BY <1>1 DEF Good, HasBlock, ShardForRow
<1>3. \A u \in Thread : u # t => ThreadInv(u)'
  BY <1>1, <1>2, OtherThread
<1>4. FilledGood'
  BY <1>1, <1>2 DEF StructureInv, BucketInv, FilledGood, HasSized, ShardForRow
<1>5. EmptyHolds' /\ UniqueRows' /\ ProbePath'
  BY <1>1 DEF StructureInv, BucketInv, EmptyHolds, UniqueRows, ProbePath, Slot
<1>6. \A u \in Thread : /\ Storing(u)' <=> Storing(u)
                        /\ Storing(u) => Here(u)' = Here(u)
  BY DEF Same, Storing, Here, RowOf, Slot
<1>7. OneWriter'
  BY <1>6 DEF StructureInv, BucketInv, OneWriter
<1>8. WritingOwned'
  BY <1>1, <1>6 DEF StructureInv, BucketInv, WritingOwned
<1>. QED BY <1>3, <1>4, <1>5, <1>7, <1>8 DEF StructureInv, BucketInv

\* The block that RowBlockMatches finds is one of the bucket's row, even if
\* offset and size come from two publications.
LEMMA SnapshotRow ==
  ASSUME StructureInv, NEW t \in Thread, pc[t] = "match", NEW x \in Matching(t)
  PROVE  x.row = holds[Here(t)]
<1>1. /\ snap[t].ident = IdentOf[holds[Here(t)]]
      /\ HasBlock(holds[Here(t)], snap[t].offset)
  BY DEF StructureInv, ThreadInv, ReaderInv
<1>2. PICK y \in file : /\ y.shard = ShardForRow(holds[Here(t)])
                       /\ y.offset = snap[t].offset
                       /\ y.row = holds[Here(t)]
  BY <1>1 DEF HasBlock
<1>3. x \in file /\ x.shard = y.shard /\ x.offset = y.offset
  BY <1>1, <1>2 DEF Matching, BlocksAt, ShardForRow
<1>. QED BY <1>2, <1>3, OneBlock DEF StructureInv

\* Passing over a bucket that holds another row.
LEMMA AdvanceThread ==
  ASSUME StructureInv, NEW t \in Thread, Advance(t), pc[t] \in {"recheck", "match"},
         holds[Here(t)] # RowOf(t)
  PROVE  ThreadInv(t)'
<1>1. /\ UNCHANGED <<holds, file>>
      /\ RowOf(t)' = RowOf(t) /\ SizeOf(t)' = SizeOf(t)
      /\ offset'[t] = offset[t] /\ mode'[t] = mode[t]
  BY DEF Advance, bucketVars, fileVars, blockVars, RowOf, SizeOf
<1>2. \/ pc'[t] = "loadState" /\ probe'[t] = probe[t] + 1
      \/ pc'[t] = "return"
  BY DEF Advance, Goto, Decide, StructureInv, TypeOK, PcType, WalkType
<1>3. Good(Here(t)) /\ InsertInv(t)
  BY DEF StructureInv, ThreadInv, ReaderInv
<1>4. probe[t] \in Nat
  BY DEF StructureInv, TypeOK, WalkType
<1>5. ASSUME pc'[t] = "loadState", mode'[t] = "insert"
      PROVE  Passed(t)' /\ HasSized(RowOf(t), offset[t], SizeOf(t))'
  <2>1. Passed(t) /\ HasSized(RowOf(t), offset[t], SizeOf(t))
    BY <1>1, <1>3, <1>5 DEF InsertInv
  <2>2. \A j \in 0 .. probe[t] :
          holds[Slot(RowOf(t), j)] \notin {NoRow, RowOf(t)}
    BY <1>3, <1>4, <2>1 DEF Passed, Good, Here
  <2>3. probe'[t] - 1 = probe[t]
    <3>1. probe'[t] = probe[t] + 1
      BY <1>2, <1>5
    <3>. QED BY <1>4, <3>1
  <2>. QED BY <1>1, <2>1, <2>2, <2>3 DEF Passed, HasSized, ShardForRow, Slot
<1>. QED BY <1>1, <1>2, <1>5 DEF ThreadInv, ReaderInv, InsertInv, StoreInv, Storing

\* Starting over, from the first probe when inserting.
LEMMA RetryThread ==
  ASSUME StructureInv, NEW t \in Thread, Retry(t),
         pc[t] \in {"loadState", "recheck", "claimEmpty", "claimFilled"}
  PROVE  ThreadInv(t)'
<1>1. /\ UNCHANGED file
      /\ RowOf(t)' = RowOf(t) /\ SizeOf(t)' = SizeOf(t)
      /\ offset'[t] = offset[t] /\ mode'[t] = mode[t] /\ pc'[t] = "loadState"
      /\ mode[t] = "insert" => probe'[t] = 0
  BY DEF Retry, Goto, fileVars, blockVars, callVars, RowOf, SizeOf,
     StructureInv, TypeOK, PcType, WalkType
<1>2. mode[t] = "insert" => HasSized(RowOf(t), offset[t], SizeOf(t))
  BY DEF StructureInv, ThreadInv, InsertInv
<1>3. mode[t] = "insert" => Passed(t)'
  BY <1>1 DEF Passed
<1>. QED
  BY <1>1, <1>2, <1>3
     DEF ThreadInv, ReaderInv, InsertInv, StoreInv, Storing, HasSized, ShardForRow

\* Each step of a walk keeps what is known of the walking thread.
LEMMA WalkThread ==
  ASSUME StructureInv, NEW t \in Thread, WalkStep(t), Quiet(t)
  PROVE  ThreadInv(t)'
<1>1. /\ UNCHANGED <<state, ident, blockOffset, blockSize, holds, file>>
  BY DEF Quiet, bucketVars, fileVars
<1>2. ThreadInv(t) /\ TypeOK
  BY DEF StructureInv
<1> DEFINE Still == /\ RowOf(t)' = RowOf(t) /\ SizeOf(t)' = SizeOf(t)
                    /\ offset'[t] = offset[t] /\ mode'[t] = mode[t]
                    /\ probe'[t] = probe[t] /\ Here(t)' = Here(t)
<1>3. ASSUME Still, mode[t] = "insert" => Passed(t)
      PROVE  mode[t] = "insert" => Passed(t)'
  BY <1>1, <1>3 DEF Passed, Slot
<1>4. ASSUME Still, HasSized(RowOf(t), offset[t], SizeOf(t))
      PROVE  HasSized(RowOf(t), offset[t], SizeOf(t))'
  BY <1>1, <1>4 DEF HasSized, ShardForRow
<1>5. Good(Here(t)) /\ Still => Good(Here(t))'
  BY <1>1 DEF Good, HasBlock, ShardForRow
<1>6. CASE InsertSeesEmpty(t)
  <2>1. Still /\ pc'[t] = "claimEmpty" /\ mode[t] = "insert" /\ pc[t] = "loadState"
    BY <1>2, <1>6 DEF InsertSeesEmpty, Goto, TypeOK, PcType, walkVars, blockVars,
       callVars, RowOf, SizeOf, Here, Slot
  <2>2. Passed(t) /\ HasSized(RowOf(t), offset[t], SizeOf(t))
    BY <1>2, <2>1 DEF ThreadInv, InsertInv
  <2>. QED BY <1>3, <1>4, <2>1, <2>2
           DEF ThreadInv, ReaderInv, InsertInv, StoreInv, Storing
<1>7. CASE LoadFilled(t)
  <2>1. Still /\ pc'[t] = "loadIdent" /\ pc[t] = "loadState"
    BY <1>2, <1>7 DEF LoadFilled, Goto, TypeOK, PcType, walkVars, blockVars,
       callVars, RowOf, SizeOf, Here, Slot
  <2>2. Good(Here(t))
    BY <1>2, <1>7, <2>1, HereType DEF LoadFilled, StructureInv, BucketInv, FilledGood
  <2>. QED BY <1>2, <1>3, <1>4, <1>5, <2>1, <2>2
           DEF ThreadInv, ReaderInv, InsertInv, StoreInv, Storing
<1>8. CASE SeeWriting(t)
  BY <1>8, RetryThread DEF SeeWriting
<1>9. CASE ClaimFails(t)
  BY <1>9, RetryThread DEF ClaimFails
<1>10. CASE LoadIdent(t)
  <2>1. /\ Still /\ pc'[t] = "loadOffset" /\ pc[t] = "loadIdent"
        /\ snap'[t].ident = ident[Here(t)]
    BY <1>2, <1>10 DEF LoadIdent, Goto, TypeOK, PcType, WalkType, blockVars,
       callVars, RowOf, SizeOf, Here, Slot
  <2>2. Good(Here(t)) /\ snap'[t].ident = IdentOf[holds'[Here(t)']]
    BY <1>1, <1>2, <2>1 DEF ThreadInv, ReaderInv, Good
  <2>. QED BY <1>2, <1>3, <1>4, <1>5, <2>1, <2>2
           DEF ThreadInv, ReaderInv, InsertInv, StoreInv, Storing
<1>11. CASE LoadOffset(t)
  <2>1. /\ Still /\ pc'[t] = "loadSize" /\ pc[t] = "loadOffset"
        /\ snap'[t].ident = snap[t].ident
        /\ snap'[t].offset = blockOffset[Here(t)]
    BY <1>2, <1>11 DEF LoadOffset, Goto, TypeOK, PcType, WalkType, blockVars,
       callVars, RowOf, SizeOf, Here, Slot
  <2>2. Good(Here(t)) /\ snap'[t].ident = IdentOf[holds'[Here(t)']]
    BY <1>1, <1>2, <2>1 DEF ThreadInv, ReaderInv
  <2>3. HasBlock(holds[Here(t)], snap[t].offset)'
    BY <1>1, <2>1, <2>2 DEF Good, HasBlock, ShardForRow
  <2>. QED BY <1>2, <1>3, <1>4, <1>5, <2>1, <2>2, <2>3
           DEF ThreadInv, ReaderInv, InsertInv, StoreInv, Storing
<1>12. CASE LoadSize(t)
  <2>1. /\ Still /\ pc'[t] = "recheck" /\ pc[t] = "loadSize"
        /\ snap'[t].ident = snap[t].ident
        /\ snap'[t].offset = snap[t].offset
    BY <1>2, <1>12 DEF LoadSize, Goto, TypeOK, PcType, WalkType, blockVars,
       callVars, RowOf, SizeOf, Here, Slot
  <2>2. Good(Here(t)) /\ snap'[t].ident = IdentOf[holds'[Here(t)']]
    BY <1>1, <1>2, <2>1 DEF ThreadInv, ReaderInv
  <2>3. HasBlock(holds[Here(t)], snap[t].offset)'
    BY <1>1, <1>2, <2>1 DEF ThreadInv, ReaderInv, HasBlock, ShardForRow
  <2>. QED BY <1>2, <1>3, <1>4, <1>5, <2>1, <2>2, <2>3
           DEF ThreadInv, ReaderInv, InsertInv, StoreInv, Storing
<1>13. CASE RecheckFilled(t)
  <2>1. /\ Still /\ pc'[t] \in {"match", "loadBlock"} /\ pc[t] = "recheck"
        /\ snap'[t] = snap[t]
    BY <1>2, <1>13 DEF RecheckFilled, Goto, TypeOK, PcType, walkVars, blockVars,
       callVars, RowOf, SizeOf, Here, Slot
  <2>2. Good(Here(t)) /\ snap'[t].ident = IdentOf[holds'[Here(t)']]
    BY <1>1, <1>2, <2>1 DEF ThreadInv, ReaderInv
  <2>3. HasBlock(holds[Here(t)], snap[t].offset)'
    BY <1>1, <1>2, <2>1 DEF ThreadInv, ReaderInv, HasBlock, ShardForRow
  <2>. QED BY <1>2, <1>3, <1>4, <1>5, <2>1, <2>2, <2>3
           DEF ThreadInv, ReaderInv, InsertInv, StoreInv, Storing
<1>14. CASE PassForeignIdent(t)
  <2>1. snap[t].ident = IdentOf[holds[Here(t)]] /\ pc[t] = "recheck"
    BY <1>2, <1>14 DEF PassForeignIdent, ThreadInv, ReaderInv
  <2>2. holds[Here(t)] # RowOf(t)
    BY <1>14, <2>1 DEF PassForeignIdent
  <2>. QED BY <1>14, <2>1, <2>2, AdvanceThread DEF PassForeignIdent
<1>15. CASE MatchForeignColumn(t)
  <2>1. holds[Here(t)] # RowOf(t) /\ pc[t] = "match"
    BY <1>15, SnapshotRow DEF MatchForeignColumn
  <2>. QED BY <1>15, <2>1, AdvanceThread DEF MatchForeignColumn
<1>16. CASE MatchRow(t)
  <2>1. pc[t] = "match" /\ holds[Here(t)] = RowOf(t)
    BY <1>16, SnapshotRow DEF MatchRow
  <2>2. CASE mode[t] = "insert"
    <3>1. Still /\ pc'[t] = "claimFilled"
      BY <1>2, <1>16, <2>2 DEF MatchRow, Goto, TypeOK, PcType, blockVars, callVars,
         RowOf, SizeOf, Here, Slot
    <3>2. Good(Here(t)) /\ holds'[Here(t)'] = RowOf(t)'
      BY <1>1, <1>2, <2>1, <3>1 DEF ThreadInv, ReaderInv
    <3>. QED BY <1>2, <1>3, <1>4, <1>5, <2>1, <2>2, <3>1, <3>2
             DEF ThreadInv, ReaderInv, InsertInv, StoreInv, Storing
  <2>3. CASE mode[t] # "insert"
    <3>1. mode'[t] # "insert" /\ pc'[t] \in {"loadState", "readValue"}
      BY <1>2, <1>16, <2>3 DEF MatchRow, Goto, TypeOK, PcType, WalkType
    <3>. QED BY <3>1 DEF ThreadInv, ReaderInv, InsertInv, StoreInv, Storing
  <2>. QED BY <2>2, <2>3
<1>. QED
  BY <1>6, <1>7, <1>8, <1>9, <1>10, <1>11, <1>12, <1>13, <1>14, <1>15, <1>16
     DEF WalkStep

LEMMA ReserveOffsetStep ==
  ASSUME StructureInv, TypeOK', NEW t \in Thread, ReserveOffset(t),
         \A u \in Thread : u # t => Same(u)
  PROVE  StructureInv'
<1>1. /\ pc[t] = "append" /\ pc'[t] = "write"
      /\ UNCHANGED bucketVars /\ file' = file
  BY DEF ReserveOffset, Goto, StructureInv, TypeOK, PcType
<1>2. ThreadInv(t)'
  BY <1>1 DEF ThreadInv, ReaderInv, InsertInv, StoreInv, Storing
<1>3. AppendInv'
  BY ReserveOffsetAppend DEF StructureInv
<1>. QED BY <1>1, <1>2, <1>3, QuietStep DEF Storing

LEMMA WriteBlockStep ==
  ASSUME StructureInv, TypeOK', NEW t \in Thread, WriteBlock(t),
         \A u \in Thread : u # t => Same(u)
  PROVE  StructureInv'
<1>1. /\ pc[t] = "write" /\ pc'[t] = "loadState" /\ probe'[t] = 0
      /\ UNCHANGED bucketVars /\ file' = file \cup {NewBlock(t)}
      /\ RowOf(t)' = RowOf(t) /\ SizeOf(t)' = SizeOf(t) /\ offset'[t] = offset[t]
  BY DEF WriteBlock, Goto, StructureInv, TypeOK, PcType, WalkType, blockVars,
     callVars, RowOf, SizeOf
<1>2. HasSized(RowOf(t), offset[t], SizeOf(t))'
  <2>1. \E x \in file' : /\ x.shard = ShardForRow(RowOf(t)) /\ x.offset = offset[t]
                         /\ x.row = RowOf(t) /\ x.size = SizeOf(t)
    <3>1. NewBlock(t) \in file'
      BY <1>1
    <3>2. /\ NewBlock(t).shard = ShardForRow(RowOf(t))
          /\ NewBlock(t).offset = offset[t]
          /\ NewBlock(t).row = RowOf(t) /\ NewBlock(t).size = SizeOf(t)
      BY DEF NewBlock, SizeOf
    <3>. QED BY <3>1, <3>2
  <2>2. ShardForRow(RowOf(t))' = ShardForRow(RowOf(t))
    BY <1>1 DEF ShardForRow
  <2>. QED BY <1>1, <2>1, <2>2 DEF HasSized
<1>3. ThreadInv(t)'
  BY <1>1, <1>2 DEF ThreadInv, ReaderInv, InsertInv, Passed, StoreInv, Storing
<1>4. AppendInv'
  BY WriteBlockAppend DEF StructureInv
<1>. QED BY <1>1, <1>3, <1>4, QuietStep DEF Storing

-----------------------------------------------------------------------------
(* Claiming a bucket.                                                      *)

\* The heart of UniqueRows: the row that a thread inserts at the empty bucket
\* where its walk stands is in no bucket.  A bucket of that row before this
\* one would have stopped the walk; one after it would have an empty bucket
\* on its probe path.
LEMMA RowAbsent ==
  ASSUME StructureInv, NEW t \in Thread, pc[t] # "idle", Passed(t),
         state[Here(t)] = "Empty", NEW c \in Bucket
  PROVE  holds[c] # RowOf(t)
<1>1. /\ RowOf(t) \in Row /\ RowOf(t) # NoRow /\ Here(t) \in Bucket
      /\ probe[t] \in Bucket
  BY HereType DEF StructureInv, TypeOK, WalkType
<1>2. SUFFICES ASSUME holds[c] = RowOf(t) PROVE FALSE
  OBVIOUS
<1>3. PICK k \in Bucket :
        /\ c = Slot(RowOf(t), k)
        /\ \A j \in 0 .. k - 1 : state[Slot(RowOf(t), j)] # "Empty"
  BY <1>1, <1>2 DEF StructureInv, BucketInv, ProbePath
<1>4. CASE k < probe[t]
  <2>1. k \in 0 .. probe[t] - 1
    BY <1>1, <1>4
  <2>. QED BY <1>2, <1>3, <2>1 DEF Passed
<1>5. CASE k = probe[t]
  BY <1>1, <1>2, <1>3, <1>5 DEF StructureInv, BucketInv, EmptyHolds, Here
<1>6. CASE k > probe[t]
  <2>1. probe[t] \in 0 .. k - 1
    BY <1>1, <1>3, <1>6
  <2>. QED BY <1>3, <2>1 DEF Here
<1>. QED BY <1>1, <1>4, <1>5, <1>6

LEMMA RowIsNew ==
  ASSUME StructureInv, NEW t \in Thread, pc[t] = "claimEmpty",
         state[Here(t)] = "Empty", NEW c \in Bucket
  PROVE  holds[c] # RowOf(t)
<1>1. Passed(t)
  BY DEF StructureInv, ThreadInv, InsertInv
<1>. QED BY <1>1, RowAbsent

LEMMA ClaimEmptyStep ==
  ASSUME StructureInv, TypeOK', NEW t \in Thread, ClaimEmpty(t),
         \A u \in Thread : u # t => Same(u)
  PROVE  StructureInv'
<1> DEFINE b == Here(t)
           r == RowOf(t)
<1>1. /\ b \in Bucket /\ r \in Row /\ r # NoRow
      /\ pc[t] = "claimEmpty" /\ state[b] = "Empty"
  BY HereType DEF ClaimEmpty, StructureInv
<1>2. /\ state' = [state EXCEPT ![b] = "Writing"]
      /\ holds' = [holds EXCEPT ![b] = r]
      /\ UNCHANGED <<ident, blockOffset, blockSize, file>>
      /\ UNCHANGED fileVars
      /\ pc'[t] = "storeIdent"
      /\ Here(t)' = b /\ RowOf(t)' = r /\ SizeOf(t)' = SizeOf(t)
      /\ offset'[t] = offset[t]
  BY DEF ClaimEmpty, Goto, StructureInv, TypeOK, PcType, fileVars, walkVars,
     blockVars, RowOf, SizeOf, Here, Slot
<1>3. /\ state'[b] = "Writing" /\ holds'[b] = r
      /\ \A c \in Bucket : c # b => state'[c] = state[c] /\ holds'[c] = holds[c]
  BY <1>1, <1>2 DEF StructureInv, TypeOK, BucketType
<1>4. holds[b] = NoRow
  BY <1>1 DEF StructureInv, BucketInv, EmptyHolds
<1>5. \A c \in Bucket : Good(c) => Good(c)'
  BY <1>2, <1>3, <1>4 DEF Good, HasBlock, ShardForRow
<1>6. \A u \in Thread : Storing(u) => u # t /\ Here(u) # b /\ Here(u) \in Bucket
  BY <1>1, HereType DEF StructureInv, ThreadInv, StoreInv, Storing
<1>7. \A u \in Thread : u # t => ThreadInv(u)'
  BY <1>2, <1>3, <1>4, <1>5, <1>6, OtherThread
<1>8. ThreadInv(t)'
  <2>1. HasSized(RowOf(t), offset[t], SizeOf(t))
    BY <1>1 DEF StructureInv, ThreadInv, InsertInv
  <2>2. HasSized(RowOf(t), offset[t], SizeOf(t))'
    BY <1>2, <2>1 DEF HasSized, ShardForRow
  <2>. QED BY <1>2, <1>3, <2>2 DEF ThreadInv, ReaderInv, InsertInv, StoreInv, Storing
<1>9. EmptyHolds'
  BY <1>1, <1>3 DEF StructureInv, BucketInv, EmptyHolds
<1>10. FilledGood'
  BY <1>2, <1>3, <1>5 DEF StructureInv, BucketInv, FilledGood, HasSized, ShardForRow
<1>11. \A u \in Thread : u # t => /\ Storing(u)' <=> Storing(u)
                                 /\ Here(u)' = Here(u)
  BY DEF Same, Storing, Here, RowOf, Slot
<1>12. OneWriter'
  BY <1>2, <1>6, <1>11 DEF StructureInv, BucketInv, OneWriter
<1>13. WritingOwned'
  <2>1. Storing(t)'
    BY <1>2 DEF Storing
  <2>. QED BY <1>2, <1>3, <1>6, <1>11, <2>1 DEF StructureInv, BucketInv, WritingOwned
<1>14. UniqueRows'
  BY <1>1, <1>3, RowIsNew DEF StructureInv, BucketInv, UniqueRows
<1>15. ProbePath'
  <2>1. \A c \in Bucket : state[c] # "Empty" => state'[c] # "Empty"
    BY <1>3
  <2>2. ASSUME NEW c \in Bucket, holds'[c] # NoRow
        PROVE  \E k \in Bucket :
                 /\ c = Slot(holds'[c], k)
                 /\ \A j \in 0 .. k - 1 : state'[Slot(holds'[c], j)] # "Empty"
    <3>1. CASE c = b
      <4>1. probe[t] \in Bucket /\ Passed(t)
        BY <1>1 DEF StructureInv, TypeOK, WalkType, ThreadInv, InsertInv
      <4>2. \A j \in 0 .. probe[t] - 1 : state'[Slot(r, j)] # "Empty"
        <5>1. \A j \in 0 .. probe[t] - 1 : j \in Bucket
          BY <4>1
        <5>2. \A j \in 0 .. probe[t] - 1 : Slot(r, j) \in Bucket
          BY <1>1, <5>1, SlotInTable
        <5>. QED BY <2>1, <4>1, <5>2
                 DEF Passed, StructureInv, BucketInv, EmptyHolds
      <4>3. b = Slot(r, probe[t])
        BY DEF Here
      <4>. QED BY <1>3, <3>1, <4>1, <4>2, <4>3
    <3>2. CASE c # b
      <4>1. holds'[c] = holds[c] /\ holds[c] \in Row
        BY <1>3, <2>2, <3>2 DEF StructureInv, TypeOK, BucketType
      <4>2. PICK k \in Bucket :
              /\ c = Slot(holds[c], k)
              /\ \A j \in 0 .. k - 1 : state[Slot(holds[c], j)] # "Empty"
        BY <2>2, <4>1 DEF StructureInv, BucketInv, ProbePath
      <4>3. \A j \in 0 .. k - 1 : Slot(holds[c], j) \in Bucket
        <5>1. \A j \in 0 .. k - 1 : j \in Bucket
          BY <4>2
        <5>. QED BY <4>1, <5>1, SlotInTable
      <4>. QED BY <2>1, <4>1, <4>2, <4>3
    <3>. QED BY <3>1, <3>2
  <2>. QED BY <2>2 DEF ProbePath, Slot
<1>16. AppendInv'
  BY <1>2, QuietAppend DEF StructureInv
<1>. QED
  BY <1>7, <1>8, <1>9, <1>10, <1>12, <1>13, <1>14, <1>15, <1>16
     DEF StructureInv, BucketInv

-----------------------------------------------------------------------------
(* Replacing: the owner of a bucket changes it, and nobody else's.         *)

\* Thread t changes the fields of a bucket b that holds a row and that no
\* other thread is storing to.
LEMMA OwnerStep ==
  ASSUME StructureInv, TypeOK', NEW t \in Thread, NEW b \in Bucket,
         \A u \in Thread : u # t => Same(u),
         UNCHANGED <<holds, fileVars>>, pc'[t] # "write",
         holds[b] # NoRow, state'[b] # "Empty",
         \A c \in Bucket : c # b =>
           /\ state'[c] = state[c] /\ ident'[c] = ident[c]
           /\ blockOffset'[c] = blockOffset[c] /\ blockSize'[c] = blockSize[c],
         \A u \in Thread : u # t /\ Storing(u) => Here(u) # b,
         Storing(t) => Here(t) = b,
         Storing(t)' => Here(t)' = b,
         state'[b] = "Writing" => Storing(t)',
         Good(b) => Good(b)',
         state'[b] = "Filled" =>
           Good(b)' /\ HasSized(holds[b], blockOffset[b], blockSize[b])',
         ThreadInv(t)'
  PROVE  StructureInv'
<1>1. UNCHANGED <<appendOffset, file>>
  BY DEF fileVars
<1>2. \A c \in Bucket : Good(c) => Good(c)'
  BY <1>1 DEF Good, HasBlock, ShardForRow
<1>3. \A u \in Thread : Storing(u) => Here(u) \in Bucket
  BY HereType DEF StructureInv, Storing
<1>4. \A u \in Thread : u # t => ThreadInv(u)'
  BY <1>1, <1>2, <1>3, OtherThread
<1>5. EmptyHolds'
  BY DEF StructureInv, BucketInv, EmptyHolds
<1>6. FilledGood'
  <2>1. ASSUME NEW c \in Bucket, c # b, state'[c] = "Filled"
        PROVE  Good(c)' /\ HasSized(holds[c], blockOffset[c], blockSize[c])'
    <3>1. Good(c) /\ HasSized(holds[c], blockOffset[c], blockSize[c])
      BY <2>1 DEF StructureInv, BucketInv, FilledGood
    <3>. QED BY <1>1, <1>2, <2>1, <3>1 DEF HasSized, ShardForRow
  <2>. QED BY <2>1 DEF FilledGood
<1>7. \A u \in Thread : u # t => /\ Storing(u)' <=> Storing(u)
                                /\ Here(u)' = Here(u)
  BY DEF Same, Storing, Here, RowOf, Slot
<1>8. OneWriter'
  BY <1>7 DEF StructureInv, BucketInv, OneWriter
<1>9. WritingOwned'
  <2>1. ASSUME NEW c \in Bucket, c # b, state'[c] = "Writing"
        PROVE  \E u \in Thread : Storing(u)' /\ Here(u)' = c
    <3>1. PICK u \in Thread : Storing(u) /\ Here(u) = c
      BY <2>1 DEF StructureInv, BucketInv, WritingOwned
    <3>2. u # t
      BY <2>1, <3>1
    <3>. QED BY <1>7, <3>1, <3>2
  <2>. QED BY <2>1 DEF WritingOwned
<1>10. UniqueRows'
  BY DEF StructureInv, BucketInv, UniqueRows
<1>11. ProbePath'
  <2>1. \A c \in Bucket : state[c] # "Empty" => state'[c] # "Empty"
    OBVIOUS
  <2>2. ASSUME NEW c \in Bucket, holds[c] # NoRow
        PROVE  \E k \in Bucket :
                 /\ c = Slot(holds[c], k)
                 /\ \A j \in 0 .. k - 1 : state'[Slot(holds[c], j)] # "Empty"
    <3>1. holds[c] \in Row
      BY <2>2 DEF StructureInv, TypeOK, BucketType
    <3>2. PICK k \in Bucket :
            /\ c = Slot(holds[c], k)
            /\ \A j \in 0 .. k - 1 : state[Slot(holds[c], j)] # "Empty"
      BY <2>2 DEF StructureInv, BucketInv, ProbePath
    <3>3. \A j \in 0 .. k - 1 : Slot(holds[c], j) \in Bucket
      <4>1. \A j \in 0 .. k - 1 : j \in Bucket
        BY <3>2
      <4>. QED BY <3>1, <4>1, SlotInTable
    <3>. QED BY <2>1, <3>2, <3>3
  <2>. QED BY <2>2 DEF ProbePath, Slot
<1>12. AppendInv'
  BY QuietAppend DEF StructureInv
<1>. QED
  BY <1>4, <1>5, <1>6, <1>8, <1>9, <1>10, <1>11, <1>12
     DEF StructureInv, BucketInv

\* What the owner of a bucket knows of it before each of its stores.
LEMMA Owner ==
  ASSUME StructureInv, NEW t \in Thread, Storing(t)
  PROVE  /\ Here(t) \in Bucket /\ RowOf(t) \in Row /\ RowOf(t) # NoRow
         /\ state[Here(t)] = "Writing" /\ holds[Here(t)] = RowOf(t)
         /\ HasSized(RowOf(t), offset[t], SizeOf(t))
         /\ HasBlock(RowOf(t), offset[t])
         /\ \A u \in Thread : u # t /\ Storing(u) => Here(u) # Here(t)
<1>1. pc[t] # "idle"
  BY DEF Storing
<1>2. HasSized(RowOf(t), offset[t], SizeOf(t))
  BY DEF StructureInv, ThreadInv, StoreInv
<1>3. HasBlock(RowOf(t), offset[t])
  BY <1>2 DEF HasSized, HasBlock
<1>. QED BY <1>1, <1>2, <1>3, HereType
         DEF StructureInv, ThreadInv, StoreInv, BucketInv, OneWriter

LEMMA ClaimFilledStep ==
  ASSUME StructureInv, TypeOK', NEW t \in Thread, ClaimFilled(t),
         \A u \in Thread : u # t => Same(u)
  PROVE  StructureInv'
<1> DEFINE b == Here(t)
           r == RowOf(t)
<1>1. /\ b \in Bucket /\ r \in Row /\ r # NoRow
      /\ pc[t] = "claimFilled" /\ state[b] = "Filled" /\ holds[b] = r
  BY HereType DEF ClaimFilled, StructureInv, ThreadInv, ReaderInv
<1>2. /\ state' = [state EXCEPT ![b] = "Writing"]
      /\ UNCHANGED <<ident, blockOffset, blockSize, holds, fileVars, file>>
      /\ pc'[t] = "storeIdent"
      /\ Here(t)' = b /\ RowOf(t)' = r /\ SizeOf(t)' = SizeOf(t)
      /\ offset'[t] = offset[t]
  BY DEF ClaimFilled, Goto, StructureInv, TypeOK, PcType, fileVars, walkVars,
     blockVars, RowOf, SizeOf, Here, Slot
<1>3. /\ state'[b] = "Writing"
      /\ \A c \in Bucket : c # b => state'[c] = state[c]
  BY <1>1, <1>2 DEF StructureInv, TypeOK, BucketType
<1>4. Good(b) => Good(b)'
  BY <1>2 DEF Good, HasBlock, ShardForRow
<1>5. \A u \in Thread : Storing(u) => Here(u) # b
  BY <1>1 DEF StructureInv, ThreadInv, StoreInv
<1>6. ThreadInv(t)'
  <2>1. HasSized(RowOf(t), offset[t], SizeOf(t))
    BY <1>1 DEF StructureInv, ThreadInv, InsertInv
  <2>2. HasSized(RowOf(t), offset[t], SizeOf(t))'
    BY <1>2, <2>1 DEF HasSized, ShardForRow
  <2>. QED BY <1>1, <1>2, <1>3, <2>2
           DEF ThreadInv, ReaderInv, InsertInv, StoreInv, Storing
<1>7. ~Storing(t) /\ Storing(t)'
  BY <1>1, <1>2 DEF Storing
<1>. QED BY <1>1, <1>2, <1>3, <1>4, <1>5, <1>6, <1>7, OwnerStep

LEMMA StoreIdentStep ==
  ASSUME StructureInv, TypeOK', NEW t \in Thread, StoreIdent(t),
         \A u \in Thread : u # t => Same(u)
  PROVE  StructureInv'
<1> DEFINE b == Here(t)
           r == RowOf(t)
<1>1. pc[t] = "storeIdent" /\ Storing(t)
  BY DEF StoreIdent, Storing
<1>2. /\ ident' = [ident EXCEPT ![b] = IdentOf[r]]
      /\ UNCHANGED <<state, blockOffset, blockSize, holds, fileVars, file>>
      /\ pc'[t] = "storeOffset" /\ Storing(t)'
      /\ Here(t)' = b /\ RowOf(t)' = r /\ SizeOf(t)' = SizeOf(t)
      /\ offset'[t] = offset[t]
  BY DEF StoreIdent, Goto, StructureInv, TypeOK, PcType, fileVars, walkVars,
     blockVars, callVars, RowOf, SizeOf, Here, Slot, Storing
<1>3. /\ ident'[b] = IdentOf[r]
      /\ \A c \in Bucket : c # b => ident'[c] = ident[c]
  BY <1>1, <1>2, Owner DEF StructureInv, TypeOK, BucketType
<1>4. Good(b) => Good(b)'
  BY <1>1, <1>2, <1>3, Owner DEF Good, HasBlock, ShardForRow
<1>5. ThreadInv(t)'
  <2>1. HasSized(RowOf(t), offset[t], SizeOf(t))'
    BY <1>1, <1>2, Owner DEF HasSized, ShardForRow
  <2>. QED BY <1>1, <1>2, <1>3, <2>1, Owner
           DEF ThreadInv, ReaderInv, InsertInv, StoreInv, Storing
<1>. QED BY <1>1, <1>2, <1>3, <1>4, <1>5, Owner, OwnerStep

LEMMA StoreOffsetStep ==
  ASSUME StructureInv, TypeOK', NEW t \in Thread, StoreOffset(t),
         \A u \in Thread : u # t => Same(u)
  PROVE  StructureInv'
<1> DEFINE b == Here(t)
           r == RowOf(t)
<1>1. /\ pc[t] = "storeOffset" /\ Storing(t)
      /\ ident[b] = IdentOf[r]
  BY DEF StoreOffset, Storing, StructureInv, ThreadInv, StoreInv
<1>2. /\ blockOffset' = [blockOffset EXCEPT ![b] = offset[t]]
      /\ UNCHANGED <<state, ident, blockSize, holds, fileVars, file>>
      /\ pc'[t] = "storeSize" /\ Storing(t)'
      /\ Here(t)' = b /\ RowOf(t)' = r /\ SizeOf(t)' = SizeOf(t)
      /\ offset'[t] = offset[t]
  BY DEF StoreOffset, Goto, StructureInv, TypeOK, PcType, fileVars, walkVars,
     blockVars, callVars, RowOf, SizeOf, Here, Slot, Storing
<1>3. /\ blockOffset'[b] = offset[t]
      /\ \A c \in Bucket : c # b => blockOffset'[c] = blockOffset[c]
  BY <1>1, <1>2, Owner DEF StructureInv, TypeOK, BucketType
<1>4. Good(b) => Good(b)'
  <2>1. HasBlock(holds[b], blockOffset[b])'
    BY <1>1, <1>2, <1>3, Owner DEF HasBlock, ShardForRow
  <2>. QED BY <1>1, <1>2, <2>1 DEF Good
<1>5. ThreadInv(t)'
  <2>1. HasSized(RowOf(t), offset[t], SizeOf(t))'
    BY <1>1, <1>2, Owner DEF HasSized, ShardForRow
  <2>. QED BY <1>1, <1>2, <1>3, <2>1, Owner
           DEF ThreadInv, ReaderInv, InsertInv, StoreInv, Storing
<1>. QED BY <1>1, <1>2, <1>3, <1>4, <1>5, Owner, OwnerStep

LEMMA StoreSizeStep ==
  ASSUME StructureInv, TypeOK', NEW t \in Thread, StoreSize(t),
         \A u \in Thread : u # t => Same(u)
  PROVE  StructureInv'
<1> DEFINE b == Here(t)
           r == RowOf(t)
<1>1. /\ pc[t] = "storeSize" /\ Storing(t)
      /\ ident[b] = IdentOf[r] /\ blockOffset[b] = offset[t]
  BY DEF StoreSize, Storing, StructureInv, ThreadInv, StoreInv
<1>2. /\ blockSize' = [blockSize EXCEPT ![b] = SizeOf(t)]
      /\ UNCHANGED <<state, ident, blockOffset, holds, fileVars, file>>
      /\ pc'[t] = "publish" /\ Storing(t)'
      /\ Here(t)' = b /\ RowOf(t)' = r /\ SizeOf(t)' = SizeOf(t)
      /\ offset'[t] = offset[t]
  BY DEF StoreSize, Goto, StructureInv, TypeOK, PcType, fileVars, walkVars,
     blockVars, callVars, RowOf, SizeOf, Here, Slot, Storing
<1>3. /\ blockSize'[b] = SizeOf(t)
      /\ \A c \in Bucket : c # b => blockSize'[c] = blockSize[c]
  BY <1>1, <1>2, Owner DEF StructureInv, TypeOK, BucketType
<1>4. Good(b) => Good(b)'
  BY <1>2 DEF Good, HasBlock, ShardForRow
<1>5. ThreadInv(t)'
  <2>1. HasSized(RowOf(t), offset[t], SizeOf(t))'
    BY <1>1, <1>2, Owner DEF HasSized, ShardForRow
  <2>. QED BY <1>1, <1>2, <1>3, <2>1, Owner
           DEF ThreadInv, ReaderInv, InsertInv, StoreInv, Storing
<1>. QED BY <1>1, <1>2, <1>3, <1>4, <1>5, Owner, OwnerStep

\* The publishing store finds all fields in place.
LEMMA PublishBucketStep ==
  ASSUME StructureInv, TypeOK', NEW t \in Thread, PublishBucket(t),
         \A u \in Thread : u # t => Same(u)
  PROVE  StructureInv'
<1> DEFINE b == Here(t)
           r == RowOf(t)
<1>1. /\ pc[t] = "publish" /\ Storing(t)
      /\ ident[b] = IdentOf[r] /\ blockOffset[b] = offset[t]
      /\ blockSize[b] = SizeOf(t)
  BY DEF PublishBucket, Storing, StructureInv, ThreadInv, StoreInv
<1>2. /\ state' = [state EXCEPT ![b] = "Filled"]
      /\ UNCHANGED <<ident, blockOffset, blockSize, holds, fileVars, file>>
      /\ Here(t)' = b
  BY DEF PublishBucket, fileVars, walkVars, RowOf, Here, Slot
<1>3. pc'[t] \in {"count", "return"}
  BY DEF PublishBucket, Goto, Decide, StructureInv, TypeOK, PcType
<1>4. /\ state'[b] = "Filled"
      /\ \A c \in Bucket : c # b => state'[c] = state[c]
  BY <1>1, <1>2, Owner DEF StructureInv, TypeOK, BucketType
<1>5. Good(b)
  BY <1>1, Owner DEF Good
<1>6. HasSized(holds[b], blockOffset[b], blockSize[b])
  BY <1>1, Owner
<1>7. Good(b)'
  BY <1>2, <1>5 DEF Good, HasBlock, ShardForRow
<1>8. HasSized(holds[b], blockOffset[b], blockSize[b])'
  BY <1>2, <1>6 DEF HasSized, ShardForRow
<1>9. ThreadInv(t)'
  BY <1>3 DEF ThreadInv, ReaderInv, InsertInv, StoreInv, Storing
<1>10. ~Storing(t)'
  BY <1>3 DEF Storing
<1>. QED BY <1>1, <1>2, <1>3, <1>4, <1>7, <1>8, <1>9, <1>10, Owner, OwnerStep

-----------------------------------------------------------------------------
(* StructureInv is inductive.                                              *)

LEMMA InitStructure == Init => StructureInv
<1> SUFFICES ASSUME Init PROVE StructureInv
  OBVIOUS
<1>1. TypeOK
  BY InitTypeOK
<1>2. AppendInv
  BY DEF Init, AppendInv
<1>3. BucketInv
  BY DEF Init, BucketInv, EmptyHolds, FilledGood, OneWriter, WritingOwned,
     UniqueRows, ProbePath, Storing
<1>4. \A t \in Thread : ThreadInv(t)
  BY DEF Init, ThreadInv, ReaderInv, InsertInv, StoreInv, Storing
<1>. QED BY <1>1, <1>2, <1>3, <1>4 DEF StructureInv

LEMMA StepStructure ==
  ASSUME StructureInv, NEW t \in Thread, Step(t)
  PROVE  StructureInv'
<1>1. TypeOK
  BY DEF StructureInv
<1>2. TypeOK' /\ \A u \in Thread : u # t => Same(u)
  BY <1>1, StepTypeOK, StepOthers
<1>3. CASE Quiet(t) /\ (pc'[t] \in Aside \/ WalkStep(t))
  <2>1. UNCHANGED bucketVars /\ file \subseteq file'
    BY <1>3 DEF Quiet, fileVars
  <2>2. AppendInv'
    BY <1>2, <1>3, QuietAppend DEF StructureInv, Quiet
  <2>3. ThreadInv(t)'
    <3>1. CASE pc'[t] \in Aside
      BY <3>1 DEF Aside, ThreadInv, ReaderInv, InsertInv, StoreInv, Storing
    <3>. QED BY <1>3, <3>1, WalkThread
  <2>. QED BY <1>2, <1>3, <2>1, <2>2, <2>3, QuietStep DEF Quiet
<1>4. CASE SharedStep(t)
  BY <1>2, <1>4, ReserveOffsetStep, WriteBlockStep, ClaimEmptyStep,
     ClaimFilledStep, StoreIdentStep, StoreOffsetStep, StoreSizeStep,
     PublishBucketStep DEF SharedStep
<1>. QED BY <1>1, <1>3, <1>4, StepKinds

LEMMA CallStructure ==
  ASSUME StructureInv, NEW t \in Thread, Call(t)
  PROVE  StructureInv'
<1>1. TypeOK
  BY DEF StructureInv
<1>2. TypeOK'
  BY <1>1, CallTypeOK
<1>3. /\ Quiet(t) /\ pc'[t] \in {"loadItems", "loadState"} /\ mode'[t] = "find"
      /\ \A u \in Thread : u # t => Same(u)
  BY <1>1, CallQuiet
<1>4. UNCHANGED bucketVars /\ file \subseteq file'
  BY <1>3 DEF Quiet, fileVars
<1>5. AppendInv'
  BY <1>3, QuietAppend DEF StructureInv, Quiet
<1>6. ThreadInv(t)'
  BY <1>3 DEF ThreadInv, ReaderInv, InsertInv, StoreInv, Storing
<1>. QED BY <1>2, <1>3, <1>4, <1>5, <1>6, QuietStep DEF Quiet

LEMMA StutterStructure ==
  ASSUME StructureInv, UNCHANGED vars
  PROVE  StructureInv'
<1>1. UNCHANGED <<state, ident, blockOffset, blockSize, holds, appendOffset,
                  file, pc, call, mode, probe, snap, entries, offset>>
  BY DEF vars, bucketVars, fileVars, walkVars, blockVars, callVars
<1>2. TypeOK'
  <2>1. PcType'
    BY <1>1 DEF StructureInv, TypeOK, PcType, RowOf
  <2>. QED BY <1>1, <2>1, Frames DEF StructureInv, TypeOK, vars, callVars
<1>3. \A u \in Thread : Same(u)
  BY <1>1 DEF Same
<1>4. \A c \in Bucket : Good(c) => Good(c)'
  BY <1>1 DEF Good, HasBlock, ShardForRow
<1>5. \A u \in Thread : ThreadInv(u)'
  BY <1>1, <1>3, <1>4, OtherThread
<1>6. AppendInv'
  BY <1>1 DEF StructureInv, AppendInv, SizeOf, RowOf, ShardForRow
<1>7. EmptyHolds' /\ UniqueRows' /\ ProbePath'
  BY <1>1 DEF StructureInv, BucketInv, EmptyHolds, UniqueRows, ProbePath, Slot
<1>8. FilledGood'
  BY <1>1, <1>4 DEF StructureInv, BucketInv, FilledGood, HasSized, ShardForRow
<1>9. OneWriter' /\ WritingOwned'
  <2>1. \A u \in Thread : /\ Storing(u)' <=> Storing(u)
                          /\ Here(u)' = Here(u)
    BY <1>1 DEF Storing, Here, RowOf, Slot
  <2>. QED BY <1>1, <2>1 DEF StructureInv, BucketInv, OneWriter, WritingOwned
<1>. QED BY <1>2, <1>5, <1>6, <1>7, <1>8, <1>9 DEF StructureInv, BucketInv

\* The structural invariant of the row index: InsertOrUpdateRowBucket and its
\* callers keep it through every interleaving of any number of threads.
THEOREM StructureHolds == Spec => []StructureInv
<1>1. StructureInv /\ [Next]_vars => StructureInv'
  BY StepStructure, CallStructure, StutterStructure DEF Next, AllReturned
<1>. QED BY <1>1, InitStructure, PTL DEF Spec

\* No row is ever in two buckets: the claim of an empty bucket by
\* InsertOrUpdateRowBucket never duplicates a row.
THEOREM RowsAreUnique == Spec => []UniqueRows
<1>1. StructureInv => UniqueRows
  BY DEF StructureInv, BucketInv
<1>. QED BY <1>1, StructureHolds, PTL

\* FindRowBucket, which stops at the first empty bucket, reaches every row.
THEOREM RowsAreReachable == Spec => []ProbePath
<1>1. StructureInv => ProbePath
  BY DEF StructureInv, BucketInv
<1>. QED BY <1>1, StructureHolds, PTL

\* A bucket in state Writing has one owner, and an owner's bucket is Writing:
\* two StoreRowBucketData never overlap.
THEOREM WritersExclude == Spec => []ExclusiveWriter
<1>1. StructureInv => ExclusiveWriter
  <2> SUFFICES ASSUME StructureInv, NEW b \in Bucket
               PROVE  LET W == {t \in Thread : Storing(t) /\ Here(t) = b} IN
                      /\ \A t, u \in W : t = u
                      /\ state[b] = "Writing" <=> W # {}
    BY DEF ExclusiveWriter
  <2> DEFINE W == {t \in Thread : Storing(t) /\ Here(t) = b}
  <2>1. \A t, u \in W : t = u
    BY DEF StructureInv, BucketInv, OneWriter
  <2>2. state[b] = "Writing" => W # {}
    BY DEF StructureInv, BucketInv, WritingOwned
  <2>3. W # {} => state[b] = "Writing"
    BY DEF StructureInv, ThreadInv, StoreInv
  <2>. QED BY <2>1, <2>2, <2>3
<1>. QED BY <1>1, StructureHolds, PTL

\* What the publishing store of InsertOrUpdateRowBucket makes visible is one
\* complete block of the bucket's row, with the offset and size it has.
THEOREM PublishedIsComplete == Spec => []PublishedComplete
<1>1. StructureInv => PublishedComplete
  <2> SUFFICES ASSUME StructureInv, NEW b \in Bucket, state[b] = "Filled"
               PROVE  /\ ident[b] = IdentOf[holds[b]]
                      /\ \E x \in BlocksAt(ShardForRow(holds[b]), blockOffset[b]) :
                           x.row = holds[b] /\ x.size = blockSize[b]
    BY DEF PublishedComplete
  <2>1. Good(b) /\ HasSized(holds[b], blockOffset[b], blockSize[b])
    BY DEF StructureInv, BucketInv, FilledGood
  <2>. QED BY <2>1 DEF Good, HasSized, BlocksAt
<1>. QED BY <1>1, StructureHolds, PTL

\* The offsets that fetch_add hands out keep the blocks of a shard apart.
THEOREM BlocksKeepApart == Spec => []BlocksDisjoint
<1>1. StructureInv => BlocksDisjoint
  BY DEF StructureInv, AppendInv, Apart, BlocksDisjoint
<1>. QED BY <1>1, StructureHolds, PTL

-----------------------------------------------------------------------------
(* The counters of the row index: itemCount and rowPendingInsertCount_     *)
(* against the buckets in use and the threads that hold a reservation, and *)
(* how far the load-factor test can be overrun.                            *)

Walking == {"loadState", "loadIdent", "loadOffset", "loadSize", "recheck",
            "match", "claimEmpty", "claimFilled"}

\* The row has a bucket.  Buckets are never given back.
Exists(r) == \E b \in Bucket : holds[b] = r

\* Where a thread may hold a slot, and why a thread without one finds its row:
\* it has seen the row's bucket.
SlotInv(t) ==
  /\ reserved[t] => \/ pc[t] \in {"sequence", "append", "write", "count", "return"}
                    \/ Storing(t)
                    \/ pc[t] \in Walking /\ mode[t] = "insert"
  /\ inserted[t] => reserved[t] /\ (Storing(t) \/ pc[t] = "count")
  /\ pc[t] = "count" => inserted[t]
  /\ pc[t] \in {"sequence", "append", "write"} => reserved[t] \/ Exists(RowOf(t))
  /\ pc[t] \in Walking /\ mode[t] = "insert" => reserved[t] \/ Exists(RowOf(t))
  /\ pc[t] \in Walking \cup {"loadBlock"} /\ mode[t] = "load" => Exists(RowOf(t))
  /\ pc[t] = "loadBlock" => mode[t] = "load"

Reserved  == {t \in Thread : reserved[t]}
Inserting == {t \in Thread : inserted[t]}

\* Threads whose reservation may still become, or has just become, a bucket.
Committed == {t \in Thread : reserved[t] /\ pc[t] # "return"}

\* Threads that have loaded an item count below the limit, however long ago,
\* and have neither reserved nor given up since.
Admitted == {t \in Thread : \/ pc[t] = "reserve"
                            \/ pc[t] = "loadPending" /\ loaded[t] + 1 <= MaxItems}

CountInv ==
  /\ pending = Cardinality(Reserved)
  /\ Cardinality(NonEmpty) = itemCount + Cardinality(Inserting)
  /\ itemCount + Cardinality(Committed) + Cardinality(Admitted)
       <= MaxItems + Cardinality(Thread) - 1

LedgerInv == StructureInv /\ (\A t \in Thread : SlotInv(t)) /\ CountInv

-----------------------------------------------------------------------------
(* Slots.                                                                  *)

\* Buckets keep their rows.
LEMMA RowsStay ==
  ASSUME StructureInv, NEW t \in Thread, Step(t) \/ Call(t),
         NEW b \in Bucket, holds[b] # NoRow
  PROVE  holds'[b] = holds[b]
<1>1. TypeOK
  BY DEF StructureInv
<1>2. CASE Call(t)
  BY <1>1, <1>2, CallQuiet DEF Quiet, bucketVars
<1>3. CASE Step(t)
  <2>1. CASE ClaimEmpty(t)
    <3>1. Here(t) \in Bucket /\ state[Here(t)] = "Empty"
      BY <1>1, <2>1, HereType DEF ClaimEmpty
    <3>2. Here(t) # b
      BY <3>1 DEF StructureInv, BucketInv, EmptyHolds
    <3>. QED BY <1>1, <2>1, <3>2 DEF ClaimEmpty, TypeOK, BucketType
  <2>2. CASE Quiet(t)
    BY <2>2 DEF Quiet, bucketVars
  <2>3. CASE SharedStep(t) /\ ~ClaimEmpty(t)
    BY <2>3 DEF SharedStep, ReserveOffset, WriteBlock, ClaimFilled, StoreIdent,
       StoreOffset, StoreSize, PublishBucket, bucketVars
  <2>. QED BY <1>1, <1>3, <2>1, <2>2, <2>3, StepKinds
<1>. QED BY <1>2, <1>3

LEMMA ExistsStays ==
  ASSUME StructureInv, NEW t \in Thread, Step(t) \/ Call(t), NEW r \in Row,
         Exists(r)
  PROVE  Exists(r)'
BY RowsStay DEF Exists

\* A step changes the slot variables of the moving thread alone.
SameSlot(u) == /\ reserved'[u] = reserved[u]
               /\ inserted'[u] = inserted[u]
               /\ loaded'[u] = loaded[u]

LEMMA StepOtherSlots ==
  ASSUME TypeOK, NEW t \in Thread, Step(t), NEW u \in Thread, u # t
  PROVE  SameSlot(u)
<1>. USE DEF TypeOK, SlotType, SameSlot, slotVars
<1>1. CASE LoadItemCount(t)
  BY <1>1 DEF LoadItemCount
<1>2. CASE LoadPending(t)
  BY <1>2 DEF LoadPending
<1>3. CASE ReserveSlot(t)
  BY <1>3 DEF ReserveSlot
<1>4. CASE ReserveRetry(t)
  BY <1>4 DEF ReserveRetry
<1>5. CASE NextRowSequence(t)
  BY <1>5 DEF NextRowSequence
<1>6. CASE ReserveOffset(t)
  BY <1>6 DEF ReserveOffset
<1>7. CASE WriteBlock(t)
  BY <1>7 DEF WriteBlock
<1>8. CASE WriteBlockFails(t)
  BY <1>8 DEF WriteBlockFails
<1>9. CASE MissRow(t)
  BY <1>9 DEF MissRow
<1>10. CASE MissRowForPut(t)
  BY <1>10 DEF MissRowForPut
<1>11. CASE InsertSeesEmpty(t)
  BY <1>11 DEF InsertSeesEmpty
<1>12. CASE LoadFilled(t)
  BY <1>12 DEF LoadFilled
<1>13. CASE SeeWriting(t)
  BY <1>13 DEF SeeWriting, Retry
<1>14. CASE LoadIdent(t)
  BY <1>14 DEF LoadIdent
<1>15. CASE LoadOffset(t)
  BY <1>15 DEF LoadOffset
<1>16. CASE LoadSize(t)
  BY <1>16 DEF LoadSize
<1>17. CASE RecheckFilled(t)
  BY <1>17 DEF RecheckFilled
<1>18. CASE PassForeignIdent(t)
  BY <1>18 DEF PassForeignIdent, Advance
<1>19. CASE MatchRow(t)
  BY <1>19 DEF MatchRow
<1>20. CASE MatchForeignColumn(t)
  BY <1>20 DEF MatchForeignColumn, Advance
<1>21. CASE ReadCorruption(t)
  BY <1>21 DEF ReadCorruption
<1>22. CASE ReadFails(t)
  BY <1>22 DEF ReadFails
<1>23. CASE ReadValue(t)
  BY <1>23 DEF ReadValue
<1>24. CASE LoadRowEntries(t)
  BY <1>24 DEF LoadRowEntries
<1>25. CASE ClaimEmpty(t)
  BY <1>25 DEF ClaimEmpty
<1>26. CASE ClaimFilled(t)
  BY <1>26 DEF ClaimFilled
<1>27. CASE ClaimFails(t)
  BY <1>27 DEF ClaimFails, Retry
<1>28. CASE StoreIdent(t)
  BY <1>28 DEF StoreIdent
<1>29. CASE StoreOffset(t)
  BY <1>29 DEF StoreOffset
<1>30. CASE StoreSize(t)
  BY <1>30 DEF StoreSize
<1>31. CASE PublishBucket(t)
  BY <1>31 DEF PublishBucket
<1>32. CASE IncrementRowItemCount(t)
  BY <1>32 DEF IncrementRowItemCount
<1>33. CASE Return(t)
  BY <1>33 DEF Return
<1>. QED BY <1>1, <1>2, <1>3, <1>4, <1>5, <1>6, <1>7, <1>8, <1>9, <1>10,
    <1>11, <1>12, <1>13, <1>14, <1>15, <1>16, <1>17, <1>18, <1>19, <1>20,
    <1>21, <1>22, <1>23, <1>24, <1>25, <1>26, <1>27, <1>28, <1>29, <1>30,
    <1>31, <1>32, <1>33 DEF Step

\* What is known of the slots of a thread that does not move.
LEMMA OtherSlot ==
  ASSUME StructureInv, NEW t \in Thread, Step(t) \/ Call(t),
         NEW u \in Thread, Same(u), SameSlot(u), SlotInv(u)
  PROVE  SlotInv(u)'
<1>1. /\ pc'[u] = pc[u] /\ mode'[u] = mode[u] /\ RowOf(u)' = RowOf(u)
      /\ reserved'[u] = reserved[u] /\ inserted'[u] = inserted[u]
      /\ Storing(u)' = Storing(u)
  BY DEF Same, SameSlot, RowOf, Storing
<1>2. pc[u] # "idle" => RowOf(u) \in Row
  BY HereType DEF StructureInv
<1>3. pc[u] # "idle" /\ Exists(RowOf(u)) => Exists(RowOf(u))'
  <2>1. pc[u] # "idle" /\ Exists(RowOf(u)) =>
          \E b \in Bucket : holds'[b] = RowOf(u)
    BY <1>2, RowsStay DEF Exists
  <2>. QED BY <1>1, <2>1 DEF Exists
<1>. QED BY <1>1, <1>3 DEF SlotInv, Walking

\* Each step keeps what is known of the slots of the moving thread.
LEMMA StepSlot ==
  ASSUME StructureInv, NEW t \in Thread, Step(t), SlotInv(t)
  PROVE  SlotInv(t)'
<1>. USE DEF TypeOK, PcType, SlotType, WalkType, Goto, Decide, SlotInv, Storing,
             Walking, slotVars, walkVars
<1>1. TypeOK
  BY DEF StructureInv
<1>2. UNCHANGED call /\ pc[t] # "idle" /\ Exists(RowOf(t)) => Exists(RowOf(t))'
  <2>1. SUFFICES ASSUME UNCHANGED call, pc[t] # "idle", Exists(RowOf(t))
                 PROVE  Exists(RowOf(t))'
    OBVIOUS
  <2>2. RowOf(t) \in Row /\ RowOf(t)' = RowOf(t) /\ RowOf(t) # NoRow
    BY <1>1, <2>1, HereType DEF RowOf
  <2>. QED BY <2>1, <2>2, RowsStay DEF Exists
<1>3. CASE LoadItemCount(t)
  BY <1>3, <1>1, <1>2 DEF LoadItemCount, callVars
<1>4. CASE LoadPending(t)
  BY <1>4, <1>1, <1>2 DEF LoadPending, callVars
<1>5. CASE ReserveSlot(t)
  BY <1>5, <1>1, <1>2 DEF ReserveSlot, callVars
<1>6. CASE ReserveRetry(t)
  BY <1>6, <1>1, <1>2 DEF ReserveRetry, callVars
<1>7. CASE NextRowSequence(t)
  BY <1>7, <1>1, <1>2 DEF NextRowSequence, callVars
<1>8. CASE ReserveOffset(t)
  BY <1>8, <1>1, <1>2 DEF ReserveOffset, callVars
<1>9. CASE WriteBlock(t)
  BY <1>9, <1>1, <1>2 DEF WriteBlock, callVars
<1>10. CASE WriteBlockFails(t)
  BY <1>10, <1>1, <1>2 DEF WriteBlockFails, callVars
<1>11. CASE MissRow(t)
  BY <1>11, <1>1, <1>2 DEF MissRow, callVars
<1>12. CASE MissRowForPut(t)
  BY <1>12, <1>1, <1>2 DEF MissRowForPut, callVars
<1>13. CASE InsertSeesEmpty(t)
  BY <1>13, <1>1, <1>2 DEF InsertSeesEmpty, callVars
<1>14. CASE LoadFilled(t)
  BY <1>14, <1>1, <1>2 DEF LoadFilled, callVars
<1>15. CASE SeeWriting(t)
  BY <1>15, <1>1, <1>2 DEF SeeWriting, Retry, callVars
<1>16. CASE LoadIdent(t)
  BY <1>16, <1>1, <1>2 DEF LoadIdent, callVars
<1>17. CASE LoadOffset(t)
  BY <1>17, <1>1, <1>2 DEF LoadOffset, callVars
<1>18. CASE LoadSize(t)
  BY <1>18, <1>1, <1>2 DEF LoadSize, callVars
<1>19. CASE RecheckFilled(t)
  BY <1>19, <1>1, <1>2 DEF RecheckFilled, callVars
<1>20. CASE PassForeignIdent(t)
  BY <1>20, <1>1, <1>2 DEF PassForeignIdent, Advance, callVars
<1>21. CASE MatchRow(t)
  <2>1. pc[t] = "match" /\ holds[Here(t)] = RowOf(t)
    BY <1>21, SnapshotRow DEF MatchRow
  <2>2. Exists(RowOf(t))
    BY <1>1, <2>1, HereType DEF Exists
  <2>. QED BY <1>1, <1>2, <1>21, <2>1, <2>2 DEF MatchRow, callVars
<1>22. CASE MatchForeignColumn(t)
  BY <1>22, <1>1, <1>2 DEF MatchForeignColumn, Advance, callVars
<1>23. CASE ReadCorruption(t)
  BY <1>23, <1>1, <1>2 DEF ReadCorruption, callVars
<1>24. CASE ReadFails(t)
  BY <1>24, <1>1, <1>2 DEF ReadFails, callVars
<1>25. CASE ReadValue(t)
  BY <1>25, <1>1, <1>2 DEF ReadValue, callVars
<1>26. CASE LoadRowEntries(t)
  BY <1>26, <1>1, <1>2 DEF LoadRowEntries, callVars
<1>27. CASE ClaimEmpty(t)
  <2>1. ~Exists(RowOf(t))
    BY <1>27, RowIsNew DEF ClaimEmpty, Exists
  <2>2. mode[t] = "insert"
    BY <1>27 DEF ClaimEmpty, StructureInv, ThreadInv, InsertInv
  <2>. QED BY <1>1, <1>27, <2>1, <2>2 DEF ClaimEmpty
<1>28. CASE ClaimFilled(t)
  BY <1>28, <1>1, <1>2 DEF ClaimFilled, callVars
<1>29. CASE ClaimFails(t)
  BY <1>29, <1>1, <1>2 DEF ClaimFails, Retry, callVars
<1>30. CASE StoreIdent(t)
  BY <1>30, <1>1, <1>2 DEF StoreIdent, callVars
<1>31. CASE StoreOffset(t)
  BY <1>31, <1>1, <1>2 DEF StoreOffset, callVars
<1>32. CASE StoreSize(t)
  BY <1>32, <1>1, <1>2 DEF StoreSize, callVars
<1>33. CASE PublishBucket(t)
  BY <1>33, <1>1, <1>2 DEF PublishBucket, callVars
<1>34. CASE IncrementRowItemCount(t)
  BY <1>34, <1>1, <1>2 DEF IncrementRowItemCount, callVars
<1>35. CASE Return(t)
  BY <1>35, <1>1, <1>2 DEF Return, callVars
<1>. QED BY <1>3, <1>4, <1>5, <1>6, <1>7, <1>8, <1>9, <1>10, <1>11, <1>12,
    <1>13, <1>14, <1>15, <1>16, <1>17, <1>18, <1>19, <1>20, <1>21, <1>22,
    <1>23, <1>24, <1>25, <1>26, <1>27, <1>28, <1>29, <1>30, <1>31, <1>32,
    <1>33, <1>34, <1>35 DEF Step

\* A call starts without a slot.
LEMMA CallSlot ==
  ASSUME StructureInv, NEW t \in Thread, Call(t), SlotInv(t)
  PROVE  /\ SlotInv(t)'
         /\ pc[t] = "idle"
         /\ UNCHANGED <<counterVars, slotVars>>
<1>1. PICK r \in Row, kind \in Kinds, k \in Key, c \in Content,
           l \in {"loadItems", "loadState"} : Start(t, kind, r, k, c, l)
  BY CallStarts
<1>2. /\ pc[t] = "idle" /\ pc'[t] = l /\ mode'[t] = "find"
      /\ reserved'[t] = reserved[t] /\ inserted'[t] = inserted[t]
      /\ UNCHANGED <<counterVars, slotVars>>
  BY <1>1 DEF Start, Goto, slotVars, StructureInv, TypeOK, PcType, WalkType
<1>. QED BY <1>2 DEF SlotInv, Storing, Walking

-----------------------------------------------------------------------------
(* Counting.                                                               *)

\* The size of a set of threads when t alone may have entered or left it.
Moves(t, S, T) ==
  /\ Cardinality(S) \in Nat /\ Cardinality(T) \in Nat
  /\ t \in S /\ t \notin T => Cardinality(T) = Cardinality(S) - 1
  /\ t \notin S /\ t \in T => Cardinality(T) = Cardinality(S) + 1
  /\ (t \in S <=> t \in T) => Cardinality(T) = Cardinality(S)

LEMMA OneThread ==
  ASSUME NEW t \in Thread, NEW S \in SUBSET Thread, NEW T \in SUBSET Thread,
         \A u \in Thread : u # t => (u \in S <=> u \in T)
  PROVE  Moves(t, S, T)
<1>1. IsFiniteSet(S) /\ IsFiniteSet(T)
  BY FS_Subset
<1>2. Cardinality(S) \in Nat /\ Cardinality(T) \in Nat
  BY <1>1, FS_CardinalityType
<1>3. t \in S /\ t \notin T => Cardinality(T) = Cardinality(S) - 1
  <2>1. t \in S /\ t \notin T => T = S \ {t}
    OBVIOUS
  <2>. QED BY <1>1, <2>1, FS_RemoveElement
<1>4. t \notin S /\ t \in T => Cardinality(T) = Cardinality(S) + 1
  <2>1. t \notin S /\ t \in T => T = S \cup {t}
    OBVIOUS
  <2>. QED BY <1>1, <2>1, FS_AddElement
<1>5. (t \in S <=> t \in T) => S = T
  <2>1. (t \in S <=> t \in T) => \A u \in Thread : u \in S <=> u \in T
    OBVIOUS
  <2>. QED BY <2>1
<1>. QED BY <1>2, <1>3, <1>4, <1>5 DEF Moves

\* A step of t moves t alone between the sets.
LEMMA StepSets ==
  ASSUME NEW t \in Thread, \A u \in Thread : u # t => Same(u) /\ SameSlot(u)
  PROVE  /\ Moves(t, Reserved, Reserved') /\ Moves(t, Inserting, Inserting')
         /\ Moves(t, Committed, Committed') /\ Moves(t, Admitted, Admitted')
<1>1. /\ Reserved \in SUBSET Thread /\ Reserved' \in SUBSET Thread
      /\ Inserting \in SUBSET Thread /\ Inserting' \in SUBSET Thread
      /\ Committed \in SUBSET Thread /\ Committed' \in SUBSET Thread
      /\ Admitted \in SUBSET Thread /\ Admitted' \in SUBSET Thread
  BY DEF Reserved, Inserting, Committed, Admitted
<1>2. /\ \A u \in Thread : u # t => (u \in Reserved <=> u \in Reserved')
      /\ \A u \in Thread : u # t => (u \in Inserting <=> u \in Inserting')
      /\ \A u \in Thread : u # t => (u \in Committed <=> u \in Committed')
      /\ \A u \in Thread : u # t => (u \in Admitted <=> u \in Admitted')
  BY DEF Same, SameSlot, Reserved, Inserting, Committed, Admitted
<1>. QED BY <1>1, <1>2, OneThread

\* Steps that take and give no slot, count nothing and admit nobody.
Plain(t) ==
  /\ UNCHANGED <<itemCount, pending, reserved, inserted>>
  /\ NonEmpty' = NonEmpty
  /\ pc'[t] \notin {"loadPending", "reserve"}
  /\ reserved[t] => pc[t] # "return"

LEMMA StepPlain ==
  ASSUME StructureInv, NEW t \in Thread, Step(t), SlotInv(t)
  PROVE  \/ LoadItemCount(t) \/ LoadPending(t) \/ ReserveSlot(t)
         \/ ClaimEmpty(t) \/ IncrementRowItemCount(t) \/ Return(t)
         \/ Plain(t)
<1>. USE DEF TypeOK, PcType, Goto, Decide, Plain, slotVars, counterVars, bucketVars,
             NonEmpty
<1>1. TypeOK
  BY DEF StructureInv
<1>2. pc[t] # "idle" => Here(t) \in Bucket
  BY <1>1, HereType
<1>3. CASE ReserveRetry(t)
  BY <1>3, <1>1 DEF ReserveRetry
<1>4. CASE NextRowSequence(t)
  BY <1>4, <1>1 DEF NextRowSequence
<1>5. CASE ReserveOffset(t)
  BY <1>5, <1>1 DEF ReserveOffset
<1>6. CASE WriteBlock(t)
  BY <1>6, <1>1 DEF WriteBlock
<1>7. CASE WriteBlockFails(t)
  BY <1>7, <1>1 DEF WriteBlockFails
<1>8. CASE MissRow(t)
  BY <1>8, <1>1 DEF MissRow
<1>9. CASE MissRowForPut(t)
  BY <1>9, <1>1 DEF MissRowForPut
<1>10. CASE InsertSeesEmpty(t)
  BY <1>10, <1>1 DEF InsertSeesEmpty
<1>11. CASE LoadFilled(t)
  BY <1>11, <1>1 DEF LoadFilled
<1>12. CASE SeeWriting(t)
  BY <1>12, <1>1 DEF SeeWriting, Retry
<1>13. CASE LoadIdent(t)
  BY <1>13, <1>1 DEF LoadIdent
<1>14. CASE LoadOffset(t)
  BY <1>14, <1>1 DEF LoadOffset
<1>15. CASE LoadSize(t)
  BY <1>15, <1>1 DEF LoadSize
<1>16. CASE RecheckFilled(t)
  BY <1>16, <1>1 DEF RecheckFilled
<1>17. CASE PassForeignIdent(t)
  BY <1>17, <1>1 DEF PassForeignIdent, Advance
<1>18. CASE MatchRow(t)
  BY <1>18, <1>1 DEF MatchRow
<1>19. CASE MatchForeignColumn(t)
  BY <1>19, <1>1 DEF MatchForeignColumn, Advance
<1>20. CASE ReadCorruption(t)
  BY <1>20, <1>1 DEF ReadCorruption
<1>21. CASE ReadFails(t)
  BY <1>21, <1>1 DEF ReadFails
<1>22. CASE ReadValue(t)
  BY <1>22, <1>1 DEF ReadValue
<1>23. CASE LoadRowEntries(t)
  BY <1>23, <1>1 DEF LoadRowEntries
<1>24. CASE ClaimFilled(t)
  <2>1. NonEmpty' = NonEmpty
    BY <1>1, <1>2, <1>24 DEF ClaimFilled, BucketType
  <2>. QED BY <1>1, <1>24, <2>1 DEF ClaimFilled
<1>25. CASE ClaimFails(t)
  BY <1>25, <1>1 DEF ClaimFails, Retry
<1>26. CASE StoreIdent(t)
  BY <1>26, <1>1 DEF StoreIdent
<1>27. CASE StoreOffset(t)
  BY <1>27, <1>1 DEF StoreOffset
<1>28. CASE StoreSize(t)
  BY <1>28, <1>1 DEF StoreSize
<1>29. CASE PublishBucket(t)
  <2>1. state[Here(t)] = "Writing"
    BY <1>29 DEF PublishBucket, StructureInv, ThreadInv, StoreInv, Storing
  <2>2. NonEmpty' = NonEmpty
    BY <1>1, <1>2, <1>29, <2>1 DEF PublishBucket, BucketType
  <2>. QED BY <1>1, <1>29, <2>2 DEF PublishBucket
<1>. QED BY <1>3, <1>4, <1>5, <1>6, <1>7, <1>8, <1>9, <1>10, <1>11, <1>12,
    <1>13, <1>14, <1>15, <1>16, <1>17, <1>18, <1>19, <1>20, <1>21, <1>22,
    <1>23, <1>24, <1>25, <1>26, <1>27, <1>28, <1>29 DEF Step

\* The counters stay true, for a step of each kind.
LEMMA PlainCount ==
  ASSUME TypeOK, CountInv, NEW t \in Thread, Plain(t),
         \A u \in Thread : u # t => Same(u) /\ SameSlot(u)
  PROVE  CountInv'
<1>1. Reserved' = Reserved /\ Inserting' = Inserting
  BY DEF Plain, Reserved, Inserting
<1>2. t \notin Admitted' /\ (t \in Committed' => t \in Committed)
  BY DEF Plain, Admitted, Committed
<1>3. Moves(t, Committed, Committed') /\ Moves(t, Admitted, Admitted')
  BY StepSets
<1>4. Cardinality(Thread) \in Nat /\ itemCount \in Nat
  BY FS_CardinalityType DEF TypeOK, CounterType
<1>. QED BY <1>1, <1>2, <1>3, <1>4 DEF CountInv, Plain, Moves

\* Two disjoint sets of threads.
LEMMA DisjointThreads ==
  ASSUME NEW S \in SUBSET Thread, NEW T \in SUBSET Thread, S \cap T = {}
  PROVE  Cardinality(S) + Cardinality(T) <= Cardinality(Thread)
<1>1. IsFiniteSet(S) /\ IsFiniteSet(T)
  BY FS_Subset
<1>2. Cardinality(S) \in Nat /\ Cardinality(T) \in Nat /\ Cardinality({}) = 0
  BY <1>1, FS_CardinalityType, FS_EmptySet
<1>3. Cardinality(S \cup T) = Cardinality(S) + Cardinality(T) - Cardinality({})
  BY <1>1, FS_Union
<1>4. Cardinality(S \cup T) <= Cardinality(Thread)
  <2>1. S \cup T \in SUBSET Thread
    OBVIOUS
  <2>. QED BY <2>1, FS_Subset
<1>. QED BY <1>2, <1>3, <1>4

\* Only a thread that loads an item count below the limit is admitted; as it
\* is none of the committed ones, these are too few to be past the bound.
LEMMA LoadItemCountCount ==
  ASSUME TypeOK, CountInv, NEW t \in Thread, LoadItemCount(t),
         \A u \in Thread : u # t => Same(u) /\ SameSlot(u),
         \A u \in Thread : SlotInv(u)'
  PROVE  CountInv'
<1>1. /\ UNCHANGED <<itemCount, pending, reserved, inserted, state>>
      /\ pc[t] = "loadItems" /\ pc'[t] = "loadPending"
      /\ loaded'[t] = itemCount
  BY DEF LoadItemCount, Goto, TypeOK, PcType, SlotType, bucketVars, counterVars
<1>2. Reserved' = Reserved /\ Inserting' = Inserting /\ NonEmpty' = NonEmpty
  BY <1>1 DEF Reserved, Inserting, NonEmpty
<1>3. t \in Committed <=> t \in Committed'
  BY <1>1 DEF Committed
<1>4. Moves(t, Committed, Committed') /\ Moves(t, Admitted, Admitted')
  BY StepSets
<1>5. Cardinality(Thread) \in Nat /\ itemCount \in Nat
  BY FS_CardinalityType DEF TypeOK, CounterType
<1>6. itemCount + Cardinality(Committed') + Cardinality(Admitted')
        <= MaxItems + Cardinality(Thread) - 1
  <2>1. CASE itemCount + 1 <= MaxItems
    <3>1. Committed' \cap Admitted' = {}
      BY DEF SlotInv, Storing, Walking, Admitted, Committed
    <3>2. Committed' \in SUBSET Thread /\ Admitted' \in SUBSET Thread
      BY DEF Committed, Admitted
    <3>3. Cardinality(Committed') + Cardinality(Admitted') <= Cardinality(Thread)
      BY <3>1, <3>2, DisjointThreads
    <3>. QED BY <1>4, <1>5, <2>1, <3>3 DEF Moves
  <2>2. CASE ~(itemCount + 1 <= MaxItems)
    <3>1. t \notin Admitted /\ t \notin Admitted'
      BY <1>1, <2>2 DEF Admitted
    <3>. QED BY <1>3, <1>4, <3>1 DEF CountInv, Moves
  <2>. QED BY <2>1, <2>2
<1>. QED BY <1>1, <1>2, <1>6 DEF CountInv

\* Who passes the load-factor test was admitted before.
LEMMA LoadPendingCount ==
  ASSUME TypeOK, CountInv, NEW t \in Thread, LoadPending(t), SlotInv(t),
         \A u \in Thread : u # t => Same(u) /\ SameSlot(u)
  PROVE  CountInv'
<1>1. /\ UNCHANGED <<itemCount, pending, reserved, inserted, state>>
      /\ pc[t] = "loadPending"
      /\ \/ pc'[t] = "reserve" /\ loaded[t] + pending + 1 <= MaxItems
         \/ pc'[t] = "return"
  BY DEF LoadPending, Goto, Decide, TypeOK, PcType, bucketVars, counterVars
<1>2. Reserved' = Reserved /\ Inserting' = Inserting /\ NonEmpty' = NonEmpty
  BY <1>1 DEF Reserved, Inserting, NonEmpty
<1>3. t \notin Committed /\ t \notin Committed'
  BY <1>1 DEF Committed, SlotInv, Storing, Walking
<1>4. /\ Moves(t, Committed, Committed') /\ Moves(t, Admitted, Admitted')
      /\ Moves(t, Reserved, Reserved')
  BY StepSets
<1>5. /\ Cardinality(Thread) \in Nat /\ itemCount \in Nat
      /\ loaded[t] \in Int /\ pending \in Nat
  BY <1>4, FS_CardinalityType DEF TypeOK, CounterType, SlotType, CountInv, Moves
<1>6. t \in Admitted' => t \in Admitted
  BY <1>1, <1>5 DEF Admitted
<1>. QED BY <1>1, <1>2, <1>3, <1>4, <1>5, <1>6 DEF CountInv, Moves

LEMMA ReserveSlotCount ==
  ASSUME TypeOK, CountInv, NEW t \in Thread, ReserveSlot(t), SlotInv(t),
         \A u \in Thread : u # t => Same(u) /\ SameSlot(u)
  PROVE  CountInv'
<1>1. /\ UNCHANGED <<itemCount, inserted, state>> /\ pending' = pending + 1
      /\ pc[t] = "reserve" /\ pc'[t] = "sequence" /\ reserved'[t]
  BY DEF ReserveSlot, Goto, TypeOK, PcType, SlotType, bucketVars
<1>2. ~reserved[t]
  BY <1>1 DEF SlotInv, Storing, Walking
<1>3. Inserting' = Inserting /\ NonEmpty' = NonEmpty
  BY <1>1 DEF Inserting, NonEmpty
<1>4. /\ t \notin Reserved /\ t \in Reserved'
      /\ t \notin Committed /\ t \in Committed'
      /\ t \in Admitted /\ t \notin Admitted'
  BY <1>1, <1>2 DEF Reserved, Committed, Admitted
<1>5. /\ Moves(t, Committed, Committed') /\ Moves(t, Admitted, Admitted')
      /\ Moves(t, Reserved, Reserved')
  BY StepSets
<1>6. Cardinality(Thread) \in Nat /\ itemCount \in Nat
  BY FS_CardinalityType DEF TypeOK, CounterType
<1>. QED BY <1>1, <1>3, <1>4, <1>5, <1>6 DEF CountInv, Moves

LEMMA ClaimEmptyCount ==
  ASSUME TypeOK, CountInv, NEW t \in Thread, ClaimEmpty(t), SlotInv(t),
         \A u \in Thread : u # t => Same(u) /\ SameSlot(u)
  PROVE  CountInv'
<1>1. /\ UNCHANGED <<itemCount, pending, reserved>>
      /\ pc[t] = "claimEmpty" /\ pc'[t] = "storeIdent" /\ inserted'[t]
      /\ Here(t) \in Bucket /\ state[Here(t)] = "Empty"
      /\ state' = [state EXCEPT ![Here(t)] = "Writing"]
  BY HereType DEF ClaimEmpty, Goto, TypeOK, PcType, SlotType, counterVars
<1>2. ~inserted[t]
  BY <1>1 DEF SlotInv, Storing
<1>3. Cardinality(NonEmpty') = Cardinality(NonEmpty) + 1
      /\ Cardinality(NonEmpty) \in Nat
  <2>1. NonEmpty' = NonEmpty \cup {Here(t)} /\ Here(t) \notin NonEmpty
    BY <1>1 DEF NonEmpty, TypeOK, BucketType
  <2>2. IsFiniteSet(NonEmpty)
    <3>1. IsFiniteSet(Bucket)
      BY FS_Interval
    <3>2. NonEmpty \in SUBSET Bucket
      BY DEF NonEmpty
    <3>. QED BY <3>1, <3>2, FS_Subset
  <2>. QED BY <2>1, <2>2, FS_AddElement, FS_CardinalityType
<1>4. t \notin Inserting /\ t \in Inserting' /\ Reserved' = Reserved
  BY <1>1, <1>2 DEF Inserting, Reserved
<1>5. /\ t \in Committed <=> t \in Committed'
      /\ t \notin Admitted /\ t \notin Admitted'
  BY <1>1 DEF Committed, Admitted
<1>6. /\ Moves(t, Committed, Committed') /\ Moves(t, Admitted, Admitted')
      /\ Moves(t, Inserting, Inserting')
  BY StepSets
<1>7. Cardinality(Thread) \in Nat /\ itemCount \in Nat
  BY FS_CardinalityType DEF TypeOK, CounterType
<1>. QED BY <1>1, <1>3, <1>4, <1>5, <1>6, <1>7 DEF CountInv, Moves

LEMMA IncrementCount ==
  ASSUME TypeOK, CountInv, NEW t \in Thread, IncrementRowItemCount(t), SlotInv(t),
         \A u \in Thread : u # t => Same(u) /\ SameSlot(u)
  PROVE  CountInv'
<1>1. /\ UNCHANGED <<pending, reserved, state>> /\ itemCount' = itemCount + 1
      /\ pc[t] = "count" /\ pc'[t] = "return" /\ ~inserted'[t]
  BY DEF IncrementRowItemCount, Decide, TypeOK, PcType, SlotType, bucketVars
<1>2. inserted[t] /\ reserved[t]
  BY <1>1 DEF SlotInv
<1>3. /\ t \in Inserting /\ t \notin Inserting'
      /\ t \in Committed /\ t \notin Committed'
      /\ t \notin Admitted /\ t \notin Admitted'
      /\ Reserved' = Reserved /\ NonEmpty' = NonEmpty
  BY <1>1, <1>2 DEF Inserting, Committed, Admitted, Reserved, NonEmpty
<1>4. /\ Moves(t, Committed, Committed') /\ Moves(t, Admitted, Admitted')
      /\ Moves(t, Inserting, Inserting')
  BY StepSets
<1>5. Cardinality(Thread) \in Nat /\ itemCount \in Nat
  BY FS_CardinalityType DEF TypeOK, CounterType
<1>. QED BY <1>1, <1>3, <1>4, <1>5 DEF CountInv, Moves

LEMMA ReturnCount ==
  ASSUME TypeOK, CountInv, NEW t \in Thread, Return(t), SlotInv(t),
         \A u \in Thread : u # t => Same(u) /\ SameSlot(u)
  PROVE  CountInv'
<1>1. /\ UNCHANGED <<itemCount, inserted, state>>
      /\ pc[t] = "return" /\ pc'[t] = "idle" /\ ~reserved'[t]
      /\ pending' = IF reserved[t] THEN pending - 1 ELSE pending
  BY DEF Return, Release, Goto, TypeOK, PcType, SlotType, bucketVars
<1>2. Inserting' = Inserting /\ NonEmpty' = NonEmpty
  BY <1>1 DEF Inserting, NonEmpty
<1>3. /\ t \in Reserved <=> reserved[t]
      /\ t \notin Reserved'
      /\ t \notin Committed /\ t \notin Committed'
      /\ t \notin Admitted /\ t \notin Admitted'
  BY <1>1 DEF Reserved, Committed, Admitted
<1>4. /\ Moves(t, Committed, Committed') /\ Moves(t, Admitted, Admitted')
      /\ Moves(t, Reserved, Reserved')
  BY StepSets
<1>5. Cardinality(Thread) \in Nat /\ itemCount \in Nat
  BY FS_CardinalityType DEF TypeOK, CounterType
<1>. QED BY <1>1, <1>2, <1>3, <1>4, <1>5 DEF CountInv, Moves

-----------------------------------------------------------------------------
(* LedgerInv is inductive.                                                 *)

LEMMA InitLedger == Init => LedgerInv
<1> SUFFICES ASSUME Init PROVE LedgerInv
  OBVIOUS
<1>1. StructureInv
  BY InitStructure
<1>2. \A t \in Thread : SlotInv(t)
  BY DEF Init, SlotInv, Storing, Walking
<1>3. /\ Reserved = {} /\ Inserting = {} /\ Committed = {} /\ Admitted = {}
      /\ NonEmpty = {}
  BY DEF Init, Reserved, Inserting, Committed, Admitted, NonEmpty
<1>4. Cardinality({}) = 0 /\ itemCount = 0 /\ pending = 0
  BY FS_EmptySet DEF Init
<1>5. Cardinality(Thread) \in Nat \ {0}
  BY FS_CardinalityType, FS_EmptySet
<1>6. CountInv
  BY <1>3, <1>4, <1>5 DEF CountInv
<1>. QED BY <1>1, <1>2, <1>6 DEF LedgerInv

LEMMA StepLedger ==
  ASSUME LedgerInv, NEW t \in Thread, Step(t) \/ Call(t)
  PROVE  LedgerInv'
<1>1. StructureInv /\ TypeOK /\ CountInv /\ SlotInv(t)
  BY DEF LedgerInv, StructureInv
<1>2. StructureInv'
  BY <1>1, StepStructure, CallStructure
<1>3. \A u \in Thread : u # t => Same(u) /\ SameSlot(u)
  <2>1. CASE Step(t)
    BY <1>1, <2>1, StepOthers, StepOtherSlots
  <2>2. CASE Call(t)
    BY <1>1, <2>2, CallQuiet, CallSlot DEF SameSlot, slotVars
  <2>. QED BY <2>1, <2>2
<1>4. \A u \in Thread : SlotInv(u)'
  <2>1. SlotInv(t)'
    BY <1>1, StepSlot, CallSlot
  <2>2. \A u \in Thread : u # t => SlotInv(u)'
    BY <1>1, <1>3, OtherSlot DEF LedgerInv
  <2>. QED BY <2>1, <2>2
<1>5. CountInv'
  <2>1. CASE Call(t)
    <3>1. Plain(t)
      <4>1. UNCHANGED <<itemCount, pending, reserved, inserted>> /\ pc[t] = "idle"
        BY <1>1, <2>1, CallSlot DEF counterVars, slotVars
      <4>2. NonEmpty' = NonEmpty /\ pc'[t] \in {"loadItems", "loadState"}
        BY <1>1, <2>1, CallQuiet DEF Quiet, bucketVars, NonEmpty
      <4>. QED BY <4>1, <4>2 DEF Plain
    <3>. QED BY <1>1, <1>3, <3>1, PlainCount
  <2>2. CASE Step(t)
    BY <1>1, <1>3, <1>4, <2>2, StepPlain, PlainCount, LoadItemCountCount,
       LoadPendingCount, ReserveSlotCount, ClaimEmptyCount, IncrementCount, ReturnCount
  <2>. QED BY <2>1, <2>2
<1>. QED BY <1>2, <1>4, <1>5 DEF LedgerInv

LEMMA StutterLedger ==
  ASSUME LedgerInv, UNCHANGED vars
  PROVE  LedgerInv'
<1>1. StructureInv'
  BY StutterStructure DEF LedgerInv
<1>2. UNCHANGED <<state, holds, itemCount, pending, pc, call, mode, loaded, reserved,
                  inserted>>
  BY DEF vars, bucketVars, counterVars, callVars, walkVars, slotVars
<1>3. \A t \in Thread : SlotInv(t)'
  BY <1>2 DEF LedgerInv, SlotInv, Storing, Exists, RowOf
<1>4. CountInv'
  BY <1>2 DEF LedgerInv, CountInv, Reserved, Inserting, Committed, Admitted, NonEmpty
<1>. QED BY <1>1, <1>3, <1>4 DEF LedgerInv

\* itemCount, rowPendingInsertCount_ and the buckets agree with what each
\* thread holds, through every interleaving.
THEOREM LedgerHolds == Spec => []LedgerInv
<1>1. LedgerInv /\ [Next]_vars => LedgerInv'
  BY StepLedger, StutterLedger DEF Next, AllReturned
<1>. QED BY <1>1, InitLedger, PTL DEF Spec

\* A bucket is claimed only by a thread that holds a slot: PutRowStruct, which
\* writes a row that it found without reserving, never inserts it.
THEOREM InsertsAreReserved == Spec => []InsertsReserved
<1>1. LedgerInv => InsertsReserved
  BY DEF LedgerInv, SlotInv, InsertsReserved
<1>. QED BY <1>1, LedgerHolds, PTL

\* Between calls no slot is held, no bucket is being written and itemCount is
\* the number of buckets in use, as HasValidRowIndexLayout demands.
THEOREM RestingLayoutIsValid == Spec => []LayoutValidAtRest
<1>1. LedgerInv => LayoutValidAtRest
  <2> SUFFICES ASSUME LedgerInv, AtRest
               PROVE  /\ \A b \in Bucket : state[b] # "Writing"
                      /\ itemCount = Cardinality(NonEmpty)
                      /\ pending = 0
    BY DEF LayoutValidAtRest
  <2>1. \A b \in Bucket : state[b] # "Writing"
    BY DEF LedgerInv, StructureInv, BucketInv, WritingOwned, AtRest, Storing
  <2>2. Reserved = {} /\ Inserting = {}
    BY DEF LedgerInv, SlotInv, Storing, Walking, AtRest, Reserved, Inserting
  <2>3. Cardinality({}) = 0 /\ itemCount \in Nat
    BY FS_EmptySet DEF LedgerInv, StructureInv, TypeOK, CounterType
  <2>. QED BY <2>1, <2>2, <2>3 DEF LedgerInv, CountInv
<1>. QED BY <1>1, LedgerHolds, PTL

\* The buckets in use are the items counted and those of threads that have
\* committed to one.
LEMMA LedgerOvershoot == LedgerInv => OvershootBound
<1> SUFFICES ASSUME LedgerInv PROVE OvershootBound
  OBVIOUS
<1>1. /\ IsFiniteSet(Committed) /\ IsFiniteSet(Admitted)
      /\ Inserting \in SUBSET Committed
  <2>1. Committed \in SUBSET Thread /\ Admitted \in SUBSET Thread
    BY DEF Committed, Admitted
  <2>2. Inserting \in SUBSET Committed
    BY DEF LedgerInv, SlotInv, Storing, Inserting, Committed
  <2>. QED BY <2>1, <2>2, FS_Subset
<1>2. Cardinality(Inserting) <= Cardinality(Committed)
  BY <1>1, FS_Subset
<1>3. /\ Cardinality(Committed) \in Nat /\ Cardinality(Admitted) \in Nat
      /\ Cardinality(Thread) \in Nat /\ Cardinality(Inserting) \in Nat
  BY <1>1, FS_CardinalityType, FS_Subset
<1>4. itemCount \in Nat
  BY DEF LedgerInv, StructureInv, TypeOK, CounterType
<1>. QED BY <1>2, <1>3, <1>4 DEF LedgerInv, CountInv, OvershootBound

\* ReserveRowIndexInsertSlot tests the load factor on two counters that it
\* reads one after the other: the limit is passed by fewer rows than there are
\* threads, for any number of them.
THEOREM OvershootIsBounded == Spec => []OvershootBound
BY LedgerOvershoot, LedgerHolds, PTL
=============================================================================
