--------------------------- MODULE RowReadProofs ---------------------------
(***************************************************************************)
(* What a call may answer: a read returns what its row held at some        *)
(* instant of the call, although the snapshot that it works from may mix   *)
(* two publications of a bucket; and Corruption is answered only if a row  *)
(* of the same identity was replaced during the call.                      *)
(***************************************************************************)
EXTENDS RowIndexProofs

USE SizeAssumption, SetAssumption, MapAssumption, FlagAssumption DEF Bucket

\* There is a block of row r at offset o that holds c.
HasContent(r, o, c) == \E x \in file :
  x.shard = ShardForRow(r) /\ x.offset = o /\ x.row = r /\ x.entries = c

HistoryType == /\ seen \in [Thread -> SUBSET Content]
               /\ disturbed \in [Thread -> BOOLEAN]

\* The block that a thread is about to name in the index is the one it wrote.
BlockInv(t) ==
  Storing(t) \/ (pc[t] \in Walking /\ mode[t] = "insert") =>
    HasContent(RowOf(t), offset[t], entries[t])

\* A walk that looks for a row has passed only buckets of other rows; the
\* second snapshot of PutRowStruct is taken of the row's own bucket.
Looking == {"loadIdent", "loadOffset", "loadSize", "recheck", "match"}
FindInv(t) ==
  /\ pc[t] \in Walking /\ mode[t] = "find" => Passed(t)
  /\ pc[t] \in Walking \cup {"loadBlock"} /\ mode[t] = "load" =>
       holds[Here(t)] = RowOf(t)
  /\ pc[t] \in {"match", "readValue", "loadBlock"} => snap[t].ident = IdentOf[RowOf(t)]
  /\ pc[t] = "readValue" => holds[Here(t)] = RowOf(t)

\* What a call has seen: the current content of its row, and whatever content
\* its snapshot can lead to.
SeenInv(t) ==
  /\ Busy(t) => Current(RowOf(t)) \in seen[t]
  /\ pc[t] \in {"loadIdent", "loadOffset"} /\ holds[Here(t)] = RowOf(t) =>
       \E c \in seen[t] : HasContent(RowOf(t), blockOffset[Here(t)], c)
  /\ pc[t] \in {"loadSize", "recheck", "match", "readValue", "loadBlock"}
     /\ holds[Here(t)] = RowOf(t) =>
       \E c \in seen[t] : HasContent(RowOf(t), snap[t].offset, c)

\* An undisturbed snapshot is one of a bucket that has not changed since.
StillInv(t) ==
  /\ pc[t] \in Looking \cup {"loadBlock"}
  /\ IdentOf[holds[Here(t)]] = IdentOf[RowOf(t)]
  /\ ~disturbed[t]
  => /\ state[Here(t)] = "Filled"
     /\ pc[t] \in {"loadSize", "recheck", "match", "loadBlock"} =>
          snap[t].offset = blockOffset[Here(t)]
     /\ pc[t] \in {"recheck", "match", "loadBlock"} =>
          snap[t].size = blockSize[Here(t)]

\* A read only looks; a call has a result when it is about to return; and the
\* result is one that the call may give.
ResultInv(t) ==
  /\ call[t].kind = "GetRowStruct" =>
       mode[t] = "find" /\ pc[t] \in Looking \cup {"loadState", "readValue", "return"}
  /\ pc[t] # "return" => result[t] = NoResult
  /\ result[t].status \in {"OK", "NotFound"} /\ call[t].kind = "GetRowStruct" =>
       \E c \in seen[t] : c[call[t].key] = result[t].value
  /\ result[t].status = "Corruption" => disturbed[t]

AnswerInv(t) == BlockInv(t) /\ FindInv(t) /\ SeenInv(t) /\ StillInv(t) /\ ResultInv(t)

ReadInv == LedgerInv /\ HistoryType /\ \A t \in Thread : AnswerInv(t)

-----------------------------------------------------------------------------
(* The current content of a row.                                           *)

\* A block holds one content.
LEMMA OneContent ==
  ASSUME StructureInv, NEW r \in Row, NEW o \in Nat, NEW c, NEW d,
         HasContent(r, o, c), HasContent(r, o, d)
  PROVE  c = d
BY OneBlock DEF StructureInv, HasContent

\* One thread at a time stores a row.
LEMMA OneStorer ==
  ASSUME StructureInv, NEW t \in Thread, NEW u \in Thread, Storing(t), Storing(u),
         RowOf(t) = RowOf(u)
  PROVE  t = u
<1>1. /\ Here(t) \in Bucket /\ Here(u) \in Bucket /\ RowOf(t) \in Row
      /\ holds[Here(t)] = RowOf(t) /\ holds[Here(u)] = RowOf(t)
  BY HereType DEF StructureInv, ThreadInv, StoreInv, Storing
<1>2. Here(t) = Here(u)
  BY <1>1 DEF StructureInv, BucketInv, UniqueRows
<1>. QED BY <1>2 DEF StructureInv, BucketInv, OneWriter

\* Current, without its CHOOSEs: a row is being stored, or published, or absent.
Published(r, b, c) == /\ state[b] = "Filled" /\ holds[b] = r
                      /\ HasContent(r, blockOffset[b], c)
CurrentIs(r) ==
  /\ \A t \in Thread : Storing(t) /\ RowOf(t) = r => Current(r) = entries[t]
  /\ \A b \in Bucket, c \in Content : Published(r, b, c) => Current(r) = c
  /\ (\A b \in Bucket : holds[b] # r) => Current(r) = EmptyRow
  /\ \/ \E t \in Thread : Storing(t) /\ RowOf(t) = r
     \/ \E b \in Bucket, c \in Content : Published(r, b, c)
     \/ \A b \in Bucket : holds[b] # r
CurrentFacts == \A r \in Row : CurrentIs(r) /\ Current(r) \in Content

LEMMA CurrentMeaning == StructureInv => CurrentFacts
<1> SUFFICES ASSUME StructureInv, NEW r \in Row
             PROVE  CurrentIs(r) /\ Current(r) \in Content
  BY DEF CurrentFacts
<1>1. TypeOK
  BY DEF StructureInv
<1>2. ASSUME NEW t \in Thread, Storing(t), RowOf(t) = r
      PROVE  Current(r) = entries[t]
  <2>1. Writer(r) = {t}
    BY <1>2, OneStorer DEF Writer
  <2>. QED BY <2>1 DEF Current
<1>3. ASSUME NEW b \in Bucket, holds[b] = r, NEW t \in Thread, Storing(t), RowOf(t) = r
      PROVE  state[b] = "Writing"
  <2>1. /\ Here(t) \in Bucket /\ holds[Here(t)] = r /\ state[Here(t)] = "Writing"
    BY <1>1, <1>3, HereType DEF StructureInv, ThreadInv, StoreInv, Storing
  <2>2. Here(t) = b
    BY <1>3, <2>1 DEF StructureInv, BucketInv, UniqueRows
  <2>. QED BY <2>1, <2>2
<1>4. ASSUME NEW b \in Bucket, NEW c \in Content, Published(r, b, c)
      PROVE  Current(r) = c
  <2>1. Writer(r) = {}
    BY <1>3, <1>4 DEF Writer, Published
  <2>2. {d \in Bucket : holds[d] = r} = {b}
    BY <1>4 DEF Published, StructureInv, BucketInv, UniqueRows
  <2>3. PICK x \in file : /\ x.shard = ShardForRow(r) /\ x.offset = blockOffset[b]
                         /\ x.row = r /\ x.entries = c
    BY <1>4 DEF Published, HasContent
  <2>4. BlocksAt(ShardForRow(r), blockOffset[b]) = {x}
    BY <1>1, <2>3, OneBlock DEF BlocksAt, StructureInv
  <2>5. (CHOOSE d \in {b} : TRUE) = b /\ (CHOOSE y \in {x} : TRUE) = x
    OBVIOUS
  <2>. QED BY <2>1, <2>2, <2>3, <2>4, <2>5 DEF Current
<1>5. ASSUME \A b \in Bucket : holds[b] # r
      PROVE  Current(r) = EmptyRow /\ \A t \in Thread : ~(Storing(t) /\ RowOf(t) = r)
  <2>1. \A t \in Thread : ~(Storing(t) /\ RowOf(t) = r)
    BY <1>1, <1>5, HereType DEF StructureInv, ThreadInv, StoreInv, Storing
  <2>2. Writer(r) = {} /\ {d \in Bucket : holds[d] = r} = {}
    BY <1>5, <2>1 DEF Writer
  <2>. QED BY <2>1, <2>2 DEF Current
<1>6. ASSUME NEW b \in Bucket, holds[b] = r, ~\E t \in Thread : Storing(t) /\ RowOf(t) = r
      PROVE  \E c \in Content : Published(r, b, c)
  <2>1. state[b] = "Filled"
    <3>1. state[b] # "Empty"
      BY <1>6 DEF StructureInv, BucketInv, EmptyHolds
    <3>2. state[b] # "Writing"
      BY <1>6 DEF StructureInv, BucketInv, WritingOwned, ThreadInv, StoreInv
    <3>. QED BY <1>1, <3>1, <3>2 DEF TypeOK, BucketType
  <2>2. PICK x \in file : /\ x.shard = ShardForRow(r) /\ x.offset = blockOffset[b]
                         /\ x.row = r
    BY <1>6, <2>1 DEF StructureInv, BucketInv, FilledGood, Good, HasBlock
  <2>3. x.entries \in Content
    BY <1>1 DEF TypeOK, FileType, Block
  <2>. QED BY <1>6, <2>1, <2>2, <2>3 DEF Published, HasContent
<1>7. CurrentIs(r)
  BY <1>2, <1>4, <1>5, <1>6 DEF CurrentIs
<1>8. EmptyRow \in Content /\ \A t \in Thread : entries[t] \in Content
  BY <1>1 DEF EmptyRow, Content, TypeOK, BlockType
<1>. QED BY <1>7, <1>8 DEF CurrentIs

-----------------------------------------------------------------------------
(* What a step does to buckets, blocks and history.                        *)

Effects(t) ==
  /\ file \subseteq file'
  /\ ClaimEmpty(t) \/ UNCHANGED holds
  /\ \A b \in Bucket : holds[b] # NoRow => holds'[b] = holds[b]
  /\ \A b \in Bucket : \/ blockOffset'[b] = blockOffset[b]
                       \/ StoreOffset(t) /\ b = Here(t)
  /\ \A b \in Bucket : state[b] = "Filled" =>
       \/ /\ state'[b] = "Filled" /\ blockOffset'[b] = blockOffset[b]
          /\ blockSize'[b] = blockSize[b]
       \/ ClaimFilled(t) /\ b = Here(t)

LEMMA StepEffects ==
  ASSUME StructureInv, NEW t \in Thread, Step(t) \/ Call(t)
  PROVE  Effects(t)
<1>1. TypeOK
  BY DEF StructureInv
<1>2. \A b \in Bucket : holds[b] # NoRow => holds'[b] = holds[b]
  BY RowsStay
<1>3. CASE Quiet(t)
  BY <1>2, <1>3 DEF Quiet, bucketVars, fileVars, Effects
<1>4. ASSUME Storing(t)
      PROVE  Here(t) \in Bucket /\ state[Here(t)] = "Writing"
  BY <1>1, <1>4, HereType DEF StructureInv, ThreadInv, StoreInv, Storing
<1>. USE DEF TypeOK, BucketType, Effects
<1>5. CASE ReserveOffset(t)
  BY <1>2, <1>5 DEF ReserveOffset, bucketVars
<1>6. CASE WriteBlock(t)
  BY <1>2, <1>6 DEF WriteBlock, bucketVars
<1>7. CASE ClaimEmpty(t)
  <2>1. Here(t) \in Bucket /\ state[Here(t)] = "Empty"
    BY <1>1, <1>7, HereType DEF ClaimEmpty
  <2>. QED BY <1>1, <1>2, <1>7, <2>1 DEF ClaimEmpty, fileVars
<1>8. CASE ClaimFilled(t)
  BY <1>1, <1>2, <1>8 DEF ClaimFilled, fileVars
<1>9. CASE StoreIdent(t)
  BY <1>1, <1>2, <1>9 DEF StoreIdent, fileVars
<1>10. CASE StoreOffset(t)
  BY <1>1, <1>2, <1>4, <1>10 DEF StoreOffset, fileVars, Storing
<1>11. CASE StoreSize(t)
  BY <1>1, <1>2, <1>4, <1>11 DEF StoreSize, fileVars, Storing
<1>12. CASE PublishBucket(t)
  BY <1>1, <1>2, <1>12 DEF PublishBucket, fileVars
<1>. QED BY <1>1, <1>3, <1>5, <1>6, <1>7, <1>8, <1>9, <1>10, <1>11, <1>12,
            StepKinds, CallQuiet DEF SharedStep

\* Blocks stay what they are.
LEMMA ContentStays ==
  ASSUME file \subseteq file', NEW r, NEW n, NEW c, HasContent(r, n, c)
  PROVE  \E x \in file' : x.shard = ShardForRow(r) /\ x.offset = n /\ x.row = r
                          /\ x.entries = c
BY DEF HasContent

\* Only a claim changes what a row currently holds, ...
LEMMA CurrentStays ==
  ASSUME StructureInv, StructureInv', NEW t \in Thread, Step(t) \/ Call(t),
         BlockInv(t), ~ClaimEmpty(t), ~ClaimFilled(t), NEW r \in Row
  PROVE  Current(r)' = Current(r)
<1>1. TypeOK /\ Effects(t) /\ CurrentFacts /\ CurrentFacts'
  <2>1. CurrentFacts'
    BY CurrentMeaning, PTL
  <2>. QED BY <2>1, CurrentMeaning, StepEffects DEF StructureInv
<1>2. CurrentIs(r) /\ CurrentIs(r)'
  BY <1>1 DEF CurrentFacts
<1>3. ASSUME NEW u \in Thread, Storing(u), RowOf(u) = r
      PROVE  Current(r)' = Current(r)
  <2>1. Current(r) = entries[u]
    BY <1>2, <1>3 DEF CurrentIs
  <2>2. CASE Storing(u)' /\ RowOf(u)' = r /\ entries'[u] = entries[u]
    BY <1>2, <2>1, <2>2 DEF CurrentIs
  <2>3. CASE u # t
    <3>1. Same(u)
      BY <1>1, <2>3, StepOthers, CallQuiet
    <3>. QED BY <1>3, <2>2, <3>1 DEF Same, Storing, RowOf
  <2>4. CASE u = t
    <3>1. SharedStep(t) /\ pc[t] \in {"storeIdent", "storeOffset", "storeSize", "publish"}
      BY <1>1, <1>3, <2>4, StepKinds, CallQuiet DEF Quiet, Storing
    <3>2. CASE StoreIdent(t) \/ StoreOffset(t) \/ StoreSize(t)
      BY <1>1, <1>3, <2>2, <2>4, <3>2
         DEF StoreIdent, StoreOffset, StoreSize, Goto, Storing, RowOf, TypeOK, PcType,
             blockVars, callVars
    <3>3. CASE PublishBucket(t)
      <4>1. /\ Here(t) \in Bucket /\ holds[Here(t)] = r
            /\ blockOffset[Here(t)] = offset[t]
        BY <1>1, <1>3, <2>4, <3>3, HereType
           DEF PublishBucket, StructureInv, ThreadInv, StoreInv, Storing
      <4>2. /\ state'[Here(t)] = "Filled" /\ holds'[Here(t)] = r
            /\ blockOffset'[Here(t)] = offset[t]
        BY <1>1, <3>3, <4>1 DEF PublishBucket, TypeOK, BucketType
      <4>3. HasContent(r, offset[t], entries[t]) /\ entries[t] \in Content
        BY <1>1, <1>3, <2>4 DEF BlockInv, TypeOK, BlockType
      <4>4. Published(r, Here(t), entries[t])'
        <5>1. \E x \in file' : x.shard = ShardForRow(r) /\ x.offset = offset[t]
                               /\ x.row = r /\ x.entries = entries[t]
          BY <1>1, <4>3, ContentStays DEF Effects
        <5>2. entries' = entries /\ Here(t)' = Here(t)
          BY <3>3 DEF PublishBucket, blockVars, walkVars, Here, RowOf, Slot
        <5>. QED BY <4>2, <5>1, <5>2 DEF Published, HasContent, ShardForRow
      <4>5. Here(t)' = Here(t) /\ entries' = entries
        BY <3>3 DEF PublishBucket, blockVars, walkVars, Here, RowOf, Slot
      <4>. QED BY <1>2, <2>1, <2>4, <4>1, <4>3, <4>4, <4>5 DEF CurrentIs
    <3>. QED BY <3>1, <3>2, <3>3 DEF SharedStep, ReserveOffset, WriteBlock
  <2>. QED BY <2>3, <2>4
<1>4. ASSUME NEW b \in Bucket, NEW c \in Content, Published(r, b, c)
      PROVE  Current(r)' = Current(r)
  <2>1. Published(r, b, c)'
    BY <1>1, <1>4 DEF Published, Effects, HasContent, ShardForRow
  <2>. QED BY <1>2, <1>4, <2>1 DEF CurrentIs
<1>5. ASSUME \A b \in Bucket : holds[b] # r
      PROVE  Current(r)' = Current(r)
  BY <1>1, <1>2, <1>5 DEF CurrentIs, Effects, EmptyRow
<1>. QED BY <1>2, <1>3, <1>4, <1>5 DEF CurrentIs

\* ... and it changes the claimed row alone, to what the claimant wrote.
LEMMA CurrentClaim ==
  ASSUME StructureInv, StructureInv', NEW t \in Thread,
         Step(t), ClaimEmpty(t) \/ ClaimFilled(t), NEW r \in Row
  PROVE  Current(r)' = IF r = RowOf(t) THEN entries[t] ELSE Current(r)
<1>1. TypeOK /\ Effects(t) /\ CurrentFacts /\ CurrentFacts'
  <2>1. CurrentFacts'
    BY CurrentMeaning, PTL
  <2>. QED BY <2>1, CurrentMeaning, StepEffects DEF StructureInv
<1>2. CurrentIs(r) /\ CurrentIs(r)'
  BY <1>1 DEF CurrentFacts
<1>3. Storing(t)' /\ RowOf(t)' = RowOf(t) /\ entries' = entries /\ ~Storing(t)
  BY <1>1 DEF ClaimEmpty, ClaimFilled, Goto, Storing, RowOf, TypeOK, PcType, blockVars
<1>4. CASE r = RowOf(t)
  BY <1>2, <1>3, <1>4 DEF CurrentIs
<1>5. CASE r # RowOf(t)
  <2>1. ASSUME NEW u \in Thread, Storing(u), RowOf(u) = r
        PROVE  Current(r)' = Current(r)
    <3>1. Same(u)
      BY <1>1, <1>3, <2>1, StepOthers
    <3>. QED BY <1>2, <2>1, <3>1 DEF CurrentIs, Same, Storing, RowOf
  <2>2. ASSUME NEW b \in Bucket, NEW c \in Content, Published(r, b, c)
        PROVE  Current(r)' = Current(r)
    <3>1. ClaimFilled(t) => holds[Here(t)] = RowOf(t)
      BY DEF ClaimFilled, StructureInv, ThreadInv, ReaderInv
    <3>2. ~(ClaimFilled(t) /\ b = Here(t))
      BY <1>5, <2>2, <3>1 DEF Published
    <3>3. Published(r, b, c)'
      BY <1>1, <2>2, <3>2 DEF Published, Effects, HasContent, ShardForRow
    <3>. QED BY <1>2, <2>2, <3>3 DEF CurrentIs
  <2>3. ASSUME \A b \in Bucket : holds[b] # r
        PROVE  Current(r)' = Current(r)
    <3>1. \A b \in Bucket : holds'[b] # r
      BY <1>1, <1>5, <2>3 DEF ClaimEmpty, ClaimFilled, TypeOK, BucketType
    <3>. QED BY <1>2, <2>3, <3>1 DEF CurrentIs, EmptyRow
  <2>. QED BY <1>2, <1>5, <2>1, <2>2, <2>3 DEF CurrentIs
<1>. QED BY <1>4, <1>5

\* The history of a thread that does not move: it may see more.
SameAnswer(u) ==
  /\ result'[u] = result[u]
  /\ seen[u] \subseteq seen'[u]
  /\ disturbed[u] => disturbed'[u]

LEMMA StepOtherAnswers ==
  ASSUME TypeOK, HistoryType, NEW t \in Thread, Step(t), NEW u \in Thread, u # t
  PROVE  SameAnswer(u)
<1>. USE DEF TypeOK, CallType, HistoryType, SameAnswer, Decide, Remember, callVars
<1>1. CASE LoadItemCount(t)
  BY <1>1 DEF LoadItemCount
<1>2. CASE LoadPending(t)
  BY <1>2 DEF LoadPending
<1>3. CASE ReserveSlot(t)
  BY <1>3 DEF ReserveSlot
<1>4. CASE ReserveRetry(t)
  BY <1>4 DEF ReserveRetry
<1>5. CASE NextRowSequence(t)
  BY <1>5 DEF NextRowSequence
<1>6. CASE ReserveOffset(t)
  BY <1>6 DEF ReserveOffset
<1>7. CASE WriteBlock(t)
  BY <1>7 DEF WriteBlock
<1>8. CASE WriteBlockFails(t)
  BY <1>8 DEF WriteBlockFails
<1>9. CASE MissRow(t)
  BY <1>9 DEF MissRow
<1>10. CASE MissRowForPut(t)
  BY <1>10 DEF MissRowForPut
<1>11. CASE InsertSeesEmpty(t)
  BY <1>11 DEF InsertSeesEmpty
<1>12. CASE LoadFilled(t)
  BY <1>12 DEF LoadFilled
<1>13. CASE SeeWriting(t)
  BY <1>13 DEF SeeWriting, Retry
<1>14. CASE LoadIdent(t)
  BY <1>14 DEF LoadIdent
<1>15. CASE LoadOffset(t)
  BY <1>15 DEF LoadOffset
<1>16. CASE LoadSize(t)
  BY <1>16 DEF LoadSize
<1>17. CASE RecheckFilled(t)
  BY <1>17 DEF RecheckFilled
<1>18. CASE PassForeignIdent(t)
  BY <1>18 DEF PassForeignIdent, Advance
<1>19. CASE MatchRow(t)
  BY <1>19 DEF MatchRow
<1>20. CASE MatchForeignColumn(t)
  BY <1>20 DEF MatchForeignColumn, Advance
<1>21. CASE ReadCorruption(t)
  BY <1>21 DEF ReadCorruption
<1>22. CASE ReadFails(t)
  BY <1>22 DEF ReadFails
<1>23. CASE ReadValue(t)
  BY <1>23 DEF ReadValue
<1>24. CASE LoadRowEntries(t)
  BY <1>24 DEF LoadRowEntries
<1>25. CASE ClaimEmpty(t)
  BY <1>25 DEF ClaimEmpty
<1>26. CASE ClaimFilled(t)
  BY <1>26 DEF ClaimFilled
<1>27. CASE ClaimFails(t)
  BY <1>27 DEF ClaimFails, Retry
<1>28. CASE StoreIdent(t)
  BY <1>28 DEF StoreIdent
<1>29. CASE StoreOffset(t)
  BY <1>29 DEF StoreOffset
<1>30. CASE StoreSize(t)
  BY <1>30 DEF StoreSize
<1>31. CASE PublishBucket(t)
  BY <1>31 DEF PublishBucket
<1>32. CASE IncrementRowItemCount(t)
  BY <1>32 DEF IncrementRowItemCount
<1>33. CASE Return(t)
  BY <1>33 DEF Return
<1>. QED BY <1>1, <1>2, <1>3, <1>4, <1>5, <1>6, <1>7, <1>8, <1>9, <1>10,
    <1>11, <1>12, <1>13, <1>14, <1>15, <1>16, <1>17, <1>18, <1>19, <1>20,
    <1>21, <1>22, <1>23, <1>24, <1>25, <1>26, <1>27, <1>28, <1>29, <1>30,
    <1>31, <1>32, <1>33 DEF Step

LEMMA CallOtherAnswers ==
  ASSUME TypeOK, HistoryType, NEW t \in Thread, Call(t), NEW u \in Thread, u # t
  PROVE  SameAnswer(u)
<1>1. PICK r \in Row, kind \in Kinds, k \in Key, c \in Content,
           l \in {"loadItems", "loadState"} : Start(t, kind, r, k, c, l)
  BY CallStarts
<1>. QED BY <1>1 DEF Start, HistoryType, SameAnswer

-----------------------------------------------------------------------------
(* A thread that does not move keeps AnswerInv.                            *)

LEMMA OtherAnswer ==
  ASSUME ReadInv, StructureInv', NEW t \in Thread, Step(t) \/ Call(t),
         NEW u \in Thread, u # t, Same(u), SameAnswer(u)
  PROVE  AnswerInv(u)'
<1>1. /\ StructureInv /\ TypeOK /\ HistoryType /\ Effects(t)
      /\ AnswerInv(u) /\ AnswerInv(t) /\ SlotInv(u) /\ ThreadInv(u)
  BY StepEffects DEF ReadInv, LedgerInv, StructureInv
<1>2. /\ Here(u)' = Here(u) /\ RowOf(u)' = RowOf(u) /\ Storing(u)' = Storing(u)
      /\ Busy(u)' = Busy(u) /\ pc'[u] = pc[u] /\ mode'[u] = mode[u]
      /\ snap'[u] = snap[u] /\ offset'[u] = offset[u] /\ entries'[u] = entries[u]
      /\ call'[u] = call[u] /\ probe'[u] = probe[u]
  BY DEF Same, Here, RowOf, Storing, Busy, Slot
<1>3. pc[u] # "idle" => Here(u) \in Bucket /\ RowOf(u) \in Row /\ RowOf(u) # NoRow
  BY <1>1, HereType
<1>5. BlockInv(u)'
  <2>1. HasContent(RowOf(u), offset[u], entries[u]) =>
          HasContent(RowOf(u), offset[u], entries[u])'
    BY <1>1, <1>2 DEF Effects, HasContent, ShardForRow
  <2>. QED BY <1>1, <1>2, <2>1 DEF AnswerInv, BlockInv
<1>6. FindInv(u)'
  <2>1. pc[u] # "idle" /\ Passed(u) => Passed(u)'
    <3>1. ASSUME pc[u] # "idle", Passed(u), NEW j \in 0 .. probe[u] - 1
          PROVE  holds'[Slot(RowOf(u), j)] \notin {NoRow, RowOf(u)}
      <4>1. j \in Bucket
        BY <1>1, <3>1 DEF TypeOK, WalkType
      <4>. QED BY <1>1, <1>3, <3>1, <4>1, SlotInTable DEF Passed, Effects
    <3>. QED BY <1>2, <3>1 DEF Passed, Slot
  <2>2. pc[u] # "idle" /\ holds[Here(u)] = RowOf(u) => holds'[Here(u)] = RowOf(u)
    BY <1>1, <1>3 DEF Effects
  <2>. QED BY <1>1, <1>2, <2>1, <2>2 DEF AnswerInv, FindInv, Walking
<1>7. ASSUME pc[u] \in Looking \cup {"readValue", "loadBlock"}
      PROVE  holds[Here(u)] # NoRow /\ holds'[Here(u)] = holds[Here(u)]
  <2>1. holds[Here(u)] # NoRow
    BY <1>1, <1>3, <1>7
       DEF ThreadInv, ReaderInv, Good, Looking, AnswerInv, FindInv, SlotInv
  <2>. QED BY <1>1, <1>3, <1>7, <2>1 DEF Effects, Looking
<1>8. Busy(u) => Current(RowOf(u))' \in seen'[u]
  <2> SUFFICES ASSUME Busy(u) PROVE Current(RowOf(u))' \in seen'[u]
    OBVIOUS
  <2>1. RowOf(u) \in Row /\ Current(RowOf(u)) \in seen[u]
    BY <1>1, <1>3 DEF Busy, AnswerInv, SeenInv
  <2>2. CASE ~ClaimEmpty(t) /\ ~ClaimFilled(t)
    <3>1. \A r \in Row : Current(r)' = Current(r)
      BY <1>1, <2>2, CurrentStays DEF AnswerInv
    <3>2. Current(RowOf(u))' = Current(RowOf(u))
      BY <1>2, <2>1, <3>1 DEF RowOf, Same
    <3>. QED BY <2>1, <3>2 DEF SameAnswer
  <2>3. CASE Step(t) /\ (ClaimEmpty(t) \/ ClaimFilled(t))
    <3>1. \A r \in Row : Current(r)' = IF r = RowOf(t) THEN entries[t] ELSE Current(r)
      BY <1>1, <2>3, CurrentClaim
    <3>2. RowOf(u) = RowOf(t) => entries[t] \in seen'[u]
      BY <2>3 DEF ClaimEmpty, ClaimFilled, Remember
    <3>. QED BY <1>2, <2>1, <3>1, <3>2 DEF SameAnswer
  <2>4. ClaimEmpty(t) \/ ClaimFilled(t) => Step(t)
    BY DEF Step
  <2>. QED BY <2>2, <2>3, <2>4
<1>9. SeenInv(u)'
  <2>1. ASSUME pc[u] \in {"loadIdent", "loadOffset"}, holds'[Here(u)] = RowOf(u)
        PROVE  \E c \in seen'[u] : HasContent(RowOf(u), blockOffset[Here(u)], c)'
    <3>1. holds[Here(u)] = RowOf(u) /\ Here(u) \in Bucket /\ RowOf(u) \in Row
      BY <1>3, <1>7, <2>1 DEF Looking
    <3>2. CASE blockOffset'[Here(u)] = blockOffset[Here(u)]
      <4>1. PICK c \in seen[u] : HasContent(RowOf(u), blockOffset[Here(u)], c)
        BY <1>1, <2>1, <3>1 DEF AnswerInv, SeenInv
      <4>2. HasContent(RowOf(u), blockOffset[Here(u)], c)'
        BY <1>1, <1>2, <3>2, <4>1 DEF Effects, HasContent, ShardForRow
      <4>. QED BY <4>1, <4>2 DEF SameAnswer
    <3>3. CASE StoreOffset(t) /\ Here(u) = Here(t)
      <4>1. Storing(t) /\ holds[Here(t)] = RowOf(t)
        BY <1>1, <3>3 DEF StoreOffset, Storing, StructureInv, ThreadInv, StoreInv
      <4>2. RowOf(t) = RowOf(u)
        BY <3>1, <3>3, <4>1
      <4>3. Current(RowOf(u)) = entries[t]
        <5>1. CurrentIs(RowOf(u))
          BY <1>1, <3>1, CurrentMeaning DEF CurrentFacts
        <5>. QED BY <4>1, <4>2, <5>1 DEF CurrentIs
      <4>4. Busy(u)
        BY <2>1 DEF Busy
      <4>5. entries[t] \in seen[u]
        BY <1>1, <4>3, <4>4 DEF AnswerInv, SeenInv
      <4>6. HasContent(RowOf(t), offset[t], entries[t])
        BY <1>1, <4>1 DEF AnswerInv, BlockInv
      <4>7. blockOffset'[Here(u)] = offset[t]
        BY <1>1, <3>1, <3>3 DEF StoreOffset, TypeOK, BucketType
      <4>8. HasContent(RowOf(u), blockOffset[Here(u)], entries[t])'
        <5>1. entries' = entries
          BY <3>3 DEF StoreOffset, blockVars
        <5>. QED BY <1>1, <1>2, <4>2, <4>6, <4>7, <5>1
                 DEF Effects, HasContent, ShardForRow
      <4>9. entries' = entries
        BY <3>3 DEF StoreOffset, blockVars
      <4>. QED BY <4>5, <4>8, <4>9 DEF SameAnswer
    <3>. QED BY <1>1, <3>1, <3>2, <3>3 DEF Effects
  <2>2. ASSUME pc[u] \in {"loadSize", "recheck", "match", "readValue", "loadBlock"},
               holds'[Here(u)] = RowOf(u)
        PROVE  \E c \in seen'[u] : HasContent(RowOf(u), snap[u].offset, c)'
    <3>1. holds[Here(u)] = RowOf(u)
      BY <1>7, <2>2 DEF Looking
    <3>2. PICK c \in seen[u] : HasContent(RowOf(u), snap[u].offset, c)
      BY <1>1, <2>2, <3>1 DEF AnswerInv, SeenInv
    <3>3. HasContent(RowOf(u), snap[u].offset, c)'
      BY <1>1, <1>2, <3>2 DEF Effects, HasContent, ShardForRow
    <3>. QED BY <3>2, <3>3 DEF SameAnswer
  <2>. QED BY <1>2, <1>8, <2>1, <2>2 DEF SeenInv
<1>10. StillInv(u)'
  <2> SUFFICES ASSUME pc[u] \in Looking \cup {"loadBlock"}, ~disturbed'[u],
                      IdentOf[holds'[Here(u)]] = IdentOf[RowOf(u)]
               PROVE  /\ state'[Here(u)] = "Filled"
                      /\ blockOffset'[Here(u)] = blockOffset[Here(u)]
                      /\ blockSize'[Here(u)] = blockSize[Here(u)]
    BY <1>1, <1>2, <1>7 DEF AnswerInv, StillInv, SameAnswer
  <2>1. holds'[Here(u)] = holds[Here(u)] /\ Here(u) \in Bucket
    BY <1>3, <1>7 DEF Looking
  <2>2. state[Here(u)] = "Filled"
    BY <1>1, <2>1 DEF AnswerInv, StillInv, SameAnswer
  <2>3. ~(ClaimFilled(t) /\ Here(u) = Here(t))
    <3>1. SUFFICES ASSUME ClaimFilled(t), Here(u) = Here(t) PROVE FALSE
      OBVIOUS
    <3>2. holds[Here(t)] = RowOf(t)
      BY <3>1 DEF ClaimFilled, ReadInv, LedgerInv, StructureInv, ThreadInv, ReaderInv
    <3>3. Busy(u)
      BY DEF Busy, Looking
    <3>. QED BY <2>1, <3>1, <3>2, <3>3 DEF ClaimFilled, Remember
  <2>. QED BY <1>1, <2>1, <2>2, <2>3 DEF Effects
<1>11. ResultInv(u)'
  BY <1>1, <1>2 DEF AnswerInv, ResultInv, SameAnswer
<1>. QED BY <1>5, <1>6, <1>9, <1>10, <1>11 DEF AnswerInv

-----------------------------------------------------------------------------
(* What the moving thread knows after its step.                            *)

LEMMA StepBlock ==
  ASSUME ReadInv, NEW t \in Thread, Step(t)
  PROVE  BlockInv(t)'
<1>1. TypeOK /\ BlockInv(t) /\ InsertInv(t) /\ file \subseteq file'
  BY StepEffects DEF ReadInv, LedgerInv, StructureInv, ThreadInv, AnswerInv, Effects
<1>2. ASSUME UNCHANGED <<call, offset, entries>>,
             HasContent(RowOf(t), offset[t], entries[t])
      PROVE  HasContent(RowOf(t), offset[t], entries[t])'
  BY <1>1, <1>2 DEF HasContent, ShardForRow, RowOf
<1>. USE DEF TypeOK, PcType, WalkType, Goto, Decide, Storing, Walking, BlockInv,
             InsertInv, walkVars, blockVars, callVars
<1>3. CASE LoadItemCount(t)
  BY <1>3, <1>1, <1>2 DEF LoadItemCount
<1>4. CASE LoadPending(t)
  BY <1>4, <1>1, <1>2 DEF LoadPending
<1>5. CASE ReserveSlot(t)
  BY <1>5, <1>1, <1>2 DEF ReserveSlot
<1>6. CASE ReserveRetry(t)
  BY <1>6, <1>1, <1>2 DEF ReserveRetry
<1>7. CASE NextRowSequence(t)
  BY <1>7, <1>1, <1>2 DEF NextRowSequence
<1>8. CASE ReserveOffset(t)
  BY <1>8, <1>1, <1>2 DEF ReserveOffset
<1>9. CASE WriteBlock(t)
  <2>1. NewBlock(t) \in file' /\ UNCHANGED <<call, offset, entries>>
    BY <1>9 DEF WriteBlock
  <2>2. \E x \in file' : /\ x.shard = ShardForRow(RowOf(t)) /\ x.offset = offset[t]
                         /\ x.row = RowOf(t) /\ x.entries = entries[t]
    BY <2>1 DEF NewBlock
  <2>3. HasContent(RowOf(t), offset[t], entries[t])'
    BY <2>1, <2>2 DEF HasContent, ShardForRow, RowOf
  <2>. QED BY <2>3
<1>10. CASE WriteBlockFails(t)
  BY <1>10, <1>1, <1>2 DEF WriteBlockFails
<1>11. CASE MissRow(t)
  BY <1>11, <1>1, <1>2 DEF MissRow
<1>12. CASE MissRowForPut(t)
  BY <1>12, <1>1, <1>2 DEF MissRowForPut
<1>13. CASE InsertSeesEmpty(t)
  BY <1>13, <1>1, <1>2 DEF InsertSeesEmpty
<1>14. CASE LoadFilled(t)
  BY <1>14, <1>1, <1>2 DEF LoadFilled
<1>15. CASE SeeWriting(t)
  BY <1>15, <1>1, <1>2 DEF SeeWriting, Retry
<1>16. CASE LoadIdent(t)
  BY <1>16, <1>1, <1>2 DEF LoadIdent
<1>17. CASE LoadOffset(t)
  BY <1>17, <1>1, <1>2 DEF LoadOffset
<1>18. CASE LoadSize(t)
  BY <1>18, <1>1, <1>2 DEF LoadSize
<1>19. CASE RecheckFilled(t)
  BY <1>19, <1>1, <1>2 DEF RecheckFilled
<1>20. CASE PassForeignIdent(t)
  BY <1>20, <1>1, <1>2 DEF PassForeignIdent, Advance
<1>21. CASE MatchRow(t)
  BY <1>21, <1>1, <1>2 DEF MatchRow
<1>22. CASE MatchForeignColumn(t)
  BY <1>22, <1>1, <1>2 DEF MatchForeignColumn, Advance
<1>23. CASE ReadCorruption(t)
  BY <1>23, <1>1, <1>2 DEF ReadCorruption
<1>24. CASE ReadFails(t)
  BY <1>24, <1>1, <1>2 DEF ReadFails
<1>25. CASE ReadValue(t)
  BY <1>25, <1>1, <1>2 DEF ReadValue
<1>26. CASE LoadRowEntries(t)
  BY <1>26, <1>1, <1>2 DEF LoadRowEntries
<1>27. CASE ClaimEmpty(t)
  BY <1>27, <1>1, <1>2 DEF ClaimEmpty
<1>28. CASE ClaimFilled(t)
  BY <1>28, <1>1, <1>2 DEF ClaimFilled
<1>29. CASE ClaimFails(t)
  BY <1>29, <1>1, <1>2 DEF ClaimFails, Retry
<1>30. CASE StoreIdent(t)
  BY <1>30, <1>1, <1>2 DEF StoreIdent
<1>31. CASE StoreOffset(t)
  BY <1>31, <1>1, <1>2 DEF StoreOffset
<1>32. CASE StoreSize(t)
  BY <1>32, <1>1, <1>2 DEF StoreSize
<1>33. CASE PublishBucket(t)
  BY <1>33, <1>1, <1>2 DEF PublishBucket
<1>34. CASE IncrementRowItemCount(t)
  BY <1>34, <1>1, <1>2 DEF IncrementRowItemCount
<1>35. CASE Return(t)
  BY <1>35, <1>1, <1>2 DEF Return
<1>. QED BY <1>3, <1>4, <1>5, <1>6, <1>7, <1>8, <1>9, <1>10, <1>11, <1>12,
    <1>13, <1>14, <1>15, <1>16, <1>17, <1>18, <1>19, <1>20, <1>21, <1>22,
    <1>23, <1>24, <1>25, <1>26, <1>27, <1>28, <1>29, <1>30, <1>31, <1>32,
    <1>33, <1>34, <1>35 DEF Step

LEMMA StepFind ==
  ASSUME ReadInv, NEW t \in Thread, Step(t)
  PROVE  FindInv(t)'
<1>1. /\ TypeOK /\ StructureInv /\ FindInv(t) /\ ThreadInv(t)
      /\ pc[t] = "loadBlock" => mode[t] = "load"
  BY DEF ReadInv, LedgerInv, StructureInv, AnswerInv, SlotInv
<1>2. ASSUME UNCHANGED <<call, probe, holds>>, Passed(t)
      PROVE  Passed(t)'
  BY <1>2 DEF Passed, RowOf, Slot
<1>3. ASSUME Retry(t), mode[t] # "load"
      PROVE  Passed(t)'
  BY <1>1, <1>3 DEF Retry, Passed, TypeOK, WalkType
<1>4. UNCHANGED <<call, probe>> => Here(t)' = Here(t) /\ RowOf(t)' = RowOf(t)
  BY DEF Here, RowOf, Slot
<1>5. ASSUME Advance(t), pc[t] \in {"recheck", "match"}, holds[Here(t)] # RowOf(t)
      PROVE  FindInv(t)'
  <2>1. /\ UNCHANGED <<call, holds, mode>>
        /\ \/ pc'[t] = "loadState" /\ probe'[t] = probe[t] + 1
           \/ pc'[t] = "return"
    BY <1>1, <1>5 DEF Advance, Goto, Decide, TypeOK, PcType, WalkType, bucketVars
  <2>2. holds[Here(t)] # NoRow
    BY <1>1, <1>5 DEF ThreadInv, ReaderInv, Good
  <2>3. mode[t] # "load"
    BY <1>1, <1>5 DEF FindInv, Walking
  <2>4. ASSUME pc'[t] = "loadState", mode[t] = "find"
        PROVE  Passed(t)'
    <3>1. Passed(t) /\ probe[t] \in Nat
      BY <1>1, <1>5, <2>4 DEF FindInv, Walking, TypeOK, WalkType
    <3>2. \A j \in 0 .. probe[t] :
            holds[Slot(RowOf(t), j)] \notin {NoRow, RowOf(t)}
      <4>1. holds[Slot(RowOf(t), probe[t])] \notin {NoRow, RowOf(t)}
        BY <1>5, <2>2 DEF Here
      <4>2. \A j \in 0 .. probe[t] - 1 :
              holds[Slot(RowOf(t), j)] \notin {NoRow, RowOf(t)}
        BY <3>1 DEF Passed
      <4>. QED BY <3>1, <4>1, <4>2
    <3>3. RowOf(t)' = RowOf(t) /\ UNCHANGED holds /\ 0 .. probe'[t] - 1 = 0 .. probe[t]
      BY <2>1, <2>4, <3>1 DEF RowOf
    <3>. QED BY <3>2, <3>3 DEF Passed, Slot
  <2>. QED BY <1>1, <2>1, <2>3, <2>4 DEF FindInv, Walking, TypeOK, WalkType
<1>. USE DEF TypeOK, PcType, WalkType, Goto, Decide, Walking, FindInv, bucketVars,
             walkVars, callVars
<1>6. CASE LoadItemCount(t)
  BY <1>6, <1>1, <1>2, <1>4 DEF LoadItemCount
<1>7. CASE LoadPending(t)
  BY <1>7, <1>1, <1>2, <1>4 DEF LoadPending
<1>8. CASE ReserveSlot(t)
  BY <1>8, <1>1, <1>2, <1>4 DEF ReserveSlot
<1>9. CASE ReserveRetry(t)
  BY <1>9, <1>1, <1>2, <1>4 DEF ReserveRetry
<1>10. CASE NextRowSequence(t)
  BY <1>10, <1>1, <1>2, <1>4 DEF NextRowSequence
<1>11. CASE ReserveOffset(t)
  BY <1>11, <1>1, <1>2, <1>4 DEF ReserveOffset
<1>12. CASE WriteBlock(t)
  BY <1>12, <1>1, <1>2, <1>4 DEF WriteBlock
<1>13. CASE WriteBlockFails(t)
  BY <1>13, <1>1, <1>2, <1>4 DEF WriteBlockFails
<1>14. CASE MissRow(t)
  BY <1>14, <1>1, <1>2, <1>4 DEF MissRow
<1>15. CASE MissRowForPut(t)
  BY <1>15, <1>1, <1>2, <1>4 DEF MissRowForPut
<1>16. CASE InsertSeesEmpty(t)
  BY <1>16, <1>1, <1>2, <1>4 DEF InsertSeesEmpty
<1>17. CASE LoadFilled(t)
  BY <1>17, <1>1, <1>2, <1>4 DEF LoadFilled
<1>18. CASE SeeWriting(t)
  <2>1. /\ Retry(t) /\ pc[t] \in Walking /\ pc'[t] = "loadState"
        /\ UNCHANGED <<call, holds, mode>>
    BY <1>1, <1>18 DEF SeeWriting, Retry
  <2>2. CASE mode[t] = "load"
    <3>1. UNCHANGED probe
      BY <1>1, <2>1, <2>2 DEF Retry
    <3>. QED BY <1>1, <1>4, <2>1, <2>2, <3>1
  <2>3. CASE mode[t] # "load"
    BY <1>1, <1>3, <2>1, <2>3
  <2>. QED BY <2>2, <2>3
<1>19. CASE LoadIdent(t)
  BY <1>19, <1>1, <1>2, <1>4 DEF LoadIdent
<1>20. CASE LoadOffset(t)
  BY <1>20, <1>1, <1>2, <1>4 DEF LoadOffset
<1>21. CASE LoadSize(t)
  BY <1>21, <1>1, <1>2, <1>4 DEF LoadSize
<1>22. CASE RecheckFilled(t)
  <2>1. UNCHANGED <<call, probe, holds, snap, mode>>
    BY <1>22 DEF RecheckFilled
  <2>2. mode[t] = "load" => snap[t].ident = IdentOf[RowOf(t)]
    BY <1>1, <1>22 DEF RecheckFilled, ThreadInv, ReaderInv
  <2>. QED BY <1>1, <1>2, <1>4, <1>22, <2>1, <2>2 DEF RecheckFilled
<1>23. CASE PassForeignIdent(t)
  <2>1. pc[t] = "recheck" /\ holds[Here(t)] # RowOf(t)
    BY <1>1, <1>23 DEF PassForeignIdent, ThreadInv, ReaderInv
  <2>. QED BY <1>5, <1>23, <2>1 DEF PassForeignIdent
<1>24. CASE MatchRow(t)
  <2>1. pc[t] = "match" /\ holds[Here(t)] = RowOf(t)
    BY <1>1, <1>24, SnapshotRow DEF MatchRow
  <2>2. UNCHANGED <<call, probe, holds, snap>>
    BY <1>24 DEF MatchRow
  <2>. QED BY <1>1, <1>2, <1>4, <1>24, <2>1, <2>2 DEF MatchRow
<1>25. CASE MatchForeignColumn(t)
  <2>1. pc[t] = "match" /\ holds[Here(t)] # RowOf(t)
    BY <1>1, <1>25, SnapshotRow DEF MatchForeignColumn
  <2>. QED BY <1>5, <1>25, <2>1 DEF MatchForeignColumn
<1>26. CASE ReadCorruption(t)
  BY <1>26, <1>1, <1>2, <1>4 DEF ReadCorruption
<1>27. CASE ReadFails(t)
  BY <1>27, <1>1, <1>2, <1>4 DEF ReadFails
<1>28. CASE ReadValue(t)
  BY <1>28, <1>1, <1>2, <1>4 DEF ReadValue
<1>29. CASE LoadRowEntries(t)
  BY <1>29, <1>1, <1>2, <1>4 DEF LoadRowEntries
<1>30. CASE ClaimEmpty(t)
  BY <1>30, <1>1, <1>2, <1>4 DEF ClaimEmpty
<1>31. CASE ClaimFilled(t)
  BY <1>31, <1>1, <1>2, <1>4 DEF ClaimFilled
<1>32. CASE ClaimFails(t)
  <2>1. /\ Retry(t) /\ pc[t] \in Walking /\ pc'[t] = "loadState"
        /\ UNCHANGED <<call, holds, mode>>
    BY <1>1, <1>32 DEF ClaimFails, Retry
  <2>2. CASE mode[t] = "load"
    <3>1. UNCHANGED probe
      BY <1>1, <2>1, <2>2 DEF Retry
    <3>. QED BY <1>1, <1>4, <2>1, <2>2, <3>1
  <2>3. CASE mode[t] # "load"
    BY <1>1, <1>3, <2>1, <2>3
  <2>. QED BY <2>2, <2>3
<1>33. CASE StoreIdent(t)
  BY <1>33, <1>1, <1>2, <1>4 DEF StoreIdent
<1>34. CASE StoreOffset(t)
  BY <1>34, <1>1, <1>2, <1>4 DEF StoreOffset
<1>35. CASE StoreSize(t)
  BY <1>35, <1>1, <1>2, <1>4 DEF StoreSize
<1>36. CASE PublishBucket(t)
  BY <1>36, <1>1, <1>2, <1>4 DEF PublishBucket
<1>37. CASE IncrementRowItemCount(t)
  BY <1>37, <1>1, <1>2, <1>4 DEF IncrementRowItemCount
<1>38. CASE Return(t)
  BY <1>38, <1>1, <1>2, <1>4 DEF Return
<1>. QED BY <1>6, <1>7, <1>8, <1>9, <1>10, <1>11, <1>12, <1>13, <1>14,
    <1>15, <1>16, <1>17, <1>18, <1>19, <1>20, <1>21, <1>22, <1>23, <1>24,
    <1>25, <1>26, <1>27, <1>28, <1>29, <1>30, <1>31, <1>32, <1>33, <1>34,
    <1>35, <1>36, <1>37, <1>38 DEF Step

\* Only a claim adds to what a call has seen, and only Return ends a call.
LEMMA StepSeen ==
  ASSUME TypeOK, NEW t \in Thread, Step(t)
  PROVE  \/ Return(t) /\ ~Busy(t)'
         \/ /\ Busy(t) /\ UNCHANGED call
            /\ ClaimEmpty(t) \/ ClaimFilled(t) \/ UNCHANGED seen
<1>. USE DEF TypeOK, PcType, Goto, Decide, Busy, callVars
<1>1. CASE LoadItemCount(t)
  BY <1>1 DEF LoadItemCount
<1>2. CASE LoadPending(t)
  BY <1>2 DEF LoadPending
<1>3. CASE ReserveSlot(t)
  BY <1>3 DEF ReserveSlot
<1>4. CASE ReserveRetry(t)
  BY <1>4 DEF ReserveRetry
<1>5. CASE NextRowSequence(t)
  BY <1>5 DEF NextRowSequence
<1>6. CASE ReserveOffset(t)
  BY <1>6 DEF ReserveOffset
<1>7. CASE WriteBlock(t)
  BY <1>7 DEF WriteBlock
<1>8. CASE WriteBlockFails(t)
  BY <1>8 DEF WriteBlockFails
<1>9. CASE MissRow(t)
  BY <1>9 DEF MissRow
<1>10. CASE MissRowForPut(t)
  BY <1>10 DEF MissRowForPut
<1>11. CASE InsertSeesEmpty(t)
  BY <1>11 DEF InsertSeesEmpty
<1>12. CASE LoadFilled(t)
  BY <1>12 DEF LoadFilled
<1>13. CASE SeeWriting(t)
  BY <1>13 DEF SeeWriting, Retry
<1>14. CASE LoadIdent(t)
  BY <1>14 DEF LoadIdent
<1>15. CASE LoadOffset(t)
  BY <1>15 DEF LoadOffset
<1>16. CASE LoadSize(t)
  BY <1>16 DEF LoadSize
<1>17. CASE RecheckFilled(t)
  BY <1>17 DEF RecheckFilled
<1>18. CASE PassForeignIdent(t)
  BY <1>18 DEF PassForeignIdent, Advance
<1>19. CASE MatchRow(t)
  BY <1>19 DEF MatchRow
<1>20. CASE MatchForeignColumn(t)
  BY <1>20 DEF MatchForeignColumn, Advance
<1>21. CASE ReadCorruption(t)
  BY <1>21 DEF ReadCorruption
<1>22. CASE ReadFails(t)
  BY <1>22 DEF ReadFails
<1>23. CASE ReadValue(t)
  BY <1>23 DEF ReadValue
<1>24. CASE LoadRowEntries(t)
  BY <1>24 DEF LoadRowEntries
<1>25. CASE ClaimEmpty(t)
  BY <1>25 DEF ClaimEmpty
<1>26. CASE ClaimFilled(t)
  BY <1>26 DEF ClaimFilled
<1>27. CASE ClaimFails(t)
  BY <1>27 DEF ClaimFails, Retry
<1>28. CASE StoreIdent(t)
  BY <1>28 DEF StoreIdent
<1>29. CASE StoreOffset(t)
  BY <1>29 DEF StoreOffset
<1>30. CASE StoreSize(t)
  BY <1>30 DEF StoreSize
<1>31. CASE PublishBucket(t)
  BY <1>31 DEF PublishBucket
<1>32. CASE IncrementRowItemCount(t)
  BY <1>32 DEF IncrementRowItemCount
<1>33. CASE Return(t)
  BY <1>33 DEF Return
<1>. QED BY <1>1, <1>2, <1>3, <1>4, <1>5, <1>6, <1>7, <1>8, <1>9, <1>10,
    <1>11, <1>12, <1>13, <1>14, <1>15, <1>16, <1>17, <1>18, <1>19, <1>20,
    <1>21, <1>22, <1>23, <1>24, <1>25, <1>26, <1>27, <1>28, <1>29, <1>30,
    <1>31, <1>32, <1>33 DEF Step

LEMMA StepCurrent ==
  ASSUME ReadInv, StructureInv', NEW t \in Thread, Step(t)
  PROVE  Busy(t)' => Current(RowOf(t))' \in seen'[t]
<1>1. TypeOK /\ StructureInv /\ HistoryType /\ BlockInv(t) /\ SeenInv(t)
  BY DEF ReadInv, LedgerInv, StructureInv, AnswerInv
<1>2. \/ Return(t) /\ ~Busy(t)'
      \/ /\ Busy(t) /\ UNCHANGED call
         /\ ClaimEmpty(t) \/ ClaimFilled(t) \/ UNCHANGED seen
  BY <1>1, StepSeen
<1>3. CASE Busy(t) /\ UNCHANGED call
  <2>1. RowOf(t)' = RowOf(t) /\ RowOf(t) \in Row /\ Current(RowOf(t)) \in seen[t]
    BY <1>1, <1>3, HereType DEF RowOf, Busy, SeenInv
  <2>2. CASE ~ClaimEmpty(t) /\ ~ClaimFilled(t)
    <3>1. \A r \in Row : Current(r)' = Current(r)
      BY <1>1, <2>2, CurrentStays
    <3>. QED BY <1>2, <2>1, <2>2, <3>1 DEF Busy
  <2>3. CASE ClaimEmpty(t) \/ ClaimFilled(t)
    <3>1. \A r \in Row : Current(r)' = IF r = RowOf(t) THEN entries[t] ELSE Current(r)
      BY <1>1, <2>3, CurrentClaim
    <3>2. entries[t] \in seen'[t]
      BY <1>3, <2>3 DEF ClaimEmpty, ClaimFilled, Remember
    <3>. QED BY <2>1, <3>1, <3>2
  <2>. QED BY <2>2, <2>3
<1>. QED BY <1>2, <1>3

\* The steps that take, or keep, a snapshot.
LEMMA StepToSnapshot ==
  ASSUME TypeOK, NEW t \in Thread, Step(t),
         pc'[t] \in {"loadIdent", "loadOffset", "loadSize", "recheck", "match",
                     "readValue", "loadBlock"}
  PROVE  \/ LoadFilled(t) \/ LoadIdent(t) \/ LoadOffset(t) \/ LoadSize(t)
         \/ RecheckFilled(t) \/ MatchRow(t)
<1>. USE DEF TypeOK, PcType, Goto, Decide
<1>1. CASE LoadItemCount(t)
  BY <1>1 DEF LoadItemCount
<1>2. CASE LoadPending(t)
  BY <1>2 DEF LoadPending
<1>3. CASE ReserveSlot(t)
  BY <1>3 DEF ReserveSlot
<1>4. CASE ReserveRetry(t)
  BY <1>4 DEF ReserveRetry
<1>5. CASE NextRowSequence(t)
  BY <1>5 DEF NextRowSequence
<1>6. CASE ReserveOffset(t)
  BY <1>6 DEF ReserveOffset
<1>7. CASE WriteBlock(t)
  BY <1>7 DEF WriteBlock
<1>8. CASE WriteBlockFails(t)
  BY <1>8 DEF WriteBlockFails
<1>9. CASE MissRow(t)
  BY <1>9 DEF MissRow
<1>10. CASE MissRowForPut(t)
  BY <1>10 DEF MissRowForPut
<1>11. CASE InsertSeesEmpty(t)
  BY <1>11 DEF InsertSeesEmpty
<1>12. CASE SeeWriting(t)
  BY <1>12 DEF SeeWriting, Retry
<1>13. CASE PassForeignIdent(t)
  BY <1>13 DEF PassForeignIdent, Advance
<1>14. CASE MatchForeignColumn(t)
  BY <1>14 DEF MatchForeignColumn, Advance
<1>15. CASE ReadCorruption(t)
  BY <1>15 DEF ReadCorruption
<1>16. CASE ReadFails(t)
  BY <1>16 DEF ReadFails
<1>17. CASE ReadValue(t)
  BY <1>17 DEF ReadValue
<1>18. CASE LoadRowEntries(t)
  BY <1>18 DEF LoadRowEntries
<1>19. CASE ClaimEmpty(t)
  BY <1>19 DEF ClaimEmpty
<1>20. CASE ClaimFilled(t)
  BY <1>20 DEF ClaimFilled
<1>21. CASE ClaimFails(t)
  BY <1>21 DEF ClaimFails, Retry
<1>22. CASE StoreIdent(t)
  BY <1>22 DEF StoreIdent
<1>23. CASE StoreOffset(t)
  BY <1>23 DEF StoreOffset
<1>24. CASE StoreSize(t)
  BY <1>24 DEF StoreSize
<1>25. CASE PublishBucket(t)
  BY <1>25 DEF PublishBucket
<1>26. CASE IncrementRowItemCount(t)
  BY <1>26 DEF IncrementRowItemCount
<1>27. CASE Return(t)
  BY <1>27 DEF Return
<1>. QED BY <1>1, <1>2, <1>3, <1>4, <1>5, <1>6, <1>7, <1>8, <1>9, <1>10,
    <1>11, <1>12, <1>13, <1>14, <1>15, <1>16, <1>17, <1>18, <1>19, <1>20,
    <1>21, <1>22, <1>23, <1>24, <1>25, <1>26, <1>27 DEF Step

LEMMA StepSeenInv ==
  ASSUME ReadInv, StructureInv', NEW t \in Thread, Step(t)
  PROVE  SeenInv(t)'
<1>1. TypeOK /\ StructureInv /\ SeenInv(t) /\ ThreadInv(t)
  BY DEF ReadInv, LedgerInv, StructureInv, AnswerInv
<1>2. Busy(t)' => Current(RowOf(t))' \in seen'[t]
  BY StepCurrent
<1>3. ASSUME Quiet(t), UNCHANGED <<call, probe, seen>>
      PROVE  /\ Here(t)' = Here(t) /\ RowOf(t)' = RowOf(t)
             /\ UNCHANGED <<holds, blockOffset, file>>
             /\ \A c : HasContent(RowOf(t), blockOffset[Here(t)], c) =>
                         HasContent(RowOf(t), blockOffset[Here(t)], c)'
             /\ \A n, c : HasContent(RowOf(t), n, c) /\ snap'[t].offset = n =>
                            HasContent(RowOf(t), snap[t].offset, c)'
  BY <1>3 DEF Quiet, bucketVars, fileVars, Here, RowOf, Slot, HasContent, ShardForRow
<1> DEFINE Old == \E c \in seen[t] : HasContent(RowOf(t), blockOffset[Here(t)], c)
           Snapped == \E c \in seen[t] : HasContent(RowOf(t), snap[t].offset, c)
<1>4. ASSUME LoadFilled(t), holds[Here(t)] = RowOf(t)
      PROVE  Old
  <2>1. /\ RowOf(t) \in Row /\ Here(t) \in Bucket /\ state[Here(t)] = "Filled"
        /\ Busy(t)
    BY <1>1, <1>4, HereType DEF LoadFilled, Busy
  <2>2. PICK x \in file : /\ x.shard = ShardForRow(RowOf(t))
                         /\ x.offset = blockOffset[Here(t)] /\ x.row = RowOf(t)
    BY <1>1, <1>4, <2>1 DEF StructureInv, BucketInv, FilledGood, Good, HasBlock
  <2>3. x.entries \in Content
    BY <1>1 DEF TypeOK, FileType, Block
  <2>4. Published(RowOf(t), Here(t), x.entries)
    BY <1>4, <2>1, <2>2 DEF Published, HasContent
  <2>5. Current(RowOf(t)) = x.entries
    BY <1>1, <2>1, <2>3, <2>4, CurrentMeaning DEF CurrentFacts, CurrentIs
  <2>. QED BY <1>1, <2>1, <2>4, <2>5 DEF SeenInv, Published
<1>5. CASE LoadFilled(t)
  <2>1. /\ Quiet(t) /\ UNCHANGED <<call, probe, seen>> /\ pc'[t] = "loadIdent"
    BY <1>1, <1>5 DEF LoadFilled, Quiet, Storing, Goto, TypeOK, PcType, walkVars, callVars
  <2>. QED BY <1>2, <1>3, <1>4, <1>5, <2>1 DEF SeenInv
<1>6. CASE LoadIdent(t)
  <2>1. /\ Quiet(t) /\ UNCHANGED <<call, probe, seen>>
        /\ pc[t] = "loadIdent" /\ pc'[t] = "loadOffset"
    BY <1>1, <1>6 DEF LoadIdent, Quiet, Storing, Goto, TypeOK, PcType, callVars
  <2>2. holds[Here(t)] = RowOf(t) => Old
    BY <1>1, <2>1 DEF SeenInv
  <2>. QED BY <1>2, <1>3, <2>1, <2>2 DEF SeenInv
<1>7. CASE LoadOffset(t)
  <2>1. /\ Quiet(t) /\ UNCHANGED <<call, probe, seen>>
        /\ pc[t] = "loadOffset" /\ pc'[t] = "loadSize"
        /\ snap'[t].offset = blockOffset[Here(t)]
    BY <1>1, <1>7 DEF LoadOffset, Quiet, Storing, Goto, TypeOK, PcType, WalkType, callVars
  <2>2. holds[Here(t)] = RowOf(t) => Old
    BY <1>1, <2>1 DEF SeenInv
  <2>. QED BY <1>2, <1>3, <2>1, <2>2 DEF SeenInv
<1>8. CASE LoadSize(t) \/ RecheckFilled(t)
  <2>1. /\ Quiet(t) /\ UNCHANGED <<call, probe, seen>>
        /\ pc[t] \in {"loadSize", "recheck"}
        /\ pc'[t] \in {"recheck", "match", "loadBlock"}
        /\ snap'[t].offset = snap[t].offset
    BY <1>1, <1>8 DEF LoadSize, RecheckFilled, Quiet, Storing, Goto, TypeOK, PcType,
       WalkType, walkVars, callVars
  <2>2. holds[Here(t)] = RowOf(t) => Snapped
    BY <1>1, <2>1 DEF SeenInv
  <2>. QED BY <1>2, <1>3, <2>1, <2>2 DEF SeenInv
<1>9. CASE MatchRow(t)
  <2>1. /\ Quiet(t) /\ UNCHANGED <<call, probe, seen>>
        /\ pc[t] = "match" /\ pc'[t] \in {"claimFilled", "readValue", "loadState"}
        /\ snap'[t].offset = snap[t].offset
    BY <1>1, <1>9 DEF MatchRow, Quiet, Storing, Goto, TypeOK, PcType, WalkType, callVars
  <2>2. holds[Here(t)] = RowOf(t) => Snapped
    BY <1>1, <2>1 DEF SeenInv
  <2>. QED BY <1>2, <1>3, <2>1, <2>2 DEF SeenInv
<1>10. CASE pc'[t] \notin {"loadIdent", "loadOffset", "loadSize", "recheck", "match",
                           "readValue", "loadBlock"}
  BY <1>2, <1>10 DEF SeenInv
<1>. QED BY <1>1, <1>5, <1>6, <1>7, <1>8, <1>9, <1>10, StepToSnapshot

LEMMA StepStill ==
  ASSUME ReadInv, NEW t \in Thread, Step(t)
  PROVE  StillInv(t)'
<1>1. TypeOK /\ StillInv(t)
  BY DEF ReadInv, LedgerInv, StructureInv, AnswerInv
<1>2. ASSUME Quiet(t), UNCHANGED <<call, probe, disturbed>>
      PROVE  /\ Here(t)' = Here(t) /\ RowOf(t)' = RowOf(t)
             /\ UNCHANGED <<holds, state, blockOffset, blockSize, disturbed>>
  BY <1>2 DEF Quiet, bucketVars, Here, RowOf, Slot
<1>3. CASE LoadFilled(t)
  <2>1. /\ Quiet(t) /\ UNCHANGED <<call, probe, disturbed>> /\ pc'[t] = "loadIdent"
        /\ state[Here(t)] = "Filled"
    BY <1>1, <1>3 DEF LoadFilled, Quiet, Storing, Goto, TypeOK, PcType, walkVars, callVars
  <2>. QED BY <1>2, <2>1 DEF StillInv
<1>4. CASE LoadIdent(t)
  <2>1. /\ Quiet(t) /\ UNCHANGED <<call, probe, disturbed>>
        /\ pc[t] = "loadIdent" /\ pc'[t] = "loadOffset"
    BY <1>1, <1>4 DEF LoadIdent, Quiet, Storing, Goto, TypeOK, PcType, callVars
  <2>. QED BY <1>1, <1>2, <2>1 DEF StillInv, Looking
<1>5. CASE LoadOffset(t)
  <2>1. /\ Quiet(t) /\ UNCHANGED <<call, probe, disturbed>>
        /\ pc[t] = "loadOffset" /\ pc'[t] = "loadSize"
        /\ snap'[t].offset = blockOffset[Here(t)]
    BY <1>1, <1>5 DEF LoadOffset, Quiet, Storing, Goto, TypeOK, PcType, WalkType, callVars
  <2>. QED BY <1>1, <1>2, <2>1 DEF StillInv, Looking
<1>6. CASE LoadSize(t)
  <2>1. /\ Quiet(t) /\ UNCHANGED <<call, probe, disturbed>>
        /\ pc[t] = "loadSize" /\ pc'[t] = "recheck"
        /\ snap'[t].offset = snap[t].offset /\ snap'[t].size = blockSize[Here(t)]
    BY <1>1, <1>6 DEF LoadSize, Quiet, Storing, Goto, TypeOK, PcType, WalkType, callVars
  <2>. QED BY <1>1, <1>2, <2>1 DEF StillInv, Looking
<1>7. CASE RecheckFilled(t)
  <2>1. /\ Quiet(t) /\ UNCHANGED <<call, probe, disturbed, snap>>
        /\ pc[t] = "recheck" /\ pc'[t] \in {"match", "loadBlock"}
    BY <1>1, <1>7 DEF RecheckFilled, Quiet, Storing, Goto, TypeOK, PcType, walkVars,
       callVars
  <2>. QED BY <1>1, <1>2, <2>1 DEF StillInv, Looking
<1>8. CASE MatchRow(t)
  BY <1>1, <1>8 DEF MatchRow, Goto, TypeOK, PcType, StillInv, Looking
<1>9. CASE pc'[t] \notin Looking \cup {"loadBlock"}
  BY <1>9 DEF StillInv
<1>. QED BY <1>1, <1>3, <1>4, <1>5, <1>6, <1>7, <1>8, <1>9, StepToSnapshot DEF Looking

-----------------------------------------------------------------------------
(* The answers.                                                            *)

\* A bucket that did not change since the snapshot names a block that matches.
LEMMA UndisturbedMatches ==
  ASSUME ReadInv, NEW t \in Thread, pc[t] \in {"match", "loadBlock"}, ~disturbed[t]
  PROVE  \E x \in Matching(t) : x.row = holds[Here(t)]
<1>1. /\ StructureInv /\ TypeOK /\ FindInv(t) /\ StillInv(t) /\ ReaderInv(t)
      /\ pc[t] = "loadBlock" => mode[t] = "load"
  BY DEF ReadInv, LedgerInv, StructureInv, ThreadInv, AnswerInv, SlotInv
<1>2. snap[t].ident = IdentOf[RowOf(t)] /\ Here(t) \in Bucket
  BY <1>1, HereType DEF FindInv
<1>3. IdentOf[holds[Here(t)]] = IdentOf[RowOf(t)]
  BY <1>1, <1>2 DEF FindInv, ReaderInv
<1>4. /\ state[Here(t)] = "Filled" /\ snap[t].offset = blockOffset[Here(t)]
      /\ snap[t].size = blockSize[Here(t)]
  BY <1>1, <1>3 DEF StillInv, Looking
<1>5. HasSized(holds[Here(t)], blockOffset[Here(t)], blockSize[Here(t)])
  BY <1>1, <1>2, <1>4 DEF StructureInv, BucketInv, FilledGood
<1>. QED BY <1>2, <1>3, <1>4, <1>5 DEF HasSized, Matching, BlocksAt, ShardForRow

\* A lookup that meets an empty bucket has passed only other rows: its row is
\* absent.
LEMMA MissIsAbsent ==
  ASSUME ReadInv, NEW t \in Thread, pc[t] = "loadState", state[Here(t)] = "Empty",
         mode[t] # "insert"
  PROVE  mode[t] = "find" /\ Current(RowOf(t)) = EmptyRow /\ EmptyRow \in seen[t]
<1>1. StructureInv /\ TypeOK /\ FindInv(t) /\ SeenInv(t)
  BY DEF ReadInv, LedgerInv, StructureInv, AnswerInv
<1>2. RowOf(t) \in Row /\ RowOf(t) # NoRow /\ Here(t) \in Bucket
  BY <1>1, HereType
<1>3. mode[t] = "find"
  <2>1. holds[Here(t)] = NoRow
    BY <1>1, <1>2 DEF StructureInv, BucketInv, EmptyHolds
  <2>. QED BY <1>1, <1>2, <2>1 DEF FindInv, Walking, TypeOK, WalkType
<1>4. Passed(t)
  BY <1>1, <1>3 DEF FindInv, Walking
<1>5. \A b \in Bucket : holds[b] # RowOf(t)
  BY <1>1, <1>4, RowAbsent
<1>6. Current(RowOf(t)) = EmptyRow
  BY <1>1, <1>2, <1>5, CurrentMeaning DEF CurrentFacts, CurrentIs
<1>7. EmptyRow \in seen[t]
  BY <1>1, <1>6 DEF SeenInv, Busy
<1>. QED BY <1>3, <1>6, <1>7

\* The block that a read finds is one that its row had during the call.
LEMMA ValueIsCurrent ==
  ASSUME ReadInv, NEW t \in Thread, pc[t] \in {"readValue", "loadBlock"},
         NEW x \in Matching(t)
  PROVE  x.entries \in seen[t]
<1>1. /\ StructureInv /\ TypeOK /\ FindInv(t) /\ SeenInv(t)
      /\ pc[t] = "loadBlock" => mode[t] = "load"
  BY DEF ReadInv, LedgerInv, StructureInv, AnswerInv, SlotInv
<1>2. snap[t].ident = IdentOf[RowOf(t)] /\ holds[Here(t)] = RowOf(t)
  BY <1>1 DEF FindInv
<1>3. PICK c \in seen[t] : HasContent(RowOf(t), snap[t].offset, c)
  BY <1>1, <1>2 DEF SeenInv
<1>4. PICK y \in file : /\ y.shard = ShardForRow(RowOf(t)) /\ y.offset = snap[t].offset
                       /\ y.entries = c
  BY <1>3 DEF HasContent
<1>5. x \in file /\ x.shard = y.shard /\ x.offset = y.offset
  BY <1>2, <1>4 DEF Matching, BlocksAt, ShardForRow
<1>6. x = y
  BY <1>1, <1>4, <1>5, OneBlock DEF StructureInv
<1>. QED BY <1>3, <1>4, <1>6

LEMMA StepResult ==
  ASSUME ReadInv, NEW t \in Thread, Step(t)
  PROVE  ResultInv(t)'
<1>1. TypeOK /\ ResultInv(t) /\ InsertInv(t)
  BY DEF ReadInv, LedgerInv, StructureInv, ThreadInv, AnswerInv
<1>. USE DEF TypeOK, PcType, WalkType, CallType, Goto, Decide, Looking, ResultInv,
             NoResult, walkVars, callVars
<1>2. CASE LoadItemCount(t)
  BY <1>2, <1>1 DEF LoadItemCount
<1>3. CASE LoadPending(t)
  BY <1>3, <1>1 DEF LoadPending
<1>4. CASE ReserveSlot(t)
  BY <1>4, <1>1 DEF ReserveSlot
<1>5. CASE ReserveRetry(t)
  BY <1>5, <1>1 DEF ReserveRetry
<1>6. CASE NextRowSequence(t)
  BY <1>6, <1>1 DEF NextRowSequence
<1>7. CASE ReserveOffset(t)
  BY <1>7, <1>1 DEF ReserveOffset
<1>8. CASE WriteBlock(t)
  BY <1>8, <1>1 DEF WriteBlock
<1>9. CASE WriteBlockFails(t)
  BY <1>9, <1>1 DEF WriteBlockFails
<1>10. CASE MissRow(t)
  <2>1. mode[t] = "find" /\ \E c \in seen[t] : c[call[t].key] = NoVal
    <3>1. mode[t] = "find" /\ EmptyRow \in seen[t]
      BY <1>10, MissIsAbsent DEF MissRow
    <3>2. call[t].key \in Key
      BY <1>1
    <3>. QED BY <3>1, <3>2 DEF EmptyRow
  <2>2. /\ UNCHANGED <<call, mode, seen>> /\ pc'[t] = "return"
        /\ result'[t] = [status |-> "NotFound", value |-> NoVal]
    BY <1>1, <1>10, <2>1 DEF MissRow
  <2>. QED BY <1>1, <1>10, <2>1, <2>2 DEF MissRow
<1>11. CASE MissRowForPut(t)
  BY <1>11, <1>1 DEF MissRowForPut
<1>12. CASE InsertSeesEmpty(t)
  BY <1>12, <1>1 DEF InsertSeesEmpty
<1>13. CASE LoadFilled(t)
  BY <1>13, <1>1 DEF LoadFilled
<1>14. CASE SeeWriting(t)
  BY <1>14, <1>1 DEF SeeWriting, Retry
<1>15. CASE LoadIdent(t)
  BY <1>15, <1>1 DEF LoadIdent
<1>16. CASE LoadOffset(t)
  BY <1>16, <1>1 DEF LoadOffset
<1>17. CASE LoadSize(t)
  BY <1>17, <1>1 DEF LoadSize
<1>18. CASE RecheckFilled(t)
  BY <1>18, <1>1 DEF RecheckFilled
<1>19. CASE PassForeignIdent(t)
  BY <1>19, <1>1 DEF PassForeignIdent, Advance
<1>20. CASE MatchRow(t)
  BY <1>20, <1>1 DEF MatchRow
<1>21. CASE MatchForeignColumn(t)
  BY <1>21, <1>1 DEF MatchForeignColumn, Advance
<1>22. CASE ReadCorruption(t)
  <2>1. disturbed[t]
    <3>1. SUFFICES ASSUME ~disturbed[t] PROVE FALSE
      OBVIOUS
    <3>2. PICK x \in Matching(t) : x.row = holds[Here(t)]
      BY <1>22, <3>1, UndisturbedMatches DEF ReadCorruption
    <3>3. pc[t] = "loadBlock" /\ x.row # RowOf(t)
      BY <1>22 DEF ReadCorruption
    <3>4. holds[Here(t)] = RowOf(t)
      BY <3>3 DEF ReadInv, LedgerInv, AnswerInv, FindInv, SlotInv
    <3>. QED BY <3>2, <3>3, <3>4
  <2>. QED BY <1>1, <1>22, <2>1 DEF ReadCorruption
<1>23. CASE ReadFails(t)
  BY <1>23, <1>1 DEF ReadFails
<1>24. CASE ReadValue(t)
  <2>1. PICK x \in Matching(t) :
          LET v == x.entries[call[t].key] IN
          Decide(t, IF v = NoVal THEN "NotFound" ELSE "OK", v)
    BY <1>24 DEF ReadValue
  <2>2. /\ x.entries \in seen[t] /\ result'[t].value = x.entries[call[t].key]
        /\ pc'[t] = "return" /\ result'[t].status \in {"OK", "NotFound"}
    BY <1>1, <1>24, <2>1, ValueIsCurrent DEF ReadValue
  <2>3. UNCHANGED <<call, mode, seen>>
    BY <1>24 DEF ReadValue
  <2>. QED BY <1>1, <1>24, <2>2, <2>3 DEF ReadValue
<1>25. CASE LoadRowEntries(t)
  BY <1>25, <1>1 DEF LoadRowEntries
<1>26. CASE ClaimEmpty(t)
  BY <1>26, <1>1 DEF ClaimEmpty
<1>27. CASE ClaimFilled(t)
  BY <1>27, <1>1 DEF ClaimFilled
<1>28. CASE ClaimFails(t)
  BY <1>28, <1>1 DEF ClaimFails, Retry
<1>29. CASE StoreIdent(t)
  BY <1>29, <1>1 DEF StoreIdent
<1>30. CASE StoreOffset(t)
  BY <1>30, <1>1 DEF StoreOffset
<1>31. CASE StoreSize(t)
  BY <1>31, <1>1 DEF StoreSize
<1>32. CASE PublishBucket(t)
  BY <1>32, <1>1 DEF PublishBucket
<1>33. CASE IncrementRowItemCount(t)
  BY <1>33, <1>1 DEF IncrementRowItemCount
<1>34. CASE Return(t)
  BY <1>34, <1>1 DEF Return, NoCall
<1>. QED BY <1>2, <1>3, <1>4, <1>5, <1>6, <1>7, <1>8, <1>9, <1>10, <1>11,
    <1>12, <1>13, <1>14, <1>15, <1>16, <1>17, <1>18, <1>19, <1>20, <1>21,
    <1>22, <1>23, <1>24, <1>25, <1>26, <1>27, <1>28, <1>29, <1>30, <1>31,
    <1>32, <1>33, <1>34 DEF Step

LEMMA StepHistory ==
  ASSUME TypeOK, HistoryType, NEW t \in Thread, Step(t)
  PROVE  HistoryType'
<1>. USE DEF TypeOK, BlockType, HistoryType, Remember, callVars
<1>1. CASE LoadItemCount(t)
  BY <1>1 DEF LoadItemCount
<1>2. CASE LoadPending(t)
  BY <1>2 DEF LoadPending
<1>3. CASE ReserveSlot(t)
  BY <1>3 DEF ReserveSlot
<1>4. CASE ReserveRetry(t)
  BY <1>4 DEF ReserveRetry
<1>5. CASE NextRowSequence(t)
  BY <1>5 DEF NextRowSequence
<1>6. CASE ReserveOffset(t)
  BY <1>6 DEF ReserveOffset
<1>7. CASE WriteBlock(t)
  BY <1>7 DEF WriteBlock
<1>8. CASE WriteBlockFails(t)
  BY <1>8 DEF WriteBlockFails
<1>9. CASE MissRow(t)
  BY <1>9 DEF MissRow
<1>10. CASE MissRowForPut(t)
  BY <1>10 DEF MissRowForPut
<1>11. CASE InsertSeesEmpty(t)
  BY <1>11 DEF InsertSeesEmpty
<1>12. CASE LoadFilled(t)
  BY <1>12 DEF LoadFilled
<1>13. CASE SeeWriting(t)
  BY <1>13 DEF SeeWriting, Retry
<1>14. CASE LoadIdent(t)
  BY <1>14 DEF LoadIdent
<1>15. CASE LoadOffset(t)
  BY <1>15 DEF LoadOffset
<1>16. CASE LoadSize(t)
  BY <1>16 DEF LoadSize
<1>17. CASE RecheckFilled(t)
  BY <1>17 DEF RecheckFilled
<1>18. CASE PassForeignIdent(t)
  BY <1>18 DEF PassForeignIdent, Advance
<1>19. CASE MatchRow(t)
  BY <1>19 DEF MatchRow
<1>20. CASE MatchForeignColumn(t)
  BY <1>20 DEF MatchForeignColumn, Advance
<1>21. CASE ReadCorruption(t)
  BY <1>21 DEF ReadCorruption
<1>22. CASE ReadFails(t)
  BY <1>22 DEF ReadFails
<1>23. CASE ReadValue(t)
  BY <1>23 DEF ReadValue
<1>24. CASE LoadRowEntries(t)
  BY <1>24 DEF LoadRowEntries
<1>25. CASE ClaimEmpty(t)
  BY <1>25 DEF ClaimEmpty
<1>26. CASE ClaimFilled(t)
  BY <1>26 DEF ClaimFilled
<1>27. CASE ClaimFails(t)
  BY <1>27 DEF ClaimFails, Retry
<1>28. CASE StoreIdent(t)
  BY <1>28 DEF StoreIdent
<1>29. CASE StoreOffset(t)
  BY <1>29 DEF StoreOffset
<1>30. CASE StoreSize(t)
  BY <1>30 DEF StoreSize
<1>31. CASE PublishBucket(t)
  BY <1>31 DEF PublishBucket
<1>32. CASE IncrementRowItemCount(t)
  BY <1>32 DEF IncrementRowItemCount
<1>33. CASE Return(t)
  BY <1>33 DEF Return
<1>. QED BY <1>1, <1>2, <1>3, <1>4, <1>5, <1>6, <1>7, <1>8, <1>9, <1>10,
    <1>11, <1>12, <1>13, <1>14, <1>15, <1>16, <1>17, <1>18, <1>19, <1>20,
    <1>21, <1>22, <1>23, <1>24, <1>25, <1>26, <1>27, <1>28, <1>29, <1>30,
    <1>31, <1>32, <1>33 DEF Step

\* Where a read starts.
LEMMA CallStartsRead ==
  ASSUME NEW t \in Thread, Call(t)
  PROVE  \E r \in Row, kind \in Kinds, k \in Key, c \in Content,
            l \in {"loadItems", "loadState"} :
           /\ Start(t, kind, r, k, c, l)
           /\ kind = "GetRowStruct" => l = "loadState"
<1>1. PICK r \in Row :
        \/ \E c \in Batch : CallPutRowStructs(t, r, c)
        \/ \E k \in Key, v \in Val : CallPutRowStruct(t, r, k, v)
        \/ \E k \in Key : CallGetRowStruct(t, r, k)
  BY DEF Call
<1>2. \A k \in Key, v \in Val : Single(k, v) \in Content
  BY DEF Single, EmptyRow, Content
<1>3. NoCall.key \in Key /\ EmptyRow \in Content
  BY NoCallType DEF EmptyRow, Content
<1>4. CASE \E c \in Batch : CallPutRowStructs(t, r, c)
  <2>1. PICK c \in Batch : Start(t, "PutRowStructs", r, NoCall.key, c, "loadItems")
    BY <1>4 DEF CallPutRowStructs
  <2>2. "PutRowStructs" \in Kinds /\ c \in Content
    BY <2>1 DEF Start
  <2>. QED BY <1>3, <2>1, <2>2
<1>5. CASE \E k \in Key, v \in Val : CallPutRowStruct(t, r, k, v)
  BY <1>2, <1>5 DEF CallPutRowStruct, Start
<1>6. CASE \E k \in Key : CallGetRowStruct(t, r, k)
  BY <1>3, <1>6 DEF CallGetRowStruct, Start
<1>. QED BY <1>1, <1>4, <1>5, <1>6

\* A new call has seen what its row holds now.
LEMMA CallAnswer ==
  ASSUME ReadInv, StructureInv', NEW t \in Thread, Call(t)
  PROVE  HistoryType' /\ AnswerInv(t)'
<1>1. TypeOK /\ StructureInv /\ HistoryType /\ AnswerInv(t)
  BY DEF ReadInv, LedgerInv, StructureInv
<1>2. PICK r \in Row, kind \in Kinds, k \in Key, c \in Content,
           l \in {"loadItems", "loadState"} :
        /\ Start(t, kind, r, k, c, l)
        /\ kind = "GetRowStruct" => l = "loadState"
  BY CallStartsRead
<1>3. /\ pc[t] = "idle" /\ pc'[t] = l /\ mode'[t] = "find" /\ probe'[t] = 0
      /\ call'[t].kind = kind /\ RowOf(t)' = r /\ seen'[t] = {Current(r)}
      /\ UNCHANGED <<result, disturbed>>
      /\ seen' = [seen EXCEPT ![t] = {Current(r)}]
  BY <1>1, <1>2
     DEF Start, Goto, TypeOK, PcType, WalkType, CallType, HistoryType, RowOf
<1>4. Current(r)' = Current(r)
  BY <1>1, <1>3, CurrentStays DEF AnswerInv, ClaimEmpty, ClaimFilled
<1>5. HistoryType'
  BY <1>1, <1>3, CurrentMeaning DEF HistoryType, CurrentFacts
<1>6. BlockInv(t)' /\ FindInv(t)' /\ StillInv(t)'
  BY <1>3 DEF BlockInv, FindInv, StillInv, Storing, Walking, Looking, Passed
<1>7. SeenInv(t)'
  <2>1. Current(RowOf(t))' \in seen'[t]
    BY <1>3, <1>4
  <2>. QED BY <1>3, <2>1 DEF SeenInv
<1>8. ResultInv(t)'
  BY <1>1, <1>2, <1>3 DEF AnswerInv, ResultInv, NoResult, Looking
<1>. QED BY <1>5, <1>6, <1>7, <1>8 DEF AnswerInv

LEMMA StepRead ==
  ASSUME ReadInv, LedgerInv', NEW t \in Thread, Step(t) \/ Call(t)
  PROVE  ReadInv'
<1>1. TypeOK /\ StructureInv /\ StructureInv' /\ HistoryType
  BY DEF ReadInv, LedgerInv, StructureInv
<1>2. \A u \in Thread : u # t => AnswerInv(u)'
  <2>1. \A u \in Thread : u # t => Same(u) /\ SameAnswer(u)
    BY <1>1, StepOthers, CallQuiet, StepOtherAnswers, CallOtherAnswers
  <2>. QED BY <1>1, <2>1, OtherAnswer
<1>3. AnswerInv(t)' /\ HistoryType'
  <2>1. CASE Step(t)
    BY <1>1, <2>1, StepBlock, StepFind, StepSeenInv, StepStill, StepResult,
       StepHistory DEF AnswerInv
  <2>2. CASE Call(t)
    BY <1>1, <2>2, CallAnswer
  <2>. QED BY <2>1, <2>2
<1>. QED BY <1>2, <1>3 DEF ReadInv

LEMMA StutterRead ==
  ASSUME ReadInv, LedgerInv', UNCHANGED vars
  PROVE  ReadInv'
<1>1. UNCHANGED <<state, blockOffset, blockSize, holds, file, pc, call, mode, probe, snap,
                  entries, offset, result, seen, disturbed>>
  BY DEF vars, bucketVars, fileVars, callVars, walkVars, blockVars
<1>2. \A u \in Thread : /\ Here(u)' = Here(u) /\ RowOf(u)' = RowOf(u)
                        /\ Passed(u)' = Passed(u)
  BY <1>1 DEF Here, RowOf, Slot, Passed
<1>3. HistoryType'
  BY <1>1 DEF ReadInv, HistoryType
<1>4. ASSUME NEW u \in Thread
      PROVE  AnswerInv(u)'
  <2>1. AnswerInv(u)
    BY DEF ReadInv
  <2>2. BlockInv(u)'
    BY <1>1, <1>2, <2>1 DEF AnswerInv, BlockInv, Storing, HasContent, ShardForRow
  <2>3. FindInv(u)' /\ StillInv(u)' /\ ResultInv(u)'
    BY <1>1, <1>2, <2>1 DEF AnswerInv, FindInv, StillInv, ResultInv
  <2>4. SeenInv(u)'
    <3>1. Current(RowOf(u))' = Current(RowOf(u))
      BY <1>1 DEF Current, Writer, Storing, RowOf, BlocksAt, ShardForRow, EmptyRow
    <3>. QED BY <1>1, <1>2, <2>1, <3>1
             DEF AnswerInv, SeenInv, Busy, HasContent, ShardForRow
  <2>. QED BY <2>2, <2>3, <2>4 DEF AnswerInv
<1>. QED BY <1>3, <1>4 DEF ReadInv

LEMMA InitRead == Init => ReadInv
<1> SUFFICES ASSUME Init PROVE ReadInv
  OBVIOUS
<1>1. LedgerInv
  BY InitLedger
<1>2. HistoryType
  BY DEF Init, HistoryType
<1>3. \A t \in Thread : AnswerInv(t)
  BY DEF Init, AnswerInv, BlockInv, FindInv, SeenInv, StillInv, ResultInv, Storing,
     Walking, Looking, Busy, NoCall, NoResult
<1>. QED BY <1>1, <1>2, <1>3 DEF ReadInv

\* What every call has seen, its snapshot and its answer fit together, at every
\* step of every thread.
THEOREM ReadInvHolds == Spec => []ReadInv
<1>1. ReadInv /\ LedgerInv' /\ [Next]_vars => ReadInv'
  BY StepRead, StutterRead DEF Next, AllReturned
<1>2. Spec => [][Next]_vars /\ Init
  BY PTL DEF Spec
<1>. QED BY <1>1, <1>2, InitRead, LedgerHolds, PTL

\* GetRowStruct answers with a value that its row had, or with the row's
\* absence, at some instant of the call: for any number of threads, rows and
\* colliding identities, serialized or not.
THEOREM ReadsAreCurrent == Spec => []ReadsCurrent
<1>1. ReadInv => ReadsCurrent
  BY DEF ReadInv, AnswerInv, ResultInv, ReadsCurrent
<1>. QED BY <1>1, ReadInvHolds, PTL

\* "row index points to an invalid row block" is answered only when a row of
\* the same identity was replaced during the call: an undisturbed snapshot
\* names one complete block.
THEOREM CorruptionNeedsDisturbance == Spec => []CorruptionOnlyIfDisturbed
<1>1. ReadInv => CorruptionOnlyIfDisturbed
  BY DEF ReadInv, AnswerInv, ResultInv, CorruptionOnlyIfDisturbed
<1>. QED BY <1>1, ReadInvHolds, PTL
=============================================================================
