---------------------------- MODULE RowMapProofs ----------------------------
(***************************************************************************)
(* When callers serialize the writes of one row, the threads implement     *)
(* RowMap: a row is a value that writes replace at one instant.  And a     *)
(* write that returned OK is the last of its row in the shard file.        *)
(***************************************************************************)
EXTENDS RowReadProofs

USE SizeAssumption, SetAssumption, MapAssumption, FlagAssumption DEF Bucket

\* The calls that are inside the API, and the writes that have their entries
\* and have not claimed a bucket.
InCall(t) == pc[t] # "idle"
Prepared(t) ==
  \/ pc[t] \in {"loadItems", "loadPending", "reserve", "sequence", "append", "write"}
  \/ pc[t] \in Walking /\ mode[t] = "insert"
Applied(t) == Storing(t) \/ pc[t] = "count"

\* One write of a row at a time: what MayWrite asks of the callers.
Serialized == \A t, u \in Thread :
  InCall(t) /\ InCall(u) /\ IsWrite(t) /\ IsWrite(u) /\ RowOf(t) = RowOf(u) => t = u

\* Blocks lie in the shard of their row and are not empty.
BlocksMeant == \A x \in file : x.shard = ShardForRow(x.row) /\ x.entries # EmptyRow

\* What each kind of call does, and where.
KindInv(t) ==
  /\ InCall(t) => call[t].kind # "none"
  /\ pc[t] = "readValue" => call[t].kind = "GetRowStruct"
  /\ InCall(t) /\ IsWrite(t) => call[t].entries # EmptyRow
  /\ InCall(t) /\ call[t].kind = "PutRowStructs" =>
       /\ entries[t] = call[t].entries
       /\ Prepared(t) \/ Applied(t) \/ pc[t] = "return"

\* A write has seen one content of its row until it claims the row's bucket,
\* and what it is about to write is that content with its own entries in it.
WriteInv(t) ==
  /\ Busy(t) /\ IsWrite(t) /\ ~Applied(t) => seen[t] \subseteq {Current(RowOf(t))}
  /\ Prepared(t) => entries[t] # EmptyRow
  /\ Prepared(t) /\ call[t].kind = "PutRowStruct" =>
       entries[t] = Merge(Current(RowOf(t)), call[t].entries)

\* From the reservation of its range on, a write's block is the last of its
\* row; from its publication on, it is the one that the index names.
Wrote(t) == result[t].status = "OK" /\ IsWrite(t)
Ranged(t) == \/ pc[t] = "write" \/ (pc[t] \in Walking /\ mode[t] = "insert")
             \/ Applied(t) \/ Wrote(t)
Named(t)  == pc[t] = "count" \/ Wrote(t)
NewestInv(t) ==
  /\ Ranged(t) => \A x \in file : x.row = RowOf(t) => x.offset <= offset[t]
  /\ Named(t) => \E b \in Bucket : holds[b] = RowOf(t) /\ blockOffset[b] = offset[t]

WriterInv(t) == KindInv(t) /\ WriteInv(t) /\ NewestInv(t)
MapInv == ReadInv /\ Serialized /\ BlocksMeant /\ \A t \in Thread : WriterInv(t)

-----------------------------------------------------------------------------
(* The threads that write.                                                 *)

LEMMA PreparedWrites ==
  ASSUME MapInv, NEW t \in Thread, Prepared(t) \/ Applied(t)
  PROVE  InCall(t) /\ Busy(t) /\ IsWrite(t) /\ RowOf(t) \in Row
<1>1. /\ TypeOK /\ ResultInv(t) /\ KindInv(t) /\ InsertInv(t)
  BY DEF MapInv, WriterInv, ReadInv, LedgerInv, StructureInv, ThreadInv, AnswerInv
<1>2. InCall(t) /\ Busy(t)
  BY DEF Prepared, Applied, InCall, Busy, Storing, Walking
<1>3. call[t].kind # "GetRowStruct"
  BY <1>1 DEF ResultInv, Prepared, Applied, Storing, Looking, Walking
<1>4. call[t].kind \in Kinds \cup {"none"} /\ call[t].kind # "none"
  BY <1>1, <1>2 DEF KindInv, TypeOK, CallType
<1>. QED BY <1>1, <1>2, <1>3, <1>4, HereType DEF IsWrite, InCall

\* A claim, a new block and a stored offset are those of a write.
LEMMA WriteSteps ==
  ASSUME MapInv, NEW t \in Thread,
         ClaimEmpty(t) \/ ClaimFilled(t) \/ WriteBlock(t) \/ StoreOffset(t)
  PROVE  InCall(t) /\ IsWrite(t) /\ RowOf(t) \in Row
<1>1. InsertInv(t)
  BY DEF MapInv, ReadInv, LedgerInv, StructureInv, ThreadInv
<1>2. Prepared(t) \/ Applied(t)
  BY <1>1 DEF ClaimEmpty, ClaimFilled, WriteBlock, StoreOffset, Prepared, Applied,
     Storing, Walking, InsertInv
<1>. QED BY <1>2, PreparedWrites

\* Files grow by WriteBlock alone.
LEMMA StepFile ==
  ASSUME TypeOK, NEW t \in Thread, Step(t) \/ Call(t)
  PROVE  file' = file \/ (WriteBlock(t) /\ file' = file \cup {NewBlock(t)})
<1>1. CASE Quiet(t)
  BY <1>1 DEF Quiet, fileVars
<1>2. CASE SharedStep(t)
  BY <1>2 DEF SharedStep, ReserveOffset, WriteBlock, ClaimEmpty, ClaimFilled, StoreIdent,
     StoreOffset, StoreSize, PublishBucket, fileVars
<1>. QED BY <1>1, <1>2, StepKinds, CallQuiet

\* What another thread's write has seen, and what its row holds, stays.
LEMMA OtherRow ==
  ASSUME MapInv, StructureInv', NEW t \in Thread, Step(t) \/ Call(t),
         NEW u \in Thread, u # t, InCall(u), IsWrite(u), Same(u)
  PROVE  /\ Current(RowOf(u))' = Current(RowOf(u))
         /\ seen'[u] = seen[u]
         /\ \A x \in file' : x.row = RowOf(u) => x \in file
         /\ \A b \in Bucket : holds[b] = RowOf(u) =>
              holds'[b] = holds[b] /\ blockOffset'[b] = blockOffset[b]
<1>1. /\ StructureInv /\ TypeOK /\ HistoryType /\ BlockInv(t) /\ Effects(t)
  BY StepEffects DEF MapInv, ReadInv, LedgerInv, StructureInv, AnswerInv
<1>2. RowOf(u) \in Row /\ RowOf(u) # NoRow /\ RowOf(u)' = RowOf(u)
  BY <1>1, HereType DEF InCall, Same, RowOf
<1>3. ASSUME ClaimEmpty(t) \/ ClaimFilled(t) \/ WriteBlock(t) \/ StoreOffset(t)
      PROVE  RowOf(t) # RowOf(u)
  BY <1>3, WriteSteps DEF MapInv, Serialized
<1>4. Current(RowOf(u))' = Current(RowOf(u)) /\ seen'[u] = seen[u]
  <2>1. CASE ClaimEmpty(t) \/ ClaimFilled(t)
    <3>1. Step(t) /\ RowOf(t) # RowOf(u)
      BY <1>3, <2>1 DEF Step
    <3>2. \A r \in Row : Current(r)' = IF r = RowOf(t) THEN entries[t] ELSE Current(r)
      BY <1>1, <2>1, <3>1, CurrentClaim
    <3>. QED BY <1>2, <2>1, <3>1, <3>2 DEF ClaimEmpty, ClaimFilled, Remember
  <2>2. CASE ~ClaimEmpty(t) /\ ~ClaimFilled(t)
    <3>1. \A r \in Row : Current(r)' = Current(r)
      BY <1>1, <2>2, CurrentStays
    <3>2. seen'[u] = seen[u]
      <4>1. CASE Step(t)
        <5>1. Return(t) \/ UNCHANGED seen
          BY <1>1, <2>2, <4>1, StepSeen
        <5>. QED BY <1>1, <5>1 DEF Return, HistoryType
      <4>2. CASE Call(t)
        BY <1>1, <4>2, CallStarts DEF Start, HistoryType
      <4>. QED BY <4>1, <4>2
    <3>. QED BY <1>2, <3>1, <3>2
  <2>. QED BY <2>1, <2>2
<1>5. \A x \in file' : x.row = RowOf(u) => x \in file
  BY <1>1, <1>3, StepFile DEF NewBlock
<1>6. ASSUME NEW b \in Bucket, holds[b] = RowOf(u)
      PROVE  holds'[b] = holds[b] /\ blockOffset'[b] = blockOffset[b]
  <2>1. StoreOffset(t) => holds[Here(t)] = RowOf(t)
    BY <1>1 DEF StoreOffset, Storing, StructureInv, ThreadInv, StoreInv
  <2>. QED BY <1>1, <1>2, <1>3, <1>6, <2>1 DEF Effects
<1>. QED BY <1>4, <1>5, <1>6

LEMMA OtherWriter ==
  ASSUME MapInv, StructureInv', NEW t \in Thread, Step(t) \/ Call(t),
         NEW u \in Thread, u # t, Same(u), SameAnswer(u)
  PROVE  WriterInv(u)'
<1>1. WriterInv(u) /\ ResultInv(u)
  BY DEF MapInv, ReadInv, AnswerInv
<1>2. /\ pc'[u] = pc[u] /\ call'[u] = call[u] /\ mode'[u] = mode[u]
      /\ entries'[u] = entries[u] /\ offset'[u] = offset[u] /\ result'[u] = result[u]
      /\ RowOf(u)' = RowOf(u) /\ InCall(u)' = InCall(u) /\ IsWrite(u)' = IsWrite(u)
      /\ Prepared(u)' = Prepared(u) /\ Applied(u)' = Applied(u) /\ Busy(u)' = Busy(u)
      /\ Ranged(u)' = Ranged(u) /\ Named(u)' = Named(u)
  BY DEF Same, SameAnswer, RowOf, InCall, IsWrite, Prepared, Applied, Busy, Storing, Wrote,
     Ranged, Named
<1>3. KindInv(u)'
  BY <1>1, <1>2 DEF WriterInv, KindInv
<1>4. ASSUME InCall(u), IsWrite(u)
      PROVE  /\ Current(RowOf(u))' = Current(RowOf(u))
             /\ seen'[u] = seen[u]
             /\ \A x \in file' : x.row = RowOf(u) => x \in file
             /\ \A b \in Bucket : holds[b] = RowOf(u) =>
                  holds'[b] = holds[b] /\ blockOffset'[b] = blockOffset[b]
  BY <1>4, OtherRow
<1>5. Busy(u) => InCall(u)
  BY DEF Busy, InCall
<1>6. WriteInv(u)'
  <2>1. Merge(Current(RowOf(u)), call[u].entries)' =
          Merge(Current(RowOf(u))', call[u].entries)
    BY <1>2 DEF Merge
  <2>. QED BY <1>1, <1>2, <1>4, <1>5, <2>1, PreparedWrites DEF WriterInv, WriteInv
<1>7. Wrote(u) => InCall(u) /\ IsWrite(u)
  BY <1>1 DEF Wrote, ResultInv, NoResult, InCall
<1>8. Ranged(u) \/ Named(u) => Prepared(u) \/ Applied(u) \/ Wrote(u)
  BY DEF Ranged, Named, Prepared, Applied
<1>9. NewestInv(u)'
  BY <1>1, <1>2, <1>4, <1>7, <1>8, PreparedWrites DEF WriterInv, NewestInv
<1>. QED BY <1>3, <1>6, <1>9 DEF WriterInv

-----------------------------------------------------------------------------
(* What the moving thread knows after its step.                            *)

LEMMA StepKind ==
  ASSUME MapInv, NEW t \in Thread, Step(t)
  PROVE  KindInv(t)'
<1>1. /\ TypeOK /\ KindInv(t) /\ ResultInv(t) /\ InsertInv(t)
      /\ pc[t] = "loadBlock" => mode[t] = "load"
  BY DEF MapInv, WriterInv, ReadInv, LedgerInv, StructureInv, ThreadInv, AnswerInv, SlotInv
<1>2. call[t].kind \in {"PutRowStructs", "PutRowStruct", "GetRowStruct", "none"}
  BY <1>1 DEF TypeOK, CallType
<1>. USE DEF TypeOK, PcType, WalkType, BlockType, CallType, Goto, Decide, KindInv, InsertInv,
             Prepared, Applied, Storing, Walking, InCall, IsWrite, walkVars, blockVars,
             callVars
<1>3. CASE LoadItemCount(t)
  BY <1>3, <1>1, <1>2 DEF LoadItemCount
<1>4. CASE LoadPending(t)
  BY <1>4, <1>1, <1>2 DEF LoadPending
<1>5. CASE ReserveSlot(t)
  BY <1>5, <1>1, <1>2 DEF ReserveSlot
<1>6. CASE ReserveRetry(t)
  BY <1>6, <1>1, <1>2 DEF ReserveRetry
<1>7. CASE NextRowSequence(t)
  BY <1>7, <1>1, <1>2 DEF NextRowSequence
<1>8. CASE ReserveOffset(t)
  BY <1>8, <1>1, <1>2 DEF ReserveOffset
<1>9. CASE WriteBlock(t)
  BY <1>9, <1>1, <1>2 DEF WriteBlock
<1>10. CASE WriteBlockFails(t)
  BY <1>10, <1>1, <1>2 DEF WriteBlockFails
<1>11. CASE MissRow(t)
  BY <1>11, <1>1, <1>2 DEF MissRow
<1>12. CASE MissRowForPut(t)
  BY <1>12, <1>1, <1>2 DEF MissRowForPut
<1>13. CASE InsertSeesEmpty(t)
  BY <1>13, <1>1, <1>2 DEF InsertSeesEmpty
<1>14. CASE LoadFilled(t)
  BY <1>14, <1>1, <1>2 DEF LoadFilled
<1>15. CASE SeeWriting(t)
  BY <1>15, <1>1, <1>2 DEF SeeWriting, Retry
<1>16. CASE LoadIdent(t)
  BY <1>16, <1>1, <1>2 DEF LoadIdent
<1>17. CASE LoadOffset(t)
  BY <1>17, <1>1, <1>2 DEF LoadOffset
<1>18. CASE LoadSize(t)
  BY <1>18, <1>1, <1>2 DEF LoadSize
<1>19. CASE RecheckFilled(t)
  BY <1>19, <1>1, <1>2 DEF RecheckFilled
<1>20. CASE PassForeignIdent(t)
  BY <1>20, <1>1, <1>2 DEF PassForeignIdent, Advance
<1>21. CASE MatchRow(t)
  BY <1>21, <1>1, <1>2 DEF MatchRow
<1>22. CASE MatchForeignColumn(t)
  BY <1>22, <1>1, <1>2 DEF MatchForeignColumn, Advance
<1>23. CASE ReadCorruption(t)
  BY <1>23, <1>1, <1>2 DEF ReadCorruption
<1>24. CASE ReadFails(t)
  BY <1>24, <1>1, <1>2 DEF ReadFails
<1>25. CASE ReadValue(t)
  BY <1>25, <1>1, <1>2 DEF ReadValue
<1>26. CASE LoadRowEntries(t)
  BY <1>26, <1>1, <1>2 DEF LoadRowEntries
<1>27. CASE ClaimEmpty(t)
  BY <1>27, <1>1, <1>2 DEF ClaimEmpty
<1>28. CASE ClaimFilled(t)
  BY <1>28, <1>1, <1>2 DEF ClaimFilled
<1>29. CASE ClaimFails(t)
  BY <1>29, <1>1, <1>2 DEF ClaimFails, Retry
<1>30. CASE StoreIdent(t)
  BY <1>30, <1>1, <1>2 DEF StoreIdent
<1>31. CASE StoreOffset(t)
  BY <1>31, <1>1, <1>2 DEF StoreOffset
<1>32. CASE StoreSize(t)
  BY <1>32, <1>1, <1>2 DEF StoreSize
<1>33. CASE PublishBucket(t)
  BY <1>33, <1>1, <1>2 DEF PublishBucket
<1>34. CASE IncrementRowItemCount(t)
  BY <1>34, <1>1, <1>2 DEF IncrementRowItemCount
<1>35. CASE Return(t)
  BY <1>35, <1>1, <1>2 DEF Return, NoCall
<1>. QED BY <1>3, <1>4, <1>5, <1>6, <1>7, <1>8, <1>9, <1>10, <1>11, <1>12,
    <1>13, <1>14, <1>15, <1>16, <1>17, <1>18, <1>19, <1>20, <1>21, <1>22,
    <1>23, <1>24, <1>25, <1>26, <1>27, <1>28, <1>29, <1>30, <1>31, <1>32,
    <1>33, <1>34, <1>35 DEF Step

\* The entries that a call will write are fixed when it is prepared.
LEMMA PreparedStep ==
  ASSUME TypeOK, NEW t \in Thread, Step(t), Prepared(t)'
  PROVE  \/ Prepared(t) /\ UNCHANGED <<entries, call>>
         \/ MissRowForPut(t) \/ LoadRowEntries(t)
<1>. USE DEF TypeOK, PcType, WalkType, Goto, Decide, Prepared, Walking, walkVars, blockVars,
             callVars
<1>1. CASE LoadItemCount(t)
  BY <1>1 DEF LoadItemCount
<1>2. CASE LoadPending(t)
  BY <1>2 DEF LoadPending
<1>3. CASE ReserveSlot(t)
  BY <1>3 DEF ReserveSlot
<1>4. CASE ReserveRetry(t)
  BY <1>4 DEF ReserveRetry
<1>5. CASE NextRowSequence(t)
  BY <1>5 DEF NextRowSequence
<1>6. CASE ReserveOffset(t)
  BY <1>6 DEF ReserveOffset
<1>7. CASE WriteBlock(t)
  BY <1>7 DEF WriteBlock
<1>8. CASE WriteBlockFails(t)
  BY <1>8 DEF WriteBlockFails
<1>9. CASE MissRow(t)
  BY <1>9 DEF MissRow
<1>10. CASE InsertSeesEmpty(t)
  BY <1>10 DEF InsertSeesEmpty
<1>11. CASE LoadFilled(t)
  BY <1>11 DEF LoadFilled
<1>12. CASE SeeWriting(t)
  BY <1>12 DEF SeeWriting, Retry
<1>13. CASE LoadIdent(t)
  BY <1>13 DEF LoadIdent
<1>14. CASE LoadOffset(t)
  BY <1>14 DEF LoadOffset
<1>15. CASE LoadSize(t)
  BY <1>15 DEF LoadSize
<1>16. CASE RecheckFilled(t)
  BY <1>16 DEF RecheckFilled
<1>17. CASE PassForeignIdent(t)
  BY <1>17 DEF PassForeignIdent, Advance
<1>18. CASE MatchRow(t)
  BY <1>18 DEF MatchRow
<1>19. CASE MatchForeignColumn(t)
  BY <1>19 DEF MatchForeignColumn, Advance
<1>20. CASE ReadCorruption(t)
  BY <1>20 DEF ReadCorruption
<1>21. CASE ReadFails(t)
  BY <1>21 DEF ReadFails
<1>22. CASE ReadValue(t)
  BY <1>22 DEF ReadValue
<1>23. CASE ClaimEmpty(t)
  BY <1>23 DEF ClaimEmpty
<1>24. CASE ClaimFilled(t)
  BY <1>24 DEF ClaimFilled
<1>25. CASE ClaimFails(t)
  BY <1>25 DEF ClaimFails, Retry
<1>26. CASE StoreIdent(t)
  BY <1>26 DEF StoreIdent
<1>27. CASE StoreOffset(t)
  BY <1>27 DEF StoreOffset
<1>28. CASE StoreSize(t)
  BY <1>28 DEF StoreSize
<1>29. CASE PublishBucket(t)
  BY <1>29 DEF PublishBucket
<1>30. CASE IncrementRowItemCount(t)
  BY <1>30 DEF IncrementRowItemCount
<1>31. CASE Return(t)
  BY <1>31 DEF Return
<1>. QED BY <1>1, <1>2, <1>3, <1>4, <1>5, <1>6, <1>7, <1>8, <1>9, <1>10,
    <1>11, <1>12, <1>13, <1>14, <1>15, <1>16, <1>17, <1>18, <1>19, <1>20,
    <1>21, <1>22, <1>23, <1>24, <1>25, <1>26, <1>27, <1>28, <1>29, <1>30,
    <1>31 DEF Step

\* A call that has claimed its bucket only stores and returns.
LEMMA AppliedStep ==
  ASSUME TypeOK, NEW t \in Thread, Step(t), Applied(t)
  PROVE  Applied(t)' \/ ~Busy(t)'
<1>1. pc[t] \in {"storeIdent", "storeOffset", "storeSize", "publish", "count"}
  BY DEF Applied, Storing
<1>. USE DEF TypeOK, PcType, Goto, Decide, Applied, Storing, Busy
<1>2. CASE LoadItemCount(t)
  BY <1>2, <1>1 DEF LoadItemCount
<1>3. CASE LoadPending(t)
  BY <1>3, <1>1 DEF LoadPending
<1>4. CASE ReserveSlot(t)
  BY <1>4, <1>1 DEF ReserveSlot
<1>5. CASE ReserveRetry(t)
  BY <1>5, <1>1 DEF ReserveRetry
<1>6. CASE NextRowSequence(t)
  BY <1>6, <1>1 DEF NextRowSequence
<1>7. CASE ReserveOffset(t)
  BY <1>7, <1>1 DEF ReserveOffset
<1>8. CASE WriteBlock(t)
  BY <1>8, <1>1 DEF WriteBlock
<1>9. CASE WriteBlockFails(t)
  BY <1>9, <1>1 DEF WriteBlockFails
<1>10. CASE MissRow(t)
  BY <1>10, <1>1 DEF MissRow
<1>11. CASE MissRowForPut(t)
  BY <1>11, <1>1 DEF MissRowForPut
<1>12. CASE InsertSeesEmpty(t)
  BY <1>12, <1>1 DEF InsertSeesEmpty
<1>13. CASE LoadFilled(t)
  BY <1>13, <1>1 DEF LoadFilled
<1>14. CASE SeeWriting(t)
  BY <1>14, <1>1 DEF SeeWriting, Retry
<1>15. CASE LoadIdent(t)
  BY <1>15, <1>1 DEF LoadIdent
<1>16. CASE LoadOffset(t)
  BY <1>16, <1>1 DEF LoadOffset
<1>17. CASE LoadSize(t)
  BY <1>17, <1>1 DEF LoadSize
<1>18. CASE RecheckFilled(t)
  BY <1>18, <1>1 DEF RecheckFilled
<1>19. CASE PassForeignIdent(t)
  BY <1>19, <1>1 DEF PassForeignIdent, Advance
<1>20. CASE MatchRow(t)
  BY <1>20, <1>1 DEF MatchRow
<1>21. CASE MatchForeignColumn(t)
  BY <1>21, <1>1 DEF MatchForeignColumn, Advance
<1>22. CASE ReadCorruption(t)
  BY <1>22, <1>1 DEF ReadCorruption
<1>23. CASE ReadFails(t)
  BY <1>23, <1>1 DEF ReadFails
<1>24. CASE ReadValue(t)
  BY <1>24, <1>1 DEF ReadValue
<1>25. CASE LoadRowEntries(t)
  BY <1>25, <1>1 DEF LoadRowEntries
<1>26. CASE ClaimEmpty(t)
  BY <1>26, <1>1 DEF ClaimEmpty
<1>27. CASE ClaimFilled(t)
  BY <1>27, <1>1 DEF ClaimFilled
<1>28. CASE ClaimFails(t)
  BY <1>28, <1>1 DEF ClaimFails, Retry
<1>29. CASE StoreIdent(t)
  BY <1>29, <1>1 DEF StoreIdent
<1>30. CASE StoreOffset(t)
  BY <1>30, <1>1 DEF StoreOffset
<1>31. CASE StoreSize(t)
  BY <1>31, <1>1 DEF StoreSize
<1>32. CASE PublishBucket(t)
  BY <1>32, <1>1 DEF PublishBucket
<1>33. CASE IncrementRowItemCount(t)
  BY <1>33, <1>1 DEF IncrementRowItemCount
<1>34. CASE Return(t)
  BY <1>34, <1>1 DEF Return
<1>. QED BY <1>2, <1>3, <1>4, <1>5, <1>6, <1>7, <1>8, <1>9, <1>10, <1>11,
    <1>12, <1>13, <1>14, <1>15, <1>16, <1>17, <1>18, <1>19, <1>20, <1>21,
    <1>22, <1>23, <1>24, <1>25, <1>26, <1>27, <1>28, <1>29, <1>30, <1>31,
    <1>32, <1>33, <1>34 DEF Step

LEMMA StepWrite ==
  ASSUME MapInv, StructureInv', NEW t \in Thread, Step(t)
  PROVE  WriteInv(t)'
<1>1. /\ StructureInv /\ TypeOK /\ WriteInv(t) /\ KindInv(t) /\ ResultInv(t) /\ BlockInv(t)
      /\ ReadInv
  BY DEF MapInv, WriterInv, ReadInv, LedgerInv, StructureInv, AnswerInv
<1>2. \/ Return(t) /\ ~Busy(t)'
      \/ /\ Busy(t) /\ UNCHANGED call
         /\ ClaimEmpty(t) \/ ClaimFilled(t) \/ UNCHANGED seen
  BY <1>1, StepSeen
<1>3. Prepared(t)' => Busy(t)'
  BY DEF Prepared, Busy, Walking
<1>4. ClaimEmpty(t) \/ ClaimFilled(t) => Applied(t)' /\ ~Prepared(t)'
  BY <1>1 DEF ClaimEmpty, ClaimFilled, Goto, Applied, Prepared, Storing, Walking, TypeOK,
     PcType
<1>5. ASSUME Busy(t)', ~Applied(t)'
      PROVE  /\ Busy(t) /\ UNCHANGED <<call, seen>> /\ ~Applied(t) /\ RowOf(t) \in Row
             /\ Current(RowOf(t))' = Current(RowOf(t)) /\ RowOf(t)' = RowOf(t)
  <2>1. /\ Busy(t) /\ UNCHANGED <<call, seen>> /\ ~ClaimEmpty(t) /\ ~ClaimFilled(t)
    BY <1>2, <1>4, <1>5
  <2>2. RowOf(t) \in Row /\ RowOf(t)' = RowOf(t)
    BY <1>1, <2>1, HereType DEF Busy, RowOf
  <2>3. \A r \in Row : Current(r)' = Current(r)
    BY <1>1, <2>1, CurrentStays
  <2>. QED BY <1>1, <1>5, <2>1, <2>2, <2>3, AppliedStep
<1>6. Busy(t)' /\ IsWrite(t)' /\ ~Applied(t)' => seen'[t] \subseteq {Current(RowOf(t))'}
  BY <1>1, <1>5 DEF WriteInv, IsWrite
<1>7. Prepared(t)' => ~Applied(t)'
  BY DEF Prepared, Applied, Storing, Walking
<1>8. ASSUME Prepared(t)'
      PROVE  /\ entries'[t] # EmptyRow
             /\ call'[t].kind = "PutRowStruct" =>
                  entries'[t] = Merge(Current(RowOf(t))', call[t].entries)
  <2>1. CASE Prepared(t) /\ UNCHANGED <<entries, call>>
    BY <1>1, <1>3, <1>5, <1>7, <1>8, <2>1 DEF WriteInv
  <2>2. CASE MissRowForPut(t)
    <3>1. /\ entries'[t] = call[t].entries /\ call[t].entries # EmptyRow
          /\ call[t].entries \in Content
      BY <1>1, <2>2
         DEF MissRowForPut, KindInv, InCall, IsWrite, TypeOK, BlockType, CallType
    <3>2. Current(RowOf(t)) = EmptyRow
      BY <1>1, <2>2, MissIsAbsent DEF MissRowForPut
    <3>3. Merge(EmptyRow, call[t].entries) = call[t].entries
      BY <3>1 DEF Merge, EmptyRow, Content
    <3>. QED BY <1>3, <1>5, <1>7, <1>8, <3>1, <3>2, <3>3
  <2>3. CASE LoadRowEntries(t)
    <3>1. PICK x \in Matching(t) :
            entries' = [entries EXCEPT ![t] = Merge(x.entries, call[t].entries)]
      BY <2>3 DEF LoadRowEntries
    <3>2. IsWrite(t) /\ pc[t] = "loadBlock"
      BY <1>1, <2>3
         DEF LoadRowEntries, KindInv, ResultInv, Looking, InCall, IsWrite, TypeOK, CallType
    <3>3. x.entries \in seen[t]
      BY <1>1, <3>2, ValueIsCurrent
    <3>4. x.entries = Current(RowOf(t))
      BY <1>1, <3>2, <3>3 DEF WriteInv, Busy, Applied, Storing
    <3>5. entries'[t] = Merge(Current(RowOf(t)), call[t].entries)
      BY <1>1, <3>1, <3>4 DEF TypeOK, BlockType
    <3>6. call[t].entries \in Content /\ call[t].entries # EmptyRow
      BY <1>1, <3>2 DEF KindInv, InCall, TypeOK, CallType
    <3>7. PICK k \in Key : call[t].entries[k] # NoVal
      BY <3>6 DEF Content, EmptyRow
    <3>8. entries'[t][k] # EmptyRow[k]
      BY <3>5, <3>7 DEF Merge, EmptyRow
    <3>. QED BY <1>3, <1>5, <1>7, <1>8, <3>5, <3>8
  <2>. QED BY <1>1, <1>8, <2>1, <2>2, <2>3, PreparedStep
<1>9. Prepared(t)' => Merge(Current(RowOf(t)), call[t].entries)' =
                        Merge(Current(RowOf(t))', call[t].entries)
  BY <1>3, <1>5, <1>7 DEF Merge
<1>10. EmptyRow' = EmptyRow
  BY DEF EmptyRow
<1>. QED BY <1>6, <1>8, <1>9, <1>10 DEF WriteInv


\* The range of a write comes from ReserveOffset.
LEMMA RangedStep ==
  ASSUME MapInv, NEW t \in Thread, Step(t), Ranged(t)'
  PROVE  ReserveOffset(t) \/ (Ranged(t) /\ UNCHANGED <<offset, call>>)
<1>1. /\ TypeOK /\ KindInv(t) /\ InsertInv(t)
      /\ pc[t] # "return" => result[t] = NoResult
  BY DEF MapInv, WriterInv, ReadInv, LedgerInv, StructureInv, ThreadInv, AnswerInv, ResultInv
<1>. USE DEF TypeOK, PcType, WalkType, CallType, Goto, Decide, KindInv, InsertInv, Ranged,
             Wrote, Applied, Storing, Walking, IsWrite, NoResult, walkVars, blockVars,
             callVars
<1>2. CASE LoadItemCount(t)
  BY <1>2, <1>1 DEF LoadItemCount
<1>3. CASE LoadPending(t)
  BY <1>3, <1>1 DEF LoadPending
<1>4. CASE ReserveSlot(t)
  BY <1>4, <1>1 DEF ReserveSlot
<1>5. CASE ReserveRetry(t)
  BY <1>5, <1>1 DEF ReserveRetry
<1>6. CASE NextRowSequence(t)
  BY <1>6, <1>1 DEF NextRowSequence
<1>7. CASE WriteBlock(t)
  BY <1>7, <1>1 DEF WriteBlock
<1>8. CASE WriteBlockFails(t)
  BY <1>8, <1>1 DEF WriteBlockFails
<1>9. CASE MissRow(t)
  BY <1>9, <1>1 DEF MissRow
<1>10. CASE MissRowForPut(t)
  BY <1>10, <1>1 DEF MissRowForPut
<1>11. CASE InsertSeesEmpty(t)
  BY <1>11, <1>1 DEF InsertSeesEmpty
<1>12. CASE LoadFilled(t)
  BY <1>12, <1>1 DEF LoadFilled
<1>13. CASE SeeWriting(t)
  BY <1>13, <1>1 DEF SeeWriting, Retry
<1>14. CASE LoadIdent(t)
  BY <1>14, <1>1 DEF LoadIdent
<1>15. CASE LoadOffset(t)
  BY <1>15, <1>1 DEF LoadOffset
<1>16. CASE LoadSize(t)
  BY <1>16, <1>1 DEF LoadSize
<1>17. CASE RecheckFilled(t)
  BY <1>17, <1>1 DEF RecheckFilled
<1>18. CASE PassForeignIdent(t)
  BY <1>18, <1>1 DEF PassForeignIdent, Advance
<1>19. CASE MatchRow(t)
  BY <1>19, <1>1 DEF MatchRow
<1>20. CASE MatchForeignColumn(t)
  BY <1>20, <1>1 DEF MatchForeignColumn, Advance
<1>21. CASE ReadCorruption(t)
  BY <1>21, <1>1 DEF ReadCorruption
<1>22. CASE ReadFails(t)
  BY <1>22, <1>1 DEF ReadFails
<1>23. CASE ReadValue(t)
  BY <1>23, <1>1 DEF ReadValue
<1>24. CASE LoadRowEntries(t)
  BY <1>24, <1>1 DEF LoadRowEntries
<1>25. CASE ClaimEmpty(t)
  BY <1>25, <1>1 DEF ClaimEmpty
<1>26. CASE ClaimFilled(t)
  BY <1>26, <1>1 DEF ClaimFilled
<1>27. CASE ClaimFails(t)
  BY <1>27, <1>1 DEF ClaimFails, Retry
<1>28. CASE StoreIdent(t)
  BY <1>28, <1>1 DEF StoreIdent
<1>29. CASE StoreOffset(t)
  BY <1>29, <1>1 DEF StoreOffset
<1>30. CASE StoreSize(t)
  BY <1>30, <1>1 DEF StoreSize
<1>31. CASE PublishBucket(t)
  BY <1>31, <1>1 DEF PublishBucket
<1>32. CASE IncrementRowItemCount(t)
  BY <1>32, <1>1 DEF IncrementRowItemCount
<1>33. CASE Return(t)
  BY <1>33, <1>1 DEF Return
<1>. QED BY <1>2, <1>3, <1>4, <1>5, <1>6, <1>7, <1>8, <1>9, <1>10, <1>11,
    <1>12, <1>13, <1>14, <1>15, <1>16, <1>17, <1>18, <1>19, <1>20, <1>21,
    <1>22, <1>23, <1>24, <1>25, <1>26, <1>27, <1>28, <1>29, <1>30, <1>31,
    <1>32, <1>33 DEF Step

\* A write is named by the index when it publishes.
LEMMA NamedStep ==
  ASSUME MapInv, NEW t \in Thread, Step(t), Named(t)'
  PROVE  PublishBucket(t) \/ IncrementRowItemCount(t)
<1>1. /\ TypeOK /\ KindInv(t)
      /\ pc[t] # "return" => result[t] = NoResult
  BY DEF MapInv, WriterInv, ReadInv, LedgerInv, StructureInv, AnswerInv, ResultInv
<1>. USE DEF TypeOK, PcType, CallType, Goto, Decide, KindInv, Named, Wrote, IsWrite,
             NoResult, callVars
<1>2. CASE LoadItemCount(t)
  BY <1>2, <1>1 DEF LoadItemCount
<1>3. CASE LoadPending(t)
  BY <1>3, <1>1 DEF LoadPending
<1>4. CASE ReserveSlot(t)
  BY <1>4, <1>1 DEF ReserveSlot
<1>5. CASE ReserveRetry(t)
  BY <1>5, <1>1 DEF ReserveRetry
<1>6. CASE NextRowSequence(t)
  BY <1>6, <1>1 DEF NextRowSequence
<1>7. CASE ReserveOffset(t)
  BY <1>7, <1>1 DEF ReserveOffset
<1>8. CASE WriteBlock(t)
  BY <1>8, <1>1 DEF WriteBlock
<1>9. CASE WriteBlockFails(t)
  BY <1>9, <1>1 DEF WriteBlockFails
<1>10. CASE MissRow(t)
  BY <1>10, <1>1 DEF MissRow
<1>11. CASE MissRowForPut(t)
  BY <1>11, <1>1 DEF MissRowForPut
<1>12. CASE InsertSeesEmpty(t)
  BY <1>12, <1>1 DEF InsertSeesEmpty
<1>13. CASE LoadFilled(t)
  BY <1>13, <1>1 DEF LoadFilled
<1>14. CASE SeeWriting(t)
  BY <1>14, <1>1 DEF SeeWriting, Retry
<1>15. CASE LoadIdent(t)
  BY <1>15, <1>1 DEF LoadIdent
<1>16. CASE LoadOffset(t)
  BY <1>16, <1>1 DEF LoadOffset
<1>17. CASE LoadSize(t)
  BY <1>17, <1>1 DEF LoadSize
<1>18. CASE RecheckFilled(t)
  BY <1>18, <1>1 DEF RecheckFilled
<1>19. CASE PassForeignIdent(t)
  BY <1>19, <1>1 DEF PassForeignIdent, Advance
<1>20. CASE MatchRow(t)
  BY <1>20, <1>1 DEF MatchRow
<1>21. CASE MatchForeignColumn(t)
  BY <1>21, <1>1 DEF MatchForeignColumn, Advance
<1>22. CASE ReadCorruption(t)
  BY <1>22, <1>1 DEF ReadCorruption
<1>23. CASE ReadFails(t)
  BY <1>23, <1>1 DEF ReadFails
<1>24. CASE ReadValue(t)
  BY <1>24, <1>1 DEF ReadValue
<1>25. CASE LoadRowEntries(t)
  BY <1>25, <1>1 DEF LoadRowEntries
<1>26. CASE ClaimEmpty(t)
  BY <1>26, <1>1 DEF ClaimEmpty
<1>27. CASE ClaimFilled(t)
  BY <1>27, <1>1 DEF ClaimFilled
<1>28. CASE ClaimFails(t)
  BY <1>28, <1>1 DEF ClaimFails, Retry
<1>29. CASE StoreIdent(t)
  BY <1>29, <1>1 DEF StoreIdent
<1>30. CASE StoreOffset(t)
  BY <1>30, <1>1 DEF StoreOffset
<1>31. CASE StoreSize(t)
  BY <1>31, <1>1 DEF StoreSize
<1>32. CASE Return(t)
  BY <1>32, <1>1 DEF Return
<1>. QED BY <1>2, <1>3, <1>4, <1>5, <1>6, <1>7, <1>8, <1>9, <1>10, <1>11,
    <1>12, <1>13, <1>14, <1>15, <1>16, <1>17, <1>18, <1>19, <1>20, <1>21,
    <1>22, <1>23, <1>24, <1>25, <1>26, <1>27, <1>28, <1>29, <1>30, <1>31,
    <1>32 DEF Step

LEMMA StepNewest ==
  ASSUME MapInv, NEW t \in Thread, Step(t)
  PROVE  NewestInv(t)'
<1>1. /\ StructureInv /\ TypeOK /\ NewestInv(t) /\ BlocksMeant
  BY DEF MapInv, WriterInv, ReadInv, LedgerInv, StructureInv
<1>2. ASSUME Ranged(t)', NEW x \in file', x.row = RowOf(t)'
      PROVE  x.offset <= offset'[t]
  <2>1. CASE ReserveOffset(t)
    <3>1. /\ RowOf(t)' = RowOf(t) /\ file' = file /\ RowOf(t) \in Row
          /\ offset'[t] = appendOffset[ShardForRow(RowOf(t))]
      BY <1>1, <2>1, HereType DEF ReserveOffset, RowOf, callVars, TypeOK, BlockType
    <3>2. x.shard = ShardForRow(RowOf(t))
      BY <1>1, <1>2, <3>1 DEF BlocksMeant
    <3>3. x.size > 0 /\ x.offset + x.size <= appendOffset[x.shard]
      BY <1>1, <1>2, <3>1 DEF StructureInv, AppendInv
    <3>4. x.size \in Nat /\ x.offset \in Nat /\ appendOffset[x.shard] \in Nat
      BY <1>1, <1>2, <3>1 DEF TypeOK, FileType, Block
    <3>. QED BY <3>1, <3>2, <3>3, <3>4
  <2>2. CASE Ranged(t) /\ UNCHANGED <<offset, call>>
    <3>1. \A y \in file : y.row = RowOf(t) => y.offset <= offset[t]
      BY <1>1, <2>2 DEF NewestInv
    <3>2. CASE file' = file
      BY <1>2, <2>2, <3>1, <3>2 DEF RowOf
    <3>3. CASE file' = file \cup {NewBlock(t)}
      <4>1. NewBlock(t).offset = offset[t] /\ offset[t] \in Nat
        BY <1>1 DEF NewBlock, TypeOK, BlockType
      <4>. QED BY <1>2, <2>2, <3>1, <3>3, <4>1 DEF RowOf
    <3>. QED BY <1>1, <3>2, <3>3, StepFile
  <2>. QED BY <1>2, <2>1, <2>2, RangedStep
<1>3. ASSUME Named(t)'
      PROVE  \E b \in Bucket : holds'[b] = RowOf(t)' /\ blockOffset'[b] = offset'[t]
  <2>1. /\ UNCHANGED <<call, offset, holds, blockOffset>>
        /\ PublishBucket(t) \/ IncrementRowItemCount(t)
    BY <1>3, NamedStep
       DEF PublishBucket, IncrementRowItemCount, blockVars, bucketVars
  <2>2. CASE PublishBucket(t)
    <3>1. /\ Here(t) \in Bucket /\ holds[Here(t)] = RowOf(t)
          /\ blockOffset[Here(t)] = offset[t]
      BY <1>1, <2>2, HereType
         DEF PublishBucket, Storing, StructureInv, ThreadInv, StoreInv
    <3>. QED BY <2>1, <3>1 DEF RowOf
  <2>3. CASE IncrementRowItemCount(t)
    <3>1. Named(t)
      BY <2>3 DEF IncrementRowItemCount, Named
    <3>. QED BY <1>1, <2>1, <3>1 DEF NewestInv, RowOf
  <2>. QED BY <2>1, <2>2, <2>3
<1>. QED BY <1>2, <1>3 DEF NewestInv

LEMMA StepBlocksMeant ==
  ASSUME MapInv, NEW t \in Thread, Step(t) \/ Call(t)
  PROVE  BlocksMeant'
<1>1. TypeOK /\ BlocksMeant /\ WriteInv(t)
  BY DEF MapInv, WriterInv, ReadInv, LedgerInv, StructureInv
<1>2. CASE file' = file
  BY <1>1, <1>2 DEF BlocksMeant, ShardForRow, EmptyRow
<1>3. CASE WriteBlock(t) /\ file' = file \cup {NewBlock(t)}
  <2>1. entries[t] # EmptyRow
    BY <1>1, <1>3 DEF WriteBlock, WriteInv, Prepared
  <2>2. /\ NewBlock(t).shard = ShardForRow(NewBlock(t).row)
        /\ NewBlock(t).entries # EmptyRow
    BY <2>1 DEF NewBlock
  <2>. QED BY <1>1, <1>3, <2>2 DEF BlocksMeant, ShardForRow, EmptyRow
<1>. QED BY <1>1, <1>2, <1>3, StepFile

\* A write starts only when its row is free.
LEMMA CallSerialized ==
  ASSUME CallerSerializes, NEW t \in Thread, Call(t)
  PROVE  \E r \in Row, kind \in Kinds, k \in Key, c \in Content,
            l \in {"loadItems", "loadState"} :
           /\ Start(t, kind, r, k, c, l)
           /\ kind # "GetRowStruct" =>
                /\ c # EmptyRow
                /\ \A u \in Thread : ~(InCall(u) /\ IsWrite(u) /\ RowOf(u) = r)
           /\ kind = "PutRowStructs" =>
                l = "loadItems" /\ entries' = [entries EXCEPT ![t] = c]
           /\ kind # "PutRowStructs" => l = "loadState"
<1>1. PICK r \in Row :
        \/ \E c \in Batch : CallPutRowStructs(t, r, c)
        \/ \E k \in Key, v \in Val : CallPutRowStruct(t, r, k, v)
        \/ \E k \in Key : CallGetRowStruct(t, r, k)
  BY DEF Call
<1>2. ASSUME NEW k \in Key, NEW v \in Val
      PROVE  Single(k, v) \in Content /\ Single(k, v) # EmptyRow
  <2>1. Single(k, v) \in Content /\ Single(k, v)[k] = v /\ EmptyRow[k] = NoVal
    BY DEF Single, EmptyRow, Content
  <2>. QED BY <2>1
<1>3. NoCall.key \in Key /\ EmptyRow \in Content
  BY NoCallType DEF EmptyRow, Content
<1>4. MayWrite(r) => \A u \in Thread : ~(InCall(u) /\ IsWrite(u) /\ RowOf(u) = r)
  BY DEF MayWrite, InCall
<1>5. CASE \E c \in Batch : CallPutRowStructs(t, r, c)
  BY <1>3, <1>4, <1>5 DEF CallPutRowStructs, Start
<1>6. CASE \E k \in Key, v \in Val : CallPutRowStruct(t, r, k, v)
  <2>1. PICK k \in Key, v \in Val : CallPutRowStruct(t, r, k, v)
    BY <1>6
  <2>2. /\ Start(t, "PutRowStruct", r, k, Single(k, v), "loadState") /\ MayWrite(r)
        /\ "PutRowStruct" \in Kinds
    BY <2>1 DEF CallPutRowStruct, Start
  <2>. QED BY <1>2, <1>4, <2>2
<1>7. CASE \E k \in Key : CallGetRowStruct(t, r, k)
  BY <1>3, <1>7 DEF CallGetRowStruct, Start
<1>. QED BY <1>1, <1>5, <1>6, <1>7

LEMMA StepSerialized ==
  ASSUME MapInv, NEW t \in Thread, Step(t), \A u \in Thread : u # t => Same(u)
  PROVE  Serialized'
<1>1. TypeOK
  BY DEF MapInv, ReadInv, LedgerInv, StructureInv
<1>2. \A u \in Thread : InCall(u)' => InCall(u) /\ call'[u] = call[u]
  <2>1. InCall(t)' => InCall(t) /\ call'[t] = call[t]
    <3>1. CASE Return(t)
      BY <1>1, <3>1 DEF Return, Goto, InCall, TypeOK, PcType
    <3>2. CASE Busy(t) /\ UNCHANGED call
      BY <3>2 DEF Busy, InCall
    <3>. QED BY <1>1, <3>1, <3>2, StepSeen
  <2>. QED BY <2>1 DEF Same, InCall
<1>. QED BY <1>2 DEF MapInv, Serialized, IsWrite, RowOf

LEMMA CallWriter ==
  ASSUME CallerSerializes, MapInv, StructureInv', NEW t \in Thread, Call(t),
         \A u \in Thread : u # t => Same(u)
  PROVE  Serialized' /\ WriterInv(t)'
<1>1. /\ TypeOK /\ StructureInv /\ HistoryType /\ BlockInv(t) /\ ResultInv(t) /\ Serialized
  BY DEF MapInv, ReadInv, LedgerInv, StructureInv, AnswerInv
<1>2. PICK r \in Row, kind \in Kinds, k \in Key, c \in Content,
           l \in {"loadItems", "loadState"} :
           /\ Start(t, kind, r, k, c, l)
           /\ kind # "GetRowStruct" =>
                /\ c # EmptyRow
                /\ \A u \in Thread : ~(InCall(u) /\ IsWrite(u) /\ RowOf(u) = r)
           /\ kind = "PutRowStructs" =>
                l = "loadItems" /\ entries' = [entries EXCEPT ![t] = c]
           /\ kind # "PutRowStructs" => l = "loadState"
  BY CallSerialized
<1>3. /\ pc[t] = "idle" /\ pc'[t] = l /\ mode'[t] = "find" /\ result' = result
      /\ call'[t] = [kind |-> kind, row |-> r, key |-> k, entries |-> c]
      /\ seen'[t] = {Current(r)} /\ kind # "none"
  BY <1>1, <1>2 DEF Start, Goto, TypeOK, PcType, WalkType, CallType, HistoryType
<1>4. /\ RowOf(t)' = r
      /\ IsWrite(t)' <=> kind # "GetRowStruct"
      /\ call'[t].kind = kind /\ call'[t].entries = c
      /\ InCall(t)' /\ ~Applied(t)' /\ ~Wrote(t)' /\ ~Ranged(t)' /\ ~Named(t)'
      /\ Prepared(t)' => kind = "PutRowStructs"
  <2>1. result'[t].status # "OK"
    BY <1>1, <1>3 DEF ResultInv, NoResult
  <2>2. InCall(t)' /\ ~Applied(t)' /\ ~Wrote(t)' /\ ~Ranged(t)' /\ ~Named(t)'
    BY <1>3, <2>1 DEF InCall, Applied, Storing, Wrote, Ranged, Named
  <2>3. Prepared(t)' => kind = "PutRowStructs"
    BY <1>2, <1>3 DEF Prepared
  <2>4. call'[t].kind = kind /\ call'[t].entries = c /\ RowOf(t)' = r
    BY <1>3 DEF RowOf
  <2>5. kind \in {"PutRowStructs", "PutRowStruct", "GetRowStruct"}
    OBVIOUS
  <2>6. IsWrite(t)' <=> kind # "GetRowStruct"
    BY <2>4, <2>5 DEF IsWrite
  <2>. QED BY <2>2, <2>3, <2>4, <2>6
<1>5. Serialized'
  <2>1. \A u \in Thread : u # t =>
          InCall(u)' = InCall(u) /\ IsWrite(u)' = IsWrite(u) /\ RowOf(u)' = RowOf(u)
    BY DEF Same, InCall, IsWrite, RowOf
  <2>. QED BY <1>1, <1>2, <1>4, <2>1 DEF Serialized
<1>6. kind = "PutRowStructs" => entries'[t] = c /\ Prepared(t)'
  BY <1>1, <1>2, <1>3 DEF TypeOK, BlockType, Prepared
<1>7. KindInv(t)'
  BY <1>2, <1>3, <1>4, <1>6 DEF KindInv, EmptyRow
<1>8. WriteInv(t)'
  <2>1. Current(r)' = Current(r)
    BY <1>1, <1>3, CurrentStays DEF ClaimEmpty, ClaimFilled
  <2>. QED BY <1>2, <1>3, <1>4, <1>6, <2>1 DEF WriteInv, EmptyRow
<1>9. NewestInv(t)'
  BY <1>4 DEF NewestInv
<1>. QED BY <1>5, <1>7, <1>8, <1>9 DEF WriterInv

LEMMA StepMap ==
  ASSUME CallerSerializes, MapInv, ReadInv', NEW t \in Thread, Step(t) \/ Call(t)
  PROVE  MapInv'
<1>1. TypeOK /\ StructureInv' /\ HistoryType
  BY DEF MapInv, ReadInv, LedgerInv, StructureInv
<1>2. \A u \in Thread : u # t => Same(u) /\ SameAnswer(u)
  BY <1>1, StepOthers, CallQuiet, StepOtherAnswers, CallOtherAnswers
<1>3. \A u \in Thread : u # t => WriterInv(u)'
  BY <1>1, <1>2, OtherWriter
<1>4. WriterInv(t)' /\ Serialized'
  <2>1. CASE Step(t)
    BY <1>1, <1>2, <2>1, StepKind, StepWrite, StepNewest, StepSerialized DEF WriterInv
  <2>2. CASE Call(t)
    BY <1>1, <1>2, <2>2, CallWriter
  <2>. QED BY <2>1, <2>2
<1>. QED BY <1>3, <1>4, StepBlocksMeant DEF MapInv

LEMMA StutterMap ==
  ASSUME MapInv, ReadInv', UNCHANGED vars
  PROVE  MapInv'
<1>1. UNCHANGED <<state, blockOffset, holds, file, pc, call, mode, entries, offset, result,
                  seen>>
  BY DEF vars, bucketVars, fileVars, callVars, walkVars, blockVars
<1>2. Serialized' /\ BlocksMeant'
  BY <1>1 DEF MapInv, Serialized, BlocksMeant, InCall, IsWrite, RowOf, ShardForRow, EmptyRow
<1>3. ASSUME NEW u \in Thread
      PROVE  WriterInv(u)'
  <2>1. WriterInv(u)
    BY DEF MapInv
  <2>2. /\ Prepared(u)' = Prepared(u) /\ Applied(u)' = Applied(u) /\ RowOf(u)' = RowOf(u)
        /\ InCall(u)' = InCall(u) /\ IsWrite(u)' = IsWrite(u) /\ Busy(u)' = Busy(u)
        /\ Ranged(u)' = Ranged(u) /\ Named(u)' = Named(u)
    BY <1>1 DEF Prepared, Applied, Storing, RowOf, InCall, IsWrite, Busy, Ranged, Named, Wrote
  <2>3. Current(RowOf(u))' = Current(RowOf(u))
    BY <1>1 DEF Current, Writer, Storing, RowOf, BlocksAt, ShardForRow, EmptyRow
  <2>4. KindInv(u)'
    BY <1>1, <2>1, <2>2 DEF WriterInv, KindInv, EmptyRow
  <2>5. WriteInv(u)'
    BY <1>1, <2>1, <2>2, <2>3 DEF WriterInv, WriteInv, EmptyRow, Merge
  <2>6. NewestInv(u)'
    BY <1>1, <2>1, <2>2 DEF WriterInv, NewestInv
  <2>. QED BY <2>4, <2>5, <2>6 DEF WriterInv
<1>. QED BY <1>2, <1>3 DEF MapInv

LEMMA InitMap == Init => MapInv
<1> SUFFICES ASSUME Init PROVE MapInv
  OBVIOUS
<1>1. ReadInv
  BY InitRead
<1>2. Serialized /\ BlocksMeant
  BY DEF Init, Serialized, BlocksMeant, InCall
<1>3. \A t \in Thread : WriterInv(t)
  BY DEF Init, WriterInv, KindInv, WriteInv, NewestInv, InCall, Busy, Prepared, Applied,
     Storing, Walking, Ranged, Named, Wrote, NoResult
<1>. QED BY <1>1, <1>2, <1>3 DEF MapInv

\* With serialized writers, each write works on the only content that its row
\* had during the call, and its block is the last of its row.
THEOREM MapInvHolds == CallerSerializes => (Spec => []MapInv)
<1> SUFFICES ASSUME CallerSerializes PROVE Spec => []MapInv
  OBVIOUS
<1>1. MapInv /\ ReadInv' /\ [Next]_vars => MapInv'
  BY StepMap, StutterMap DEF Next, AllReturned
<1>2. Spec => [][Next]_vars /\ Init
  BY PTL DEF Spec
<1>. QED BY <1>1, <1>2, InitMap, ReadInvHolds, PTL

\* With serialized writers, what RebuildRowIndexFromValues would pick for a row
\* is what the index names: the block of the last write that returned OK.
THEOREM RebuildPicksLast == CallerSerializes => (Spec => []RebuildAgrees)
<1> SUFFICES ASSUME CallerSerializes PROVE Spec => []RebuildAgrees
  OBVIOUS
<1>1. MapInv => RebuildAgrees
  BY DEF MapInv, WriterInv, NewestInv, Ranged, Named, Wrote, RebuildAgrees
<1>2. Spec => []MapInv
  BY MapInvHolds
<1>. QED BY <1>1, <1>2, PTL

-----------------------------------------------------------------------------
(* The table has room.                                                     *)

\* The index is sized so that the threads together cannot overrun the limit
\* into the last bucket.
RoomForAll == MaxItems + Cardinality(Thread) <= BucketCount

\* A probe sequence visits every bucket.
LEMMA SlotOnto ==
  ASSUME NEW r \in Row, NEW b \in Bucket
  PROVE  \E j \in Bucket : Slot(r, j) = b
<1> DEFINE s == StartOf[IdentOf[r]]
           j == IF b >= s THEN b - s ELSE b - s + BucketCount
<1>1. s \in 0 .. BucketCount - 1
  OBVIOUS
<1>2. j \in Bucket /\ (s + j = b \/ s + j = b + BucketCount)
  BY <1>1
<1>3. b % BucketCount = b /\ (b + BucketCount) % BucketCount = b
  OBVIOUS
<1>4. (s + j) % BucketCount = b
  BY <1>2, <1>3
<1>. QED BY <1>2, <1>4 DEF Slot

LEMMA NeverFull ==
  ASSUME RoomForAll, ReadInv, NEW t \in Thread, PassForeignIdent(t) \/ MatchForeignColumn(t)
  PROVE  probe[t] + 1 # BucketCount
<1>1. /\ StructureInv /\ TypeOK /\ FindInv(t) /\ ThreadInv(t) /\ LedgerInv
  BY DEF ReadInv, LedgerInv, StructureInv, AnswerInv
<1>2. pc[t] \in {"recheck", "match"} /\ holds[Here(t)] # RowOf(t)
  <2>1. CASE PassForeignIdent(t)
    BY <1>1, <2>1 DEF PassForeignIdent, ThreadInv, ReaderInv
  <2>2. CASE MatchForeignColumn(t)
    BY <1>1, <2>2, SnapshotRow DEF MatchForeignColumn
  <2>. QED BY <2>1, <2>2
<1>3. RowOf(t) \in Row /\ probe[t] \in Bucket /\ holds[Here(t)] # NoRow
  BY <1>1, <1>2, HereType DEF TypeOK, WalkType, ThreadInv, ReaderInv, Good
<1>4. Passed(t)
  <2>1. mode[t] \in {"find", "insert"}
    BY <1>1, <1>2 DEF FindInv, Walking, TypeOK, WalkType
  <2>. QED BY <1>1, <1>2, <2>1 DEF FindInv, ThreadInv, InsertInv, Walking
<1>5. SUFFICES ASSUME probe[t] + 1 = BucketCount PROVE FALSE
  OBVIOUS
<1>6. \A j \in Bucket : holds[Slot(RowOf(t), j)] # NoRow
  BY <1>3, <1>4, <1>5 DEF Passed, Here
<1>7. NonEmpty = Bucket
  <2>1. \A b \in Bucket : holds[b] # NoRow
    BY <1>3, <1>6, SlotOnto
  <2>. QED BY <1>1, <2>1 DEF NonEmpty, StructureInv, BucketInv, EmptyHolds
<1>8. Cardinality(0 .. BucketCount - 1) = BucketCount
  BY FS_Interval
<1>9. Cardinality(NonEmpty) <= MaxItems + Cardinality(Thread) - 1
  BY <1>1, LedgerOvershoot DEF OvershootBound
<1>10. Cardinality(Thread) \in Nat
  BY FS_CardinalityType
<1>. QED BY <1>7, <1>8, <1>9, <1>10 DEF RoomForAll

-----------------------------------------------------------------------------
(* Every step maps to a step of RowMap or to none.                         *)

PhaseOf(t) == IF pc[t] = "idle" THEN "idle"
              ELSE IF pc[t] = "return" THEN "done"
              ELSE IF Storing(t) \/ pc[t] = "count" THEN "applied"
              ELSE "running"
Rows   == [r \in Row |-> Current(r)]
Phases == [t \in Thread |-> PhaseOf(t)]

\* The results that RowMap allows a call in thread t.
Allowed(t, status, value) ==
  \/ PhaseOf(t) = "applied" /\ status = "OK" /\ value = NoVal
  \/ /\ PhaseOf(t) = "running"
     /\ \/ IsWrite(t) /\ status = "InvalidArgument" /\ value = NoVal
        \/ status = "IOError" /\ value = NoVal
        \/ disturbed[t] /\ status = "Corruption" /\ value = NoVal
        \/ /\ ~IsWrite(t)
           /\ \E c \in seen[t] : /\ value = c[call[t].key]
                                 /\ status = IF value = NoVal THEN "NotFound" ELSE "OK"

\* A step keeps its call where it is, claims a bucket, decides the call, or
\* returns.
Stays(t)   == UNCHANGED <<call, seen, disturbed, result>> /\ PhaseOf(t)' = PhaseOf(t)
Decides(t) == /\ UNCHANGED <<call, seen, disturbed>>
              /\ \E status, value : Decide(t, status, value) /\ Allowed(t, status, value)

LEMMA StepShape ==
  ASSUME RoomForAll, MapInv, ReadInv', NEW t \in Thread, Step(t)
  PROVE  \/ ClaimEmpty(t) \/ ClaimFilled(t) \/ Return(t)
         \/ Stays(t) \/ Decides(t)
<1>1. /\ TypeOK /\ KindInv(t) /\ ResultInv(t)' /\ ReadInv
      /\ call[t].kind = "GetRowStruct" =>
           pc[t] \in Looking \cup {"loadState", "readValue", "return"}
  BY DEF MapInv, WriterInv, ReadInv, LedgerInv, StructureInv, AnswerInv, ResultInv
<1>2. call[t].kind \in {"PutRowStructs", "PutRowStruct", "GetRowStruct", "none"}
  BY <1>1 DEF TypeOK, CallType
<1>. USE DEF TypeOK, PcType, CallType, Goto, PhaseOf, Storing, Stays, callVars
<1>3. CASE LoadItemCount(t)
  BY <1>3, <1>1 DEF LoadItemCount
<1>4. CASE LoadPending(t)
  <2>1. CASE Decide(t, "InvalidArgument", NoVal)
    <3>1. UNCHANGED <<call, seen, disturbed>> /\ pc[t] = "loadPending"
      BY <1>4 DEF LoadPending
    <3>2. IsWrite(t)
      BY <1>1, <1>2, <3>1 DEF KindInv, InCall, IsWrite, Looking
    <3>3. Allowed(t, "InvalidArgument", NoVal)
      BY <3>1, <3>2 DEF Allowed
    <3>. QED BY <2>1, <3>1, <3>3 DEF Decides
  <2>2. CASE Goto(t, "reserve") /\ UNCHANGED result
    BY <1>1, <1>4, <2>2 DEF LoadPending
  <2>. QED BY <1>4, <2>1, <2>2 DEF LoadPending
<1>5. CASE ReserveSlot(t)
  BY <1>5, <1>1 DEF ReserveSlot
<1>6. CASE ReserveRetry(t)
  BY <1>6, <1>1 DEF ReserveRetry
<1>7. CASE NextRowSequence(t)
  BY <1>7, <1>1 DEF NextRowSequence
<1>8. CASE ReserveOffset(t)
  BY <1>8, <1>1 DEF ReserveOffset
<1>9. CASE WriteBlock(t)
  BY <1>9, <1>1 DEF WriteBlock
<1>10. CASE WriteBlockFails(t)
  <2>1. UNCHANGED <<call, seen, disturbed>> /\ Decide(t, "IOError", NoVal)
    BY <1>10 DEF WriteBlockFails
  <2>2. Allowed(t, "IOError", NoVal)
    BY <1>10 DEF WriteBlockFails, Allowed
  <2>. QED BY <2>1, <2>2 DEF Decides
<1>11. CASE MissRow(t)
  <2>1. mode[t] = "find" /\ EmptyRow \in seen[t] /\ call[t].key \in Key
    BY <1>1, <1>11, MissIsAbsent DEF MissRow
  <2>2. /\ UNCHANGED <<call, seen, disturbed>> /\ Decide(t, "NotFound", NoVal)
        /\ pc[t] = "loadState" /\ call[t].kind = "GetRowStruct"
    BY <1>11, <2>1 DEF MissRow
  <2>3. Allowed(t, "NotFound", NoVal)
    BY <2>1, <2>2 DEF Allowed, IsWrite, EmptyRow
  <2>. QED BY <2>2, <2>3 DEF Decides
<1>12. CASE MissRowForPut(t)
  BY <1>12, <1>1 DEF MissRowForPut
<1>13. CASE InsertSeesEmpty(t)
  BY <1>13, <1>1 DEF InsertSeesEmpty
<1>14. CASE LoadFilled(t)
  BY <1>14, <1>1 DEF LoadFilled
<1>15. CASE SeeWriting(t)
  BY <1>15, <1>1 DEF SeeWriting, Retry
<1>16. CASE LoadIdent(t)
  BY <1>16, <1>1 DEF LoadIdent
<1>17. CASE LoadOffset(t)
  BY <1>17, <1>1 DEF LoadOffset
<1>18. CASE LoadSize(t)
  BY <1>18, <1>1 DEF LoadSize
<1>19. CASE RecheckFilled(t)
  BY <1>19, <1>1 DEF RecheckFilled
<1>20. CASE PassForeignIdent(t)
  <2>1. probe[t] + 1 # BucketCount
    BY <1>1, <1>20, NeverFull
  <2>. QED BY <1>1, <1>20, <2>1 DEF PassForeignIdent, Advance
<1>21. CASE MatchRow(t)
  BY <1>21, <1>1 DEF MatchRow
<1>22. CASE MatchForeignColumn(t)
  <2>1. probe[t] + 1 # BucketCount
    BY <1>1, <1>22, NeverFull
  <2>. QED BY <1>1, <1>22, <2>1 DEF MatchForeignColumn, Advance
<1>23. CASE ReadCorruption(t)
  <2>1. /\ UNCHANGED <<call, seen, disturbed>> /\ Decide(t, "Corruption", NoVal)
        /\ pc[t] \in {"match", "loadBlock"}
    BY <1>23 DEF ReadCorruption
  <2>2. disturbed[t]
    BY <1>1, <2>1 DEF Decide, ResultInv
  <2>3. Allowed(t, "Corruption", NoVal)
    BY <2>1, <2>2 DEF Allowed
  <2>. QED BY <2>1, <2>3 DEF Decides
<1>24. CASE ReadFails(t)
  <2>1. UNCHANGED <<call, seen, disturbed>> /\ Decide(t, "IOError", NoVal)
    BY <1>24 DEF ReadFails
  <2>2. Allowed(t, "IOError", NoVal)
    BY <1>24 DEF ReadFails, Allowed
  <2>. QED BY <2>1, <2>2 DEF Decides
<1>25. CASE ReadValue(t)
  <2>1. PICK x \in Matching(t) :
          Decide(t, IF x.entries[call[t].key] = NoVal THEN "NotFound" ELSE "OK",
                 x.entries[call[t].key])
    BY <1>25 DEF ReadValue
  <2>2. /\ UNCHANGED <<call, seen, disturbed>> /\ pc[t] = "readValue"
        /\ call[t].kind = "GetRowStruct" /\ x.entries \in seen[t]
    BY <1>1, <1>25, ValueIsCurrent DEF ReadValue, KindInv
  <2>3. Allowed(t, IF x.entries[call[t].key] = NoVal THEN "NotFound" ELSE "OK",
                x.entries[call[t].key])
    BY <2>2 DEF Allowed, IsWrite
  <2>. QED BY <2>1, <2>2, <2>3 DEF Decides
<1>26. CASE LoadRowEntries(t)
  BY <1>26, <1>1 DEF LoadRowEntries
<1>27. CASE ClaimFails(t)
  BY <1>27, <1>1 DEF ClaimFails, Retry
<1>28. CASE StoreIdent(t)
  BY <1>28, <1>1 DEF StoreIdent
<1>29. CASE StoreOffset(t)
  BY <1>29, <1>1 DEF StoreOffset
<1>30. CASE StoreSize(t)
  BY <1>30, <1>1 DEF StoreSize
<1>31. CASE PublishBucket(t)
  <2>1. UNCHANGED <<call, seen, disturbed>> /\ pc[t] = "publish"
    BY <1>31 DEF PublishBucket
  <2>2. CASE inserted[t]
    BY <1>1, <1>31, <2>2 DEF PublishBucket
  <2>3. CASE ~inserted[t]
    <3>1. Decide(t, "OK", NoVal) /\ Allowed(t, "OK", NoVal)
      BY <1>31, <2>1, <2>3 DEF PublishBucket, Allowed
    <3>. QED BY <2>1, <3>1 DEF Decides
  <2>. QED BY <2>2, <2>3
<1>32. CASE IncrementRowItemCount(t)
  <2>1. UNCHANGED <<call, seen, disturbed>> /\ Decide(t, "OK", NoVal)
    BY <1>32 DEF IncrementRowItemCount
  <2>2. Allowed(t, "OK", NoVal)
    BY <1>32 DEF IncrementRowItemCount, Allowed
  <2>. QED BY <2>1, <2>2 DEF Decides
<1>. QED BY <1>3, <1>4, <1>5, <1>6, <1>7, <1>8, <1>9, <1>10, <1>11, <1>12,
    <1>13, <1>14, <1>15, <1>16, <1>17, <1>18, <1>19, <1>20, <1>21, <1>22,
    <1>23, <1>24, <1>25, <1>26, <1>27, <1>28, <1>29, <1>30, <1>31,
    <1>32 DEF Step

\* The phases move with the thread.
LEMMA PhasesMove ==
  ASSUME NEW t \in Thread, \A u \in Thread : u # t => Same(u)
  PROVE  Phases' = [Phases EXCEPT ![t] = PhaseOf(t)']
<1>1. \A u \in Thread : u # t => PhaseOf(u)' = PhaseOf(u)
  BY DEF Same, PhaseOf, Storing
<1>. QED BY <1>1 DEF Phases

\* Only a claim changes the rows.
LEMMA RowsKept ==
  ASSUME MapInv, StructureInv', NEW t \in Thread, Step(t) \/ Call(t), ~ClaimEmpty(t),
         ~ClaimFilled(t)
  PROVE  Rows' = Rows
<1>1. StructureInv /\ BlockInv(t)
  BY DEF MapInv, ReadInv, LedgerInv, AnswerInv
<1>2. \A r \in Row : Current(r)' = Current(r)
  BY <1>1, CurrentStays
<1>. QED BY <1>2 DEF Rows

\* RowMap's variables, as the refinement mapping gives them.
LEMMA Mapping ==
  /\ Abstract!vars = <<Rows, Phases, call, seen, disturbed, result>>
  /\ Abstract!vars' = <<Rows, Phases, call, seen, disturbed, result>>'
BY DEF Abstract!vars, Rows, Phases, PhaseOf


\* The names of RowMap's operators.
LEMMA SameOperators ==
  /\ Abstract!EmptyRow = EmptyRow /\ Abstract!NoCall = NoCall
  /\ Abstract!NoResult = NoResult /\ Abstract!Content = Content
  /\ \A c, d : Abstract!Merge(c, d) = Merge(c, d)
  /\ \A t : Abstract!IsWrite(t) <=> IsWrite(t)
BY DEF Abstract!EmptyRow, EmptyRow, Abstract!NoCall, NoCall, Abstract!NoResult, NoResult,
   Abstract!Content, Content, Abstract!Merge, Merge, Abstract!IsWrite, IsWrite

\* A claim is RowMap's Apply: the write takes effect here.
LEMMA ClaimApplies ==
  ASSUME MapInv, StructureInv', NEW t \in Thread, Step(t), ClaimEmpty(t) \/ ClaimFilled(t),
         \A u \in Thread : u # t => Same(u)
  PROVE  Abstract!Apply(t)
<1>1. /\ StructureInv /\ TypeOK /\ InsertInv(t) /\ ReaderInv(t) /\ KindInv(t)
      /\ WriteInv(t) /\ BlocksMeant
  BY DEF MapInv, WriterInv, ReadInv, LedgerInv, StructureInv, ThreadInv
<1>2. /\ Prepared(t) /\ pc[t] \in {"claimEmpty", "claimFilled"} /\ pc'[t] = "storeIdent"
      /\ UNCHANGED <<call, result>>
  BY <1>1 DEF ClaimEmpty, ClaimFilled, Goto, Prepared, Walking, InsertInv, TypeOK, PcType
<1>3. /\ IsWrite(t) /\ RowOf(t) \in Row /\ Here(t) \in Bucket
  BY <1>1, <1>2, PreparedWrites, HereType DEF InCall
<1>4. Phases[t] = "running" /\ Phases' = [Phases EXCEPT ![t] = "applied"]
  BY <1>2, PhasesMove DEF Phases, PhaseOf, Storing
<1>5. entries[t] = IF call[t].kind = "PutRowStructs" THEN call[t].entries
                   ELSE Merge(Rows[RowOf(t)], call[t].entries)
  BY <1>1, <1>2, <1>3 DEF KindInv, WriteInv, InCall, IsWrite, Rows
<1>6. Rows' = [Rows EXCEPT ![RowOf(t)] = entries[t]]
  <2>1. \A r \in Row : Current(r)' = IF r = RowOf(t) THEN entries[t] ELSE Current(r)
    BY <1>1, CurrentClaim
  <2>. QED BY <2>1 DEF Rows
<1>7. \A u \in Thread : Busy(u) <=> Phases[u] \in {"running", "applied"}
  BY DEF Phases, PhaseOf, Busy
<1>8. seen' = [u \in Thread |-> IF Phases[u] \in {"running", "applied"} /\ RowOf(u) = RowOf(t)
                                THEN seen[u] \cup {entries[t]} ELSE seen[u]]
  BY <1>7 DEF ClaimEmpty, ClaimFilled, Remember
<1>9. CurrentIs(RowOf(t)) /\ Rows[RowOf(t)] = Current(RowOf(t))
  BY <1>1, <1>3, CurrentMeaning DEF CurrentFacts, Rows
<1>10. ClaimEmpty(t) => Rows[RowOf(t)] = EmptyRow
  <2> SUFFICES ASSUME ClaimEmpty(t) PROVE Rows[RowOf(t)] = EmptyRow
    OBVIOUS
  <2>1. pc[t] # "idle" /\ Passed(t) /\ state[Here(t)] = "Empty"
    BY <1>1 DEF ClaimEmpty, InsertInv
  <2>2. \A b \in Bucket : holds[b] # RowOf(t)
    BY <1>1, <2>1, RowAbsent
  <2>. QED BY <1>9, <2>2 DEF CurrentIs
<1>11. ClaimFilled(t) => Rows[RowOf(t)] # EmptyRow
  <2> SUFFICES ASSUME ClaimFilled(t) PROVE Rows[RowOf(t)] # EmptyRow
    OBVIOUS
  <2>1. state[Here(t)] = "Filled" /\ holds[Here(t)] = RowOf(t)
    BY <1>1 DEF ClaimFilled, ReaderInv
  <2>2. PICK x \in file : /\ x.shard = ShardForRow(RowOf(t))
                         /\ x.offset = blockOffset[Here(t)] /\ x.row = RowOf(t)
    BY <1>1, <1>3, <2>1 DEF StructureInv, BucketInv, FilledGood, Good, HasBlock
  <2>3. x.entries \in Content /\ x.entries # EmptyRow
    BY <1>1 DEF TypeOK, FileType, Block, BlocksMeant
  <2>4. Published(RowOf(t), Here(t), x.entries)
    BY <2>1, <2>2 DEF Published, HasContent
  <2>. QED BY <1>3, <1>9, <2>3, <2>4 DEF CurrentIs
<1>12. disturbed' = [u \in Thread |->
         \/ disturbed[u]
         \/ /\ Rows[RowOf(t)] # EmptyRow
            /\ Phases[u] \in {"running", "applied"}
            /\ IdentOf[RowOf(u)] = IdentOf[RowOf(t)]]
  <2>1. CASE ClaimEmpty(t)
    BY <1>7, <1>10, <2>1 DEF ClaimEmpty, Remember
  <2>2. CASE ClaimFilled(t)
    BY <1>7, <1>11, <2>2 DEF ClaimFilled, Remember
  <2>. QED BY <2>1, <2>2
<1> DEFINE c == IF call[t].kind = "PutRowStructs" THEN call[t].entries
                ELSE Merge(Rows[RowOf(t)], call[t].entries)
<1>13. /\ Rows' = [Rows EXCEPT ![RowOf(t)] = c]
       /\ seen' = [u \in Thread |->
                     IF Phases[u] \in {"running", "applied"} /\ RowOf(u) = RowOf(t)
                     THEN seen[u] \cup {c} ELSE seen[u]]
  BY <1>5, <1>6, <1>8
<1> HIDE DEF c
<1>14. c = IF call[t].kind = "PutRowStructs" THEN call[t].entries
           ELSE Abstract!Merge(Rows[RowOf(t)], call[t].entries)
  BY SameOperators DEF c
<1>. QED
  BY <1>2, <1>3, <1>4, <1>12, <1>13, <1>14, SameOperators
     DEF Abstract!Apply, Rows, Phases, PhaseOf, RowOf

\* The last step of a call, but for its return, is one of RowMap's answers.
LEMMA DecidesFinishes ==
  ASSUME TypeOK, NEW t \in Thread, Decides(t), Rows' = Rows,
         \A u \in Thread : u # t => Same(u)
  PROVE  Abstract!FinishWrite(t) \/ Abstract!FinishRead(t) \/ Abstract!Refuse(t)
<1>1. PICK status, value : Decide(t, status, value) /\ Allowed(t, status, value)
  BY DEF Decides
<1>2. Phases' = [Phases EXCEPT ![t] = "done"]
  BY <1>1, PhasesMove DEF Decide, PhaseOf, TypeOK, PcType
<1>3. Abstract!Finish(t, status, value)
  BY <1>1, <1>2 DEF Abstract!Finish, Decide, Decides, Rows, Phases, PhaseOf
<1>4. Phases[t] = PhaseOf(t)
  BY DEF Phases
<1>5. CASE PhaseOf(t) = "applied" /\ status = "OK" /\ value = NoVal
  BY <1>3, <1>4, <1>5 DEF Abstract!FinishWrite, Phases, PhaseOf
<1>6. CASE PhaseOf(t) = "running" /\ ~IsWrite(t)
           /\ \E c \in seen[t] : /\ value = c[call[t].key]
                                 /\ status = IF value = NoVal THEN "NotFound" ELSE "OK"
  <2>1. PICK c \in seen[t] : /\ value = c[call[t].key]
                             /\ status = IF value = NoVal THEN "NotFound" ELSE "OK"
    BY <1>6
  <2>2. value = c[call[t].key] /\ status = IF c[call[t].key] = NoVal THEN "NotFound" ELSE "OK"
    BY <2>1
  <2>3. Abstract!Finish(t, IF c[call[t].key] = NoVal THEN "NotFound" ELSE "OK",
                        c[call[t].key])
    BY <1>3, <2>2 DEF Abstract!Finish
  <2>. QED BY <1>4, <1>6, <2>3, SameOperators DEF Abstract!FinishRead, Phases, PhaseOf
<1>7. CASE PhaseOf(t) = "running" /\
           (\/ IsWrite(t) /\ status = "InvalidArgument" /\ value = NoVal
            \/ status = "IOError" /\ value = NoVal
            \/ disturbed[t] /\ status = "Corruption" /\ value = NoVal)
  BY <1>3, <1>4, <1>7, SameOperators DEF Abstract!Refuse, Phases, PhaseOf
<1>. QED BY <1>1, <1>5, <1>6, <1>7 DEF Allowed

LEMMA ReturnReturns ==
  ASSUME TypeOK, NEW t \in Thread, Return(t), Rows' = Rows,
         \A u \in Thread : u # t => Same(u)
  PROVE  Abstract!Return(t)
<1>1. Phases[t] = "done" /\ Phases' = [Phases EXCEPT ![t] = "idle"]
  BY PhasesMove DEF Return, Goto, Phases, PhaseOf, TypeOK, PcType
<1>. QED BY <1>1, SameOperators DEF Return, Abstract!Return, Rows, Phases, PhaseOf

LEMMA CallBegins ==
  ASSUME CallerSerializes, TypeOK, NEW t \in Thread, Call(t), Rows' = Rows,
         \A u \in Thread : u # t => Same(u)
  PROVE  \E c \in Abstract!Calls : Abstract!Begin(t, c)
<1>1. PICK r \in Row, kind \in Kinds, k \in Key, c \in Content,
           l \in {"loadItems", "loadState"} :
           /\ Start(t, kind, r, k, c, l)
           /\ kind # "GetRowStruct" =>
                \A u \in Thread : ~(InCall(u) /\ IsWrite(u) /\ RowOf(u) = r)
  BY CallSerialized
<1> DEFINE z == [kind |-> kind, row |-> r, key |-> k, entries |-> c]
<1>2. /\ z \in Abstract!Calls /\ z.kind = kind /\ z.row = r
  BY SameOperators DEF Abstract!Calls
<1>3. /\ call' = [call EXCEPT ![t] = z] /\ seen' = [seen EXCEPT ![t] = {Rows[r]}]
      /\ UNCHANGED <<disturbed, result>>
  BY <1>1 DEF Start, Rows
<1> HIDE DEF z
<1>4. Phases[t] = "idle" /\ Phases' = [Phases EXCEPT ![t] = "running"]
  BY <1>1, PhasesMove DEF Start, Goto, Phases, PhaseOf, Storing, TypeOK, PcType
<1>5. kind # "GetRowStruct" =>
        \A u \in Thread : ~(Phases[u] # "idle" /\ Abstract!IsWrite(u) /\ call[u].row = r)
  BY <1>1, SameOperators DEF InCall, Phases, PhaseOf, RowOf
<1>6. Abstract!Begin(t, z)
  BY <1>2, <1>3, <1>4, <1>5 DEF Abstract!Begin, Rows, Phases, PhaseOf
<1>. QED BY <1>2, <1>6

LEMMA StepImplements ==
  ASSUME CallerSerializes, RoomForAll, MapInv, ReadInv', NEW t \in Thread,
         Step(t) \/ Call(t)
  PROVE  [Abstract!Next]_(Abstract!vars)
<1>1. TypeOK /\ StructureInv'
  BY DEF MapInv, ReadInv, LedgerInv, StructureInv
<1>2. \A u \in Thread : u # t => Same(u)
  BY <1>1, StepOthers, CallQuiet
<1>3. CASE ClaimEmpty(t) \/ ClaimFilled(t)
  <2>1. Abstract!Apply(t)
    BY <1>1, <1>2, <1>3, ClaimApplies DEF Step
  <2>. QED BY <2>1 DEF Abstract!Next
<1>4. CASE ~ClaimEmpty(t) /\ ~ClaimFilled(t)
  <2>1. Rows' = Rows
    BY <1>1, <1>4, RowsKept
  <2>2. CASE Call(t)
    <3>1. \E c \in Abstract!Calls : Abstract!Begin(t, c)
      BY <1>1, <1>2, <2>1, <2>2, CallBegins
    <3>. QED BY <3>1 DEF Abstract!Next
  <2>3. CASE Return(t)
    <3>1. Abstract!Return(t)
      BY <1>1, <1>2, <2>1, <2>3, ReturnReturns
    <3>. QED BY <3>1 DEF Abstract!Next
  <2>4. CASE Stays(t)
    <3>1. Phases' = Phases
      BY <1>2, <2>4, PhasesMove DEF Stays, Phases
    <3>. QED BY <2>1, <2>4, <3>1, Mapping DEF Stays
  <2>5. CASE Decides(t)
    <3>1. Abstract!FinishWrite(t) \/ Abstract!FinishRead(t) \/ Abstract!Refuse(t)
      BY <1>1, <1>2, <2>1, <2>5, DecidesFinishes
    <3>. QED BY <3>1 DEF Abstract!Next
  <2>. QED BY <1>4, <2>2, <2>3, <2>4, <2>5, StepShape
<1>. QED BY <1>3, <1>4

LEMMA StutterImplements ==
  ASSUME UNCHANGED vars
  PROVE  UNCHANGED Abstract!vars
<1>1. UNCHANGED <<holds, blockOffset, file, pc, call, entries, seen, disturbed, result>>
  BY DEF vars, bucketVars, fileVars, blockVars, callVars
<1>2. Rows' = Rows /\ Phases' = Phases
  BY <1>1 DEF Rows, Current, Writer, Storing, RowOf, BlocksAt, ShardForRow, EmptyRow,
     Phases, PhaseOf
<1>. QED BY <1>1, <1>2, Mapping

LEMMA InitImplements == Init => Abstract!Init
<1> SUFFICES ASSUME Init PROVE Abstract!Init
  OBVIOUS
<1>1. StructureInv /\ \A b \in Bucket : holds[b] = NoRow
  BY InitStructure DEF Init
<1>2. \A r \in Row : Current(r) = EmptyRow
  BY <1>1, CurrentMeaning DEF CurrentFacts, CurrentIs
<1>3. Rows = [r \in Row |-> EmptyRow] /\ Phases = [t \in Thread |-> "idle"]
  BY <1>2 DEF Init, Rows, Phases, PhaseOf
<1>. QED BY <1>3, SameOperators DEF Init, Abstract!Init, Rows, Phases, PhaseOf

\* The threads' steps on buckets, counters and files, with callers that
\* serialize the writes of a row and an index with room for the threads'
\* overrun, implement a map from rows to contents whose writes take effect at
\* one instant: when the bucket is claimed.
THEOREM RowIndexImplementsRowMap ==
  CallerSerializes /\ RoomForAll => (Spec => ImplementsRowMap)
<1> SUFFICES ASSUME CallerSerializes, RoomForAll PROVE Spec => ImplementsRowMap
  OBVIOUS
<1>1. MapInv /\ ReadInv' /\ [Next]_vars => [Abstract!Next]_(Abstract!vars)
  BY StepImplements, StutterImplements DEF Next, AllReturned
<1>2. Spec => []MapInv /\ []ReadInv
  BY MapInvHolds, ReadInvHolds
<1>3. Spec => Init /\ [][Next]_vars
  BY DEF Spec
<1>. QED BY <1>1, <1>2, <1>3, InitImplements, PTL DEF ImplementsRowMap, Abstract!Spec
=============================================================================
