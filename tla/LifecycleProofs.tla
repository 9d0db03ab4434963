-------------------------- MODULE LifecycleProofs --------------------------
(***************************************************************************)
(* Open, Flush and Close over any number of shard files: what Flush        *)
(* reported as done stays in the data files and in every index whose       *)
(* filling was not cut, an index never gets ahead of its data by Flush's   *)
(* doing, no file is leaked, and a read-only session changes nothing.      *)
(***************************************************************************)
EXTENDS Lifecycle, TLAPS

USE LifecycleAssumption

\* The files that Open has behind it.
Opened == {OpenOrder[i] : i \in 1 .. step - 1}

\* Which files are open at each place of the program.
HeldInv ==
  /\ open => held = File /\ pc # "open"
  /\ ~open /\ pc \notin {"open", "fill"} => held = {} /\ ~mapped
  /\ pc = "open" => held = Opened
  /\ pc = "fill" /\ ~open => held = Opened \cup {Opening}
  /\ pc \in Data \cup {"fill"} => ~readOnly
  /\ pc \in Data => open
  /\ pc = "flush" /\ step > 1 => ~SkipFlush

\* The index that is being filled.
FillInv == pc = "fill" =>
  /\ Filling \in Index /\ Filling \in rewritten
  /\ open => step = 1

\* An open data file has its header, and the record that the index names next.
HeaderInv ==
  /\ \A d \in Data : d \in held => data[d] >= 1
  /\ pc \in Data => data[pc] >= 2

\* What was acknowledged is in the data files of the page cache, what was
\* flushed in those on disk.
CountInv ==
  /\ flushed \subseteq acked
  /\ \A r \in acked : 2 <= r[2] /\ r[2] <= data[r[1]]
  /\ \A d \in Data : dataDisk[d] <= data[d]
  /\ \A r \in flushed : r[2] <= dataDisk[r[1]]

\* What was acknowledged is named by an index whose filling was not cut, or still
\* to be copied into it; a rebuild finds it again in any case.
NamedInv ==
  \A r \in acked, f \in Index : IndexOf(r[1]) = f =>
    /\ f \notin cut /\ f \notin CutNow => r \in idx[f]
    /\ f \in CutNow /\ (f \notin cut \/ ~open) => r \in idx[f] \/ r \in copy

\* What was flushed is named by an index on disk that was not filled again since.
OnDiskInv ==
  \A r \in flushed, f \in Index :
    IndexOf(r[1]) = f /\ f \notin cut /\ f \notin rewritten => r \in idxDisk[f]

\* The files that a running Flush has behind it are on disk as they are in the
\* page cache.
SyncedInv == pc = "flush" => \A i \in 1 .. step - 1 :
  LET f == SyncOrder[i].file IN
  /\ f \in Data => dataDisk[f] = data[f]
  /\ f \in Index => idxDisk[f] = idx[f] /\ f \notin rewritten

\* An index in the page cache names missing records only if a loss of power
\* left it so.
CacheAhead ==
  /\ \A f \in Index : Ahead(idx[f], data) => f \in kernel
  /\ pc = "fill" /\ Ahead(copy, data) => Filling \in kernel

LifeInv == /\ TypeOK /\ HeldInv /\ FillInv /\ HeaderInv /\ CountInv /\ NamedInv
           /\ OnDiskInv /\ SyncedInv /\ CacheAhead /\ AheadOnlyByKernel

-----------------------------------------------------------------------------
(* The orders in which Open and Flush visit the files.                     *)

LEMMA ShardsAreListed ==
  /\ Len(ShardSeq) \in Nat
  /\ DOMAIN ShardSeq = 1 .. Len(ShardSeq)
  /\ \A i \in 1 .. Len(ShardSeq) : ShardSeq[i] \in Shard
  /\ \A d \in Shard : \E i \in 1 .. Len(ShardSeq) : d = ShardSeq[i]
BY DEF Shard, ToSet

LEMMA FilesAreDistinct ==
  /\ "values" \notin Index /\ "values" \in Data
  /\ Data \cap Index = {} /\ File = Data \cup Index
  /\ "idle" \notin Data /\ "open" \notin Data /\ "flush" \notin Data /\ "fill" \notin Data
  /\ \A d \in Data : IndexOf(d) \in Index
  /\ \A d \in Shard : d \in Data /\ d # "values"
BY DEF Index, Data, File, IndexOf

\* Open visits values, index, the shards, rowIndex.
LEMMA OpenOrderIs ==
  /\ Len(OpenOrder) = Len(ShardSeq) + 3
  /\ OpenOrder[1] = "values" /\ OpenOrder[2] = "index"
  /\ \A i \in 1 .. Len(ShardSeq) : OpenOrder[i + 2] = ShardSeq[i]
  /\ OpenOrder[Len(ShardSeq) + 3] = "rowIndex"
  /\ \A i \in 1 .. Len(OpenOrder) : OpenOrder[i] \in File
<1>1. ShardSeq \in Seq(File) /\ Len(ShardSeq) \in Nat
  BY ShardsAreListed DEF File, Data
<1>a. "values" \in File /\ "index" \in File /\ "rowIndex" \in File
  BY DEF File, Data, Index
<1>2. <<"values", "index">> \in Seq(File) /\ <<"rowIndex">> \in Seq(File)
  BY <1>a
<1> DEFINE A == <<"values", "index">> \o ShardSeq
<1>3. A \in Seq(File) /\ Len(A) = Len(ShardSeq) + 2
  BY <1>1, <1>2
<1>4. A[1] = "values" /\ A[2] = "index"
      /\ \A i \in 1 .. Len(ShardSeq) : A[i + 2] = ShardSeq[i]
  BY <1>1, <1>2
<1>5. OpenOrder = A \o <<"rowIndex">>
  BY DEF OpenOrder
<1> HIDE DEF A
<1>6. Len(OpenOrder) = Len(ShardSeq) + 3
  BY <1>1, <1>3, <1>5, <1>2
<1>7. \A i \in 1 .. Len(ShardSeq) + 2 : OpenOrder[i] = A[i]
  BY <1>1, <1>3, <1>5, <1>2
<1>8. OpenOrder[Len(ShardSeq) + 3] = "rowIndex"
  BY <1>1, <1>3, <1>5, <1>2
<1>9. ASSUME NEW i \in 1 .. Len(OpenOrder) PROVE OpenOrder[i] \in File
  <2>1. CASE i \in {1, 2}
    BY <2>1, <1>1, <1>4, <1>7 DEF File, Index, Data
  <2>2. CASE i = Len(ShardSeq) + 3
    BY <2>2, <1>8 DEF File, Index
  <2>3. CASE i \in 3 .. Len(ShardSeq) + 2
    <3>1. i - 2 \in 1 .. Len(ShardSeq) /\ (i - 2) + 2 = i
      BY <2>3, <1>1
    <3>2. A[i] = ShardSeq[i - 2]
      BY <3>1, <1>4
    <3>3. OpenOrder[i] = ShardSeq[i - 2]
      BY <3>2, <2>3, <1>7, <1>1
    <3> QED BY <3>1, <3>3, ShardsAreListed DEF File, Data
  <2> QED BY <2>1, <2>2, <2>3, <1>6, <1>1
<1>10. /\ OpenOrder[1] = "values" /\ OpenOrder[2] = "index"
       /\ \A i \in 1 .. Len(ShardSeq) : OpenOrder[i + 2] = ShardSeq[i]
  BY <1>1, <1>4, <1>7
<1> QED BY <1>6, <1>8, <1>9, <1>10

\* At its end Open has visited every file.
LEMMA OpenOrderVisitsAll == {OpenOrder[i] : i \in 1 .. Len(OpenOrder)} = File
<1> DEFINE R == {OpenOrder[i] : i \in 1 .. Len(OpenOrder)}
<1>1. R \subseteq File
  BY OpenOrderIs
<1>2. ASSUME NEW f \in File PROVE f \in R
  <2>1. CASE f \in {"values", "index"}
    BY <2>1, OpenOrderIs, ShardsAreListed
  <2>2. CASE f = "rowIndex"
    BY <2>2, OpenOrderIs, ShardsAreListed
  <2>3. CASE f \in Shard
    <3>1. PICK i \in 1 .. Len(ShardSeq) : f = ShardSeq[i]
      BY <2>3, ShardsAreListed
    <3>2. i + 2 \in 1 .. Len(OpenOrder)
      BY OpenOrderIs, ShardsAreListed
    <3> QED BY <3>1, <3>2, OpenOrderIs
  <2> QED BY <2>1, <2>2, <2>3 DEF File, Data, Index
<1> QED BY <1>1, <1>2

\* Flush visits values, the shards, rowIndex (mapping and file), index
\* (mapping and file).
LEMMA SyncOrderIs ==
  LET n == Len(ShardSeq) IN
  /\ Len(SyncOrder) = n + 5
  /\ SyncOrder[1].file = "values"
  /\ \A i \in 1 .. n : SyncOrder[i + 1].file = ShardSeq[i]
  /\ SyncOrder[n + 2].file = "rowIndex" /\ SyncOrder[n + 3].file = "rowIndex"
  /\ SyncOrder[n + 4].file = "index" /\ SyncOrder[n + 5].file = "index"
<1> DEFINE n == Len(ShardSeq)
           S == [file : File, map : BOOLEAN]
           V == <<Sync("values", FALSE)>>
           T == <<Sync("rowIndex", TRUE), Sync("rowIndex", FALSE),
                  Sync("index", TRUE), Sync("index", FALSE)>>
           A == V \o RowFiles
<1>1. n \in Nat
  BY ShardsAreListed
<1>a. ASSUME NEW f \in File, NEW m \in BOOLEAN
      PROVE  Sync(f, m) \in S /\ Sync(f, m).file = f
  BY DEF Sync
<1>b. "values" \in File /\ "index" \in File /\ "rowIndex" \in File
  BY DEF File, Data, Index
<1>c. /\ Sync("values", FALSE) \in S /\ Sync("values", FALSE).file = "values"
      /\ \A m \in BOOLEAN : /\ Sync("index", m) \in S /\ Sync("index", m).file = "index"
                           /\ Sync("rowIndex", m) \in S
                           /\ Sync("rowIndex", m).file = "rowIndex"
  BY <1>a, <1>b
<1> HIDE DEF S
<1>d. ASSUME NEW a \in S
      PROVE  <<a>> \in Seq(S) /\ Len(<<a>>) = 1 /\ <<a>>[1] = a
  OBVIOUS
<1>e. ASSUME NEW a \in S, NEW b \in S, NEW c \in S, NEW d \in S
      PROVE  LET t == <<a, b, c, d>> IN
             /\ t \in Seq(S) /\ Len(t) = 4
             /\ t[1] = a /\ t[2] = b /\ t[3] = c /\ t[4] = d
  OBVIOUS
<1>2. V \in Seq(S) /\ Len(V) = 1 /\ V[1].file = "values"
  <2>1. V \in Seq(S) /\ Len(V) = 1 /\ V[1] = Sync("values", FALSE)
    BY <1>c, <1>d, Zenon
  <2> QED BY <2>1, <1>c, Zenon
<1>3. T \in Seq(S) /\ Len(T) = 4 /\ T[1].file = "rowIndex" /\ T[2].file = "rowIndex"
      /\ T[3].file = "index" /\ T[4].file = "index"
  <2>1. T \in Seq(S) /\ Len(T) = 4
        /\ T[1] = Sync("rowIndex", TRUE) /\ T[2] = Sync("rowIndex", FALSE)
        /\ T[3] = Sync("index", TRUE) /\ T[4] = Sync("index", FALSE)
    BY <1>c, <1>e, Zenon
  <2> QED BY <2>1, <1>c, Zenon
<1>4. RowFiles = [i \in 1 .. n |-> Sync(ShardSeq[i], FALSE)]
  BY ShardsAreListed DEF RowFiles
<1>5. RowFiles \in Seq(S) /\ Len(RowFiles) = n
  <2>1. \A i \in 1 .. n : Sync(ShardSeq[i], FALSE) \in S
    BY <1>a, ShardsAreListed, Zenon DEF File, Data
  <2>2. RowFiles \in [1 .. n -> S]
    BY <2>1, <1>4, Zenon
  <2> QED BY <2>2, <1>1
<1>6. \A i \in 1 .. n : RowFiles[i].file = ShardSeq[i]
  BY <1>4 DEF Sync
<1>7. SyncOrder = A \o T
  BY DEF SyncOrder
<1> HIDE DEF V, T, n
<1>8. A \in Seq(S) /\ Len(A) = n + 1 /\ A[1] = V[1]
      /\ \A i \in 1 .. n : A[i + 1] = RowFiles[i]
  <2>1. A \in Seq(S) /\ Len(A) = Len(V) + Len(RowFiles)
        /\ (\A i \in 1 .. Len(V) : A[i] = V[i])
        /\ \A i \in 1 .. Len(RowFiles) : A[Len(V) + i] = RowFiles[i]
    <3> HIDE DEF V
    <3>1. V \in Seq(S) /\ RowFiles \in Seq(S)
      BY <1>2, <1>5
    <3>2. A \in Seq(S) /\ Len(A) = Len(V) + Len(RowFiles)
      BY <3>1
    <3>3. \A i \in 1 .. Len(V) : A[i] = V[i]
      BY <3>1
    <3>4. \A i \in 1 .. Len(RowFiles) : A[Len(V) + i] = RowFiles[i]
      BY <3>1
    <3> QED BY <3>2, <3>3, <3>4
  <2> HIDE DEF A
  <2> QED BY <2>1, <1>1, <1>2, <1>5
<1> HIDE DEF A
<1>9. /\ Len(SyncOrder) = n + 5
      /\ \A i \in 1 .. n + 1 : SyncOrder[i] = A[i]
      /\ \A i \in 1 .. 4 : SyncOrder[n + 1 + i] = T[i]
  <2>1. Len(SyncOrder) = Len(A) + Len(T)
        /\ (\A i \in 1 .. Len(A) : SyncOrder[i] = A[i])
        /\ \A i \in 1 .. Len(T) : SyncOrder[Len(A) + i] = T[i]
    <3>1. T \in Seq(S) /\ A \in Seq(S)
      BY <1>3, <1>8
    <3>2. Len(SyncOrder) = Len(A) + Len(T)
      BY <3>1, <1>7
    <3>3. \A i \in 1 .. Len(A) : SyncOrder[i] = A[i]
      BY <3>1, <1>7
    <3>4. \A i \in 1 .. Len(T) : SyncOrder[Len(A) + i] = T[i]
      BY <3>1, <1>7
    <3> QED BY <3>2, <3>3, <3>4
  <2> QED BY <2>1, <1>1, <1>3, <1>8
<1>10. SyncOrder[n + 2] = T[1] /\ SyncOrder[n + 3] = T[2] /\ SyncOrder[n + 4] = T[3]
       /\ SyncOrder[n + 5] = T[4]
  BY <1>1, <1>9
<1>11. SyncOrder[1].file = "values"
  BY <1>1, <1>2, <1>8, <1>9
<1>12. \A i \in 1 .. n : SyncOrder[i + 1].file = ShardSeq[i]
  <2> SUFFICES ASSUME NEW i \in 1 .. n PROVE SyncOrder[i + 1].file = ShardSeq[i]
    OBVIOUS
  <2>1. SyncOrder[i + 1] = A[i + 1]
    BY <1>1, <1>9
  <2> QED BY <2>1, <1>6, <1>8
<1> QED BY <1>3, <1>9, <1>10, <1>11, <1>12 DEF n

LEMMA SyncOrderFiles == \A i \in 1 .. Len(SyncOrder) : SyncOrder[i].file \in File
<1> SUFFICES ASSUME NEW i \in 1 .. Len(SyncOrder) PROVE SyncOrder[i].file \in File
  OBVIOUS
<1>1. CASE i \in 2 .. Len(ShardSeq) + 1
  <2>1. i - 1 \in 1 .. Len(ShardSeq) /\ (i - 1) + 1 = i
    BY <1>1, ShardsAreListed
  <2>2. SyncOrder[i].file = ShardSeq[i - 1]
    BY <2>1, SyncOrderIs
  <2> QED BY <2>1, <2>2, ShardsAreListed DEF File, Data
<1>2. CASE i = 1
  BY <1>2, SyncOrderIs DEF File, Data
<1>3. CASE i \in Len(ShardSeq) + 2 .. Len(ShardSeq) + 5
  <2>1. \/ i = Len(ShardSeq) + 2 \/ i = Len(ShardSeq) + 3
        \/ i = Len(ShardSeq) + 4 \/ i = Len(ShardSeq) + 5
    BY <1>3, ShardsAreListed
  <2> QED BY <2>1, SyncOrderIs DEF File, Index
<1> QED BY <1>1, <1>2, <1>3, SyncOrderIs, ShardsAreListed

\* Every data file comes in the first n + 1 places, every index after them.
LEMMA DataFirst ==
  ASSUME NEW d \in Data
  PROVE  \E j \in 1 .. Len(ShardSeq) + 1 : SyncOrder[j].file = d
<1>1. CASE d = "values"
  BY <1>1, SyncOrderIs, ShardsAreListed
<1>2. CASE d \in Shard
  <2>1. PICK i \in 1 .. Len(ShardSeq) : d = ShardSeq[i]
    BY <1>2, ShardsAreListed
  <2>2. i + 1 \in 1 .. Len(ShardSeq) + 1 /\ SyncOrder[i + 1].file = d
    BY <2>1, ShardsAreListed, SyncOrderIs
  <2> QED BY <2>2
<1> QED BY <1>1, <1>2 DEF Data

LEMMA DataBeforeIndex ==
  ASSUME NEW i \in 1 .. Len(SyncOrder), SyncOrder[i].file \in Index, NEW d \in Data
  PROVE  \E j \in 1 .. i - 1 : SyncOrder[j].file = d
<1>1. ~(i <= Len(ShardSeq) + 1)
  <2> SUFFICES ASSUME i <= Len(ShardSeq) + 1 PROVE FALSE
    OBVIOUS
  <2>1. CASE i = 1
    BY <2>1, SyncOrderIs, FilesAreDistinct
  <2>2. CASE i # 1
    <3>1. i - 1 \in 1 .. Len(ShardSeq) /\ (i - 1) + 1 = i
      BY <2>2, ShardsAreListed
    <3>2. SyncOrder[i].file = ShardSeq[i - 1]
      BY <3>1, SyncOrderIs
    <3> QED BY <3>1, <3>2, ShardsAreListed, FilesAreDistinct
  <2> QED BY <2>1, <2>2
<1>2. PICK j \in 1 .. Len(ShardSeq) + 1 : SyncOrder[j].file = d
  BY DataFirst
<1>3. j \in 1 .. i - 1
  BY <1>1, SyncOrderIs, ShardsAreListed
<1> QED BY <1>2, <1>3

\* At its end Flush has visited every file.
LEMMA SyncOrderVisitsAll ==
  ASSUME NEW f \in File
  PROVE  \E j \in 1 .. Len(SyncOrder) : SyncOrder[j].file = f
<1>1. CASE f \in Data
  <2>1. PICK j \in 1 .. Len(ShardSeq) + 1 : SyncOrder[j].file = f
    BY <1>1, DataFirst
  <2>2. j \in 1 .. Len(SyncOrder)
    BY SyncOrderIs, ShardsAreListed
  <2> QED BY <2>1, <2>2
<1>2. CASE f = "rowIndex"
  BY <1>2, SyncOrderIs, ShardsAreListed
<1>3. CASE f = "index"
  BY <1>3, SyncOrderIs, ShardsAreListed
<1> QED BY <1>1, <1>2, <1>3 DEF File, Index

-----------------------------------------------------------------------------
(* What StartOpen and FlushReturns leave behind.                           *)

Statuses == {"OK", "IOError", "Corruption", "InvalidArgument"}

\* What TypeOK says of the program counter, and its bounds as facts.
LEMMA StepRange ==
  ASSUME TypeOK
  PROVE  /\ Len(OpenOrder) \in Nat /\ Len(SyncOrder) \in Nat
         /\ pc = "flush" => step \in 1 .. Len(SyncOrder) + 1
         /\ pc = "open" => step \in 1 .. Len(OpenOrder) + 1
         /\ pc = "fill" => step \in 1 .. Len(OpenOrder)
         /\ pc \notin {"flush", "open", "fill"} => step = 1
BY OpenOrderIs, SyncOrderIs, ShardsAreListed DEF TypeOK


\* TypeOK in four parts.
FilesTyped ==
  /\ data \in [Data -> Nat] /\ dataDisk \in [Data -> Nat] /\ damaged \in SUBSET Data
  /\ idx \in [Index -> SUBSET (Data \X Nat)] /\ idxDisk \in [Index -> SUBSET (Data \X Nat)]
  /\ torn \in SUBSET Index /\ dirty \in SUBSET Index /\ rewritten \in SUBSET Index
  /\ kernel \in SUBSET Index /\ cut \in SUBSET Index
  /\ copy \in SUBSET (Data \X Nat)
  /\ acked \in SUBSET (Data \X Nat) /\ flushed \in SUBSET (Data \X Nat)
FlagsTyped == open \in BOOLEAN /\ readOnly \in BOOLEAN /\ mapped \in BOOLEAN
CallTyped ==
  /\ held \in SUBSET File
  /\ pc \in {"idle", "open", "flush", "fill"} \cup Data
  /\ after \in {"caller", "close", "open"} /\ args \in OpenArgs
  /\ status \in Statuses
  /\ writes \in 0 .. MaxWrites /\ fails \in 0 .. MaxFails
StepTyped ==
  /\ pc = "flush" => step \in 1 .. Len(SyncOrder) + 1
  /\ pc = "open" => step \in 1 .. Len(OpenOrder) + 1
  /\ pc = "fill" => step \in 1 .. Len(OpenOrder)
  /\ pc \notin {"flush", "open", "fill"} => step = 1
TypeParts == FilesTyped /\ FlagsTyped /\ CallTyped /\ StepTyped

LEMMA TypeFromParts == TypeParts => TypeOK
<1> SUFFICES ASSUME TypeParts PROVE TypeOK
  OBVIOUS
<1>1. step \in 1 .. CASE pc = "flush" -> Len(SyncOrder) + 1
                      [] pc = "open" -> Len(OpenOrder) + 1
                      [] pc = "fill" -> Len(OpenOrder)
                      [] OTHER -> 1
  <2>1. CASE pc = "flush"
    BY <2>1 DEF TypeParts, StepTyped
  <2>2. CASE pc = "open"
    BY <2>2 DEF TypeParts, StepTyped
  <2>3. CASE pc = "fill"
    BY <2>3 DEF TypeParts, StepTyped
  <2>4. CASE pc \notin {"flush", "open", "fill"}
    BY <2>4 DEF TypeParts, StepTyped
  <2> QED BY <2>1, <2>2, <2>3, <2>4
<1> QED BY <1>1 DEF TypeParts, FilesTyped, FlagsTyped, CallTyped, Statuses, TypeOK

LEMMA TypeToParts == TypeOK => TypeParts
BY StepRange
   DEF TypeParts, FilesTyped, FlagsTyped, CallTyped, StepTyped, Statuses, TypeOK

LEMMA StartOpenEffect ==
  ASSUME NEW a \in OpenArgs, NEW old \in BOOLEAN, StartOpen(a, old), status \in Statuses
  PROVE  /\ pc' \in {"idle", "open"} /\ step' = 1 /\ after' = "caller" /\ args' \in OpenArgs
         /\ readOnly' \in BOOLEAN /\ status' \in Statuses
BY DEF StartOpen, OpenArgs, NoArgs, Statuses

\* Flush that returns leaves the database as it was, or closed, or closed with
\* the next Open under way.
LEMMA FlushReturnsEffect ==
  ASSUME TypeOK, HeldInv, pc = "flush",
         NEW s \in {"OK", "IOError", "InvalidArgument"}, FlushReturns(s)
  PROVE  /\ pc' \in {"idle", "open"} /\ step' = 1
         /\ after' \in {"caller", "close", "open"} /\ args' \in OpenArgs
         /\ status' \in Statuses /\ readOnly' \in BOOLEAN /\ open' \in BOOLEAN
         /\ mapped' \in BOOLEAN /\ writes' = writes /\ copy' = copy
         /\ \/ /\ pc' = "idle" /\ UNCHANGED <<open, readOnly, mapped, held>>
            \/ open' = FALSE /\ held' = {} /\ mapped' = FALSE
<1>1. CASE after = "caller"
  <2>1. Back(s) /\ UNCHANGED <<open, readOnly, mapped, held, copy, writes>>
    BY <1>1 DEF FlushReturns
  <2> QED BY <2>1 DEF Back, NoArgs, OpenArgs, Statuses, TypeOK
<1>2. CASE after = "close"
  <2>1. Back(s) /\ open' = FALSE /\ readOnly' = FALSE /\ CloseFiles /\ UNCHANGED <<copy, writes>>
    BY <1>2 DEF FlushReturns
  <2> QED BY <2>1 DEF Back, CloseFiles, NoArgs, OpenArgs, Statuses
<1>3. CASE after = "open"
  <2>1. /\ open' = FALSE /\ CloseFiles /\ UNCHANGED <<copy, writes>>
        /\ IF s = "OK" THEN StartOpen(args, FALSE) ELSE Back(s) /\ readOnly' = FALSE
    BY <1>3 DEF FlushReturns
  <2>2. args \in OpenArgs /\ status \in Statuses
    BY DEF TypeOK, Statuses
  <2>3. CASE s = "OK"
    <3>1. StartOpen(args, FALSE)
      BY <2>1, <2>3
    <3>2. /\ pc' \in {"idle", "open"} /\ step' = 1 /\ after' = "caller"
          /\ args' \in OpenArgs /\ readOnly' \in BOOLEAN /\ status' \in Statuses
      BY <3>1, <2>2, StartOpenEffect, Zenon
    <3> QED BY <3>2, <2>1 DEF CloseFiles
  <2>4. CASE s # "OK"
    <3>1. Back(s) /\ readOnly' = FALSE
      BY <2>1, <2>4, Zenon
    <3>2. open' = FALSE /\ CloseFiles /\ UNCHANGED <<copy, writes>>
      BY <2>1
    <3> QED BY <3>1, <3>2 DEF Back, CloseFiles, NoArgs, OpenArgs, Statuses
  <2> QED BY <2>3, <2>4
<1> QED BY <1>1, <1>2, <1>3 DEF TypeOK

\* Flush fills nothing.
LEMMA FlushReturnsCopy ==
  ASSUME NEW s, FlushReturns(s)
  PROVE  copy' = copy
BY DEF FlushReturns

\* A process that dies leaves nothing open.
LEMMA DiesEffect ==
  ASSUME TypeOK, Dies
  PROVE  /\ pc' = "idle" /\ step' = 1 /\ after' = "caller" /\ args' \in OpenArgs
         /\ status' = status /\ readOnly' = FALSE /\ open' = FALSE /\ held' = {}
         /\ mapped' = FALSE /\ writes' = writes /\ copy' = {}
BY DEF Dies, CloseFiles, Back, NoArgs, OpenArgs

\* Outside of a filling nothing is being cut; inside it is one index.
LEMMA CutNowIs ==
  /\ pc # "fill" => CutNow = {}
  /\ pc = "fill" => CutNow = {Filling}
BY DEF CutNow

LEMMA CutNowNext ==
  /\ pc' # "fill" => CutNow' = {}
  /\ pc' = "fill" => CutNow' = {Filling'}
BY DEF CutNow

\* Only an index is ever filled or touched by a bucket store.
LEMMA TouchedIs ==
  ASSUME TypeOK, FillInv
  PROVE  CutNow \subseteq Index /\ Touched \subseteq Index
BY FilesAreDistinct DEF CutNow, Touched, FillInv

\* What a rebuild finds: the records of the data files of the index, no more.
LEMMA RecordsAre ==
  ASSUME data \in [Data -> Nat], NEW f \in Index
  PROVE  /\ Records(f) \subseteq Data \X Nat
         /\ \A r \in Records(f) : r[2] <= data[r[1]]
         /\ \A r \in Data \X Nat :
              IndexOf(r[1]) = f /\ 2 <= r[2] /\ r[2] <= data[r[1]] => r \in Records(f)
<1>1. \A d \in Data : data[d] \in Nat
  OBVIOUS
<1>2. ASSUME NEW r \in Records(f)
      PROVE  r \in Data \X Nat /\ r[2] <= data[r[1]]
  <2>1. PICK d \in Data : r \in {d} \X (2 .. data[d])
    BY DEF Records
  <2> QED BY <2>1, <1>1
<1>3. ASSUME NEW r \in Data \X Nat, IndexOf(r[1]) = f, 2 <= r[2], r[2] <= data[r[1]]
      PROVE  r \in Records(f)
  <2>1. r[1] \in Data /\ r[2] \in 2 .. data[r[1]] /\ r = <<r[1], r[2]>>
    BY <1>3, <1>1
  <2>2. r \in {r[1]} \X (2 .. data[r[1]])
    BY <2>1
  <2> QED BY <2>1, <2>2, <1>3 DEF Records
<1> QED BY <1>2, <1>3

-----------------------------------------------------------------------------
(* The initial states.                                                     *)

LEMMA LifeInit == Init => LifeInv
<1> SUFFICES ASSUME Init PROVE LifeInv
  OBVIOUS
<1>1. Zero \in [Data -> Nat] /\ \A d \in Data : Zero[d] = 0
  BY DEF Zero
<1>2. idx \in [Index -> SUBSET (Data \X Nat)] /\ \A f \in Index : idx[f] = {}
  BY DEF Init
<1>3. TypeOK
  <2>1. FilesTyped
    BY <1>1, <1>2 DEF Init, FilesTyped
  <2>2. FlagsTyped
    BY Zenon DEF Init, FlagsTyped
  <2>3. CallTyped /\ StepTyped
    BY DEF Init, CallTyped, StepTyped, NoArgs, OpenArgs, Statuses
  <2> QED BY <2>1, <2>2, <2>3, TypeFromParts DEF TypeParts
<1>4. HeldInv /\ FillInv /\ HeaderInv
  BY FilesAreDistinct DEF Init, HeldInv, FillInv, HeaderInv
<1>5. CountInv /\ NamedInv /\ OnDiskInv
  BY <1>1 DEF Init, CountInv, NamedInv, OnDiskInv
<1>6. CacheAhead /\ AheadOnlyByKernel
  BY <1>2 DEF Init, CacheAhead, AheadOnlyByKernel, Ahead
<1>7. SyncedInv
  BY DEF Init, SyncedInv
<1> QED BY <1>3, <1>4, <1>5, <1>6, <1>7 DEF LifeInv

-----------------------------------------------------------------------------
(* Every step keeps the types.                                             *)

LEMMA FilesTypedStep == LifeInv /\ [Next]_vars => FilesTyped'
<1> SUFFICES ASSUME LifeInv, [Next]_vars PROVE FilesTyped'
  OBVIOUS
<1>1. FilesTyped /\ TypeOK /\ FillInv
  BY TypeToParts DEF LifeInv, TypeParts
<1>0. CutNow \subseteq Index /\ Touched \subseteq Index
  BY <1>1, TouchedIs
<1>2. CASE UNCHANGED <<files, history, copy>>
  BY <1>1, <1>2 DEF files, history, FilesTyped
<1>3. CASE OpenFile
  BY <1>1, <1>3 DEF OpenFile, history, FilesTyped
<1>4. ASSUME NEW f \in Index, Empty(f), copy' \in SUBSET (Data \X Nat),
             UNCHANGED <<data, dataDisk, damaged, idxDisk, history>>
      PROVE  FilesTyped'
  BY <1>1, <1>4 DEF Empty, history, FilesTyped
<1>5. CASE StartRebuild
  <2>1. Opening \in Index /\ Empty(Opening) /\ copy' = Records(Opening)
        /\ UNCHANGED <<data, dataDisk, damaged, idxDisk, history>>
    BY <1>1, <1>5 DEF StartRebuild, FilesTyped
  <2>2. copy' \in SUBSET (Data \X Nat)
    BY <1>1, <2>1, RecordsAre DEF FilesTyped
  <2> QED BY <1>4, <2>1, <2>2
<1>6. CASE Grow
  <2>1. "index" \in Index /\ Empty("index") /\ copy' = idx["index"]
        /\ UNCHANGED <<data, dataDisk, damaged, idxDisk, history>>
    BY <1>6 DEF Grow, Index
  <2> QED BY <1>1, <1>4, <2>1 DEF FilesTyped
<1>7. CASE StoreHeader
  BY <1>1, <1>7 DEF StoreHeader, process, history, FilesTyped
<1>8. CASE PlaceBucket
  <2>1. PICK r \in copy : /\ idx' = [idx EXCEPT ![Filling] = @ \cup {r}]
                         /\ copy' = copy \ {r}
    BY <1>8 DEF PlaceBucket
  <2>2. Filling \in Index
    BY <1>1, <1>8 DEF PlaceBucket, FillInv
  <2>3. idx' \in [Index -> SUBSET (Data \X Nat)] /\ copy' \in SUBSET (Data \X Nat)
    BY <1>1, <2>1, <2>2 DEF FilesTyped
  <2> QED BY <1>1, <1>8, <2>3 DEF PlaceBucket, history, FilesTyped
<1>9. CASE FillEnds
  BY <1>1, <1>9 DEF FillEnds, FillInv, files, FilesTyped
<1>10. CASE OpenFails
  BY <1>0, <1>1, <1>10 DEF OpenFails, files, FilesTyped
<1>11. CASE SyncFile
  <2>1. SyncOrder[step].file \in File
    BY <1>1, <1>11, SyncOrderFiles, StepRange DEF SyncFile, Syncing
  <2>2. dataDisk' \in [Data -> Nat] /\ idxDisk' \in [Index -> SUBSET (Data \X Nat)]
        /\ kernel' \in SUBSET Index /\ dirty' \in SUBSET Index
        /\ rewritten' \in SUBSET Index
    BY <1>1, <1>11, <2>1 DEF SyncFile, FilesTyped, File
  <2> QED BY <1>1, <1>11, <2>2 DEF SyncFile, FilesTyped
<1>12. CASE FlushEnds
  <2>1. UNCHANGED <<files, copy, acked, kernel, cut>> /\ flushed' = acked
    BY <1>1, <1>12, FlushReturnsCopy DEF FlushEnds
  <2> QED BY <1>1, <2>1 DEF files, FilesTyped
<1>13. CASE FlushSkipped \/ SyncFails
  <2>1. UNCHANGED <<files, history, copy>>
    BY <1>13, FlushReturnsCopy DEF FlushSkipped, SyncFails
  <2> QED BY <2>1, <1>2
<1>14. ASSUME NEW d \in Data, AppendRecord(d) PROVE FilesTyped'
  BY <1>1, <1>14 DEF AppendRecord, history, FilesTyped
<1>15. ASSUME NEW d \in Data, StoreBucket(d) PROVE FilesTyped'
  <2> DEFINE r == <<d, data[d]>>
  <2>1. IndexOf(d) \in Index /\ r \in Data \X Nat
    BY <1>1, FilesAreDistinct DEF FilesTyped
  <2>2. idx' = [idx EXCEPT ![IndexOf(d)] = @ \cup {r}] /\ acked' = acked \cup {r}
        /\ dirty' = dirty \cup {IndexOf(d)}
    BY <1>15 DEF StoreBucket
  <2>3. /\ idx' \in [Index -> SUBSET (Data \X Nat)] /\ acked' \in SUBSET (Data \X Nat)
        /\ dirty' \in SUBSET Index
    BY <1>1, <2>1, <2>2 DEF FilesTyped
  <2> QED BY <1>1, <1>15, <2>3 DEF StoreBucket, FilesTyped
<1>16. CASE GrowFails
  BY <1>1, <1>16 DEF GrowFails, history, FilesTyped, Index
<1>17. CASE Crash
  <2>1. copy' = {} /\ damaged' \in SUBSET Data
        /\ UNCHANGED <<data, dataDisk, idx, idxDisk, rewritten, acked, flushed, kernel>>
    BY <1>1, <1>17 DEF Crash, Dies, FilesTyped
  <2>2. PICK t \in SUBSET Touched : torn' = torn \cup t /\ dirty' = dirty \cup t
    BY <1>17 DEF Crash
  <2>3. cut' = cut \cup CutNow
    BY <1>17 DEF Crash
  <2> QED BY <1>0, <1>1, <2>1, <2>2, <2>3 DEF FilesTyped
<1>18. CASE PowerLoss
  BY <1>1, <1>18 DEF PowerLoss, Dies, FilesTyped
<1>19. ASSUME NEW f \in File, WriteBack(f) PROVE FilesTyped'
  <2>1. dataDisk' \in [Data -> Nat] /\ idxDisk' \in [Index -> SUBSET (Data \X Nat)]
        /\ kernel' \in SUBSET Index
    <3>1. CASE f \in Data
      BY <1>1, <1>19, <3>1 DEF WriteBack, FilesTyped
    <3>2. CASE f \notin Data
      <4>1. f \in Index /\ kernel' = kernel \cup {f} /\ dataDisk' = dataDisk
        BY <1>19, <3>2 DEF WriteBack, File
      <4>2. PICK s \in SUBSET (Data \X Nat) : idxDisk' = [idxDisk EXCEPT ![f] = s]
        <5>1. CASE \E r \in idx[f] \ idxDisk[f] :
                     idxDisk' = [idxDisk EXCEPT ![f] = @ \cup {r}]
          BY <1>1, <4>1, <5>1 DEF FilesTyped
        <5>2. CASE \E r \in idxDisk[f] : idxDisk' = [idxDisk EXCEPT ![f] = @ \ {r}]
          BY <1>1, <4>1, <5>2 DEF FilesTyped
        <5> QED BY <1>19, <3>2, <5>1, <5>2 DEF WriteBack
      <4> QED BY <1>1, <4>1, <4>2 DEF FilesTyped
    <3> QED BY <3>1, <3>2
  <2> QED BY <1>1, <1>19, <2>1 DEF WriteBack, process, FilesTyped
<1>20. CASE UNCHANGED vars
  BY <1>20, <1>2 DEF vars, process
<1>21. CASE CallOpen \/ OpenEnds \/ CallFlush \/ CallClose
  BY <1>21, <1>2 DEF CallOpen, OpenEnds, CallFlush, CallClose
<1>22. ASSUME NEW d \in Data, AppendFails(d) PROVE FilesTyped'
  BY <1>1, <1>22 DEF AppendFails, process, history, FilesTyped
<1> QED
  BY <1>3, <1>5, <1>6, <1>7, <1>8, <1>9, <1>10, <1>11, <1>12, <1>13, <1>14, <1>15, <1>16,
     <1>17, <1>18, <1>19, <1>20, <1>21, <1>22
  DEF Next

LEMMA FlagsTypedStep == LifeInv /\ [Next]_vars => FlagsTyped'
<1> SUFFICES ASSUME LifeInv, [Next]_vars PROVE FlagsTyped'
  OBVIOUS
<1>1. FlagsTyped /\ TypeOK /\ HeldInv
  BY TypeToParts DEF LifeInv, TypeParts
<1>2. CASE UNCHANGED <<open, readOnly, mapped>>
  BY <1>1, <1>2, Zenon DEF FlagsTyped
<1>3. CASE CallOpen
  <2>1. PICK a \in OpenArgs :
          IF open
          THEN /\ pc' = "flush" /\ step' = 1 /\ after' = "open" /\ args' = a
               /\ UNCHANGED <<readOnly, status>>
          ELSE StartOpen(a, readOnly)
    BY <1>3, Zenon DEF CallOpen
  <2>2. open' = open /\ mapped' = mapped
    BY <1>3, Zenon DEF CallOpen
  <2>3. CASE open
    BY <1>1, <2>1, <2>2, <2>3, Zenon DEF FlagsTyped
  <2>4. CASE ~open
    <3>1. StartOpen(a, readOnly)
      BY <2>1, <2>4, Zenon
    <3>2. status \in Statuses /\ readOnly \in BOOLEAN
      BY <1>1 DEF TypeOK, Statuses
    <3>3. readOnly' \in BOOLEAN
      BY <3>1, <3>2, StartOpenEffect, Zenon
    <3> QED BY <3>3, <2>2, <1>1, Zenon DEF FlagsTyped
  <2> QED BY <2>3, <2>4
<1>4. CASE OpenFile
  <2>1. open' = open /\ readOnly' = readOnly /\ mapped' = (mapped \/ Opening = "index")
    BY <1>4, Zenon DEF OpenFile
  <2> QED BY <1>1, <2>1, Zenon DEF FlagsTyped
<1>13. CASE StartRebuild
  <2>1. open' = open /\ readOnly' = readOnly /\ mapped' = (mapped \/ Opening = "index")
    BY <1>13, Zenon DEF StartRebuild
  <2> QED BY <1>1, <2>1, Zenon DEF FlagsTyped
<1>5. CASE OpenFails
  BY <1>1, <1>5, Zenon DEF OpenFails, Abandon, CloseFiles, FlagsTyped
<1>6. CASE OpenEnds
  BY <1>1, <1>6, Zenon DEF OpenEnds, FlagsTyped
<1>7. CASE FlushSkipped
  <2>1. pc = "flush" /\ FlushReturns("OK")
    BY <1>7, Zenon DEF FlushSkipped
  <2> QED BY <1>1, <2>1, FlushReturnsEffect, Zenon DEF FlagsTyped
<1>8. CASE SyncFails
  <2>1. /\ pc = "flush"
        /\ FlushReturns(IF Unwritable(SyncOrder[step]) THEN "InvalidArgument" ELSE "IOError")
    BY <1>8, Zenon DEF SyncFails, Syncing
  <2>2. PICK s \in {"OK", "IOError", "InvalidArgument"} : FlushReturns(s)
    BY <2>1, Zenon
  <2> QED BY <1>1, <2>1, <2>2, FlushReturnsEffect, Zenon DEF FlagsTyped
<1>9. CASE FlushEnds
  <2>1. pc = "flush" /\ FlushReturns("OK")
    BY <1>9, Zenon DEF FlushEnds
  <2> QED BY <1>1, <2>1, FlushReturnsEffect, Zenon DEF FlagsTyped
<1>10. CASE GrowFails
  BY <1>1, <1>10, Zenon DEF GrowFails, FlagsTyped
<1>11. CASE Dies
  BY <1>11, Zenon DEF Dies, CloseFiles, FlagsTyped
<1>12. CASE UNCHANGED vars
  BY <1>12, <1>2 DEF vars, process
<1> QED
  BY <1>2, <1>3, <1>4, <1>5, <1>6, <1>7, <1>8, <1>9, <1>10, <1>11, <1>12, <1>13
  DEF Next, CallFlush, CallClose, SyncFile, AppendRecord, AppendFails, StoreBucket, Crash,
      PowerLoss, WriteBack, process, StoreHeader, PlaceBucket, FillEnds, Grow

LEMMA CallTypedStep == LifeInv /\ [Next]_vars => CallTyped' /\ StepTyped'
<1> SUFFICES ASSUME LifeInv, [Next]_vars PROVE CallTyped' /\ StepTyped'
  OBVIOUS
<1>1. CallTyped /\ StepTyped /\ TypeOK /\ HeldInv /\ FillInv
  BY TypeToParts DEF LifeInv, TypeParts
<1>2. Len(OpenOrder) \in Nat /\ Len(SyncOrder) \in Nat
  BY <1>1, StepRange
<1>3. CASE UNCHANGED <<held, pc, step, after, args, status, writes, fails>>
  BY <1>1, <1>3 DEF CallTyped, StepTyped
<1>4. CASE CallOpen
  <2>1. PICK a \in OpenArgs :
          IF open
          THEN /\ pc' = "flush" /\ step' = 1 /\ after' = "open" /\ args' = a
               /\ UNCHANGED <<readOnly, status>>
          ELSE StartOpen(a, readOnly)
    BY <1>4, Zenon DEF CallOpen
  <2>2. UNCHANGED <<held, writes, fails>>
    BY <1>4 DEF CallOpen
  <2>3. CASE open
    BY <1>1, <1>2, <2>1, <2>2, <2>3 DEF CallTyped, StepTyped
  <2>4. CASE ~open
    <3>1. StartOpen(a, readOnly)
      BY <2>1, <2>4, Zenon
    <3>2. status \in Statuses /\ readOnly \in BOOLEAN
      BY <1>1 DEF TypeOK, Statuses
    <3>3. /\ pc' \in {"idle", "open"} /\ step' = 1 /\ after' = "caller"
          /\ args' \in OpenArgs /\ status' \in Statuses
      BY <3>1, <3>2, StartOpenEffect, Zenon
    <3> QED BY <1>1, <1>2, <2>2, <3>3 DEF CallTyped, StepTyped
  <2> QED BY <2>3, <2>4
<1>5. CASE OpenFile
  <2>1. step \in 1 .. Len(OpenOrder)
    BY <1>1, <1>2, <1>5 DEF OpenFile, AllOpened, StepTyped
  <2>2. Opening \in File
    BY <2>1, OpenOrderIs DEF Opening
  <2>3. held' = held \cup {Opening} /\ step' = step + 1 /\ pc = "open"
        /\ UNCHANGED <<pc, after, args, status, writes, fails>>
    BY <1>5 DEF OpenFile
  <2> QED BY <1>1, <1>2, <2>1, <2>2, <2>3 DEF CallTyped, StepTyped
<1>6. CASE OpenFails
  <2>1. fails' \in 0 .. MaxFails /\ status' \in Statuses
    BY <1>1, <1>6 DEF OpenFails, Fails, CallTyped, Statuses
  <2> QED BY <1>1, <1>2, <1>6, <2>1 DEF OpenFails, Abandon, CloseFiles, CallTyped, StepTyped
<1>7. CASE OpenEnds
  BY <1>1, <1>2, <1>7 DEF OpenEnds, CallTyped, StepTyped, Statuses
<1>20. CASE StartRebuild
  <2>1. step \in 1 .. Len(OpenOrder) /\ Opening \in File
    BY <1>1, <1>2, <1>20, OpenOrderIs DEF StartRebuild, AllOpened, Opening, StepTyped
  <2>2. /\ held' = held \cup {Opening} /\ pc' = "fill"
        /\ UNCHANGED <<step, after, args, status, writes, fails>>
    BY <1>20 DEF StartRebuild, Empty
  <2> QED BY <1>1, <1>2, <2>1, <2>2 DEF CallTyped, StepTyped
<1>21. CASE Grow
  <2>1. pc' = "fill" /\ pc = "idle" /\ UNCHANGED <<held, step, after, args, status, writes, fails>>
    BY <1>21 DEF Grow, Empty, Writable
  <2>2. step' \in 1 .. Len(OpenOrder)
    BY <1>1, <2>1, OpenOrderIs, ShardsAreListed DEF StepTyped
  <2> QED BY <1>1, <1>2, <2>1, <2>2 DEF CallTyped, StepTyped
<1>22. CASE StoreHeader \/ PlaceBucket
  <2>1. UNCHANGED <<held, pc, step, after, args, status, writes, fails>>
    BY <1>22 DEF StoreHeader, PlaceBucket, process
  <2> QED BY <2>1, <1>3
<1>23. CASE FillEnds
  <2>1. pc = "fill" /\ UNCHANGED <<held, after, args, status, writes, fails>>
    BY <1>23 DEF FillEnds
  <2>2. \/ open /\ pc' = "idle" /\ step' = step
        \/ pc' = "open" /\ step' = step + 1
    BY <1>23 DEF FillEnds
  <2> QED BY <1>1, <1>2, <2>1, <2>2, FilesAreDistinct DEF CallTyped, StepTyped, FillInv
<1>8. CASE CallFlush
  BY <1>1, <1>2, <1>8 DEF CallFlush, CallTyped, StepTyped
<1>9. CASE CallClose
  BY <1>1, <1>2, <1>9 DEF CallClose, CallTyped, StepTyped, Statuses
<1>10. ASSUME pc = "flush", fails' \in 0 .. MaxFails,
              NEW s \in {"OK", "IOError", "InvalidArgument"}, FlushReturns(s)
       PROVE  CallTyped' /\ StepTyped'
  <2>1. /\ pc' \in {"idle", "open"} /\ step' = 1
        /\ after' \in {"caller", "close", "open"} /\ args' \in OpenArgs
        /\ status' \in Statuses /\ writes' = writes /\ held' \in {held, {}}
    BY <1>1, <1>10, FlushReturnsEffect
  <2> QED BY <1>1, <1>2, <1>10, <2>1 DEF CallTyped, StepTyped
<1>11. CASE FlushSkipped
  <2>1. pc = "flush" /\ fails' = fails /\ FlushReturns("OK")
    BY <1>11 DEF FlushSkipped
  <2> QED BY <1>1, <1>10, <2>1 DEF CallTyped
<1>12. CASE SyncFile
  <2>1. step \in 1 .. Len(SyncOrder)
    BY <1>1, <1>2, <1>12 DEF SyncFile, Syncing, StepTyped
  <2>2. step' = step + 1 /\ pc = "flush"
        /\ UNCHANGED <<held, pc, after, args, status, writes, fails>>
    BY <1>12 DEF SyncFile, Syncing
  <2> QED BY <1>1, <1>2, <2>1, <2>2 DEF CallTyped, StepTyped
<1>13. CASE SyncFails
  <2>1. pc = "flush" /\ Fails
        /\ FlushReturns(IF Unwritable(SyncOrder[step]) THEN "InvalidArgument" ELSE "IOError")
    BY <1>13, Zenon DEF SyncFails, Syncing
  <2>2. fails' \in 0 .. MaxFails
    BY <1>1, <2>1 DEF Fails, CallTyped
  <2>3. PICK s \in {"OK", "IOError", "InvalidArgument"} : FlushReturns(s)
    BY <2>1, Zenon
  <2> QED BY <2>1, <2>2, <2>3, <1>10
<1>14. CASE FlushEnds
  <2>1. pc = "flush" /\ fails' = fails /\ FlushReturns("OK")
    BY <1>14 DEF FlushEnds
  <2> QED BY <1>1, <1>10, <2>1 DEF CallTyped
<1>15. ASSUME NEW d \in Data, AppendRecord(d) PROVE CallTyped' /\ StepTyped'
  BY <1>1, <1>2, <1>15, FilesAreDistinct DEF AppendRecord, Appendable, Writable, CallTyped, StepTyped
<1>16. ASSUME NEW d \in Data, StoreBucket(d) PROVE CallTyped' /\ StepTyped'
  BY <1>1, <1>2, <1>16, FilesAreDistinct DEF StoreBucket, CallTyped, StepTyped, Statuses
<1>17. CASE GrowFails
  BY <1>1, <1>2, <1>17 DEF GrowFails, Writable, Fails, CallTyped, StepTyped, Statuses
<1>18. CASE Crash \/ PowerLoss
  <2>1. Dies /\ Fails
    BY <1>18 DEF Crash, PowerLoss
  <2>2. fails' \in 0 .. MaxFails
    BY <1>1, <2>1 DEF Fails, CallTyped
  <2> QED BY <1>1, <1>2, <2>1, <2>2, DiesEffect DEF CallTyped, StepTyped
<1>19. CASE UNCHANGED <<process, status, writes, fails>>
  BY <1>19, <1>3 DEF process
<1>24. ASSUME NEW d \in Data, AppendFails(d) PROVE CallTyped' /\ StepTyped'
  BY <1>1, <1>2, <1>24 DEF AppendFails, Fails, process, CallTyped, StepTyped, Statuses
<1> QED
  BY <1>4, <1>5, <1>6, <1>7, <1>8, <1>9, <1>11, <1>12, <1>13, <1>14, <1>15, <1>16, <1>17,
     <1>18, <1>19, <1>20, <1>21, <1>22, <1>23, <1>24
  DEF Next, WriteBack, vars

LEMMA TypeStep == LifeInv /\ [Next]_vars => TypeOK'
<1>1. (TypeParts => TypeOK)'
  BY TypeFromParts, PTL
<1> QED
  BY <1>1, FilesTypedStep, FlagsTypedStep, CallTypedStep DEF TypeParts

-----------------------------------------------------------------------------
(* Every step keeps the files that are open in line with the program.      *)

\* A Flush that returns, in whatever way.
LEMMA FlushStops ==
  ASSUME TypeOK, HeldInv, FlushSkipped \/ SyncFails \/ FlushEnds
  PROVE  /\ pc = "flush" /\ pc' \in {"idle", "open"} /\ step' = 1
         /\ readOnly' \in BOOLEAN /\ copy' = copy
         /\ UNCHANGED files
         /\ \/ /\ pc' = "idle" /\ UNCHANGED <<open, readOnly, mapped, held>>
            \/ open' = FALSE /\ held' = {} /\ mapped' = FALSE
<1>1. pc = "flush" /\ UNCHANGED files
  BY DEF FlushSkipped, SyncFails, FlushEnds, Syncing
<1>2. PICK s \in {"OK", "IOError", "InvalidArgument"} : FlushReturns(s)
  <2>1. CASE FlushSkipped \/ FlushEnds
    BY <2>1 DEF FlushSkipped, FlushEnds
  <2>2. CASE SyncFails
    <3>1. FlushReturns(IF Unwritable(SyncOrder[step]) THEN "InvalidArgument" ELSE "IOError")
      BY <2>2, Zenon DEF SyncFails
    <3> QED BY <3>1, Zenon
  <2> QED BY <2>1, <2>2
<1> QED BY <1>1, <1>2, FlushReturnsEffect

\* Open that is called begins at its first file, returns, or flushes first.
LEMMA CallOpenEffect ==
  ASSUME TypeOK, HeldInv, CallOpen
  PROVE  /\ pc = "idle" /\ step' = 1
         /\ UNCHANGED <<files, open, mapped, held, copy, history>>
         /\ open => pc' = "flush" /\ UNCHANGED readOnly
         /\ ~open => pc' \in {"idle", "open"}
<1>1. PICK a \in OpenArgs :
        IF open
        THEN /\ pc' = "flush" /\ step' = 1 /\ after' = "open" /\ args' = a
             /\ UNCHANGED <<readOnly, status>>
        ELSE StartOpen(a, readOnly)
  BY Zenon DEF CallOpen
<1>2. pc = "idle" /\ UNCHANGED <<files, open, mapped, held, copy, history>>
  BY DEF CallOpen
<1>3. CASE open
  BY <1>1, <1>2, <1>3
<1>4. CASE ~open
  <2>1. StartOpen(a, readOnly)
    BY <1>1, <1>4, Zenon
  <2>2. status \in Statuses /\ readOnly \in BOOLEAN
    BY DEF TypeOK, Statuses
  <2>3. pc' \in {"idle", "open"} /\ step' = 1
    BY <2>1, <2>2, StartOpenEffect, Zenon
  <2> QED BY <1>2, <1>4, <2>3
<1> QED BY <1>3, <1>4

LEMMA HeldStep == LifeInv /\ [Next]_vars => HeldInv'
<1> SUFFICES ASSUME LifeInv, [Next]_vars PROVE HeldInv'
  OBVIOUS
<1>1. TypeOK /\ HeldInv /\ FillInv
  BY DEF LifeInv
<1>2. CASE UNCHANGED process
  BY <1>1, <1>2 DEF process, HeldInv, Opened, Opening, SkipFlush
<1>3. CASE CallOpen
  BY <1>1, <1>3, CallOpenEffect, FilesAreDistinct DEF HeldInv, Opened
<1>4. ASSUME step \in 1 .. Len(OpenOrder), step' = step + 1
      PROVE  Opened' = Opened \cup {Opening}
  <2>1. step \in Nat /\ (1 .. step' - 1) = (1 .. step - 1) \cup {step}
    BY <1>4, OpenOrderIs, ShardsAreListed
  <2>2. Opened' = {OpenOrder[i] : i \in 1 .. step' - 1}
    BY DEF Opened
  <2> QED BY <2>1, <2>2, Zenon DEF Opened, Opening
<1>5. CASE OpenFile
  <2>1. step \in 1 .. Len(OpenOrder)
    BY <1>1, <1>5, StepRange DEF OpenFile, AllOpened
  <2>2. /\ held' = held \cup {Opening} /\ step' = step + 1 /\ pc = "open" /\ pc' = pc
        /\ open' = open
    BY <1>5 DEF OpenFile
  <2> QED BY <1>1, <1>4, <2>1, <2>2, FilesAreDistinct DEF HeldInv
<1>6. CASE StartRebuild
  <2>1. /\ pc = "open" /\ pc' = "fill" /\ held' = held \cup {Opening} /\ ~readOnly
        /\ UNCHANGED <<open, readOnly, step>>
    BY <1>6 DEF StartRebuild, Empty
  <2> QED BY <1>1, <2>1, FilesAreDistinct DEF HeldInv, Opened, Opening
<1>7. CASE FillEnds
  <2>1. pc = "fill" /\ UNCHANGED <<open, readOnly, mapped, held>>
    BY <1>7 DEF FillEnds
  <2>2. CASE open
    <3>1. pc' = "idle"
      BY <1>7, <2>2 DEF FillEnds
    <3> QED BY <1>1, <2>1, <2>2, <3>1, FilesAreDistinct DEF HeldInv
  <2>3. CASE ~open
    <3>1. pc' = "open" /\ step' = step + 1
      BY <1>7, <2>3 DEF FillEnds
    <3>2. step \in 1 .. Len(OpenOrder)
      BY <1>1, <2>1, StepRange
    <3> QED BY <1>1, <1>4, <2>1, <2>3, <3>1, <3>2, FilesAreDistinct DEF HeldInv
  <2> QED BY <2>2, <2>3
<1>8. CASE OpenFails
  <2>1. pc' = "idle" /\ held' = {} /\ mapped' = FALSE /\ open' = open /\ ~open
    BY <1>1, <1>8 DEF OpenFails, Abandon, CloseFiles, HeldInv
  <2> QED BY <2>1, FilesAreDistinct DEF HeldInv
<1>9. CASE OpenEnds
  <2>1. step = Len(OpenOrder) + 1
    BY <1>1, <1>9, StepRange DEF OpenEnds, AllOpened
  <2>2. Opened = File
    BY <2>1, OpenOrderVisitsAll, OpenOrderIs, ShardsAreListed DEF Opened
  <2>3. pc = "open" /\ pc' = "idle" /\ open' = TRUE /\ held' = held
    BY <1>9 DEF OpenEnds
  <2> QED BY <1>1, <2>2, <2>3, FilesAreDistinct DEF HeldInv
<1>10. CASE StoreHeader
  BY <1>2, <1>10 DEF StoreHeader
<1>11. CASE PlaceBucket
  BY <1>1, <1>11 DEF PlaceBucket, HeldInv, Opened, Opening, SkipFlush
<1>12. CASE CallFlush \/ CallClose
  <2>1. UNCHANGED <<open, held, mapped>> /\ pc = "idle" /\ pc' \in {"idle", "flush"}
        /\ (pc' = "flush" => step' = 1)
    BY <1>12 DEF CallFlush, CallClose
  <2> QED BY <1>1, <2>1, FilesAreDistinct DEF HeldInv
<1>13. CASE FlushSkipped \/ SyncFails \/ FlushEnds
  <2>1. /\ pc = "flush" /\ pc' \in {"idle", "open"} /\ step' = 1
        /\ \/ /\ pc' = "idle" /\ UNCHANGED <<open, readOnly, mapped, held>>
           \/ open' = FALSE /\ held' = {} /\ mapped' = FALSE
    BY <1>1, <1>13, FlushStops
  <2>2. CASE pc' = "idle" /\ UNCHANGED <<open, readOnly, mapped, held>>
    BY <1>1, <2>1, <2>2, FilesAreDistinct DEF HeldInv
  <2>3. CASE open' = FALSE /\ held' = {} /\ mapped' = FALSE
    <3>1. Opened' = {}
      BY <2>1 DEF Opened
    <3> QED BY <2>1, <2>3, <3>1, FilesAreDistinct DEF HeldInv
  <2> QED BY <2>1, <2>2, <2>3
<1>14. CASE SyncFile
  <2>1. /\ pc = "flush" /\ ~SkipFlush
        /\ UNCHANGED <<pc, open, readOnly, mapped, held>>
    BY <1>14 DEF SyncFile, Syncing
  <2> QED BY <1>1, <2>1, FilesAreDistinct DEF HeldInv, SkipFlush
<1>15. CASE Grow
  <2>1. open /\ ~readOnly /\ pc' = "fill" /\ UNCHANGED <<open, readOnly, held>>
    BY <1>15 DEF Grow, Empty, Writable
  <2> QED BY <1>1, <2>1, FilesAreDistinct DEF HeldInv
<1>16. CASE GrowFails
  <2>1. open /\ pc = "idle" /\ UNCHANGED <<pc, open, readOnly, held>>
    BY <1>16 DEF GrowFails, Writable
  <2> QED BY <1>1, <2>1, FilesAreDistinct DEF HeldInv
<1>17. ASSUME NEW d \in Data, AppendRecord(d) \/ StoreBucket(d) PROVE HeldInv'
  <2>1. open /\ ~readOnly /\ pc' \in Data \cup {"idle"} /\ UNCHANGED <<open, readOnly, held>>
    BY <1>1, <1>17 DEF AppendRecord, StoreBucket, Appendable, Writable, HeldInv
  <2> QED BY <1>1, <2>1, FilesAreDistinct DEF HeldInv
<1>18. CASE Dies
  <2>1. pc' = "idle" /\ open' = FALSE /\ held' = {} /\ mapped' = FALSE
    BY <1>1, <1>18, DiesEffect
  <2> QED BY <2>1, FilesAreDistinct DEF HeldInv
<1> QED
  BY <1>2, <1>3, <1>5, <1>6, <1>7, <1>8, <1>9, <1>10, <1>11, <1>12, <1>13, <1>14, <1>15,
     <1>16, <1>17, <1>18
  DEF Next, Crash, PowerLoss, WriteBack, AppendFails, vars

LEMMA FillStep == LifeInv /\ [Next]_vars => FillInv'
<1> SUFFICES ASSUME LifeInv, [Next]_vars PROVE FillInv'
  OBVIOUS
<1>1. FilesTyped /\ TypeOK /\ HeldInv /\ FillInv
  BY TypeToParts DEF LifeInv, TypeParts
<1>2. CASE pc' # "fill"
  BY <1>2 DEF FillInv
<1>3. CASE UNCHANGED <<pc, step, open, rewritten>>
  BY <1>1, <1>3 DEF FillInv, Filling, Opening
<1>4. CASE StartRebuild
  <2>1. /\ Opening \in Index /\ rewritten' = rewritten \cup {Opening}
        /\ step' = step /\ open' = open /\ ~open
    BY <1>1, <1>4 DEF StartRebuild, Empty, FilesTyped, HeldInv
  <2> QED BY <2>1 DEF FillInv, Filling, Opening
<1>5. CASE Grow
  <2>1. /\ open /\ open' = open /\ rewritten' = rewritten \cup {"index"}
        /\ step' = step /\ pc = "idle"
    BY <1>5 DEF Grow, Empty, Writable
  <2>2. step = 1
    BY <1>1, <2>1, StepRange
  <2> QED BY <2>1, <2>2 DEF FillInv, Filling, Index
<1>6. CASE StoreHeader
  BY <1>3, <1>6 DEF StoreHeader, process
<1>7. CASE PlaceBucket
  BY <1>3, <1>7 DEF PlaceBucket
<1>8. CASE FillEnds \/ OpenFails \/ OpenEnds \/ CallFlush
  BY <1>2, <1>8 DEF FillEnds, OpenFails, OpenEnds, CallFlush
<1>9. CASE OpenFile \/ SyncFile \/ CallClose
  BY <1>2, <1>9 DEF OpenFile, SyncFile, Syncing, CallClose
<1>10. CASE CallOpen
  BY <1>1, <1>2, <1>10, CallOpenEffect
<1>11. CASE FlushSkipped \/ SyncFails \/ FlushEnds
  BY <1>1, <1>2, <1>11, FlushStops
<1>12. ASSUME NEW d \in Data, AppendRecord(d) \/ StoreBucket(d) PROVE FillInv'
  BY <1>2, <1>12, FilesAreDistinct DEF AppendRecord, StoreBucket
<1>13. CASE GrowFails
  BY <1>2, <1>13 DEF GrowFails, Writable
<1>14. CASE Crash \/ PowerLoss
  BY <1>1, <1>2, <1>14, DiesEffect DEF Crash, PowerLoss
<1>15. CASE (\E f \in File : WriteBack(f)) \/ (\E d \in Data : AppendFails(d)) \/ UNCHANGED vars
  BY <1>3, <1>15 DEF WriteBack, AppendFails, vars, files, process
<1> QED
  BY <1>4, <1>5, <1>6, <1>7, <1>8, <1>9, <1>10, <1>11, <1>12, <1>13, <1>14, <1>15 DEF Next

LEMMA HeaderStep == LifeInv /\ [Next]_vars => HeaderInv'
<1> SUFFICES ASSUME LifeInv, [Next]_vars PROVE HeaderInv'
  OBVIOUS
<1>1. FilesTyped /\ TypeOK /\ HeldInv /\ FillInv /\ HeaderInv
  BY TypeToParts DEF LifeInv, TypeParts
<1>2. CASE data' = data /\ pc' \notin Data /\ held' \in {held, {}}
  BY <1>1, <1>2 DEF HeaderInv
<1>3. CASE OpenFile
  <2>1. \A d \in Data : data'[d] = IF d = Opening /\ data[d] = 0 THEN 1 ELSE data[d]
    BY <1>1, <1>3, FilesAreDistinct DEF OpenFile, Unusable, FilesTyped
  <2>2. held' = held \cup {Opening} /\ pc' = "open"
    BY <1>3 DEF OpenFile
  <2> QED BY <1>1, <2>1, <2>2, FilesAreDistinct DEF HeaderInv, FilesTyped
<1>4. CASE StartRebuild
  <2>1. Opening \in Index /\ held' = held \cup {Opening} /\ pc' = "fill" /\ data' = data
    BY <1>1, <1>4 DEF StartRebuild, Empty, FilesTyped
  <2> QED BY <1>1, <2>1, FilesAreDistinct DEF HeaderInv
<1>5. ASSUME NEW e \in Data, AppendRecord(e) PROVE HeaderInv'
  <2>1. \A d \in Data : data'[d] = IF d = e THEN data[d] + 1 ELSE data[d]
    BY <1>1, <1>5 DEF AppendRecord, FilesTyped
  <2>2. pc' = e /\ held' = held /\ held = File
    BY <1>1, <1>5 DEF AppendRecord, Appendable, Writable, HeldInv
  <2>3. \A d \in Data : data[d] \in Nat /\ data[d] >= 1
    BY <1>1, <2>2 DEF HeaderInv, FilesTyped, File
  <2> QED BY <2>1, <2>2, <2>3 DEF HeaderInv
<1>6. ASSUME NEW e \in Data, StoreBucket(e) PROVE HeaderInv'
  BY <1>2, <1>6, FilesAreDistinct DEF StoreBucket
<1>7. CASE Grow \/ GrowFails
  BY <1>2, <1>7, FilesAreDistinct DEF Grow, GrowFails, Empty, Writable
<1>8. CASE CallOpen
  BY <1>1, <1>2, <1>8, CallOpenEffect, FilesAreDistinct DEF files
<1>9. CASE FlushSkipped \/ SyncFails \/ FlushEnds
  BY <1>1, <1>2, <1>9, FlushStops, FilesAreDistinct DEF files
<1>10. CASE OpenFails \/ OpenEnds
  BY <1>2, <1>10, FilesAreDistinct DEF OpenFails, OpenEnds, Abandon, CloseFiles, files
<1>11. CASE CallFlush \/ CallClose \/ FillEnds
  BY <1>2, <1>11, FilesAreDistinct DEF CallFlush, CallClose, FillEnds, files
<1>12. CASE StoreHeader \/ PlaceBucket \/ SyncFile
  BY <1>2, <1>12, FilesAreDistinct DEF StoreHeader, PlaceBucket, SyncFile, Syncing, process
<1>13. CASE Crash \/ PowerLoss
  <2>1. pc' = "idle" /\ held' = {}
    BY <1>1, <1>13, DiesEffect DEF Crash, PowerLoss
  <2> QED BY <2>1, FilesAreDistinct DEF HeaderInv
<1>14. CASE (\E f \in File : WriteBack(f)) \/ (\E d \in Data : AppendFails(d)) \/ UNCHANGED vars
  BY <1>1, <1>14 DEF WriteBack, AppendFails, vars, files, process, HeaderInv
<1> QED
  BY <1>3, <1>4, <1>5, <1>6, <1>7, <1>8, <1>9, <1>10, <1>11, <1>12, <1>13, <1>14 DEF Next

-----------------------------------------------------------------------------
(* Every step keeps what is on disk in line with the page cache and with   *)
(* what was acknowledged.                                                  *)

\* An index that Flush is about to sync: every data file is on disk.
LEMMA DataSynced ==
  ASSUME TypeOK, SyncedInv, Syncing, SyncOrder[step].file \in Index
  PROVE  \A d \in Data : dataDisk[d] = data[d]
<1>1. step \in 1 .. Len(SyncOrder) /\ pc = "flush"
  BY StepRange DEF Syncing
<1> TAKE d \in Data
<1>2. PICK j \in 1 .. step - 1 : SyncOrder[j].file = d
  BY <1>1, DataBeforeIndex
<1> QED BY <1>1, <1>2 DEF SyncedInv

\* Flush at its end: every file is on disk.
LEMMA AllSynced ==
  ASSUME TypeOK, SyncedInv, pc = "flush", step > Len(SyncOrder)
  PROVE  /\ \A d \in Data : dataDisk[d] = data[d]
         /\ \A f \in Index : idxDisk[f] = idx[f]
<1>1. step = Len(SyncOrder) + 1 /\ Len(SyncOrder) \in Nat
  BY StepRange
<1>2. \A f \in File : \E j \in 1 .. step - 1 : SyncOrder[j].file = f
  BY <1>1, SyncOrderVisitsAll
<1> QED BY <1>2 DEF SyncedInv, File

\* Counts and records, one by one.
LEMMA Typed ==
  ASSUME FilesTyped
  PROVE  /\ \A d \in Data : data[d] \in Nat /\ dataDisk[d] \in Nat
         /\ \A r \in acked : r[1] \in Data /\ r[2] \in Nat
         /\ \A r \in flushed : r[1] \in Data /\ r[2] \in Nat
         /\ \A f \in Index : idx[f] \subseteq Data \X Nat /\ idxDisk[f] \subseteq Data \X Nat
BY DEF FilesTyped

\* Which files SyncFile and WriteBack change on disk.
LEMMA SyncFileEffect ==
  ASSUME FilesTyped, TypeOK, SyncFile
  PROVE  /\ pc = "flush" /\ pc' = "flush" /\ step' = step + 1 /\ step \in 1 .. Len(SyncOrder)
         /\ UNCHANGED <<data, idx, torn, copy, open, acked, flushed, cut>>
         /\ \E f \in File :
              /\ f = SyncOrder[step].file
              /\ \A d \in Data : dataDisk'[d] = IF d = f THEN data[d] ELSE dataDisk[d]
              /\ \A g \in Index : idxDisk'[g] = IF g = f THEN idx[g] ELSE idxDisk[g]
              /\ f \in Data => UNCHANGED <<idxDisk, rewritten, kernel>>
              /\ f \in Index => /\ UNCHANGED dataDisk
                               /\ rewritten' = rewritten \ {f}
                               /\ kernel' = IF Ahead(idx[f], data) THEN kernel
                                            ELSE kernel \ {f}
<1> DEFINE f == SyncOrder[step].file
<1>1. /\ pc = "flush" /\ pc' = "flush" /\ step' = step + 1 /\ step \in 1 .. Len(SyncOrder)
      /\ UNCHANGED <<data, idx, torn, copy, open, acked, flushed, cut>>
  BY StepRange DEF SyncFile, Syncing
<1>2. f \in File
  BY <1>1, SyncOrderFiles
<1>3. CASE f \in Data
  <2>1. dataDisk' = [dataDisk EXCEPT ![f] = data[f]]
        /\ UNCHANGED <<idxDisk, rewritten, kernel>>
    BY <1>3 DEF SyncFile
  <2>2. \A d \in Data : dataDisk'[d] = IF d = f THEN data[d] ELSE dataDisk[d]
    BY <2>1 DEF FilesTyped
  <2>3. f \notin Index
    BY <1>3, FilesAreDistinct
  <2> QED BY <1>1, <1>2, <1>3, <2>1, <2>2, <2>3
<1>4. CASE f \notin Data
  <2>1. /\ idxDisk' = [idxDisk EXCEPT ![f] = idx[f]] /\ UNCHANGED dataDisk
        /\ rewritten' = rewritten \ {f}
        /\ kernel' = IF Ahead(idx[f], data) THEN kernel ELSE kernel \ {f}
    BY <1>4 DEF SyncFile
  <2>2. \A g \in Index : idxDisk'[g] = IF g = f THEN idx[g] ELSE idxDisk[g]
    BY <2>1 DEF FilesTyped
  <2> QED BY <1>1, <1>2, <1>4, <2>1, <2>2
<1> QED BY <1>3, <1>4

LEMMA WriteBackEffect ==
  ASSUME FilesTyped, NEW f \in File, WriteBack(f)
  PROVE  /\ UNCHANGED <<data, idx, torn, rewritten, process, acked, flushed, cut>>
         /\ \A d \in Data : dataDisk'[d] = IF d = f THEN data[d] ELSE dataDisk[d]
         /\ \A g \in Index :
              g # f \/ g \notin rewritten => /\ idxDisk[g] \subseteq idxDisk'[g]
                                          /\ idxDisk'[g] \subseteq idxDisk[g] \cup idx[g]
         /\ \A g \in Index : g # f => idxDisk'[g] = idxDisk[g]
         /\ kernel' = kernel \cup ({f} \cap Index)
<1>1. UNCHANGED <<data, idx, torn, rewritten, process, acked, flushed, cut>>
  BY DEF WriteBack
<1>2. CASE f \in Data
  <2>1. dataDisk' = [dataDisk EXCEPT ![f] = data[f]] /\ UNCHANGED <<idxDisk, kernel>>
    BY <1>2 DEF WriteBack
  <2>2. \A d \in Data : dataDisk'[d] = IF d = f THEN data[d] ELSE dataDisk[d]
    BY <2>1 DEF FilesTyped
  <2> QED BY <1>1, <1>2, <2>1, <2>2, FilesAreDistinct
<1>3. CASE f \notin Data
  <2>1. f \in Index /\ kernel' = kernel \cup {f} /\ UNCHANGED dataDisk
    BY <1>3 DEF WriteBack, File
  <2>2. CASE \E r \in idx[f] \ idxDisk[f] : idxDisk' = [idxDisk EXCEPT ![f] = @ \cup {r}]
    <3>1. PICK r \in idx[f] : idxDisk' = [idxDisk EXCEPT ![f] = @ \cup {r}]
      BY <2>2
    <3>2. \A g \in Index : idxDisk'[g] = IF g = f THEN idxDisk[g] \cup {r} ELSE idxDisk[g]
      BY <3>1 DEF FilesTyped
    <3> QED BY <1>1, <1>3, <2>1, <3>1, <3>2
  <2>3. CASE /\ f \in rewritten
             /\ \E r \in idxDisk[f] : idxDisk' = [idxDisk EXCEPT ![f] = @ \ {r}]
    <3>1. \A g \in Index : g # f => idxDisk'[g] = idxDisk[g]
      BY <2>3 DEF FilesTyped
    <3> QED BY <1>1, <1>3, <2>1, <2>3, <3>1
  <2> QED BY <1>3, <2>2, <2>3 DEF WriteBack
<1> QED BY <1>2, <1>3

LEMMA CountStep == LifeInv /\ [Next]_vars => CountInv'
<1> SUFFICES ASSUME LifeInv, [Next]_vars PROVE CountInv'
  OBVIOUS
<1>1. FilesTyped /\ TypeOK /\ HeldInv /\ HeaderInv /\ CountInv /\ SyncedInv
  BY TypeToParts DEF LifeInv, TypeParts
<1>2. CASE UNCHANGED <<data, dataDisk, acked, flushed>>
  BY <1>1, <1>2 DEF CountInv
<1>3. ASSUME \A d \in Data : data'[d] \in Nat /\ data[d] <= data'[d],
             UNCHANGED <<dataDisk, acked, flushed>>
      PROVE  CountInv'
  BY <1>1, <1>3, Typed DEF CountInv
<1>4. CASE OpenFile
  <2>1. \A d \in Data : data'[d] = IF d = Opening /\ data[d] = 0 THEN 1 ELSE data[d]
    BY <1>1, <1>4, FilesAreDistinct DEF OpenFile, Unusable, FilesTyped
  <2>2. \A d \in Data : data'[d] \in Nat /\ data[d] <= data'[d]
    BY <1>1, <2>1, Typed
  <2> QED BY <1>3, <1>4, <2>2 DEF OpenFile, history
<1>5. ASSUME NEW e \in Data, AppendRecord(e) PROVE CountInv'
  <2>1. \A d \in Data : data'[d] = IF d = e THEN data[d] + 1 ELSE data[d]
    BY <1>1, <1>5 DEF AppendRecord, FilesTyped
  <2>2. \A d \in Data : data'[d] \in Nat /\ data[d] <= data'[d]
    BY <1>1, <2>1, Typed
  <2> QED BY <1>3, <1>5, <2>2 DEF AppendRecord, history
<1>6. ASSUME NEW e \in Data, StoreBucket(e) PROVE CountInv'
  <2>1. acked' = acked \cup {<<e, data[e]>>} /\ pc = e /\ UNCHANGED <<data, dataDisk, flushed>>
    BY <1>6 DEF StoreBucket
  <2>2. 2 <= data[e] /\ data[e] \in Nat
    BY <1>1, <2>1, Typed DEF HeaderInv
  <2> QED BY <1>1, <2>1, <2>2 DEF CountInv
<1>7. ASSUME \A d \in Data : dataDisk'[d] = data[d] \/ dataDisk'[d] = dataDisk[d],
             UNCHANGED <<data, acked, flushed>>
      PROVE  CountInv'
  <2>1. \A d \in Data : dataDisk[d] <= dataDisk'[d] /\ dataDisk'[d] <= data[d]
    BY <1>1, <1>7, Typed DEF CountInv
  <2>2. \A r \in flushed : r[2] <= dataDisk'[r[1]]
    <3> TAKE r \in flushed
    <3>1. r[1] \in Data /\ r[2] \in Nat /\ r[2] <= dataDisk[r[1]]
      BY <1>1, Typed DEF CountInv
    <3>2. dataDisk[r[1]] \in Nat /\ data[r[1]] \in Nat
      BY <1>1, <3>1, Typed
    <3>3. r[2] <= data[r[1]]
      BY <1>1 DEF CountInv
    <3> QED BY <1>7, <3>1, <3>2, <3>3
  <2> QED BY <1>1, <1>7, <2>1, <2>2 DEF CountInv
<1>8. CASE SyncFile
  <2>1. UNCHANGED <<data, acked, flushed>>
        /\ \A d \in Data : dataDisk'[d] = data[d] \/ dataDisk'[d] = dataDisk[d]
    BY <1>1, <1>8, SyncFileEffect
  <2> QED BY <1>7, <2>1
<1>9. ASSUME NEW f \in File, WriteBack(f) PROVE CountInv'
  <2>1. UNCHANGED <<data, acked, flushed>>
        /\ \A d \in Data : dataDisk'[d] = data[d] \/ dataDisk'[d] = dataDisk[d]
    BY <1>1, <1>9, WriteBackEffect
  <2> QED BY <1>7, <2>1
<1>10. CASE FlushEnds
  <2>1. UNCHANGED <<data, dataDisk, acked>> /\ flushed' = acked
        /\ pc = "flush" /\ step > Len(SyncOrder)
    BY <1>10 DEF FlushEnds, files
  <2>2. \A d \in Data : dataDisk[d] = data[d]
    BY <1>1, <2>1, AllSynced
  <2>3. \A r \in acked : r[2] <= dataDisk[r[1]]
    BY <1>1, <2>2, Typed DEF CountInv
  <2> QED BY <1>1, <2>1, <2>3 DEF CountInv
<1>11. CASE PowerLoss
  <2>1. data' = dataDisk /\ acked' = flushed /\ UNCHANGED <<dataDisk, flushed>>
    BY <1>11 DEF PowerLoss
  <2>2. \A d \in Data : dataDisk[d] <= dataDisk[d]
    BY <1>1, Typed
  <2> QED BY <1>1, <2>1, <2>2 DEF CountInv
<1>12. CASE FlushSkipped \/ SyncFails
  BY <1>2, <1>12 DEF FlushSkipped, SyncFails, files, history
<1>13. CASE CallOpen \/ OpenFails \/ OpenEnds \/ CallFlush \/ CallClose \/ FillEnds
  BY <1>2, <1>13 DEF CallOpen, OpenFails, OpenEnds, CallFlush, CallClose, FillEnds, files,
                     history
<1>14. CASE StartRebuild \/ Grow \/ GrowFails \/ StoreHeader \/ PlaceBucket \/ Crash
  BY <1>2, <1>14 DEF StartRebuild, Grow, GrowFails, StoreHeader, PlaceBucket, Crash, history
<1>15. CASE (\E d \in Data : AppendFails(d)) \/ UNCHANGED vars
  BY <1>2, <1>15 DEF AppendFails, vars, files, history
<1> QED
  BY <1>4, <1>5, <1>6, <1>8, <1>9, <1>10, <1>11, <1>12, <1>13, <1>14, <1>15 DEF Next

LEMMA NamedStep == LifeInv /\ [Next]_vars => NamedInv'
<1> SUFFICES ASSUME LifeInv, [Next]_vars PROVE NamedInv'
  OBVIOUS
<1>1. FilesTyped /\ TypeOK /\ HeldInv /\ FillInv /\ HeaderInv /\ CountInv /\ NamedInv
      /\ OnDiskInv
  BY TypeToParts DEF LifeInv, TypeParts
\* Nothing is being filled any more, and nothing happened to the indexes.
<1>2. ASSUME pc' # "fill", UNCHANGED <<idx, acked>>, cut \cup CutNow \subseteq cut'
      PROVE  NamedInv'
  <2>1. CutNow' = {}
    BY <1>2, CutNowNext
  <2> QED BY <1>1, <1>2, <2>1 DEF NamedInv
\* The filling goes on where it was.
<1>3. ASSUME UNCHANGED <<idx, acked, cut, copy, pc, open, step>> PROVE NamedInv'
  <2>1. CutNow' = CutNow
    BY <1>3 DEF CutNow, Filling, Opening
  <2> QED BY <1>1, <1>3, <2>1 DEF NamedInv
\* An index is emptied.
<1>4. ASSUME NEW f \in Index, pc # "fill", pc' = "fill", Filling' = f, open' = open,
             UNCHANGED <<acked, cut>>,
             \A g \in Index : g # f => idx'[g] = idx[g],
             \A r \in acked : IndexOf(r[1]) = f /\ (f \notin cut \/ ~open) => r \in copy'
      PROVE  NamedInv'
  <2>1. CutNow = {} /\ CutNow' = {f}
    BY <1>4, CutNowIs, CutNowNext
  <2> QED BY <1>1, <1>4, <2>1 DEF NamedInv
<1>5. CASE StartRebuild
  <2> DEFINE f == Opening
  <2>1. /\ f \in Index /\ pc = "open" /\ pc' = "fill" /\ ~open /\ ~open' /\ copy' = Records(f)
        /\ UNCHANGED <<acked, cut, data, open, step>>
    BY <1>1, <1>5 DEF StartRebuild, Empty, FilesTyped, HeldInv, history
  <2>2. \A g \in Index : g # f => idx'[g] = idx[g]
    BY <1>1, <1>5 DEF StartRebuild, Empty, FilesTyped
  <2>3. ASSUME NEW r \in acked, IndexOf(r[1]) = f PROVE r \in copy'
    <3>1. r \in Data \X Nat /\ 2 <= r[2] /\ r[2] <= data[r[1]]
      BY <1>1 DEF FilesTyped, CountInv
    <3> QED BY <1>1, <2>1, <2>3, <3>1, RecordsAre DEF FilesTyped
  <2>4. Filling' = f
    BY <2>1 DEF Filling, Opening
  <2> QED BY <1>4, <2>1, <2>2, <2>3, <2>4
<1>6. CASE Grow
  <2>1. /\ "index" \in Index /\ pc = "idle" /\ pc' = "fill" /\ open /\ open' = open
        /\ copy' = idx["index"] /\ UNCHANGED <<acked, cut>>
    BY <1>6 DEF Grow, Empty, Writable, Index, history
  <2>2. \A g \in Index : g # "index" => idx'[g] = idx[g]
    BY <1>1, <1>6 DEF Grow, Empty, FilesTyped
  <2>3. ASSUME NEW r \in acked, IndexOf(r[1]) = "index", "index" \notin cut
        PROVE  r \in copy'
    <3>1. CutNow = {}
      BY <2>1, CutNowIs
    <3> QED BY <1>1, <2>1, <2>3, <3>1 DEF NamedInv
  <2>4. Filling' = "index"
    BY <2>1 DEF Filling
  <2> QED BY <1>4, <2>1, <2>2, <2>3, <2>4
<1>7. CASE PlaceBucket
  <2>1. PICK r \in copy : /\ idx' = [idx EXCEPT ![Filling] = @ \cup {r}]
                         /\ copy' = copy \ {r}
    BY <1>7 DEF PlaceBucket
  <2>2. pc = "fill" /\ UNCHANGED <<acked, cut, pc, open, step>>
    BY <1>7 DEF PlaceBucket, history
  <2>3. CutNow = {Filling} /\ CutNow' = CutNow
    BY <2>2, CutNowIs DEF CutNow, Filling, Opening
  <2>4. \A g \in Index : idx'[g] = IF g = Filling THEN idx[g] \cup {r} ELSE idx[g]
    BY <1>1, <2>1 DEF FilesTyped
  <2>5. ASSUME NEW q \in acked, NEW f \in Index, IndexOf(q[1]) = f
        PROVE  /\ f \notin cut /\ f # Filling => q \in idx'[f]
               /\ f = Filling /\ (f \notin cut \/ ~open) => q \in idx'[f] \/ q \in copy'
    <3>1. /\ f \notin cut /\ f # Filling => q \in idx[f]
          /\ f = Filling /\ (f \notin cut \/ ~open) => q \in idx[f] \/ q \in copy
      BY <1>1, <2>3, <2>5 DEF NamedInv
    <3>2. q \in copy => q \in copy' \/ q = r
      BY <2>1
    <3> QED BY <2>4, <3>1, <3>2
  <2>6. CutNow' = {Filling}
    BY <2>3
  <2> QED BY <2>2, <2>5, <2>6 DEF NamedInv
<1>8. CASE FillEnds
  <2>1. pc = "fill" /\ UNCHANGED <<idx, acked>> /\ (copy # {} => Misled)
    BY <1>8 DEF FillEnds, files
  <2>2. CutNow = {Filling}
    BY <2>1, CutNowIs
  <2>3. CASE open
    <3>1. pc' = "idle" /\ cut' = cut /\ copy = {}
      BY <1>8, <2>3 DEF FillEnds, Misled
    <3>2. CutNow' = {}
      BY <3>1, CutNowNext
    <3> QED BY <1>1, <2>1, <2>2, <3>1, <3>2 DEF NamedInv
  <2>4. CASE ~open
    <3>1. /\ pc' = "open"
          /\ \/ cut' = cut \cup {Filling}
             \/ cut' = cut \ {Filling} /\ copy = {}
      BY <1>8, <2>1, <2>4 DEF FillEnds
    <3>2. CutNow' = {}
      BY <3>1, CutNowNext
    <3>3. CASE cut' = cut \cup {Filling}
      BY <1>1, <2>1, <2>2, <3>2, <3>3 DEF NamedInv
    <3>4. CASE cut' = cut \ {Filling} /\ copy = {}
      BY <1>1, <2>1, <2>2, <2>4, <3>2, <3>4 DEF NamedInv
    <3> QED BY <3>1, <3>3, <3>4
  <2> QED BY <2>3, <2>4
<1>9. CASE OpenFails \/ Crash
  <2>1. pc' = "idle" /\ UNCHANGED <<idx, acked>> /\ cut' = cut \cup CutNow
    BY <1>1, <1>9, DiesEffect DEF OpenFails, Crash, files
  <2> QED BY <1>2, <2>1
\* Outside of a filling.
<1>10. ASSUME pc # "fill", pc' # "fill", UNCHANGED <<idx, acked, cut>> PROVE NamedInv'
  <2>1. CutNow = {}
    BY <1>10, CutNowIs
  <2> QED BY <1>2, <1>10, <2>1
<1>11. CASE CallOpen
  BY <1>1, <1>10, <1>11, CallOpenEffect DEF files, history
<1>12. CASE OpenFile \/ OpenEnds \/ CallFlush \/ CallClose
  BY <1>10, <1>12 DEF OpenFile, OpenEnds, CallFlush, CallClose, files, history
<1>13. CASE FlushSkipped \/ SyncFails \/ FlushEnds
  <2>1. UNCHANGED <<acked, cut>>
    BY <1>13 DEF FlushSkipped, SyncFails, FlushEnds, history
  <2> QED BY <1>1, <1>10, <1>13, <2>1, FlushStops DEF files
<1>14. CASE SyncFile
  BY <1>1, <1>10, <1>14, SyncFileEffect
<1>15. CASE GrowFails
  BY <1>10, <1>15 DEF GrowFails, Writable, history
<1>16. ASSUME NEW d \in Data, AppendRecord(d) PROVE NamedInv'
  BY <1>10, <1>16, FilesAreDistinct DEF AppendRecord, Appendable, Writable, history
<1>17. ASSUME NEW d \in Data, StoreBucket(d) PROVE NamedInv'
  <2> DEFINE r == <<d, data[d]>>
  <2>1. /\ pc = d /\ pc' = "idle" /\ acked' = acked \cup {r} /\ cut' = cut
        /\ \A g \in Index : idx'[g] = IF g = IndexOf(d) THEN idx[g] \cup {r} ELSE idx[g]
    BY <1>1, <1>17, FilesAreDistinct DEF StoreBucket, FilesTyped
  <2>2. CutNow = {} /\ CutNow' = {}
    BY <2>1, CutNowIs, CutNowNext, FilesAreDistinct
  <2>3. r[1] = d
    OBVIOUS
  <2> QED BY <1>1, <2>1, <2>2, <2>3 DEF NamedInv
<1>18. CASE PowerLoss
  <2>1. pc' = "idle" /\ idx' = idxDisk /\ acked' = flushed /\ cut' = cut \cup rewritten
    BY <1>1, <1>18, DiesEffect DEF PowerLoss
  <2>2. CutNow' = {}
    BY <2>1, CutNowNext
  <2> QED BY <1>1, <2>1, <2>2 DEF NamedInv, OnDiskInv
<1>19. CASE StoreHeader \/ (\E d \in Data : AppendFails(d))
  BY <1>3, <1>19 DEF StoreHeader, AppendFails, process, history
<1>20. ASSUME NEW f \in File, WriteBack(f) PROVE NamedInv'
  BY <1>1, <1>3, <1>20, WriteBackEffect DEF process
<1>21. CASE UNCHANGED vars
  BY <1>3, <1>21 DEF vars, files, process, history
<1> QED
  BY <1>5, <1>6, <1>7, <1>8, <1>9, <1>11, <1>12, <1>13, <1>14, <1>15, <1>16, <1>17, <1>18,
     <1>19, <1>20, <1>21
  DEF Next

LEMMA OnDiskStep == LifeInv /\ [Next]_vars => OnDiskInv'
<1> SUFFICES ASSUME LifeInv, [Next]_vars PROVE OnDiskInv'
  OBVIOUS
<1>1. FilesTyped /\ TypeOK /\ FillInv /\ CountInv /\ NamedInv /\ OnDiskInv /\ SyncedInv
      /\ HeldInv
  BY TypeToParts DEF LifeInv, TypeParts
<1>2. ASSUME UNCHANGED <<idxDisk, flushed>>,
             \A f \in Index : f \notin cut' /\ f \notin rewritten' =>
                                f \notin cut /\ f \notin rewritten
      PROVE  OnDiskInv'
  BY <1>1, <1>2 DEF OnDiskInv
<1>3. CASE UNCHANGED <<idxDisk, flushed, cut, rewritten>>
  BY <1>2, <1>3
<1>4. CASE StartRebuild \/ Grow
  BY <1>2, <1>4 DEF StartRebuild, Grow, Empty, history
<1>5. CASE FillEnds
  <2>1. UNCHANGED <<idxDisk, flushed, rewritten>> /\ pc = "fill"
        /\ cut' \in {cut, cut \ {Filling}, cut \cup {Filling}}
    BY <1>5 DEF FillEnds, files
  <2> QED BY <1>1, <1>2, <2>1 DEF FillInv
<1>6. CASE OpenFails \/ Crash
  BY <1>2, <1>6 DEF OpenFails, Crash, files
<1>7. CASE SyncFile
  <2>1. /\ pc = "flush" /\ UNCHANGED <<flushed, cut>>
        /\ \A g \in Index : \/ idxDisk'[g] = idx[g]
                            \/ idxDisk'[g] = idxDisk[g] /\ (g \in rewritten => g \in rewritten')
    BY <1>1, <1>7, SyncFileEffect, FilesAreDistinct DEF File
  <2>2. CutNow = {}
    BY <2>1, CutNowIs
  <2>3. \A r \in flushed, f \in Index : IndexOf(r[1]) = f /\ f \notin cut => r \in idx[f]
    BY <1>1, <2>2 DEF NamedInv, CountInv
  <2> QED BY <1>1, <2>1, <2>3 DEF OnDiskInv
<1>8. ASSUME NEW f \in File, WriteBack(f) PROVE OnDiskInv'
  <2>1. /\ UNCHANGED <<flushed, cut, rewritten>>
        /\ \A g \in Index : g \notin rewritten => idxDisk[g] \subseteq idxDisk'[g]
    BY <1>1, <1>8, WriteBackEffect
  <2> QED BY <1>1, <2>1 DEF OnDiskInv
<1>9. CASE FlushEnds
  <2>1. UNCHANGED <<idx, idxDisk, cut, rewritten>> /\ flushed' = acked
        /\ pc = "flush" /\ step > Len(SyncOrder)
    BY <1>9 DEF FlushEnds, files
  <2>2. \A f \in Index : idxDisk[f] = idx[f]
    BY <1>1, <2>1, AllSynced
  <2>3. CutNow = {}
    BY <2>1, CutNowIs
  <2> QED BY <1>1, <2>1, <2>2, <2>3 DEF NamedInv, OnDiskInv
<1>10. CASE PowerLoss
  BY <1>2, <1>10 DEF PowerLoss
<1>11. CASE FlushSkipped \/ SyncFails
  BY <1>3, <1>11 DEF FlushSkipped, SyncFails, files, history
<1>12. CASE CallOpen \/ OpenEnds \/ CallFlush \/ CallClose \/ OpenFile
  BY <1>3, <1>12 DEF CallOpen, OpenEnds, CallFlush, CallClose, OpenFile, files, history
<1>13. CASE StoreHeader \/ PlaceBucket \/ GrowFails
  BY <1>3, <1>13 DEF StoreHeader, PlaceBucket, GrowFails, history
<1>14. ASSUME NEW d \in Data, AppendRecord(d) \/ StoreBucket(d) PROVE OnDiskInv'
  BY <1>3, <1>14 DEF AppendRecord, StoreBucket, history
<1>15. CASE (\E d \in Data : AppendFails(d)) \/ UNCHANGED vars
  BY <1>3, <1>15 DEF AppendFails, vars, files, history
<1> QED
  BY <1>4, <1>5, <1>6, <1>7, <1>8, <1>9, <1>10, <1>11, <1>12, <1>13, <1>14, <1>15 DEF Next

\* Fewer records named, or more there, is never further ahead.
LEMMA AheadLess ==
  ASSUME NEW S, NEW T, NEW m, NEW n, S \subseteq T, T \subseteq Data \X Nat,
         \A d \in Data : m[d] \in Nat /\ n[d] \in Nat /\ m[d] <= n[d],
         Ahead(S, n)
  PROVE  Ahead(T, m)
<1>1. PICK r \in S : r[2] > n[r[1]]
  BY DEF Ahead
<1>2. r \in T /\ r[1] \in Data /\ r[2] \in Nat
  OBVIOUS
<1>3. r[2] > m[r[1]]
  BY <1>1, <1>2
<1> QED BY <1>2, <1>3 DEF Ahead

LEMMA CacheAheadStep == LifeInv /\ [Next]_vars => CacheAhead'
<1> SUFFICES ASSUME LifeInv, [Next]_vars PROVE CacheAhead'
  OBVIOUS
<1>1. FilesTyped /\ FilesTyped' /\ TypeOK /\ HeldInv /\ FillInv /\ HeaderInv /\ CacheAhead
      /\ AheadOnlyByKernel
  BY TypeToParts, FilesTypedStep DEF LifeInv, TypeParts
<1>0. \A d \in Data : data'[d] \in Nat /\ dataDisk'[d] \in Nat
  BY <1>1 DEF FilesTyped
<1>2. ASSUME pc' # "fill", UNCHANGED <<idx, data>>, kernel \subseteq kernel'
      PROVE  CacheAhead'
  BY <1>1, <1>2 DEF CacheAhead
<1>3. ASSUME UNCHANGED <<idx, data, copy, pc, open, step>>, kernel \subseteq kernel'
      PROVE  CacheAhead'
  BY <1>1, <1>3 DEF CacheAhead, Filling, Opening
\* Records are added to the data files.
<1>4. ASSUME pc' # "fill", UNCHANGED <<idx, kernel>>,
             \A d \in Data : data[d] <= data'[d]
      PROVE  CacheAhead'
  <2>1. ASSUME NEW f \in Index, Ahead(idx[f], data') PROVE Ahead(idx[f], data)
    BY <1>0, <1>1, <1>4, <2>1, AheadLess, Typed
  <2> QED BY <1>1, <1>4, <2>1 DEF CacheAhead
<1>5. CASE OpenFile
  <2>1. \A d \in Data : data'[d] = IF d = Opening /\ data[d] = 0 THEN 1 ELSE data[d]
    BY <1>1, <1>5, FilesAreDistinct DEF OpenFile, Unusable, FilesTyped
  <2>2. \A d \in Data : data[d] <= data'[d]
    BY <1>1, <2>1, Typed
  <2> QED BY <1>4, <1>5, <2>2 DEF OpenFile, history
<1>6. ASSUME NEW e \in Data, AppendRecord(e) PROVE CacheAhead'
  <2>1. \A d \in Data : data'[d] = IF d = e THEN data[d] + 1 ELSE data[d]
    BY <1>1, <1>6 DEF AppendRecord, FilesTyped
  <2>2. \A d \in Data : data[d] <= data'[d]
    BY <1>1, <2>1, Typed
  <2> QED BY <1>4, <1>6, <2>2, FilesAreDistinct DEF AppendRecord, history
<1>7. CASE StartRebuild
  <2> DEFINE f == Opening
  <2>1. /\ f \in Index /\ copy' = Records(f) /\ UNCHANGED <<data, kernel>>
    BY <1>1, <1>7 DEF StartRebuild, FilesTyped, history
  <2>2. \A g \in Index : idx'[g] = IF g = f THEN {} ELSE idx[g]
    BY <1>1, <1>7 DEF StartRebuild, Empty, FilesTyped
  <2>3. ~Ahead({}, data)
    BY DEF Ahead
  <2>4. ~Ahead(Records(f), data)
    <3>1. \A r \in Records(f) : r \in Data \X Nat /\ r[2] <= data[r[1]]
      BY <1>1, <2>1, RecordsAre DEF FilesTyped
    <3>2. \A r \in Records(f) : ~(r[2] > data[r[1]])
      BY <1>1, <3>1, Typed
    <3> QED BY <3>2 DEF Ahead
  <2> QED BY <1>1, <2>1, <2>2, <2>3, <2>4 DEF CacheAhead
<1>8. CASE Grow
  <2>1. /\ "index" \in Index /\ copy' = idx["index"] /\ UNCHANGED <<data, kernel, open>> /\ open
    BY <1>8 DEF Grow, Writable, Index, history
  <2>2. \A g \in Index : idx'[g] = IF g = "index" THEN {} ELSE idx[g]
    BY <1>1, <1>8 DEF Grow, Empty, FilesTyped
  <2>3. ~Ahead({}, data)
    BY DEF Ahead
  <2>4. Filling' = "index"
    BY <2>1 DEF Filling
  <2> QED BY <1>1, <2>1, <2>2, <2>3, <2>4 DEF CacheAhead
<1>9. CASE PlaceBucket
  <2>1. PICK r \in copy : /\ idx' = [idx EXCEPT ![Filling] = @ \cup {r}]
                         /\ copy' = copy \ {r}
    BY <1>9 DEF PlaceBucket
  <2>2. pc = "fill" /\ Filling \in Index /\ Filling' = Filling /\ UNCHANGED <<data, kernel>>
    BY <1>1, <1>9 DEF PlaceBucket, FillInv, Filling, Opening, history
  <2>3. \A g \in Index : idx'[g] = IF g = Filling THEN idx[g] \cup {r} ELSE idx[g]
    BY <1>1, <2>1 DEF FilesTyped
  <2>4. \A g \in Index : Ahead(idx'[g], data) => g \in kernel
    <3> TAKE g \in Index
    <3>1. Ahead(idx'[g], data) =>
            Ahead(idx[g], data) \/ (g = Filling /\ Ahead(copy, data))
      BY <2>1, <2>3 DEF Ahead
    <3> QED BY <1>1, <2>2, <3>1 DEF CacheAhead
  <2>5. Ahead(copy', data) => Ahead(copy, data)
    BY <2>1 DEF Ahead
  <2> QED BY <1>1, <2>2, <2>4, <2>5 DEF CacheAhead
<1>10. ASSUME NEW e \in Data, StoreBucket(e) PROVE CacheAhead'
  <2> DEFINE r == <<e, data[e]>>
  <2>1. pc' = "idle" /\ UNCHANGED <<data, kernel>>
    BY <1>10 DEF StoreBucket
  <2>2. \A g \in Index : idx'[g] = IF g = IndexOf(e) THEN idx[g] \cup {r} ELSE idx[g]
    BY <1>1, <1>10, FilesAreDistinct DEF StoreBucket, FilesTyped
  <2>3. ~(r[2] > data[r[1]])
    BY <1>1, Typed
  <2>4. \A g \in Index : Ahead(idx'[g], data) => Ahead(idx[g], data)
    <3> HIDE DEF r
    <3> QED BY <2>2, <2>3 DEF Ahead
  <2> QED BY <1>1, <2>1, <2>4 DEF CacheAhead
<1>11. CASE SyncFile
  <2>1. pc' = "flush" /\ UNCHANGED <<data, idx>>
        /\ \A g \in Index : g \in kernel /\ Ahead(idx[g], data) => g \in kernel'
    BY <1>1, <1>11, SyncFileEffect, FilesAreDistinct DEF File
  <2> QED BY <1>1, <2>1 DEF CacheAhead
<1>12. CASE PowerLoss
  <2>1. pc' = "idle" /\ idx' = idxDisk /\ data' = dataDisk /\ kernel' = kernel
    BY <1>1, <1>12, DiesEffect DEF PowerLoss
  <2> QED BY <1>1, <2>1 DEF CacheAhead, AheadOnlyByKernel
<1>13. ASSUME NEW f \in File, WriteBack(f) PROVE CacheAhead'
  BY <1>1, <1>3, <1>13, WriteBackEffect DEF process
<1>14. CASE StoreHeader \/ (\E d \in Data : AppendFails(d))
  BY <1>3, <1>14 DEF StoreHeader, AppendFails, process, history
<1>15. CASE OpenFails \/ Crash
  BY <1>1, <1>2, <1>15, DiesEffect DEF OpenFails, Crash, files
<1>16. CASE FillEnds \/ OpenEnds \/ CallFlush
  BY <1>2, <1>16 DEF FillEnds, OpenEnds, CallFlush, files, history
<1>17. CASE CallClose
  BY <1>2, <1>17 DEF CallClose, files, history
<1>18. CASE CallOpen
  BY <1>1, <1>2, <1>18, CallOpenEffect DEF files, history
<1>19. CASE FlushSkipped \/ SyncFails \/ FlushEnds
  <2>1. kernel' = kernel
    BY <1>19 DEF FlushSkipped, SyncFails, FlushEnds, history
  <2> QED BY <1>1, <1>2, <1>19, <2>1, FlushStops DEF files
<1>20. CASE GrowFails
  BY <1>2, <1>20 DEF GrowFails, Writable, history
<1>21. CASE UNCHANGED vars
  BY <1>3, <1>21 DEF vars, files, process, history
<1> QED
  BY <1>5, <1>6, <1>7, <1>8, <1>9, <1>10, <1>11, <1>12, <1>13, <1>14, <1>15, <1>16, <1>17,
     <1>18, <1>19, <1>20, <1>21
  DEF Next

LEMMA DiskAheadStep == LifeInv /\ [Next]_vars => AheadOnlyByKernel'
<1> SUFFICES ASSUME LifeInv, [Next]_vars PROVE AheadOnlyByKernel'
  OBVIOUS
<1>1. FilesTyped /\ FilesTyped' /\ TypeOK /\ CountInv /\ SyncedInv /\ CacheAhead
      /\ AheadOnlyByKernel
  BY TypeToParts, FilesTypedStep DEF LifeInv, TypeParts
<1>0. \A d \in Data : dataDisk'[d] \in Nat
  BY <1>1 DEF FilesTyped
<1>2. CASE UNCHANGED <<dataDisk, idxDisk, kernel>>
  BY <1>1, <1>2 DEF AheadOnlyByKernel
\* A data file comes to the disk.
<1>3. ASSUME UNCHANGED idxDisk, kernel \subseteq kernel',
             \A d \in Data : dataDisk'[d] = data[d] \/ dataDisk'[d] = dataDisk[d]
      PROVE  AheadOnlyByKernel'
  <2>1. \A d \in Data : dataDisk[d] <= dataDisk'[d]
    BY <1>1, <1>3, Typed DEF CountInv
  <2>2. ASSUME NEW f \in Index, Ahead(idxDisk[f], dataDisk')
        PROVE  Ahead(idxDisk[f], dataDisk)
    BY <1>0, <1>1, <2>1, <2>2, AheadLess, Typed
  <2> QED BY <1>1, <1>3, <2>2 DEF AheadOnlyByKernel
<1>4. CASE SyncFile
  <2>1. PICK f \in File :
          /\ f = SyncOrder[step].file
          /\ \A d \in Data : dataDisk'[d] = IF d = f THEN data[d] ELSE dataDisk[d]
          /\ \A g \in Index : idxDisk'[g] = IF g = f THEN idx[g] ELSE idxDisk[g]
          /\ f \in Data => UNCHANGED <<idxDisk, rewritten, kernel>>
          /\ f \in Index => /\ UNCHANGED dataDisk
                           /\ kernel' = IF Ahead(idx[f], data) THEN kernel ELSE kernel \ {f}
    BY <1>1, <1>4, SyncFileEffect
  <2>2. CASE f \in Data
    BY <1>3, <2>1, <2>2
  <2>3. CASE f \in Index
    <3>1. \A d \in Data : dataDisk[d] = data[d]
      BY <1>1, <1>4, <2>1, <2>3, DataSynced DEF SyncFile
    <3>2. Ahead(idx[f], dataDisk) => Ahead(idx[f], data)
      <4>1. \A d \in Data : data[d] <= dataDisk[d]
        BY <1>1, <3>1, Typed
      <4> QED BY <1>1, <2>3, <4>1, AheadLess, Typed
    <3>3. ASSUME NEW g \in Index, Ahead(idxDisk'[g], dataDisk') PROVE g \in kernel'
      <4>1. CASE g = f
        <5>1. Ahead(idx[f], data)
          BY <2>1, <2>3, <3>2, <3>3, <4>1
        <5> QED BY <1>1, <2>1, <2>3, <4>1, <5>1 DEF CacheAhead
      <4>2. CASE g # f
        <5>1. Ahead(idxDisk[g], dataDisk)
          BY <2>1, <2>3, <3>3, <4>2
        <5>2. g \in kernel
          BY <1>1, <5>1 DEF AheadOnlyByKernel
        <5> QED BY <2>1, <2>3, <4>2, <5>2
      <4> QED BY <4>1, <4>2
    <3> QED BY <3>3 DEF AheadOnlyByKernel
  <2> QED BY <2>1, <2>2, <2>3 DEF File
<1>5. ASSUME NEW f \in File, WriteBack(f) PROVE AheadOnlyByKernel'
  <2>1. CASE f \in Data
    BY <1>3, <1>5, <2>1, <1>1, WriteBackEffect DEF WriteBack
  <2>2. CASE f \in Index
    <3>1. /\ kernel' = kernel \cup {f} /\ UNCHANGED dataDisk
          /\ \A g \in Index : g # f => idxDisk'[g] = idxDisk[g]
      BY <1>1, <1>5, <2>2, WriteBackEffect, FilesAreDistinct DEF WriteBack
    <3> QED BY <1>1, <3>1 DEF AheadOnlyByKernel
  <2> QED BY <2>1, <2>2 DEF File
<1>6. CASE FlushSkipped \/ SyncFails \/ FlushEnds
  BY <1>2, <1>6 DEF FlushSkipped, SyncFails, FlushEnds, files, history
<1>7. CASE CallOpen \/ OpenFile \/ OpenFails \/ OpenEnds \/ CallFlush \/ CallClose \/ FillEnds
  BY <1>2, <1>7 DEF CallOpen, OpenFile, OpenFails, OpenEnds, CallFlush, CallClose, FillEnds,
                    files, history
<1>8. CASE StartRebuild \/ Grow \/ GrowFails \/ StoreHeader \/ PlaceBucket
  BY <1>2, <1>8 DEF StartRebuild, Grow, GrowFails, StoreHeader, PlaceBucket, history
<1>9. ASSUME NEW d \in Data, AppendRecord(d) \/ StoreBucket(d) PROVE AheadOnlyByKernel'
  BY <1>2, <1>9 DEF AppendRecord, StoreBucket, history
<1>10. CASE Crash \/ PowerLoss
  BY <1>2, <1>10 DEF Crash, PowerLoss
<1>11. CASE (\E d \in Data : AppendFails(d)) \/ UNCHANGED vars
  BY <1>2, <1>11 DEF AppendFails, vars, files, history
<1> QED
  BY <1>4, <1>5, <1>6, <1>7, <1>8, <1>9, <1>10, <1>11 DEF Next

LEMMA SyncedStep == LifeInv /\ [Next]_vars => SyncedInv'
<1> SUFFICES ASSUME LifeInv, [Next]_vars PROVE SyncedInv'
  OBVIOUS
<1>1. FilesTyped /\ SyncedInv /\ TypeOK /\ HeldInv
  BY TypeToParts DEF LifeInv, TypeParts
<1>2. CASE pc' # "flush"
  BY <1>2 DEF SyncedInv
<1>3. CASE step' = 1
  BY <1>3 DEF SyncedInv
<1>4. CASE UNCHANGED <<data, dataDisk, idx, idxDisk, rewritten, pc, step>>
  BY <1>1, <1>4 DEF SyncedInv
<1>5. CASE SyncFile
  <2> DEFINE g == SyncOrder[step].file
  <2>1. /\ step \in 1 .. Len(SyncOrder) /\ pc = "flush" /\ step' = step + 1 /\ g \in File
        /\ UNCHANGED <<data, idx>>
        /\ \A d \in Data : dataDisk'[d] = IF d = g THEN data[d] ELSE dataDisk[d]
        /\ \A f \in Index : idxDisk'[f] = IF f = g THEN idx[f] ELSE idxDisk[f]
        /\ \A f \in Index : f \in rewritten' => f \in rewritten /\ f # g
    BY <1>1, <1>5, SyncFileEffect, FilesAreDistinct DEF File
  <2> HIDE DEF g
  <2>2. ASSUME NEW i \in 1 .. step' - 1
        PROVE  LET f == SyncOrder[i].file IN
               /\ f \in Data => dataDisk'[f] = data'[f]
               /\ f \in Index => idxDisk'[f] = idx'[f] /\ f \notin rewritten'
    <3>1. CASE i = step
      BY <2>1, <3>1 DEF g
    <3>2. CASE i \in 1 .. step - 1
      BY <1>1, <2>1, <3>2 DEF SyncedInv
    <3> QED BY <2>1, <3>1, <3>2
  <2> QED BY <2>2 DEF SyncedInv
<1>6. ASSUME NEW g \in File, WriteBack(g) PROVE SyncedInv'
  <2>1. UNCHANGED <<data, idx, rewritten, pc, step>>
    BY <1>6 DEF WriteBack, process
  <2>2. \A d \in Data : dataDisk'[d] = data[d] \/ dataDisk'[d] = dataDisk[d]
    BY <1>1, <1>6, WriteBackEffect
  <2>3. \A f \in Index : idxDisk[f] = idx[f] /\ f \notin rewritten => idxDisk'[f] = idx[f]
    <3>1. ASSUME NEW f \in Index, idxDisk[f] = idx[f], f \notin rewritten
          PROVE  idxDisk'[f] = idx[f]
      <4>1. idxDisk[f] \subseteq idxDisk'[f] /\ idxDisk'[f] \subseteq idxDisk[f] \cup idx[f]
        BY <1>1, <1>6, <3>1, WriteBackEffect
      <4> QED BY <3>1, <4>1
    <3> QED BY <3>1
  <2> QED BY <1>1, <2>1, <2>2, <2>3 DEF SyncedInv
<1>7. CASE CallOpen
  BY <1>1, <1>3, <1>7, CallOpenEffect
<1>8. CASE OpenFile \/ StartRebuild \/ Grow
  BY <1>8, <1>2 DEF OpenFile, StartRebuild, Grow, Empty
<1>9. CASE OpenFails \/ OpenEnds \/ CallFlush
  BY <1>9, <1>3 DEF OpenFails, OpenEnds, CallFlush
<1>10. CASE CallClose
  BY <1>10, <1>2, <1>3 DEF CallClose
<1>11. CASE FlushSkipped \/ SyncFails \/ FlushEnds
  BY <1>1, <1>3, <1>11, FlushStops
<1>12. CASE StoreHeader \/ PlaceBucket \/ FillEnds
  BY <1>12, <1>2 DEF StoreHeader, PlaceBucket, FillEnds, process
<1>13. ASSUME NEW d \in Data, AppendRecord(d) \/ StoreBucket(d) PROVE SyncedInv'
  BY <1>13, <1>2, FilesAreDistinct DEF AppendRecord, StoreBucket
<1>14. CASE GrowFails
  BY <1>14, <1>2 DEF GrowFails, Writable
<1>15. CASE Dies
  BY <1>1, <1>15, <1>3, DiesEffect
<1>16. CASE (\E d \in Data : AppendFails(d)) \/ UNCHANGED vars
  BY <1>16, <1>4 DEF AppendFails, vars, files, process
<1> QED
  BY <1>5, <1>6, <1>7, <1>8, <1>9, <1>10, <1>11, <1>12, <1>13, <1>14, <1>15, <1>16
  DEF Next, Crash, PowerLoss

-----------------------------------------------------------------------------
(* The theorems.                                                           *)

\* The inductive invariant of Open, Flush, Close and the filling of indexes, for
\* any list of shards: types, which files are open, that every acknowledged
\* record is in its data file and, unless a filling was cut, named by its index
\* or still to be copied, what Flush has behind it, and that no index is ahead
\* of its data but by the kernel's doing.
THEOREM LifeInvHolds == Spec => []LifeInv
<1>1. LifeInv /\ [Next]_vars => LifeInv'
  BY TypeStep, HeldStep, FillStep, HeaderStep, CountStep, NamedStep, OnDiskStep, SyncedStep,
     CacheAheadStep, DiskAheadStep
  DEF LifeInv
<1> QED BY <1>1, LifeInit, PTL DEF Spec

\* The types of the variables of Open, Flush and Close.
THEOREM LifecycleTypes == Spec => []TypeOK
<1>1. LifeInv => TypeOK
  BY DEF LifeInv
<1> QED BY <1>1, LifeInvHolds, PTL

\* Between calls the database has all of its files or none, whatever Open,
\* Close or a reopen failed on the way: Open, when it ends, has visited every
\* file, and every error path closes what was opened.
THEOREM NoFileIsLeaked == Spec => []AllFilesOrNone
<1>1. LifeInv => AllFilesOrNone
  BY FilesAreDistinct DEF LifeInv, HeldInv, AllFilesOrNone
<1> QED BY <1>1, LifeInvHolds, PTL

\* What a Flush or Close that went through all files reported as done is in the
\* data files on disk for good, and an index names it, in the page cache and on
\* disk, unless its filling is under way, was cut or met a damaged data file: Flush
\* ends only when it has synced every file, a growth copies every bucket, a rebuild
\* of whole files finds every record again, and nothing that the kernel writes back
\* takes a bucket from an index that was not filled again since it was synced.
THEOREM FlushIsDurable == Spec => []FlushedSurvives
<1>1. LifeInv => FlushedSurvives
  BY DEF LifeInv, CountInv, NamedInv, OnDiskInv, FlushedSurvives
<1> QED BY <1>1, LifeInvHolds, PTL

\* Flush never puts an index on disk before the records that it names: it syncs
\* an index only when every data file is synced.
THEOREM DataBeforeIndexOnDisk == Spec => []AheadOnlyByKernel
<1>1. LifeInv => AheadOnlyByKernel
  BY DEF LifeInv
<1> QED BY <1>1, LifeInvHolds, PTL

\* What ReadOnlyHarmless asks of a step of a read-only session.
HarmlessStep ==
  /\ data' \in {data, dataDisk} /\ idx' \in {idx, idxDisk}
  /\ pc = "flush" /\ after = "close" => status' = status \/ status' = "OK"

LEMMA ReadOnlyStep ==
  LifeInv /\ [Next]_vars => ((open \/ pc = "open") /\ readOnly => HarmlessStep)
<1> SUFFICES ASSUME LifeInv, [Next]_vars, readOnly PROVE HarmlessStep
  OBVIOUS
<1>1. TypeOK /\ HeldInv
  BY DEF LifeInv
<1>2. CASE UNCHANGED <<data, idx, status>>
  BY <1>2 DEF HarmlessStep
<1>3. CASE pc # "flush" /\ UNCHANGED <<data, idx>>
  BY <1>3 DEF HarmlessStep
<1>4. CASE CallOpen \/ OpenEnds \/ CallFlush \/ CallClose
  BY <1>4, <1>3 DEF CallOpen, OpenEnds, CallFlush, CallClose, files
<1>13. CASE OpenFails
  BY <1>13, <1>3 DEF OpenFails, files
<1>5. CASE OpenFile
  <2>1. UNCHANGED <<data, idx>> /\ pc = "open"
    BY <1>5 DEF OpenFile, Unusable
  <2> QED BY <2>1, <1>3
<1>6. CASE FlushSkipped
  <2>1. UNCHANGED <<data, idx>> /\ FlushReturns("OK")
    BY <1>6 DEF FlushSkipped, files
  <2>2. after = "close" => status' = "OK"
    BY <2>1 DEF FlushReturns, Back
  <2> QED BY <2>1, <2>2 DEF HarmlessStep
<1>7. CASE SyncFile \/ SyncFails
  BY <1>7 DEF SyncFile, SyncFails, Syncing, SkipFlush
<1>8. CASE FlushEnds
  <2>1. pc = "flush" /\ step > 1
    BY <1>8, SyncOrderIs, ShardsAreListed, <1>1, StepRange DEF FlushEnds
  <2> QED BY <1>1, <2>1 DEF HeldInv, SkipFlush
<1>9. ASSUME NEW d \in Data, AppendRecord(d) \/ AppendFails(d) \/ StoreBucket(d)
      PROVE  HarmlessStep
  BY <1>1, <1>9 DEF AppendRecord, AppendFails, StoreBucket, Appendable, Writable, HeldInv
<1>14. CASE Grow \/ GrowFails \/ StartRebuild
  BY <1>14 DEF Grow, GrowFails, StartRebuild, Writable
<1>15. CASE StoreHeader \/ PlaceBucket \/ FillEnds
  BY <1>1, <1>15 DEF StoreHeader, PlaceBucket, FillEnds, HeldInv
<1>10. CASE Crash
  <2>1. status' = status
    BY <1>1, <1>10, DiesEffect DEF Crash
  <2> QED BY <1>2, <1>10, <2>1 DEF Crash, files
<1>11. CASE PowerLoss
  <2>1. status' = status
    BY <1>1, <1>11, DiesEffect DEF PowerLoss
  <2> QED BY <1>11, <2>1 DEF PowerLoss, HarmlessStep
<1>12. CASE (\E f \in File : WriteBack(f)) \/ UNCHANGED vars
  BY <1>12, <1>2 DEF WriteBack, vars, files
<1> QED
  BY <1>4, <1>5, <1>6, <1>7, <1>8, <1>9, <1>10, <1>11, <1>12, <1>13, <1>14, <1>15 DEF Next

\* A read-only session changes no file: Open takes the files as they are, no
\* write gets past the read-only check, and Close skips Flush and cannot fail.
THEOREM ReadOnlyChangesNothing == Spec => ReadOnlyHarmless
<1>1. LifeInv /\ [Next]_vars =>
        [(open \/ pc = "open") /\ readOnly =>
           /\ data' \in {data, dataDisk} /\ idx' \in {idx, idxDisk}
           /\ pc = "flush" /\ after = "close" => status' = status \/ status' = "OK"]_vars
  BY ReadOnlyStep DEF HarmlessStep
<1> QED BY <1>1, LifeInvHolds, PTL DEF Spec, ReadOnlyHarmless

=============================================================================
