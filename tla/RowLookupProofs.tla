-------------------------- MODULE RowLookupProofs --------------------------
(***************************************************************************)
(* What an index of RowRecovery answers as long as it is not suspect: it   *)
(* names whole blocks, each row once and where a search meets it, and for  *)
(* each row the block that was acknowledged or one that was cut later.     *)
(* For every set of threads, rows and options, every hash function and     *)
(* every number of writes, crashes and sessions.                           *)
(***************************************************************************)
EXTENDS RowRecoveryProofs

-----------------------------------------------------------------------------
(* The blocks in the files, and the ranges that writes have reserved.      *)

\* File f holds the whole block of row r with value v at offset o.
IsBlock(f, o, r, v) ==
  /\ r \in Row /\ o + 3 <= Len(f)
  /\ \A i \in 1 .. 3 :
       f[o + i] = [row |-> r, val |-> v, seq |-> f[o + 1].seq, at |-> i - 1]

\* The whole blocks in the shard files, and the order a rebuild meets them in.
BlockType == [shard : Shard, offset : Nat, row : Row, val : Positive]
Blocks == {x \in BlockType : IsBlock(file[x.shard], x.offset, x.row, x.val)}
UpTo(x, y) == x.shard < y.shard \/ (x.shard = y.shard /\ x.offset <= y.offset)
IsLast(x)  == \A y \in Blocks : y.row = x.row => UpTo(y, x)

\* The values that a reader may find for row r: the acknowledged one and those
\* of later writes that failed, were cut or are in progress.
Busy == {t \in Thread : writer[t].pc # "idle"}
InFlight(r) == {writer[t].val : t \in {u \in Busy : writer[u].row = r}}
Allowed(r)  == {acked[r]} \cup maybe[r] \cup InFlight(r)

Placing(t) == writer[t].pc \in {"write", "writeRest"}
HomeOf(t)  == ShardForRow(writer[t].row)
BlockFor(t) == [shard |-> HomeOf(t), offset |-> writer[t].offset,
                row |-> writer[t].row, val |-> writer[t].val]

\* A range of a file that holds nothing but the beginning of the block that is
\* being written there.
Apart(a, b)   == a + 3 <= b \/ b + 3 <= a
Aligned(f, o) == \A j \in 1 .. 3 :
                   o + j <= Len(f) => f[o + j].row = NoRow \/ f[o + j].at = j - 1
Open3(f, o)   == o + 3 <= Len(f) => f[o + 3].row = NoRow
Reserved(f, o) == Aligned(f, o) /\ Open3(f, o)

\* Ranges are reserved behind everything that is in the file, and apart.
RangeInv ==
  /\ pc # "closed" => \A s \in Opened : Len(file[s]) <= append[s]
  /\ \A t \in Thread : Placing(t) =>
       /\ writer[t].offset + 3 <= append[HomeOf(t)]
       /\ Reserved(file[HomeOf(t)], writer[t].offset)
       /\ \A u \in Thread : u # t /\ Placing(u) /\ HomeOf(u) = HomeOf(t) =>
            Apart(writer[t].offset, writer[u].offset)

\* One write of a row at a time, and its block is in the file before its name
\* is in the index.
WriteInv ==
  /\ IsFiniteSet(Busy)
  /\ \A t \in Thread \ Busy : writer[t] = Idle
  /\ \A t \in Busy : /\ pc = "serving"
                     /\ writer[t].row \in Row /\ writer[t].val \in Positive
                     /\ opts.shards \in used
                     /\ \A u \in Busy : writer[u].row = writer[t].row => u = t
                     /\ ~Placing(t) => BlockFor(t) \in Blocks
  /\ used \subseteq Positive

\* Every value that is written is one.
ValuesIn(f) == \A i \in DOMAIN f : f[i].row \in Row => f[i].val \in Positive
ValueInv    == \A s \in Shard : ValuesIn(file[s])

FileInv == RangeInv /\ WriteInv /\ ValueInv

-----------------------------------------------------------------------------
(* Blocks and ranges of a file.                                            *)

\* Where a block can begin if it meets a range.
LEMMA AlignedBlock ==
  ASSUME NEW f \in Seq(CellType), NEW o \in Nat, Aligned(f, o),
         NEW p \in Nat, NEW r, NEW v, IsBlock(f, p, r, v)
  PROVE  p = o \/ Apart(p, o)
<1> SUFFICES ASSUME ~Apart(p, o) PROVE p = o  OBVIOUS
<1>0. PICK m \in Nat : m = Len(f)  OBVIOUS
<1>1. p + 3 > o /\ o + 3 > p  BY DEF Apart
<1>2. /\ r # NoRow /\ p + 3 <= m
      /\ \A i \in 1 .. 3 : f[p + i].row = r /\ f[p + i].at = i - 1
  BY <1>0, RecoveryAssumption DEF IsBlock
<1>3. \A j \in 1 .. 3 : o + j <= m => f[o + j].row = NoRow \/ f[o + j].at = j - 1
  BY <1>0 DEF Aligned
<1>4. CASE p >= o
  <2>1. PICK j \in 1 .. 3 : j = p - o + 1  BY <1>1, <1>4
  <2>2. o + j = p + 1 /\ o + j <= m  BY <1>2, <2>1
  <2>3. f[o + j].row = r /\ f[o + j].at = 1 - 1  BY <1>2, <2>2
  <2>4. 1 - 1 = j - 1  BY <1>2, <1>3, <2>2, <2>3
  <2> QED  BY <2>1, <2>4
<1>5. CASE p < o
  <2>1. PICK i \in 1 .. 3 : i = o - p + 1  BY <1>1, <1>5
  <2>2. p + i = o + 1 /\ o + 1 <= m  BY <1>2, <2>1
  <2>3. f[o + 1].row = r /\ f[o + 1].at = i - 1  BY <1>2, <2>2
  <2>4. i - 1 = 1 - 1  BY <1>2, <1>3, <2>2, <2>3
  <2> QED  BY <1>5, <2>1, <2>4
<1> QED  BY <1>4, <1>5

\* File g is file f with something else in the range at o.
Rest(f, g, o) ==
  /\ Len(g) >= Len(f) /\ (Len(g) <= Len(f) \/ Len(g) <= o + 3)
  /\ \A i \in 1 .. Len(g) : i \notin o + 1 .. o + 3 =>
       IF i <= Len(f) THEN g[i] = f[i] ELSE g[i].row = NoRow

\* That changes no block elsewhere,
LEMMA RestBlocks ==
  ASSUME NEW f \in Seq(CellType), NEW g \in Seq(CellType), NEW o \in Nat,
         Rest(f, g, o), Reserved(f, o), Aligned(g, o),
         NEW p \in Nat, NEW r, NEW v
  PROVE  /\ ~IsBlock(f, o, r, v)
         /\ p # o => (IsBlock(g, p, r, v) <=> IsBlock(f, p, r, v))
<1>0. PICK m \in Nat, n \in Nat : m = Len(f) /\ n = Len(g)  OBVIOUS
<1>1. ASSUME IsBlock(f, o, r, v) PROVE FALSE
  <2>1. r \in Row /\ o + 3 <= Len(f) /\ f[o + 3].row = r  BY <1>1 DEF IsBlock
  <2> QED  BY <2>1, RecoveryAssumption DEF Reserved, Open3
<1>2. /\ n >= m
      /\ \A i \in 1 .. n : i \notin o + 1 .. o + 3 =>
           IF i <= m THEN g[i] = f[i] ELSE g[i].row = NoRow
  BY <1>0 DEF Rest
<1>3. ASSUME Apart(p, o) PROVE \A i \in 1 .. 3 : p + i \notin o + 1 .. o + 3
  BY <1>3 DEF Apart
<1>4. ASSUME p # o, IsBlock(f, p, r, v) PROVE IsBlock(g, p, r, v)
  <2>1. Apart(p, o)  BY <1>4, AlignedBlock DEF Reserved
  <2>2. p + 3 <= m  BY <1>0, <1>4 DEF IsBlock
  <2>3. \A i \in 1 .. 3 : p + i \in 1 .. n /\ p + i <= m  BY <1>2, <2>2
  <2>4. \A i \in 1 .. 3 : g[p + i] = f[p + i]  BY <1>2, <1>3, <2>1, <2>3
  <2>5. p + 3 <= n  BY <1>2, <2>2
  <2> QED  BY <1>0, <1>4, <2>4, <2>5 DEF IsBlock
<1>5. ASSUME p # o, IsBlock(g, p, r, v) PROVE IsBlock(f, p, r, v)
  <2>1. Apart(p, o)  BY <1>5, AlignedBlock
  <2>2. /\ p + 3 <= n /\ r # NoRow
        /\ \A i \in 1 .. 3 : g[p + i].row = r
    BY <1>0, <1>5, RecoveryAssumption DEF IsBlock
  <2>3. \A i \in 1 .. 3 : p + i \in 1 .. n  BY <2>2
  <2>4. ASSUME NEW i \in 1 .. 3 PROVE p + i <= m /\ g[p + i] = f[p + i]
    <3>1. PICK k \in 1 .. n : k = p + i  BY <2>3
    <3>2. k \notin o + 1 .. o + 3 /\ g[k].row # NoRow  BY <1>3, <2>1, <2>2, <3>1
    <3> QED  BY <1>2, <3>1, <3>2
  <2>5. p + 3 <= m  BY <2>4
  <2> QED  BY <1>0, <1>5, <2>4, <2>5 DEF IsBlock
<1> QED  BY <1>1, <1>4, <1>5

\* nor what another range holds.
LEMMA RestReserved ==
  ASSUME NEW f \in Seq(CellType), NEW g \in Seq(CellType), NEW o \in Nat,
         Rest(f, g, o), NEW p \in Nat, Apart(o, p), Reserved(f, p)
  PROVE  Reserved(g, p)
<1>0. PICK m \in Nat, n \in Nat : m = Len(f) /\ n = Len(g)  OBVIOUS
<1>1. \A i \in 1 .. n : i \notin o + 1 .. o + 3 =>
           IF i <= m THEN g[i] = f[i] ELSE g[i].row = NoRow
  BY <1>0 DEF Rest
<1>2. ASSUME NEW j \in 1 .. 3, p + j <= n
      PROVE  IF p + j <= m THEN g[p + j] = f[p + j] ELSE g[p + j].row = NoRow
  <2>1. PICK i \in 1 .. n : i = p + j  BY <1>2
  <2>2. i \notin o + 1 .. o + 3  BY <2>1 DEF Apart
  <2> QED  BY <1>1, <2>1, <2>2
<1>3. Aligned(g, p)  BY <1>0, <1>2 DEF Reserved, Aligned
<1>4. Open3(g, p)  BY <1>0, <1>2 DEF Reserved, Open3
<1> QED  BY <1>3, <1>4 DEF Reserved

\* A write stays within its range, and a piece of a block leaves it open.
LEMMA PieceParts ==
  ASSUME NEW b \in Seq(CellType), Len(b) = 3, NEW p \in Pieces(b)
  PROVE  /\ p \in Seq(CellType)
         /\ \E k \in 0 .. 2 : /\ Len(p) = k
                              /\ \A i \in 1 .. k : p[i].row = NoRow \/ p[i] = b[i]
<1>0. Fragment \in CellType /\ Fragment.row = NoRow
  BY MarkTyped DEF Fragment, Mark
<1>1. \A k \in 0 .. 2 : /\ SubSeq(b, 1, k) \in Seq(CellType)
                        /\ Len(SubSeq(b, 1, k)) = k
                        /\ \A i \in 1 .. k : SubSeq(b, 1, k)[i] = b[i]
  <2>1. TAKE k \in 0 .. 2
  <2>2. \A i \in 1 .. k : b[i] \in CellType  BY LenProperties
  <2>3. /\ SubSeq(b, 1, k) \in Seq(CellType)
        /\ Len(SubSeq(b, 1, k)) = IF 1 <= k THEN k - 1 + 1 ELSE 0
        /\ \A i \in 1 .. k - 1 + 1 : SubSeq(b, 1, k)[i] = b[1 + i - 1]
    BY <2>2, SubSeqProperties
  <2> QED  BY <2>3
<1>2. CASE \E k \in 1 .. 2 : p = SubSeq(b, 1, k)
  <2>1. PICK k \in 1 .. 2 : p = SubSeq(b, 1, k)  BY <1>2
  <2> QED  BY <1>1, <2>1
<1>3. CASE \E k \in 0 .. 1 : p = Append(SubSeq(b, 1, k), Fragment)
  <2>1. PICK k \in 0 .. 1 : p = Append(SubSeq(b, 1, k), Fragment)  BY <1>3
  <2>a. k \in 0 .. 2  OBVIOUS
  <2>b. /\ SubSeq(b, 1, k) \in Seq(CellType) /\ Len(SubSeq(b, 1, k)) = k
        /\ \A i \in 1 .. k : SubSeq(b, 1, k)[i] = b[i]
    BY ONLY <1>1, <2>a
  <2>2. PICK q \in Seq(CellType) : q = SubSeq(b, 1, k) /\ Len(q) = k
                                   /\ \A i \in 1 .. k : q[i] = b[i]
    BY ONLY <2>b
  <2>3. p = Append(q, Fragment)  BY <2>1, <2>2
  <2>4. /\ p \in Seq(CellType) /\ Len(p) = k + 1 /\ p[k + 1] = Fragment
        /\ \A i \in 1 .. k : p[i] = q[i]
    BY <1>0, <2>2, <2>3
  <2>5. \A i \in 1 .. k + 1 : i = k + 1 \/ i \in 1 .. k  OBVIOUS
  <2> QED  BY <1>0, <2>2, <2>4, <2>5
<1> QED  BY <1>2, <1>3 DEF Pieces, BlockSize

\* File g is file f with the k cells of c at offset o.
Overwritten(f, o, c, k, g) ==
  /\ g \in Seq(CellType)
  /\ Len(g) = IF Len(f) >= o + k THEN Len(f) ELSE o + k
  /\ \A j \in 1 .. k : g[o + j] = c[j]
  /\ \A j \in 1 .. 3 : j > k /\ o + j <= Len(g) =>
       o + j <= Len(f) /\ g[o + j] = f[o + j]
  /\ Rest(f, g, o)
Fitting(f, o, c, k) ==
  f \in Seq(CellType) /\ o \in Nat /\ c \in Seq(CellType) /\ k \in 0 .. 3 /\ Len(c) = k

LEMMA OverwriteAt ==
  ASSUME NEW f, NEW o, NEW c, NEW k, Fitting(f, o, c, k)
  PROVE  Overwritten(f, o, c, k, Overwrite(f, o, c))
<1>a. /\ f \in Seq(CellType) /\ o \in Nat /\ c \in Seq(CellType)
      /\ k \in 0 .. 3 /\ Len(c) = k
  BY DEF Fitting
<1>0. PICK m \in Nat : m = Len(f)  BY <1>a
<1>b. k \in Nat /\ o + k \in Nat  BY <1>a
<1>1. PICK n \in Nat : n = Max({m, o + k})  BY <1>b, MaxOfTwo
<1>2. n = IF m >= o + k THEN m ELSE o + k  BY <1>b, <1>1, MaxOfTwo
<1> DEFINE e(i) == IF i \in o + 1 .. o + k THEN c[i - o] ELSE IF i <= m THEN f[i] ELSE Hole
<1>4. PICK g : g = Overwrite(f, o, c) /\ g = [i \in 1 .. n |-> e(i)]
  BY <1>0, <1>1, <1>a DEF Overwrite
<1>3. g \in Seq(CellType)
  <2>1. f \in Seq(CellType) /\ o \in Nat /\ c \in Seq(CellType)  BY <1>a
  <2>2. Overwrite(f, o, c) \in Seq(CellType)  BY ONLY <2>1, OverwriteCells
  <2>3. g = Overwrite(f, o, c)  BY <1>4
  <2> QED  BY ONLY <2>2, <2>3
<1>c. DOMAIN g = 1 .. n  BY <1>4
<1>6. \A i \in 1 .. n : g[i] = e(i)  BY <1>4
<1>5. Len(g) = n
  <2>1. DOMAIN g = 1 .. Len(g) /\ Len(g) \in Nat  BY <1>3
  <2>2. PICK l \in Nat : l = Len(g)  BY <2>1
  <2>3. 1 .. n = 1 .. l  BY ONLY <1>c, <2>1, <2>2
  <2>4. n = l  BY ONLY <2>3, n \in Nat, l \in Nat
  <2> QED  BY <2>2, <2>4
<1>7. ASSUME NEW j \in 1 .. k PROVE g[o + j] = c[j]
  <2>1. PICK i \in 1 .. n : i = o + j  BY <1>2, <1>a
  <2>2. i \in o + 1 .. o + k /\ i - o = j  BY <2>1, <1>a
  <2> QED  BY <1>6, <2>1, <2>2
<1>8. ASSUME NEW j \in 1 .. 3, j > k, o + j <= n
      PROVE  o + j <= m /\ g[o + j] = f[o + j]
  <2>1. PICK i \in 1 .. n : i = o + j  BY <1>8, <1>a
  <2>2. i \notin o + 1 .. o + k /\ i <= m  BY <1>2, <1>8, <2>1, <1>a
  <2>3. g[i] = f[i]  BY <1>6, <2>2
  <2> QED  BY <2>1, <2>2, <2>3
<1>9. Rest(f, g, o)
  <2>1. n >= m /\ (n <= m \/ n <= o + 3)  BY <1>2, <1>a
  <2>2. ASSUME NEW i \in 1 .. n, i \notin o + 1 .. o + 3
        PROVE  IF i <= m THEN g[i] = f[i] ELSE g[i].row = NoRow
    <3>1. i \notin o + 1 .. o + k  BY ONLY <2>2, <1>a, i \in 1 .. n, n \in Nat
    <3>2. g[i] = IF i <= m THEN f[i] ELSE Hole  BY <1>6, <3>1
    <3>3. Hole.row = NoRow  BY DEF Hole, Mark
    <3> QED  BY <3>2, <3>3
  <2> QED  BY <1>0, <1>5, <2>1, <2>2 DEF Rest
<1> QED  BY <1>0, <1>2, <1>3, <1>4, <1>5, <1>7, <1>8, <1>9, <1>a DEF Overwritten

LEMMA ValuesStored ==
  ASSUME NEW f, NEW o, NEW c, NEW k, Fitting(f, o, c, k), ValuesIn(f),
         \A i \in 1 .. k : c[i].row \in Row => c[i].val \in Positive
  PROVE  ValuesIn(Overwrite(f, o, c))
<1>1. PICK g : g = Overwrite(f, o, c) /\ Overwritten(f, o, c, k, g)  BY OverwriteAt
<1>2. f \in Seq(CellType) /\ o \in Nat /\ k \in 0 .. 3  BY DEF Fitting
<1>3. PICK m \in Nat, n \in Nat : m = Len(f) /\ n = Len(g) /\ DOMAIN g = 1 .. n /\ DOMAIN f = 1 .. m
  BY <1>1, <1>2 DEF Overwritten
<1>4. /\ \A j \in 1 .. k : g[o + j] = c[j]
      /\ \A j \in 1 .. 3 : j > k /\ o + j <= n => o + j <= m /\ g[o + j] = f[o + j]
      /\ \A i \in 1 .. n : i \notin o + 1 .. o + 3 =>
           IF i <= m THEN g[i] = f[i] ELSE g[i].row = NoRow
  BY <1>1, <1>3 DEF Overwritten, Rest
<1>5. ASSUME NEW i \in 1 .. n, g[i].row \in Row PROVE g[i].val \in Positive
  <2>1. CASE i \notin o + 1 .. o + 3
    <3>1. i <= m /\ g[i] = f[i]  BY <1>4, <1>5, <2>1, RecoveryAssumption
    <3>2. i \in 1 .. m  BY <3>1
    <3> QED  BY <1>3, <1>5, <3>1, <3>2 DEF ValuesIn
  <2>2. CASE i \in o + 1 .. o + 3
    <3>1. PICK j \in 1 .. 3 : i = o + j  BY <1>2, <2>2
    <3>2. CASE j <= k
      <4>1. j \in 1 .. k  BY <1>2, <3>2
      <4> QED  BY <1>4, <1>5, <3>1, <4>1
    <3>3. CASE j > k
      <4>1. o + j <= m /\ g[o + j] = f[o + j]  BY <1>4, <3>1, <3>3
      <4>2. o + j \in 1 .. m  BY <1>2, <4>1
      <4> QED  BY <1>3, <1>5, <3>1, <4>1, <4>2 DEF ValuesIn
    <3> QED  BY <1>2, <3>2, <3>3
  <2> QED  BY <2>1, <2>2
<1> QED  BY <1>1, <1>3, <1>5 DEF ValuesIn

LEMMA PieceStored ==
  ASSUME NEW f \in Seq(CellType), NEW o \in Nat, Reserved(f, o),
         NEW r \in Row, NEW v \in Nat, NEW q \in Nat, NEW c \in Pieces(Block(r, v, q)),
         NEW g, g = Overwrite(f, o, c)
  PROVE  /\ g \in Seq(CellType) /\ Rest(f, g, o) /\ Reserved(g, o)
         /\ ValuesIn(f) /\ v \in Positive => ValuesIn(g)
<1>1. PICK b \in Seq(CellType) : b = Block(r, v, q) /\ Len(b) = 3  BY BlockCells
<1>2. \A i \in 1 .. 3 : b[i].at = i - 1 /\ b[i].val = v  BY <1>1 DEF Block, BlockSize
<1>3. /\ c \in Seq(CellType)
      /\ \E k \in 0 .. 2 : Len(c) = k /\ \A i \in 1 .. k : c[i].row = NoRow \/ c[i] = b[i]
  <2>1. c \in Pieces(b)  BY <1>1
  <2> QED  BY ONLY <1>1, <2>1, PieceParts
<1>4. PICK k \in 0 .. 2 : Len(c) = k /\ \A i \in 1 .. k : c[i].row = NoRow \/ c[i] = b[i]
  BY ONLY <1>3
<1>5. /\ g \in Seq(CellType) /\ Rest(f, g, o)
      /\ \A j \in 1 .. k : g[o + j] = c[j]
      /\ \A j \in 1 .. 3 : j > k /\ o + j <= Len(g) => o + j <= Len(f) /\ g[o + j] = f[o + j]
  <2>1. Fitting(f, o, c, k)  BY <1>3, <1>4 DEF Fitting
  <2>2. Overwritten(f, o, c, k, g)  BY ONLY <2>1, OverwriteAt, g = Overwrite(f, o, c)
  <2> QED  BY <2>2 DEF Overwritten
<1>6. ASSUME NEW j \in 1 .. 3, o + j <= Len(g)
      PROVE  g[o + j].row = NoRow \/ g[o + j].at = j - 1
  <2>1. CASE j <= k
    <3>1. j \in 1 .. k  BY <2>1
    <3>2. \A i \in 1 .. k : i \in 1 .. 3  OBVIOUS
    <3> QED  BY <1>2, <1>4, <1>5, <3>1, <3>2
  <2>2. CASE j > k  BY <1>5, <1>6, <2>2 DEF Reserved, Aligned
  <2> QED  BY <2>1, <2>2
<1>7. ASSUME o + 3 <= Len(g) PROVE g[o + 3].row = NoRow
  <2>1. 3 > k /\ 3 \in 1 .. 3  OBVIOUS
  <2>2. o + 3 <= Len(f) /\ g[o + 3] = f[o + 3]  BY <1>5, <1>7, <2>1
  <2> QED  BY <2>2 DEF Reserved, Open3
<1>8. ASSUME ValuesIn(f), v \in Positive PROVE ValuesIn(g)
  <2>1. Fitting(f, o, c, k)  BY <1>3, <1>4 DEF Fitting
  <2>2. \A i \in 1 .. k : i \in 1 .. 3  OBVIOUS
  <2>3. \A i \in 1 .. k : c[i].row \in Row => c[i].val \in Positive
    BY <1>2, <1>4, <1>8, <2>2, RecoveryAssumption
  <2>4. ValuesIn(Overwrite(f, o, c))  BY ONLY <1>8, <2>1, <2>3, ValuesStored
  <2> QED  BY <2>4
<1> QED  BY <1>5, <1>6, <1>7, <1>8 DEF Reserved, Aligned, Open3

OnlyBlock(f, o, r, v) == \A r2, v2 : IsBlock(f, o, r2, v2) <=> r2 = r /\ v2 = v

LEMMA BlockStored ==
  ASSUME NEW f \in Seq(CellType), NEW o \in Nat,
         NEW r \in Row, NEW v \in Nat, NEW q \in Nat,
         NEW g, g = Overwrite(f, o, Block(r, v, q))
  PROVE  /\ g \in Seq(CellType) /\ Rest(f, g, o) /\ Aligned(g, o) /\ OnlyBlock(g, o, r, v)
         /\ ValuesIn(f) /\ v \in Positive => ValuesIn(g)
<1>1. PICK b \in Seq(CellType) : b = Block(r, v, q) /\ Len(b) = 3  BY BlockCells
<1>2. \A i \in 1 .. 3 : b[i] = [row |-> r, val |-> v, seq |-> q, at |-> i - 1]
  BY <1>1 DEF Block, BlockSize
<1>3. /\ g \in Seq(CellType) /\ Rest(f, g, o) /\ Len(g) >= o + 3
      /\ \A j \in 1 .. 3 : g[o + j] = b[j]
  <2>1. Fitting(f, o, b, 3)  BY <1>1 DEF Fitting
  <2>2. Overwritten(f, o, b, 3, g)  BY ONLY <1>1, <2>1, OverwriteAt, g = Overwrite(f, o, Block(r, v, q))
  <2>3. /\ g \in Seq(CellType) /\ Rest(f, g, o)
        /\ Len(g) = IF Len(f) >= o + 3 THEN Len(f) ELSE o + 3
        /\ \A j \in 1 .. 3 : g[o + j] = b[j]
    BY <2>2 DEF Overwritten
  <2>4. Len(f) \in Nat  OBVIOUS
  <2> QED  BY ONLY <2>3, <2>4, o \in Nat
<1>4. \A j \in 1 .. 3 : g[o + j] = [row |-> r, val |-> v, seq |-> q, at |-> j - 1]
  BY <1>2, <1>3
<1>5. g[o + 1].seq = q /\ g[o + 1].row = r /\ g[o + 1].val = v  BY <1>4
<1>6. Aligned(g, o)  BY <1>4 DEF Aligned
<1>7. IsBlock(g, o, r, v)  BY <1>3, <1>4, <1>5 DEF IsBlock
<1>8. ASSUME NEW r2, NEW v2, IsBlock(g, o, r2, v2) PROVE r2 = r /\ v2 = v
  <2>1. g[o + 1] = [row |-> r2, val |-> v2, seq |-> g[o + 1].seq, at |-> 1 - 1]
    BY <1>8 DEF IsBlock
  <2>2. g[o + 1].row = r2 /\ g[o + 1].val = v2  BY <2>1
  <2> QED  BY <1>5, <2>2
<1>9. OnlyBlock(g, o, r, v)  BY <1>7, <1>8 DEF OnlyBlock
<1>10. ASSUME ValuesIn(f), v \in Positive PROVE ValuesIn(g)
  <2>1. Fitting(f, o, b, 3)  BY <1>1 DEF Fitting
  <2>2. \A i \in 1 .. 3 : b[i].row \in Row => b[i].val \in Positive  BY <1>2, <1>10
  <2>3. ValuesIn(Overwrite(f, o, b))  BY ONLY <1>10, <2>1, <2>2, ValuesStored
  <2> QED  BY <1>1, <2>3
<1> QED  BY <1>3, <1>6, <1>9, <1>10

-----------------------------------------------------------------------------
(* The blocks after a step.                                                *)

BlockEqual(f, g) ==
  \A p \in Nat : \A r, v : IsBlock(g, p, r, v) <=> IsBlock(f, p, r, v)

LEMMA SameBlocks ==
  ASSUME \A s \in Shard : BlockEqual(file[s], file'[s])
  PROVE  Blocks' = Blocks
<1>1. ASSUME NEW x \in BlockType
      PROVE  IsBlock(file'[x.shard], x.offset, x.row, x.val)
               <=> IsBlock(file[x.shard], x.offset, x.row, x.val)
  <2>1. x.shard \in Shard /\ x.offset \in Nat  BY DEF BlockType
  <2> QED  BY <2>1 DEF BlockEqual
<1> QED  BY <1>1 DEF Blocks

LEMMA OpenKeepsBlocks ==
  ASSUME FilesTyped, NEW n,
         file' = [s \in Shard |-> IF s < n /\ file[s] = <<>> THEN <<FileHeader>> ELSE file[s]]
  PROVE  Blocks' = Blocks
<1>1. ASSUME NEW s \in Shard PROVE BlockEqual(file[s], file'[s])
  <2>1. CASE file'[s] = file[s]  BY <2>1 DEF BlockEqual
  <2>2. CASE file[s] = <<>> /\ file'[s] = <<FileHeader>>
    <3>1. Len(file[s]) = 0 /\ Len(file'[s]) = 1  BY <2>2
    <3>2. ASSUME NEW p \in Nat, NEW r, NEW v
          PROVE  ~IsBlock(file[s], p, r, v) /\ ~IsBlock(file'[s], p, r, v)
      <4>1. ~(p + 3 <= 0) /\ ~(p + 3 <= 1)  OBVIOUS
      <4> QED  BY <3>1, <4>1 DEF IsBlock
    <3> QED  BY <3>2 DEF BlockEqual
  <2> QED  BY <2>1, <2>2
<1> QED  BY <1>1, SameBlocks

\* A writer that has not written its block.
LEMMA PlacingFacts ==
  ASSUME RecoveryInv, FileInv, NEW t \in Thread, Placing(t)
  PROVE  /\ t \in Busy /\ pc = "serving" /\ opts \in Options
         /\ writer[t].row \in Row /\ writer[t].val \in Positive
         /\ writer[t].seq \in Nat /\ writer[t].offset \in Nat
         /\ HomeOf(t) \in Shard /\ HomeOf(t) \in Opened
         /\ file \in [Shard -> Seq(CellType)]
         /\ file[HomeOf(t)] \in Seq(CellType)
         /\ Reserved(file[HomeOf(t)], writer[t].offset)
         /\ BlockFor(t) \in BlockType
<1>1. t \in Busy  BY DEF Placing, Busy
<1>2. /\ pc = "serving" /\ writer[t].row \in Row /\ writer[t].val \in Positive
  BY <1>1 DEF FileInv, WriteInv
<1>3. opts \in Options /\ file \in [Shard -> Seq(CellType)] /\ WriterTyped(writer[t])
  BY DEF RecoveryInv, Typed, SessionTyped, FilesTyped, WritersTyped
<1>4. writer[t].seq \in Nat /\ writer[t].offset \in Nat  BY <1>3 DEF WriterTyped
<1>5. HomeOf(t) \in Shard /\ HomeOf(t) \in Opened  BY <1>2, <1>3, ShardForRowOpened DEF HomeOf
<1>6. Reserved(file[HomeOf(t)], writer[t].offset)  BY DEF FileInv, RangeInv
<1>7. file[HomeOf(t)] \in Seq(CellType)  BY <1>3, <1>5
<1>8. BlockFor(t) \in BlockType  BY <1>2, <1>4, <1>5 DEF BlockFor, BlockType
<1> QED  BY <1>1, <1>2, <1>3, <1>4, <1>5, <1>6, <1>7, <1>8

\* What a step of a write stores is file g in the writer's shard.
Stored(t, g) == /\ file'[HomeOf(t)] = g
                /\ \A s \in Shard : s # HomeOf(t) => file'[s] = file[s]

LEMMA StoreIs ==
  ASSUME RecoveryInv, FileInv, NEW t \in Thread, Placing(t), NEW c, Store(writer[t], c)
  PROVE  Stored(t, Overwrite(file[HomeOf(t)], writer[t].offset, c))
BY PlacingFacts DEF Store, HomeOf, Stored

LEMMA PieceKeepsBlocks ==
  ASSUME RecoveryInv, FileInv, NEW t \in Thread, Placing(t),
         NEW c \in Pieces(BlockOf(writer[t])), Store(writer[t], c)
  PROVE  /\ Blocks' = Blocks /\ ValueInv'
         /\ Rest(file[HomeOf(t)], file'[HomeOf(t)], writer[t].offset)
         /\ Reserved(file'[HomeOf(t)], writer[t].offset)
<1> DEFINE w == writer[t]
           f == file[HomeOf(t)]
           g == Overwrite(f, w.offset, c)
<1>1. Stored(t, g)  BY StoreIs
<1>a. w.val \in Positive /\ ValuesIn(f)
  BY PlacingFacts DEF FileInv, ValueInv
<1>2. /\ f \in Seq(CellType) /\ w.offset \in Nat /\ w.row \in Row /\ w.val \in Nat
      /\ w.seq \in Nat /\ Reserved(f, w.offset) /\ HomeOf(t) \in Shard
  BY PlacingFacts DEF Positive
<1>3. c \in Pieces(Block(w.row, w.val, w.seq))  BY DEF BlockOf
<1> HIDE DEF w, f
<1>4. /\ g \in Seq(CellType) /\ Rest(f, g, w.offset) /\ Reserved(g, w.offset)
      /\ ValuesIn(f) /\ w.val \in Positive => ValuesIn(g)
  BY ONLY <1>2, <1>3, PieceStored
<1> HIDE DEF g
<1>5. ASSUME NEW p \in Nat, NEW r, NEW v PROVE IsBlock(g, p, r, v) <=> IsBlock(f, p, r, v)
  <2>1. /\ Aligned(g, w.offset) /\ Aligned(f, w.offset)
    BY <1>2, <1>4 DEF Reserved
  <2>2. /\ ~IsBlock(f, w.offset, r, v)
        /\ p # w.offset => (IsBlock(g, p, r, v) <=> IsBlock(f, p, r, v))
    BY ONLY <1>2, <1>4, <2>1, RestBlocks, p \in Nat
  <2>3. Rest(g, g, w.offset)
    <3>1. Len(g) \in Nat  BY <1>4
    <3> QED  BY <3>1 DEF Rest
  <2>4. ~IsBlock(g, w.offset, r, v)
    BY ONLY <1>2, <1>4, <2>1, <2>3, RestBlocks, p \in Nat
  <2> QED  BY <2>2, <2>4
<1>6. \A s \in Shard : BlockEqual(file[s], file'[s])
  <2>1. file'[HomeOf(t)] = g /\ file[HomeOf(t)] = f  BY <1>1 DEF Stored, f
  <2>2. BlockEqual(f, g)  BY <1>5 DEF BlockEqual
  <2>3. \A s \in Shard : s # HomeOf(t) => file'[s] = file[s]  BY <1>1 DEF Stored
  <2>4. \A s \in Shard : BlockEqual(file[s], file[s])  BY DEF BlockEqual
  <2> QED  BY <2>1, <2>2, <2>3, <2>4
<1>7. ValueInv'  BY <1>1, <1>4, <1>a DEF Stored, FileInv, ValueInv
<1> QED  BY <1>1, <1>4, <1>6, <1>7, SameBlocks DEF Stored, f, w

LEMMA WriteAddsBlock ==
  ASSUME RecoveryInv, FileInv, NEW t \in Thread, Placing(t),
         Store(writer[t], BlockOf(writer[t]))
  PROVE  /\ Blocks' = Blocks \cup {BlockFor(t)} /\ ValueInv'
         /\ BlockFor(t) \notin Blocks
         /\ \A x \in Blocks : ~(x.shard = HomeOf(t) /\ x.offset = writer[t].offset)
         /\ Rest(file[HomeOf(t)], file'[HomeOf(t)], writer[t].offset)
<1> DEFINE w == writer[t]
           f == file[HomeOf(t)]
           g == Overwrite(f, w.offset, BlockOf(w))
<1>1. Stored(t, g)  BY StoreIs
<1>a. w.val \in Positive /\ ValuesIn(f)
  BY PlacingFacts DEF FileInv, ValueInv
<1>2. /\ f \in Seq(CellType) /\ w.offset \in Nat /\ w.row \in Row /\ w.val \in Nat
      /\ w.seq \in Nat /\ Reserved(f, w.offset) /\ HomeOf(t) \in Shard
  BY PlacingFacts DEF Positive
<1>3. g = Overwrite(f, w.offset, Block(w.row, w.val, w.seq))  BY DEF BlockOf
<1> HIDE DEF w, f, g
<1>4. /\ g \in Seq(CellType) /\ Rest(f, g, w.offset) /\ Aligned(g, w.offset)
      /\ OnlyBlock(g, w.offset, w.row, w.val) /\ ValuesIn(g)
  <2>1. PICK o \in Nat, r \in Row, v \in Nat, q \in Nat :
          o = w.offset /\ r = w.row /\ v = w.val /\ q = w.seq
    BY <1>2
  <2>2. g = Overwrite(f, o, Block(r, v, q)) /\ v \in Positive  BY <1>3, <1>a, <2>1
  <2>3. g \in Seq(CellType) /\ Rest(f, g, o) /\ Aligned(g, o) /\ OnlyBlock(g, o, r, v)
        /\ ValuesIn(g)
    BY ONLY <1>2, <1>a, <2>2, BlockStored, o \in Nat, r \in Row, v \in Nat, q \in Nat
  <2> QED  BY <2>1, <2>3
<1>5. ASSUME NEW p \in Nat, NEW r, NEW v
      PROVE  /\ ~IsBlock(f, w.offset, r, v)
             /\ p # w.offset => (IsBlock(g, p, r, v) <=> IsBlock(f, p, r, v))
  BY ONLY <1>2, <1>4, RestBlocks, p \in Nat
<1>6. /\ file'[HomeOf(t)] = g /\ file[HomeOf(t)] = f
      /\ \A s \in Shard : s # HomeOf(t) => file'[s] = file[s]
  BY <1>1 DEF Stored, f
<1>7. BlockFor(t) = [shard |-> HomeOf(t), offset |-> w.offset, row |-> w.row, val |-> w.val]
      /\ BlockFor(t) \in BlockType
  BY PlacingFacts DEF BlockFor, w
<1>8. ASSUME NEW x \in BlockType
      PROVE  /\ x \in Blocks' <=> x \in Blocks \/ x = BlockFor(t)
             /\ x \in Blocks => ~(x.shard = HomeOf(t) /\ x.offset = w.offset)
  <2>0. /\ x.shard \in Shard /\ x.offset \in Nat
        /\ x = [shard |-> x.shard, offset |-> x.offset, row |-> x.row, val |-> x.val]
    BY DEF BlockType
  <2>1. x \in Blocks <=> IsBlock(file[x.shard], x.offset, x.row, x.val)  BY DEF Blocks
  <2>2. x \in Blocks' <=> IsBlock(file'[x.shard], x.offset, x.row, x.val)  BY DEF Blocks
  <2>3. CASE x.shard # HomeOf(t)
    <3>1. x # BlockFor(t)  BY <1>7, <2>3
    <3> QED  BY <1>6, <2>0, <2>1, <2>2, <2>3, <3>1
  <2>4. CASE x.shard = HomeOf(t) /\ x.offset # w.offset
    <3>1. x # BlockFor(t)  BY <1>7, <2>4
    <3>2. IsBlock(g, x.offset, x.row, x.val) <=> IsBlock(f, x.offset, x.row, x.val)
      BY <1>5, <2>0, <2>4
    <3> QED  BY <1>6, <2>1, <2>2, <2>4, <3>1, <3>2
  <2>5. CASE x.shard = HomeOf(t) /\ x.offset = w.offset
    <3>1. ~IsBlock(f, x.offset, x.row, x.val)  BY <1>5, <2>0, <2>5
    <3>2. IsBlock(g, x.offset, x.row, x.val) <=> x.row = w.row /\ x.val = w.val
      BY <1>4, <2>5 DEF OnlyBlock
    <3>3. x = BlockFor(t) <=> x.row = w.row /\ x.val = w.val
      BY <1>7, <2>0, <2>5
    <3> QED  BY <1>6, <2>1, <2>2, <2>5, <3>1, <3>2, <3>3
  <2> QED  BY <2>3, <2>4, <2>5
<1>9. Blocks \subseteq BlockType /\ Blocks' \subseteq BlockType
  BY DEF Blocks
<1>10. Blocks' = Blocks \cup {BlockFor(t)}  BY <1>7, <1>8, <1>9
<1>11. BlockFor(t) \notin Blocks
  <2>1. BlockFor(t).shard = HomeOf(t) /\ BlockFor(t).offset = w.offset  BY <1>7
  <2> QED  BY <1>7, <1>8, <2>1
<1>12. ValueInv'  BY <1>4, <1>6, <1>a DEF FileInv, ValueInv
<1> QED  BY <1>4, <1>6, <1>8, <1>9, <1>10, <1>11, <1>12 DEF w

-----------------------------------------------------------------------------
(* FileInv is inductive, and what each step does to the blocks.            *)

LEMMA NobodyWrites ==
  ASSUME RecoveryInv, FileInv, pc # "serving" \/ Quiet
  PROVE  Busy = {} /\ \A t \in Thread : writer[t] = Idle
<1>1. \A t \in Thread : writer[t].pc = "idle"
  BY DEF Quiet, RecoveryInv, PlaceInv
<1>2. \A t \in Thread : t \notin Busy  BY <1>1 DEF Busy
<1>3. Busy = {}  BY <1>2 DEF Busy
<1> QED  BY <1>2, <1>3 DEF FileInv, WriteInv

LEMMA QuietFileInv ==
  ASSUME \A t \in Thread : writer'[t] = Idle, ValueInv', used' \subseteq Positive,
         pc' # "closed" => \A s \in Opened' : Len(file'[s]) <= append'[s]
  PROVE  FileInv'
<1>1. \A t \in Thread : writer'[t].pc = "idle"  BY DEF Idle
<1>2. Busy' = {}  BY <1>1 DEF Busy
<1>3. \A t \in Thread : ~Placing(t)'  BY <1>1 DEF Placing
<1>4. RangeInv'  BY <1>3 DEF RangeInv
<1>5. IsFiniteSet(Busy')  BY <1>2, FS_EmptySet
<1>6. WriteInv'  BY <1>2, <1>5 DEF WriteInv
<1> QED  BY <1>4, <1>6 DEF FileInv

LEMMA FileInvCloses ==
  ASSUME RecoveryInv, FileInv, Closed, UNCHANGED <<file, used>>
  PROVE  FileInv' /\ Blocks' = Blocks
<1>1. pc' = "closed" /\ \A t \in Thread : writer'[t] = Idle  BY DEF Closed
<1>2. ValueInv' /\ used' \subseteq Positive  BY DEF FileInv, ValueInv, WriteInv
<1> QED  BY <1>1, <1>2, QuietFileInv DEF Blocks

LEMMA FileInvOpens ==
  ASSUME RecoveryInv, FileInv, NEW o \in Options, Open(o) \/ OpenReadOnly(o)
  PROVE  FileInv' /\ Blocks' = Blocks
<1>0. /\ pc = "closed" /\ UNCHANGED <<writer, used>> /\ opts' = o
      /\ file \in [Shard -> Seq(CellType)]
  BY DEF Open, OpenReadOnly, history, RecoveryInv, Typed, FilesTyped
<1>1. \A t \in Thread : writer'[t] = Idle  BY <1>0, NobodyWrites
<1>2. used' \subseteq Positive  BY <1>0 DEF FileInv, WriteInv
<1>3. \A s \in Opened' : s \in Shard /\ s < o.shards
  <2>1. o.shards \in Nat /\ \A s \in 0 .. o.shards - 1 : s \in Shard  BY OpenedShards
  <2> QED  BY <1>0, <2>1 DEF Opened
<1>4. CASE Open(o)
  <2>1. /\ file' = [s \in Shard |-> IF s < o.shards /\ file[s] = <<>>
                                    THEN <<FileHeader>> ELSE file[s]]
        /\ append' = [s \in Shard |-> IF s < o.shards THEN Len(file'[s]) ELSE 0]
    BY <1>4 DEF Open
  <2>2. Blocks' = Blocks  BY <1>0, <2>1, OpenKeepsBlocks DEF FilesTyped
  <2>3. ValueInv'
    <3>1. ValuesIn(<<FileHeader>>)
      <4>1. FileHeader.row = NoRow /\ NoRow \notin Row  BY RecoveryAssumption DEF FileHeader, Mark
      <4> QED  BY <4>1 DEF ValuesIn
    <3> QED  BY <2>1, <3>1 DEF ValueInv, FileInv
  <2>4. \A s \in Opened' : Len(file'[s]) <= append'[s]
    <3>1. TAKE s \in Opened'
    <3>2. append'[s] = Len(file'[s])  BY <1>3, <2>1
    <3>3. file'[s] \in Seq(CellType)
      <4>1. <<FileHeader>> \in Seq(CellType)  BY MarkTyped DEF FileHeader
      <4> QED  BY <1>0, <1>3, <2>1, <4>1
    <3> QED  BY <3>2, <3>3
  <2> QED  BY <1>1, <1>2, <2>2, <2>3, <2>4, QuietFileInv
<1>5. CASE OpenReadOnly(o)
  <2>1. file' = file /\ (pc' # "closed" =>
          append' = [s \in Shard |-> IF s < o.shards THEN Len(file[s]) ELSE 0])
    BY <1>0, <1>5 DEF OpenReadOnly
  <2>2. Blocks' = Blocks /\ ValueInv'  BY <2>1 DEF Blocks, ValueInv, FileInv
  <2>3. pc' # "closed" => \A s \in Opened' : Len(file'[s]) <= append'[s]
    <3>1. ASSUME pc' # "closed", NEW s \in Opened' PROVE Len(file'[s]) <= append'[s]
      <4>1. append'[s] = Len(file'[s])  BY <1>3, <2>1, <3>1
      <4>2. file'[s] \in Seq(CellType)  BY <1>0, <1>3, <2>1
      <4> QED  BY <4>1, <4>2
    <3> QED  BY <3>1
  <2> QED  BY <1>1, <1>2, <2>2, <2>3, QuietFileInv
<1> QED  BY <1>4, <1>5

\* A step of Open that leaves the files alone.
LEMMA FileInvBuilds ==
  ASSUME RecoveryInv, FileInv, pc \notin {"closed", "serving"},
         UNCHANGED <<file, writer, opts, used>>,
         append' = append \/ append' = [append EXCEPT ![scan.shard] = Size]
  PROVE  FileInv' /\ Blocks' = Blocks
<1>1. \A t \in Thread : writer'[t] = Idle  BY NobodyWrites
<1>2. used' \subseteq Positive /\ ValueInv'  BY DEF FileInv, WriteInv, ValueInv
<1>3. \A s \in Opened' : Len(file'[s]) <= append'[s]
  <2>1. TAKE s \in Opened'
  <2>2. Opened' = Opened  BY DEF Opened
  <2>3. Len(file[s]) <= append[s]  BY <2>1, <2>2 DEF FileInv, RangeInv
  <2>4. /\ s \in Shard /\ append \in [Shard -> Nat] /\ file[s] \in Seq(CellType)
    <3>1. opts \in Options /\ append \in [Shard -> Nat] /\ file \in [Shard -> Seq(CellType)]
      BY DEF RecoveryInv, Typed, SessionTyped, FilesTyped
    <3> QED  BY <2>1, <2>2, <3>1, OpenedShards DEF Opened
  <2>5. append'[s] = append[s] \/ append'[s] = Len(file[s])  BY <2>4 DEF Size
  <2>6. Len(file[s]) \in Nat /\ file'[s] = file[s]  BY <2>4
  <2> QED  BY <2>3, <2>5, <2>6
<1> QED  BY <1>1, <1>2, <1>3, QuietFileInv DEF Blocks

\* The files and reserved ranges stay.
LEMMA RangeKept ==
  ASSUME RecoveryInv, FileInv, pc = "serving",
         UNCHANGED <<file, append, opts, pc, used>>, WritersTyped',
         \A t \in Thread : Placing(t)' =>
           Placing(t) /\ writer'[t].row = writer[t].row /\ writer'[t].offset = writer[t].offset
  PROVE  RangeInv' /\ ValueInv' /\ Blocks' = Blocks
<1>1. \A t \in Thread : Placing(t)' => Placing(t) /\ HomeOf(t)' = HomeOf(t)
  BY DEF HomeOf, ShardForRow
<1>2. Opened' = Opened  BY DEF Opened
<1>3. RangeInv'
  <2>1. \A s \in Opened' : Len(file'[s]) <= append'[s]  BY <1>2 DEF FileInv, RangeInv
  <2>2. ASSUME NEW t \in Thread, Placing(t)'
        PROVE  /\ writer'[t].offset + 3 <= append'[HomeOf(t)']
               /\ Reserved(file'[HomeOf(t)'], writer'[t].offset)
    BY <1>1, <2>2 DEF FileInv, RangeInv
  <2>3. ASSUME NEW t \in Thread, Placing(t)',
               NEW u \in Thread, u # t, Placing(u)', HomeOf(u)' = HomeOf(t)'
        PROVE  Apart(writer'[t].offset, writer'[u].offset)
    <3>1. Placing(t) /\ Placing(u) /\ HomeOf(u) = HomeOf(t)  BY <1>1, <2>3
    <3>2. Apart(writer[t].offset, writer[u].offset)  BY <2>3, <3>1 DEF FileInv, RangeInv
    <3> QED  BY <2>3, <3>2
  <2> QED  BY <2>1, <2>2, <2>3 DEF RangeInv
<1>4. ValueInv' /\ Blocks' = Blocks  BY DEF FileInv, ValueInv, Blocks
<1> QED  BY <1>3, <1>4

\* A write is done with, one way or the other.
LEMMA FileInvEnds ==
  ASSUME RecoveryInv, FileInv, pc = "serving", NEW t \in Thread,
         UNCHANGED <<file, append, opts, pc, used>>,
         writer' = [writer EXCEPT ![t] = Idle]
  PROVE  FileInv' /\ Blocks' = Blocks /\ Busy' = Busy \ {t}
<1>1. DOMAIN writer = Thread  BY DEF RecoveryInv, Typed, WritersTyped
<1>2. /\ writer'[t] = Idle /\ Idle.pc = "idle"
      /\ \A u \in Thread : u # t => writer'[u] = writer[u]
  BY <1>1 DEF Idle
<1>3. Busy' = Busy \ {t}  BY <1>2 DEF Busy
<1>4. WritersTyped'
  <2>1. DOMAIN writer' = Thread  BY <1>1
  <2> QED  BY <1>2, <2>1, IdleTyped DEF RecoveryInv, Typed, WritersTyped
<1>5. \A u \in Thread : Placing(u)' => Placing(u) /\ writer'[u] = writer[u]
  BY <1>2 DEF Placing
<1>6. RangeInv' /\ ValueInv' /\ Blocks' = Blocks  BY <1>4, <1>5, RangeKept
<1>7. WriteInv'
  <2>1. IsFiniteSet(Busy')  BY <1>3, FS_Subset DEF FileInv, WriteInv
  <2>2. \A u \in Thread \ Busy' : writer'[u] = Idle  BY <1>2, <1>3 DEF FileInv, WriteInv
  <2>3. ASSUME NEW u \in Busy'
        PROVE  /\ pc' = "serving"
               /\ writer'[u].row \in Row /\ writer'[u].val \in Positive
               /\ opts'.shards \in used'
               /\ \A x \in Busy' : writer'[x].row = writer'[u].row => x = u
    BY <1>2, <1>3, <2>3 DEF FileInv, WriteInv, Busy
  <2>4. ASSUME NEW u \in Busy', ~Placing(u)' PROVE BlockFor(u)' \in Blocks'
    <3>1. u \in Busy /\ u \in Thread /\ writer'[u] = writer[u]  BY <1>2, <1>3 DEF Busy
    <3>2. ~Placing(u) /\ BlockFor(u)' = BlockFor(u)
      BY <2>4, <3>1 DEF Placing, BlockFor, HomeOf, ShardForRow
    <3> QED  BY <1>6, <3>1, <3>2 DEF FileInv, WriteInv
  <2>5. used' \subseteq Positive  BY DEF FileInv, WriteInv
  <2> QED  BY <2>1, <2>2, <2>3, <2>4, <2>5 DEF WriteInv
<1> QED  BY <1>3, <1>6, <1>7 DEF FileInv

\* A write whose block is in the file goes on.
LEMMA FileInvGoesOn ==
  ASSUME RecoveryInv, FileInv, NEW t \in Thread, pc = "serving",
         writer[t].pc \in {"claim", "publish"}, WritersTyped',
         UNCHANGED <<file, append, opts, pc, used>>,
         writer'[t].pc \in {"publish", "count"},
         writer'[t].row = writer[t].row, writer'[t].val = writer[t].val,
         writer'[t].offset = writer[t].offset,
         \A u \in Thread : u # t => writer'[u] = writer[u]
  PROVE  FileInv' /\ Blocks' = Blocks /\ Busy' = Busy
<1>1. t \in Busy /\ ~Placing(t) /\ ~Placing(t)' /\ Busy' = Busy
  BY DEF Busy, Placing
<1>2. \A u \in Thread : Placing(u)' => Placing(u) /\ writer'[u] = writer[u]
  BY <1>1 DEF Placing
<1>3. RangeInv' /\ ValueInv' /\ Blocks' = Blocks  BY <1>2, RangeKept
<1>4. \A u \in Thread : /\ writer'[u].row = writer[u].row /\ writer'[u].val = writer[u].val
                        /\ writer'[u].offset = writer[u].offset
                        /\ BlockFor(u)' = BlockFor(u)
                        /\ Placing(u)' <=> Placing(u)
  BY <1>1 DEF BlockFor, HomeOf, ShardForRow, Placing
<1>5. WriteInv'
  <2>1. IsFiniteSet(Busy')  BY <1>1 DEF FileInv, WriteInv
  <2>2. \A u \in Thread \ Busy' : writer'[u] = Idle  BY <1>1 DEF FileInv, WriteInv
  <2>3. ASSUME NEW u \in Busy'
        PROVE  /\ pc' = "serving"
               /\ writer'[u].row \in Row /\ writer'[u].val \in Positive
               /\ opts'.shards \in used'
               /\ \A x \in Busy' : writer'[x].row = writer'[u].row => x = u
    BY <1>1, <1>4, <2>3 DEF FileInv, WriteInv, Busy
  <2>4. ASSUME NEW u \in Busy', ~Placing(u)' PROVE BlockFor(u)' \in Blocks'
    BY <1>1, <1>3, <1>4, <2>4 DEF FileInv, WriteInv, Busy
  <2>5. used' \subseteq Positive  BY DEF FileInv, WriteInv
  <2> QED  BY <2>1, <2>2, <2>3, <2>4, <2>5 DEF WriteInv
<1> QED  BY <1>1, <1>3, <1>5 DEF FileInv

LEMMA StoreKeepsRanges ==
  ASSUME RecoveryInv, FileInv, NEW t \in Thread, Placing(t), NEW c, Store(writer[t], c),
         UNCHANGED <<append, opts, pc>>,
         Rest(file[HomeOf(t)], file'[HomeOf(t)], writer[t].offset),
         file'[HomeOf(t)] \in Seq(CellType),
         DOMAIN writer' = Thread, \A u \in Thread : u # t => writer'[u] = writer[u],
         writer'[t].row = writer[t].row, writer'[t].offset = writer[t].offset,
         Placing(t)' => Reserved(file'[HomeOf(t)], writer[t].offset)
  PROVE  RangeInv'
<1> DEFINE h == HomeOf(t)
<1>1. /\ h \in Shard /\ h \in Opened /\ file[h] \in Seq(CellType) /\ writer[t].offset \in Nat
      /\ opts \in Options /\ append \in [Shard -> Nat] /\ file \in [Shard -> Seq(CellType)]
      /\ pc = "serving"
  BY PlacingFacts DEF RecoveryInv, Typed, SessionTyped
<1>2. \A s \in Shard : s # h => file'[s] = file[s]  BY StoreIs DEF Stored
<1>3. \A u \in Thread : /\ HomeOf(u)' = HomeOf(u) /\ writer'[u].offset = writer[u].offset
                        /\ Placing(u)' => Placing(u)
  BY DEF HomeOf, ShardForRow, Placing
<1> HIDE DEF h
<1>4. Opened' = Opened  BY DEF Opened
<1>5. \A s \in Opened' : Len(file'[s]) <= append'[s]
  <2>1. TAKE s \in Opened'
  <2>2. s \in Shard /\ Len(file[s]) <= append[s]
    BY <1>1, <1>4, OpenedShards DEF Opened, FileInv, RangeInv
  <2>3. CASE s # h  BY <1>2, <2>2, <2>3
  <2>4. CASE s = h
    <3>1. PICK m \in Nat, n \in Nat, a \in Nat, o \in Nat :
            m = Len(file[h]) /\ n = Len(file'[h]) /\ a = append[h] /\ o = writer[t].offset
      BY <1>1 DEF h
    <3>2. n <= m \/ n <= o + 3  BY <3>1 DEF Rest, h
    <3>3. o + 3 <= a  BY <3>1 DEF FileInv, RangeInv, h
    <3> QED  BY <2>2, <2>4, <3>1, <3>2, <3>3
  <2> QED  BY <2>3, <2>4
<1>6. ASSUME NEW u \in Thread, Placing(u)'
      PROVE  Reserved(file'[HomeOf(u)], writer[u].offset)
  <2>0. Placing(u) /\ HomeOf(u) \in Shard /\ writer[u].offset \in Nat
        /\ Reserved(file[HomeOf(u)], writer[u].offset)
    BY <1>3, <1>6, PlacingFacts
  <2>1. CASE u = t  BY <1>6, <2>1 DEF h
  <2>2. CASE u # t /\ HomeOf(u) # h  BY <1>2, <2>0, <2>2
  <2>3. CASE u # t /\ HomeOf(u) = h
    <3>1. Apart(writer[t].offset, writer[u].offset)  BY <2>0, <2>3 DEF FileInv, RangeInv, h
    <3>2. PICK f \in Seq(CellType), g \in Seq(CellType), o \in Nat, p \in Nat :
            f = file[h] /\ g = file'[h] /\ o = writer[t].offset /\ p = writer[u].offset
      BY <1>1, <2>0 DEF h
    <3>3. Rest(f, g, o) /\ Reserved(f, p) /\ Apart(o, p)  BY <2>0, <2>3, <3>1, <3>2 DEF h
    <3>4. Reserved(g, p)  BY ONLY <3>3, RestReserved, f \in Seq(CellType), g \in Seq(CellType),
                                  o \in Nat, p \in Nat
    <3> QED  BY <2>3, <3>2, <3>4
  <2> QED  BY <2>1, <2>2, <2>3
<1>7. ASSUME NEW u \in Thread, Placing(u)'
      PROVE  /\ writer'[u].offset + 3 <= append'[HomeOf(u)']
             /\ Reserved(file'[HomeOf(u)'], writer'[u].offset)
  BY <1>3, <1>6, <1>7 DEF FileInv, RangeInv
<1>8. ASSUME NEW u \in Thread, Placing(u)',
             NEW x \in Thread, x # u, Placing(x)', HomeOf(x)' = HomeOf(u)'
      PROVE  Apart(writer'[u].offset, writer'[x].offset)
  <2>1. Placing(u) /\ Placing(x) /\ HomeOf(x) = HomeOf(u)  BY <1>3, <1>8
  <2>2. Apart(writer[u].offset, writer[x].offset)  BY <1>8, <2>1 DEF FileInv, RangeInv
  <2> QED  BY <1>3, <2>2
<1> QED  BY <1>5, <1>7, <1>8 DEF RangeInv

LEMMA GotoWriter ==
  ASSUME RecoveryInv, NEW t \in Thread, NEW label, Goto(t, label)
  PROVE  /\ DOMAIN writer' = Thread
         /\ \A u \in Thread : u # t => writer'[u] = writer[u]
         /\ writer'[t] = [writer[t] EXCEPT !.pc = label]
         /\ writer'[t].pc = label /\ writer'[t].row = writer[t].row
         /\ writer'[t].val = writer[t].val /\ writer'[t].seq = writer[t].seq
         /\ writer'[t].offset = writer[t].offset /\ writer'[t].bucket = writer[t].bucket
         /\ writer'[t].inserted = writer[t].inserted
<1>1. DOMAIN writer = Thread /\ WriterTyped(writer[t])
  BY DEF RecoveryInv, Typed, WritersTyped
<1>2. writer'[t] = [writer[t] EXCEPT !.pc = label]  BY <1>1 DEF Goto
<1>3. PICK w : w = writer[t] /\ WriterTyped(w)  BY <1>1
<1>4. /\ [w EXCEPT !.pc = label].pc = label /\ [w EXCEPT !.pc = label].row = w.row
      /\ [w EXCEPT !.pc = label].val = w.val /\ [w EXCEPT !.pc = label].seq = w.seq
      /\ [w EXCEPT !.pc = label].offset = w.offset
      /\ [w EXCEPT !.pc = label].bucket = w.bucket
      /\ [w EXCEPT !.pc = label].inserted = w.inserted
  BY ONLY <1>3 DEF WriterTyped
<1> QED  BY <1>1, <1>2, <1>3, <1>4 DEF Goto

LEMMA FileInvWrites ==
  ASSUME RecoveryInv, FileInv, NEW t \in Thread, WritePiece(t) \/ WriteBlock(t),
         FilesTyped'
  PROVE  /\ FileInv' /\ Busy' = Busy
         /\ WritePiece(t) => Blocks' = Blocks
         /\ WriteBlock(t) => /\ Blocks' = Blocks \cup {BlockFor(t)}
                             /\ BlockFor(t) \notin Blocks
<1>1. pc = "serving" /\ Placing(t) /\ UNCHANGED <<append, opts, pc, used>>
  BY DEF WritePiece, WriteBlock, At, Placing, history
<1>2. /\ HomeOf(t) \in Shard /\ t \in Busy /\ BlockFor(t) \in BlockType
  BY <1>1, PlacingFacts
<1>3. file'[HomeOf(t)] \in Seq(CellType)  BY <1>2 DEF FilesTyped
<1>4. PICK label \in {"writeRest", "claim"} :
        /\ Goto(t, label)
        /\ label = "writeRest" <=> WritePiece(t)
  <2>1. WritePiece(t) => writer'[t].pc = "writeRest"  BY GotoWriter DEF WritePiece
  <2>2. WriteBlock(t) => writer'[t].pc = "claim"  BY GotoWriter DEF WriteBlock
  <2>3. CASE WritePiece(t)
    <3>1. Goto(t, "writeRest")  BY <2>3 DEF WritePiece
    <3> QED  BY <2>3, <3>1
  <2>4. CASE WriteBlock(t)
    <3>1. Goto(t, "claim")  BY <2>4 DEF WriteBlock
    <3>2. ~WritePiece(t)  BY <2>1, <2>2, <2>4
    <3> QED  BY <3>1, <3>2
  <2> QED  BY <2>3, <2>4
<1>5. /\ DOMAIN writer' = Thread
      /\ \A u \in Thread : u # t => writer'[u] = writer[u]
      /\ writer'[t].pc = label /\ writer'[t].row = writer[t].row
      /\ writer'[t].val = writer[t].val /\ writer'[t].offset = writer[t].offset
  BY <1>4, GotoWriter
<1>6. Busy' = Busy  BY <1>2, <1>5 DEF Busy
<1>7. \A u \in Thread : BlockFor(u)' = BlockFor(u) /\ writer'[u].row = writer[u].row
                        /\ writer'[u].val = writer[u].val
  BY <1>1, <1>5 DEF BlockFor, HomeOf, ShardForRow
<1>8. ASSUME RangeInv', ValueInv', Blocks \subseteq Blocks',
             ~Placing(t)' => BlockFor(t) \in Blocks'
      PROVE  FileInv'
  <2>1. IsFiniteSet(Busy')  BY <1>6 DEF FileInv, WriteInv
  <2>2. \A u \in Thread \ Busy' : writer'[u] = Idle  BY <1>2, <1>5, <1>6 DEF FileInv, WriteInv
  <2>3. ASSUME NEW u \in Busy'
        PROVE  /\ pc' = "serving"
               /\ writer'[u].row \in Row /\ writer'[u].val \in Positive
               /\ opts'.shards \in used'
               /\ \A x \in Busy' : writer'[x].row = writer'[u].row => x = u
    BY <1>1, <1>6, <1>7, <2>3 DEF FileInv, WriteInv, Busy
  <2>4. ASSUME NEW u \in Busy', ~Placing(u)' PROVE BlockFor(u)' \in Blocks'
    <3>1. u \in Thread /\ u \in Busy  BY <1>6 DEF Busy
    <3>2. CASE u = t  BY <1>7, <1>8, <2>4, <3>1, <3>2
    <3>3. CASE u # t
      <4>1. ~Placing(u)  BY <1>5, <2>4, <3>1, <3>3 DEF Placing
      <4> QED  BY <1>7, <1>8, <3>1, <4>1 DEF FileInv, WriteInv
    <3> QED  BY <3>2, <3>3
  <2>5. used' \subseteq Positive  BY <1>1 DEF FileInv, WriteInv
  <2>6. WriteInv'  BY <2>1, <2>2, <2>3, <2>4, <2>5 DEF WriteInv
  <2> QED  BY <1>8, <2>6 DEF FileInv
<1>9. CASE WritePiece(t)
  <2>1. PICK c \in Pieces(BlockOf(writer[t])) : Store(writer[t], c)  BY <1>9 DEF WritePiece
  <2>2. /\ Blocks' = Blocks /\ ValueInv'
        /\ Rest(file[HomeOf(t)], file'[HomeOf(t)], writer[t].offset)
        /\ Reserved(file'[HomeOf(t)], writer[t].offset)
    BY <1>1, <2>1, PieceKeepsBlocks
  <2>3. RangeInv'  BY <1>1, <1>3, <1>5, <2>1, <2>2, StoreKeepsRanges
  <2>4. Placing(t)'  BY <1>4, <1>5, <1>9 DEF Placing
  <2>5. FileInv'  BY <1>8, <2>2, <2>3, <2>4
  <2>6. ~WriteBlock(t)
    <3>1. WriteBlock(t) => writer'[t].pc = "claim"  BY GotoWriter DEF WriteBlock
    <3> QED  BY <2>4, <3>1 DEF Placing
  <2> QED  BY <1>6, <2>2, <2>5, <2>6
<1>10. CASE WriteBlock(t)
  <2>1. Store(writer[t], BlockOf(writer[t]))  BY <1>10 DEF WriteBlock
  <2>2. /\ Blocks' = Blocks \cup {BlockFor(t)} /\ ValueInv' /\ BlockFor(t) \notin Blocks
        /\ Rest(file[HomeOf(t)], file'[HomeOf(t)], writer[t].offset)
    BY <1>1, <2>1, WriteAddsBlock
  <2>3. writer'[t].pc = "claim"  BY <1>10, GotoWriter DEF WriteBlock
  <2>4. ~Placing(t)'  BY <2>3 DEF Placing
  <2>5. RangeInv'  BY <1>1, <1>3, <1>5, <2>1, <2>2, <2>4, StoreKeepsRanges
  <2>6. FileInv'  BY <1>8, <2>2, <2>5
  <2>7. ~WritePiece(t)
    <3>1. WritePiece(t) => writer'[t].pc = "writeRest"  BY GotoWriter DEF WritePiece
    <3> QED  BY <2>3, <3>1
  <2> QED  BY <1>6, <2>2, <2>6, <2>7
<1> QED  BY <1>9, <1>10

LEMMA NothingWritten ==
  ASSUME RecoveryInv, FileInv, UNCHANGED <<file, append, writer, opts, pc, used>>
  PROVE  FileInv' /\ Blocks' = Blocks /\ Busy' = Busy
<1>1. Blocks' = Blocks /\ Busy' = Busy  BY DEF Blocks, Busy
<1>2. \A t \in Thread : Placing(t)' = Placing(t) /\ HomeOf(t)' = HomeOf(t)
                        /\ BlockFor(t)' = BlockFor(t)
  BY DEF Placing, HomeOf, ShardForRow, BlockFor
<1>3. Opened' = Opened  BY DEF Opened
<1>4. RangeInv'  BY <1>2, <1>3 DEF FileInv, RangeInv
<1>5. \A t \in Busy : t \in Thread  BY DEF Busy
<1>6. WriteInv'  BY <1>1, <1>2, <1>5 DEF FileInv, WriteInv
<1>7. ValueInv'  BY DEF FileInv, ValueInv
<1> QED  BY <1>1, <1>4, <1>6, <1>7 DEF FileInv

\* A write that gets a slot and a range, and one that does not.
Begins(t, r) ==
  /\ DOMAIN writer' = Thread
  /\ \A u \in Thread : u # t => writer'[u] = writer[u]
  /\ writer'[t].pc = "write" /\ writer'[t].row = r /\ writer'[t].val = calls'
  /\ writer'[t].val \in Positive
  /\ writer'[t].offset = append[ShardForRow(r)] /\ ~writer'[t].inserted
  /\ append' = [append EXCEPT ![ShardForRow(r)] = @ + 3]
  /\ used' = used \cup {opts.shards}
  /\ index' = [index EXCEPT !.nextSequence = @ + 1]
  /\ drift' = (drift \/ \E m \in used : opts.shards % m # 0)

LEMMA PutFacts ==
  ASSUME RecoveryInv, FileInv, NEW t \in Thread, NEW r \in Row, PutRowStructs(t, r)
  PROVE  /\ pc = "serving" /\ t \notin Busy /\ \A u \in Thread : writer[u].row # r
         /\ UNCHANGED <<file, pc, opts, scan, build, acked, maybe, suspect>>
         /\ \/ Begins(t, r) /\ Fits(Pending + 1)
            \/ UNCHANGED <<writer, index, append, used, drift>>
<1>1. /\ pc = "serving" /\ writer[t].pc = "idle" /\ \A u \in Thread : writer[u].row # r
      /\ UNCHANGED <<file, pc, opts, scan, build, acked, maybe, suspect>>
      /\ calls' = calls + 1
  BY DEF PutRowStructs, At
<1>2. t \notin Busy  BY <1>1 DEF Busy
<1>3. CASE ~Fits(Pending + 1)  BY <1>1, <1>2, <1>3 DEF PutRowStructs
<1>4. CASE Fits(Pending + 1)
  <2> DEFINE w == [Idle EXCEPT !.pc = "write", !.row = r, !.val = calls',
                      !.seq = index.nextSequence, !.offset = append[ShardForRow(r)]]
  <2>1. /\ writer' = [writer EXCEPT ![t] = w]
        /\ index' = [index EXCEPT !.nextSequence = @ + 1]
        /\ append' = [append EXCEPT ![ShardForRow(r)] = @ + 3]
        /\ used' = used \cup {opts.shards}
        /\ drift' = (drift \/ \E m \in used : opts.shards % m # 0)
    BY <1>4 DEF PutRowStructs, BlockSize
  <2>2. DOMAIN writer = Thread /\ calls \in Nat
    BY DEF RecoveryInv, Typed, WritersTyped, SessionTyped
  <2>3. /\ w.pc = "write" /\ w.row = r /\ w.val = calls' /\ w.offset = append[ShardForRow(r)]
        /\ w.inserted = FALSE
    BY DEF Idle
  <2>4. calls' \in Positive  BY <1>1, <2>2 DEF Positive
  <2> HIDE DEF w
  <2>5. /\ DOMAIN writer' = Thread /\ writer'[t] = w
        /\ \A u \in Thread : u # t => writer'[u] = writer[u]
    BY <2>1, <2>2
  <2>6. ~writer'[t].inserted  BY <2>3, <2>5, Zenon
  <2>7. Begins(t, r)  BY <2>1, <2>3, <2>4, <2>5, <2>6 DEF Begins
  <2> QED  BY <1>1, <1>2, <1>4, <2>7
<1> QED  BY <1>3, <1>4

LEMMA FileInvBegins ==
  ASSUME RecoveryInv, FileInv, NEW t \in Thread, NEW r \in Row, Begins(t, r),
         pc = "serving", t \notin Busy, \A u \in Thread : writer[u].row # r,
         UNCHANGED <<file, pc, opts>>
  PROVE  FileInv' /\ Blocks' = Blocks /\ Busy' = Busy \cup {t}
<1> DEFINE h == ShardForRow(r)
<1>1. /\ opts \in Options /\ append \in [Shard -> Nat] /\ file \in [Shard -> Seq(CellType)]
  BY DEF RecoveryInv, Typed, SessionTyped, FilesTyped
<1>2. h \in Shard /\ h \in Opened  BY <1>1, ShardForRowOpened
<1>3. /\ append'[h] = append[h] + 3 /\ \A s \in Shard : s # h => append'[s] = append[s]
      /\ append[h] \in Nat
  BY <1>1, <1>2 DEF Begins
<1>4. Blocks' = Blocks /\ ValueInv'  BY DEF Blocks, FileInv, ValueInv
<1>5. Busy' = Busy \cup {t}  BY DEF Begins, Busy
<1>6. \A u \in Thread : u # t => /\ HomeOf(u)' = HomeOf(u) /\ BlockFor(u)' = BlockFor(u)
                                 /\ Placing(u)' <=> Placing(u)
  BY DEF Begins, HomeOf, ShardForRow, BlockFor, Placing
<1>7. HomeOf(t)' = h /\ writer'[t].offset = append[h] /\ Placing(t)'
  BY DEF Begins, HomeOf, ShardForRow, Placing
<1> HIDE DEF h
<1>8. RangeInv'
  <2>1. \A s \in Opened' : Len(file'[s]) <= append'[s]
    <3>1. TAKE s \in Opened'
    <3>2. s \in Opened /\ s \in Shard  BY <1>1, OpenedShards DEF Opened
    <3>3. Len(file[s]) <= append[s] /\ Len(file[s]) \in Nat /\ append[s] \in Nat
      BY <1>1, <3>2 DEF FileInv, RangeInv
    <3> QED  BY <1>3, <3>2, <3>3
  <2>2. Len(file[h]) \in Nat /\ Len(file[h]) <= append[h]
    BY <1>1, <1>2 DEF FileInv, RangeInv
  <2>3. Reserved(file[h], append[h])
    <3>1. \A j \in 1 .. 3 : ~(append[h] + j <= Len(file[h]))  BY <1>3, <2>2
    <3>2. ~(append[h] + 3 <= Len(file[h]))  BY <3>1
    <3> QED  BY <3>1, <3>2 DEF Reserved, Aligned, Open3
  <2>4. \A u \in Thread : u # t /\ Placing(u) =>
          /\ HomeOf(u) \in Shard /\ writer[u].offset \in Nat
          /\ writer[u].offset + 3 <= append[HomeOf(u)]
          /\ Reserved(file[HomeOf(u)], writer[u].offset)
          /\ writer'[u].offset = writer[u].offset
    BY PlacingFacts DEF FileInv, RangeInv, Begins
  <2>5. ASSUME NEW u \in Thread, Placing(u)'
        PROVE  /\ writer'[u].offset + 3 <= append'[HomeOf(u)']
               /\ Reserved(file'[HomeOf(u)'], writer'[u].offset)
    <3>1. CASE u = t  BY <1>3, <1>7, <2>3, <3>1
    <3>2. CASE u # t
      <4>1. /\ HomeOf(u)' \in Shard /\ writer[u].offset \in Nat
            /\ writer[u].offset + 3 <= append[HomeOf(u)']
            /\ Reserved(file[HomeOf(u)'], writer[u].offset)
            /\ writer'[u].offset = writer[u].offset
        BY <1>6, <2>4, <2>5, <3>2
      <4>2. PICK s \in Shard : s = HomeOf(u)'  BY <4>1
      <4>3. append[s] \in Nat /\ append'[s] \in Nat /\ append'[s] >= append[s]
        BY <1>1, <1>3, <4>2
      <4> QED  BY <4>1, <4>2, <4>3
    <3> QED  BY <3>1, <3>2
  <2>6. ASSUME NEW u \in Thread, Placing(u)', NEW x \in Thread, x # u, Placing(x)',
               HomeOf(x)' = HomeOf(u)'
        PROVE  Apart(writer'[u].offset, writer'[x].offset)
    <3>1. CASE u # t /\ x # t
      <4>1. Placing(u) /\ Placing(x) /\ HomeOf(x) = HomeOf(u)  BY <1>6, <2>6, <3>1
      <4>2. Apart(writer[u].offset, writer[x].offset)  BY <2>6, <4>1 DEF FileInv, RangeInv
      <4> QED  BY <2>4, <3>1, <4>1, <4>2
    <3>2. CASE u = t
      <4>1. /\ x # t /\ Placing(x) /\ HomeOf(x) = h  BY <1>6, <1>7, <2>6, <3>2
      <4>2. writer[x].offset + 3 <= append[h] /\ writer'[x].offset = writer[x].offset
            /\ writer[x].offset \in Nat
        BY <2>4, <4>1
      <4> QED  BY <1>3, <1>7, <3>2, <4>2 DEF Apart
    <3>3. CASE x = t
      <4>1. /\ u # t /\ Placing(u) /\ HomeOf(u) = h  BY <1>6, <1>7, <2>6, <3>3
      <4>2. writer[u].offset + 3 <= append[h] /\ writer'[u].offset = writer[u].offset
            /\ writer[u].offset \in Nat
        BY <2>4, <4>1
      <4> QED  BY <1>3, <1>7, <3>3, <4>2 DEF Apart
    <3> QED  BY <3>1, <3>2, <3>3
  <2> QED  BY <2>1, <2>5, <2>6 DEF RangeInv
<1>9. WriteInv'
  <2>1. IsFiniteSet(Busy')
    <3>1. IsFiniteSet(Busy)  BY DEF FileInv, WriteInv
    <3> QED  BY <1>5, <3>1, FS_AddElement
  <2>2. \A u \in Thread \ Busy' : writer'[u] = Idle  BY <1>5 DEF FileInv, WriteInv, Begins
  <2>3. opts.shards \in Positive  BY <1>1, RecoveryAssumption DEF Positive
  <2>4. used' \subseteq Positive /\ opts'.shards \in used'
    BY <2>3 DEF FileInv, WriteInv, Begins
  <2>5. ASSUME NEW u \in Busy'
        PROVE  /\ writer'[u].row \in Row /\ writer'[u].val \in Positive
               /\ \A x \in Busy' : writer'[x].row = writer'[u].row => x = u
               /\ ~Placing(u)' => BlockFor(u)' \in Blocks'
    <3>1. \A x \in Busy : x \in Thread /\ x # t /\ writer'[x] = writer[x]
                          /\ writer[x].row \in Row /\ writer[x].row # r
      BY DEF Busy, Begins, FileInv, WriteInv
    <3>2. CASE u = t
      <4>1. \A x \in Busy' : writer'[x].row = r => x = t  BY <1>5, <3>1
      <4> QED  BY <1>7, <3>2, <4>1 DEF Begins
    <3>3. CASE u # t
      <4>1. u \in Busy  BY <1>5, <2>5, <3>3
      <4>2. \A x \in Busy' : writer'[x].row = writer'[u].row => x = u
        <5>1. \A x \in Busy : writer[x].row = writer[u].row => x = u
          BY <4>1 DEF FileInv, WriteInv
        <5>2. writer'[t].row = r  BY DEF Begins
        <5> QED  BY <1>5, <3>1, <4>1, <5>1, <5>2
      <4>3. ~Placing(u)' => BlockFor(u)' \in Blocks'
        BY <1>4, <1>6, <3>1, <4>1 DEF FileInv, WriteInv
      <4>4. writer[u].val \in Positive  BY <4>1 DEF FileInv, WriteInv
      <4> QED  BY <3>1, <4>1, <4>2, <4>3, <4>4
    <3> QED  BY <3>2, <3>3
  <2> QED  BY <2>1, <2>2, <2>4, <2>5 DEF WriteInv
<1> QED  BY <1>4, <1>5, <1>8, <1>9 DEF FileInv

\* A write that claims a bucket or publishes it.
LEMMA FileInvNames ==
  ASSUME RecoveryInv, RecoveryInv', FileInv, NEW t \in Thread,
         ClaimBucket(t) \/ PublishBucket(t)
  PROVE  FileInv' /\ Blocks' = Blocks /\ Busy' = Busy
<1>1. WritersTyped'  BY DEF RecoveryInv, Typed
<1>2. /\ pc = "serving" /\ writer[t].pc \in {"claim", "publish"}
      /\ UNCHANGED <<file, append, opts, pc, used>>
  BY DEF ClaimBucket, PublishBucket, At, history
<1>3. /\ writer'[t].pc \in {"publish", "count"}
      /\ writer'[t].row = writer[t].row /\ writer'[t].val = writer[t].val
      /\ writer'[t].offset = writer[t].offset
      /\ \A u \in Thread : u # t => writer'[u] = writer[u]
  <2>1. CASE PublishBucket(t)
    <3>1. Goto(t, "count")  BY <2>1 DEF PublishBucket
    <3> QED  BY <3>1, GotoWriter
  <2>2. CASE ClaimBucket(t)
    <3>1. PICK b, i : writer' = [writer EXCEPT ![t].pc = "publish", ![t].bucket = b,
                                   ![t].inserted = i]
      BY <2>2 DEF ClaimBucket
    <3>2. DOMAIN writer = Thread /\ WriterTyped(writer[t])
      BY DEF RecoveryInv, Typed, WritersTyped
    <3> QED  BY <3>1, <3>2 DEF WriterTyped
  <2> QED  BY <2>1, <2>2
<1>4. FileInv' /\ Blocks' = Blocks /\ Busy' = Busy
  BY ONLY <1>1, <1>2, <1>3, RecoveryInv, FileInv, FileInvGoesOn
<1> QED  BY <1>4

LEMMA FileInvInit == Init => FileInv
<1> SUFFICES ASSUME Init PROVE FileInv  OBVIOUS
<1>1. /\ \A t \in Thread : writer[t] = Idle  BY DEF Init
<1>2. Busy = {} /\ \A t \in Thread : ~Placing(t)  BY <1>1 DEF Busy, Placing, Idle
<1>3. pc = "closed" /\ used = {} /\ \A s \in Shard : file[s] = <<>>  BY DEF Init
<1>4. RangeInv  BY <1>2, <1>3 DEF RangeInv
<1>5. IsFiniteSet(Busy)  BY <1>2, FS_EmptySet
<1>6. WriteInv  BY <1>1, <1>2, <1>3, <1>5 DEF WriteInv
<1>7. ValueInv  BY <1>3 DEF ValueInv, ValuesIn
<1> QED  BY <1>4, <1>6, <1>7 DEF FileInv

LEMMA FileInvNext ==
  ASSUME RecoveryInv, RecoveryInv', FileInv, [Next]_vars
  PROVE  FileInv' /\ Blocks \subseteq Blocks'
<1>1. CASE \E o \in Options : Open(o) \/ OpenReadOnly(o)  BY <1>1, FileInvOpens
<1>2. CASE ClearIndex \/ CreateEmptyRowIndex
  BY <1>2, FileInvBuilds DEF ClearIndex, CreateEmptyRowIndex, history
<1>3. CASE PlaceExistingRowBucket \/ IndexReady
  BY <1>3, FileInvBuilds DEF PlaceExistingRowBucket, IndexReady, history
<1>4. CASE ScanGrows  BY <1>4, FileInvBuilds DEF ScanGrows, history
<1>5. CASE ScanBlock  BY <1>5, FileInvBuilds DEF ScanBlock, history
<1>6. CASE ScanShardEnds  BY <1>6, FileInvBuilds DEF ScanShardEnds, history
<1>7. CASE ScanFails  BY <1>7, FileInvCloses DEF ScanFails, history
<1>8. CASE Close \/ Crash  BY <1>8, FileInvCloses DEF Close, Crash, history
<1>9. CASE DeleteIndex  BY <1>9, NothingWritten DEF DeleteIndex, session, history
<1>10. CASE UNCHANGED vars  BY <1>10, NothingWritten DEF vars, session, history
<1>11. ASSUME NEW t \in Thread, Write(t) PROVE FileInv' /\ Blocks \subseteq Blocks'
  <2>1. CASE \E r \in Row : PutRowStructs(t, r)
    <3>1. PICK r \in Row : PutRowStructs(t, r)  BY <2>1
    <3>2. /\ pc = "serving" /\ t \notin Busy /\ \A u \in Thread : writer[u].row # r
          /\ UNCHANGED <<file, pc, opts, scan, build, acked, maybe, suspect>>
          /\ Begins(t, r) \/ UNCHANGED <<writer, index, append, used, drift>>
      BY <3>1, PutFacts
    <3> QED  BY <3>2, FileInvBegins, NothingWritten
  <2>2. CASE WritePiece(t) \/ WriteBlock(t)
    <3>1. FilesTyped'  BY DEF RecoveryInv, Typed
    <3> QED  BY <2>2, <3>1, FileInvWrites
  <2>3. CASE WriteBlockFails(t) \/ FinishWrite(t)
    BY <2>3, FileInvEnds DEF WriteBlockFails, FinishWrite, At
  <2>4. CASE ClaimBucket(t) \/ PublishBucket(t)  BY <2>4, FileInvNames
  <2> QED  BY <1>11, <2>1, <2>2, <2>3, <2>4 DEF Write
<1> QED
  BY <1>1, <1>2, <1>3, <1>4, <1>5, <1>6, <1>7, <1>8, <1>9, <1>10, <1>11 DEF Next

-----------------------------------------------------------------------------
(* Tables: what a search finds in an array of buckets.                     *)

Way(f, r, k) == (HashOf[r] + k) % Cardinality(DOMAIN f)
OnPath(f, b, r) ==
  \E k \in 0 .. Cardinality(DOMAIN f) - 1 :
    Way(f, r, k) = b /\ \A j \in 0 .. k - 1 : f[Way(f, r, j)].state # Empty

\* Bucket x names a block of its row among those of B.
Names(x, B) == x.row \in Row /\ \E y \in B : /\ y.shard = x.shard /\ y.offset = x.offset
                                            /\ y.row = x.row
SoundAt(f, B, b) == /\ f[b].state = Empty => f[b].row = NoRow
                    /\ f[b].state = Filled => f[b].row \in Row
                    /\ f[b].row \in Row => Names(f[b], B) /\ OnPath(f, b, f[b].row)
Table(f, B) == /\ \A b \in DOMAIN f : SoundAt(f, B, b)
               /\ \A b, c \in DOMAIN f : f[b].row \in Row /\ f[c].row = f[b].row => b = c
TakenIn(f) == {b \in DOMAIN f : f[b].state # Empty}

LEMMA RemainderOf ==
  ASSUME NEW n \in Nat \ {0}, NEW q \in Nat, NEW b \in 0 .. n - 1
  PROVE  (n * q + b) % n = b
<1> DEFINE a == n * q + b
           d == a \div n
           r == a % n
<1>1. a \in Nat  OBVIOUS
<1>2. d \in Nat /\ r \in 0 .. n - 1 /\ a = n * d + r  BY <1>1
<1> HIDE DEF d, r
<1>3. n * q + b = n * d + r  BY <1>2
<1>4. CASE d = q  BY <1>2, <1>3, <1>4 DEF r
<1>5. CASE d > q
  <2>1. n * d >= n * (q + 1)  BY <1>2, <1>5
  <2>2. n * (q + 1) = n * q + n  OBVIOUS
  <2> QED  BY <1>2, <1>3, <2>1, <2>2
<1>6. CASE d < q
  <2>1. n * q >= n * (d + 1)  BY <1>2, <1>6
  <2>2. n * (d + 1) = n * d + n  BY <1>2
  <2> QED  BY <1>2, <1>3, <2>1, <2>2
<1> QED  BY <1>2, <1>4, <1>5, <1>6

\* A probe meets every bucket.
LEMMA ProbeReaches ==
  ASSUME NEW n \in Nat \ {0}, NEW h \in Nat, NEW b \in 0 .. n - 1
  PROVE  \E k \in 0 .. n - 1 : (h + k) % n = b
<1> DEFINE q == h \div n
           r == h % n
<1>1. q \in Nat /\ r \in 0 .. n - 1 /\ h = n * q + r  OBVIOUS
<1> HIDE DEF q, r
<1>2. CASE b >= r
  <2>1. b - r \in 0 .. n - 1 /\ h + (b - r) = n * q + b  BY <1>1, <1>2
  <2>2. (n * q + b) % n = b  BY <1>1, RemainderOf
  <2> QED  BY <2>1, <2>2
<1>3. CASE b < r
  <2>1. b - r + n \in 0 .. n - 1 /\ h + (b - r + n) = n * q + n + b  BY <1>1, <1>3
  <2>2. n * q + n = n * (q + 1)  BY <1>1
  <2>3. (n * (q + 1) + b) % n = b  BY <1>1, RemainderOf
  <2> QED  BY <2>1, <2>2, <2>3, <1>1
<1> QED  BY <1>1, <1>2, <1>3

LEMMA ArrayFacts ==
  ASSUME NEW n \in Nat, NEW f \in [0 .. n - 1 -> BucketType]
  PROVE  /\ DOMAIN f = 0 .. n - 1 /\ Cardinality(DOMAIN f) = n /\ IsFiniteSet(DOMAIN f)
         /\ DOMAIN f \in SUBSET Nat
         /\ IsFiniteSet(TakenIn(f)) /\ Cardinality(TakenIn(f)) \in Nat
         /\ \A r \in Row, k \in Nat : n > 0 => Way(f, r, k) \in DOMAIN f
<1>1. DOMAIN f = 0 .. n - 1  OBVIOUS
<1>2. IsFiniteSet(0 .. n - 1) /\ Cardinality(0 .. n - 1) = IF 0 > n - 1 THEN 0 ELSE n - 1 - 0 + 1
  BY FS_Interval
<1>3. Cardinality(DOMAIN f) = n /\ IsFiniteSet(DOMAIN f)  BY <1>1, <1>2
<1>4. IsFiniteSet(TakenIn(f)) /\ Cardinality(TakenIn(f)) \in Nat
  <2>1. TakenIn(f) \in SUBSET DOMAIN f  BY DEF TakenIn
  <2>2. IsFiniteSet(TakenIn(f))  BY <1>3, <2>1, FS_Subset
  <2> QED  BY <2>2, FS_CardinalityType
<1>5. ASSUME NEW r \in Row, NEW k \in Nat, n > 0 PROVE Way(f, r, k) \in DOMAIN f
  <2>1. PICK h \in Nat : h = HashOf[r]  BY RecoveryAssumption
  <2>2. (h + k) % n \in 0 .. n - 1  BY <1>5
  <2> QED  BY <1>1, <1>3, <2>1, <2>2 DEF Way
<1> QED  BY <1>1, <1>3, <1>4, <1>5

\* A bucket that is stored on the way of its row.
Fits1(f, B, b, x) ==
  /\ b \in DOMAIN f /\ x \in BucketType /\ x.state # Empty
  /\ x.state = Filled => x.row \in Row
  /\ x.row \in Row => /\ Names(x, B) /\ OnPath(f, b, x.row)
                      /\ \A c \in DOMAIN f : f[c].row = x.row => c = b

LEMMA PathKept ==
  ASSUME NEW f, NEW g, DOMAIN g = DOMAIN f,
         \A b \in DOMAIN f : f[b].state # Empty => g[b].state # Empty,
         NEW b, NEW r \in Row, OnPath(f, b, r),
         \A k \in Nat : Way(f, r, k) \in DOMAIN f,
         Cardinality(DOMAIN f) \in Nat
  PROVE  OnPath(g, b, r)
<1>1. \A k : Way(g, r, k) = Way(f, r, k)  BY DEF Way
<1>2. PICK k \in 0 .. Cardinality(DOMAIN f) - 1 :
        Way(f, r, k) = b /\ \A j \in 0 .. k - 1 : f[Way(f, r, j)].state # Empty
  BY DEF OnPath
<1>3. ASSUME NEW j \in 0 .. k - 1 PROVE g[Way(g, r, j)].state # Empty
  <2>1. j \in Nat  OBVIOUS
  <2>2. Way(f, r, j) \in DOMAIN f  BY <2>1
  <2> QED  BY <1>1, <1>2, <2>2
<1>4. Way(g, r, k) = b  BY <1>1, <1>2
<1> QED  BY <1>2, <1>3, <1>4 DEF OnPath

LEMMA NamesKept ==
  ASSUME NEW x, NEW B, NEW C, B \subseteq C, Names(x, B)
  PROVE  Names(x, C)
BY DEF Names

PathsStay(f, g) == \A r \in Row : \A c : OnPath(f, c, r) => OnPath(g, c, r)

StoreIn(f, n, B, C, b, x) ==
  /\ n \in Nat /\ f \in [0 .. n - 1 -> BucketType] /\ Table(f, B) /\ B \subseteq C
  /\ Fits1(f, C, b, x)
StoredIn(f, n, C, b, g) ==
  /\ g \in [0 .. n - 1 -> BucketType] /\ Table(g, C)
  /\ TakenIn(g) = TakenIn(f) \cup {b}
  /\ DOMAIN g = DOMAIN f /\ PathsStay(f, g)

LEMMA TableStores ==
  ASSUME NEW f, NEW n, NEW B, NEW C, NEW b, NEW x, StoreIn(f, n, B, C, b, x),
         NEW g, g = [f EXCEPT ![b] = x]
  PROVE  StoredIn(f, n, C, b, g)
<1>0. /\ n \in Nat /\ f \in [0 .. n - 1 -> BucketType] /\ Table(f, B) /\ B \subseteq C
      /\ Fits1(f, C, b, x)
  BY DEF StoreIn
<1>1. /\ b \in DOMAIN f /\ x \in BucketType /\ x.state # Empty
      /\ x.state = Filled => x.row \in Row
      /\ x.row \in Row => /\ Names(x, C) /\ OnPath(f, b, x.row)
                          /\ \A c \in DOMAIN f : f[c].row = x.row => c = b
  BY <1>0 DEF Fits1
<1>2. /\ g \in [0 .. n - 1 -> BucketType] /\ DOMAIN g = DOMAIN f
      /\ g[b] = x /\ \A c \in DOMAIN f : c # b => g[c] = f[c]
  BY <1>0, <1>1
<1>3. TakenIn(g) = TakenIn(f) \cup {b}
  BY ONLY <1>1, <1>2 DEF TakenIn
<1>4. ASSUME NEW c, NEW r \in Row, OnPath(f, c, r) PROVE OnPath(g, c, r)
  <2>1. \A d \in DOMAIN f : f[d].state # Empty => g[d].state # Empty  BY <1>1, <1>2
  <2>2. Cardinality(DOMAIN f) \in Nat  BY <1>0, ArrayFacts
  <2>3. \A k \in Nat : Way(f, r, k) \in DOMAIN f
    <3>1. n > 0  BY <1>0, <1>1
    <3> QED  BY <1>0, <3>1, ArrayFacts
  <2> QED  BY ONLY <1>2, <1>4, <2>1, <2>2, <2>3, PathKept, r \in Row
<1>5. ASSUME NEW c \in DOMAIN g PROVE SoundAt(g, C, c)
  <2>1. CASE c = b  BY <1>1, <1>2, <1>4, <2>1 DEF SoundAt
  <2>2. CASE c # b
    <3>1. g[c] = f[c] /\ SoundAt(f, B, c)  BY <1>0, <1>2, <1>5, <2>2 DEF Table
    <3>2. f[c].row \in Row => Names(f[c], C) /\ OnPath(g, c, f[c].row)
      BY <1>0, <1>4, <3>1, NamesKept DEF SoundAt
    <3> QED  BY <3>1, <3>2 DEF SoundAt
  <2> QED  BY <2>1, <2>2
<1>6. ASSUME NEW c \in DOMAIN g, NEW d \in DOMAIN g, g[c].row \in Row, g[d].row = g[c].row
      PROVE  c = d
  <2>1. CASE c = b
    <3>1. CASE d = b  BY <2>1, <3>1
    <3>2. CASE d # b  BY <1>1, <1>2, <1>6, <2>1, <3>2
    <3> QED  BY <3>1, <3>2
  <2>2. CASE c # b /\ d = b  BY <1>1, <1>2, <1>6, <2>2
  <2>3. CASE c # b /\ d # b  BY <1>0, <1>2, <1>6, <2>3 DEF Table
  <2> QED  BY <2>1, <2>2, <2>3
<1> QED  BY <1>2, <1>3, <1>4, <1>5, <1>6 DEF Table, PathsStay, StoredIn

\* The blocks of a table may become more.
LEMMA TableKept ==
  ASSUME NEW f, NEW B, NEW C, Table(f, B), B \subseteq C
  PROVE  Table(f, C)
<1>1. ASSUME NEW b \in DOMAIN f PROVE SoundAt(f, C, b)
  BY NamesKept DEF Table, SoundAt
<1> QED  BY <1>1 DEF Table

\* A table that is not full has an empty bucket, and every row meets one.
LEMMA EmptyAhead ==
  ASSUME NEW n \in Nat, NEW f \in [0 .. n - 1 -> BucketType],
         Cardinality(TakenIn(f)) < n, NEW r \in Row
  PROVE  n > 0 /\ \E k \in 0 .. n - 1 : f[Way(f, r, k)].state = Empty
<1>1. /\ DOMAIN f = 0 .. n - 1 /\ Cardinality(DOMAIN f) = n
      /\ Cardinality(TakenIn(f)) \in Nat
  BY ArrayFacts
<1>2. TakenIn(f) # DOMAIN f  BY <1>1
<1>3. PICK b \in DOMAIN f : f[b].state = Empty  BY <1>2 DEF TakenIn
<1>4. n \in Nat \ {0} /\ b \in 0 .. n - 1  BY <1>1
<1>5. HashOf[r] \in Nat  BY RecoveryAssumption
<1>6. PICK k \in 0 .. n - 1 : (HashOf[r] + k) % n = b  BY ONLY <1>4, <1>5, ProbeReaches
<1>7. Way(f, r, k) = b  BY <1>1, <1>6 DEF Way
<1> QED  BY <1>3, <1>4, <1>7

-----------------------------------------------------------------------------
(* What a lookup in the index finds.                                       *)

LEMMA BlockReads ==
  ASSUME FilesTyped, NEW x \in Blocks
  PROVE  /\ ColumnAt(x.shard, x.offset) = x.row
         /\ ValueAt(x.shard, x.offset) = x.val
<1> DEFINE f == file[x.shard]
           o == x.offset
<1>1. /\ x.shard \in Shard /\ o \in Nat /\ x.row \in Row /\ IsBlock(f, o, x.row, x.val)
  BY DEF Blocks, BlockType
<1>2. f \in Seq(CellType)  BY <1>1 DEF FilesTyped
<1>3. PICK m \in Nat : m = Len(f) /\ DOMAIN f = 1 .. m  BY <1>2
<1>4. /\ o + 3 <= m
      /\ \A i \in 1 .. 3 :
           f[o + i] = [row |-> x.row, val |-> x.val, seq |-> f[o + 1].seq, at |-> i - 1]
  BY <1>1, <1>3 DEF IsBlock
<1> HIDE DEF f
<1>5. PICK q : q = f[o + 1].seq  OBVIOUS
<1>6. \A i \in 1 .. 3 : CellAt(x.shard, o + (i - 1)) =
        [row |-> x.row, val |-> x.val, seq |-> q, at |-> i - 1]
  <2>1. TAKE i \in 1 .. 3
  <2>2. o + (i - 1) + 1 = o + i /\ o + i \in 1 .. m  BY <1>1, <1>4
  <2> QED  BY <1>3, <1>4, <1>5, <2>2 DEF CellAt, f
<1>7. CellAt(x.shard, o) = [row |-> x.row, val |-> x.val, seq |-> q, at |-> 0]
  <2>1. o + (1 - 1) = o  BY <1>1
  <2>2. CellAt(x.shard, o + (1 - 1)) = [row |-> x.row, val |-> x.val, seq |-> q, at |-> 1 - 1]
    BY <1>6
  <2> QED  BY <2>1, <2>2
<1>8. \A i \in 1 .. 2 : CellAt(x.shard, o + i) =
        [row |-> x.row, val |-> x.val, seq |-> q, at |-> i]
  <2>1. TAKE i \in 1 .. 2
  <2>2. PICK j \in 1 .. 3 : j = i + 1  OBVIOUS
  <2>3. j - 1 = i  BY <2>2
  <2> QED  BY <1>6, <2>2, <2>3
<1>9. \A i \in 1 .. 2 : CellAt(x.shard, o + i) = [CellAt(x.shard, o) EXCEPT !.at = i]
  BY <1>7, <1>8
<1>10. ColumnAt(x.shard, o) = x.row  BY <1>7, <1>9 DEF ColumnAt
<1>11. ValueAt(x.shard, o) = x.val
  <2>1. BlockSize - 1 = 2  BY DEF BlockSize
  <2> QED  BY <1>7, <1>9, <2>1 DEF ValueAt
<1> QED  BY <1>10, <1>11

LEMMA NamesRead ==
  ASSUME FilesTyped, NEW x, Names(x, Blocks)
  PROVE  /\ ColumnAt(x.shard, x.offset) = x.row
         /\ \E y \in Blocks : /\ y.shard = x.shard /\ y.offset = x.offset /\ y.row = x.row
                              /\ ValueAt(x.shard, x.offset) = y.val
         /\ ValueAt(x.shard, x.offset) \in Positive
<1>1. PICK y \in Blocks : y.shard = x.shard /\ y.offset = x.offset /\ y.row = x.row
  BY DEF Names
<1>2. y.val \in Positive  BY DEF Blocks, BlockType
<1> QED  BY <1>1, <1>2, BlockReads

\* FindRowBucket finds the row's bucket, or the one that it would be put in.
Found(f, b, r) ==
  /\ b \in DOMAIN f /\ OnPath(f, b, r)
  /\ f[b].state = Empty \/ f[b].row = r
  /\ f[b].state = Empty => \A c \in DOMAIN f : f[c].row # r
  /\ \A c \in DOMAIN f : f[c].row = r => c = b

LEMMA FindRow ==
  ASSUME FilesTyped, NEW n \in Nat, index.bucket \in [0 .. n - 1 -> BucketType],
         Table(index.bucket, Blocks), Cardinality(TakenIn(index.bucket)) < n,
         NEW r \in Row
  PROVE  /\ Found(index.bucket, FindRowBucket(r, r), r)
         /\ \A k \in 0 .. FirstMatch(r, r) : Probe(r, k) \in Buckets
<1> DEFINE f == index.bucket
           S == {k \in 0 .. Cardinality(Buckets) - 1 : Matches(Probe(r, k), r, r)}
           k0 == Min(S)
<1>1. /\ DOMAIN f = 0 .. n - 1 /\ Cardinality(DOMAIN f) = n /\ Buckets = DOMAIN f
      /\ \A k \in Nat : n > 0 => Way(f, r, k) \in DOMAIN f
  BY ArrayFacts DEF Buckets
<1>2. PICK e \in 0 .. n - 1 : n > 0 /\ f[Way(f, r, e)].state = Empty
  BY EmptyAhead
<1>3. \A k : Probe(r, k) = Way(f, r, k)  BY DEF Probe, Way, Buckets
<1>4. ASSUME NEW b \in DOMAIN f
      PROVE  Matches(b, r, r) <=> f[b].state = Empty \/ f[b].row = r
  <2>1. f[b].row = r => ColumnAt(f[b].shard, f[b].offset) = r
    <3>1. f[b].row = r => Names(f[b], Blocks)  BY DEF Table, SoundAt
    <3> QED  BY <3>1, NamesRead
  <2> QED  BY <2>1 DEF Matches
<1>5. S = {k \in 0 .. n - 1 : Matches(Way(f, r, k), r, r)}  BY <1>1, <1>3
<1>6. FindRowBucket(r, r) = Way(f, r, k0) /\ FirstMatch(r, r) = k0
  BY <1>3 DEF FindRowBucket, FirstMatch
<1> HIDE DEF f, S
<1>7. S \in SUBSET Nat /\ e \in S  BY <1>1, <1>2, <1>4, <1>5
<1>8. k0 \in S /\ \A k \in S : k0 <= k
  <2>1. S # {}  BY <1>7
  <2> QED  BY ONLY <1>7, <2>1, MinOfSome
<1> HIDE DEF k0
<1>9. PICK b \in DOMAIN f : b = Way(f, r, k0)  BY <1>1, <1>2, <1>5, <1>8
<1>10. k0 \in 0 .. n - 1 /\ (f[b].state = Empty \/ f[b].row = r)
  BY <1>4, <1>5, <1>8, <1>9
<1>11. ASSUME NEW j \in 0 .. k0 - 1
       PROVE  f[Way(f, r, j)].state # Empty /\ f[Way(f, r, j)].row # r
  <2>1. j \in 0 .. n - 1 /\ j \in Nat /\ ~(k0 <= j)  BY <1>10
  <2>2. j \notin S  BY <1>8, <2>1
  <2>3. Way(f, r, j) \in DOMAIN f  BY <1>1, <1>2, <2>1
  <2> QED  BY <1>4, <1>5, <2>1, <2>2, <2>3
<1>12. OnPath(f, b, r)  BY <1>1, <1>9, <1>10, <1>11 DEF OnPath
<1>13. ASSUME NEW c \in DOMAIN f, f[c].row = r PROVE c = b
  <2>1. OnPath(f, c, r)  BY <1>13 DEF Table, SoundAt, f
  <2>2. PICK k \in 0 .. n - 1 : Way(f, r, k) = c /\ \A j \in 0 .. k - 1 : f[Way(f, r, j)].state # Empty
    BY <1>1, <2>1 DEF OnPath
  <2>3. k \in S  BY <1>4, <1>5, <1>13, <2>2
  <2>4. CASE k = k0  BY <1>9, <2>2, <2>4
  <2>5. CASE k0 < k
    <3>1. k0 \in 0 .. k - 1  BY <1>10, <2>5
    <3>2. f[b].row = r  BY <1>9, <1>10, <2>2, <3>1
    <3> QED  BY <1>13, <3>2 DEF Table, f
  <2> QED  BY <1>8, <1>10, <2>3, <2>4, <2>5
<1>14. f[b].state = Empty => \A c \in DOMAIN f : f[c].row # r
  <2>1. ASSUME f[b].state = Empty, NEW c \in DOMAIN f, f[c].row = r PROVE FALSE
    <3>1. c = b  BY <1>13, <2>1
    <3>2. f[b].row = NoRow  BY <2>1 DEF Table, SoundAt, f
    <3> QED  BY <2>1, <3>1, <3>2, RecoveryAssumption
  <2> QED  BY <2>1
<1>15. Found(f, b, r)  BY <1>10, <1>12, <1>13, <1>14 DEF Found
<1>16. \A k \in 0 .. k0 : Probe(r, k) \in Buckets
  <2>1. \A k \in 0 .. k0 : k \in Nat  BY <1>10
  <2> QED  BY <1>1, <1>2, <1>3, <2>1 DEF f
<1> QED  BY <1>6, <1>9, <1>15, <1>16 DEF f

-----------------------------------------------------------------------------
(* An index that is not suspect.                                           *)

Publishing(t) == writer[t].pc = "publish"
Fresh == {t \in Thread : writer[t].inserted /\ writer[t].pc \in {"publish", "count"}}
InUse == pc \in {"place", "scan", "insert", "serving", "readonly"}

\* Every bucket names a block of its row where a search meets it, and there is
\* room for the writes in progress.
TableInv == /\ Table(index.bucket, Blocks)
            /\ index.items + Cardinality(Busy) < Cardinality(Buckets)

\* A bucket that a thread has claimed is where the thread's row belongs, and
\* is counted before or after it is published.
ClaimAt(t) ==
  LET b == writer[t].bucket IN
  /\ b \in Buckets /\ index.bucket[b].state = Writing
  /\ OnPath(index.bucket, b, writer[t].row)
  /\ \A c \in Buckets : index.bucket[c].row = writer[t].row => c = b
  /\ \A u \in Thread : Publishing(u) /\ writer[u].bucket = b => u = t
ClaimInv ==
  /\ \A t \in Thread : Publishing(t) => ClaimAt(t)
  /\ \A b \in InState(Writing) : \E t \in Thread : Publishing(t) /\ writer[t].bucket = b
  /\ Cardinality(TakenIn(index.bucket)) = index.items + Cardinality(Fresh)

\* The buckets that wait for their place in a larger table.
Copied   == DOMAIN build.copy
Enlarges == Building /\ build.resume = "insert"
CopyInv ==
  /\ Enlarges =>
       /\ IsFiniteSet(Copied)
       /\ \A c \in Copied : build.copy[c].state = Filled /\ Names(build.copy[c], Blocks)
       /\ \A c, d \in Copied : build.copy[c].row = build.copy[d].row => c = d
       /\ pc # "place" => Cardinality(Copied) + 1 < build.count
       /\ pc = "place" => /\ index.items + Cardinality(Copied) + 1 < build.count
                          /\ \A c \in Copied, b \in Buckets : index.bucket[b].row # build.copy[c].row
  /\ pc = "place" => Cardinality(Buckets) = build.count
  /\ pc = "insert" => index.items + 1 < Cardinality(Buckets)

BuildInv == Building /\ build.resume = "scan" => build.copy = NoBuckets /\ build.count > 0

LookupInv == /\ BuildInv
             /\ ~suspect => /\ index.header => TableInv
                            /\ InUse => ClaimInv
                            /\ CopyInv

LEMMA IndexIsArray ==
  ASSUME RecoveryInv
  PROVE  \E n \in Nat : /\ index.bucket \in [0 .. n - 1 -> BucketType]
                        /\ Cardinality(Buckets) = n /\ Buckets = 0 .. n - 1
<1>1. PICK n \in Nat : index.bucket \in [0 .. n - 1 -> BucketType]
  BY DEF RecoveryInv, Typed, IndexTyped
<1> QED  BY <1>1, ArrayFacts DEF Buckets

LEMMA CountFacts ==
  ASSUME RecoveryInv, FileInv
  PROVE  /\ IsFiniteSet(Busy) /\ Cardinality(Busy) \in Nat
         /\ IsFiniteSet(Fresh) /\ Cardinality(Fresh) \in Nat
         /\ Fresh \subseteq Busy
         /\ Cardinality(Fresh) <= Cardinality(Busy)
         /\ index.items \in Nat
<1>1. IsFiniteSet(Busy)  BY DEF FileInv, WriteInv
<1>2. Fresh \in SUBSET Busy  BY DEF Fresh, Busy
<1>3. IsFiniteSet(Fresh) /\ Cardinality(Fresh) <= Cardinality(Busy)  BY <1>1, <1>2, FS_Subset
<1>4. Cardinality(Busy) \in Nat /\ Cardinality(Fresh) \in Nat  BY <1>1, <1>3, FS_CardinalityType
<1>5. index.items \in Nat  BY DEF RecoveryInv, Typed, IndexTyped
<1> QED  BY <1>1, <1>2, <1>3, <1>4, <1>5

\* An index in use has room.
LEMMA HasRoom ==
  ASSUME RecoveryInv, FileInv, LookupInv, ~suspect, InUse
  PROVE  /\ TableInv /\ ClaimInv /\ index.header
         /\ Cardinality(TakenIn(index.bucket)) < Cardinality(Buckets)
<1>1. index.header  BY DEF InUse, RecoveryInv, PlaceInv
<1>2. TableInv /\ ClaimInv  BY <1>1, Zenon DEF LookupInv
<1>3. PICK i \in Nat, m \in Nat, k \in Nat :
        i = index.items /\ m = Cardinality(Busy) /\ k = Cardinality(Fresh) /\ k <= m
  BY CountFacts
<1>4. PICK n \in Nat : Cardinality(Buckets) = n  BY IndexIsArray
<1>5. i + m < n  BY <1>2, <1>3, <1>4 DEF TableInv
<1>6. Cardinality(TakenIn(index.bucket)) = i + k  BY <1>2, <1>3 DEF ClaimInv
<1>7. i + k < n  BY ONLY <1>3, <1>5, i \in Nat, m \in Nat, k \in Nat, n \in Nat
<1> QED  BY <1>1, <1>2, <1>4, <1>6, <1>7

\* The table after a step that leaves the buckets alone.
LEMMA TableInvKept ==
  ASSUME RecoveryInv, FileInv, TableInv, index'.bucket = index.bucket,
         Blocks \subseteq Blocks',
         index'.items + Cardinality(Busy') <= index.items + Cardinality(Busy),
         index'.items \in Nat, Cardinality(Busy') \in Nat
  PROVE  TableInv'
<1>1. Table(index'.bucket, Blocks')  BY TableKept DEF TableInv
<1>2. Buckets' = Buckets  BY DEF Buckets
<1>3. PICK n \in Nat : Cardinality(Buckets) = n  BY IndexIsArray
<1>4. PICK i \in Nat, m \in Nat, i2 \in Nat, m2 \in Nat :
        i = index.items /\ m = Cardinality(Busy) /\ i2 = index'.items /\ m2 = Cardinality(Busy')
  BY CountFacts
<1>5. i + m < n /\ i2 + m2 <= i + m  BY <1>3, <1>4 DEF TableInv
<1>6. i2 + m2 < n  BY ONLY <1>5, i \in Nat, m \in Nat, i2 \in Nat, m2 \in Nat, n \in Nat
<1> QED  BY <1>1, <1>2, <1>3, <1>4, <1>6 DEF TableInv

\* A step of a write that touches no bucket.
LEMMA LookupServes ==
  ASSUME RecoveryInv, FileInv, LookupInv, pc = "serving", UNCHANGED <<pc, build, suspect>>,
         index'.bucket = index.bucket, index'.items = index.items,
         Blocks \subseteq Blocks',
         ~suspect => index.items + Cardinality(Busy') < Cardinality(Buckets),
         \A t \in Thread : writer[t].pc \in {"publish", "count"} \/ writer'[t].pc \in {"publish", "count"}
                             => writer'[t] = writer[t]
  PROVE  LookupInv'
<1>1. BuildInv' /\ ~Building'  BY DEF BuildInv, Building
<1>2. ASSUME ~suspect PROVE TableInv' /\ ClaimInv' /\ CopyInv'
  <2>1. TableInv /\ ClaimInv  BY <1>2, HasRoom DEF InUse
  <2>2. TableInv'
    <3>1. Table(index'.bucket, Blocks')  BY <2>1, TableKept DEF TableInv
    <3> QED  BY <1>2, <3>1 DEF TableInv, Buckets
  <2>3. Fresh' = Fresh  BY DEF Fresh
  <2>4. \A t \in Thread : Publishing(t)' => Publishing(t) /\ writer'[t] = writer[t]
    BY DEF Publishing
  <2>5. \A t \in Thread : Publishing(t) => Publishing(t)' /\ writer'[t] = writer[t]
    BY DEF Publishing
  <2>6. Buckets' = Buckets /\ InState(Writing)' = InState(Writing)  BY DEF Buckets, InState
  <2>7. ASSUME NEW t \in Thread, Publishing(t)' PROVE ClaimAt(t)'
    <3>1. ClaimAt(t) /\ writer'[t] = writer[t]  BY <2>1, <2>4, <2>7 DEF ClaimInv
    <3>2. \A u \in Thread : Publishing(u)' /\ writer'[u].bucket = writer'[t].bucket => u = t
      BY <2>4, <3>1 DEF ClaimAt
    <3> QED  BY <2>6, <3>1, <3>2 DEF ClaimAt
  <2>8. \A b \in InState(Writing)' : \E t \in Thread : Publishing(t)' /\ writer'[t].bucket = b
    BY <2>1, <2>5, <2>6 DEF ClaimInv
  <2>9. ClaimInv'  BY <2>1, <2>3, <2>7, <2>8 DEF ClaimInv
  <2>10. CopyInv'  BY <1>1 DEF CopyInv, Enlarges
  <2> QED  BY <2>2, <2>9, <2>10
<1> QED  BY <1>1, <1>2 DEF LookupInv

LEMMA WithinRoomRows ==
  ASSUME NEW m \in Nat, NEW n \in Nat, n > 0, m * LoadDen <= LoadNum * n
  PROVE  m < n
<1>1. LoadNum \in Nat /\ LoadDen \in Nat /\ LoadNum < LoadDen  BY RecoveryAssumption
<1>3. LoadNum * n < LoadDen * n  BY <1>1
<1>4. CASE m >= n
  <2>1. m * LoadDen >= n * LoadDen  BY <1>1, <1>4
  <2> QED  BY <1>1, <1>3, <2>1
<1> QED  BY <1>4

LEMMA LookupBegins ==
  ASSUME RecoveryInv, FileInv, LookupInv, NEW t \in Thread, NEW r \in Row, Begins(t, r),
         pc = "serving", t \notin Busy, UNCHANGED <<pc, build, suspect>>,
         Fits(Pending + 1), Blocks \subseteq Blocks', Busy' = Busy \cup {t}
  PROVE  LookupInv'
<1>1. PICK i \in Nat, m \in Nat, n \in Nat :
        i = index.items /\ m = Cardinality(Busy) /\ n = Cardinality(Buckets)
  BY CountFacts, IndexIsArray
<1>2. Pending = m  BY <1>1 DEF Pending, Busy
<1>3. (i + (m + 1)) * LoadDen <= LoadNum * n  BY <1>1, <1>2 DEF Fits
<1>4. Cardinality(Busy') = m + 1
  <2>1. IsFiniteSet(Busy)  BY CountFacts
  <2> QED  BY <1>1, <2>1, FS_AddElement
<1>5. ~suspect => i + Cardinality(Busy') < n
  <2>1. ASSUME ~suspect PROVE i + (m + 1) < n
    <3>1. i + m < n  BY <1>1, <2>1, HasRoom DEF InUse, TableInv
    <3>2. n > 0  BY <3>1
    <3>3. i + (m + 1) \in Nat  OBVIOUS
    <3> QED  BY ONLY <1>3, <3>2, <3>3, WithinRoomRows, n \in Nat
  <2> QED  BY <1>4, <2>1
<1>6. index'.bucket = index.bucket /\ index'.items = index.items
  <2>1. index' = [index EXCEPT !.nextSequence = @ + 1]  BY DEF Begins
  <2>2. IndexTyped  BY DEF RecoveryInv, Typed
  <2> QED  BY <2>1, <2>2 DEF IndexTyped
<1>7. writer[t].pc = "idle"  BY DEF Busy
<1>8. \A u \in Thread : writer[u].pc \in {"publish", "count"} \/ writer'[u].pc \in {"publish", "count"}
                             => writer'[u] = writer[u]
  BY <1>7 DEF Begins
<1> QED  BY <1>1, <1>5, <1>6, <1>8, LookupServes

LEMMA LookupWrites ==
  ASSUME RecoveryInv, RecoveryInv', FileInv, LookupInv, NEW t \in Thread,
         WritePiece(t) \/ WriteBlock(t)
  PROVE  LookupInv'
<1>1. FileInv' /\ Busy' = Busy /\ Blocks \subseteq Blocks'
  <2>1. FilesTyped'  BY DEF RecoveryInv, Typed
  <2> QED  BY <2>1, FileInvWrites
<1>2. /\ pc = "serving" /\ UNCHANGED <<pc, build, suspect, index>>
      /\ writer[t].pc \in {"write", "writeRest"}
      /\ Goto(t, "writeRest") \/ Goto(t, "claim")
  BY DEF WritePiece, WriteBlock, At, history
<1>3. \A u \in Thread : writer[u].pc \in {"publish", "count"} \/ writer'[u].pc \in {"publish", "count"}
                             => writer'[u] = writer[u]
  <2>1. /\ writer'[t].pc \in {"writeRest", "claim"}
        /\ \A u \in Thread : u # t => writer'[u] = writer[u]
    <3>1. CASE Goto(t, "writeRest")  BY <3>1, GotoWriter
    <3>2. CASE Goto(t, "claim")  BY <3>2, GotoWriter
    <3> QED  BY <1>2, <3>1, <3>2
  <2> QED  BY <1>2, <2>1
<1>4. ~suspect => index.items + Cardinality(Busy') < Cardinality(Buckets)
  BY <1>1, <1>2, HasRoom DEF InUse, TableInv
<1> QED  BY ONLY RecoveryInv, FileInv, LookupInv, <1>1, <1>2, <1>3, <1>4, LookupServes

LEMMA LookupFails ==
  ASSUME RecoveryInv, FileInv, LookupInv, NEW t \in Thread, WriteBlockFails(t)
  PROVE  LookupInv'
<1>1. /\ pc = "serving" /\ writer' = [writer EXCEPT ![t] = Idle]
      /\ UNCHANGED <<file, append, opts, pc, used, build, suspect, index>>
      /\ writer[t].pc \in {"write", "writeRest"}
  BY DEF WriteBlockFails, At
<1>2. FileInv' /\ Blocks' = Blocks /\ Busy' = Busy \ {t}  BY <1>1, FileInvEnds
<1>3. DOMAIN writer = Thread  BY DEF RecoveryInv, Typed, WritersTyped
<1>4. \A u \in Thread : writer[u].pc \in {"publish", "count"} \/ writer'[u].pc \in {"publish", "count"}
                             => writer'[u] = writer[u]
  BY <1>1, <1>3 DEF Idle
<1>5. PICK i \in Nat, m \in Nat, n \in Nat :
        i = index.items /\ m = Cardinality(Busy) /\ n = Cardinality(Buckets)
  BY CountFacts, IndexIsArray
<1>6. PICK m2 \in Nat : m2 = Cardinality(Busy') /\ m2 <= m
  <2>1. IsFiniteSet(Busy)  BY CountFacts
  <2>2. Busy' \in SUBSET Busy  BY <1>2
  <2>3. IsFiniteSet(Busy') /\ Cardinality(Busy') <= Cardinality(Busy)  BY <2>1, <2>2, FS_Subset
  <2> QED  BY <1>5, <2>3, FS_CardinalityType
<1>7. ~suspect => i + m2 < n
  <2>1. ~suspect => i + m < n  BY <1>1, <1>5, HasRoom DEF InUse, TableInv
  <2> QED  BY <1>5, <1>6, <2>1
<1> QED  BY <1>1, <1>2, <1>4, <1>5, <1>6, <1>7, LookupServes

LEMMA LookupFinishes ==
  ASSUME RecoveryInv, FileInv, LookupInv, NEW t \in Thread, FinishWrite(t)
  PROVE  LookupInv'
<1>1. /\ pc = "serving" /\ writer' = [writer EXCEPT ![t] = Idle]
      /\ UNCHANGED <<file, append, opts, pc, used, build, suspect>>
      /\ writer[t].pc = "count"
      /\ index' = [index EXCEPT !.items = @ + Counted(writer[t])]
  BY DEF FinishWrite, At, bounds
<1>2. FileInv' /\ Blocks' = Blocks /\ Busy' = Busy \ {t}  BY <1>1, FileInvEnds
<1>3. DOMAIN writer = Thread /\ IndexTyped  BY DEF RecoveryInv, Typed, WritersTyped
<1>4. /\ writer'[t] = Idle /\ Idle.pc = "idle" /\ \A u \in Thread : u # t => writer'[u] = writer[u]
  BY <1>1, <1>3 DEF Idle
<1>5. index'.bucket = index.bucket /\ index'.items = index.items + Counted(writer[t])
      /\ index'.header = index.header
  BY <1>1, <1>3 DEF IndexTyped
<1>6. BuildInv' /\ ~Building'  BY <1>1 DEF BuildInv, Building
<1>7. ASSUME ~suspect PROVE TableInv' /\ ClaimInv' /\ CopyInv'
  <2>1. TableInv /\ ClaimInv  BY <1>1, <1>7, HasRoom DEF InUse
  <2>2. Fresh' = Fresh \ {t}  BY <1>4 DEF Fresh
  <2>3. PICK i \in Nat, m \in Nat, k \in Nat, n \in Nat :
          i = index.items /\ m = Cardinality(Busy) /\ n = Cardinality(Buckets)
          /\ k = Cardinality(Fresh)
    BY CountFacts, IndexIsArray
  <2>4. t \in Busy  BY <1>1 DEF Busy
  <2>5. /\ Cardinality(Busy') = m - 1
        /\ Cardinality(Fresh') = IF t \in Fresh THEN k - 1 ELSE k
        /\ Cardinality(Busy') \in Nat /\ Cardinality(Fresh') \in Nat
    <3>1. IsFiniteSet(Busy) /\ IsFiniteSet(Fresh)  BY CountFacts
    <3>2. Cardinality(Busy') = m - 1 /\ IsFiniteSet(Busy')
      BY <1>2, <2>3, <2>4, <3>1, FS_RemoveElement
    <3>3. Cardinality(Fresh') = (IF t \in Fresh THEN k - 1 ELSE k) /\ IsFiniteSet(Fresh')
      BY <2>2, <2>3, <3>1, FS_RemoveElement
    <3> QED  BY <3>2, <3>3, FS_CardinalityType
  <2>6. Counted(writer[t]) = IF t \in Fresh THEN 1 ELSE 0
    <3>1. t \in Fresh <=> writer[t].inserted  BY <1>1, Zenon DEF Fresh
    <3>2. CASE writer[t].inserted
      <4>1. t \in Fresh  BY <3>1, <3>2, Zenon
      <4>2. Counted(writer[t]) = 1  BY <3>2, Zenon DEF Counted
      <4> QED  BY <4>1, <4>2
    <3>3. CASE ~writer[t].inserted
      <4>1. t \notin Fresh  BY <3>1, <3>3, Zenon
      <4>2. Counted(writer[t]) = 0  BY <3>3, Zenon DEF Counted
      <4> QED  BY <4>1, <4>2
    <3> QED  BY <3>2, <3>3
  <2>7. PICK c \in {0, 1} : c = Counted(writer[t]) /\ (c = 1 <=> t \in Fresh)  BY <2>6
  <2>8. index'.items = i + c /\ index'.items + Cardinality(Busy') <= i + m
    BY <1>5, <2>3, <2>5, <2>7
  <2>9. TableInv'
    <3>1. index'.items \in Nat  BY <2>8
    <3>2. Blocks \subseteq Blocks'  BY <1>2
    <3> QED  BY <1>5, <2>1, <2>3, <2>5, <2>8, <3>1, <3>2, TableInvKept
  <2>10. \A u \in Thread : Publishing(u)' <=> Publishing(u)  BY <1>1, <1>4 DEF Publishing
  <2>11. \A u \in Thread : Publishing(u) => u # t /\ writer'[u] = writer[u]
    BY <1>1, <1>4 DEF Publishing
  <2>12. Buckets' = Buckets /\ InState(Writing)' = InState(Writing)  BY <1>5 DEF Buckets, InState
  <2>13. ASSUME NEW u \in Thread, Publishing(u)' PROVE ClaimAt(u)'
    <3>1. ClaimAt(u) /\ writer'[u] = writer[u]  BY <2>1, <2>10, <2>11, <2>13 DEF ClaimInv
    <3>2. \A x \in Thread : Publishing(x)' /\ writer'[x].bucket = writer'[u].bucket => x = u
      BY <2>10, <2>11, <3>1 DEF ClaimAt
    <3> QED  BY <1>5, <2>12, <3>1, <3>2 DEF ClaimAt
  <2>14. \A b \in InState(Writing)' : \E u \in Thread : Publishing(u)' /\ writer'[u].bucket = b
    BY <2>1, <2>10, <2>11, <2>12 DEF ClaimInv
  <2>15. Cardinality(TakenIn(index'.bucket)) = index'.items + Cardinality(Fresh')
    <3>1. Cardinality(TakenIn(index.bucket)) = i + k  BY <2>1, <2>3 DEF ClaimInv
    <3>2. (i + c) + (IF t \in Fresh THEN k - 1 ELSE k) = i + k  BY <2>7
    <3> QED  BY <1>5, <2>5, <2>8, <3>1, <3>2
  <2>16. ClaimInv'  BY <2>13, <2>14, <2>15 DEF ClaimInv
  <2>17. CopyInv'  BY <1>1, <1>6 DEF CopyInv, Enlarges
  <2> QED  BY <2>9, <2>16, <2>17
<1> QED  BY <1>1, <1>6, <1>7 DEF LookupInv

LEMMA LookupClaims ==
  ASSUME RecoveryInv, RecoveryInv', FileInv, LookupInv, NEW t \in Thread, ClaimBucket(t),
         Blocks \subseteq Blocks', Busy' = Busy
  PROVE  LookupInv'
<1> DEFINE r == writer[t].row
           f == index.bucket
           b == FindRowBucket(r, r)
           x == [f[b] EXCEPT !.state = Writing]
           g == index'.bucket
<1>1. /\ pc = "serving" /\ writer[t].pc = "claim"
      /\ UNCHANGED <<file, append, opts, pc, used, build, suspect>>
      /\ \A k \in 0 .. FirstMatch(r, r) : Probe(r, k) \notin InState(Writing)
      /\ index' = [index EXCEPT !.bucket[b].state = Writing]
      /\ writer' = [writer EXCEPT ![t].pc = "publish", ![t].bucket = b,
                        ![t].inserted = index.bucket[b].state = Empty]
  BY DEF ClaimBucket, At, history
<1>2. BuildInv' /\ ~Building'  BY <1>1 DEF BuildInv, Building
<1>3. t \in Busy /\ r \in Row  BY <1>1 DEF Busy, FileInv, WriteInv
<1>4. /\ \A u \in Thread : u # t => writer'[u] = writer[u]
      /\ writer'[t].pc = "publish" /\ writer'[t].bucket = b /\ writer'[t].row = r
      /\ writer'[t].inserted <=> f[b].state = Empty
  <2>1. DOMAIN writer = Thread /\ WriterTyped(writer[t])  BY DEF RecoveryInv, Typed, WritersTyped
  <2> HIDE DEF b, f
  <2>2. \A u \in Thread : u # t => writer'[u] = writer[u]  BY <1>1, <2>1
  <2>3. writer'[t] = [writer[t] EXCEPT !.pc = "publish", !.bucket = b,
                                       !.inserted = index.bucket[b].state = Empty]
    BY <1>1, <2>1
  <2>4. /\ writer'[t].pc = "publish" /\ writer'[t].bucket = b /\ writer'[t].row = r
        /\ writer'[t].inserted = (index.bucket[b].state = Empty)
    BY <2>1, <2>3 DEF WriterTyped
  <2>5. writer'[t].inserted <=> f[b].state = Empty  BY <2>4, Zenon DEF f
  <2> QED  BY <2>2, <2>4, <2>5
<1>5. ASSUME ~suspect PROVE TableInv' /\ ClaimInv' /\ CopyInv'
  <2>1. TableInv /\ ClaimInv /\ Cardinality(TakenIn(f)) < Cardinality(Buckets)
    BY <1>1, <1>5, HasRoom DEF InUse
  <2>2. PICK n \in Nat : /\ f \in [0 .. n - 1 -> BucketType]
                         /\ Cardinality(Buckets) = n /\ Buckets = 0 .. n - 1
    BY IndexIsArray
  <2>3. Found(f, b, r) /\ \A k \in 0 .. FirstMatch(r, r) : Probe(r, k) \in Buckets
    <3>1. FilesTyped  BY DEF RecoveryInv, Typed
    <3> QED  BY <1>3, <2>1, <2>2, <3>1, FindRow DEF TableInv
  <2>4. FirstMatch(r, r) \in 0 .. FirstMatch(r, r) /\ b = Probe(r, FirstMatch(r, r))
    <3> DEFINE S == {k \in 0 .. Cardinality(Buckets) - 1 : Matches(Probe(r, k), r, r)}
    <3>1. S \in SUBSET Nat /\ FirstMatch(r, r) = Min(S)  BY DEF FirstMatch
    <3>2. PICK e \in 0 .. n - 1 : n > 0 /\ f[Way(f, r, e)].state = Empty
      BY <1>3, <2>1, <2>2, EmptyAhead
    <3>3. e \in S  BY <2>2, <3>2 DEF Probe, Way, Buckets, Matches
    <3>4. Min(S) \in S  BY ONLY <3>1, <3>3, MinOfSome
    <3>5. FirstMatch(r, r) \in Nat  BY ONLY <3>1, <3>4
    <3> QED  BY <3>5 DEF FindRowBucket
  <2> HIDE DEF b, f
  <2>5. b \in Buckets /\ f[b].state # Writing /\ f[b] \in BucketType
    BY <1>1, <2>2, <2>3, <2>4 DEF InState, f
  <2>6. g = [f EXCEPT ![b] = x]
    <3>1. IndexTyped  BY DEF RecoveryInv, Typed
    <3> QED  BY <1>1, <3>1 DEF IndexTyped, f
  <2>7. index'.items = index.items
    <3>1. IndexTyped  BY DEF RecoveryInv, Typed
    <3> QED  BY <1>1, <3>1 DEF IndexTyped
  <2>8. x \in BucketType /\ x.state = Writing /\ x.row = f[b].row
        /\ x.shard = f[b].shard /\ x.offset = f[b].offset
    BY <2>5 DEF BucketType
  <2>9. Fits1(f, Blocks', b, x)
    <3>1. SoundAt(f, Blocks, b)  BY <2>1, <2>5 DEF TableInv, Table, Buckets, f
    <3>2. x.row \in Row => Names(f[b], Blocks')  BY <2>8, <3>1, NamesKept DEF SoundAt
    <3>3. x.row \in Row => Names(x, Blocks')  BY <2>8, <3>2 DEF Names
    <3>4. x.row \in Row => OnPath(f, b, x.row)  BY <2>8, <3>1 DEF SoundAt
    <3>5. x.row \in Row => \A c \in DOMAIN f : f[c].row = x.row => c = b
      BY <2>1, <2>5, <2>8 DEF TableInv, Table, Buckets, f
    <3>6. x.state # Filled /\ x.state # Empty /\ b \in DOMAIN f
      BY <2>5, <2>8 DEF Empty, Filled, Writing, Buckets, f
    <3> QED  BY <2>8, <3>3, <3>4, <3>5, <3>6 DEF Fits1
  <2>a. Table(f, Blocks)  BY <2>1 DEF TableInv, f
  <2>b. PICK fx : fx = x  OBVIOUS
  <2>10. /\ g \in [0 .. n - 1 -> BucketType] /\ Table(g, Blocks')
         /\ TakenIn(g) = TakenIn(f) \cup {b}
         /\ DOMAIN g = DOMAIN f /\ PathsStay(f, g)
    <3>1. g = [f EXCEPT ![b] = fx] /\ StoreIn(f, n, Blocks, Blocks', b, fx)
      BY <2>2, <2>6, <2>9, <2>a, <2>b DEF StoreIn
    <3> HIDE DEF g
    <3>2. StoredIn(f, n, Blocks', b, g)  BY ONLY <3>1, TableStores
    <3> QED  BY <3>2 DEF StoredIn
  <2>11. Buckets' = Buckets /\ Buckets = DOMAIN f  BY <2>10 DEF Buckets, f
  <2>12. TableInv'  BY <2>1, <2>7, <2>10, <2>11 DEF TableInv
  <2>13. \A c \in Buckets : g[c].row = f[c].row /\ (c # b => g[c] = f[c])
         /\ (c = b => g[c].state = Writing)
    BY <2>2, <2>5, <2>6, <2>8
  <2>14. \A u \in Thread : Publishing(u)' <=> Publishing(u) \/ u = t
    BY <1>4 DEF Publishing
  <2>15. ~Publishing(t)  BY <1>1 DEF Publishing
  <2>16. \A u \in Thread : Publishing(u) =>
           /\ writer'[u] = writer[u] /\ writer[u].bucket # b /\ ClaimAt(u)
    BY <1>4, <2>1, <2>5, <2>15 DEF ClaimInv, ClaimAt, f
  <2>17. ASSUME NEW u \in Thread, Publishing(u)' PROVE ClaimAt(u)'
    <3>1. CASE u = t
      <4>1. OnPath(g, b, r)  BY <1>3, <2>3, <2>10 DEF Found, PathsStay
      <4>2. \A c \in Buckets : g[c].row = r => c = b  BY <2>3, <2>11, <2>13 DEF Found
      <4>3. \A v \in Thread : Publishing(v)' /\ writer'[v].bucket = b => v = t
        BY <2>14, <2>16
      <4> QED  BY <1>4, <2>5, <2>11, <2>13, <3>1, <4>1, <4>2, <4>3 DEF ClaimAt
    <3>2. CASE u # t
      <4>1. Publishing(u) /\ ClaimAt(u) /\ writer'[u] = writer[u] /\ writer[u].bucket # b
        BY <2>14, <2>16, <2>17, <3>2
      <4>2. PICK d \in Buckets : d = writer[u].bucket /\ d # b  BY <4>1 DEF ClaimAt
      <4>3. writer[u].row \in Row
        BY <4>1 DEF Publishing, FileInv, WriteInv, Busy
      <4>4. OnPath(g, d, writer[u].row)
        BY <2>10, <4>1, <4>2, <4>3 DEF ClaimAt, PathsStay, f
      <4>5. g[d].state = Writing  BY <2>13, <4>1, <4>2 DEF ClaimAt, f
      <4>6. \A c \in Buckets : g[c].row = writer[u].row => c = d
        BY <2>13, <4>1, <4>2 DEF ClaimAt, f
      <4>7. \A v \in Thread : Publishing(v)' /\ writer'[v].bucket = d => v = u
        BY <1>4, <2>14, <2>16, <4>1, <4>2 DEF ClaimAt
      <4> QED  BY <2>11, <4>1, <4>2, <4>4, <4>5, <4>6, <4>7 DEF ClaimAt
    <3> QED  BY <3>1, <3>2
  <2>18. ASSUME NEW c \in InState(Writing)'
         PROVE  \E u \in Thread : Publishing(u)' /\ writer'[u].bucket = c
    <3>1. c \in Buckets /\ g[c].state = Writing  BY <2>11, <2>18 DEF InState
    <3>2. CASE c = b  BY <1>4, <2>14, <3>2
    <3>3. CASE c # b
      <4>1. c \in InState(Writing)  BY <2>13, <3>1, <3>3 DEF InState, f
      <4>2. PICK u \in Thread : Publishing(u) /\ writer[u].bucket = c  BY <2>1, <4>1 DEF ClaimInv
      <4> QED  BY <2>14, <2>16, <4>2
    <3> QED  BY <3>2, <3>3
  <2>19. Cardinality(TakenIn(g)) = index'.items + Cardinality(Fresh')
    <3>1. PICK i \in Nat, k \in Nat : i = index.items /\ k = Cardinality(Fresh)  BY CountFacts
    <3>2. Cardinality(TakenIn(f)) = i + k  BY <2>1, <3>1 DEF ClaimInv, f
    <3>3. IsFiniteSet(TakenIn(f)) /\ IsFiniteSet(Fresh)  BY <2>2, ArrayFacts, CountFacts
    <3>4. t \notin Fresh  BY <1>1 DEF Fresh
    <3>5. CASE f[b].state = Empty
      <4>1. Fresh' = Fresh \cup {t}
        <5>1. writer'[t].inserted  BY <1>4, <3>5 DEF f
        <5>2. t \in Fresh'  BY <1>4, <5>1, Zenon DEF Fresh
        <5> QED  BY <1>4, <5>2 DEF Fresh
      <4>2. b \notin TakenIn(f)  BY <3>5 DEF TakenIn
      <4>3. Cardinality(TakenIn(g)) = i + k + 1
        BY <2>10, <3>2, <3>3, <4>2, FS_AddElement
      <4>4. Cardinality(Fresh') = k + 1  BY <3>1, <3>3, <3>4, <4>1, FS_AddElement
      <4> QED  BY <2>7, <3>1, <4>3, <4>4
    <3>6. CASE f[b].state # Empty
      <4>1. Fresh' = Fresh
        <5>1. ~writer'[t].inserted  BY <1>4, <3>6, Zenon DEF f
        <5>2. t \notin Fresh'  BY <5>1, Zenon DEF Fresh
        <5> QED  BY <1>4, <3>4, <5>2 DEF Fresh
      <4>2. TakenIn(g) = TakenIn(f)  BY <2>5, <2>10, <2>11, <3>6 DEF TakenIn
      <4> QED  BY <2>7, <3>1, <3>2, <4>1, <4>2
    <3> QED  BY <3>5, <3>6
  <2>20. ClaimInv'  BY <2>17, <2>18, <2>19 DEF ClaimInv
  <2>21. CopyInv'  BY <1>1, <1>2 DEF CopyInv, Enlarges
  <2> QED  BY <2>12, <2>20, <2>21
<1> QED  BY <1>1, <1>2, <1>5 DEF LookupInv

LEMMA LookupPublishes ==
  ASSUME RecoveryInv, RecoveryInv', FileInv, LookupInv, NEW t \in Thread, PublishBucket(t),
         Blocks \subseteq Blocks', Busy' = Busy
  PROVE  LookupInv'
<1> DEFINE w == writer[t]
           f == index.bucket
           b == w.bucket
           x == [state |-> Filled, row |-> w.row, shard |-> ShardForRow(w.row),
                 offset |-> w.offset, seq |-> w.seq]
           g == index'.bucket
<1>1. /\ pc = "serving" /\ w.pc = "publish" /\ Goto(t, "count")
      /\ UNCHANGED <<file, append, opts, pc, used, build, suspect>>
      /\ index' = [index EXCEPT !.bucket = [f EXCEPT ![b] = x]]
  BY DEF PublishBucket, At, history
<1>2. BuildInv' /\ ~Building'  BY <1>1 DEF BuildInv, Building
<1>3. t \in Busy /\ w.row \in Row /\ ~Placing(t)  BY <1>1 DEF Busy, FileInv, WriteInv, Placing
<1>4. /\ \A u \in Thread : u # t => writer'[u] = writer[u]
      /\ writer'[t].pc = "count" /\ writer'[t].inserted = writer[t].inserted
  BY <1>1, GotoWriter
<1>5. ASSUME ~suspect PROVE TableInv' /\ ClaimInv' /\ CopyInv'
  <2>1. TableInv /\ ClaimInv  BY <1>1, <1>5, HasRoom DEF InUse
  <2>2. PICK n \in Nat : /\ f \in [0 .. n - 1 -> BucketType]
                         /\ Cardinality(Buckets) = n /\ Buckets = 0 .. n - 1
    BY IndexIsArray
  <2>3. ClaimAt(t)  BY <1>1, <2>1 DEF ClaimInv, Publishing
  <2>4. /\ b \in Buckets /\ f[b].state = Writing /\ OnPath(f, b, w.row)
        /\ \A c \in Buckets : f[c].row = w.row => c = b
        /\ \A u \in Thread : Publishing(u) /\ writer[u].bucket = b => u = t
    BY <2>3 DEF ClaimAt
  <2>5. g = [f EXCEPT ![b] = x] /\ index'.items = index.items
    <3>1. IndexTyped  BY DEF RecoveryInv, Typed
    <3> QED  BY <1>1, <3>1 DEF IndexTyped
  <2>6. x \in BucketType /\ x.state = Filled /\ x.row = w.row
    <3>1. WriterTyped(w) /\ opts \in Options
      BY DEF RecoveryInv, Typed, WritersTyped, SessionTyped
    <3>2. w.offset \in Nat /\ w.seq \in Nat /\ ShardForRow(w.row) \in Shard
      BY <1>3, <3>1, ShardForRowOpened DEF WriterTyped
    <3> QED  BY <1>3, <3>2 DEF BucketType, Filled
  <2>7. Names(x, Blocks')
    <3>1. BlockFor(t) \in Blocks'  BY <1>3 DEF FileInv, WriteInv
    <3>2. /\ BlockFor(t).shard = x.shard /\ BlockFor(t).offset = x.offset
          /\ BlockFor(t).row = x.row
      BY DEF BlockFor, HomeOf
    <3> QED  BY <1>3, <2>6, <3>1, <3>2 DEF Names
  <2> HIDE DEF w, f, b, x
  <2>8. Fits1(f, Blocks', b, x)
    BY <1>3, <2>4, <2>6, <2>7 DEF Fits1, Empty, Filled, Buckets, f
  <2>a. Table(f, Blocks)  BY <2>1 DEF TableInv, f
  <2>9. /\ g \in [0 .. n - 1 -> BucketType] /\ Table(g, Blocks')
        /\ TakenIn(g) = TakenIn(f) \cup {b}
        /\ DOMAIN g = DOMAIN f /\ PathsStay(f, g)
    <3>1. g = [f EXCEPT ![b] = x] /\ StoreIn(f, n, Blocks, Blocks', b, x)
      BY <2>2, <2>5, <2>8, <2>a DEF StoreIn
    <3> HIDE DEF g
    <3>2. StoredIn(f, n, Blocks', b, g)  BY ONLY <3>1, TableStores
    <3> QED  BY <3>2 DEF StoredIn
  <2>10. Buckets' = Buckets /\ Buckets = DOMAIN f  BY <2>9 DEF Buckets, f
  <2>11. TableInv'  BY <2>1, <2>5, <2>9, <2>10 DEF TableInv
  <2>12. /\ \A c \in Buckets : c # b => g[c] = f[c]
         /\ g[b] = x
    BY <2>2, <2>4, <2>5
  <2>13. \A u \in Thread : Publishing(u)' <=> Publishing(u) /\ u # t
    BY <1>4 DEF Publishing
  <2>14. ASSUME NEW u \in Thread, Publishing(u)' PROVE ClaimAt(u)'
    <3>1. Publishing(u) /\ u # t /\ ClaimAt(u) /\ writer'[u] = writer[u]
      BY <1>4, <2>1, <2>13, <2>14 DEF ClaimInv
    <3>2. PICK d \in Buckets : d = writer[u].bucket /\ d # b  BY <2>4, <3>1 DEF ClaimAt
    <3>3. u \in Busy /\ writer[u].row \in Row /\ writer[u].row # w.row
      BY <1>3, <3>1 DEF Publishing, FileInv, WriteInv, Busy, w
    <3>4. OnPath(g, d, writer[u].row)
      BY <2>9, <3>1, <3>2, <3>3 DEF ClaimAt, PathsStay, f
    <3>5. g[d].state = Writing  BY <2>12, <3>1, <3>2 DEF ClaimAt, f
    <3>6. \A c \in Buckets : g[c].row = writer[u].row => c = d
      BY <2>6, <2>12, <3>1, <3>2, <3>3 DEF ClaimAt, f
    <3>7. \A v \in Thread : Publishing(v)' /\ writer'[v].bucket = d => v = u
      BY <1>4, <2>13, <3>1, <3>2 DEF ClaimAt
    <3> QED  BY <2>10, <3>1, <3>2, <3>4, <3>5, <3>6, <3>7 DEF ClaimAt
  <2>15. ASSUME NEW c \in InState(Writing)'
         PROVE  \E u \in Thread : Publishing(u)' /\ writer'[u].bucket = c
    <3>1. c \in Buckets /\ g[c].state = Writing  BY <2>10, <2>15 DEF InState
    <3>2. c # b  BY <2>6, <2>12, <3>1 DEF Filled, Writing
    <3>3. c \in InState(Writing)  BY <2>12, <3>1, <3>2 DEF InState, f
    <3>4. PICK u \in Thread : Publishing(u) /\ writer[u].bucket = c  BY <2>1, <3>3 DEF ClaimInv
    <3>5. u # t  BY <3>2, <3>4 DEF b, w
    <3> QED  BY <1>4, <2>13, <3>4, <3>5
  <2>16. Cardinality(TakenIn(g)) = index'.items + Cardinality(Fresh')
    <3>1. Fresh' = Fresh
      <4>1. t \in Fresh' <=> t \in Fresh  BY <1>1, <1>4, Zenon DEF Fresh, w
      <4> QED  BY <1>4, <4>1 DEF Fresh
    <3>2. TakenIn(g) = TakenIn(f)
      <4>1. b \in TakenIn(f)  BY <2>4, <2>10 DEF TakenIn, Empty, Writing
      <4> QED  BY <2>9, <4>1
    <3> QED  BY <2>1, <2>5, <3>1, <3>2 DEF ClaimInv, f
  <2>17. ClaimInv'  BY <2>14, <2>15, <2>16 DEF ClaimInv
  <2>18. CopyInv'  BY <1>1, <1>2 DEF CopyInv, Enlarges
  <2> QED  BY <2>11, <2>17, <2>18
<1> QED  BY <1>1, <1>2, <1>5 DEF LookupInv

-----------------------------------------------------------------------------
(* Open, Close and Crash.                                                  *)

LEMMA NobodyCounts ==
  ASSUME RecoveryInv, FileInv, pc # "serving" \/ Quiet
  PROVE  /\ Cardinality(Busy) = 0 /\ Fresh = {} /\ Cardinality(Fresh) = 0
         /\ Busy = {} /\ \A t \in Thread : ~Publishing(t)
<1>1. Busy = {} /\ \A t \in Thread : writer[t].pc = "idle"
  <2>1. Idle.pc = "idle"  BY DEF Idle
  <2> QED  BY <2>1, NobodyWrites
<1>2. Fresh = {}  BY <1>1 DEF Fresh
<1> QED  BY <1>1, <1>2, FS_EmptySet DEF Publishing

LEMMA SameCounts ==
  ASSUME writer' = writer
  PROVE  Busy' = Busy /\ Fresh' = Fresh /\ \A t \in Thread : Publishing(t)' <=> Publishing(t)
BY DEF Busy, Fresh, Publishing

LEMMA NobodyCountsThen ==
  ASSUME \A t \in Thread : writer'[t] = Idle
  PROVE  /\ Cardinality(Busy') = 0 /\ Fresh' = {} /\ Cardinality(Fresh') = 0
         /\ Busy' = {} /\ \A t \in Thread : ~Publishing(t)'
<1>1. \A t \in Thread : writer'[t].pc = "idle"  BY DEF Idle
<1>2. Busy' = {} /\ Fresh' = {}  BY <1>1 DEF Fresh, Busy
<1> QED  BY <1>1, <1>2, FS_EmptySet DEF Publishing

LEMMA LookupCloses ==
  ASSUME RecoveryInv, FileInv, LookupInv, Closed, index' = index, Blocks' = Blocks,
         ~suspect' => ~suspect
  PROVE  LookupInv'
<1>1. pc' = "closed" /\ \A t \in Thread : writer'[t] = Idle  BY DEF Closed
<1>2. BuildInv' /\ CopyInv' /\ ~InUse'  BY <1>1 DEF BuildInv, CopyInv, Enlarges, Building, InUse
<1>3. ASSUME ~suspect', index'.header PROVE TableInv'
  <2>1. TableInv  BY <1>3, Zenon DEF LookupInv
  <2>2. PICK i \in Nat, m \in Nat : i = index.items /\ m = Cardinality(Busy)  BY CountFacts
  <2>3. Cardinality(Busy') = 0  BY <1>1, NobodyCountsThen
  <2>4. i + 0 <= i + m  OBVIOUS
  <2> QED  BY <2>1, <2>2, <2>3, <2>4, TableInvKept
<1> QED  BY <1>2, <1>3, Zenon DEF LookupInv

LEMMA LookupOpens ==
  ASSUME RecoveryInv, FileInv, LookupInv, NEW o \in Options, Open(o) \/ OpenReadOnly(o),
         Blocks' = Blocks
  PROVE  LookupInv'
<1>0. pc = "closed" /\ UNCHANGED <<writer, index, suspect>>
  BY DEF Open, OpenReadOnly, history
<1>1. /\ Cardinality(Busy) = 0 /\ Fresh = {} /\ Cardinality(Fresh) = 0
      /\ Busy = {} /\ \A t \in Thread : ~Publishing(t)
  BY <1>0, NobodyCounts
<1>2. Busy' = Busy /\ Fresh' = Fresh /\ \A t \in Thread : ~Publishing(t)'
  BY <1>0, <1>1, SameCounts
<1>3. ASSUME TableInv PROVE TableInv'
  <2>1. PICK i \in Nat, m \in Nat : i = index.items /\ m = Cardinality(Busy)  BY CountFacts
  <2> QED  BY <1>0, <1>2, <1>3, <2>1, TableInvKept
<1>4. ASSUME HasValidRowIndexLayout(o.shards) PROVE ClaimInv'
  <2>1. InState(Writing) = {} /\ Cardinality(InState(Filled)) = index.items
    BY <1>4 DEF HasValidRowIndexLayout
  <2>2. TakenIn(index.bucket) = InState(Filled)
    <3>1. \A b \in Buckets : index.bucket[b].state \in {Empty, Filled, Writing}
      BY IndexIsArray DEF BucketType
    <3> QED  BY <2>1, <3>1 DEF TakenIn, InState, Buckets, Empty, Filled
  <2>3. Cardinality(TakenIn(index'.bucket)) = index'.items + Cardinality(Fresh')
    <3>1. index.items \in Nat  BY CountFacts
    <3> QED  BY <1>0, <1>1, <1>2, <2>1, <2>2, <3>1
  <2>4. InState(Writing)' = {}  BY <1>0, <2>1 DEF InState, Buckets
  <2> QED  BY <1>2, <2>3, <2>4 DEF ClaimInv
<1>5. \/ pc' \in {"serving", "readonly"} /\ HasValidRowIndexLayout(o.shards)
      \/ pc' = "create" /\ build' = [NoBuild EXCEPT !.count = o.buckets, !.resume = "scan"]
      \/ pc' = "closed"
  BY <1>0 DEF Open, OpenReadOnly
<1>6. CASE pc' \in {"serving", "readonly"} /\ HasValidRowIndexLayout(o.shards)
  <2>1. BuildInv' /\ CopyInv'  BY <1>6 DEF BuildInv, CopyInv, Enlarges, Building
  <2>2. ClaimInv'  BY <1>4, <1>6
  <2>3. ~suspect' /\ index'.header => TableInv'  BY <1>0, <1>3, Zenon DEF LookupInv
  <2> QED  BY <2>1, <2>2, <2>3, Zenon DEF LookupInv
<1>7. CASE pc' = "create" /\ build' = [NoBuild EXCEPT !.count = o.buckets, !.resume = "scan"]
  <2>1. build'.count = o.buckets /\ build'.resume = "scan" /\ build'.copy = NoBuckets
    BY <1>7 DEF NoBuild
  <2>2. o.buckets \in Nat \ {0}  BY RecoveryAssumption
  <2>3. BuildInv'  BY <2>1, <2>2 DEF BuildInv
  <2>4. CopyInv' /\ ~InUse'  BY <1>7, <2>1 DEF CopyInv, Enlarges, InUse
  <2>5. ~suspect' /\ index'.header => TableInv'  BY <1>0, <1>3, Zenon DEF LookupInv
  <2> QED  BY <2>3, <2>4, <2>5, Zenon DEF LookupInv
<1>8. CASE pc' = "closed"
  <2>1. BuildInv' /\ CopyInv' /\ ~InUse'  BY <1>8 DEF BuildInv, CopyInv, Enlarges, Building, InUse
  <2>2. ~suspect' /\ index'.header => TableInv'  BY <1>0, <1>3, Zenon DEF LookupInv
  <2> QED  BY <2>1, <2>2, Zenon DEF LookupInv
<1> QED  BY <1>5, <1>6, <1>7, <1>8

LEMMA LookupDeletes ==
  ASSUME LookupInv, DeleteIndex
  PROVE  LookupInv'
<1>1. pc' = "closed" /\ ~index'.header  BY DEF DeleteIndex, session, NoIndex
<1>2. BuildInv' /\ CopyInv' /\ ~InUse'  BY <1>1 DEF BuildInv, CopyInv, Enlarges, Building, InUse
<1> QED  BY <1>1, <1>2, Zenon DEF LookupInv

LEMMA LookupClears ==
  ASSUME RecoveryInv, FileInv, LookupInv, ClearIndex, Blocks' = Blocks
  PROVE  LookupInv'
<1>1. /\ pc = "create" /\ pc' = "header" /\ index' = NoIndex /\ build' = build
      /\ build.resume = "insert" => suspect' = suspect
  BY DEF ClearIndex
<1>2. ~index'.header /\ ~InUse'  BY <1>1 DEF NoIndex, InUse
<1>3. BuildInv'  BY <1>1 DEF LookupInv, BuildInv, Building
<1>4. ASSUME ~suspect' PROVE CopyInv'
  <2>1. CASE build.resume = "insert"
    <3>1. CopyInv  BY <1>1, <1>4, <2>1, Zenon DEF LookupInv
    <3> QED  BY <1>1, <2>1, <3>1 DEF CopyInv, Enlarges, Building, Copied
  <2>2. CASE build.resume # "insert"  BY <1>1, <2>2 DEF CopyInv, Enlarges
  <2> QED  BY <2>1, <2>2
<1> QED  BY <1>2, <1>3, <1>4, Zenon DEF LookupInv

LEMMA LookupCreates ==
  ASSUME RecoveryInv, FileInv, LookupInv, CreateEmptyRowIndex, Blocks' = Blocks
  PROVE  LookupInv'
<1> DEFINE n == build.count
           g == [b \in 0 .. n - 1 |-> EmptyBucket]
<1>1. /\ pc = "header" /\ pc' = "place" /\ UNCHANGED <<build, writer, suspect>>
      /\ index'.bucket = g /\ index'.items = 0
  BY DEF CreateEmptyRowIndex, history
<1>2. /\ n \in Nat /\ build.resume \in {"scan", "insert"}
      /\ build.resume = "scan" => n > 0
  BY <1>1 DEF LookupInv, BuildInv, Building, RecoveryInv, PlaceInv, Typed, BuildTyped
<1>3. BuildInv'  BY <1>1 DEF LookupInv, BuildInv, Building
<1>4. g \in [0 .. n - 1 -> BucketType]
  BY EmptyBucketTyped, RecoveryInv DEF RecoveryInv, Typed, SessionTyped
<1>5. /\ \A b \in DOMAIN g : g[b] = EmptyBucket
      /\ EmptyBucket.row = NoRow /\ EmptyBucket.state = Empty
      /\ NoRow \notin Row
  BY RecoveryAssumption DEF EmptyBucket
<1> HIDE DEF g
<1>6. Table(g, Blocks')
  <2>1. \A b \in DOMAIN g : SoundAt(g, Blocks', b)  BY <1>5 DEF SoundAt, Empty, Filled
  <2> QED  BY <1>5, <2>1 DEF Table
<1>7. TakenIn(g) = {} /\ Cardinality({}) = 0  BY <1>5, FS_EmptySet DEF TakenIn
<1>8. /\ Cardinality(Buckets') = n /\ Buckets' = DOMAIN g
  BY <1>1, <1>2, <1>4, ArrayFacts DEF Buckets
<1>9. Cardinality(Busy') = 0 /\ Cardinality(Fresh') = 0 /\ \A t \in Thread : ~Publishing(t)'
  BY <1>1, NobodyCounts, SameCounts
<1>10. ASSUME ~suspect PROVE TableInv'
  <2>1. ASSUME build.resume = "insert" PROVE n > 0
    <3>1. CopyInv  BY <1>10, Zenon DEF LookupInv
    <3>2. IsFiniteSet(Copied) /\ Cardinality(Copied) + 1 < build.count
      BY <1>1, <2>1, <3>1 DEF CopyInv, Enlarges, Building
    <3>3. Cardinality(Copied) \in Nat  BY <3>2, FS_CardinalityType
    <3> QED  BY <1>2, <3>2, <3>3
  <2>2. n > 0  BY <1>2, <2>1
  <2> QED  BY <1>1, <1>2, <1>6, <1>8, <1>9, <2>2 DEF TableInv
<1>11. ClaimInv'
  <2>1. InState(Writing)' = {}  BY <1>1, <1>5, <1>8 DEF InState, Empty, Writing
  <2> QED  BY <1>1, <1>7, <1>9, <2>1 DEF ClaimInv
<1>12. ASSUME ~suspect PROVE CopyInv'
  <2>1. CopyInv  BY <1>12, Zenon DEF LookupInv
  <2>2. ASSUME build.resume = "insert"
        PROVE  /\ IsFiniteSet(Copied')
               /\ \A c \in Copied' : build'.copy[c].state = Filled /\ Names(build'.copy[c], Blocks')
               /\ \A c, d \in Copied' : build'.copy[c].row = build'.copy[d].row => c = d
               /\ index'.items + Cardinality(Copied') + 1 < build'.count
               /\ \A c \in Copied', b \in Buckets' : index'.bucket[b].row # build'.copy[c].row
    <3>1. /\ IsFiniteSet(Copied)
          /\ \A c \in Copied : build.copy[c].state = Filled /\ Names(build.copy[c], Blocks)
          /\ \A c, d \in Copied : build.copy[c].row = build.copy[d].row => c = d
          /\ Cardinality(Copied) + 1 < build.count
      BY <1>1, <2>1, <2>2 DEF CopyInv, Enlarges, Building
    <3>2. Cardinality(Copied) \in Nat  BY <3>1, FS_CardinalityType
    <3>3. Copied' = Copied  BY <1>1 DEF Copied
    <3>4. index'.items + Cardinality(Copied') + 1 < build'.count  BY <1>1, <3>1, <3>2, <3>3
    <3>5. \A c \in Copied', b \in Buckets' : index'.bucket[b].row # build'.copy[c].row
      BY <1>1, <1>5, <1>8, <3>1, <3>3 DEF Names
    <3> QED  BY <1>1, <3>1, <3>3, <3>4, <3>5
  <2> QED  BY <1>1, <1>8, <2>2 DEF CopyInv, Enlarges
<1> QED  BY <1>1, <1>3, <1>10, <1>11, <1>12, Zenon DEF LookupInv

\* The block that the scan has in hand.
LEMMA ScannedBlock ==
  ASSUME RecoveryInv, FileInv, pc \in {"scan", "insert"}, ~suspect, scan.offset < Size
  PROVE  \E y \in Blocks : /\ y.shard = scan.shard /\ y.offset = scan.offset
                           /\ y.row = CellAt(scan.shard, scan.offset).row
<1> DEFINE s == scan.shard
           o == scan.offset
           f == file[s]
<1>1. /\ s \in Opened /\ s \in Shard /\ f \in Seq(CellType) /\ Size = Len(f) /\ o \in Nat \ {0}
      /\ Rebuilding /\ opts \in Options
  BY ScanFacts DEF Positive, Size
<1>2. ~Torn /\ Boundary  BY <1>1 DEF RecoveryInv, ScanInv
<1>3. Whole(f)  BY <1>1, <1>2 DEF Torn
<1>4. f # <<>>  BY ScanFacts
<1>5. f[1] = FileHeader  BY <1>1, <1>4 DEF RecoveryInv, HeaderInv
<1>6. (o = 1 \/ f[o].at = 2) /\ o < Len(f)  BY <1>1, <1>2 DEF Boundary, BlockSize
<1>7. ValuesIn(f)  BY <1>1 DEF FileInv, ValueInv
<1>8. PICK m \in Nat : m = Len(f) /\ DOMAIN f = 1 .. m  BY <1>1
<1>9. CellAt(s, o) = f[o + 1]
  <2>1. o + 1 \in DOMAIN f  BY <1>1, <1>6, <1>8
  <2> QED  BY <2>1 DEF CellAt, f
<1> HIDE DEF f, s, o
<1>10. /\ f[o + 1].row \in Row /\ f[o + 1].at = 0 /\ o + 3 <= m
  BY <1>1, <1>3, <1>5, <1>6, <1>8, WholeBlock
<1>11. PICK c \in CellType : c = f[o + 1]
  <2>1. o + 1 \in DOMAIN f  BY <1>1, <1>8, <1>10
  <2> QED  BY <1>1, <2>1
<1>12. \A i \in 2 .. m : f[i].at < 2 => f[i + 1] = [f[i] EXCEPT !.at = @ + 1]
  <2>1. BlockSize - 1 = 2  BY DEF BlockSize
  <2>2. TAKE i \in 2 .. m
  <2>3. f[i].at < BlockSize - 1 => f[i + 1] = [f[i] EXCEPT !.at = @ + 1]
    BY <1>3, <1>8 DEF Whole
  <2> QED  BY <2>1, <2>3
<1>13. c.at = 0 /\ c.row \in Row  BY <1>10, <1>11
<1>14. f[o + 2] = [c EXCEPT !.at = 1]
  <2>1. PICK i \in 2 .. m : i = o + 1 /\ i + 1 = o + 2  BY <1>1, <1>10
  <2>2. f[i + 1] = [f[i] EXCEPT !.at = @ + 1]  BY <1>11, <1>12, <1>13, <2>1
  <2> QED  BY <1>11, <1>13, <2>1, <2>2
<1>15. f[o + 3] = [c EXCEPT !.at = 2]
  <2>1. PICK i \in 2 .. m : i = o + 2 /\ i + 1 = o + 3  BY <1>1, <1>10
  <2>2. f[i].at = 1  BY <1>14, <2>1 DEF CellType
  <2>3. f[i + 1] = [f[i] EXCEPT !.at = @ + 1]  BY <1>12, <2>1, <2>2
  <2> QED  BY <1>14, <2>1, <2>2, <2>3 DEF CellType
<1>16. c.val \in Positive
  <2>1. o + 1 \in DOMAIN f  BY <1>1, <1>8, <1>10
  <2> QED  BY <1>7, <1>11, <1>13, <2>1 DEF ValuesIn
<1>17. IsBlock(f, o, c.row, c.val)
  <2>1. c = [row |-> c.row, val |-> c.val, seq |-> c.seq, at |-> 0]  BY <1>13 DEF CellType
  <2>2. /\ f[o + 1] = [row |-> c.row, val |-> c.val, seq |-> c.seq, at |-> 0]
        /\ f[o + 2] = [row |-> c.row, val |-> c.val, seq |-> c.seq, at |-> 1]
        /\ f[o + 3] = [row |-> c.row, val |-> c.val, seq |-> c.seq, at |-> 2]
    BY <1>11, <1>14, <1>15, <2>1
  <2>3. \A i \in 1 .. 3 : f[o + i] = [row |-> c.row, val |-> c.val, seq |-> f[o + 1].seq, at |-> i - 1]
    <3>1. TAKE i \in 1 .. 3
    <3>2. f[o + 1].seq = c.seq  BY <2>2
    <3>3. CASE i = 1  BY <2>2, <3>2, <3>3
    <3>4. CASE i = 2  BY <2>2, <3>2, <3>4
    <3>5. CASE i = 3  BY <2>2, <3>2, <3>5
    <3> QED  BY <3>3, <3>4, <3>5
  <2> QED  BY <1>8, <1>10, <1>13, <2>3 DEF IsBlock
<1> DEFINE y == [shard |-> s, offset |-> o, row |-> c.row, val |-> c.val]
<1>18. y \in BlockType  BY <1>1, <1>13, <1>16 DEF BlockType
<1>19. y \in Blocks  BY <1>17, <1>18 DEF Blocks, f
<1>20. y.shard = s /\ y.offset = o /\ y.row = CellAt(s, o).row  BY <1>9, <1>11
<1> QED  BY <1>19, <1>20 DEF s, o

\* WithBucket in the fields of the index.
LEMMA WithBucketIs ==
  ASSUME RecoveryInv, NEW b, NEW x, NEW n \in Nat, index' = WithBucket(b, x, n)
  PROVE  /\ index'.bucket = [index.bucket EXCEPT ![b] = x]
         /\ index'.items = index.items + n /\ index'.header = index.header
<1>1. IndexTyped  BY DEF RecoveryInv, Typed
<1> QED  BY <1>1 DEF WithBucket, IndexTyped

\* What the scan does with the block y: bucket b, on the way of its row, gets
\* x, which names it.
Scans(m, b, x, y) ==
  /\ index.bucket \in [0 .. m - 1 -> BucketType]
  /\ Cardinality(Buckets) = m /\ Buckets = 0 .. m - 1
  /\ y \in Blocks /\ y.shard = scan.shard /\ y.offset = scan.offset
  /\ x \in BucketType /\ x.state = Filled /\ x.row \in Row
  /\ x.row = y.row /\ x.shard = scan.shard /\ x.offset = scan.offset
  /\ Found(index.bucket, b, x.row)
  /\ index'.bucket = [index.bucket EXCEPT ![b] = x]
  /\ index'.items = index.items + (IF index.bucket[b].state = Empty THEN 1 ELSE 0)

LEMMA ScanKeeps ==
  ASSUME RecoveryInv, ScanBlock
  PROVE  /\ pc \in {"scan", "insert"} /\ pc' = "scan" /\ UNCHANGED <<writer, build, suspect>>
         /\ scan.offset < Size /\ ScanValid
         /\ scan'.shard = scan.shard /\ scan'.offset = scan.offset + 3
<1>1. /\ pc \in {"scan", "insert"} /\ pc' = "scan" /\ UNCHANGED <<writer, build, suspect>>
  BY DEF ScanBlock, history
<1>2. scan.offset < Size /\ ScanValid
  BY DEF ScanBlock, RecoveryInv, PlaceInv, InHand
<1>3. scan'.shard = scan.shard /\ scan'.offset = scan.offset + 3
  <2>1. PICK q : scan' = [scan EXCEPT !.offset = NextBlock, !.nextSequence = q]
    BY DEF ScanBlock
  <2> QED  BY <2>1 DEF RecoveryInv, Typed, ScanTyped, NextBlock, BlockSize
<1> QED  BY <1>1, <1>2, <1>3

LEMMA ScanFinds ==
  ASSUME RecoveryInv, FileInv, LookupInv, ~suspect, ScanBlock
  PROVE  \E m \in Nat : \E b, x, y : Scans(m, b, x, y)
<1> DEFINE head == CellAt(scan.shard, scan.offset)
           f == index.bucket
           b == FindRowBucket(head.row, ColumnAt(scan.shard, scan.offset))
           x == [state |-> Filled, row |-> head.row, shard |-> scan.shard,
                    offset |-> scan.offset, seq |-> head.seq]
           n == IF f[b].state = Empty THEN 1 ELSE 0
<1>a. pc \in {"scan", "insert"} /\ scan.offset < Size /\ ScanValid  BY ScanKeeps
<1>b. index' = WithBucket(b, x, n)  BY DEF ScanBlock, Winner
<1>1. TableInv /\ ClaimInv /\ Cardinality(TakenIn(f)) < Cardinality(Buckets)
  BY <1>a, HasRoom DEF InUse
<1>2. PICK m \in Nat : /\ f \in [0 .. m - 1 -> BucketType]
                       /\ Cardinality(Buckets) = m /\ Buckets = 0 .. m - 1
  BY IndexIsArray
<1>3. PICK y \in Blocks : /\ y.shard = scan.shard /\ y.offset = scan.offset
                          /\ y.row = head.row
  BY <1>a, ScannedBlock
<1>4. FilesTyped  BY DEF RecoveryInv, Typed
<1>5. head.row \in Row /\ ColumnAt(scan.shard, scan.offset) = head.row
  <2>1. y.row \in Row  BY DEF Blocks, BlockType
  <2> QED  BY <1>3, <1>4, <2>1, BlockReads
<1>6. Found(f, b, head.row)
  BY <1>1, <1>2, <1>4, <1>5, FindRow DEF TableInv
<1>7. x \in BucketType /\ x.state = Filled /\ x.row = head.row /\ x.row \in Row
  <2>1. scan.shard \in Shard /\ scan.offset \in Nat  BY <1>a, ScanFacts DEF Positive
  <2>2. head.seq \in Nat
    <3>1. /\ file[scan.shard] \in Seq(CellType) /\ Size \in Nat
          /\ DOMAIN file[scan.shard] = 1 .. Size
      BY <1>a, ScanFacts
    <3>2. scan.offset + 1 \in DOMAIN file[scan.shard]  BY <1>a, <2>1, <3>1
    <3>3. head = file[scan.shard][scan.offset + 1]  BY <3>2 DEF CellAt
    <3>4. head \in CellType  BY <3>1, <3>2, <3>3
    <3> QED  BY <3>4 DEF CellType
  <2> QED  BY <1>5, <2>1, <2>2 DEF BucketType, Filled
<1>9. n \in {0, 1} /\ (n = 1 <=> f[b].state = Empty)  OBVIOUS
<1> HIDE DEF f, b, x, n, head
<1>10. index'.bucket = [f EXCEPT ![b] = x] /\ index'.items = index.items + n
  <2>1. n \in Nat  BY <1>9
  <2> QED  BY <1>b, <2>1, WithBucketIs DEF f
<1>11. /\ x.row = y.row /\ x.shard = scan.shard /\ x.offset = scan.offset
  BY <1>3, <1>7 DEF x
<1>12. index'.items = index.items + (IF index.bucket[b].state = Empty THEN 1 ELSE 0)
  BY <1>10 DEF n, f
<1>13. Scans(m, b, x, y)
  BY <1>2, <1>3, <1>6, <1>7, <1>10, <1>11, <1>12 DEF Scans, f
<1> QED  BY <1>13

LEMMA LookupScans ==
  ASSUME RecoveryInv, RecoveryInv', FileInv, LookupInv, ScanBlock, Blocks' = Blocks
  PROVE  LookupInv'
<1> DEFINE f == index.bucket
           g == index'.bucket
<1>1. /\ pc \in {"scan", "insert"} /\ pc' = "scan" /\ UNCHANGED <<writer, build, suspect>>
  BY ScanKeeps
<1>3. BuildInv' /\ CopyInv'  BY <1>1 DEF BuildInv, CopyInv, Enlarges, Building
<1>4. ASSUME ~suspect PROVE TableInv' /\ ClaimInv'
  <2>1. TableInv /\ ClaimInv /\ Cardinality(TakenIn(f)) < Cardinality(Buckets)
    BY <1>1, <1>4, HasRoom DEF InUse
  <2>0. PICK m \in Nat : \E b, x, y : Scans(m, b, x, y)  BY <1>4, ScanFinds
  <2>a. PICK b, x, y : Scans(m, b, x, y)  BY <2>0
  <2> DEFINE n == IF f[b].state = Empty THEN 1 ELSE 0
  <2>2. f \in [0 .. m - 1 -> BucketType] /\ Cardinality(Buckets) = m /\ Buckets = 0 .. m - 1
    BY <2>a DEF Scans
  <2>6. Found(f, b, x.row)  BY <2>a DEF Scans
  <2>7. x \in BucketType /\ x.state = Filled /\ x.row \in Row  BY <2>a DEF Scans
  <2>8. Names(x, Blocks')  BY <2>a DEF Names, Scans
  <2>9. n \in {0, 1} /\ (n = 1 <=> f[b].state = Empty)  OBVIOUS
  <2>10. g = [f EXCEPT ![b] = x] /\ index'.items = index.items + n  BY <2>a DEF Scans
  <2> HIDE DEF f, n
  <2>11. Fits1(f, Blocks', b, x)
    BY <2>6, <2>7, <2>8 DEF Fits1, Found, Filled, Empty
  <2>12. /\ g \in [0 .. m - 1 -> BucketType] /\ Table(g, Blocks')
         /\ TakenIn(g) = TakenIn(f) \cup {b}
         /\ DOMAIN g = DOMAIN f /\ PathsStay(f, g)
    <3>1. g = [f EXCEPT ![b] = x] /\ StoreIn(f, m, Blocks, Blocks', b, x)
      BY <2>1, <2>2, <2>10, <2>11 DEF StoreIn, TableInv, f
    <3> HIDE DEF g
    <3>2. StoredIn(f, m, Blocks', b, g)  BY ONLY <3>1, TableStores
    <3> QED  BY <3>2 DEF StoredIn
  <2>13. Buckets' = Buckets  BY <2>12 DEF Buckets, f
  <2>14. /\ Cardinality(Busy) = 0 /\ Cardinality(Fresh) = 0
         /\ Cardinality(Busy') = 0 /\ Cardinality(Fresh') = 0
         /\ \A t \in Thread : ~Publishing(t) /\ ~Publishing(t)'
    BY <1>1, NobodyCounts, SameCounts
  <2>15. PICK i \in Nat : i = index.items  BY CountFacts
  <2>16. i + 1 < m
    <3>1. CASE pc = "insert"
      <4>1. CopyInv  BY <1>4, Zenon DEF LookupInv
      <4> QED  BY <2>2, <2>15, <3>1, <4>1 DEF CopyInv
    <3>2. CASE pc = "scan"
      <4>1. (i + 1) * LoadDen <= LoadNum * m  BY <2>2, <2>15, <3>2 DEF ScanBlock, Fits
      <4>2. m > 0  BY <2>1, <2>2, <2>14, <2>15 DEF TableInv
      <4>3. i + 1 \in Nat  OBVIOUS
      <4> QED  BY ONLY <4>1, <4>2, <4>3, WithinRoomRows, m \in Nat
    <3> QED  BY <1>1, <3>1, <3>2
  <2>17. TableInv'
    <3>1. index'.items + Cardinality(Busy') < Cardinality(Buckets')
      <4>1. index'.items = i + n /\ n \in {0, 1}  BY <2>9, <2>10, <2>15
      <4>2. i + n + 0 < m  BY <2>16, <4>1
      <4> QED  BY <2>2, <2>13, <2>14, <4>1, <4>2
    <3> QED  BY <2>12, <3>1 DEF TableInv
  <2>18. InState(Writing) = {}  BY <2>1, <2>14 DEF ClaimInv
  <2>19. InState(Writing)' = {}
    <3>1. \A c \in Buckets : g[c] = f[c] \/ g[c] = x  BY <2>2, <2>10
    <3> QED  BY <2>7, <2>13, <2>18, <3>1 DEF InState, f, Filled, Writing
  <2>20. Cardinality(TakenIn(g)) = index'.items + Cardinality(Fresh')
    <3>1. Cardinality(TakenIn(f)) = i  BY <2>1, <2>14, <2>15 DEF ClaimInv, f
    <3>2. IsFiniteSet(TakenIn(f))  BY <2>2, ArrayFacts
    <3>3. b \in TakenIn(f) <=> f[b].state # Empty  BY <2>6 DEF TakenIn, Found
    <3>4. Cardinality(TakenIn(g)) = IF b \in TakenIn(f) THEN i ELSE i + 1
      BY <2>12, <3>1, <3>2, FS_AddElement
    <3>5. Cardinality(TakenIn(g)) = i + n  BY <2>9, <3>3, <3>4
    <3> QED  BY <2>9, <2>10, <2>14, <2>15, <3>5
  <2>21. ClaimInv'  BY <2>14, <2>19, <2>20 DEF ClaimInv
  <2> QED  BY <2>17, <2>21
<1> QED  BY <1>1, <1>3, <1>4, Zenon DEF LookupInv

LEMMA LookupGrows ==
  ASSUME RecoveryInv, FileInv, LookupInv, ScanGrows, Blocks' = Blocks
  PROVE  LookupInv'
<1> DEFINE h == Restrict(index.bucket, InState(Filled))
<1>1. /\ pc = "scan" /\ pc' = "create"
      /\ build' = [count |-> 2 * Cardinality(Buckets), copy |-> h,
                   nextSequence |-> index.nextSequence, resume |-> "insert"]
      /\ UNCHANGED <<index, writer, suspect>>
  BY DEF ScanGrows, history
<1>2. /\ build'.count = 2 * Cardinality(Buckets) /\ build'.copy = h /\ build'.resume = "insert"
  BY <1>1
<1>3. PICK n \in Nat : /\ index.bucket \in [0 .. n - 1 -> BucketType]
                       /\ Cardinality(Buckets) = n /\ Buckets = 0 .. n - 1
  BY IndexIsArray
<1>4. ~InUse'  BY <1>1 DEF InUse
<1>5. /\ Cardinality(Busy) = 0 /\ Cardinality(Fresh) = 0 /\ Busy' = Busy
      /\ \A t \in Thread : ~Publishing(t)
  BY <1>1, NobodyCounts, SameCounts
<1>6. Copied' = InState(Filled)  BY <1>2 DEF Copied, Restrict
<1>7. ASSUME ~suspect PROVE TableInv' /\ CopyInv'
  <2>1. TableInv /\ ClaimInv  BY <1>1, <1>7, HasRoom DEF InUse
  <2>2. PICK i \in Nat : i = index.items  BY CountFacts
  <2>3. TableInv'
    <3>1. index.items + Cardinality(Busy) <= index.items + Cardinality(Busy)  BY <1>5, <2>2
    <3> QED  BY <1>1, <1>5, <2>1, <2>2, <3>1, TableInvKept
  <2>4. i < n  BY <1>3, <1>5, <2>1, <2>2 DEF TableInv
  <2>5. InState(Filled) \subseteq TakenIn(index.bucket)
    BY DEF InState, TakenIn, Buckets, Filled, Empty
  <2>6. IsFiniteSet(InState(Filled)) /\ Cardinality(InState(Filled)) <= i
        /\ Cardinality(InState(Filled)) \in Nat
    <3>1. IsFiniteSet(TakenIn(index.bucket))  BY <1>3, ArrayFacts
    <3>2. IsFiniteSet(InState(Filled)) /\ Cardinality(InState(Filled)) <= Cardinality(TakenIn(index.bucket))
      BY <2>5, <3>1, FS_Subset
    <3>3. Cardinality(TakenIn(index.bucket)) = i  BY <1>5, <2>1, <2>2 DEF ClaimInv
    <3> QED  BY <3>2, <3>3, FS_CardinalityType
  <2>7. \A c \in InState(Filled) : h[c] = index.bucket[c]  BY DEF Restrict
  <2> HIDE DEF h
  <2>8. ASSUME NEW c \in InState(Filled)
        PROVE  h[c].state = Filled /\ Names(h[c], Blocks) /\ h[c].row \in Row
    <3>1. c \in Buckets /\ index.bucket[c].state = Filled  BY DEF InState
    <3>2. SoundAt(index.bucket, Blocks, c)  BY <2>1, <3>1 DEF TableInv, Table, Buckets
    <3> QED  BY <2>7, <3>1, <3>2 DEF SoundAt
  <2>9. ASSUME NEW c \in InState(Filled), NEW d \in InState(Filled), h[c].row = h[d].row
        PROVE  c = d
    <3>1. c \in Buckets /\ d \in Buckets  BY DEF InState
    <3> QED  BY <2>1, <2>7, <2>8, <2>9, <3>1 DEF TableInv, Table, Buckets
  <2>10. Cardinality(Copied') + 1 < build'.count
    <3>1. PICK k \in Nat : k = Cardinality(InState(Filled)) /\ k <= i  BY <2>6
    <3>2. k + 1 < 2 * n  BY <2>4, <3>1
    <3> QED  BY <1>2, <1>3, <1>6, <3>1, <3>2
  <2>11. CopyInv'
    <3>1. \A c \in Copied' : build'.copy[c].state = Filled /\ Names(build'.copy[c], Blocks')
      BY <1>2, <1>6, <2>8
    <3>2. \A c, d \in Copied' : build'.copy[c].row = build'.copy[d].row => c = d
      BY <1>2, <1>6, <2>9
    <3> QED  BY <1>1, <1>6, <2>6, <2>10, <3>1, <3>2 DEF CopyInv
  <2> QED  BY <2>3, <2>11
<1>8. BuildInv'  BY <1>2 DEF BuildInv
<1> QED  BY <1>1, <1>4, <1>7, <1>8, Zenon DEF LookupInv

\* A bucket from the smaller table goes to the first free place on its row's way.
LEMMA FreePlace ==
  ASSUME NEW n \in Nat, index.bucket \in [0 .. n - 1 -> BucketType],
         Cardinality(TakenIn(index.bucket)) < n, NEW r \in Row,
         NEW k, k = Min({i \in 0 .. n - 1 : index.bucket[Probe(r, i)].state = Empty})
  PROVE  /\ Probe(r, k) \in DOMAIN index.bucket
         /\ index.bucket[Probe(r, k)].state = Empty
         /\ OnPath(index.bucket, Probe(r, k), r)
<1> DEFINE f == index.bucket
           S == {i \in 0 .. n - 1 : f[Way(f, r, i)].state = Empty}
<1>1. /\ Cardinality(DOMAIN f) = n /\ Buckets = DOMAIN f
      /\ \A i \in Nat : n > 0 => Way(f, r, i) \in DOMAIN f
  BY ArrayFacts DEF Buckets
<1>2. \A i : Probe(r, i) = Way(f, r, i)  BY DEF Probe, Way, Buckets
<1>3. k = Min(S)
  <2>1. S = {i \in 0 .. n - 1 : index.bucket[Probe(r, i)].state = Empty}  BY <1>2
  <2> QED  BY <2>1
<1>4. n > 0 /\ S # {}  BY EmptyAhead
<1> HIDE DEF f
<1>5. S \in SUBSET Nat  OBVIOUS
<1> HIDE DEF S
<1>6. k \in S /\ \A i \in S : k <= i  BY ONLY <1>3, <1>4, <1>5, MinOfSome
<1> USE DEF S
<1>7. k \in 0 .. n - 1 /\ f[Way(f, r, k)].state = Empty  BY <1>6
<1>8. ASSUME NEW j \in 0 .. k - 1 PROVE f[Way(f, r, j)].state # Empty
  <2>1. j \in 0 .. n - 1 /\ ~(k <= j)  BY <1>7
  <2>2. j \notin S  BY <1>6, <2>1
  <2> QED  BY <2>1, <2>2
<1>9. Way(f, r, k) \in DOMAIN f  BY <1>1, <1>4, <1>7
<1>10. OnPath(f, Way(f, r, k), r)  BY <1>1, <1>7, <1>8 DEF OnPath
<1> QED  BY <1>2, <1>7, <1>9, <1>10 DEF f

\* What is left of the smaller table.
LEMMA CopyShrinks ==
  ASSUME RecoveryInv, NEW c \in Copied, IsFiniteSet(Copied),
         build' = [build EXCEPT !.copy = Restrict(@, DOMAIN @ \ {c})]
  PROVE  /\ Copied' = Copied \ {c} /\ IsFiniteSet(Copied')
         /\ Cardinality(Copied) \in Nat /\ Cardinality(Copied') \in Nat
         /\ Cardinality(Copied) = Cardinality(Copied') + 1
         /\ \A d \in Copied' : build'.copy[d] = build.copy[d]
         /\ build'.count = build.count /\ build'.resume = build.resume
<1>1. /\ build'.copy = Restrict(build.copy, Copied \ {c})
      /\ build'.count = build.count /\ build'.resume = build.resume
  BY DEF RecoveryInv, Typed, BuildTyped, Copied
<1>2. Copied' = Copied \ {c}  BY <1>1 DEF Copied, Restrict
<1>3. \A d \in Copied' : build'.copy[d] = build.copy[d]  BY <1>1, <1>2 DEF Restrict
<1>4. /\ IsFiniteSet(Copied \ {c})
      /\ Cardinality(Copied \ {c}) = Cardinality(Copied) - 1
  BY FS_RemoveElement
<1>5. Cardinality(Copied) \in Nat /\ Cardinality(Copied \ {c}) \in Nat
  BY <1>4, FS_CardinalityType
<1>6. Cardinality(Copied) = Cardinality(Copied \ {c}) + 1  BY <1>4, <1>5
<1> QED  BY <1>1, <1>2, <1>3, <1>4, <1>5, <1>6

LEMMA PlaceKeeps ==
  ASSUME RecoveryInv, LookupInv, PlaceExistingRowBucket
  PROVE  /\ pc = "place" /\ pc' = "place" /\ Copied # {} /\ Enlarges
         /\ build'.resume = build.resume /\ UNCHANGED <<writer, scan, suspect>>
<1>1. /\ pc = "place" /\ pc' = "place" /\ Copied # {}
      /\ UNCHANGED <<writer, scan, suspect>>
  BY DEF PlaceExistingRowBucket, history, Copied
<1>2. build.resume \in {"scan", "insert"}  BY <1>1 DEF RecoveryInv, PlaceInv, Building
<1>3. build'.resume = build.resume
  <2>1. PICK h : build' = [build EXCEPT !.copy = h]  BY DEF PlaceExistingRowBucket
  <2> QED  BY <2>1 DEF RecoveryInv, Typed, BuildTyped
<1>4. Enlarges
  <2>1. build.resume = "scan" => build.copy = NoBuckets
    BY <1>1 DEF LookupInv, BuildInv, Building
  <2>2. DOMAIN NoBuckets = {}  BY DEF NoBuckets
  <2> QED  BY <1>1, <1>2, <2>1, <2>2 DEF Enlarges, Building, Copied
<1> QED  BY <1>1, <1>3, <1>4

\* Bucket x of the smaller table goes to place b of an array of n.
Placed(n, c, b, x) ==
  /\ index.bucket \in [0 .. n - 1 -> BucketType]
  /\ Cardinality(Buckets) = n /\ Buckets = 0 .. n - 1 /\ build.count = n
  /\ c \in Copied /\ x = build.copy[c]
  /\ x \in BucketType /\ x.state = Filled /\ x.row \in Row /\ Names(x, Blocks)
  /\ b \in DOMAIN index.bucket /\ index.bucket[b].state = Empty
  /\ OnPath(index.bucket, b, x.row) /\ \A d \in Buckets : index.bucket[d].row # x.row
  /\ Copied' = Copied \ {c} /\ IsFiniteSet(Copied')
  /\ Cardinality(Copied') \in Nat /\ Cardinality(Copied) = Cardinality(Copied') + 1
  /\ \A d \in Copied' : build'.copy[d] = build.copy[d]
  /\ build'.count = build.count /\ build'.resume = build.resume
  /\ index'.bucket = [index.bucket EXCEPT ![b] = x] /\ index'.items = index.items + 1

LEMMA PlacesBucket ==
  ASSUME RecoveryInv, FileInv, LookupInv, ~suspect, PlaceExistingRowBucket
  PROVE  \E n \in Nat : \E c, b, x : Placed(n, c, b, x)
<1> DEFINE f == index.bucket
           c == Min(DOMAIN build.copy)
           x == build.copy[c]
           k == Min({i \in 0 .. build.count - 1 : f[Probe(x.row, i)].state = Empty})
           b == Probe(x.row, k)
<1>a. /\ pc = "place" /\ Copied # {} /\ Enlarges  BY PlaceKeeps
<1>b. /\ index' = WithBucket(b, x, 1)
      /\ build' = [build EXCEPT !.copy = Restrict(@, DOMAIN @ \ {c})]
  BY DEF PlaceExistingRowBucket
<1>1. TableInv /\ ClaimInv /\ Cardinality(TakenIn(f)) < Cardinality(Buckets)
  BY <1>a, HasRoom DEF InUse
<1>2. PICK n \in Nat : /\ f \in [0 .. n - 1 -> BucketType]
                       /\ Cardinality(Buckets) = n /\ Buckets = 0 .. n - 1
  BY IndexIsArray
<1>3. CopyInv  BY Zenon DEF LookupInv
<1>4. /\ IsFiniteSet(Copied)
      /\ \A d \in Copied : build.copy[d].state = Filled /\ Names(build.copy[d], Blocks)
      /\ \A d, e \in Copied : build.copy[d].row = build.copy[e].row => d = e
      /\ index.items + Cardinality(Copied) + 1 < build.count
      /\ \A d \in Copied, e \in Buckets : f[e].row # build.copy[d].row
      /\ build.count = n
  BY <1>a, <1>2, <1>3 DEF CopyInv
<1>5. c \in Copied
  <2>1. Copied \in SUBSET Nat  BY DEF RecoveryInv, Typed, BuildTyped, Copied
  <2> QED  BY <1>a, <2>1, MinOfSome DEF Copied
<1>6. x \in BucketType /\ x.state = Filled /\ x.row \in Row /\ Names(x, Blocks)
  <2>1. build.copy \in [Copied -> BucketType]  BY DEF RecoveryInv, Typed, BuildTyped, Copied
  <2> QED  BY <1>4, <1>5, <2>1 DEF Names
<1>7. k = Min({i \in 0 .. n - 1 : f[Probe(x.row, i)].state = Empty})  BY <1>4
<1>0. PICK r \in Row : r = x.row  BY <1>6
<1>8. PICK j : r = x.row /\ j = k  BY <1>0
<1>9. b \in DOMAIN f /\ f[b].state = Empty /\ OnPath(f, b, x.row)
  <2>1. j = Min({i \in 0 .. n - 1 : f[Probe(r, i)].state = Empty})  BY <1>7, <1>8
  <2>2. /\ Probe(r, j) \in DOMAIN f /\ f[Probe(r, j)].state = Empty
        /\ OnPath(f, Probe(r, j), r)
    BY <1>1, <1>2, <2>1, FreePlace
  <2> QED  BY <1>8, <2>2
<1>10. \A d \in DOMAIN f : f[d].row # x.row  BY <1>4, <1>5 DEF Buckets
<1>11. /\ Copied' = Copied \ {c} /\ IsFiniteSet(Copied')
       /\ Cardinality(Copied) \in Nat /\ Cardinality(Copied') \in Nat
       /\ Cardinality(Copied) = Cardinality(Copied') + 1
       /\ \A d \in Copied' : build'.copy[d] = build.copy[d]
       /\ build'.count = build.count /\ build'.resume = build.resume
  BY <1>b, <1>4, <1>5, CopyShrinks
<1> HIDE DEF f, c, x, k, b
<1>12. index'.bucket = [f EXCEPT ![b] = x] /\ index'.items = index.items + 1
  BY <1>b, WithBucketIs DEF f
<1>13. Placed(n, c, b, x)
  BY <1>2, <1>4, <1>5, <1>6, <1>9, <1>10, <1>11, <1>12 DEF Placed, Buckets, f, x
<1> QED  BY <1>13

LEMMA LookupPlaces ==
  ASSUME RecoveryInv, FileInv, LookupInv, PlaceExistingRowBucket, Blocks' = Blocks
  PROVE  LookupInv'
<1> DEFINE f == index.bucket
           g == index'.bucket
<1>1. /\ pc = "place" /\ pc' = "place" /\ Copied # {} /\ Enlarges
      /\ build'.resume = build.resume /\ UNCHANGED <<writer, suspect>>
  BY PlaceKeeps
<1>4. BuildInv'  BY <1>1 DEF BuildInv, Enlarges
<1>5. ASSUME ~suspect PROVE TableInv' /\ ClaimInv' /\ CopyInv'
  <2>1. TableInv /\ ClaimInv /\ Cardinality(TakenIn(f)) < Cardinality(Buckets)
    BY <1>1, <1>5, HasRoom DEF InUse
  <2>0. PICK n \in Nat : \E c, b, x : Placed(n, c, b, x)  BY <1>5, PlacesBucket
  <2>a. PICK c, b, x : Placed(n, c, b, x)  BY <2>0
  <2>2. f \in [0 .. n - 1 -> BucketType] /\ Cardinality(Buckets) = n /\ Buckets = 0 .. n - 1
    BY <2>a DEF Placed
  <2>3. CopyInv  BY <1>5, Zenon DEF LookupInv
  <2>4. /\ IsFiniteSet(Copied)
        /\ \A d \in Copied : build.copy[d].state = Filled /\ Names(build.copy[d], Blocks)
        /\ \A d, e \in Copied : build.copy[d].row = build.copy[e].row => d = e
        /\ index.items + Cardinality(Copied) + 1 < build.count
        /\ \A d \in Copied, e \in Buckets : f[e].row # build.copy[d].row
        /\ build.count = n
    BY <1>1, <2>2, <2>3 DEF CopyInv
  <2>5. c \in Copied /\ x = build.copy[c]  BY <2>a DEF Placed
  <2>6. x \in BucketType /\ x.state = Filled /\ x.row \in Row /\ Names(x, Blocks)
    BY <2>a DEF Placed
  <2>9. b \in DOMAIN f /\ f[b].state = Empty /\ OnPath(f, b, x.row)  BY <2>a DEF Placed
  <2>10. \A d \in DOMAIN f : f[d].row # x.row  BY <2>a DEF Placed, Buckets
  <2>11. /\ Copied' = Copied \ {c} /\ IsFiniteSet(Copied')
         /\ Cardinality(Copied') \in Nat
         /\ Cardinality(Copied) = Cardinality(Copied') + 1
         /\ \A d \in Copied' : build'.copy[d] = build.copy[d]
         /\ build'.count = build.count /\ build'.resume = build.resume
    BY <2>a DEF Placed
  <2>12. g = [f EXCEPT ![b] = x] /\ index'.items = index.items + 1  BY <2>a DEF Placed
  <2> HIDE DEF f
  <2>13. Fits1(f, Blocks', b, x)  BY <2>6, <2>9, <2>10 DEF Fits1, Filled, Empty
  <2>14. /\ g \in [0 .. n - 1 -> BucketType] /\ Table(g, Blocks')
         /\ TakenIn(g) = TakenIn(f) \cup {b}
         /\ DOMAIN g = DOMAIN f
    <3>1. g = [f EXCEPT ![b] = x] /\ StoreIn(f, n, Blocks, Blocks', b, x)
      BY <2>1, <2>2, <2>12, <2>13 DEF StoreIn, TableInv, f
    <3> HIDE DEF g
    <3>2. StoredIn(f, n, Blocks', b, g)  BY ONLY <3>1, TableStores
    <3> QED  BY <3>2 DEF StoredIn
  <2>15. Buckets' = Buckets  BY <2>14 DEF Buckets, f
  <2>16. /\ Cardinality(Busy) = 0 /\ Cardinality(Fresh) = 0
         /\ Cardinality(Busy') = 0 /\ Cardinality(Fresh') = 0
         /\ \A t \in Thread : ~Publishing(t) /\ ~Publishing(t)'
    BY <1>1, NobodyCounts, SameCounts
  <2>17. PICK i \in Nat, h \in Nat : i = index.items /\ h = Cardinality(Copied')
    BY <2>11, CountFacts
  <2>18. index'.items = i + 1 /\ i + (h + 1) + 1 < n  BY <2>4, <2>11, <2>12, <2>17
  <2>19. TableInv'
    <3>1. i + 1 + 0 < n  BY <2>17, <2>18
    <3> QED  BY <2>2, <2>14, <2>15, <2>16, <2>18, <3>1 DEF TableInv
  <2>20. InState(Writing)' = {}
    <3>1. InState(Writing) = {}  BY <2>1, <2>16 DEF ClaimInv
    <3>2. \A d \in Buckets : g[d] = f[d] \/ g[d] = x  BY <2>2, <2>12
    <3> QED  BY <2>6, <2>15, <3>1, <3>2 DEF InState, f, Filled, Writing
  <2>21. ClaimInv'
    <3>1. Cardinality(TakenIn(f)) = i  BY <2>1, <2>16, <2>17 DEF ClaimInv, f
    <3>2. IsFiniteSet(TakenIn(f))  BY <2>2, ArrayFacts
    <3>3. b \notin TakenIn(f)  BY <2>9 DEF TakenIn
    <3>4. Cardinality(TakenIn(g)) = i + 1  BY <2>14, <3>1, <3>2, <3>3, FS_AddElement
    <3> QED  BY <2>16, <2>18, <2>20, <3>4 DEF ClaimInv
  <2>22. \A d \in Copied', e \in Buckets' : g[e].row # build'.copy[d].row
    <3>1. TAKE d \in Copied', e \in Buckets'
    <3>2. d \in Copied /\ d # c /\ build'.copy[d] = build.copy[d]  BY <2>11
    <3>3. f[e].row # build.copy[d].row  BY <2>4, <2>15, <3>2
    <3>4. x.row # build.copy[d].row  BY <2>4, <2>5, <3>2
    <3> QED  BY <2>2, <2>12, <2>15, <3>2, <3>3, <3>4
  <2>23. CopyInv'
    <3>1. \A d \in Copied' : build'.copy[d].state = Filled /\ Names(build'.copy[d], Blocks')
      BY <2>4, <2>11
    <3>2. \A d, e \in Copied' : build'.copy[d].row = build'.copy[e].row => d = e
      BY <2>4, <2>11
    <3>3. index'.items + Cardinality(Copied') + 1 < build'.count
      <4>1. i + 1 + h + 1 < n  BY ONLY <2>18, i \in Nat, h \in Nat, n \in Nat
      <4> QED  BY <2>4, <2>11, <2>17, <2>18, <4>1
    <3>4. Cardinality(Buckets') = build'.count  BY <2>2, <2>4, <2>11, <2>15
    <3> QED  BY <1>1, <2>11, <2>22, <3>1, <3>2, <3>3, <3>4 DEF CopyInv
  <2> QED  BY <2>19, <2>21, <2>23
<1> QED  BY <1>1, <1>4, <1>5, Zenon DEF LookupInv

LEMMA LookupReady ==
  ASSUME RecoveryInv, FileInv, LookupInv, IndexReady, Blocks' = Blocks
  PROVE  LookupInv'
<1>1. /\ pc = "place" /\ pc' = build.resume /\ Copied = {} /\ build' = NoBuild
      /\ UNCHANGED <<index, writer, suspect>>
  BY DEF IndexReady, history, Copied
<1>2. build.resume \in {"scan", "insert"}
  BY <1>1 DEF RecoveryInv, PlaceInv, Building
<1>3. BuildInv'  BY <1>1, <1>2 DEF BuildInv, Building
<1>4. ASSUME ~suspect PROVE TableInv' /\ ClaimInv' /\ CopyInv'
  <2>1. TableInv /\ ClaimInv  BY <1>1, <1>4, HasRoom DEF InUse
  <2>2. PICK i \in Nat : i = index.items  BY CountFacts
  <2>3. /\ Cardinality(Busy) = 0 /\ Busy' = Busy
        /\ \A t \in Thread : ~Publishing(t) /\ ~Publishing(t)'
        /\ Fresh' = Fresh
    BY <1>1, NobodyCounts, SameCounts
  <2>4. TableInv'
    <3>1. i + 0 <= i + 0  OBVIOUS
    <3> QED  BY <1>1, <2>1, <2>2, <2>3, <3>1, TableInvKept
  <2>5. ClaimInv'
    <3>1. InState(Writing)' = InState(Writing)  BY <1>1 DEF InState, Buckets
    <3> QED  BY <1>1, <2>1, <2>3, <3>1 DEF ClaimInv
  <2>6. CopyInv'
    <3>1. CopyInv  BY <1>4, Zenon DEF LookupInv
    <3>2. PICK n \in Nat : Cardinality(Buckets) = n  BY IndexIsArray
    <3>3. build.resume = "insert" => i + 1 < n
      <4>1. Cardinality(Copied) = 0  BY <1>1, FS_EmptySet
      <4>2. ASSUME build.resume = "insert" PROVE i + 0 + 1 < n
        <5>1. index.items + Cardinality(Copied) + 1 < build.count /\ Cardinality(Buckets) = build.count
          BY <1>1, <3>1, <4>2 DEF CopyInv, Enlarges, Building
        <5> QED  BY <2>2, <3>2, <4>1, <5>1
      <4> QED  BY <4>2
    <3>4. Buckets' = Buckets  BY <1>1 DEF Buckets
    <3> QED  BY <1>1, <1>2, <2>2, <3>2, <3>3, <3>4 DEF CopyInv, Enlarges, Building
  <2> QED  BY <2>4, <2>5, <2>6
<1> QED  BY <1>1, <1>3, <1>4, Zenon DEF LookupInv

LEMMA LookupEndsShard ==
  ASSUME RecoveryInv, FileInv, LookupInv, ScanShardEnds, Blocks' = Blocks
  PROVE  LookupInv'
<1>1. /\ pc = "scan" /\ pc' \in {"scan", "serving"}
      /\ UNCHANGED <<writer, build, suspect>>
  BY DEF ScanShardEnds, history
<1>2. index'.bucket = index.bucket /\ index'.items = index.items /\ index'.header = index.header
  BY DEF ScanShardEnds, RecoveryInv, Typed, IndexTyped
<1>3. BuildInv' /\ CopyInv'  BY <1>1 DEF BuildInv, CopyInv, Enlarges, Building
<1>4. ASSUME ~suspect PROVE TableInv' /\ ClaimInv'
  <2>1. TableInv /\ ClaimInv  BY <1>1, <1>4, HasRoom DEF InUse
  <2>2. PICK i \in Nat : i = index.items  BY CountFacts
  <2>3. /\ Cardinality(Busy) = 0 /\ Busy' = Busy
        /\ \A t \in Thread : ~Publishing(t) /\ ~Publishing(t)'
        /\ Fresh' = Fresh
    BY <1>1, NobodyCounts, SameCounts
  <2>4. TableInv'
    <3>1. i + 0 <= i + 0  OBVIOUS
    <3> QED  BY <1>2, <2>1, <2>2, <2>3, <3>1, TableInvKept
  <2>5. ClaimInv'
    <3>1. InState(Writing)' = InState(Writing)  BY <1>2 DEF InState, Buckets
    <3> QED  BY <1>2, <2>1, <2>3, <3>1 DEF ClaimInv
  <2> QED  BY <2>4, <2>5
<1> QED  BY <1>1, <1>3, <1>4, Zenon DEF LookupInv

LEMMA LookupStands ==
  ASSUME RecoveryInv, FileInv, LookupInv, UNCHANGED <<pc, index, writer, build, suspect>>,
         Blocks' = Blocks
  PROVE  LookupInv'
<1>1. /\ Busy' = Busy /\ Fresh' = Fresh /\ \A t \in Thread : Publishing(t)' <=> Publishing(t)
  BY SameCounts
<1>2. /\ Building' = Building /\ Enlarges' = Enlarges /\ InUse' = InUse /\ Copied' = Copied
      /\ Buckets' = Buckets /\ InState(Writing)' = InState(Writing)
  BY DEF Building, Enlarges, InUse, Copied, Buckets, InState
<1>3. BuildInv' <=> BuildInv  BY <1>2 DEF BuildInv
<1>4. TableInv' <=> TableInv  BY <1>1, <1>2 DEF TableInv
<1>5. CopyInv' <=> CopyInv  BY <1>2 DEF CopyInv
<1>6. ClaimInv' <=> ClaimInv  BY <1>1, <1>2 DEF ClaimInv, ClaimAt
<1> QED  BY <1>2, <1>3, <1>4, <1>5, <1>6, Zenon DEF LookupInv

LEMMA LookupNextWrite ==
  ASSUME RecoveryInv, RecoveryInv', FileInv, LookupInv, NEW t \in Thread, Write(t)
  PROVE  LookupInv'
<1>1. CASE \E r \in Row : PutRowStructs(t, r)
  <2>1. PICK r \in Row : PutRowStructs(t, r)  BY <1>1
  <2>2. /\ pc = "serving" /\ t \notin Busy /\ \A u \in Thread : writer[u].row # r
        /\ UNCHANGED <<file, pc, opts, scan, build, acked, maybe, suspect>>
        /\ \/ Begins(t, r) /\ Fits(Pending + 1)
           \/ UNCHANGED <<writer, index, append, used, drift>>
    BY <2>1, PutFacts
  <2>3. CASE Begins(t, r) /\ Fits(Pending + 1)
    <3>1. Blocks' = Blocks /\ Busy' = Busy \cup {t}  BY <2>2, <2>3, FileInvBegins
    <3> QED  BY <2>2, <2>3, <3>1, LookupBegins
  <2>4. CASE UNCHANGED <<writer, index, append, used, drift>>
    <3>1. Blocks' = Blocks  BY <2>2 DEF Blocks
    <3> QED  BY <2>2, <2>4, <3>1, LookupStands
  <2> QED  BY <2>2, <2>3, <2>4
<1>2. CASE WritePiece(t) \/ WriteBlock(t)  BY <1>2, LookupWrites
<1>3. CASE WriteBlockFails(t)  BY <1>3, LookupFails
<1>4. CASE FinishWrite(t)  BY <1>4, LookupFinishes
<1>5. CASE ClaimBucket(t)
  <2>1. Blocks \subseteq Blocks' /\ Busy' = Busy  BY <1>5, FileInvNames
  <2> QED  BY <1>5, <2>1, LookupClaims
<1>6. CASE PublishBucket(t)
  <2>1. Blocks \subseteq Blocks' /\ Busy' = Busy  BY <1>6, FileInvNames
  <2> QED  BY <1>6, <2>1, LookupPublishes
<1> QED  BY <1>1, <1>2, <1>3, <1>4, <1>5, <1>6 DEF Write

\* Every step of Open, Close, Crash and DeleteIndex leaves the blocks alone.
LEMMA SessionKeepsBlocks ==
  ASSUME RecoveryInv, FileInv, [Next]_vars, ~\E t \in Thread : Write(t)
  PROVE  Blocks' = Blocks
<1>1. CASE \E o \in Options : Open(o) \/ OpenReadOnly(o)  BY <1>1, FileInvOpens
<1>2. CASE UNCHANGED file  BY <1>2 DEF Blocks
<1>3. ~(\E o \in Options : Open(o) \/ OpenReadOnly(o)) => UNCHANGED file
  BY DEF Next, ClearIndex, CreateEmptyRowIndex, PlaceExistingRowBucket, IndexReady,
         ScanGrows, ScanBlock, ScanFails, ScanShardEnds, Close, Crash, DeleteIndex, vars
<1> QED  BY <1>1, <1>2, <1>3

LEMMA LookupNext ==
  ASSUME RecoveryInv, RecoveryInv', FileInv, LookupInv, [Next]_vars
  PROVE  LookupInv'
<1>1. CASE \E t \in Thread : Write(t)  BY <1>1, LookupNextWrite
<1>2. CASE ~\E t \in Thread : Write(t)
  <2>1. Blocks' = Blocks  BY <1>2, SessionKeepsBlocks
  <2>2. CASE \E o \in Options : Open(o) \/ OpenReadOnly(o)  BY <2>1, <2>2, LookupOpens
  <2>3. CASE ClearIndex  BY <2>1, <2>3, LookupClears
  <2>4. CASE CreateEmptyRowIndex  BY <2>1, <2>4, LookupCreates
  <2>5. CASE PlaceExistingRowBucket  BY <2>1, <2>5, LookupPlaces
  <2>6. CASE IndexReady  BY <2>1, <2>6, LookupReady
  <2>7. CASE ScanGrows  BY <2>1, <2>7, LookupGrows
  <2>8. CASE ScanBlock  BY <2>1, <2>8, LookupScans
  <2>9. CASE ScanShardEnds  BY <2>1, <2>9, LookupEndsShard
  <2>10. CASE ScanFails  BY <2>1, <2>10, LookupCloses DEF ScanFails
  <2>11. CASE Close
    <3>1. Closed /\ index' = index /\ suspect' = suspect  BY <2>11 DEF Close, history
    <3> QED  BY <2>1, <3>1, LookupCloses
  <2>12. CASE Crash
    <3>1. Closed /\ index' = index /\ suspect' = (suspect \/ HalfBuilt)  BY <2>12 DEF Crash
    <3>2. ~suspect' => ~suspect  BY <3>1, Zenon
    <3> QED  BY <2>1, <3>1, <3>2, LookupCloses
  <2>13. CASE DeleteIndex  BY <2>13, LookupDeletes
  <2>14. CASE UNCHANGED vars
    <3>1. UNCHANGED <<pc, index, writer, build, suspect>>  BY <2>14 DEF vars, session, history
    <3> QED  BY <2>1, <3>1, LookupStands
  <2> QED  BY <1>2, <2>2, <2>3, <2>4, <2>5, <2>6, <2>7, <2>8, <2>9, <2>10, <2>11, <2>12,
             <2>13, <2>14 DEF Next
<1> QED  BY <1>1, <1>2

LEMMA LookupInit ==
  ASSUME Init
  PROVE  LookupInv
<1>1. pc = "closed" /\ ~index.header  BY DEF Init, NoIndex
<1>2. BuildInv /\ CopyInv /\ ~InUse  BY <1>1 DEF BuildInv, CopyInv, Enlarges, Building, InUse
<1> QED  BY <1>1, <1>2, Zenon DEF LookupInv

\* Whatever was cut, lost or reopened with other options: an index that is not
\* suspect names whole blocks, each row once and where a search meets it.
THEOREM LookupInvHolds == Spec => [](FileInv /\ LookupInv)
<1> DEFINE Inv == RecoveryInv /\ FileInv /\ LookupInv
<1>1. Init => Inv  BY RecoveryInit, FileInvInit, LookupInit
<1>2. Inv /\ [Next]_vars => Inv'
  <2> SUFFICES ASSUME Inv, [Next]_vars PROVE Inv'  OBVIOUS
  <2>1. RecoveryInv'  BY RecoveryNext
  <2> QED  BY <2>1, FileInvNext, LookupNext
<1> QED  BY <1>1, <1>2, PTL DEF Spec

\* What the index of an open database is, when no write is in progress.
Settled ==
  /\ Table(index.bucket, Blocks)
  /\ Cardinality(TakenIn(index.bucket)) < Cardinality(Buckets)
  /\ InState(Filled) = TakenIn(index.bucket)
  /\ Cardinality(InState(Filled)) = index.items

LEMMA ServingSettled ==
  ASSUME RecoveryInv, FileInv, LookupInv, Serving, ~suspect
  PROVE  Settled
<1>1. InUse /\ (pc # "serving" \/ Quiet)  BY DEF InUse, Serving
<1>2. /\ TableInv /\ ClaimInv
      /\ Cardinality(TakenIn(index.bucket)) < Cardinality(Buckets)
  BY <1>1, HasRoom
<1>3. Cardinality(Fresh) = 0 /\ \A t \in Thread : ~Publishing(t)  BY <1>1, NobodyCounts
<1>4. InState(Filled) = TakenIn(index.bucket)
  <2>1. \A b \in Buckets : index.bucket[b].state \in {Empty, Filled, Writing}
    BY IndexIsArray DEF BucketType
  <2>2. InState(Writing) = {}  BY <1>2, <1>3 DEF ClaimInv
  <2> QED  BY <2>1, <2>2 DEF TakenIn, InState, Buckets, Empty, Filled
<1>5. Cardinality(TakenIn(index.bucket)) = index.items
  <2>1. index.items \in Nat  BY CountFacts
  <2> QED  BY <1>2, <1>3, <2>1 DEF ClaimInv
<1> QED  BY <1>2, <1>4, <1>5 DEF Settled, TableInv

\* GetRowStruct reads the bucket of its row, if there is one.
LEMMA RowAnswer ==
  ASSUME RecoveryInv, Settled, NEW r \in Row
  PROVE  /\ \A b \in InState(Filled) : index.bucket[b].row = r =>
              /\ GetRowStruct(r) = ValueAt(index.bucket[b].shard, index.bucket[b].offset)
              /\ GetRowStruct(r) # 0
         /\ GetRowStruct(r) # 0 => \E b \in InState(Filled) : index.bucket[b].row = r
<1> DEFINE f == index.bucket
           b == FindRowBucket(r, r)
<1>1. PICK n \in Nat : /\ f \in [0 .. n - 1 -> BucketType]
                       /\ Cardinality(Buckets) = n /\ Buckets = 0 .. n - 1
  BY IndexIsArray
<1>2. FilesTyped  BY DEF RecoveryInv, Typed
<1>3. Found(f, b, r)  BY <1>1, <1>2, FindRow DEF Settled
<1>4. GetRowStruct(r) = IF f[b].state = Empty THEN 0 ELSE ValueAt(f[b].shard, f[b].offset)
  BY DEF GetRowStruct
<1> HIDE DEF f, b
<1>5. ASSUME NEW c \in InState(Filled), f[c].row = r
      PROVE  GetRowStruct(r) = ValueAt(f[c].shard, f[c].offset) /\ GetRowStruct(r) # 0
  <2>1. c \in DOMAIN f /\ f[c].state # Empty  BY DEF InState, Buckets, f, Filled, Empty
  <2>2. c = b  BY <1>3, <1>5, <2>1 DEF Found
  <2>3. Names(f[c], Blocks)  BY <1>5, <2>1 DEF Settled, Table, SoundAt, f
  <2>4. ValueAt(f[c].shard, f[c].offset) \in Positive  BY <1>2, <2>3, NamesRead
  <2> QED  BY <1>4, <2>1, <2>2, <2>4 DEF Positive
<1>6. ASSUME GetRowStruct(r) # 0 PROVE \E c \in InState(Filled) : f[c].row = r
  <2>1. b \in DOMAIN f /\ f[b].state # Empty /\ f[b].row = r  BY <1>3, <1>4, <1>6 DEF Found
  <2>2. b \in InState(Filled)  BY <2>1 DEF Settled, TakenIn, f
  <2> QED  BY <2>1, <2>2
<1> QED  BY <1>5, <1>6 DEF f

\* Dump and GetColumnStats, which walk the buckets, and GetRowStruct, which
\* probes for one, know the same rows with the same values, after every crash,
\* rebuild and change of options that leaves the index not suspect.
THEOREM RowDumpsAgree == Spec => []RowDumpAgrees
<1> DEFINE Inv == RecoveryInv /\ FileInv /\ LookupInv
<1>1. Inv => RowDumpAgrees
  <2> SUFFICES ASSUME Inv, Serving, ~suspect
               PROVE  LET Live == {r \in Row : GetRowStruct(r) # 0} IN
                      /\ RowDump = {<<r, GetRowStruct(r)>> : r \in Live}
                      /\ RowCount = Cardinality(Live)
                      /\ index.items = Cardinality(Live)
    BY DEF RowDumpAgrees
  <2> DEFINE Live == {r \in Row : GetRowStruct(r) # 0}
             f == index.bucket
             F == InState(Filled)
  <2>1. Settled  BY ServingSettled
  <2>2. FilesTyped  BY DEF RecoveryInv, Typed
  <2>3. \A b \in F : f[b].row \in Row /\ Names(f[b], Blocks)
    BY <2>1 DEF Settled, Table, SoundAt, InState, Buckets
  <2>4. \A b \in F : ColumnAt(f[b].shard, f[b].offset) = f[b].row  BY <2>2, <2>3, NamesRead
  <2>5. \A b \in F : /\ f[b].row \in Live
                     /\ GetRowStruct(f[b].row) = ValueAt(f[b].shard, f[b].offset)
    BY <2>1, <2>3, RowAnswer
  <2>6. \A r \in Live : \E b \in F : f[b].row = r  BY <2>1, RowAnswer
  <2>7. \A b, c \in F : f[b].row = f[c].row => b = c
    BY <2>1, <2>3 DEF Settled, Table, InState, Buckets
  <2> HIDE DEF Live, F
  <2>8. RowDump = {<<r, GetRowStruct(r)>> : r \in Live}
    <3>1. RowDump = {<<ColumnAt(f[b].shard, f[b].offset), ValueAt(f[b].shard, f[b].offset)>> : b \in F}
      BY DEF RowDump, F
    <3>2. \A b \in F : <<ColumnAt(f[b].shard, f[b].offset), ValueAt(f[b].shard, f[b].offset)>>
                         = <<f[b].row, GetRowStruct(f[b].row)>>
      BY <2>4, <2>5
    <3>3. RowDump = {<<f[b].row, GetRowStruct(f[b].row)>> : b \in F}  BY <3>1, <3>2
    <3> QED  BY <2>5, <2>6, <3>3
  <2>9. Cardinality(F) = Cardinality(Live)
    <3> DEFINE h == [b \in F |-> f[b].row]
    <3>1. h \in [F -> Live]  BY <2>5
    <3>2. \A b, c \in F : h[b] = h[c] => b = c  BY <2>7
    <3>3. \A r \in Live : \E b \in F : h[b] = r  BY <2>6
    <3>4. IsFiniteSet(F)
      <4>1. PICK n \in Nat : f \in [0 .. n - 1 -> BucketType]  BY IndexIsArray
      <4>2. IsFiniteSet(TakenIn(f))  BY <4>1, ArrayFacts
      <4> QED  BY <2>1, <4>2 DEF Settled, F
    <3> HIDE DEF h
    <3>5. h \in Bijection(F, Live)
      BY <3>1, <3>2, <3>3 DEF Bijection, Injection, Surjection, IsInjective
    <3>6. ExistsBijection(F, Live)  BY <3>5 DEF ExistsBijection
    <3> QED  BY <3>4, <3>6, FS_Bijection
  <2>10. RowCount = Cardinality(Live)  BY <2>9 DEF RowCount, F
  <2>11. index.items = Cardinality(Live)  BY <2>1, <2>9 DEF Settled, F
  <2> QED  BY <2>8, <2>10, <2>11 DEF Live
<1>2. Init => Inv  BY RecoveryInit, FileInvInit, LookupInit
<1>3. Inv /\ [Next]_vars => Inv'
  <2> SUFFICES ASSUME Inv, [Next]_vars PROVE Inv'  OBVIOUS
  <2>1. RecoveryInv'  BY RecoveryNext
  <2> QED  BY <2>1, FileInvNext, LookupNext
<1> QED  BY <1>1, <1>2, <1>3, PTL DEF Spec

-----------------------------------------------------------------------------
(* Which block of a row is the latest.                                     *)

\* A block went where its row belongs under some shard count of a session.
HomesInv   == \A x \in Blocks : \E m \in used : x.shard = HashOf[x.row] % m
\* A write in progress goes behind the row's other blocks,
OrderInv   == ~drift => \A t \in Busy : IsLast(BlockFor(t))
\* so the last block of a row holds what a reader may find.
LatestInv  == ~drift => \A x \in Blocks : IsLast(x) => x.val \in Allowed(x.row)
WrittenInv == \A r \in Row : acked[r] # 0 => \E x \in Blocks : x.row = r
BlockInv   == /\ HomesInv /\ OrderInv /\ LatestInv /\ WrittenInv
              /\ DOMAIN acked = Row /\ DOMAIN maybe = Row

LEMMA BlockCellsRead ==
  ASSUME NEW f, NEW o, NEW r, NEW v, IsBlock(f, o, r, v)
  PROVE  /\ \A i \in 1 .. 3 : f[o + i].row = r /\ f[o + i].val = v /\ f[o + i].at = i - 1
         /\ f[o + 1].row = r /\ f[o + 1].val = v /\ f[o + 1].at = 0
<1>1. \A i \in 1 .. 3 :
        f[o + i] = [row |-> r, val |-> v, seq |-> f[o + 1].seq, at |-> i - 1]
  BY DEF IsBlock
<1>2. PICK q : q = f[o + 1].seq  OBVIOUS
<1>3. \A i \in 1 .. 3 : f[o + i].row = r /\ f[o + i].val = v /\ f[o + i].at = i - 1
  <2>1. TAKE i \in 1 .. 3
  <2>2. f[o + i] = [row |-> r, val |-> v, seq |-> q, at |-> i - 1]  BY <1>1, <1>2
  <2> QED  BY <2>2
<1>4. 1 \in 1 .. 3 /\ 1 - 1 = 0  OBVIOUS
<1> QED  BY <1>3, <1>4

LEMMA DivideBy ==
  ASSUME NEW n \in Nat \ {0}, NEW h \in Nat
  PROVE  \E q \in Nat, r \in 0 .. n - 1 : h = n * q + r /\ r = h % n
<1> DEFINE q == h \div n
           r == h % n
<1>1. q \in Nat /\ r \in 0 .. n - 1 /\ h = n * q + r  OBVIOUS
<1> HIDE DEF q
<1> QED  BY <1>1

\* Blocks do not overlap.
LEMMA OneBlock ==
  ASSUME FilesTyped, NEW x \in Blocks, NEW y \in Blocks, x.shard = y.shard,
         x.offset <= y.offset, y.offset < x.offset + 3
  PROVE  x = y
<1> DEFINE f == file[x.shard]
<1>1. /\ x \in BlockType /\ y \in BlockType /\ x.shard \in Shard
      /\ x.offset \in Nat /\ y.offset \in Nat
      /\ IsBlock(f, x.offset, x.row, x.val) /\ IsBlock(f, y.offset, y.row, y.val)
  BY DEF Blocks, BlockType
<1> HIDE DEF f
<1>2. PICK o \in Nat, p \in Nat : o = x.offset /\ p = y.offset  BY <1>1
<1>3. IsBlock(f, o, x.row, x.val) /\ IsBlock(f, p, y.row, y.val)  BY <1>1, <1>2
<1>4. /\ \A i \in 1 .. 3 : f[o + i].at = i - 1
      /\ f[o + 1].row = x.row /\ f[o + 1].val = x.val
      /\ f[p + 1].row = y.row /\ f[p + 1].val = y.val /\ f[p + 1].at = 0
  BY <1>3, BlockCellsRead
<1>5. PICK j \in 1 .. 3 : j = p - o + 1 /\ o + j = p + 1  BY <1>2
<1>6. f[p + 1].at = j - 1
  <2>1. f[o + j].at = j - 1  BY <1>4
  <2> QED  BY <1>5, <2>1
<1>7. j = 1 /\ p = o
  <2>1. j - 1 = 0  BY ONLY <1>4, <1>6
  <2> QED  BY ONLY <1>5, <2>1, j \in 1 .. 3, p \in Nat, o \in Nat
<1>8. x.row = y.row /\ x.val = y.val  BY <1>4, <1>7
<1>9. x.offset = y.offset  BY <1>2, <1>7
<1> QED  BY <1>1, <1>8, <1>9 DEF BlockType

LEMMA SameBlock ==
  ASSUME FilesTyped, NEW x \in Blocks, NEW y \in Blocks, x.shard = y.shard,
         x.offset = y.offset
  PROVE  x = y
<1>1. x.offset \in Nat  BY DEF Blocks, BlockType
<1>2. x.offset <= y.offset /\ y.offset < x.offset + 3  BY <1>1
<1> QED  BY <1>2, OneBlock

\* The last block of a row is one.
LEMMA LastIsOne ==
  ASSUME FilesTyped, NEW x \in Blocks, NEW y \in Blocks, x.row = y.row, IsLast(x), IsLast(y)
  PROVE  x = y
<1>1. UpTo(x, y) /\ UpTo(y, x)  BY DEF IsLast
<1>2. x.shard \in Nat /\ y.shard \in Nat /\ x.offset \in Nat /\ y.offset \in Nat
  <2>1. x.shard \in Shard /\ y.shard \in Shard  BY DEF Blocks, BlockType
  <2>2. \A s \in Shard : s \in Nat
    <3>1. \A s \in Shard : \E o \in Options : s \in 0 .. o.shards - 1  BY DEF Shard
    <3> QED  BY <3>1, OpenedShards
  <2> QED  BY <2>1, <2>2 DEF Blocks, BlockType
<1>3. x.shard = y.shard /\ x.offset = y.offset  BY ONLY <1>1, <1>2 DEF UpTo
<1> QED  BY <1>3, SameBlock

\* More shards, of which the former count is a divisor, move no row backwards.
LEMMA ShardGrows ==
  ASSUME NEW h \in Nat, NEW m \in Nat \ {0}, NEW n \in Nat \ {0}, n % m = 0
  PROVE  h % m <= h % n
<1>1. PICK k \in Nat, z \in 0 .. m - 1 : n = m * k + z /\ z = n % m  BY DivideBy
<1>2. PICK q \in Nat, r \in 0 .. n - 1 : h = n * q + r /\ r = h % n  BY DivideBy
<1>3. PICK a \in Nat, b \in 0 .. m - 1 : r = m * a + b
  <2>1. r \in Nat  BY <1>2
  <2>2. \E d \in Nat, e \in 0 .. m - 1 : r = m * d + e /\ e = r % m
    BY ONLY <2>1, DivideBy, m \in Nat \ {0}
  <2> QED  BY ONLY <2>2
<1>4. n = m * k  BY <1>1
<1>5. n * q = m * (k * q)  BY <1>1, <1>2, <1>4
<1>6. m * (k * q) + m * a = m * (k * q + a)
  <2>1. k * q \in Nat  BY <1>1, <1>2
  <2> QED  BY <1>3, <2>1
<1>7. PICK e \in Nat : e = k * q + a
  <2>1. k * q \in Nat  BY <1>1, <1>2
  <2> QED  BY <1>3, <2>1
<1>8. h = m * e + b
  <2>1. PICK u \in Nat, w \in Nat : u = n * q /\ w = m * a  BY <1>2, <1>3
  <2>2. m * e = u + w  BY <1>5, <1>6, <1>7, <2>1
  <2>3. h = u + r /\ r = w + b  BY <1>2, <1>3, <2>1
  <2>4. PICK v : v = m * e  OBVIOUS
  <2> QED  BY ONLY <2>2, <2>3, <2>4, u \in Nat, w \in Nat, b \in 0 .. m - 1, m \in Nat
<1>9. h % m = b  BY <1>3, <1>7, <1>8, RemainderOf
<1>10. b <= r
  <2>1. m * a \in Nat  BY <1>3
  <2> QED  BY <1>3, <2>1
<1> QED  BY <1>2, <1>9, <1>10

-----------------------------------------------------------------------------
(* BlockInv is inductive.                                                  *)

LEMMA BlockInvKept ==
  ASSUME BlockInv, Blocks' = Blocks, used \subseteq used', ~drift' => ~drift,
         \A r \in Row : Allowed(r) \subseteq Allowed(r)',
         \A t \in Busy' : t \in Busy /\ BlockFor(t)' = BlockFor(t),
         acked' = acked, DOMAIN maybe' = Row
  PROVE  BlockInv'
<1>1. \A x : IsLast(x)' <=> IsLast(x)  BY DEF IsLast, UpTo
<1>2. HomesInv'  BY DEF BlockInv, HomesInv
<1>3. OrderInv'
  <2> SUFFICES ASSUME ~drift', NEW t \in Busy' PROVE IsLast(BlockFor(t))'  BY DEF OrderInv
  <2>1. ~drift  OBVIOUS
  <2>2. IsLast(BlockFor(t))  BY <2>1 DEF BlockInv, OrderInv
  <2>3. PICK z : z = BlockFor(t) /\ z = BlockFor(t)'  OBVIOUS
  <2> QED  BY <2>2, <2>3 DEF IsLast, UpTo
<1>4. LatestInv'
  <2> SUFFICES ASSUME ~drift', NEW x \in Blocks', IsLast(x)' PROVE x.val \in Allowed(x.row)'
    BY DEF LatestInv
  <2>1. ~drift  OBVIOUS
  <2>2. x \in Blocks /\ IsLast(x)  BY <1>1
  <2>3. x.val \in Allowed(x.row)  BY <2>1, <2>2 DEF BlockInv, LatestInv
  <2>4. x.row \in Row  BY <2>2 DEF Blocks, BlockType
  <2> QED  BY <2>3, <2>4
<1>5. WrittenInv'  BY DEF BlockInv, WrittenInv
<1> QED  BY <1>2, <1>3, <1>4, <1>5 DEF BlockInv

\* What a write in progress carries stays.
LEMMA WriteGoesOn ==
  ASSUME RecoveryInv, RecoveryInv', FileInv, NEW t \in Thread,
         WritePiece(t) \/ WriteBlock(t) \/ ClaimBucket(t) \/ PublishBucket(t)
  PROVE  /\ Busy' = Busy /\ t \in Busy
         /\ \A u \in Thread : /\ BlockFor(u)' = BlockFor(u)
                              /\ writer'[u].row = writer[u].row
                              /\ writer'[u].val = writer[u].val
         /\ UNCHANGED <<used, drift, acked, maybe, pc, suspect>>
         /\ \A r \in Row : Allowed(r)' = Allowed(r)
<1>1. /\ UNCHANGED <<used, drift, acked, maybe, opts, pc, suspect>>
      /\ writer[t].pc \in {"write", "writeRest", "claim", "publish"}
  BY DEF WritePiece, WriteBlock, ClaimBucket, PublishBucket, At, history
<1>2. /\ writer'[t].pc \in {"writeRest", "claim", "publish", "count"}
      /\ writer'[t].row = writer[t].row /\ writer'[t].val = writer[t].val
      /\ writer'[t].offset = writer[t].offset
      /\ \A u \in Thread : u # t => writer'[u] = writer[u]
  <2>1. CASE WritePiece(t)
    <3>1. Goto(t, "writeRest")  BY <2>1 DEF WritePiece
    <3> QED  BY <3>1, GotoWriter
  <2>2. CASE WriteBlock(t)
    <3>1. Goto(t, "claim")  BY <2>2 DEF WriteBlock
    <3> QED  BY <3>1, GotoWriter
  <2>3. CASE PublishBucket(t)
    <3>1. Goto(t, "count")  BY <2>3 DEF PublishBucket
    <3> QED  BY <3>1, GotoWriter
  <2>4. CASE ClaimBucket(t)
    <3>1. PICK b, i : writer' = [writer EXCEPT ![t].pc = "publish", ![t].bucket = b,
                                   ![t].inserted = i]
      BY <2>4 DEF ClaimBucket
    <3>2. DOMAIN writer = Thread /\ WriterTyped(writer[t])
      BY DEF RecoveryInv, Typed, WritersTyped
    <3> QED  BY <3>1, <3>2 DEF WriterTyped
  <2> QED  BY <2>1, <2>2, <2>3, <2>4
<1>3. Busy' = Busy /\ t \in Busy  BY <1>1, <1>2 DEF Busy
<1>4. \A u \in Thread : /\ BlockFor(u)' = BlockFor(u)
                        /\ writer'[u].row = writer[u].row
                        /\ writer'[u].val = writer[u].val
  BY <1>1, <1>2 DEF BlockFor, HomeOf, ShardForRow
<1>5. \A r \in Row : Allowed(r)' = Allowed(r)
  <2>1. \A u \in Busy : writer'[u].row = writer[u].row /\ writer'[u].val = writer[u].val
    BY <1>4 DEF Busy
  <2>2. \A r \in Row : InFlight(r)' = InFlight(r)  BY <1>3, <2>1 DEF InFlight
  <2> QED  BY <1>1, <2>2 DEF Allowed
<1> QED  BY <1>1, <1>3, <1>4, <1>5

LEMMA BlockInvWrites ==
  ASSUME RecoveryInv, RecoveryInv', FileInv, BlockInv, NEW t \in Thread, WriteBlock(t)
  PROVE  BlockInv'
<1>1. FilesTyped /\ FilesTyped'  BY DEF RecoveryInv, Typed
<1>2. Blocks' = Blocks \cup {BlockFor(t)} /\ BlockFor(t) \notin Blocks /\ FileInv'
  BY <1>1, FileInvWrites
<1>3. /\ Busy' = Busy /\ t \in Busy
      /\ \A u \in Thread : /\ BlockFor(u)' = BlockFor(u)
                           /\ writer'[u].row = writer[u].row
                           /\ writer'[u].val = writer[u].val
      /\ UNCHANGED <<used, drift, acked, maybe>>
      /\ \A r \in Row : Allowed(r)' = Allowed(r)
  BY WriteGoesOn
<1>4. opts.shards \in used /\ \A u \in Busy : writer[u].row = writer[t].row => u = t
  BY <1>3 DEF FileInv, WriteInv
<1> DEFINE w == BlockFor(t)
<1>5. /\ w.row = writer[t].row /\ w.val = writer[t].val
      /\ w.shard = HashOf[w.row] % opts.shards
  BY DEF BlockFor, HomeOf, ShardForRow
<1>6. \A u \in Busy : u # t => BlockFor(u).row # w.row  BY <1>4, <1>5 DEF BlockFor
<1>7. \A u \in Busy : u \in Thread  BY DEF Busy
<1>8. w \in Blocks' /\ w.row \in Row
  <2>1. w.row \in Row  BY <1>3, <1>5 DEF FileInv, WriteInv
  <2> QED  BY <1>2, <2>1
<1>9. w.val \in Allowed(w.row)
  <2>1. w.val \in InFlight(w.row)  BY <1>3, <1>5 DEF InFlight
  <2> QED  BY <2>1 DEF Allowed
<1> HIDE DEF w
<1>10. HomesInv'  BY <1>2, <1>3, <1>4, <1>5 DEF BlockInv, HomesInv, w
<1>11. OrderInv'
  <2> SUFFICES ASSUME ~drift', NEW u \in Busy', NEW y \in Blocks', y.row = BlockFor(u).row
               PROVE  UpTo(y, BlockFor(u))
    BY <1>3, <1>7 DEF OrderInv, IsLast, UpTo
  <2>1. u \in Busy /\ IsLast(BlockFor(u))  BY <1>3 DEF BlockInv, OrderInv
  <2>2. CASE y \in Blocks  BY <2>1, <2>2 DEF IsLast
  <2>3. CASE y = w
    <3>1. u = t  BY <1>6, <2>1, <2>3
    <3>2. w.offset \in Nat  BY <1>8 DEF Blocks, BlockType
    <3>3. w.offset <= w.offset  BY <3>2
    <3> QED  BY <2>3, <3>1, <3>3 DEF UpTo, w
  <2> QED  BY <1>2, <2>2, <2>3 DEF w
<1>12. LatestInv'
  <2> SUFFICES ASSUME ~drift', NEW x \in Blocks', IsLast(x)'
               PROVE  x.val \in Allowed(x.row)'
    BY DEF LatestInv
  <2>1. x.row \in Row  BY DEF Blocks, BlockType
  <2>2. \A y \in Blocks' : y.row = x.row => UpTo(y, x)  BY DEF IsLast, UpTo
  <2>3. CASE x = w  BY <1>3, <1>9, <2>1, <2>3
  <2>4. CASE x \in Blocks
    <3>1. IsLast(x)  BY <1>2, <2>2 DEF IsLast
    <3>2. x.val \in Allowed(x.row)  BY <1>3, <2>4, <3>1 DEF BlockInv, LatestInv
    <3> QED  BY <1>3, <2>1, <3>2
  <2> QED  BY <1>2, <2>3, <2>4 DEF w
<1>13. WrittenInv'  BY <1>2, <1>3 DEF BlockInv, WrittenInv
<1>14. DOMAIN acked' = Row /\ DOMAIN maybe' = Row  BY <1>3 DEF BlockInv
<1> QED  BY <1>10, <1>11, <1>12, <1>13, <1>14 DEF BlockInv

LEMMA BlockInvFinishes ==
  ASSUME RecoveryInv, FileInv, BlockInv, NEW t \in Thread, FinishWrite(t)
  PROVE  BlockInv' /\ \A r \in Row : r # writer[t].row => Allowed(r)' = Allowed(r)
<1>1. /\ pc = "serving" /\ writer' = [writer EXCEPT ![t] = Idle]
      /\ UNCHANGED <<file, append, opts, pc, used, drift>>
      /\ writer[t].pc = "count"
      /\ acked' = [acked EXCEPT ![writer[t].row] = writer[t].val]
      /\ maybe' = [maybe EXCEPT ![writer[t].row] = {}]
  BY DEF FinishWrite, At
<1>2. Blocks' = Blocks /\ Busy' = Busy \ {t}  BY <1>1, FileInvEnds
<1>3. DOMAIN writer = Thread /\ FilesTyped  BY DEF RecoveryInv, Typed, WritersTyped
<1>4. \A u \in Thread : u # t => writer'[u] = writer[u]  BY <1>1, <1>3
<1>5. t \in Busy /\ \A u \in Busy : u \in Thread  BY <1>1 DEF Busy
<1>6. /\ writer[t].row \in Row /\ BlockFor(t) \in Blocks
      /\ \A u \in Busy : writer[u].row = writer[t].row => u = t
  BY <1>1, <1>5 DEF FileInv, WriteInv, Placing
<1>7. ASSUME NEW r \in Row, r # writer[t].row PROVE Allowed(r)' = Allowed(r)
  <2>1. {u \in Busy' : writer'[u].row = r} = {u \in Busy : writer[u].row = r}
    BY <1>2, <1>4, <1>5, <1>7
  <2>2. \A u \in {v \in Busy : writer[v].row = r} : writer'[u] = writer[u]
    BY <1>4, <1>5, <1>7
  <2>3. InFlight(r)' = InFlight(r)  BY <2>1, <2>2 DEF InFlight
  <2>4. maybe'[r] = maybe[r] /\ acked'[r] = acked[r]  BY <1>1, <1>7
  <2> QED  BY <2>3, <2>4 DEF Allowed
<1>8. BlockFor(t).row = writer[t].row /\ BlockFor(t).val = writer[t].val  BY DEF BlockFor
<1>9. acked'[writer[t].row] = writer[t].val /\ \A r \in Row : r # writer[t].row => acked'[r] = acked[r]
  BY <1>1, <1>6 DEF BlockInv
<1>10. \A x : IsLast(x)' <=> IsLast(x)  BY <1>2 DEF IsLast, UpTo
<1>11. HomesInv'  BY <1>1, <1>2 DEF BlockInv, HomesInv
<1>12. OrderInv'
  <2> SUFFICES ASSUME ~drift', NEW u \in Busy' PROVE IsLast(BlockFor(u))'  BY DEF OrderInv
  <2>1. u \in Busy /\ writer'[u] = writer[u]  BY <1>2, <1>4, <1>5
  <2>2. BlockFor(u)' = BlockFor(u)  BY <1>1, <2>1 DEF BlockFor, HomeOf, ShardForRow
  <2>3. IsLast(BlockFor(u))  BY <1>1, <2>1 DEF BlockInv, OrderInv
  <2> QED  BY <1>2, <2>2, <2>3 DEF IsLast, UpTo
<1>13. LatestInv'
  <2> SUFFICES ASSUME ~drift', NEW x \in Blocks', IsLast(x)'
               PROVE  x.val \in Allowed(x.row)'
    BY DEF LatestInv
  <2>1. x \in Blocks /\ IsLast(x) /\ x.row \in Row  BY <1>2, <1>10 DEF Blocks, BlockType
  <2>2. CASE x.row # writer[t].row
    <3>1. x.val \in Allowed(x.row)  BY <1>1, <2>1 DEF BlockInv, LatestInv
    <3> QED  BY <1>7, <2>1, <2>2, <3>1
  <2>3. CASE x.row = writer[t].row
    <3>1. IsLast(BlockFor(t))  BY <1>1, <1>5 DEF BlockInv, OrderInv
    <3>2. PICK y \in Blocks : y = BlockFor(t)  BY <1>6
    <3>3. x = y  BY <1>3, <1>8, <2>1, <2>3, <3>1, <3>2, LastIsOne
    <3>4. x.val = acked'[x.row]  BY <1>8, <1>9, <2>3, <3>2, <3>3
    <3> QED  BY <3>4 DEF Allowed
  <2> QED  BY <2>2, <2>3
<1>14. WrittenInv'
  <2> SUFFICES ASSUME NEW r \in Row, acked'[r] # 0 PROVE \E x \in Blocks' : x.row = r
    BY DEF WrittenInv
  <2>1. CASE r = writer[t].row  BY <1>2, <1>6, <1>8, <2>1
  <2>2. CASE r # writer[t].row  BY <1>2, <1>9, <2>2 DEF BlockInv, WrittenInv
  <2> QED  BY <2>1, <2>2
<1>15. DOMAIN acked' = Row /\ DOMAIN maybe' = Row  BY <1>1 DEF BlockInv
<1> QED  BY <1>7, <1>11, <1>12, <1>13, <1>14, <1>15 DEF BlockInv

\* A new write goes behind what its row has.
LEMMA BehindTheOthers ==
  ASSUME RecoveryInv, FileInv, HomesInv, pc = "serving", NEW r \in Row,
         \A m \in used : opts.shards % m = 0, NEW y \in Blocks, y.row = r,
         NEW x, x.shard = ShardForRow(r), x.offset = append[ShardForRow(r)]
  PROVE  UpTo(y, x)
<1>1. opts \in Options /\ FilesTyped /\ append \in [Shard -> Nat]
  BY DEF RecoveryInv, Typed, SessionTyped
<1>2. opts.shards \in Nat \ {0}  BY <1>1, OpenedShards
<1>3. PICK h \in Nat : h = HashOf[r]  BY RecoveryAssumption
<1>4. PICK m \in used : y.shard = h % m  BY <1>3 DEF HomesInv
<1>5. m \in Nat \ {0} /\ opts.shards % m = 0  BY <1>4 DEF FileInv, WriteInv, Positive
<1>6. PICK n \in Nat \ {0} : n = opts.shards  BY <1>2
<1>7. h % m <= h % n  BY <1>5, <1>6, ShardGrows
<1>8. y.shard <= x.shard /\ x.shard = h % n
  BY <1>3, <1>4, <1>6, <1>7 DEF ShardForRow
<1>9. h % m \in Nat /\ h % n \in Nat
  BY ONLY h \in Nat, <1>5, n \in Nat \ {0}
<1>10. CASE y.shard = x.shard
  <2>1. x.shard \in Opened /\ x.shard \in Shard  BY <1>1, ShardForRowOpened
  <2>2. Len(file[x.shard]) <= append[x.shard]  BY <2>1 DEF FileInv, RangeInv
  <2>3. Len(file[x.shard]) \in Nat /\ append[x.shard] \in Nat  BY <1>1, <2>1 DEF FilesTyped
  <2>4. y.offset \in Nat /\ y.offset + 3 <= Len(file[x.shard])
    BY <1>10 DEF Blocks, BlockType, IsBlock
  <2>5. y.offset <= x.offset  BY <2>2, <2>3, <2>4
  <2> QED  BY <1>10, <2>5 DEF UpTo
<1>11. CASE y.shard # x.shard
  <2>1. y.shard < x.shard  BY <1>4, <1>8, <1>9, <1>11
  <2> QED  BY <2>1 DEF UpTo
<1> QED  BY <1>10, <1>11

LEMMA BlockInvBegins ==
  ASSUME RecoveryInv, FileInv, BlockInv, NEW t \in Thread, NEW r \in Row, Begins(t, r),
         pc = "serving", t \notin Busy, \A u \in Thread : writer[u].row # r,
         UNCHANGED <<file, pc, opts, acked, maybe>>
  PROVE  BlockInv' /\ \A q \in Row : Allowed(q) \subseteq Allowed(q)'
<1>1. Blocks' = Blocks /\ Busy' = Busy \cup {t}  BY FileInvBegins
<1>2. /\ \A u \in Thread : u # t => writer'[u] = writer[u]
      /\ writer'[t].row = r /\ writer'[t].offset = append[ShardForRow(r)]
      /\ used' = used \cup {opts.shards}
      /\ drift' = (drift \/ \E m \in used : opts.shards % m # 0)
  BY DEF Begins
<1>3. \A u \in Busy : u \in Thread /\ u # t  BY DEF Busy
<1>4. \A q \in Row : Allowed(q) \subseteq Allowed(q)'
  <2>1. TAKE q \in Row
  <2>2. InFlight(q) \subseteq InFlight(q)'
    <3> SUFFICES ASSUME NEW u \in Busy, writer[u].row = q PROVE writer[u].val \in InFlight(q)'
      BY DEF InFlight
    <3>1. u \in Busy' /\ writer'[u] = writer[u]  BY <1>1, <1>2, <1>3
    <3> QED  BY <3>1 DEF InFlight
  <2> QED  BY <2>2 DEF Allowed
<1>5. HomesInv'  BY <1>1, <1>2 DEF BlockInv, HomesInv
<1>6. ~drift' => ~drift /\ \A m \in used : opts.shards % m = 0  BY <1>2, Zenon
<1>7. \A x : IsLast(x)' <=> IsLast(x)  BY <1>1 DEF IsLast, UpTo
<1>8. OrderInv'
  <2> SUFFICES ASSUME ~drift', NEW u \in Busy', NEW y \in Blocks, y.row = BlockFor(u)'.row
               PROVE  UpTo(y, BlockFor(u)')
    BY <1>1 DEF OrderInv, IsLast, UpTo
  <2>1. CASE u = t
    <3>1. /\ BlockFor(t)'.row = r /\ BlockFor(t)'.shard = ShardForRow(r)
          /\ BlockFor(t)'.offset = append[ShardForRow(r)]
      BY <1>2 DEF BlockFor, HomeOf, ShardForRow
    <3>2. y.row = r /\ HomesInv  BY <2>1, <3>1 DEF BlockInv
    <3>3. PICK x : x = BlockFor(t)'  OBVIOUS
    <3>4. UpTo(y, x)  BY <1>6, <3>1, <3>2, <3>3, BehindTheOthers
    <3> QED  BY <2>1, <3>3, <3>4
  <2>2. CASE u # t
    <3>1. u \in Busy /\ writer'[u] = writer[u]  BY <1>1, <1>2, <1>3, <2>2
    <3>2. BlockFor(u)' = BlockFor(u)  BY <3>1 DEF BlockFor, HomeOf, ShardForRow
    <3>3. IsLast(BlockFor(u))  BY <1>6, <3>1 DEF BlockInv, OrderInv
    <3> QED  BY <3>2, <3>3 DEF IsLast
  <2> QED  BY <2>1, <2>2
<1>9. LatestInv'
  <2> SUFFICES ASSUME ~drift', NEW x \in Blocks', IsLast(x)'
               PROVE  x.val \in Allowed(x.row)'
    BY DEF LatestInv
  <2>1. x \in Blocks /\ IsLast(x) /\ x.row \in Row  BY <1>1, <1>7 DEF Blocks, BlockType
  <2>2. x.val \in Allowed(x.row)  BY <1>6, <2>1 DEF BlockInv, LatestInv
  <2> QED  BY <1>4, <2>1, <2>2
<1>10. WrittenInv' /\ DOMAIN acked' = Row /\ DOMAIN maybe' = Row
  BY <1>1 DEF BlockInv, WrittenInv
<1> QED  BY <1>4, <1>5, <1>8, <1>9, <1>10 DEF BlockInv

\* A write that fails, and a process that dies, may leave their values behind.
LEMMA AllowedWhenFailed ==
  ASSUME RecoveryInv, FileInv, BlockInv, NEW t \in Thread, WriteBlockFails(t)
  PROVE  /\ \A r \in Row : Allowed(r) \subseteq Allowed(r)'
         /\ Busy' = Busy \ {t} /\ Blocks' = Blocks /\ DOMAIN maybe' = Row
         /\ \A u \in Busy' : u \in Busy /\ BlockFor(u)' = BlockFor(u)
         /\ UNCHANGED <<used, drift, acked, index, pc, suspect, opts>>
<1>1. /\ pc = "serving" /\ writer' = [writer EXCEPT ![t] = Idle]
      /\ UNCHANGED <<file, append, opts, pc, used, drift, acked, index, suspect>>
      /\ maybe' = [maybe EXCEPT ![writer[t].row] = @ \cup {writer[t].val}]
      /\ writer[t].pc \in {"write", "writeRest"}
  BY DEF WriteBlockFails, At
<1>2. Busy' = Busy \ {t} /\ Blocks' = Blocks  BY <1>1, FileInvEnds
<1>3. DOMAIN writer = Thread  BY DEF RecoveryInv, Typed, WritersTyped
<1>4. \A u \in Busy' : u \in Busy /\ writer'[u] = writer[u]  BY <1>1, <1>2, <1>3 DEF Busy
<1>5. \A u \in Busy' : u \in Busy /\ BlockFor(u)' = BlockFor(u)
  BY <1>1, <1>4 DEF BlockFor, HomeOf, ShardForRow
<1>6. t \in Busy  BY <1>1 DEF Busy
<1>7. DOMAIN maybe = Row /\ writer[t].row \in Row  BY <1>6 DEF BlockInv, FileInv, WriteInv
<1>8. /\ DOMAIN maybe' = Row
      /\ \A r \in Row : maybe[r] \subseteq maybe'[r]
      /\ writer[t].val \in maybe'[writer[t].row]
  BY <1>1, <1>7
<1>9. ASSUME NEW r \in Row PROVE Allowed(r) \subseteq Allowed(r)'
  <2>1. ASSUME NEW u \in Busy, writer[u].row = r PROVE writer[u].val \in Allowed(r)'
    <3>1. CASE u = t  BY <1>8, <2>1, <3>1 DEF Allowed
    <3>2. CASE u # t
      <4>1. u \in Busy' /\ writer'[u] = writer[u]  BY <1>2, <1>4, <3>2
      <4> QED  BY <2>1, <4>1 DEF Allowed, InFlight
    <3> QED  BY <3>1, <3>2
  <2>2. {acked[r]} \cup maybe[r] \subseteq Allowed(r)'  BY <1>1, <1>8 DEF Allowed
  <2> QED  BY <2>1, <2>2 DEF Allowed, InFlight
<1> QED  BY <1>1, <1>2, <1>5, <1>8, <1>9

\* Every step but the ones of a write.
LEMMA AllowedInSession ==
  ASSUME RecoveryInv, FileInv, BlockInv, [Next]_vars, ~\E t \in Thread : Write(t)
  PROVE  /\ \A r \in Row : Allowed(r) \subseteq Allowed(r)'
         /\ Blocks' = Blocks /\ DOMAIN maybe' = Row
         /\ \A u \in Busy' : u \in Busy /\ BlockFor(u)' = BlockFor(u)
         /\ UNCHANGED <<used, drift, acked>>
<1>1. Blocks' = Blocks  BY SessionKeepsBlocks
<1>2. DOMAIN maybe = Row  BY DEF BlockInv
<1>3. \A u \in Busy : u \in Thread  BY DEF Busy
<1>4. CASE Crash
  <2>1. /\ \A t \in Thread : writer'[t] = Idle
        /\ maybe' = [r \in Row |-> maybe[r] \cup
                {writer[t].val : t \in {u \in Thread : writer[u].row = r}}]
        /\ UNCHANGED <<used, drift, acked>>
    BY <1>4 DEF Crash, Closed
  <2>2. Busy' = {}  BY <2>1, NobodyCountsThen
  <2>3. \A r \in Row : Allowed(r) \subseteq Allowed(r)'
    BY <1>3, <2>1 DEF Allowed, InFlight
  <2> QED  BY <1>1, <2>1, <2>2, <2>3
<1>5. CASE ~Crash
  <2>1. UNCHANGED <<used, drift, acked, maybe>>
    BY <1>5 DEF Next, Open, OpenReadOnly, ClearIndex, CreateEmptyRowIndex,
       PlaceExistingRowBucket, IndexReady, ScanGrows, ScanBlock, ScanFails, ScanShardEnds,
       Close, DeleteIndex, vars, history
  <2>2. CASE writer' = writer /\ (opts' = opts \/ Busy = {})
    <3>1. Busy' = Busy  BY <2>2 DEF Busy
    <3>2. \A r \in Row : Allowed(r)' = Allowed(r)  BY <2>1, <2>2, <3>1 DEF Allowed, InFlight
    <3>3. \A u \in Busy' : u \in Busy /\ BlockFor(u)' = BlockFor(u)
      BY <2>2, <3>1 DEF BlockFor, HomeOf, ShardForRow
    <3> QED  BY <1>1, <1>2, <2>1, <3>2, <3>3
  <2>3. CASE Busy = {} /\ Busy' = {}
    <3>1. \A r \in Row : Allowed(r)' = Allowed(r)  BY <2>1, <2>3 DEF Allowed, InFlight
    <3> QED  BY <1>1, <1>2, <2>1, <2>3, <3>1
  <2>4. \/ writer' = writer /\ (opts' = opts \/ Busy = {})
        \/ Busy = {} /\ Busy' = {}
    <3>1. CASE \E o \in Options : Open(o) \/ OpenReadOnly(o)
      <4>1. pc = "closed" /\ writer' = writer  BY <3>1 DEF Open, OpenReadOnly
      <4> QED  BY <4>1, NobodyWrites
    <3>2. CASE ScanFails \/ Close
      <4>1. /\ pc # "serving" \/ Quiet
            /\ \A t \in Thread : writer'[t] = Idle
        BY <3>2 DEF ScanFails, Close, Closed
      <4> QED  BY <4>1, NobodyWrites, NobodyCountsThen
    <3>3. CASE ClearIndex \/ CreateEmptyRowIndex \/ PlaceExistingRowBucket \/ IndexReady
      BY <3>3 DEF ClearIndex, CreateEmptyRowIndex, PlaceExistingRowBucket, IndexReady
    <3>4. CASE ScanGrows \/ ScanBlock \/ ScanShardEnds
      BY <3>4 DEF ScanGrows, ScanBlock, ScanShardEnds
    <3>5. CASE DeleteIndex  BY <3>5 DEF DeleteIndex, session
    <3>6. CASE UNCHANGED vars  BY <3>6 DEF vars, session
    <3> QED  BY <1>5, <3>1, <3>2, <3>3, <3>4, <3>5, <3>6 DEF Next
  <2> QED  BY <2>2, <2>3, <2>4
<1> QED  BY <1>4, <1>5

LEMMA BlockInvNext ==
  ASSUME RecoveryInv, RecoveryInv', FileInv, BlockInv, [Next]_vars
  PROVE  BlockInv'
<1>1. CASE ~\E t \in Thread : Write(t)
  <2>1. /\ \A r \in Row : Allowed(r) \subseteq Allowed(r)'
        /\ Blocks' = Blocks /\ DOMAIN maybe' = Row
        /\ \A u \in Busy' : u \in Busy /\ BlockFor(u)' = BlockFor(u)
        /\ UNCHANGED <<used, drift, acked>>
    BY <1>1, AllowedInSession
  <2>2. ~drift' => ~drift  BY <2>1, Zenon
  <2> QED  BY <2>1, <2>2, BlockInvKept
<1>2. ASSUME NEW t \in Thread, Write(t) PROVE BlockInv'
  <2>1. CASE \E r \in Row : PutRowStructs(t, r)
    <3>1. PICK r \in Row : PutRowStructs(t, r)  BY <2>1
    <3>2. /\ pc = "serving" /\ t \notin Busy /\ \A u \in Thread : writer[u].row # r
          /\ UNCHANGED <<file, pc, opts, scan, build, acked, maybe, suspect>>
          /\ Begins(t, r) \/ UNCHANGED <<writer, index, append, used, drift>>
      BY <3>1, PutFacts
    <3>3. CASE Begins(t, r)  BY <3>2, <3>3, BlockInvBegins
    <3>4. CASE UNCHANGED <<writer, index, append, used, drift>>
      <4>1. /\ Blocks' = Blocks /\ Busy' = Busy
            /\ \A u \in Busy : BlockFor(u)' = BlockFor(u)
            /\ \A r2 \in Row : Allowed(r2)' = Allowed(r2)
        BY <3>2, <3>4 DEF Blocks, Busy, BlockFor, HomeOf, ShardForRow, Allowed, InFlight
      <4>2. ~drift' => ~drift  BY <3>4, Zenon
      <4>3. DOMAIN maybe' = Row  BY <3>2 DEF BlockInv
      <4> QED  BY <3>2, <3>4, <4>1, <4>2, <4>3, BlockInvKept
    <3> QED  BY <3>2, <3>3, <3>4
  <2>2. CASE WriteBlock(t)  BY <2>2, BlockInvWrites
  <2>3. CASE FinishWrite(t)  BY <2>3, BlockInvFinishes
  <2>4. CASE WriteBlockFails(t)
    <3>1. /\ \A r \in Row : Allowed(r) \subseteq Allowed(r)'
          /\ Blocks' = Blocks /\ DOMAIN maybe' = Row
          /\ \A u \in Busy' : u \in Busy /\ BlockFor(u)' = BlockFor(u)
          /\ UNCHANGED <<used, drift, acked>>
      BY <2>4, AllowedWhenFailed
    <3>2. ~drift' => ~drift  BY <3>1, Zenon
    <3> QED  BY <3>1, <3>2, BlockInvKept
  <2>5. CASE WritePiece(t) \/ ClaimBucket(t) \/ PublishBucket(t)
    <3>1. Blocks' = Blocks
      <4>1. FilesTyped'  BY DEF RecoveryInv, Typed
      <4> QED  BY <2>5, <4>1, FileInvWrites, FileInvNames
    <3>2. /\ Busy' = Busy /\ \A u \in Thread : BlockFor(u)' = BlockFor(u)
          /\ UNCHANGED <<used, drift, acked, maybe>>
          /\ \A r \in Row : Allowed(r)' = Allowed(r)
      BY <2>5, WriteGoesOn
    <3>3. ~drift' => ~drift  BY <3>2, Zenon
    <3>4. DOMAIN maybe' = Row /\ \A u \in Busy : u \in Thread  BY <3>2 DEF BlockInv, Busy
    <3> QED  BY <3>1, <3>2, <3>3, <3>4, BlockInvKept
  <2> QED  BY <1>2, <2>1, <2>2, <2>3, <2>4, <2>5 DEF Write
<1> QED  BY <1>1, <1>2

LEMMA BlockInvInit == Init => BlockInv
<1> SUFFICES ASSUME Init PROVE BlockInv  OBVIOUS
<1>1. /\ \A s \in Shard : file[s] = <<>>
      /\ acked = [r \in Row |-> 0] /\ maybe = [r \in Row |-> {}]
      /\ \A t \in Thread : writer[t] = Idle
  BY DEF Init
<1>2. Blocks = {}
  <2> SUFFICES ASSUME NEW x \in Blocks PROVE FALSE  OBVIOUS
  <2>1. x.shard \in Shard /\ x.offset \in Nat /\ x.offset + 3 <= Len(file[x.shard])
    BY DEF Blocks, BlockType, IsBlock
  <2>2. Len(file[x.shard]) = 0  BY <1>1, <2>1
  <2> QED  BY <2>1, <2>2
<1>3. Busy = {}  BY <1>1 DEF Busy, Idle
<1>4. HomesInv /\ LatestInv  BY <1>2 DEF HomesInv, LatestInv
<1>5. OrderInv  BY <1>3 DEF OrderInv
<1>6. WrittenInv /\ DOMAIN acked = Row /\ DOMAIN maybe = Row  BY <1>1 DEF WrittenInv
<1> QED  BY <1>4, <1>5, <1>6 DEF BlockInv

-----------------------------------------------------------------------------
(* What the index answers, and what a rebuild has collected so far.        *)

\* A bucket that a thread has claimed or published is the thread's row's own.
Owned(t) ==
  LET b == writer[t].bucket
      x == index.bucket[b] IN
  /\ Publishing(t) => x.row \in {NoRow, writer[t].row}
  /\ writer[t].pc = "count" =>
       /\ b \in Buckets /\ x.row = writer[t].row
       /\ x.shard = HomeOf(t) /\ x.offset = writer[t].offset
OwnInv == \A t \in Thread : Owned(t)

\* What a rebuild has put into the index, or keeps to put it there, names the
\* last block of each row among those that the scan has met.
Entries == {build.copy[c] : c \in IF Enlarges THEN Copied ELSE {}} \cup
           (IF pc \in {"create", "header"} THEN {} ELSE {index.bucket[b] : b \in InState(Filled)})
Seen(x) == x.shard < scan.shard \/ (x.shard = scan.shard /\ x.offset < scan.offset)
SeenInv ==
  /\ \A x \in Entries : /\ Seen(x)
                        /\ \A y \in Blocks : y.row = x.row /\ Seen(y) => UpTo(y, x)
  /\ \A y \in Blocks : Seen(y) => \E x \in Entries : x.row = y.row

\* What a bucket names is what a reader may find, and no written row is missing.
Right(x) == \A y \in Blocks :
              y.shard = x.shard /\ y.offset = x.offset /\ y.row = x.row => y.val \in Allowed(x.row)
AnswerInv ==
  /\ \A b \in Buckets : index.bucket[b].row \in Row => Right(index.bucket[b])
  /\ \A r \in Row : acked[r] # 0 => \E b \in Buckets : index.bucket[b].row = r

\* The index was built for a shard count that sorts the blocks of every row.
IndexOrdered == ~drift /\ \A m \in used : index.shards % m = 0

AnswersInv ==
  ~suspect => /\ OwnInv
              /\ Rebuilding => SeenInv
              /\ ~Rebuilding /\ index.header /\ IndexOrdered => AnswerInv

SameNames(f, g) ==
  /\ DOMAIN g = DOMAIN f
  /\ \A b \in DOMAIN f : g[b].row = f[b].row /\ g[b].shard = f[b].shard /\ g[b].offset = f[b].offset

OnePerPlace == FilesTyped => \A x, y \in Blocks :
                 x.shard = y.shard /\ x.offset = y.offset => x = y

LEMMA SameBlockThen == OnePerPlace'
<1>1. OnePerPlace  BY SameBlock DEF OnePerPlace
<1> QED  BY <1>1, PTL

LEMMA RightKept ==
  ASSUME FilesTyped', Blocks \subseteq Blocks', NEW x, x.row \in Row, Names(x, Blocks), Right(x),
         Allowed(x.row) \subseteq Allowed(x.row)'
  PROVE  Right(x)'
<1> SUFFICES ASSUME NEW z \in Blocks', z.shard = x.shard, z.offset = x.offset, z.row = x.row
             PROVE  z.val \in Allowed(x.row)'
  BY DEF Right
<1>1. PICK y \in Blocks : y.shard = x.shard /\ y.offset = x.offset /\ y.row = x.row  BY DEF Names
<1>2. y.val \in Allowed(x.row)  BY <1>1 DEF Right
<1>3. y \in Blocks'  OBVIOUS
<1>4. z = y
  <2>1. OnePerPlace'  BY SameBlockThen
  <2> QED  BY <1>1, <1>3, <2>1 DEF OnePerPlace
<1> QED  BY <1>2, <1>4

\* The names stay, and a reader may find no less.
LEMMA AnswerKept ==
  ASSUME FilesTyped', Table(index.bucket, Blocks), AnswerInv,
         SameNames(index.bucket, index'.bucket), Blocks \subseteq Blocks',
         \A r \in Row : Allowed(r) \subseteq Allowed(r)', acked' = acked
  PROVE  AnswerInv'
<1> DEFINE f == index.bucket
           g == index'.bucket
<1>1. DOMAIN g = DOMAIN f /\ Buckets' = DOMAIN f /\ Buckets = DOMAIN f
  BY DEF SameNames, Buckets
<1>2. \A b \in DOMAIN f : g[b].row = f[b].row /\ g[b].shard = f[b].shard /\ g[b].offset = f[b].offset
  BY DEF SameNames
<1>3. ASSUME NEW b \in DOMAIN f, g[b].row \in Row PROVE Right(index.bucket[b])'
  <2>1. SoundAt(f, Blocks, b) /\ Right(f[b])  BY <1>1, <1>2, <1>3 DEF Table, AnswerInv
  <2>2. Names(f[b], Blocks)  BY <1>2, <1>3, <2>1 DEF SoundAt
  <2> HIDE DEF f, g
  <2>3. PICK x : x = g[b]  OBVIOUS
  <2>4. Right(x) /\ Names(x, Blocks) /\ x.row \in Row
    BY <1>2, <1>3, <2>1, <2>2, <2>3 DEF Right, Names
  <2>5. Allowed(x.row) \subseteq Allowed(x.row)'  BY <2>4
  <2>6. Right(x)'  BY <2>4, <2>5, RightKept
  <2>7. x = index'.bucket[b]  BY <2>3 DEF g
  <2> QED  BY <2>6, <2>7 DEF Right
<1>4. ASSUME NEW r \in Row, acked'[r] # 0 PROVE \E b \in DOMAIN f : g[b].row = r
  <2>1. PICK b \in DOMAIN f : f[b].row = r  BY <1>1, <1>4 DEF AnswerInv
  <2> QED  BY <1>2, <2>1
<1> QED  BY <1>1, <1>3, <1>4 DEF AnswerInv

\* The claimed buckets keep their names, and their threads their rows.
LEMMA OwnKept ==
  ASSUME OwnInv, RecoveryInv, SameNames(index.bucket, index'.bucket), opts' = opts,
         \A t \in Thread : Publishing(t) => writer[t].bucket \in Buckets,
         \A t \in Thread : writer'[t].pc \in {"publish", "count"} => writer'[t] = writer[t]
  PROVE  OwnInv'
<1> SUFFICES ASSUME NEW t \in Thread PROVE Owned(t)'  BY DEF OwnInv
<1>1. CASE writer'[t].pc \in {"publish", "count"}
  <2>1. writer'[t] = writer[t] /\ Owned(t)  BY <1>1 DEF OwnInv
  <2>2. HomeOf(t)' = HomeOf(t)  BY <2>1 DEF HomeOf, ShardForRow
  <2>3. DOMAIN index'.bucket = DOMAIN index.bucket /\ Buckets' = Buckets /\ Buckets = DOMAIN index.bucket
    BY DEF SameNames, Buckets
  <2>4. writer[t].bucket \in Buckets
    BY <1>1, <2>1 DEF Owned, Publishing
  <2>5. PICK b \in Buckets : b = writer[t].bucket /\ b = writer'[t].bucket  BY <2>1, <2>4
  <2>6. /\ index'.bucket[b].row = index.bucket[b].row
        /\ index'.bucket[b].shard = index.bucket[b].shard
        /\ index'.bucket[b].offset = index.bucket[b].offset
    BY <2>3 DEF SameNames
  <2> QED  BY <2>1, <2>2, <2>3, <2>5, <2>6 DEF Owned, Publishing
<1>2. CASE ~(writer'[t].pc \in {"publish", "count"})  BY <1>2 DEF Owned, Publishing
<1> QED  BY <1>1, <1>2

LEMMA NobodyOwns ==
  ASSUME \A t \in Thread : writer'[t].pc = "idle"
  PROVE  OwnInv'
BY DEF OwnInv, Owned, Publishing

\* A step of a write.
LEMMA ServingAnswers ==
  ASSUME RecoveryInv, FileInv, LookupInv, AnswersInv, pc = "serving", ~suspect
  PROVE  /\ OwnInv /\ Table(index.bucket, Blocks) /\ index.header /\ index.shards = opts.shards
         /\ ~Rebuilding /\ (IndexOrdered => AnswerInv) /\ ClaimInv
         /\ \A t \in Thread : Publishing(t) => writer[t].bucket \in Buckets
<1>1. TableInv /\ ClaimInv /\ index.header  BY HasRoom DEF InUse
<1>2. index.shards = opts.shards  BY DEF RecoveryInv, PlaceInv
<1>3. ~Rebuilding  BY DEF Rebuilding
<1>4. OwnInv /\ (IndexOrdered => AnswerInv)  BY <1>1, <1>3 DEF AnswersInv
<1> QED  BY <1>1, <1>2, <1>3, <1>4 DEF TableInv, ClaimInv, ClaimAt

\* One that leaves the names in the index.
LEMMA AnswersWhileServing ==
  ASSUME RecoveryInv, RecoveryInv', FileInv, LookupInv, AnswersInv, pc = "serving",
         UNCHANGED <<pc, opts, acked, suspect>>,
         IndexOrdered' => IndexOrdered, SameNames(index.bucket, index'.bucket),
         Blocks \subseteq Blocks',
         \A r \in Row : Allowed(r) \subseteq Allowed(r)',
         \A t \in Thread : writer'[t].pc \in {"publish", "count"} => writer'[t] = writer[t]
  PROVE  AnswersInv'
<1> SUFFICES ASSUME ~suspect PROVE OwnInv' /\ ~Rebuilding' /\ (IndexOrdered' => AnswerInv')
  BY DEF AnswersInv
<1>1. /\ OwnInv /\ Table(index.bucket, Blocks) /\ (IndexOrdered => AnswerInv)
      /\ \A t \in Thread : Publishing(t) => writer[t].bucket \in Buckets
  BY ServingAnswers
<1>2. OwnInv'  BY <1>1, OwnKept
<1>3. ~Rebuilding'  BY DEF Rebuilding
<1>4. FilesTyped'  BY DEF RecoveryInv, Typed
<1>5. ASSUME IndexOrdered' PROVE AnswerInv'
  <2>1. AnswerInv  BY <1>1, <1>5
  <2> QED  BY <1>1, <1>4, <2>1, AnswerKept
<1> QED  BY <1>2, <1>3, <1>5

LEMMA SameNamesOf ==
  ASSUME index'.bucket = index.bucket
  PROVE  SameNames(index.bucket, index'.bucket)
BY DEF SameNames

LEMMA AnswersBegin ==
  ASSUME RecoveryInv, RecoveryInv', FileInv, LookupInv, BlockInv, AnswersInv,
         NEW t \in Thread, NEW r \in Row, PutRowStructs(t, r)
  PROVE  AnswersInv'
<1>1. /\ pc = "serving" /\ t \notin Busy /\ \A u \in Thread : writer[u].row # r
      /\ UNCHANGED <<file, pc, opts, scan, build, acked, maybe, suspect>>
      /\ Begins(t, r) \/ UNCHANGED <<writer, index, append, used, drift>>
  BY PutFacts
<1>2. CASE Begins(t, r)
  <2>1. Blocks' = Blocks /\ \A q \in Row : Allowed(q) \subseteq Allowed(q)'
    BY <1>1, <1>2, FileInvBegins, BlockInvBegins
  <2>2. /\ \A u \in Thread : writer'[u].pc \in {"publish", "count"} => writer'[u] = writer[u]
        /\ index' = [index EXCEPT !.nextSequence = @ + 1]
        /\ used' = used \cup {opts.shards}
        /\ drift' = (drift \/ \E m \in used : opts.shards % m # 0)
    BY <1>2 DEF Begins
  <2>3. IndexTyped  BY DEF RecoveryInv, Typed
  <2>4. index'.bucket = index.bucket /\ index'.shards = index.shards
    BY <2>2, <2>3 DEF IndexTyped
  <2>5. ~drift' => ~drift  BY <2>2, Zenon
  <2>6. IndexOrdered' => IndexOrdered  BY <2>2, <2>4, <2>5 DEF IndexOrdered
  <2> QED  BY <1>1, <2>1, <2>2, <2>4, <2>6, SameNamesOf, AnswersWhileServing
<1>3. CASE UNCHANGED <<writer, index, append, used, drift>>
  <2>1. /\ Blocks' = Blocks /\ \A q \in Row : Allowed(q)' = Allowed(q)
        /\ index'.bucket = index.bucket
    BY <1>1, <1>3 DEF Blocks, Busy, Allowed, InFlight
  <2>2. IndexOrdered' => IndexOrdered  BY <1>3, Zenon DEF IndexOrdered
  <2> QED  BY <1>1, <1>3, <2>1, <2>2, SameNamesOf, AnswersWhileServing
<1> QED  BY <1>1, <1>2, <1>3

LEMMA AnswersWrite ==
  ASSUME RecoveryInv, RecoveryInv', FileInv, LookupInv, BlockInv, AnswersInv,
         NEW t \in Thread, WritePiece(t) \/ WriteBlock(t) \/ WriteBlockFails(t)
  PROVE  AnswersInv'
<1>1. /\ pc = "serving" /\ UNCHANGED <<pc, opts, acked, suspect, index, used, drift>>
      /\ writer[t].pc \in {"write", "writeRest"}
  BY DEF WritePiece, WriteBlock, WriteBlockFails, At, history
<1>2. Blocks \subseteq Blocks'
  <2>1. FilesTyped'  BY DEF RecoveryInv, Typed
  <2> QED  BY <2>1, FileInvWrites, AllowedWhenFailed
<1>3. \A r \in Row : Allowed(r) \subseteq Allowed(r)'
  <2>1. CASE WriteBlockFails(t)  BY <2>1, AllowedWhenFailed
  <2>2. CASE WritePiece(t) \/ WriteBlock(t)  BY <2>2, WriteGoesOn
  <2> QED  BY <2>1, <2>2
<1>4. \A u \in Thread : writer'[u].pc \in {"publish", "count"} => writer'[u] = writer[u]
  <2>1. CASE WriteBlockFails(t)
    <3>1. DOMAIN writer = Thread  BY DEF RecoveryInv, Typed, WritersTyped
    <3>2. writer' = [writer EXCEPT ![t] = Idle]  BY <2>1 DEF WriteBlockFails
    <3> QED  BY <3>1, <3>2 DEF Idle
  <2>2. CASE WritePiece(t)
    <3>1. Goto(t, "writeRest")  BY <2>2 DEF WritePiece
    <3>2. writer'[t].pc = "writeRest" /\ \A u \in Thread : u # t => writer'[u] = writer[u]
      BY <3>1, GotoWriter
    <3> QED  BY <3>2
  <2>3. CASE WriteBlock(t)
    <3>1. Goto(t, "claim")  BY <2>3 DEF WriteBlock
    <3>2. writer'[t].pc = "claim" /\ \A u \in Thread : u # t => writer'[u] = writer[u]
      BY <3>1, GotoWriter
    <3> QED  BY <3>2
  <2> QED  BY <2>1, <2>2, <2>3
<1>5. IndexOrdered' => IndexOrdered  BY <1>1, Zenon DEF IndexOrdered
<1>6. index'.bucket = index.bucket  BY <1>1
<1> QED  BY <1>1, <1>2, <1>3, <1>4, <1>5, <1>6, SameNamesOf, AnswersWhileServing

\* A thread claims a bucket of its row or an empty one, which names nothing.
LEMMA AnswersClaim ==
  ASSUME RecoveryInv, RecoveryInv', FileInv, LookupInv, BlockInv, AnswersInv,
         NEW t \in Thread, ClaimBucket(t)
  PROVE  AnswersInv'
<1> DEFINE r == writer[t].row
           f == index.bucket
           b == FindRowBucket(r, r)
           g == index'.bucket
<1>1. /\ pc = "serving" /\ writer[t].pc = "claim"
      /\ UNCHANGED <<pc, opts, acked, suspect, used, drift>>
      /\ index' = [index EXCEPT !.bucket[b].state = Writing]
      /\ writer' = [writer EXCEPT ![t].pc = "publish", ![t].bucket = b,
                        ![t].inserted = index.bucket[b].state = Empty]
  BY DEF ClaimBucket, At, history
<1>2. Blocks' = Blocks /\ \A q \in Row : Allowed(q)' = Allowed(q)
  BY FileInvNames, WriteGoesOn
<1> SUFFICES ASSUME ~suspect PROVE OwnInv' /\ ~Rebuilding' /\ (IndexOrdered' => AnswerInv')
  BY <1>1 DEF AnswersInv
<1>3. /\ OwnInv /\ Table(f, Blocks) /\ (IndexOrdered => AnswerInv)
      /\ \A u \in Thread : Publishing(u) => writer[u].bucket \in Buckets
  BY <1>1, ServingAnswers
<1>4. ~Rebuilding'  BY <1>1 DEF Rebuilding
<1>5. PICK n \in Nat : /\ f \in [0 .. n - 1 -> BucketType]
                       /\ Cardinality(Buckets) = n /\ Buckets = 0 .. n - 1
  BY IndexIsArray
<1>6. t \in Busy /\ r \in Row  BY <1>1 DEF Busy, FileInv, WriteInv
<1>7. Found(f, b, r)
  <2>1. FilesTyped  BY DEF RecoveryInv, Typed
  <2>2. Cardinality(TakenIn(f)) < Cardinality(Buckets)  BY <1>1, HasRoom DEF InUse
  <2> QED  BY <1>3, <1>5, <1>6, <2>1, <2>2, FindRow
<1> HIDE DEF b, r
<1>8. /\ index'.bucket = [f EXCEPT ![b] = [f[b] EXCEPT !.state = Writing]]
      /\ index'.shards = index.shards
  <2>1. IndexTyped  BY DEF RecoveryInv, Typed
  <2> QED  BY <1>1, <2>1 DEF IndexTyped
<1>9. SameNames(f, g)
  <2>1. b \in DOMAIN f /\ f[b] \in BucketType  BY <1>5, <1>7 DEF Found
  <2> HIDE DEF f
  <2> QED  BY <1>8, <2>1 DEF SameNames, BucketType
<1>10. IndexOrdered' => IndexOrdered  BY <1>1, <1>8, Zenon DEF IndexOrdered
<1>11. ASSUME IndexOrdered' PROVE AnswerInv'
  <2>1. FilesTyped' /\ AnswerInv  BY <1>3, <1>10, <1>11 DEF RecoveryInv, Typed
  <2> QED  BY <1>1, <1>2, <1>3, <1>9, <2>1, AnswerKept
<1>12. /\ \A u \in Thread : u # t => writer'[u] = writer[u]
       /\ writer'[t].pc = "publish" /\ writer'[t].bucket = b /\ writer'[t].row = r
  <2>1. DOMAIN writer = Thread /\ WriterTyped(writer[t])  BY DEF RecoveryInv, Typed, WritersTyped
  <2> HIDE DEF f
  <2>2. \A u \in Thread : u # t => writer'[u] = writer[u]  BY <1>1, <2>1
  <2>3. PICK i : writer' = [writer EXCEPT ![t].pc = "publish", ![t].bucket = b, ![t].inserted = i]
    BY <1>1
  <2>4. writer'[t].pc = "publish" /\ writer'[t].bucket = b /\ writer'[t].row = writer[t].row
    BY <2>1, <2>3 DEF WriterTyped
  <2> QED  BY <2>2, <2>4 DEF r
<1>13. ASSUME NEW u \in Thread PROVE Owned(u)'
  <2>1. CASE u = t
    <3>1. SoundAt(f, Blocks, b)  BY <1>3, <1>7 DEF Table, Found
    <3>2. f[b].row \in {NoRow, r}  BY <1>7, <3>1 DEF Found, SoundAt
    <3>3. g[b].row = f[b].row  BY <1>7, <1>9 DEF SameNames, Found
    <3> QED  BY <1>12, <2>1, <3>2, <3>3 DEF Owned, Publishing
  <2>2. CASE u # t /\ ~(writer[u].pc \in {"publish", "count"})
    BY <1>12, <2>2 DEF Owned, Publishing
  <2>3. CASE u # t /\ writer[u].pc \in {"publish", "count"}
    <3>1. Owned(u) /\ writer'[u] = writer[u]  BY <1>3, <1>12, <2>3 DEF OwnInv
    <3>2. HomeOf(u)' = HomeOf(u)  BY <1>1, <3>1 DEF HomeOf, ShardForRow
    <3>3. writer[u].bucket \in Buckets  BY <1>3, <2>3, <3>1 DEF Owned, Publishing
    <3>4. PICK c \in DOMAIN f : c = writer[u].bucket  BY <3>3 DEF Buckets
    <3>5. g[c].row = f[c].row /\ g[c].shard = f[c].shard /\ g[c].offset = f[c].offset
          /\ c \in Buckets'
      BY <1>9 DEF SameNames, Buckets
    <3> QED  BY <3>1, <3>2, <3>4, <3>5 DEF Owned, Publishing
  <2> QED  BY <2>1, <2>2, <2>3
<1> QED  BY <1>4, <1>11, <1>13 DEF OwnInv

\* The bucket then names the block that the thread has written.
LEMMA AnswersPublish ==
  ASSUME RecoveryInv, RecoveryInv', FileInv, LookupInv, BlockInv, AnswersInv,
         NEW t \in Thread, PublishBucket(t)
  PROVE  AnswersInv'
<1> DEFINE r == writer[t].row
           f == index.bucket
           b == writer[t].bucket
           x == [state |-> Filled, row |-> r, shard |-> HomeOf(t),
                 offset |-> writer[t].offset, seq |-> writer[t].seq]
           g == index'.bucket
<1>1. /\ pc = "serving" /\ writer[t].pc = "publish" /\ Goto(t, "count")
      /\ UNCHANGED <<pc, opts, acked, suspect, used, drift>>
      /\ index' = [index EXCEPT !.bucket[b] = x]
  BY DEF PublishBucket, At, history, HomeOf
<1>2. /\ Blocks' = Blocks /\ \A q \in Row : Allowed(q)' = Allowed(q)
      /\ BlockFor(t)' = BlockFor(t)
  BY FileInvNames, WriteGoesOn
<1> SUFFICES ASSUME ~suspect PROVE OwnInv' /\ ~Rebuilding' /\ (IndexOrdered' => AnswerInv')
  BY <1>1 DEF AnswersInv
<1>3. /\ OwnInv /\ Table(f, Blocks) /\ (IndexOrdered => AnswerInv) /\ ClaimInv
      /\ \A u \in Thread : Publishing(u) => writer[u].bucket \in Buckets
  BY <1>1, ServingAnswers
<1>4. ~Rebuilding'  BY <1>1 DEF Rebuilding
<1>5. t \in Busy /\ r \in Row /\ Publishing(t) /\ NoRow \notin Row
  BY <1>1, RecoveryAssumption DEF Busy, FileInv, WriteInv, Publishing
<1>6. /\ BlockFor(t) \in Blocks
      /\ \A u \in Busy : writer[u].row = r => u = t
  BY <1>1, <1>5 DEF FileInv, WriteInv, Placing
<1>7. b \in DOMAIN f /\ f[b].row \in {NoRow, r}
  BY <1>3, <1>5 DEF OwnInv, Owned, Buckets
<1>8. \A u \in Thread : Publishing(u) /\ writer[u].bucket = b => u = t
  BY <1>3, <1>5 DEF ClaimInv, ClaimAt
<1>9. /\ \A u \in Thread : u # t => writer'[u] = writer[u]
      /\ writer'[t].pc = "count" /\ writer'[t].bucket = b /\ writer'[t].row = r
      /\ writer'[t].offset = writer[t].offset
  BY <1>1, GotoWriter
<1>10. /\ index'.bucket = [f EXCEPT ![b] = x] /\ index'.shards = index.shards
  <2>1. IndexTyped  BY DEF RecoveryInv, Typed
  <2> QED  BY <1>1, <2>1 DEF IndexTyped
<1>11. x.row = r /\ x.shard = HomeOf(t) /\ x.offset = writer[t].offset  OBVIOUS
<1>12. \A u \in Thread : HomeOf(u)' = HomeOf(u)
  BY <1>1, <1>9 DEF HomeOf, ShardForRow
<1> HIDE DEF b, r, x
<1>13. /\ DOMAIN g = DOMAIN f /\ Buckets' = DOMAIN f /\ g[b] = x
       /\ \A c \in DOMAIN f : c # b => g[c] = f[c]
  BY <1>7, <1>10 DEF Buckets
<1>14. IndexOrdered' => IndexOrdered  BY <1>1, <1>10, Zenon DEF IndexOrdered
<1>15. ASSUME IndexOrdered', NEW c \in DOMAIN f, g[c].row \in Row PROVE Right(index.bucket[c])'
  <2>1. AnswerInv  BY <1>3, <1>14, <1>15
  <2>2. CASE c = b
    <3>0. PICK y : y = x  OBVIOUS
    <3>1. PICK q \in Row : q = r  BY <1>5
    <3>2. PICK w \in Blocks : w = BlockFor(t)  BY <1>6
    <3>3. w.shard = y.shard /\ w.offset = y.offset /\ w.val = writer[t].val /\ y.row = q
      BY <1>11, <3>0, <3>1, <3>2 DEF BlockFor, r
    <3>4. \A z \in Blocks : z.shard = y.shard /\ z.offset = y.offset => z = w
      <4>1. FilesTyped  BY DEF RecoveryInv, Typed
      <4> QED  BY <3>3, <4>1, SameBlock
    <3>5. writer[t].val \in Allowed(q)  BY <1>5, <3>1 DEF Allowed, InFlight, r
    <3>6. w.val \in Allowed(q)'  BY <1>2, <3>3, <3>5
    <3>7. Right(y)'  BY <1>2, <3>3, <3>4, <3>6 DEF Right
    <3>8. y = index'.bucket[c]  BY <1>13, <2>2, <3>0
    <3> QED  BY <3>7, <3>8 DEF Right
  <2>3. CASE c # b
    <3>1. g[c] = f[c]  BY <1>13, <2>3
    <3>2. SoundAt(f, Blocks, c) /\ Right(f[c])  BY <1>3, <1>15, <2>1, <3>1 DEF Table, AnswerInv, Buckets
    <3>3. Names(f[c], Blocks)  BY <1>15, <3>1, <3>2 DEF SoundAt
    <3>4. PICK y : y = f[c] /\ y = g[c]  BY <3>1
    <3>5. Right(y) /\ Names(y, Blocks) /\ y.row \in Row  BY <1>15, <3>2, <3>3, <3>4
    <3>6. Allowed(y.row) \subseteq Allowed(y.row)' /\ Blocks \subseteq Blocks' /\ FilesTyped'
      BY <1>2, <3>5 DEF RecoveryInv, Typed
    <3>7. Right(y)'  BY <3>5, <3>6, RightKept
    <3> QED  BY <3>4, <3>7 DEF Right
  <2> QED  BY <2>2, <2>3
<1>16. ASSUME IndexOrdered', NEW q \in Row, acked'[q] # 0 PROVE \E c \in DOMAIN f : g[c].row = q
  <2>1. PICK c \in DOMAIN f : f[c].row = q
    BY <1>1, <1>3, <1>14, <1>16 DEF AnswerInv, Buckets
  <2>2. CASE c = b
    <3>1. q = r  BY <1>5, <1>7, <2>1, <2>2
    <3> QED  BY <1>7, <1>11, <1>13, <3>1
  <2>3. CASE c # b  BY <1>13, <2>1, <2>3
  <2> QED  BY <2>2, <2>3
<1>17. IndexOrdered' => AnswerInv'  BY <1>13, <1>15, <1>16 DEF AnswerInv
<1>18. ASSUME NEW u \in Thread PROVE Owned(u)'
  <2>1. CASE u = t
    <3>1. b \in Buckets' /\ g[b].row = r /\ g[b].shard = HomeOf(t) /\ g[b].offset = writer[t].offset
      BY <1>7, <1>11, <1>13
    <3> QED  BY <1>9, <1>12, <2>1, <3>1 DEF Owned, Publishing
  <2>2. CASE u # t /\ ~(writer[u].pc \in {"publish", "count"})
    BY <1>9, <2>2 DEF Owned, Publishing
  <2>3. CASE u # t /\ writer[u].pc \in {"publish", "count"}
    <3>1. Owned(u) /\ writer'[u] = writer[u]  BY <1>3, <1>9, <2>3 DEF OwnInv
    <3>2. PICK c \in DOMAIN f : c = writer[u].bucket
      BY <1>3, <2>3, <3>1 DEF Owned, Publishing, Buckets
    <3>3. u \in Busy /\ writer[u].row \in Row /\ writer[u].row # r
      BY <1>6, <2>3 DEF Busy, FileInv, WriteInv
    <3>4. c # b
      <4>1. CASE writer[u].pc = "publish"  BY <1>8, <2>3, <3>2, <4>1 DEF Publishing
      <4>2. CASE writer[u].pc = "count"
        <5>1. f[c].row = writer[u].row  BY <3>1, <3>2, <4>2 DEF Owned
        <5> QED  BY <1>5, <1>7, <3>3, <5>1
      <4> QED  BY <2>3, <4>1, <4>2
    <3>5. g[c] = f[c] /\ c \in Buckets'  BY <1>13, <3>4
    <3>6. HomeOf(u)' = HomeOf(u)  BY <1>12
    <3> QED  BY <3>1, <3>2, <3>5, <3>6 DEF Owned, Publishing
  <2> QED  BY <2>1, <2>2, <2>3
<1> QED  BY <1>4, <1>17, <1>18 DEF OwnInv

\* The write is acknowledged: its value is the one that is found from now on.
LEMMA AnswersFinish ==
  ASSUME RecoveryInv, RecoveryInv', FileInv, LookupInv, BlockInv, AnswersInv,
         NEW t \in Thread, FinishWrite(t)
  PROVE  AnswersInv'
<1> DEFINE r == writer[t].row
           f == index.bucket
           b == writer[t].bucket
<1>1. /\ pc = "serving" /\ writer[t].pc = "count" /\ writer' = [writer EXCEPT ![t] = Idle]
      /\ UNCHANGED <<file, append, pc, opts, suspect, used, drift>>
      /\ acked' = [acked EXCEPT ![r] = writer[t].val]
      /\ index' = [index EXCEPT !.items = @ + Counted(writer[t])]
  BY DEF FinishWrite, At
<1>2. /\ Blocks' = Blocks
      /\ \A q \in Row : q # r => Allowed(q)' = Allowed(q)
  BY <1>1, FileInvEnds, BlockInvFinishes
<1> SUFFICES ASSUME ~suspect PROVE OwnInv' /\ ~Rebuilding' /\ (IndexOrdered' => AnswerInv')
  BY <1>1 DEF AnswersInv
<1>3. /\ OwnInv /\ Table(f, Blocks) /\ (IndexOrdered => AnswerInv)
      /\ \A u \in Thread : Publishing(u) => writer[u].bucket \in Buckets
  BY <1>1, ServingAnswers
<1>4. ~Rebuilding'  BY <1>1 DEF Rebuilding
<1>5. /\ t \in Busy /\ r \in Row /\ BlockFor(t) \in Blocks
  BY <1>1 DEF Busy, FileInv, WriteInv, Placing
<1>6. /\ b \in DOMAIN f /\ f[b].row = r /\ f[b].shard = HomeOf(t)
      /\ f[b].offset = writer[t].offset
  BY <1>1, <1>3 DEF OwnInv, Owned, Buckets
<1>7. index'.bucket = f /\ index'.shards = index.shards
  <2>1. IndexTyped  BY DEF RecoveryInv, Typed
  <2> QED  BY <1>1, <2>1 DEF IndexTyped
<1>8. /\ \A u \in Thread : u # t => writer'[u] = writer[u]
      /\ writer'[t].pc = "idle"
  <2>1. DOMAIN writer = Thread  BY DEF RecoveryInv, Typed, WritersTyped
  <2> QED  BY <1>1, <2>1 DEF Idle
<1>9. OwnInv'
  <2>1. SameNames(index.bucket, index'.bucket)  BY <1>7, SameNamesOf
  <2>2. \A u \in Thread : writer'[u].pc \in {"publish", "count"} => writer'[u] = writer[u]
    BY <1>8
  <2> QED  BY <1>1, <1>3, <2>1, <2>2, OwnKept
<1>10. acked'[r] = writer[t].val /\ \A q \in Row : q # r => acked'[q] = acked[q]
  BY <1>1, <1>5 DEF BlockInv
<1>11. IndexOrdered' => IndexOrdered  BY <1>1, <1>7, Zenon DEF IndexOrdered
<1> HIDE DEF b, r
<1>12. ASSUME IndexOrdered', NEW c \in DOMAIN f, f[c].row \in Row PROVE Right(f[c])'
  <2>1. AnswerInv /\ FilesTyped  BY <1>3, <1>11, <1>12 DEF RecoveryInv, Typed
  <2>2. PICK y : y = f[c]  OBVIOUS
  <2>3. CASE y.row = r
    <3>1. c = b  BY <1>3, <1>5, <1>6, <2>2, <2>3 DEF Table
    <3>2. y.shard = HomeOf(t) /\ y.offset = writer[t].offset  BY <1>6, <2>2, <3>1
    <3>3. PICK w \in Blocks : w = BlockFor(t)  BY <1>5
    <3>4. w.shard = y.shard /\ w.offset = y.offset /\ w.val = writer[t].val
      BY <3>2, <3>3 DEF BlockFor
    <3>5. \A z \in Blocks : z.shard = y.shard /\ z.offset = y.offset => z = w
      BY <2>1, <3>4, SameBlock
    <3>6. w.val \in Allowed(y.row)'  BY <1>10, <2>3, <3>4 DEF Allowed
    <3>7. Right(y)'  BY <1>2, <3>5, <3>6 DEF Right
    <3>8. y = index'.bucket[c]  BY <1>7, <2>2
    <3> QED  BY <1>7, <3>7, <3>8 DEF Right
  <2>4. CASE y.row # r
    <3>1. Right(y) /\ y.row \in Row  BY <1>12, <2>1, <2>2 DEF AnswerInv, Buckets
    <3>2. Allowed(y.row)' = Allowed(y.row)  BY <1>2, <2>4, <3>1
    <3>3. Right(y)'  BY <1>2, <3>1, <3>2 DEF Right
    <3>8. y = index'.bucket[c]  BY <1>7, <2>2
    <3> QED  BY <1>7, <3>3, <3>8 DEF Right
  <2> QED  BY <2>3, <2>4
<1>13. ASSUME IndexOrdered', NEW q \in Row, acked'[q] # 0 PROVE \E c \in DOMAIN f : f[c].row = q
  <2>1. CASE q = r  BY <1>6, <2>1
  <2>2. CASE q # r  BY <1>3, <1>10, <1>11, <1>13, <2>2 DEF AnswerInv, Buckets
  <2> QED  BY <2>1, <2>2
<1>14. IndexOrdered' => AnswerInv'
  <2> SUFFICES ASSUME IndexOrdered' PROVE AnswerInv'  OBVIOUS
  <2>1. Buckets' = DOMAIN f  BY <1>7 DEF Buckets
  <2>2. \A c \in DOMAIN f : f[c].row \in Row => Right(index.bucket[c])'  BY <1>7, <1>12 DEF Right
  <2> QED  BY <1>7, <1>13, <2>1, <2>2 DEF AnswerInv
<1> QED  BY <1>4, <1>9, <1>14

-----------------------------------------------------------------------------
(* A rebuild, up to the index that it leaves.                              *)

LEMMA BlockPlaces ==
  ASSUME RecoveryInv, NEW y \in Blocks
  PROVE  /\ y.shard \in Shard /\ y.shard \in Nat /\ y.offset \in Nat /\ y.offset >= 1
         /\ y.row \in Row /\ y.offset + 3 <= Len(file[y.shard])
         /\ Len(file[y.shard]) \in Nat
<1>1. /\ y.shard \in Shard /\ y.offset \in Nat /\ y.row \in Row
      /\ y.offset + 3 <= Len(file[y.shard])
      /\ file[y.shard][y.offset + 1].row = y.row
  <2>1. y \in BlockType /\ IsBlock(file[y.shard], y.offset, y.row, y.val)  BY DEF Blocks
  <2>2. file[y.shard][y.offset + 1].row = y.row  BY <2>1, BlockCellsRead
  <2> QED  BY <2>1, <2>2 DEF BlockType, IsBlock
<1>2. Len(file[y.shard]) \in Nat  BY <1>1 DEF RecoveryInv, Typed, FilesTyped
<1>3. y.shard \in Nat
  <2>1. opts \in Options  BY DEF RecoveryInv, Typed, SessionTyped
  <2> QED  BY <1>1, <2>1, OpenedShards
<1>4. y.offset # 0
  <2> SUFFICES ASSUME y.offset = 0 PROVE FALSE  OBVIOUS
  <2>1. file[y.shard] # <<>>
    <3>1. Len(file[y.shard]) # 0  BY <1>1, <1>2
    <3>2. Len(<<>>) = 0  OBVIOUS
    <3> QED  BY <3>1, <3>2
  <2>2. file[y.shard][1] = FileHeader  BY <1>1, <2>1 DEF RecoveryInv, HeaderInv
  <2>3. y.row = NoRow  BY <1>1, <2>2 DEF FileHeader, Mark
  <2> QED  BY <1>1, <2>3, RecoveryAssumption
<1> QED  BY <1>1, <1>2, <1>3, <1>4

\* Steps that leave what was seen, and what was found.
LEMMA SeenKept ==
  ASSUME SeenInv, Entries' = Entries, Blocks' = Blocks, scan' = scan
  PROVE  SeenInv'
<1>1. \A x : Seen(x)' <=> Seen(x)  BY DEF Seen
<1> QED  BY <1>1 DEF SeenInv, UpTo

\* Nobody writes, the index is in the making before and after.
LEMMA AnswersInTheMaking ==
  ASSUME AnswersInv, Rebuilding, Rebuilding', \A t \in Thread : writer'[t].pc = "idle",
         suspect' = suspect, Entries' = Entries, Blocks' = Blocks, scan' = scan
  PROVE  AnswersInv'
BY NobodyOwns, SeenKept DEF AnswersInv

LEMMA StillIdle ==
  ASSUME RecoveryInv, pc # "serving", writer' = writer
  PROVE  \A t \in Thread : writer'[t].pc = "idle"
BY DEF RecoveryInv, PlaceInv

LEMMA AnswersClear ==
  ASSUME RecoveryInv, FileInv, LookupInv, AnswersInv, ClearIndex, Blocks' = Blocks
  PROVE  AnswersInv'
<1>1. /\ pc = "create" /\ pc' = "header" /\ UNCHANGED <<writer, build, scan>>
      /\ suspect' = IF build.resume = "scan" THEN Torn ELSE suspect
      /\ build.resume \in {"scan", "insert"}
  BY DEF ClearIndex, RecoveryInv, PlaceInv, Building
<1>2. \A t \in Thread : writer'[t].pc = "idle"  BY <1>1, StillIdle
<1>3. Rebuilding'  BY <1>1 DEF Rebuilding
<1>4. CASE build.resume = "insert"
  <2>1. Rebuilding /\ suspect' = suspect  BY <1>1, <1>4 DEF Rebuilding
  <2>2. Entries' = Entries  BY <1>1 DEF Entries, Enlarges, Building, Copied
  <2> QED  BY <1>1, <1>2, <1>3, <2>1, <2>2, AnswersInTheMaking
<1>5. CASE build.resume = "scan"
  <2>1. Entries' = {}  BY <1>1, <1>5 DEF Entries, Enlarges
  <2>2. scan.shard = 0 /\ scan.offset = 1
    <3>1. scan = NoScan  BY <1>1, <1>5 DEF RecoveryInv, PlaceInv, InHand
    <3> QED  BY <3>1 DEF NoScan
  <2>3. ASSUME NEW y \in Blocks PROVE ~Seen(y)'
    <3>1. y.shard \in Nat /\ y.offset \in Nat /\ y.offset >= 1  BY BlockPlaces
    <3> QED  BY <1>1, <2>2, <3>1 DEF Seen
  <2>4. SeenInv'  BY <2>1, <2>3 DEF SeenInv
  <2> QED  BY <1>2, <1>3, <2>4, NobodyOwns DEF AnswersInv
<1> QED  BY <1>1, <1>4, <1>5

LEMMA AnswersCreate ==
  ASSUME RecoveryInv, FileInv, LookupInv, AnswersInv, CreateEmptyRowIndex, Blocks' = Blocks
  PROVE  AnswersInv'
<1>1. /\ pc = "header" /\ pc' = "place" /\ UNCHANGED <<writer, build, scan, suspect>>
      /\ index'.bucket = [b \in 0 .. build.count - 1 |-> EmptyBucket]
  BY DEF CreateEmptyRowIndex, history
<1>2. InState(Filled)' = {}
  BY <1>1 DEF InState, Buckets, EmptyBucket, Empty, Filled
<1>3. Entries' = Entries  BY <1>1, <1>2 DEF Entries, Enlarges, Building, Copied
<1>4. Rebuilding /\ Rebuilding'  BY <1>1 DEF Rebuilding
<1>5. \A t \in Thread : writer'[t].pc = "idle"  BY <1>1, StillIdle
<1> QED  BY <1>1, <1>3, <1>4, <1>5, AnswersInTheMaking

LEMMA AnswersReady ==
  ASSUME RecoveryInv, FileInv, LookupInv, AnswersInv, IndexReady, Blocks' = Blocks
  PROVE  AnswersInv'
<1>1. /\ pc = "place" /\ pc' = build.resume /\ Copied = {} /\ pc' \in {"scan", "insert"}
      /\ UNCHANGED <<index, writer, scan, suspect>>
  BY DEF IndexReady, history, RecoveryInv, PlaceInv, Building, Copied
<1>2. Entries' = Entries
  BY <1>1 DEF Entries, Enlarges, Building, Copied, InState, Buckets
<1>3. Rebuilding /\ Rebuilding'  BY <1>1 DEF Rebuilding
<1>4. \A t \in Thread : writer'[t].pc = "idle"  BY <1>1, StillIdle
<1> QED  BY <1>1, <1>2, <1>3, <1>4, AnswersInTheMaking

LEMMA AnswersGrow ==
  ASSUME RecoveryInv, FileInv, LookupInv, AnswersInv, ScanGrows, Blocks' = Blocks
  PROVE  AnswersInv'
<1>1. /\ pc = "scan" /\ pc' = "create" /\ UNCHANGED <<index, writer, scan, suspect>>
      /\ build'.copy = Restrict(index.bucket, InState(Filled)) /\ build'.resume = "insert"
  BY DEF ScanGrows, history
<1>2. /\ Copied' = InState(Filled)
      /\ \A c \in InState(Filled) : build'.copy[c] = index.bucket[c]
  BY <1>1 DEF Copied, Restrict
<1>3. Entries' = {index.bucket[b] : b \in InState(Filled)}
  <2>1. Enlarges'  BY <1>1 DEF Enlarges, Building
  <2>2. Entries' = {build'.copy[c] : c \in Copied'}  BY <1>1, <2>1 DEF Entries
  <2> QED  BY <1>2, <2>2
<1>4. Entries = {index.bucket[b] : b \in InState(Filled)}
  <2>1. ~Enlarges  BY <1>1 DEF Enlarges, Building
  <2> QED  BY <1>1, <2>1 DEF Entries
<1>5. Rebuilding /\ Rebuilding'  BY <1>1 DEF Rebuilding
<1>6. \A t \in Thread : writer'[t].pc = "idle"  BY <1>1, StillIdle
<1> QED  BY <1>1, <1>3, <1>4, <1>5, <1>6, AnswersInTheMaking

\* A bucket that moves from the smaller table is kept all the time.
LEMMA AnswersPlace ==
  ASSUME RecoveryInv, FileInv, LookupInv, AnswersInv, PlaceExistingRowBucket, Blocks' = Blocks
  PROVE  AnswersInv'
<1> DEFINE f == index.bucket
           g == index'.bucket
<1>1. /\ pc = "place" /\ pc' = "place" /\ Enlarges
      /\ build'.resume = build.resume /\ UNCHANGED <<writer, scan, suspect>>
  BY PlaceKeeps
<1>2. \A t \in Thread : writer'[t].pc = "idle"  BY <1>1, StillIdle
<1>3. Rebuilding /\ Rebuilding'  BY <1>1 DEF Rebuilding
<1>4. CASE suspect  BY <1>1, <1>4 DEF AnswersInv
<1>5. CASE ~suspect
  <2>0. PICK n \in Nat : \E c, b, x : Placed(n, c, b, x)  BY <1>5, PlacesBucket
  <2>1. PICK c, b, x : Placed(n, c, b, x)  BY <2>0
  <2>2. /\ c \in Copied /\ x = build.copy[c] /\ x.state = Filled
        /\ b \in DOMAIN f /\ f[b].state = Empty /\ g = [f EXCEPT ![b] = x]
        /\ Copied' = Copied \ {c} /\ \A d \in Copied' : build'.copy[d] = build.copy[d]
    BY <2>1 DEF Placed
  <2>3. /\ Entries = {build.copy[d] : d \in Copied} \cup {f[d] : d \in InState(Filled)}
        /\ Entries' = {build'.copy[d] : d \in Copied'} \cup {g[d] : d \in InState(Filled)'}
    BY <1>1 DEF Entries, Enlarges, Building
  <2>4. InState(Filled)' = InState(Filled) \cup {b}
    <3>1. DOMAIN g = DOMAIN f /\ g[b] = x /\ \A d \in DOMAIN f : d # b => g[d] = f[d]
      BY <2>2
    <3> QED  BY <2>2, <3>1 DEF InState, Buckets
  <2>5. /\ b \notin InState(Filled) /\ g[b] = x
        /\ \A d \in InState(Filled) : g[d] = f[d]
    <3>1. b \notin InState(Filled)  BY <2>2 DEF InState, Filled, Empty
    <3>2. InState(Filled) \subseteq DOMAIN f  BY DEF InState, Buckets
    <3> QED  BY <2>2, <3>1, <3>2
  <2> HIDE DEF f, g
  <2>6. {build'.copy[d] : d \in Copied'} \cup {x} = {build.copy[d] : d \in Copied}
    BY <2>2
  <2>7. {g[d] : d \in InState(Filled)'} = {f[d] : d \in InState(Filled)} \cup {x}
    BY <2>4, <2>5
  <2>8. Entries' = Entries  BY <2>3, <2>6, <2>7
  <2> QED  BY <1>1, <1>2, <1>3, <2>8, AnswersInTheMaking
<1> QED  BY <1>4, <1>5

\* The scan goes past a block: it is the last of its row so far.
LEMMA AnswersScan ==
  ASSUME RecoveryInv, FileInv, LookupInv, AnswersInv, ScanBlock, Blocks' = Blocks
  PROVE  AnswersInv'
<1> DEFINE f == index.bucket
           g == index'.bucket
<1>1. /\ pc \in {"scan", "insert"} /\ pc' = "scan" /\ UNCHANGED <<writer, build, suspect>>
      /\ scan'.shard = scan.shard /\ scan'.offset = scan.offset + 3
  BY ScanKeeps
<1>2. \A t \in Thread : writer'[t].pc = "idle"  BY <1>1, StillIdle
<1>3. Rebuilding /\ Rebuilding'  BY <1>1 DEF Rebuilding
<1>4. CASE suspect  BY <1>1, <1>4 DEF AnswersInv
<1>5. CASE ~suspect
  <2>0. PICK m \in Nat : \E b, x, y : Scans(m, b, x, y)  BY <1>5, ScanFinds
  <2>1. PICK b, x, y : Scans(m, b, x, y)  BY <2>0
  <2>2. /\ f \in [0 .. m - 1 -> BucketType] /\ y \in Blocks /\ y.shard = scan.shard
        /\ y.offset = scan.offset /\ x.state = Filled /\ x.row = y.row
        /\ x.shard = scan.shard /\ x.offset = scan.offset /\ Found(f, b, x.row)
        /\ g = [f EXCEPT ![b] = x]
    BY <2>1 DEF Scans
  <2>3. /\ b \in DOMAIN f /\ (f[b].state = Empty \/ f[b].row = x.row)
        /\ \A c \in DOMAIN f : f[c].row = x.row => c = b
    BY <2>2 DEF Found
  <2>4. /\ Entries = {f[d] : d \in InState(Filled)}
        /\ Entries' = {g[d] : d \in InState(Filled)'}
    BY <1>1 DEF Entries, Enlarges, Building
  <2>5. /\ DOMAIN g = DOMAIN f /\ g[b] = x /\ \A d \in DOMAIN f : d # b => g[d] = f[d]
        /\ b \in DOMAIN f
    BY <2>2 DEF Found
  <2>6. /\ InState(Filled) = {d \in DOMAIN f : f[d].state = Filled}
        /\ InState(Filled)' = {d \in DOMAIN f : g[d].state = Filled}
    BY <2>5 DEF InState, Buckets
  <2> HIDE DEF f, g
  <2>7. x \in Entries'  BY <2>2, <2>4, <2>5, <2>6
  <2>8. \A e \in Entries' : e = x \/ (e \in Entries /\ e.row # x.row)
    <3> SUFFICES ASSUME NEW d \in InState(Filled)', g[d] # x
                 PROVE  g[d] \in Entries /\ g[d].row # x.row
      BY <2>4
    <3>1. d # b /\ d \in DOMAIN f /\ g[d] = f[d] /\ f[d].state = Filled  BY <2>5, <2>6
    <3> QED  BY <2>3, <2>4, <2>6, <3>1
  <2>9. \A e \in Entries : e.row = x.row \/ e \in Entries'
    <3> SUFFICES ASSUME NEW d \in InState(Filled), f[d].row # x.row PROVE f[d] \in Entries'
      BY <2>4
    <3>1. d \in DOMAIN f /\ f[d].state = Filled  BY <2>6
    <3>2. d # b  BY <2>3, <3>1 DEF Empty, Filled
    <3> QED  BY <2>4, <2>5, <2>6, <3>1, <3>2
  <2>10. PICK s \in Nat, o \in Nat : s = scan.shard /\ o = scan.offset
    BY <2>2, BlockPlaces
  <2>11. /\ \A z : Seen(z) <=> z.shard < s \/ (z.shard = s /\ z.offset < o)
         /\ \A z : Seen(z)' <=> z.shard < s \/ (z.shard = s /\ z.offset < o + 3)
    BY <1>1, <2>10 DEF Seen
  <2>12. ASSUME NEW z \in Blocks, Seen(z)' PROVE z = y \/ Seen(z)
    <3>1. z.shard \in Nat /\ z.offset \in Nat  BY BlockPlaces
    <3>2. CASE z.shard = s /\ o <= z.offset
      <4>1. z.offset < o + 3  BY <2>11, <2>12, <3>1, <3>2
      <4>2. y.shard = z.shard /\ y.offset <= z.offset /\ z.offset < y.offset + 3
        BY <2>2, <2>10, <3>2, <4>1
      <4>3. FilesTyped  BY DEF RecoveryInv, Typed
      <4> QED  BY <2>2, <4>2, <4>3, OneBlock
    <3>3. CASE ~(z.shard = s /\ o <= z.offset)
      <4>1. z.shard < s \/ (z.shard = s /\ z.offset < o)  BY <2>11, <2>12, <3>1, <3>3
      <4> QED  BY <2>11, <4>1
    <3> QED  BY <3>2, <3>3
  <2>13. SeenInv  BY <1>3, <1>5 DEF AnswersInv
  <2>14. ASSUME NEW e \in Entries'
         PROVE  Seen(e)' /\ \A z \in Blocks : z.row = e.row /\ Seen(z)' => UpTo(z, e)
    <3>1. CASE e = x
      <4>1. Seen(e)'
        <5>1. x.shard = s /\ x.offset = o /\ o < o + 3  BY <2>2, <2>10
        <5> QED  BY <2>11, <3>1, <5>1
      <4>2. ASSUME NEW z \in Blocks, Seen(z)' PROVE UpTo(z, x)
        <5>1. x.shard = s /\ x.offset = o  BY <2>2, <2>10
        <5>2. z.shard \in Nat /\ z.offset \in Nat  BY BlockPlaces
        <5>3. CASE z = y  BY <2>2, <5>1, <5>2, <5>3 DEF UpTo
        <5>4. CASE Seen(z)
          <6>1. z.shard < s \/ (z.shard = s /\ z.offset < o)  BY <2>11, <5>4
          <6>2. z.shard < s \/ (z.shard = s /\ z.offset <= o)  BY <5>2, <6>1
          <6> QED  BY <5>1, <6>2 DEF UpTo
        <5> QED  BY <2>12, <4>2, <5>3, <5>4
      <4> QED  BY <3>1, <4>1, <4>2
    <3>2. CASE e # x
      <4>1. e \in Entries /\ e.row # x.row  BY <2>8, <3>2
      <4>2. Seen(e)  BY <2>13, <4>1 DEF SeenInv
      <4>3. Seen(e)'
        <5>1. e.shard < s \/ (e.shard = s /\ e.offset < o)  BY <2>11, <4>2
        <5>2. e.offset \in Nat
          <6>1. PICK d \in DOMAIN f : e = f[d]  BY <2>4, <2>6, <4>1
          <6> QED  BY <2>2, <6>1 DEF BucketType
        <5>3. e.shard < s \/ (e.shard = s /\ e.offset < o + 3)  BY <5>1, <5>2
        <5> QED  BY <2>11, <5>3
      <4>4. ASSUME NEW z \in Blocks, z.row = e.row, Seen(z)' PROVE UpTo(z, e)
        <5>1. z # y  BY <2>2, <4>1, <4>4
        <5>2. Seen(z)  BY <2>12, <4>4, <5>1
        <5> QED  BY <2>13, <4>1, <4>4, <5>2 DEF SeenInv
      <4> QED  BY <4>3, <4>4
    <3> QED  BY <3>1, <3>2
  <2>15. ASSUME NEW z \in Blocks, Seen(z)' PROVE \E e \in Entries' : e.row = z.row
    <3>1. CASE z.row = x.row  BY <2>7, <3>1
    <3>2. CASE z.row # x.row
      <4>1. Seen(z)  BY <2>2, <2>12, <2>15, <3>2
      <4>2. PICK e \in Entries : e.row = z.row  BY <2>13, <4>1 DEF SeenInv
      <4> QED  BY <2>9, <3>2, <4>2
    <3> QED  BY <3>1, <3>2
  <2>16. SeenInv'  BY <2>14, <2>15 DEF SeenInv, UpTo
  <2> QED  BY <1>2, <1>3, <2>16, NobodyOwns DEF AnswersInv
<1> QED  BY <1>4, <1>5

\* At the end of its file, the scan has seen all of a shard.
LEMMA ShardSeen ==
  ASSUME RecoveryInv, scan.offset >= Size, NEW y \in Blocks
  PROVE  Seen(y) <=> y.shard < scan.shard \/ y.shard = scan.shard
<1>1. y.shard \in Nat /\ y.offset \in Nat /\ y.offset + 3 <= Len(file[y.shard])
      /\ Len(file[y.shard]) \in Nat
  BY BlockPlaces
<1>2. scan.offset \in Nat  BY DEF RecoveryInv, Typed, ScanTyped, Positive
<1>3. y.shard = scan.shard => y.offset < scan.offset
  <2> SUFFICES ASSUME y.shard = scan.shard PROVE y.offset < scan.offset  OBVIOUS
  <2>1. PICK n \in Nat : n = Len(file[y.shard]) /\ n = Size  BY <1>1 DEF Size
  <2> QED  BY <1>1, <1>2, <2>1
<1> QED  BY <1>3 DEF Seen

\* At the end of the last shard it has seen all blocks, if the shard count
\* sorts them: what it has collected is the last block of every row.
LEMMA AllSeen ==
  ASSUME RecoveryInv, FileInv, LookupInv, BlockInv, SeenInv, ~suspect, pc = "scan",
         scan.offset >= Size, ~MoreShards, IndexOrdered
  PROVE  AnswerInv
<1>1. opts \in Options /\ index.shards = opts.shards /\ FilesTyped
      /\ scan.shard \in Opened
  BY DEF RecoveryInv, Typed, SessionTyped, PlaceInv, ScanTyped
<1>2. PICK n \in Nat \ {0} : n = opts.shards  BY <1>1, OpenedShards
<1>3. scan.shard \in Nat /\ scan.shard + 1 >= n
  BY <1>1, <1>2 DEF Opened, MoreShards
<1>4. ASSUME NEW y \in Blocks PROVE Seen(y)
  <2>1. PICK m \in used : y.shard = HashOf[y.row] % m  BY DEF BlockInv, HomesInv
  <2>2. m \in Nat \ {0} /\ n % m = 0
    BY <1>1, <1>2 DEF FileInv, WriteInv, Positive, IndexOrdered
  <2>3. PICK h \in Nat : h = HashOf[y.row]
    <3>1. y.row \in Row  BY BlockPlaces
    <3> QED  BY <3>1, RecoveryAssumption
  <2>4. h % m <= h % n  BY <2>2, <2>3, ShardGrows
  <2>5. h % n < n /\ h % n \in Nat /\ h % m \in Nat
    BY ONLY h \in Nat, n \in Nat \ {0}, <2>2
  <2>6. y.shard < n /\ y.shard \in Nat  BY <2>1, <2>3, <2>4, <2>5
  <2>7. y.shard < scan.shard \/ y.shard = scan.shard  BY <1>3, <2>6
  <2> QED  BY <2>7, ShardSeen
<1>5. Entries = {index.bucket[b] : b \in InState(Filled)}
  <2>1. ~Enlarges  BY DEF Enlarges, Building
  <2> QED  BY <2>1 DEF Entries
<1>6. TableInv /\ InState(Writing) = {}
  <2>1. TableInv /\ ClaimInv  BY HasRoom DEF InUse
  <2>2. \A t \in Thread : ~Publishing(t)  BY NobodyCounts
  <2> QED  BY <2>1, <2>2 DEF ClaimInv
<1>7. ASSUME NEW b \in Buckets, index.bucket[b].row \in Row PROVE Right(index.bucket[b])
  <2>1. PICK x : x = index.bucket[b]  OBVIOUS
  <2>2. SoundAt(index.bucket, Blocks, b)  BY <1>6 DEF TableInv, Table, Buckets
  <2>3. x.state # Empty  BY <1>7, <2>1, <2>2, RecoveryAssumption DEF SoundAt
  <2>4. x.state = Filled
    <3>1. PICK m \in Nat : index.bucket \in [0 .. m - 1 -> BucketType]  BY IndexIsArray
    <3>2. x.state \in {Empty, Filled, Writing}  BY <2>1, <3>1 DEF BucketType, Buckets
    <3>3. x.state # Writing  BY <1>6, <2>1 DEF InState
    <3> QED  BY <2>3, <3>2, <3>3
  <2>5. x \in Entries  BY <1>5, <2>1, <2>4 DEF InState
  <2> SUFFICES ASSUME NEW y \in Blocks, y.shard = x.shard, y.offset = x.offset, y.row = x.row
               PROVE  y.val \in Allowed(y.row)
    BY <2>1 DEF Right
  <2>6. \A z \in Blocks : z.row = y.row => UpTo(z, x)  BY <1>4, <2>5 DEF SeenInv
  <2>7. IsLast(y)  BY <2>6 DEF IsLast, UpTo
  <2> QED  BY <2>7 DEF BlockInv, LatestInv, IndexOrdered
<1>8. ASSUME NEW r \in Row, acked[r] # 0 PROVE \E b \in Buckets : index.bucket[b].row = r
  <2>1. PICK y \in Blocks : y.row = r  BY <1>8 DEF BlockInv, WrittenInv
  <2>2. PICK x \in Entries : x.row = r  BY <1>4, <2>1 DEF SeenInv
  <2> QED  BY <1>5, <2>2 DEF InState
<1> QED  BY <1>7, <1>8 DEF AnswerInv

LEMMA AnswersEndShard ==
  ASSUME RecoveryInv, RecoveryInv', FileInv, LookupInv, BlockInv, AnswersInv, ScanShardEnds,
         Blocks' = Blocks, \A r \in Row : Allowed(r) \subseteq Allowed(r)'
  PROVE  AnswersInv'
<1>1. /\ pc = "scan" /\ scan.offset >= Size
      /\ UNCHANGED <<file, opts, writer, build, suspect, used, drift, acked>>
      /\ \/ MoreShards /\ scan' = [scan EXCEPT !.shard = @ + 1, !.offset = 1]
            /\ UNCHANGED <<index, pc>>
         \/ ~MoreShards /\ pc' = "serving"
            /\ index' = [index EXCEPT !.nextSequence = scan.nextSequence]
  BY DEF ScanShardEnds, history
<1>2. \A t \in Thread : writer'[t].pc = "idle"  BY <1>1, StillIdle
<1>3. Rebuilding  BY <1>1 DEF Rebuilding
<1> SUFFICES ASSUME ~suspect
             PROVE  /\ Rebuilding' => SeenInv'
                    /\ ~Rebuilding' /\ IndexOrdered' => AnswerInv'
  BY <1>1, <1>2, NobodyOwns DEF AnswersInv
<1>4. SeenInv  BY <1>3 DEF AnswersInv
<1>5. CASE MoreShards /\ scan' = [scan EXCEPT !.shard = @ + 1, !.offset = 1]
           /\ UNCHANGED <<index, pc>>
  <2>1. Rebuilding'  BY <1>1, <1>5 DEF Rebuilding
  <2>2. scan'.shard = scan.shard + 1 /\ scan'.offset = 1 /\ scan.shard \in Nat
        /\ scan.offset \in Nat
    BY <1>5 DEF RecoveryInv, Typed, ScanTyped, Opened, Positive
  <2>3. ASSUME NEW y \in Blocks, Seen(y)' PROVE Seen(y)
    <3>1. y.shard \in Nat /\ y.offset \in Nat /\ y.offset >= 1  BY BlockPlaces
    <3>2. y.shard < scan.shard + 1  BY <2>2, <2>3, <3>1 DEF Seen
    <3>3. y.shard < scan.shard \/ y.shard = scan.shard  BY <2>2, <3>1, <3>2
    <3> QED  BY <1>1, <3>3, ShardSeen
  <2>4. Entries' = Entries
    BY <1>1, <1>5 DEF Entries, Enlarges, Building, Copied, InState, Buckets
  <2>5. ASSUME NEW x \in Entries PROVE Seen(x)'
    <3>1. Seen(x)  BY <1>4 DEF SeenInv
    <3>2. x.shard \in Nat
      <4>1. PICK b \in InState(Filled) : x = index.bucket[b]
        BY <1>1 DEF Entries, Enlarges, Building
      <4>2. b \in Buckets  BY DEF InState
      <4>3. PICK m \in Nat : index.bucket \in [0 .. m - 1 -> BucketType]  BY IndexIsArray
      <4>4. index.bucket[b].shard \in Shard  BY <4>2, <4>3 DEF BucketType, Buckets
      <4>5. opts \in Options  BY DEF RecoveryInv, Typed, SessionTyped
      <4> QED  BY <4>1, <4>4, <4>5, OpenedShards
    <3>3. x.shard <= scan.shard  BY <2>2, <3>1, <3>2 DEF Seen
    <3>4. x.shard < scan.shard + 1  BY <2>2, <3>2, <3>3
    <3> QED  BY <2>2, <3>4 DEF Seen
  <2>6. SeenInv'
    <3>1. \A x \in Entries', y \in Blocks' : y.row = x.row /\ Seen(y)' => UpTo(y, x)
      BY <1>4, <2>3, <2>4 DEF SeenInv
    <3>2. \A y \in Blocks' : Seen(y)' => \E x \in Entries' : x.row = y.row
      BY <1>4, <2>3, <2>4 DEF SeenInv
    <3> QED  BY <2>4, <2>5, <3>1, <3>2 DEF SeenInv, UpTo
  <2> QED  BY <2>1, <2>6
<1>6. CASE ~MoreShards /\ pc' = "serving"
           /\ index' = [index EXCEPT !.nextSequence = scan.nextSequence]
  <2>1. ~Rebuilding'  BY <1>6 DEF Rebuilding
  <2>2. index'.bucket = index.bucket /\ index'.shards = index.shards
    BY <1>6 DEF RecoveryInv, Typed, IndexTyped
  <2> SUFFICES ASSUME IndexOrdered' PROVE AnswerInv'  BY <2>1
  <2>3. IndexOrdered  BY <1>1, <2>2, Zenon DEF IndexOrdered
  <2>4. AnswerInv  BY <1>1, <1>4, <1>6, <2>3, AllSeen
  <2>5. Table(index.bucket, Blocks)  BY <1>1, HasRoom DEF InUse, TableInv
  <2>6. FilesTyped'  BY DEF RecoveryInv, Typed
  <2> QED  BY <1>1, <2>2, <2>4, <2>5, <2>6, SameNamesOf, AnswerKept
<1> QED  BY <1>1, <1>5, <1>6

\* Open, Close and Crash leave the index as it is.
LEMMA AnswersStay ==
  ASSUME RecoveryInv, RecoveryInv', FileInv, LookupInv, AnswersInv,
         \A t \in Thread : writer'[t].pc = "idle",
         index' = index, Blocks' = Blocks, UNCHANGED <<used, drift, acked>>,
         \A r \in Row : Allowed(r) \subseteq Allowed(r)',
         ~Rebuilding', ~suspect' => ~suspect /\ (Rebuilding => ~index.header)
  PROVE  AnswersInv'
<1> SUFFICES ASSUME ~suspect', index'.header, IndexOrdered' PROVE AnswerInv'
  BY NobodyOwns DEF AnswersInv
<1>1. ~suspect /\ ~Rebuilding /\ index.header  OBVIOUS
<1>2. IndexOrdered  BY Zenon DEF IndexOrdered
<1>3. AnswerInv  BY <1>1, <1>2 DEF AnswersInv
<1>4. TableInv  BY <1>1, Zenon DEF LookupInv
<1>5. FilesTyped'  BY DEF RecoveryInv, Typed
<1>6. SameNames(index.bucket, index'.bucket)  BY SameNamesOf
<1> QED  BY <1>3, <1>4, <1>5, <1>6, AnswerKept DEF TableInv

LEMMA AnswersSession ==
  ASSUME RecoveryInv, RecoveryInv', FileInv, LookupInv, BlockInv, AnswersInv,
         [Next]_vars, ~\E t \in Thread : Write(t)
  PROVE  AnswersInv'
<1>1. /\ \A r \in Row : Allowed(r) \subseteq Allowed(r)'
      /\ Blocks' = Blocks /\ UNCHANGED <<used, drift, acked>>
  BY AllowedInSession
<1>2. CASE \E o \in Options : Open(o) \/ OpenReadOnly(o)
  <2>1. /\ pc = "closed" /\ UNCHANGED <<index, writer, suspect>>
        /\ pc' \in {"closed", "serving", "readonly"} \/ (pc' = "create" /\ build'.resume = "scan")
    BY <1>2 DEF Open, OpenReadOnly, history, NoBuild
  <2>2. \A t \in Thread : writer'[t].pc = "idle"  BY <2>1, StillIdle
  <2>3. ~Rebuilding /\ ~Rebuilding'  BY <2>1 DEF Rebuilding
  <2> QED  BY <1>1, <2>1, <2>2, <2>3, AnswersStay
<1>3. CASE Close
  <2>1. /\ pc \in {"readonly", "serving"} /\ pc' = "closed" /\ UNCHANGED <<index, suspect>>
        /\ \A t \in Thread : writer'[t].pc = "idle"
    BY <1>3 DEF Close, Closed, history, Idle
  <2>2. ~Rebuilding /\ ~Rebuilding'  BY <2>1 DEF Rebuilding
  <2> QED  BY <1>1, <2>1, <2>2, AnswersStay
<1>4. CASE Crash
  <2>1. /\ pc' = "closed" /\ index' = index
        /\ \A t \in Thread : writer'[t].pc = "idle"
        /\ suspect' = (suspect \/ HalfBuilt)
    BY <1>4 DEF Crash, Closed, Idle
  <2>2. ~suspect' => ~suspect /\ ~HalfBuilt  BY <2>1, Zenon
  <2>3. ~HalfBuilt /\ Rebuilding => ~index.header
    <3>1. ~HalfBuilt /\ Rebuilding => pc = "header"  BY DEF HalfBuilt, Rebuilding
    <3> QED  BY <3>1 DEF RecoveryInv, PlaceInv
  <2>4. ~Rebuilding'  BY <2>1 DEF Rebuilding
  <2> QED  BY <1>1, <2>1, <2>2, <2>3, <2>4, AnswersStay
<1>5. CASE ScanFails
  <2>1. suspect' = TRUE  BY <1>5 DEF ScanFails
  <2> QED  BY <2>1 DEF AnswersInv
<1>6. CASE DeleteIndex
  <2>1. pc = "closed" /\ pc' = "closed" /\ writer' = writer /\ index' = NoIndex
    BY <1>6 DEF DeleteIndex, session
  <2>2. ~index'.header  BY <2>1 DEF NoIndex
  <2>3. \A t \in Thread : writer'[t].pc = "idle"  BY <2>1, StillIdle
  <2>4. ~Rebuilding'  BY <2>1 DEF Rebuilding
  <2> QED  BY <2>2, <2>3, <2>4, NobodyOwns DEF AnswersInv
<1>7. CASE ClearIndex \/ CreateEmptyRowIndex \/ PlaceExistingRowBucket \/ IndexReady
  BY <1>1, <1>7, AnswersClear, AnswersCreate, AnswersPlace, AnswersReady
<1>8. CASE ScanGrows \/ ScanBlock \/ ScanShardEnds
  BY <1>1, <1>8, AnswersGrow, AnswersScan, AnswersEndShard
<1>9. CASE UNCHANGED vars
  <2>1. /\ UNCHANGED <<file, index, pc, opts, writer, scan, build, acked, maybe, used, drift, suspect>>
    BY <1>9 DEF vars, session, history
  <2>2. AnswersInv' = AnswersInv
    BY <2>1 DEF AnswersInv, OwnInv, Owned, Publishing, Buckets, HomeOf, ShardForRow, SeenInv,
       Entries, Enlarges, Building, Copied, InState, Seen, Blocks, UpTo, Rebuilding, AnswerInv,
       Right, Allowed, InFlight, Busy, IndexOrdered
  <2> QED  BY <2>2
<1> QED  BY <1>2, <1>3, <1>4, <1>5, <1>6, <1>7, <1>8, <1>9 DEF Next

LEMMA AnswersNext ==
  ASSUME RecoveryInv, RecoveryInv', FileInv, LookupInv, BlockInv, AnswersInv, [Next]_vars
  PROVE  AnswersInv'
<1>1. CASE ~\E t \in Thread : Write(t)  BY <1>1, AnswersSession
<1>2. ASSUME NEW t \in Thread, Write(t) PROVE AnswersInv'
  <2>1. CASE \E r \in Row : PutRowStructs(t, r)  BY <2>1, AnswersBegin
  <2>2. CASE WritePiece(t) \/ WriteBlock(t) \/ WriteBlockFails(t)  BY <2>2, AnswersWrite
  <2>3. CASE ClaimBucket(t)    BY <2>3, AnswersClaim
  <2>4. CASE PublishBucket(t)  BY <2>4, AnswersPublish
  <2>5. CASE FinishWrite(t)    BY <2>5, AnswersFinish
  <2> QED  BY <1>2, <2>1, <2>2, <2>3, <2>4, <2>5 DEF Write
<1> QED  BY <1>1, <1>2

LEMMA AnswersInit == Init => AnswersInv
<1> SUFFICES ASSUME Init PROVE AnswersInv  OBVIOUS
<1>1. /\ \A t \in Thread : writer[t].pc = "idle"
      /\ pc = "closed" /\ ~index.header
  BY DEF Init, Idle, NoIndex
<1>2. OwnInv  BY <1>1 DEF OwnInv, Owned, Publishing
<1>3. ~Rebuilding  BY <1>1 DEF Rebuilding
<1> QED  BY <1>1, <1>2, <1>3 DEF AnswersInv

\* An acknowledged row is lost in two ways only: the index comes from a rebuild
\* that was cut or failed half way, or from one over a torn shard file (then it
\* is suspect).  Everything else, writes that fail or are cut, crashes, a lost
\* index file, other bucket and shard counts as long as each shard count that
\* blocks are written under is a multiple of those before it, leaves every row
\* at its last acknowledged value or at a later one that was cut.
THEOREM RowsLostToTornBuilds == Spec => []RowLossNeedsTornBuild
<1> DEFINE Inv == RecoveryInv /\ FileInv /\ LookupInv /\ BlockInv /\ AnswersInv
<1>1. Inv => RowLossNeedsTornBuild
  <2> SUFFICES ASSUME Inv, Serving, Ordered, ~suspect, NEW r \in Row
               PROVE  GetRowStruct(r) \in {acked[r]} \cup maybe[r]
    BY DEF RowLossNeedsTornBuild, AnswersAcked
  <2> DEFINE f == index.bucket
  <2>1. Settled  BY ServingSettled
  <2>2. FilesTyped  BY DEF RecoveryInv, Typed
  <2>3. index.header /\ index.shards = opts.shards /\ ~Rebuilding
    BY DEF Serving, RecoveryInv, PlaceInv, Rebuilding
  <2>4. AnswerInv
    <3>1. IndexOrdered  BY <2>3 DEF Ordered, IndexOrdered
    <3> QED  BY <2>3, <3>1 DEF AnswersInv
  <2>5. Busy = {}  BY NobodyWrites DEF Serving
  <2>6. Allowed(r) = {acked[r]} \cup maybe[r]  BY <2>5 DEF Allowed, InFlight
  <2>7. CASE GetRowStruct(r) # 0
    <3>1. PICK b \in InState(Filled) : f[b].row = r /\ GetRowStruct(r) = ValueAt(f[b].shard, f[b].offset)
      BY <2>1, <2>7, RowAnswer
    <3>2. b \in Buckets  BY DEF InState
    <3>3. SoundAt(f, Blocks, b)  BY <2>1, <3>2 DEF Settled, Table, Buckets
    <3>4. Names(f[b], Blocks) /\ Right(f[b])  BY <2>4, <3>1, <3>2, <3>3 DEF SoundAt, AnswerInv
    <3>5. PICK x : x = f[b]  OBVIOUS
    <3>6. PICK y \in Blocks : /\ y.shard = x.shard /\ y.offset = x.offset /\ y.row = x.row
                              /\ ValueAt(x.shard, x.offset) = y.val
      BY <2>2, <3>4, <3>5, NamesRead
    <3>7. y.val \in Allowed(r)  BY <3>1, <3>4, <3>5, <3>6 DEF Right
    <3> QED  BY <2>6, <3>1, <3>5, <3>6, <3>7
  <2>8. CASE GetRowStruct(r) = 0
    <3> SUFFICES ASSUME acked[r] # 0 PROVE FALSE  BY <2>8
    <3>1. PICK b \in Buckets : f[b].row = r  BY <2>4 DEF AnswerInv
    <3>2. SoundAt(f, Blocks, b)  BY <2>1, <3>1 DEF Settled, Table, Buckets
    <3>3. f[b].state # Empty  BY <3>1, <3>2, RecoveryAssumption DEF SoundAt
    <3>4. b \in InState(Filled)  BY <2>1, <3>3 DEF Settled, TakenIn, Buckets
    <3> QED  BY <2>1, <2>8, <3>1, <3>4, RowAnswer
  <2> QED  BY <2>7, <2>8
<1>2. Init => Inv
  BY RecoveryInit, FileInvInit, LookupInit, BlockInvInit, AnswersInit
<1>3. Inv /\ [Next]_vars => Inv'
  <2> SUFFICES ASSUME Inv, [Next]_vars PROVE Inv'  OBVIOUS
  <2>1. RecoveryInv'  BY RecoveryNext
  <2> QED  BY <2>1, FileInvNext, LookupNext, BlockInvNext, AnswersNext
<1> QED  BY <1>1, <1>2, <1>3, PTL DEF Spec
=============================================================================
