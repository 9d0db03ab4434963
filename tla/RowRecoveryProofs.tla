------------------------- MODULE RowRecoveryProofs -------------------------
(***************************************************************************)
(* The row files across sessions, for any number of threads, shards and    *)
(* option changes: no sequence number is given out twice, and a rebuild    *)
(* rejects only files that have a hole or a cut block.                     *)
(***************************************************************************)
EXTENDS RowRecovery, FiniteSetTheorems, SequenceTheorems,
        WellFoundedInduction, TLAPS

CellType   == [row : Row \cup {NoRow}, val : Nat, seq : Nat, at : 0 .. 2]
BucketType == [state : {Empty, Filled, Writing}, row : Row \cup {NoRow}, shard : Shard,
               offset : Nat, seq : Nat]
Positive   == Nat \ {0}

FilesTyped == file \in [Shard -> Seq(CellType)]
IndexTyped ==
  /\ index = [header |-> index.header, shards |-> index.shards, items |-> index.items,
              nextSequence |-> index.nextSequence, bucket |-> index.bucket]
  /\ index.header \in BOOLEAN
  /\ index.shards \in Nat /\ index.items \in Nat /\ index.nextSequence \in Positive
  /\ \E n \in Nat : index.bucket \in [0 .. n - 1 -> BucketType]
BuildTyped ==
  /\ build \in [count : Nat, copy : {build.copy}, nextSequence : Positive,
                resume : {"serving", "scan", "insert"}]
  /\ \E B \in SUBSET Nat : build.copy \in [B -> BucketType]
ScanTyped == scan \in [shard : Opened, offset : Positive, nextSequence : Positive]
WriterTyped(w) ==
  w \in [pc : {"idle", "write", "writeRest", "claim", "publish", "count"},
         row : Row \cup {NoRow}, val : Nat, seq : Nat, offset : Nat,
         bucket : {w.bucket}, inserted : {w.inserted}]
WritersTyped == DOMAIN writer = Thread /\ \A t \in Thread : WriterTyped(writer[t])
SessionTyped ==
  /\ pc \in PcLabels /\ opts \in Options
  /\ append \in [Shard -> Nat]
  /\ status \in {"OK", "IOError", "Corruption", "InvalidArgument"}
  /\ calls \in 0 .. MaxCalls /\ crashes \in 0 .. MaxCrashes
  /\ used \in SUBSET Nat
FlagsTyped == drift \in BOOLEAN /\ suspect \in BOOLEAN
Typed == /\ FilesTyped /\ IndexTyped /\ BuildTyped /\ ScanTyped /\ WritersTyped
         /\ SessionTyped /\ FlagsTyped

\* An Open that has cleared the index and not finished filling it.
Building   == pc \in {"create", "header", "place"}
Rebuilding == \/ pc \in {"header", "place", "scan", "insert"}
              \/ pc = "create" /\ build.resume = "insert"

\* The block in hand is kept while the index grows.
InHand == pc = "insert" \/ (Building /\ build.resume = "insert")

\* What the places of Open have in common.
PlaceInv ==
  /\ Building => build.resume \in {"scan", "insert"}
  /\ Building \/ pc \in {"scan", "insert"} => status = "OK"
  /\ pc \in {"place", "scan", "insert", "serving", "readonly"} =>
       index.header /\ index.shards = opts.shards
  /\ pc = "header" => ~index.header
  /\ ~(pc = "scan" \/ InHand) => scan = NoScan
  /\ InHand => scan.offset < Size /\ ScanValid
  /\ pc # "serving" => \A t \in Thread : writer[t].pc = "idle" /\ writer[t].seq = 0

\* Shard files begin with their header, and nobody writes there.
HeaderInv ==
  /\ \A s \in Shard : file[s] # <<>> => file[s][1] = FileHeader
  /\ pc # "closed" => \A s \in Opened : file[s] # <<>> /\ append[s] > 0
  /\ \A t \in Thread : writer[t].pc \in {"write", "writeRest"} => writer[t].offset > 0
  /\ \A t \in Thread : writer[t].pc # "idle" => writer[t].row \in Row

\* Every sequence number in the shards that the index covers was given out.
Below(s, n) == \A i \in DOMAIN file[s] : file[s][i].seq < n
SequenceInv ==
  /\ \A t \in Thread : writer[t].seq < index.nextSequence
  /\ ~Rebuilding /\ index.header /\ ~suspect =>
       \A s \in Shard : s < index.shards => Below(s, index.nextSequence)

\* How far the scan has come, in files that are whole: it stands between two
\* blocks, and has counted the sequence numbers behind it.
Boundary == \/ scan.offset = 1
            \/ scan.offset <= Size /\ file[scan.shard][scan.offset].at = BlockSize - 1
Scanned ==
  /\ \A s \in Shard : s < scan.shard => Below(s, scan.nextSequence)
  /\ \A i \in DOMAIN file[scan.shard] :
       i <= scan.offset => file[scan.shard][i].seq < scan.nextSequence
ScanInv == Rebuilding => /\ Torn => suspect
                         /\ ~Torn => Boundary /\ Scanned

RecoveryInv == Typed /\ PlaceInv /\ HeaderInv /\ SequenceInv /\ ScanInv

-----------------------------------------------------------------------------
(* The shards that Open has opened, and where a row goes.                  *)

LEMMA OpenedShards ==
  ASSUME NEW o \in Options
  PROVE  /\ o.shards \in Nat \ {0} /\ o.buckets \in Nat \ {0}
         /\ \A s \in 0 .. o.shards - 1 : s \in Shard
         /\ 0 \in 0 .. o.shards - 1
         /\ \A s \in Shard : s \in Nat
<1>1. o.shards \in Nat \ {0} /\ o.buckets \in Nat \ {0}  BY RecoveryAssumption
<1>2. \A s \in 0 .. o.shards - 1 : s \in Shard  BY DEF Shard
<1>3. \A s \in Shard : s \in Nat
  <2>1. TAKE s \in Shard
  <2>2. PICK p \in Options : s \in 0 .. p.shards - 1  BY DEF Shard
  <2>3. p.shards \in Nat  BY <2>2, RecoveryAssumption
  <2> QED  BY <2>2, <2>3
<1> QED  BY <1>1, <1>2, <1>3

LEMMA ShardForRowOpened ==
  ASSUME NEW r \in Row, opts \in Options
  PROVE  ShardForRow(r) \in Opened /\ ShardForRow(r) \in Shard
<1>1. opts.shards \in Nat \ {0}  BY OpenedShards
<1>2. HashOf[r] \in Nat  BY RecoveryAssumption
<1>3. HashOf[r] % opts.shards \in 0 .. opts.shards - 1  BY <1>1, <1>2
<1> QED  BY <1>3, OpenedShards DEF ShardForRow, Opened

-----------------------------------------------------------------------------
(* Cells.                                                                  *)

LEMMA MaxOfTwo ==
  ASSUME NEW a \in Nat, NEW b \in Nat
  PROVE  Max({a, b}) \in Nat /\ Max({a, b}) = IF a >= b THEN a ELSE b
<1> DEFINE IsMax(x) == \A y \in {a, b} : x >= y
<1>1. \E x \in {a, b} : IsMax(x)  OBVIOUS
<1>2. Max({a, b}) = CHOOSE x \in {a, b} : IsMax(x)  BY DEF Max
<1>3. Max({a, b}) \in {a, b} /\ IsMax(Max({a, b}))  BY <1>1, <1>2
<1> QED  BY <1>3

LEMMA MinOfSome ==
  ASSUME NEW S \in SUBSET Nat, S # {}
  PROVE  Min(S) \in S /\ \A y \in S : Min(S) <= y
<1>1. PICK x \in S : \A y \in S : ~(<<y, x>> \in OpToRel(<, Nat))
  BY NatLessThanWellFounded, WFMin, Zenon
<1>2. \A y \in S : ~(y < x)  BY <1>1 DEF OpToRel
<1>3. \A y \in S : x <= y  BY <1>2
<1> QED  BY <1>3 DEF Min

LEMMA FunctionIsSeq ==
  ASSUME NEW S, NEW n \in Nat, NEW g \in [1 .. n -> S]
  PROVE  g \in Seq(S) /\ Len(g) = n /\ DOMAIN g = 1 .. n
<1>1. g \in Seq(S)  BY SeqDef
<1>2. Len(g) \in Nat /\ DOMAIN g = 1 .. Len(g)  BY <1>1, LenProperties
<1>3. DOMAIN g = 1 .. n  OBVIOUS
<1>4. 1 .. n = 1 .. Len(g)  BY <1>2, <1>3
<1>5. n \in 1 .. n \/ n = 0  OBVIOUS
<1>6. Len(g) \in 1 .. Len(g) \/ Len(g) = 0  BY <1>2
<1>7. n <= Len(g) /\ Len(g) <= n  BY <1>2, <1>4, <1>5, <1>6
<1> QED  BY <1>1, <1>2, <1>3, <1>7

LEMMA MarkTyped ==
  ASSUME NEW n \in 0 .. 2
  PROVE  Mark(n) \in CellType /\ Mark(n).seq = 0
BY DEF Mark, CellType

LEMMA BlockCells ==
  ASSUME NEW r \in Row, NEW v \in Nat, NEW q \in Nat
  PROVE  /\ Block(r, v, q) \in Seq(CellType)
         /\ Len(Block(r, v, q)) = 3
         /\ \A i \in 1 .. 3 : Block(r, v, q)[i].seq = q
<1> DEFINE c(i) == [row |-> r, val |-> v, seq |-> q, at |-> i - 1]
<1>1. \A i \in 1 .. 3 : c(i) \in CellType  BY DEF CellType
<1>2. Block(r, v, q) = [i \in 1 .. 3 |-> c(i)]  BY DEF Block, BlockSize
<1>3. Block(r, v, q) \in [1 .. 3 -> CellType]  BY <1>1, <1>2
<1>4. \A i \in 1 .. 3 : Block(r, v, q)[i].seq = q  BY <1>2
<1>5. Block(r, v, q) \in Seq(CellType) /\ Len(Block(r, v, q)) = 3  BY <1>3, FunctionIsSeq
<1> QED  BY <1>4, <1>5

\* A cell of a cut block is a cell of the block or a piece of one.
LEMMA PieceCells ==
  ASSUME NEW b \in Seq(CellType), Len(b) = 3, NEW p \in Pieces(b)
  PROVE  /\ p \in Seq(CellType)
         /\ \A i \in DOMAIN p : p[i].seq = 0 \/ \E j \in 1 .. 3 : p[i] = b[j]
<1>0. Fragment \in CellType /\ Fragment.seq = 0  BY MarkTyped DEF Fragment
<1>1. \A k \in 0 .. 2 : /\ SubSeq(b, 1, k) \in Seq(CellType)
                        /\ Len(SubSeq(b, 1, k)) = k
                        /\ \A i \in 1 .. k : SubSeq(b, 1, k)[i] = b[i]
  <2>1. TAKE k \in 0 .. 2
  <2>2. \A i \in 1 .. k : b[i] \in CellType  BY LenProperties
  <2>3. /\ SubSeq(b, 1, k) \in Seq(CellType)
        /\ Len(SubSeq(b, 1, k)) = IF 1 <= k THEN k - 1 + 1 ELSE 0
        /\ \A i \in 1 .. k - 1 + 1 : SubSeq(b, 1, k)[i] = b[1 + i - 1]
    BY <2>2, SubSeqProperties
  <2> QED  BY <2>3
<1>2. CASE \E k \in 1 .. 2 : p = SubSeq(b, 1, k)
  <2>1. PICK k \in 1 .. 2 : p = SubSeq(b, 1, k)  BY <1>2
  <2>2. p \in Seq(CellType) /\ DOMAIN p = 1 .. k /\ \A i \in 1 .. k : p[i] = b[i]
    BY <1>1, <2>1
  <2> QED  BY <2>2
<1>3. CASE \E k \in 0 .. 1 : p = Append(SubSeq(b, 1, k), Fragment)
  <2>1. PICK k \in 0 .. 1 : p = Append(SubSeq(b, 1, k), Fragment)  BY <1>3
  <2> DEFINE q == SubSeq(b, 1, k)
  <2>2. q \in Seq(CellType) /\ Len(q) = k /\ \A i \in 1 .. k : q[i] = b[i]  BY <1>1
  <2> HIDE DEF q
  <2>3. /\ p \in Seq(CellType) /\ DOMAIN p = 1 .. k + 1 /\ p[k + 1] = Fragment
        /\ \A i \in 1 .. k : p[i] = q[i]
    BY <1>0, <2>1, <2>2 DEF q
  <2>4. \A i \in 1 .. k + 1 : i = k + 1 \/ (i \in 1 .. k /\ i \in 1 .. 3)  OBVIOUS
  <2> QED  BY <1>0, <2>2, <2>3, <2>4
<1> QED  BY <1>2, <1>3 DEF Pieces, BlockSize

\* Overwrite keeps what it does not write, and fills a gap with zeros.
LEMMA OverwriteCells ==
  ASSUME NEW f \in Seq(CellType), NEW o \in Nat, NEW c \in Seq(CellType)
  PROVE  /\ Overwrite(f, o, c) \in Seq(CellType)
         /\ Len(Overwrite(f, o, c)) >= Len(f)
         /\ \A i \in DOMAIN Overwrite(f, o, c) :
              \/ Overwrite(f, o, c)[i].seq = 0
              \/ \E j \in DOMAIN f : Overwrite(f, o, c)[i] = f[j]
              \/ \E j \in DOMAIN c : Overwrite(f, o, c)[i] = c[j]
         /\ o > 0 /\ Len(f) > 0 => Overwrite(f, o, c)[1] = f[1]
<1> DEFINE m == Max({Len(f), o + Len(c)})
           e(i) == IF i \in o + 1 .. o + Len(c) THEN c[i - o]
                   ELSE IF i <= Len(f) THEN f[i] ELSE Hole
           g == Overwrite(f, o, c)
<1>1. m \in Nat /\ m >= Len(f)  BY MaxOfTwo
<1>2. Hole \in CellType /\ Hole.seq = 0  BY MarkTyped DEF Hole
<1>3. g = [i \in 1 .. m |-> e(i)]  BY DEF Overwrite
<1> HIDE DEF m, g
<1>4. \A i \in 1 .. m : \/ e(i) = Hole
                        \/ \E j \in DOMAIN f : e(i) = f[j]
                        \/ \E j \in DOMAIN c : e(i) = c[j]
  <2>1. TAKE i \in 1 .. m
  <2>2. CASE i \in o + 1 .. o + Len(c)
    <3>1. i - o \in DOMAIN c /\ e(i) = c[i - o]  BY <2>2, <1>1
    <3> QED  BY <3>1
  <2>3. CASE i \notin o + 1 .. o + Len(c) /\ i <= Len(f)
    <3>1. i \in DOMAIN f /\ e(i) = f[i]  BY <2>3, <1>1
    <3> QED  BY <3>1
  <2>4. CASE i \notin o + 1 .. o + Len(c) /\ ~(i <= Len(f))
    BY <2>4
  <2> QED  BY <2>2, <2>3, <2>4
<1>5. o > 0 /\ Len(f) > 0 => e(1) = f[1]  OBVIOUS
<1> HIDE DEF e
<1>6. \A i \in 1 .. m : e(i) \in CellType  BY <1>2, <1>4
<1>7. g \in [1 .. m -> CellType] /\ \A i \in 1 .. m : g[i] = e(i)  BY <1>3, <1>6
<1>8. g \in Seq(CellType) /\ Len(g) = m /\ DOMAIN g = 1 .. m  BY <1>1, <1>7, FunctionIsSeq
<1>9. Len(f) > 0 => 1 \in 1 .. m  BY <1>1
<1>10. \A i \in DOMAIN g : \/ g[i].seq = 0
                           \/ \E j \in DOMAIN f : g[i] = f[j]
                           \/ \E j \in DOMAIN c : g[i] = c[j]
  BY <1>2, <1>4, <1>7, <1>8
<1>11. o > 0 /\ Len(f) > 0 => g[1] = f[1]  BY <1>5, <1>7, <1>9
<1> QED  BY <1>1, <1>8, <1>10, <1>11 DEF g

-----------------------------------------------------------------------------
(* What the steps do to the files and to the index.                        *)

\* A write keeps the file header and brings no sequence number but its own.
LEMMA StoreEffect ==
  ASSUME RecoveryInv, pc = "serving", NEW t \in Thread,
         writer[t].pc \in {"write", "writeRest"},
         NEW c \in Seq(CellType),
         \A i \in DOMAIN c : c[i].seq = 0 \/ c[i].seq = writer[t].seq,
         Store(writer[t], c)
  PROVE  /\ FilesTyped'
         /\ \A s \in Shard : file[s] # <<>> => file'[s] # <<>>
         /\ \A s \in Shard : file'[s] # <<>> => file'[s][1] = FileHeader
         /\ \A s \in Shard : \A n \in Nat \ {0} :
              Below(s, n) /\ writer[t].seq < n => \A i \in DOMAIN file'[s] : file'[s][i].seq < n
<1> DEFINE w == writer[t]
           h == ShardForRow(w.row)
           g == Overwrite(file[h], w.offset, c)
<1>1. /\ w.offset \in Nat /\ w.offset > 0 /\ w.row \in Row /\ w.seq \in Nat
      /\ opts \in Options /\ file \in [Shard -> Seq(CellType)]
  BY DEF RecoveryInv, Typed, WritersTyped, WriterTyped, SessionTyped, FilesTyped, HeaderInv
<1>2. h \in Opened /\ h \in Shard  BY <1>1, ShardForRowOpened
<1>3. file[h] \in Seq(CellType) /\ file[h] # <<>>
  BY <1>1, <1>2 DEF RecoveryInv, HeaderInv
<1>4. file[h][1] = FileHeader  BY <1>2, <1>3 DEF RecoveryInv, HeaderInv
<1>5. Len(file[h]) > 0  BY <1>3
<1>6. file' = [file EXCEPT ![h] = g]  BY DEF Store
<1> HIDE DEF h, g
<1>7. /\ g \in Seq(CellType) /\ Len(g) >= Len(file[h]) /\ g[1] = file[h][1]
      /\ \A i \in DOMAIN g : \/ g[i].seq = 0
                             \/ \E j \in DOMAIN file[h] : g[i] = file[h][j]
                             \/ \E j \in DOMAIN c : g[i] = c[j]
  BY <1>1, <1>3, <1>5, OverwriteCells DEF g
<1>8. g # <<>> /\ g[1] = FileHeader  BY <1>3, <1>4, <1>5, <1>7
<1>9. /\ FilesTyped' /\ file'[h] = g
      /\ \A s \in Shard : s # h => file'[s] = file[s]
  BY <1>1, <1>2, <1>6, <1>7 DEF FilesTyped
<1>10. \A s \in Shard : file[s] # <<>> => file'[s] # <<>>  BY <1>8, <1>9
<1>11. \A s \in Shard : file'[s] # <<>> => file'[s][1] = FileHeader
  BY <1>8, <1>9 DEF RecoveryInv, HeaderInv
<1>12. ASSUME NEW s \in Shard, NEW n \in Nat \ {0}, Below(s, n), w.seq < n,
              NEW i \in DOMAIN file'[s]
       PROVE  file'[s][i].seq < n
  <2>1. CASE s # h
    BY <1>9, <1>12, <2>1 DEF Below
  <2>2. CASE s = h
    <3>1. file'[s] = g /\ i \in DOMAIN g  BY <1>9, <2>2
    <3>2. CASE g[i].seq = 0  BY <3>1, <3>2
    <3>3. CASE \E j \in DOMAIN file[h] : g[i] = file[h][j]
      BY <3>1, <3>3, <2>2, <1>12 DEF Below
    <3>4. CASE \E j \in DOMAIN c : g[i] = c[j]
      <4>1. PICK j \in DOMAIN c : g[i] = c[j]  BY <3>4
      <4>2. g[i].seq = 0 \/ g[i].seq = w.seq  BY <4>1
      <4> QED  BY <4>2, <3>1, <1>12
    <3> QED  BY <1>7, <3>1, <3>2, <3>3, <3>4
  <2> QED  BY <2>1, <2>2
<1> QED  BY <1>9, <1>10, <1>11, <1>12

\* The bucket array keeps its length, whichever bucket is stored into.
LEMMA StoreIntoBucket ==
  ASSUME NEW n \in Nat, NEW f \in [0 .. n - 1 -> BucketType], NEW b, NEW x,
         b \in 0 .. n - 1 => x \in BucketType
  PROVE  [f EXCEPT ![b] = x] \in [0 .. n - 1 -> BucketType]
OBVIOUS

LEMMA IndexFields ==
  ASSUME NEW i, NEW h, NEW s, NEW n, NEW q, NEW f,
         i = [header |-> h, shards |-> s, items |-> n, nextSequence |-> q, bucket |-> f]
  PROVE  i.header = h /\ i.shards = s /\ i.items = n /\ i.nextSequence = q /\ i.bucket = f
OBVIOUS

\* An index that keeps its header.
LEMMA IndexParts ==
  ASSUME IndexTyped, NEW n \in Nat, NEW q \in Positive,
         NEW m \in Nat, NEW f \in [0 .. m - 1 -> BucketType],
         index' = [header |-> index.header, shards |-> index.shards,
                   items |-> n, nextSequence |-> q, bucket |-> f]
  PROVE  /\ IndexTyped'
         /\ index'.header = index.header /\ index'.shards = index.shards
         /\ index'.nextSequence = q
<1>1. /\ index'.header = index.header /\ index'.shards = index.shards
      /\ index'.items = n /\ index'.nextSequence = q /\ index'.bucket = f
  BY IndexFields
<1>2. IndexTyped'
  <2>1. index'.header \in BOOLEAN  BY <1>1, Zenon DEF IndexTyped
  <2>2. /\ index'.shards \in Nat /\ index'.items \in Nat /\ index'.nextSequence \in Positive
        /\ index'.bucket \in [0 .. m - 1 -> BucketType]
    BY <1>1 DEF IndexTyped
  <2>3. index' = [header |-> index'.header, shards |-> index'.shards,
                  items |-> index'.items, nextSequence |-> index'.nextSequence,
                  bucket |-> index'.bucket]
    BY <1>1
  <2> QED  BY <2>1, <2>2, <2>3, Zenon DEF IndexTyped
<1> QED  BY <1>1, <1>2

\* A bucket is stored, and n rows are counted.
LEMMA WithBucketStep ==
  ASSUME IndexTyped, NEW b, NEW x, NEW n \in Nat,
         b \in Buckets => x \in BucketType,
         index' = WithBucket(b, x, n)
  PROVE  /\ IndexTyped'
         /\ index'.header = index.header /\ index'.shards = index.shards
         /\ index'.nextSequence = index.nextSequence
<1> DEFINE f == [index.bucket EXCEPT ![b] = x]
           q == index.nextSequence
           k == index.items + n
<1>1. PICK m \in Nat : index.bucket \in [0 .. m - 1 -> BucketType]  BY DEF IndexTyped
<1>2. f \in [0 .. m - 1 -> BucketType]  BY <1>1, StoreIntoBucket DEF Buckets
<1>3. q \in Positive /\ k \in Nat  BY DEF IndexTyped
<1>4. index = [header |-> index.header, shards |-> index.shards, items |-> index.items,
              nextSequence |-> q, bucket |-> index.bucket]
  BY DEF IndexTyped
<1>5. index' = [header |-> index.header, shards |-> index.shards, items |-> k,
               nextSequence |-> q, bucket |-> f]
  BY ONLY <1>4, index' = WithBucket(b, x, n) DEF WithBucket
<1> HIDE DEF f, q, k
<1>6. /\ IndexTyped'
      /\ index'.header = index.header /\ index'.shards = index.shards
      /\ index'.nextSequence = q
  BY ONLY <1>1, <1>2, <1>3, <1>5, IndexTyped, IndexParts
<1> QED  BY <1>6, Zenon DEF q

\* nextSequence is stored.
LEMMA StoreSequenceStep ==
  ASSUME IndexTyped, NEW q \in Positive,
         index' = [index EXCEPT !.nextSequence = q]
  PROVE  /\ IndexTyped'
         /\ index'.header = index.header /\ index'.shards = index.shards
         /\ index'.nextSequence = q
<1>1. PICK m \in Nat : index.bucket \in [0 .. m - 1 -> BucketType]  BY DEF IndexTyped
<1>2. index.items \in Nat  BY DEF IndexTyped
<1>3. index = [header |-> index.header, shards |-> index.shards, items |-> index.items,
              nextSequence |-> index.nextSequence, bucket |-> index.bucket]
  BY DEF IndexTyped
<1>4. index' = [header |-> index.header, shards |-> index.shards, items |-> index.items,
               nextSequence |-> q, bucket |-> index.bucket]
  BY ONLY <1>3, index' = [index EXCEPT !.nextSequence = q]
<1> QED  BY ONLY <1>1, <1>2, <1>4, q \in Positive, IndexTyped, IndexParts

-----------------------------------------------------------------------------
(* Steps that have much in common.                                         *)

\* Whether a file is torn depends on the files that are open only.
LEMMA SameFiles ==
  ASSUME file' = file, opts' = opts
  PROVE  Torn' = Torn /\ Opened' = Opened
BY DEF Torn, Opened

LEMMA IdleTyped ==
  WriterTyped(Idle) /\ Idle.pc = "idle" /\ Idle.seq = 0
BY DEF WriterTyped, Idle

\* A step of a database that serves calls and keeps the index header.
LEMMA ServingStep ==
  ASSUME RecoveryInv, pc = "serving",
         UNCHANGED <<pc, opts, scan, build>>,
         index'.header = index.header, index'.shards = index.shards
  PROVE  PlaceInv' /\ ScanInv'
<1>1. index.header /\ index.shards = opts.shards  BY DEF RecoveryInv, PlaceInv
<1>2. index'.header /\ index'.shards = opts'.shards  BY <1>1
<1>3. scan' = NoScan  BY DEF RecoveryInv, PlaceInv, InHand, Building
<1>4. PlaceInv'  BY <1>2, <1>3 DEF PlaceInv, InHand, Building
<1>5. ScanInv'  BY DEF ScanInv, Rebuilding
<1> QED  BY <1>4, <1>5

LEMMA NoScanTyped ==
  ASSUME opts \in Options
  PROVE  NoScan \in [shard : Opened, offset : Positive, nextSequence : Positive]
BY OpenedShards DEF NoScan, Opened, Positive

LEMMA NoBucketsTyped == NoBuckets \in [{} -> BucketType]
BY DEF NoBuckets

LEMMA BuildFields ==
  ASSUME NEW n \in Nat, NEW B \in SUBSET Nat, NEW f \in [B -> BucketType],
         NEW q \in Positive, NEW r \in {"serving", "scan", "insert"},
         build' = [count |-> n, copy |-> f, nextSequence |-> q, resume |-> r]
  PROVE  /\ BuildTyped'
         /\ build'.resume = r /\ build'.copy = f /\ build'.nextSequence = q
<1>1. /\ build'.count = n /\ build'.copy = f /\ build'.nextSequence = q
      /\ build'.resume = r
  OBVIOUS
<1>2. build' \in [count : Nat, copy : {build'.copy}, nextSequence : Positive,
                 resume : {"serving", "scan", "insert"}]
  BY <1>1
<1>3. build'.copy \in [B -> BucketType]  BY <1>1
<1> QED  BY <1>1, <1>2, <1>3 DEF BuildTyped

LEMMA NoBuildTyped ==
  ASSUME build' = NoBuild
  PROVE  BuildTyped'
<1>1. build' = [count |-> 0, copy |-> NoBuckets, nextSequence |-> 1, resume |-> "serving"]
  BY DEF NoBuild
<1>2. 1 \in Positive /\ {} \in SUBSET Nat /\ 0 \in Nat  BY DEF Positive
<1>3. "serving" \in {"serving", "scan", "insert"}  OBVIOUS
<1> QED  BY ONLY <1>1, <1>2, <1>3, NoBucketsTyped, BuildFields

\* CloseFiles: the sequence numbers of a valid index stay ahead unless the
\* index was still being filled, which the files must not be trusted for.
LEMMA ClosedStep ==
  ASSUME RecoveryInv, Closed, UNCHANGED <<file, index, calls, used, drift>>,
         crashes' \in 0 .. MaxCrashes,
         status' \in {"OK", "IOError", "Corruption", "InvalidArgument"},
         suspect' \in BOOLEAN,
         index.header /\ ~suspect' => ~Rebuilding /\ ~suspect
  PROVE  RecoveryInv'
<1>1. /\ opts' = opts /\ pc' = "closed" /\ append' = NoAppend
      /\ writer' = [t \in Thread |-> Idle]
      /\ scan' = NoScan /\ build' = NoBuild
  BY DEF Closed
<1>2. opts \in Options  BY DEF RecoveryInv, Typed, SessionTyped
<1>3. Typed'
  <2>1. FilesTyped'  BY DEF RecoveryInv, Typed, FilesTyped
  <2>2. IndexTyped'  BY DEF RecoveryInv, Typed, IndexTyped
  <2>3. BuildTyped'  BY <1>1, NoBuildTyped
  <2>4. ScanTyped'  BY <1>1, <1>2, NoScanTyped DEF ScanTyped, Opened
  <2>5. WritersTyped'  BY <1>1, IdleTyped DEF WritersTyped
  <2>6. SessionTyped'
    BY <1>1, <1>2 DEF RecoveryInv, Typed, SessionTyped, PcLabels, NoAppend
  <2>7. FlagsTyped'  BY Zenon DEF RecoveryInv, Typed, FlagsTyped
  <2> QED  BY <2>1, <2>2, <2>3, <2>4, <2>5, <2>6, <2>7 DEF Typed
<1>4. PlaceInv'  BY <1>1, IdleTyped DEF PlaceInv, InHand, Building
<1>5. HeaderInv'  BY <1>1, IdleTyped DEF RecoveryInv, HeaderInv
<1>6. SequenceInv'
  <2>1. index.nextSequence \in Nat /\ index.nextSequence > 0
    BY DEF RecoveryInv, Typed, IndexTyped, Positive
  <2>2. \A t \in Thread : writer'[t].seq < index'.nextSequence  BY <1>1, <2>1, IdleTyped
  <2>3. index'.header /\ ~suspect' =>
          \A s \in Shard : s < index'.shards => Below(s, index.nextSequence)
    BY Zenon DEF RecoveryInv, SequenceInv
  <2>4. \A s \in Shard : Below(s, index.nextSequence) => Below(s, index.nextSequence)'
    BY DEF Below
  <2> QED  BY <2>2, <2>3, <2>4, Zenon DEF SequenceInv
<1>7. ScanInv'  BY <1>1 DEF ScanInv, Rebuilding
<1> QED  BY <1>3, <1>4, <1>5, <1>6, <1>7 DEF RecoveryInv

-----------------------------------------------------------------------------
(* Open.                                                                   *)

LEMMA ClosedFacts ==
  ASSUME RecoveryInv, pc = "closed"
  PROVE  scan = NoScan /\ \A t \in Thread : writer[t].pc = "idle" /\ writer[t].seq = 0
BY DEF RecoveryInv, PlaceInv, InHand, Building

LEMMA OpenStep ==
  ASSUME RecoveryInv, NEW o \in Options, Open(o)
  PROVE  RecoveryInv'
<1> DEFINE g(s) == IF s < o.shards /\ file[s] = <<>> THEN <<FileHeader>> ELSE file[s]
<1>1. /\ pc = "closed" /\ opts' = o /\ status' = "OK" /\ file' = [s \in Shard |-> g(s)]
      /\ append' = [s \in Shard |-> IF s < o.shards THEN Len(file'[s]) ELSE 0]
      /\ UNCHANGED <<index, writer, scan, calls, crashes, used, drift, suspect>>
  BY DEF Open, bounds, history
<1>2. \/ pc' = "serving" /\ HasValidRowIndexLayout(o.shards) /\ build' = build
      \/ pc' = "create" /\ build' = [NoBuild EXCEPT !.count = o.buckets, !.resume = "scan"]
  BY DEF Open
<1>3. scan = NoScan /\ \A t \in Thread : writer[t].pc = "idle" /\ writer[t].seq = 0
  BY <1>1, ClosedFacts
<1>4. \A s \in Shard : file[s] \in Seq(CellType)  BY DEF RecoveryInv, Typed, FilesTyped
<1>5. FileHeader \in CellType /\ FileHeader.seq = 0  BY MarkTyped DEF FileHeader
<1>6. \A s \in Shard : g(s) \in Seq(CellType)  BY <1>4, <1>5
<1>7. FilesTyped' /\ \A s \in Shard : file'[s] = g(s)
  BY <1>1, <1>6 DEF FilesTyped
<1> HIDE DEF g
<1>8. \A s \in Shard : Len(file'[s]) \in Nat  BY <1>6, <1>7
<1>9. \A s \in Shard : s < o.shards => file'[s] # <<>>
  <2>1. <<FileHeader>> # <<>>  OBVIOUS
  <2>2. \A s \in Shard : s < o.shards => g(s) # <<>>  BY <2>1 DEF g
  <2> QED  BY <1>7, <2>2
<1>10. \A s \in Shard : file'[s] # <<>> => file'[s][1] = FileHeader
  BY <1>7 DEF g, RecoveryInv, HeaderInv
<1>11. Typed'
  <2>1. IndexTyped'  BY <1>1 DEF RecoveryInv, Typed, IndexTyped
  <2>2. BuildTyped'
    <3>1. CASE build' = build  BY <3>1 DEF RecoveryInv, Typed, BuildTyped
    <3>2. CASE build' = [NoBuild EXCEPT !.count = o.buckets, !.resume = "scan"]
      <4>1. build' = [count |-> o.buckets, copy |-> NoBuckets, nextSequence |-> 1,
                      resume |-> "scan"]
        BY <3>2 DEF NoBuild
      <4>2. 1 \in Positive /\ {} \in SUBSET Nat /\ o.buckets \in Nat
        BY OpenedShards DEF Positive
      <4>3. "scan" \in {"serving", "scan", "insert"}  OBVIOUS
      <4> QED  BY ONLY <4>1, <4>2, <4>3, NoBucketsTyped, BuildFields
    <3> QED  BY <1>2, <3>1, <3>2
  <2>3. ScanTyped'
    BY <1>1, <1>3, OpenedShards DEF ScanTyped, NoScan, Opened, Positive
  <2>4. WritersTyped'  BY <1>1 DEF RecoveryInv, Typed, WritersTyped
  <2>5. SessionTyped'
    <3>1. append' \in [Shard -> Nat]  BY <1>1, <1>8
    <3> QED  BY <1>1, <1>2, <3>1 DEF RecoveryInv, Typed, SessionTyped, PcLabels
  <2>6. FlagsTyped'  BY <1>1, Zenon DEF RecoveryInv, Typed, FlagsTyped
  <2> QED  BY <1>7, <2>1, <2>2, <2>3, <2>4, <2>5, <2>6 DEF Typed
<1>12. PlaceInv'
  <2>1. CASE pc' = "serving"
    BY <1>1, <1>2, <1>3, <2>1 DEF PlaceInv, InHand, Building, HasValidRowIndexLayout
  <2>2. CASE pc' = "create"
    <3>1. build'.resume = "scan"  BY <1>2, <2>2 DEF NoBuild
    <3> QED  BY <1>1, <1>3, <2>2, <3>1 DEF PlaceInv, InHand, Building
  <2> QED  BY <1>2, <2>1, <2>2
<1>13. HeaderInv'
  <2>1. \A s \in Opened' : s \in Shard /\ s < o.shards  BY <1>1, OpenedShards DEF Opened
  <2>2. \A s \in Opened' : file'[s] # <<>> /\ append'[s] = Len(file'[s])
    BY <1>1, <1>9, <2>1
  <2>3. \A s \in Opened' : Len(file'[s]) > 0
    <3>1. \A s \in Opened' : file'[s] \in Seq(CellType)  BY <2>1, <1>7 DEF FilesTyped
    <3> QED  BY <2>2, <3>1
  <2>4. \A t \in Thread : writer'[t].pc = "idle"  BY <1>1, <1>3
  <2> QED  BY <1>10, <2>2, <2>3, <2>4 DEF HeaderInv
<1>14. SequenceInv'
  <2>1. index.nextSequence \in Nat /\ index.nextSequence > 0
    BY DEF RecoveryInv, Typed, IndexTyped, Positive
  <2>2. \A t \in Thread : writer'[t].seq < index'.nextSequence  BY <1>1, <1>3, <2>1
  <2>3. index'.header /\ ~suspect' =>
          \A s \in Shard : s < index'.shards => Below(s, index.nextSequence)
    BY <1>1 DEF RecoveryInv, SequenceInv, Rebuilding
  <2>4. \A s \in Shard : Below(s, index.nextSequence) => Below(s, index.nextSequence)'
    <3>1. SUFFICES ASSUME NEW s \in Shard, Below(s, index.nextSequence),
                          NEW i \in DOMAIN file'[s]
                   PROVE  file'[s][i].seq < index'.nextSequence
      BY DEF Below
    <3>2. CASE file'[s] = file[s]  BY <1>1, <3>1, <3>2 DEF Below
    <3>3. CASE file'[s] = <<FileHeader>>
      <4>1. i = 1 /\ file'[s][i] = FileHeader  BY <3>1, <3>3
      <4> QED  BY <1>1, <1>5, <2>1, <4>1
    <3> QED  BY <1>7, <3>2, <3>3 DEF g
  <2> QED  BY <2>2, <2>3, <2>4, Zenon DEF SequenceInv
<1>15. ScanInv'
  <2>1. ~Rebuilding'
    <3>1. CASE pc' = "serving"  BY <3>1 DEF Rebuilding
    <3>2. CASE pc' = "create"
      <4>1. build'.resume = "scan"  BY <1>2, <3>2 DEF NoBuild
      <4> QED  BY <3>2, <4>1 DEF Rebuilding
    <3> QED  BY <1>2, <3>1, <3>2
  <2> QED  BY <2>1 DEF ScanInv
<1> QED  BY <1>11, <1>12, <1>13, <1>14, <1>15 DEF RecoveryInv

LEMMA OpenReadOnlyStep ==
  ASSUME RecoveryInv, NEW o \in Options, OpenReadOnly(o)
  PROVE  RecoveryInv'
<1>1. /\ pc = "closed" /\ opts' = o
      /\ UNCHANGED <<file, index, writer, scan, build, calls, crashes, used, drift, suspect>>
  BY DEF OpenReadOnly, bounds, history
<1>2. \/ /\ pc' = "readonly" /\ status' = "OK" /\ HasValidRowIndexLayout(o.shards)
         /\ \A s \in 0 .. o.shards - 1 : file[s] # <<>>
         /\ append' = [s \in Shard |-> IF s < o.shards THEN Len(file[s]) ELSE 0]
      \/ /\ pc' = pc /\ append' = append /\ status' \in {"IOError", "Corruption"}
  BY DEF OpenReadOnly
<1>3. scan = NoScan /\ \A t \in Thread : writer[t].pc = "idle" /\ writer[t].seq = 0
  BY <1>1, ClosedFacts
<1>4. \A s \in Shard : file[s] \in Seq(CellType)  BY DEF RecoveryInv, Typed, FilesTyped
<1>5. \A s \in Shard : Len(file[s]) \in Nat  BY <1>4
<1>6. Typed'
  <2>1. IndexTyped'  BY <1>1 DEF RecoveryInv, Typed, IndexTyped
  <2>2. BuildTyped'  BY <1>1 DEF RecoveryInv, Typed, BuildTyped
  <2>3. ScanTyped'
    BY <1>1, <1>3, OpenedShards DEF ScanTyped, NoScan, Opened, Positive
  <2>4. WritersTyped'  BY <1>1 DEF RecoveryInv, Typed, WritersTyped
  <2>5. SessionTyped'
    <3>1. append' \in [Shard -> Nat]
      BY <1>2, <1>5 DEF RecoveryInv, Typed, SessionTyped
    <3> QED  BY <1>1, <1>2, <3>1 DEF RecoveryInv, Typed, SessionTyped, PcLabels
  <2>6. FlagsTyped'  BY <1>1, Zenon DEF RecoveryInv, Typed, FlagsTyped
  <2>7. FilesTyped'  BY <1>1 DEF RecoveryInv, Typed, FilesTyped
  <2> QED  BY <2>1, <2>2, <2>3, <2>4, <2>5, <2>6, <2>7 DEF Typed
<1>7. PlaceInv'
  <2>1. CASE pc' = "readonly" /\ HasValidRowIndexLayout(o.shards)
    BY <1>1, <1>3, <2>1 DEF PlaceInv, InHand, Building, HasValidRowIndexLayout
  <2>2. CASE pc' = pc
    BY <1>1, <1>3, <2>2 DEF PlaceInv, InHand, Building
  <2> QED  BY <1>2, <2>1, <2>2
<1>8. HeaderInv'
  <2>1. CASE pc' = "closed"  BY <1>1, <2>1 DEF RecoveryInv, HeaderInv
  <2>2. CASE pc' = "readonly"
    <3>1. \A s \in Opened' : s \in Shard /\ s < o.shards /\ s \in 0 .. o.shards - 1
      BY <1>1, OpenedShards DEF Opened
    <3>2. \A s \in Opened' : file[s] # <<>> /\ append'[s] = Len(file[s])
      BY <1>1, <1>2, <2>2, <3>1
    <3>3. \A s \in Opened' : Len(file[s]) > 0  BY <1>4, <3>1, <3>2
    <3> QED  BY <1>1, <1>3, <3>2, <3>3 DEF RecoveryInv, HeaderInv
  <2> QED  BY <1>1, <1>2, <2>1, <2>2
<1>9. SequenceInv'
  <2>1. ~Rebuilding  BY <1>1 DEF Rebuilding
  <2> QED  BY <1>1, <2>1 DEF RecoveryInv, SequenceInv, Below
<1>10. ScanInv'  BY <1>1, <1>2 DEF ScanInv, Rebuilding
<1> QED  BY <1>6, <1>7, <1>8, <1>9, <1>10 DEF RecoveryInv

-----------------------------------------------------------------------------
(* Building the index.                                                     *)

LEMMA SameScan ==
  ASSUME file' = file, opts' = opts, scan' = scan
  PROVE  /\ Torn' = Torn /\ Opened' = Opened /\ Size' = Size
         /\ ScanValid' = ScanValid /\ Boundary' = Boundary /\ Scanned' = Scanned
<1>1. Torn' = Torn /\ Opened' = Opened  BY SameFiles
<1>2. Size' = Size  BY DEF Size
<1>3. ScanValid' = ScanValid  BY <1>2 DEF ScanValid, IsValidRowBlockHeader, CellAt
<1>4. Boundary' = Boundary  BY <1>2 DEF Boundary
<1>5. Scanned' = Scanned  BY DEF Scanned, Below
<1> QED  BY <1>1, <1>2, <1>3, <1>4, <1>5

LEMMA EmptyBucketTyped ==
  ASSUME opts \in Options
  PROVE  EmptyBucket \in BucketType
BY OpenedShards DEF EmptyBucket, BucketType, Empty, Filled, Writing

LEMMA NoIndexTyped ==
  ASSUME index' = NoIndex
  PROVE  IndexTyped' /\ index'.header = FALSE /\ index'.nextSequence = 1
<1>1. /\ index'.header = FALSE /\ index'.shards = 0 /\ index'.items = 0
      /\ index'.nextSequence = 1 /\ index'.bucket = NoBuckets
  BY IndexFields DEF NoIndex
<1>2. NoBuckets \in [0 .. 0 - 1 -> BucketType]  BY NoBucketsTyped
<1>3. /\ index'.shards \in Nat /\ index'.items \in Nat /\ index'.nextSequence \in Positive
      /\ \E n \in Nat : index'.bucket \in [0 .. n - 1 -> BucketType]
  BY <1>1, <1>2 DEF Positive
<1>4. index'.header \in BOOLEAN  BY <1>1
<1>5. index' = [header |-> index'.header, shards |-> index'.shards, items |-> index'.items,
               nextSequence |-> index'.nextSequence, bucket |-> index'.bucket]
  BY <1>1 DEF NoIndex
<1> QED  BY <1>1, <1>3, <1>4, <1>5, Zenon DEF IndexTyped

LEMMA DeleteIndexStep ==
  ASSUME RecoveryInv, DeleteIndex
  PROVE  RecoveryInv'
<1>1. /\ pc = "closed" /\ index' = NoIndex
      /\ UNCHANGED <<file, pc, opts, append, writer, scan, build, status, calls, crashes,
                     used, drift, suspect>>
  BY DEF DeleteIndex, session, bounds, history
<1>2. IndexTyped' /\ index'.header = FALSE /\ index'.nextSequence = 1
  BY <1>1, NoIndexTyped
<1>3. scan = NoScan /\ \A t \in Thread : writer[t].pc = "idle" /\ writer[t].seq = 0
  BY <1>1, ClosedFacts
<1>4. Typed'
  <2>1. FilesTyped' /\ BuildTyped' /\ ScanTyped' /\ WritersTyped'
    BY <1>1 DEF RecoveryInv, Typed, FilesTyped, BuildTyped, ScanTyped, WritersTyped, Opened
  <2>2. SessionTyped'  BY <1>1 DEF RecoveryInv, Typed, SessionTyped
  <2>3. FlagsTyped'  BY <1>1, Zenon DEF RecoveryInv, Typed, FlagsTyped
  <2> QED  BY <1>2, <2>1, <2>2, <2>3 DEF Typed
<1>5. PlaceInv'  BY <1>1, <1>3 DEF PlaceInv, InHand, Building
<1>6. HeaderInv'  BY <1>1 DEF RecoveryInv, HeaderInv
<1>7. SequenceInv'  BY <1>1, <1>2, <1>3 DEF SequenceInv
<1>8. ScanInv'  BY <1>1 DEF ScanInv, Rebuilding
<1> QED  BY <1>4, <1>5, <1>6, <1>7, <1>8 DEF RecoveryInv

LEMMA ClearIndexStep ==
  ASSUME RecoveryInv, ClearIndex
  PROVE  RecoveryInv'
<1>1. /\ pc = "create" /\ index' = NoIndex /\ pc' = "header"
      /\ UNCHANGED <<file, opts, append, writer, scan, build, status, calls, crashes,
                     used, drift>>
  BY DEF ClearIndex, bounds
<1>2. IndexTyped' /\ index'.header = FALSE /\ index'.nextSequence = 1
  BY <1>1, NoIndexTyped
<1>3. /\ build.resume \in {"scan", "insert"} /\ status = "OK"
      /\ \A t \in Thread : writer[t].pc = "idle" /\ writer[t].seq = 0
  BY <1>1 DEF RecoveryInv, PlaceInv, Building
<1>4. Torn' = Torn /\ Size' = Size /\ ScanValid' = ScanValid /\ Boundary' = Boundary
      /\ Scanned' = Scanned
  BY <1>1, SameScan
<1>5. /\ build.resume = "scan" => suspect' = Torn
      /\ build.resume = "insert" => suspect' = suspect
  BY DEF ClearIndex
<1>6. Typed'
  <2>1. FilesTyped' /\ BuildTyped' /\ ScanTyped' /\ WritersTyped'
    BY <1>1 DEF RecoveryInv, Typed, FilesTyped, BuildTyped, ScanTyped, WritersTyped, Opened
  <2>2. SessionTyped'  BY <1>1 DEF RecoveryInv, Typed, SessionTyped, PcLabels
  <2>3. suspect' \in BOOLEAN
    <3>1. CASE build.resume = "scan"
      <4>1. Torn \in BOOLEAN  BY DEF Torn
      <4> QED  BY <1>5, <3>1, <4>1
    <3>2. CASE build.resume = "insert"
      BY <1>5, <3>2, Zenon DEF RecoveryInv, Typed, FlagsTyped
    <3> QED  BY <1>3, <3>1, <3>2
  <2>4. FlagsTyped'  BY <1>1, <2>3, Zenon DEF RecoveryInv, Typed, FlagsTyped
  <2> QED  BY <1>2, <2>1, <2>2, <2>4 DEF Typed
<1>7. PlaceInv'
  <2>1. (InHand)' = InHand  BY <1>1 DEF InHand, Building
  <2>2. /\ ~InHand => scan = NoScan
        /\ InHand => scan.offset < Size /\ ScanValid
    BY <1>1 DEF RecoveryInv, PlaceInv
  <2>3. /\ ~InHand' => scan' = NoScan
        /\ InHand' => scan'.offset < Size' /\ ScanValid'
    BY <1>1, <1>4, <2>1, <2>2
  <2> QED  BY <1>1, <1>2, <1>3, <2>3 DEF PlaceInv, Building
<1>8. HeaderInv'  BY <1>1 DEF RecoveryInv, HeaderInv, Opened
<1>9. SequenceInv'
  <2>1. Rebuilding'  BY <1>1 DEF Rebuilding
  <2> QED  BY <1>1, <1>2, <1>3, <2>1 DEF SequenceInv
<1>10. ScanInv'
  <2>1. CASE build.resume = "insert"
    <3>1. Rebuilding  BY <1>1, <2>1 DEF Rebuilding
    <3> QED  BY <1>4, <1>5, <2>1, <3>1 DEF RecoveryInv, ScanInv
  <2>2. CASE build.resume = "scan"
    <3>1. scan = NoScan  BY <1>1, <2>2 DEF RecoveryInv, PlaceInv, InHand
    <3>2. scan.shard = 0 /\ scan.offset = 1 /\ scan.nextSequence = 1  BY <3>1 DEF NoScan
    <3>3. opts \in Options /\ 0 \in Opened /\ 0 \in Shard /\ file[0] \in Seq(CellType)
      BY OpenedShards DEF RecoveryInv, Typed, SessionTyped, FilesTyped, Opened
    <3>4. file[0] # <<>> /\ file[0][1] = FileHeader
      BY <1>1, <3>3 DEF RecoveryInv, HeaderInv
    <3>5. FileHeader.seq = 0  BY MarkTyped DEF FileHeader
    <3>6. Scanned
      <4>1. \A s \in Shard : ~(s < 0)  BY <3>3, OpenedShards
      <4>2. \A i \in DOMAIN file[0] : i <= 1 => i = 1  BY <3>3
      <4> QED  BY <3>2, <3>4, <3>5, <4>1, <4>2 DEF Scanned
    <3>7. Boundary  BY <3>2 DEF Boundary
    <3> QED  BY <1>4, <1>5, <2>2, <3>6, <3>7 DEF ScanInv
  <2> QED  BY <1>3, <2>1, <2>2
<1> QED  BY <1>6, <1>7, <1>8, <1>9, <1>10 DEF RecoveryInv

LEMMA CreateEmptyRowIndexStep ==
  ASSUME RecoveryInv, CreateEmptyRowIndex
  PROVE  RecoveryInv'
<1> DEFINE f == [b \in 0 .. build.count - 1 |-> EmptyBucket]
<1>1. /\ pc = "header" /\ pc' = "place"
      /\ index' = [header |-> TRUE, shards |-> opts.shards, items |-> 0,
                   nextSequence |-> build.nextSequence, bucket |-> f]
      /\ UNCHANGED <<file, opts, append, writer, scan, build, status, calls, crashes,
                     used, drift, suspect>>
  BY DEF CreateEmptyRowIndex, bounds, history
<1>2. /\ build.resume \in {"scan", "insert"} /\ status = "OK"
      /\ \A t \in Thread : writer[t].pc = "idle" /\ writer[t].seq = 0
  BY <1>1 DEF RecoveryInv, PlaceInv, Building
<1>3. Torn' = Torn /\ Size' = Size /\ ScanValid' = ScanValid /\ Boundary' = Boundary
      /\ Scanned' = Scanned
  BY <1>1, SameScan
<1>4. /\ opts \in Options /\ opts.shards \in Nat /\ build.count \in Nat
      /\ build.nextSequence \in Positive
  BY OpenedShards DEF RecoveryInv, Typed, SessionTyped, BuildTyped
<1>5. f \in [0 .. build.count - 1 -> BucketType]  BY <1>4, EmptyBucketTyped
<1> HIDE DEF f
<1>6. /\ index'.header = TRUE /\ index'.shards = opts.shards /\ index'.items = 0
      /\ index'.nextSequence = build.nextSequence /\ index'.bucket = f
  BY ONLY <1>1, IndexFields
<1>7. IndexTyped'
  <2>1. /\ index'.shards \in Nat /\ index'.items \in Nat /\ index'.nextSequence \in Positive
        /\ \E n \in Nat : index'.bucket \in [0 .. n - 1 -> BucketType]
    BY <1>4, <1>5, <1>6
  <2>2. index'.header \in BOOLEAN  BY <1>6
  <2>3. index' = [header |-> index'.header, shards |-> index'.shards,
                  items |-> index'.items, nextSequence |-> index'.nextSequence,
                  bucket |-> index'.bucket]
    BY <1>1, <1>6
  <2> QED  BY <2>1, <2>2, <2>3, Zenon DEF IndexTyped
<1>8. Typed'
  <2>1. FilesTyped' /\ BuildTyped' /\ ScanTyped' /\ WritersTyped'
    BY <1>1 DEF RecoveryInv, Typed, FilesTyped, BuildTyped, ScanTyped, WritersTyped, Opened
  <2>2. SessionTyped'  BY <1>1 DEF RecoveryInv, Typed, SessionTyped, PcLabels
  <2>3. FlagsTyped'  BY <1>1, Zenon DEF RecoveryInv, Typed, FlagsTyped
  <2> QED  BY <1>7, <2>1, <2>2, <2>3 DEF Typed
<1>9. PlaceInv'
  <2>1. InHand' = InHand  BY <1>1 DEF InHand, Building
  <2>2. /\ ~InHand => scan = NoScan
        /\ InHand => scan.offset < Size /\ ScanValid
    BY <1>1 DEF RecoveryInv, PlaceInv
  <2>3. /\ ~InHand' => scan' = NoScan
        /\ InHand' => scan'.offset < Size' /\ ScanValid'
    BY <1>1, <1>3, <2>1, <2>2
  <2> QED  BY <1>1, <1>2, <1>6, <2>3 DEF PlaceInv, Building
<1>10. HeaderInv'  BY <1>1 DEF RecoveryInv, HeaderInv, Opened
<1>11. SequenceInv'
  <2>1. Rebuilding'  BY <1>1 DEF Rebuilding
  <2>2. \A t \in Thread : writer'[t].seq < index'.nextSequence
    BY <1>1, <1>2, <1>4, <1>6 DEF Positive
  <2> QED  BY <2>1, <2>2 DEF SequenceInv
<1>12. ScanInv'
  <2>1. Rebuilding  BY <1>1 DEF Rebuilding
  <2> QED  BY <1>1, <1>3, <2>1 DEF RecoveryInv, ScanInv
<1> QED  BY <1>8, <1>9, <1>10, <1>11, <1>12 DEF RecoveryInv

LEMMA PlaceExistingRowBucketStep ==
  ASSUME RecoveryInv, PlaceExistingRowBucket
  PROVE  RecoveryInv'
<1> DEFINE c == Min(DOMAIN build.copy)
           x == build.copy[c]
           k == Min({i \in 0 .. build.count - 1 :
                       index.bucket[Probe(x.row, i)].state = Empty})
           b == Probe(x.row, k)
<1>1. /\ pc = "place" /\ DOMAIN build.copy # {} /\ index' = WithBucket(b, x, 1)
      /\ build' = [build EXCEPT !.copy = Restrict(build.copy, DOMAIN build.copy \ {c})]
      /\ UNCHANGED <<file, pc, opts, append, writer, scan, status, calls, crashes,
                     used, drift, suspect>>
  BY DEF PlaceExistingRowBucket, bounds, history
<1>2. /\ build.resume \in {"scan", "insert"} /\ status = "OK"
      /\ \A t \in Thread : writer[t].pc = "idle" /\ writer[t].seq = 0
      /\ index.header /\ index.shards = opts.shards
  BY <1>1 DEF RecoveryInv, PlaceInv, Building
<1>3. Torn' = Torn /\ Size' = Size /\ ScanValid' = ScanValid /\ Boundary' = Boundary
      /\ Scanned' = Scanned
  BY <1>1, SameScan
<1>4. PICK B \in SUBSET Nat : build.copy \in [B -> BucketType]
  BY DEF RecoveryInv, Typed, BuildTyped
<1>5. DOMAIN build.copy = B /\ B # {}  BY <1>1, <1>4
<1>6. c \in B  BY <1>5, MinOfSome
<1>7. x \in BucketType  BY <1>4, <1>6
<1>8. IndexTyped  BY DEF RecoveryInv, Typed
<1> HIDE DEF b, x, c
<1>9. /\ IndexTyped'
      /\ index'.header = index.header /\ index'.shards = index.shards
      /\ index'.nextSequence = index.nextSequence
  <2>1. 1 \in Nat  OBVIOUS
  <2> QED  BY ONLY <1>1, <1>7, <1>8, <2>1, WithBucketStep
<1>10. BuildTyped' /\ build'.resume = build.resume
  <2> DEFINE D == B \ {c}
             g == Restrict(build.copy, D)
  <2>1. D \in SUBSET Nat /\ g \in [D -> BucketType]  BY <1>4 DEF Restrict
  <2>2. build \in [count : Nat, copy : {build.copy}, nextSequence : Positive,
                   resume : {"serving", "scan", "insert"}]
    BY DEF RecoveryInv, Typed, BuildTyped
  <2>3. build' = [build EXCEPT !.copy = g]  BY <1>1, <1>5
  <2> HIDE DEF g
  <2>4. build' = [count |-> build.count, copy |-> g, nextSequence |-> build.nextSequence,
                  resume |-> build.resume]
    BY <2>2, <2>3
  <2>5. /\ build.count \in Nat /\ build.nextSequence \in Positive
        /\ build.resume \in {"serving", "scan", "insert"}
    BY <2>2
  <2> HIDE DEF D
  <2> QED  BY ONLY <2>1, <2>4, <2>5, BuildFields
<1>11. Typed'
  <2>1. FilesTyped' /\ ScanTyped' /\ WritersTyped'
    BY <1>1 DEF RecoveryInv, Typed, FilesTyped, ScanTyped, WritersTyped, Opened
  <2>2. SessionTyped'  BY <1>1 DEF RecoveryInv, Typed, SessionTyped
  <2>3. FlagsTyped'  BY <1>1, Zenon DEF RecoveryInv, Typed, FlagsTyped
  <2> QED  BY <1>9, <1>10, <2>1, <2>2, <2>3 DEF Typed
<1>12. PlaceInv'
  <2>1. InHand' = InHand  BY <1>1, <1>10 DEF InHand, Building
  <2>2. /\ ~InHand => scan = NoScan
        /\ InHand => scan.offset < Size /\ ScanValid
    BY <1>1 DEF RecoveryInv, PlaceInv
  <2>3. /\ ~InHand' => scan' = NoScan
        /\ InHand' => scan'.offset < Size' /\ ScanValid'
    BY <1>1, <1>3, <2>1, <2>2
  <2>4. index'.header /\ index'.shards = opts'.shards  BY <1>1, <1>2, <1>9
  <2> QED  BY <1>1, <1>2, <1>10, <2>3, <2>4 DEF PlaceInv, Building
<1>13. HeaderInv'  BY <1>1 DEF RecoveryInv, HeaderInv, Opened
<1>14. SequenceInv'
  <2>1. Rebuilding'  BY <1>1 DEF Rebuilding
  <2> QED  BY <1>1, <1>9, <2>1 DEF RecoveryInv, SequenceInv
<1>15. ScanInv'
  <2>1. Rebuilding  BY <1>1 DEF Rebuilding
  <2> QED  BY <1>1, <1>3, <2>1 DEF RecoveryInv, ScanInv
<1> QED  BY <1>11, <1>12, <1>13, <1>14, <1>15 DEF RecoveryInv

LEMMA IndexReadyStep ==
  ASSUME RecoveryInv, IndexReady
  PROVE  RecoveryInv'
<1>1. /\ pc = "place" /\ pc' = build.resume /\ build' = NoBuild
      /\ UNCHANGED <<file, index, opts, append, writer, scan, status, calls, crashes,
                     used, drift, suspect>>
  BY DEF IndexReady, bounds, history
<1>2. /\ build.resume \in {"scan", "insert"} /\ status = "OK"
      /\ \A t \in Thread : writer[t].pc = "idle" /\ writer[t].seq = 0
      /\ index.header /\ index.shards = opts.shards
  BY <1>1 DEF RecoveryInv, PlaceInv, Building
<1>3. Torn' = Torn /\ Size' = Size /\ ScanValid' = ScanValid /\ Boundary' = Boundary
      /\ Scanned' = Scanned
  BY <1>1, SameScan
<1>4. Typed'
  <2>1. FilesTyped' /\ IndexTyped' /\ ScanTyped' /\ WritersTyped'
    BY <1>1 DEF RecoveryInv, Typed, FilesTyped, IndexTyped, ScanTyped, WritersTyped, Opened
  <2>2. SessionTyped'  BY <1>1, <1>2 DEF RecoveryInv, Typed, SessionTyped, PcLabels
  <2>3. FlagsTyped'  BY <1>1, Zenon DEF RecoveryInv, Typed, FlagsTyped
  <2>4. BuildTyped'  BY <1>1, NoBuildTyped
  <2> QED  BY <2>1, <2>2, <2>3, <2>4 DEF Typed
<1>5. PlaceInv'
  <2>1. InHand' = InHand  BY <1>1, <1>2 DEF InHand, Building
  <2>2. /\ ~InHand => scan = NoScan
        /\ InHand => scan.offset < Size /\ ScanValid
    BY <1>1 DEF RecoveryInv, PlaceInv
  <2>3. /\ ~InHand' => scan' = NoScan
        /\ InHand' => scan'.offset < Size' /\ ScanValid'
    BY <1>1, <1>3, <2>1, <2>2
  <2> QED  BY <1>1, <1>2, <2>3 DEF PlaceInv, Building
<1>6. HeaderInv'  BY <1>1 DEF RecoveryInv, HeaderInv, Opened
<1>7. SequenceInv'
  <2>1. Rebuilding'  BY <1>1, <1>2 DEF Rebuilding
  <2> QED  BY <1>1, <2>1 DEF RecoveryInv, SequenceInv
<1>8. ScanInv'
  <2>1. Rebuilding  BY <1>1 DEF Rebuilding
  <2> QED  BY <1>1, <1>3, <2>1 DEF RecoveryInv, ScanInv
<1> QED  BY <1>4, <1>5, <1>6, <1>7, <1>8 DEF RecoveryInv

-----------------------------------------------------------------------------
(* The scan.                                                               *)

\* In a whole file, a cell that is not the first of its block follows the one
\* before it, and one that is not the last is followed by the next.
LEMMA WholeCell ==
  ASSUME NEW f \in Seq(CellType), Whole(f), NEW i \in 2 .. Len(f)
  PROVE  /\ f[i] \in CellType /\ f[i].row \in Row
         /\ f[i].at < 2 => /\ i < Len(f) /\ f[i + 1].row = f[i].row
                          /\ f[i + 1].seq = f[i].seq /\ f[i + 1].at = f[i].at + 1
         /\ f[i].at > 0 => f[i - 1].row = f[i].row /\ f[i - 1].at = f[i].at - 1
<1>1. f[i] \in CellType  BY LenProperties
<1>2. /\ f[i].row \in Row
      /\ f[i].at < 2 => i < Len(f) /\ f[i + 1] = [f[i] EXCEPT !.at = f[i].at + 1]
      /\ f[i].at > 0 => f[i - 1] = [f[i] EXCEPT !.at = f[i].at - 1]
  BY DEF Whole, BlockSize
<1> QED  BY <1>1, <1>2 DEF CellType

\* Behind the file header or the last cell of a block comes a whole block.
LEMMA WholeBlock ==
  ASSUME NEW f \in Seq(CellType), Whole(f), f[1] = FileHeader,
         NEW o \in Nat \ {0}, o < Len(f), o = 1 \/ f[o].at = 2
  PROVE  /\ f[o + 1].row \in Row /\ f[o + 1].at = 0 /\ f[o + 1].seq \in Nat
         /\ o + 3 <= Len(f) /\ f[o + 3].at = 2
         /\ f[o + 2].seq = f[o + 1].seq /\ f[o + 3].seq = f[o + 1].seq
<1>1. PICK i \in Nat : i = o + 1  OBVIOUS
<1>2. Len(f) \in Nat /\ i \in 2 .. Len(f) /\ i - 1 = o  BY <1>1
<1>3. /\ f[i] \in CellType /\ f[i].row \in Row
      /\ f[i].at < 2 => /\ i < Len(f) /\ f[i + 1].row = f[i].row
                       /\ f[i + 1].seq = f[i].seq /\ f[i + 1].at = f[i].at + 1
      /\ f[i].at > 0 => f[i - 1].row = f[i].row /\ f[i - 1].at = f[i].at - 1
  BY <1>2, WholeCell
<1>4. f[i].at \in 0 .. 2 /\ f[i].seq \in Nat  BY <1>3 DEF CellType
<1>5. f[i].at = 0
  <2>1. SUFFICES ASSUME f[i].at > 0 PROVE FALSE  BY <1>4
  <2>2. f[o].row = f[i].row /\ f[o].at = f[i].at - 1  BY <1>2, <1>3, <2>1
  <2>3. CASE o = 1
    <3>1. f[o].row = NoRow  BY <2>3 DEF FileHeader, Mark
    <3> QED  BY <1>3, <2>2, <3>1, RecoveryAssumption
  <2>4. CASE f[o].at = 2  BY <1>4, <2>2, <2>4
  <2> QED  BY <2>3, <2>4
<1>6. i + 1 \in 2 .. Len(f) /\ f[i + 1].at = 1 /\ f[i + 1].seq = f[i].seq
  BY <1>2, <1>3, <1>5
<1>7. PICK j \in Nat : j = i + 1  OBVIOUS
<1>8. j < Len(f) /\ f[j + 1].seq = f[j].seq /\ f[j + 1].at = 2
  <2>1. j \in 2 .. Len(f) /\ f[j].at = 1  BY <1>6, <1>7
  <2>2. f[j].at < 2 => /\ j < Len(f) /\ f[j + 1].row = f[j].row
                       /\ f[j + 1].seq = f[j].seq /\ f[j + 1].at = f[j].at + 1
    BY <2>1, WholeCell
  <2> QED  BY <2>1, <2>2
<1>9. j = o + 2 /\ j + 1 = o + 3  BY <1>1, <1>7
<1>10. f[j].seq = f[i].seq  BY <1>6, <1>7
<1>11. f[o + 2] = f[j] /\ f[o + 3] = f[j + 1] /\ f[o + 1] = f[i]  BY <1>1, <1>9
<1>12. o + 3 <= Len(f)  BY <1>2, <1>8, <1>9
<1> QED  BY <1>3, <1>4, <1>5, <1>8, <1>10, <1>11, <1>12

\* In whole files, a scan that stands between two blocks has a whole block
\* ahead of it.
LEMMA BlockAhead ==
  ASSUME RecoveryInv, pc # "closed", ~Torn, Boundary, scan.offset < Size
  PROVE  /\ ScanValid
         /\ scan.offset + 3 <= Size
         /\ file[scan.shard][scan.offset + 3].at = 2
         /\ \A i \in scan.offset + 1 .. scan.offset + 3 :
              file[scan.shard][i].seq = CellAt(scan.shard, scan.offset).seq
<1> DEFINE s == scan.shard
           o == scan.offset
           f == file[s]
<1>1. /\ opts \in Options /\ s \in Opened /\ o \in Nat \ {0}
      /\ file \in [Shard -> Seq(CellType)]
  BY DEF RecoveryInv, Typed, SessionTyped, ScanTyped, FilesTyped, Positive
<1>2. s \in Shard  BY <1>1, OpenedShards DEF Opened
<1>3. f \in Seq(CellType) /\ Size = Len(f)  BY <1>1, <1>2 DEF Size
<1>4. Whole(f)  BY <1>1 DEF Torn
<1>5. f[1] = FileHeader  BY <1>1, <1>2 DEF RecoveryInv, HeaderInv
<1>6. o = 1 \/ f[o].at = 2  BY DEF Boundary, BlockSize
<1>7. o < Len(f)  BY <1>3
<1> HIDE DEF s, o, f
<1>8. /\ f[o + 1].row \in Row /\ f[o + 1].at = 0
      /\ o + 3 <= Len(f) /\ f[o + 3].at = 2
      /\ f[o + 2].seq = f[o + 1].seq /\ f[o + 3].seq = f[o + 1].seq
  BY <1>1, <1>3, <1>4, <1>5, <1>6, <1>7, WholeBlock
<1>9. CellAt(s, o) = f[o + 1]
  <2>1. o + 1 \in DOMAIN f  BY <1>1, <1>3, <1>7
  <2> QED  BY <2>1 DEF CellAt, f
<1>10. o + 3 <= Size  BY <1>3, <1>8
<1>11. ScanValid
  BY <1>8, <1>9, <1>10 DEF ScanValid, IsValidRowBlockHeader, BlockSize, s, o
<1>12. \A i \in o + 1 .. o + 3 : f[i].seq = CellAt(s, o).seq
  <2>1. \A i \in o + 1 .. o + 3 : i = o + 1 \/ i = o + 2 \/ i = o + 3  BY <1>1
  <2> QED  BY <1>8, <1>9, <2>1
<1> QED  BY <1>8, <1>10, <1>11, <1>12 DEF s, o, f

LEMMA CellsTyped ==
  ASSUME FilesTyped, NEW s \in Shard, NEW i \in DOMAIN file[s]
  PROVE  i \in Nat /\ file[s][i] \in CellType /\ file[s][i].seq \in Nat
<1>1. file[s] \in Seq(CellType)  BY DEF FilesTyped
<1>2. i \in Nat /\ file[s][i] \in CellType  BY <1>1, LenProperties
<1> QED  BY <1>2 DEF CellType

LEMMA ScanFacts ==
  ASSUME RecoveryInv, pc \in {"scan", "insert"}
  PROVE  /\ opts \in Options /\ scan.shard \in Opened /\ scan.shard \in Shard
         /\ opts.shards \in Nat /\ scan.shard \in Nat /\ scan.shard < opts.shards
         /\ scan \in [shard : Opened, offset : Positive, nextSequence : Positive]
         /\ file[scan.shard] \in Seq(CellType) /\ file[scan.shard] # <<>>
         /\ Size \in Nat /\ Size > 0 /\ DOMAIN file[scan.shard] = 1 .. Size
         /\ status = "OK" /\ index.header /\ index.shards = opts.shards /\ Rebuilding
         /\ \A t \in Thread : writer[t].pc = "idle" /\ writer[t].seq = 0
<1>1. /\ opts \in Options /\ scan.shard \in Opened /\ file \in [Shard -> Seq(CellType)]
      /\ scan \in [shard : Opened, offset : Positive, nextSequence : Positive]
  BY DEF RecoveryInv, Typed, SessionTyped, ScanTyped, FilesTyped
<1>2. scan.shard \in Shard /\ opts.shards \in Nat  BY <1>1, OpenedShards DEF Opened
<1>3. scan.shard \in Nat /\ scan.shard < opts.shards  BY <1>1, <1>2 DEF Opened
<1>4. file[scan.shard] \in Seq(CellType) /\ file[scan.shard] # <<>>
  BY <1>1, <1>2 DEF RecoveryInv, HeaderInv
<1>5. Size \in Nat /\ Size > 0 /\ DOMAIN file[scan.shard] = 1 .. Size
  BY <1>4 DEF Size
<1>6. /\ status = "OK" /\ index.header /\ index.shards = opts.shards
      /\ \A t \in Thread : writer[t].pc = "idle" /\ writer[t].seq = 0
  BY DEF RecoveryInv, PlaceInv
<1>7. Rebuilding  BY DEF Rebuilding
<1> QED  BY <1>1, <1>2, <1>3, <1>4, <1>5, <1>6, <1>7

LEMMA ScanGrowsStep ==
  ASSUME RecoveryInv, ScanGrows
  PROVE  RecoveryInv'
<1> DEFINE f == Restrict(index.bucket, InState(Filled))
           n == 2 * Cardinality(Buckets)
<1>1. /\ pc = "scan" /\ pc' = "create" /\ scan.offset < Size /\ ScanValid
      /\ build' = [count |-> n, copy |-> f, nextSequence |-> index.nextSequence,
                   resume |-> "insert"]
      /\ UNCHANGED <<file, index, opts, append, writer, scan, status, calls, crashes,
                     used, drift, suspect>>
  BY DEF ScanGrows, bounds, history
<1>2. Torn' = Torn /\ Size' = Size /\ ScanValid' = ScanValid /\ Boundary' = Boundary
      /\ Scanned' = Scanned
  BY <1>1, SameScan
<1>3. BuildTyped' /\ build'.resume = "insert"
  <2>1. PICK m \in Nat : index.bucket \in [0 .. m - 1 -> BucketType]
    BY DEF RecoveryInv, Typed, IndexTyped
  <2>2. Buckets = 0 .. m - 1  BY <2>1 DEF Buckets
  <2>3. n \in Nat
    <3>1. IsFiniteSet(0 .. m - 1)  BY FS_Interval
    <3>2. Cardinality(Buckets) \in Nat  BY <2>2, <3>1, FS_CardinalityType
    <3> QED  BY <3>2
  <2>4. InState(Filled) \subseteq Buckets  BY DEF InState
  <2>5. InState(Filled) \in SUBSET Nat /\ f \in [InState(Filled) -> BucketType]
    BY <2>1, <2>2, <2>4 DEF Restrict
  <2>6. index.nextSequence \in Positive  BY DEF RecoveryInv, Typed, IndexTyped
  <2>7. "insert" \in {"serving", "scan", "insert"}  OBVIOUS
  <2> HIDE DEF f, n
  <2> QED  BY ONLY <1>1, <2>3, <2>5, <2>6, <2>7, BuildFields
<1> HIDE DEF f, n
<1>4. Typed'
  <2>1. FilesTyped' /\ IndexTyped' /\ ScanTyped' /\ WritersTyped'
    BY <1>1 DEF RecoveryInv, Typed, FilesTyped, IndexTyped, ScanTyped, WritersTyped, Opened
  <2>2. SessionTyped'  BY <1>1 DEF RecoveryInv, Typed, SessionTyped, PcLabels
  <2>3. FlagsTyped'  BY <1>1, Zenon DEF RecoveryInv, Typed, FlagsTyped
  <2> QED  BY <1>3, <2>1, <2>2, <2>3 DEF Typed
<1>5. PlaceInv'
  <2>1. /\ status = "OK" /\ \A t \in Thread : writer[t].pc = "idle" /\ writer[t].seq = 0
    BY <1>1, ScanFacts
  <2> QED  BY <1>1, <1>2, <1>3, <2>1 DEF PlaceInv, InHand, Building
<1>6. HeaderInv'  BY <1>1 DEF RecoveryInv, HeaderInv, Opened
<1>7. SequenceInv'
  <2>1. Rebuilding'  BY <1>1, <1>3 DEF Rebuilding
  <2> QED  BY <1>1, <2>1 DEF RecoveryInv, SequenceInv
<1>8. ScanInv'
  <2>1. Rebuilding  BY <1>1 DEF Rebuilding
  <2> QED  BY <1>1, <1>2, <2>1 DEF RecoveryInv, ScanInv
<1> QED  BY <1>4, <1>5, <1>6, <1>7, <1>8 DEF RecoveryInv

LEMMA ScanBlockStep ==
  ASSUME RecoveryInv, ScanBlock
  PROVE  RecoveryInv'
<1> DEFINE head == CellAt(scan.shard, scan.offset)
           b    == FindRowBucket(head.row, ColumnAt(scan.shard, scan.offset))
           new  == [state |-> Filled, row |-> head.row, shard |-> scan.shard,
                    offset |-> scan.offset, seq |-> head.seq]
           n    == IF index.bucket[b].state = Empty THEN 1 ELSE 0
           q    == NextSequence(head.seq)
<1>1. /\ pc \in {"scan", "insert"} /\ pc' = "scan"
      /\ index' = WithBucket(b, new, n)
      /\ scan' = [scan EXCEPT !.offset = scan.offset + 3, !.nextSequence = q]
      /\ UNCHANGED <<file, opts, append, writer, build, status, calls, crashes,
                     used, drift, suspect>>
  BY DEF ScanBlock, Winner, NextBlock, BlockSize, bounds, history
<1>2. scan.offset < Size /\ ScanValid
  BY DEF ScanBlock, RecoveryInv, PlaceInv, InHand
<1>3. /\ opts \in Options /\ scan.shard \in Opened /\ scan.shard \in Shard
      /\ scan \in [shard : Opened, offset : Positive, nextSequence : Positive]
      /\ file[scan.shard] \in Seq(CellType)
      /\ Size \in Nat /\ DOMAIN file[scan.shard] = 1 .. Size
      /\ status = "OK" /\ index.header /\ index.shards = opts.shards /\ Rebuilding
      /\ \A t \in Thread : writer[t].pc = "idle" /\ writer[t].seq = 0
  BY <1>1, ScanFacts
<1>4. /\ scan.offset \in Nat /\ scan.offset > 0
      /\ scan.nextSequence \in Nat /\ scan.nextSequence > 0
  BY <1>3 DEF Positive
<1>5. head \in CellType /\ head.row \in Row
  <2>1. head \in CellType
    <3>1. scan.offset + 1 \in DOMAIN file[scan.shard]  BY <1>2, <1>3, <1>4
    <3>2. head = file[scan.shard][scan.offset + 1]  BY <3>1 DEF CellAt
    <3> QED  BY <1>3, <3>1, <3>2
  <2>2. head.row \in Row  BY <1>2 DEF ScanValid, IsValidRowBlockHeader
  <2> QED  BY <2>1, <2>2
<1> HIDE DEF head
<1>6. head.seq \in Nat  BY <1>5 DEF CellType
<1>7. new \in BucketType
  BY <1>3, <1>4, <1>5, <1>6 DEF BucketType, Filled
<1>8. n \in Nat  OBVIOUS
<1>9. q \in Nat /\ q >= scan.nextSequence /\ q > head.seq
  <2>1. q = IF scan.nextSequence >= head.seq + 1 THEN scan.nextSequence ELSE head.seq + 1
    BY <1>4, <1>6, MaxOfTwo DEF NextSequence
  <2> QED  BY <1>4, <1>6, <2>1
<1> HIDE DEF b, new, n, q
<1>10. /\ IndexTyped'
       /\ index'.header = index.header /\ index'.shards = index.shards
       /\ index'.nextSequence = index.nextSequence
  <2>1. IndexTyped  BY DEF RecoveryInv, Typed
  <2> QED  BY ONLY <1>1, <1>7, <1>8, <2>1, WithBucketStep
<1>11. scan'.shard = scan.shard /\ scan'.offset = scan.offset + 3 /\ scan'.nextSequence = q
  BY <1>1, <1>3
<1>12. Torn' = Torn /\ Opened' = Opened /\ Size' = Size
  BY <1>1, <1>11, SameFiles DEF Size
<1>13. Typed'
  <2>1. FilesTyped' /\ BuildTyped' /\ WritersTyped'
    BY <1>1 DEF RecoveryInv, Typed, FilesTyped, BuildTyped, WritersTyped
  <2>2. SessionTyped'  BY <1>1 DEF RecoveryInv, Typed, SessionTyped, PcLabels
  <2>3. FlagsTyped'  BY <1>1, Zenon DEF RecoveryInv, Typed, FlagsTyped
  <2>4. ScanTyped'
    <3>1. scan.offset + 3 \in Positive /\ q \in Positive  BY <1>4, <1>9 DEF Positive
    <3>2. scan' \in [shard : Opened, offset : Positive, nextSequence : Positive]
      BY <1>1, <1>3, <3>1
    <3> QED  BY <1>12, <3>2 DEF ScanTyped
  <2> QED  BY <1>10, <2>1, <2>2, <2>3, <2>4 DEF Typed
<1>14. PlaceInv'
  <2>1. index'.header /\ index'.shards = opts'.shards  BY <1>1, <1>3, <1>10
  <2> QED  BY <1>1, <1>3, <2>1 DEF PlaceInv, InHand, Building
<1>15. HeaderInv'  BY <1>1 DEF RecoveryInv, HeaderInv, Opened
<1>16. SequenceInv'
  <2>1. Rebuilding'  BY <1>1 DEF Rebuilding
  <2> QED  BY <1>1, <1>10, <2>1 DEF RecoveryInv, SequenceInv
<1>17. ScanInv'
  <2>1. Torn' => suspect'  BY <1>1, <1>3, <1>12 DEF RecoveryInv, ScanInv
  <2>2. ASSUME ~Torn
        PROVE  Boundary' /\ Scanned'
    <3>1. Boundary /\ Scanned  BY <1>3, <2>2 DEF RecoveryInv, ScanInv
    <3>2. pc # "closed"  BY <1>1
    <3>3. /\ scan.offset + 3 <= Size
          /\ file[scan.shard][scan.offset + 3].at = 2
          /\ \A i \in scan.offset + 1 .. scan.offset + 3 :
               file[scan.shard][i].seq = head.seq
      BY <1>2, <2>2, <3>1, <3>2, BlockAhead DEF head
    <3>4. Boundary'  BY <1>1, <1>11, <1>12, <3>3 DEF Boundary, BlockSize
    <3>5. ASSUME NEW s \in Shard, s < scan.shard PROVE Below(s, scan.nextSequence)'
      <4>1. Below(s, scan.nextSequence)  BY <3>1, <3>5 DEF Scanned
      <4>2. \A i \in DOMAIN file[s] : file[s][i].seq \in Nat
        BY CellsTyped DEF RecoveryInv, Typed
      <4>3. \A i \in DOMAIN file[s] : file[s][i].seq < q
        BY <1>4, <1>9, <4>1, <4>2 DEF Below
      <4> QED  BY <1>1, <1>11, <4>3 DEF Below
    <3>6. ASSUME NEW i \in DOMAIN file[scan.shard], i <= scan.offset + 3
          PROVE  file[scan.shard][i].seq < q
      <4>1. i \in Nat /\ file[scan.shard][i].seq \in Nat
        BY <1>3, <3>6, CellsTyped DEF RecoveryInv, Typed
      <4>2. CASE i <= scan.offset
        <5>1. file[scan.shard][i].seq < scan.nextSequence
          BY <3>1, <3>6, <4>2 DEF Scanned
        <5> QED  BY <1>4, <1>9, <4>1, <5>1
      <4>3. CASE i \in scan.offset + 1 .. scan.offset + 3
        BY <1>6, <1>9, <3>3, <4>3
      <4> QED  BY <1>4, <3>6, <4>1, <4>2, <4>3
    <3>7. Scanned'  BY <1>1, <1>11, <3>5, <3>6 DEF Scanned
    <3> QED  BY <3>4, <3>7
  <2> QED  BY <1>12, <2>1, <2>2 DEF ScanInv
<1> QED  BY <1>13, <1>14, <1>15, <1>16, <1>17 DEF RecoveryInv

LEMMA ScanShardEndsStep ==
  ASSUME RecoveryInv, ScanShardEnds
  PROVE  RecoveryInv'
<1>1. /\ pc = "scan" /\ scan.offset >= Size
      /\ append' = [append EXCEPT ![scan.shard] = Size]
      /\ UNCHANGED <<file, opts, writer, build, status, calls, crashes,
                     used, drift, suspect>>
  BY DEF ScanShardEnds, bounds, history
<1>2. \/ /\ scan.shard + 1 < opts.shards
         /\ scan' = [scan EXCEPT !.shard = scan.shard + 1, !.offset = 1]
         /\ index' = index /\ pc' = pc
      \/ /\ ~(scan.shard + 1 < opts.shards)
         /\ index' = [index EXCEPT !.nextSequence = scan.nextSequence]
         /\ scan' = NoScan /\ pc' = "serving"
  BY DEF ScanShardEnds, MoreShards
<1>3. /\ opts \in Options /\ scan.shard \in Opened /\ scan.shard \in Shard
      /\ opts.shards \in Nat /\ scan.shard \in Nat /\ scan.shard < opts.shards
      /\ scan \in [shard : Opened, offset : Positive, nextSequence : Positive]
      /\ file[scan.shard] \in Seq(CellType)
      /\ Size \in Nat /\ Size > 0 /\ DOMAIN file[scan.shard] = 1 .. Size
      /\ status = "OK" /\ index.header /\ index.shards = opts.shards /\ Rebuilding
      /\ \A t \in Thread : writer[t].pc = "idle" /\ writer[t].seq = 0
  BY <1>1, ScanFacts
<1>4. /\ scan.offset \in Nat /\ scan.nextSequence \in Positive
      /\ scan.nextSequence \in Nat /\ scan.nextSequence > 0
  BY <1>3 DEF Positive
<1>5. \A s \in Shard : s \in Nat  BY <1>3, OpenedShards
<1>6. append' \in [Shard -> Nat]
  BY <1>1, <1>3 DEF RecoveryInv, Typed, SessionTyped
<1>7. HeaderInv'
  <2>1. append \in [Shard -> Nat] /\ \A s \in Opened : s \in Shard
    BY <1>3, OpenedShards DEF RecoveryInv, Typed, SessionTyped, Opened
  <2>2. \A s \in Opened : file[s] # <<>> /\ append[s] > 0
    BY <1>1 DEF RecoveryInv, HeaderInv
  <2>3. \A s \in Opened : append'[s] > 0  BY <1>1, <1>3, <2>1, <2>2
  <2> QED  BY <1>1, <1>3, <2>2, <2>3 DEF RecoveryInv, HeaderInv, Opened
<1>8. ASSUME ~Torn, NEW s \in Shard, s <= scan.shard
      PROVE  Below(s, scan.nextSequence)
  <2>1. Scanned  BY <1>3, <1>8 DEF RecoveryInv, ScanInv
  <2>2. CASE s < scan.shard  BY <2>1, <2>2 DEF Scanned
  <2>3. CASE s = scan.shard
    <3>1. \A i \in DOMAIN file[s] : i <= scan.offset  BY <1>1, <1>3, <1>4, <2>3
    <3> QED  BY <2>1, <2>3, <3>1 DEF Scanned, Below
  <2> QED  BY <1>3, <1>5, <1>8, <2>2, <2>3
<1>9. FilesTyped' /\ BuildTyped' /\ WritersTyped'
  BY <1>1 DEF RecoveryInv, Typed, FilesTyped, BuildTyped, WritersTyped
<1>10. FlagsTyped'  BY <1>1, Zenon DEF RecoveryInv, Typed, FlagsTyped
<1>11. Torn' = Torn /\ Opened' = Opened  BY <1>1, SameFiles
<1>12. SessionTyped'
  BY <1>1, <1>2, <1>6 DEF RecoveryInv, Typed, SessionTyped, PcLabels
<1>13. CASE /\ scan.shard + 1 < opts.shards
            /\ scan' = [scan EXCEPT !.shard = scan.shard + 1, !.offset = 1]
            /\ index' = index /\ pc' = pc
  <2>1. /\ scan'.shard = scan.shard + 1 /\ scan'.offset = 1
        /\ scan'.nextSequence = scan.nextSequence
    BY <1>3, <1>13
  <2>2. scan.shard + 1 \in Opened /\ scan.shard + 1 \in Shard
    BY <1>3, <1>13, OpenedShards DEF Opened
  <2>3. Typed'
    <3>1. ScanTyped'
      <4>1. 1 \in Positive  BY DEF Positive
      <4>2. scan' \in [shard : Opened, offset : Positive, nextSequence : Positive]
        BY <1>3, <1>13, <2>2, <4>1
      <4> QED  BY <1>11, <4>2 DEF ScanTyped
    <3>2. IndexTyped'  BY <1>13 DEF RecoveryInv, Typed, IndexTyped
    <3> QED  BY <1>9, <1>10, <1>12, <3>1, <3>2 DEF Typed
  <2>4. PlaceInv'  BY <1>1, <1>3, <1>13 DEF PlaceInv, InHand, Building
  <2>5. SequenceInv'
    <3>1. Rebuilding'  BY <1>1, <1>13 DEF Rebuilding
    <3> QED  BY <1>1, <1>13, <3>1 DEF RecoveryInv, SequenceInv
  <2>6. ScanInv'
    <3>1. Torn' => suspect'  BY <1>1, <1>3, <1>11 DEF RecoveryInv, ScanInv
    <3>2. Boundary'  BY <2>1 DEF Boundary
    <3>3. ASSUME ~Torn PROVE Scanned'
      <4> DEFINE f == file[scan.shard + 1]
      <4>1. f \in Seq(CellType) /\ f # <<>>
        BY <1>1, <2>2 DEF RecoveryInv, Typed, FilesTyped, HeaderInv
      <4>2. f[1] = FileHeader  BY <2>2, <4>1 DEF RecoveryInv, HeaderInv
      <4>3. FileHeader.seq = 0  BY MarkTyped DEF FileHeader
      <4>4. \A i \in DOMAIN f : i <= 1 => i = 1  BY <4>1
      <4>5. \A i \in DOMAIN f : i <= 1 => f[i].seq < scan.nextSequence
        BY <1>4, <4>2, <4>3, <4>4
      <4>6. \A s \in Shard : s < scan.shard + 1 => s <= scan.shard  BY <1>3, <1>5
      <4>7. \A s \in Shard : s < scan.shard + 1 => Below(s, scan.nextSequence)
        BY <1>8, <3>3, <4>6
      <4>8. \A s \in Shard : s < scan'.shard => Below(s, scan.nextSequence)'
        BY <1>1, <2>1, <4>7 DEF Below
      <4>9. \A i \in DOMAIN file'[scan'.shard] :
              i <= scan'.offset => file'[scan'.shard][i].seq < scan'.nextSequence
        BY <1>1, <2>1, <4>5
      <4> QED  BY <4>8, <4>9 DEF Scanned
    <3> QED  BY <1>11, <3>1, <3>2, <3>3 DEF ScanInv
  <2> QED  BY <1>7, <2>3, <2>4, <2>5, <2>6 DEF RecoveryInv
<1>14. CASE /\ ~(scan.shard + 1 < opts.shards)
            /\ index' = [index EXCEPT !.nextSequence = scan.nextSequence]
            /\ scan' = NoScan /\ pc' = "serving"
  <2>1. /\ IndexTyped'
        /\ index'.header = index.header /\ index'.shards = index.shards
        /\ index'.nextSequence = scan.nextSequence
    <3>1. IndexTyped  BY DEF RecoveryInv, Typed
    <3> QED  BY ONLY <1>4, <1>14, <3>1, StoreSequenceStep
  <2>2. Typed'
    <3>1. ScanTyped'  BY <1>3, <1>11, <1>14, NoScanTyped DEF ScanTyped
    <3> QED  BY <1>9, <1>10, <1>12, <2>1, <3>1 DEF Typed
  <2>3. PlaceInv'
    <3>1. index'.header /\ index'.shards = opts'.shards  BY <1>1, <1>3, <2>1
    <3> QED  BY <1>14, <3>1 DEF PlaceInv, InHand, Building
  <2>4. SequenceInv'
    <3>1. \A t \in Thread : writer'[t].seq < index'.nextSequence
      BY <1>1, <1>3, <1>4, <2>1
    <3>2. ASSUME ~suspect', NEW s \in Shard, s < index'.shards
          PROVE  Below(s, index.nextSequence)'
      <4>1. ~Torn  BY <1>1, <1>3, <3>2 DEF RecoveryInv, ScanInv
      <4>2. s <= scan.shard  BY <1>3, <1>5, <1>14, <2>1, <3>2
      <4>3. Below(s, scan.nextSequence)  BY <1>8, <4>1, <4>2
      <4> QED  BY <1>1, <2>1, <4>3 DEF Below
    <3> QED  BY <3>1, <3>2 DEF SequenceInv
  <2>5. ScanInv'  BY <1>14 DEF ScanInv, Rebuilding
  <2> QED  BY <1>7, <2>2, <2>3, <2>4, <2>5 DEF RecoveryInv
<1> QED  BY <1>2, <1>13, <1>14

-----------------------------------------------------------------------------
(* Ends of a session.                                                      *)

LEMMA ScanFailsStep ==
  ASSUME RecoveryInv, ScanFails
  PROVE  RecoveryInv'
<1>1. /\ Closed /\ UNCHANGED <<file, index, calls, used, drift>>
      /\ crashes' = crashes /\ suspect' = TRUE
      /\ status' \in {"OK", "IOError", "Corruption", "InvalidArgument"}
  BY DEF ScanFails, bounds
<1>2. crashes' \in 0 .. MaxCrashes  BY <1>1 DEF RecoveryInv, Typed, SessionTyped
<1>3. suspect' \in BOOLEAN /\ (index.header /\ ~suspect' => ~Rebuilding /\ ~suspect)
  BY <1>1
<1> QED  BY <1>1, <1>2, <1>3, ClosedStep

LEMMA CloseStep ==
  ASSUME RecoveryInv, Close
  PROVE  RecoveryInv'
<1>1. /\ Closed /\ UNCHANGED <<file, index, calls, used, drift>>
      /\ crashes' = crashes /\ suspect' = suspect /\ pc \in {"readonly", "serving"}
      /\ status' \in {"OK", "IOError", "Corruption", "InvalidArgument"}
  BY DEF Close, bounds, history
<1>2. crashes' \in 0 .. MaxCrashes  BY <1>1 DEF RecoveryInv, Typed, SessionTyped
<1>3. suspect' \in BOOLEAN  BY <1>1, Zenon DEF RecoveryInv, Typed, FlagsTyped
<1>4. ~Rebuilding  BY <1>1 DEF Rebuilding
<1>5. index.header /\ ~suspect' => ~Rebuilding /\ ~suspect  BY <1>1, <1>4
<1> QED  BY <1>1, <1>2, <1>3, <1>5, ClosedStep

LEMMA CrashStep ==
  ASSUME RecoveryInv, Crash
  PROVE  RecoveryInv'
<1>1. /\ Closed /\ UNCHANGED <<file, index, calls, used, drift>>
      /\ crashes < MaxCrashes /\ crashes' = crashes + 1
      /\ suspect' = (suspect \/ HalfBuilt)
      /\ status' \in {"OK", "IOError", "Corruption", "InvalidArgument"}
  BY DEF Crash
<1>2. crashes' \in 0 .. MaxCrashes
  BY <1>1, RecoveryAssumption DEF RecoveryInv, Typed, SessionTyped
<1>3. suspect' \in BOOLEAN  BY <1>1
<1>4. index.header => (Rebuilding => HalfBuilt)
  BY DEF RecoveryInv, PlaceInv, Rebuilding, HalfBuilt, Building
<1>5. index.header /\ ~suspect' => ~Rebuilding /\ ~suspect  BY <1>1, <1>4
<1> QED  BY <1>1, <1>2, <1>3, <1>5, ClosedStep

-----------------------------------------------------------------------------
(* Writes.                                                                 *)

\* The shard files keep their headers and get no new sequence number.
FilesKept ==
  /\ FilesTyped'
  /\ \A s \in Shard : file[s] # <<>> => file'[s] # <<>>
  /\ \A s \in Shard : file'[s] # <<>> => file'[s][1] = FileHeader
  /\ \A s \in Shard : Below(s, index.nextSequence) =>
       \A i \in DOMAIN file'[s] : file'[s][i].seq < index.nextSequence

\* The writers keep what they reserved, or are done.
WritersKept ==
  /\ WritersTyped'
  /\ \A u \in Thread : writer'[u].seq = writer[u].seq \/ writer'[u].seq = 0
  /\ \A u \in Thread : writer'[u].pc \in {"write", "writeRest"} =>
       /\ writer[u].pc \in {"write", "writeRest"}
       /\ writer'[u].offset = writer[u].offset
  /\ \A u \in Thread : writer'[u].pc # "idle" =>
       writer[u].pc # "idle" /\ writer'[u].row = writer[u].row

LEMMA FilesUnchanged ==
  ASSUME RecoveryInv, file' = file
  PROVE  FilesKept
<1>1. FilesTyped'  BY DEF RecoveryInv, Typed, FilesTyped
<1>2. \A s \in Shard : file[s] # <<>> => file[s][1] = FileHeader
  BY DEF RecoveryInv, HeaderInv
<1> QED  BY <1>1, <1>2 DEF FilesKept, Below

LEMMA GotoKeeps ==
  ASSUME WritersTyped, NEW t \in Thread, NEW label, Goto(t, label),
         label \in {"writeRest", "claim", "count"}, writer[t].pc # "idle",
         label = "writeRest" => writer[t].pc \in {"write", "writeRest"}
  PROVE  WritersKept
<1>1. writer' = [writer EXCEPT ![t] = [writer[t] EXCEPT !.pc = label]]  BY DEF Goto
<1>2. DOMAIN writer = Thread /\ \A u \in Thread : WriterTyped(writer[u])
  BY DEF WritersTyped
<1>3. DOMAIN writer' = Thread /\ \A u \in Thread : u # t => writer'[u] = writer[u]
  BY <1>1, <1>2
<1>4. writer'[t] = [writer[t] EXCEPT !.pc = label]  BY <1>1, <1>2
<1>5. WriterTyped(writer[t])  BY <1>2
<1>6. /\ WriterTyped(writer'[t]) /\ writer'[t].pc = label
      /\ writer'[t].seq = writer[t].seq /\ writer'[t].offset = writer[t].offset
      /\ writer'[t].row = writer[t].row
  BY <1>4, <1>5 DEF WriterTyped
<1>7. WritersTyped'  BY <1>2, <1>3, <1>6 DEF WritersTyped
<1> QED  BY <1>3, <1>6, <1>7 DEF WritersKept

LEMMA DoneKeeps ==
  ASSUME WritersTyped, NEW t \in Thread, writer' = [writer EXCEPT ![t] = Idle]
  PROVE  WritersKept
<1>1. DOMAIN writer = Thread /\ \A u \in Thread : WriterTyped(writer[u])
  BY DEF WritersTyped
<1>2. /\ DOMAIN writer' = Thread /\ writer'[t] = Idle
      /\ \A u \in Thread : u # t => writer'[u] = writer[u]
  BY <1>1
<1>3. WritersTyped'  BY <1>1, <1>2, IdleTyped DEF WritersTyped
<1> QED  BY <1>2, <1>3, IdleTyped DEF WritersKept

\* A step of a write that reserves nothing.
LEMMA WriterStep ==
  ASSUME RecoveryInv, pc = "serving", FilesKept, WritersKept, IndexTyped',
         index'.header = index.header, index'.shards = index.shards,
         index'.nextSequence = index.nextSequence,
         UNCHANGED <<pc, opts, append, scan, build, calls, crashes, used, drift, suspect>>,
         status' \in {"OK", "IOError", "Corruption", "InvalidArgument"}
  PROVE  RecoveryInv'
<1>1. Typed'
  <2>1. BuildTyped' /\ ScanTyped'
    BY DEF RecoveryInv, Typed, BuildTyped, ScanTyped, Opened
  <2>2. SessionTyped'  BY DEF RecoveryInv, Typed, SessionTyped
  <2>3. FlagsTyped'  BY Zenon DEF RecoveryInv, Typed, FlagsTyped
  <2>4. FilesTyped' /\ WritersTyped'  BY DEF FilesKept, WritersKept
  <2> QED  BY <2>1, <2>2, <2>3, <2>4 DEF Typed
<1>2. PlaceInv' /\ ScanInv'  BY ServingStep
<1>3. HeaderInv'
  <2>1. \A s \in Opened : s \in Shard /\ file[s] # <<>> /\ append[s] > 0
    BY OpenedShards DEF RecoveryInv, Typed, SessionTyped, HeaderInv, Opened
  <2>2. \A s \in Opened' : file'[s] # <<>> /\ append'[s] > 0
    BY <2>1 DEF FilesKept, Opened
  <2>3. \A t \in Thread :
          /\ writer'[t].pc \in {"write", "writeRest"} => writer'[t].offset > 0
          /\ writer'[t].pc # "idle" => writer'[t].row \in Row
    BY DEF WritersKept, RecoveryInv, HeaderInv
  <2> QED  BY <2>2, <2>3 DEF HeaderInv, FilesKept
<1>4. SequenceInv'
  <2>1. index.nextSequence \in Nat /\ index.nextSequence > 0
    BY DEF RecoveryInv, Typed, IndexTyped, Positive
  <2>2. \A t \in Thread : writer'[t].seq < index'.nextSequence
    <3>1. \A t \in Thread : writer[t].seq < index.nextSequence
      BY DEF RecoveryInv, SequenceInv
    <3> QED  BY <2>1, <3>1 DEF WritersKept
  <2>3. ~Rebuilding  BY DEF Rebuilding
  <2>4. index'.header /\ ~suspect' =>
          \A s \in Shard : s < index'.shards => Below(s, index.nextSequence)
    BY <2>3 DEF RecoveryInv, SequenceInv
  <2>5. \A s \in Shard : Below(s, index.nextSequence) => Below(s, index.nextSequence)'
    BY DEF FilesKept, Below
  <2> QED  BY <2>2, <2>4, <2>5, Zenon DEF SequenceInv
<1> QED  BY <1>1, <1>2, <1>3, <1>4 DEF RecoveryInv

LEMMA SameIndex ==
  ASSUME RecoveryInv, index' = index
  PROVE  /\ IndexTyped'
         /\ index'.header = index.header /\ index'.shards = index.shards
         /\ index'.nextSequence = index.nextSequence
<1>1. IndexTyped'  BY DEF RecoveryInv, Typed, IndexTyped
<1> QED  BY <1>1, Zenon

LEMMA WriteStores ==
  ASSUME RecoveryInv, pc = "serving", NEW t \in Thread,
         writer[t].pc \in {"write", "writeRest"}, NEW c,
         c \in Pieces(BlockOf(writer[t])) \/ c = BlockOf(writer[t]),
         Store(writer[t], c)
  PROVE  FilesKept
<1> DEFINE w == writer[t]
<1>1. w.row \in Row /\ w.val \in Nat /\ w.seq \in Nat
  <2>1. w.row \in Row  BY DEF RecoveryInv, HeaderInv
  <2>2. WriterTyped(w)  BY DEF RecoveryInv, Typed, WritersTyped
  <2> QED  BY <2>1, <2>2 DEF WriterTyped
<1>2. /\ BlockOf(w) \in Seq(CellType) /\ Len(BlockOf(w)) = 3
      /\ \A i \in 1 .. 3 : BlockOf(w)[i].seq = w.seq
  <2>1. BlockOf(w) = Block(w.row, w.val, w.seq)  BY DEF BlockOf
  <2> HIDE DEF w
  <2>2. /\ Block(w.row, w.val, w.seq) \in Seq(CellType)
        /\ Len(Block(w.row, w.val, w.seq)) = 3
        /\ \A i \in 1 .. 3 : Block(w.row, w.val, w.seq)[i].seq = w.seq
    BY ONLY <1>1, BlockCells, Zenon
  <2> QED  BY ONLY <2>1, <2>2, Zenon
<1>3. /\ c \in Seq(CellType)
      /\ \A i \in DOMAIN c : c[i].seq = 0 \/ c[i].seq = w.seq
  <2>1. CASE c = BlockOf(w)
    <3>1. DOMAIN c = 1 .. 3  BY <1>2, <2>1
    <3> QED  BY <1>2, <2>1, <3>1
  <2>2. CASE c \in Pieces(BlockOf(w))
    <3>1. /\ c \in Seq(CellType)
          /\ \A i \in DOMAIN c : c[i].seq = 0 \/ \E j \in 1 .. 3 : c[i] = BlockOf(w)[j]
      BY <1>2, <2>2, PieceCells
    <3> QED  BY <1>2, <3>1
  <2> QED  BY <2>1, <2>2
<1>4. index.nextSequence \in Nat \ {0} /\ w.seq < index.nextSequence
  BY DEF RecoveryInv, Typed, IndexTyped, Positive, SequenceInv
<1>5. /\ FilesTyped'
      /\ \A s \in Shard : file[s] # <<>> => file'[s] # <<>>
      /\ \A s \in Shard : file'[s] # <<>> => file'[s][1] = FileHeader
      /\ \A s \in Shard : \A n \in Nat \ {0} :
           Below(s, n) /\ w.seq < n => \A i \in DOMAIN file'[s] : file'[s][i].seq < n
  BY <1>3, StoreEffect
<1> QED  BY <1>4, <1>5 DEF FilesKept

LEMMA WritePieceStep ==
  ASSUME RecoveryInv, NEW t \in Thread, WritePiece(t)
  PROVE  RecoveryInv'
<1>1. /\ pc = "serving" /\ writer[t].pc = "write" /\ Goto(t, "writeRest")
      /\ UNCHANGED <<index, pc, opts, append, scan, build, status, calls, crashes, used,
                     drift, suspect>>
  BY DEF WritePiece, At, bounds, history
<1>2. PICK p \in Pieces(BlockOf(writer[t])) : Store(writer[t], p)  BY DEF WritePiece
<1>3. FilesKept  BY <1>1, <1>2, WriteStores
<1>4. WritersKept  BY <1>1, GotoKeeps DEF RecoveryInv, Typed
<1>5. status' \in {"OK", "IOError", "Corruption", "InvalidArgument"}
  BY <1>1 DEF RecoveryInv, Typed, SessionTyped
<1> QED  BY <1>1, <1>3, <1>4, <1>5, SameIndex, WriterStep

LEMMA WriteBlockStep ==
  ASSUME RecoveryInv, NEW t \in Thread, WriteBlock(t)
  PROVE  RecoveryInv'
<1>1. /\ pc = "serving" /\ writer[t].pc \in {"write", "writeRest"} /\ Goto(t, "claim")
      /\ Store(writer[t], BlockOf(writer[t]))
      /\ UNCHANGED <<index, pc, opts, append, scan, build, status, calls, crashes, used,
                     drift, suspect>>
  BY DEF WriteBlock, At, bounds, history
<1>2. FilesKept  BY <1>1, WriteStores
<1>3. WritersKept  BY <1>1, GotoKeeps DEF RecoveryInv, Typed
<1>4. status' \in {"OK", "IOError", "Corruption", "InvalidArgument"}
  BY <1>1 DEF RecoveryInv, Typed, SessionTyped
<1> QED  BY <1>1, <1>2, <1>3, <1>4, SameIndex, WriterStep

LEMMA WriteBlockFailsStep ==
  ASSUME RecoveryInv, NEW t \in Thread, WriteBlockFails(t)
  PROVE  RecoveryInv'
<1>1. /\ pc = "serving" /\ writer' = [writer EXCEPT ![t] = Idle] /\ status' = "IOError"
      /\ UNCHANGED <<file, index, pc, opts, append, scan, build, calls, crashes, used,
                     drift, suspect>>
  BY DEF WriteBlockFails, At, bounds
<1>2. FilesKept  BY <1>1, FilesUnchanged
<1>3. WritersKept  BY <1>1, DoneKeeps DEF RecoveryInv, Typed
<1> QED  BY <1>1, <1>2, <1>3, SameIndex, WriterStep

\* A bucket is stored into, or a row counted.
LEMMA SetBucketStep ==
  ASSUME IndexTyped, NEW b, NEW x, b \in Buckets => x \in BucketType,
         index' = [index EXCEPT !.bucket = [index.bucket EXCEPT ![b] = x]]
  PROVE  /\ IndexTyped'
         /\ index'.header = index.header /\ index'.shards = index.shards
         /\ index'.nextSequence = index.nextSequence
<1> DEFINE f == [index.bucket EXCEPT ![b] = x]
           q == index.nextSequence
           k == index.items
<1>1. PICK m \in Nat : index.bucket \in [0 .. m - 1 -> BucketType]  BY DEF IndexTyped
<1>2. f \in [0 .. m - 1 -> BucketType]  BY <1>1, StoreIntoBucket DEF Buckets
<1>3. q \in Positive /\ k \in Nat  BY DEF IndexTyped
<1>4. index = [header |-> index.header, shards |-> index.shards, items |-> k,
              nextSequence |-> q, bucket |-> index.bucket]
  BY DEF IndexTyped
<1>5. index' = [index EXCEPT !.bucket = f]  OBVIOUS
<1> HIDE DEF f, q, k
<1>6. index' = [header |-> index.header, shards |-> index.shards, items |-> k,
               nextSequence |-> q, bucket |-> f]
  BY ONLY <1>4, <1>5
<1>7. /\ IndexTyped'
      /\ index'.header = index.header /\ index'.shards = index.shards
      /\ index'.nextSequence = q
  BY ONLY <1>1, <1>2, <1>3, <1>6, IndexTyped, IndexParts
<1> QED  BY <1>7, Zenon DEF q

LEMMA CountStep ==
  ASSUME IndexTyped, NEW n \in Nat, index' = [index EXCEPT !.items = n]
  PROVE  /\ IndexTyped'
         /\ index'.header = index.header /\ index'.shards = index.shards
         /\ index'.nextSequence = index.nextSequence
<1> DEFINE q == index.nextSequence
<1>1. PICK m \in Nat : index.bucket \in [0 .. m - 1 -> BucketType]  BY DEF IndexTyped
<1>2. q \in Positive  BY DEF IndexTyped
<1>3. index = [header |-> index.header, shards |-> index.shards, items |-> index.items,
              nextSequence |-> q, bucket |-> index.bucket]
  BY DEF IndexTyped
<1> HIDE DEF q
<1>4. index' = [header |-> index.header, shards |-> index.shards, items |-> n,
               nextSequence |-> q, bucket |-> index.bucket]
  BY ONLY <1>3, index' = [index EXCEPT !.items = n]
<1>5. /\ IndexTyped'
      /\ index'.header = index.header /\ index'.shards = index.shards
      /\ index'.nextSequence = q
  BY ONLY <1>1, <1>2, <1>4, n \in Nat, IndexTyped, IndexParts
<1> QED  BY <1>5, Zenon DEF q

LEMMA ClaimBucketStep ==
  ASSUME RecoveryInv, NEW t \in Thread, ClaimBucket(t)
  PROVE  RecoveryInv'
<1> DEFINE b == FindRowBucket(writer[t].row, writer[t].row)
           x == [index.bucket[b] EXCEPT !.state = Writing]
           e == index.bucket[b].state = Empty
<1>1. /\ pc = "serving" /\ writer[t].pc = "claim"
      /\ index' = [index EXCEPT !.bucket = [index.bucket EXCEPT ![b] = x]]
      /\ writer' = [writer EXCEPT ![t] = [[[writer[t] EXCEPT !.pc = "publish"]
                                           EXCEPT !.bucket = b] EXCEPT !.inserted = e]]
      /\ UNCHANGED <<file, pc, opts, append, scan, build, status, calls, crashes, used,
                     drift, suspect>>
  BY DEF ClaimBucket, At, bounds, history
<1>2. IndexTyped /\ WritersTyped  BY DEF RecoveryInv, Typed
<1> HIDE DEF b, e
<1>3. b \in Buckets => x \in BucketType
  <2>1. ASSUME b \in Buckets PROVE index.bucket[b] \in BucketType
    BY <1>2, <2>1 DEF IndexTyped, Buckets
  <2> QED  BY <2>1 DEF BucketType, Writing
<1> HIDE DEF x
<1>4. /\ IndexTyped'
      /\ index'.header = index.header /\ index'.shards = index.shards
      /\ index'.nextSequence = index.nextSequence
  BY ONLY <1>1, <1>2, <1>3, SetBucketStep
<1>5. WritersKept
  <2> DEFINE w == [[[writer[t] EXCEPT !.pc = "publish"] EXCEPT !.bucket = b]
                    EXCEPT !.inserted = e]
  <2>1. DOMAIN writer = Thread /\ \A u \in Thread : WriterTyped(writer[u])
    BY <1>2 DEF WritersTyped
  <2>2. WriterTyped(writer[t])  BY <2>1
  <2>3. WriterTyped(w) /\ w.pc = "publish" /\ w.seq = writer[t].seq /\ w.row = writer[t].row
    BY <2>2 DEF WriterTyped
  <2> HIDE DEF w
  <2>4. writer' = [writer EXCEPT ![t] = w]  BY <1>1 DEF w
  <2>5. /\ DOMAIN writer' = Thread /\ writer'[t] = w
        /\ \A u \in Thread : u # t => writer'[u] = writer[u]
    BY <2>1, <2>4
  <2>6. WritersTyped'  BY <2>1, <2>3, <2>5 DEF WritersTyped
  <2> QED  BY <1>1, <2>3, <2>5, <2>6 DEF WritersKept
<1>6. FilesKept  BY <1>1, FilesUnchanged
<1>7. status' \in {"OK", "IOError", "Corruption", "InvalidArgument"}
  BY <1>1 DEF RecoveryInv, Typed, SessionTyped
<1> QED  BY ONLY RecoveryInv, <1>1, <1>4, <1>5, <1>6, <1>7, WriterStep

LEMMA PublishBucketStep ==
  ASSUME RecoveryInv, NEW t \in Thread, PublishBucket(t)
  PROVE  RecoveryInv'
<1> DEFINE w == writer[t]
           x == [state |-> Filled, row |-> w.row, shard |-> ShardForRow(w.row),
                 offset |-> w.offset, seq |-> w.seq]
           b == w.bucket
<1>1. /\ pc = "serving" /\ w.pc = "publish" /\ Goto(t, "count")
      /\ index' = [index EXCEPT !.bucket = [index.bucket EXCEPT ![b] = x]]
      /\ UNCHANGED <<file, pc, opts, append, scan, build, status, calls, crashes, used,
                     drift, suspect>>
  BY DEF PublishBucket, At, bounds, history
<1>2. IndexTyped /\ WritersTyped  BY DEF RecoveryInv, Typed
<1>3. w.row \in Row /\ w.offset \in Nat /\ w.seq \in Nat /\ opts \in Options
  BY <1>1 DEF RecoveryInv, Typed, WritersTyped, WriterTyped, SessionTyped, HeaderInv
<1>4. x \in BucketType
  BY <1>3, ShardForRowOpened DEF BucketType, Filled
<1> HIDE DEF x, b
<1>5. /\ IndexTyped'
      /\ index'.header = index.header /\ index'.shards = index.shards
      /\ index'.nextSequence = index.nextSequence
  BY ONLY <1>1, <1>2, <1>4, SetBucketStep
<1>6. WritersKept  BY <1>1, <1>2, GotoKeeps
<1>7. FilesKept  BY <1>1, FilesUnchanged
<1>8. status' \in {"OK", "IOError", "Corruption", "InvalidArgument"}
  BY <1>1 DEF RecoveryInv, Typed, SessionTyped
<1> QED  BY ONLY RecoveryInv, <1>1, <1>5, <1>6, <1>7, <1>8, WriterStep

LEMMA FinishWriteStep ==
  ASSUME RecoveryInv, NEW t \in Thread, FinishWrite(t)
  PROVE  RecoveryInv'
<1> DEFINE n == index.items + Counted(writer[t])
<1>1. /\ pc = "serving" /\ writer' = [writer EXCEPT ![t] = Idle] /\ status' = "OK"
      /\ index' = [index EXCEPT !.items = n]
      /\ UNCHANGED <<file, pc, opts, append, scan, build, calls, crashes, used,
                     drift, suspect>>
  BY DEF FinishWrite, At, bounds
<1>2. IndexTyped /\ WritersTyped  BY DEF RecoveryInv, Typed
<1>3. n \in Nat
  <2>1. Counted(writer[t]) \in Nat  BY DEF Counted
  <2> QED  BY <1>2, <2>1 DEF IndexTyped
<1> HIDE DEF n
<1>4. /\ IndexTyped'
      /\ index'.header = index.header /\ index'.shards = index.shards
      /\ index'.nextSequence = index.nextSequence
  BY ONLY <1>1, <1>2, <1>3, CountStep
<1>5. FilesKept  BY <1>1, FilesUnchanged
<1>6. WritersKept  BY <1>1, <1>2, DoneKeeps
<1>7. status' \in {"OK", "IOError", "Corruption", "InvalidArgument"}  BY <1>1
<1> QED  BY ONLY RecoveryInv, <1>1, <1>4, <1>5, <1>6, <1>7, WriterStep

\* A write takes the next sequence number, which no block has, and a range
\* behind the file header.
LEMMA PutRowStructsStep ==
  ASSUME RecoveryInv, NEW t \in Thread, NEW r \in Row, PutRowStructs(t, r)
  PROVE  RecoveryInv'
<1> DEFINE h == ShardForRow(r)
           q == index.nextSequence
           w == [Idle EXCEPT !.pc = "write", !.row = r, !.val = calls', !.seq = q,
                             !.offset = append[h]]
<1>1. /\ pc = "serving" /\ calls < MaxCalls /\ calls' = calls + 1
      /\ UNCHANGED <<file, pc, opts, scan, build, crashes, suspect>>
  BY DEF PutRowStructs, At
<1>2. \/ /\ writer' = [writer EXCEPT ![t] = w]
         /\ index' = [index EXCEPT !.nextSequence = q + 1]
         /\ append' = [append EXCEPT ![h] = append[h] + 3]
         /\ used' = used \cup {opts.shards}
         /\ drift' = (drift \/ \E m \in used : opts.shards % m # 0)
         /\ status' = status
      \/ /\ status' = "InvalidArgument" /\ UNCHANGED <<writer, index, append, used, drift>>
  BY DEF PutRowStructs, BlockSize
<1>3. /\ opts \in Options /\ append \in [Shard -> Nat] /\ calls \in 0 .. MaxCalls
      /\ status \in {"OK", "IOError", "Corruption", "InvalidArgument"}
      /\ crashes \in 0 .. MaxCrashes /\ used \in SUBSET Nat
  BY DEF RecoveryInv, Typed, SessionTyped
<1>4. opts.shards \in Nat /\ h \in Opened /\ h \in Shard
  BY <1>3, OpenedShards, ShardForRowOpened
<1>5. calls' \in 0 .. MaxCalls /\ calls' \in Nat  BY <1>1, <1>3, RecoveryAssumption
<1>6. FilesTyped' /\ BuildTyped' /\ ScanTyped'
  BY <1>1 DEF RecoveryInv, Typed, FilesTyped, BuildTyped, ScanTyped, Opened
<1>7. suspect' \in BOOLEAN  BY <1>1, Zenon DEF RecoveryInv, Typed, FlagsTyped
<1>8. ~Rebuilding  BY <1>1 DEF Rebuilding
<1>9. IndexTyped /\ WritersTyped /\ q \in Nat /\ q > 0 /\ append[h] \in Nat /\ append[h] > 0
  BY <1>1, <1>3, <1>4 DEF RecoveryInv, Typed, IndexTyped, Positive, HeaderInv
<1>10. CASE /\ writer' = [writer EXCEPT ![t] = w]
            /\ index' = [index EXCEPT !.nextSequence = q + 1]
            /\ append' = [append EXCEPT ![h] = append[h] + 3]
            /\ used' = used \cup {opts.shards}
            /\ drift' = (drift \/ \E m \in used : opts.shards % m # 0)
            /\ status' = status
  <2>1. /\ WriterTyped(w) /\ w.pc = "write" /\ w.row = r /\ w.seq = q
        /\ w.offset = append[h]
    BY <1>5, <1>9 DEF WriterTyped, Idle
  <2> HIDE DEF w, h
  <2>2. /\ IndexTyped'
        /\ index'.header = index.header /\ index'.shards = index.shards
        /\ index'.nextSequence = q + 1
    <3>1. q + 1 \in Positive  BY <1>9 DEF Positive
    <3> HIDE DEF q
    <3> QED  BY ONLY <1>9, <1>10, <3>1, StoreSequenceStep
  <2>3. DOMAIN writer = Thread /\ \A u \in Thread : WriterTyped(writer[u])
    BY <1>9 DEF WritersTyped
  <2>4. /\ DOMAIN writer' = Thread /\ writer'[t] = w
        /\ \A u \in Thread : u # t => writer'[u] = writer[u]
    BY <1>10, <2>3
  <2>5. append' \in [Shard -> Nat] /\ \A s \in Shard : append[s] > 0 => append'[s] > 0
    BY <1>3, <1>4, <1>9, <1>10
  <2>6. Typed'
    <3>1. WritersTyped'  BY <2>1, <2>3, <2>4 DEF WritersTyped
    <3>2. SessionTyped'
      <4>1. used' \in SUBSET Nat  BY <1>3, <1>4, <1>10
      <4> QED  BY <1>1, <1>3, <1>5, <1>10, <2>5, <4>1 DEF SessionTyped, PcLabels
    <3>3. drift' \in BOOLEAN  BY <1>10
    <3>4. FlagsTyped'  BY <1>7, <3>3 DEF FlagsTyped
    <3> QED  BY <1>6, <2>2, <3>1, <3>2, <3>4 DEF Typed
  <2>7. PlaceInv' /\ ScanInv'  BY <1>1, <2>2, ServingStep
  <2>8. HeaderInv'
    <3>1. \A s \in Opened : s \in Shard /\ file[s] # <<>> /\ append[s] > 0
      BY <1>1, <1>3, OpenedShards DEF RecoveryInv, HeaderInv, Opened
    <3>2. \A s \in Opened' : file'[s] # <<>> /\ append'[s] > 0
      BY <1>1, <2>5, <3>1 DEF Opened
    <3>3. \A u \in Thread :
            /\ writer'[u].pc \in {"write", "writeRest"} => writer'[u].offset > 0
            /\ writer'[u].pc # "idle" => writer'[u].row \in Row
      BY <1>9, <2>1, <2>4 DEF RecoveryInv, HeaderInv
    <3>4. \A s \in Shard : file'[s] # <<>> => file'[s][1] = FileHeader
      BY <1>1 DEF RecoveryInv, HeaderInv
    <3> QED  BY <3>2, <3>3, <3>4 DEF HeaderInv
  <2>9. SequenceInv'
    <3>1. \A u \in Thread : writer'[u].seq < q + 1
      <4>1. \A u \in Thread : writer[u].seq < q /\ writer[u].seq \in Nat
        BY <2>3 DEF RecoveryInv, SequenceInv, WriterTyped
      <4> QED  BY <1>9, <2>1, <2>4, <4>1
    <3>2. index'.header /\ ~suspect' =>
            \A s \in Shard : s < index'.shards => Below(s, q)
      BY <1>1, <1>8, <2>2 DEF RecoveryInv, SequenceInv
    <3>3. \A s \in Shard : Below(s, q) => Below(s, index.nextSequence)'
      <4>1. SUFFICES ASSUME NEW s \in Shard, Below(s, q), NEW i \in DOMAIN file[s]
                     PROVE  file[s][i].seq < q + 1
        BY <1>1, <2>2 DEF Below
      <4>2. file[s][i].seq \in Nat  BY <4>1, CellsTyped DEF RecoveryInv, Typed
      <4> QED  BY <1>9, <4>1, <4>2 DEF Below
    <3>4. \A u \in Thread : writer'[u].seq < index'.nextSequence  BY <2>2, <3>1
    <3> HIDE DEF q
    <3> QED  BY <3>2, <3>3, <3>4, Zenon DEF SequenceInv
  <2> QED  BY <2>6, <2>7, <2>8, <2>9 DEF RecoveryInv
<1>11. CASE status' = "InvalidArgument" /\ UNCHANGED <<writer, index, append, used, drift>>
  <2>1. Typed'
    <3>1. WritersTyped' /\ IndexTyped'  BY <1>9, <1>11 DEF WritersTyped, IndexTyped
    <3>2. SessionTyped'  BY <1>1, <1>3, <1>5, <1>11 DEF SessionTyped, PcLabels
    <3>3. FlagsTyped'  BY <1>1, <1>11, Zenon DEF RecoveryInv, Typed, FlagsTyped
    <3> QED  BY <1>6, <3>1, <3>2, <3>3 DEF Typed
  <2>2. PlaceInv' /\ ScanInv'  BY <1>1, <1>11, SameIndex, ServingStep
  <2>3. HeaderInv'  BY <1>1, <1>11 DEF RecoveryInv, HeaderInv, Opened
  <2>4. SequenceInv'  BY <1>1, <1>8, <1>11 DEF RecoveryInv, SequenceInv, Below
  <2> QED  BY <2>1, <2>2, <2>3, <2>4 DEF RecoveryInv
<1> QED  BY <1>2, <1>10, <1>11

-----------------------------------------------------------------------------
(* The theorems.                                                           *)

LEMMA RecoveryInit == Init => RecoveryInv
<1> SUFFICES ASSUME Init PROVE RecoveryInv  OBVIOUS
<1>1. /\ file = [s \in Shard |-> <<>>] /\ index = NoIndex /\ pc = "closed"
      /\ opts \in Options /\ append = NoAppend /\ writer = [t \in Thread |-> Idle]
      /\ scan = NoScan /\ build = NoBuild /\ status = "OK" /\ calls = 0 /\ crashes = 0
      /\ used = {} /\ drift = FALSE /\ suspect = FALSE
  BY DEF Init
<1>2. <<>> \in Seq(CellType)  OBVIOUS
<1>3. \A s \in Shard : file[s] = <<>>  BY <1>1
<1>4. /\ index.header = FALSE /\ index.shards = 0 /\ index.items = 0
      /\ index.nextSequence = 1 /\ index.bucket = NoBuckets
  BY <1>1, IndexFields DEF NoIndex
<1>5. IndexTyped
  <2>1. NoBuckets \in [0 .. 0 - 1 -> BucketType]  BY NoBucketsTyped
  <2>2. /\ index.shards \in Nat /\ index.items \in Nat /\ index.nextSequence \in Positive
        /\ \E n \in Nat : index.bucket \in [0 .. n - 1 -> BucketType]
    BY <1>4, <2>1 DEF Positive
  <2>3. index.header \in BOOLEAN  BY <1>4
  <2>4. index = [header |-> index.header, shards |-> index.shards, items |-> index.items,
                 nextSequence |-> index.nextSequence, bucket |-> index.bucket]
    BY <1>1, <1>4 DEF NoIndex
  <2> QED  BY <2>2, <2>3, <2>4, Zenon DEF IndexTyped
<1>6. BuildTyped
  <2>1. build = [count |-> 0, copy |-> NoBuckets, nextSequence |-> 1, resume |-> "serving"]
    BY <1>1 DEF NoBuild
  <2>2. build.copy = NoBuckets  BY <2>1
  <2>3. build \in [count : Nat, copy : {build.copy}, nextSequence : Positive,
                   resume : {"serving", "scan", "insert"}]
    BY <2>1, <2>2 DEF Positive
  <2> QED  BY <2>2, <2>3, NoBucketsTyped DEF BuildTyped
<1>7. Typed
  <2>1. FilesTyped  BY <1>1, <1>2 DEF FilesTyped
  <2>2. ScanTyped  BY <1>1, NoScanTyped DEF ScanTyped
  <2>3. WritersTyped  BY <1>1, IdleTyped DEF WritersTyped
  <2>4. SessionTyped
    BY <1>1, RecoveryAssumption DEF SessionTyped, PcLabels, NoAppend
  <2>5. FlagsTyped  BY <1>1 DEF FlagsTyped
  <2> QED  BY <1>5, <1>6, <2>1, <2>2, <2>3, <2>4, <2>5 DEF Typed
<1>8. \A t \in Thread : writer[t].pc = "idle" /\ writer[t].seq = 0  BY <1>1, IdleTyped
<1>9. PlaceInv  BY <1>1, <1>8 DEF PlaceInv, InHand, Building
<1>10. HeaderInv  BY <1>1, <1>3, <1>8 DEF HeaderInv
<1>11. SequenceInv  BY <1>4, <1>8 DEF SequenceInv
<1>12. ScanInv  BY <1>1 DEF ScanInv, Rebuilding
<1> QED  BY <1>7, <1>9, <1>10, <1>11, <1>12 DEF RecoveryInv

LEMMA RecoveryStutters ==
  ASSUME RecoveryInv, UNCHANGED vars
  PROVE  RecoveryInv'
<1>1. UNCHANGED <<file, index, pc, opts, append, writer, scan, build, status, calls,
                  crashes, used, drift, suspect>>
  BY DEF vars, session, bounds, history
<1>2. Torn' = Torn /\ Opened' = Opened /\ Size' = Size /\ ScanValid' = ScanValid
      /\ Boundary' = Boundary /\ Scanned' = Scanned
  BY <1>1, SameScan
<1>3. Typed'
  <2>1. FilesTyped' /\ IndexTyped' /\ BuildTyped' /\ ScanTyped' /\ WritersTyped'
    BY <1>1 DEF RecoveryInv, Typed, FilesTyped, IndexTyped, BuildTyped, ScanTyped,
                WritersTyped, Opened
  <2>2. SessionTyped'  BY <1>1 DEF RecoveryInv, Typed, SessionTyped
  <2>3. FlagsTyped'  BY <1>1, Zenon DEF RecoveryInv, Typed, FlagsTyped
  <2> QED  BY <2>1, <2>2, <2>3 DEF Typed
<1>4. PlaceInv'  BY <1>1, <1>2 DEF RecoveryInv, PlaceInv, InHand, Building
<1>5. HeaderInv'  BY <1>1 DEF RecoveryInv, HeaderInv, Opened
<1>6. Rebuilding' = Rebuilding  BY <1>1 DEF Rebuilding
<1>7. SequenceInv'  BY <1>1, <1>6 DEF RecoveryInv, SequenceInv, Below
<1>8. ScanInv'  BY <1>1, <1>2, <1>6 DEF RecoveryInv, ScanInv
<1> QED  BY <1>3, <1>4, <1>5, <1>7, <1>8 DEF RecoveryInv

LEMMA RecoveryNext ==
  ASSUME RecoveryInv, [Next]_vars
  PROVE  RecoveryInv'
<1>1. CASE \E o \in Options : Open(o) \/ OpenReadOnly(o)
  BY <1>1, OpenStep, OpenReadOnlyStep
<1>2. CASE ClearIndex  BY <1>2, ClearIndexStep
<1>3. CASE CreateEmptyRowIndex  BY <1>3, CreateEmptyRowIndexStep
<1>4. CASE PlaceExistingRowBucket  BY <1>4, PlaceExistingRowBucketStep
<1>5. CASE IndexReady  BY <1>5, IndexReadyStep
<1>6. CASE ScanGrows  BY <1>6, ScanGrowsStep
<1>7. CASE ScanBlock  BY <1>7, ScanBlockStep
<1>8. CASE ScanFails  BY <1>8, ScanFailsStep
<1>9. CASE ScanShardEnds  BY <1>9, ScanShardEndsStep
<1>10. CASE \E t \in Thread : Write(t)
  <2>1. PICK t \in Thread : Write(t)  BY <1>10
  <2>2. CASE \E r \in Row : PutRowStructs(t, r)  BY <2>2, PutRowStructsStep
  <2>3. CASE WritePiece(t)  BY <2>3, WritePieceStep
  <2>4. CASE WriteBlock(t)  BY <2>4, WriteBlockStep
  <2>5. CASE WriteBlockFails(t)  BY <2>5, WriteBlockFailsStep
  <2>6. CASE ClaimBucket(t)  BY <2>6, ClaimBucketStep
  <2>7. CASE PublishBucket(t)  BY <2>7, PublishBucketStep
  <2>8. CASE FinishWrite(t)  BY <2>8, FinishWriteStep
  <2> QED  BY <2>1, <2>2, <2>3, <2>4, <2>5, <2>6, <2>7, <2>8 DEF Write
<1>11. CASE Close  BY <1>11, CloseStep
<1>12. CASE Crash  BY <1>12, CrashStep
<1>13. CASE DeleteIndex  BY <1>13, DeleteIndexStep
<1>14. CASE UNCHANGED vars  BY <1>14, RecoveryStutters
<1> QED
  BY <1>1, <1>2, <1>3, <1>4, <1>5, <1>6, <1>7, <1>8, <1>9, <1>10, <1>11, <1>12, <1>13,
     <1>14 DEF Next

\* The inductive invariant: types, the places of Open, the file headers, the
\* sequence numbers and the progress of the scan.
THEOREM RecoveryInvHolds == Spec => []RecoveryInv
<1>1. Init => RecoveryInv  BY RecoveryInit
<1>2. RecoveryInv /\ [Next]_vars => RecoveryInv'  BY RecoveryNext
<1> QED  BY <1>1, <1>2, PTL DEF Spec

\* The row files, the index and the session keep their types through every
\* crash, rebuild and change of options.
THEOREM RecoveryTypes == Spec => []TypeOK
<1>1. RecoveryInv => TypeOK
  <2> SUFFICES ASSUME RecoveryInv PROVE TypeOK  OBVIOUS
  <2>1. \A s \in Shard : \A i \in DOMAIN file[s] :
          file[s][i] \in [row : Row \cup {NoRow}, val : Nat, seq : Nat, at : 0 .. 2]
    BY CellsTyped DEF RecoveryInv, Typed, CellType
  <2>2. /\ index.shards \in Nat /\ index.items \in Nat /\ index.nextSequence \in Nat
    BY DEF RecoveryInv, Typed, IndexTyped, Positive
  <2>3. index.header \in BOOLEAN /\ drift \in BOOLEAN /\ suspect \in BOOLEAN
    BY Zenon DEF RecoveryInv, Typed, IndexTyped, FlagsTyped
  <2>4. \A b \in Buckets : index.bucket[b] \in
          [state : {Empty, Filled, Writing}, row : Row \cup {NoRow}, shard : Shard,
           offset : Nat, seq : Nat]
    <3>1. PICK m \in Nat : index.bucket \in [0 .. m - 1 -> BucketType]
      BY DEF RecoveryInv, Typed, IndexTyped
    <3>2. \A b \in Buckets : index.bucket[b] \in BucketType  BY <3>1 DEF Buckets
    <3> QED  BY <3>2 DEF BucketType
  <2>5. /\ pc \in PcLabels /\ opts \in Options /\ append \in [Shard -> Nat]
        /\ status \in {"OK", "IOError", "Corruption", "InvalidArgument"}
        /\ calls \in 0 .. MaxCalls /\ crashes \in 0 .. MaxCrashes /\ used \in SUBSET Nat
    BY DEF RecoveryInv, Typed, SessionTyped
  <2>6. \A t \in Thread : writer[t].row \in Row \cup {NoRow}
    BY DEF RecoveryInv, Typed, WritersTyped, WriterTyped
  <2>7. scan.shard \in Shard /\ scan.offset \in Nat /\ scan.nextSequence \in Nat
    BY <2>5, OpenedShards DEF RecoveryInv, Typed, ScanTyped, Opened, Positive
  <2> QED  BY <2>1, <2>2, <2>3, <2>4, <2>5, <2>6, <2>7 DEF TypeOK
<1> QED  BY <1>1, RecoveryInvHolds, PTL

\* No sequence number is given out twice: as long as the index does not come
\* from a rebuild that was cut or that met a torn file, the next one is above
\* those of all blocks in the open shards.
THEOREM SequencesStayAhead == Spec => []SequencesAhead
<1>1. RecoveryInv => SequencesAhead
  <2> SUFFICES ASSUME RecoveryInv, Serving, ~suspect, NEW s \in Opened,
                      NEW i \in DOMAIN file[s]
               PROVE  file[s][i].seq < index.nextSequence
    BY DEF SequencesAhead
  <2>1. pc \in {"readonly", "serving"}  BY DEF Serving
  <2>2. ~Rebuilding  BY <2>1 DEF Rebuilding
  <2>3. index.header /\ index.shards = opts.shards  BY <2>1 DEF RecoveryInv, PlaceInv
  <2>4. s \in Shard /\ s < opts.shards
    BY OpenedShards DEF RecoveryInv, Typed, SessionTyped, Opened
  <2>5. Below(s, index.nextSequence)
    BY <2>2, <2>3, <2>4 DEF RecoveryInv, SequenceInv
  <2> QED  BY <2>5 DEF Below
<1> QED  BY <1>1, RecoveryInvHolds, PTL

\* RebuildRowIndexFromValues returns Corruption only if a shard file has a
\* hole or a cut block: in whole files the scan always stands between two
\* blocks, where a whole block follows.
THEOREM OnlyTornFilesRejected == Spec => RebuildRejectsOnlyTorn
<1>1. RecoveryInv /\ [Next]_vars => (pc = "scan" /\ ~Torn => status' # "Corruption")
  <2> SUFFICES ASSUME RecoveryInv, [Next]_vars, pc = "scan", ~Torn
               PROVE  status' # "Corruption"
    OBVIOUS
  <2>1. status = "OK" /\ Rebuilding  BY ScanFacts
  <2>2. CASE ScanFails
    <3>1. Boundary  BY <2>1 DEF RecoveryInv, ScanInv
    <3>2. ScanValid  BY <2>2, <3>1, BlockAhead DEF ScanFails
    <3> QED  BY <2>2, <3>2 DEF ScanFails
  <2>3. CASE ScanGrows \/ ScanBlock \/ ScanShardEnds
    BY <2>1, <2>3 DEF ScanGrows, ScanBlock, ScanShardEnds
  <2>4. CASE Close \/ Crash \/ DeleteIndex
    BY <2>1, <2>4 DEF Close, Crash, DeleteIndex
  <2>5. CASE \E t \in Thread : Write(t)
    BY <2>5 DEF Write, PutRowStructs, WritePiece, WriteBlock, WriteBlockFails,
                ClaimBucket, PublishBucket, FinishWrite, At
  <2>6. CASE ClearIndex \/ CreateEmptyRowIndex \/ PlaceExistingRowBucket \/ IndexReady
    BY <2>6 DEF ClearIndex, CreateEmptyRowIndex, PlaceExistingRowBucket, IndexReady
  <2>7. CASE \E o \in Options : Open(o) \/ OpenReadOnly(o)
    BY <2>7 DEF Open, OpenReadOnly
  <2>8. CASE UNCHANGED vars  BY <2>1, <2>8 DEF vars
  <2> QED  BY <2>2, <2>3, <2>4, <2>5, <2>6, <2>7, <2>8 DEF Next
<1>2. RecoveryInv /\ [Next]_vars
        => [pc = "scan" /\ ~Torn => status' # "Corruption"]_vars
  BY <1>1
<1> QED  BY <1>2, RecoveryInvHolds, PTL DEF Spec, RebuildRejectsOnlyTorn
=============================================================================
