----------------------------- MODULE Lifecycle -----------------------------
(***************************************************************************)
(* Open, Flush and Close of LumoDB over all of its files                   *)
(* (src/src/lumodb/database.cpp, file.cpp): values.lumov, the row shard    *)
(* files, and the two memory-mapped indexes that name their records.       *)
(*                                                                         *)
(* ObjectStore and RowRecovery take a crash as the death of the process.   *)
(* Here the page cache is modelled: what the process writes reaches the    *)
(* disk when Flush syncs the file or when the kernel writes it back on its *)
(* own, and a loss of power takes the rest.  A data file is the number of  *)
(* its records, its header counted as the first, 0 if it does not exist;   *)
(* an index is the set of the records that it names.  Every write is of a  *)
(* new object or row.  An index that grows or is rebuilt is emptied in     *)
(* place and filled again bucket by bucket.                                *)
(***************************************************************************)
EXTENDS Integers, Sequences, SequencesExt

CONSTANTS
  ShardSeq,     \* the row shard files, in order
  MaxWrites,    \* bound: object and row writes
  MaxFails,     \* bound: process deaths, losses of power and failed calls
  Faults        \* which of open, sync, map, append, crash and power may happen

Shard == ToSet(ShardSeq)
Data  == {"values"} \cup Shard
Index == {"index", "rowIndex"}
File  == Data \cup Index
IndexOf(d) == IF d = "values" THEN "index" ELSE "rowIndex"

ASSUME LifecycleAssumption ==
  /\ ShardSeq \in Seq(Shard)
  /\ Shard \cap {"values", "index", "rowIndex", "idle", "open", "flush", "fill"} = {}
  /\ MaxWrites \in Nat /\ MaxFails \in Nat
  /\ Faults \subseteq {"open", "sync", "map", "append", "crash", "power"}

VARIABLES
  data, dataDisk,   \* data files, in the page cache and on disk
  damaged,          \* data files with a hole or with the beginning of a record
  idx, idxDisk,     \* index files, in the page cache and on disk
  torn,             \* index files that HasValid...Layout rejects, the missing ones too
  dirty,            \* index files that changed since they were synced ...
  rewritten,        \* ... and those that were emptied and filled again since
  open, readOnly,   \* open_, readOnly_
  mapped,           \* indexMap_.IsMapped()
  held,             \* the files that have a descriptor
  pc, step,         \* Open and Flush, step by step
  after,            \* what Flush returns to: its caller, Close, or Open
  args,             \* Open: read-only or not, and what is wrong with its arguments
  copy,             \* the buckets that a growth or a rebuild has yet to store
  status, writes, fails,
  \* History: the acknowledged records, those of them that a Flush through all
  \* files reported as done, the index files whose state on disk is the kernel's
  \* work and not that of Flush, and those whose filling was cut, or met a damaged
  \* data file, since they were last built from whole files.
  acked, flushed, kernel, cut

files   == <<data, dataDisk, damaged, idx, idxDisk, torn, dirty, rewritten>>
process == <<open, readOnly, mapped, held, pc, step, after, args, copy>>
history == <<acked, flushed, kernel, cut>>
vars == <<files, process, status, writes, fails, history>>

\* maxLoadFactor is looked at before readOnly_ is set, rowShardCount and the
\* directory after.
OpenArgs == [readOnly : BOOLEAN, wrong : {"nothing", "maxLoadFactor", "shardsOrDirectory"}]
NoArgs == [readOnly |-> FALSE, wrong |-> "nothing"]
Zero == [d \in Data |-> 0]

Init ==
  /\ data = Zero /\ dataDisk = Zero /\ damaged = {}
  /\ idx = [f \in Index |-> {}] /\ idxDisk = idx
  /\ torn = Index /\ dirty = {} /\ rewritten = {} /\ cut = {}
  /\ open = FALSE /\ readOnly = FALSE /\ mapped = FALSE /\ held = {}
  /\ pc = "idle" /\ step = 1 /\ after = "caller" /\ args = NoArgs
  /\ copy = {}
  /\ status = "OK" /\ writes = 0 /\ fails = 0
  /\ acked = {} /\ flushed = {} /\ kernel = {}

Fails == fails < MaxFails /\ fails' = fails + 1

-----------------------------------------------------------------------------
(* Open.                                                                   *)

CloseFiles == held' = {} /\ mapped' = FALSE

\* Mutant: a file that cannot be opened leaves the ones before it open.
Abandon_KeepsFiles == UNCHANGED <<held, mapped>>

\* A failed Open keeps nothing.
Abandon == CloseFiles

\* The arguments are looked at when the old database, which was read-only if
\* old, is already closed.
StartOpen(a, old) ==
  /\ step' = 1 /\ after' = "caller" /\ args' = NoArgs
  /\ readOnly' = IF a.wrong = "maxLoadFactor" THEN old ELSE a.readOnly
  /\ IF a.wrong = "nothing" THEN pc' = "open" /\ UNCHANGED status
     ELSE pc' = "idle" /\ status' \in {"InvalidArgument", "IOError"}

\* OpenInternal: a database that is open is closed first.
CallOpen ==
  /\ pc = "idle"
  /\ \E a \in OpenArgs :
       IF open
       THEN /\ pc' = "flush" /\ step' = 1 /\ after' = "open" /\ args' = a
            /\ UNCHANGED <<readOnly, status>>
       ELSE StartOpen(a, readOnly)
  /\ UNCHANGED <<files, open, mapped, held, copy, writes, fails, history>>

OpenOrder == <<"values", "index">> \o ShardSeq \o <<"rowIndex">>
Opening == OpenOrder[step]

AllOpened == step > Len(OpenOrder)

\* A file without which a read-only Open fails.
Unusable(f) == IF f \in Data THEN data[f] = 0 ELSE f \in torn

\* A new data file gets its header; a valid index is taken as it is.  A read-only
\* Open creates nothing.
OpenFile ==
  /\ pc = "open" /\ ~AllOpened
  /\ LET f == Opening IN
     /\ f \notin torn
     /\ readOnly => ~Unusable(f)
     /\ data' = IF Unusable(f) THEN [data EXCEPT ![f] = 1] ELSE data
     /\ held' = held \cup {f}
     /\ mapped' = (mapped \/ f = "index")
  /\ step' = step + 1
  /\ UNCHANGED <<dataDisk, damaged, idx, idxDisk, torn, dirty, rewritten, open, readOnly,
                 pc, after, args, copy, status, writes, fails, history>>

\* CreateEmpty...Index: the file gets a new size and is zeroed, and is no valid
\* index until the header is stored.
Empty(f) ==
  /\ pc' = "fill"
  /\ idx' = [idx EXCEPT ![f] = {}]
  /\ torn' = torn \cup {f} /\ dirty' = dirty \cup {f} /\ rewritten' = rewritten \cup {f}

\* Mutant: the scan of the data files stops before the last record.
Records_NotLast(f) ==
  UNION {{d} \X (2 .. data[d] - 1) : d \in {e \in Data : IndexOf(e) = f}}

\* What a rebuild finds in the data files of an index.
Records(f) == UNION {{d} \X (2 .. data[d]) : d \in {e \in Data : IndexOf(e) = f}}

\* A missing or invalid index is built from its data files.
StartRebuild ==
  /\ pc = "open" /\ ~AllOpened /\ ~readOnly
  /\ LET f == Opening IN
     /\ f \in torn
     /\ Empty(f)
     /\ copy' = Records(f)
     /\ held' = held \cup {f}
     /\ mapped' = (mapped \/ f = "index")
  /\ UNCHANGED <<data, dataDisk, damaged, idxDisk, open, readOnly, step, after, args,
                 status, writes, fails, history>>

\* The index that is being filled: that of the objects in a put, and the one
\* that Open has come to otherwise.
Filling == IF open THEN "index" ELSE Opening

StoreHeader ==
  /\ pc = "fill" /\ Filling \in torn
  /\ torn' = torn \ {Filling}
  /\ UNCHANGED <<data, dataDisk, damaged, idx, idxDisk, dirty, rewritten, process, status,
                 writes, fails, history>>

\* A bucket and its count.  A rebuild goes through the data files in order, a
\* growth through the old buckets; an index that grows in the middle of a
\* rebuild is again where the rebuild began.
PlaceBucket ==
  /\ pc = "fill" /\ Filling \notin torn
  /\ \E r \in copy :
       /\ idx' = [idx EXCEPT ![Filling] = @ \cup {r}]
       /\ copy' = copy \ {r}
  /\ UNCHANGED <<data, dataDisk, damaged, idxDisk, torn, dirty, rewritten, open, readOnly,
                 mapped, held, pc, step, after, args, status, writes, fails, history>>

\* A rebuild meets the damage: it takes the next records for a part of the one
\* that is cut, or stops.
Misled == ~open /\ \E d \in damaged : IndexOf(d) = Filling

\* The put goes on, or the next file of Open.
FillEnds ==
  /\ pc = "fill" /\ Filling \notin torn
  /\ copy # {} => Misled
  /\ IF open THEN pc' = "idle" /\ UNCHANGED <<step, cut>>
     ELSE /\ pc' = "open" /\ step' = step + 1
          /\ cut' = IF Misled THEN cut \cup {Filling} ELSE cut \ {Filling}
  /\ copy' = {}
  /\ UNCHANGED <<files, open, readOnly, mapped, held, after, args, status, writes, fails,
                 acked, flushed, kernel>>

\* The index whose filling does not come to its end.
CutNow == IF pc = "fill" THEN {Filling} ELSE {}

\* Something is missing, empty or invalid, or a call fails, in the middle of a
\* rebuild too.
OpenFails ==
  /\ \/ pc = "open" /\ ~AllOpened
     \/ pc = "fill" /\ ~open
  /\ \/ /\ "open" \in Faults /\ Fails
        /\ status' = "IOError"
     \/ /\ \/ pc = "open" /\ readOnly /\ Unusable(Opening)
           \/ pc = "fill" /\ Misled
        /\ status' \in {"IOError", "Corruption"}
        /\ UNCHANGED fails
  /\ Abandon
  /\ pc' = "idle" /\ step' = 1 /\ copy' = {}
  /\ cut' = cut \cup CutNow
  /\ UNCHANGED <<files, open, readOnly, after, args, writes, acked, flushed, kernel>>

OpenEnds ==
  /\ pc = "open" /\ AllOpened
  /\ open' = TRUE
  /\ pc' = "idle" /\ step' = 1
  /\ status' = "OK"
  /\ UNCHANGED <<files, readOnly, mapped, held, after, args, copy, writes, fails,
                 history>>

-----------------------------------------------------------------------------
(* Flush and Close.                                                        *)

CallFlush ==
  /\ pc = "idle"
  /\ pc' = "flush" /\ step' = 1 /\ after' = "caller"
  /\ UNCHANGED <<files, open, readOnly, mapped, held, args, copy, status, writes, fails,
                 history>>

\* Close does nothing if nothing is open.
CallClose ==
  /\ pc = "idle"
  /\ IF ~open /\ "values" \notin held /\ "index" \notin held
     THEN status' = "OK" /\ UNCHANGED <<pc, step, after>>
     ELSE pc' = "flush" /\ step' = 1 /\ after' = "close" /\ UNCHANGED status
  /\ UNCHANGED <<files, open, readOnly, mapped, held, args, copy, writes, fails, history>>

\* Mutant: the loop over the files starts where it stopped the last time.
Back_StaleStep(s) ==
  pc' = "idle" /\ after' = "caller" /\ args' = NoArgs /\ status' = s /\ UNCHANGED step

\* Flush returns s; Close and Open go on from there.
Back(s) == pc' = "idle" /\ step' = 1 /\ after' = "caller" /\ args' = NoArgs /\ status' = s
FlushReturns(s) ==
  /\ CASE after = "caller" -> Back(s) /\ UNCHANGED <<open, readOnly, mapped, held>>
       [] after = "close" -> Back(s) /\ open' = FALSE /\ readOnly' = FALSE /\ CloseFiles
       [] after = "open" -> /\ open' = FALSE /\ CloseFiles
                            /\ IF s = "OK" THEN StartOpen(args, FALSE)
                               ELSE Back(s) /\ readOnly' = FALSE
  /\ UNCHANGED <<copy, writes>>

Sync(f, m) == [file |-> f, map |-> m]
RowFiles == [i \in DOMAIN ShardSeq |-> Sync(ShardSeq[i], FALSE)]

\* Mutant: the row index is synced before the files that it names.
SyncOrder_IndexFirst ==
  <<Sync("rowIndex", TRUE), Sync("rowIndex", FALSE), Sync("values", FALSE)>>
    \o RowFiles \o <<Sync("index", TRUE), Sync("index", FALSE)>>

\* fsync of the data files, then msync and fsync of each index.
SyncOrder ==
  <<Sync("values", FALSE)>> \o RowFiles
    \o <<Sync("rowIndex", TRUE), Sync("rowIndex", FALSE),
         Sync("index", TRUE), Sync("index", FALSE)>>

\* Mutant: a read-only database is flushed like any other.
SkipFlush_Unmapped == ~mapped

\* Nothing to do for a read-only database; and nothing is done, not even for
\* the rows, when the object index lost its mapping.
SkipFlush == readOnly \/ ~mapped

FlushSkipped ==
  /\ pc = "flush" /\ step = 1
  /\ SkipFlush
  /\ FlushReturns("OK")
  /\ UNCHANGED <<files, fails, history>>

\* An index names a record that is not there.
Ahead(names, records) == \E r \in names : r[2] > records[r[1]]

Syncing == pc = "flush" /\ ~SkipFlush /\ step <= Len(SyncOrder)

\* A read-only mapping cannot be synced.
Unwritable(s) == s.map /\ readOnly

\* msync brings the pages of an index to the disk, fsync its size too.
SyncFile ==
  /\ Syncing
  /\ LET f == SyncOrder[step].file IN
     /\ ~Unwritable(SyncOrder[step])
     /\ IF f \in Data
        THEN /\ dataDisk' = [dataDisk EXCEPT ![f] = data[f]]
             /\ UNCHANGED <<idxDisk, dirty, rewritten, kernel>>
        ELSE /\ idxDisk' = [idxDisk EXCEPT ![f] = idx[f]]
             /\ rewritten' = rewritten \ {f}
             /\ dirty' = IF SyncOrder[step].map THEN dirty ELSE dirty \ {f}
             /\ kernel' = IF Ahead(idx[f], data) THEN kernel ELSE kernel \ {f}
             /\ UNCHANGED dataDisk
  /\ step' = step + 1
  /\ UNCHANGED <<data, damaged, idx, torn, open, readOnly, mapped, held, pc, after, args,
                 copy, status, writes, fails, acked, flushed, cut>>

\* fsync or msync returns an error, or the mapping is read-only: Flush stops
\* there.  The pages stay dirty.
SyncFails ==
  /\ Syncing
  /\ "sync" \in Faults \/ Unwritable(SyncOrder[step])
  /\ Fails
  /\ FlushReturns(IF Unwritable(SyncOrder[step]) THEN "InvalidArgument" ELSE "IOError")
  /\ UNCHANGED <<files, history>>

FlushEnds ==
  /\ pc = "flush" /\ step > Len(SyncOrder)
  /\ FlushReturns("OK")
  /\ flushed' = acked
  /\ UNCHANGED <<files, fails, acked, kernel, cut>>

-----------------------------------------------------------------------------
(* Writes, and what happens from outside.                                  *)

Writable == pc = "idle" /\ open /\ ~readOnly /\ writes < MaxWrites

\* EnsureCapacityForInsert, the first thing that a put does, finds the object
\* index too small: it is emptied and filled again in place.  The put that comes
\* after is AppendRecord, or it fails.
Grow ==
  /\ Writable /\ mapped
  /\ Empty("index")
  /\ copy' = idx["index"]
  /\ UNCHANGED <<data, dataDisk, damaged, idxDisk, open, readOnly, mapped, held, step,
                 after, args, status, writes, fails, history>>

\* CreateEmptyIndex cannot truncate or map the index that has to grow: the
\* write returns the error, the database stays open without the mapping.
GrowFails ==
  /\ Writable /\ mapped
  /\ "map" \in Faults /\ Fails
  /\ mapped' = FALSE
  /\ \E t \in SUBSET {"index"} : torn' = torn \cup t /\ dirty' = dirty \cup t
  /\ status' = "IOError"
  /\ UNCHANGED <<data, dataDisk, damaged, idx, idxDisk, rewritten, open, readOnly, held,
                 pc, step, after, args, copy, writes, history>>

Appendable(d) == Writable /\ (d = "values" => mapped)

\* WriteVAllAt fails after a part of the record.
AppendFails(d) ==
  /\ Appendable(d)
  /\ "append" \in Faults /\ Fails
  /\ damaged' = damaged \cup {d}
  /\ status' = "IOError"
  /\ UNCHANGED <<data, dataDisk, idx, idxDisk, torn, dirty, rewritten, process, writes,
                 history>>

\* A record is appended, ...
AppendRecord(d) ==
  /\ Appendable(d)
  /\ writes' = writes + 1
  /\ data' = [data EXCEPT ![d] = @ + 1]
  /\ pc' = d
  /\ UNCHANGED <<dataDisk, damaged, idx, idxDisk, torn, dirty, rewritten, open, readOnly,
                 mapped, held, step, after, args, copy, status, fails, history>>

\* ... then the index names it.
StoreBucket(d) ==
  /\ pc = d
  /\ LET r == <<d, data[d]>> IN
     /\ idx' = [idx EXCEPT ![IndexOf(d)] = @ \cup {r}]
     /\ acked' = acked \cup {r}
  /\ dirty' = dirty \cup {IndexOf(d)}
  /\ pc' = "idle"
  /\ status' = "OK"
  /\ UNCHANGED <<data, dataDisk, damaged, idxDisk, torn, rewritten, open, readOnly,
                 mapped, held, step, after, args, copy, writes, fails, flushed, kernel,
                 cut>>

Dies ==
  /\ open' = FALSE /\ readOnly' = FALSE /\ CloseFiles
  /\ Back(status)
  /\ copy' = {}
  /\ UNCHANGED writes

\* The index in which a bucket may be stored but not counted yet.
Touched == IF pc \in Data THEN {IndexOf(pc)} ELSE CutNow

\* The process dies, in the middle of an append perhaps: the page cache lives on.
Crash ==
  /\ "crash" \in Faults /\ Fails
  /\ Dies
  /\ \E t \in SUBSET Touched : torn' = torn \cup t /\ dirty' = dirty \cup t
  /\ \E h \in SUBSET {d \in Data : Appendable(d)} : damaged' = damaged \cup h
  /\ cut' = cut \cup CutNow
  /\ UNCHANGED <<data, dataDisk, idx, idxDisk, rewritten, acked, flushed, kernel>>

\* The kernel writes dirty pages back when it likes.  Where an index was filled
\* again, the page that a bucket had may go before the page that it has now.
WriteBack(f) ==
  /\ "power" \in Faults
  /\ IF f \in Data
     THEN /\ dataDisk[f] # data[f]
          /\ dataDisk' = [dataDisk EXCEPT ![f] = data[f]]
          /\ UNCHANGED <<idxDisk, kernel>>
     ELSE /\ \/ \E r \in idx[f] \ idxDisk[f] :
                  idxDisk' = [idxDisk EXCEPT ![f] = @ \cup {r}]
             \/ /\ f \in rewritten
                /\ \E r \in idxDisk[f] : idxDisk' = [idxDisk EXCEPT ![f] = @ \ {r}]
          /\ kernel' = kernel \cup {f}
          /\ UNCHANGED dataDisk
  /\ UNCHANGED <<data, damaged, idx, torn, dirty, rewritten, process, status, writes,
                 fails, acked, flushed, cut>>

\* The power goes: only what is on disk is left, a data file that was not synced
\* may have holes, and an index that was not synced is a mixture that Open may or
\* may not recognize.
PowerLoss ==
  /\ "power" \in Faults /\ Fails
  /\ data' = dataDisk /\ idx' = idxDisk
  /\ damaged' \in SUBSET (damaged \cup {d \in Data : dataDisk[d] # data[d]})
  /\ \E t \in SUBSET dirty : torn' = (torn \ dirty) \cup t
  /\ dirty' = {} /\ rewritten' = {}
  /\ Dies
  /\ acked' = flushed /\ cut' = cut \cup rewritten
  /\ UNCHANGED <<dataDisk, idxDisk, flushed, kernel>>

Next ==
  \/ CallOpen \/ OpenFile \/ StartRebuild \/ OpenFails \/ OpenEnds
  \/ StoreHeader \/ PlaceBucket \/ FillEnds
  \/ CallFlush \/ CallClose \/ FlushSkipped \/ SyncFile \/ SyncFails \/ FlushEnds
  \/ Grow \/ GrowFails
  \/ \E d \in Data : AppendRecord(d) \/ AppendFails(d) \/ StoreBucket(d)
  \/ Crash \/ PowerLoss
  \/ \E f \in File : WriteBack(f)

Spec == Init /\ [][Next]_vars

-----------------------------------------------------------------------------
\* The type of the program's variables.
TypeOK ==
  /\ data \in [Data -> Nat] /\ dataDisk \in [Data -> Nat] /\ damaged \in SUBSET Data
  /\ idx \in [Index -> SUBSET (Data \X Nat)] /\ idxDisk \in [Index -> SUBSET (Data \X Nat)]
  /\ torn \in SUBSET Index /\ dirty \in SUBSET Index /\ rewritten \in SUBSET Index
  /\ kernel \in SUBSET Index /\ cut \in SUBSET Index
  /\ open \in BOOLEAN /\ readOnly \in BOOLEAN /\ mapped \in BOOLEAN
  /\ held \in SUBSET File
  /\ pc \in {"idle", "open", "flush", "fill"} \cup Data
  /\ step \in 1 .. CASE pc = "flush" -> Len(SyncOrder) + 1
                     [] pc = "open" -> Len(OpenOrder) + 1
                     [] pc = "fill" -> Len(OpenOrder)
                     [] OTHER -> 1
  /\ after \in {"caller", "close", "open"} /\ args \in OpenArgs
  /\ copy \in SUBSET (Data \X Nat)
  /\ status \in {"OK", "IOError", "Corruption", "InvalidArgument"}
  /\ writes \in 0 .. MaxWrites /\ fails \in 0 .. MaxFails
  /\ acked \in SUBSET (Data \X Nat) /\ flushed \in SUBSET (Data \X Nat)

\* Between calls the database has either all of its files or none: a failed
\* Open, a failed Close and an Open that closes another database first leak
\* nothing and leave nothing half open.
AllFilesOrNone ==
  pc = "idle" => held = IF open THEN File ELSE {}

\* What was reported as done by a Flush or Close that went through all files is
\* in the data files on disk for good, and named by the index, through failed
\* syncs, retries, growth, reopens, process deaths and losses of power (one that
\* finds the object index unmapped answers OK, has synced nothing and does not
\* count).  An index fails to name it only while it is being filled, and after
\* its filling was cut (by the death of the process, by an Open that failed, or
\* by a loss of power before the next sync) or was a rebuild from a damaged data
\* file.
FlushedSurvives ==
  /\ \A r \in flushed : r[2] <= dataDisk[r[1]]
  /\ \A r \in flushed, f \in Index \ cut : IndexOf(r[1]) = f =>
       /\ f \notin CutNow => r \in idx[f]
       /\ f \notin rewritten => r \in idxDisk[f]

\* Flush never puts an index on disk that names a record which is not there:
\* on disk an index is ahead of its data files only where the kernel wrote it
\* back on its own, or where that was followed by a loss of power and the index
\* was taken into use.
AheadOnlyByKernel ==
  \A f \in Index : Ahead(idxDisk[f], dataDisk) => f \in kernel

\* A read-only session changes no file in the page cache, and closing it never
\* fails.
ReadOnlyHarmless ==
  [][(open \/ pc = "open") /\ readOnly =>
       /\ data' \in {data, dataDisk} /\ idx' \in {idx, idxDisk}
       /\ pc = "flush" /\ after = "close" => status' = status \/ status' = "OK"]_vars
=============================================================================
