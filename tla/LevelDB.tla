------------------------------- MODULE LevelDB -------------------------------
(***************************************************************************)
(* LevelDB's engine (leveldb/db/db_impl.cc) under the wallet's stores: writers     *)
(* queue their batches and the first of them writes for the others; a full     *)
(* memtable is handed to the background thread, which turns it into a table      *)
(* file and merges files into lower levels; readers hold the memtables and the   *)
(* version they started with; a crash loses what was not synced, and opening     *)
(* rebuilds the rest from the manifest and the logs.                             *)
(*                                                                           *)
(* A section that holds mutex_ is one action, and so is what runs between two    *)
(* of them.  A memtable is named by the number of its log file.  The manifest     *)
(* is what its records add up to: [version, log, next, seq].                     *)
(***************************************************************************)
EXTENDS Integers, FiniteSets, FiniteSetsExt, SequencesExt

-----------------------------------------------------------------------------
(* The versions of LevelDB (leveldb/db/version_set.cc): which table files make  *)
(* up the database at each level, how a key is looked up in them, and which     *)
(* files a compaction merges into which.                                        *)
(*                                                                           *)
(* An entry is [key, seq, del]; its value is told by its sequence number.  A    *)
(* file is [num, ents], ents the set of its entries, whose number stands for      *)
(* the file's size.  A version is a function from levels to sets of files; the   *)
(* order of the files of a level is that of their smallest keys.                 *)

CONSTANTS
    NumLevels,              \* config::kNumLevels
    MaxMemCompactLevel,     \* config::kMaxMemCompactLevel
    L0Trigger,              \* config::kL0_CompactionTrigger
    LevelBytes,             \* [1..(NumLevels - 1) -> Nat \ {0}]: MaxBytesForLevel
    FileBytes               \* options.max_file_size

Levels == 0..(NumLevels - 1)

\* The elements of S in the order of Before.
Sorted(S, Before(_, _)) ==
    [i \in 1..Cardinality(S) |-> CHOOSE x \in S : Cardinality({y \in S : Before(y, x)}) = i - 1]

\* InternalKeyComparator: by key, and of one key the newest first.
IBefore(a, b) == a.key < b.key \/ (a.key = b.key /\ a.seq > b.seq)

Smallest(f) == CHOOSE e \in f.ents : \A x \in f.ents : ~IBefore(x, e)
Largest(f) == CHOOSE e \in f.ents : \A x \in f.ents : ~IBefore(e, x)
BySmallest(F) ==
    Sorted(F, LAMBDA f, g : \/ IBefore(Smallest(f), Smallest(g))
                            \/ (Smallest(f) = Smallest(g) /\ f.num < g.num))
TotalFileSize(F) == MapThenSumSet(LAMBDA f : Cardinality(f.ents), F)

NoFiles == [l \in Levels |-> {}]
FilesOf(v) == UNION {v[l] : l \in Levels}

-----------------------------------------------------------------------------
\* Whether f meets the range of user keys lo..hi.
Meets(f, lo, hi) == Largest(f).key >= lo /\ Smallest(f).key <= hi

OverlapInLevel(v, level, lo, hi) == \E f \in v[level] : Meets(f, lo, hi)

\* At level 0 a file that is met may widen the range.
RECURSIVE GetOverlappingInputs(_, _, _, _)
WidenInputs(v, level, lo, hi, met) ==
    IF level > 0 \/ \A f \in met : Smallest(f).key >= lo /\ Largest(f).key <= hi THEN met
    ELSE GetOverlappingInputs(v, level, Min({lo} \cup {Smallest(f).key : f \in met}),
                                        Max({hi} \cup {Largest(f).key : f \in met}))
GetOverlappingInputs(v, level, lo, hi) ==
    WidenInputs(v, level, lo, hi, {f \in v[level] : Meets(f, lo, hi)})

\* GetRange: the keys that bound a set of files.
RangeLo(F) == Min({Smallest(f).key : f \in F})
RangeHi(F) == Max({Largest(f).key : f \in F})
InputsOver(v, level, F) == GetOverlappingInputs(v, level, RangeLo(F), RangeHi(F))
LargestOf(F) == CHOOSE e \in {Largest(f) : f \in F} : \A f \in F : ~IBefore(e, Largest(f))

\* PickLevelForMemTableOutput: the deepest level up to MaxMemCompactLevel that is reached
\* without meeting a file, or much data two levels on.
PickLevelForMemTableOutput(v, lo, hi) ==
    LET free(l) == /\ ~OverlapInLevel(v, l, lo, hi)
                   /\ l + 1 < NumLevels =>
                        TotalFileSize(GetOverlappingInputs(v, l + 1, lo, hi)) <= 10 * FileBytes
    IN IF OverlapInLevel(v, 0, lo, hi) THEN 0
       ELSE Max({l \in 0..MaxMemCompactLevel : \A m \in 1..l : free(m)})

-----------------------------------------------------------------------------
\* Version::Get: at level 0 the files that may hold the key, newest first; at each other
\* level the first file whose largest key is not before the one looked for.
FindFile(v, level, e) ==
    LET after == SelectSeq(BySmallest(v[level]), LAMBDA f : ~IBefore(Largest(f), e))
    IN IF after = <<>> THEN <<>>
       ELSE IF Smallest(after[1]).key > e.key THEN <<>> ELSE <<after[1]>>

FilesToSearch(v, k, s) ==
    Sorted({f \in v[0] : Meets(f, k, k)}, LAMBDA f, g : f.num > g.num)
        \o FlattenSeq([l \in 1..(NumLevels - 1) |-> FindFile(v, l, [key |-> k, seq |-> s])])

\* What a sorted run of entries has for key k at sequence number s: nothing, or one entry.
Find(ents, k, s) ==
    LET seen == {e \in ents : e.key = k /\ e.seq <= s}
    IN IF seen = {} THEN <<>> ELSE <<CHOOSE e \in seen : \A x \in seen : x.seq <= e.seq>>

VersionGet(v, k, s) ==
    LET hits == SelectSeq(FilesToSearch(v, k, s), LAMBDA f : Find(f.ents, k, s) # <<>>)
    IN IF hits = <<>> THEN <<>> ELSE Find(hits[1].ents, k, s)

\* The file Version::Get charges for a seek, with its level: the first of several it read.
SeekFile(v, k, s) ==
    LET files == FilesToSearch(v, k, s)
    IN IF Len(files) < 2 \/ Find(files[1].ents, k, s) # <<>> THEN <<>>
       ELSE <<[file |-> files[1], level |-> CHOOSE l \in Levels : files[1] \in v[l]]>>

-----------------------------------------------------------------------------
\* VersionSet::Finalize: the level with the highest score, the first of several, and
\* whether the score is 1 at least.
ScoreSize(v, l) == IF l = 0 THEN Cardinality(v[0]) ELSE TotalFileSize(v[l])
ScoreLimit(l) == IF l = 0 THEN L0Trigger ELSE LevelBytes[l]

CompactionLevel(v) ==
    LET above(l, m) == ScoreSize(v, l) * ScoreLimit(m) > ScoreSize(v, m) * ScoreLimit(l)
    IN CHOOSE l \in 0..(NumLevels - 2) :
         \A m \in 0..(NumLevels - 2) : ~above(m, l) /\ (m < l => above(l, m))

SizeCompaction(v) == ScoreSize(v, CompactionLevel(v)) >= ScoreLimit(CompactionLevel(v))

NeedsCompaction(v, seek) == SizeCompaction(v) \/ seek # <<>>

\* SetupOtherInputs: the files of the next level that are met; then more files of this one,
\* if that does not bring more of the next with it; the files of the level after those.
MakeCompaction(v, level, in0, in1) ==
    [level |-> level, in0 |-> in0, in1 |-> in1, version |-> v, pointer |-> LargestOf(in0),
     grand |-> IF level + 2 < NumLevels THEN InputsOver(v, level + 2, in0 \cup in1) ELSE {}]

GrowInputs(v, level, in0, in1, wide0) ==
    IF /\ in1 # {} /\ Cardinality(wide0) > Cardinality(in0)
       /\ TotalFileSize(in1) + TotalFileSize(wide0) < 25 * FileBytes
       /\ Cardinality(InputsOver(v, level + 1, wide0)) = Cardinality(in1)
    THEN MakeCompaction(v, level, wide0, InputsOver(v, level + 1, wide0))
    ELSE MakeCompaction(v, level, in0, in1)

AddNextLevel(v, level, in0, in1) == GrowInputs(v, level, in0, in1, InputsOver(v, level, in0 \cup in1))
SetupOtherInputs(v, level, in0) == AddNextLevel(v, level, in0, InputsOver(v, level + 1, in0))

\* PickCompaction, or none.  ptr[l] is where the last compaction of level l ended.
FirstAfter(sorted, ptr) ==
    LET after == SelectSeq(sorted, LAMBDA f : ptr = <<>> \/ IBefore(ptr[1], Largest(f)))
    IN IF after = <<>> THEN sorted[1] ELSE after[1]

CompactFile(v, level, file) ==
    <<SetupOtherInputs(v, level, IF level > 0 THEN {file} ELSE InputsOver(v, 0, {file}))>>

PickOfLevel(v, level, ptr) == CompactFile(v, level, FirstAfter(BySmallest(v[level]), ptr[level]))

PickCompaction(v, ptr, seek) ==
    IF SizeCompaction(v) THEN PickOfLevel(v, CompactionLevel(v), ptr)
    ELSE IF seek # <<>> THEN CompactFile(v, seek[1].level, seek[1].file) ELSE <<>>

IsTrivialMove(c) ==
    Cardinality(c.in0) = 1 /\ c.in1 = {} /\ TotalFileSize(c.grand) <= 10 * FileBytes

\* IsBaseLevelForKey: no file of the levels beyond can have the key.
IsBaseLevelForKey(c, k) == \A l \in (c.level + 2)..(NumLevels - 1) : ~OverlapInLevel(c.version, l, k, k)

-----------------------------------------------------------------------------
\* The entries DoCompactionWork leaves out: those hidden from every snapshot by a newer one,
\* and deletions with nothing left to hide.
Drops(c, all, snap, e) ==
    \/ \E x \in all : x.key = e.key /\ x.seq > e.seq /\ x.seq <= snap
    \/ e.del /\ e.seq <= snap /\ IsBaseLevelForKey(c, e.key)

\* The output files of a compaction: a file is closed once it is large enough, or before a
\* key that is past too much data of the level after next (ShouldStopBefore).
CloseOutput(acc) == IF acc.cur = {} THEN acc ELSE [acc EXCEPT !.done = Append(@, acc.cur), !.cur = {}]
CloseIfFull(acc) == IF Cardinality(acc.cur) >= FileBytes THEN CloseOutput(acc) ELSE acc
CloseIfPast(acc) == IF acc.bytes > 10 * FileBytes THEN [CloseOutput(acc) EXCEPT !.bytes = 0] ELSE acc

PassGrandparents(acc, passed) ==
    [acc EXCEPT !.bytes = @ + IF acc.seen THEN TotalFileSize(passed \ acc.passed) ELSE 0,
                !.passed = passed, !.seen = TRUE]

AddOutput(acc, e, drop) == IF drop THEN acc ELSE CloseIfFull([acc EXCEPT !.cur = @ \cup {e}])

OutputsOf(c, snap, all) ==
    CloseOutput(FoldLeft(LAMBDA acc, e : AddOutput(CloseIfPast(PassGrandparents(acc, {g \in c.grand : IBefore(Largest(g), e)})),
                                                   e, Drops(c, all, snap, e)),
                         [done |-> <<>>, cur |-> {}, passed |-> {}, bytes |-> 0, seen |-> FALSE],
                         Sorted(all, IBefore))).done

Outputs(c, snap) == OutputsOf(c, snap, UNION {f.ents : f \in c.in0 \cup c.in1})

\* Builder::Apply and SaveTo: files taken away from their level, files added to one.
Apply(v, dels, adds) == [l \in Levels |-> {f \in v[l] : <<l, f.num>> \notin dels}
                                          \cup {a[2] : a \in {x \in adds : x[1] = l}}]

InputDeletions(c) == {<<c.level, f.num>> : f \in c.in0} \cup {<<c.level + 1, f.num>> : f \in c.in1}

-----------------------------------------------------------------------------
CONSTANTS
    Threads, Readers,
    Keys,               \* the keys, natural numbers
    WriteBuffer,        \* options.write_buffer_size, in entries
    GroupBytes,         \* BuildBatchGroup's max_size, in entries
    SlowdownTrigger, StopTrigger,   \* config::kL0_SlowdownWritesTrigger, kL0_StopWritesTrigger
    Scenarios           \* the settings explored: records of what is written and of bounds

VARIABLES
    life,       \* "down", "opening", "up" or "closing"
    disk,       \* [tables, logs, manifest, appended]: what the file system holds
    opening,    \* the state Open has recovered and not yet committed
    vs,         \* versions_: [version, log, next, seq, pointer, seek]
    mems,       \* the memtables that are referenced: log number -> entries
    mem, imm,   \* mem_ and imm_, 0 when null
    writers,    \* writers_: the threads waiting to write
    wr,         \* each thread's call of Write
    rd,         \* each reader's call of Get, or its iterator
    snapshots,  \* snapshots_
    pending,    \* pending_outputs_
    bgError,    \* bg_error_
    bg,         \* the background thread: [pc, work, edit, outs]
    hist,       \* the operations by sequence number
    applied,    \* those of the writes that succeeded
    synced,     \* those of the writes that were synced and succeeded
    count,      \* what the bounds count
    scen        \* the scenario: [threads, batches, syncs, writes, reads, snapshots, stops, faults, from],
                \* batches sequences of [key, del], from the writes before anything is disturbed

memory == <<vs, mems, mem, imm, writers, wr, rd, snapshots, pending, bgError, bg>>
ghosts == <<hist, applied, synced>>
vars == <<life, disk, opening, memory, ghosts, count, scen>>

Running == life \in {"up", "closing"}
Disturbed == count.writes >= scen.from

IdleWriter == [pc |-> "idle"]
IdleReader == [pc |-> "idle"]
IdleBackground == [pc |-> "idle", work |-> <<>>, edit |-> <<>>, outs |-> {}]

\* The entries that a batch puts into a memtable.
EntriesOf(base, ops) == {[key |-> ops[i].key, seq |-> base + i - 1, del |-> ops[i].del] : i \in 1..Len(ops)}

Fault == Disturbed /\ count.faults < scen.faults /\ count' = [count EXCEPT !.faults = @ + 1]

-----------------------------------------------------------------------------
\* Reading.

\* What key k is at sequence number s: its newest entry in mem, in imm or in the version.
Lookup(tables, v, k, s) ==
    LET hits == SelectSeq(tables, LAMBDA t : Find(t, k, s) # <<>>)
    IN IF hits # <<>> THEN Find(hits[1], k, s) ELSE VersionGet(v, k, s)

\* The sequence number of the value that is read, 0 for not found.
Value(found) == IF found = <<>> THEN 0 ELSE IF found[1].del THEN 0 ELSE found[1].seq

\* What it ought to be, by the operations of ops up to s.
Truth(ops, k, s) ==
    LET of == {n \in ops : n <= s /\ n <= Len(hist) /\ hist[n].key = k}
    IN IF of = {} THEN 0 ELSE IF hist[Max(of)].del THEN 0 ELSE Max(of)

MemIds == <<mem>> \o IF imm = 0 THEN <<>> ELSE <<imm>>
LiveMems(ms, ids, readers) ==
    LET used == (ids \cup UNION {Range(readers[r].mems) : r \in {x \in Readers : readers[x].pc # "idle"}})
    IN [i \in used \cap DOMAIN ms |-> ms[i]]

SmallestSnapshot == IF snapshots = <<>> THEN vs.seq ELSE snapshots[1]

\* MaybeScheduleCompaction.
Schedule(b, err, i, x) ==
    IF b.pc = "idle" /\ life # "closing" /\ ~err /\ (i # 0 \/ NeedsCompaction(x.version, x.seek))
    THEN [b EXCEPT !.pc = "scheduled"] ELSE b

\* Get and NewInternalIterator: the memtables and the version are taken, and referenced,
\* under the mutex; s is the last sequence number or a snapshot's.
ReadStart(r, s) ==
    /\ life = "up" /\ rd[r].pc = "idle" /\ Disturbed /\ count.reads < scen.reads
    /\ rd' = [rd EXCEPT ![r] = [pc |-> "reading", mems |-> MemIds, version |-> vs.version, snap |-> s,
                                 expect |-> [k \in Keys |-> Truth(applied, k, s)]]]
    /\ count' = [count EXCEPT !.reads = @ + 1]
    /\ UNCHANGED <<scen, life, disk, opening, vs, mems, mem, imm, writers, wr, snapshots, pending, bgError, bg, ghosts>>

\* The read ends.  A Get that went to a second file charges the first for a seek; once that
\* file has had its share it is marked for compaction (UpdateStats).
ReadEnd(r, k) ==
    LET x == rd[r]
        seek == IF \E i \in 1..Len(x.mems) : Find(mems[x.mems[i]], k, x.snap) # <<>> THEN <<>>
                ELSE SeekFile(x.version, k, x.snap)
        readers == [rd EXCEPT ![r] = IdleReader]
    IN /\ x.pc = "reading"
       /\ rd' = readers
       /\ mems' = LiveMems(mems, {mem, imm}, readers)
       /\ \E due \in BOOLEAN :
            /\ due => seek # <<>> /\ vs.seek = <<>> /\ x.version = vs.version
            /\ vs' = IF due THEN [vs EXCEPT !.seek = seek] ELSE vs
            /\ bg' = IF due THEN Schedule(bg, bgError, imm, vs') ELSE bg
       /\ UNCHANGED <<scen, life, disk, opening, mem, imm, writers, wr, snapshots, pending, bgError, ghosts, count>>

GetSnapshot ==
    /\ life = "up" /\ Disturbed /\ count.snapshots < scen.snapshots
    /\ snapshots' = Append(snapshots, vs.seq)
    /\ count' = [count EXCEPT !.snapshots = @ + 1]
    /\ UNCHANGED <<scen, life, disk, opening, vs, mems, mem, imm, writers, wr, rd, pending, bgError, bg, ghosts>>

ReleaseSnapshot(i) ==
    /\ Running /\ i \in 1..Len(snapshots)
    /\ snapshots' = RemoveAt(snapshots, i)
    /\ UNCHANGED <<scen, life, disk, opening, vs, mems, mem, imm, writers, wr, rd, pending, bgError, bg, ghosts, count>>

-----------------------------------------------------------------------------
\* Writing.

Return(threads) == [t \in Threads |-> IF t \in threads THEN IdleWriter ELSE wr[t]]

\* DBImpl::Write joins the queue.
WriteEnqueue(t, b, s) ==
    /\ life = "up" /\ wr[t].pc = "idle" /\ t \in scen.threads /\ count.writes < scen.writes
    /\ writers' = Append(writers, t)
    /\ wr' = [wr EXCEPT ![t] = [pc |-> "queued", batch |-> b, sync |-> s, delay |-> TRUE]]
    /\ count' = [count EXCEPT !.writes = @ + 1]
    /\ UNCHANGED <<scen, life, disk, opening, vs, mems, mem, imm, rd, snapshots, pending, bgError, bg, ghosts>>

AtFront(t) == Running /\ wr[t].pc = "queued" /\ writers[1] = t
Level0Files == Cardinality(vs.version[0])
HasRoom == Cardinality(mems[mem]) <= WriteBuffer

\* MakeRoomForWrite: the previous background error is returned; or the new log file cannot be
\* created.
MakeRoomFails(t) ==
    /\ AtFront(t)
    /\ \/ bgError /\ UNCHANGED count
       \/ ~bgError /\ ~HasRoom /\ imm = 0 /\ Level0Files < StopTrigger /\ Fault
    /\ writers' = Tail(writers)
    /\ wr' = Return({t})
    /\ UNCHANGED <<scen, life, disk, opening, vs, mems, mem, imm, rd, snapshots, pending, bgError, bg, ghosts>>

\* One write is delayed once when level 0 is filling up.
MakeRoomDelay(t) ==
    /\ AtFront(t) /\ ~bgError /\ wr[t].delay /\ Level0Files >= SlowdownTrigger
    /\ wr' = [wr EXCEPT ![t].delay = FALSE]
    /\ UNCHANGED <<scen, life, disk, opening, vs, mems, mem, imm, writers, rd, snapshots, pending, bgError, bg, ghosts, count>>

\* Slip: a write that asks for a sync may ride with one that does not.
BuildBatchGroupMixed(t) ==
    LET Fits(n) == /\ \A i \in 1..n : wr[writers[i]].pc = "queued"
                   /\ n > 1 => FoldLeft(LAMBDA a, b : a + b, 0, [i \in 1..n |-> Len(wr[writers[i]].batch)]) <= GroupBytes
    IN Max({n \in 1..Len(writers) : \A m \in 1..n : Fits(m)})

\* BuildBatchGroup: how many of the writers the first one writes for.
BuildBatchGroup(t) ==
    LET Fits(n) == /\ \A i \in 1..n : wr[writers[i]].sync => wr[t].sync
                   /\ n > 1 => FoldLeft(LAMBDA a, b : a + b, 0, [i \in 1..n |-> Len(wr[writers[i]].batch)]) <= GroupBytes
    IN Max({n \in 1..Len(writers) : \A m \in 1..n : Fits(m)})

\* The rest of MakeRoomForWrite, with room or with a new memtable and log, and the choice of
\* the group: the mutex is not released in between.
WriteStart(t) ==
    LET n == BuildBatchGroup(t)
        ops == FlattenSeq([i \in 1..n |-> wr[writers[i]].batch])
        log == IF HasRoom THEN mem ELSE vs.next
    IN /\ AtFront(t) /\ ~bgError
       /\ wr[t].delay => Level0Files < SlowdownTrigger
       /\ HasRoom \/ (imm = 0 /\ Level0Files < StopTrigger)
       /\ mem' = log
       /\ imm' = IF HasRoom THEN imm ELSE mem
       /\ mems' = IF HasRoom THEN mems ELSE log :> {} @@ mems
       /\ disk' = IF HasRoom THEN disk ELSE [disk EXCEPT !.logs = log :> [recs |-> <<>>, synced |-> 0] @@ @]
       /\ vs' = IF HasRoom THEN vs ELSE [vs EXCEPT !.next = @ + 1]
       /\ bg' = Schedule(bg, bgError, imm', vs')
       /\ wr' = [wr EXCEPT ![t] = [pc |-> "log", sync |-> @.sync, n |-> n, ops |-> ops, base |-> vs.seq + 1, ok |-> FALSE]]
       /\ hist' = hist \o [i \in 1..Len(ops) |-> ops[i] @@ [end |-> i = Len(ops)]]
       /\ UNCHANGED <<scen, life, opening, writers, rd, snapshots, pending, bgError, applied, synced, count>>

\* AddRecord: the record is in the log, or the call failed and the record may still be there.
WriteLog(t) ==
    LET rec == [base |-> wr[t].base, ops |-> wr[t].ops]
        with == [disk EXCEPT !.logs[mem].recs = Append(@, rec)]
    IN /\ Running /\ wr[t].pc = "log"
       /\ \/ disk' = with /\ wr' = [wr EXCEPT ![t].pc = IF wr[t].sync THEN "sync" ELSE "insert"] /\ UNCHANGED count
          \/ disk' \in {disk, with} /\ wr' = [wr EXCEPT ![t].pc = "finish"] /\ Fault
       /\ UNCHANGED <<scen, life, opening, vs, mems, mem, imm, writers, rd, snapshots, pending, bgError, bg, ghosts>>

\* Sync of the log; a failure is remembered for the rest of the call.
WriteSync(t) ==
    /\ Running /\ wr[t].pc = "sync"
    /\ \/ /\ disk' = [disk EXCEPT !.logs[mem].synced = Len(disk.logs[mem].recs)]
          /\ wr' = [wr EXCEPT ![t].pc = "insert"] /\ UNCHANGED count
       \/ UNCHANGED disk /\ wr' = [wr EXCEPT ![t].pc = "syncerror"] /\ Fault
    /\ UNCHANGED <<scen, life, opening, vs, mems, mem, imm, writers, rd, snapshots, pending, bgError, bg, ghosts>>

\* InsertInto the memtable, which readers are using.
WriteInsert(t) ==
    /\ Running /\ wr[t].pc = "insert"
    /\ mems' = [mems EXCEPT ![mem] = @ \cup EntriesOf(wr[t].base, wr[t].ops)]
    /\ wr' = [wr EXCEPT ![t].pc = "finish", ![t].ok = TRUE]
    /\ UNCHANGED <<scen, life, disk, opening, vs, mem, imm, writers, rd, snapshots, pending, bgError, bg, ghosts, count>>

\* Back under the mutex: the last sequence number moves on whatever happened, and the
\* writers of the group return.
WriteFinish(t) ==
    LET w == wr[t]
        last == w.base + Len(w.ops) - 1
        group == {writers[i] : i \in 1..w.n}
    IN /\ Running /\ w.pc \in {"finish", "syncerror"}
       /\ bgError' = (bgError \/ w.pc = "syncerror")
       /\ vs' = [vs EXCEPT !.seq = last]
       /\ writers' = SubSeq(writers, w.n + 1, Len(writers))
       /\ wr' = Return(group)
       /\ applied' = IF w.ok THEN applied \cup w.base..last ELSE applied
       /\ synced' = IF w.ok /\ \E u \in group : wr[u].sync THEN synced \cup w.base..last ELSE synced
       /\ UNCHANGED <<scen, life, disk, opening, mems, mem, imm, rd, snapshots, pending, bg, hist, count>>

-----------------------------------------------------------------------------
\* The background thread.

HeldVersions(b) == {vs.version} \cup {rd[r].version : r \in {x \in Readers : rd[x].pc # "idle"}}
                     \cup {b.work[i].version : i \in 1..Len(b.work)}

\* The tables that must stay: the outputs in progress and the files of every version in use.
LiveFiles(b, x, p) == p \cup {f.num : f \in UNION {FilesOf(v) : v \in HeldVersions(b) \cup {x.version}}}

\* DeleteObsoleteFiles, once x is the state of versions_.
DeleteObsoleteFiles(d, b, x, p) ==
    IF bgError THEN d
    ELSE [d EXCEPT !.tables = @ \cap LiveFiles(b, x, p),
                   !.logs = [n \in {m \in DOMAIN d.logs : m >= x.log} |-> d.logs[n]]]

\* Slip: nobody looks whether there is more to do.
BackgroundEndOnly(err, i, x) == IdleBackground

\* BackgroundCall is over; another round may be needed.
BackgroundEnd(err, i, x) == Schedule(IdleBackground, err, i, x)

\* CompactMemTable up to BuildTable: at the start of BackgroundCompaction or from within
\* DoCompactionWork.
CompactMemTable ==
    /\ Running /\ imm # 0
    /\ life = "up" /\ (bg.pc = "work" \/ (bg.pc = "scheduled" /\ ~bgError))
    /\ bg' = [bg EXCEPT !.pc = "build",
                        !.edit = <<[num |-> vs.next, base |-> vs.version]>>]
    /\ pending' = pending \cup {vs.next}
    /\ vs' = [vs EXCEPT !.next = @ + 1]
    /\ UNCHANGED <<scen, life, disk, opening, mems, mem, imm, writers, wr, rd, snapshots, bgError, ghosts, count>>

\* Where the background thread is after a compaction of the memtable that failed.
AfterMemError(b) == IF b.work # <<>> THEN [b EXCEPT !.pc = "work", !.edit = <<>>] ELSE BackgroundEnd(TRUE, imm, vs)

\* WriteLevel0Table: the table is built and synced, and the level chosen by the version
\* CompactMemTable started from.
BuildTable ==
    LET e == bg.edit[1]
        file == [num |-> e.num, ents |-> mems[imm]]
        level == PickLevelForMemTableOutput(e.base, Smallest(file).key, Largest(file).key)
    IN /\ Running /\ bg.pc = "build"
       /\ pending' = pending \ {e.num}
       /\ \/ /\ life = "up"
             /\ disk' = [disk EXCEPT !.tables = @ \cup {e.num}]
             /\ bg' = [bg EXCEPT !.pc = "append",
                                 !.edit = <<[dels |-> {}, adds |-> {<<level, file>>}, log |-> mem, kind |-> "mem"]>>]
             /\ UNCHANGED <<bgError, count>>
          \/ /\ \/ life = "closing" /\ disk' = [disk EXCEPT !.tables = @ \cup {e.num}] /\ UNCHANGED count
                \/ Fault /\ UNCHANGED disk
             /\ bgError' = TRUE
             /\ bg' = AfterMemError(bg)
       /\ UNCHANGED <<scen, life, opening, vs, mems, mem, imm, writers, wr, rd, snapshots, ghosts>>

\* BackgroundCompaction: what to do next, with no memtable waiting.
MoveFile(c, f) == [dels |-> {<<c.level, f.num>>}, adds |-> {<<c.level + 1, f>>}, log |-> vs.log, kind |-> "move"]

StartCompaction(c) ==
    /\ vs' = [vs EXCEPT !.pointer[c.level] = <<c.pointer>>]
    /\ bg' = IF IsTrivialMove(c)
             THEN [bg EXCEPT !.pc = "append", !.edit = <<MoveFile(c, CHOOSE x \in c.in0 : TRUE)>>]
             ELSE [bg EXCEPT !.pc = "work", !.work = <<[snap |-> SmallestSnapshot, c |-> c, version |-> vs.version]>>]

PickWork ==
    /\ Running /\ bg.pc = "scheduled"
    /\ \E c \in {PickCompaction(vs.version, vs.pointer, vs.seek)} :
         \/ /\ bgError \/ life = "closing" \/ (imm = 0 /\ c = <<>>)
            /\ bg' = BackgroundEnd(bgError, imm, vs) /\ UNCHANGED vs
         \/ /\ ~bgError /\ life = "up" /\ imm = 0 /\ c # <<>>
            /\ StartCompaction(c[1])
    /\ UNCHANGED <<scen, life, disk, opening, mems, mem, imm, writers, wr, rd, snapshots, pending, bgError, ghosts, count>>

\* DoCompactionWork: the output files; it gives up when the database is being closed.
OutputFiles(outs) == {[num |-> vs.next + i - 1, ents |-> outs[i]] : i \in 1..Len(outs)}

CompactionWork ==
    /\ Running /\ bg.pc = "work"
    /\ \E files \in {OutputFiles(Outputs(bg.work[1].c, bg.work[1].snap))} :
       \E nums \in {{f.num : f \in files}} :
         /\ \/ /\ life = "up"
               /\ bg' = [bg EXCEPT !.pc = "append", !.outs = nums,
                                   !.edit = <<[dels |-> InputDeletions(bg.work[1].c), log |-> vs.log, kind |-> "merge",
                                               adds |-> {<<bg.work[1].c.level + 1, f>> : f \in files}]>>]
               /\ pending' = pending \cup nums
               /\ UNCHANGED <<bgError, count>>
            \/ /\ (life = "closing" /\ UNCHANGED count) \/ Fault
               /\ bgError' = TRUE
               /\ bg' = BackgroundEnd(TRUE, imm, vs)
               /\ UNCHANGED pending
         /\ disk' = [disk EXCEPT !.tables = @ \cup nums]
         /\ vs' = [vs EXCEPT !.next = @ + Cardinality(nums)]
    /\ UNCHANGED <<scen, life, opening, mems, mem, imm, writers, wr, rd, snapshots, ghosts>>

\* LogAndApply: the edit is put into a record and appended to the manifest.
ManifestAppend ==
    LET e == bg.edit[1]
        last == IF disk.appended = <<>> THEN disk.manifest ELSE Last(disk.appended)
    IN /\ Running /\ bg.pc = "append"
       /\ disk' = [disk EXCEPT !.appended = Append(@, [version |-> Apply(last.version, e.dels, e.adds),
                                                       log |-> e.log, next |-> vs.next, seq |-> vs.seq])]
       /\ bg' = [bg EXCEPT !.pc = "install"]
       /\ UNCHANGED <<scen, life, opening, vs, mems, mem, imm, writers, wr, rd, snapshots, pending, bgError, ghosts, count>>

\* The manifest is synced.
SyncManifest(d) == [d EXCEPT !.manifest = Last(d.appended), !.appended = <<>>]

ManifestInstall ==
    LET e == bg.edit[1]
        x == [vs EXCEPT !.version = Apply(@, e.dels, e.adds), !.log = e.log, !.seek = <<>>]
        outs == IF e.kind = "merge" THEN bg.outs ELSE {}
        i == IF e.kind = "mem" THEN 0 ELSE imm
        b == IF e.kind = "mem" /\ bg.work # <<>> THEN [bg EXCEPT !.pc = "work", !.edit = <<>>]
             ELSE BackgroundEnd(bgError, i, x)
    IN /\ Running /\ bg.pc = "install"
       /\ vs' = x
       /\ imm' = i
       /\ mems' = LiveMems(mems, {mem, i}, rd)
       /\ pending' = pending \ outs
       /\ bg' = b
       /\ disk' = IF e.kind = "move" THEN SyncManifest(disk)
                  ELSE DeleteObsoleteFiles(SyncManifest(disk), b, x, pending')
       /\ UNCHANGED <<scen, life, opening, mem, writers, wr, rd, snapshots, bgError, ghosts, count>>

\* The record could not be written, or could not be synced and may be there.
ManifestFails ==
    LET e == bg.edit[1]
    IN /\ Running /\ bg.pc = "install" /\ Fault
       /\ disk' \in {disk, [disk EXCEPT !.appended = Front(@)]}
       /\ bgError' = TRUE
       /\ bg' = IF e.kind = "mem" THEN AfterMemError(bg) ELSE BackgroundEnd(TRUE, imm, vs)
       /\ pending' = IF e.kind = "merge" THEN pending \ bg.outs ELSE pending
       /\ UNCHANGED <<scen, life, opening, vs, mems, mem, imm, writers, wr, rd, snapshots, ghosts>>

-----------------------------------------------------------------------------
\* Closing, crashing and opening.

NoMemory ==
    /\ vs' = [version |-> NoFiles, log |-> 0, next |-> 0, seq |-> 0, pointer |-> [l \in Levels |-> <<>>], seek |-> <<>>]
    /\ mems' = <<>> /\ mem' = 0 /\ imm' = 0
    /\ writers' = <<>> /\ wr' = [t \in Threads |-> IdleWriter] /\ rd' = [r \in Readers |-> IdleReader]
    /\ snapshots' = <<>> /\ pending' = {} /\ bgError' = FALSE /\ bg' = IdleBackground

\* ~DBImpl: no call may be under way; the background thread is told to stop ...
CloseStart ==
    /\ life = "up" /\ Disturbed /\ count.stops < scen.stops
    /\ writers = <<>> /\ snapshots = <<>> /\ \A r \in Readers : rd[r].pc = "idle"
    /\ life' = "closing"
    /\ count' = [count EXCEPT !.stops = @ + 1]
    /\ UNCHANGED <<scen, disk, opening, memory, ghosts>>

\* ... and is waited for.
CloseEnd ==
    /\ life = "closing" /\ bg.pc = "idle"
    /\ life' = "down"
    /\ NoMemory
    /\ UNCHANGED <<scen, disk, opening, ghosts, count>>

\* What is left when the machine stops: of each log any part from the synced one on, and of
\* the manifest any of the records after the synced ones.
MachineImages ==
    {[tables |-> disk.tables, manifest |-> m, appended |-> <<>>,
      logs |-> [n \in DOMAIN disk.logs |-> [recs |-> SubSeq(disk.logs[n].recs, 1, len[n]), synced |-> len[n]]]] :
        m \in {disk.manifest} \cup Range(disk.appended),
        len \in {g \in [DOMAIN disk.logs -> 0..Max({0} \cup {Len(disk.logs[n].recs) : n \in DOMAIN disk.logs})] :
                    \A n \in DOMAIN g : g[n] \in disk.logs[n].synced..Len(disk.logs[n].recs)}}

\* The process stops, and what it wrote is there; or the machine does.
Crash ==
    /\ life # "down" \/ \E n \in DOMAIN disk.logs : disk.logs[n].synced < Len(disk.logs[n].recs)
    /\ Disturbed /\ count.stops < scen.stops
    /\ life' = "down"
    /\ \/ UNCHANGED <<disk, applied>>
       \/ disk' \in MachineImages /\ applied' = synced
    /\ opening' = <<>>
    /\ NoMemory
    /\ count' = [count EXCEPT !.stops = @ + 1]
    /\ UNCHANGED <<scen, hist, synced>>

\* The state that the records of the manifest add up to.
ManifestOf(d) == IF d.appended = <<>> THEN d.manifest ELSE Last(d.appended)

\* The logs that Recover reads, oldest first.
LogsToRead(d) == Sorted({n \in DOMAIN d.logs : n >= ManifestOf(d).log}, LAMBDA m, n : m < n)

\* RecoverLogFile: the records go into a memtable, which is written to level 0 when it is
\* full and at the end of the log.
RecoverLogFile(acc, n, recs) ==
    LET Dump(a) == IF a.ents = {} THEN a
                   ELSE [a EXCEPT !.version[0] = @ \cup {[num |-> a.next, ents |-> a.ents]},
                                  !.next = @ + 1, !.ents = {}]
        Read(a, r) == LET b == [a EXCEPT !.ents = @ \cup EntriesOf(r.base, r.ops),
                                         !.seq = Max({@, r.base + Len(r.ops) - 1})]
                      IN IF Cardinality(b.ents) > WriteBuffer THEN Dump(b) ELSE b
        end == Dump(FoldLeft(Read, acc, recs))
    IN [end EXCEPT !.next = Max({@, n + 1})]

\* DBImpl::Recover.
Recover(d) ==
    LET m == ManifestOf(d)
    IN FoldLeft(LAMBDA a, n : RecoverLogFile(a, n, d.logs[n].recs),
                [version |-> m.version, next |-> m.next + 1, seq |-> m.seq, ents |-> {}],
                LogsToRead(d))

\* DB::Open up to LogAndApply: the tables are written and a new log is created.
OpenRecover ==
    \E a \in {Recover(disk)} :
       /\ life = "down"
       /\ life' = "opening"
       /\ opening' = <<[version |-> a.version, log |-> a.next, next |-> a.next + 1, seq |-> a.seq]>>
       /\ disk' = [disk EXCEPT !.tables = @ \cup {f.num : f \in FilesOf(a.version)},
                               !.logs = a.next :> [recs |-> <<>>, synced |-> 0] @@ @]
       /\ UNCHANGED <<scen, memory, ghosts, count>>

\* The sets of operations that a database may stand for which has lost none of must: whole
\* writes, and of the others any.
WriteEnds == {n \in 1..Len(hist) : hist[n].end}
WriteOf(n) == {m \in 1..n : m = n \/ ~\E i \in m..(n - 1) : hist[i].end}
Survivors(must) == {s \in {UNION {WriteOf(n) : n \in ends} : ends \in SUBSET WriteEnds} : must \subseteq s}

ReadsAs(v, ops) == \A k \in Keys : Value(VersionGet(v, k, Len(hist))) = Truth(ops, k, Len(hist))

\* The new manifest is made current, old files are deleted.
OpenCommit ==
    LET o == opening[1]
    IN /\ life = "opening"
       /\ life' = "up"
       /\ opening' = <<>>
       /\ vs' = [version |-> o.version, log |-> o.log, next |-> o.next, seq |-> o.seq,
                 pointer |-> [l \in Levels |-> <<>>], seek |-> <<>>]
       /\ disk' = [manifest |-> o, appended |-> <<>>,
                   tables |-> {f.num : f \in FilesOf(o.version)},
                   logs |-> [n \in {m \in DOMAIN disk.logs : m >= o.log} |-> disk.logs[n]]]
       /\ mem' = o.log /\ imm' = 0 /\ mems' = o.log :> {}
       /\ bg' = Schedule(IdleBackground, FALSE, 0, vs')
       /\ hist' = SubSeq(hist, 1, o.seq)
       /\ applied' = (CHOOSE ops \in Survivors(applied) : ReadsAs(o.version, ops)) \cap 1..o.seq
       /\ synced' = applied'
       /\ UNCHANGED <<scen, writers, wr, rd, snapshots, pending, bgError, count>>

-----------------------------------------------------------------------------
Init ==
    /\ life = "down"
    /\ disk = [tables |-> {}, logs |-> <<>>, appended |-> <<>>,
               manifest |-> [version |-> NoFiles, log |-> 0, next |-> 2, seq |-> 0]]
    /\ opening = <<>>
    /\ vs = [version |-> NoFiles, log |-> 0, next |-> 0, seq |-> 0, pointer |-> [l \in Levels |-> <<>>], seek |-> <<>>]
    /\ mems = <<>> /\ mem = 0 /\ imm = 0
    /\ writers = <<>> /\ wr = [t \in Threads |-> IdleWriter] /\ rd = [r \in Readers |-> IdleReader]
    /\ snapshots = <<>> /\ pending = {} /\ bgError = FALSE /\ bg = IdleBackground
    /\ hist = <<>> /\ applied = {} /\ synced = {}
    /\ count = [writes |-> 0, reads |-> 0, snapshots |-> 0, stops |-> 0, faults |-> 0]
    /\ scen \in Scenarios

Write(t) ==
    \/ \E b \in scen.batches, s \in scen.syncs : WriteEnqueue(t, b, s)
    \/ MakeRoomFails(t) \/ MakeRoomDelay(t) \/ WriteStart(t)
    \/ WriteLog(t) \/ WriteSync(t) \/ WriteInsert(t) \/ WriteFinish(t)

Read(r) ==
    \/ \E s \in {vs.seq} \cup Range(snapshots) : ReadStart(r, s)
    \/ \E k \in Keys : ReadEnd(r, k)

Background ==
    CompactMemTable \/ BuildTable \/ PickWork \/ CompactionWork \/ ManifestAppend \/ ManifestInstall \/ ManifestFails

Open == OpenRecover \/ OpenCommit

Next ==
    \/ \E t \in Threads : Write(t)
    \/ \E r \in Readers : Read(r)
    \/ GetSnapshot \/ \E i \in 1..scen.snapshots : ReleaseSnapshot(i)
    \/ Background
    \/ CloseStart \/ CloseEnd \/ Crash \/ Open

Spec == Init /\ [][Next]_vars

-----------------------------------------------------------------------------
\* Reads are exact: whatever has been written, flushed, merged and deleted since a Get or
\* an iterator took its memtables and its version, it finds for every key the last
\* operation of a successful write up to its sequence number, in files that are still on disk.
ReadsExact ==
    \A r \in Readers : rd[r].pc = "reading" =>
        /\ {f.num : f \in FilesOf(rd[r].version)} \subseteq disk.tables
        /\ \A k \in Keys :
             Value(Lookup([i \in 1..Len(rd[r].mems) |-> mems[rd[r].mems[i]]], rd[r].version, k, rd[r].snap))
                = rd[r].expect[k]

\* The same for a reader that would start now, with the last sequence number or any snapshot.
StoreExact ==
    Running => \A s \in {vs.seq} \cup Range(snapshots), k \in Keys :
        Value(Lookup([i \in 1..Len(MemIds) |-> mems[MemIds[i]]], vs.version, k, s)) = Truth(applied, k, s)

\* What opening finds: after the process has stopped every write that had succeeded, after
\* the machine has stopped every one that was synced, in both cases whole writes, with the
\* files that the manifest names still there (Write, DeleteObsoleteFiles, LogAndApply and
\* Recover together).
CrashKeepsWrites ==
    /\ life = "down" => {f.num : f \in FilesOf(ManifestOf(disk).version)} \subseteq disk.tables
    /\ life = "opening" => \E ops \in Survivors(applied) : ReadsAs(opening[1].version, ops)

\* No two files of a level beyond 0 hold keys of the same range (the order FindFile relies
\* on), and of two levels the upper one has the newer entries of a key.
LevelsOrdered ==
    \A l \in Levels : \A f \in vs.version[l] :
        /\ l > 0 => \A g \in vs.version[l] \ {f} : ~Meets(g, Smallest(f).key, Largest(f).key)
        /\ \A m \in (l + 1)..(NumLevels - 1) : \A g \in vs.version[m] :
             \A e \in f.ents, x \in g.ents : e.key = x.key => e.seq > x.seq

\* Nobody waits for nothing: a writer that MakeRoomForWrite has sent to sleep, for imm_ to be
\* written out or for level 0 to be merged, has a background thread at work that will wake it.
WaitersServed ==
    \A t \in Threads :
        AtFront(t) /\ ~bgError /\ ~HasRoom /\ (imm # 0 \/ Level0Files >= StopTrigger) => bg.pc # "idle"


\* Reads under way, reads that would start now and the opening after a stop all find what was
\* written, and the levels keep the order these lookups rest on.
StoreKept == ReadsExact /\ StoreExact /\ CrashKeepsWrites /\ LevelsOrdered
=============================================================================
