------------------------------- MODULE PosixEnv ------------------------------
(***************************************************************************)
(* What LevelDB asks of the operating system (leveldb/util/env_posix.cc): files   *)
(* written through a buffer and synced, the background thread and its queue, and    *)
(* the limit on memory maps and open tables.                                  *)
(*                                                                           *)
(* A file's content is the sequence of the units appended, numbered from 1.        *)
(***************************************************************************)
EXTENDS Integers, Sequences, FiniteSets

CONSTANTS
    PeBuffer,           \* kWritableFileBufferSize, in units
    PeAppends,          \* the sizes of appends
    PeMaxUnits,         \* bound: units appended
    PeUsers,            \* threads that open tables
    PeMmaps, PeFds,     \* Limiter: mmap_limiter_, fd_limiter_
    PeMaxWork           \* bound: work items scheduled

ASSUME PeAssumption ==
    /\ PeBuffer \in Nat /\ PeAppends \subseteq Nat /\ PeMaxUnits \in Nat
    /\ PeMmaps \in Nat /\ PeFds \in Nat /\ IsFiniteSet(PeUsers)

VARIABLES
    peFile,             \* [buf, os, disk: contents; total: units appended; failed; manifest, dirsync]
    peWork,             \* [queue, next: the number of the next item, bg: "off", "wait", "idle" or the item run, ran]
    peOpen              \* [mmaps, fds: what the limiters allow still; user: per user [pc, old]]

peVars == <<peFile, peWork, peOpen>>

PeInit ==
    /\ \E m \in BOOLEAN :
           peFile = [buf |-> <<>>, os |-> <<>>, disk |-> <<>>, total |-> 0, failed |-> FALSE,
                     manifest |-> m, dirsync |-> FALSE, synced |-> 0]
    /\ peWork = [queue |-> <<>>, next |-> 1, bg |-> "off", item |-> 0, ran |-> <<>>]
    /\ peOpen = [mmaps |-> PeMmaps, fds |-> PeFds,
                 user |-> [u \in PeUsers |-> [pc |-> "none", old |-> 0]]]

-----------------------------------------------------------------------------
(* PosixWritableFile. *)
Units(from, n) == [i \in 1..n |-> from + i]
\* WriteUnbuffered: all of the data reaches the file, or a part of it and an error.
WriteUnbuffered(f, data, n) ==
    [f EXCEPT !.os = @ \o SubSeq(data, 1, n), !.failed = @ \/ n < Len(data)]
\* The buffer is empty afterwards, whatever was written.
FlushBuffer(f, n) == [WriteUnbuffered(f, f.buf, n) EXCEPT !.buf = <<>>]

Fits(f, size) == IF size < PeBuffer - Len(f.buf) THEN size ELSE PeBuffer - Len(f.buf)
AppendRest(f, data, n) ==
    IF f.failed THEN f
    ELSE IF Len(data) < PeBuffer THEN [f EXCEPT !.buf = data]
    ELSE WriteUnbuffered(f, data, n)
PeAppend(size, n, m) ==
    /\ ~peFile.failed
    /\ peFile.total + size <= PeMaxUnits
    /\ \E fit \in {Fits(peFile, size)} :
       \E f \in {[peFile EXCEPT !.buf = @ \o Units(peFile.total, fit), !.total = @ + size]} :
           IF fit = size THEN n = 0 /\ m = 0 /\ peFile' = f
           ELSE /\ n <= Len(f.buf) /\ m <= size - fit
                /\ peFile' = AppendRest(FlushBuffer(f, n), Units(peFile.total + fit, size - fit), m)
    /\ UNCHANGED <<peWork, peOpen>>
PeFlush(n) ==
    /\ ~peFile.failed
    /\ n <= Len(peFile.buf)
    /\ peFile' = FlushBuffer(peFile, n)
    /\ UNCHANGED <<peWork, peOpen>>
\* Sync: the directory first for a manifest, then the buffer, then the file's data.
Synced(f, ok) == IF f.failed \/ ~ok THEN [f EXCEPT !.failed = TRUE]
                 ELSE [f EXCEPT !.disk = f.os, !.synced = f.total]
SyncDirIfManifest(f) == [f EXCEPT !.dirsync = @ \/ f.manifest]
\* Slip: the file's data is synced before the buffer is written.
PeSyncEarly(n, ok, dir) ==
    /\ ~peFile.failed
    /\ n <= Len(peFile.buf)
    /\ peFile' = IF dir THEN FlushBuffer(Synced(SyncDirIfManifest(peFile), ok), n)
                 ELSE [peFile EXCEPT !.failed = TRUE]
    /\ UNCHANGED <<peWork, peOpen>>
PeSync(n, ok, dir) ==
    /\ ~peFile.failed
    /\ n <= Len(peFile.buf)
    /\ peFile' = IF dir THEN Synced(FlushBuffer(SyncDirIfManifest(peFile), n), ok)
                 ELSE [peFile EXCEPT !.failed = TRUE]
    /\ UNCHANGED <<peWork, peOpen>>
\* The machine stops: what was not synced may be lost from its end.
PeCrash ==
    /\ \E n \in Len(peFile.disk)..Len(peFile.os) :
           peFile' = [peFile EXCEPT !.os = SubSeq(@, 1, n), !.buf = <<>>, !.failed = TRUE]
    /\ UNCHANGED <<peWork, peOpen>>

-----------------------------------------------------------------------------
(* Schedule and BackgroundThreadMain. *)
PeSchedule ==
    /\ peWork.next <= PeMaxWork
    /\ peWork' = [peWork EXCEPT !.queue = Append(@, peWork.next), !.next = @ + 1,
                                !.bg = IF @ = "off" \/ (@ = "wait" /\ peWork.queue = <<>>) THEN "idle" ELSE @]
    /\ UNCHANGED <<peFile, peOpen>>
BackgroundTake ==
    /\ peWork.bg = "idle"
    /\ peWork' = IF peWork.queue = <<>> THEN [peWork EXCEPT !.bg = "wait"]
                 ELSE [peWork EXCEPT !.bg = "run", !.item = Head(peWork.queue), !.queue = Tail(@)]
    /\ UNCHANGED <<peFile, peOpen>>
BackgroundRun ==
    /\ peWork.bg = "run"
    /\ peWork' = [peWork EXCEPT !.bg = "idle", !.ran = Append(@, peWork.item), !.item = 0]
    /\ UNCHANGED <<peFile, peOpen>>

-----------------------------------------------------------------------------
(* Limiter::Acquire takes one and gives it back when there was none: two atomic steps.   *)
(* NewRandomAccessFile maps the file when it may, else keeps it open when it may, else    *)
(* opens it for every read.                                                   *)
SetUser(o, u, pc, old) == [o EXCEPT !.user[u] = [pc |-> pc, old |-> old]]
PeOpenTable(u) ==
    /\ peOpen.user[u].pc = "none"
    /\ peOpen' = SetUser([peOpen EXCEPT !.mmaps = @ - 1], u, "mmap?", peOpen.mmaps)
    /\ UNCHANGED <<peFile, peWork>>
MmapAcquired(u) ==
    /\ peOpen.user[u].pc = "mmap?"
    /\ \/ /\ peOpen.user[u].old > 0
          /\ \/ peOpen' = SetUser(peOpen, u, "mmap", 0)
             \/ peOpen' = SetUser([peOpen EXCEPT !.mmaps = @ + 1], u, "none", 0)
       \/ /\ peOpen.user[u].old <= 0
          /\ peOpen' = SetUser([peOpen EXCEPT !.mmaps = @ + 1], u, "fd", 0)
    /\ UNCHANGED <<peFile, peWork>>
FdAcquire(u) ==
    /\ peOpen.user[u].pc = "fd"
    /\ peOpen' = SetUser([peOpen EXCEPT !.fds = @ - 1], u, "fd?", peOpen.fds)
    /\ UNCHANGED <<peFile, peWork>>
FdAcquired(u) ==
    /\ peOpen.user[u].pc = "fd?"
    /\ peOpen' = IF peOpen.user[u].old > 0 THEN SetUser(peOpen, u, "kept", 0)
                 ELSE SetUser([peOpen EXCEPT !.fds = @ + 1], u, "each", 0)
    /\ UNCHANGED <<peFile, peWork>>
CloseTable(u) ==
    /\ peOpen.user[u].pc \in {"mmap", "kept", "each"}
    /\ peOpen' = SetUser([peOpen EXCEPT !.mmaps = @ + (IF peOpen.user[u].pc = "mmap" THEN 1 ELSE 0),
                                        !.fds = @ + (IF peOpen.user[u].pc = "kept" THEN 1 ELSE 0)],
                         u, "none", 0)
    /\ UNCHANGED <<peFile, peWork>>

-----------------------------------------------------------------------------
PeFileStep ==
    \/ \E size \in PeAppends, n \in 0..PeBuffer, m \in 0..PeMaxUnits : PeAppend(size, n, m)
    \/ \E n \in 0..PeBuffer : PeFlush(n) \/ (\E ok, dir \in BOOLEAN : PeSync(n, ok, dir))
    \/ PeCrash
PeWorkStep == PeSchedule \/ BackgroundTake \/ BackgroundRun
PeOpenStep == \E u \in PeUsers : PeOpenTable(u) \/ MmapAcquired(u) \/ FdAcquire(u) \/ FdAcquired(u) \/ CloseTable(u)
PeSpec == PeInit /\ [][PeFileStep \/ PeWorkStep \/ PeOpenStep]_peVars
\* The three share nothing: one of them runs.
PeStep ==
    \/ peWork.next = 1 /\ (\A u \in PeUsers : peOpen.user[u].pc = "none") /\ PeFileStep
    \/ peFile.total = 0 /\ ~peFile.failed /\ (\A u \in PeUsers : peOpen.user[u].pc = "none") /\ PeWorkStep
    \/ peFile.total = 0 /\ ~peFile.failed /\ peWork.next = 1 /\ PeOpenStep

-----------------------------------------------------------------------------
How(pc) == Cardinality({u \in PeUsers : peOpen.user[u].pc = pc})

(* As long as no call has failed, the file and the buffer hold what was appended, in order;    *)
(* what was appended before a sync that succeeded is in the file ever after, through failed     *)
(* writes and a stop of the machine, and the directory was synced before a manifest.  The        *)
(* background thread runs every item once, in order, and never waits while there is one.  The     *)
(* maps and open tables never exceed their limits, and what the limiters allow comes back      *)
(* (env_posix.cc Append, Flush, Sync, Schedule, BackgroundThreadMain, Limiter).             *)
EnvKeepsWord ==
    /\ ~peFile.failed => peFile.os \o peFile.buf = Units(0, peFile.total)
    /\ peFile.synced <= Len(peFile.os) /\ \A i \in 1..peFile.synced : peFile.os[i] = i
    /\ peFile.synced > 0 /\ peFile.manifest => peFile.dirsync
    /\ peWork.ran = Units(0, Len(peWork.ran))
    /\ peWork.bg \in {"off", "wait"} => peWork.queue = <<>>
    /\ peOpen.mmaps = PeMmaps - How("mmap") - How("mmap?") /\ How("mmap") <= PeMmaps
    /\ peOpen.fds = PeFds - How("kept") - How("fd?") /\ How("kept") <= PeFds
=============================================================================
