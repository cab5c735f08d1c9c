------------------------------- MODULE CTSDB --------------------------------
(***************************************************************************)
(* CCTSDB (storage/ctsdb.h), the time-series store behind the transaction      *)
(* index of a fork (CTxIndexDB, storage/txindexdb.cpp).  Entries are kept in    *)
(* chunks, one per time.  A map holds whole chunks: the first Update of a time   *)
(* copies its chunk to the upper map, and from then on that copy hides every     *)
(* older one.  Flush appends the chunks of the lower map to a file, commits      *)
(* their positions to a LevelDB index, and flips the maps.                      *)
(*                                                                           *)
(* A chunk is a function from keys to values, NONE where it has no entry; the     *)
(* record of the index stands for the chunk at its position, since chunks in      *)
(* the file are never overwritten.  The locks are as in UnspentDB.  Update holds   *)
(* rwUpper throughout, which keeps Flip out; it is one step.                     *)
(***************************************************************************)
EXTENDS Integers

CONSTANTS
    Times,
    Keys,           \* transaction hashes
    Values,         \* positions of transactions (CTxIndex)
    NONE,           \* no entry in a chunk, no chunk in a map or in the index
    Readers,
    MaxCrashes      \* bound on the crashes of the process

ASSUME NoneAssumption == NONE \notin Values /\ NONE \notin [Keys -> Values \cup {NONE}]
ASSUME CrashBound == MaxCrashes \in Nat

VARIABLES
    upper, lower,   \* dblMeta: the two maps
    index,          \* dbIndex, and the chunks its positions refer to
    flush,          \* where the flush thread is
    stop,           \* CTxIndexDB::Deinitialize: "run", "first", "second", "done"
    reader,         \* reader[r]: one Retrieve
    crashes, failed,        \* crashes so far; whether a Flush of Deinitialize failed
    truth,          \* the entries that Update and Erase have left since the start
    raced,          \* whether an Update came between a flip and the release of rwLower
    flipped, flippedBefore  \* the content at the last flip and at the one before

store == <<upper, lower, index>>
history == <<flipped, flippedBefore>>
vars == <<store, flush, stop, reader, crashes, failed, truth, raced, history>>

Chunks == [Keys -> Values \cup {NONE}]
EmptyChunk == [k \in Keys |-> NONE]
Maps == [Times -> Chunks \cup {NONE}]
NoChunks == [t \in Times |-> NONE]
Tables == [Times -> Chunks]

\* The chunk of each time: in map m, else in table t.
Over(m, t) == [n \in Times |-> IF m[n] = NONE THEN t[n] ELSE m[n]]

\* A time without a record in the index has no entries.
OnDisk == [n \in Times |-> IF index[n] = NONE THEN EmptyChunk ELSE index[n]]

Content == Over(upper, Over(lower, OnDisk))

IdleReader == [pc |-> "idle", time |-> NONE, key |-> NONE, val |-> NONE,
               seen |-> {}, late |-> FALSE]

Init ==
    /\ upper = NoChunks /\ lower = NoChunks /\ index = NoChunks
    /\ flush = "idle" /\ stop = "run"
    /\ reader = [r \in Readers |-> IdleReader]
    /\ crashes = 0 /\ failed = FALSE
    /\ truth = OnDisk
    /\ raced = FALSE
    /\ flipped = OnDisk /\ flippedBefore = OnDisk

\* From ulock.Upgrade() to the end of Flush nobody can read the lower map.
LowerUpgraded == flush \in {"upgraded", "flipped"}

-----------------------------------------------------------------------------
(* Update and Erase.                                                          *)

\* Slip: a copy that is made from the file and never from the lower map.
GetUpdateMapFromFile(t) == IF upper[t] # NONE THEN upper[t] ELSE OnDisk[t]

\* GetUpdateMap: the chunk of the upper map, or the copy it gets there.
GetUpdateMap(t) ==
    CASE upper[t] # NONE -> upper[t]
      [] upper[t] = NONE /\ ~LowerUpgraded /\ lower[t] # NONE -> lower[t]
      [] OTHER -> OnDisk[t]

\* A reader in progress may return any value its key has had meanwhile.
Witness(content) ==
    reader' = [r \in Readers |->
        IF reader[r].pc = "idle" THEN reader[r]
        ELSE [reader[r] EXCEPT !.seen = @ \cup {content[reader[r].time][reader[r].key]}]]

\* v is a value for Update, NONE for Erase.
Write(t, k, v) ==
    /\ stop = "run"
    /\ upper' = [upper EXCEPT ![t] = [GetUpdateMap(t) EXCEPT ![k] = v]]
    /\ truth' = [truth EXCEPT ![t][k] = v]
    /\ raced' = (raced \/ (upper[t] = NONE /\ lower[t] # NONE /\ flush = "flipped"))
    /\ Witness([Content EXCEPT ![t] = [GetUpdateMap(t) EXCEPT ![k] = v]])
    /\ UNCHANGED <<lower, index, flush, stop, crashes, failed, history>>

Update(t, k, v) == v # NONE /\ Write(t, k, v)
Erase(t, k) == Write(t, k, NONE)

-----------------------------------------------------------------------------
(* The flush thread.                                                          *)

FlushFrame == UNCHANGED <<reader, crashes, truth, raced, history>>

FlushBegin ==
    /\ flush = "idle"
    /\ stop # "done"
    /\ flush' = "locked"
    /\ FlushFrame
    /\ UNCHANGED <<store, stop, failed>>

\* tsChunk.WriteBatch: the chunks are in the file, and nothing refers to them.
WriteBatch ==
    /\ flush = "locked"
    /\ flush' = "written"
    /\ FlushFrame
    /\ UNCHANGED <<store, stop, failed>>

\* dbIndex.Update: one LevelDB batch, the records of empty chunks are erased.
IndexUpdate ==
    /\ flush = "written"
    /\ index' = [t \in Times |-> IF lower[t] = NONE THEN index[t]
                                 ELSE IF lower[t] = EmptyChunk THEN NONE ELSE lower[t]]
    /\ flush' = "committed"
    /\ FlushFrame
    /\ UNCHANGED <<upper, lower, stop, failed>>

\* Deinitialize goes on to its next Flush whatever this one returned.
AfterFlush(s) == CASE s = "first" -> "second"
                   [] s = "second" -> "done"
                   [] OTHER -> s

\* Slip: a Flush that flips although the chunks could not be written.
FlushFailIgnored ==
    /\ flush \in {"locked", "written"}
    /\ flush' = "committed"
    /\ FlushFrame
    /\ UNCHANGED <<store, stop, failed>>

\* The file or the index cannot be written: Flush returns without flipping.
FlushFail ==
    /\ flush \in {"locked", "written"}
    /\ flush' = "idle"
    /\ stop' = AfterFlush(stop)
    /\ failed' = (failed \/ stop # "run")
    /\ FlushFrame
    /\ UNCHANGED store

FlushUpgrade ==
    /\ flush = "committed"
    /\ flush' = "upgraded"
    /\ FlushFrame
    /\ UNCHANGED <<store, stop, failed>>

Flip ==
    /\ flush = "upgraded"
    /\ upper' = NoChunks
    /\ lower' = upper
    /\ flush' = "flipped"
    /\ flipped' = Content
    /\ flippedBefore' = flipped
    /\ UNCHANGED <<index, stop, reader, crashes, failed, truth, raced>>

FlushEnd ==
    /\ flush = "flipped"
    /\ flush' = "idle"
    /\ stop' = AfterFlush(stop)
    /\ FlushFrame
    /\ UNCHANGED <<store, failed>>

\* CTxIndexDB::Deinitialize joins the flush thread and locks everybody else out.
Deinitialize ==
    /\ stop = "run"
    /\ flush = "idle"
    /\ \A r \in Readers : reader[r].pc = "idle"
    /\ stop' = "first"
    /\ FlushFrame
    /\ UNCHANGED <<store, flush, failed>>

-----------------------------------------------------------------------------
(* Retrieve.                                                                  *)

ReadFrame == UNCHANGED <<store, flush, stop, crashes, failed, truth, raced, history>>

SetReader(r, rec) == reader' = [reader EXCEPT ![r] = rec]

Return(r, chunk) == SetReader(r, [reader[r] EXCEPT !.pc = "done", !.val = chunk[reader[r].key]])

\* A chunk of the upper map answers, also when it has no entry for the key.
RetrieveUpper(r, t, k) ==
    /\ stop = "run"
    /\ reader[r].pc = "idle"
    /\ SetReader(r, [pc   |-> IF upper[t] = NONE THEN "lower" ELSE "done",
                     time |-> t,
                     key  |-> k,
                     val  |-> IF upper[t] = NONE THEN NONE ELSE upper[t][k],
                     seen |-> {Content[t][k]},
                     late |-> FALSE])
    /\ ReadFrame

\* Slip: a Retrieve that goes on to the file where the chunk lacks the key.
RetrieveLowerByKey(r) ==
    /\ reader[r].pc = "lower"
    /\ LET chunk == lower[reader[r].time] IN
         IF LowerUpgraded \/ chunk = NONE \/ (chunk # NONE /\ chunk[reader[r].key] = NONE)
         THEN SetReader(r, [reader[r] EXCEPT !.pc = "file", !.late = (flush = "flipped")])
         ELSE Return(r, chunk)
    /\ ReadFrame

\* ReadTryLock on rwLower; a failure falls through to the file.
RetrieveLower(r) ==
    /\ reader[r].pc = "lower"
    /\ LET chunk == lower[reader[r].time] IN
         IF LowerUpgraded \/ chunk = NONE
         THEN SetReader(r, [reader[r] EXCEPT !.pc = "file", !.late = (flush = "flipped")])
         ELSE Return(r, chunk)
    /\ ReadFrame

\* LoadFromFile.
RetrieveFile(r) ==
    /\ reader[r].pc = "file"
    /\ Return(r, OnDisk[reader[r].time])
    /\ ReadFrame

RetrieveReturn(r) ==
    /\ reader[r].pc = "done"
    /\ SetReader(r, IdleReader)
    /\ ReadFrame

-----------------------------------------------------------------------------
\* A new process opens the same files; the maps of the old one are gone.
Restart(c) ==
    /\ upper' = NoChunks /\ lower' = NoChunks
    /\ flush' = "idle" /\ stop' = "run"
    /\ reader' = [r \in Readers |-> IdleReader]
    /\ crashes' = c
    /\ truth' = OnDisk
    /\ flipped' = OnDisk /\ flippedBefore' = OnDisk
    /\ raced' = FALSE /\ failed' = FALSE
    /\ UNCHANGED index

CleanRestart == stop = "done" /\ Restart(crashes)
Crash == stop # "done" /\ crashes < MaxCrashes /\ Restart(crashes + 1)

Next ==
    \/ \E t \in Times, k \in Keys : (\E v \in Values : Update(t, k, v)) \/ Erase(t, k)
    \/ FlushBegin \/ WriteBatch \/ IndexUpdate \/ FlushFail \/ FlushUpgrade \/ Flip \/ FlushEnd
    \/ Deinitialize \/ CleanRestart \/ Crash
    \/ \E r \in Readers : (\E t \in Times, k \in Keys : RetrieveUpper(r, t, k))
                          \/ RetrieveLower(r) \/ RetrieveFile(r) \/ RetrieveReturn(r)

Spec == Init /\ [][Next]_vars

-----------------------------------------------------------------------------
ReaderStates == [pc   : {"idle", "lower", "file", "done"},
                 time : Times \cup {NONE},
                 key  : Keys \cup {NONE},
                 val  : Values \cup {NONE},
                 seen : SUBSET (Values \cup {NONE}),
                 late : BOOLEAN]

\* The maps and the index hold whole chunks, and the threads of Flush, Update and
\* Retrieve keep their types.
TypeOK ==
    /\ upper \in Maps /\ lower \in Maps /\ index \in [Times -> (Chunks \ {EmptyChunk}) \cup {NONE}]
    /\ flush \in {"idle", "locked", "written", "committed", "upgraded", "flipped"}
    /\ stop \in {"run", "first", "second", "done"}
    /\ reader \in [Readers -> ReaderStates]
    /\ \A r \in Readers : reader[r].pc # "idle" => reader[r].time \in Times /\ reader[r].key \in Keys
    /\ crashes \in Nat /\ failed \in BOOLEAN /\ raced \in BOOLEAN
    /\ truth \in Tables /\ flipped \in Tables /\ flippedBefore \in Tables

\* The copy of a chunk in the upper map hides the chunks below it, so it must
\* have all their entries.  It does, and no entry that was written is lost or
\* comes back, unless an Update fell between the flip and the release of rwLower.
\* Entries survive Deinitialize: its two flushes leave all of them in the file.
EntriesKept ==
    ~raced => Content = truth /\ (stop = "done" /\ ~failed => OnDisk = truth)

\* A crash at any point of Flush, also between the append of the chunks and the
\* commit of their positions, leaves the entries of one flip, never a mixture.
IndexIsSnapshot ==
    /\ flush \in {"committed", "upgraded"} => OnDisk = flipped
    /\ OnDisk \in {flipped, flippedBefore}
    /\ Over(lower, OnDisk) = flipped

\* Retrieve returns what its key had at some moment of the call, unless its
\* ReadTryLock fell between the flip and the release of rwLower.
RetrievesLinearizable ==
    \A r \in Readers : reader[r].pc = "done" /\ ~reader[r].late => reader[r].val \in reader[r].seen

\* ctsdb_test.cpp looks up after the flushes what it wrote before them.
WrittenIsFound == flush = "idle" => Content = truth
=============================================================================
