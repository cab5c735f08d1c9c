----------------------------- MODULE UnspentDB ------------------------------
(***************************************************************************)
(* CForkUnspentDB (storage/unspentdb.cpp): the unspent outputs of one fork, a *)
(* LevelDB table behind two in-memory maps.  Commits of blocks write the      *)
(* upper map.  A background thread writes the lower map to the table in one    *)
(* LevelDB batch and then flips the maps.  Readers look in the upper map, in   *)
(* the lower map if they can lock it without waiting, and in the table.       *)
(*                                                                         *)
(* The threads are: the one that commits a block view (CBlockDB::UpdateFork,  *)
(* one at a time because it holds the fork's lock), the flush thread           *)
(* (CUnspentDB::FlushProc, then Deinitialize), Readers (ReadUnspent) and       *)
(* Walkers (WalkThroughUnspent and the source side of Copy).  The locks       *)
(* rwUpper and rwLower are SharedLocks (see RWAccess): who holds them is read  *)
(* off the threads' program counters.  A lock held for one step only is the   *)
(* guard of that step.                                                      *)
(***************************************************************************)
EXTENDS Integers, FiniteSets

CONSTANTS
    Keys,           \* transaction outputs (CTxOutPoint)
    Outputs,        \* what an unspent output holds (CTxOutput)
    NULL,           \* a spent output: a null CTxOutput, or no record in the table
    NONE,           \* no entry in a map
    Readers,
    Walkers,
    MaxCrashes      \* bound on the crashes of the process

ASSUME NullAssumption == NULL \notin Outputs /\ NONE \notin Outputs \cup {NULL}
ASSUME MaxCrashesAssumption == MaxCrashes \in Nat

VARIABLES
    upper, lower,   \* dblCache: the two maps
    db,             \* the LevelDB table
    chain,          \* the unspent outputs of the block that dbFork refers to
    pending,        \* the changes UpdateFork still has to give to UpdateUnspent
    flush,          \* where the flush thread is
    stop,           \* Deinitialize: "run", then a "first" and a "second" Flush, "done"
    reader,         \* reader[r]: one ReadUnspent
    walker,         \* walker[w]: one walk, and the table its iterator sees
    crashes, failed,        \* crashes so far; whether a Flush of Deinitialize failed
    flipped, flippedBefore  \* the content at the last flip and at the one before

store == <<upper, lower, db>>
history == <<flipped, flippedBefore>>
vars == <<store, chain, pending, flush, stop, reader, walker, crashes, failed, history>>

Cells == Outputs \cup {NULL}
Tables == [Keys -> Cells]
Maps == [Keys -> Cells \cup {NONE}]
NoEntries == [k \in Keys |-> NONE]

\* Table t seen through map m.
Overlay(m, t) == [k \in Keys |-> IF m[k] = NONE THEN t[k] ELSE m[k]]

\* What the class as a whole stores.
Content == Overlay(upper, Overlay(lower, db))

IdleReader == [pc |-> "idle", key |-> NONE, val |-> NONE, seen |-> {}, late |-> FALSE]
IdleWalker == [pc |-> "idle", table |-> NONE]

Init ==
    /\ upper = NoEntries /\ lower = NoEntries
    /\ db = [k \in Keys |-> NULL]
    /\ chain = db
    /\ pending = NoEntries
    /\ flush = "idle"
    /\ stop = "run"
    /\ reader = [r \in Readers |-> IdleReader]
    /\ walker = [w \in Walkers |-> IdleWalker]
    /\ crashes = 0 /\ failed = FALSE
    /\ flipped = db /\ flippedBefore = db

-----------------------------------------------------------------------------
\* The locks.  rwLower is upgraded by Flush until it returns; Flush asks for
\* rwUpper at "flip", and a writer that waits keeps new readers out.
LowerUpgraded == flush \in {"upgrading", "flip", "flipped"}
LowerReaders == {w \in Walkers : walker[w].pc \in {"both", "scan"}}
UpperReaders == {w \in Walkers : walker[w].pc \in {"upper", "both", "scan"}}

\* The values that a reader in progress may return grow with the content.
Witness(content) ==
    reader' = [r \in Readers |->
        IF reader[r].pc = "idle" THEN reader[r]
        ELSE [reader[r] EXCEPT !.seen = @ \cup {content[reader[r].key]}]]

-----------------------------------------------------------------------------
(* Committing a block: CBlockDB::UpdateFork.                                *)

\* dbFork.UpdateFork: the fork's reference to its last block is written at once.
UpdateForkRef(batch) ==
    /\ stop = "run"
    /\ pending = NoEntries
    /\ chain' = Overlay(batch, chain)
    /\ pending' = batch
    /\ UNCHANGED <<store, flush, stop, reader, walker, crashes, failed, history>>

\* dbUnspent.Update: new outputs, then null entries for the spent ones.
UpdateUnspent ==
    /\ stop = "run"
    /\ pending # NoEntries
    /\ UpperReaders = {}
    /\ upper' = Overlay(pending, upper)
    /\ pending' = NoEntries
    /\ Witness(Overlay(pending, Content))
    /\ UNCHANGED <<lower, db, chain, flush, stop, walker, crashes, failed, history>>

-----------------------------------------------------------------------------
(* The flush thread: CForkUnspentDB::Flush.                                 *)

FlushFrame == UNCHANGED <<chain, pending, reader, walker, crashes, history>>

\* UpgradeLock on rwLower.
FlushBegin ==
    /\ flush = "idle"
    /\ stop # "done"
    /\ flush' = "locked"
    /\ FlushFrame
    /\ UNCHANGED <<store, stop, failed>>

\* The LevelDB batch: null entries are erased, the others written.
FlushCommit ==
    /\ flush = "locked"
    /\ db' = Overlay(lower, db)
    /\ flush' = "committed"
    /\ FlushFrame
    /\ UNCHANGED <<upper, lower, stop, failed>>

\* Slip: Deinitialize that flushes once.
AfterFlushOnce(s) == IF s = "first" THEN "done" ELSE s

\* Deinitialize goes on to its next Flush whatever this one returned.
AfterFlush(s) == CASE s = "first" -> "second"
                   [] s = "second" -> "done"
                   [] OTHER -> s

\* The batch cannot be begun or committed: Flush returns without flipping.
FlushFail ==
    /\ flush = "locked"
    /\ flush' = "idle"
    /\ stop' = AfterFlush(stop)
    /\ failed' = (failed \/ stop # "run")
    /\ FlushFrame
    /\ UNCHANGED store

\* ulock.Upgrade(): first no new readers of the lower map, then none at all.
FlushUpgrade ==
    /\ \/ flush = "committed" /\ flush' = "upgrading"
       \/ flush = "upgrading" /\ LowerReaders = {} /\ flush' = "flip"
    /\ FlushFrame
    /\ UNCHANGED <<store, stop, failed>>

\* dblCache.Flip() under rwUpper: the upper map becomes the lower one.
Flip ==
    /\ flush = "flip"
    /\ UpperReaders = {}
    /\ upper' = NoEntries
    /\ lower' = upper
    /\ flush' = "flipped"
    /\ flipped' = Content
    /\ flippedBefore' = flipped
    /\ UNCHANGED <<db, chain, pending, stop, reader, walker, crashes, failed>>

\* The destructor of ulock releases rwLower.
FlushEnd ==
    /\ flush = "flipped"
    /\ flush' = "idle"
    /\ stop' = AfterFlush(stop)
    /\ FlushFrame
    /\ UNCHANGED <<store, failed>>

\* Deinitialize joins the flush thread and locks everybody else out.
Deinitialize ==
    /\ stop = "run"
    /\ flush = "idle"
    /\ pending = NoEntries
    /\ \A r \in Readers : reader[r].pc = "idle"
    /\ \A w \in Walkers : walker[w].pc = "idle"
    /\ stop' = "first"
    /\ FlushFrame
    /\ UNCHANGED <<store, flush, failed>>

-----------------------------------------------------------------------------
(* Reading one output: ReadUnspent.                                         *)

ReadFrame == UNCHANGED <<store, chain, pending, flush, stop, walker, crashes, failed, history>>

SetReader(r, rec) == reader' = [reader EXCEPT ![r] = rec]

Return(r, v) == SetReader(r, [reader[r] EXCEPT !.pc = "done", !.val = v])

\* Slip: a reader that does not look in the lower map.
ReadUpperThenTable(r, k) ==
    /\ stop = "run"
    /\ reader[r].pc = "idle"
    /\ flush # "flip"
    /\ SetReader(r, [pc   |-> IF upper[k] = NONE THEN "table" ELSE "done",
                     key  |-> k,
                     val  |-> upper[k],
                     seen |-> {Content[k]},
                     late |-> FALSE])
    /\ ReadFrame

ReadUpper(r, k) ==
    /\ stop = "run"
    /\ reader[r].pc = "idle"
    /\ flush # "flip"
    /\ SetReader(r, [pc   |-> IF upper[k] = NONE THEN "lower" ELSE "done",
                     key  |-> k,
                     val  |-> upper[k],
                     seen |-> {Content[k]},
                     late |-> FALSE])
    /\ ReadFrame

\* ReadTryLock on rwLower; a failure falls through to the table.
ReadLower(r) ==
    /\ reader[r].pc = "lower"
    /\ \/ /\ LowerUpgraded
          /\ SetReader(r, [reader[r] EXCEPT !.pc = "table", !.late = (flush = "flipped")])
       \/ /\ ~LowerUpgraded
          /\ lower[reader[r].key] = NONE
          /\ SetReader(r, [reader[r] EXCEPT !.pc = "table"])
       \/ /\ ~LowerUpgraded
          /\ lower[reader[r].key] # NONE
          /\ Return(r, lower[reader[r].key])
    /\ ReadFrame

ReadTable(r) ==
    /\ reader[r].pc = "table"
    /\ Return(r, db[reader[r].key])
    /\ ReadFrame

ReadReturn(r) ==
    /\ reader[r].pc = "done"
    /\ SetReader(r, IdleReader)
    /\ ReadFrame

-----------------------------------------------------------------------------
(* Walking through all the outputs: WalkThroughUnspent, Copy.               *)

WalkFrame == UNCHANGED <<store, chain, pending, flush, stop, reader, crashes, failed, history>>

SetWalker(w, pc, table) == walker' = [walker EXCEPT ![w] = [pc |-> pc, table |-> table]]

\* Slip: a walk that is let in while Flush waits for rwUpper.
WalkLockBarging(w) ==
    /\ \/ walker[w].pc = "idle" /\ stop = "run" /\ SetWalker(w, "upper", NONE)
       \/ walker[w].pc = "upper" /\ SetWalker(w, "both", NONE)
    /\ WalkFrame

\* A read lock on rwUpper, then one on rwLower.
WalkLock(w) ==
    /\ \/ walker[w].pc = "idle" /\ stop = "run" /\ flush # "flip" /\ SetWalker(w, "upper", NONE)
       \/ walker[w].pc = "upper" /\ ~LowerUpgraded /\ SetWalker(w, "both", NONE)
    /\ WalkFrame

\* The LevelDB iterator sees the table as it is when the iterator is made.
WalkScan(w) ==
    /\ walker[w].pc = "both"
    /\ SetWalker(w, "scan", db)
    /\ WalkFrame

\* Entries of the maps hide the records of the table; both locks are released.
WalkEnd(w) ==
    /\ walker[w].pc = "scan"
    /\ SetWalker(w, "idle", NONE)
    /\ WalkFrame

\* Slip: a walk that lets the lower map hide the upper one.
WalkResultSwapped(w) == Overlay(lower, Overlay(upper, walker[w].table))

WalkResult(w) == Overlay(upper, Overlay(lower, walker[w].table))

-----------------------------------------------------------------------------
\* A new process opens the same tables; the maps of the old one are gone.
Restart(c) ==
    /\ upper' = NoEntries /\ lower' = NoEntries
    /\ pending' = NoEntries
    /\ flush' = "idle"
    /\ stop' = "run"
    /\ reader' = [r \in Readers |-> IdleReader]
    /\ walker' = [w \in Walkers |-> IdleWalker]
    /\ crashes' = c
    /\ flipped' = db /\ flippedBefore' = db
    /\ UNCHANGED <<db, chain, failed>>

CleanRestart == stop = "done" /\ Restart(crashes)
Crash == stop # "done" /\ crashes < MaxCrashes /\ Restart(crashes + 1)

Work ==
    \/ \E batch \in Maps \ {NoEntries} : UpdateForkRef(batch)
    \/ UpdateUnspent
    \/ FlushBegin \/ FlushCommit \/ FlushFail \/ FlushUpgrade \/ Flip \/ FlushEnd
    \/ Deinitialize \/ CleanRestart
    \/ \E r \in Readers : (\E k \in Keys : ReadUpper(r, k))
                          \/ ReadLower(r) \/ ReadTable(r) \/ ReadReturn(r)
    \/ \E w \in Walkers : WalkLock(w) \/ WalkScan(w) \/ WalkEnd(w)

Next == Work \/ Crash

Spec == Init /\ [][Next]_vars

\* The scheduler runs the flush thread and the walks in progress.
FlushStep == FlushBegin \/ FlushCommit \/ FlushUpgrade \/ Flip \/ FlushEnd
WalkStep(w) == walker[w].pc # "idle" /\ (WalkLock(w) \/ WalkScan(w) \/ WalkEnd(w))

FairSpec == Spec /\ WF_vars(FlushStep) /\ \A w \in Walkers : WF_vars(WalkStep(w))

-----------------------------------------------------------------------------
ReaderStates == [pc   : {"idle", "lower", "table", "done"},
                 key  : Keys \cup {NONE},
                 val  : Cells \cup {NONE},
                 seen : SUBSET Cells,
                 late : BOOLEAN]

\* The two maps of dblCache, the table, and the threads that commit, flush, read
\* and walk keep their types; a ReadUnspent that has returned returned an output.
TypeOK ==
    /\ upper \in Maps /\ lower \in Maps /\ pending \in Maps
    /\ db \in Tables /\ chain \in Tables
    /\ flipped \in Tables /\ flippedBefore \in Tables
    /\ flush \in {"idle", "locked", "committed", "upgrading", "flip", "flipped"}
    /\ stop \in {"run", "first", "second", "done"}
    /\ reader \in [Readers -> ReaderStates]
    /\ walker \in [Walkers -> [pc    : {"idle", "upper", "both", "scan"},
                               table : Tables \cup {NONE}]]
    /\ \A r \in Readers : reader[r].pc = "done" => reader[r].val \in Cells
    /\ \A r \in Readers : reader[r].pc # "idle" => reader[r].key \in Keys
    /\ \A w \in Walkers : walker[w].pc = "scan" => walker[w].table \in Tables
    /\ crashes \in Nat
    /\ failed \in BOOLEAN

\* LevelDB holds whole batches of flushes in their order: the table is the
\* content at the last flip once its lower map is committed, and the content at
\* the flip before until then.  So a crash at any point of Flush leaves the
\* unspent outputs as they were after some committed block, never a mixture.
TableIsSnapshot ==
    /\ flush \in {"committed", "upgrading", "flip"} => db = flipped
    /\ flush \in {"idle", "locked", "flipped"} => db \in {flipped, flippedBefore}
    /\ Overlay(lower, db) = flipped

\* While nothing has been lost to a crash or to a failed last flush, the unspent
\* outputs stored are those of the block dbFork refers to, once UpdateFork has
\* returned; and Deinitialize leaves them all in the table.
StoreMatchesChain ==
    crashes = 0 /\ ~failed =>
        /\ Overlay(pending, Content) = chain
        /\ stop = "done" => db = chain

\* ReadUnspent takes no lock across its three lookups.  It still returns what
\* the store held at some moment of the call, whatever updates, commits and
\* flips come in between, unless its ReadTryLock fell between the flip and the
\* release of rwLower: the old upper map is then in neither place it looks.
ReadsLinearizable ==
    \A r \in Readers : reader[r].pc = "done" /\ ~reader[r].late
                           => reader[r].val \in reader[r].seen

\* A walk sees exactly the content, also when Flush, which may share rwLower
\* with it, commits its batch before or after the walk's iterator is made.
WalksAreExact ==
    \A w \in Walkers : walker[w].pc = "scan" => WalkResult(w) = Content

\* Flush holds rwLower and asks for rwUpper; a walk holds rwUpper and asks for
\* rwLower.
LockCycle == flush = "flip" /\ \E w \in Walkers : walker[w].pc = "upper"

\* That cycle of locks is the only thing that can stop the flush thread: unless
\* the store ends in it, every Flush returns, however readers and walks come.
FlushReturns == []<>(flush = "idle") \/ <>[]LockCycle

\* CheckConsistency (storage/blockbase.cpp) requires of a node that starts that
\* its unspent records match the blocks of the chain it starts with.
StartsConsistent ==
    pending = NoEntries => Content = chain
=============================================================================
