-------------------------- MODULE UnspentDBProofs ---------------------------
(***************************************************************************)
(* The safety properties of UnspentDB for every set of outputs, readers and  *)
(* walks.  The argument is algebraic: a map laid over a table, Overlay, is    *)
(* associative and idempotent, so committing the lower map and flipping       *)
(* change where the content is but not what it is.  The invariant adds what   *)
(* Deinitialize has already emptied (StopInv) and what a ReadUnspent in       *)
(* progress can still return (ReaderInv).                                    *)
(***************************************************************************)
EXTENDS UnspentDB, TLAPS

\* The two flushes of Deinitialize empty the upper map, then the lower one.
StopInv ==
    /\ stop # "run" => pending = NoEntries
    /\ stop # "run" => \A r \in Readers : reader[r].pc = "idle"
    /\ ~failed /\ (stop = "second" \/ (stop = "first" /\ flush = "flipped"))
         => upper = NoEntries
    /\ ~failed /\ stop = "second" /\ flush = "flipped" => lower = NoEntries
    /\ stop = "done" => flush = "idle"

\* The values that the lookups still to come can find are among those seen.
ReaderInv ==
    \A r \in Readers :
        /\ reader[r].pc # "idle" => Content[reader[r].key] \in reader[r].seen
        /\ reader[r].pc = "lower" => flipped[reader[r].key] \in reader[r].seen
        /\ reader[r].pc = "table" /\ ~reader[r].late
             => /\ flipped[reader[r].key] \in reader[r].seen
                /\ db[reader[r].key] \in reader[r].seen

IInv ==
    /\ TypeOK
    /\ TableIsSnapshot
    /\ StoreMatchesChain
    /\ WalksAreExact
    /\ StopInv
    /\ ReaderInv
    /\ ReadsLinearizable

-----------------------------------------------------------------------------
USE DEF ReaderStates

\* A map laid over a table gives a table.
LEMMA OverlayTable ==
    ASSUME NEW m \in Maps, NEW t \in Tables
    PROVE  Overlay(m, t) \in Tables
BY DEF Overlay, Maps, Tables

\* A map laid over a map gives a map.
LEMMA OverlayMap ==
    ASSUME NEW m \in Maps, NEW n \in Maps
    PROVE  Overlay(m, n) \in Maps
BY DEF Overlay, Maps

\* Writing the lower map to the table again changes nothing.
LEMMA OverlayIdem ==
    ASSUME NEW m \in Maps, NEW t \in Tables
    PROVE  Overlay(m, Overlay(m, t)) = Overlay(m, t)
BY DEF Overlay, Maps, Tables

\* An update of the upper map is an update of the content.
LEMMA OverlayAssoc ==
    ASSUME NEW m \in Maps, NEW n \in Maps, NEW t \in Tables
    PROVE  Overlay(Overlay(m, n), t) = Overlay(m, Overlay(n, t))
BY DEF Overlay, Maps, Tables

\* An empty map hides nothing.
LEMMA OverlayNone ==
    ASSUME NEW t \in Tables
    PROVE  Overlay(NoEntries, t) = t /\ NoEntries \in Maps
BY DEF Overlay, NoEntries, Maps, Tables

\* The content is a table.
LEMMA ContentTable ==
    ASSUME TypeOK
    PROVE  Content \in Tables
BY OverlayTable DEF TypeOK, Content

-----------------------------------------------------------------------------
\* Initially everything is empty.
LEMMA InitIInv == Init => IInv
<1> SUFFICES ASSUME Init PROVE IInv
  OBVIOUS
<1>1. db \in Tables /\ NoEntries \in Maps
  BY OverlayNone DEF Init, Tables, Cells
<1>2. TypeOK
  BY <1>1, Zenon DEF Init, TypeOK, IdleReader, IdleWalker, Cells
<1>3. Overlay(lower, db) = db /\ Content = db
  BY <1>1, OverlayNone DEF Init, Content
<1>4. Overlay(pending, Content) = chain
  BY <1>1, <1>3, OverlayNone DEF Init
<1>5. TableIsSnapshot /\ StoreMatchesChain
  BY <1>3, <1>4 DEF Init, TableIsSnapshot, StoreMatchesChain
<1>6. WalksAreExact /\ ReaderInv /\ ReadsLinearizable
  BY DEF Init, WalksAreExact, ReaderInv, ReadsLinearizable, IdleReader, IdleWalker
<1>7. StopInv
  BY DEF Init, StopInv, IdleReader
<1> QED
  BY <1>2, <1>5, <1>6, <1>7 DEF IInv

-----------------------------------------------------------------------------
\* UpdateForkRef moves the chain ahead of the store by the batch that is pending.
LEMMA KeepUpdateForkRef ==
    ASSUME IInv, NEW batch \in Maps, UpdateForkRef(batch)
    PROVE  IInv'
<1>1. TypeOK
  BY DEF IInv
<1>2. Content \in Tables /\ chain \in Tables
  BY <1>1, ContentTable DEF TypeOK
<1>3. TypeOK'
  BY <1>1, <1>2, OverlayTable DEF TypeOK, UpdateForkRef, store, history
<1>4. Content' = Content /\ Overlay(lower, db)' = Overlay(lower, db)
  BY DEF UpdateForkRef, store, Content, Overlay
<1>5. TableIsSnapshot'
  BY <1>4 DEF IInv, TableIsSnapshot, UpdateForkRef, store, history
<1>6. StoreMatchesChain'
  <2>1. crashes = 0 /\ ~failed => Content = chain
    BY <1>2, OverlayNone DEF IInv, StoreMatchesChain, UpdateForkRef
  <2>2. Overlay(pending, Content)' = Overlay(batch, Content)
    BY <1>4 DEF UpdateForkRef, Overlay
  <2> QED
    BY <2>1, <2>2 DEF StoreMatchesChain, UpdateForkRef
<1>7. WalksAreExact'
  BY <1>4 DEF IInv, WalksAreExact, WalkResult, UpdateForkRef, store, Overlay
<1>8. StopInv'
  BY DEF IInv, StopInv, UpdateForkRef, store
<1>9. ReaderInv' /\ ReadsLinearizable'
  BY <1>4 DEF IInv, ReaderInv, ReadsLinearizable, UpdateForkRef, store, history
<1> QED
  BY <1>3, <1>5, <1>6, <1>7, <1>8, <1>9 DEF IInv
\* UpdateUnspent brings the store level with the chain.
LEMMA KeepUpdateUnspent ==
    ASSUME IInv, UpdateUnspent
    PROVE  IInv'
<1>1. TypeOK
  BY DEF IInv
<1>2. Content \in Tables /\ Overlay(lower, db) \in Tables
  BY <1>1, ContentTable, OverlayTable DEF TypeOK
<1>3. Content' = Overlay(pending, Content)
  BY <1>1, <1>2, OverlayAssoc DEF TypeOK, UpdateUnspent, Content, Overlay
<1>4. Content' \in Tables
  BY <1>1, <1>2, <1>3, OverlayTable DEF TypeOK
<1>5. reader' \in [Readers -> ReaderStates]
  BY <1>1, <1>3, <1>4 DEF TypeOK, UpdateUnspent, Witness, Tables
<1>6. TypeOK'
  <2>1. upper' \in Maps /\ pending' \in Maps
    BY <1>1, OverlayMap, OverlayNone DEF TypeOK, UpdateUnspent
  <2>2. \A r \in Readers : /\ reader'[r].pc = reader[r].pc
                            /\ reader'[r].key = reader[r].key
                            /\ reader'[r].val = reader[r].val
    BY <1>1 DEF TypeOK, UpdateUnspent, Witness
  <2> QED
    BY <1>1, <1>5, <2>1, <2>2 DEF TypeOK, UpdateUnspent, history
<1>7. TableIsSnapshot'
  BY DEF IInv, TableIsSnapshot, UpdateUnspent, history, Overlay
<1>8. StoreMatchesChain'
  <2>1. Overlay(pending, Content)' = Content'
    BY <1>4, OverlayNone DEF UpdateUnspent, Overlay, NoEntries
  <2>2. stop' # "done"
    BY DEF UpdateUnspent
  <2> QED
    BY <1>3, <2>1, <2>2 DEF IInv, StoreMatchesChain, UpdateUnspent
<1>9. WalksAreExact'
  BY DEF IInv, WalksAreExact, UpdateUnspent, UpperReaders
<1>10. StopInv'
  BY DEF StopInv, UpdateUnspent
<1>11. ReaderInv'
  <2>1. \A r \in Readers : /\ reader'[r].pc = reader[r].pc
                            /\ reader'[r].key = reader[r].key
                            /\ reader'[r].late = reader[r].late
    BY <1>1 DEF TypeOK, UpdateUnspent, Witness
  <2>2. \A r \in Readers : reader[r].pc # "idle" =>
            /\ Content'[reader[r].key] \in reader'[r].seen
            /\ reader[r].seen \subseteq reader'[r].seen
    BY <1>1, <1>3 DEF TypeOK, UpdateUnspent, Witness
  <2>3. flipped' = flipped /\ db' = db
    BY DEF UpdateUnspent, history
  <2> QED
    BY <2>1, <2>2, <2>3 DEF IInv, ReaderInv
<1>12. ReadsLinearizable'
  BY <1>1 DEF IInv, ReadsLinearizable, TypeOK, UpdateUnspent, Witness
<1> QED
  BY <1>6, <1>7, <1>8, <1>9, <1>10, <1>11, <1>12 DEF IInv

\* Steps of Flush and Deinitialize that move no data.
LEMMA KeepFlushControl ==
    ASSUME IInv, FlushBegin \/ FlushFail \/ FlushUpgrade \/ Deinitialize
    PROVE  IInv'
<1>1. TypeOK
  BY DEF IInv
<1>2. UNCHANGED <<store, chain, pending, reader, walker, crashes, history>>
  BY DEF FlushBegin, FlushFail, FlushUpgrade, Deinitialize, FlushFrame
<1>3. Content' = Content /\ Overlay(lower, db)' = Overlay(lower, db)
  BY <1>2 DEF store, Content, Overlay
<1>4. failed' \in BOOLEAN /\ (failed => failed')
  <2>1. failed \in BOOLEAN
    BY <1>1 DEF TypeOK
  <2>2. CASE FlushFail
    BY <2>1, <2>2, Zenon DEF FlushFail
  <2>3. CASE failed' = failed
    BY <2>1, <2>3, Zenon
  <2> QED
    BY <2>2, <2>3 DEF FlushBegin, FlushUpgrade, Deinitialize
<1>5. /\ flush' \in {"idle", "locked", "committed", "upgrading", "flip", "flipped"}
      /\ stop' \in {"run", "first", "second", "done"}
  BY <1>1 DEF TypeOK, FlushBegin, FlushFail, FlushUpgrade, Deinitialize, AfterFlush
<1>6. TypeOK'
  BY <1>1, <1>2, <1>4, <1>5 DEF TypeOK, store, history
<1>7. TableIsSnapshot'
  BY <1>2, <1>3 DEF IInv, TableIsSnapshot, store, history, FlushBegin, FlushFail,
     FlushUpgrade, Deinitialize
<1>8. StopInv'
  BY <1>1, <1>2, <1>4 DEF IInv, StopInv, TypeOK, store, FlushBegin, FlushFail, FlushUpgrade,
     Deinitialize, AfterFlush
<1>9. StoreMatchesChain'
  <2>1. Overlay(pending, Content)' = Overlay(pending, Content)
    BY <1>2, <1>3 DEF Overlay
  <2>2. ~failed' /\ stop' = "done" => stop = "done"
    BY <1>1, Zenon DEF TypeOK, FlushBegin, FlushFail, FlushUpgrade, Deinitialize, AfterFlush
  <2> QED
    BY <1>2, <1>4, <2>1, <2>2 DEF IInv, StoreMatchesChain, store
<1>10. WalksAreExact' /\ ReaderInv' /\ ReadsLinearizable'
  BY <1>2, <1>3 DEF IInv, WalksAreExact, WalkResult, ReaderInv, ReadsLinearizable, store,
     history, Overlay
<1> QED
  BY <1>6, <1>7, <1>8, <1>9, <1>10 DEF IInv

\* FlushCommit copies the lower map to the table: the content stays.
LEMMA KeepFlushCommit ==
    ASSUME IInv, FlushCommit
    PROVE  IInv'
<1>1. TypeOK /\ TableIsSnapshot
  BY DEF IInv
<1>2. UNCHANGED <<upper, lower, chain, pending, reader, walker, crashes, history, stop, failed>>
  BY DEF FlushCommit, FlushFrame
<1>3. db' = flipped /\ db' \in Tables
  BY <1>1, OverlayTable DEF FlushCommit, TableIsSnapshot, TypeOK
<1>4. Overlay(lower, db)' = Overlay(lower, db)
  BY <1>1, <1>2, OverlayIdem DEF FlushCommit, TypeOK, Overlay
<1>5. Content' = Content
  BY <1>2, <1>4 DEF Content, Overlay
<1>6. TypeOK'
  BY <1>1, <1>2, <1>3 DEF TypeOK, FlushCommit, history
<1>7. TableIsSnapshot'
  BY <1>1, <1>2, <1>3, <1>4 DEF TableIsSnapshot, FlushCommit, history
<1>8. StopInv'
  BY <1>2 DEF IInv, StopInv, FlushCommit
<1>9. StoreMatchesChain'
  <2>1. Overlay(pending, Content)' = Overlay(pending, Content)
    BY <1>2, <1>5 DEF Overlay
  <2>2. stop # "done"
    BY DEF IInv, StopInv, FlushCommit
  <2> QED
    BY <1>2, <2>1, <2>2 DEF IInv, StoreMatchesChain
<1>10. WalksAreExact'
  BY <1>2, <1>5 DEF IInv, WalksAreExact, WalkResult, Overlay
<1>11. ReaderInv' /\ ReadsLinearizable'
  BY <1>2, <1>3, <1>5 DEF IInv, ReaderInv, ReadsLinearizable, history
<1> QED
  BY <1>6, <1>7, <1>8, <1>9, <1>10, <1>11 DEF IInv

\* Flip renames the maps once the lower one is in the table: the content stays.
LEMMA KeepFlip ==
    ASSUME IInv, Flip
    PROVE  IInv'
<1>1. TypeOK /\ TableIsSnapshot
  BY DEF IInv
<1>2. Content \in Tables
  BY <1>1, ContentTable
<1>3. db = flipped /\ Overlay(lower, db) = db
  BY <1>1 DEF TableIsSnapshot, Flip
<1>4. Overlay(lower, db)' = Content
  BY <1>3 DEF Flip, Content, Overlay
<1>5. Content' = Content
  <2>1. Content' = Overlay(NoEntries, Content)
    BY <1>4 DEF Flip, Content, Overlay, NoEntries
  <2> QED
    BY <1>2, <2>1, OverlayNone
<1>6. TypeOK'
  BY <1>1, <1>2, OverlayNone DEF TypeOK, Flip
<1>7. TableIsSnapshot'
  BY <1>3, <1>4 DEF TableIsSnapshot, Flip
<1>8. StopInv'
  <2>1. failed' = failed /\ stop' = stop /\ pending' = pending /\ reader' = reader
    BY DEF Flip
  <2>2. upper' = NoEntries /\ lower' = upper /\ flush = "flip" /\ flush' = "flipped"
    BY DEF Flip
  <2> QED
    BY <2>1, <2>2 DEF IInv, StopInv, NoEntries
<1>9. StoreMatchesChain'
  <2>1. Overlay(pending, Content)' = Overlay(pending, Content)
    BY <1>5 DEF Flip, Overlay
  <2>2. stop # "done"
    BY DEF IInv, StopInv, Flip
  <2> QED
    BY <2>1, <2>2 DEF IInv, StoreMatchesChain, Flip
<1>10. WalksAreExact'
  BY DEF WalksAreExact, Flip, UpperReaders
<1>11. ReaderInv' /\ ReadsLinearizable'
  BY <1>5 DEF IInv, ReaderInv, ReadsLinearizable, Flip
<1> QED
  BY <1>6, <1>7, <1>8, <1>9, <1>10, <1>11 DEF IInv
\* FlushEnd ends one of the two flushes of Deinitialize.
LEMMA KeepFlushEnd ==
    ASSUME IInv, FlushEnd
    PROVE  IInv'
<1>1. TypeOK
  BY DEF IInv
<1>2. UNCHANGED <<store, chain, pending, reader, walker, crashes, history, failed>>
  BY DEF FlushEnd, FlushFrame
<1>3. Content' = Content /\ Overlay(lower, db)' = Overlay(lower, db)
  BY <1>2 DEF store, Content, Overlay
<1>4. TypeOK'
  BY <1>1, <1>2 DEF TypeOK, store, history, FlushEnd, AfterFlush
<1>5. TableIsSnapshot'
  BY <1>2, <1>3 DEF IInv, TableIsSnapshot, store, history, FlushEnd
<1>6. StopInv'
  BY <1>1, <1>2 DEF IInv, StopInv, TypeOK, store, FlushEnd, AfterFlush
<1>7. StoreMatchesChain'
  <2>1. Overlay(pending, Content)' = Overlay(pending, Content)
    BY <1>2, <1>3 DEF Overlay
  <2>2. ASSUME ~failed, stop' = "done"
        PROVE  Overlay(pending, Content) = db
    <3>1. stop = "second" \/ stop = "done"
      BY <1>1, <2>2 DEF FlushEnd, AfterFlush, TypeOK
    <3>2. upper = NoEntries /\ lower = NoEntries /\ pending = NoEntries
      BY <2>2, <3>1 DEF IInv, StopInv, FlushEnd
    <3> QED
      BY <1>1, <3>2, OverlayNone DEF Content, TypeOK
  <2> QED
    BY <1>2, <2>1, <2>2 DEF IInv, StoreMatchesChain, store
<1>8. WalksAreExact' /\ ReaderInv' /\ ReadsLinearizable'
  BY <1>2, <1>3 DEF IInv, WalksAreExact, WalkResult, ReaderInv, ReadsLinearizable, store,
     history, Overlay
<1> QED
  BY <1>4, <1>5, <1>6, <1>7, <1>8 DEF IInv

\* What a step of a ReadUnspent leaves alone, and so keeps.
LEMMA ReadFrameKeeps ==
    ASSUME IInv, ReadFrame
    PROVE  /\ Content' = Content
           /\ TableIsSnapshot' /\ StoreMatchesChain' /\ WalksAreExact'
<1>1. UNCHANGED <<upper, lower, db, chain, pending, flush, stop, walker, crashes, failed,
                  flipped, flippedBefore>>
  BY DEF ReadFrame, store, history
<1>2. Content' = Content /\ Overlay(lower, db)' = Overlay(lower, db)
  BY <1>1 DEF Content, Overlay
<1>3. Overlay(pending, Content)' = Overlay(pending, Content)
  BY <1>1, <1>2 DEF Overlay
<1>4. TableIsSnapshot'
  BY <1>1, <1>2 DEF IInv, TableIsSnapshot
<1>5. StoreMatchesChain'
  BY <1>1, <1>3 DEF IInv, StoreMatchesChain
<1>6. WalksAreExact'
  BY <1>1, <1>2 DEF IInv, WalksAreExact, WalkResult, Overlay
<1> QED
  BY <1>2, <1>4, <1>5, <1>6

\* A step of a ReadUnspent that leaves its reader in a good state is good.
LEMMA KeepReader ==
    ASSUME IInv, ReadFrame,
           NEW r \in Readers, NEW rec, SetReader(r, rec),
           rec \in ReaderStates,
           rec.pc = "done" => rec.val \in Cells,
           rec.pc # "idle" => /\ stop = "run"
                              /\ rec.key \in Keys
                              /\ Content[rec.key] \in rec.seen,
           rec.pc = "lower" => flipped[rec.key] \in rec.seen,
           rec.pc = "table" /\ ~rec.late => /\ flipped[rec.key] \in rec.seen
                                           /\ db[rec.key] \in rec.seen,
           rec.pc = "done" /\ ~rec.late => rec.val \in rec.seen
    PROVE  IInv'
<1>1. /\ Content' = Content
      /\ TableIsSnapshot' /\ StoreMatchesChain' /\ WalksAreExact'
  BY ReadFrameKeeps
<1>2. TypeOK
  BY DEF IInv
<1>3. UNCHANGED <<upper, lower, db, chain, pending, flush, stop, walker, crashes, failed,
                  flipped, flippedBefore>>
  BY DEF ReadFrame, store, history
<1>4. /\ reader'[r] = rec
      /\ \A q \in Readers : q # r => reader'[q] = reader[q]
  BY <1>2 DEF SetReader, TypeOK
<1>5. TypeOK'
  BY <1>2, <1>3 DEF TypeOK, SetReader
<1>6. StopInv'
  BY <1>3, <1>4 DEF IInv, StopInv
<1>7. ReaderInv'
  BY <1>1, <1>3, <1>4 DEF IInv, ReaderInv
<1>8. ReadsLinearizable'
  BY <1>4 DEF IInv, ReadsLinearizable
<1> QED
  BY <1>1, <1>5, <1>6, <1>7, <1>8 DEF IInv
\* The lookups of ReadUnspent.
LEMMA KeepRead ==
    ASSUME IInv, NEW r \in Readers,
           \/ \E k \in Keys : ReadUpper(r, k)
           \/ ReadLower(r) \/ ReadTable(r) \/ ReadReturn(r)
    PROVE  IInv'
<1>1. TypeOK /\ Content \in Tables
  BY ContentTable DEF IInv
<1>2. Overlay(lower, db) = flipped
  BY DEF IInv, TableIsSnapshot
<1>3. /\ flipped \in Tables /\ db \in Tables /\ upper \in Maps /\ lower \in Maps
      /\ reader[r] \in ReaderStates
  BY <1>1 DEF TypeOK
<1>4. reader[r].pc # "idle" => /\ stop = "run"
                               /\ reader[r].key \in Keys
                               /\ Content[reader[r].key] \in reader[r].seen
  BY <1>1 DEF IInv, TypeOK, StopInv, ReaderInv
<1>5. CASE \E k \in Keys : ReadUpper(r, k)
  <2>1. PICK k \in Keys : ReadUpper(r, k)
    BY <1>5
  <2>2. upper[k] = NONE => Content[k] = flipped[k]
    BY <1>2 DEF Content, Overlay
  <2>3. upper[k] # NONE => upper[k] = Content[k] /\ upper[k] \in Cells
    BY <1>3 DEF Content, Overlay, Maps
  <2>4. Content[k] \in Cells
    BY <1>1 DEF Tables
  <2>5. upper[k] \in Cells \cup {NONE}
    BY <1>3 DEF Maps
  <2> DEFINE rec == [pc   |-> IF upper[k] = NONE THEN "lower" ELSE "done",
                     key  |-> k,
                     val  |-> upper[k],
                     seen |-> {Content[k]},
                     late |-> FALSE]
  <2>6. SetReader(r, rec) /\ ReadFrame /\ stop = "run"
    BY <2>1 DEF ReadUpper
  <2>7. rec \in ReaderStates
    BY <2>4, <2>5
  <2>8. /\ rec.pc = "done" => rec.val \in Cells /\ rec.val \in rec.seen
        /\ rec.key \in Keys /\ Content[rec.key] \in rec.seen
        /\ rec.pc = "lower" => flipped[rec.key] \in rec.seen
        /\ rec.pc # "table"
    BY <2>2, <2>3
  <2> HIDE DEF rec
  <2> QED
    BY <2>6, <2>7, <2>8, KeepReader
<1>6. CASE ReadLower(r)
  <2>1. reader[r].pc = "lower" /\ ReadFrame
    BY <1>6 DEF ReadLower
  <2>2. reader[r].key \in Keys /\ flipped[reader[r].key] \in reader[r].seen
    BY <2>1, <1>4 DEF IInv, ReaderInv
  <2>3. CASE LowerUpgraded
    <3> DEFINE rec == [reader[r] EXCEPT !.pc = "table", !.late = (flush = "flipped")]
    <3>1. SetReader(r, rec)
      BY <1>6, <2>3 DEF ReadLower
    <3>2. ~rec.late => db[rec.key] = flipped[rec.key]
      BY <1>3, <2>3, Zenon DEF IInv, TableIsSnapshot, LowerUpgraded
    <3>3. rec \in ReaderStates
      BY <1>3, ZenonT(40)
    <3>4. rec.pc = "table" /\ rec.key = reader[r].key /\ rec.seen = reader[r].seen
      BY <1>3
    <3> HIDE DEF rec
    <3> QED
      BY <1>4, <2>1, <2>2, <3>1, <3>2, <3>3, <3>4, KeepReader
  <2>4. CASE ~LowerUpgraded /\ lower[reader[r].key] = NONE
    <3> DEFINE rec == [reader[r] EXCEPT !.pc = "table"]
    <3>1. SetReader(r, rec)
      BY <1>6, <2>4 DEF ReadLower
    <3>2. db[reader[r].key] = flipped[reader[r].key]
      BY <1>2, <2>2, <2>4 DEF Overlay
    <3>3. rec \in ReaderStates
      BY <1>3
    <3>4. rec.pc = "table" /\ rec.key = reader[r].key /\ rec.seen = reader[r].seen
      BY <1>3
    <3> HIDE DEF rec
    <3> QED
      BY <1>4, <2>1, <2>2, <3>1, <3>2, <3>3, <3>4, KeepReader
  <2>5. CASE ~LowerUpgraded /\ lower[reader[r].key] # NONE
    <3> DEFINE rec == [reader[r] EXCEPT !.pc = "done", !.val = lower[reader[r].key]]
    <3>1. SetReader(r, rec)
      BY <1>6, <2>5 DEF ReadLower, Return
    <3>2. /\ lower[reader[r].key] = flipped[reader[r].key]
          /\ lower[reader[r].key] \in Cells
      BY <1>2, <1>3, <2>2, <2>5 DEF Overlay, Maps
    <3>3. rec \in ReaderStates
      BY <1>3, <3>2, Zenon
    <3>4. /\ rec.pc = "done" /\ rec.key = reader[r].key /\ rec.seen = reader[r].seen
          /\ rec.val = lower[reader[r].key]
      BY <1>3
    <3> HIDE DEF rec
    <3> QED
      BY <1>4, <2>1, <2>2, <3>1, <3>2, <3>3, <3>4, KeepReader
  <2> QED
    BY <2>3, <2>4, <2>5
<1>7. CASE ReadTable(r)
  <2> DEFINE rec == [reader[r] EXCEPT !.pc = "done", !.val = db[reader[r].key]]
  <2>1. SetReader(r, rec) /\ ReadFrame /\ reader[r].pc = "table"
    BY <1>7 DEF ReadTable, Return
  <2>2. db[reader[r].key] \in Cells
    BY <1>3, <1>4, <2>1 DEF Tables
  <2>3. rec \in ReaderStates
    BY <1>3, <2>2, Zenon
  <2>4. /\ rec.pc = "done" /\ rec.key = reader[r].key /\ rec.seen = reader[r].seen
        /\ rec.val = db[reader[r].key] /\ rec.late = reader[r].late
    BY <1>3
  <2>5. ~rec.late => rec.val \in rec.seen
    BY <2>1, <2>4 DEF IInv, ReaderInv
  <2> HIDE DEF rec
  <2> QED
    BY <1>4, <2>1, <2>2, <2>3, <2>4, <2>5, KeepReader
<1>8. CASE ReadReturn(r)
  <2>1. SetReader(r, IdleReader) /\ ReadFrame
    BY <1>8 DEF ReadReturn
  <2>2. /\ IdleReader \in ReaderStates
        /\ IdleReader.pc = "idle"
    BY DEF IdleReader
  <2> QED
    BY <2>1, <2>2, KeepReader
<1> QED
  BY <1>5, <1>6, <1>7, <1>8

\* A walk sees the table, under maps that no step changes before the walk ends.
LEMMA KeepWalk ==
    ASSUME IInv, NEW w \in Walkers, WalkLock(w) \/ WalkScan(w) \/ WalkEnd(w)
    PROVE  IInv'
<1>1. TypeOK
  BY DEF IInv
<1>2. UNCHANGED <<upper, lower, db, chain, pending, flush, stop, reader, crashes, failed,
                  flipped, flippedBefore>>
  BY DEF WalkLock, WalkScan, WalkEnd, WalkFrame, store, history
<1>3. Content' = Content /\ Overlay(lower, db)' = Overlay(lower, db)
  BY <1>2 DEF Content, Overlay
<1>4. Overlay(pending, Content)' = Overlay(pending, Content)
  BY <1>2, <1>3 DEF Overlay
<1>w. PICK pcNew \in {"idle", "upper", "both", "scan"}, tableNew \in Tables \cup {NONE} :
        /\ walker' = [walker EXCEPT ![w] = [pc |-> pcNew, table |-> tableNew]]
        /\ pcNew = "scan" => tableNew = db
  <2>1. db \in Tables
    BY <1>1 DEF TypeOK
  <2>2. CASE WalkLock(w)
    BY <2>2 DEF WalkLock, SetWalker
  <2>3. CASE WalkScan(w)
    BY <2>1, <2>3, Zenon DEF WalkScan, SetWalker
  <2>4. CASE WalkEnd(w)
    BY <2>4, Zenon DEF WalkEnd, SetWalker
  <2> QED
    BY <2>2, <2>3, <2>4
<1>5. TypeOK'
  <2> DEFINE W == [pc : {"idle", "upper", "both", "scan"}, table : Tables \cup {NONE}]
  <2>1. walker \in [Walkers -> W] /\ db \in Tables
    BY <1>1 DEF TypeOK
  <2>2. \A v \in Walkers : walker[v].pc = "scan" => walker[v].table \in Tables
    BY <1>1 DEF TypeOK
  <2>3. walker' \in [Walkers -> W]
    BY <1>w, <2>1
  <2>4. \A v \in Walkers : walker'[v].pc = "scan" => walker'[v].table \in Tables
    BY <1>w, <2>1, <2>2
  <2> QED
    BY <1>1, <1>2, <2>3, <2>4 DEF TypeOK
<1>6. WalksAreExact'
  <2> SUFFICES ASSUME NEW v \in Walkers, walker'[v].pc = "scan"
               PROVE  WalkResult(v)' = Content'
    BY DEF WalksAreExact
  <2>1. \/ walker'[v] = walker[v]
        \/ walker'[v].table = db
    <3>1. DOMAIN walker = Walkers
      BY <1>1 DEF TypeOK
    <3> QED
      BY <1>w, <3>1
  <2>2. CASE walker'[v] = walker[v]
    <3>1. WalkResult(v) = Content
      BY <2>2 DEF IInv, WalksAreExact
    <3>2. WalkResult(v)' = WalkResult(v)
      BY <1>2, <2>2 DEF WalkResult, Overlay
    <3> QED
      BY <3>1, <3>2, <1>3
  <2>3. CASE walker'[v].table = db
    <3>1. WalkResult(v)' = Content
      BY <1>2, <2>3 DEF WalkResult, Content, Overlay
    <3> QED
      BY <3>1, <1>3
  <2> QED
    BY <2>1, <2>2, <2>3
<1>7. TableIsSnapshot' /\ StoreMatchesChain' /\ StopInv' /\ ReaderInv' /\ ReadsLinearizable'
  BY <1>2, <1>3, <1>4 DEF IInv, TableIsSnapshot, StoreMatchesChain, StopInv, ReaderInv,
     ReadsLinearizable
<1> QED
  BY <1>5, <1>6, <1>7 DEF IInv

\* A process that starts has empty maps; after a clean stop nothing is missing.
LEMMA KeepRestart ==
    ASSUME IInv, CleanRestart \/ Crash
    PROVE  IInv'
<1>1. TypeOK
  BY DEF IInv
<1>2. PICK c \in Nat : Restart(c) /\ (c = 0 => stop = "done" /\ crashes = 0)
  BY <1>1 DEF TypeOK, CleanRestart, Crash
<1>3. Content' = db /\ Overlay(lower, db)' = db /\ Overlay(pending, Content)' = db
  BY <1>1, <1>2, OverlayNone DEF Restart, Content, Overlay, TypeOK, NoEntries
<1>4. TypeOK'
  BY <1>1, <1>2, OverlayNone DEF TypeOK, Restart, IdleReader, IdleWalker
<1>5. TableIsSnapshot'
  BY <1>2, <1>3 DEF TableIsSnapshot, Restart
<1>6. StoreMatchesChain'
  BY <1>2, <1>3 DEF IInv, StoreMatchesChain, Restart
<1>7. WalksAreExact' /\ StopInv' /\ ReaderInv' /\ ReadsLinearizable'
  BY <1>2 DEF WalksAreExact, StopInv, ReaderInv, ReadsLinearizable, Restart, IdleReader,
     IdleWalker
<1> QED
  BY <1>4, <1>5, <1>6, <1>7 DEF IInv

\* A stuttering step changes nothing the invariant speaks of.
LEMMA KeepStutter ==
    ASSUME IInv, UNCHANGED vars
    PROVE  IInv'
<1>1. UNCHANGED <<upper, lower, db, chain, pending, flush, stop, reader, walker, crashes,
                  failed, flipped, flippedBefore>>
  BY DEF vars, store, history
<1>2. Content' = Content /\ Overlay(lower, db)' = Overlay(lower, db)
  BY <1>1 DEF Content, Overlay
<1>3. Overlay(pending, Content)' = Overlay(pending, Content)
  BY <1>1, <1>2 DEF Overlay
<1>4. TypeOK'
  BY <1>1 DEF IInv, TypeOK
<1>5. WalksAreExact'
  BY <1>1, <1>2, Zenon DEF IInv, WalksAreExact, WalkResult, Overlay
<1>6. TableIsSnapshot' /\ StoreMatchesChain' /\ StopInv' /\ ReaderInv' /\ ReadsLinearizable'
  BY <1>1, <1>2, <1>3 DEF IInv, TableIsSnapshot, StoreMatchesChain, StopInv, ReaderInv,
     ReadsLinearizable
<1> QED
  BY <1>4, <1>5, <1>6 DEF IInv

-----------------------------------------------------------------------------
\* The invariant holds throughout, for every number of outputs, readers and walks.
THEOREM AlwaysIInv == Spec => []IInv
<1>1. IInv /\ [Next]_vars => IInv'
  <2> SUFFICES ASSUME IInv, [Next]_vars PROVE IInv'
    OBVIOUS
  <2>1. CASE \E batch \in Maps \ {NoEntries} : UpdateForkRef(batch)
    BY <2>1, KeepUpdateForkRef
  <2>2. CASE UpdateUnspent
    BY <2>2, KeepUpdateUnspent
  <2>3. CASE FlushBegin \/ FlushFail \/ FlushUpgrade \/ Deinitialize
    BY <2>3, KeepFlushControl
  <2>4. CASE FlushCommit
    BY <2>4, KeepFlushCommit
  <2>5. CASE Flip
    BY <2>5, KeepFlip
  <2>6. CASE FlushEnd
    BY <2>6, KeepFlushEnd
  <2>7. CASE \E r \in Readers : (\E k \in Keys : ReadUpper(r, k))
                               \/ ReadLower(r) \/ ReadTable(r) \/ ReadReturn(r)
    BY <2>7, KeepRead
  <2>8. CASE \E w \in Walkers : WalkLock(w) \/ WalkScan(w) \/ WalkEnd(w)
    BY <2>8, KeepWalk
  <2>9. CASE CleanRestart \/ Crash
    BY <2>9, KeepRestart
  <2>10. CASE UNCHANGED vars
    BY <2>10, KeepStutter
  <2> QED
    BY <2>1, <2>2, <2>3, <2>4, <2>5, <2>6, <2>7, <2>8, <2>9, <2>10 DEF Next, Work
<1> QED
  BY <1>1, InitIInv, PTL DEF Spec

\* The two maps, the table and the threads' states always have their types.
THEOREM TypeCorrect == Spec => []TypeOK
BY AlwaysIInv, PTL DEF IInv

\* A crash at any point leaves the table as it was at a flip: whole batches of
\* Flush, in their order (CForkUnspentDB::Flush).
THEOREM CrashLeavesSnapshot == Spec => []TableIsSnapshot
BY AlwaysIInv, PTL DEF IInv

\* The maps and the table together always hold the outputs of the fork's last
\* block, and the two flushes of Deinitialize leave all of them in the table.
THEOREM StoreCorrect == Spec => []StoreMatchesChain
BY AlwaysIInv, PTL DEF IInv

\* ReadUnspent returns what the store held at some moment of the call, although
\* it holds no lock from one lookup to the next.
THEOREM ReadsCorrect == Spec => []ReadsLinearizable
BY AlwaysIInv, PTL DEF IInv

\* WalkThroughUnspent and Copy see exactly the content.
THEOREM WalksCorrect == Spec => []WalksAreExact
BY AlwaysIInv, PTL DEF IInv
=============================================================================
