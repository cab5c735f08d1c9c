------------------------------ MODULE Iterators ------------------------------
(***************************************************************************)
(* The table files of LevelDB (leveldb/table) and an iterator over a snapshot of *)
(* the database.                                                              *)
(*                                                                           *)
(* Tables: how sorted entries are packed into blocks with shared key prefixes and *)
(* restart points, how the index and the filters over the blocks are made, and    *)
(* how a block is searched.  An internal key is <<user, tag>>: the user key, and a *)
(* tag that is smaller the newer the entry is (0 stands for kMaxSequenceNumber).   *)
(* The two parts are what a prefix can share.  An entry is [key, val]; every      *)
(* entry takes one unit of a block, and a block's trailer one unit of the file.    *)
(*                                                                           *)
(* Iterators: DBIter (leveldb/db/db_iter.cc) over a MergingIterator              *)
(* (leveldb/table/merger.cc) over one TwoLevelIterator                           *)
(* (leveldb/table/two_level_iterator.cc) per table.  The wallet's stores walk    *)
(* their records with it (storage/leveldbeng.cpp).                              *)
(***************************************************************************)
EXTENDS Integers, Sequences, FiniteSets, FiniteSetsExt, SequencesExt

CONSTANTS
    RestartInterval,    \* options.block_restart_interval
    BlockSize,          \* options.block_size
    FilterBase,         \* kFilterBase
    ItUsers,            \* the user keys
    ItScenarios         \* [sets: the entries of each table, seq: the snapshot, cut: short index keys]

VARIABLES
    itScen,             \* the scenario
    itTabs,             \* the tables
    it,                 \* the DBIter
    itPos               \* the user key a cursor over the visible records stands on; 0: none

itVars == <<itScen, itTabs, it, itPos>>

\* InternalKeyComparator::Compare(a, b) < 0.
KeyBefore(a, b) == a[1] < b[1] \/ (a[1] = b[1] /\ a[2] < b[2])

\* The index key after a block that ends with a, before one that starts with b: with
\* long keys it may be cut to a shorter user key in between, and the newest tag.
FindShortestSeparator(a, b, cut) == IF cut /\ a[1] + 1 < b[1] THEN <<a[1] + 1, 0>> ELSE a
FindShortSuccessor(a, cut) == IF cut THEN <<a[1] + 1, 0>> ELSE a

-----------------------------------------------------------------------------
(* BlockBuilder. *)
NewBlock == [ents |-> <<>>, restarts |-> <<0>>, counter |-> 0, last |-> <<>>]

SharedPrefix(a, b) ==
    Cardinality({i \in 1..Min({Len(a), Len(b)}) : SubSeq(a, 1, i) = SubSeq(b, 1, i)})

AppendEntry(b, shared, restarts, counter, e) ==
    [ents |-> Append(b.ents, [shared |-> shared, delta |-> SubSeq(e.key, shared + 1, Len(e.key)),
                              val |-> e.val]),
     restarts |-> restarts, counter |-> counter + 1, last |-> e.key]
BlockAdd(b, interval, e) ==
    IF b.counter < interval THEN AppendEntry(b, SharedPrefix(b.last, e.key), b.restarts, b.counter, e)
    ELSE AppendEntry(b, 0, Append(b.restarts, Len(b.ents)), 0, e)

-----------------------------------------------------------------------------
(* FilterBlockBuilder: keys not in a filter yet, and the filters made, each the      *)
(* set of its user keys (bloom.cc answers "no" for no key that was added).        *)
NewFilter == [keys |-> {}, filters |-> <<>>]
FilterAddKey(f, key) == [f EXCEPT !.keys = @ \cup {key[1]}]
GenerateFilter(f) == [keys |-> {}, filters |-> Append(f.filters, f.keys)]
RECURSIVE FilterStartBlock(_, _)
FilterStartBlock(f, offset) ==
    IF offset \div FilterBase > Len(f.filters) THEN FilterStartBlock(GenerateFilter(f), offset) ELSE f
FilterFinish(f) == IF f.keys # {} THEN GenerateFilter(f).filters ELSE f.filters
\* FilterBlockReader.
KeyMayMatch(filters, offset, key) ==
    offset \div FilterBase < Len(filters) => key[1] \in filters[offset \div FilterBase + 1]

-----------------------------------------------------------------------------
(* TableBuilder: blocks written so far by their offset, the data block in hand, the   *)
(* index block, and the handle of a block whose index entry waits for the next key.  *)
NewTable == [blocks |-> <<>>, offset |-> 0, data |-> NewBlock, index |-> NewBlock,
             last |-> <<>>, pending |-> -1, filter |-> NewFilter]

IndexPending(r, sep) ==
    IF r.pending = -1 THEN r
    ELSE [r EXCEPT !.index = BlockAdd(@, 1, [key |-> sep, val |-> r.pending]), !.pending = -1]

WrittenBlock(r, next) ==
    [r EXCEPT !.blocks = Append(@, [offset |-> r.offset, block |-> r.data]), !.data = NewBlock,
              !.pending = r.offset, !.offset = next, !.filter = FilterStartBlock(@, next)]
TableFlush(r) ==
    IF r.data.ents = <<>> THEN r ELSE WrittenBlock(r, r.offset + Len(r.data.ents) + 1)

AddData(r, e) ==
    [r EXCEPT !.filter = FilterAddKey(@, e.key), !.last = e.key, !.data = BlockAdd(@, RestartInterval, e)]
FlushIfFull(r) == IF Len(r.data.ents) >= BlockSize THEN TableFlush(r) ELSE r
TableAdd(r, e, cut) ==
    FlushIfFull(AddData(IndexPending(r, IF r.pending = -1 THEN <<>>
                                        ELSE FindShortestSeparator(r.last, e.key, cut)), e))

IndexLast(r, cut) ==
    IndexPending(r, IF r.pending = -1 THEN <<>> ELSE FindShortSuccessor(r.last, cut))
\* Table::Open of what TableBuilder::Finish wrote.
OpenTable(r) == [blocks |-> r.blocks, index |-> r.index, filters |-> FilterFinish(r.filter)]
ItBuildTable(ents, cut) ==
    OpenTable(IndexLast(TableFlush(FoldLeft(LAMBDA r, e : TableAdd(r, e, cut), NewTable, ents)), cut))

-----------------------------------------------------------------------------
(* Block::Iter: cur, the entry it stands on (Len(b.ents) when it is not valid), next,    *)
(* where the value in hand ends, ri, the restart point it is under, and key.       *)
NewBlockIter(b) == [cur |-> Len(b.ents), next |-> 0, ri |-> Len(b.restarts), key |-> <<>>]
BlockValid(b, bi) == bi.cur < Len(b.ents)
BlockVal(b, bi) == b.ents[bi.cur + 1].val

SeekToRestartPoint(b, bi, i) == [bi EXCEPT !.key = <<>>, !.ri = i, !.next = b.restarts[i + 1]]

RECURSIVE RestartUnder(_, _, _)
RestartUnder(b, ri, cur) ==
    IF ri + 1 < Len(b.restarts) /\ b.restarts[ri + 2] < cur THEN RestartUnder(b, ri + 1, cur) ELSE ri

CorruptionError(b) == [NewBlockIter(b) EXCEPT !.next = Len(b.ents)]
ParseEntry(b, bi, e) ==
    IF Len(bi.key) < e.shared THEN CorruptionError(b)
    ELSE [cur |-> bi.next, next |-> bi.next + 1, ri |-> RestartUnder(b, bi.ri, bi.next),
          key |-> SubSeq(bi.key, 1, e.shared) \o e.delta]
ParseNextKey(b, bi) ==
    IF bi.next >= Len(b.ents) THEN [bi EXCEPT !.cur = Len(b.ents), !.ri = Len(b.restarts)]
    ELSE ParseEntry(b, bi, b.ents[bi.next + 1])

BlockSeekToFirst(b, bi) == ParseNextKey(b, SeekToRestartPoint(b, bi, 0))

RECURSIVE ParseUntil(_, _, _)
ParseUntil(b, bi, end) ==
    IF BlockValid(b, bi) /\ bi.next < end THEN ParseUntil(b, ParseNextKey(b, bi), end) ELSE bi
BlockSeekToLast(b, bi) ==
    ParseUntil(b, ParseNextKey(b, SeekToRestartPoint(b, bi, Len(b.restarts) - 1)), Len(b.ents))

RECURSIVE RestartBefore(_, _, _)
RestartBefore(b, ri, original) ==
    IF b.restarts[ri + 1] < original THEN ri
    ELSE IF ri = 0 THEN -1 ELSE RestartBefore(b, ri - 1, original)
PrevFrom(b, bi, ri) ==
    IF ri = -1 THEN [bi EXCEPT !.cur = Len(b.ents), !.ri = Len(b.restarts)]
    ELSE ParseUntil(b, ParseNextKey(b, SeekToRestartPoint(b, bi, ri)), bi.cur)
BlockPrev(b, bi) == PrevFrom(b, bi, RestartBefore(b, bi.ri, bi.cur))

\* The last restart point with a key before target; -1 when a restart point shares a prefix.
RECURSIVE SeekRestart(_, _, _, _)
SeekHalf(b, target, left, right, mid) ==
    IF b.ents[b.restarts[mid + 1] + 1].shared # 0 THEN -1
    ELSE IF KeyBefore(b.ents[b.restarts[mid + 1] + 1].delta, target) THEN SeekRestart(b, target, mid, right)
    ELSE SeekRestart(b, target, left, mid - 1)
SeekRestart(b, target, left, right) ==
    IF left < right THEN SeekHalf(b, target, left, right, (left + right + 1) \div 2) ELSE left
RECURSIVE SeekLinear(_, _, _)
SeekLinear(b, bi, target) ==
    IF BlockValid(b, bi) /\ KeyBefore(bi.key, target) THEN SeekLinear(b, ParseNextKey(b, bi), target)
    ELSE bi
SeekFrom(b, bi, left, target) ==
    IF left = -1 THEN CorruptionError(b)
    ELSE SeekLinear(b, ParseNextKey(b, SeekToRestartPoint(b, bi, left)), target)
BlockSeek(b, bi, target) == SeekFrom(b, bi, SeekRestart(b, target, 0, Len(b.restarts) - 1), target)

-----------------------------------------------------------------------------
\* Table::BlockReader: the block at a handle.
BlockAt(t, handle) == (CHOOSE x \in Range(t.blocks) : x.offset = handle).block

\* Table::InternalGet: the entry at or after key in the block the index names, if any.
GetInBlock(b, bi) == IF BlockValid(b, bi) THEN {[key |-> bi.key, val |-> BlockVal(b, bi)]} ELSE {}
GetAt(t, handle, key) ==
    IF ~KeyMayMatch(t.filters, handle, key) THEN {}
    ELSE GetInBlock(BlockAt(t, handle), BlockSeek(BlockAt(t, handle), NewBlockIter(BlockAt(t, handle)), key))
InternalGetAt(t, bi, key) == IF BlockValid(t.index, bi) THEN GetAt(t, BlockVal(t.index, bi), key) ELSE {}
InternalGet(t, key) == InternalGetAt(t, BlockSeek(t.index, NewBlockIter(t.index), key), key)

-----------------------------------------------------------------------------
(* TwoLevelIterator: the index iterator, the handle of the data block in hand (-1: none)  *)
(* and the iterator over it.                                                  *)
NoData == [cur |-> 0, next |-> 0, ri |-> 0, key |-> <<>>]
NewTableIter(t) == [index |-> NewBlockIter(t.index), handle |-> -1, data |-> NoData]
TValid(t, i) == i.handle # -1 /\ BlockValid(BlockAt(t, i.handle), i.data)
TKey(i) == i.data.key
TVal(t, i) == BlockVal(BlockAt(t, i.handle), i.data)

OnHandle(t, i, handle) ==
    IF i.handle = handle THEN i
    ELSE [i EXCEPT !.handle = handle, !.data = NewBlockIter(BlockAt(t, handle))]
InitDataBlock(t, i) ==
    IF BlockValid(t.index, i.index) THEN OnHandle(t, i, BlockVal(t.index, i.index))
    ELSE [i EXCEPT !.handle = -1, !.data = NoData]
OnData(t, i, Op(_, _)) ==
    IF i.handle = -1 THEN i ELSE [i EXCEPT !.data = Op(BlockAt(t, i.handle), i.data)]

RECURSIVE SkipForward(_, _)
SkipForward(t, i) ==
    IF TValid(t, i) THEN i
    ELSE IF ~BlockValid(t.index, i.index) THEN [i EXCEPT !.handle = -1, !.data = NoData]
    ELSE SkipForward(t, OnData(t, InitDataBlock(t, [i EXCEPT !.index = ParseNextKey(t.index, @)]),
                               BlockSeekToFirst))
RECURSIVE SkipBackward(_, _)
SkipBackward(t, i) ==
    IF TValid(t, i) THEN i
    ELSE IF ~BlockValid(t.index, i.index) THEN [i EXCEPT !.handle = -1, !.data = NoData]
    ELSE SkipBackward(t, OnData(t, InitDataBlock(t, [i EXCEPT !.index = BlockPrev(t.index, @)]),
                                BlockSeekToLast))

TSeek(t, i, target) ==
    SkipForward(t, OnData(t, InitDataBlock(t, [i EXCEPT !.index = BlockSeek(t.index, @, target)]),
                          LAMBDA b, d : BlockSeek(b, d, target)))
TSeekToFirst(t, i) ==
    SkipForward(t, OnData(t, InitDataBlock(t, [i EXCEPT !.index = BlockSeekToFirst(t.index, @)]),
                          BlockSeekToFirst))
TSeekToLast(t, i) ==
    SkipBackward(t, OnData(t, InitDataBlock(t, [i EXCEPT !.index = BlockSeekToLast(t.index, @)]),
                           BlockSeekToLast))
TNext(t, i) == SkipForward(t, OnData(t, i, ParseNextKey))
TPrev(t, i) == SkipBackward(t, OnData(t, i, BlockPrev))

-----------------------------------------------------------------------------
(* MergingIterator: its children, the one it stands on (0: none), and its direction.   *)
NewMergingIter(ts) == [kids |-> [n \in DOMAIN ts |-> NewTableIter(ts[n])], cur |-> 0, fwd |-> TRUE]
MValid(m) == m.cur # 0
MKey(m) == TKey(m.kids[m.cur])
MVal(ts, m) == TVal(ts[m.cur], m.kids[m.cur])

ValidKids(ts, m) == {n \in DOMAIN ts : TValid(ts[n], m.kids[n])}
FindSmallest(ts, m) ==
    [m EXCEPT !.cur = IF ValidKids(ts, m) = {} THEN 0
                      ELSE CHOOSE n \in ValidKids(ts, m) : \A k \in ValidKids(ts, m) \ {n} :
                               KeyBefore(TKey(m.kids[n]), TKey(m.kids[k]))]
FindLargest(ts, m) ==
    [m EXCEPT !.cur = IF ValidKids(ts, m) = {} THEN 0
                      ELSE CHOOSE n \in ValidKids(ts, m) : \A k \in ValidKids(ts, m) \ {n} :
                               KeyBefore(TKey(m.kids[k]), TKey(m.kids[n]))]
EachKid(ts, m, Op(_, _)) == [m EXCEPT !.kids = [n \in DOMAIN ts |-> Op(ts[n], m.kids[n])]]

MSeekToFirst(ts, m) == [FindSmallest(ts, EachKid(ts, m, TSeekToFirst)) EXCEPT !.fwd = TRUE]
MSeekToLast(ts, m) == [FindLargest(ts, EachKid(ts, m, TSeekToLast)) EXCEPT !.fwd = FALSE]
MSeek(ts, m, target) ==
    [FindSmallest(ts, EachKid(ts, m, LAMBDA t, i : TSeek(t, i, target))) EXCEPT !.fwd = TRUE]

\* A change of direction moves the other children past the current key, or before it.
AfterKey(t, i, key) == IF TValid(t, i) /\ TKey(i) = key THEN TNext(t, i) ELSE i
BeforeKey(t, i) == IF TValid(t, i) THEN TPrev(t, i) ELSE TSeekToLast(t, i)
TurnKids(ts, m, Op(_, _)) ==
    [m EXCEPT !.kids = [n \in DOMAIN ts |-> IF n = m.cur THEN m.kids[n]
                                            ELSE Op(ts[n], TSeek(ts[n], m.kids[n], MKey(m)))]]
TurnForward(ts, m) ==
    IF m.fwd THEN m
    ELSE [TurnKids(ts, m, LAMBDA t, i : AfterKey(t, i, MKey(m))) EXCEPT !.fwd = TRUE]
\* Slip: a child without a key at or after the current one is left where it ran out.
TurnBackwardLost(ts, m) ==
    IF ~m.fwd THEN m
    ELSE [TurnKids(ts, m, LAMBDA t, i : IF TValid(t, i) THEN TPrev(t, i) ELSE i) EXCEPT !.fwd = FALSE]
TurnBackward(ts, m) ==
    IF ~m.fwd THEN m ELSE [TurnKids(ts, m, BeforeKey) EXCEPT !.fwd = FALSE]

StepKid(ts, m, Op(_, _)) == [m EXCEPT !.kids[m.cur] = Op(ts[m.cur], @)]
MNext(ts, m) == FindSmallest(ts, StepKid(ts, TurnForward(ts, m), TNext))
MPrev(ts, m) == FindLargest(ts, StepKid(ts, TurnBackward(ts, m), TPrev))

-----------------------------------------------------------------------------
(* DBIter: the internal iterator, the direction, whether it is valid, and the key and   *)
(* value saved when it walks backwards.                                          *)
NewDBIter(ts) == [iter |-> NewMergingIter(ts), fwd |-> TRUE, valid |-> FALSE, skey |-> 0, sval |-> 0]
User(d) == MKey(d.iter)[1]
DBKey(d) == IF d.fwd THEN User(d) ELSE d.skey
DBVal(ts, d) == IF d.fwd THEN MVal(ts, d.iter).seq ELSE d.sval
Cleared(d, valid) == [d EXCEPT !.valid = valid, !.skey = 0]
Dropped(d) == [d EXCEPT !.valid = FALSE, !.skey = 0, !.sval = 0]

RECURSIVE FindNextUserEntry(_, _, _, _, _)
NextEntry(ts, d, seq, skipping, skip) ==
    IF MValid(d.iter) THEN FindNextUserEntry(ts, d, seq, skipping, skip) ELSE Cleared(d, FALSE)
FindNextUserEntry(ts, d, seq, skipping, skip) ==
    IF MVal(ts, d.iter).seq <= seq /\ ~MVal(ts, d.iter).del /\ ~(skipping /\ User(d) <= skip)
    THEN Cleared(d, TRUE)
    ELSE IF MVal(ts, d.iter).seq <= seq /\ MVal(ts, d.iter).del
    THEN NextEntry(ts, [d EXCEPT !.iter = MNext(ts, @)], seq, TRUE, User(d))
    ELSE NextEntry(ts, [d EXCEPT !.iter = MNext(ts, @)], seq, skipping, skip)

DNextFrom(ts, d, seq) ==
    IF MValid(d.iter) THEN FindNextUserEntry(ts, d, seq, TRUE, d.skey) ELSE Cleared(d, FALSE)
DNext(ts, d, seq) ==
    IF d.fwd THEN FindNextUserEntry(ts, d, seq, TRUE, User(d))
    ELSE DNextFrom(ts, [d EXCEPT !.fwd = TRUE, !.iter = IF MValid(@) THEN MNext(ts, @) ELSE MSeekToFirst(ts, @)],
                   seq)

\* del: the type of the last entry seen is a deletion (or there was none).
PrevDone(d, del) == IF del THEN [Dropped(d) EXCEPT !.fwd = TRUE] ELSE [d EXCEPT !.valid = TRUE]
SavePrev(ts, d) ==
    IF MVal(ts, d.iter).del THEN [d EXCEPT !.skey = 0, !.sval = 0]
    ELSE [d EXCEPT !.skey = User(d), !.sval = MVal(ts, d.iter).seq]
RECURSIVE FindPrevUserEntry(_, _, _, _)
FindPrevUserEntry(ts, d, seq, del) ==
    IF ~MValid(d.iter) THEN PrevDone(d, del)
    ELSE IF MVal(ts, d.iter).seq > seq
    THEN FindPrevUserEntry(ts, [d EXCEPT !.iter = MPrev(ts, @)], seq, del)
    ELSE IF ~del /\ User(d) < d.skey THEN PrevDone(d, del)
    ELSE FindPrevUserEntry(ts, [SavePrev(ts, d) EXCEPT !.iter = MPrev(ts, @)], seq, MVal(ts, d.iter).del)

RECURSIVE BackOverKey(_, _)
BackOverKey(ts, d) ==
    IF MValid(d.iter) /\ User(d) >= d.skey THEN BackOverKey(ts, [d EXCEPT !.iter = MPrev(ts, @)]) ELSE d
DPrevFrom(ts, d, seq) ==
    IF MValid(d.iter) THEN FindPrevUserEntry(ts, [d EXCEPT !.fwd = FALSE], seq, TRUE) ELSE Dropped(d)
DPrev(ts, d, seq) ==
    IF d.fwd THEN DPrevFrom(ts, BackOverKey(ts, [d EXCEPT !.skey = User(d)]), seq)
    ELSE FindPrevUserEntry(ts, d, seq, TRUE)

DSought(ts, d, seq) ==
    IF MValid(d.iter) THEN FindNextUserEntry(ts, d, seq, FALSE, 0) ELSE [d EXCEPT !.valid = FALSE]
DSeek(ts, d, seq, target) ==
    DSought(ts, [d EXCEPT !.fwd = TRUE, !.sval = 0, !.skey = 0, !.iter = MSeek(ts, @, target)], seq)
DSeekToFirst(ts, d, seq) ==
    DSought(ts, [d EXCEPT !.fwd = TRUE, !.sval = 0, !.iter = MSeekToFirst(ts, @)], seq)
DSeekToLast(ts, d, seq) ==
    FindPrevUserEntry(ts, [d EXCEPT !.fwd = FALSE, !.sval = 0, !.iter = MSeekToLast(ts, @)], seq, TRUE)

-----------------------------------------------------------------------------
ItMaxSeq == 9
TagOf(seq) == ItMaxSeq + 1 - seq

\* The entries of a table in the order of their internal keys.
TableEntries(S) ==
    [i \in 1..Cardinality(S) |->
        CHOOSE e \in {[key |-> <<x.key, TagOf(x.seq)>>, val |-> [seq |-> x.seq, del |-> x.del]] : x \in S} :
            Cardinality({x \in S : KeyBefore(<<x.key, TagOf(x.seq)>>, e.key)}) = i - 1]

AllEntries == UNION Range(itScen.sets)
Newest(k) == {e \in AllEntries : e.key = k /\ e.seq <= itScen.seq
                                 /\ \A x \in AllEntries : x.key = k /\ x.seq <= itScen.seq => x.seq <= e.seq}
Visible == {k \in ItUsers : \E e \in Newest(k) : ~e.del}

FirstOf(S) == IF S = {} THEN 0 ELSE Min(S)
LastOf(S) == IF S = {} THEN 0 ELSE Max(S)

ItInit ==
    /\ itScen \in ItScenarios
    /\ itTabs = [n \in DOMAIN itScen.sets |-> ItBuildTable(TableEntries(itScen.sets[n]), itScen.cut)]
    /\ it = NewDBIter(itTabs)
    /\ itPos = 0

ItSeekToFirst == /\ it' = DSeekToFirst(itTabs, it, itScen.seq)
                 /\ itPos' = FirstOf(Visible)
                 /\ UNCHANGED <<itScen, itTabs>>
ItSeekToLast == /\ it' = DSeekToLast(itTabs, it, itScen.seq)
                /\ itPos' = LastOf(Visible)
                /\ UNCHANGED <<itScen, itTabs>>
ItSeek(k) == /\ it' = DSeek(itTabs, it, itScen.seq, <<k, TagOf(itScen.seq)>>)
             /\ itPos' = FirstOf({v \in Visible : v >= k})
             /\ UNCHANGED <<itScen, itTabs>>
ItNext == /\ it.valid
          /\ it' = DNext(itTabs, it, itScen.seq)
          /\ itPos' = FirstOf({v \in Visible : v > itPos})
          /\ UNCHANGED <<itScen, itTabs>>
ItPrev == /\ it.valid
          /\ it' = DPrev(itTabs, it, itScen.seq)
          /\ itPos' = LastOf({v \in Visible : v < itPos})
          /\ UNCHANGED <<itScen, itTabs>>

ItStep == ItSeekToFirst \/ ItSeekToLast \/ (\E k \in ItUsers : ItSeek(k)) \/ ItNext \/ ItPrev

-----------------------------------------------------------------------------
(* Through any sequence of seeks and steps, in both directions, the iterator stands on  *)
(* exactly the record a cursor over the records visible at its snapshot would stand on,   *)
(* with the newest value of that record, and is invalid exactly where the cursor runs    *)
(* out (db_iter.cc, merger.cc, two_level_iterator.cc and block.cc together).          *)
CursorExact ==
    /\ it.valid <=> itPos # 0
    /\ it.valid => DBKey(it) = itPos /\ \E e \in Newest(itPos) : e.seq = DBVal(itTabs, it)

(* A lookup in a table returns the newest entry of the key at or before the sequence      *)
(* number asked for when the table has one, and no entry of that key otherwise: neither    *)
(* the filter of the block nor a shortened index key hides an entry (table.cc InternalGet). *)
GetExact ==
    \A n \in DOMAIN itTabs : \A k \in ItUsers : \A s \in {itScen.seq, ItMaxSeq} :
        \E got \in {InternalGet(itTabs[n], <<k, TagOf(s)>>)} :
            {x.val.seq : x \in {y \in got : y.key[1] = k}} =
            {e.seq : e \in {x \in itScen.sets[n] : x.key = k /\ x.seq <= s
                             /\ \A y \in itScen.sets[n] : y.key = k /\ y.seq <= s => y.seq <= x.seq}}


(* Both ways into the tables, walking them and looking one key up, are exact.           *)
LookupsExact == CursorExact /\ GetExact
=============================================================================
