---------------------------- MODULE TimeSeries ----------------------------
(***************************************************************************)
(* The append-only files that hold blocks and chunks (storage/timeseries.h, *)
(* timeseries.cpp) and the circular stream that caches what was read from  *)
(* them (walleve/stream/circular.cpp).  A byte is a unit: unit i of value v *)
(* is <<v, i>>, a record's header (magic number and size) is one unit of   *)
(* the file, and an entry's header in the cache (disk position and size)   *)
(* is two.  The get and put areas of the stream buffer are kept as the     *)
(* offsets of their pointers, stale ends included.                         *)
(***************************************************************************)
EXTENDS Integers, Sequences, SequencesExt

CONSTANTS
    TsSize,      \* the values, each with its serialized size
    TsBuffer,    \* units of the circular buffer (a power of two, >= MIN_SIZE)
    TsFileMax,   \* MAX_FILE_SIZE - MAX_CHUNK_SIZE - 8
    TsCrashes    \* bound on restarts

VARIABLES
    ts,          \* of each series, [files, last]: the contents of its files; nLastFile
    tsCache,     \* the circular stream and mapCachePos
    tsBusy,      \* the value being written and its position, or <<>>
    tsKnown,     \* the positions handed out: <<series, value, file, offset>>
    tsGot,       \* the last read: <<what the position holds, what was read>>
    tsLeft       \* [put, crash]: values still to write, restarts left

tsVars == <<ts, tsCache, tsBusy, tsKnown, tsGot, tsLeft>>

TsValues == DOMAIN TsSize
TsUnits(v) == [i \in 1..TsSize[v] |-> <<v, i>>]
Masked(n) == n % TsBuffer

--------------------------------------------------------------------------
(* The circular buffer.                                                    *)

NewBuffer ==
    [buf |-> [i \in 0..TsBuffer - 1 |-> <<>>], begin |-> 0, p |-> 0, ep |-> TsBuffer - 1,
     g |-> 0, eg |-> 0, fail |-> FALSE]

BufSize(c) == Masked(c.p - c.begin)
FreeSpace(c) == TsBuffer - BufSize(c) - 1

Consume(c, n) ==
    LET ppos == Masked(c.p)
        gpos == Masked(c.g)
        b    == IF n >= BufSize(c) THEN ppos ELSE Masked(c.begin + n)
        lost == \/ ppos >= b /\ (gpos < b \/ gpos > ppos)
                \/ ppos < b /\ gpos < b /\ gpos > ppos
    IN  IF lost
        THEN [c EXCEPT !.begin = b, !.g = b, !.eg = IF b <= ppos THEN ppos ELSE TsBuffer]
        ELSE [c EXCEPT !.begin = b]

Overflow(c, u) ==
    LET ppos == Masked(c.p)
        pend == Masked(c.begin - 1)
    IN  IF ppos = pend
        THEN [c EXCEPT !.fail = TRUE]
        ELSE [c EXCEPT !.buf[ppos] = u, !.p = ppos + 1,
                       !.ep = IF ppos > pend THEN TsBuffer ELSE pend]

(* One character through the stream: a failed stream takes nothing.        *)
Put(c, u) ==
    IF c.fail THEN c
    ELSE IF c.p < c.ep THEN [c EXCEPT !.buf[c.p] = u, !.p = @ + 1]
    ELSE Overflow(c, u)

PutAll(c, units) == FoldLeft(Put, c, units)

SeekOk(c, pos) ==
    LET ppos == Masked(c.p)
        gpos == Masked(pos)
    IN  \/ ppos >= c.begin /\ gpos >= c.begin /\ gpos <= ppos
        \/ ppos < c.begin /\ (gpos >= c.begin \/ gpos <= ppos)

SeekPos(c, pos) ==
    IF SeekOk(c, pos)
    THEN [c EXCEPT !.g = Masked(pos),
                   !.eg = IF Masked(pos) <= Masked(c.p) THEN Masked(c.p) ELSE TsBuffer]
    ELSE c

Underflow(c) ==
    LET ppos == Masked(c.p)
        gpos == Masked(c.g)
    IN  CASE gpos < ppos -> [c EXCEPT !.g = gpos, !.eg = ppos]
          [] gpos > ppos -> [c EXCEPT !.g = gpos, !.eg = TsBuffer]
          [] OTHER -> [c EXCEPT !.fail = TRUE]

(* Reading n characters: [c, out].                                         *)
GetOne(r, i) ==
    LET c == IF r.c.g < r.c.eg \/ r.c.fail THEN r.c ELSE Underflow(r.c)
    IN  IF c.fail THEN [r EXCEPT !.c = c]
        ELSE [c |-> [c EXCEPT !.g = @ + 1], out |-> Append(r.out, c.buf[c.g])]

GetAll(c, n) == FoldLeft(GetOne, [c |-> c, out |-> <<>>], [i \in 1..n |-> i])

--------------------------------------------------------------------------
(* The cache.                                                              *)

ResetCache(k) ==
    [c |-> Consume([k.c EXCEPT !.fail = FALSE], BufSize(k.c)), at |-> <<>>]

Rewind(c) == SeekPos([c EXCEPT !.fail = FALSE], c.begin)

Uncached(at, pos) == [q \in DOMAIN at \ {pos} |-> at[q]]

(* Entries leave from the front until the new one fits.                    *)
RECURSIVE VacateCache(_, _)
(* Slip: a consumed entry keeps its position in the map.                   *)
VacateOneKept(k) ==
    LET r == GetAll(Rewind(k.c), 2)
    IN  [c |-> Consume(r.c, r.out[2][2] + 2), at |-> k.at]

VacateOne(k) ==
    LET r == GetAll(Rewind(k.c), 2)
    IN  [c |-> Consume(r.c, r.out[2][2] + 2), at |-> Uncached(k.at, r.out[1][2])]

VacateCache(k, needed) ==
    IF FreeSpace(k.c) < needed + 2 THEN VacateCache(VacateOne(k), needed) ELSE k

WriteToCache(k, v, pos) ==
    IF pos \in DOMAIN k.at THEN k
    ELSE LET w == VacateCache(k, TsSize[v])
             h == PutAll(w.c, <<<<"pos", pos>>, <<"size", TsSize[v]>>>>)
             d == PutAll(h, TsUnits(v))
         IN  [c |-> d, at |-> (pos :> Masked(h.p)) @@ w.at]

(* The value read at position pos of the buffer: its first unit tells how  *)
(* many follow, as the lengths inside a serialized value do.               *)
LoadFrom(units) == IF \E v \in TsValues : units = TsUnits(v) THEN units[1][1] ELSE "bad"

ReadFromCache(k, pos) ==
    LET c == SeekPos([k.c EXCEPT !.fail = FALSE], k.at[pos])
        u == c.buf[c.g % TsBuffer]
        r == GetAll(c, IF \E v \in TsValues : u = <<v, 1>> THEN TsSize[u[1]] ELSE 1)
    IN  [k |-> [k EXCEPT !.c = r.c], v |-> LoadFrom(r.out)]

--------------------------------------------------------------------------
(* The files.                                                              *)

(* The first file from nLastFile on with room, created when missing.       *)
RECURSIVE GetLastFilePath(_)
GetLastFilePath(s) ==
    LET files == IF s.last > Len(s.files) THEN Append(s.files, <<>>) ELSE s.files
    IN  IF Len(files[s.last]) < TsFileMax THEN [s EXCEPT !.files = files]
        ELSE GetLastFilePath([files |-> files, last |-> s.last + 1])

Appended(s, units) == [s EXCEPT !.files[s.last] = @ \o units]
Record(v) == <<<<"magic", TsSize[v]>>>> \o TsUnits(v)

(* The position of the value of the record appended next.                  *)
NextPos(s) == <<s.last, Len(s.files[s.last]) + 1>>

LoadAt(s, pos) ==
    LET f == s.files[pos[1]]
        n == TsSize[f[pos[2] + 1][1]]
    IN  LoadFrom(SubSeq(f, pos[2] + 1, pos[2] + n))

(* WriteBatch goes on in the file it opened until an offset passes the     *)
(* limit.                                                                  *)
BatchFile(b) ==
    IF b.offset >= TsFileMax THEN GetLastFilePath(b.s) ELSE b.s

BatchOne(b, v) ==
    LET s == BatchFile(b)
    IN  [s |-> Appended(s, Record(v)), offset |-> NextPos(s)[2],
         pos |-> Append(b.pos, <<"chunk", v>> \o NextPos(s))]

--------------------------------------------------------------------------
(* The operations.                                                         *)

NewSeries == [files |-> <<>>, last |-> 1]
NewCache == [c |-> NewBuffer, at |-> <<>>]

TsInit ==
    /\ ts = [n \in {"block", "chunk"} |-> NewSeries]
    /\ tsCache = NewCache
    /\ tsBusy = <<>>
    /\ tsKnown = {}
    /\ tsGot = <<>>
    /\ tsLeft = [put |-> TsValues, crash |-> TsCrashes]

(* Write: the record goes to the end of the last file; the mutex is held   *)
(* until the value is cached (TsCached).                                   *)
TsWrite(v) ==
    /\ tsBusy = <<>> /\ v \in tsLeft.put
    /\ \E s \in {GetLastFilePath(ts["block"])} :
          /\ ts' = [ts EXCEPT !["block"] = Appended(s, Record(v))]
          /\ tsBusy' = <<v, NextPos(s)>>
    /\ tsLeft' = [tsLeft EXCEPT !.put = @ \ {v}]
    /\ UNCHANGED <<tsCache, tsKnown, tsGot>>

TsCached ==
    /\ tsBusy # <<>>
    /\ tsCache' = WriteToCache(tsCache, tsBusy[1], tsBusy[2])
    /\ tsKnown' = tsKnown \cup {<<"block", tsBusy[1]>> \o tsBusy[2]}
    /\ tsBusy' = <<>>
    /\ UNCHANGED <<ts, tsGot, tsLeft>>

(* WriteBatch of a chunk series.                                           *)
TsWriteBatch(vs) ==
    /\ \A i \in DOMAIN vs : vs[i] \in tsLeft.put
    /\ \E b \in {FoldLeft(BatchOne, [s |-> GetLastFilePath(ts["chunk"]), offset |-> 0, pos |-> <<>>], vs)} :
          /\ ts' = [ts EXCEPT !["chunk"] = b.s]
          /\ tsKnown' = tsKnown \cup Range(b.pos)
    /\ tsLeft' = [tsLeft EXCEPT !.put = @ \ Range(vs)]
    /\ UNCHANGED <<tsCache, tsBusy, tsGot>>

(* Read: from the cache, else from the file; a value read from the file is *)
(* cached when the caller asks for it.                                     *)
TsRead(k, cached) ==
    LET pos == <<k[3], k[4]>> IN
    /\ tsBusy = <<>> /\ k \in tsKnown /\ k[1] = "block"
    /\ \/ /\ pos \in DOMAIN tsCache.at
          /\ SeekOk(tsCache.c, tsCache.at[pos])
          /\ \E r \in {ReadFromCache(tsCache, pos)} : tsCache' = r.k /\ tsGot' = <<k, r.v>>
       \/ /\ ~(pos \in DOMAIN tsCache.at /\ SeekOk(tsCache.c, tsCache.at[pos]))
          /\ \E r \in {IF pos \in DOMAIN tsCache.at THEN ResetCache(tsCache) ELSE tsCache},
                v \in {LoadAt(ts["block"], pos)} :
               /\ tsCache' = IF cached THEN WriteToCache(r, v, pos) ELSE r
               /\ tsGot' = <<k, v>>
    /\ UNCHANGED <<ts, tsBusy, tsKnown, tsLeft>>

(* ReadDirect, and Read of a chunk, take no lock.                          *)
TsReadDirect(k) ==
    /\ k \in tsKnown
    /\ tsGot' = <<k, LoadAt(ts[k[1]], <<k[3], k[4]>>)>>
    /\ UNCHANGED <<ts, tsCache, tsBusy, tsKnown, tsLeft>>

(* The process dies, with part of a record in the file when it was         *)
(* writing, and Initialize starts again from file 1 with an empty cache.   *)
TsRestart(s, v, n) ==
    /\ tsLeft.crash > 0
    /\ \/ n = 0 /\ ts' = [x \in DOMAIN ts |-> [ts[x] EXCEPT !.last = 1]]
       \/ /\ n > 0 /\ tsBusy = <<>> /\ v \in tsLeft.put /\ n <= TsSize[v]
          /\ \E f \in {Appended(GetLastFilePath(ts[s]), SubSeq(Record(v), 1, n))} :
               ts' = [x \in DOMAIN ts |-> [(IF x = s THEN f ELSE ts[x]) EXCEPT !.last = 1]]
    /\ tsCache' = NewCache
    /\ tsBusy' = <<>>
    /\ tsLeft' = [tsLeft EXCEPT !.crash = @ - 1]
    /\ UNCHANGED <<tsKnown, tsGot>>

TsStep ==
    \/ \E v \in TsValues : TsWrite(v)
    \/ TsCached
    \/ \E v, w \in TsValues : v # w /\ TsWriteBatch(<<v, w>>)
    \/ \E k \in tsKnown, cached \in BOOLEAN : TsRead(k, cached)
    \/ \E k \in tsKnown : TsReadDirect(k)
    \/ \E s \in {"block", "chunk"}, v \in TsValues, n \in {0, 2} : TsRestart(s, v, n)

--------------------------------------------------------------------------
(* Whatever was cached, evicted, torn by a crash or put in a new file in   *)
(* between, reading a position that a write handed out yields the value    *)
(* written there, and every position in the cache map still leads to its   *)
(* value (CTimeSeriesCached, CTimeSeriesChunk).                            *)
TsReadsExact ==
    /\ tsGot # <<>> => tsGot[2] = tsGot[1][2]
    /\ \A k \in tsKnown :
          k[1] = "block" /\ <<k[3], k[4]>> \in DOMAIN tsCache.at
            => ReadFromCache(tsCache, <<k[3], k[4]>>).v = k[2]
==========================================================================
