------------------------------- MODULE LRUCache ------------------------------
(***************************************************************************)
(* The cache of LevelDB (leveldb/util/cache.cc, one shard) as the cache of open   *)
(* tables uses it (leveldb/db/table_cache.cc): threads look a table up, open it    *)
(* outside the lock and insert it when it is missing, use it and release it, while   *)
(* others evict it and inserts push the oldest unused tables out.                  *)
(***************************************************************************)
EXTENDS Integers, Sequences, FiniteSets, SequencesExt

CONSTANTS
    LcThreads,          \* the threads that read tables
    LcKeys,             \* the file numbers
    LcCapacity,         \* capacity_; every table has charge 1
    LcInserts           \* bound: how often Insert is called

VARIABLES
    lc,                 \* [h: the handles made, tab: HandleTable, lru, use: the two lists, usage]
    lcThr               \* per thread: [pc, key, h: the handle held (0: none)]

lcVars == <<lc, lcThr>>

-----------------------------------------------------------------------------
Ref(c, i) ==
    [c EXCEPT !.h[i].refs = @ + 1,
              !.lru = IF c.h[i].refs = 1 /\ c.h[i].incache THEN SelectSeq(@, LAMBDA x : x # i) ELSE @,
              !.use = IF c.h[i].refs = 1 /\ c.h[i].incache THEN @ \cup {i} ELSE @]

Unref(c, i) ==
    IF c.h[i].refs = 1 THEN [c EXCEPT !.h[i].refs = 0, !.h[i].deleted = @ + 1]
    ELSE IF c.h[i].incache /\ c.h[i].refs = 2
    THEN [c EXCEPT !.h[i].refs = 1, !.use = @ \ {i}, !.lru = Append(@, i)]
    ELSE [c EXCEPT !.h[i].refs = @ - 1]

\* Slip: an entry that leaves the cache stays on its list.
FinishEraseListed(c, i) ==
    IF i = 0 THEN c ELSE Unref([c EXCEPT !.h[i].incache = FALSE, !.usage = @ - 1], i)
\* e has left the hash table.
FinishErase(c, i) ==
    IF i = 0 THEN c
    ELSE Unref([c EXCEPT !.h[i].incache = FALSE, !.usage = @ - 1,
                         !.lru = SelectSeq(@, LAMBDA x : x # i), !.use = @ \ {i}], i)
EraseKey(c, k) == FinishErase([c EXCEPT !.tab[k] = 0], c.tab[k])

RECURSIVE EvictOld(_)
EvictOld(c) ==
    IF c.usage > LcCapacity /\ c.lru # <<>> THEN EvictOld(EraseKey(c, c.h[Head(c.lru)].key)) ELSE c
RECURSIVE PruneAll(_)
PruneAll(c) == IF c.lru # <<>> THEN PruneAll(EraseKey(c, c.h[Head(c.lru)].key)) ELSE c

Linked(c, k, i) ==
    FinishErase([c EXCEPT !.h = Append(@, [key |-> k, refs |-> 2, incache |-> TRUE, deleted |-> 0]),
                          !.use = @ \cup {i}, !.usage = @ + 1, !.tab[k] = i], c.tab[k])
InsertKey(c, k) ==
    IF LcCapacity > 0 THEN EvictOld(Linked(c, k, Len(c.h) + 1))
    ELSE [c EXCEPT !.h = Append(@, [key |-> k, refs |-> 1, incache |-> FALSE, deleted |-> 0])]

-----------------------------------------------------------------------------
LcInit ==
    /\ lc = [h |-> <<>>, tab |-> [k \in LcKeys |-> 0], lru |-> <<>>, use |-> {}, usage |-> 0]
    /\ \E k \in LcKeys : lcThr = [t \in LcThreads |-> [pc |-> "idle", key |-> k, h |-> 0]]

\* TableCache::FindTable: a hit takes a reference, a miss opens the file without the lock.
FindTable(t, k) ==
    /\ lcThr[t].pc = "idle"
    /\ IF lc.tab[k] # 0
       THEN /\ lc' = Ref(lc, lc.tab[k])
            /\ lcThr' = [lcThr EXCEPT ![t] = [pc |-> "use", key |-> k, h |-> lc.tab[k]]]
       ELSE /\ lcThr' = [lcThr EXCEPT ![t] = [pc |-> "open", key |-> k, h |-> 0]]
            /\ UNCHANGED lc
\* The file opened and is inserted, whatever others inserted meanwhile; or it did not open.
InsertTable(t) ==
    /\ lcThr[t].pc = "open"
    /\ \/ /\ Len(lc.h) < LcInserts
          /\ lc' = InsertKey(lc, lcThr[t].key)
          /\ lcThr' = [lcThr EXCEPT ![t].pc = "use", ![t].h = Len(lc.h) + 1]
       \/ /\ lcThr' = [lcThr EXCEPT ![t].pc = "idle"]
          /\ UNCHANGED lc
ReleaseTable(t) ==
    /\ lcThr[t].pc = "use"
    /\ lc' = Unref(lc, lcThr[t].h)
    /\ lcThr' = [lcThr EXCEPT ![t].pc = "idle", ![t].h = 0]
\* TableCache::Evict, when a file is deleted.
Evict(k) == lc' = EraseKey(lc, k) /\ UNCHANGED lcThr
Prune == lc' = PruneAll(lc) /\ UNCHANGED lcThr

LcStep ==
    \/ \E t \in LcThreads : (\E k \in LcKeys : FindTable(t, k)) \/ InsertTable(t) \/ ReleaseTable(t)
    \/ \E k \in LcKeys : Evict(k)
    \/ Prune

-----------------------------------------------------------------------------
Holders(i) == Cardinality({t \in LcThreads : lcThr[t].h = i})
InCache == {i \in DOMAIN lc.h : lc.h[i].incache}

(* A table in use is never closed, and one that nothing uses any more is closed exactly once  *)
(* unless the cache keeps it: the count of every entry is its holders and the cache, the      *)
(* entries of the cache are each on the one list that fits their count, its size is that of     *)
(* its entries, and it exceeds the capacity by no more than what threads held at once         *)
(* (cache.cc Ref, Unref, Insert, FinishErase).                                        *)
CacheCounts ==
    /\ \A i \in DOMAIN lc.h :
           /\ lc.h[i].refs = Holders(i) + (IF lc.h[i].incache THEN 1 ELSE 0)
           /\ lc.h[i].deleted = (IF lc.h[i].refs = 0 THEN 1 ELSE 0)
    /\ ToSet(lc.lru) = {i \in InCache : Holders(i) = 0} /\ Len(lc.lru) = Cardinality(ToSet(lc.lru))
    /\ lc.use = {i \in InCache : Holders(i) > 0}
    /\ InCache = {lc.tab[k] : k \in LcKeys} \ {0}
    /\ lc.usage = Cardinality(InCache)
    /\ lc.usage <= LcCapacity \/ lc.usage <= Cardinality(LcThreads)
=============================================================================
