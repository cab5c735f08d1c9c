------------------------------- MODULE SkipList ------------------------------
(***************************************************************************)
(* The skip list of LevelDB's memtable (leveldb/db/skiplist.h): one writer links a  *)
(* new node level by level while readers search without a lock.                 *)
(*                                                                           *)
(* A node is its key.  A reader may see an old height of the list, the links are read   *)
(* and published with barriers.                                              *)
(***************************************************************************)
EXTENDS Integers, FiniteSets

CONSTANTS
    SkKeys,             \* the keys, natural numbers
    SkHeight,           \* kMaxHeight
    SkReaders

SkHead == -1
SkNil == 1000           \* nullptr, which sorts after every key
SkUnset == 2000         \* a link of a node that was never written
SkLevels == 0..(SkHeight - 1)

ASSUME SkAssumption == SkKeys \subseteq 0..(SkNil - 1) /\ SkHeight \in Nat \ {0}

VARIABLES
    skNext,             \* next_ of the head and of every node allocated
    skHeights,          \* the values max_height_ has had
    skIns,              \* the insert in progress: [key, height, level, prev]; key SkNil: none
    skDone,             \* the keys whose insert has returned
    skRd                \* per reader: [op, from, x, level, before, node]

skVars == <<skNext, skHeights, skIns, skDone, skRd>>

NoInsert == [key |-> SkNil, height |-> 0, level |-> 0, prev |-> <<>>]
Resting(node) == [op |-> "rest", from |-> SkNil, x |-> SkNil, level |-> 0, before |-> {}, node |-> node]

MaxHeight == CHOOSE h \in skHeights : \A x \in skHeights : x <= h

SkInit ==
    /\ skNext = [n \in {SkHead} |-> [l \in SkLevels |-> SkNil]]
    /\ skHeights = {1}
    /\ skIns = NoInsert
    /\ skDone = {}
    /\ skRd = [r \in SkReaders |-> Resting(SkNil)]

-----------------------------------------------------------------------------
(* Insert. *)
\* FindGreaterOrEqual's prev: the last node before key on each level, the head above the height.
NodesOn(l) == {n \in DOMAIN skNext : skNext[n][l] # SkUnset}
PrevOn(key, l) ==
    CHOOSE n \in NodesOn(l) : n < key /\ \A m \in NodesOn(l) : m < key => m <= n

InsertStart(key, height) ==
    /\ skIns = NoInsert
    /\ key \notin DOMAIN skNext
    /\ skIns' = [key |-> key, height |-> height, level |-> 0, prev |-> [l \in SkLevels |-> PrevOn(key, l)]]
    /\ skHeights' = IF height > MaxHeight THEN skHeights \cup {height} ELSE skHeights
    /\ skNext' = [n \in DOMAIN skNext \cup {key} |->
                      IF n = key THEN [l \in SkLevels |-> SkUnset] ELSE skNext[n]]
    /\ UNCHANGED <<skDone, skRd>>

\* Slip: the levels are linked from the top down.
LinkLevelDown(l) == skIns.height - 1 - l
LinkLevel(l) == l
\* The new node gets its successor on a level, then is published on that level.
InsertLink ==
    /\ skIns # NoInsert
    /\ skIns.level < skIns.height
    /\ \E l \in {LinkLevel(skIns.level)} : \E p \in {skIns.prev[l]} :
           skNext' = [skNext EXCEPT ![skIns.key][l] = skNext[p][l], ![p][l] = skIns.key]
    /\ skIns' = [skIns EXCEPT !.level = @ + 1]
    /\ UNCHANGED <<skHeights, skDone, skRd>>
InsertEnd ==
    /\ skIns # NoInsert
    /\ skIns.level = skIns.height
    /\ skDone' = skDone \cup {skIns.key}
    /\ skIns' = NoInsert
    /\ UNCHANGED <<skNext, skHeights, skRd>>

-----------------------------------------------------------------------------
(* Iterator: Seek (FindGreaterOrEqual), Prev (FindLessThan), SeekToLast (FindLast) walk the      *)
(* list from its head, a link at a time; Next and SeekToFirst read one link.                *)
Walk(r, op, from) ==
    /\ skRd[r].op = "rest"
    /\ \E h \in skHeights :
           skRd' = [skRd EXCEPT ![r] = [op |-> op, from |-> from, x |-> SkHead, level |-> h - 1,
                                        before |-> skDone, node |-> SkNil]]
    /\ UNCHANGED <<skNext, skHeights, skIns, skDone>>
ReadSeek(r, target) == Walk(r, "seek", target)
ReadPrev(r) == skRd[r].node # SkNil /\ Walk(r, "less", skRd[r].node)
ReadSeekToLast(r) == Walk(r, "last", SkNil)
ReadLink(r, from) ==
    /\ skRd[r].op = "rest"
    /\ skRd' = [skRd EXCEPT ![r] = [op |-> "next", from |-> from, x |-> from, level |-> 0,
                                    before |-> skDone, node |-> skNext[from][0]]]
    /\ UNCHANGED <<skNext, skHeights, skIns, skDone>>
ReadNext(r) == skRd[r].node # SkNil /\ ReadLink(r, skRd[r].node)
ReadSeekToFirst(r) == ReadLink(r, SkHead)

\* KeyIsAfterNode: whether the walk goes on to the next node of this level.
Forward(rd, next) ==
    CASE rd.op \in {"seek", "less"} -> next < rd.from
      [] rd.op = "last" -> next # SkNil
Found(rd, next) == IF rd.op = "seek" THEN next ELSE IF rd.x = SkHead THEN SkNil ELSE rd.x
Stepped(rd, next) ==
    IF next = SkUnset THEN [rd EXCEPT !.x = SkNil, !.node = SkUnset]
    ELSE IF Forward(rd, next) THEN [rd EXCEPT !.x = next]
    ELSE IF rd.level > 0 THEN [rd EXCEPT !.level = @ - 1]
    ELSE [rd EXCEPT !.x = SkNil, !.node = Found(rd, next)]
ReadStep(r) ==
    /\ skRd[r].op \in {"seek", "less", "last"}
    /\ skRd[r].x # SkNil
    /\ skRd' = [skRd EXCEPT ![r] = Stepped(skRd[r], skNext[skRd[r].x][skRd[r].level])]
    /\ UNCHANGED <<skNext, skHeights, skIns, skDone>>
\* The caller takes the node the walk ended on.
Ended(rd) == rd.op = "next" \/ (rd.op # "rest" /\ rd.x = SkNil)
SkReadEnd(r) ==
    /\ Ended(skRd[r])
    /\ skRd' = [skRd EXCEPT ![r] = Resting(skRd[r].node)]
    /\ UNCHANGED <<skNext, skHeights, skIns, skDone>>

SkStep ==
    \/ \E key \in SkKeys, height \in 1..SkHeight : InsertStart(key, height)
    \/ InsertLink
    \/ InsertEnd
    \/ \E r \in SkReaders :
           \/ \E target \in SkKeys : ReadSeek(r, target)
           \/ ReadPrev(r) \/ ReadSeekToLast(r) \/ ReadNext(r) \/ ReadSeekToFirst(r)
           \/ ReadStep(r) \/ SkReadEnd(r)

SkSpec == SkInit /\ [][SkStep]_skVars

-----------------------------------------------------------------------------
(* No lookup or step of a reader passes over a key whose insert had returned when it began,   *)
(* whatever the writer has half linked, and none follows a link that was never written: the   *)
(* node found lies on the side asked for and nothing inserted before lies between (skiplist.h   *)
(* FindGreaterOrEqual, FindLessThan, FindLast, Next).                                  *)
NoKeyPassed ==
    \A r \in SkReaders : \E rd \in {skRd[r]} : Ended(rd) =>
        /\ rd.node # SkUnset
        /\ CASE rd.op = "seek" -> rd.node >= rd.from /\ ~\E k \in rd.before : k >= rd.from /\ k < rd.node
             [] rd.op = "next" -> rd.node > rd.from /\ ~\E k \in rd.before : k > rd.from /\ k < rd.node
             [] rd.op = "less" -> ~\E k \in rd.before : k < rd.from /\ (rd.node = SkNil \/ k > rd.node)
             [] rd.op = "last" -> ~\E k \in rd.before : rd.node = SkNil \/ k > rd.node
=============================================================================
