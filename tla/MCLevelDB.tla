------------------------------ MODULE MCLevelDB ------------------------------
(***************************************************************************)
(* Instances for TLC of the key-value store under the wallet's databases:    *)
(* the store as a whole, and the parts it is made of (tables and iterators,   *)
(* the log's format, the cache of open tables, the memtable's skip list, the  *)
(* files and threads of the environment).                                     *)
(* A run explores one part at a time, the others standing still.              *)
(***************************************************************************)
EXTENDS LevelDB, Iterators, LogFormat, LRUCache, SkipList, PosixEnv

CONSTANTS Parts, t1, t2

VARIABLE mcPart

Put(k) == [key |-> k, del |-> FALSE]
Del(k) == [key |-> k, del |-> TRUE]
MCLevelBytes == [l \in 1..(NumLevels - 1) |-> 2]

\* Two threads write while calls fail and the machine stops; one thread fills the levels
\* while readers come and go; the same with a snapshot; files are merged while
\* calls fail and the machine stops.
MCScenarios ==
    { [threads |-> {t1, t2}, batches |-> {<<Put(1)>>, <<Del(1), Put(2)>>}, syncs |-> BOOLEAN,
       writes |-> 3, reads |-> 0, snapshots |-> 0, stops |-> 1, faults |-> 1, from |-> 3],
      [threads |-> {t1}, batches |-> {<<Put(1), Put(2)>>}, syncs |-> {FALSE},
       writes |-> 5, reads |-> 1, snapshots |-> 0, stops |-> 0, faults |-> 0, from |-> 5],
      [threads |-> {t1}, batches |-> {<<Del(1)>>, <<Put(1), Put(2)>>}, syncs |-> {FALSE},
       writes |-> 5, reads |-> 0, snapshots |-> 0, stops |-> 0, faults |-> 0, from |-> 5],
      [threads |-> {t1}, batches |-> {<<Put(1)>>, <<Del(1)>>}, syncs |-> {FALSE},
       writes |-> 3, reads |-> 1, snapshots |-> 1, stops |-> 0, faults |-> 0, from |-> 1],
      [threads |-> {t1}, batches |-> {<<Del(1)>>, <<Put(1), Put(2)>>}, syncs |-> {TRUE},
       writes |-> 3, reads |-> 0, snapshots |-> 0, stops |-> 1, faults |-> 1, from |-> 3] }

-----------------------------------------------------------------------------
\* Two tables that share six entries of a few keys, deletions among them, read at two sequence numbers.
Ent(k, s, d) == [key |-> k, seq |-> s, del |-> d]
MCItScenarios ==
    { [sets |-> <<{Ent(ks[s], s, s \in dels) : s \in one}, {Ent(ks[s], s, s \in dels) : s \in (1..6) \ one}>>,
       seq |-> q, cut |-> c] :
      ks \in {<<1, 3, 1, 5, 1, 3>>, <<1, 1, 3, 1, 1, 3>>, <<3, 3, 3, 3, 1, 3>>},
      one \in {{1, 2, 3}, {1, 3, 5, 6}, {1, 2, 3, 4, 5}, {4}, {2, 3, 4}},
      dels \in SUBSET {2, 5, 6}, q \in {4, 6}, c \in BOOLEAN }

-----------------------------------------------------------------------------
mcVars == <<vars, itVars, lgVars, lcVars, skVars, peVars, mcPart>>

MCInit ==
    /\ mcPart \in Parts
    /\ IF mcPart = "store" THEN TRUE ELSE scen = CHOOSE s \in Scenarios : TRUE
    /\ IF mcPart = "tables" THEN TRUE ELSE itScen = CHOOSE s \in ItScenarios : TRUE
    /\ Init /\ ItInit /\ LgInit /\ LcInit /\ SkInit /\ PeInit
    /\ mcPart # "cache" => \A t \in LcThreads : lcThr[t].key = CHOOSE k \in LcKeys : TRUE
    /\ mcPart # "files" => ~peFile.manifest

Still(p) ==
    /\ mcPart = p
    /\ p # "store" => UNCHANGED vars
    /\ p # "tables" => UNCHANGED itVars
    /\ p # "log" => UNCHANGED lgVars
    /\ p # "cache" => UNCHANGED lcVars
    /\ p # "skiplist" => UNCHANGED skVars
    /\ p # "files" => UNCHANGED peVars
    /\ UNCHANGED mcPart

MCNext ==
    \/ Still("store") /\ Next
    \/ Still("tables") /\ ItStep
    \/ Still("log") /\ LgStep
    \/ Still("cache") /\ LcStep
    \/ Still("skiplist") /\ SkStep
    \/ Still("files") /\ PeStep

MCSpec == MCInit /\ [][MCNext]_mcVars

-----------------------------------------------------------------------------
\* LookupsExact, asked while the tables are the part explored: iterators over merged tables stand
\* where a cursor over the visible records does, and a get through index and filter finds its key.
TablesRead == mcPart = "tables" => LookupsExact

\* LogReads, asked while the log is: a reader finds the records whole that a cut or damage left whole.
LogIsRead == mcPart = "log" => LogReads
=============================================================================
