----------------------------- MODULE ForkNode -----------------------------
(***************************************************************************)
(* The chain of one node: the fork manager (src/forkmanager.cpp) and the   *)
(* dispatcher (src/dispatcher.cpp) above the chain store (BlockBase).  A   *)
(* thread that adds a block goes on with what the dispatcher does with the *)
(* update: the fork manager learns of new forks, origin blocks found in    *)
(* transactions are added in their turn, and forks that lag behind the     *)
(* primary chain get vacant blocks.  The node may halt or die, and starts  *)
(* again from its disk.                                                    *)
(***************************************************************************)
EXTENDS BlockBase

CONSTANTS
    FnThreads,    \* threads that add blocks
    FnReaders,    \* threads that answer peers
    FnDepth,      \* the storage check depth
    FnScripts     \* configurations with a stimulus: [level, allowed, group, threads, blocks, stops,
                  \* flushes, asks]: check level, setForkAllowed with genesis, setGroupAllowed,
                  \* the blocks handed in, in order, the threads that do it, and bounds on stops, flushes and questions

VARIABLES
    fn,           \* [sched, link, sub]: mapForkSched, setForkIndex, subscribed forks
    fnRead,       \* of each reader, [pc, fork, peer, got]
    fnConf,       \* the script
    fnLeft,       \* what is left of it: [blocks, stops, flushes, asks]
    fnLost,       \* whether the process has died, or its store was cleared
    fnWas         \* memory at the last halt, until the store changes again

fnVars == <<bbVars, fn, fnRead, fnConf, fnLeft, fnLost, fnWas>>

--------------------------------------------------------------------------
(* The fork manager.                                                       *)

NoSched == [allowed |-> FALSE, joint |-> {}]
SchedOf(m, f) == IF f \in DOMAIN m.sched THEN m.sched[f] ELSE NoSched
IsHalted(s) == ~s.allowed /\ s.joint = {}
ParentOf(f) == IF f = BbGenesis THEN None ELSE BbFork[f].parent

(* A group is a fork with all that descend from it, as far as the contexts *)
(* of the ancestors are known.                                             *)
RECURSIVE InGroup(_, _)
InGroup(ctxt, f) ==
    /\ f # None
    /\ f \in fnConf.group \/ (f \in ctxt /\ InGroup(ctxt, ParentOf(f)))

IsAllowedFork(ctxt, f) ==
    \/ f \in fnConf.allowed \cup fnConf.group
    \/ ParentOf(f) \in fnConf.group
    \/ InGroup(ctxt, ParentOf(f))

(* A joint block that is not stored is waited for in the parent's          *)
(* schedule; a parent that was halted has to be followed too.              *)
AddNewJoint(m, parent, joint, f) ==
    [m EXCEPT !.sched = (parent :> [SchedOf(m, parent) EXCEPT !.joint = @ \cup {<<joint, f>>}]) @@ @]

RECURSIVE Schedule(_, _, _)
Schedule(m, ctxt, f) ==
    LET joint == BbFork[f].joint
        p     == BbFork[f].parent
    IN  IF joint \in DOMAIN bbMem.index THEN [m EXCEPT !.active = Append(@, f)]
        ELSE IF ~IsHalted(SchedOf(m, p)) THEN AddNewJoint(m, p, joint, f)
        ELSE IF p \notin ctxt THEN m
        ELSE Schedule(AddNewJoint(m, p, joint, f), ctxt, p)

(* m also collects vActive and vDeactive.                                  *)
AddNewForkContext(m, ctxt, f) ==
    IF ~IsAllowedFork(ctxt, f) THEN [m EXCEPT !.link = @ \cup {f}]
    ELSE LET n == [m EXCEPT !.link = @ \cup {f},
                            !.sched = IF f \in DOMAIN @ THEN @ ELSE (f :> [NoSched EXCEPT !.allowed = TRUE]) @@ @]
         IN  IF f = BbGenesis THEN [n EXCEPT !.active = Append(@, f)] ELSE Schedule(n, ctxt, f)

RemoveJoint(m, f, b) ==
    LET waits == {j \in SchedOf(m, f).joint : j[1] = b}
        s     == [SchedOf(m, f) EXCEPT !.joint = @ \ waits]
    IN  [m EXCEPT !.sched = (f :> s) @@ @,
                  !.active = @ \o SetToSeq({j[2] : j \in waits}),
                  !.deactive = IF IsHalted(s) THEN @ \cup {f} ELSE @]

RemoveJoints(m, f, added) ==
    FoldRight(LAMBDA b, n : IF bbMem.index[b].kind \in {"extended", "vacant"} THEN n ELSE RemoveJoint(n, f, b),
              added, m)

(* The forks whose origin blocks are embedded in the blocks added, oldest  *)
(* first; the context of the parent must be known.                         *)
EmbeddedIn(b) ==
    SelectSeq([i \in DOMAIN bbMem.index[b].txs |-> BbTx[bbMem.index[b].txs[i]].embeds], LAMBDA f : f # None)

Embedded(added) == FoldRight(LAMBDA b, s : s \o EmbeddedIn(b), added, <<>>)

LearnFork(r, f) ==
    IF ParentOf(f) \notin r.ctxt THEN r
    ELSE [ctxt |-> r.ctxt \cup {f}, m |-> AddNewForkContext(r.m, r.ctxt \cup {f}, f)]

ForkUpdate(m, ctxt, f, added) ==
    LET n == IF SchedOf(m, f).joint = {} THEN m ELSE RemoveJoints(m, f, added)
        k == [n EXCEPT !.sched = (f :> SchedOf(n, f)) @@ @]
    IN  FoldLeft(LearnFork, [ctxt |-> ctxt, m |-> k], IF f = BbGenesis THEN Embedded(added) ELSE <<>>)

(* vActive and vDeactive are empty at first, and handed over at the end.   *)
Collect(m) == [sched |-> m.sched, link |-> m.link, sub |-> m.sub, active |-> <<>>, deactive |-> {}]
Settled(m) == [sched |-> m.sched, link |-> m.link, sub |-> m.sub]

(* LoadForkContext: all contexts, by the height of their joint.            *)
JointHeight(f) == IF f = BbGenesis THEN 0 ELSE BbFork[f].height

--------------------------------------------------------------------------
(* The dispatcher: a thread takes the next piece of its work.              *)

AtWork(t, what) ==
    /\ bbMem.up = "up" /\ bbThr[t].pc = "idle"
    /\ bbThr[t].work # <<>> /\ bbThr[t].work[1][1] = what
TheWork(t) == bbThr[t].work[1]

(* A peer, the miner or a client hands in a block.                         *)
FnOffer(t) ==
    /\ bbMem.up = "up" /\ t \in fnConf.threads /\ bbThr[t] = IdleThread /\ fnLeft.blocks # <<>>
    /\ bbThr' = [bbThr EXCEPT ![t].work = <<<<"block", BbBlock[Head(fnLeft.blocks)], <<>>>>>>]
    /\ fnLeft' = [fnLeft EXCEPT !.blocks = Tail(@)]
    /\ UNCHANGED <<bbDisk, bbMem, bbLock, fn, fnRead, fnConf, fnLost, fnWas>>

Activations(m) == [i \in DOMAIN m.active |-> <<"activate", m.active[i]>>]
Deactivations(m) == SetToSeq({<<"unsubscribe", f>> : f \in m.deactive})

(* AddNewBlock with an update in hand: ForkUpdate, then for a primary      *)
(* block SyncForkHeight.                                                   *)
FnUpdate(t) ==
    LET b == TheWork(t)[2]
        f == bbMem.index[b.id].org IN
    /\ AtWork(t, "update") /\ CanRead
    /\ \E r \in {IF b.kind = "vacant" THEN [ctxt |-> bbDisk.ctxt, m |-> Collect(fn)]
                 ELSE ForkUpdate(Collect(fn), bbDisk.ctxt, f, TheWork(t)[3])} :
         /\ fn' = Settled(r.m)
         /\ bbDisk' = [bbDisk EXCEPT !.ctxt = r.ctxt]
         /\ bbThr' = Done(t, Activations(r.m) \o Deactivations(r.m)
                               \o IF IsPrimary(b) THEN <<<<"sync", bbMem.index[b.id].h>>>> ELSE <<>>)
    /\ UNCHANGED <<bbMem, bbLock, fnRead, fnConf, fnLeft, fnLost, fnWas>>

(* ActivateFork: an origin block that is not stored is read from the       *)
(* transaction that embeds it and added.                                   *)
FnActivate(t) ==
    LET f == TheWork(t)[2]
        txs == {x \in BbTxIds : BbTx[x].embeds = f} IN
    /\ AtWork(t, "activate") /\ CanRead
    /\ bbThr' = IF f \in DOMAIN bbMem.index THEN Done(t, <<<<"subscribe", f>>>>)
                ELSE IF \E x \in txs : RetrieveTxIndex(bbMem.txi, x) # {}
                THEN Done(t, <<<<"block", BbBlock[f], <<<<"subscribe", f>>>>>>>>)
                ELSE Done(t, <<>>)
    /\ UNCHANGED <<bbDisk, bbMem, bbLock, fn, fnRead, fnConf, fnLeft, fnLost, fnWas>>

FnSubscribe(t) ==
    /\ AtWork(t, "subscribe") \/ AtWork(t, "unsubscribe")
    /\ fn' = [fn EXCEPT !.sub = IF TheWork(t)[1] = "subscribe" THEN @ \cup {TheWork(t)[2]}
                                ELSE @ \ {TheWork(t)[2]}]
    /\ bbThr' = Done(t, <<>>)
    /\ UNCHANGED <<bbDisk, bbMem, bbLock, fnRead, fnConf, fnLeft, fnLost, fnWas>>

(* SyncForkHeight: the status of the forks is read once.                   *)
Lagging(h) ==
    {f \in DOMAIN bbMem.fork \ {BbGenesis} :
        SchedOf(fn, f).allowed /\ h - bbMem.index[bbMem.fork[f]].h > 1}

FnSync(t) ==
    /\ AtWork(t, "sync") /\ CanRead
    /\ bbThr' = Done(t, SetToSeq({<<"fill", bbMem.fork[f], TheWork(t)[2]>> : f \in Lagging(TheWork(t)[2])}))
    /\ UNCHANGED <<bbDisk, bbMem, bbLock, fn, fnRead, fnConf, fnLeft, fnLost, fnWas>>

(* GetLastBlockTime: the times of the last blocks of the primary chain.    *)
LastTimes(n) ==
    LET c == Reverse(ForkChain(bbMem.index, bbMem.fork[BbGenesis]))
    IN  [i \in 0..n - 1 |-> bbMem.index[c[i + 1]].time]

FnFill(t) ==
    LET last == TheWork(t)[2]
        h    == TheWork(t)[3]
        from == bbMem.index[last].h + 1 IN
    /\ AtWork(t, "fill") /\ CanRead
    /\ bbThr' = Done(t, <<<<"vacant", last, from, h, LastTimes(h - from + 1)>>>>)
    /\ UNCHANGED <<bbDisk, bbMem, bbLock, fn, fnRead, fnConf, fnLeft, fnLost, fnWas>>

VacantOn(prev, time) ==
    [id |-> "v" \o prev \o ToString(time), prev |-> prev, kind |-> "vacant", time |-> time, trust |-> 0,
     txs |-> <<>>]

FnVacant(t) ==
    LET w == TheWork(t)
        b == VacantOn(w[2], w[5][w[4] - w[3]]) IN
    /\ AtWork(t, "vacant")
    /\ bbThr' = IF w[3] >= w[4] THEN Done(t, <<>>)
                ELSE Done(t, <<<<"block", b, <<<<"vacant", b.id, w[3] + 1, w[4], w[5]>>>>>>>>)
    /\ UNCHANGED <<bbDisk, bbMem, bbLock, fn, fnRead, fnConf, fnLeft, fnLost, fnWas>>

FnAddBlock(t) ==
    /\ BbAddBlock(t)
    /\ UNCHANGED <<fn, fnRead, fnConf, fnLeft, fnLost, fnWas>>

FnDispatch(t) ==
    \/ FnUpdate(t) \/ FnActivate(t) \/ FnSubscribe(t) \/ FnSync(t) \/ FnFill(t) \/ FnVacant(t)

--------------------------------------------------------------------------
(* A peer asks for an inventory: GetForkBlockInv holds both locks.         *)

ReaderGoes(r, pc, f) == fnRead' = [fnRead EXCEPT ![r] = [pc |-> pc, fork |-> f]]

FnAsk(r, f) ==
    /\ bbMem.up = "up" /\ fnRead[r].pc = "idle" /\ CanRead /\ f \in DOMAIN bbMem.fork
    /\ fnLeft.asks > 0 /\ fnLeft' = [fnLeft EXCEPT !.asks = @ - 1]
    /\ ReaderGoes(r, "fork", f)
    /\ bbLock' = [bbLock EXCEPT !.r = @ \cup {r}]
    /\ UNCHANGED <<bbDisk, bbMem, bbThr, fn, fnConf, fnLost, fnWas>>

FnLockFork(r) ==
    /\ fnRead[r].pc = "fork" /\ fnRead[r].fork \notin bbLock.fx
    /\ ReaderGoes(r, "answer", fnRead[r].fork)
    /\ bbLock' = [bbLock EXCEPT !.fr[fnRead[r].fork] = @ \cup {r}]
    /\ UNCHANGED <<bbDisk, bbMem, bbThr, fn, fnConf, fnLeft, fnLost, fnWas>>

FnAnswer(r) ==
    /\ fnRead[r].pc = "answer"
    /\ ReaderGoes(r, "idle", None)
    /\ bbLock' = DropView(bbLock, r)
    /\ UNCHANGED <<bbDisk, bbMem, bbThr, fn, fnConf, fnLeft, fnLost, fnWas>>

--------------------------------------------------------------------------
(* Stopping and starting.                                                  *)

DownMem == [up |-> "down", index |-> <<>>, fork |-> <<>>, next |-> <<>>, txi |-> <<>>, uns |-> <<>>]
NoForks == [sched |-> <<>>, link |-> {}, sub |-> {}]
AllIdle == \A t \in FnThreads : bbThr[t] = IdleThread

(* The flush threads of the two tables.                                    *)
FnFlush(table) ==
    /\ bbMem.up = "up" /\ fnLeft.flushes > 0
    /\ bbDisk' = IF table = "txi" THEN [bbDisk EXCEPT !.txi = bbMem.txi] ELSE [bbDisk EXCEPT !.uns = bbMem.uns]
    /\ fnLeft' = [fnLeft EXCEPT !.flushes = @ - 1]
    /\ UNCHANGED <<bbMem, bbLock, bbThr, fn, fnRead, fnConf, fnLost, fnWas>>

Stopped ==
    /\ bbMem.up = "up" /\ fnLeft.stops > 0
    /\ fnLeft' = [fnLeft EXCEPT !.stops = @ - 1]
    /\ bbMem' = DownMem
    /\ bbLock' = FreeLocks
    /\ bbThr' = [t \in FnThreads |-> IdleThread]
    /\ fnRead' = [r \in FnReaders |-> [pc |-> "idle", fork |-> None]]
    /\ fn' = NoForks

(* Deinitialize flushes both tables.                                       *)
FnHalt ==
    /\ Stopped /\ AllIdle
    /\ bbDisk' = [bbDisk EXCEPT !.txi = bbMem.txi, !.uns = bbMem.uns]
    /\ fnWas' = bbMem
    /\ UNCHANGED <<fnConf, fnLost>>

FnCrash ==
    /\ Stopped
    /\ fnWas' = DownMem /\ fnLost' = TRUE
    /\ UNCHANGED <<bbDisk, fnConf>>

FnStart ==
    /\ bbMem.up = "down"
    /\ IF LoadDBFails(bbDisk)
       THEN bbMem' = [DownMem EXCEPT !.up = "failed"] /\ UNCHANGED <<bbDisk, bbThr, fnLost>>
       ELSE \E d \in {Started(bbDisk, fnConf.level, FnDepth)} :
              /\ bbDisk' = d
              /\ bbMem' = LoadDB(d)
              /\ fnLost' = (fnLost \/ DOMAIN d.idx # DOMAIN bbDisk.idx)
              /\ bbThr' = [bbThr EXCEPT ![CHOOSE t \in FnThreads : TRUE].work = <<<<"load">>>>]
    /\ UNCHANGED <<bbLock, fn, fnRead, fnConf, fnLeft, fnWas>>

(* The dispatcher's HandleInvoke: LoadForkContext, then ActivateFork.      *)
FnLoad(t) ==
    /\ AtWork(t, "load")
    /\ \E m \in {FoldLeft(LAMBDA n, f : AddNewForkContext(n, bbDisk.ctxt, f), Collect(fn),
                          SetToSortSeq(bbDisk.ctxt, LAMBDA f, g : JointHeight(f) < JointHeight(g)))} :
         /\ fn' = Settled(m)
         /\ bbThr' = Done(t, Activations(m))
    /\ UNCHANGED <<bbDisk, bbMem, bbLock, fnRead, fnConf, fnLeft, fnLost, fnWas>>

FnInit ==
    /\ bbDisk = Initiate(<<>>)
    /\ bbMem = LoadDB(Initiate(<<>>))
    /\ bbLock = FreeLocks
    /\ bbThr = [t \in FnThreads |->
                  IF t = (CHOOSE u \in FnThreads : TRUE) THEN [IdleThread EXCEPT !.work = <<<<"load">>>>]
                  ELSE IdleThread]
    /\ fn = NoForks
    /\ fnRead = [r \in FnReaders |-> [pc |-> "idle", fork |-> None]]
    /\ fnConf \in FnScripts
    /\ fnLeft = [blocks |-> fnConf.blocks, stops |-> fnConf.stops, flushes |-> fnConf.flushes, asks |-> fnConf.asks]
    /\ fnLost = FALSE
    /\ fnWas = DownMem

FnStep ==
    \/ \E t \in FnThreads :
         \/ FnOffer(t) \/ FnAddBlock(t) \/ FnDispatch(t) \/ FnLoad(t)
    \/ \E r \in FnReaders : (\E f \in BbForks : FnAsk(r, f)) \/ FnLockFork(r) \/ FnAnswer(r)
    \/ \E table \in {"txi", "uns"} : FnFlush(table)
    \/ FnHalt \/ FnCrash \/ FnStart

--------------------------------------------------------------------------
OnChain(f, b) == f \in DOMAIN bbMem.fork /\ b \in ToSet(ForkChain(bbMem.index, bbMem.fork[f]))

RECURSIVE PeerChain(_)
PeerChain(b) == {b} \cup IF IsOrigin(BbBlock[b]) THEN {} ELSE PeerChain(BbBlock[b].prev)

(* While a thread answers a peer, the next pointers of the fork lead from  *)
(* its origin along its active chain, and the inventory for any peer's     *)
(* last block starts on a block that the peer has and runs along the       *)
(* active chain, so the peer can attach it (UpdateNext, UpdateLast,        *)
(* GetForkBlockLocator and GetForkBlockInv under reorganisation).          *)
FnInventoryAttaches ==
    \A r \in FnReaders : fnRead[r].pc = "answer" =>
        LET f     == fnRead[r].fork
            chain == ForkChain(bbMem.index, bbMem.fork[f])
        IN  /\ NextBlocks(bbMem.next, f, Len(chain) + 1) = chain
            /\ \A p \in {b \in DOMAIN BbBlock : BbOrigin(b) = f} :
                 LET inv == GetForkBlockInv(bbMem, f, GetForkBlockLocator(f, p, 1, <<>>))
                 IN  inv # <<>> =>
                       /\ bbMem.index[inv[1]].prev \in PeerChain(p)
                       /\ \A i \in 2..Len(inv) :
                            \/ bbMem.index[inv[i]].prev = inv[i - 1]
                            \/ i = Len(inv) /\ inv[i] = bbMem.fork[f]

(* Whenever the process dies, the blocks that a fork's reference on disk   *)
(* leads to are all in the block index and the block file, and the primary *)
(* ones have their delegate record, so that the fork can be loaded and     *)
(* extended (the order of the writes of AddNew and CommitBlockView).       *)
RECURSIVE WholeFrom(_, _)
WholeFrom(d, b) ==
    /\ b \in DOMAIN d.idx
    /\ CheckBlock(d, b)
    /\ IsPrimary(d.idx[b]) => b \in DOMAIN d.dele
    /\ b # BbGenesis => WholeFrom(d, d.idx[b].prev)

FnReferencesWhole ==
    \A f \in DOMAIN bbDisk.act : bbDisk.act[f] # None => WholeFrom(bbDisk, bbDisk.act[f])

\* Every fork still starts from its parent's active chain.
JointsKept(mem) ==
    \A f \in DOMAIN mem.fork \ {BbGenesis} :
        BbFork[f].joint \in ToSet(ForkChain(mem.index, mem.fork[BbFork[f].parent]))

(* A node that was halted and started again has the forks, the active      *)
(* chains and the tables it had (LoadDB and CheckConsistency); at check    *)
(* level 1 this needs the joint blocks to be on their parents' chains.     *)
FnRestartExact ==
    [][bbMem.up = "down" /\ fnWas.up = "up" /\ (fnConf.level = 0 \/ (fnConf.level = 1 /\ JointsKept(fnWas)))
         => bbMem' = fnWas]_fnVars

(* When a node that never died, and whose blocks come in through one       *)
(* thread, is at rest, it follows the forks it wants: a                    *)
(* fork that is allowed, or that an allowed fork's joint block is awaited  *)
(* in, is stored and subscribed to once the primary chain announces it and *)
(* its own joint block is on its parent's chain, and no other fork is; and *)
(* the context of every announced fork is known (ForkUpdate,               *)
(* AddNewForkContext, ActivateFork, across reorganisations and restarts).  *)
RECURSIVE Wanted(_)
Wanted(f) ==
    /\ f \in bbDisk.ctxt
    /\ \/ IsAllowedFork(bbDisk.ctxt, f)
       \/ \E g \in bbDisk.ctxt \ {BbGenesis} :
            BbFork[g].parent = f /\ Wanted(g) /\ BbFork[g].joint \notin DOMAIN bbMem.index

Announced ==
    UNION {ToSet(EmbeddedIn(b)) : b \in ToSet(ForkChain(bbMem.index, bbMem.fork[BbGenesis]))}

FnForksFollowed ==
    bbMem.up = "up" /\ AllIdle /\ ~fnLost /\ Cardinality(fnConf.threads) = 1 =>
        /\ Announced \subseteq bbDisk.ctxt
        /\ \A f \in Announced : Wanted(f) /\ OnChain(BbFork[f].parent, BbFork[f].joint)
                                  => f \in DOMAIN bbMem.fork \cap fn.sub
        /\ \A f \in fn.sub : Wanted(f)

(* A node that starts with check level 1 can look up every transaction of  *)
(* its primary chain, whatever a crash left unflushed (CheckConsistency).  *)
FnTxsFound ==
    bbMem.up = "up" /\ fnConf.level >= 1 /\ AllIdle =>
        \A b \in ToSet(ForkChain(bbMem.index, bbMem.fork[BbGenesis])) :
            \A x \in ToSet(bbMem.index[b].txs) : x \in DOMAIN bbMem.txi[BbGenesis]

(* A node keeps its forks in order while it runs and when it dies: what it *)
(* tells peers attaches to their chains, references on disk lead to whole  *)
(* chains, the forks wanted are followed and their transactions found.     *)
FnForksKept == FnInventoryAttaches /\ FnReferencesWhole /\ FnForksFollowed /\ FnTxsFound
==========================================================================
