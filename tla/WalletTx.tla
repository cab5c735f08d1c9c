------------------------------ MODULE WalletTx ------------------------------
(***************************************************************************)
(* The wallet's transactions: the coins of each address in each fork and     *)
(* the transactions they come from (src/wallet.cpp), the database and the    *)
(* cache they are kept in (storage/walletdb.cpp), and the RPC commands that  *)
(* read them and spend from them (src/rpcmod.cpp through src/service.cpp).   *)
(*                                                                           *)
(* A txid is 100 * the second the transaction was made in + a rank, as the   *)
(* program's txids begin with the time.  A wallet call is one step under      *)
(* rwWalletTx.  What the dispatcher does to pool and wallet for one block or  *)
(* transaction is one step here; its races are the subject of Ledger.        *)
(* CWalletTxOut compares pointers, so a coin names the object its transaction*)
(* was when it was pushed: a second object for one transaction is another.   *)
(***************************************************************************)
EXTENDS Integers, Sequences, FiniteSets, TLC, SequencesExt, FiniteSetsExt, Functions

CONSTANTS
    WtThreads,      \* worker threads of the RPC module
    WtMaxInput,     \* nMaxInput of ArrangeInputs
    WtByte,         \* how many values the first byte of a sequence number has
    WtScripts       \* [dests, subs: templates -> [keys, need], locked: dest -> amount, txs: txid -> facts, node: dispatcher's events,
                    \*  cmds: [WtThreads -> sequence of commands]]

VARIABLES
    wt,             \* the wallet; see WtEmpty
    wtEnv,          \* worldline and pool: [tx, conf: txid -> <<fork, height>>, pool: fork -> Seq(txid), fork: fork -> [parent, origin, isolated], top]
    wtThr,          \* [thread -> [cmds, pc, tx: what it made, said: its last answer]]
    wtLock,         \* [map: mapDestMutex, <<dest, fork>> -> mutex, mtx: every CDestMutex made, as [ref, owner]]
    wtScr           \* the script, without what the dispatcher has done of it

wtVars == <<wt, wtEnv, wtThr, wtLock, wtScr>>

Genesis == "g"

-----------------------------------------------------------------------------
(* common/wallettx.h, src/wallet.h: outputs, objects and coins.            *)
WtTx(id) == wtEnv.tx[id]
WtAmount(id, n) == IF n = 0 THEN WtTx(id).amount ELSE WtTx(id).change
WtLockUntil(id, n) == IF n = 0 THEN WtTx(id).lock ELSE 0

WtDrop(f, k) == Restrict(f, DOMAIN f \ {k})

\* mapWalletTx.insert of a new object.
WtInsert(w, rec) ==
    [w EXCEPT !.gen = @ + 1, !.mem = (rec.id :> w.gen + 1) @@ @, !.obj = (<<rec.id, w.gen + 1>> :> rec) @@ @]
GetRefCount(w, id) == Cardinality({c \in w.coins : c.id = id /\ c.gen = w.mem[id]})
WtForget(w, id) == IF id \in DOMAIN w.mem /\ GetRefCount(w, id) = 0 THEN [w EXCEPT !.mem = WtDrop(@, id)] ELSE w

WtCoin(w, dest, fork, id, n) == [dest |-> dest, fork |-> fork, id |-> id, gen |-> w.mem[id], n |-> n]
WtPush(w, dest, fork, id, n) ==
    [w EXCEPT !.entry = @ \cup {dest},
              !.coins = IF WtAmount(id, n) > 0 THEN @ \cup {WtCoin(w, dest, fork, id, n)} ELSE @]
WtPop(w, dest, fork, id, n) ==
    [w EXCEPT !.entry = @ \cup {dest}, !.coins = @ \ {WtCoin(w, dest, fork, id, n)}]
WtDup(w, from, to) ==
    [w EXCEPT !.coins = @ \cup {[c EXCEPT !.fork = to] : c \in {x \in w.coins : x.fork = from}}]
GetCoins(w, dest, fork) == {c \in w.coins : c.dest = dest /\ c.fork = fork}

WtTotal(coins) == MapThenSumSet(LAMBDA c : WtAmount(c.id, c.n), coins)
IsLocked(c, height) == height < WtLockUntil(c.id, c.n)

-----------------------------------------------------------------------------
(* storage/walletdb.cpp.  A sequence number is stored least significant    *)
(* byte first, and the database walks its keys in the order of their bytes. *)
WtSeqBefore(a, b) ==
    \/ a % WtByte < b % WtByte
    \/ a % WtByte = b % WtByte /\ a \div WtByte < b \div WtByte
WalkThroughTxSeq(db) == LET order == SetToSortSeq(DOMAIN db.seq, WtSeqBefore) IN [i \in DOMAIN order |-> db.seq[order[i]]]

WtWrite(db, seq, rec) ==
    [db EXCEPT !.tx = (rec.id :> [seq |-> seq, rec |-> rec]) @@ @,
               !.seq = (seq :> [id |-> rec.id, fork |-> rec.fork, height |-> rec.height]) @@ @]

\* CWalletTxDB::UpdateTx: what to erase is looked up before anything is written.
DbPutTx(db, rec) ==
    IF rec.id \in DOMAIN db.tx
    THEN WtWrite(db, db.tx[rec.id].seq, rec)
    ELSE [WtWrite(db, db.next, rec) EXCEPT !.next = @ + 1, !.count = @ + 1]
DbEraseTx(db, id, seq) == [db EXCEPT !.tx = WtDrop(@, id), !.seq = WtDrop(@, seq), !.count = @ - 1]
DbUpdateTx(db, recs, removed) ==
    FoldLeft(LAMBDA d, id : IF id \in DOMAIN db.tx THEN DbEraseTx(d, id, db.tx[id].seq) ELSE d,
             FoldLeft(DbPutTx, db, recs), removed)
DbEmpty == [tx |-> <<>>, seq |-> <<>>, count |-> 0, next |-> 0]

CacheRemove(cache, ids) == SelectSeq(cache, LAMBDA rec : rec.id \notin ids)
CacheListTx(cache, offset, count) == SubSeq(cache, offset + 1, Min({Len(cache), offset + count}))

DbAddNewTx(w, rec) ==
    IF rec.height >= 0 THEN [w EXCEPT !.db = DbPutTx(@, rec)]
    ELSE IF \E i \in DOMAIN w.cache : w.cache[i].id = rec.id THEN w ELSE [w EXCEPT !.cache = Append(@, rec)]
WtUpdateDb(w, recs, removed) ==
    [w EXCEPT !.db = DbUpdateTx(@, recs, removed),
              !.cache = CacheRemove(@, {recs[i].id : i \in DOMAIN recs} \cup ToSet(removed))]
WtCached(w, id) == SelectSeq(w.cache, LAMBDA rec : rec.id = id)
ExistsTx(w, id) == WtCached(w, id) # <<>> \/ id \in DOMAIN w.db.tx
RetrieveTx(w, id) == IF WtCached(w, id) # <<>> THEN WtCached(w, id)[1] ELSE w.db.tx[id].rec
GetTxCount(w) == w.db.count + Len(w.cache)
WtDeinitialize(w) == IF w.cache = <<>> THEN w ELSE WtUpdateDb(w, w.cache, <<>>)

ListDBTx(w, offset, count) ==
    LET all == WalkThroughTxSeq(w.db)
    IN  [i \in 1..Max({0, Min({Len(all) - offset, count})}) |-> all[offset + i].id]
WtIds(recs) == [i \in DOMAIN recs |-> recs[i].id]

ListTx(w, offset, count) ==
    IF offset < w.db.count
    THEN LET found == ListDBTx(w, offset, count)
         IN  found \o WtIds(CacheListTx(w.cache, 0, count - Len(found)))
    ELSE WtIds(CacheListTx(w.cache, offset - w.db.count, count))
ListRollBackTx(w, fork, height) ==
    WtIds(SelectSeq(WalkThroughTxSeq(w.db), LAMBDA e : e.fork = fork /\ (e.height < 0 \/ e.height >= height))
          \o SelectSeq(w.cache, LAMBDA rec : rec.fork = fork))

-----------------------------------------------------------------------------
(* src/wallet.cpp: a transaction enters and leaves the coins.              *)
IsMine(w, dest) == dest \in w.dests
LoadWalletTx(w, id) ==
    IF id \in DOMAIN w.mem \/ ~ExistsTx(w, id) THEN w ELSE WtInsert(w, RetrieveTx(w, id))
WtRec(w, fork, id, height) ==
    [id |-> id, fork |-> fork, height |-> height, mine |-> IsMine(w, WtTx(id).to), from |-> IsMine(w, WtTx(id).from)]
WtSetHeight(w, id, height) == [w EXCEPT !.obj[<<id, w.mem[id]>>].height = height]
InsertWalletTx(w, fork, id, height) ==
    IF id \notin DOMAIN w.mem THEN WtInsert(w, WtRec(w, fork, id, height))
    ELSE [WtSetHeight(w, id, height) EXCEPT
             !.obj[<<id, w.mem[id]>>].mine = IsMine(w, WtTx(id).to), !.obj[<<id, w.mem[id]>>].from = IsMine(w, WtTx(id).from)]
WtObj(w, id) == w.obj[<<id, w.mem[id]>>]

\* The fork and the sublines, theirs included, that start at this height or above.
RECURSIVE GetWalletTxFork(_, _, _)
GetWalletTxFork(w, fork, height) ==
    IF fork \notin DOMAIN w.fork THEN {}
    ELSE {fork} \cup
         (IF height < 0 THEN {}
          ELSE UNION {GetWalletTxFork(w, f, height) :
                        f \in {x \in DOMAIN w.fork : w.fork[x].parent = fork /\ w.fork[x].origin >= height /\ ~w.fork[x].isolated}})

WtSpend(w, dest, forks, out) ==
    IF out[1] \notin DOMAIN w.mem THEN w
    ELSE WtForget(FoldSet(LAMBDA f, acc : WtPop(acc, dest, f, out[1], out[2]), w, forks), out[1])
AddNewWalletTx(w, id, forks) ==
    LET tx    == WtTx(id)
        rec   == WtObj(w, id)
        spent == IF ~rec.from THEN w
                 ELSE FoldSet(LAMBDA f, acc : WtPush(acc, tx.from, f, id, 1),
                              FoldLeft(LAMBDA acc, out : WtSpend(acc, tx.from, forks, out), w, tx.ins), forks)
    IN  IF ~rec.mine THEN spent ELSE FoldSet(LAMBDA f, acc : WtPush(acc, tx.to, f, id, 0), spent, forks)

WtRestore(w, dest, fork, out) ==
    LET loaded == LoadWalletTx(w, out[1])
    IN  IF out[1] \in DOMAIN loaded.mem THEN WtPush(loaded, dest, fork, out[1], out[2]) ELSE loaded
\* Slip: only a transaction in memory gets its coin back.
RemoveWalletTxLoaded(w, id, fork) ==
    LET tx   == WtTx(id)
        back == IF ~WtObj(w, id).from THEN w
                ELSE WtPop(FoldLeft(LAMBDA acc, out : IF out[1] \in DOMAIN acc.mem THEN WtPush(acc, tx.from, fork, out[1], out[2]) ELSE acc,
                                    w, tx.ins), tx.from, fork, id, 1)
    IN  IF ~WtObj(w, id).mine THEN back ELSE WtPop(back, tx.to, fork, id, 0)
RemoveWalletTx(w, id, fork) ==
    LET tx   == WtTx(id)
        back == IF ~WtObj(w, id).from THEN w
                ELSE WtPop(FoldLeft(LAMBDA acc, out : WtRestore(acc, tx.from, fork, out), w, tx.ins), tx.from, fork, id, 1)
    IN  IF ~WtObj(w, id).mine THEN back ELSE WtPop(back, tx.to, fork, id, 0)

WalletAddNewTx(w, fork, id, height) ==
    IF ~IsMine(w, WtTx(id).to) /\ ~IsMine(w, WtTx(id).from) THEN w
    ELSE LET done == AddNewWalletTx(InsertWalletTx(w, fork, id, height), id, GetWalletTxFork(w, fork, height))
         IN  DbAddNewTx(WtForget(done, id), WtObj(done, id))
WalletUpdateTx(w, fork, id, height) ==
    IF ~IsMine(w, WtTx(id).to) /\ ~IsMine(w, WtTx(id).from) THEN w
    ELSE LET done == AddNewWalletTx(InsertWalletTx(w, fork, id, height), id, GetWalletTxFork(w, fork, height))
         IN  WtUpdateDb(WtForget(done, id), <<WtObj(done, id)>>, <<>>)

\* CWallet::SynchronizeTxSet, over the change the pool reports; mapTxUpdate goes in the order of the txids.
WtRemoved(w, id, fork) ==
    IF ~ExistsTx(w, id) /\ id \notin DOMAIN w.mem THEN w
    ELSE LET gone == RemoveWalletTx(LoadWalletTx(w, id), id, fork) IN [gone EXCEPT !.mem = WtDrop(@, id)]
WtUpdated(acc, id, height) ==
    IF ~ExistsTx(acc.w, id) /\ id \notin DOMAIN acc.w.mem THEN acc
    ELSE LET w == WtSetHeight(LoadWalletTx(acc.w, id), id, height)
         IN  [w |-> w, recs |-> Append(acc.recs, WtObj(w, id))]
WtAdded(acc, fork, new) ==
    IF ~IsMine(acc.w, WtTx(new.id).to) /\ ~IsMine(acc.w, WtTx(new.id).from) THEN acc
    ELSE LET w == AddNewWalletTx(InsertWalletTx(acc.w, fork, new.id, new.height), new.id,
                                 GetWalletTxFork(acc.w, fork, new.height))
         IN  [w |-> w, recs |-> Append(acc.recs, WtObj(w, new.id))]
WtChanged(w, change) ==
    FoldLeft(LAMBDA acc, n : WtAdded(acc, change.fork, n),
             FoldLeft(LAMBDA acc, id : WtUpdated(acc, id, change.update[id]),
                      [w |-> FoldLeft(LAMBDA acc, id : WtRemoved(acc, id, change.fork), w, change.remove), recs |-> <<>>],
                      SetToSortSeq(DOMAIN change.update, <)),
             change.add)
SynchronizeTxSet(w, change) ==
    LET c       == WtChanged(w, change)
        removed == SelectSeq(change.remove, LAMBDA id : ExistsTx(w, id))
    IN  IF c.recs = <<>> /\ removed = <<>> THEN c.w
        ELSE WtUpdateDb(FoldLeft(WtForget, c.w, WtIds(c.recs)), c.recs, removed)

\* A new fork starts with its parent's coins, without what the parent did above the origin.
WtUndone(w, id, fork) == WtForget(RemoveWalletTx(LoadWalletTx(w, id), id, fork), id)
AddNewFork(w, fork, of) ==
    LET known == [w EXCEPT !.fork = (fork :> of) @@ @]
    IN  IF fork \in DOMAIN w.fork THEN w
        ELSE IF of.isolated THEN known
        ELSE FoldLeft(LAMBDA acc, id : WtUndone(acc, id, fork), WtDup(known, of.parent, fork),
                      Reverse(ListRollBackTx(w, of.parent, of.origin + 1)))

\* The txids of a fork as CWorldLine::FilterTx and then CTxPool::FilterTx find them.
WtPlace(id) == wtEnv.conf[id].height * 100 + wtEnv.conf[id].at
WtFilter(fork, dests) ==
    SelectSeq(SetToSortSeq({id \in DOMAIN wtEnv.conf : wtEnv.conf[id].fork = fork}, LAMBDA a, b : WtPlace(a) < WtPlace(b)) \o wtEnv.pool[fork],
              LAMBDA id : WtTx(id).to \in dests \/ WtTx(id).from \in dests)
WtHeight(id) == IF id \in DOMAIN wtEnv.conf THEN wtEnv.conf[id].height ELSE -1

\* Genesis first, then the sublines, breadth first.
RECURSIVE WtForkOrder(_, _)
WtForkOrder(w, level) ==
    LET next == {f \in DOMAIN w.fork : \E i \in DOMAIN level : w.fork[f].parent = level[i]}
    IN  IF level = <<>> THEN <<>>
        ELSE level \o WtForkOrder(w, SetToSortSeq(next, LAMBDA a, b : w.fork[a].origin < w.fork[b].origin))
SyncWalletTx(w, dests) ==
    FoldLeft(LAMBDA acc, f : FoldLeft(LAMBDA x, id : WalletUpdateTx(x, f, id, WtHeight(id)), acc, WtFilter(f, dests)),
             w, WtForkOrder(w, <<Genesis>>))
SynchronizeWalletTx(w, dest) == SyncWalletTx(w, {dest})
WtClear(w) == [w EXCEPT !.coins = {}, !.entry = {}, !.mem = <<>>, !.obj = <<>>]
ResynchronizeWalletTx(w) == SyncWalletTx([WtClear(w) EXCEPT !.db = DbEmpty, !.cache = <<>>], w.dests)

\* Start-up: the forks of the worldline, then the stored transactions in the order they are walked.
UpdateFork(w) == [w EXCEPT !.fork = wtEnv.fork]
LoadTx(w, rec) == AddNewWalletTx(WtInsert(w, rec), rec.id, GetWalletTxFork(w, rec.fork, rec.height))
LoadDB(w) ==
    FoldLeft(LAMBDA acc, e : LoadTx(acc, acc.db.tx[e.id].rec), UpdateFork(WtClear(w)), WalkThroughTxSeq(w.db))

\* CWallet::InspectWalletTx: what pool and chain have of the wallet's addresses is stored as they have it.
\* What it finds the other way round it does not use, for WalkThroughTx is never false.
CompareWithTxOrPool(w, id) == ExistsTx(w, id) /\ RetrieveTx(w, id).height = WtHeight(id)
InspectWalletTx(w) ==
    IF w.dests = {} THEN GetTxCount(w) = 0
    ELSE \A f \in DOMAIN wtEnv.fork : \A id \in ToSet(WtFilter(f, w.dests)) : CompareWithTxOrPool(w, id)

-----------------------------------------------------------------------------
(* Choosing coins.                                                         *)
WtValue(c) == WtAmount(c.id, c.n)
WtUsable(w, dest, fork, height, time) == {c \in GetCoins(w, dest, fork) : ~IsLocked(c, height) /\ c.id \div 100 <= time}

\* One coin of the walk.  acc: [lower: kept lower coins, larger: the lowest larger one, exact, done].
WtLowest(S) == CHOOSE c \in S : \A d \in S : WtValue(c) <= WtValue(d)
WtKeep(lower) == IF Cardinality(lower) > WtMaxInput THEN lower \ {WtLowest(lower)} ELSE lower
WtConsider(acc, c, target) ==
    IF acc.done THEN acc
    ELSE IF WtValue(c) = target THEN [acc EXCEPT !.exact = {c}, !.done = TRUE]
    ELSE IF WtValue(c) < target
         THEN LET lower == WtKeep(acc.lower \cup {c}) IN [acc EXCEPT !.lower = lower, !.done = WtTotal(lower) >= target]
    ELSE IF acc.larger = {} \/ \E l \in acc.larger : WtValue(c) < WtValue(l) THEN [acc EXCEPT !.larger = {c}] ELSE acc

\* From the kept lower coins: the smallest that covers the rest, else the largest.
WtCovers(S, short) == IF \E c \in S : WtValue(c) >= short THEN WtLowest({c \in S : WtValue(c) >= short})
                      ELSE CHOOSE c \in S : \A d \in S : WtValue(d) <= WtValue(c)
RECURSIVE WtPick(_, _)
WtPick(S, short) ==
    IF short <= 0 THEN {} ELSE LET c == WtCovers(S, short) IN {c} \cup WtPick(S \ {c}, short - WtValue(c))
RECURSIVE WtSmallest(_, _)
WtSmallest(S, n) == IF n = 0 \/ S = {} THEN {} ELSE {WtLowest(S)} \cup WtSmallest(S \ {WtLowest(S)}, n - 1)

SelectCoins(coins, order, target) ==
    LET acc == FoldLeft(LAMBDA a, c : WtConsider(a, c, target), [lower |-> {}, larger |-> {}, exact |-> {}, done |-> FALSE], order)
    IN  IF WtTotal(coins) < target THEN {}
        ELSE IF acc.exact # {} THEN acc.exact
        ELSE IF WtTotal(acc.lower) >= target THEN WtPick(acc.lower, target)
        ELSE IF acc.larger # {} THEN acc.larger \cup WtSmallest(acc.lower, 3)
        ELSE {}

\* CWallet::ArrangeInputs: the coins are walked in the order of their objects' addresses.
WtTarget(cmd) == cmd.amount + 1 + (IF cmd.from \in DOMAIN wtScr.locked THEN wtScr.locked[cmd.from] ELSE 0)
WtOrders(S) == {o \in [1..Cardinality(S) -> S] : Cardinality({o[i] : i \in DOMAIN o}) = Cardinality(S)}
ArrangeInputs(cmd) ==
    LET coins  == GetCoins(wt, cmd.from, cmd.fork)
        usable == WtUsable(wt, cmd.from, cmd.fork, wtEnv.top[cmd.fork], cmd.time)
    IN  {SelectCoins(coins, o, WtTarget(cmd)) : o \in WtOrders(usable)}

GetBalance(w, dest, fork, height) ==
    LET coins  == GetCoins(w, dest, fork)
        held   == WtTotal({c \in coins : IsLocked(c, height)})
        locked == IF dest \in DOMAIN wtScr.locked THEN Min({Max({held, wtScr.locked[dest]}), WtTotal(coins)}) ELSE held
    IN  IF dest \notin w.entry THEN <<>>
        ELSE <<WtTotal(coins) - locked, locked,
               WtTotal({c \in coins : ~IsLocked(c, height) /\ w.obj[<<c.id, c.gen>>].height < 0})>>

-----------------------------------------------------------------------------
(* What pool and worldline hold: the transactions a fork sees.             *)
RECURSIVE WtVisible(_, _)
WtVisible(fork, height) ==
    LET of == wtEnv.fork[fork]
    IN  {id \in DOMAIN wtEnv.conf : wtEnv.conf[id].fork = fork /\ wtEnv.conf[id].height <= height}
        \cup (IF of.parent = "" \/ of.isolated THEN {} ELSE WtVisible(of.parent, Min({height, of.origin})))
WtSeen(fork) == WtVisible(fork, wtEnv.top[fork]) \cup ToSet(wtEnv.pool[fork])
WtSpentIn(fork) == UNION {ToSet(WtTx(id).ins) : id \in WtSeen(fork)}
WtOutputs(id) == {[dest |-> WtTx(id).to, id |-> id, n |-> 0], [dest |-> WtTx(id).from, id |-> id, n |-> 1]}
WtUnspent(fork) ==
    {o \in UNION {WtOutputs(id) : id \in WtSeen(fork)} : WtAmount(o.id, o.n) > 0 /\ <<o.id, o.n>> \notin WtSpentIn(fork)}
FetchInputs(fork, ins) == \A i \in DOMAIN ins : \E o \in WtUnspent(fork) : <<o.id, o.n>> = ins[i]

-----------------------------------------------------------------------------
(* src/rpcmod.cpp, src/service.cpp.                                        *)
WtCmd(t) == Head(wtThr[t].cmds)
WtTo(t, pc) == [wtThr EXCEPT ![t].pc = pc]
WtEnd(t) == [wtThr EXCEPT ![t].pc = "idle", ![t].cmds = Tail(@)]
WtKey(t) == <<WtCmd(t).from, WtCmd(t).fork>>

\* CDestForkLock: find or make the mutex of address and fork, and count this use of it.
DestForkRef(t) ==
    /\ wtThr[t].pc = "idle" /\ wtThr[t].cmds # <<>> /\ WtCmd(t).cmd = "sendfrom"
    /\ \E m \in {IF WtKey(t) \in DOMAIN wtLock.map THEN wtLock.map[WtKey(t)] ELSE Len(wtLock.mtx) + 1} :
         /\ wtLock' = [map |-> (WtKey(t) :> m) @@ wtLock.map,
                       mtx |-> IF m \in DOMAIN wtLock.mtx THEN [wtLock.mtx EXCEPT ![m].ref = @ + 1]
                               ELSE Append(wtLock.mtx, [ref |-> 1, owner |-> 0])]
         /\ wtThr' = [wtThr EXCEPT ![t].pc = "lock", ![t].mtx = m]
    /\ UNCHANGED <<wt, wtEnv, wtScr>>
DestForkLock(t) ==
    /\ wtThr[t].pc = "lock" /\ wtLock.mtx[wtThr[t].mtx].owner = 0
    /\ wtLock' = [wtLock EXCEPT !.mtx[wtThr[t].mtx].owner = t]
    /\ wtThr' = WtTo(t, "create")
    /\ UNCHANGED <<wt, wtEnv, wtScr>>
DestForkUnlock(t) ==
    /\ wtThr[t].pc = "unlock"
    /\ wtLock' = [wtLock EXCEPT !.mtx[wtThr[t].mtx].owner = 0]
    /\ wtThr' = WtTo(t, "unref")
    /\ UNCHANGED <<wt, wtEnv, wtScr>>
\* The key it erases by is a reference to a temporary that is gone: it finds its entry, or nothing.
WtErased(map, key) == {map, WtDrop(map, key)}
DestForkUnref(t) ==
    /\ wtThr[t].pc = "unref"
    /\ \E map \in IF wtLock.mtx[wtThr[t].mtx].ref = 1 THEN WtErased(wtLock.map, WtKey(t)) ELSE {wtLock.map} :
         wtLock' = [map |-> map, mtx |-> [wtLock.mtx EXCEPT ![wtThr[t].mtx].ref = @ - 1]]
    /\ wtThr' = WtEnd(t)
    /\ UNCHANGED <<wt, wtEnv, wtScr>>

\* CService::CreateTransaction.  The new transaction's txid is made when it is signed.
WtNew(cmd, sel) ==
    [from |-> cmd.from, to |-> cmd.to, amount |-> cmd.amount, change |-> WtTotal(sel) - cmd.amount - 1, lock |-> 0,
     ins |-> SetToSeq({<<c.id, c.n>> : c \in sel})]
CreateTransaction(t) ==
    /\ \/ wtThr[t].pc = "create"
       \/ wtThr[t].pc = "idle" /\ wtThr[t].cmds # <<>> /\ WtCmd(t).cmd = "createtransaction"
    /\ \E sel \in ArrangeInputs(WtCmd(t)) :
         \/ /\ WtTotal(sel) < WtTarget(WtCmd(t))
            /\ wtThr' = IF WtCmd(t).cmd = "sendfrom" THEN WtTo(t, "unlock") ELSE WtEnd(t)
         \/ /\ WtTotal(sel) >= WtTarget(WtCmd(t))
            /\ wtThr' = IF WtCmd(t).cmd = "sendfrom"
                        THEN [wtThr EXCEPT ![t].pc = "sign", ![t].tx = WtNew(WtCmd(t), sel)]
                        ELSE [WtEnd(t) EXCEPT ![t].tx = WtNew(WtCmd(t), sel)]
    /\ wt' = [wt EXCEPT !.entry = @ \cup {WtCmd(t).from}]
    /\ UNCHANGED <<wtEnv, wtLock, wtScr>>

\* CService::SignTransaction: the pool still has the inputs unspent and the wallet has the key.  Signed, it has its txid.
WtId(t) == WtCmd(t).time * 100 + Cardinality({id \in DOMAIN wtEnv.tx : id \div 100 = WtCmd(t).time})
SignTransaction(t) ==
    /\ wtThr[t].pc = "sign" \/ (wtThr[t].pc = "idle" /\ wtThr[t].cmds # <<>> /\ WtCmd(t).cmd = "sendtransaction" /\ wtThr[t].tx # <<>>)
    /\ \/ /\ FetchInputs(WtCmd(t).fork, wtThr[t].tx.ins) /\ IsMine(wt, wtThr[t].tx.from)
          /\ wtThr' = [wtThr EXCEPT ![t].pc = "send", ![t].id = WtId(t)]
          /\ wtEnv' = [wtEnv EXCEPT !.tx = (WtId(t) :> wtThr[t].tx) @@ @]
       \/ /\ ~(FetchInputs(WtCmd(t).fork, wtThr[t].tx.ins) /\ IsMine(wt, wtThr[t].tx.from))
          /\ wtThr' = [(IF WtCmd(t).cmd = "sendfrom" THEN WtTo(t, "unlock") ELSE WtEnd(t)) EXCEPT ![t].tx = <<>>]
          /\ UNCHANGED wtEnv
    /\ UNCHANGED <<wt, wtLock, wtScr>>

\* CDispatcher::AddNewTx: the pool takes it, then the wallet.
SendTransaction(t) ==
    /\ wtThr[t].pc = "send"
    /\ \/ /\ FetchInputs(WtCmd(t).fork, wtThr[t].tx.ins)
          /\ wtEnv' = [wtEnv EXCEPT !.pool[WtCmd(t).fork] = Append(@, wtThr[t].id)]
          /\ wt' = WalletAddNewTx(wt, WtCmd(t).fork, wtThr[t].id, -1)
       \/ ~FetchInputs(WtCmd(t).fork, wtThr[t].tx.ins) /\ UNCHANGED <<wt, wtEnv>>
    /\ wtThr' = [(IF WtCmd(t).cmd = "sendfrom" THEN WtTo(t, "unlock") ELSE WtEnd(t)) EXCEPT ![t].tx = <<>>]
    /\ UNCHANGED <<wtLock, wtScr>>

\* Commands of one wallet call.
WtAsks(t, c) == wtThr[t].pc = "idle" /\ wtThr[t].cmds # <<>> /\ WtCmd(t).cmd = c
RPCGetBalance(t) ==
    /\ WtAsks(t, "getbalance")
    /\ wtThr' = [WtEnd(t) EXCEPT ![t].said = IF wtEnv.top[WtCmd(t).fork] <= 0 THEN <<>>
                                             ELSE GetBalance(wt, WtCmd(t).from, WtCmd(t).fork, wtEnv.top[WtCmd(t).fork])]
    /\ UNCHANGED <<wt, wtEnv, wtLock, wtScr>>
ListWalletTx(w, offset, count) == ListTx(w, IF offset < 0 THEN Max({0, GetTxCount(w) - count}) ELSE offset, count)
RPCListTransaction(t) ==
    /\ WtAsks(t, "listtransaction")
    /\ wtThr' = [WtEnd(t) EXCEPT ![t].said = ListWalletTx(wt, WtCmd(t).offset, WtCmd(t).amount)]
    /\ UNCHANGED <<wt, wtEnv, wtLock, wtScr>>
RPCResyncWallet(t) ==
    /\ WtAsks(t, "resyncwallet")
    /\ wt' = IF WtCmd(t).from = "" THEN ResynchronizeWalletTx(wt) ELSE SynchronizeWalletTx(wt, WtCmd(t).from)
    /\ wtThr' = WtEnd(t)
    /\ UNCHANGED <<wtEnv, wtLock, wtScr>>
\* importprivkey: the address becomes the wallet's, then its transactions are looked for.
WtImportKey(t) ==
    /\ WtAsks(t, "importprivkey")
    /\ wt' = [wt EXCEPT !.dests = @ \cup {WtCmd(t).from}]
    /\ wtThr' = WtTo(t, "import")
    /\ UNCHANGED <<wtEnv, wtLock, wtScr>>
WtImported(t) ==
    /\ wtThr[t].pc = "import"
    /\ wt' = SynchronizeWalletTx(wt, WtCmd(t).from)
    /\ wtThr' = WtEnd(t)
    /\ UNCHANGED <<wtEnv, wtLock, wtScr>>

-----------------------------------------------------------------------------
(* The node around the wallet: what the script has the dispatcher do.      *)
WtNode(op) == wtScr.node # <<>> /\ Head(wtScr.node).op = op
WtEv == Head(wtScr.node)
WtNext == wtScr' = [wtScr EXCEPT !.node = Tail(@)]
WtWithout(seq, ids) == SelectSeq(seq, LAMBDA id : id \notin ids)

\* A transaction from a peer.
WtPeerTx ==
    /\ WtNode("tx") /\ FetchInputs(WtEv.fork, WtTx(WtEv.id).ins)
    /\ wtEnv' = [wtEnv EXCEPT !.pool[WtEv.fork] = Append(@, WtEv.id)]
    /\ wt' = WalletAddNewTx(wt, WtEv.fork, WtEv.id, -1)
    /\ WtNext /\ UNCHANGED <<wtThr, wtLock>>

\* A block, with the blocks it displaces: the change CTxPool::SynchronizeWorldLine reports of it.
\* What the event calls "pooled" is added or updated as the pool has it or not.
WtBlockChange(ev) ==
    [fork |-> ev.fork, remove |-> ev.remove,
     update |-> [id \in {i \in ToSet(ev.txs) : i \in ToSet(wtEnv.pool[ev.fork])} \cup ev.back |-> IF id \in ev.back THEN -1 ELSE ev.height],
     add |-> LET new == WtWithout(ev.txs, ToSet(wtEnv.pool[ev.fork])) IN [i \in DOMAIN new |-> [id |-> new[i], height |-> ev.height]]]
WtConf(ev) ==
    LET kept == Restrict(wtEnv.conf, DOMAIN wtEnv.conf \ (ToSet(ev.remove) \cup ev.back))
    IN  [id \in ToSet(ev.txs) |-> [fork |-> ev.fork, height |-> ev.height, at |-> CHOOSE i \in DOMAIN ev.txs : ev.txs[i] = id]] @@ kept
WtBlock ==
    /\ WtNode("block")
    /\ \A i \in DOMAIN WtEv.txs : \A id \in ToSet(wtEnv.pool[WtEv.fork]) \ (ToSet(WtEv.txs) \cup ToSet(WtEv.remove)) :
         ToSet(WtTx(id).ins) \cap ToSet(WtTx(WtEv.txs[i]).ins) = {}
    /\ wtEnv' = [wtEnv EXCEPT !.conf = WtConf(WtEv), !.top[WtEv.fork] = WtEv.height,
                              !.pool[WtEv.fork] = SetToSortSeq(WtEv.back, <) \o WtWithout(@, ToSet(WtEv.txs) \cup ToSet(WtEv.remove))]
    /\ wt' = SynchronizeTxSet(wt, WtBlockChange(WtEv))
    /\ WtNext /\ UNCHANGED <<wtThr, wtLock>>

\* The origin of a new fork.
WtOrigin ==
    /\ WtNode("fork")
    /\ wtEnv' = [wtEnv EXCEPT !.fork = (WtEv.fork :> WtEv.of) @@ @, !.top = (WtEv.fork :> WtEv.of.origin + 1) @@ @,
                              !.pool = (WtEv.fork :> <<>>) @@ @]
    /\ wt' = AddNewFork(wt, WtEv.fork, WtEv.of)
    /\ WtNext /\ UNCHANGED <<wtThr, wtLock>>

\* Halt and start: the wallet writes its cache, the pool its transactions, and both load them.
\* Slip: the cache is not written.
WtHaltedLost(w) == [w EXCEPT !.cache = <<>>]
WtHalted(w) == [WtDeinitialize(w) EXCEPT !.cache = <<>>]
WtIdle == \A t \in WtThreads : wtThr[t].pc = "idle"
WtStarted(w) == [w EXCEPT !.up = InspectWalletTx(w)]
WtRestart ==
    /\ WtNode("restart") /\ WtIdle
    /\ wt' = WtStarted(LoadDB(WtHalted(wt)))
    /\ WtNext /\ UNCHANGED <<wtEnv, wtThr, wtLock>>

\* A crash: the pool's file was removed when it was loaded, so pool and cache are both gone.
WtCrash ==
    /\ WtNode("crash")
    /\ wtEnv' = [wtEnv EXCEPT !.pool = [f \in DOMAIN @ |-> <<>>]]
    /\ wt' = LoadDB([wt EXCEPT !.cache = <<>>])
    /\ wtThr' = [t \in WtThreads |-> [cmds |-> <<>>, pc |-> "idle", mtx |-> 0, tx |-> <<>>, id |-> 0, said |-> <<>>]]
    /\ wtLock' = [map |-> <<>>, mtx |-> <<>>]
    /\ WtNext

-----------------------------------------------------------------------------
WtEmpty(dests) ==
    [dests |-> dests, fork |-> (Genesis :> [parent |-> "", origin |-> -1, isolated |-> TRUE]), mem |-> <<>>, obj |-> <<>>, gen |-> 0,
     coins |-> {}, entry |-> {}, db |-> DbEmpty, cache |-> <<>>, up |-> TRUE]
WtInit ==
    /\ wtScr \in WtScripts
    /\ wt = WtEmpty(wtScr.dests)
    /\ wtEnv = [tx |-> wtScr.txs, conf |-> <<>>, pool |-> (Genesis :> <<>>), fork |-> (Genesis :> [parent |-> "", origin |-> -1, isolated |-> TRUE]),
                top |-> (Genesis :> 0)]
    /\ wtThr = [t \in WtThreads |-> [cmds |-> wtScr.cmds[t], pc |-> "idle", mtx |-> 0, tx |-> <<>>, id |-> 0, said |-> <<>>]]
    /\ wtLock = [map |-> <<>>, mtx |-> <<>>]

WtThreadStep(t) ==
    \/ DestForkRef(t) \/ DestForkLock(t) \/ DestForkUnlock(t) \/ DestForkUnref(t)
    \/ CreateTransaction(t) \/ SignTransaction(t) \/ SendTransaction(t)
    \/ RPCGetBalance(t) \/ RPCListTransaction(t) \/ RPCResyncWallet(t) \/ WtImportKey(t) \/ WtImported(t)
WtStep ==
    \/ \E t \in WtThreads : WtThreadStep(t)
    \/ WtPeerTx \/ WtBlock \/ WtOrigin \/ WtRestart \/ WtCrash
WtSpec == WtInit /\ [][WtStep]_wtVars

-----------------------------------------------------------------------------
\* The coins of an address in a fork are what chain and pool leave it to spend there, each
\* once, after any blocks, reorganisations, forks, restarts, imports and resyncs.
WtCoinsExact ==
    (\A t \in WtThreads : wtThr[t].pc # "import") =>
        \A f \in DOMAIN wtEnv.fork :
            /\ {[dest |-> c.dest, id |-> c.id, n |-> c.n] : c \in {x \in wt.coins : x.fork = f}}
                 = {o \in WtUnspent(f) : o.dest \in wt.dests}
            /\ \A c, d \in wt.coins : (c.fork = f /\ d.fork = f /\ c.id = d.id /\ c.n = d.n) => c.gen = d.gen

\* Two sendfrom of one address and fork never have the same coin between choosing it and sending
\* (CDestForkLock), whatever becomes of the entries of mapDestMutex.
WtSendsDistinct ==
    \A t, u \in WtThreads :
        (t # u /\ wtThr[t].pc \in {"sign", "send"} /\ wtThr[u].pc \in {"sign", "send"}
            /\ WtCmd(t).cmd = "sendfrom" /\ WtCmd(u).cmd = "sendfrom" /\ WtCmd(t).fork = WtCmd(u).fork)
        => ToSet(wtThr[t].tx.ins) \cap ToSet(wtThr[u].tx.ins) = {}

\* Every transaction of chain and pool that touches an address of the wallet is listed once, however the
\* list is cut into pages, and counted; and the node starts again with it.
WtListed ==
    (\A t \in WtThreads : wtThr[t].pc # "import") =>
        /\ wt.up
        /\ LET n   == GetTxCount(wt)
               all == ListTx(wt, 0, n + 1)
           IN  /\ Len(all) = n /\ Cardinality(ToSet(all)) = n
               /\ ToSet(all) = UNION {ToSet(WtFilter(f, wt.dests)) : f \in DOMAIN wtEnv.fork}
               /\ \A k \in 1..n : ListTx(wt, 0, k) \o ListTx(wt, k, n) = all /\ ListWalletTx(wt, -1, k) = SubSeq(all, n - k + 1, n)

\* A transaction cannot be made only when no WtMaxInput coins the wallet may use now are worth enough.
WtPays ==
    \A t \in WtThreads : (wtThr[t].cmds # <<>> /\ WtCmd(t).cmd \in {"sendfrom", "createtransaction"}) =>
        LET usable == WtUsable(wt, WtCmd(t).from, WtCmd(t).fork, wtEnv.top[WtCmd(t).fork], WtCmd(t).time)
        IN  (\E S \in SUBSET usable : Cardinality(S) <= WtMaxInput /\ WtTotal(S) >= WtTarget(WtCmd(t)))
            => \A sel \in ArrangeInputs(WtCmd(t)) : WtTotal(sel) >= WtTarget(WtCmd(t)) /\ sel \subseteq usable

\* The wallet's account of the chain is right and usable: the coins, the list of transactions, the choice
\* of inputs, and the coins of two sendfrom at once.
WtAccountExact == WtCoinsExact /\ WtSendsDistinct /\ WtListed /\ WtPays
=============================================================================
