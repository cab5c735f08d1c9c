------------------------------- MODULE Ledger -------------------------------
(***************************************************************************)
(* The three tables of transactions of one fork and how CDispatcher        *)
(* (src/dispatcher.cpp) keeps them together: the block chain of CWorldLine *)
(* and the pool of CTxPool, whose operators come first below, and the      *)
(* wallet's transactions of CWallet (src/wallet.cpp).                      *)
(*                                                                         *)
(* CDispatcher::AddNewBlock calls CWorldLine::AddNewBlock,                 *)
(* CTxPool::SynchronizeWorldLine and CWallet::SynchronizeTxSet one after   *)
(* the other, each under its own lock; CDispatcher::AddNewTx calls         *)
(* CTxPool::Push and CWallet::AddNewTx the same way.  Blocks come in one   *)
(* at a time here, transactions from any number of threads, so a           *)
(* transaction's two calls can fall between any of a block's three.        *)
(*                                                                         *)
(* Every transaction is taken to be the wallet's own.  The wallet keeps    *)
(* for each its block height, -1 while it is in no block.  Its table of    *)
(* coins (mapWalletUnspent) is not modelled.                               *)
(***************************************************************************)
EXTENDS BlockView, SequencesExt

-----------------------------------------------------------------------------
(* CWorldLine (src/worldline.cpp) over CBlockBase (storage/blockbase.cpp): *)
(* the tree of the known blocks of one fork, which of them is the fork's   *)
(* last block, and the unspent outputs and transaction index that belong   *)
(* to it.  These operators are what CWorldLine::AddNewBlock computes; the  *)
(* state they act on is declared further down.                             *)
(*                                                                         *)
(* Of a block the model keeps what decides the outcome: its parent, time,  *)
(* trust, kind (vacant or extended) and transactions.  Signatures, proofs, *)
(* amounts and sizes (ValidateBlock, VerifyBlock, VerifyBlockTx) are taken *)
(* to be right; whether the inputs exist is not.                           *)

CONSTANTS
    Blocks,
    Root,       \* the origin block of the fork
    Prev,       \* hashPrev
    Time,       \* nTimeStamp, never less than the parent's
    Trust,      \* GetBlockTrust
    Vacant,     \* the vacant blocks: no mint transaction, no transactions
    Extended,   \* the extended blocks: they have the height of their parent
    Mint,       \* txMint
    Vtx         \* vtx

TxsOf(b) == ToSet(Vtx[b]) \cup (IF b \in Vacant THEN {} ELSE {Mint[b]})

\* nHeight and nChainTrust, accumulated by AddNewIndex.
RECURSIVE Height(_)
Height(b) ==
    IF b = Root THEN 0 ELSE Height(Prev[b]) + IF b \in Extended THEN 0 ELSE 1

RECURSIVE ChainTrust(_)
ChainTrust(b) == Trust[b] + IF b = Root THEN 0 ELSE ChainTrust(Prev[b])

\* IsEquivalent: b is a run of vacant blocks on top of c.
RECURSIVE IsEquivalent(_, _)
IsEquivalent(b, c) ==
    \/ b = c
    \/ /\ b \in Vacant
       /\ Height(b) > Height(c)
       /\ IsEquivalent(Prev[b], c)

\* GetBranch: from the last block ref and the block b, step back the later
\* one, or both when their times are equal, until they meet.  vPath lists
\* the blocks that b's side stepped over, b first.
RECURSIVE GetBranch(_, _, _)
GetBranch(ref, b, vPath) ==
    IF b = ref THEN [branch |-> b, vPath |-> vPath]
    ELSE IF Time[ref] > Time[b] THEN GetBranch(Prev[ref], b, vPath)
    ELSE IF Time[b] > Time[ref] THEN GetBranch(ref, Prev[b], Append(vPath, b))
    ELSE GetBranch(Prev[ref], Prev[b], Append(vPath, b))

\* The blocks from b back to the block above branch.
RECURSIVE BackTo(_, _)
BackTo(b, branch) == IF b = branch THEN <<>> ELSE <<b>> \o BackTo(Prev[b], branch)

RemoveBlock(v, b) ==
    LET taken == FoldRight(LAMBDA t, w : RemoveTx(w, t), Vtx[b], v)
    IN  IF b \in Vacant THEN taken ELSE RemoveTx(taken, Mint[b])

AddBlock(v, b) ==
    FoldLeft(AddTx, IF b \in Vacant THEN v ELSE AddTx(v, Mint[b]), Vtx[b])

\* GetBlockView: from the fork's last block to the state after block b.
GetBlockView(last, b) ==
    LET walk    == GetBranch(last, b, <<>>)
        removed == FoldLeft(RemoveBlock, EmptyView, BackTo(last, walk.branch))
    IN  FoldRight(LAMBDA c, w : AddBlock(w, c), walk.vPath, removed)

\* The loop of AddNewBlock over the block's transactions: GetTxContxt finds
\* each input in the view that the earlier ones left.  The block is refused
\* (MV_ERR_MISSING_PREV) when one is not found.
BlockTxs(last, unspent, b) ==
    LET start == GetBlockView(last, Prev[b])
        first == IF b \in Vacant THEN start ELSE AddTx(start, Mint[b])
        step(r, t) ==
            [ok |-> r.ok /\ \A o \in Inputs[t] : RetrieveUnspent(r.view, unspent, o),
             view |-> AddTx(r.view, t)]
    IN  FoldLeft(step, [ok |-> TRUE, view |-> first], Vtx[b])

\* Slip: KeepsLast without the case of a vacant continuation.
\* (Not the code: a slip the properties must detect.)
KeepsLastUnlessMore(last, b) == ChainTrust(last) >= ChainTrust(b)

\* AddNewBlock leaves the fork's last block alone when it has more trust, or
\* as much and is not what the new block is a vacant continuation of.
KeepsLast(last, b) ==
    \/ ChainTrust(last) > ChainTrust(b)
    \/ ChainTrust(last) = ChainTrust(b) /\ ~IsEquivalent(b, last)

\* GetTxNewIndex: the heights of the transactions of the blocks put on.
TxIndexAfter(v, txIndex, last, b) ==
    LET path == ToSet(GetBranch(last, b, <<>>).vPath)
        on(t) == {c \in path : t \in TxsOf(c)}
    IN  [t \in Txs |->
            IF t \in TxRemoved(v) THEN -1
            ELSE IF on(t) # {} THEN Height(CHOOSE c \in on(t) : TRUE)
            ELSE txIndex[t]]

\* GetBlockChanges: the blocks to report as new and as removed, both latest
\* first.  The new side steps back first when the times are equal.
RECURSIVE GetBlockChanges(_, _, _, _)
GetBlockChanges(b, last, vAddNew, vRemove) ==
    IF b = last THEN [vBlockAddNew |-> vAddNew, vBlockRemove |-> vRemove]
    ELSE IF Time[b] >= Time[last]
         THEN GetBlockChanges(Prev[b], last, Append(vAddNew, b), vRemove)
         ELSE GetBlockChanges(b, Prev[last], vAddNew, Append(vRemove, last))

\* The reference the tables are compared with: the blocks and transactions
\* of the chain that ends in b, and the outputs no transaction of it spends.
RECURSIVE Chain(_)
Chain(b) == {b} \cup IF b = Root THEN {} ELSE Chain(Prev[b])

ChainTxs(b) == UNION {TxsOf(c) : c \in Chain(b)}

UnspentOf(b) ==
    UNION {OutputsOf(t) : t \in ChainTxs(b)} \ UNION {Inputs[t] : t \in ChainTxs(b)}

HeightOn(b, t) ==
    LET on == {c \in Chain(b) : t \in TxsOf(c)}
    IN  IF on = {} THEN -1 ELSE Height(CHOOSE c \in on : TRUE)

-----------------------------------------------------------------------------
-----------------------------------------------------------------------------
(* CTxPool and CTxPoolView (src/txpool.cpp, txpool.h): the transactions of *)
(* one fork that are not in a block, and for each output they touch who    *)
(* spends it.  The operators are the pool's handlers as functions of the   *)
(* pool; the steps that call them come after.                              *)
(*                                                                         *)
(* mapTx is the list of the pooled transactions in the order of their      *)
(* sequence numbers: GetSequenceNumber only ever gives a number above all  *)
(* those in use.  The view's own mapTx holds the same transactions, so it  *)
(* is the range of the list.  An entry of mapSpent names the spender, is   *)
(* Free when it holds an unspent output, or is absent; an entry without    *)
(* spender and without output answers every query as an absent one does.   *)
(*                                                                         *)
(* Three fields are history, read by no handler.  misled holds the         *)
(* transactions taken in on the word of an entry that was out of date,     *)
(* overtaken the transactions that came in after one that spends them, and *)
(* unrecorded their outputs whose spender's entry was overwritten.         *)

Free == "free"
Absent == "absent"

Pooled(p) == ToSet(p.mapTx)

EmptyPool ==
    [mapTx |-> <<>>, mapSpent |-> [o \in OutPoints |-> Absent],
     misled |-> {}, unrecorded |-> {}, overtaken |-> {}]

IsSpent(p, o) == p.mapSpent[o] \in Txs

SetUnspent(p, outs) ==
    [p EXCEPT !.mapSpent = [o \in OutPoints |->
        IF o \notin outs THEN @[o]
        ELSE IF o[1] \in Pooled(p) THEN Free
        ELSE Absent]]

\* CTxPoolView::AddNew: the inputs get their spender, the outputs are free,
\* also when the pool has a transaction that spends them.
ViewAddNew(p, t) ==
    [p EXCEPT !.mapTx = Append(@, t),
              !.unrecorded = @ \cup {o \in OutputsOf(t) : IsSpent(p, o)},
              !.overtaken = IF \E o \in OutputsOf(t) : IsSpent(p, o) THEN @ \cup {t} ELSE @,
              !.mapSpent = [o \in OutPoints |->
                  CASE o \in OutputsOf(t) -> Free
                    [] o \in Inputs[t]    -> t
                    [] OTHER              -> @[o]]]

\* CTxPool::AddNew refuses a transaction with an input that is spent in the
\* pool, or that neither the pool nor the table of unspent outputs has.
Acceptable(p, unspent, t) ==
    \A o \in Inputs[t] : ~IsSpent(p, o) /\ (p.mapSpent[o] = Free \/ o \in unspent)

\* An input that only an entry left behind by a confirmed transaction backs.
OnStaleEntry(p, unspent, t) ==
    \E o \in Inputs[t] :
        p.mapSpent[o] = Free /\ o[1] \notin Pooled(p) /\ o \notin unspent

AddNew(p, unspent, t) ==
    [ViewAddNew(p, t) EXCEPT
        !.misled = IF OnStaleEntry(p, unspent, t) THEN @ \cup {t} ELSE @]

\* CTxPoolView::Remove: the entries of the transaction's own outputs stay.
ViewRemove(p, t) ==
    LET freed == SetUnspent(p, Inputs[t])
    IN  [freed EXCEPT !.mapTx = Remove(@, t)]

\* Slip: InvalidateSpent without the descendants.
\* (Not the code: a slip the properties must detect.)
InvalidateSpender(p, vOutPoint) ==
    LET gone == {p.mapSpent[o] : o \in ToSet(vOutPoint)} \cap Pooled(p)
    IN  [SetUnspent(p, UNION {Inputs[t] : t \in gone}) EXCEPT
            !.mapTx = SelectSeq(@, LAMBDA x : x \notin gone)]

\* InvalidateSpent: the pooled spender of each output of the list goes, its
\* inputs are unspent again, and its own spent outputs join the list.
RECURSIVE InvalidateSpent(_, _)
InvalidateSpent(p, vOutPoint) ==
    IF vOutPoint = <<>> THEN p
    ELSE LET next  == p.mapSpent[Head(vOutPoint)]
             freed == SetUnspent(p, Inputs[next])
             own   == {<<next, 0>>, <<next, 1>>}
             spent == {o \in own : IsSpent(freed, o)}
         IN  IF next \notin Pooled(p)
             THEN InvalidateSpent(p, Tail(vOutPoint))
             ELSE InvalidateSpent(
                    [freed EXCEPT
                        !.mapTx = Remove(@, next),
                        !.mapSpent = [o \in OutPoints |->
                            IF o \in own \ spent THEN Absent ELSE @[o]]],
                    Tail(vOutPoint) \o SetToSeq(spent))

-----------------------------------------------------------------------------
(* SynchronizeWorldLine.  The fold's record holds the pool, the change set *)
(* for the wallet and the transactions InvalidateSpent threw out.          *)

Invalidate(r, outs) ==
    LET after == InvalidateSpent(r.pool, SetToSeq(outs))
    IN  [r EXCEPT !.pool = after,
                  !.vInvalidTx = @ \cup (Pooled(r.pool) \ Pooled(after))]

\* A transaction of a block of the new branch, at height h.
SyncAdded(r, t, h, setTxUpdate) ==
    IF t \in setTxUpdate THEN [r EXCEPT !.mapTxUpdate = @ \cup {<<t, h>>}]
    ELSE IF t \in Pooled(r.pool)
    THEN [r EXCEPT !.pool = ViewRemove(@, t), !.mapTxUpdate = @ \cup {<<t, h>>}]
    ELSE [Invalidate(r, Inputs[t]) EXCEPT !.vTxAddNew = @ \cup {<<t, h>>}]

\* A transaction of a block of the old branch: back into the pool with the
\* spenders its outputs had, or out of the wallet with its descendants.  The
\* entry of output 1 is given the spender of output 0.
SyncRemoved(r, t, setTxUpdate, unspent) ==
    LET p      == r.pool
        spent0 == IF IsSpent(p, <<t, 0>>) THEN p.mapSpent[<<t, 0>>] ELSE Absent
        added  == AddNew(p, unspent, t)
        kept0  == IF IsSpent(p, <<t, 0>>)
                  THEN [added EXCEPT !.mapSpent[<<t, 0>>] = spent0,
                                     !.unrecorded = @ \ ({<<t, 0>>} \ p.unrecorded)]
                  ELSE added
        kept1  == IF IsSpent(p, <<t, 1>>)
                  THEN [kept0 EXCEPT !.mapSpent[<<t, 1>>] = spent0]
                  ELSE kept0
    IN  IF t \in setTxUpdate THEN r
        ELSE IF Acceptable(p, unspent, t)
        THEN [r EXCEPT !.pool = kept1, !.mapTxUpdate = @ \cup {<<t, -1>>}]
        ELSE [Invalidate(r, {<<t, 0>>, <<t, 1>>}) EXCEPT !.vTxRemove = @ \cup {t}]

SyncBlockAdded(r, b, h, setTxUpdate) ==
    LET mint == IF b \in Vacant THEN r
                ELSE [r EXCEPT !.vTxAddNew = @ \cup {<<Mint[b], h>>}]
    IN  FoldLeft(LAMBDA s, t : SyncAdded(s, t, h, setTxUpdate), mint, Vtx[b])

SyncBlockRemoved(r, b, setTxUpdate, unspent) ==
    LET txs == FoldRight(LAMBDA t, s : SyncRemoved(s, t, setTxUpdate, unspent), Vtx[b], r)
    IN  IF b \in Vacant THEN txs
        ELSE [Invalidate(txs, {<<Mint[b], 0>>}) EXCEPT !.vTxRemove = @ \cup {Mint[b]}]

\* The heights are counted up from the last block's height and the number of
\* new blocks, one by one.
SynchronizeWorldLine(p, update, unspent) ==
    LET n     == Len(update.vBlockAddNew)
        start == [pool |-> p, vInvalidTx |-> {}, vTxAddNew |-> {},
                  vTxRemove |-> {}, mapTxUpdate |-> {}]
        added(r, i) ==
            SyncBlockAdded(r, update.vBlockAddNew[n - i + 1],
                           update.nLastBlockHeight - n + i, update.setTxUpdate)
        removed(r, b) == SyncBlockRemoved(r, b, update.setTxUpdate, unspent)
        done  == FoldLeft(removed, FoldLeft(added, start, [i \in 1 .. n |-> i]),
                          update.vBlockRemove)
    IN  [pool |-> done.pool,
         change |-> [vTxAddNew |-> done.vTxAddNew,
                     mapTxUpdate |-> done.mapTxUpdate,
                     vTxRemove |-> done.vTxRemove \cup done.vInvalidTx]]

-----------------------------------------------------------------------------
(* SaveData writes the transactions in the order of their sequence         *)
(* numbers; LoadData takes them in that order without looking at them.     *)

LoadData(saved) ==
    FoldLeft(ViewAddNew, [saved EXCEPT !.mapTx = EmptyPool.mapTx,
                                       !.mapSpent = EmptyPool.mapSpent], saved.mapTx)

\* ArrangeBlockTx for a block with room for the whole pool: the transactions
\* in the order of their sequence numbers.
ArrangeBlockTx(p) == p.mapTx

-----------------------------------------------------------------------------
CONSTANTS
    LocalTxs,   \* the transactions that CDispatcher::AddNewTx is given
    MaxPushed   \* bound: the threads inside AddNewTx at a time

VARIABLES
    index,      \* the known blocks, CBlockBase::mapIndex
    last,       \* the fork's last block
    unspent,    \* CUnspentDB of the fork
    txIndex,    \* CTxIndexDB of the fork: the height, -1 when not there
    pool,       \* CTxPool
    wallet,     \* CWalletDB: the height of each transaction, or NotMine
    task,       \* where AddNewBlock is, with its update and change sets
    pushed,     \* pushed to the pool and not yet given to the wallet
    late,       \* history: the transactions whose two calls overlapped a block's
    misplaced   \* history: the transactions reported in a way the wallet misreads

vars == <<index, last, unspent, txIndex, pool, wallet, task, pushed, late, misplaced>>

NotMine == -2

Idle == [pc |-> "idle"]

Init ==
    /\ index = {Root}
    /\ last = Root
    /\ unspent = UnspentOf(Root)
    /\ txIndex = [t \in Txs |-> HeightOn(Root, t)]
    /\ pool = EmptyPool
    /\ wallet = [t \in Txs |-> IF t \in TxsOf(Root) THEN 0 ELSE NotMine]
    /\ task = Idle
    /\ pushed = {}
    /\ late = {}
    /\ misplaced = {}

-----------------------------------------------------------------------------
(* CDispatcher::AddNewBlock                                                *)

\* CWorldLine::AddNewBlock: the block is indexed, and unless the last block
\* keeps its place the view is committed and the update set made.  The
\* fork's upgrade lock is held throughout.
AddNewBlock(b) ==
    LET txs == BlockTxs(last, unspent, b)
        changes == GetBlockChanges(b, last, <<>>, <<>>)
    IN  /\ task = Idle
        /\ b \notin index
        /\ Prev[b] \in index
        /\ txs.ok
        /\ index' = index \cup {b}
        /\ IF KeepsLast(last, b)
           THEN UNCHANGED <<last, unspent, txIndex, task>>
           ELSE /\ last' = b
                /\ unspent' = UnspentAfter(txs.view, unspent)
                /\ txIndex' = TxIndexAfter(txs.view, txIndex, last, b)
                /\ task' = [pc |-> "pool", crossing |-> pushed,
                            update |-> [vBlockAddNew |-> changes.vBlockAddNew,
                                        vBlockRemove |-> changes.vBlockRemove,
                                        setTxUpdate |-> TxUpdated(txs.view),
                                        nLastBlockHeight |-> Height(b)]]
        /\ UNCHANGED <<pool, wallet, pushed, late, misplaced>>

\* CTxPool::SynchronizeWorldLine.
SynchronizePool ==
    LET done == SynchronizeWorldLine(pool, task.update, unspent)
    IN  /\ task.pc = "pool"
        /\ pool' = done.pool
        /\ task' = [pc |-> "wallet", change |-> done.change, crossing |-> task.crossing]
        /\ UNCHANGED <<index, last, unspent, txIndex, wallet, pushed, late, misplaced>>

\* CWallet::SynchronizeTxSet: a transaction to remove goes, whatever else is
\* said of it, for CWalletTxDB::UpdateTx erases last; one to update must be
\* there; the new ones are put in.
SynchronizeTxSet ==
    LET change == task.change
        known  == {t \in Txs : wallet[t] # NotMine}
        updates == {u \in change.mapTxUpdate : u[1] \in known}
        news    == change.vTxAddNew
        touched == change.vTxRemove \cup {u[1] : u \in change.mapTxUpdate \cup news}
    IN  /\ task.pc = "wallet"
        /\ wallet' = [t \in Txs |->
              IF t \in change.vTxRemove \cap known THEN NotMine
              ELSE IF \E u \in news : u[1] = t THEN (CHOOSE u \in news : u[1] = t)[2]
              ELSE IF \E u \in updates : u[1] = t THEN (CHOOSE u \in updates : u[1] = t)[2]
              ELSE wallet[t]]
        /\ late' = late \cup (touched \cap task.crossing)
        /\ misplaced' = misplaced
              \cup {u[1] : u \in {w \in news \cup change.mapTxUpdate :
                                    w[2] # -1 /\ w[2] # txIndex[w[1]]}}
              \cup (change.vTxRemove \cap {u[1] : u \in news})
        /\ task' = Idle
        /\ UNCHANGED <<index, last, unspent, txIndex, pool, pushed>>

-----------------------------------------------------------------------------
(* CDispatcher::AddNewTx                                                   *)

\* CTxPool::Push.
Push(t) ==
    /\ Cardinality(pushed) < MaxPushed
    /\ t \notin Pooled(pool)
    /\ Acceptable(pool, unspent, t)
    /\ pool' = AddNew(pool, unspent, t)
    /\ pushed' = pushed \cup {t}
    /\ task' = IF task = Idle THEN task ELSE [task EXCEPT !.crossing = @ \cup {t}]
    /\ UNCHANGED <<index, last, unspent, txIndex, wallet, late, misplaced>>

\* CWallet::AddNewTx: an entry that is there is written over.
AddNewTx(t) ==
    /\ t \in pushed
    /\ wallet' = [wallet EXCEPT ![t] = -1]
    /\ pushed' = pushed \ {t}
    /\ UNCHANGED <<index, last, unspent, txIndex, pool, task, late, misplaced>>

-----------------------------------------------------------------------------
\* A clean stop and start: CTxPool::SaveData and CTxPool::LoadData.  The
\* other tables are on disk.
Restart ==
    /\ task = Idle
    /\ pushed = {}
    /\ pool' = LoadData(pool)
    /\ UNCHANGED <<index, last, unspent, txIndex, wallet, task, pushed, late, misplaced>>

Next ==
    \/ \E b \in Blocks \ {Root} : AddNewBlock(b)
    \/ SynchronizePool
    \/ SynchronizeTxSet
    \/ \E t \in LocalTxs : Push(t) \/ AddNewTx(t)
    \/ Restart

Spec == Init /\ [][Next]_vars

-----------------------------------------------------------------------------
\* The tables that CDispatcher keeps together have their types; mapTx of
\* CTxPoolView holds a transaction once.
TypeOK ==
    /\ index \subseteq Blocks
    /\ last \in index
    /\ unspent \subseteq OutPoints
    /\ Pooled(pool) \subseteq Txs
    /\ \A i, j \in DOMAIN pool.mapTx : pool.mapTx[i] = pool.mapTx[j] => i = j
    /\ pool.mapSpent \in [OutPoints -> Txs \cup {Free, Absent}]
    /\ wallet \in [Txs -> {NotMine, -1} \cup {Height(b) : b \in Blocks}]
    /\ task.pc \in {"idle", "pool", "wallet"}
    /\ pushed \subseteq LocalTxs

\* What CBlockBase::CommitBlockView leaves on disk, the unspent outputs and
\* the index of transactions, is that of the last block's chain, whatever
\* blocks GetBlockView took off and put on to get there.
LedgerMatchesChain ==
    /\ unspent = UnspentOf(last)
    /\ \A t \in Txs : txIndex[t] = HeightOn(last, t)

\* CWorldLine::AddNewBlock follows the best chain: no known block has more
\* trust than the last one, and none of its vacant continuations is left
\* aside.
BestChain ==
    \A b \in index :
        /\ ChainTrust(b) <= ChainTrust(last)
        /\ b # last => ~(ChainTrust(b) = ChainTrust(last) /\ IsEquivalent(b, last))

\* Once CTxPool::SynchronizeWorldLine has followed a block, every input of a
\* pooled transaction is unspent in the chain or an output of the pool, and
\* no two transactions share one: but for those that Push took in on a stale
\* entry of mapSpent, and the outputs whose entry was overwritten.
PoolBacked ==
    task = Idle =>
        /\ \A t \in Pooled(pool) \ pool.misled : \A o \in Inputs[t] \ pool.unrecorded :
              o \in unspent \/ (o[1] \in Pooled(pool) /\ o \in OutputsOf(o[1]))
        /\ \A t, u \in Pooled(pool) :
              t # u => Inputs[t] \cap Inputs[u] \subseteq pool.unrecorded

\* What CTxPool::ArrangeBlockTx gives the block maker for the next block is
\* valid there, unless a transaction came back from a removed block behind
\* one that spends it, or Push took one in on a stale entry.
ArrangedBlockValid ==
    LET step(r, t) ==
            [ok |-> r.ok /\ Inputs[t] \subseteq r.unspent,
             unspent |-> (r.unspent \ Inputs[t]) \cup OutputsOf(t)]
    IN  (task = Idle /\ pool.misled = {} /\ pool.overtaken = {})
            => FoldLeft(step, [ok |-> TRUE, unspent |-> unspent], ArrangeBlockTx(pool)).ok

Expected(t) ==
    IF txIndex[t] # -1 THEN txIndex[t] ELSE IF t \in Pooled(pool) THEN -1 ELSE NotMine

\* After CWallet::SynchronizeTxSet the wallet says of every transaction what
\* the chain and the pool say, but for those whose own two calls overlapped
\* those of a block, those that SynchronizeWorldLine reported at a wrong
\* height or as both removed and new, and those in the pool by a stale entry.
WalletFollows ==
    task = Idle =>
        \A t \in Txs \ (pushed \cup late \cup misplaced \cup pool.misled) : wallet[t] = Expected(t)

\* The disk follows the best chain, whatever branches were taken off and put on.
ChainKept == TypeOK /\ LedgerMatchesChain /\ BestChain

\* Pool, wallet and the block maker's choice follow that chain.
PoolAndWalletFollow == PoolBacked /\ ArrangedBlockValid /\ WalletFollows

\* "set of wallet pooled transactions must be equal to set of transactions in
\* txpool", "set of wallet transactions must be equal to set of transactions
\* in the whole block" (src/wallet.cpp, CWallet::InspectWalletTx).
WalletInspected ==
    (task = Idle /\ pushed = {}) => \A t \in Txs : wallet[t] = Expected(t)
=============================================================================
