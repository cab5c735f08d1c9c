---------------------------- MODULE BlockBase ----------------------------
(***************************************************************************)
(* The chain store of all forks: CBlockBase (storage/blockbase.cpp) over   *)
(* CBlockDB (storage/blockdb.cpp, blockindexdb.cpp, delegatedb.cpp,        *)
(* forkdb.cpp) and the block file, with what of it is on disk and what is  *)
(* in memory.  CWorldLine::AddNewBlock and AddNewOrigin are cut at every   *)
(* write and at every lock, so that threads interleave and the process may *)
(* die in between.  Module ForkNode drives these steps.                    *)
(*                                                                         *)
(* A block is a record [id, prev, kind, time, trust, txs]; a fork has the  *)
(* id of its origin block.  Signatures, proofs and amounts are taken to be *)
(* right.  The two tables with a memory layer of their own, transaction    *)
(* index and unspent outputs (modules CTSDB and UnspentDB), are kept as    *)
(* what they hold and what of it was last flushed.                         *)
(***************************************************************************)
EXTENDS Integers, Sequences, FiniteSets, SequencesExt

CONSTANTS
    BbBlock,      \* the blocks that peers offer, by id, genesis included
    BbGenesis,
    BbTx,         \* transactions: [in, from, to, amt, fee, vin, kind, anchor, embeds]
    BbFork,       \* of a fork's origin block: [parent, joint, height of the joint, isolated]
    BbDelegates,  \* destinations that are delegate templates
    BbLocator,    \* entries of a locator before its step doubles (10)
    BbMaxInv      \* nMaxCount of GetForkBlockInv

VARIABLES
    bbDisk,       \* [file, idx, dele, ctxt, act, txi, uns]
    bbMem,        \* [up, index, fork, next, txi, uns]
    bbLock,       \* rwAccess of CBlockBase and of every CBlockFork
    bbThr         \* the threads that add blocks

bbVars == <<bbDisk, bbMem, bbLock, bbThr>>

None == "0"
BbForks == {BbGenesis} \cup DOMAIN BbFork
BbTxIds == DOMAIN BbTx
HasChange(t) == BbTx[t].vin > BbTx[t].amt + BbTx[t].fee

V == INSTANCE BlockView WITH
        Txs <- BbTxIds,
        Inputs <- [t \in BbTxIds |-> BbTx[t].in],
        Outputs <- [t \in BbTxIds |-> IF HasChange(t) THEN {0, 1} ELSE {0}]

Without(f, k) == [x \in DOMAIN f \ {k} |-> f[x]]

IsOrigin(b) == b.kind \in {"genesis", "origin"}
IsPrimary(b) == b.kind \in {"genesis", "primary"}

--------------------------------------------------------------------------
(* The block index.                                                        *)

(* AddNewIndex: height, trust and origin follow from the parent's.         *)
AddNewIndex(index, b, pos) ==
    LET known == b.prev \in DOMAIN index
        p     == index[b.prev]
    IN  (b.id :> [prev |-> b.prev, kind |-> b.kind, time |-> b.time, txs |-> b.txs, pos |-> pos,
                  h |-> IF ~known THEN 0 ELSE p.h + IF b.kind = "extended" THEN 0 ELSE 1,
                  trust |-> b.trust + IF known THEN p.trust ELSE 0,
                  org |-> IF IsOrigin(b) \/ ~known THEN b.id ELSE p.org]) @@ index

RECURSIVE BbGetBranch(_, _, _, _)
BbGetBranch(index, ref, b, path) ==
    IF b = ref THEN [branch |-> b, path |-> path]
    ELSE IF index[ref].time > index[b].time THEN BbGetBranch(index, index[ref].prev, b, path)
    ELSE IF index[b].time > index[ref].time THEN BbGetBranch(index, ref, index[b].prev, Append(path, b))
    ELSE BbGetBranch(index, index[ref].prev, index[b].prev, Append(path, b))

RECURSIVE BbBackTo(_, _, _)
BbBackTo(index, b, branch) ==
    IF b = branch THEN <<>> ELSE <<b>> \o BbBackTo(index, index[b].prev, branch)

RECURSIVE BbIsEquivalent(_, _, _)
BbIsEquivalent(index, b, c) ==
    \/ b = c
    \/ /\ index[b].kind = "vacant"
       /\ index[b].h > index[c].h
       /\ BbIsEquivalent(index, index[b].prev, c)

(* GetBlockChanges of CWorldLine: the blocks put on, latest first.         *)
RECURSIVE BlocksAdded(_, _, _, _)
BlocksAdded(index, b, last, added) ==
    IF b = last THEN added
    ELSE IF index[b].time >= index[last].time
         THEN BlocksAdded(index, index[b].prev, last, Append(added, b))
         ELSE BlocksAdded(index, b, index[last].prev, added)

(* The blocks of b's fork that lead to b, the origin first.                *)
RECURSIVE ForkChain(_, _)
ForkChain(index, b) ==
    IF index[b].org = b THEN <<b>> ELSE Append(ForkChain(index, index[b].prev), b)

(* UpdateNext: from the last block down until a parent already points up;  *)
(* a parent that pointed to another child has that branch cleared first.   *)
RECURSIVE ClearNext(_, _, _)
ClearNext(next, index, p) ==
    IF p = None THEN next
    ELSE ClearNext([next EXCEPT ![index[p].prev] = None], index, next[p])

RECURSIVE LinkNext(_, _, _)
LinkNext(next, index, b) ==
    LET p == index[b].prev
    IN  IF index[b].org = b \/ next[p] = b THEN next
        ELSE LinkNext([ClearNext(next, index, next[p]) EXCEPT ![p] = b], index, p)

UpdateNext(next, index, last) == LinkNext((last :> None) @@ next, index, last)

--------------------------------------------------------------------------
(* Views, the tables of a fork, and the delegate table.                    *)

AddTxs(v, txs) == FoldLeft(LAMBDA w, t : V!AddTx(w, t), v, txs)
RemoveTxs(v, txs) == FoldRight(LAMBDA t, w : V!RemoveTx(w, t), txs, v)

(* GetBlockView of block b over its fork; a view without fork has none.    *)
BbGetBlockView(mem, b) ==
    LET f    == mem.index[b].org
        walk == BbGetBranch(mem.index, mem.fork[f], b, <<>>)
        gone == FoldLeft(LAMBDA v, c : RemoveTxs(v, mem.index[c].txs), V!EmptyView,
                         BbBackTo(mem.index, mem.fork[f], walk.branch))
    IN  [fork |-> f, view |-> FoldRight(LAMBDA c, v : AddTxs(v, mem.index[c].txs), walk.path, gone)]

IsolatedView == [fork |-> None, view |-> V!EmptyView]

(* GetTxContxt of every transaction of the block, in its order.            *)
InputsFound(v, uns, txs) ==
    \A i \in DOMAIN txs : \A o \in BbTx[txs[i]].in :
        V!RetrieveUnspent(AddTxs(v, SubSeq(txs, 1, i - 1)), uns, o)

(* GetTxNewIndex: the transactions of the blocks that the view puts on.    *)
GetTxNewIndex(mem, v, b) ==
    LET path == IF v.fork = None THEN <<b>>
                ELSE BbGetBranch(mem.index, mem.fork[v.fork], b, <<>>).path
        at(t) == {c \in ToSet(path) : t \in ToSet(mem.index[c].txs)}
    IN  [t \in {u \in BbTxIds : at(u) # {}} |->
            LET c == CHOOSE c \in at(t) : TRUE IN [h |-> mem.index[c].h, b |-> c]]

RetrieveTxIndex(txi, t) == {f \in DOMAIN txi : t \in DOMAIN txi[f]}

(* UpdateDelegate: the votes of the parent, moved by the transactions to   *)
(* and from delegate addresses, and the enrolments the block holds.        *)
VoteOf(votes, d) == IF d \in DOMAIN votes THEN votes[d] ELSE 0

VoteTx(votes, t) ==
    LET x == BbTx[t]
        to == IF x.to \in BbDelegates THEN (x.to :> (VoteOf(votes, x.to) + x.amt)) @@ votes ELSE votes
    IN  IF x.from \in BbDelegates THEN (x.from :> (VoteOf(to, x.from) - (x.amt + x.fee))) @@ to ELSE to

UpdateDelegate(dele, b) ==
    [vote |-> FoldLeft(VoteTx, dele[b.prev].vote, Tail(b.txs)),
     enr  |-> {<<BbTx[t].anchor, BbTx[t].from, t>> :
                 t \in {u \in ToSet(Tail(b.txs)) : BbTx[u].kind = "cert"}}]

--------------------------------------------------------------------------
(* Starting: LoadDB, CheckConsistency, and Initiate on an empty store.     *)

ListFork(d) == DOMAIN d.act \cap d.ctxt

(* LoadDB fails on a fork whose reference was never set.                   *)
LoadDBFails(d) == \E f \in ListFork(d) : d.act[f] \notin DOMAIN d.idx

(* Slip: the forks are loaded and their blocks not linked.                 *)
LoadNextNot(d) == [b \in DOMAIN d.idx |-> None]

LoadNext(d) ==
    FoldSet(LAMBDA f, next : UpdateNext(next, d.idx, d.act[f]), [b \in DOMAIN d.idx |-> None], ListFork(d))

LoadDB(d) ==
    [up |-> "up", index |-> d.idx, fork |-> [f \in ListFork(d) |-> d.act[f]], next |-> LoadNext(d), txi |-> d.txi, uns |-> d.uns]

(* The blocks of a fork that CheckConsistency visits, the last one first:  *)
(* it walks back nDepth heights, into the parent fork when that is where   *)
(* they are.                                                               *)
RECURSIVE Visited(_, _, _, _)
Visited(index, last, b, depth) ==
    IF b \notin DOMAIN index \/ index[last].h - index[b].h >= depth THEN <<>>
    ELSE <<b>> \o Visited(index, last, index[b].prev, depth)

(* Level 0: the block is in the file as the index says.                    *)
CheckBlock(d, b) ==
    LET i == d.idx[b]
    IN  /\ i.pos \in DOMAIN d.file
        /\ d.file[i.pos].id = b /\ d.file[i.pos].prev = i.prev
        /\ d.file[i.pos].kind = i.kind /\ d.file[i.pos].time = i.time /\ d.file[i.pos].txs = i.txs

(* Level 1: every transaction is found, in the first fork that has it, at  *)
(* the block's height.                                                     *)
CheckTxs(d, b) ==
    \A t \in ToSet(d.idx[b].txs) :
        /\ RetrieveTxIndex(d.txi, t) # {}
        /\ \E f \in RetrieveTxIndex(d.txi, t) : d.txi[f][t].h = d.idx[b].h

(* Level 2, for the primary fork: the votes after a visited parent are those *)
(* after the block with it undone,       the mint included and the        *)
(* destinations without votes left out; and the enrolments of the block,   *)
(* by destination and anchored at its parent, are those of the table.      *)
UndoVotes(votes, b) ==
    LET first == Head(b.txs)
        mint  == IF BbTx[first].kind = "stake"
                 THEN (BbTx[first].to :> (VoteOf(votes, BbTx[first].to) - BbTx[first].amt)) @@ votes
                 ELSE votes
        one(v, t) ==
            LET x == BbTx[t]
                to == IF x.to \in BbDelegates THEN (x.to :> (VoteOf(v, x.to) - x.amt)) @@ v ELSE v
            IN  IF x.from \in BbDelegates THEN (x.from :> (VoteOf(to, x.from) + x.amt + x.fee)) @@ to ELSE to
    IN  FoldLeft(one, mint, Tail(b.txs))

KeepVoted(votes) == [x \in {y \in DOMAIN votes : votes[y] # 0} |-> votes[x]]

CheckVotes(d, b, blocks) ==
    LET i      == d.idx[b]
        undone == UndoVotes(d.dele[b].vote, i)
    IN  /\ b \in DOMAIN d.dele
        /\ \A x \in DOMAIN undone : undone[x] >= 0
        /\ i.prev \in blocks => i.prev \in DOMAIN d.dele /\ d.dele[i.prev].vote = KeepVoted(undone)
        /\ {<<e[2], e[3]>> : e \in {x \in d.dele[b].enr : x[1] = i.prev}}
             = {<<BbTx[t].to, t>> : t \in {u \in ToSet(Tail(i.txs)) : BbTx[u].kind = "cert"}}

(* Level 3: a transaction with change has inputs of one address, which is  *)
(* the one it pays; a block has a mint transaction; and what the visited   *)
(* blocks leave unspent is in the table.                                   *)
RECURSIVE SingleAddress(_, _)
SingleAddress(d, t) ==
    LET paid == {BbTx[o[1]].to : o \in {x \in BbTx[t].in : x[2] = 0}}
    IN  /\ \A o \in BbTx[t].in : RetrieveTxIndex(d.txi, o[1]) # {}
        /\ paid \in {{}, {BbTx[t].to}}
        /\ \A o \in BbTx[t].in : o[2] = 1 => SingleAddress(d, o[1])

CheckUnspent(d, f, blocks) ==
    LET txs   == UNION {ToSet(d.idx[b].txs) : b \in blocks}
        spent == UNION {BbTx[t].in : t \in txs}
        outs  == UNION {V!OutputsOf(t) : t \in txs} \ spent
    IN  /\ \A b \in blocks : d.idx[b].txs # <<>>
        /\ \A t \in txs : HasChange(t) => SingleAddress(d, t)
        /\ outs \subseteq d.uns[f]

(* nDepth is lowered to the height of every fork in turn and stays there.  *)
CheckConsistency(d, level, depth) ==
    LET order == SetToSortSeq(ListFork(d), LAMBDA f, g : d.idx[f].h < d.idx[g].h)
        lower(n, f) == LET h == d.idx[d.act[f]].h IN IF n = 0 \/ h < n THEN h ELSE n
        depthOf(i) == FoldLeft(lower, depth, SubSeq(order, 1, i))
        blocks(i) == Visited(d.idx, d.act[order[i]], d.act[order[i]], depthOf(i))
    IN  \A i \in DOMAIN order : \A b \in ToSet(blocks(i)) :
            /\ CheckBlock(d, b)
            /\ level >= 1 => CheckTxs(d, b)
            /\ level >= 2 /\ order[i] = BbGenesis => CheckVotes(d, b, ToSet(blocks(i)))
            /\ level >= 3 => CheckUnspent(d, order[i], ToSet(blocks(i)))

(* Initiate, on a store emptied by Clear (the block file is kept).         *)
Initiate(file) ==
    LET g   == BbBlock[BbGenesis]
        idx == AddNewIndex(<<>>, g, Len(file) + 1)
        one == [t \in ToSet(g.txs) |-> [h |-> 0, b |-> BbGenesis]]
    IN  [file |-> Append(file, g), idx |-> idx, dele |-> BbGenesis :> [vote |-> <<>>, enr |-> {}],
         ctxt |-> {BbGenesis}, act |-> BbGenesis :> BbGenesis, txi |-> BbGenesis :> one,
         uns |-> BbGenesis :> UNION {V!OutputsOf(t) : t \in ToSet(g.txs)}]

(* CWorldLine::HandleInvoke: what a start leaves on disk.                  *)
Started(d, level, depth) ==
    IF DOMAIN d.idx # {} /\ CheckConsistency(d, level, depth) THEN d ELSE Initiate(d.file)

--------------------------------------------------------------------------
(* The locks.  A writer that waits already keeps new readers out, of       *)
(* rwAccess and, once it upgrades, of a fork.                              *)

FreeLocks ==
    [r |-> {}, w |-> {}, fr |-> [f \in BbForks |-> {}], fu |-> [f \in BbForks |-> {}], fx |-> {}]

CanRead == bbLock.w = {}
CanWrite(t) == t \in bbLock.w /\ bbLock.r = {} /\ \A u \in bbLock.w \ {t} : bbThr[u].pc # "delegate"

(* The destructor of the view gives back the fork's lock.                  *)
DropView(l, t) ==
    [l EXCEPT !.w = @ \ {t}, !.r = @ \ {t}, !.fx = {f \in @ : t \notin l.fu[f]},
              !.fr = [f \in BbForks |-> l.fr[f] \ {t}], !.fu = [f \in BbForks |-> l.fu[f] \ {t}]]

--------------------------------------------------------------------------
(* The steps of adding the block at the head of a thread's work, which is  *)
(* <<"block", block, what follows when it is added>>.                      *)

IdleThread == [pc |-> "idle", work |-> <<>>, view |-> IsolatedView]
TheBlock(t) == bbThr[t].work[1][2]
AtBlock(t, pc) == /\ bbMem.up = "up" /\ bbThr[t].pc = pc
                  /\ bbThr[t].work # <<>> /\ bbThr[t].work[1][1] = "block"
Goes(t, pc) == [bbThr EXCEPT ![t].pc = pc]

(* The block is done with: its work is replaced by more.                   *)
Done(t, more) == [bbThr EXCEPT ![t] = [IdleThread EXCEPT !.work = more \o Tail(bbThr[t].work)]]

(* Refused: the parent is missing, the block is known, an origin block     *)
(* has no parent fork, or a block is not of its parent's kind.             *)
Refused(b) ==
    \/ b.prev \notin DOMAIN bbMem.index
    \/ b.id \in DOMAIN bbMem.index
    \/ bbMem.index[b.prev].org \notin DOMAIN bbMem.fork
    \/ IsPrimary(b) # IsPrimary(bbMem.index[b.prev]) /\ b.kind \notin {"origin", "vacant"}

BbBegin(t) ==
    /\ AtBlock(t, "idle") /\ CanRead
    /\ IF Refused(TheBlock(t)) THEN bbThr' = Done(t, <<>>) /\ UNCHANGED bbLock
       ELSE IF TheBlock(t).kind = "origin" /\ BbFork[TheBlock(t).id].isolated
       THEN bbThr' = Goes(t, "file") /\ UNCHANGED bbLock
       ELSE bbThr' = Goes(t, "view") /\ bbLock' = [bbLock EXCEPT !.r = @ \cup {t}]
    /\ UNCHANGED <<bbDisk, bbMem>>

(* GetBlockView, with rwAccess read-locked: the fork's upgrade lock, or    *)
(* its read lock for a view that is not committed to it; then AddTx of the *)
(* block's own transactions.                                               *)
BbView(t) ==
    LET b == TheBlock(t)
        f == bbMem.index[b.prev].org IN
    /\ AtBlock(t, "view")
    /\ IF b.kind = "origin" THEN f \notin bbLock.fx ELSE bbLock.fu[f] = {}
    /\ \E v \in {BbGetBlockView(bbMem, b.prev)} :
         IF InputsFound(v.view, bbMem.uns[f], b.txs)
         THEN /\ bbThr' = [bbThr EXCEPT ![t].pc = "file", ![t].view = [v EXCEPT !.view = AddTxs(@, b.txs)]]
              /\ bbLock' = IF b.kind = "origin"
                           THEN [bbLock EXCEPT !.r = @ \ {t}, !.fr[f] = @ \cup {t}]
                           ELSE [bbLock EXCEPT !.r = @ \ {t}, !.fu[f] = {t}]
         ELSE bbThr' = Done(t, <<>>) /\ bbLock' = DropView(bbLock, t)
    /\ UNCHANGED <<bbDisk, bbMem>>

(* AddNew: Exists again, the block file, then rwAccess is asked for.       *)
BbFile(t) ==
    /\ AtBlock(t, "file") /\ CanRead
    /\ IF TheBlock(t).id \in DOMAIN bbMem.index
       THEN bbThr' = Done(t, <<>>) /\ bbLock' = DropView(bbLock, t) /\ UNCHANGED bbDisk
       ELSE /\ bbDisk' = [bbDisk EXCEPT !.file = Append(@, TheBlock(t))]
            /\ bbLock' = [bbLock EXCEPT !.w = @ \cup {t}]
            /\ bbThr' = Goes(t, "index")
    /\ UNCHANGED bbMem

(* The position of the block just written.                                 *)
WrittenAt(b) == CHOOSE i \in DOMAIN bbDisk.file :
    bbDisk.file[i].id = b /\ \A j \in i + 1 .. Len(bbDisk.file) : bbDisk.file[j].id # b

(* Slip: the index entry stays in memory until it is written with others.  *)
BbIndexLate(t) ==
    LET b == TheBlock(t) IN
    /\ AtBlock(t, "index") /\ CanWrite(t)
    /\ bbMem' = [bbMem EXCEPT !.index = AddNewIndex(@, b, WrittenAt(b.id)), !.next = (b.id :> None) @@ @]
    /\ bbThr' = Goes(t, IF IsPrimary(b) THEN "delegate" ELSE "compare")
    /\ bbLock' = IF IsPrimary(b) THEN bbLock ELSE [bbLock EXCEPT !.w = @ \ {t}]
    /\ UNCHANGED bbDisk

BbIndex(t) ==
    LET b == TheBlock(t) IN
    /\ AtBlock(t, "index") /\ CanWrite(t)
    /\ \E index \in {AddNewIndex(bbMem.index, b, WrittenAt(b.id))} :
         /\ bbMem' = [bbMem EXCEPT !.index = index, !.next = (b.id :> None) @@ @]
         /\ bbDisk' = [bbDisk EXCEPT !.idx = index]
    /\ IF IsPrimary(b) THEN bbThr' = Goes(t, "delegate") /\ UNCHANGED bbLock
       ELSE bbThr' = Goes(t, "compare") /\ bbLock' = [bbLock EXCEPT !.w = @ \ {t}]

(* UpdateDelegate; without the parent's record the block is taken back.    *)
BbDelegate(t) ==
    LET b == TheBlock(t) IN
    /\ AtBlock(t, "delegate")
    /\ IF b.prev \in DOMAIN bbDisk.dele
       THEN /\ bbDisk' = [bbDisk EXCEPT !.dele = (b.id :> UpdateDelegate(@, b)) @@ @]
            /\ bbThr' = Goes(t, "compare")
            /\ bbLock' = [bbLock EXCEPT !.w = @ \ {t}]
            /\ UNCHANGED bbMem
       ELSE /\ bbDisk' = [bbDisk EXCEPT !.idx = Without(@, b.id)]
            /\ bbMem' = [bbMem EXCEPT !.index = Without(@, b.id), !.next = Without(@, b.id)]
            /\ bbThr' = Done(t, <<>>)
            /\ bbLock' = DropView(bbLock, t)

(* AddNewBlock leaves the fork's last block alone when it has more trust,  *)
(* or as much and is not what the new block is a vacant continuation of.   *)
BbKeepsLast(index, last, b) ==
    \/ index[last].trust > index[b].trust
    \/ index[last].trust = index[b].trust /\ ~BbIsEquivalent(index, b, last)

BbCompare(t) ==
    LET b == TheBlock(t)
        f == bbMem.index[b.id].org IN
    /\ AtBlock(t, "compare") /\ CanRead
    /\ IF b.kind = "origin" THEN bbThr' = Goes(t, "newfork") /\ UNCHANGED bbLock
       ELSE IF BbKeepsLast(bbMem.index, bbMem.fork[f], b.id)
       THEN bbThr' = Done(t, bbThr[t].work[1][3]) /\ bbLock' = DropView(bbLock, t)
       ELSE bbThr' = Goes(t, "commit") /\ bbLock' = [bbLock EXCEPT !.fx = @ \cup {f}]
    /\ UNCHANGED <<bbDisk, bbMem>>

(* CommitBlockView of an origin block: the fork gets a null reference and  *)
(* empty tables, and enters mapFork.                                       *)
BbNewFork(t) ==
    LET b == TheBlock(t).id IN
    /\ AtBlock(t, "newfork")
    /\ bbDisk' = [bbDisk EXCEPT !.act = (b :> None) @@ @, !.txi = (b :> <<>>) @@ @, !.uns = (b :> {}) @@ @]
    /\ bbMem' = [bbMem EXCEPT !.fork = (b :> b) @@ @, !.next = UpdateNext(@, bbMem.index, b),
                              !.txi = (b :> <<>>) @@ @, !.uns = (b :> {}) @@ @]
    /\ bbThr' = Goes(t, "commit")
    /\ UNCHANGED bbLock

(* UpdateFork: a fork that starts from another has its unspent outputs     *)
(* copied, which is flushed; then the reference, the transaction index and *)
(* the unspent outputs.  Readers of the fork are gone by then.             *)
BbCommit(t) ==
    LET b == TheBlock(t).id
        f == bbMem.index[b].org
        based == bbThr[t].view.fork IN
    /\ AtBlock(t, "commit")
    /\ based = f => bbLock.fr[f] = {}
    /\ IF based \notin {f, None}
       THEN /\ bbDisk' = [bbDisk EXCEPT !.act[f] = b, !.uns[f] = bbMem.uns[based]]
            /\ bbMem' = [bbMem EXCEPT !.uns[f] = bbMem.uns[based]]
       ELSE bbDisk' = [bbDisk EXCEPT !.act[f] = b] /\ UNCHANGED bbMem
    /\ bbThr' = Goes(t, "txindex")
    /\ UNCHANGED bbLock

BbTxIndex(t) ==
    LET b == TheBlock(t).id
        f == bbMem.index[b].org
        v == bbThr[t].view
        gone == IF v.fork = f THEN V!TxRemoved(v.view) ELSE {} IN
    /\ AtBlock(t, "txindex")
    /\ bbMem' = [bbMem EXCEPT !.txi[f] =
                    GetTxNewIndex(bbMem, v, b) @@ [x \in DOMAIN @ \ gone |-> @[x]]]
    /\ bbThr' = Goes(t, "unspent")
    /\ UNCHANGED <<bbDisk, bbLock>>

(* The unspent outputs, UpdateLast, and the update for the dispatcher.     *)
BbUnspent(t) ==
    LET b == TheBlock(t).id
        f == bbMem.index[b].org
        added == IF TheBlock(t).kind = "origin" THEN <<b>>
                 ELSE BlocksAdded(bbMem.index, b, bbMem.fork[f], <<>>) IN
    /\ AtBlock(t, "unspent")
    /\ bbMem' = [bbMem EXCEPT !.uns[f] = V!UnspentAfter(bbThr[t].view.view, @),
                              !.fork[f] = b, !.next = UpdateNext(@, bbMem.index, b)]
    /\ bbThr' = Done(t, <<<<"update", TheBlock(t), added>>>> \o bbThr[t].work[1][3])
    /\ bbLock' = DropView(bbLock, t)
    /\ UNCHANGED bbDisk

BbAddBlock(t) ==
    \/ BbBegin(t) \/ BbView(t) \/ BbFile(t) \/ BbIndex(t) \/ BbDelegate(t)
    \/ BbCompare(t) \/ BbNewFork(t) \/ BbCommit(t) \/ BbTxIndex(t) \/ BbUnspent(t)

--------------------------------------------------------------------------
(* What peers exchange to find out which blocks to ask for.                *)

RECURSIVE BbOrigin(_)
BbOrigin(b) == IF IsOrigin(BbBlock[b]) THEN b ELSE BbOrigin(BbBlock[b].prev)

RECURSIVE Back(_, _)
Back(b, n) == IF n = 0 \/ b \notin DOMAIN BbBlock THEN b ELSE Back(BbBlock[b].prev, n - 1)

(* GetForkBlockLocator of a peer whose last block is b: every block, then, *)
(* past BbLocator entries, twice as far each time, without the origin.     *)
RECURSIVE GetForkBlockLocator(_, _, _, _)
GetForkBlockLocator(f, b, step, v) ==
    IF b \notin DOMAIN BbBlock \/ b = f THEN v
    ELSE IF BbOrigin(b) # f THEN v
    ELSE GetForkBlockLocator(f, Back(b, step), IF Len(v) + 1 > BbLocator THEN 2 * step ELSE step,
                             Append(v, b))

RECURSIVE NextBlocks(_, _, _)
NextBlocks(next, b, n) ==
    IF b = None \/ n = 0 THEN <<>> ELSE <<b>> \o NextBlocks(next, next[b], n - 1)

(* The block of the locator where the scan stops: the first that is on the *)
(* active chain, else whatever the last entry is.                          *)
ScanLocator(mem, f, loc) ==
    LET active == {i \in DOMAIN loc : /\ loc[i] \in DOMAIN mem.index
                                      /\ loc[i] = mem.fork[f] \/ mem.next[loc[i]] # None}
    IN  IF active # {} THEN loc[CHOOSE i \in active : \A j \in active : i <= j]
        ELSE IF loc = <<>> \/ loc[Len(loc)] \notin DOMAIN mem.index THEN None
        ELSE loc[Len(loc)]

GetForkBlockInv(mem, f, loc) ==
    LET at    == ScanLocator(mem, f, loc)
        first == mem.next[IF at = None THEN f ELSE at]
        inv   == NextBlocks(mem.next, first, BbMaxInv - 1)
        rest  == IF inv = <<>> THEN first ELSE mem.next[inv[Len(inv)]]
    IN  IF at # None /\ mem.index[at].org # f THEN <<>>
        ELSE IF rest \notin {None, mem.fork[f]} THEN Append(inv, mem.fork[f]) ELSE inv
==========================================================================
