---- MODULE NodeCommands ----
(***************************************************************************)
(* The chain commands of the RPC worker (rpcmod.cpp, "Worldline & TxPool") *)
(* and the node service they go through (service.cpp), while dispatcher    *)
(* threads add blocks.  A command is several reads, each under a lock of   *)
(* its own: the service's fork status, the world line's forks, the pool,   *)
(* the transaction index.  A block is added in several steps too, and the  *)
(* service hears of it only after the pool and the wallet.                 *)
(*                                                                         *)
(* A fork is named by its origin block.  What a block view decides (which  *)
(* of two blocks carries more trust, which transactions are valid) is the  *)
(* subject of Ledger and BlockBase; here a block has its trust and its     *)
(* transactions.                                                           *)
(***************************************************************************)
EXTENDS Integers, Sequences, FiniteSets, SequencesExt

CONSTANTS
    NcBlock,    \* block |-> [prev, fork, height, ext, trust, txs, opens]
    NcGenesis,  \* the genesis block, whose prev is NcNone
    NcNone,     \* the null hash
    NcScripts   \* the runs: what is on the chain, what is added, what is asked

VARIABLES
    ncIndex,    \* CBlockBase::mapIndex, the blocks stored
    ncLast,     \* CBlockBase::mapFork, the last block of each fork
    ncTxs,      \* the transaction index, <<tx, fork, height>>
    ncPool,     \* CTxPool::mapTx
    ncLinks,    \* CForkManager::setForkIndex, the forks announced
    ncSvc,      \* CService::mapForkStatus
    ncDisp,     \* thread |-> [todo, pc, out, in], a CDispatcher::AddNewBlock under way
    ncCall,     \* the command being served
    ncLeft,     \* the commands to come
    ncSeen      \* what was true of the node while the command was served

ncVars == <<ncIndex, ncLast, ncTxs, ncPool, ncLinks, ncSvc, ncDisp, ncCall, ncLeft, ncSeen>>
ncChain == <<ncIndex, ncLast, ncTxs, ncPool, ncLinks, ncDisp>>

----------------------------------------------------------------------------
(* Blocks and chains *)

RECURSIVE NcChainOf(_)
NcChainOf(b) == IF b = NcNone THEN <<>> ELSE Append(NcChainOf(NcBlock[b].prev), b)

NcHeight(b) == NcBlock[b].height
NcTxsOf(S) == UNION {NcBlock[b].txs : b \in S}
NcEntries(S) == UNION {{<<x, NcBlock[b].fork, NcHeight(b)>> : x \in NcBlock[b].txs} : b \in S}

\* The blocks of a's chain that are not on b's.
NcBeyond(a, b) == Range(NcChainOf(a)) \ Range(NcChainOf(b))

\* The fork a fork was taken from, and the height of the block its origin follows.
NcJoint(f) ==
    IF f = NcGenesis THEN [parent |-> NcNone, height |-> -1]
    ELSE [parent |-> NcBlock[NcBlock[f].prev].fork, height |-> NcHeight(NcBlock[f].prev)]

\* No thread holds the fork's write lock (taken in CommitBlockView, released
\* with the block view).
NcReadable(f) ==
    \A t \in DOMAIN ncDisp : ~(ncDisp[t].pc = "last" /\ NcBlock[Head(ncDisp[t].todo)].fork = f)

----------------------------------------------------------------------------
(* The service's copy of the forks *)

NcStatus(b, subs) == [last |-> b, height |-> NcHeight(b), subs |-> subs]
NcSublines(f, forks) == {<<NcJoint(g).height, g>> : g \in {h \in forks : NcJoint(h).parent = f}}

GetForkStatus ==
    [f \in DOMAIN ncLast |-> NcStatus(ncLast[f], NcSublines(f, DOMAIN ncLast))]

NotifyWorldLineUpdate(f, b) ==
    LET new == f \notin DOMAIN ncSvc
        p == NcJoint(f).parent
        subs(h) == IF h \in DOMAIN ncSvc THEN ncSvc[h].subs ELSE {}
        grown(h) == subs(h) \cup (IF new /\ h = p THEN {<<NcJoint(f).height, f>>} ELSE {})
    IN [h \in DOMAIN ncSvc \cup {f} \cup ({p} \ {NcNone}) |->
           IF h = f THEN NcStatus(b, subs(h))
           ELSE IF h \in DOMAIN ncSvc THEN [ncSvc[h] EXCEPT !.subs = grown(h)]
           ELSE [last |-> NcNone, height |-> 0, subs |-> grown(h)]]

HaveFork(f) == f \in DOMAIN ncSvc
GetForkHeight(f) == IF f \in DOMAIN ncSvc THEN ncSvc[f].height ELSE 0
GetForkCount == Cardinality(DOMAIN ncSvc)
GetForkList == ncLinks
RetrieveProfile(f) == f \in DOMAIN ncLast
ListFork(all) == IF all THEN GetForkList ELSE {f \in DOMAIN ncSvc : RetrieveProfile(f)}

----------------------------------------------------------------------------
(* The world line's answers, each a walk back from a fork's last block *)

RetrieveFork(f) == {ncLast[g] : g \in DOMAIN ncLast \cap {f}}
RetrieveIndex(b) == ncIndex \cap {b}
RetrieveTx(x) == {e \in ncTxs : e[1] = x}
RetrieveTxLocation(x) == {<<e[2], e[3]>> : e \in RetrieveTx(x)}

RECURSIVE CountBack(_)
CountBack(b) == IF b = NcNone THEN 0 ELSE 1 + CountBack(NcBlock[b].prev)

\* CService::GetBlockCount: the primary chain by its height, another by a walk.
GetBlockCount(f) ==
    IF f = NcGenesis THEN GetForkHeight(f) + 1
    ELSE IF RetrieveFork(f) = {} THEN 0 ELSE CountBack(ncLast[f])

GetBlockLocation(b) ==
    {[fork |-> NcBlock[c].fork, height |-> NcHeight(c)] : c \in RetrieveIndex(b)}

RECURSIVE DownTo(_, _)
DownTo(b, h) == IF b # NcNone /\ NcHeight(b) > h THEN DownTo(NcBlock[b].prev, h) ELSE b

RECURSIVE SkipExtended(_, _)
SkipExtended(b, h) ==
    IF b # NcNone /\ NcHeight(b) = h /\ NcBlock[b].ext THEN SkipExtended(NcBlock[b].prev, h) ELSE b

RECURSIVE AtHeight(_, _)
AtHeight(b, h) ==
    IF b = NcNone \/ NcHeight(b) # h THEN <<>> ELSE <<b>> \o AtHeight(NcBlock[b].prev, h)

\* The single block a height is known by.
GetMainHash(b, h) == IF NcHeight(b) < h THEN NcNone ELSE SkipExtended(DownTo(b, h), h)

\* Slip: the blocks of a height are left in the order the walk meets them.
GetBlockHashBack(b, h) == IF NcHeight(b) < h THEN <<>> ELSE AtHeight(DownTo(b, h), h)

\* All blocks of a height; none is an error.
GetBlockHash(b, h) == IF NcHeight(b) < h THEN <<>> ELSE Reverse(AtHeight(DownTo(b, h), h))

----------------------------------------------------------------------------
(* The fork manager's genealogy *)

\* The ancestors of a fork, nearest first.  GetJoint leaves the parent as it
\* was for a fork it does not know, so the loop would not end: "endless".
RECURSIVE Ancestry(_)
Ancestry(f) ==
    LET p == NcJoint(f).parent
    IN IF p = NcNone THEN <<>>
       ELSE IF p \notin ncLinks THEN <<"endless">>
       ELSE <<<<p, NcJoint(f).height>>>> \o Ancestry(p)

GetSubline(f) == NcSublines(f, ncLinks)

GetForkGenealogy(f) ==
    {[ancestry |-> Reverse(Ancestry(g)), subline |-> GetSubline(g)] : g \in ncLinks \cap {f}}

----------------------------------------------------------------------------
(* Dispatcher threads *)

Moved(t, pc, out, in) == [ncDisp EXCEPT ![t].pc = pc, ![t].out = out, ![t].in = in]
Finished(t) == [ncDisp EXCEPT ![t] = [todo |-> Tail(@.todo), pc |-> "commit", out |-> {}, in |-> {}]]
Busy(t) == ncDisp[t].todo # <<>>

\* CDispatcher::AddNewBlock up to the write of the fork's tables.  A block
\* whose prev is unknown, that is known, or that carries no more trust than
\* the fork's last block ends here.
NcCommit(t) ==
    /\ Busy(t) /\ ncDisp[t].pc = "commit"
    /\ \E b \in {Head(ncDisp[t].todo)} : \E f \in {NcBlock[b].fork} :
        /\ NcReadable(f)
        /\ LET accepted == NcBlock[b].prev \in ncIndex /\ b \notin ncIndex
               last == IF f \in DOMAIN ncLast THEN ncLast[f] ELSE NcBlock[b].prev
               best == f \notin DOMAIN ncLast \/ NcBlock[b].trust > NcBlock[last].trust
               out == IF f \in DOMAIN ncLast THEN NcBeyond(last, b) ELSE {}
               in == IF f \in DOMAIN ncLast THEN NcBeyond(b, last) ELSE {b}
           IN /\ ncIndex' = IF accepted THEN ncIndex \cup {b} ELSE ncIndex
              /\ ncTxs' = IF accepted /\ best THEN (ncTxs \ NcEntries(out)) \cup NcEntries(in) ELSE ncTxs
              /\ ncDisp' = IF accepted /\ best THEN Moved(t, "last", out, in) ELSE Finished(t)
    /\ UNCHANGED <<ncLast, ncPool, ncLinks, ncSvc, ncCall, ncLeft>>

\* CBlockFork::UpdateLast, and the write lock is released with the view.
NcUpdateLast(t) ==
    /\ Busy(t) /\ ncDisp[t].pc = "last"
    /\ LET b == Head(ncDisp[t].todo)
           f == NcBlock[b].fork
       IN ncLast' = [g \in DOMAIN ncLast \cup {f} |-> IF g = f THEN b ELSE ncLast[g]]
    /\ ncDisp' = [ncDisp EXCEPT ![t].pc = "pool"]
    /\ UNCHANGED <<ncIndex, ncTxs, ncPool, ncLinks, ncSvc, ncCall, ncLeft>>

\* CTxPool::SynchronizeWorldLine: what the removed blocks held comes back,
\* what the added blocks hold goes.
NcSynchronize(t) ==
    /\ Busy(t) /\ ncDisp[t].pc = "pool"
    /\ ncPool' = (ncPool \cup NcTxsOf(ncDisp[t].out)) \ NcTxsOf(ncDisp[t].in)
    /\ ncDisp' = [ncDisp EXCEPT ![t].pc = "notify"]
    /\ UNCHANGED <<ncIndex, ncLast, ncTxs, ncLinks, ncSvc, ncCall, ncLeft>>

NcNotify(t) ==
    /\ Busy(t) /\ ncDisp[t].pc = "notify"
    /\ LET b == Head(ncDisp[t].todo) IN ncSvc' = NotifyWorldLineUpdate(NcBlock[b].fork, b)
    /\ ncDisp' = [ncDisp EXCEPT ![t].pc = "forks"]
    /\ UNCHANGED <<ncIndex, ncLast, ncTxs, ncPool, ncLinks, ncCall, ncLeft>>

\* CForkManager::ForkUpdate and the activation of the forks it announces: the
\* origin is added by the same thread.
NcForkUpdate(t) ==
    /\ Busy(t) /\ ncDisp[t].pc = "forks"
    /\ LET opened == UNION {NcBlock[b].opens : b \in ncDisp[t].in}
       IN /\ ncLinks' = ncLinks \cup opened
          /\ ncDisp' = [Finished(t) EXCEPT ![t].todo = SetToSeq(opened \ ncLinks) \o @]
    /\ UNCHANGED <<ncIndex, ncLast, ncTxs, ncPool, ncSvc, ncCall, ncLeft>>

NcDispatch(t) == NcCommit(t) \/ NcUpdateLast(t) \/ NcSynchronize(t) \/ NcNotify(t) \/ NcForkUpdate(t)

----------------------------------------------------------------------------
(* The commands *)

At(cmd, pc) == ncCall.cmd = cmd /\ ncCall.pc = pc
Answer(r) == ncCall' = [ncCall EXCEPT !.pc = "done", !.res = r] /\ UNCHANGED <<ncChain, ncSvc, ncLeft>>
Refuse(what) == Answer([error |-> what])
Continue(pc, acc) ==
    ncCall' = [ncCall EXCEPT !.pc = pc, !.acc = acc] /\ UNCHANGED <<ncChain, ncSvc, ncLeft>>
Failed(r) == "error" \in DOMAIN r

\* A fork is named by its hash, by nothing (the genesis fork), or by text that
\* is no hash.
GetForkHashOfDef(name) == IF name = "" THEN NcGenesis ELSE name

\* The opening of the commands on one fork.
AskedFork == GetForkHashOfDef(ncCall.arg)
RPCOpenFork ==
    /\ ncCall.pc = "start" /\ ncCall.cmd \in {"getblockcount", "getblockhash", "gettxpool", "getforkheight"}
    /\ \/ ncCall.arg = "bad" /\ Refuse("invalid fork")
       \/ ncCall.arg # "bad" /\ ~HaveFork(AskedFork) /\ Refuse("unknown fork")
       \/ ncCall.arg # "bad" /\ HaveFork(AskedFork) /\ Continue("have", AskedFork)

RPCGetBlockCount ==
    /\ At("getblockcount", "have") /\ (ncCall.acc = NcGenesis \/ NcReadable(ncCall.acc))
    /\ Answer([count |-> GetBlockCount(ncCall.acc)])

RPCGetBlockHash ==
    /\ At("getblockhash", "have") /\ NcReadable(ncCall.acc)
    /\ \E found \in {{GetBlockHash(b, ncCall.height) : b \in RetrieveFork(ncCall.acc)} \ {<<>>}} :
        \/ found = {} /\ Refuse("out of range")
        \/ \E v \in found : Answer([hashes |-> v])

RPCGetForkHeight == At("getforkheight", "have") /\ Answer([height |-> GetForkHeight(ncCall.acc)])

\* The transactions in the pool's view of a fork.
ListTx(f) == {x \in ncPool : \E b \in DOMAIN NcBlock : NcBlock[b].fork = f /\ x \in NcBlock[b].txs}
RPCGetTxPool == At("gettxpool", "have") /\ Answer([txs |-> ListTx(ncCall.acc)])

RPCGetForkCount == At("getforkcount", "start") /\ Answer([count |-> GetForkCount])
RPCListFork == At("listfork", "start") /\ Answer([forks |-> ListFork(ncCall.arg = "all")])

RPCGetForkGenealogy ==
    /\ At("getgenealogy", "start")
    /\ \/ GetForkGenealogy(GetForkHashOfDef(ncCall.arg)) = {} /\ Refuse("unknown fork")
       \/ \E g \in GetForkGenealogy(GetForkHashOfDef(ncCall.arg)) : Answer(g)

RPCGetBlockLocation ==
    /\ At("getblocklocation", "start") \/ At("getblock", "location")
    /\ \/ GetBlockLocation(ncCall.arg) = {} /\ Refuse("unknown block")
       \/ \E g \in GetBlockLocation(ncCall.arg) : Answer(g)

\* The block is read from the store, then its place from the index.
RPCGetBlock ==
    /\ At("getblock", "start")
    /\ \/ RetrieveIndex(ncCall.arg) = {} /\ Refuse("unknown block")
       \/ RetrieveIndex(ncCall.arg) # {} /\ Continue("location", NcNone)

\* CService::GetTransaction: the pool first, then the index, its location, and
\* the depth below the fork's last block.
GetPooledTx ==
    /\ At("gettransaction", "start")
    /\ \/ ncCall.arg \in ncPool /\ Answer([height |-> -1, depth |-> 0])
       \/ ncCall.arg \notin ncPool /\ Continue("chain", NcNone)

GetChainTx ==
    /\ At("gettransaction", "chain")
    /\ \/ RetrieveTx(ncCall.arg) = {} /\ Refuse("no information")
       \/ RetrieveTx(ncCall.arg) # {} /\ Continue("location", NcNone)

GetTxLocation ==
    /\ At("gettransaction", "location")
    /\ \/ RetrieveTxLocation(ncCall.arg) = {} /\ Refuse("no information")
       \/ \E e \in RetrieveTxLocation(ncCall.arg) : Continue("depth", e)

RPCGetTransaction ==
    \/ GetPooledTx \/ GetChainTx \/ GetTxLocation
    \/ /\ At("gettransaction", "depth") /\ (ncCall.acc[1] = NcGenesis \/ NcReadable(ncCall.acc[1]))
       /\ Answer([height |-> ncCall.acc[2], depth |-> GetBlockCount(ncCall.acc[1]) - ncCall.acc[2]])

\* CDispatcher::AddNewTx: a transaction the pool or the chain holds is refused
\* (the chain has spent its inputs).
RPCSendTransaction ==
    /\ At("sendtransaction", "start")
    /\ \/ (ncCall.arg \in ncPool \/ RetrieveTx(ncCall.arg) # {}) /\ Refuse("rejected")
       \/ /\ ncCall.arg \notin ncPool /\ RetrieveTx(ncCall.arg) = {}
          /\ ncPool' = ncPool \cup {ncCall.arg}
          /\ ncCall' = [ncCall EXCEPT !.pc = "done", !.res = [sent |-> ncCall.arg]]
          /\ UNCHANGED <<ncIndex, ncLast, ncTxs, ncLinks, ncSvc, ncDisp, ncLeft>>

NcServe ==
    \/ RPCOpenFork \/ RPCGetBlockCount \/ RPCGetBlockHash \/ RPCGetForkHeight \/ RPCGetTxPool
    \/ RPCGetForkCount \/ RPCListFork \/ RPCGetForkGenealogy \/ RPCGetBlockLocation \/ RPCGetBlock
    \/ RPCGetTransaction \/ RPCSendTransaction

\* The worker takes the next command.
NcTake ==
    /\ ncCall.pc \in {"idle", "done"} /\ ncLeft # <<>>
    /\ ncCall' = [cmd |-> Head(ncLeft).cmd, arg |-> Head(ncLeft).arg, height |-> Head(ncLeft).height,
                  pc |-> "start", acc |-> NcNone, res |-> [none |-> NcNone]]
    /\ ncLeft' = Tail(ncLeft)
    /\ UNCHANGED <<ncChain, ncSvc>>

----------------------------------------------------------------------------
(* The node *)

\* A transaction the node holds, in the pool or on a chain.
Held(x, pool, txs) == x \in pool \/ \E e \in txs : e[1] = x

\* What was true while the command was served: every fork table, and whether
\* the transaction asked for was held throughout.
Watched(fresh) ==
    ncSeen' = [lasts |-> (IF fresh THEN {} ELSE ncSeen.lasts) \cup {ncLast'},
               links |-> (IF fresh THEN {} ELSE ncSeen.links) \cup {ncLinks'},
               held |-> (fresh \/ ncSeen.held) /\ Held(ncCall'.arg, ncPool', ncTxs')]

\* CService::WalleveHandleInvoke has loaded the forks of the store before the
\* network, the block makers and the RPC worker start.
NcStart(s) ==
    /\ ncIndex = Range(NcChainOf(s.start)) /\ ncLast = [f \in {NcGenesis} |-> s.start]
    /\ ncTxs = NcEntries(ncIndex) /\ ncPool = s.pool /\ ncLinks = {NcGenesis}
    /\ ncSvc = GetForkStatus
    /\ ncDisp = [t \in DOMAIN s.adds |-> [todo |-> s.adds[t], pc |-> "commit", out |-> {}, in |-> {}]]
    /\ ncCall = [cmd |-> "none", arg |-> "", height |-> 0, pc |-> "idle", acc |-> NcNone, res |-> [none |-> NcNone]]
    /\ ncLeft = s.calls
    /\ ncSeen = [lasts |-> {ncLast}, links |-> {ncLinks}, held |-> FALSE]
NcInit == \E s \in NcScripts : NcStart(s)

NcStep ==
    \/ (\E t \in DOMAIN ncDisp : NcDispatch(t)) /\ Watched(FALSE)
    \/ NcServe /\ Watched(FALSE)
    \/ NcTake /\ Watched(TRUE)

NcSpec == NcInit /\ [][NcStep]_ncVars

----------------------------------------------------------------------------
(* Properties *)

NcDone(cmd) == ncCall.cmd = cmd /\ ncCall.pc = "done"

(* getblockhash answers with the blocks of that height on one chain the fork *)
(* had while it was served: the main block first, the extended blocks after  *)
(* it in their order (CWorldLine::GetBlockHash walks back from the last      *)
(* block and reverses); the main block is the one the node itself takes for  *)
(* that height, and an error means that one of those chains was too short.   *)
NcHashesExact ==
    NcDone("getblockhash") =>
        /\ ncCall.res = [error |-> "out of range"] =>
              \E l \in {k \in ncSeen.lasts : AskedFork \in DOMAIN k} : \A b \in Range(NcChainOf(l[AskedFork])) : NcHeight(b) # ncCall.height
        /\ ~Failed(ncCall.res) =>
              /\ \E l \in {k \in ncSeen.lasts : AskedFork \in DOMAIN k} :
                    /\ ncCall.res.hashes = SelectSeq(NcChainOf(l[AskedFork]), LAMBDA b : NcHeight(b) = ncCall.height)
                    /\ Head(ncCall.res.hashes) = GetMainHash(l[AskedFork], ncCall.height)
              /\ \A i \in DOMAIN ncCall.res.hashes : NcBlock[ncCall.res.hashes[i]].ext <=> i > 1

(* A transaction the node holds at every moment of the call is found by      *)
(* gettransaction, though it may move from the pool to the chain between the *)
(* two reads (CService::GetTransaction asks the pool first, and the          *)
(* dispatcher writes the index before it empties the pool).                  *)
NcTxFound == NcDone("gettransaction") /\ ncSeen.held => ~Failed(ncCall.res)

(* Once no block is being added, what the service has copied is what the     *)
(* world line holds: getforkheight, getforkcount, getblockcount and listfork *)
(* answer for the chains as they are, and each fork's sublines are the forks *)
(* taken from it (CService::NotifyWorldLineUpdate).                          *)
NcStatusFollows ==
    (\A t \in DOMAIN ncDisp : ~Busy(t)) => ncSvc = GetForkStatus

(* getgenealogy ends, lists the ancestors root first, each the parent of the *)
(* next, and exactly the forks announced from the fork.                      *)
NcGenealogyExact ==
    NcDone("getgenealogy") /\ ~Failed(ncCall.res) =>
        LET f == GetForkHashOfDef(ncCall.arg)
            line == Append([i \in DOMAIN ncCall.res.ancestry |-> ncCall.res.ancestry[i][1]], f)
        IN /\ line[1] = NcGenesis
           /\ \A i \in 1 .. Len(line) - 1 : NcJoint(line[i + 1]) = [parent |-> line[i], height |-> ncCall.res.ancestry[i][2]]
           /\ \E links \in ncSeen.links : {e[2] : e \in ncCall.res.subline} = {g \in links : NcJoint(g).parent = f}

(* What getblockhash and getgenealogy answer is true of one state the node  *)
(* was in while it served the call, in the order the commands document.     *)
NcAnswersExact == NcHashesExact /\ NcGenealogyExact


\* A command that runs while the dispatcher adds blocks answers for a chain the node had during the
\* command, finds every transaction known throughout, and the service's status follows the chain.
NcCommandsExact == NcAnswersExact /\ NcTxFound /\ NcStatusFollows
====
