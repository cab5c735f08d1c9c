------------------------------ MODULE RpcRoute ------------------------------
(***************************************************************************)
(* Remote calls routed through a tree of super nodes (src/dbpservice.cpp, and the *)
(* CSnRPCModWorker half of src/rpcmod.cpp).  The root takes a call, answers it from    *)
(* its own ledger or asks its children, one after the other for a lookup and all      *)
(* together for stop and listfork; a fork node does the same for its parent.  Each      *)
(* node keeps small tables keyed by the nonce of the call.  The caller waits for a       *)
(* limited time, and connections between nodes come and go.                             *)
(***************************************************************************)
EXTENDS Integers, Sequences, FiniteSets, TLC, SequencesExt, FiniteSetsExt

CONSTANTS
    RrRoot,             \* the super node that serves remote calls
    RrParent,           \* [fork node -> the node it connects to]
    RrForks,            \* [node -> the forks its ledger holds]
    RrScripts,          \* [calls: sequence of [sn, arg: "ok" | "bad" | "over"], the index is the nonce,
                        \*  table: bound of the tables (100 in the code), breaks: connections that may break]
    RrHolders,          \* bound: the sets of nodes that may know what a call asks for
    RrIds               \* bound: the subscription ids drawn when the nodes connect, [fork node -> id]

VARIABLES
    rr,                 \* [node -> [count: vSessionCount, topic: vRPCTopicId, que: queCount]]
    rrSub,              \* [fork node -> the id its parent knows its subscription by; 0: none]
    rrLink,             \* [fork node -> "up" | "broken": the parent has not noticed | "down"]
    rrDown, rrUp,       \* [fork node -> messages from, to its parent]
    rrQue,              \* calls and deletions waiting in the root's event queue
    rrCompl,            \* vCompletion: the nonces whose caller can still be woken
    rrCall,             \* per nonce [sn, arg, pc, at: nodes that know the answer, got]
    rrTook,             \* pairs <<node, nonce>>: the node took the transaction sent
    rrStopped,          \* nodes that have shut down
    rrLost,             \* what went missing: "link", "table": an entry dropped, "halt": a node
    rrBound             \* [table, breaks: how many connections may still break]

rrVars == <<rr, rrSub, rrLink, rrDown, rrUp, rrQue, rrCompl, rrCall, rrTook, rrStopped, rrLost, rrBound>>

RrForkNodes == DOMAIN RrParent
RrNodes == RrForkNodes \cup {RrRoot}
RrNonces == DOMAIN rrCall
RrNone == [code |-> -1, val |-> {}]

\* The state of node n while it handles one event: its tables and what it sends.
RrCtx(n) == [n |-> n, t |-> rr[n], down |-> <<>>, up |-> <<>>, done |-> <<>>,
             took |-> {}, halt |-> FALSE, lost |-> FALSE]
RrChildren(n) == {c \in RrForkNodes : RrParent[c] = n /\ rrSub[c] # 0}
RrEntry(tab, k) == SelectInSeq(tab, LAMBDA e : e[1] = k)
RrDelete(tab, k) == IF RrEntry(tab, k) = 0 THEN tab ELSE RemoveAt(tab, RrEntry(tab, k))

-----------------------------------------------------------------------------
(* The tables.                                                             *)
InitSessionCount(x, k) ==
    [x EXCEPT !.lost = @ \/ Len(x.t.count) >= rrBound.table,
              !.t.count = Append(IF Len(@) >= rrBound.table THEN Tail(@) ELSE @,
                                 <<k, Cardinality(RrChildren(x.n))>>)]
GetSessionCountByNonce(x, k) ==
    IF RrEntry(x.t.count, k) = 0 THEN -1 ELSE x.t.count[RrEntry(x.t.count, k)][2]
CountDownSessionCountByNonce(x, k) ==
    IF RrEntry(x.t.count, k) = 0 THEN x ELSE [x EXCEPT !.t.count[RrEntry(x.t.count, k)][2] = @ - 1]
DeleteSessionCountByNonce(x, k) == [x EXCEPT !.t.count = RrDelete(@, k)]

InitRPCTopicId(x, k) ==
    [x EXCEPT !.lost = @ \/ Len(x.t.topic) >= rrBound.table,
              !.t.topic = Append(IF Len(@) >= rrBound.table THEN Tail(@) ELSE @,
                                 <<k, {<<rrSub[c], c>> : c \in RrChildren(x.n)}>>)]

InsertQueCount(x, k) ==
    [x EXCEPT !.lost = @ \/ Len(x.t.que) > rrBound.table,
              !.t.que = <<<<k, {}>>>> \o (IF Len(@) > rrBound.table THEN Front(@) ELSE @)]
DeleteQueCount(x, k) == [x EXCEPT !.t.que = RrDelete(@, k)]

CompletionByNonce(x, k, ret) == [x EXCEPT !.done = Append(@, <<k, ret>>)]
SendRPCResult(x, k, ret) == [x EXCEPT !.up = Append(@, <<k, ret>>)]

\* A child asked by a subscription id that is gone is not asked at all.
PushRPCOnce(x, id, k) ==
    IF rrSub[id[2]] = id[1] THEN [x EXCEPT !.down = Append(@, <<id[2], k>>)] ELSE x
PushRPC(x, k) == [x EXCEPT !.down = @ \o SetToSeq({<<c, k>> : c \in RrChildren(x.n)})]

\* The ids of an entry are kept in order and the greatest is asked next.
RrBack(ids) == CHOOSE id \in ids : \A i \in ids : i[1] <= id[1]
RrAsked(x, k, i, ids) ==
    LET rest == IF ids = {} THEN {} ELSE ids \ {RrBack(ids)}
        t    == IF rest = {} THEN RemoveAt(x.t.topic, i) ELSE ReplaceAt(x.t.topic, i, <<k, rest>>)
    IN  [(IF ids = {} THEN x ELSE PushRPCOnce(x, RrBack(ids), k)) EXCEPT !.t.topic = t]
PushMsgToChild(x, k) ==
    IF RrEntry(x.t.topic, k) = 0 THEN x
    ELSE RrAsked(x, k, RrEntry(x.t.topic, k), x.t.topic[RrEntry(x.t.topic, k)][2])

-----------------------------------------------------------------------------
(* What a node that has an answer, or no one left to ask, does: one operator for   *)
(* the root and one for a fork node, then one line per call.  ret = RrNone stands    *)
(* for the NULL a handler is given when the question itself arrives.                 *)
RootLookup(x, k, ret, known, none, noneRet, forget) ==
    IF ret.code \in known
    THEN LET y == CompletionByNonce(x, k, ret)
         IN  IF forget THEN DeleteSessionCountByNonce(y, k) ELSE y
    ELSE IF GetSessionCountByNonce(x, k) = 0
    THEN DeleteSessionCountByNonce(
             CompletionByNonce(x, k, [code |-> IF ret = RrNone THEN none ELSE noneRet, val |-> {}]), k)
    ELSE PushMsgToChild(x, k)
RootStop(x, k, ret) ==
    IF GetSessionCountByNonce(x, k) # 0 THEN x
    ELSE [DeleteSessionCountByNonce(CompletionByNonce(x, k, [code |-> 0, val |-> {}]), k) EXCEPT !.halt = TRUE]

\* The forks heard of so far, with those of this answer.
ListForkUnique(x, k, ret) ==
    IF ret = RrNone \/ RrEntry(x.t.que, k) = 0 THEN x
    ELSE [x EXCEPT !.t.que[RrEntry(x.t.que, k)][2] = @ \cup ret.val]
ListForkTotal(x, k, ret) ==
    [code |-> 0, val |-> RrForks[x.n] \cup (IF ret = RrNone \/ RrEntry(x.t.que, k) = 0 THEN {}
                                            ELSE x.t.que[RrEntry(x.t.que, k)][2])]
\* Slip: the total is sent when the first child has answered.
RootListForkFirst(x, k, ret) ==
    LET y == ListForkUnique(x, k, ret)
    IN  DeleteQueCount(DeleteSessionCountByNonce(CompletionByNonce(y, k, ListForkTotal(y, k, ret)), k), k)
RootListFork(x, k, ret) ==
    LET y == ListForkUnique(x, k, ret)
    IN  IF GetSessionCountByNonce(y, k) # 0 THEN y
        ELSE DeleteQueCount(DeleteSessionCountByNonce(CompletionByNonce(y, k, ListForkTotal(y, k, ret)), k), k)
RootGetBlockLocation(x, k, ret) == RootLookup(x, k, ret, {0}, 1, 1, FALSE)
RootGetBlockCount(x, k, ret)    == RootLookup(x, k, ret, {0}, 2, 2, FALSE)
RootGetBlockHash(x, k, ret)     == RootLookup(x, k, ret, {0, 3}, 2, 2, TRUE)
RootGetBlock(x, k, ret)         == RootLookup(x, k, ret, {0}, 1, 1, TRUE)
RootGetTxPool(x, k, ret)        == RootLookup(x, k, ret, {0}, 2, 2, TRUE)
RootGetTransaction(x, k, ret)   == RootLookup(x, k, ret, {0}, 1, 2, TRUE)
RootGetForkHeight(x, k, ret)    == RootLookup(x, k, ret, {0}, 2, 2, TRUE)
RootSendTransaction(x, k, ret)  == RootLookup(x, k, ret, {0}, 1, 1, TRUE)

ForkLookup(x, k, ret, known, none, noneRet) ==
    IF ret.code \in known THEN DeleteSessionCountByNonce(SendRPCResult(x, k, ret), k)
    ELSE IF GetSessionCountByNonce(x, k) = 0
    THEN DeleteSessionCountByNonce(
             SendRPCResult(x, k, [code |-> IF ret = RrNone THEN none ELSE noneRet, val |-> {}]), k)
    ELSE PushMsgToChild(x, k)
ForkStop(x, k, ret) ==
    IF GetSessionCountByNonce(x, k) # 0 THEN x
    ELSE [DeleteSessionCountByNonce(SendRPCResult(x, k, [code |-> 0, val |-> {}]), k) EXCEPT !.halt = TRUE]
ForkListFork(x, k, ret) ==
    LET y == ListForkUnique(x, k, ret)
    IN  IF GetSessionCountByNonce(y, k) # 0 THEN y
        ELSE DeleteQueCount(DeleteSessionCountByNonce(SendRPCResult(y, k, ListForkTotal(y, k, ret)), k), k)
ForkGetBlockLocation(x, k, ret) == ForkLookup(x, k, ret, {0}, 1, 1)
ForkGetBlockCount(x, k, ret)    == ForkLookup(x, k, ret, {0}, 2, 2)
ForkGetBlockHash(x, k, ret)     == ForkLookup(x, k, ret, {0, 3}, 2, 2)
ForkGetBlock(x, k, ret)         == ForkLookup(x, k, ret, {0}, 1, 1)
ForkGetTxPool(x, k, ret)        == ForkLookup(x, k, ret, {0}, 2, 2)
ForkGetTransaction(x, k, ret)   == ForkLookup(x, k, ret, {0}, 1, 2)
ForkGetForkHeight(x, k, ret)    == ForkLookup(x, k, ret, {0}, 2, 2)
ForkSendTransaction(x, k, ret)  == ForkLookup(x, k, ret, {0}, 1, 1)

-----------------------------------------------------------------------------
(* What the node's own ledger says: RrNone when it cannot tell.             *)
Knows(n, k) == n \in rrCall[k].at
OwnItem(n, k) == IF Knows(n, k) THEN [code |-> 0, val |-> {n}] ELSE RrNone
GetForkHashOfDef(k) == rrCall[k].arg # "bad"
OwnFork(n, k) == IF ~GetForkHashOfDef(k) THEN [code |-> 1, val |-> {}] ELSE OwnItem(n, k)
OwnHash(n, k) ==
    IF GetForkHashOfDef(k) /\ Knows(n, k) /\ rrCall[k].arg = "over"
    THEN [code |-> 3, val |-> {}] ELSE OwnFork(n, k)

\* A call at the root: answered at once, or handed to the children.
RootLocal(x, k, own, Handle(_, _, _)) ==
    IF own # RrNone THEN CompletionByNonce(x, k, own)
    ELSE Handle(InitSessionCount(InitRPCTopicId(x, k), k), k, RrNone)
RootAll(x, k, Handle(_, _, _)) ==
    IF GetSessionCountByNonce(x, k) > 0 THEN PushRPC(x, k) ELSE Handle(x, k, RrNone)
CallStop(x, k)             == RootAll(InitSessionCount(x, k), k, RootStop)
CallListFork(x, k)         == RootAll(InitSessionCount(InsertQueCount(x, k), k), k, RootListFork)
CallGetBlockLocation(x, k) == RootLocal(x, k, OwnItem(x.n, k), RootGetBlockLocation)
CallGetBlockCount(x, k)    == RootLocal(x, k, OwnFork(x.n, k), RootGetBlockCount)
CallGetBlockHash(x, k)     == RootLocal(x, k, OwnHash(x.n, k), RootGetBlockHash)
CallGetBlock(x, k)         == RootLocal(x, k, OwnItem(x.n, k), RootGetBlock)
CallGetTxPool(x, k)        == RootLocal(x, k, OwnFork(x.n, k), RootGetTxPool)
CallGetTransaction(x, k)   == RootLocal(x, k, OwnItem(x.n, k), RootGetTransaction)
CallGetForkHeight(x, k)    == RootLocal(x, k, OwnFork(x.n, k), RootGetForkHeight)
CallSendTransaction(x, k)  ==
    RootLocal([x EXCEPT !.took = {j \in {k} : Knows(x.n, j)}], k, OwnItem(x.n, k), RootSendTransaction)

\* The same question from the parent: the tables are set up before the node looks.
ForkLocal(x, k, own, Handle(_, _, _)) ==
    IF own # RrNone THEN SendRPCResult(InitRPCTopicId(InitSessionCount(x, k), k), k, own)
    ELSE Handle(InitRPCTopicId(InitSessionCount(x, k), k), k, RrNone)
HandleAddedEventStop(x, k)             == RootAll(InitSessionCount(x, k), k, ForkStop)
HandleAddedEventListFork(x, k)         == RootAll(InsertQueCount(InitSessionCount(x, k), k), k, ForkListFork)
HandleAddedEventGetBlockLocation(x, k) == ForkLocal(x, k, OwnItem(x.n, k), ForkGetBlockLocation)
HandleAddedEventGetBlockCount(x, k)    == ForkLocal(x, k, OwnFork(x.n, k), ForkGetBlockCount)
HandleAddedEventGetBlockHash(x, k)     == ForkLocal(x, k, OwnHash(x.n, k), ForkGetBlockHash)
HandleAddedEventGetBlock(x, k)         == ForkLocal(x, k, OwnItem(x.n, k), ForkGetBlock)
HandleAddedEventGetTxPool(x, k)        == ForkLocal(x, k, OwnItem(x.n, k), ForkGetTxPool)
HandleAddedEventGetTransaction(x, k)   == ForkLocal(x, k, OwnItem(x.n, k), ForkGetTransaction)
HandleAddedEventGetForkHeight(x, k)    == ForkLocal(x, k, OwnItem(x.n, k), ForkGetForkHeight)
HandleAddedEventSendTransaction(x, k)  ==
    ForkLocal([x EXCEPT !.took = {j \in {k} : Knows(x.n, j)}], k, OwnItem(x.n, k), ForkSendTransaction)

-----------------------------------------------------------------------------
(* The calls of the JSON-RPC server: the event a call posts and what its caller is  *)
(* told for each code of the answer.                                          *)
Routed(event, codes) == [event |-> event, codes |-> codes]
SnRPCStop == Routed("stop", <<"ok">>)
SnRPCGetForkCount == Routed("list", <<"ok">>)
SnRPCListFork == Routed("list", <<"ok">>)
SnRPCGetBlockLocation == Routed("location", <<"ok", "unknown">>)
SnRPCGetBlockCount == Routed("count", <<"ok", "invalid", "unknown">>)
SnRPCGetBlockHash == Routed("hash", <<"ok", "invalid", "unknown", "range">>)
SnRPCGetBlock == Routed("block", <<"ok", "unknown">>)
SnRPCGetTxPool == Routed("txpool", <<"ok", "invalid", "unknown">>)
SnRPCGetTransaction == Routed("tx", <<"ok", "unknown", "ok">>)
SnRPCGetForkHeight == Routed("height", <<"ok", "invalid", "unknown">>)
SnRPCSendTransaction == Routed("send", <<"ok", "unknown">>)
SnRPC(k) ==
    CASE rrCall[k].sn = "stop"                -> SnRPCStop
      [] rrCall[k].sn = "getforkcount"        -> SnRPCGetForkCount
      [] rrCall[k].sn = "listfork"            -> SnRPCListFork
      [] rrCall[k].sn = "getblocklocation"    -> SnRPCGetBlockLocation
      [] rrCall[k].sn = "getblockcount"       -> SnRPCGetBlockCount
      [] rrCall[k].sn = "getblockhash"        -> SnRPCGetBlockHash
      [] rrCall[k].sn = "getblock"            -> SnRPCGetBlock
      [] rrCall[k].sn = "gettxpool"           -> SnRPCGetTxPool
      [] rrCall[k].sn = "gettransaction"      -> SnRPCGetTransaction
      [] rrCall[k].sn = "getforkheight"       -> SnRPCGetForkHeight
      [] rrCall[k].sn = "sendtransaction"     -> SnRPCSendTransaction
RrEvent(k) == SnRPC(k).event

HandleCall(x, k) ==
    CASE RrEvent(k) = "stop"     -> CallStop(x, k)
      [] RrEvent(k) = "list"     -> CallListFork(x, k)
      [] RrEvent(k) = "location" -> CallGetBlockLocation(x, k)
      [] RrEvent(k) = "count"    -> CallGetBlockCount(x, k)
      [] RrEvent(k) = "hash"     -> CallGetBlockHash(x, k)
      [] RrEvent(k) = "block"    -> CallGetBlock(x, k)
      [] RrEvent(k) = "txpool"   -> CallGetTxPool(x, k)
      [] RrEvent(k) = "tx"       -> CallGetTransaction(x, k)
      [] RrEvent(k) = "height"   -> CallGetForkHeight(x, k)
      [] RrEvent(k) = "send"     -> CallSendTransaction(x, k)
HandleAdded(x, k) ==
    CASE RrEvent(k) = "stop"     -> HandleAddedEventStop(x, k)
      [] RrEvent(k) = "list"     -> HandleAddedEventListFork(x, k)
      [] RrEvent(k) = "location" -> HandleAddedEventGetBlockLocation(x, k)
      [] RrEvent(k) = "count"    -> HandleAddedEventGetBlockCount(x, k)
      [] RrEvent(k) = "hash"     -> HandleAddedEventGetBlockHash(x, k)
      [] RrEvent(k) = "block"    -> HandleAddedEventGetBlock(x, k)
      [] RrEvent(k) = "txpool"   -> HandleAddedEventGetTxPool(x, k)
      [] RrEvent(k) = "tx"       -> HandleAddedEventGetTransaction(x, k)
      [] RrEvent(k) = "height"   -> HandleAddedEventGetForkHeight(x, k)
      [] RrEvent(k) = "send"     -> HandleAddedEventSendTransaction(x, k)
RPCRootHandle(x, k, ret) ==
    CASE RrEvent(k) = "stop"     -> RootStop(x, k, ret)
      [] RrEvent(k) = "list"     -> RootListFork(x, k, ret)
      [] RrEvent(k) = "location" -> RootGetBlockLocation(x, k, ret)
      [] RrEvent(k) = "count"    -> RootGetBlockCount(x, k, ret)
      [] RrEvent(k) = "hash"     -> RootGetBlockHash(x, k, ret)
      [] RrEvent(k) = "block"    -> RootGetBlock(x, k, ret)
      [] RrEvent(k) = "txpool"   -> RootGetTxPool(x, k, ret)
      [] RrEvent(k) = "tx"       -> RootGetTransaction(x, k, ret)
      [] RrEvent(k) = "height"   -> RootGetForkHeight(x, k, ret)
      [] RrEvent(k) = "send"     -> RootSendTransaction(x, k, ret)
RPCForkHandle(x, k, ret) ==
    CASE RrEvent(k) = "stop"     -> ForkStop(x, k, ret)
      [] RrEvent(k) = "list"     -> ForkListFork(x, k, ret)
      [] RrEvent(k) = "location" -> ForkGetBlockLocation(x, k, ret)
      [] RrEvent(k) = "count"    -> ForkGetBlockCount(x, k, ret)
      [] RrEvent(k) = "hash"     -> ForkGetBlockHash(x, k, ret)
      [] RrEvent(k) = "block"    -> ForkGetBlock(x, k, ret)
      [] RrEvent(k) = "txpool"   -> ForkGetTxPool(x, k, ret)
      [] RrEvent(k) = "tx"       -> ForkGetTransaction(x, k, ret)
      [] RrEvent(k) = "height"   -> ForkGetForkHeight(x, k, ret)
      [] RrEvent(k) = "send"     -> ForkSendTransaction(x, k, ret)
\* An answer from below.
HandleRPCRoute(x, k, ret) ==
    IF x.n = RrRoot THEN RPCRootHandle(CountDownSessionCountByNonce(x, k), k, ret)
    ELSE RPCForkHandle(CountDownSessionCountByNonce(x, k), k, ret)

-----------------------------------------------------------------------------
(* The steps.  x is the node's state when the handler returns: its messages go to  *)
(* the sessions that are still there, its answers to the callers still waiting.     *)
RrStart(ids, sc, at) ==
    /\ rr = [n \in RrNodes |-> [count |-> <<>>, topic |-> <<>>, que |-> <<>>]]
    /\ rrSub = ids
    /\ rrLink = [c \in RrForkNodes |-> "up"]
    /\ rrDown = [c \in RrForkNodes |-> <<>>]
    /\ rrUp = [c \in RrForkNodes |-> <<>>]
    /\ rrQue = <<>>
    /\ rrCompl = {}
    /\ rrCall = [k \in DOMAIN sc.calls |->
                   [sn |-> sc.calls[k].sn, arg |-> sc.calls[k].arg, pc |-> "new", at |-> at[k], got |-> RrNone]]
    /\ rrBound = [table |-> sc.table, breaks |-> sc.breaks]
    /\ rrTook = {}
    /\ rrStopped = {}
    /\ rrLost = {}
RrInit ==
    \E ids \in RrIds, sc \in RrScripts : \E at \in [DOMAIN sc.calls -> RrHolders] : RrStart(ids, sc, at)

RrDeliver(x, down, up, compl) ==
    /\ rr' = [rr EXCEPT ![x.n] = x.t]
    /\ rrDown' = [c \in RrForkNodes |->
                     IF rrLink[c] # "up" THEN down[c]
                     ELSE down[c] \o [i \in 1..Len(SelectSeq(x.down, LAMBDA m : m[1] = c)) |->
                                          SelectSeq(x.down, LAMBDA m : m[1] = c)[i][2]]]
    /\ rrUp' = [c \in RrForkNodes |-> IF c = x.n /\ rrLink[c] = "up" THEN up[c] \o x.up ELSE up[c]]
    /\ rrCall' = [k \in RrNonces |->
                     IF rrCall[k].pc = "wait" /\ k \in compl /\ \E i \in 1..Len(x.done) : x.done[i][1] = k
                     THEN [rrCall[k] EXCEPT !.pc = "woken",
                               !.got = x.done[CHOOSE i \in 1..Len(x.done) : x.done[i][1] = k][2]]
                     ELSE rrCall[k]]
    /\ rrTook' = rrTook \cup {<<x.n, k>> : k \in x.took}
    /\ rrStopped' = IF x.halt THEN rrStopped \cup {x.n} ELSE rrStopped
    /\ rrLost' = rrLost \cup (IF x.lost THEN {"table"} ELSE {}) \cup (IF x.halt THEN {"halt"} ELSE {})
    /\ rrCompl' = compl
    /\ UNCHANGED <<rrSub, rrLink, rrBound>>

\* A caller posts its event and waits.
RrPost(k) ==
    /\ rrCall[k].pc = "new"
    /\ rrCall' = [rrCall EXCEPT ![k].pc = "wait"]
    /\ rrQue' = Append(rrQue, <<"call", k>>)
    /\ UNCHANGED <<rr, rrSub, rrLink, rrDown, rrUp, rrCompl, rrTook, rrStopped, rrLost, rrBound>>
\* It is woken, or gives up; either way it takes its completion back.
RrReturn(k) ==
    /\ \/ rrCall[k].pc = "woken" /\ rrCall' = [rrCall EXCEPT ![k].pc = "done"]
       \/ rrCall[k].pc = "wait" /\ rrCall' = [rrCall EXCEPT ![k].pc = "timeout"]
    /\ rrQue' = Append(rrQue, <<"del", k>>)
    /\ UNCHANGED <<rr, rrSub, rrLink, rrDown, rrUp, rrCompl, rrTook, rrStopped, rrLost, rrBound>>

RrTakeCall ==
    /\ rrQue # <<>> /\ Head(rrQue)[1] = "call" /\ RrRoot \notin rrStopped
    /\ rrQue' = Tail(rrQue)
    /\ \E x \in {HandleCall(RrCtx(RrRoot), Head(rrQue)[2])} :
           RrDeliver(x, rrDown, rrUp, rrCompl \cup {Head(rrQue)[2]})
RrTakeDelete ==
    /\ rrQue # <<>> /\ Head(rrQue)[1] = "del" /\ RrRoot \notin rrStopped
    /\ rrQue' = Tail(rrQue)
    /\ rrCompl' = rrCompl \ {Head(rrQue)[2]}
    /\ UNCHANGED <<rr, rrSub, rrLink, rrDown, rrUp, rrCall, rrTook, rrStopped, rrLost, rrBound>>
RrTakeAdded(c) ==
    /\ rrDown[c] # <<>> /\ c \notin rrStopped
    /\ \E x \in {HandleAdded(RrCtx(c), Head(rrDown[c]))} :
           RrDeliver(x, [rrDown EXCEPT ![c] = Tail(@)], rrUp, rrCompl)
    /\ UNCHANGED rrQue
RrTakeAnswer(c) ==
    /\ rrUp[c] # <<>> /\ RrParent[c] \notin rrStopped
    /\ \E x \in {HandleRPCRoute(RrCtx(RrParent[c]), Head(rrUp[c])[1], Head(rrUp[c])[2])} :
           RrDeliver(x, rrDown, [rrUp EXCEPT ![c] = Tail(@)], rrCompl)
    /\ UNCHANGED rrQue

\* The connection of c to its parent breaks: what was under way is lost.
RrBreak(c) ==
    /\ rrBound.breaks > 0 /\ rrLink[c] = "up"
    /\ rrBound' = [rrBound EXCEPT !.breaks = @ - 1]
    /\ rrLink' = [rrLink EXCEPT ![c] = "broken"]
    /\ rrDown' = [rrDown EXCEPT ![c] = <<>>]
    /\ rrUp' = [rrUp EXCEPT ![c] = <<>>]
    /\ rrLost' = rrLost \cup {"link"}
    /\ UNCHANGED <<rr, rrSub, rrQue, rrCompl, rrCall, rrTook, rrStopped>>
\* The parent handles the Broken event: the subscription goes, the counts stay.
RrRemoveSession(c) ==
    /\ rrLink[c] = "broken"
    /\ rrLink' = [rrLink EXCEPT ![c] = "down"]
    /\ rrSub' = [rrSub EXCEPT ![c] = 0]
    /\ UNCHANGED <<rr, rrDown, rrUp, rrQue, rrCompl, rrCall, rrTook, rrStopped, rrLost, rrBound>>
\* The child has connected again and subscribes under a new id.
RrSubscribe(c) ==
    /\ rrLink[c] = "down" /\ c \notin rrStopped
    /\ rrLink' = [rrLink EXCEPT ![c] = "up"]
    /\ \E id \in (1..Cardinality(RrForkNodes) + 1) \ {rrSub[d] : d \in RrForkNodes} :
           rrSub' = [rrSub EXCEPT ![c] = id]
    /\ UNCHANGED <<rr, rrDown, rrUp, rrQue, rrCompl, rrCall, rrTook, rrStopped, rrLost, rrBound>>

RrStep ==
    \/ \E k \in RrNonces : RrPost(k) \/ RrReturn(k)
    \/ RrTakeCall \/ RrTakeDelete
    \/ \E c \in RrForkNodes : RrTakeAdded(c) \/ RrTakeAnswer(c)
    \/ \E c \in RrForkNodes : RrBreak(c) \/ RrRemoveSession(c) \/ RrSubscribe(c)

RrSpec == RrInit /\ [][RrStep]_rrVars

-----------------------------------------------------------------------------
RrTold(k) == SnRPC(k).codes[rrCall[k].got.code + 1]
RrQuiet == /\ rrQue = <<>>
           /\ \A c \in RrForkNodes : rrDown[c] = <<>> /\ rrUp[c] = <<>>
RrStopPosted == \E k \in RrNonces : RrEvent(k) = "stop" /\ rrCall[k].pc # "new"

\* Every caller that is answered is told the truth about the whole tree.  Whatever
\* happens to connections and tables, a value comes from a node that has it and a
\* transaction is taken by at most one node.  While nothing is lost and no stop is under
\* way, "unknown" means that no node of the tree knows, listfork names the forks of every
\* node, and a call whose messages have all been handled has been answered.  A stop that
\* is answered has stopped every node it could reach.
RouteExact ==
    \A k \in RrNonces :
        /\ Cardinality({n \in RrNodes : <<n, k>> \in rrTook}) <= 1
        /\ rrCall[k].pc \in {"woken", "done"} =>
              /\ RrTold(k) = "ok" /\ RrEvent(k) \notin {"stop", "list", "tx"}
                    => rrCall[k].got.val # {} /\ rrCall[k].got.val \subseteq rrCall[k].at
              /\ RrTold(k) = "invalid" <=> (rrCall[k].arg = "bad" /\ RrEvent(k) \in {"count", "hash", "txpool", "height"})
              /\ RrTold(k) = "ok" /\ RrEvent(k) = "send" => \E n \in RrNodes : <<n, k>> \in rrTook
              /\ rrLost = {} /\ RrTold(k) = "unknown" => rrCall[k].at = {}
              /\ rrLost = {} /\ RrEvent(k) = "list" => rrCall[k].got.val = UNION {RrForks[n] : n \in RrNodes}
              /\ RrEvent(k) = "stop" /\ "link" \notin rrLost /\ (\A j \in RrNonces : RrEvent(j) = "stop" => j = k)
                    => rrStopped = RrNodes
        /\ rrLost = {} /\ ~RrStopPosted /\ RrQuiet => rrCall[k].pc # "wait"
=============================================================================
