------------------------------ MODULE SuperNode ------------------------------
(***************************************************************************)
(* The peers of the root as every node of a super node tree sees them              *)
(* (src/dbpservice.cpp, src/virtualpeernet.cpp): the root alone speaks to real peers.  *)
(* Their arrivals, announcements and data are pushed down the tree; what the net          *)
(* channel of a fork node asks of a peer travels up, and subscriptions are counted on      *)
(* the way so that each is made once and undone when the last node leaves.                 *)
(***************************************************************************)
EXTENDS Integers, Sequences, FiniteSets, SequencesExt, FiniteSetsExt

CONSTANTS
    SnRoot, SnParent,   \* the tree: [fork node -> its parent]
    SnPeers, SnInner,   \* the nonces of real peers; SUPERNODE_INNER_NONCE, the tree itself as a peer
    SnMain, SnForks,    \* the main fork; the other forks
    SnScripts           \* bound: [mine: [node -> forks], sends: what peers send, asks: <<node, message>> its
                        \*  channel sends, joined: peers there from the start, joins, leaves, breaks: how often, changes: <<node, fork>> taken or dropped]

VARIABLES
    sn,                 \* [node -> its dbpservice and its net channel, see SnNode]
    snUp, snDown,       \* [fork node -> messages to, from its parent]
    snLink,             \* [fork node -> "up" | "broken" | "noticed": by the child too | "down"]
    snPeer,             \* [peer -> [on, subs: forks the root is subscribed to, got: requests to answer, seen: the rest]]
    snLeft,             \* what the script still holds
    snLost              \* subscriptions a node may have missed: see SnBreak and SnClientBroken

snVars == <<sn, snUp, snDown, snLink, snPeer, snLeft, snLost>>

SnForkNodes == DOMAIN SnParent
SnNodes == SnForkNodes \cup {SnRoot}
SnKeys == SnForks \X (SnPeers \cup {SnInner})
SnMsg(type, nonce, fork, data) == [type |-> type, nonce |-> nonce, fork |-> fork, data |-> data]

\* act: mapPeerEventActive; child: mapChildNodeForkCount; sess: mapSessionForkNonceKey; this:
\* mapThisNodeForkCount; want: mapThisNodeGetData; mine: forks of the channel; peers: peers it knows;
\* got: what it was handed; q: events it posted that dbpservice has not handled.
SnNode(mine) == [act |-> {}, child |-> [k \in SnKeys |-> 0], sess |-> [c \in SnForkNodes |-> <<>>],
                 this |-> [k \in SnKeys |-> 0], want |-> {}, mine |-> mine, peers |-> {}, got |-> {}, q |-> <<>>]
\* A node while it handles one event: its state, and what it sends up, down and to peers.
SnCtx(n) == [n |-> n, s |-> sn[n], up |-> <<>>, down |-> <<>>, peer |-> <<>>]

-----------------------------------------------------------------------------
(* Where messages go.                                                      *)
SendEventToParentNode(x, m) == [x EXCEPT !.up = Append(@, m)]
PushEvent(x, m) == [x EXCEPT !.down = Append(@, m)]
ToPeer(x, m) == [x EXCEPT !.peer = Append(@, m)]
\* The net channel knows its peers; the rest of what reaches it is only recorded.
ChannelActive(x, p) ==
    [x EXCEPT !.s.peers = @ \cup {p},
              !.s.q = @ \o <<SnMsg("getblocks", p, SnMain, {})>>
                        \o (IF x.s.mine = {} THEN <<>> ELSE <<SnMsg("sub", p, SnMain, x.s.mine)>>)]
ChannelDeactive(x, p) == [x EXCEPT !.s.peers = @ \ {p}]
ToChannel(x, m) == [x EXCEPT !.s.got = @ \cup {m}]
IsMyFork(x, f) == f \in x.s.mine \cup {SnMain}

\* IsThisNodeData: asked for by this node and not yet received; it is taken off the record.
IsThisNodeData(x, m) == <<m.fork, m.nonce, m.data>> \in x.s.want
SnReceived(x, m) == ToChannel([x EXCEPT !.s.want = @ \ {<<m.fork, m.nonce, m.data>>}], m)
UpdateGetDataEventRecord(x, m) ==
    [x EXCEPT !.s.want = {w \in @ : w[1] # m.fork \/ w[2] # m.nonce} \cup {<<m.fork, m.nonce, {h}>> : h \in m.data}]

-----------------------------------------------------------------------------
(* Counting.  Each operator handles the forks of a message and names those that    *)
(* have to be passed on.                                                     *)
SnCounted(cnt, m, d) == [k \in SnKeys |-> IF k[2] = m.nonce /\ k[1] \in m.data THEN cnt[k] + d ELSE cnt[k]]
SnAt(cnt, m, n) == {f \in m.data : cnt[<<f, m.nonce>>] = n}
FilterChildSubscribeFork(x, m) ==
    [x |-> [x EXCEPT !.s.child = SnCounted(@, m, 1)], out |-> SnAt(x.s.child, m, 0)]
\* Slip: a subscription is undone with the first node that drops it.
FilterChildUnsubscribeForkFirst(x, m) ==
    [x |-> [x EXCEPT !.s.child = [k \in SnKeys |-> IF @[k] = 0 THEN 0 ELSE SnCounted(@, m, -1)[k]]],
     out |-> {f \in m.data : x.s.child[<<f, m.nonce>>] > 0}]
FilterChildUnsubscribeFork(x, m) ==
    [x |-> [x EXCEPT !.s.child = [k \in SnKeys |-> IF @[k] = 0 THEN 0 ELSE SnCounted(@, m, -1)[k]]],
     out |-> SnAt(x.s.child, m, 1)]
FilterThisSubscribeFork(x, m) ==
    [x |-> [x EXCEPT !.s.this = SnCounted(@, m, 1)], out |-> SnAt(x.s.this, m, 0)]
FilterThisUnsubscribeFork(x, m) ==
    [x |-> [x EXCEPT !.s.this = [k \in SnKeys |-> IF @[k] = 0 THEN 0 ELSE SnCounted(@, m, -1)[k]]],
     out |-> SnAt(x.s.this, m, 1)]
CollectSessionSubForks(x, c, m) ==
    [x EXCEPT !.s.sess[c] = @ \o SetToSeq({<<f, m.nonce>> : f \in m.data})]
CollectSessionUnSubForks(x, c, m) ==
    [x EXCEPT !.s.sess[c] = FoldSet(LAMBDA f, ks : RemoveFirst(ks, <<f, m.nonce>>), @, m.data)]

-----------------------------------------------------------------------------
(* What the node's own net channel posts (sender "netchn"), or a hook of the root's  *)
(* peer net: CDbpService::HandleEvent.                                          *)
SnUpOrDown(x, m) == IF x.n = SnRoot \/ m.nonce = SnInner THEN PushEvent(x, m) ELSE SendEventToParentNode(x, m)
PeerActive(x, m) == PushEvent([x EXCEPT !.s.act = @ \cup {m.nonce}], m)
PeerDeactive(x, m) == PushEvent([x EXCEPT !.s.act = @ \ {m.nonce}], m)
SnPassed(r, m) == IF r.out = {} THEN r.x ELSE SendEventToParentNode(r.x, [m EXCEPT !.data = r.out])
PeerSubscribe(x, m) == IF x.n = SnRoot THEN PushEvent(x, m) ELSE SnPassed(FilterThisSubscribeFork(x, m), m)
PeerUnsubscribe(x, m) == IF x.n = SnRoot THEN PushEvent(x, m) ELSE SnPassed(FilterThisUnsubscribeFork(x, m), m)
PeerInv(x, m) == SnUpOrDown(x, m)
PeerBlock(x, m) == SnUpOrDown(x, m)
PeerTx(x, m) == SnUpOrDown(x, m)
PeerGetBlocks(x, m) == IF x.n = SnRoot THEN PushEvent(x, m) ELSE SendEventToParentNode(x, m)
PeerGetData(x, m) ==
    IF x.n = SnRoot THEN PushEvent(x, m) ELSE SendEventToParentNode(UpdateGetDataEventRecord(x, m), m)
PeerNetReward(x, m) == IF x.n = SnRoot THEN x ELSE SendEventToParentNode(x, m)
PeerNetClose(x, m) == IF x.n = SnRoot THEN x ELSE SendEventToParentNode(x, m)

-----------------------------------------------------------------------------
(* CVirtualPeerNet::HandleEvent, on the root and on a fork node; own says that the    *)
(* net channel of this node sent the event, dbpservice otherwise.                *)
VActive(x, m) == IF x.n = SnRoot THEN x ELSE ChannelActive(x, m.nonce)
VDeactive(x, m) == IF x.n = SnRoot THEN x ELSE ChannelDeactive(x, m.nonce)
VReward(x, m) == IF x.n = SnRoot THEN ToPeer(x, m) ELSE PeerNetReward(x, m)
VClose(x, m) == IF x.n = SnRoot THEN ToPeer(x, m) ELSE PeerNetClose(x, m)
VSubscribe(x, m, own) ==
    IF x.n = SnRoot THEN IF own \/ m.nonce # SnInner THEN ToPeer(x, m) ELSE ToChannel(x, m)
    ELSE IF own THEN PeerSubscribe(x, m) ELSE ToChannel(x, m)
VUnsubscribe(x, m, own) ==
    IF x.n = SnRoot THEN IF own \/ m.nonce # SnInner THEN ToPeer(x, m) ELSE ToChannel(x, m)
    ELSE IF own THEN PeerUnsubscribe(x, m) ELSE ToChannel(x, m)
VInv(x, m, own) ==
    IF x.n = SnRoot
    THEN IF own THEN IF m.nonce # SnInner THEN ToPeer(x, m) ELSE PeerInv(x, m)
         ELSE IF IsMyFork(x, m.fork) THEN ToChannel(x, m) ELSE ToPeer(x, m)
    ELSE IF own THEN PeerInv(x, m) ELSE ToChannel(x, m)
VGetData(x, m, own) ==
    IF x.n = SnRoot
    THEN IF own THEN ToPeer(UpdateGetDataEventRecord(x, m), m)
         ELSE IF m.nonce # SnInner THEN ToPeer(x, m) ELSE ToChannel(x, m)
    ELSE IF own THEN PeerGetData(x, m) ELSE ToChannel(x, m)
VGetBlocks(x, m, own) ==
    IF x.n = SnRoot THEN IF own \/ m.nonce # SnInner THEN ToPeer(x, m) ELSE ToChannel(x, m)
    ELSE IF own THEN PeerGetBlocks(x, m) ELSE ToChannel(x, m)
VTx(x, m, own) ==
    IF x.n = SnRoot THEN IF own \/ m.nonce # SnInner THEN ToPeer(x, m) ELSE x
    ELSE IF own THEN PeerTx(x, m) ELSE ToChannel(x, m)
VBlock(x, m, own) ==
    IF x.n = SnRoot
    THEN IF m.nonce # SnInner THEN ToPeer(x, m) ELSE IF own THEN PeerBlock(x, m) ELSE x
    ELSE IF own THEN PeerBlock(x, m) ELSE ToChannel(x, m)

-----------------------------------------------------------------------------
(* A message from child c.                                                 *)
SnRootOrUp(x, m, V(_, _, _)) == IF x.n = SnRoot THEN V(x, m, FALSE) ELSE SendEventToParentNode(x, m)
SnMineOrUp(x, m, V(_, _, _)) ==
    IF x.n = SnRoot \/ (IsMyFork(x, m.fork) /\ m.nonce = SnInner) THEN V(x, m, FALSE)
    ELSE SendEventToParentNode(x, m)
SendReward(x, m) == IF x.n = SnRoot THEN VReward(x, m) ELSE SendEventToParentNode(x, m)
SendClose(x, m) == IF x.n = SnRoot THEN VClose(x, m) ELSE SendEventToParentNode(x, m)
SnPassedUp(r, m, V(_, _, _)) == IF r.out = {} THEN r.x ELSE SnRootOrUp(r.x, [m EXCEPT !.data = r.out], V)
SnSubscribed(r, c, m) == [r EXCEPT !.x = CollectSessionSubForks(@, c, m)]
SnUnsubscribed(r, c, m) == [r EXCEPT !.x = CollectSessionUnSubForks(@, c, m)]
SendSubscribe(x, c, m) == SnPassedUp(SnSubscribed(FilterChildSubscribeFork(x, m), c, m), m, VSubscribe)
SendUnsubscribe(x, c, m) == SnPassedUp(SnUnsubscribed(FilterChildUnsubscribeFork(x, m), c, m), m, VUnsubscribe)
SendGetBlocks(x, m) == SnMineOrUp(x, m, VGetBlocks)
SendGetData(x, m) == SnMineOrUp(x, m, VGetData)
SendInv(x, m) == SnRootOrUp(x, m, VInv)
SendTx(x, m) == SnRootOrUp(x, m, VTx)
SendBlock(x, m) == SnRootOrUp(x, m, VBlock)
HandleSendEvent(x, c, m) ==
    CASE m.type = "reward"    -> SendReward(x, m)
      [] m.type = "close"     -> SendClose(x, m)
      [] m.type = "sub"       -> SendSubscribe(x, c, m)
      [] m.type = "unsub"     -> SendUnsubscribe(x, c, m)
      [] m.type = "getblocks" -> SendGetBlocks(x, m)
      [] m.type = "getdata"   -> SendGetData(x, m)
      [] m.type = "inv"       -> SendInv(x, m)
      [] m.type = "tx"        -> SendTx(x, m)
      [] m.type = "block"     -> SendBlock(x, m)

(* A message from the parent.                                              *)
SnMineOrDown(x, m, V(_, _, _)) == IF IsMyFork(x, m.fork) THEN V(x, m, FALSE) ELSE PushEvent(x, m)
FromUpActive(x, m) == PushEvent([VActive(x, m) EXCEPT !.s.act = @ \cup {m.nonce}], m)
FromUpDeactive(x, m) == PushEvent([VDeactive(x, m) EXCEPT !.s.act = @ \ {m.nonce}], m)
FromUpSubscribe(x, m) == SnMineOrDown(x, m, VSubscribe)
FromUpUnsubscribe(x, m) == SnMineOrDown(x, m, VUnsubscribe)
FromUpGetBlocks(x, m) == SnMineOrDown(x, m, VGetBlocks)
FromUpGetData(x, m) == SnMineOrDown(x, m, VGetData)
FromUpInv(x, m) == PushEvent(IF IsMyFork(x, m.fork) THEN VInv(x, m, FALSE) ELSE x, m)
FromUpTx(x, m) == PushEvent(IF IsMyFork(x, m.fork) /\ IsThisNodeData(x, m) THEN SnReceived(x, m) ELSE x, m)
FromUpBlock(x, m) == PushEvent(IF IsMyFork(x, m.fork) /\ IsThisNodeData(x, m) THEN SnReceived(x, m) ELSE x, m)
HandleVirtualPeerNet(x, m) ==
    CASE m.type = "active"    -> FromUpActive(x, m)
      [] m.type = "deactive"  -> FromUpDeactive(x, m)
      [] m.type = "sub"       -> FromUpSubscribe(x, m)
      [] m.type = "unsub"     -> FromUpUnsubscribe(x, m)
      [] m.type = "getblocks" -> FromUpGetBlocks(x, m)
      [] m.type = "getdata"   -> FromUpGetData(x, m)
      [] m.type = "inv"       -> FromUpInv(x, m)
      [] m.type = "tx"        -> FromUpTx(x, m)
      [] m.type = "block"     -> FromUpBlock(x, m)

(* A message from a real peer, at the root: CMvPeerNet and its hooks.       *)
RootSub(x, m) == PeerSubscribe(ToChannel(x, m), m)
RootUnSub(x, m) == PeerUnsubscribe(ToChannel(x, m), m)
RootGetBlocks(x, m) == IF IsMyFork(x, m.fork) THEN ToChannel(x, m) ELSE PeerGetBlocks(x, m)
RootGetData(x, m) == IF IsMyFork(x, m.fork) THEN ToChannel(x, m) ELSE PeerGetData(x, m)
\* An announcement of the root's own forks is passed on without its transactions.
RootInv(x, m, txs) ==
    IF ~IsMyFork(x, m.fork) THEN PeerInv(x, m)
    ELSE IF m.data \subseteq txs THEN ToChannel(x, m)
    ELSE PeerInv(ToChannel(x, m), [m EXCEPT !.data = @ \ txs])
RootTx(x, m) == IF IsMyFork(x, m.fork) /\ IsThisNodeData(x, m) THEN SnReceived(x, m) ELSE PeerTx(x, m)
RootBlock(x, m) == PeerBlock(IF IsMyFork(x, m.fork) /\ IsThisNodeData(x, m) THEN SnReceived(x, m) ELSE x, m)
HandlePeerRecvMessage(x, m, txs) ==
    CASE m.type = "sub"       -> RootSub(x, m)
      [] m.type = "unsub"     -> RootUnSub(x, m)
      [] m.type = "getblocks" -> RootGetBlocks(x, m)
      [] m.type = "getdata"   -> RootGetData(x, m)
      [] m.type = "inv"       -> RootInv(x, m, txs)
      [] m.type = "tx"        -> RootTx(x, m)
      [] m.type = "block"     -> RootBlock(x, m)
\* What the channel of a node sends.
SnOwn(x, m) ==
    CASE m.type = "sub"       -> VSubscribe(x, m, TRUE)
      [] m.type = "unsub"     -> VUnsubscribe(x, m, TRUE)
      [] m.type = "getblocks" -> VGetBlocks(x, m, TRUE)
      [] m.type = "getdata"   -> VGetData(x, m, TRUE)
      [] m.type = "inv"       -> VInv(x, m, TRUE)
      [] m.type = "tx"        -> VTx(x, m, TRUE)
      [] m.type = "block"     -> VBlock(x, m, TRUE)
      [] m.type = "reward"    -> VReward(x, m)
      [] m.type = "close"     -> VClose(x, m)

-----------------------------------------------------------------------------
(* Connections that end.                                                   *)
\* One key of a lost session: the last holder takes the subscription back.
SnForget(x, k) ==
    LET m == SnMsg("unsub", k[2], SnMain, {k[1]})
        y == [x EXCEPT !.s.child[k] = IF @ = 0 THEN 0 ELSE @ - 1]
    IN  IF x.s.child[k] # 1 THEN y
        ELSE IF x.n = SnRoot THEN VUnsubscribe(y, m, FALSE) ELSE SendEventToParentNode(y, m)
UnsubscribeChildNodeForks(x, c) == FoldLeft(SnForget, x, x.s.sess[c])
HandleDbpServerBroken(x, c) == [UnsubscribeChildNodeForks(x, c) EXCEPT !.s.sess[c] = <<>>]
DeactiveNodeTree(x) ==
    FoldLeft(LAMBDA y, p : PushEvent(VDeactive(y, SnMsg("deactive", p, SnMain, {})), SnMsg("deactive", p, SnMain, {})),
             x, SetToSeq(x.s.act))
HandleDbpClientBroken(x) ==
    [DeactiveNodeTree(x) EXCEPT !.s.this = [k \in SnKeys |-> 0], !.s.want = {}]
\* A child that connects is told of one active peer, or of the tree itself.
HandleConnect(n) ==
    IF sn[n].act = {} THEN {SnMsg("active", SnInner, SnMain, {})}
    ELSE {SnMsg("active", Min(sn[n].act), SnMain, {})}

-----------------------------------------------------------------------------
\* The tree has just been connected: to peers the root already had, or before it had any.
SnStarted(s, joined) ==
    FoldSet(LAMBDA p, t : ChannelActive([s |-> [t EXCEPT !.act = @ \cup {p}]], p).s, s, joined)
SnStart(sc) ==
    /\ sn = [n \in SnNodes |-> SnStarted(SnNode(sc.mine[n]), sc.joined)]
    /\ snDown = [c \in SnForkNodes |-> IF sc.joined = {} THEN <<SnMsg("active", SnInner, SnMain, {})>> ELSE <<>>]
    /\ snPeer = [p \in SnPeers |-> [on |-> p \in sc.joined, subs |-> {}, got |-> <<>>, seen |-> {}]]
    /\ snLeft = [sends |-> sc.sends, asks |-> sc.asks, sent |-> {}, joins |-> sc.joins,
                 leaves |-> sc.leaves, breaks |-> sc.breaks, changes |-> sc.changes]
    /\ snUp = [c \in SnForkNodes |-> <<>>]
    /\ snLink = [c \in SnForkNodes |-> "up"]
    /\ snLost = [subs |-> FALSE, data |-> FALSE]
SnInit == \E sc \in SnScripts : SnStart(sc)

\* A peer takes the messages for it, in order.
SnHeard(pr, m) ==
    CASE m.type = "sub"     -> [pr EXCEPT !.subs = @ \cup m.data]
      [] m.type = "unsub"   -> [pr EXCEPT !.subs = @ \ m.data]
      [] m.type = "getdata" -> [pr EXCEPT !.got = Append(@, m)]
      [] OTHER              -> [pr EXCEPT !.seen = @ \cup {m}]
SnDeliver(x, up, down) ==
    /\ sn' = [sn EXCEPT ![x.n] = x.s]
    /\ snUp' = [c \in SnForkNodes |-> IF c = x.n /\ snLink[c] = "up" THEN up[c] \o x.up ELSE up[c]]
    /\ snDown' = [c \in SnForkNodes |->
                     IF SnParent[c] = x.n /\ snLink[c] = "up" THEN down[c] \o x.down ELSE down[c]]
    /\ snPeer' = [p \in SnPeers |->
                     IF snPeer[p].on THEN FoldLeft(SnHeard, snPeer[p], SelectSeq(x.peer, LAMBDA m : m.nonce = p))
                     ELSE snPeer[p]]

SnTakeUp(c) ==
    /\ snUp[c] # <<>>
    /\ \E x \in {HandleSendEvent(SnCtx(SnParent[c]), c, Head(snUp[c]))} :
           SnDeliver(x, [snUp EXCEPT ![c] = Tail(@)], snDown)
    /\ UNCHANGED <<snLink, snLeft, snLost>>
SnTakeDown(c) ==
    /\ snDown[c] # <<>>
    /\ \E x \in {HandleVirtualPeerNet(SnCtx(c), Head(snDown[c]))} :
           SnDeliver(x, snUp, [snDown EXCEPT ![c] = Tail(@)])
    /\ UNCHANGED <<snLink, snLeft, snLost>>
SnTakeOwn(n) ==
    /\ sn[n].q # <<>>
    /\ \E x \in {SnOwn([SnCtx(n) EXCEPT !.s.q = Tail(@)], Head(sn[n].q))} : SnDeliver(x, snUp, snDown)
    /\ UNCHANGED <<snLink, snLeft, snLost>>

\* A peer of the root comes or goes.
SnJoin(p) ==
    /\ p \in snLeft.joins /\ ~snPeer[p].on
    /\ snLeft' = [snLeft EXCEPT !.joins = @ \ {p}]
    /\ sn' = [sn EXCEPT ![SnRoot] = PeerActive(ChannelActive(SnCtx(SnRoot), p), SnMsg("active", p, SnMain, {})).s]
    /\ snDown' = [c \in SnForkNodes |->
                     IF SnParent[c] = SnRoot /\ snLink[c] = "up"
                     THEN Append(snDown[c], SnMsg("active", p, SnMain, {})) ELSE snDown[c]]
    /\ snPeer' = [snPeer EXCEPT ![p].on = TRUE]
    /\ UNCHANGED <<snUp, snLink, snLost>>
SnLeave(p) ==
    /\ p \in snLeft.leaves /\ snPeer[p].on
    /\ snLeft' = [snLeft EXCEPT !.leaves = @ \ {p}]
    /\ sn' = [sn EXCEPT ![SnRoot] = PeerDeactive(ChannelDeactive(SnCtx(SnRoot), p), SnMsg("deactive", p, SnMain, {})).s]
    /\ snDown' = [c \in SnForkNodes |->
                     IF SnParent[c] = SnRoot /\ snLink[c] = "up"
                     THEN Append(snDown[c], SnMsg("deactive", p, SnMain, {})) ELSE snDown[c]]
    /\ snPeer' = [snPeer EXCEPT ![p] = [on |-> FALSE, subs |-> {}, got |-> <<>>, seen |-> {}]]
    /\ snLost' = [snLost EXCEPT !.data = TRUE]
    /\ UNCHANGED <<snUp, snLink>>
\* It sends something of its own, or an answer to a request.
SnPeerSends(m) ==
    /\ m \in snLeft.sends /\ snPeer[m.nonce].on
    /\ snLeft' = [snLeft EXCEPT !.sends = @ \ {m}, !.sent = @ \cup {m}]
    /\ \E x \in {HandlePeerRecvMessage(SnCtx(SnRoot), m, {"tx"})} : SnDeliver(x, snUp, snDown)
    /\ UNCHANGED <<snLink, snLost>>
SnAnswer(p, m) ==
    LET ans == SnMsg(IF "tx" \in m.data THEN "tx" ELSE "block", p, m.fork, m.data)
    IN  /\ \E x \in {HandlePeerRecvMessage(SnCtx(SnRoot), ans, {"tx"})} :
               /\ sn' = [sn EXCEPT ![SnRoot] = x.s]
               /\ snDown' = [c \in SnForkNodes |->
                                IF SnParent[c] = SnRoot /\ snLink[c] = "up" THEN snDown[c] \o x.down ELSE snDown[c]]
        /\ snPeer' = [snPeer EXCEPT ![p].got = Tail(@)]
        /\ UNCHANGED <<snUp, snLink, snLeft, snLost>>
SnPeerAnswers(p) == snPeer[p].got # <<>> /\ SnAnswer(p, Head(snPeer[p].got))

\* The channel of n sends something; it has one request under way per peer and fork.
SnAsk(n, m) ==
    /\ <<n, m>> \in snLeft.asks /\ m.nonce \in sn[n].peers
    /\ m.type = "getdata" => \A w \in sn[n].want : w[1] # m.fork \/ w[2] # m.nonce
    /\ snLeft' = [snLeft EXCEPT !.asks = @ \ {<<n, m>>}, !.sent = @ \cup {m}]
    /\ sn' = [sn EXCEPT ![n].q = Append(@, m)]
    /\ UNCHANGED <<snUp, snDown, snLink, snPeer, snLost>>
\* SubscribeFork and UnsubscribeFork of the net channel of n.
SnChange(n, f) ==
    /\ <<n, f>> \in snLeft.changes
    /\ snLeft' = [snLeft EXCEPT !.changes = @ \ {<<n, f>>}]
    /\ sn' = [sn EXCEPT
               ![n].mine = IF f \in @ THEN @ \ {f} ELSE @ \cup {f},
               ![n].q = @ \o FlattenSeq([i \in 1..Cardinality(sn[n].peers) |->
                               LET p == SetToSeq(sn[n].peers)[i]
                               IN  IF f \in sn[n].mine THEN <<SnMsg("unsub", p, SnMain, {f})>>
                                   ELSE <<SnMsg("sub", p, SnMain, {f}), SnMsg("getblocks", p, f, {})>>])]
    /\ UNCHANGED <<snUp, snDown, snLink, snPeer, snLost>>

\* A connection breaks; each end handles that in its own time, and the child connects again.
SnBreak(c) ==
    /\ snLeft.breaks > 0 /\ snLink[c] = "up"
    /\ snLeft' = [snLeft EXCEPT !.breaks = @ - 1]
    /\ snLink' = [snLink EXCEPT ![c] = "broken"]
    /\ snUp' = [snUp EXCEPT ![c] = <<>>]
    /\ snDown' = [snDown EXCEPT ![c] = <<>>]
    /\ snLost' = [data |-> TRUE, subs |-> snLost.subs \/ c \in {SnParent[d] : d \in SnForkNodes}]
    /\ UNCHANGED <<sn, snPeer>>
SnServerBroken(c) ==
    /\ snLink[c] \in {"broken", "noticed"}
    /\ snLink' = [snLink EXCEPT ![c] = IF @ = "broken" THEN "removed" ELSE "down"]
    /\ \E x \in {HandleDbpServerBroken(SnCtx(SnParent[c]), c)} : SnDeliver(x, snUp, snDown)
    /\ UNCHANGED <<snLeft, snLost>>
SnClientBroken(c) ==
    /\ snLink[c] \in {"broken", "removed"}
    /\ snLink' = [snLink EXCEPT ![c] = IF @ = "broken" THEN "noticed" ELSE "down"]
    /\ \E x \in {HandleDbpClientBroken(SnCtx(c))} : SnDeliver(x, snUp, snDown)
    /\ snLost' = [snLost EXCEPT !.subs = @ \/ sn[c].q # <<>>]
    /\ UNCHANGED snLeft
SnConnect(c) ==
    /\ snLink[c] = "down"
    /\ snLink' = [snLink EXCEPT ![c] = "up"]
    /\ \E m \in HandleConnect(SnParent[c]) : snDown' = [snDown EXCEPT ![c] = Append(@, m)]
    /\ UNCHANGED <<sn, snUp, snPeer, snLeft, snLost>>

SnStep ==
    \/ \E c \in SnForkNodes : \/ SnTakeUp(c) \/ SnTakeDown(c)
                              \/ SnBreak(c) \/ SnServerBroken(c) \/ SnClientBroken(c) \/ SnConnect(c)
    \/ \E n \in SnNodes : SnTakeOwn(n)
    \/ \E p \in SnPeers : SnJoin(p) \/ SnLeave(p) \/ SnPeerAnswers(p)
    \/ \E m \in snLeft.sends : SnPeerSends(m)
    \/ \E a \in snLeft.asks : SnAsk(a[1], a[2])
    \/ \E c \in snLeft.changes : SnChange(c[1], c[2])
SnSpec == SnInit /\ [][SnStep]_snVars

-----------------------------------------------------------------------------
SnQuiet ==
    /\ \A c \in SnForkNodes : snUp[c] = <<>> /\ snDown[c] = <<>> /\ snLink[c] = "up"
    /\ \A n \in SnNodes : sn[n].q = <<>>

\* A node counts for each fork and peer exactly the subscriptions its sessions hold; and when
\* every message has been handled, the root is subscribed to a fork at a peer exactly when some
\* fork node below wants that fork and knows the peer, however connections, peers and forks came
\* and went.  The exceptions are those the code has: forks the root tracks itself, and a
\* connection that breaks above a node with children or before the node has handled what its
\* own channel posted.
SnSubscriptionsExact ==
    /\ \A n \in SnNodes, k \in SnKeys :
           sn[n].child[k] = FoldSet(LAMBDA c, t : t + Cardinality({i \in DOMAIN sn[n].sess[c] :
                                                       sn[n].sess[c][i] = k}), 0, SnForkNodes)
    /\ SnQuiet /\ ~snLost.subs =>
         \A p \in SnPeers, f \in SnForks \ sn[SnRoot].mine :
             snPeer[p].on => (f \in snPeer[p].subs <=>
                                 \E n \in SnForkNodes : p \in sn[n].peers /\ f \in sn[n].mine)

\* When every message has been handled and no connection or peer was lost: a request of any node
\* has been answered to that node, what a node sent to a peer has reached the peer or, as an
\* announcement of a fork the root has itself, the root's channel, and an announcement of the peer
\* has reached every node that has the fork.
SnDelivered ==
    SnQuiet /\ ~snLost.data =>
        /\ \A n \in SnNodes, p \in SnPeers :
               snPeer[p].on /\ snPeer[p].got = <<>> => \A w \in sn[n].want : w[2] # p
        /\ \A m \in snLeft.sent :
               /\ m.type \in {"reward", "close"} => m \in snPeer[m.nonce].seen
               /\ m.type = "inv" /\ m.data = {"own"} => m \in snPeer[m.nonce].seen \cup sn[SnRoot].got
               /\ m.type = "inv" /\ m.data = {"block"} =>
                     \A n \in SnNodes : IsMyFork([s |-> sn[n]], m.fork) => m \in sn[n].got


\* The tree of nodes acts for its members: subscriptions are exactly what the fork nodes want, and
\* requests, answers and announcements reach whom they are for.
SnTreeFaithful == SnSubscriptionsExact /\ SnDelivered
=============================================================================
