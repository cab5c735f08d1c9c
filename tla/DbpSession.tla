----------------------------- MODULE DbpSession ------------------------------
(***************************************************************************)
(* The sessions of the DBP protocol: CDbpServer and its sockets (src/dbpserver.cpp),   *)
(* the topics and methods of CDbpService (src/dbpservice.cpp), light wallets as outside *)
(* clients, and CDbpClient (src/dbpclient.cpp), with which a fork node of a super node  *)
(* connects to its parent and connects again when that fails.                       *)
(* A message is one step on the wire: the length prefix, protobuf and the queue in       *)
(* front of ssSend, which keep its order, are left out.                           *)
(***************************************************************************)
EXTENDS Integers, Sequences, FiniteSets, SequencesExt, FiniteSetsExt, TLC

CONSTANTS
    DsTimeout,      \* nSessionTimeout, in ticks
    DsMaxSocks,     \* bound: sockets
    DsScripts,      \* bound: [opens: for each socket a light wallet opens, what it sends; deaf: its light wallets
                    \*  answer no ping; news: blocks and transactions that come in; breaks, ticks: how many; node: a fork node]
    DsBlocks,       \* the blocks: [block -> [fork, prev, height, ext]], ext: an extended block
    DsForkOf,       \* [fork -> its first block]
    DsKnownTxs, DsGoodTxs   \* transactions the node has, and those it accepts

VARIABLES
    dsSocks,        \* sequence of sockets, see DsSocket
    dsSess,         \* mapSessionProfile: [session -> [sock, client, fork, age, timer]]
    dsPair,         \* bimapSessionClient
    dsQ,            \* events posted to dbpservice
    dsTopics,       \* mapTopicIds with mapIdSubedSession: <<topic, id, session>>
    dsForkPoints,   \* mapForkPoint: <<block, fork that starts after it>>
    dsNode,         \* CDbpClient: [pending: connections under way, sess: [session -> [sock, age]]]
    dsLeft,         \* what the script still holds
    dsDead          \* the server has ended on a timer it never set

dsVars == <<dsSocks, dsSess, dsPair, dsQ, dsTopics, dsForkPoints, dsNode, dsLeft, dsDead>>
dsServer == <<dsSess, dsPair, dsQ>>
dsService == <<dsTopics, dsForkPoints>>

NoSession == 0
DsTopicNames == {"block", "tx", "rpc"}
DsMsg(type, arg, id) == [type |-> type, arg |-> arg, id |-> id]
\* own: the server's object exists; cli: the client's does; session: strSessionId; todo: what a light
\* wallet has still to send; asked, got: what it sent and received.
DsSocket(who, todo, fork) == [who |-> who, own |-> TRUE, cli |-> TRUE, cut |-> FALSE, session |-> NoSession, fork |-> fork,
                              c2s |-> <<>>, s2c |-> <<>>, todo |-> todo, asked |-> <<>>, got |-> <<>>]

-----------------------------------------------------------------------------
(* The server.  x is the server while it handles one thing.                 *)
DsCtx == [socks |-> dsSocks, sess |-> dsSess, pair |-> dsPair, q |-> dsQ, dead |-> dsDead]
DsSet(x) ==
    /\ dsSocks' = x.socks
    /\ dsSess' = x.sess
    /\ dsPair' = x.pair
    /\ dsQ' = x.q
    /\ dsDead' = x.dead

\* CDbpServerSocket::SendMessage and HandleWritenResponse.
SendMessage(x, k, m) == IF x.socks[k].cut THEN x ELSE [x EXCEPT !.socks[k].s2c = Append(@, m)]
SendPing(x, k) == SendMessage(x, k, DsMsg("ping", "", 0))
SendPong(x, k) == SendMessage(x, k, DsMsg("pong", "", 0))
DsRespondError(x, k, why) == SendMessage(x, k, DsMsg("error", why, 0))
DsPost(x, type, session, arg, id) == [x EXCEPT !.q = Append(@, [type |-> type, session |-> session, arg |-> arg, id |-> id])]

HaveAssociatedSessionOf(x, k) == \E p \in x.pair : p[2] = k
DsSessionOf(x, k) == (CHOOSE p \in x.pair : p[2] = k)[1]
IsSessionExist(x, s) == s \in DOMAIN x.sess
IsSessionTimeOut(x, k) == HaveAssociatedSessionOf(x, k) /\ x.sess[DsSessionOf(x, k)].age > DsTimeout

\* RemoveClient with RemoveSession: the timer of a session that was never answered is a null pointer.
RemoveSession(x, k) ==
    IF ~HaveAssociatedSessionOf(x, k) THEN x
    ELSE [x EXCEPT !.dead = @ \/ ~x.sess[DsSessionOf(x, k)].timer,
                   !.pair = {p \in @ : p[2] # k},
                   !.sess = [s \in DOMAIN @ \ {DsSessionOf(x, k)} |-> @[s]]]
DsRemoveClient(x, k) == [RemoveSession(x, k) EXCEPT !.socks[k].own = FALSE, !.socks[k].cut = TRUE, !.socks[k].c2s = <<>>]
\* Slip: a client is removed without a word to dbpservice.
HandleClientErrorSilent(x, k) == DsRemoveClient(x, k)
HandleClientError(x, k) == DsRemoveClient(DsPost(x, "broken", x.socks[k].session, "", 0), k)
\* RespondFailed: HandleEvent(CMvEventDbpFailed) with the nonce of the socket.
RespondFailed(x, k, why) == HandleClientError(SendMessage(x, k, DsMsg("failed", why, 0)), k)

CreateSession(x, s, k, client, fork) ==
    [x EXCEPT !.sess = (s :> [sock |-> k, client |-> client, fork |-> fork, age |-> 0, timer |-> FALSE]) @@ @,
              !.pair = @ \cup {<<s, k>>}, !.socks[k].session = s]
\* UpdateSession leaves strSessionId of the new socket as it is: empty.
UpdateSession(x, s, k) ==
    [x EXCEPT !.sess[s].sock = k, !.sess[s].age = 0, !.pair = {p \in @ : p[1] # s /\ p[2] # k} \cup {<<s, k>>}]

\* The id of a new session is one never used: the number of the socket.
HandleClientConnect(x, k, m) ==
    IF m.arg.session = NoSession
    THEN DsPost(CreateSession(x, k, k, m.arg.client, x.socks[k].fork), "connect", k, m.arg.version, 0)
    ELSE IF IsSessionExist(x, m.arg.session)
    THEN DsPost(UpdateSession(x, m.arg.session, k), "reconnect", m.arg.session, m.arg.version, 0)
    ELSE RespondFailed(x, k, "002")
HandleClientSub(x, k, m) == DsPost(x, "sub", x.socks[k].session, m.arg, m.id)
HandleClientUnSub(x, k, m) == DsPost(x, "unsub", x.socks[k].session, "", m.id)
HandleClientMethod(x, k, m) ==
    IF m.arg.method \notin {"getblocks", "gettransaction", "sendtransaction", "sendevent", "rpcroute"} THEN x
    ELSE DsPost(x, "method", x.socks[k].session, [m.arg EXCEPT !.fork = x.sess[DsSessionOf(x, k)].fork], m.id)
HandleClientPing(x, k, m) == SendPong(x, k)
HandleClientPong(x, k, m) == [x EXCEPT !.sess[DsSessionOf(x, k)].age = 0]
DsHandleClientRecv(x, k, m) ==
    CASE m.type = "connect" -> HandleClientConnect(x, k, m)
      [] m.type # "connect" /\ ~HaveAssociatedSessionOf(x, k) -> DsRespondError(x, k, "001")
      [] m.type # "connect" /\ IsSessionTimeOut(x, k) -> RespondFailed(x, k, "002")
      [] m.type = "sub" -> HandleClientSub(x, k, m)
      [] m.type = "unsub" -> HandleClientUnSub(x, k, m)
      [] m.type = "method" -> HandleClientMethod(x, k, m)
      [] m.type = "ping" -> HandleClientPing(x, k, m)
      [] m.type = "pong" -> HandleClientPong(x, k, m)
\* A message no parser knows ends the connection.
HandleReadCompleted(x, k, m) ==
    IF m.type = "bad" THEN HandleClientError(DsRespondError(x, k, "003"), k) ELSE DsHandleClientRecv(x, k, m)

-----------------------------------------------------------------------------
(* What dbpservice hands back to the server.  DispatchEvent waits for it, so it happens *)
(* in the same step.                                                       *)
HandleEventConnected(x, s) ==
    IF ~IsSessionExist(x, s) THEN x
    ELSE [SendMessage(x, x.sess[s].sock, DsMsg("connected", s, 0)) EXCEPT !.sess[s].timer = TRUE]
DsReply(x, s, m) == IF IsSessionExist(x, s) THEN SendMessage(x, x.sess[s].sock, m) ELSE x
HandleEventNoSub(x, s, id) == DsReply(x, s, DsMsg("nosub", "", id))
HandleEventReady(x, s, id) == DsReply(x, s, DsMsg("ready", "", id))
HandleEventMethodResult(x, s, arg, id) == DsReply(x, s, DsMsg("result", arg, id))
\* A light wallet is sent the object only for its own fork, a fork node never a block or transaction.
HandleEventAdded(x, s, topic, fork, obj, id) ==
    IF ~IsSessionExist(x, s) THEN x
    ELSE DsReply(x, s, DsMsg("added", IF x.sess[s].client # "supernode" /\ x.sess[s].fork = fork
                                      THEN <<topic, obj>> ELSE <<topic>>, id))
\* With no session named it goes to every session.
HandleEventAddedAll(x, obj) ==
    FoldSet(LAMBDA s, y : DsReply(y, s, DsMsg("added", <<"event", obj>>, 0)), x, DOMAIN x.sess)
SendPingHandler(x, s) ==
    IF IsSessionTimeOut(x, x.sess[s].sock) THEN HandleClientError(x, x.sess[s].sock) ELSE SendPing(x, x.sess[s].sock)

-----------------------------------------------------------------------------
(* Blocks for a light wallet: along the chain of its fork from a block on, switching to   *)
(* the next fork of the path at each fork point.                              *)
RECURSIVE DsAt(_, _)
DsTop(f) == Max({DsBlocks[b].height : b \in {c \in DOMAIN DsBlocks : DsBlocks[c].fork = f}})
DsAt(f, h) ==
    IF h > DsTop(f) THEN <<>>
    ELSE IF h < DsBlocks[DsForkOf[f]].height
    THEN IF DsBlocks[DsForkOf[f]].prev = "" THEN <<>> ELSE DsAt(DsBlocks[DsBlocks[DsForkOf[f]].prev].fork, h)
    ELSE LET here == {b \in DOMAIN DsBlocks : DsBlocks[b].fork = f /\ DsBlocks[b].height = h}
         IN  SetToSeq({b \in here : ~DsBlocks[b].ext}) \o SetToSeq({b \in here : DsBlocks[b].ext})
RECURSIVE DsAncestors(_)
DsAncestors(f) ==
    IF DsBlocks[DsForkOf[f]].prev = "" THEN {f} ELSE {f} \cup DsAncestors(DsBlocks[DsBlocks[DsForkOf[f]].prev].fork)

TrySwitchFork(points, b, f) == IF \E p \in points : p[1] = b THEN (CHOOSE p \in points : p[1] = b)[2] ELSE f
\* The map is kept from call to call, and an entry is never replaced.
CalcForkPoints(points, f) ==
    points \cup {p \in {<<DsBlocks[DsForkOf[g]].prev, g>> : g \in DsAncestors(f)} : \A q \in points : q[1] # p[1]}
DsCollected(points, w, h) ==
    IF w.on /\ w.n > 0 /\ DsAt(w.fork, h) # <<>>
    THEN [w EXCEPT !.out = @ \o DsAt(w.fork, h), !.n = @ - 1,
                   !.fork = TrySwitchFork(points, DsAt(w.fork, h)[1], DsBlocks[Last(DsAt(w.fork, h))].fork)]
    ELSE [w EXCEPT !.on = FALSE]
GetLwsBlocks(points, f, b, n) ==
    FoldLeft(LAMBDA w, h : DsCollected(points, w, h), [fork |-> DsBlocks[b].fork, n |-> n, out |-> <<>>, on |-> TRUE],
             [i \in 1..(n + 1) |-> DsBlocks[b].height + i - 1]).out

-----------------------------------------------------------------------------
(* CDbpService.  y: [x: the server, topics, points].                          *)
HandleConnectEvent(y, e) ==
    IF e.type = "connect" /\ e.arg # 1 THEN y   \* RespondFailed names the session, the server looks for a nonce: no answer
    ELSE IF e.type = "reconnect" THEN [y EXCEPT !.x = HandleEventConnected(@, e.session)]
    ELSE [y EXCEPT !.x = DsReply(HandleEventConnected(@, e.session), e.session, DsMsg("added", <<"event", "active">>, 0))]
SubTopic(y, e) == [y EXCEPT !.topics = @ \cup {<<e.arg, e.id, e.session>>}, !.x = HandleEventReady(@, e.session, e.id)]
HandleSub(y, e) ==
    IF e.arg \in DsTopicNames THEN SubTopic(y, e) ELSE [y EXCEPT !.x = HandleEventNoSub(@, e.session, e.id)]
UnSubTopic(y, e) == [y EXCEPT !.topics = {t \in @ : t[2] # e.id}]
DsRemoveSession(y, e) == [y EXCEPT !.topics = {t \in @ : t[3] # e.session}]
HandleGetTransaction(y, e) ==
    [y EXCEPT !.x = HandleEventMethodResult(@, e.session, IF e.arg.arg \in DsKnownTxs THEN e.arg.arg ELSE "404", e.id)]
HandleSendTransaction(y, e) ==
    [y EXCEPT !.x = HandleEventMethodResult(@, e.session, IF e.arg.arg \in DsGoodTxs THEN "succeed" ELSE "failed", e.id)]
HandleGetBlocks(y, e) ==
    IF e.arg.fork \notin DOMAIN DsForkOf \/ e.arg.arg \notin DOMAIN DsBlocks
    THEN [y EXCEPT !.x = HandleEventMethodResult(@, e.session, "400", e.id)]
    ELSE LET points == CalcForkPoints(y.points, e.arg.fork)
         IN  [y EXCEPT !.points = points,
                       !.x = HandleEventMethodResult(@, e.session, GetLwsBlocks(points, e.arg.fork, e.arg.arg, e.arg.n), e.id)]
\* sendevent and rpcroute are the business of SuperNode and RpcRoute.
HandleMethod(y, e) ==
    CASE e.arg.method = "getblocks" -> HandleGetBlocks(y, e)
      [] e.arg.method = "gettransaction" -> HandleGetTransaction(y, e)
      [] e.arg.method = "sendtransaction" -> HandleSendTransaction(y, e)
      [] OTHER -> y
DsPushed(y, topic, fork, obj) ==
    [y EXCEPT !.x = FoldSet(LAMBDA t, x : HandleEventAdded(x, t[3], topic, fork, obj, t[2]), @,
                            {t \in y.topics : t[1] = topic})]
PushBlock(y, e) == DsPushed(y, "block", DsBlocks[e.arg].fork, e.arg)
PushTx(y, e) == DsPushed(y, "tx", e.session, e.arg)
DsPushEvent(y, e) == [y EXCEPT !.x = HandleEventAddedAll(@, e.arg)]
DsHandle(y, e) ==
    CASE e.type \in {"connect", "reconnect"} -> HandleConnectEvent(y, e)
      [] e.type = "sub" -> HandleSub(y, e)
      [] e.type = "unsub" -> UnSubTopic(y, e)
      [] e.type = "method" -> HandleMethod(y, e)
      [] e.type = "broken" -> DsRemoveSession(y, e)
      [] e.type = "newblock" -> PushBlock(y, e)
      [] e.type = "newtx" -> PushTx(y, e)
      [] e.type = "event" -> DsPushEvent(y, e)
DsServiceStep ==
    /\ ~dsDead /\ dsQ # <<>>
    /\ \E y \in {DsHandle([x |-> [DsCtx EXCEPT !.q = Tail(@)], topics |-> dsTopics, points |-> dsForkPoints], Head(dsQ))} :
           /\ DsSet(y.x)
           /\ dsTopics' = y.topics
           /\ dsForkPoints' = y.points
    /\ UNCHANGED <<dsNode, dsLeft>>

-----------------------------------------------------------------------------
(* CDbpClient of a fork node.                                              *)
DsToServer(socks, k, m) == IF socks[k].cut THEN socks ELSE [socks EXCEPT ![k].c2s = Append(@, m)]
DsNodeGone(nd, k) == [nd EXCEPT !.sess = [s \in {t \in DOMAIN @ : @[t].sock # k} |-> @[s]]]
HandleClientSocketError(k) ==
    /\ dsNode' = [DsNodeGone(dsNode, k) EXCEPT !.pending = @ + 1]
    /\ dsSocks' = [dsSocks EXCEPT ![k].cli = FALSE, ![k].cut = TRUE, ![k].s2c = <<>>]
\* It starts a second connection after that of HandleClientSocketError.
HandleFailed(k) ==
    /\ dsNode' = [DsNodeGone(dsNode, k) EXCEPT !.pending = @ + 2]
    /\ dsSocks' = [dsSocks EXCEPT ![k].cli = FALSE, ![k].cut = TRUE, ![k].s2c = <<>>]
IsSessionTimeout(k) == \E s \in DOMAIN dsNode.sess : dsNode.sess[s].sock = k /\ dsNode.sess[s].age > DsTimeout
DsHasSession(k) == \E s \in DOMAIN dsNode.sess : dsNode.sess[s].sock = k
HandleConnected(k, m) ==
    /\ dsNode' = [dsNode EXCEPT !.sess = (m.arg :> [sock |-> k, age |-> 0]) @@ @]
    /\ dsSocks' = DsToServer([dsSocks EXCEPT ![k].s2c = Tail(@)], k, DsMsg("sub", "rpc", k))   \* SubscribeDefaultTopics
HandlePing(k) ==
    /\ dsSocks' = DsToServer([dsSocks EXCEPT ![k].s2c = Tail(@)], k, DsMsg("pong", "", 0))
    /\ UNCHANGED dsNode
HandlePong(k) ==
    /\ dsNode' = [dsNode EXCEPT !.sess = [s \in DOMAIN @ |-> IF @[s].sock = k THEN [@[s] EXCEPT !.age = 0] ELSE @[s]]]
    /\ dsSocks' = [dsSocks EXCEPT ![k].s2c = Tail(@)]
DsNodeOther(k) ==
    /\ dsSocks' = [dsSocks EXCEPT ![k].s2c = Tail(@), ![k].got = Append(@, Head(dsSocks[k].s2c))]
    /\ UNCHANGED dsNode
HandleClientSocketRecv(k) ==
    /\ dsSocks[k].who = "node" /\ dsSocks[k].cli /\ dsSocks[k].s2c # <<>>
    /\ LET m == Head(dsSocks[k].s2c)
       IN  CASE m.type = "connected" -> HandleConnected(k, m)
             [] m.type = "failed" -> HandleFailed(k)
             [] m.type \in {"ping", "pong"} /\ DsHasSession(k) /\ IsSessionTimeout(k) -> HandleClientSocketError(k)
             [] m.type = "ping" /\ DsHasSession(k) /\ ~IsSessionTimeout(k) -> HandlePing(k)
             [] m.type = "pong" /\ DsHasSession(k) /\ ~IsSessionTimeout(k) -> HandlePong(k)
             [] OTHER -> DsNodeOther(k)
    /\ UNCHANGED <<dsServer, dsService, dsLeft, dsDead>>
\* CDbpClient::SendPingHandler.
DsNodeTimer(s) ==
    /\ s \in DOMAIN dsNode.sess
    /\ LET k == dsNode.sess[s].sock
       IN  IF IsSessionTimeout(k) THEN HandleClientSocketError(k)
           ELSE /\ \A i \in DOMAIN dsSocks[k].c2s : dsSocks[k].c2s[i].type # "ping"     \* bound: one ping under way
                /\ \A i \in DOMAIN dsSocks[k].s2c : dsSocks[k].s2c[i].type # "pong"
                /\ ~dsSocks[k].cut /\ dsNode.sess[s].age > 0
                /\ dsSocks' = DsToServer(dsSocks, k, DsMsg("ping", "", 0))
                /\ UNCHANGED dsNode
    /\ UNCHANGED <<dsServer, dsService, dsLeft, dsDead>>
\* The end of the connection is noticed once what came before it has been read.
DsNodeCut(k) ==
    /\ dsSocks[k].who = "node" /\ dsSocks[k].cli /\ dsSocks[k].cut /\ dsSocks[k].s2c = <<>>
    /\ HandleClientSocketError(k)
    /\ UNCHANGED <<dsServer, dsService, dsLeft, dsDead>>
\* ClientConnected with ActivateConnect; ClientFailToConnect tries again and leaves the state as it is.
ActivateConnect ==
    /\ ~dsDead /\ dsNode.pending > 0 /\ Len(dsSocks) < DsMaxSocks
    /\ dsNode' = [dsNode EXCEPT !.pending = @ - 1]
    /\ dsSocks' = Append(dsSocks, [DsSocket("node", <<>>, "") EXCEPT
                     !.c2s = <<DsMsg("connect", [session |-> NoSession, version |-> 1, client |-> "supernode"], 0)>>])
    /\ UNCHANGED <<dsServer, dsService, dsLeft, dsDead>>

-----------------------------------------------------------------------------
(* The server's steps: a message read, a connection found broken, a ping timer.      *)
DsServerRead(k) ==
    /\ ~dsDead /\ dsSocks[k].own /\ dsSocks[k].c2s # <<>>
    /\ \E x \in {HandleReadCompleted([DsCtx EXCEPT !.socks[k].c2s = Tail(@)], k, Head(dsSocks[k].c2s))} : DsSet(x)
    /\ UNCHANGED <<dsService, dsNode, dsLeft>>
DsServerCut(k) ==
    /\ ~dsDead /\ dsSocks[k].own /\ dsSocks[k].cut /\ dsSocks[k].c2s = <<>>
    /\ \E x \in {HandleClientError(DsCtx, k)} : DsSet(x)
    /\ UNCHANGED <<dsService, dsNode, dsLeft>>
DsServerTimer(s) ==
    /\ ~dsDead /\ s \in DOMAIN dsSess /\ dsSess[s].timer
    /\ LET k == dsSess[s].sock
       IN  \/ IsSessionTimeOut(DsCtx, k)
           \/ /\ \A i \in DOMAIN dsSocks[k].s2c : dsSocks[k].s2c[i].type # "ping"           \* bound: one ping under way
              /\ \A i \in DOMAIN dsSocks[k].c2s : dsSocks[k].c2s[i].type # "pong"
              /\ ~dsSocks[k].cut /\ dsSess[s].age > 0
    /\ \E x \in {SendPingHandler(DsCtx, s)} : DsSet(x)
    /\ UNCHANGED <<dsService, dsNode, dsLeft>>

(* Light wallets, which are not part of the code.                           *)
DsLightOpen ==
    /\ ~dsDead /\ dsLeft.opens # <<>> /\ Len(dsSocks) < DsMaxSocks
    /\ dsSocks' = Append(dsSocks, DsSocket("light", Head(dsLeft.opens).msgs, Head(dsLeft.opens).fork))
    /\ dsLeft' = [dsLeft EXCEPT !.opens = Tail(@)]
    /\ UNCHANGED <<dsServer, dsService, dsNode, dsDead>>
DsLightSend(k) ==
    /\ dsSocks[k].who = "light" /\ dsSocks[k].cli /\ ~dsSocks[k].cut /\ dsSocks[k].todo # <<>>
    /\ \/ dsSocks[k].asked = <<>>
       \/ \E i \in DOMAIN dsSocks[k].got : dsSocks[k].got[i].type \in {"connected", "error"}
    /\ dsSocks' = [dsSocks EXCEPT ![k].c2s = Append(@, Head(dsSocks[k].todo)), ![k].todo = Tail(@),
                                  ![k].asked = Append(@, Head(dsSocks[k].todo))]
    /\ UNCHANGED <<dsServer, dsService, dsNode, dsLeft, dsDead>>
DsLightRecv(k) ==
    /\ dsSocks[k].who = "light" /\ dsSocks[k].cli /\ dsSocks[k].s2c # <<>>
    /\ dsSocks' = IF Head(dsSocks[k].s2c).type # "ping"
                  THEN [dsSocks EXCEPT ![k].s2c = Tail(@), ![k].got = Append(@, Head(dsSocks[k].s2c))]
                  ELSE IF dsLeft.deaf THEN [dsSocks EXCEPT ![k].s2c = Tail(@)]
                  ELSE DsToServer([dsSocks EXCEPT ![k].s2c = Tail(@)], k, DsMsg("pong", "", 0))
    /\ UNCHANGED <<dsServer, dsService, dsNode, dsLeft, dsDead>>

\* A connection breaks: what was under way is lost.
DsBreak(k) ==
    /\ dsLeft.breaks > 0 /\ ~dsSocks[k].cut
    /\ dsSocks' = [dsSocks EXCEPT ![k].cut = TRUE, ![k].c2s = <<>>, ![k].s2c = <<>>]
    /\ dsLeft' = [dsLeft EXCEPT !.breaks = @ - 1]
    /\ UNCHANGED <<dsServer, dsService, dsNode, dsDead>>
\* The rest of the node posts a block, a transaction or an event for the tree.
DsNews ==
    /\ dsLeft.news # <<>>
    /\ dsQ' = Append(dsQ, Head(dsLeft.news))
    /\ dsLeft' = [dsLeft EXCEPT !.news = Tail(@)]
    /\ UNCHANGED <<dsSocks, dsSess, dsPair, dsService, dsNode, dsDead>>
DsTick ==
    /\ dsLeft.ticks > 0
    /\ dsLeft' = [dsLeft EXCEPT !.ticks = @ - 1]
    /\ dsSess' = [s \in DOMAIN dsSess |-> [dsSess[s] EXCEPT !.age = @ + 1]]
    /\ dsNode' = [dsNode EXCEPT !.sess = [s \in DOMAIN @ |-> [@[s] EXCEPT !.age = @ + 1]]]
    /\ UNCHANGED <<dsSocks, dsPair, dsQ, dsService, dsDead>>

DsStart(sc) ==
    /\ dsSocks = <<>>
    /\ dsSess = <<>>
    /\ dsPair = {}
    /\ dsQ = <<>>
    /\ dsTopics = {}
    /\ dsForkPoints = {}
    /\ dsDead = FALSE
    /\ dsNode = [pending |-> IF sc.node THEN 1 ELSE 0, sess |-> <<>>]
    /\ dsLeft = sc
DsInit == \E sc \in DsScripts : DsStart(sc)
DsSockStep(k) ==
    \/ DsServerRead(k) \/ DsServerCut(k)
    \/ DsLightSend(k) \/ DsLightRecv(k)
    \/ HandleClientSocketRecv(k) \/ DsNodeCut(k)
    \/ DsBreak(k)
DsStep ==
    \/ \E k \in DOMAIN dsSocks : DsSockStep(k)
    \/ \E s \in DOMAIN dsSess : DsServerTimer(s)
    \/ \E s \in DOMAIN dsNode.sess : DsNodeTimer(s)
    \/ DsServiceStep \/ ActivateConnect \/ DsLightOpen \/ DsNews \/ DsTick
DsSpec == DsInit /\ [][DsStep]_dsVars

-----------------------------------------------------------------------------
DsQuiet ==
    /\ dsQ = <<>> /\ ~dsDead
    /\ \A k \in DOMAIN dsSocks : dsSocks[k].c2s = <<>> /\ dsSocks[k].s2c = <<>> /\ (dsSocks[k].cut => ~dsSocks[k].own)
DsReconnected == \E k \in DOMAIN dsSocks : \E i \in DOMAIN dsSocks[k].asked :
                     dsSocks[k].asked[i].type = "connect" /\ dsSocks[k].asked[i].arg.session # NoSession
\* The chain a light wallet should be given: the blocks of n heights from b on that lead to the last block of f.
RECURSIVE DsUpTo(_)
DsUpTo(b) == IF DsBlocks[b].prev = "" THEN {b} ELSE {b} \cup DsUpTo(DsBlocks[b].prev)
DsWanted(f, b, n) ==
    LET tip == CHOOSE t \in DOMAIN DsBlocks : DsBlocks[t].fork = f /\ DsBlocks[t].height = DsTop(f) /\ ~DsBlocks[t].ext
    IN  {c \in DOMAIN DsBlocks : \E a \in DsUpTo(tip) :
            /\ DsBlocks[a].height \in DsBlocks[b].height..(DsBlocks[b].height + n - 1)
            /\ DsBlocks[c].height = DsBlocks[a].height /\ DsBlocks[c].fork = DsBlocks[a].fork}

\* The tables of the server name only sockets that exist, and agree.  Once everything posted has
\* been handled, the topics of dbpservice belong to sessions that exist, whenever connections
\* broke, timed out or were refused, unless a light wallet carried a session to a new socket,
\* where its subscriptions are filed under no session; and each request on a connection that
\* stands has had exactly one answer, which for blocks is the chain of the wallet's fork when no
\* other fork was asked for before.  A fork node is then connected with its topic subscribed, or
\* about to connect again, whichever end first found a connection broken or timed out.
DsServed ==
    /\ \A s \in DOMAIN dsSess : dsSocks[dsSess[s].sock].own /\ <<s, dsSess[s].sock>> \in dsPair
    /\ DsQuiet => /\ \/ ~dsLeft.node \/ dsNode.pending > 0
                     \/ \E k \in DOMAIN dsSocks : dsSocks[k].who = "node" /\ dsSocks[k].cli /\ dsSocks[k].cut
                     \/ \E s \in DOMAIN dsNode.sess : <<"rpc", dsNode.sess[s].sock, s>> \in dsTopics
                  /\ ~DsReconnected => \A t \in dsTopics : t[3] \in DOMAIN dsSess
                  /\ \A k \in DOMAIN dsSocks :
                        dsSocks[k].own /\ ~DsReconnected =>
                           \A i \in DOMAIN dsSocks[k].asked :
                              LET a == dsSocks[k].asked[i]
                                  ans == SelectSeq(dsSocks[k].got,
                                                   LAMBDA m : m.id = a.id /\ m.type \in {"ready", "nosub", "result"})
                              IN  /\ a.type \in {"sub", "method"} /\ dsSocks[k].asked[1].type = "connect" => Len(ans) = 1
                                  /\ a.type = "method" /\ a.arg.method = "getblocks" /\ Len(ans) = 1
                                     /\ Cardinality(dsForkPoints) = Cardinality(DsAncestors(dsSocks[k].fork)) =>
                                        ToSet(ans[1].arg) = DsWanted(dsSocks[k].fork, a.arg.arg, a.arg.n)
=============================================================================
