------------------------------ MODULE PeerNet ------------------------------
(***************************************************************************)
(* The node's peers: the socket clients of the io thread with their        *)
(* reference counts and their two containers (walleve/netio), the peers    *)
(* with their handshake, double-buffered output and request timers         *)
(* (peernet/peer.cpp, network/mvpeer.cpp, network/mvpeernet.cpp) and the   *)
(* manager that picks the endpoints to connect to, scores and bans         *)
(* (peernet/epmngr.cpp, peernet/nodemngr.cpp).                             *)
(*                                                                         *)
(* All of it runs on one io thread, handler by handler, so the state is    *)
(* one record, a handler maps it to the next one, and an action is one     *)
(* completion, one heartbeat or one event of another module.               *)
(***************************************************************************)
EXTENDS Integers, Sequences, FiniteSets, SequencesExt, FiniteSetsExt, Functions, TLC

CONSTANTS PnIn,          \* the in-bound clients, nMaxInBounds + 2 of them
          PnOut,         \* the out-bound clients, nMaxOutBounds of them
          PnScripts,     \* what the remote nodes and the other modules do
          PnMaxRetries,  \* MAX_RETRIES
          PnMaxIdle,     \* MAX_IDLENODES
          PnConnLimit,   \* CONNECTION_LIMIT
          PnAttempts,    \* ATTEMPT_LIMIT
          PnMaxAddress   \* MAX_ADDRESS_COUNT

VARIABLES pn, pnLeft
pnVars == <<pn, pnLeft>>

PnClients == PnIn \cup PnOut
PnNone == ""
Without(f, x) == Restrict(f, DOMAIN f \ {x})
With(f, x, y) == (x :> y) @@ f

-----------------------------------------------------------------------------
(* netio/ioclient.cpp and netio/iocontainer.cpp: a client is counted once  *)
(* for its connection and once for every operation under way.              *)

Side(c) == IF c \in PnIn THEN "in" ELSE "out"
IsIdle(s, c) == \E i \in DOMAIN s.idle[Side(c)] : s.idle[Side(c)][i] = c

ClientClose(s, c) ==
    IF IsIdle(s, c) THEN s ELSE [s EXCEPT !.idle[Side(c)] = Append(@, c)]

PnRelease(s, c) ==
    LET left == s.cli[c].ref - 1
        dropped == [s EXCEPT !.cli[c].ref = left]
    IN  IF left = 0 THEN ClientClose(dropped, c) ELSE dropped

(* The operations under way complete with operation_aborted.               *)
Aborted(cl) ==
    [ref |-> cl.ref, open |-> FALSE, ep |-> PnNone, inq |-> <<>>, eof |-> FALSE,
     ops |-> [i \in DOMAIN cl.ops |-> [cl.ops[i] EXCEPT !.ab = TRUE]]]
Shutdown(s, c) == [s EXCEPT !.cli[c] = Aborted(@)]

PnClose(s, c) == IF s.cli[c].open THEN PnRelease(Shutdown(s, c), c) ELSE s

StartOp(s, c, op) == [s EXCEPT !.cli[c].ref = @ + 1, !.cli[c].ops = Append(@, op)]
EndOp(s, c, i) == [s EXCEPT !.cli[c].ops = RemoveAt(@, i)]

Op(k, n, fn, ep) == [k |-> k, n |-> n, fn |-> fn, ep |-> ep, ab |-> FALSE]

ClientAlloc(s, side) == [s EXCEPT !.idle[side] = Tail(@)]
AcceptNext(s) == StartOp(ClientAlloc(s, "in"), Head(s.idle["in"]), Op("accept", 0, "", PnNone))

(* Slip: a client whose connection was given up by its timer keeps its     *)
(* count and never becomes idle again.                                     *)
ConnCompletedKept(s, c) == s

(* The tail of HandleConnCompleted, after the callback.                    *)
ConnCompleted(s, c) == IF ~s.cli[c].open /\ s.cli[c].ref # 0 THEN PnRelease(s, c) ELSE s

-----------------------------------------------------------------------------
(* netio/ioproc.cpp: the timers. A timer of nonce 0 is that of a connect.   *)

SetTimer(s, n) == [s EXCEPT !.timers = With(@, s.nextTimer, n), !.nextTimer = @ + 1]
CancelTimer(s, t) == [s EXCEPT !.timers = Without(@, t)]
CancelClientTimers(s, n) ==
    [s EXCEPT !.timers = Restrict(@, {t \in DOMAIN @ : @[t] # n})]

-----------------------------------------------------------------------------
(* peernet/nodemngr.cpp: the known nodes, and those that wait for their     *)
(* turn, in the order of the time they may be tried at.                     *)

RetryBase == 1
MaxIdleTime == 3
RemoveCount == 2

PutIdle(idles, t, ep) ==
    SelectSeq(idles, LAMBDA e : e.t <= t) \o <<[t |-> t, ep |-> ep]>>
      \o SelectSeq(idles, LAMBDA e : e.t > t)

RemoveInactiveNodes(s) ==
    LET late == Cardinality({i \in DOMAIN s.waits : s.waits[i].t > s.now + MaxIdleTime})
        gone == Min({RemoveCount, Max({1, late})})
        kept == Len(s.waits) - gone
        eps == {s.waits[i].ep : i \in (kept + 1)..Len(s.waits)}
    IN  [s EXCEPT !.node = Restrict(@, DOMAIN @ \ eps), !.waits = SubSeq(@, 1, kept)]

WaitUntil(s, t, ep) ==
    LET put == [s EXCEPT !.waits = PutIdle(@, t, ep)]
    IN  IF Len(put.waits) > PnMaxIdle THEN RemoveInactiveNodes(put) ELSE put

AddNewOutBound(s, ep, seed) ==
    IF ep \in DOMAIN s.node THEN s
    ELSE WaitUntil([s EXCEPT !.node = With(@, ep, [retries |-> 0, seed |-> seed])], s.now, ep)

RemoveOutBound(s, ep) ==
    LET at == {i \in DOMAIN s.waits : s.waits[i].ep = ep}
    IN  IF ep \notin DOMAIN s.node THEN s
        ELSE [s EXCEPT !.node = Without(@, ep),
                       !.waits = IF at = {} THEN @ ELSE RemoveAt(@, Min(at))]

Dismiss(s, ep, force) ==
    IF ep \notin DOMAIN s.node THEN s
    ELSE LET tries == IF force THEN 0 ELSE s.node[ep].retries + 1
             noted == [s EXCEPT !.node[ep].retries = tries]
         IN  IF tries <= PnMaxRetries
             THEN WaitUntil(noted, s.now + RetryBase * 2^tries, ep)
             ELSE [s EXCEPT !.node = Without(@, ep)]

Ban(s, id, until) ==
    LET hit(e) == e.t <= until /\ e.ep \in DOMAIN s.nodeIds /\ s.nodeIds[e.ep] = id
        banned == SelectSeq(s.waits, hit)
    IN  [s EXCEPT !.waits =
            FoldLeft(LAMBDA w, e : PutIdle(w, until, e.ep),
                     SelectSeq(@, LAMBDA e : ~hit(e)), banned)]

-----------------------------------------------------------------------------
(* peernet/epmngr.cpp: the status of a node id. An endpoint whose id is not *)
(* known yet is counted under the id 0.                                     *)

CounterNum == 2
BanBase == 1
MinScore == -500
MaxScore == 100
AttemptPenalty == 50
MaxInactive == 2

NewStatus == [score |-> 0, seen |-> 0, ban |-> 0, conns |-> 0,
              cnt |-> [i \in 0..(CounterNum - 1) |-> 0], start |-> 0, since |-> -2 * CounterNum]

(* The attempts of the last CounterNum intervals, counted in a ring.        *)
Attempt(st, ts) ==
    LET off == ts - st.since
        moves == Max({0, off - CounterNum + 1})
        old == {(st.start + i) % CounterNum : i \in 0..(moves - 1)}
        start == (st.start + moves) % CounterNum
        slot == (start + off - moves) % CounterNum
    IN  IF off >= 2 * CounterNum
        THEN [st EXCEPT !.cnt = [i \in DOMAIN @ |-> IF i = 0 THEN 1 ELSE 0],
                        !.start = 0, !.since = ts]
        ELSE [st EXCEPT !.cnt = [i \in DOMAIN @ |-> (IF i \in old THEN 0 ELSE @[i])
                                                     + (IF i = slot THEN 1 ELSE 0)],
                        !.start = start, !.since = @ + moves]

nAttempts(st) == st.cnt[0] + st.cnt[1]

Penalize(st, points, ts) ==
    LET score == Max({MinScore, st.score - points})
        time == BanBase * 2^((11 * (0 - score)) \div (0 - MinScore))
    IN  IF score < 0 THEN [st EXCEPT !.score = score, !.ban = Max({ts, @}) + time]
        ELSE [st EXCEPT !.score = score]

Reward(st, points, ts) == [st EXCEPT !.score = Min({MaxScore, @ + points}), !.seen = ts]

InBoundAttempt(st, ts) ==
    LET tried == Attempt([st EXCEPT !.seen = ts], ts)
    IN  IF nAttempts(tried) <= PnAttempts THEN [st |-> tried, ok |-> ts > tried.ban]
        ELSE [st |-> Penalize(tried, AttemptPenalty, ts), ok |-> FALSE]

AddConnection(st, inbound) ==
    IF st.conns >= (IF inbound THEN PnConnLimit ELSE 1) THEN [st |-> st, ok |-> FALSE]
    ELSE [st |-> [st EXCEPT !.conns = @ + 1], ok |-> TRUE]

(* mapAddressStatus[id]: the entry is made when it is missing.              *)
StatusOf(s, id) == IF id \in DOMAIN s.stat THEN s.stat[id] ELSE NewStatus
IdOf(s, ep) == IF ep \in DOMAIN s.ids THEN s.ids[ep] ELSE 0
PutStatus(s, ep, st) ==
    [s EXCEPT !.stat = With(@, IdOf(s, ep), st), !.ids = With(@, ep, IdOf(s, ep))]

CleanInactiveAddress(s) ==
    LET active == {id \in DOMAIN s.stat : s.stat[id].seen > s.now - MaxInactive}
        over == Max({0, Cardinality(active) - PnMaxAddress})
        first == {id \in active : Cardinality({j \in active : j < id}) < over}
    IN  IF Cardinality(DOMAIN s.stat) <= PnMaxAddress THEN s
        ELSE [s EXCEPT !.stat = Restrict(@, active \ first)]

Lost(reason) == CASE reason = "host" -> 0 [] reason = "connect" -> 1 [] reason = "network" -> 2
                  [] reason = "response" -> 2 [] reason = "protocol" -> 10 [] reason = "ddos" -> 25

BanIfBanned(s, ep) ==
    IF s.now < StatusOf(s, IdOf(s, ep)).ban
    THEN Ban(s, IdOf(s, ep), StatusOf(s, IdOf(s, ep)).ban) ELSE s

RemoveConnection(st) == [st EXCEPT !.conns = @ - 1]

CloseEndpoint(s, ep, reason) ==
    CleanInactiveAddress(BanIfBanned(
        Dismiss(PutStatus(s, ep,
                    RemoveConnection(Penalize(StatusOf(s, IdOf(s, ep)), Lost(reason), s.now))),
                ep, reason = "network"), ep))

RewardEndpoint(s, ep, points) ==
    CleanInactiveAddress(PutStatus(s, ep, Reward(StatusOf(s, IdOf(s, ep)), points, s.now)))

(* An in-bound connection of a known id: its attempt and its connection.    *)
CountInBound(s, ep) ==
    LET tried == InBoundAttempt(StatusOf(s, IdOf(s, ep)), s.now)
        added == AddConnection(tried.st, TRUE)
    IN  IF tried.ok THEN [s |-> PutStatus(s, ep, added.st), ok |-> added.ok]
        ELSE [s |-> PutStatus(s, ep, tried.st), ok |-> FALSE]

AcceptInBound(s, ep) ==
    IF ep \in DOMAIN s.ids THEN CountInBound(s, ep) ELSE [s |-> s, ok |-> TRUE]

CountOutBound(s, ep) ==
    LET added == AddConnection(StatusOf(s, IdOf(s, ep)), FALSE)
    IN  IF added.ok THEN PutStatus(s, ep, added.st)
        ELSE Dismiss(PutStatus(s, ep, added.st), ep, FALSE)

AddNewEndPointNodeId(s, ep, id, inbound) ==
    LET known == [s EXCEPT !.ids = With(@, ep, id), !.nodeIds = With(@, ep, id)]
    IN  IF inbound THEN CountInBound(known, ep) ELSE [s |-> CountOutBound(known, ep), ok |-> TRUE]

RECURSIVE FetchOutBound(_)
FetchOutBound(s) ==
    IF s.waits = <<>> \/ Head(s.waits).t > s.now THEN [s |-> s, ep |-> PnNone]
    ELSE LET ep == Head(s.waits).ep
             took == [s EXCEPT !.waits = Tail(@)]
         IN  IF ep \notin DOMAIN s.ids \/ AddConnection(StatusOf(s, s.ids[ep]), FALSE).ok
             THEN [s |-> IF ep \in DOMAIN s.ids THEN CountOutBound(took, ep) ELSE took, ep |-> ep]
             ELSE FetchOutBound(CountOutBound(took, ep))

-----------------------------------------------------------------------------
(* peernet/peer.cpp: the output of a peer has two buffers, the one that is  *)
(* written and the one messages are put into.                               *)

NewPeer(c, inbound, t) ==
    [c |-> c, inb |-> inbound, ver |-> 0, hs |-> t, from |-> 0, id |-> 0, good |-> TRUE,
     iS |-> 0, iW |-> 0, ss |-> [i \in {0, 1} |-> <<>>], sent |-> 0, done |-> 0,
     req |-> <<>>, ask |-> <<>>]

PeerRead(s, n, fn) == StartOp(s, s.peers[n].c, Op("read", n, fn, PnNone))

PeerWrite(s, n) ==
    IF s.peers[n].iW # s.peers[n].iS THEN s
    ELSE StartOp([s EXCEPT !.peers[n].iS = 1 - s.peers[n].iW], s.peers[n].c,
                 Op("write", n, "", PnNone))

(* The messages of a peer are numbered.                                      *)
SendMessage(s, n) ==
    LET p == s.peers[n]
    IN  PeerWrite([s EXCEPT !.peers[n].sent = p.sent + 1,
                            !.peers[n].ss[p.iS] = Append(@, p.sent + 1)], n)

-----------------------------------------------------------------------------
(* network/mvpeer.cpp, peernet/peernet.cpp: a peer comes, and goes.          *)

Activate(s, n) ==
    LET reading == PeerRead(s, n, "hsHeader")
    IN  IF s.peers[n].inb THEN reading ELSE SendMessage(reading, n)

AddNewPeer(s, c, inbound) ==
    LET timed == SetTimer(s, s.next)
    IN  Activate([timed EXCEPT !.next = @ + 1,
                               !.peers = With(@, s.next, NewPeer(c, inbound, s.nextTimer))], s.next)

IsHandshaked(p) == p.hs = 0
Remote(s, n) == s.cli[s.peers[n].c].ep

(* DestroyPeer: the channels are told of a peer that was handshaked, and     *)
(* the destructor of the peer closes its client.                             *)
DestroyPeer(s, n) ==
    LET p == s.peers[n]
        told == [s EXCEPT !.active = @ \ {n}, !.peers = Without(@, n)]
    IN  PnClose(IF IsHandshaked(p) THEN told ELSE [told EXCEPT !.active = s.active], p.c)

PnRemovePeer(s, n, reason) ==
    DestroyPeer(CancelClientTimers(CloseEndpoint(s, Remote(s, n), reason), n), n)

HandlePeerClose(s, n) == PnRemovePeer(s, n, "host")
HandlePeerError(s, n) == PnRemovePeer(s, n, "network")
HandlePeerViolate(s, n) ==
    PnRemovePeer([s EXCEPT !.noted = @ \cup {Remote(s, n)}], n, "protocol")

ClientAccepted(s, c) ==
    LET accepted == AcceptInBound(s, s.cli[c].ep)
    IN  IF accepted.ok THEN [s |-> AddNewPeer(accepted.s, c, TRUE), ok |-> TRUE]
        ELSE [s |-> accepted.s, ok |-> FALSE]

(* The line that logs a refusal asks ClientAccepted a second time.           *)
HandleAccept(s, c) ==
    LET first == ClientAccepted(s, c)
        full == Len(s.idle["in"]) <= 1
    IN  AcceptNext(IF full THEN PnClose(ClientAccepted(s, c).s, c)
                   ELSE IF first.ok THEN first.s
                   ELSE PnClose(ClientAccepted(first.s, c).s, c))

HandleConnect(s, c, op, res) ==
    LET over == [CancelTimer(s, op.n) EXCEPT !.pend = Without(@, op.n)]
    IN  IF res = "ok" THEN AddNewPeer(over, c, FALSE)
        ELSE CloseEndpoint(IF res = "aborted" THEN s ELSE PnClose(over, c), op.ep, "connect")

ConnectTo(s, ep) ==
    LET c == Head(s.idle["out"])
        timed == SetTimer(ClientAlloc(s, "out"), 0)
    IN  StartOp([timed EXCEPT !.pend = With(@, s.nextTimer, c), !.cli[c].open = TRUE, !.cli[c].ep = ep],
                c, Op("connect", s.nextTimer, "", ep))

-----------------------------------------------------------------------------
(* The requests of data to a peer, each with its timer.                      *)

Request(s, n, inv) ==
    LET req == s.peers[n].req
        timed == SetTimer(s, n)
        noted == [timed EXCEPT !.peers[n].req = With(@, inv, s.nextTimer)]
    IN  IF inv \in DOMAIN req THEN CancelTimer(noted, req[inv]) ELSE noted

Responded(s, n, inv) ==
    IF inv \notin DOMAIN s.peers[n].req THEN s
    ELSE [CancelTimer(s, s.peers[n].req[inv]) EXCEPT !.peers[n].req = Without(@, inv)]

(* The channel is asked for the first of what the peer asked for.            *)
ProcessAskFor(s, n) ==
    IF s.peers[n].ask = <<>> THEN s
    ELSE [s EXCEPT !.peers[n].ask = Tail(@), !.asked = @ + 1]

-----------------------------------------------------------------------------
(* The handshake. A message is a record: what it is, and what it carries.    *)

HandlePeerHandshaked(s, n) ==
    LET p == s.peers[n]
        ep == Remote(s, n)
        quiet == CancelTimer(s, p.hs)
        seeded == [quiet EXCEPT !.seeds = IF ~p.inb /\ ep \in DOMAIN s.node /\ s.node[ep].seed
                                          THEN @ \cup {ep} ELSE @]
        known == AddNewEndPointNodeId(seeded, ep, p.id, p.inb)
    IN  IF ~p.good THEN [s |-> quiet, st |-> "failed"]
        ELSE IF ~p.inb /\ p.from \in DOMAIN s.peers
             THEN [s |-> RemoveOutBound(quiet, ep), st |-> "failed"]
        ELSE IF ~known.ok THEN [s |-> known.s, st |-> "ban"]
        ELSE [s |-> SendMessage([known.s EXCEPT !.active = @ \cup {n}], n), st |-> "success"]

HandshakeCompleted(s, n) ==
    LET shaken == HandlePeerHandshaked(s, n)
    IN  IF shaken.st = "success"
        THEN [shaken EXCEPT !.s = PeerRead([@ EXCEPT !.peers[n].hs = 0], n, "header")]
        ELSE shaken

HandshakeReadCompleted(s, n, m) ==
    LET p == s.peers[n]
        hello == [s EXCEPT !.peers[n].ver = 1, !.peers[n].from = m.from, !.peers[n].id = m.id,
                           !.peers[n].good = m.good]
    IN  CASE m.m = "hello" /\ p.ver = 0 /\ ~p.inb -> HandshakeCompleted(SendMessage(hello, n), n)
          [] m.m = "hello" /\ p.ver = 0 /\ p.inb ->
                [s |-> PeerRead(SendMessage(hello, n), n, "hsHeader"), st |-> "success"]
          [] m.m = "ack" /\ p.inb /\ p.ver # 0 -> HandshakeCompleted(s, n)
          [] OTHER -> [s |-> s, st |-> "failed"]

-----------------------------------------------------------------------------
(* network/mvpeernet.cpp: the messages of a peer that is handshaked.         *)

AddAddresses(s, eps) ==
    FoldLeft(LAMBDA t, ep : IF ep \in t.seeds \cup t.noted THEN t ELSE AddNewOutBound(t, ep, FALSE),
             s, eps)

ForgetSeed(s, n) == IF Remote(s, n) \in s.seeds THEN RemoveOutBound(s, Remote(s, n)) ELSE s

RecvAddress(s, n, m) == AddAddresses(ForgetSeed(AddAddresses(s, m.eps), n), m.gateway)

RecvGetData(s, n, m) == ProcessAskFor([s EXCEPT !.peers[n].ask = @ \o m.invs], n)

(* What is not kept track of here is only passed on to a channel.            *)
HandlePeerRecvMessage(s, n, m) ==
    CASE m.m \in {"getaddress", "ping"} -> [s |-> SendMessage(s, n), st |-> "success"]
      [] m.m = "address" -> [s |-> RecvAddress(s, n, m), st |-> "success"]
      [] m.m = "getdata" -> [s |-> RecvGetData(s, n, m), st |-> "success"]
      [] m.m \in {"tx", "block", "distribute", "publish"} ->
            [s |-> Responded(s, n, m.inv), st |-> "success"]
      [] m.m \in {"pong", "subscribe", "inv", "getblocks", "bulletin", "getdelegated"} ->
            [s |-> s, st |-> "success"]
      [] OTHER -> [s |-> s, st |-> "failed"]

HandleReadCompleted(s, n, m) ==
    LET handled == HandlePeerRecvMessage(s, n, m)
    IN  IF handled.st = "success" THEN [handled EXCEPT !.s = PeerRead(@, n, "header")] ELSE handled

(* A header is read, then the payload when there is one.                     *)
ReadHeader(s, n, m, fn, completed) ==
    IF m.m = "badheader" THEN [s |-> s, st |-> "failed"]
    ELSE IF m.m \in {"ack", "getaddress"} THEN completed
    ELSE [s |-> PeerRead(s, n, fn), st |-> "success"]

HasPayload(m) == m.m \notin {"ack", "getaddress", "badheader"}

Completed(s, n, fn, m) ==
    CASE fn = "hsHeader" -> ReadHeader(s, n, m, "hsPayload", HandshakeReadCompleted(s, n, m))
      [] fn = "hsPayload" -> HandshakeReadCompleted(s, n, m)
      [] fn = "header" -> ReadHeader(s, n, m, "payload", HandleReadCompleted(s, n, m))
      [] fn = "payload" -> HandleReadCompleted(s, n, m)

HandleRead(res, n) ==
    CASE res.st = "failed" -> HandlePeerViolate(res.s, n)
      [] res.st = "ban" -> HandlePeerClose(res.s, n)
      [] OTHER -> res.s

HandleWriten(s, n) ==
    LET p == s.peers[n]
        next == [s EXCEPT !.peers[n].iW = 1 - p.iW, !.peers[n].ss[p.iW] = <<>>,
                          !.peers[n].done = p.done + Len(p.ss[p.iW])]
    IN  ProcessAskFor(IF p.ss[1 - p.iW] # <<>> THEN PeerWrite(next, n) ELSE next, n)

-----------------------------------------------------------------------------
(* The steps of the io thread.                                               *)

(* A remote node connects: the next of the script.                           *)
PnArrive(c) ==
    \E i \in DOMAIN pn.cli[c].ops :
      /\ pn.cli[c].ops[i].k = "accept" /\ pnLeft.comes # <<>>
      /\ pnLeft' = [pnLeft EXCEPT !.comes = Tail(@)]
      /\ \E conn \in {Head(pnLeft.comes)} :
           pn' = ConnCompleted(HandleAccept(
                    [EndOp(pn, c, i) EXCEPT !.cli[c].open = TRUE, !.cli[c].ep = conn.ep,
                                            !.cli[c].inq = conn.msgs, !.cli[c].eof = conn.eof], c), c)

(* A connect ends: as the script says of the endpoint, or aborted.           *)
PnConnected(c) ==
    \E i \in DOMAIN pn.cli[c].ops :
      \E op \in {pn.cli[c].ops[i]} :
      /\ op.k = "connect"
      /\ \/ /\ op.ab
            /\ pn' = ConnCompleted(HandleConnect(EndOp(pn, c, i), c, op, "aborted"), c)
         \/ /\ ~op.ab /\ pnLeft.at[op.ep].answer = "refuse"
            /\ pn' = ConnCompleted(HandleConnect(EndOp(pn, c, i), c, op, "refused"), c)
         \/ /\ ~op.ab /\ pnLeft.at[op.ep].answer = "ok"
            /\ pn' = ConnCompleted(HandleConnect(
                        [EndOp(pn, c, i) EXCEPT !.cli[c].inq = pnLeft.at[op.ep].msgs,
                                                !.cli[c].eof = pnLeft.at[op.ep].eof], c, op, "ok"), c)
      /\ UNCHANGED pnLeft

(* A read or a write ends. The callback runs only when the socket is open;   *)
(* the count of the operation is given back after it.                        *)
PnReadDone(c) ==
    \E i \in DOMAIN pn.cli[c].ops :
      \E op \in {pn.cli[c].ops[i]}, ended \in {EndOp(pn, c, i)} :
      /\ op.k = "read"
      /\ \/ op.ab /\ pn' = PnRelease(ended, c)
         \/ /\ ~op.ab /\ pn.cli[c].inq # <<>>
            /\ \E m \in {Head(pn.cli[c].inq)} :
                 pn' = PnRelease(HandleRead(
                          Completed(IF HasPayload(m) /\ op.fn \in {"hsHeader", "header"} THEN ended
                                    ELSE [ended EXCEPT !.cli[c].inq = Tail(@)], op.n, op.fn, m),
                          op.n), c)
         \/ /\ ~op.ab /\ pn.cli[c].inq = <<>> /\ pn.cli[c].eof
            /\ pn' = PnRelease(HandlePeerError(ended, op.n), c)
      /\ UNCHANGED pnLeft

PnWriteDone(c) ==
    \E i \in DOMAIN pn.cli[c].ops :
      \E op \in {pn.cli[c].ops[i]}, ended \in {EndOp(pn, c, i)} :
      /\ op.k = "write"
      /\ \/ op.ab /\ pn' = PnRelease(ended, c)
         \/ ~op.ab /\ pn' = PnRelease(HandleWriten(ended, op.n), c)
         \/ ~op.ab /\ pn.cli[c].eof /\ pn' = PnRelease(HandlePeerError(ended, op.n), c)
      /\ UNCHANGED pnLeft

(* The timer t has run out: of a connect, or of a peer.                      *)
Expired(s, t) ==
    LET n == s.timers[t]
        over == CancelTimer(s, t)
    IN  IF n = 0 THEN (IF t \notin DOMAIN s.pend THEN over
                       ELSE [Shutdown(over, s.pend[t]) EXCEPT !.pend = Without(@, t)])
        ELSE IF n \in DOMAIN s.peers THEN PnRemovePeer(over, n, "response") ELSE over

(* HeartBeat: when an out-bound client is idle the next node is tried.       *)
TryOutBound(s) ==
    IF s.idle["out"] = <<>> THEN s
    ELSE LET got == FetchOutBound(s)
         IN  IF got.ep = PnNone THEN got.s ELSE ConnectTo(got.s, got.ep)

PnHeartBeat ==
    /\ pn' = TryOutBound(pn) /\ pn' # pn
    /\ UNCHANGED pnLeft

PnTimeout ==
    /\ pnLeft.outs > 0
    /\ pnLeft' = [pnLeft EXCEPT !.outs = @ - 1]
    /\ \E t \in DOMAIN pn.timers : pn' = TryOutBound(Expired(pn, t))

PnTick ==
    /\ pnLeft.ticks > 0
    /\ pnLeft' = [pnLeft EXCEPT !.ticks = @ - 1]
    /\ pn' = [pn EXCEPT !.now = @ + 1]

-----------------------------------------------------------------------------
(* The events of the other modules, dispatched to the io thread.             *)

EventAddNode(s, ep) == AddNewOutBound(s, ep, FALSE)

EventRemoveNode(s, ep) ==
    LET gone == RemoveOutBound(s, ep)
        there == {n \in DOMAIN s.peers : Remote(s, n) = ep}
    IN  IF there = {} THEN gone ELSE HandlePeerClose(gone, Min(there))

(* The addresses the event names are not parsed: it is the id 0 that is      *)
(* banned, or cleared.                                                       *)
EventSetBan(s, time) ==
    Ban([s EXCEPT !.stat = With(@, 0, [StatusOf(s, 0) EXCEPT !.ban = s.now + time, !.seen = s.now])],
        0, s.now + time)
EventClrBanned(s) == IF s.now < StatusOf(s, 0).ban THEN [s EXCEPT !.stat = Without(@, 0)] ELSE s

EventReward(s, n) == RewardEndpoint(s, Remote(s, n), 1)
EventClose(s, n) == PnRemovePeer(s, n, "ddos")

EventSend(s, n) == SendMessage(s, n)
EventGetData(s, n, inv) == Request(SendMessage(s, n), n, inv)

(* An event for a peer is for one the channel was told of; the peer may be   *)
(* gone when the event is handled.                                           *)
PnEvent ==
    /\ pnLeft.does # <<>>
    /\ pnLeft' = [pnLeft EXCEPT !.does = Tail(@)]
    /\ \E e \in {Head(pnLeft.does)} :
         \/ e.e = "add" /\ pn' = EventAddNode(pn, e.x)
         \/ e.e = "remove" /\ pn' = EventRemoveNode(pn, e.x)
         \/ e.e = "ban" /\ pn' = EventSetBan(pn, 1)
         \/ e.e = "clear" /\ pn' = EventClrBanned(pn)
         \/ /\ e.e \in {"reward", "close", "send", "getdata"} /\ pn.active # {}
            /\ \E n \in pn.active :
                 \/ e.e = "reward" /\ pn' = EventReward(pn, n)
                 \/ e.e = "close" /\ pn' = EventClose(pn, n)
                 \/ e.e = "send" /\ pn' = EventSend(pn, n)
                 \/ e.e = "getdata" /\ pn' = EventGetData(pn, n, e.x)

(* LeaveLoop: every peer is removed and the service is stopped.              *)
PnLeave ==
    /\ pnLeft.leaves /\ pnLeft' = [pnLeft EXCEPT !.leaves = FALSE]
    /\ pn' = [FoldLeft(LAMBDA s, n : HandlePeerClose(s, n), pn, SetToSeq(DOMAIN pn.peers))
                EXCEPT !.up = FALSE, !.timers = <<>>, !.node = <<>>, !.waits = <<>>,
                       !.stat = <<>>, !.ids = <<>>, !.nodeIds = <<>>]

PnInit ==
    /\ pnLeft \in PnScripts
    /\ pn = AcceptNext(FoldLeft(LAMBDA s, ep : AddNewOutBound(s, ep.ep, ep.seed),
              [cli |-> [c \in PnClients |-> [ref |-> 0, open |-> FALSE, ep |-> PnNone, inq |-> <<>>,
                                             eof |-> FALSE, ops |-> <<>>]],
               idle |-> [in |-> SetToSeq(PnIn), out |-> SetToSeq(PnOut)],
               timers |-> <<>>, nextTimer |-> 1, pend |-> <<>>, peers |-> <<>>, next |-> 1,
               node |-> <<>>, waits |-> <<>>, nodeIds |-> <<>>, ids |-> <<>>, stat |-> <<>>,
               active |-> {}, noted |-> {}, seeds |-> {}, asked |-> 0, now |-> 1, up |-> TRUE],
              pnLeft.nodes))

PnStep ==
    /\ pn.up
    /\ \/ \E c \in PnClients : PnArrive(c) \/ PnConnected(c) \/ PnReadDone(c) \/ PnWriteDone(c)
       \/ PnHeartBeat \/ PnTimeout \/ PnTick \/ PnEvent \/ PnLeave

PnSpec == PnInit /\ [][PnStep]_pnVars

-----------------------------------------------------------------------------
(* Properties. *)

ConnOp(op) == op.k \in {"accept", "connect"}
CountIn(c, P(_)) == Cardinality({i \in DOMAIN pn.cli[c].ops : P(pn.cli[c].ops[i])})

(* A client is counted once for its connection and once for every read and   *)
(* write under way, is idle exactly when it is not counted, and exactly one  *)
(* accept is under way.                                                      *)
SlotsExact ==
    /\ \A c \in PnClients :
         /\ pn.cli[c].ref = CountIn(c, LAMBDA op : TRUE)
                            + (IF pn.cli[c].open /\ CountIn(c, ConnOp) = 0 THEN 1 ELSE 0)
         /\ IsIdle(pn, c) <=> pn.cli[c].ref = 0
    /\ Cardinality({c \in PnIn : CountIn(c, LAMBDA op : op.k = "accept") = 1}) = 1

(* A peer has an open client of its own with one read under way, a write is  *)
(* under way while it has output, which leaves in order, and it is either    *)
(* known to the channels or has the timer of its handshake running.          *)
PeerServed(n) ==
    LET p == pn.peers[n]
        live(k) == CountIn(p.c, LAMBDA op : op.k = k /\ op.n = n /\ ~op.ab)
    IN  /\ pn.cli[p.c].open /\ live("read") = 1
        /\ live("write") = (IF p.iS = p.iW THEN 0 ELSE 1)
        /\ p.iS = p.iW => p.ss[0] = <<>> /\ p.ss[1] = <<>>
        /\ p.iS # p.iW => p.ss[p.iW] # <<>>
        /\ [i \in 1..(p.sent - p.done) |-> p.done + i]
              = IF p.iS = p.iW THEN <<>> ELSE p.ss[p.iW] \o p.ss[p.iS]
        /\ IF IsHandshaked(p) THEN n \in pn.active
           ELSE n \notin pn.active /\ p.hs \in DOMAIN pn.timers /\ pn.timers[p.hs] = n
        /\ \A inv \in DOMAIN p.req : p.req[inv] \in DOMAIN pn.timers /\ pn.timers[p.req[inv]] = n
        /\ \A o \in DOMAIN pn.peers \ {n} : pn.peers[o].c # p.c

(* However completions, timeouts and events interleave, no client is lost or *)
(* used twice, every peer is served until it is dropped, and the channels    *)
(* know exactly the peers whose handshake is done (CIOClient::Release,       *)
(* HandleConnCompleted, CPeer::Write, CMvPeerNet::DestroyPeer).              *)
PnPeersServed ==
    /\ pn.up => SlotsExact /\ \A n \in DOMAIN pn.peers : PeerServed(n)
    /\ pn.active \subseteq DOMAIN pn.peers

(* A node the manager knows is tried again sooner or later: it waits for its *)
(* turn unless it is being connected or is connected (CloseEndpoint dismisses*)
(* it on every way a connection can end).                                    *)
PnNodesKept ==
    pn.up =>
      \A ep \in DOMAIN pn.node :
        \/ \E i \in DOMAIN pn.waits : pn.waits[i].ep = ep
        \/ \E c \in PnOut : \E i \in DOMAIN pn.cli[c].ops :
              pn.cli[c].ops[i].k = "connect" /\ pn.cli[c].ops[i].ep = ep
        \/ \E n \in DOMAIN pn.peers : Remote(pn, n) = ep

(* Connections and the nodes to connect to are both looked after: no client, *)
(* peer or known node is lost, however completions, timers, events and       *)
(* failures interleave.                                                      *)
PnNetKept == PnPeersServed /\ PnNodesKept
=============================================================================
