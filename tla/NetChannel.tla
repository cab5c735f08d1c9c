----------------------------- MODULE NetChannel -----------------------------
(***************************************************************************)
(* CNetChannel (src/netchn.cpp) for one fork: its handlers for the events of    *)
(* the peers, the schedule they share, and the record of which peers are in      *)
(* step with the node (CConcurrentPeerNetData).                                *)
(*                                                                           *)
(* The handlers run on several threads.  Those of one peer run one at a time,    *)
(* in the order of its events (see EventOrder), and those that use the schedule    *)
(* hold mtxSched from start to end: job is the one in progress, done in steps      *)
(* because blocks and transactions may enter the chain and the pool from other     *)
(* threads meanwhile.  The handlers of Subscribe and Unsubscribe, and the end of    *)
(* the handler of Deactive, do without mtxSched.                                *)
(*                                                                           *)
(* A peer sends what it was asked for, or does not answer until its timer closes   *)
(* the connection.                                                            *)
(***************************************************************************)
EXTENDS Schedule

CONSTANTS
    Root,           \* the block that the fork starts with
    Prev,           \* Prev[b]: hashPrev
    Inputs,         \* Inputs[t]: the transactions whose outputs t spends
    Contents,       \* Contents[b]: the transactions of the block
    Anchor,         \* Anchor[t]: hashAnchor
    Vacant,         \* blocks without content, which a node makes by itself
    Invalid,        \* items that the dispatcher refuses
    Has,            \* Has[p]: what peer p can send
    Honest,         \* peers that stay, answer, and have nothing invalid
    Subscribers,    \* peers that subscribe to the fork
    LocalTxs        \* transactions that are also submitted to this node

ASSUME ChainAssumption ==
    /\ Root \notin Blocks /\ LocalTxs \subseteq Txs
    /\ Prev \in [Blocks -> Blocks \cup {Root}]
    /\ Inputs \in [Txs -> SUBSET Txs]
    /\ Contents \in [Blocks -> SUBSET Txs]
    /\ Anchor \in [Txs -> Blocks \cup {Root}]
    /\ Vacant \subseteq Blocks /\ \A b \in Vacant : Contents[b] = {}
    /\ Has \in [Peers -> SUBSET Items]
    /\ \A p \in Honest :
          /\ Has[p] \cap Invalid = {}
          /\ \A b \in Has[p] \cap Blocks : {Prev[b]} \cup Contents[b] \subseteq Has[p] \cup {Root}
          /\ \A t \in Has[p] \cap Txs : {Anchor[t]} \cup Inputs[t] \subseteq Has[p] \cup {Root}

VARIABLES
    sched,          \* mapSched[hashFork]
    world,          \* the blocks of the fork
    pool,           \* the transactions of the pool
    job,            \* the handler that holds mtxSched
    link,           \* link[p]: "new", "up", "leaving", "removed", "gone"
    requests,       \* requests[p]: what p was asked for and has not sent
    getBlocks,      \* peers that have still to answer a GetBlocks
    peer,           \* peer[p]: "absent" from mapPeer, or the state of its subscription
    unsync,         \* mapUnsync[hashFork]
    extending,      \* SyncForkHeight has found the fork in step, and is to extend it
    local,          \* what this node has made: blocks of SyncForkHeight, own transactions
    crossed         \* peers whose last Subscribe or Unsubscribe came in the midst of
                    \* their SetPeerSyncStatus

peerVars == <<link, peer, unsync, crossed>>
ownVars == <<extending, local>>
vars == <<sched, world, pool, job, requests, getBlocks, peerVars, ownVars>>

Idle == [pc |-> "idle", owner |-> NONE, item |-> NONE, work |-> {}, peers |-> {},
         bad |-> {}, seen |-> {}]

Init ==
    /\ sched = EmptySchedule
    /\ world = {Root} /\ pool = {}
    /\ job = Idle
    /\ link = [p \in Peers |-> "new"]
    /\ requests = [p \in Peers |-> {}] /\ getBlocks = {}
    /\ peer = [p \in Peers |-> "absent"] /\ unsync = {}
    /\ extending = FALSE /\ local = {} /\ crossed = {}

\* pWorldLine->ExistsTx
InBlocks == UNION {Contents[b] : b \in world \ {Root}}

\* The connections whose events are still being handled.
Handling(p) == link[p] \in {"up", "leaving"} /\ job.owner # p

Connected(p) == link[p] = "up"

\* DispatchMisbehaveEvent: the connection is closed, and Deactive will follow.
Close(P) == link' = [p \in Peers |-> IF p \in P /\ Connected(p) THEN "leaving" ELSE link[p]]

Post(p, peers, bad) == [Idle EXCEPT !.pc = "post", !.owner = p, !.peers = peers, !.bad = bad]

-----------------------------------------------------------------------------
(* Peers come and go.                                                         *)

PeerFrame == UNCHANGED <<sched, world, pool, job, requests, ownVars>>

\* HandleEvent(CMvEventPeerActive), for a fork that is not the primary one.
Active(p) ==
    /\ link[p] = "new"
    /\ link' = [link EXCEPT ![p] = "up"]
    /\ peer' = [peer EXCEPT ![p] = "none"]
    /\ PeerFrame
    /\ UNCHANGED <<getBlocks, unsync, crossed>>

\* Between the two halves of SetPeerSyncStatus for p.
Moving(p) == job.pc \in {"insert", "erase"} /\ job.item = p
Crossing(p) == IF Moving(p) THEN crossed \cup {p} ELSE crossed \ {p}

\* HandleEvent(CMvEventPeerSubscribe): a second subscription leaves the first.
Subscribe(p) ==
    /\ Handling(p) /\ p \in Subscribers
    /\ peer[p] # "absent"
    /\ peer' = [peer EXCEPT ![p] = IF @ = "none" THEN "unsync" ELSE @]
    /\ unsync' = unsync \cup {p}
    /\ getBlocks' = getBlocks \cup {p}
    /\ crossed' = Crossing(p)
    /\ PeerFrame
    /\ UNCHANGED link

Unsubscribe(p) ==
    /\ Handling(p)
    /\ peer[p] \in {"unsync", "sync"}
    /\ peer' = [peer EXCEPT ![p] = "none"]
    /\ unsync' = unsync \ {p}
    /\ crossed' = Crossing(p)
    /\ PeerFrame
    /\ UNCHANGED <<link, getBlocks>>

\* The peer disconnects, or the timer of a request closes the connection.
Leave(p) ==
    /\ Connected(p)
    /\ p \notin Honest
    /\ Close({p})
    /\ PeerFrame
    /\ UNCHANGED <<getBlocks, peer, unsync, crossed>>

\* HandleEvent(CMvEventPeerDeactive), the part under mtxSched.
Deactive(p) ==
    /\ link[p] = "leaving"
    /\ job = Idle
    /\ link' = [link EXCEPT ![p] = "removed"]
    /\ sched' = RemovePeer(sched, p)
    /\ job' = Post(p, PeersAfter(sched, p), {})
    /\ requests' = [requests EXCEPT ![p] = {}]
    /\ getBlocks' = getBlocks \ {p}
    /\ UNCHANGED <<world, pool, peer, unsync, crossed, ownVars>>

\* conPeerNetData.DeactivePeer
DeactivePeer(p) ==
    /\ link[p] = "removed"
    /\ job.owner # p
    /\ link' = [link EXCEPT ![p] = "gone"]
    /\ unsync' = IF peer[p] \in {"unsync", "sync"} THEN unsync \ {p} ELSE unsync
    /\ peer' = [peer EXCEPT ![p] = "absent"]
    /\ PeerFrame
    /\ UNCHANGED <<getBlocks, crossed>>

-----------------------------------------------------------------------------
(* The handlers of what a peer sends.                                         *)

\* HandleEvent(CMvEventPeerInv)
Inv(p, I) ==
    LET new == {i \in I : i \notin IF i \in Blocks THEN world ELSE pool}
    IN  /\ Handling(p) /\ job = Idle
        /\ sched' \in AddNewInv(sched, new, {p})
        /\ job' = Post(p, {p}, {})
        /\ UNCHANGED <<world, pool, requests, peerVars, ownVars>>

Announce(p) ==
    /\ \E i \in Has[p] : Inv(p, {i})
    /\ UNCHANGED getBlocks

\* The answer to GetBlocks: what the peer has beyond our locator.
AnswerGetBlocks(p) ==
    /\ p \in getBlocks
    /\ Inv(p, (Has[p] \cap Blocks) \ world)
    /\ getBlocks' = getBlocks \ {p}

\* An answer to GetData arrives.
Answer(p, i) ==
    /\ Handling(p) /\ job = Idle
    /\ i \in requests[p] \cap Has[p]
    /\ requests' = [requests EXCEPT ![p] = @ \ {i}]
    /\ UNCHANGED <<world, pool, getBlocks, peer, unsync, crossed, ownVars>>

\* ReceiveBlock or ReceiveTx fails, and the handler throws.
Unexpected(p, i) ==
    /\ Answer(p, i)
    /\ ~MayReceive(sched, p, i)
    /\ Close({p})
    /\ UNCHANGED <<sched, job>>

\* HandleEvent(CMvEventPeerBlock)
Block(p, b) ==
    LET received == Receive(sched, p, b)
        known == KnownPeers(sched, b)
    IN  /\ Answer(p, b)
        /\ MayReceive(sched, p, b)
        /\ IF Prev[b] \in world
           THEN /\ sched' = received
                /\ job' = [Post(p, known, {}) EXCEPT !.pc = "block", !.work = {b}]
           ELSE /\ sched' = AddOrphan(received, b, {Prev[b]})
                /\ job' = Post(p, known, {})
        /\ UNCHANGED link

\* GetMissingPrevTx
MissingPrevTx(t) == Inputs[t] \ (pool \cup InBlocks)

\* HandleEvent(CMvEventPeerTx)
Tx(p, t) ==
    LET received == Receive(sched, p, t)
        known == KnownPeers(sched, t)
        missing == MissingPrevTx(t)
    IN  /\ Answer(p, t)
        /\ MayReceive(sched, p, t)
        /\ \/ /\ Anchor[t] \notin world
              /\ sched' = Invalidate(received, t)
              /\ job' = Post(p, known, Misbehaving(received, t))
           \/ /\ Anchor[t] \in world
              /\ missing = {}
              /\ sched' = received
              /\ job' = [Post(p, known, {}) EXCEPT !.pc = "tx", !.item = t, !.work = {t}]
           \/ /\ Anchor[t] \in world
              /\ missing # {}
              /\ sched' \in AddNewInv(AddOrphan(received, t, missing),
                                      {i \in missing : ~Exists(sched, i)}, known)
              /\ job' = Post(p, known, {})
        /\ UNCHANGED link

-----------------------------------------------------------------------------
(* AddNewBlock, AddNewTx and PostAddNew, a round of their loops at a time.        *)

WorkFrame == UNCHANGED <<requests, getBlocks, peerVars, ownVars>>

\* What becomes of the list of items to try when i is done and next are added.
Tried(i, next) == (job.work \ {i}) \cup next

BlockOK(b) == b \notin world \cup Invalid /\ Prev[b] \in world

\* The block was added, or is one of those every node makes: its orphans follow.
Release(b) ==
    LET scheduled == RemoveInv(sched, IF b \in world THEN {b} ELSE {b} \cup Contents[b])
        known == UNION {KnownPeers(sched, i) : i \in {b} \cup IF b \in world THEN {} ELSE Contents[b]}
    IN  /\ sched' = scheduled
        /\ job' = [job EXCEPT !.work = Tried(b, GetNext(sched, b)), !.peers = @ \cup known]
        /\ world' = world \cup {b}
        /\ pool' = pool \ Contents[b]

\* A round of AddNewBlock.
AddNewBlock(b) ==
    /\ job.pc = "block" /\ b \in job.work
    /\ \/ /\ ~Received(sched, b)
          /\ job' = [job EXCEPT !.work = Tried(b, {})]
          /\ UNCHANGED <<sched, world, pool>>
       \/ /\ Received(sched, b)
          /\ BlockOK(b) \/ b \in world \cap Vacant
          /\ Release(b)
       \/ /\ Received(sched, b)
          /\ ~BlockOK(b) /\ b \notin world \cap Vacant
          /\ sched' = Invalidate(sched, b)
          /\ job' = [job EXCEPT !.work = Tried(b, {}), !.bad = @ \cup Misbehaving(sched, b)]
          /\ UNCHANGED <<world, pool>>
    /\ WorkFrame

\* CTxPool::Push and ValidateTransaction.  There is no error of its own for an input
\* that has not arrived: it is refused like one that is spent.
TxOK(t) == /\ t \notin pool \cup InBlocks \cup Invalid
           /\ Anchor[t] \in world
           /\ MissingPrevTx(t) = {}

\* Slip: the transactions that wait for it are not looked up.
AddNewTxAlone(t) ==
    /\ job.pc = "tx" /\ t \in job.work
    /\ TxOK(t)
    /\ pool' = pool \cup {t}
    /\ sched' = RemoveInv(sched, {t})
    /\ job' = [job EXCEPT !.work = Tried(t, {}), !.peers = @ \cup KnownPeers(sched, t)]
    /\ UNCHANGED world
    /\ WorkFrame

\* A round of AddNewTx: all of it is given up when the first of the transactions,
\* job.item, is found in a block.
AddNewTx(t) ==
    /\ job.pc = "tx" /\ t \in job.work
    /\ \/ /\ ~Received(sched, t)
          /\ job' = [job EXCEPT !.work = Tried(t, {})]
          /\ UNCHANGED <<sched, pool>>
       \/ /\ Received(sched, t) /\ job.item \in InBlocks
          /\ job' = [job EXCEPT !.work = {}]
          /\ UNCHANGED <<sched, pool>>
       \/ /\ Received(sched, t) /\ job.item \notin InBlocks
          /\ TxOK(t)
          /\ pool' = pool \cup {t}
          /\ sched' = RemoveInv(sched, {t})
          /\ job' = [job EXCEPT !.work = Tried(t, GetNext(sched, t) \ job.seen),
                                !.seen = @ \cup GetNext(sched, t),
                                !.peers = @ \cup KnownPeers(sched, t)]
       \/ /\ Received(sched, t) /\ job.item \notin InBlocks
          /\ ~TxOK(t)
          /\ sched' = Invalidate(sched, t)
          /\ job' = [job EXCEPT !.work = Tried(t, {}), !.bad = @ \cup Misbehaving(sched, t)]
          /\ UNCHANGED pool
    /\ UNCHANGED world
    /\ WorkFrame

EndWork ==
    /\ job.pc \in {"block", "tx"} /\ job.work = {}
    /\ job' = [job EXCEPT !.pc = "post", !.item = NONE]
    /\ UNCHANGED <<sched, world, pool>>
    /\ WorkFrame

\* What SchedulePeerInv does about p: at most one of these.  A peer that has not sent
\* all it was asked for is asked for nothing more.
Free(p) == sched.assigned[p] = {}
AskFor(p, kind) ==
    /\ Unasked(sched, p, kind) # {}
    /\ \E A \in Asks(sched, p, kind) :
         /\ sched' = Ask(sched, p, A)
         /\ requests' = IF Connected(p) THEN [requests EXCEPT ![p] = @ \cup A] ELSE requests
    /\ UNCHANGED <<link, getBlocks>>
MissingPrev(p) ==
    /\ ReceivedAll(sched, p, Blocks) /\ ~Full(sched, p, Blocks)
    /\ getBlocks' = IF Connected(p) THEN getBlocks \cup {p} ELSE getBlocks
    /\ UNCHANGED <<sched, requests, link>>
TooMany(p, kind) ==
    /\ ReceivedAll(sched, p, kind) /\ Full(sched, p, kind)
    /\ Close({p})
    /\ UNCHANGED <<sched, requests, getBlocks>>
\* There is no block to ask p for, and not all of those it knows are here.
TxTurn(p) == Unasked(sched, p, Blocks) = {} /\ ~ReceivedAll(sched, p, Blocks)
NothingToAsk(p) ==
    /\ ~Free(p) \/ /\ TxTurn(p) /\ Unasked(sched, p, Txs) = {}
                   /\ ~(ReceivedAll(sched, p, Txs) /\ Full(sched, p, Txs))
    /\ UNCHANGED <<sched, requests, getBlocks, link>>

\* CConcurrentPeerNetData::SetPeerSyncStatus, under rwPeer.  That mapUnsync has to
\* follow is noted in job.pc.
SetStatus(p) ==
    LET status == IF sched.list[p] \cap Blocks = {} THEN "sync" ELSE "unsync"
        subscribed == peer[p] \in {"sync", "unsync"}
    IN  /\ peer' = [peer EXCEPT ![p] = IF subscribed THEN status ELSE "none"]
        /\ job' = IF subscribed /\ peer[p] # status
                  THEN [job EXCEPT !.peers = @ \ {p}, !.item = p,
                                   !.pc = IF status = "sync" THEN "erase" ELSE "insert"]
                  ELSE [job EXCEPT !.peers = @ \ {p}]

\* SchedulePeerInv, up to the first half of SetPeerSyncStatus.
SchedulePeerInv(p) ==
    /\ job.pc = "post" /\ p \in job.peers \ job.bad
    /\ \/ /\ Free(p) /\ TooMany(p, Blocks)
          /\ job' = [job EXCEPT !.peers = @ \ {p}]
          /\ UNCHANGED peer
       \/ /\ \/ Free(p) /\ AskFor(p, Blocks)
             \/ Free(p) /\ MissingPrev(p)
             \/ Free(p) /\ TxTurn(p) /\ AskFor(p, Txs)
             \/ Free(p) /\ TxTurn(p) /\ TooMany(p, Txs)
             \/ NothingToAsk(p)
          /\ SetStatus(p)
    /\ UNCHANGED <<world, pool, unsync, crossed, ownVars>>

\* SetPeerSyncStatus, the second half, under rwUnsync.
SetUnsync ==
    /\ job.pc \in {"insert", "erase"}
    /\ unsync' = IF job.pc = "insert" THEN unsync \cup {job.item} ELSE unsync \ {job.item}
    /\ job' = [job EXCEPT !.pc = "post", !.item = NONE]
    /\ UNCHANGED <<sched, world, pool, requests, getBlocks, link, peer, crossed, ownVars>>

\* The end of PostAddNew, and of the handler.
EndPost ==
    /\ job.pc = "post" /\ job.peers \subseteq job.bad
    /\ Close(job.bad)
    /\ job' = Idle
    /\ UNCHANGED <<sched, world, pool, requests, getBlocks, peer, unsync, crossed, ownVars>>

-----------------------------------------------------------------------------
(* What enters the chain and the pool from other threads.                       *)

LocalFrame == UNCHANGED <<sched, job, requests, getBlocks, peerVars>>

\* CDispatcher::SyncForkHeight: IsForkSynchronized, and some time later the block.
CheckSync ==
    /\ ~extending /\ unsync = {}
    /\ \E b \in Vacant : BlockOK(b)
    /\ extending' = TRUE
    /\ LocalFrame
    /\ UNCHANGED <<world, pool, local>>

LocalVacant(b) ==
    /\ extending /\ Prev[b] \in world
    /\ world' = world \cup {b}
    /\ local' = IF b \in world THEN local ELSE local \cup {b}
    /\ extending' = FALSE
    /\ LocalFrame
    /\ UNCHANGED pool

\* A transaction is submitted to the node (CDispatcher::AddNewTx).
LocalTx(t) ==
    /\ TxOK(t)
    /\ pool' = pool \cup {t}
    /\ local' = local \cup {t}
    /\ LocalFrame
    /\ UNCHANGED <<world, extending>>

-----------------------------------------------------------------------------
JobStep == \/ \E b \in Blocks : AddNewBlock(b)
           \/ \E t \in Txs : AddNewTx(t)
           \/ EndWork
           \/ \E p \in Peers : SchedulePeerInv(p)
           \/ SetUnsync
           \/ EndPost

Answers(p) == \/ \E b \in Blocks : Block(p, b)
              \/ \E t \in Txs : Tx(p, t)
              \/ \E i \in Items : Unexpected(p, i)

Next ==
    \/ \E p \in Peers : \/ Active(p) \/ Subscribe(p) \/ Unsubscribe(p) \/ Leave(p)
                        \/ Deactive(p) \/ DeactivePeer(p)
                        \/ Announce(p) \/ AnswerGetBlocks(p) \/ Answers(p)
    \/ JobStep
    \/ CheckSync
    \/ \E b \in Vacant : LocalVacant(b)
    \/ \E t \in LocalTxs : LocalTx(t)

\* mtxSched and the queue of a peer let every handler run in the end.  An honest peer
\* answers; the timers of GetData close the connection of a peer that does not.
Fairness ==
    /\ WF_vars(JobStep)
    /\ \A p \in Peers : /\ SF_vars(Answers(p) \/ (requests[p] # {} /\ Leave(p)))
                        /\ SF_vars(Deactive(p)) /\ WF_vars(DeactivePeer(p))
    /\ \A p \in Honest : SF_vars(AnswerGetBlocks(p))

Spec == Init /\ [][Next]_vars
FairSpec == Spec /\ Fairness

-----------------------------------------------------------------------------
(* Properties.                                                                *)

\* The variables keep their types: in particular mapPeer and mapState hold only what
\* the operations of CSchedule put there.
TypeOK ==
    /\ sched.list \in [Peers -> SUBSET Items] /\ sched.assigned \in [Peers -> SUBSET Items]
    /\ sched.state \in [Items -> States \cup {NONE}] /\ sched.orphan \subseteq Items \X Items
    /\ world \subseteq Blocks \cup {Root} /\ pool \subseteq Txs
    /\ job.pc \in {"idle", "block", "tx", "post", "insert", "erase"}
    /\ job.owner \in Peers \cup {NONE} /\ job.item \in Items \cup Peers \cup {NONE}
    /\ job.work \subseteq Items /\ job.seen \subseteq Items
    /\ job.peers \subseteq Peers /\ job.bad \subseteq Peers
    /\ link \in [Peers -> {"new", "up", "leaving", "removed", "gone"}]
    /\ requests \in [Peers -> SUBSET Items] /\ getBlocks \subseteq Peers
    /\ peer \in [Peers -> {"absent", "none", "sync", "unsync"}] /\ unsync \subseteq Peers
    /\ extending \in BOOLEAN /\ local \subseteq Vacant \cup LocalTxs /\ crossed \subseteq Peers

\* The two views of the schedule tell the same story after every operation of
\* CSchedule: a peer lists an item when it is among the peers that know it, is assigned
\* the items it was asked for and has not sent, and nothing is kept that no peer knows.
ListsAgree ==
    /\ \A p \in Peers, i \in Items :
         /\ i \in sched.list[p] <=> p \in KnownPeers(sched, i)
         /\ i \in sched.assigned[p] <=> StateOf(sched, i).asked = p /\ ~Received(sched, i)
    /\ \A i \in Items : Exists(sched, i) =>
         /\ KnownPeers(sched, i) # {}
         /\ Received(sched, i) => StateOf(sched, i).asked # NONE
         /\ StateOf(sched, i).asked \in KnownPeers(sched, i) \cup {NONE}

\* The limits of CSchedule hold whatever the peers announce (AddNewInv).
LimitsKept ==
    /\ Size(sched) <= MaxInv
    /\ \A p \in Peers, kind \in {Blocks, Txs} :
         Cardinality(sched.list[p] \cap kind) <= MaxPeer(kind)

\* A block that a connected peer was asked for is one the schedule still waits for:
\* its arrival is never held against the peer (ReceiveBlock in HandleEvent).
RequestsAccepted ==
    \A p \in Peers : Connected(p) =>
        \A b \in requests[p] \cap Blocks : MayReceive(sched, p, b)

\* Between two handlers no peer stands idle that knows a block nobody was asked for,
\* so every handler schedules all the peers whose work it changes (PostAddNew).
IdlePeersWork ==
    job = Idle => \A p \in Peers :
        Connected(p) /\ Free(p) => Unasked(sched, p, Blocks) = {}

\* Between two handlers a received block is waiting for a parent that is not in the
\* chain, or that SyncForkHeight made: AddNewBlock leaves no orphan of its own behind.
OrphanBlocksReleased ==
    job = Idle => \A b \in Blocks :
        Received(sched, b) => /\ Prev[b] \notin world \/ Prev[b] \in local
                              /\ <<Prev[b], b>> \in sched.orphan

\* Between two handlers a received transaction whose inputs are all here is one that is
\* in a block itself, or whose inputs came in a block or from this node's own users:
\* what the peers send releases the transactions that wait for it (AddNewTx).
OrphanTxsReleased ==
    job = Idle => \A t \in Txs :
        Received(sched, t) /\ MissingPrevTx(t) = {} =>
            ({t} \cup Inputs[t]) \cap (InBlocks \cup local) # {}

\* mapUnsync follows the subscriptions: whoever is marked out of step is in it, and
\* whoever is in it is subscribed to the fork.  It does not hold between the two halves
\* of SetPeerSyncStatus, nor after a subscription that changed there.
UnsyncFollows ==
    \A p \in Peers \ crossed : ~Moving(p) =>
        /\ peer[p] = "unsync" => p \in unsync
        /\ p \in unsync => peer[p] \in {"sync", "unsync"}

\* A peer that is gone is forgotten: no handler that runs later brings it back into
\* the schedule or, through mapPeer[nNonce] in SetPeerSyncStatus, among the peers.
GoneForgotten ==
    \A p \in Peers :
        /\ link[p] \in {"removed", "gone"} =>
             /\ sched.list[p] = {} /\ sched.assigned[p] = {}
             /\ \A i \in Items : p \notin KnownPeers(sched, i) /\ StateOf(sched, i).asked # p
        /\ link[p] = "gone" => peer[p] = "absent"

\* Nothing that other peers do or leave crossed, and no block that SyncForkHeight makes
\* meanwhile, gets the connection of an honest peer closed (DispatchMisbehaveEvent).
HonestPeersKept == \A p \in Honest : link[p] \in {"new", "up"}

\* The block has an ancestor that SyncForkHeight made.
Stranded(b) ==
    \E S \in SUBSET Blocks : b \in S /\ \A x \in S : Prev[x] \in S \cup local

\* Every block that an honest peer announces gets into the chain, whoever else is asked
\* for it and does not answer, or leaves, unless the node makes one of its ancestors.
BlocksArrive ==
    \A p \in Honest, b \in Blocks :
        b \in sched.list[p] ~> b \in world \/ Stranded(b)


\* Whatever peers announce, answer, leave or subscribe to in between, the books of CSchedule and
\* CNetChannel stay in order: the two views of every item agree within the limits, nobody that
\* is gone is kept, mapUnsync follows the subscriptions, and orphan transactions are released.
BooksInOrder ==
    TypeOK /\ ListsAgree /\ LimitsKept /\ UnsyncFollows /\ GoneForgotten /\ OrphanTxsReleased

\* Synchronising blocks serves honest peers: what they were asked for is accepted when it comes,
\* nobody stands idle who could be asked, no orphan of the node's own making is left behind, and
\* no connection of theirs is closed for what others do.
PeersServed == RequestsAccepted /\ IdlePeersWork /\ OrphanBlocksReleased /\ HonestPeersKept
=============================================================================
