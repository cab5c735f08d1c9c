---------------------------- MODULE DelegateNode -----------------------------
(***************************************************************************)
(* The parts of a node that take part in the delegated proof of stake, and how  *)
(* CDispatcher joins them: the consensus (Delegate), the delegated channel       *)
(* (DelegatedChannel) and the block maker (CBlockMaker, first below).               *)
(*                                                                           *)
(* Two threads add blocks, that of the network and the block maker's.  Each       *)
(* update of the chain is handed first to the consensus, then to the delegated    *)
(* channel, and then to the block maker by an event; between these calls other      *)
(* threads run.  The other delegates and the peers follow the protocol: what        *)
(* they send is computed from the enrolments of the block it belongs to.            *)
(***************************************************************************)
EXTENDS Delegate, FiniteSets

-----------------------------------------------------------------------------
(* CBlockMaker (src/blockmaker.cpp): the thread that mints primary blocks and  *)
(* the one that mints extended blocks, and the events that tell them of a new    *)
(* last block.  Time is not modelled: a timed wait may end whenever it is       *)
(* entered.  What a step needs from the consensus, and the block it dispatches,  *)
(* are parameters or results.                                                   *)

VARIABLES
    status,     \* nMakerStatus
    lastBlock,  \* hashLastBlock and nLastBlockHeight: a block's id
    lastAgr,    \* nLastAgreement, nLastWeight
    curAgr,     \* currentAgreement, with the ballot
    mkr,        \* thrMaker: [pc, prim, agree, proof]
    ext,        \* thrExtendedMaker: [pc, prim, agree]
    evq         \* the events posted to the block maker

makerVars == <<status, lastBlock, lastAgr, curAgr, mkr, ext, evq>>

NoAgr == [secrets |-> {}, weight |-> 0, ballot |-> <<>>]

MkrStart(tip) == [pc |-> "wait", prim |-> tip, agree |-> NoAgr, proof |-> <<>>]
ExtStart(tip) == [pc |-> "wait", prim |-> tip, agree |-> NoAgr]
NoLastAgr == [secrets |-> {}, weight |-> 0]

\* WalleveHandleInvoke and the first lines of the two threads; tip is the last block.
MakerInvoke(tip) ==
    /\ status = "HOLD" /\ lastBlock = tip /\ lastAgr = NoLastAgr /\ curAgr = NoAgr
    /\ mkr = MkrStart(tip) /\ ext = ExtStart(tip) /\ evq = <<>>

\* WalleveHandleHalt, and WalleveHandleInvoke once more.
MakerRestart(tip) ==
    /\ status' = "HOLD" /\ lastBlock' = tip /\ lastAgr' = NoLastAgr /\ curAgr' = NoAgr
    /\ mkr' = MkrStart(tip) /\ ext' = ExtStart(tip) /\ evq' = <<>>

PostEvent(e) == evq' = Append(evq, e)

\* Slip: the maker is told of the block, and not that it has to start again.
HandleUpdateNoReset ==
    /\ evq # <<>>
    /\ lastBlock' = Head(evq).block
    /\ lastAgr' = Head(evq).agr
    /\ evq' = Tail(evq)
    /\ UNCHANGED <<status, curAgr, mkr, ext>>

\* HandleEvent of CMvEventBlockMakerUpdate
HandleUpdate ==
    /\ evq # <<>>
    /\ status' = "RESET"
    /\ lastBlock' = Head(evq).block
    /\ lastAgr' = Head(evq).agr
    /\ evq' = Tail(evq)
    /\ UNCHANGED <<curAgr, mkr, ext>>

-----------------------------------------------------------------------------
\* The wait for a new block ends, as there is one or by its timeout.  With a new block the
\* thread goes on to wait for the agreement; without one it mints by work.
EndWait ==
    /\ mkr.pc = "wait"
    /\ IF mkr.prim # lastBlock
       THEN /\ mkr' = [mkr EXCEPT !.pc = "agree", !.prim = lastBlock, !.agree = NoAgr]
            /\ UNCHANGED status
       ELSE /\ mkr' = [mkr EXCEPT !.pc = "prepare", !.agree = NoAgr]
            /\ status' = "RUN"
    /\ UNCHANGED <<lastBlock, lastAgr, curAgr, ext, evq>>

\* A newer block ends the wait for the agreement.
AgreeAgain ==
    /\ mkr.pc = "agree" /\ mkr.prim # lastBlock
    /\ mkr' = [mkr EXCEPT !.pc = "wait"]
    /\ UNCHANGED <<status, lastBlock, lastAgr, curAgr, ext, evq>>

\* The wait for the agreement times out, and the agreement is what the consensus has come
\* to for the next height.  GetDelegatedBallot chooses from its hash between work (no
\* ballot) and a delegate.
GetAgreementStep(found) ==
    /\ mkr.pc = "agree" /\ mkr.prim = lastBlock
    /\ \E ballot \in {<<>>} \cup {<<d>> : d \in found.ballot} :
          LET agree == [secrets |-> found.secrets, weight |-> found.weight, ballot |-> ballot]
          IN curAgr' = agree /\ mkr' = [mkr EXCEPT !.pc = "prepare", !.agree = agree]
    /\ status' = "RUN"
    /\ UNCHANGED <<lastBlock, lastAgr, ext, evq>>

\* PrepareBlock: the proof is asked for apart from the agreement.
PrepareBlock(proof) ==
    /\ mkr.pc = "prepare"
    /\ mkr' = [mkr EXCEPT !.pc = "create",
                          !.proof = IF mkr.agree.secrets # {} THEN proof ELSE <<>>]
    /\ UNCHANGED <<status, lastBlock, lastAgr, curAgr, ext, evq>>

\* The end of an iteration: nothing was minted, or the block was dispatched.
Finish(next) ==
    /\ mkr' = [mkr EXCEPT !.pc = "wait", !.proof = <<>>]
    /\ status' = IF status = "RUN" THEN next ELSE status

\* The search for a proof of work or the wait of DispatchBlock for the block's time is
\* interrupted, or there is no profile: for work, or for the delegate chosen.
GiveUp(local, work) ==
    /\ mkr.pc = "create"
    /\ \/ status # "RUN"
       \/ mkr.agree.ballot = <<>> /\ ~work
       \/ mkr.agree.ballot # <<>> /\ mkr.agree.ballot[1] \notin local
    /\ Finish("HOLD")
    /\ UNCHANGED <<lastBlock, lastAgr, curAgr, ext, evq>>

\* A block is ready for DispatchBlock: by work, or by a delegate of this node.  Where its
\* time has come already, it is dispatched whatever the status is.
Minted(local, work) ==
    mkr.pc = "create" /\ IF mkr.agree.ballot = <<>> THEN work ELSE mkr.agree.ballot[1] \in local

\* AddNewBlock took the block, or did not.
Dispatched(err) ==
    /\ mkr.pc = "dispatch"
    /\ Finish(IF err /\ mkr.agree.ballot = <<>> THEN "RESET" ELSE "HOLD")

-----------------------------------------------------------------------------
\* The extended maker wakes up for a new block.
ExtWake ==
    /\ ext.pc = "wait" /\ ext.prim # lastBlock
    /\ ext' = IF curAgr.ballot = <<>> \/ curAgr.secrets # lastAgr.secrets \/ curAgr.weight # lastAgr.weight
              THEN [ext EXCEPT !.prim = lastBlock]
              ELSE [pc |-> "process", prim |-> lastBlock, agree |-> curAgr]
    /\ UNCHANGED <<status, lastBlock, lastAgr, curAgr, mkr, evq>>

\* ProcessExtended ends: no delegate or fork is there, all slots are used, or Wait found
\* another block or the exit.
ExtFinish ==
    /\ ext.pc = "process"
    /\ ext' = [ext EXCEPT !.pc = "wait"]
    /\ UNCHANGED <<status, lastBlock, lastAgr, curAgr, mkr, evq>>

-----------------------------------------------------------------------------
CONSTANTS
    IntBits,
    Holds,          \* a function from peers (nonces, numbers from 1 on) to SUBSET Delegates:
                    \*   whose data a peer has
    Rolls,          \* the sets of delegates whose enrolment a block may confirm
    MaxDepth,
    Scenarios       \* the sets of bounds that are explored: records of
                    \*   peers      those that may be there,
                    \*   maker      whether the block maker is scheduled,
                    \*   work       whether it has a profile to mint by work,
                    \*   from       below this height blocks come one by one, each passed on
                    \*              with nothing in between,
                    \*   netHeight  the highest block of the network,
                    \*   maxHeight, maxEpoch

VARIABLES
    scen,       \* the scenario
    chain,      \* the blocks of the primary chain
    index,      \* every block known: id -> what GetBlockDelegateEnrolled returns for it
                \*   and for the block DISTRIBUTE_INTERVAL below it, and its agreement
    pool,       \* the enrolment transactions the node has sent
    epoch,      \* how many reorganizations, restarts and lost peers there were
    branch,     \* the last branch
    mapVote,
    chan,
    upd,        \* what each thread has still to pass on of its update
    stale,      \* targets whose vote was enrolled by a block that was removed, and kept
    dealt,      \* <<anchor, delegate>>: distributions that fit the enrolment
    boots,      \* the epochs that began with a restart
    overtaken,  \* one thread's update overtook the other's
    proofThen   \* what GetProof would have returned when GetAgreement did

history == <<stale, dealt, boots, overtaken, proofThen>>
chainVars == <<scen, chain, index, pool, epoch, branch>>
vars == <<chainVars, mapVote, chan, upd, history, makerVars>>

D == INSTANCE DelegatedChannel

Remote == Delegates \ Local
Threads == {"net", "maker"}
Other(t) == CHOOSE o \in Threads : o # t
Idle == [step |-> "idle"]

\* Thread t passes on an update that is younger than the one of the other thread, which
\* has not got beyond the step yet.
Overtakes(t) == upd[t].second /\ upd[Other(t)].step \in (IF upd[t].step = "consensus" THEN {"consensus"}
                                                                        ELSE {"consensus", "channel"})
Tip == chain[Len(chain)].id

Free == Height(chain) >= scen.from
Quiet == evq = <<>> /\ \A t \in Threads : upd[t] = Idle

Genesis == [id |-> <<0, 0>>, certs |-> {}, agr |-> [secrets |-> {}, weight |-> 0]]

-----------------------------------------------------------------------------
\* The enrolments of the delegates R that a block on top of ch may confirm: the other
\* delegates enrol with a box they make after each block, this node with what it sent.
Certs(ch, R) ==
    LET recent == {BlockAt(ch, h).id : h \in Max({0, Len(ch) - ENROLL_INTERVAL})..Height(ch)}
        tip == BlockAt(ch, Height(ch)).id
    IN {[anchor |-> tip, by |-> d, box |-> [by |-> d, at |-> tip, gen |-> 0]] : d \in R \ Local}
       \cup {c \in pool : c.by \in R /\ c.anchor \in recent}

NewBlock(ch, br, R, agr) == [id |-> <<Len(ch), br>>, certs |-> Certs(ch, R), agr |-> agr]

IndexOf(ch, h) == LET back == Max({0, h - DISTRIBUTE_INTERVAL})
                  IN [cands |-> GetBlockDelegateEnrolled(ch, h),
                      back  |-> GetBlockDelegateEnrolled(ch, back),
                      below |-> BlockAt(ch, back).id,
                      agr   |-> BlockAt(ch, h).agr]

Init ==
    /\ scen \in Scenarios
    /\ chain = <<Genesis>>
    /\ index = (Genesis.id :> IndexOf(<<Genesis>>, 0))
    /\ pool = {} /\ epoch = 0 /\ branch = 0
    /\ mapVote = LoadChain(<<Genesis>>, 0)
    /\ chan = D!EmptyChannel
    /\ upd = [t \in Threads |-> Idle]
    /\ stale = {} /\ dealt = {} /\ boots = {} /\ overtaken = FALSE /\ proofThen = <<>>
    /\ MakerInvoke(Genesis.id)

-----------------------------------------------------------------------------
\* CWorldLine::AddNewBlock made ch the chain: thread t has the update in hand.
SetChain(t, ch, added, removed) ==
    /\ chain' = ch
    /\ index' = [h \in {BlockAt(ch, i).id : i \in (Height(ch) - added + 1)..Height(ch)} |->
                    IndexOf(ch, h[1])] @@ index
    /\ upd' = [upd EXCEPT ![t] = [step |-> "consensus", chain |-> ch, added |-> added, removed |-> removed,
                                   second |-> upd[Other(t)] # Idle]]

\* The network delivers a block on top of the last one, made by work.
NetBlock ==
    /\ Free \/ Quiet
    /\ upd["net"] = Idle /\ Height(chain) < scen.netHeight
    /\ \E R \in Rolls :
          LET ch == Append(chain, NewBlock(chain, branch, R, Genesis.agr))
          IN SetChain("net", ch, 1, 0)
    /\ UNCHANGED <<scen, pool, epoch, branch, mapVote, chan, history, makerVars>>

\* The network delivers the block that makes another branch the better one.
NetReorg ==
    /\ Free /\ upd["net"] = Idle /\ epoch < scen.maxEpoch
    /\ \E removed \in 1..Min({MaxDepth, Height(chain)}), R \in Rolls :
       \E added \in 1..(removed + 1) :
          LET base == SubSeq(chain, 1, Len(chain) - removed)
              one == Append(base, NewBlock(base, branch + 1, R, Genesis.agr))
              ch == FoldLeft(LAMBDA c, i : Append(c, NewBlock(c, branch + 1, R, Genesis.agr)),
                             one, [i \in 1..(added - 1) |-> i])
          IN /\ Height(ch) <= scen.maxHeight
             /\ SetChain("net", ch, added, removed)
    /\ epoch' = epoch + 1 /\ branch' = branch + 1
    /\ UNCHANGED <<scen, pool, mapVote, chan, history, makerVars>>

-----------------------------------------------------------------------------
\* CDispatcher::UpdatePrimaryBlock, call by call.  That BuildEnrollTx finds no coin is not
\* told apart from an enrolment which no block confirms.
Consensus(t) ==
    /\ upd[t].step = "consensus"
    /\ \E u \in {upd[t]} :
       \E start \in {Height(u.chain) - u.added}, id \in {Last(u.chain).id} :
       \E res \in {ConsensusUpdate(mapVote, u.chain, u.added, u.removed, epoch)} :
          /\ mapVote' = res.votes
          /\ upd' = [upd EXCEPT ![t] = [step |-> "channel", start |-> start, second |-> u.second,
                        blocks |-> [i \in 1..u.added |-> BlockAt(u.chain, start + i)],
                        dist |-> DOMAIN res.dist, pub |-> DOMAIN res.pub,
                        txs |-> {[anchor |-> id, by |-> d, box |-> res.enroll[d]] : d \in DOMAIN res.enroll}]]
          /\ stale' = IF u.removed = 0 THEN stale
                      ELSE (stale \cup {start + u.removed + DISTRIBUTE_INTERVAL + 1})
                             \cap DOMAIN Rollback(mapVote, start + u.removed, start)
          /\ dealt' = dealt \cup {<<id, d>> : d \in {e \in DOMAIN res.dist :
                                      /\ e \in DOMAIN index[id].cands
                                      /\ res.dist[e].box = index[id].cands[e].box}}
    /\ overtaken' = (overtaken \/ Overtakes(t))
    /\ UNCHANGED <<chainVars, chan, boots, proofThen, makerVars>>

Dests(cands) == SetToSortSeq(DOMAIN cands, <)

Channel(t) ==
    /\ upd[t].step = "channel"
    /\ LET u == upd[t]
       IN chan' = D!ChannelPrimaryUpdate(chan, u.start,
                      [i \in DOMAIN u.blocks |-> [id |-> u.blocks[i].id,
                                                  dests |-> Dests(index[u.blocks[i].id].cands)]],
                      u.dist, u.pub)
    /\ upd' = [upd EXCEPT ![t].step = "event"]
    /\ overtaken' = (overtaken \/ Overtakes(t))
    /\ UNCHANGED <<chainVars, mapVote, stale, dealt, boots, proofThen, makerVars>>

\* The enrolments are sent to the pool and the block maker is told; the block maker's
\* own call of AddNewBlock returns.
Event(t) ==
    /\ upd[t].step = "event"
    /\ LET b == Last(upd[t].blocks)
       IN /\ pool' = pool \cup upd[t].txs
          /\ PostEvent([block |-> b.id, agr |-> b.agr])
    /\ upd' = [upd EXCEPT ![t] = Idle,
                          ![Other(t)] = IF @ = Idle THEN @ ELSE [@ EXCEPT !.second = FALSE]]
    /\ IF t = "maker" THEN Dispatched(FALSE) ELSE UNCHANGED <<mkr, status>>
    /\ UNCHANGED <<scen, chain, index, epoch, branch, mapVote, chan, history, lastBlock, lastAgr, curAgr, ext>>

-----------------------------------------------------------------------------
\* What delegate d sends for the block a it is enrolled in, and what it publishes after the
\* block a, having accepted the shares of the delegates G.
ShareOf(d, cands) == Enroll(Setup(d, cands[d].box), cands)

Honest(cands) == {d \in DOMAIN cands : Verify(cands[d])}

DistData(a, d) == Distribute(ShareOf(d, index[a].cands))

PubData(a, d, G) ==
    LET s == ShareOf(d, index[a].back)
        given == [e \in DOMAIN s.part |->
                    [s.part[e] EXCEPT !.got = IF e \in G
                        THEN Polynomial(s.part[e].box, s.thresh, s.index, s.weight) ELSE NoShare]]
    IN Publish([s EXCEPT !.part = given])

\* The shares of this node's delegates that others can have accepted.
Dealt(a) == {d \in Local : <<a, d>> \in dealt}

PeerActive(p) ==
    /\ Free /\ p \notin DOMAIN chan.peers
    /\ chan' = D!ActivatePeer(chan, p)
    /\ UNCHANGED <<chainVars, mapVote, upd, history, makerVars>>

PeerDeactive(p) ==
    /\ Free /\ p \in DOMAIN chan.peers /\ epoch < scen.maxEpoch
    /\ chan' = [D!PeerDeactive(chan, p) EXCEPT !.sent = {m \in @ : m[1] # p}]
    /\ epoch' = epoch + 1
    /\ UNCHANGED <<scen, chain, index, pool, branch, mapVote, upd, history, makerVars>>

\* What peer p has: the data of the delegates it holds that are enrolled.
Positions(cands, S) == {i \in 0..(Cardinality(DOMAIN cands) - 1) : Dests(cands)[i + 1] \in S \cap Honest(cands)}

HasDist(p, a) == Positions(index[a].cands, Holds[p] \cap (Remote \cup Dealt(a)))

\* A bulletin of a peer whose last block is the last one of the chain, or the one the
\* channel still takes for the last.
PeerBulletin(p) ==
    /\ Free /\ p \in DOMAIN chan.peers
    /\ \E a \in {Tip} \cup (IF chan.list = <<>> THEN {} ELSE {Head(chan.list)}) :
          LET order == SelectSeq(chan.list, LAMBDA x : x # a /\ HasDist(p, x) # {})
          IN chan' = D!PeerBulletin(chan, p,
                         [anchor |-> a, bmDist |-> HasDist(p, a),
                          bmPub |-> Positions(index[a].back, Holds[p] \cap Remote),
                          map |-> [x \in ToSet(order) |-> HasDist(p, x)], order |-> order])
    /\ chan' # chan
    /\ UNCHANGED <<chainVars, mapVote, upd, history, makerVars>>

\* The answer to a request: nothing, or the data, which CDispatcher hands to the consensus
\* with the height of its anchor.
PeerAnswer(p) ==
    /\ \E m \in chan.sent :
       /\ m[1] = p
       /\ LET ident == m[2]
              a == ident[1]
              d == ident[3]
              received == [chan EXCEPT !.sent = @ \ {m}]
              After(res) == /\ mapVote' = IF D!InRange(chan, ident) THEN res.votes ELSE mapVote
                            /\ chan' = D!PeerData(received, p, ident, FALSE, res.ok)
          IN \/ /\ chan' = D!PeerData(received, p, ident, TRUE, FALSE)
                /\ UNCHANGED mapVote
             \/ /\ ident[2] = "dist"
                /\ After(HandleDistribute(mapVote, a[1] + DISTRIBUTE_INTERVAL + 1, d, DistData(a, d)))
             \/ /\ ident[2] = "pub"
                /\ \E G \in {Remote, Remote \cup Dealt(index[a].below)} :
                      After(HandlePublish(mapVote, a[1] + 1, d, PubData(a, d, G)))
    /\ UNCHANGED <<chainVars, upd, history, makerVars>>

-----------------------------------------------------------------------------
NodeFrame == UNCHANGED <<chainVars, mapVote, chan, upd, stale, dealt, boots, overtaken>>

MakerAgree ==
    /\ Free /\ scen.maker
    /\ GetAgreementStep(GetAgreement(mapVote, lastBlock[1] + 1))
    /\ proofThen' = GetProof(mapVote, lastBlock[1] + 1)
    /\ NodeFrame

MakerPrepare ==
    /\ PrepareBlock(GetProof(mapVote, mkr.prim[1] + 1))
    /\ UNCHANGED proofThen /\ NodeFrame

MakerStep ==
    /\ \/ HandleUpdate
       \/ Free /\ scen.maker /\ (EndWait \/ AgreeAgain \/ GiveUp(Local, scen.work) \/ ExtWake \/ ExtFinish)
    /\ UNCHANGED proofThen /\ NodeFrame

\* CWorldLine::VerifyBlock of the block the maker has prepared.
Acceptable == \/ mkr.prim[1] < INTERVAL - 1
              \/ VerifyProof(index[mkr.prim].back, mkr.agree, mkr.proof)

\* DispatchBlock: the block becomes the last one; or it is refused; or it is no longer on
\* top of the last block and stays aside.
MakerDispatch ==
    /\ Minted(Local, scen.work)
    /\ \/ /\ mkr.prim = Tip /\ Acceptable /\ Height(chain) < scen.maxHeight
          /\ \E R \in Rolls :
                LET b == NewBlock(chain, branch, R, [secrets |-> mkr.agree.secrets, weight |-> mkr.agree.weight])
                IN SetChain("maker", Append(chain, b), 1, 0)
          /\ mkr' = [mkr EXCEPT !.pc = "dispatch"]
          /\ UNCHANGED status
       \/ /\ ~Acceptable \/ mkr.prim # Tip
          /\ Finish(IF ~Acceptable /\ mkr.agree.ballot = <<>> THEN "RESET" ELSE "HOLD")
          /\ UNCHANGED <<scen, chain, index, upd>>
    /\ UNCHANGED <<scen, pool, epoch, branch, mapVote, chan, history, lastBlock, lastAgr, curAgr, ext, evq>>

\* The node stops, at any moment, and starts again: what is not in the block index and the
\* pool is lost, and LoadChain sets the votes up once more.
Restart ==
    /\ Free /\ epoch < scen.maxEpoch
    /\ epoch' = epoch + 1 /\ boots' = boots \cup {epoch + 1}
    /\ mapVote' = LoadChain(chain, epoch + 1)
    /\ chan' = D!EmptyChannel
    /\ upd' = [t \in Threads |-> Idle]
    /\ stale' = {} /\ overtaken' = FALSE /\ proofThen' = <<>>
    /\ UNCHANGED <<scen, chain, index, pool, branch, dealt>>
    /\ MakerRestart(Tip)

Next == \/ NetBlock \/ NetReorg \/ Restart
        \/ \E t \in Threads : Consensus(t) \/ Channel(t) \/ Event(t)
        \/ \E p \in scen.peers : PeerActive(p) \/ PeerDeactive(p) \/ PeerBulletin(p) \/ PeerAnswer(p)
        \/ MakerAgree \/ MakerPrepare \/ MakerStep \/ MakerDispatch

Spec == Init /\ [][Next]_vars

-----------------------------------------------------------------------------
Settled == \A t \in Threads : upd[t].step # "consensus"

\* Between two updates of the consensus, every vote whose enrolment has ended has as its
\* participants those the block at that height enrols, with the threshold that makes a
\* majority of them, and every earlier vote has none: what CMvDelegate::Evolve and Rollback
\* have to keep up through every reorganization and restart.  Not so for a vote
\* whose enrolment ended at a removed block, which Rollback keeps as it is, nor once the
\* updates of two threads reached CConsensus in the wrong order.
VotesFollowChain ==
    Settled /\ ~overtaken =>
        \A x \in DOMAIN mapVote \ stale :
            LET e == x - DISTRIBUTE_INTERVAL - 1
                fresh == Setup(0, mapVote[x].wit.box)
                due == Enroll(fresh, GetBlockDelegateEnrolled(chain, e))
            IN IF e <= Height(chain)
               THEN mapVote[x].wit.part = due.part /\ mapVote[x].wit.thresh = due.thresh
               ELSE mapVote[x].wit.part = <<>>

\* A delegate of this node deals the shares of the box it is enrolled with: the box made
\* after the block the vote began with (CMvDelegate::Evolve) is the one whose seal the chain
\* confirmed.  Not so when the node was started anew after the seal was sent: LoadChain makes
\* other boxes for the same blocks.
SharesFitEnrolment ==
    Settled /\ ~overtaken =>
        \A x \in DOMAIN mapVote \ stale :
            LET e == x - DISTRIBUTE_INTERVAL - 1
                cands == GetBlockDelegateEnrolled(chain, e)
            IN e <= Height(chain) =>
                 \A d \in Local \cap DOMAIN cands :
                     LET mine == mapVote[x].own[d].box
                     IN \/ mine = cands[d].box
                        \/ /\ mine.at = cands[d].box.at
                           /\ \E b \in boots : cands[d].box.gen < b /\ b <= mine.gen

\* No share is counted twice: the shares opened for a dealer are at distinct indices
\* (CMPSecretShare::Collect appends what it is given; that no delegate's data are handed to
\* it twice for one target rests on CDelegatedChannel and on Rollback).
OpenedDistinct ==
    \A x \in DOMAIN mapVote : \A d \in DOMAIN mapVote[x].wit.opened :
        LET seq == mapVote[x].wit.opened[d] IN Cardinality(ToSet(seq)) = Len(seq)

\* The block the maker prepared passes VerifyBlock of any node that has the same chain: its
\* proof leads to its agreement, unless the proof changed after GetAgreement and before
\* GetProof, or the vote is one that VotesFollowChain excepts.
OwnBlockVerifies ==
    mkr.pc = "create" /\ mkr.proof = proofThen /\ ~overtaken /\ mkr.prim[1] + 1 \notin stale
        /\ Settled /\ (\E h \in 0..Height(chain) : BlockAt(chain, h).id = mkr.prim)
    => Acceptable

\* The two maker threads work on the last block they were told of: a primary block is being
\* made (MAKER_RUN) on the last block, and an extended maker at work uses the agreement
\* which the block it refers to was made with (what VerifyBlock compares).
MakersFollow ==
    /\ status = "RUN" => mkr.prim = lastBlock
    /\ ext.pc = "process" => LET agr == index[ext.prim].agr
                             IN ext.agree.secrets = agr.secrets /\ ext.agree.weight = agr.weight

\* A peer is busy exactly when one thing is asked of it, a thing it told of; nothing is asked
\* of two peers; a thing is known from peers that are there, and is in the list of each
\* (CDataScheduler keeps these facts in two maps, and dereferences one with keys of the
\* other).
RequestsAgree ==
    /\ \A i \in DOMAIN chan.known :
          LET k == chan.known[i]
          IN /\ k.by \subseteq DOMAIN chan.peers
             /\ k.asked = 0 \/ k.asked \in k.by
             /\ \A p \in DOMAIN chan.peers : Contains(chan.peers[p].idents, i) <=> p \in k.by
    /\ \A p \in DOMAIN chan.peers :
          LET asked == {i \in DOMAIN chan.known : chan.known[i].asked = p}
          IN /\ Cardinality(asked) = IF chan.peers[p].busy THEN 1 ELSE 0
             /\ \A i \in ToSet(chan.peers[p].idents) : i \in DOMAIN chan.known

\* When every update was passed on, the channel's list holds the last blocks of the chain,
\* newest first, with the delegates each of them enrols, and it holds DISTRIBUTE_INTERVAL + 1
\* of them if it did not begin anew meanwhile (CDelegatedChannelChain::Update, which clears
\* the list when blocks are missing).
ChannelFollows ==
    (\A t \in Threads : upd[t].step \notin {"consensus", "channel"}) /\ ~overtaken =>
        /\ \A i \in DOMAIN chan.list : chan.list[i] = BlockAt(chain, Height(chain) - i + 1).id
        /\ DOMAIN chan.data = ToSet(chan.list)
        /\ \A a \in DOMAIN chan.data : chan.data[a].enrolled = Dests(index[a].cands)

\* Votes, shares and blocks of this node's delegates fit the chain through reorganizations and
\* restarts, with no share counted twice.
VotesKept ==
    VotesFollowChain /\ SharesFitEnrolment /\ OpenedDistinct /\ OwnBlockVerifies /\ MakersFollow

\* The channel of the delegates' data keeps its two maps and its list of blocks in agreement with
\* each other and with the chain.
ChannelKept == RequestsAgree /\ ChannelFollows

=============================================================================
