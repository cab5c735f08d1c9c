----------------------------- MODULE Minting -----------------------------
(***************************************************************************)
(* Minting outside the delegates' own block maker: the work miner and the  *)
(* node's getwork and submitwork (src/miner.cpp, src/rpcmod.cpp,           *)
(* src/service.cpp), the block maker of a fork node                        *)
(* (src/forkblockmaker.cpp), and the rules every minted block is checked   *)
(* by (src/core.cpp, CWorldLine::VerifyBlock).                             *)
(*                                                                         *)
(* A block is known by its id, and its index entry is                      *)
(* [prev, kind, time, h, bits, agr, ref, mint].  The agreement of a block  *)
(* is [rnd, share]: the random bytes and <<delegate, weight>> in the order *)
(* of the map.  What the delegates reveal and prove is left to Delegate;   *)
(* here a primary block comes with its agreement.  A hash is a number      *)
(* below 2^HashBits.  Times are in seconds.                                *)
(***************************************************************************)
EXTENDS Integers, Sequences, FiniteSets, SequencesExt, FiniteSetsExt, Bitwise, TLC

CONSTANTS
    MtExtended,    \* EXTENDED_BLOCK_SPACING
    MtMine,        \* delegates whose keys the fork node has
    MtScripts      \* [part, start, tip, news, now, clock, fetches, lost, halts, txs]: which program
                   \* runs, the chain at the start and the primary blocks that come, the time and
                   \* those the clock takes, how many fetches, lost replies and halts there are, and
                   \* fork -> transactions <<id, time>> of its pool

VARIABLES
    mtLeft,        \* what is left of the script
    mtNow,         \* network time
    mtIndex,       \* id -> index entry
    mtTip,         \* last block of the primary chain
    mtFork,        \* fork -> last block
    mtPool,        \* fork -> transactions <<id, time>> in the pool
    mi,            \* the miner [status, work, fetch, mine, net, svc, last]
    fm             \* the fork block maker [status, ext, last, lastAgr, cur, evq, mk, ex, out, intr]

mtVars == <<mtLeft, mtNow, mtIndex, mtTip, mtFork, mtPool, mi, fm>>

BlockTargetSpacing == 60
ProofOfWorkDecayStep == BlockTargetSpacing
MaxClockDrift == 600
ProofOfWorkLimit == 16
ProofOfWorkInit == 20
ProofOfWorkAdjustCount == 16
ProofOfWorkUpperTarget == (BlockTargetSpacing + BlockTargetSpacing \div 2) + 10
ProofOfWorkLowerTarget == (BlockTargetSpacing + BlockTargetSpacing \div 2) - 10
DelegateThresh == 50

MtNoAgreement == [rnd |-> <<0>>, share |-> <<>>]
NoBlock == "none"

--------------------------------------------------------------------------
(* The rules of the core protocol.                                         *)

IsPrimary(b) == b.kind \in {"genesis", "work", "stake"}

RECURSIVE ChainFrom(_)
ChainFrom(id) ==
    <<id>> \o IF mtIndex[id].prev = NoBlock THEN <<>> ELSE ChainFrom(mtIndex[id].prev)

TimeOf(id) == mtIndex[id].time

(* GetProofOfWorkTarget: the time the last proof-of-work blocks took,      *)
(* the later the heavier.                                                  *)
WorkSpacing(work) ==
    LET n == Min({Len(work), ProofOfWorkAdjustCount})
        weight(i) == 2^(ProofOfWorkAdjustCount - i)
    IN  MapThenSumSet(LAMBDA i : (TimeOf(work[i]) - TimeOf(mtIndex[work[i]].prev)) * weight(i), 1..n)
            \div MapThenSumSet(weight, 1..n)

GetProofOfWorkTarget(prev) ==
    LET work == SelectSeq(ChainFrom(prev), LAMBDA id : mtIndex[id].kind = "work") IN
    IF work = <<>> THEN ProofOfWorkInit
    ELSE LET bits == mtIndex[work[1]].bits
             took == WorkSpacing(work)
         IN  CASE took > ProofOfWorkUpperTarget /\ bits > ProofOfWorkLimit -> bits - 1
               [] took < ProofOfWorkLowerTarget -> bits + 1
               [] OTHER -> bits

GetProofOfWorkRunTimeBits(bits, time, prevTime) ==
    IF time - prevTime < BlockTargetSpacing THEN bits + 1
    ELSE Max({ProofOfWorkLimit, bits - ((time - prevTime - BlockTargetSpacing) \div ProofOfWorkDecayStep)})

HashBits == 30
TargetOfBits(bits) == 2^(HashBits - bits) - 1

(* GetDelegatedBallot: the bytes decide between work and stake, and then   *)
(* draw one delegate for each bit of the weight.                           *)
WeightOfAgr(agr) == FoldLeft(LAMBDA s, e : s + e[2], 0, agr.share)

BitLength(n) == Cardinality({k \in 0..7 : 2^k <= n})

DrawnAt(agr, n) ==
    LET upTo(i) == FoldLeft(LAMBDA s, e : s + e[2], 0, SubSeq(agr.share, 1, i))
    IN  agr.share[Min({i \in DOMAIN agr.share : n < upTo(i)})][1]

GetDelegatedBallot(agr) ==
    LET w    == WeightOfAgr(agr)
        rest == DelegateThresh - w
        work == (rest * rest * rest) \div (DelegateThresh * DelegateThresh)
        sel  == FoldLeft(LAMBDA s, x : s ^^ x, 0, agr.rnd)
        sum(i) == FoldLeft(LAMBDA s, x : s + x, sel, SubSeq(agr.rnd, 1, i))
    IN  IF sel < (work * 256) \div (work + w) THEN <<>>
        ELSE [i \in 1..Min({Len(agr.rnd), BitLength(w)}) |-> DrawnAt(agr, sum(i) % w)]

IsProofOfWork(agr) == GetDelegatedBallot(agr) = <<>>

GetBallot(agr, n) ==
    LET b == GetDelegatedBallot(agr) IN IF b = <<>> THEN NoBlock ELSE b[(n % Len(b)) + 1]

(* ValidateBlock: what does not depend on the chain.                       *)
ValidateVacantBlock(b) == IF b.txs = <<>> /\ b.sig = NoBlock THEN "ok" ELSE "transactions"

(* A signature carries the mint template whose key made it.                *)
CheckBlockSignature(b) == b.sig # NoBlock

ValidateBlock(b) ==
    CASE b.time > mtNow + MaxClockDrift -> "time"
      [] b.kind = "extended" /\ b.txs = <<>> -> "transactions"
      [] b.kind = "vacant" -> ValidateVacantBlock(b)
      [] b.kind = "origin" /\ b.txs # <<>> -> "transactions"
      [] ~IsInjective(b.txs) -> "duplicate"
      [] ~CheckBlockSignature(b) -> "signature"
      [] OTHER -> "ok"

VerifyProofOfWork(b) ==
    LET bits == GetProofOfWorkTarget(b.prev) IN
    CASE b.time < TimeOf(b.prev) -> "time"
      [] b.bits # bits -> "work"
      [] b.hash > TargetOfBits(GetProofOfWorkRunTimeBits(bits, b.time, TimeOf(b.prev))) -> "work"
      [] OTHER -> "ok"

VerifyDelegatedProofOfStake(b) ==
    CASE b.time < TimeOf(b.prev) + BlockTargetSpacing -> "time"
      [] b.time >= TimeOf(b.prev) + (BlockTargetSpacing * 3) \div 2 -> "time"
      [] b.mint # GetDelegatedBallot(b.agr)[1] -> "stake"
      [] OTHER -> "ok"

VerifySubsidiary(b) ==
    LET ref == TimeOf(b.ref) IN
    CASE b.time < TimeOf(b.prev) -> "time"
      [] b.kind = "subsidiary" /\ b.time # ref -> "time"
      [] b.kind = "extended" /\ (b.time <= ref \/ b.time >= ref + BlockTargetSpacing) -> "time"
      [] b.mint # GetBallot(mtIndex[b.ref].agr, (b.time - ref) \div MtExtended) -> "stake"
      [] OTHER -> "ok"

(* VerifyBlock.  The agreement of a block of work is the empty one.        *)
VerifyPrimary(b) ==
    CASE ~IsPrimary(mtIndex[b.prev]) -> "fork"
      [] IsProofOfWork(b.agr) -> VerifyProofOfWork(b)
      [] OTHER -> VerifyDelegatedProofOfStake(b)

VerifyPiggyback(b) ==
    CASE IsPrimary(mtIndex[b.prev]) -> "fork"
      [] b.ref \notin DOMAIN mtIndex -> "stake"
      [] mtIndex[b.ref].agr # b.agr \/ IsProofOfWork(b.agr) -> "stake"
      [] b.kind = "extended" /\ mtIndex[b.prev].kind = "vacant" -> "missing"
      [] b.kind = "extended" /\ mtIndex[b.prev].agr # b.agr -> "stake"
      [] OTHER -> VerifySubsidiary(b)

VerifyBlock(b) ==
    CASE b.kind \in {"genesis", "origin"} -> "fork"
      [] IsPrimary(b) -> VerifyPrimary(b)
      [] b.kind = "vacant" -> "ok"
      [] OTHER -> VerifyPiggyback(b)

Checked(b) == IF ValidateBlock(b) # "ok" THEN ValidateBlock(b) ELSE VerifyBlock(b)

EntryOf(b) ==
    [prev |-> b.prev, kind |-> b.kind, time |-> b.time, bits |-> b.bits, agr |-> b.agr, ref |-> b.ref,
     mint |-> b.mint, h |-> mtIndex[b.prev].h + IF b.kind = "extended" THEN 0 ELSE 1]

--------------------------------------------------------------------------
(* Blocks that come from the network, and the clock.                       *)

(* SyncForkHeight: forks that lag are filled with vacant blocks up to the  *)
(* block before the new one.                                               *)
RECURSIVE Filled(_, _, _, _)
Filled(index, last, h, times) ==
    IF index[last].h + 1 >= h THEN [index |-> index, last |-> last]
    ELSE LET id == "v" \o last
             e  == [prev |-> last, kind |-> "vacant", time |-> times[h - index[last].h], bits |-> 0,
                    agr |-> MtNoAgreement, ref |-> NoBlock, mint |-> NoBlock, h |-> index[last].h + 1]
         IN  Filled(id :> e @@ index, id, h, times)

SyncForkHeight(index, tip, chain) ==
    LET times == [i \in DOMAIN chain |-> index[chain[i]].time]
        one(acc, f) == LET r == Filled(acc.index, acc.fork[f], index[tip].h, times)
                       IN  [index |-> r.index, fork |-> [acc.fork EXCEPT ![f] = r.last]]
    IN  FoldLeft(one, [index |-> index, fork |-> mtFork], SetToSeq(DOMAIN mtFork))

(* AddNewBlock of a primary block posts the block maker's event; after it  *)
(* the dispatcher brings the forks to its height.                          *)
MtNews ==
    LET b == Head(mtLeft.news) IN
    /\ mtLeft.news # <<>> /\ ~mtLeft.sync
    /\ b.prev \in DOMAIN mtIndex /\ Checked(b) = "ok"
    /\ mtIndex' = b.id :> EntryOf(b) @@ mtIndex
    /\ mtTip' = b.id
    /\ mtLeft' = [mtLeft EXCEPT !.news = Tail(@), !.sync = mtLeft.part = "maker"]
    /\ fm' = [fm EXCEPT !.evq = IF mtLeft.part = "maker" THEN Append(@, b.id) ELSE @]
    /\ UNCHANGED <<mtNow, mtFork, mtPool, mi>>

MtSync ==
    /\ mtLeft.sync
    /\ \E r \in {SyncForkHeight(mtIndex, mtTip, ChainFrom(mtTip))} : mtIndex' = r.index /\ mtFork' = r.fork
    /\ mtLeft' = [mtLeft EXCEPT !.sync = FALSE]
    /\ UNCHANGED <<mtNow, mtTip, mtPool, mi, fm>>

MtTick ==
    /\ mtLeft.clock # <<>>
    /\ mtNow' = Head(mtLeft.clock)
    /\ mtLeft' = [mtLeft EXCEPT !.clock = Tail(@)]
    /\ UNCHANGED <<mtIndex, mtTip, mtFork, mtPool, mi, fm>>

--------------------------------------------------------------------------
(* The work miner: a thread fetches work, a thread hashes, and the answers *)
(* come as events.  mi.net holds the request of each nonce, then its       *)
(* answer.                                                                 *)

NoWork == [algo |-> 0, prev |-> NoBlock, prevTime |-> 0, bits |-> 0, time |-> 0]
MtQuiet == [at |-> "none"]

(* SendRequest: a nonce that is in use is refused, which is only logged.   *)
SendRequest(net, nonce, what) ==
    IF net[nonce] = MtQuiet THEN [net EXCEPT ![nonce] = [at |-> "sent", what |-> what]] ELSE net

(* GetHashTarget.  Before the spacing is over the target is the number     *)
(* nBits + 1 itself.                                                       *)
GetHashTargetUnlimited(work, time) ==
    \* Slip: the bits decay without a limit.
    IF time - work.prevTime < BlockTargetSpacing THEN work.bits + 1
    ELSE TargetOfBits(work.bits - ((time - work.prevTime - BlockTargetSpacing) \div ProofOfWorkDecayStep))

GetHashTarget(work, time) ==
    IF time - work.prevTime < BlockTargetSpacing THEN work.bits + 1
    ELSE TargetOfBits(Max({16, work.bits - ((time - work.prevTime - BlockTargetSpacing)
                                               \div ProofOfWorkDecayStep)}))

(* Hashes that differ in which targets they meet.                          *)
HashSamples == {TargetOfBits(b) : b \in {15, 16, 20, 22}}

(* LaunchFetcher: getwork with the block the miner has, then a wait that   *)
(* ends with a time-out or early, when the miner has stopped.              *)
MnGetWork ==
    /\ mi.fetch = "send" /\ mi.status # "exit"
    /\ mtLeft.fetches > 0 /\ mtLeft' = [mtLeft EXCEPT !.fetches = @ - 1]
    /\ mi' = [mi EXCEPT !.net = SendRequest(@, "getwork", [prev |-> mi.work.prev]), !.fetch = "wait"]
    /\ UNCHANGED <<mtNow, mtIndex, mtTip, mtFork, mtPool, fm>>

MnFetchWait ==
    /\ mi.fetch = "wait"
    /\ mi' = [mi EXCEPT !.fetch = "send"]
    /\ UNCHANGED <<mtLeft, mtNow, mtIndex, mtTip, mtFork, mtPool, fm>>

MnFetchExit ==
    /\ mi.fetch = "send" /\ mi.status = "exit"
    /\ mi' = [mi EXCEPT !.fetch = "done"]
    /\ UNCHANGED <<mtLeft, mtNow, mtIndex, mtTip, mtFork, mtPool, fm>>

(* LaunchMiner: the wait for work, one round of hashes, and what follows   *)
(* a hash that was found.                                                  *)
MnTakeWork ==
    /\ mi.mine.pc = "idle" /\ mi.status # "hold"
    /\ mi' = IF mi.status = "exit" THEN [mi EXCEPT !.mine.pc = "done"]
             ELSE IF mi.work.algo # 1 THEN [mi EXCEPT !.status = "hold"]
             ELSE [mi EXCEPT !.mine = [pc |-> "mine", work |-> mi.work, time |-> mi.work.time], !.status = "run"]
    /\ UNCHANGED <<mtLeft, mtNow, mtIndex, mtTip, mtFork, mtPool, fm>>

MnRound ==
    /\ mi.mine.pc = "mine"
    /\ mi' = IF mi.status = "run" THEN [mi EXCEPT !.mine.pc = "round", !.mine.time = Max({@, mtNow})]
             ELSE [mi EXCEPT !.mine.pc = "idle"]
    /\ UNCHANGED <<mtLeft, mtNow, mtIndex, mtTip, mtFork, mtPool, fm>>

SubmittedWork(h) ==
    [prev |-> mi.mine.work.prev, time |-> mi.mine.time, bits |-> mi.mine.work.bits, hash |-> h]

MnFound ==
    /\ mi.mine.pc = "round"
    /\ \E h \in HashSamples :
         /\ h <= GetHashTarget(mi.mine.work, mi.mine.time)
         /\ mi' = [mi EXCEPT !.net = SendRequest(@, "submitwork", SubmittedWork(h)), !.mine.pc = "found"]
    /\ UNCHANGED <<mtLeft, mtNow, mtIndex, mtTip, mtFork, mtPool, fm>>

MnNotFound ==
    /\ mi.mine.pc = "round"
    /\ mi' = [mi EXCEPT !.mine.pc = "mine"]
    /\ UNCHANGED <<mtLeft, mtNow, mtIndex, mtTip, mtFork, mtPool, fm>>

MnRest ==
    /\ mi.mine.pc = "found"
    /\ mi' = [mi EXCEPT !.mine.pc = "mine", !.status = IF @ = "run" THEN "hold" ELSE @]
    /\ UNCHANGED <<mtLeft, mtNow, mtIndex, mtTip, mtFork, mtPool, fm>>

(* RPCGetWork and CService::GetWork, from the last block the service was   *)
(* told of.                                                                *)
WorkOn(prev) ==
    [algo |-> 1, prev |-> prev, prevTime |-> TimeOf(prev), bits |-> GetProofOfWorkTarget(prev),
     time |-> TimeOf(prev) + BlockTargetSpacing - 10]

MnServeGetWork ==
    LET r == mi.net["getwork"] IN
    /\ r.at = "sent"
    /\ mi' = [mi EXCEPT !.net["getwork"] =
                 [at |-> "answered", what |-> IF r.what.prev = mi.svc THEN [same |-> TRUE]
                                              ELSE [same |-> FALSE, work |-> WorkOn(mi.svc)]]]
    /\ UNCHANGED <<mtLeft, mtNow, mtIndex, mtTip, mtFork, mtPool, fm>>

(* RPCSubmitWork and CService::SubmitWork.                                 *)
BlockOfWork(w) ==
    [id |-> "w" \o w.prev, prev |-> w.prev, kind |-> "work", time |-> w.time, bits |-> w.bits,
     hash |-> w.hash, agr |-> MtNoAgreement, ref |-> NoBlock, mint |-> "miner", sig |-> "miner", txs |-> <<>>]

MnServeSubmitWork ==
    LET r == mi.net["submitwork"] IN
    /\ r.at = "sent"
    /\ \E b \in {BlockOfWork(r.what)} : \E err \in {Checked(BlockOfWork(r.what))} :
         /\ mi' = [mi EXCEPT !.net["submitwork"] = [at |-> "answered", what |-> err], !.last = err]
         /\ IF err = "ok" /\ b.id \notin DOMAIN mtIndex
            THEN mtIndex' = b.id :> EntryOf(b) @@ mtIndex /\ mtTip' = IF b.prev = mtTip THEN b.id ELSE mtTip
            ELSE UNCHANGED <<mtIndex, mtTip>>
    /\ UNCHANGED <<mtLeft, mtNow, mtFork, mtPool, fm>>

(* NotifyWorldLineUpdate.                                                  *)
MnNotify ==
    /\ mi.svc # mtTip
    /\ mi' = [mi EXCEPT !.svc = mtTip]
    /\ UNCHANGED <<mtLeft, mtNow, mtIndex, mtTip, mtFork, mtPool, fm>>

(* HandleEvent: an answer, or the failure of a request.                    *)
HandleWork(work) == [mi EXCEPT !.net["getwork"] = MtQuiet, !.work = work, !.status = "reset"]

MnHandleEvent(nonce) ==
    LET r == mi.net[nonce] IN
    /\ r.at = "answered" /\ mi.status # "exit"
    /\ mi' = IF nonce = "getwork" /\ ~r.what.same THEN HandleWork(r.what.work)
             ELSE [mi EXCEPT !.net[nonce] = MtQuiet]
    /\ UNCHANGED <<mtLeft, mtNow, mtIndex, mtTip, mtFork, mtPool, fm>>

MnFails(nonce) ==
    /\ mi.net[nonce] # MtQuiet
    /\ mtLeft.lost > 0 /\ mtLeft' = [mtLeft EXCEPT !.lost = @ - 1]
    /\ mi' = [mi EXCEPT !.net[nonce] = MtQuiet]
    /\ UNCHANGED <<mtNow, mtIndex, mtTip, mtFork, mtPool, fm>>

(* WalleveHandleHalt: events are no longer handled, requests are aborted.  *)
MnHalt ==
    /\ mi.status # "exit" /\ mtLeft.halts > 0
    /\ mi' = [mi EXCEPT !.status = "exit", !.net = [n \in DOMAIN @ |-> MtQuiet]]
    /\ UNCHANGED <<mtLeft, mtNow, mtIndex, mtTip, mtFork, mtPool, fm>>

MnStep ==
    \/ MnGetWork \/ MnFetchWait \/ MnFetchExit
    \/ MnTakeWork \/ MnRound \/ MnFound \/ MnNotFound \/ MnRest
    \/ MnServeGetWork \/ MnServeSubmitWork \/ MnNotify \/ MnHalt
    \/ \E nonce \in {"getwork", "submitwork"} : MnHandleEvent(nonce) \/ MnFails(nonce)

--------------------------------------------------------------------------
(* The block maker of a fork node: one thread mints a subsidiary block on  *)
(* every fork for a new primary block, the other extended blocks in the    *)
(* time slots that follow it.  Both read hashLastBlock and its companions  *)
(* (fm.last), the first thread partly without the lock.                    *)

Others == <<mtLeft, mtNow, mtIndex, mtTip, mtFork, mtPool, mi>>

LastHeight == mtIndex[fm.last].h
LastTime == TimeOf(fm.last)

(* HandleEvent(CMvEventBlockMakerUpdate).                                  *)
FmHandleEvent ==
    /\ fm.evq # <<>>
    /\ fm' = [fm EXCEPT !.evq = Tail(@), !.status = "reset", !.last = Head(fm.evq),
                        !.lastAgr = mtIndex[Head(fm.evq)].agr]
    /\ UNCHANGED Others

(* BlockMakerThreadFunc up to the unlock.                                  *)
FmWake ==
    LET agr == mtIndex[fm.last].agr IN
    /\ fm.mk.pc = "wait" /\ fm.status \notin {"hold", "skip"}
    /\ fm' = CASE fm.status = "exit" -> [fm EXCEPT !.mk.pc = "done"]
               [] IsProofOfWork(agr) -> [fm EXCEPT !.status = "skip", !.mk.served = fm.last]
               [] OTHER -> [fm EXCEPT !.status = "run", !.ext = "run", !.cur = agr,
                                      !.mk = [@ EXCEPT !.pc = "start", !.agr = agr, !.served = fm.last]]
    /\ UNCHANGED Others

(* ProcessDelegatedProofOfStake is called with the height of the moment.   *)
FmStart ==
    /\ fm.mk.pc = "start"
    /\ fm' = [fm EXCEPT !.mk.pc = IF GetDelegatedBallot(fm.mk.agr)[1] \in MtMine THEN "forks" ELSE "finish",
                        !.mk.prevh = LastHeight - 1]
    /\ UNCHANGED Others

(* CreatePiggyback: the reference block and the state of the forks.        *)
FmReadForks ==
    /\ fm.mk.pc = "forks"
    /\ fm' = [fm EXCEPT !.mk.pc = "piggyback", !.mk.ref = fm.last,
                        !.mk.todo = SetToSeq({<<f, mtFork[f]>> : f \in DOMAIN mtFork})]
    /\ UNCHANGED Others

(* A block and its arrangement: the transactions of the pool that are not  *)
(* later than the block, the merkle root and the signature.                *)
ArrangeBlockTx(f, time) == SelectSeq(mtPool[f], LAMBDA tx : tx[2] <= time)

MadeBlock(f, kind, prev, time, agr, ref, who) ==
    [id |-> f \o kind \o ref \o ToString(time), prev |-> prev, kind |-> kind, time |-> time, bits |-> 0,
     hash |-> 0, agr |-> agr, ref |-> ref, mint |-> who, sig |-> who,
     txs |-> ArrangeBlockTx(f, time)]

CreatePiggyback(todo) ==
    LET f    == todo[1]
        last == mtIndex[todo[2]] IN
    IF last.h = fm.mk.prevh /\ last.time < LastTime
    THEN <<MadeBlock(f, "subsidiary", todo[2], LastTime, fm.mk.agr, fm.mk.ref, GetDelegatedBallot(fm.mk.agr)[1])>>
    ELSE <<>>

FmPiggyback ==
    /\ fm.mk.pc = "piggyback" /\ fm.mk.todo # <<>>
    /\ \E made \in {CreatePiggyback(Head(fm.mk.todo))} :
         fm' = IF made = <<>> THEN [fm EXCEPT !.mk.todo = Tail(@)]
               ELSE [fm EXCEPT !.mk.pc = "dispatch", !.mk.block = made]
    /\ UNCHANGED Others

(* DispatchBlock waits for the block's time, and gives up when the maker   *)
(* no longer runs.  AddNewBlock checks the block and moves the fork.       *)
AddNewBlock(f, b) ==
    IF Checked(b) = "ok" /\ b.id \notin DOMAIN mtIndex
    THEN /\ mtIndex' = b.id :> EntryOf(b) @@ mtIndex
         /\ mtFork' = [mtFork EXCEPT ![f] = IF b.prev = @ THEN b.id ELSE @]
         /\ mtPool' = [mtPool EXCEPT ![f] = IF b.prev = mtFork[f]
                                            THEN SelectSeq(@, LAMBDA tx : ~Contains(b.txs, tx)) ELSE @]
    ELSE UNCHANGED <<mtIndex, mtFork, mtPool>>

Outcome(b) == [b |-> b, err |-> Checked(b), h |-> EntryOf(b).h, prev |-> mtIndex[b.prev]]

FmDispatch ==
    LET f == Head(fm.mk.todo)[1]
        b == fm.mk.block[1]
        gone == [fm EXCEPT !.mk.pc = "piggyback", !.mk.todo = Tail(@), !.mk.block = <<>>] IN
    /\ fm.mk.pc = "dispatch"
    /\ \/ /\ b.time > mtNow /\ fm.status # "run"
          /\ fm' = gone
          /\ UNCHANGED <<mtIndex, mtFork, mtPool>>
       \/ /\ b.time <= mtNow
          /\ AddNewBlock(f, b)
          /\ fm' = [gone EXCEPT !.out = Outcome(b)]
    /\ UNCHANGED <<mtLeft, mtNow, mtTip, mi>>

FmFinish ==
    /\ \/ fm.mk.pc = "finish"
       \/ fm.mk.pc = "piggyback" /\ fm.mk.todo = <<>>
    /\ fm' = [fm EXCEPT !.mk.pc = "wait", !.status = IF @ = "run" THEN "hold" ELSE @]
    /\ UNCHANGED Others

(* ExtendedMakerThreadFunc up to the unlock.                               *)
FmExtWake ==
    /\ fm.ex.pc = "wait" /\ fm.ext \notin {"hold", "skip"}
    /\ fm' = CASE fm.ext = "exit" -> [fm EXCEPT !.ex.pc = "done"]
               [] IsProofOfWork(fm.cur) \/ fm.cur # fm.lastAgr -> [fm EXCEPT !.ext = "skip"]
               [] OTHER -> [fm EXCEPT !.ex = [@ EXCEPT !.pc = "start", !.agr = fm.cur, !.prim = fm.last]]
    /\ UNCHANGED Others

(* ProcessExtended: the first slot, and from slot to slot.                 *)
FirstSlot(prim) ==
    TimeOf(prim) + Max({MtExtended,
                        MtExtended * ((mtNow - TimeOf(prim) + MtExtended - 1) \div MtExtended)})

GetAvailableExtendedFork == DOMAIN mtFork

FmExtStart ==
    /\ fm.ex.pc = "start"
    /\ fm' = IF MtMine \cap ToSet(GetDelegatedBallot(fm.ex.agr)) = {} \/ GetAvailableExtendedFork = {}
             THEN [fm EXCEPT !.ex.pc = "finish"]
             ELSE [fm EXCEPT !.ex.pc = "slot", !.ex.time = FirstSlot(fm.ex.prim)]
    /\ UNCHANGED Others

SlotOwner(agr, prim, time) == GetBallot(agr, (time - TimeOf(prim)) \div MtExtended)

FmExtSlot ==
    LET mine == SlotOwner(fm.ex.agr, fm.ex.prim, fm.ex.time) \in MtMine IN
    /\ fm.ex.pc = "slot"
    /\ fm' = CASE fm.ex.time - TimeOf(fm.ex.prim) >= BlockTargetSpacing -> [fm EXCEPT !.ex.pc = "finish"]
               [] mine -> [fm EXCEPT !.ex.pc = "sleep"]
               [] OTHER -> [fm EXCEPT !.ex.time = @ + MtExtended]
    /\ UNCHANGED Others

(* Wait(nSeconds, hashPrimaryBlock): ends with a new primary block, with   *)
(* the maker's exit, or when the slot's time has come.                     *)
FmExtSleep ==
    LET over == fm.ex.prim # fm.last \/ fm.status = "exit" IN
    /\ fm.ex.pc = "sleep" /\ (over \/ mtNow >= fm.ex.time)
    /\ fm' = IF over THEN [fm EXCEPT !.ex.pc = "finish"]
             ELSE [fm EXCEPT !.ex.pc = "create", !.ex.todo = SetToSeq(GetAvailableExtendedFork)]
    /\ UNCHANGED Others

(* CreateExtended, on one fork.                                            *)
CreateExtended(f) ==
    LET last == mtIndex[mtFork[f]]
        who  == SlotOwner(fm.ex.agr, fm.ex.prim, fm.ex.time)
        b    == MadeBlock(f, "extended", mtFork[f], fm.ex.time, fm.ex.agr, fm.ex.prim, who)
    IN  IF /\ mtPool[f] # <<>> /\ last.h = mtIndex[fm.ex.prim].h /\ last.time < fm.ex.time
           /\ b.txs # <<>>
        THEN <<b>> ELSE <<>>

FmExtCreate ==
    /\ fm.ex.pc = "create" /\ fm.ex.todo # <<>>
    /\ \E made \in {CreateExtended(Head(fm.ex.todo))} :
         IF made = <<>>
         THEN fm' = [fm EXCEPT !.ex.todo = Tail(@)] /\ UNCHANGED <<mtIndex, mtFork, mtPool>>
         ELSE /\ AddNewBlock(Head(fm.ex.todo), made[1])
              /\ fm' = [fm EXCEPT !.ex.todo = Tail(@), !.out = Outcome(made[1])]
    /\ UNCHANGED <<mtLeft, mtNow, mtTip, mi>>

FmExtNext ==
    /\ fm.ex.pc = "create" /\ fm.ex.todo = <<>>
    /\ fm' = [fm EXCEPT !.ex.pc = "slot", !.ex.time = @ + MtExtended]
    /\ UNCHANGED Others

(* The thread goes to rest whatever was asked of it meanwhile.             *)
FmExtFinish ==
    /\ fm.ex.pc = "finish"
    /\ fm' = [fm EXCEPT !.ex.pc = "wait", !.ext = "hold"]
    /\ UNCHANGED Others

(* WalleveHandleHalt: both are told to exit and interrupted in their waits.*)
FmHalt ==
    /\ ~fm.intr /\ mtLeft.halts > 0
    /\ fm' = [fm EXCEPT !.status = "exit", !.ext = "exit", !.intr = TRUE]
    /\ UNCHANGED Others

FmInterrupted ==
    /\ fm.intr
    /\ \/ /\ fm.mk.pc = "wait" \/ (fm.mk.pc = "dispatch" /\ fm.mk.block[1].time > mtNow)
          /\ fm' = [fm EXCEPT !.mk.pc = "done"]
       \/ fm.ex.pc \in {"wait", "sleep"} /\ fm' = [fm EXCEPT !.ex.pc = "done"]
    /\ UNCHANGED Others

(* Another delegate's subsidiary block comes.                              *)
FmOther(f) ==
    \E b \in {[id |-> f \o "other" \o mtTip, prev |-> mtFork[f], kind |-> "subsidiary", time |-> TimeOf(mtTip),
               bits |-> 0, hash |-> 0, agr |-> mtIndex[mtTip].agr, ref |-> mtTip,
               mint |-> GetBallot(mtIndex[mtTip].agr, 0), sig |-> GetBallot(mtIndex[mtTip].agr, 0), txs |-> <<>>]} :
       /\ b.mint \notin MtMine /\ mtIndex[mtFork[f]].h = mtIndex[mtTip].h - 1
       /\ Checked(b) = "ok" /\ b.id \notin DOMAIN mtIndex
       /\ AddNewBlock(f, b)
       /\ UNCHANGED <<mtLeft, mtNow, mtTip, mi, fm>>

FmStep ==
    \/ FmHandleEvent \/ FmWake \/ FmStart \/ FmReadForks \/ FmPiggyback \/ FmDispatch \/ FmFinish
    \/ FmExtWake \/ FmExtStart \/ FmExtSlot \/ FmExtSleep \/ FmExtCreate \/ FmExtNext \/ FmExtFinish
    \/ FmHalt \/ FmInterrupted
    \/ \E f \in DOMAIN mtFork : FmOther(f)

--------------------------------------------------------------------------
(* The chain a script starts with: the genesis block, primary blocks on it *)
(* and the origin blocks of the forks at the height of the last.           *)
Started(scr) ==
    LET one(acc, e) == e.id :> e.entry @@ acc IN FoldLeft(one, <<>>, scr.start)

MtStart(scr) ==
    /\ mtLeft = [sync |-> FALSE] @@ scr
    /\ mtNow = mtLeft.now
    /\ mtIndex = Started(mtLeft)
    /\ mtTip = mtLeft.tip
    /\ mtFork = [f \in DOMAIN mtLeft.txs |-> f]
    /\ mtPool = mtLeft.txs
    /\ mi = [status |-> IF mtLeft.part = "miner" THEN "run" ELSE "exit", work |-> NoWork,
             fetch |-> IF mtLeft.part = "miner" THEN "send" ELSE "done",
             mine |-> [pc |-> IF mtLeft.part = "miner" THEN "idle" ELSE "done", work |-> NoWork, time |-> 0],
             net |-> [n \in {"getwork", "submitwork"} |-> MtQuiet], svc |-> mtLeft.tip, last |-> "ok"]
    /\ fm = [status |-> "hold", ext |-> "hold", last |-> mtLeft.tip, lastAgr |-> MtNoAgreement, cur |-> MtNoAgreement,
             evq |-> <<>>, intr |-> FALSE, out |-> <<>>,
             mk |-> [pc |-> IF mtLeft.part = "maker" THEN "wait" ELSE "done", agr |-> MtNoAgreement, prevh |-> 0,
                     ref |-> NoBlock, todo |-> <<>>, block |-> <<>>, served |-> mtLeft.tip],
             ex |-> [pc |-> IF mtLeft.part = "maker" THEN "wait" ELSE "done", agr |-> MtNoAgreement,
                     prim |-> NoBlock, time |-> 0, todo |-> <<>>]]
MtInit == \E scr \in MtScripts : MtStart(scr)

MtStep ==
    \/ MtNews \/ MtSync \/ MtTick
    \/ mtLeft.part = "miner" /\ MnStep
    \/ mtLeft.part = "maker" /\ FmStep

--------------------------------------------------------------------------
(* Every proof of work the miner submits is accepted: the target it hashes *)
(* against (CMiner::GetHashTarget) is never easier than the one            *)
(* VerifyProofOfWork computes from the chain, whatever blocks and work     *)
(* arrived while it hashed.                                                *)
MnWorkAccepted == mi.last = "ok"

(* A miner that runs hashes the work of the last answer: HandleEvent and   *)
(* LaunchMiner agree, through nMinerStatus, on which work is current.      *)
MnWorksOnCurrent ==
    mi.status = "run" /\ mi.mine.pc \in {"mine", "round", "found"} => mi.mine.work = mi.work

(* BlockMakerThreadFunc sleeps only when it has looked at the last primary *)
(* block it was told of: no update is lost while it mints on the forks.    *)
FmFollows ==
    fm.mk.pc = "wait" /\ fm.status \in {"hold", "skip"} => fm.mk.served = fm.last

(* A block the fork maker mints and the node accepts has the height of the *)
(* primary block it refers to, although the thread reads height, hash and  *)
(* time without the lock.  An extended block is refused only when the      *)
(* fork's last block was not minted for the same agreement.                *)
FmBlocksFit ==
    fm.out # <<>> =>
        /\ fm.out.err = "ok" => fm.out.h = mtIndex[fm.out.b.ref].h
        /\ fm.out.b.kind = "extended" /\ fm.out.prev.agr = fm.out.b.agr => fm.out.err = "ok"


\* What miners and makers work on and hand in fits the chain they were told of: proof of work and
\* extended or subsidiary blocks alike.
MtBlocksFit == MnWorkAccepted /\ MnWorksOnCurrent /\ FmFollows /\ FmBlocksFit
====
