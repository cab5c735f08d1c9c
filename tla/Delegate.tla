------------------------------ MODULE Delegate -------------------------------
(***************************************************************************)
(* CMvDelegate (delegate/mvdelegate.cpp) and the part of CConsensus that       *)
(* drives it (src/consensus.cpp): the votes a node holds, one for each target  *)
(* height x.  The vote for x is set up by the block at height x - INTERVAL,    *)
(* enrolled and distributed by the one at x - DISTRIBUTE_INTERVAL - 1, and     *)
(* published by the one at x - 1.                                              *)
(*                                                                           *)
(* A block is [id: <<height, branch>>, certs: the enrolments it confirms], an   *)
(* enrolment is [anchor: a block's id, by: the delegate, box].  A chain is a    *)
(* sequence of blocks, the one at height h in place h + 1.                      *)
(***************************************************************************)
EXTENDS Integers, SequencesExt, TLC

-----------------------------------------------------------------------------
(* The publicly verifiable secret sharing of mpvss/ and the vote that the     *)
(* delegates of one target height hold with it (CMPSecretShare,               *)
(* CMvDelegateVote).  Delegates are numbers, ordered as their destinations    *)
(* are in the code's maps.                                                    *)
(*                                                                           *)
(* The elliptic curve arithmetic is abstracted to what it guarantees.  A box   *)
(* (CMPOpenedBox, its sealed form CMPSealedBox) is named by who made it, after *)
(* which block, and in which epoch of the node; a share is the value of the    *)
(* polynomial of a box with a threshold at an index, so it verifies exactly    *)
(* when these are the ones the verifier computed with; a share is sent under   *)
(* the shared key of two boxes; a message is signed with the sender's box.     *)

Broken == -1            \* the epoch of a box whose proof of knowledge is wrong

\* CMPCandidate::Verify: the sealed box carries a signature of its owner's name.
Verify(cand) == cand.box.gen # Broken

NoShare == [n |-> 0]

\* CMPSecretShare: ident 0 is the witness, which has no box of its own.
Setup(ident, box) == [ident |-> ident, box |-> box, index |-> 0, weight |-> 0, thresh |-> 0,
                      last |-> 0, part |-> <<>>, opened |-> <<>>]

IsEnrolled(s) == s.index # 0

-----------------------------------------------------------------------------
\* Every candidate takes as many indices as its weight, in the order of the names.  A
\* participant that is there already keeps its place and takes none.  A delegate does
\* not compare its own candidacy with the box it holds.
Enroll(s, cands) ==
    LET Counted == {d \in DOMAIN cands : \/ d = s.ident
                                         \/ d \notin DOMAIN s.part /\ Verify(cands[d])}
        IndexOf(d) == 1 + MapThenSumSet(LAMBDA e : cands[e].weight, {e \in Counted : e < d})
        last == 1 + MapThenSumSet(LAMBDA e : cands[e].weight, Counted)
    IN [s EXCEPT !.part = [d \in Counted \ {s.ident} |->
                               [index |-> IndexOf(d), weight |-> cands[d].weight,
                                box |-> cands[d].box, got |-> NoShare]] @@ @,
                 !.index = IF s.ident \in Counted THEN IndexOf(s.ident) ELSE @,
                 !.weight = IF s.ident \in Counted THEN cands[s.ident].weight ELSE @,
                 !.thresh = (last - 1) \div 2 + 1,
                 !.last = last]

\* CMPOpenedBox::Polynomial at n indices from at on.
Polynomial(box, thresh, at, n) == [box |-> box, thresh |-> thresh, at |-> at, n |-> n]

\* CMPSealedBox::VerifyPolynomial against the values computed by PrecalcPolynomial.
VerifyShare(s, dealer, at, share) ==
    /\ at + share.n - 1 < s.last
    /\ share = Polynomial(s.part[dealer].box, s.thresh, at, share.n)

\* The shares sent to the participants: the value and the two boxes of the shared key.
Distribute(s) ==
    [from |-> s.ident, box |-> s.box,
     shares |-> [d \in DOMAIN s.part |->
         [key |-> {s.box, s.part[d].box},
          val |-> Polynomial(s.box, s.thresh, s.part[d].index, s.part[d].weight)]]]

\* AcceptShare; a share that does not verify clears one accepted before.
Accept(s, from, share) ==
    LET fits == share.val.n = s.weight /\ from \in DOMAIN s.part
        ok == /\ share.key = {s.box, s.part[from].box}
              /\ VerifyShare(s, from, s.index, share.val)
    IN IF ~fits THEN [ok |-> FALSE, s |-> s]
       ELSE [ok |-> ok, s |-> [s EXCEPT !.part[from].got = IF ok THEN share.val ELSE NoShare]]

\* The shares accepted, and the delegate's own.
Publish(s) ==
    [from |-> s.ident, box |-> s.box,
     shares |-> [d \in {e \in DOMAIN s.part : s.part[e].got # NoShare} |-> s.part[d].got]
                @@ (s.ident :> Polynomial(s.box, s.thresh, s.index, s.weight))]

\* VerifySignature of a message by the box its sender enrolled.
VerifySignature(s, data) ==
    data.from \in DOMAIN s.part /\ s.part[data.from].box = data.box

Opened(s, d) == IF d \in DOMAIN s.opened THEN s.opened[d] ELSE <<>>

\* The indices of the shares opened for a dealer when n more arrive from index at on.
Open(seq, at, n, thresh) ==
    seq \o [i \in 1..Min({n, Max({0, thresh - Len(seq)})}) |-> at + i - 1]

\* Collect by the witness.
Collect(s, from, shares) ==
    LET p == s.part[from]
        ok == /\ from \in DOMAIN s.part
              /\ \A d \in DOMAIN shares : /\ shares[d].n = p.weight
                                          /\ d \in DOMAIN s.part
                                          /\ VerifyShare(s, d, p.index, shares[d])
    IN [ok |-> ok,
        s |-> IF ok THEN [s EXCEPT !.opened = [d \in DOMAIN shares |->
                                     Open(Opened(s, d), p.index, p.weight, s.thresh)] @@ @]
              ELSE s]

\* Reconstruct: the dealers whose polynomial can be interpolated, with their boxes.
Reconstruct(s) == {d \in DOMAIN s.opened : Len(s.opened[d]) = s.thresh /\ d \in DOMAIN s.part}

-----------------------------------------------------------------------------
\* CMvDelegateVote.  wit is the witness, own the delegates of this node.
NewVote(boxes) == [wit |-> Setup(0, [by |-> 0, at |-> <<0, 0>>, gen |-> Broken]),
                   own |-> [d \in DOMAIN boxes |-> Setup(d, boxes[d])],
                   collected |-> <<>>]

VoteEnroll(v, cands) == [v EXCEPT !.wit = Enroll(@, cands),
                                  !.own = [d \in DOMAIN @ |-> Enroll(@[d], cands)]]

\* The data of the node's delegates that are enrolled.
Enrolled(v) == {d \in DOMAIN v.own : IsEnrolled(v.own[d])}
VoteDistribute(v) == [d \in Enrolled(v) |-> Distribute(v.own[d])]
VotePublish(v) == [d \in Enrolled(v) |-> Publish(v.own[d])]

\* The delegates take their shares in order up to the first that does not accept it.
VoteAccept(v, from, data) ==
    LET signed == data.from = from /\ VerifySignature(v.wit, data)
        takers == {d \in Enrolled(v) : d \in DOMAIN data.shares}
        Res(d) == Accept(v.own[d], from, data.shares[d])
        failing == {d \in takers : ~Res(d).ok}
    IN IF ~signed THEN [ok |-> FALSE, v |-> v]
       ELSE [ok |-> failing = {},
             v |-> [v EXCEPT !.own = [d \in DOMAIN @ |->
                       IF d \in takers /\ \A e \in failing : d <= e THEN Res(d).s ELSE @[d]]]]

VoteCollect(v, from, data) ==
    LET res == Collect(v.wit, from, data.shares)
    IN IF data.from = from /\ VerifySignature(v.wit, data) /\ res.ok
       THEN [ok |-> TRUE, v |-> [v EXCEPT !.wit = res.s, !.collected = Append(@, data)]]
       ELSE [ok |-> FALSE, v |-> v]

\* GetAgreement: the hash of the secrets is that of the dealers and their boxes.
VoteAgreement(v) ==
    LET S == Reconstruct(v.wit)
    IN [secrets |-> {v.wit.part[d].box : d \in S},
        weight  |-> MapThenSumSet(LAMBDA d : v.wit.part[d].weight, S),
        ballot  |-> S]

\* CMvDelegateVerify::VerifyProof: a vote enrolled with the same candidates collects the
\* published data of the proof, all of it, and comes to the same agreement.
VerifyProof(cands, agreement, proof) ==
    LET Take(r, data) == IF r.ok THEN VoteCollect(r.v, data.from, data) ELSE r
        all == FoldLeft(Take, [ok |-> TRUE, v |-> VoteEnroll(NewVote(<<>>), cands)], proof)
    IN \/ agreement.secrets = {} /\ agreement.weight = 0
       \/ all.ok /\ VoteAgreement(all.v).secrets = agreement.secrets

-----------------------------------------------------------------------------
CONSTANTS
    Delegates,              \* 1..n
    Local,                  \* those this node mints for
    Weight,                 \* [Delegates -> Nat \ {0}], the share of the voting power
    DISTRIBUTE_INTERVAL,    \* MV_CONSENSUS_DISTRIBUTE_INTERVAL
    ENROLL_INTERVAL         \* MV_CONSENSUS_ENROLL_INTERVAL

INTERVAL == DISTRIBUTE_INTERVAL + ENROLL_INTERVAL + 1

Height(ch) == Len(ch) - 1
BlockAt(ch, h) == ch[h + 1]

\* CWorldLine::GetBlockDelegateEnrolled for the block at height h: the enrolments in the
\* last ENROLL_INTERVAL blocks that are anchored below them, the oldest of each delegate.
GetBlockDelegateEnrolled(ch, h) ==
    IF h < ENROLL_INTERVAL THEN <<>>
    ELSE LET anchor == BlockAt(ch, h - ENROLL_INTERVAL).id
             range == (h - ENROLL_INTERVAL + 1)..h
             At(i, d) == {c \in BlockAt(ch, i).certs : c.anchor = anchor /\ c.by = d}
             enrolled == {d \in Delegates : \E i \in range : At(i, d) # {}}
             First(d) == CHOOSE i \in range : /\ At(i, d) # {}
                                              /\ \A j \in range : At(j, d) # {} => i <= j
         IN [d \in enrolled |-> [weight |-> Weight[d], box |-> (CHOOSE c \in At(First(d), d) : TRUE).box]]

-----------------------------------------------------------------------------
\* CMvDelegate::Evolve in three parts.  The vote for target is set up with the boxes made
\* now; the vote whose enrolment ends is given the candidates; and the result has the votes
\* and what the node is to send.
SetUp(mv, target, boxes) ==
    (target :> IF target \in DOMAIN mv
               THEN [mv[target] EXCEPT !.own = [d \in Local |-> Setup(d, boxes[d])] @@ @]
               ELSE NewVote(boxes)) @@ mv

EndEnroll(mv, end, cands) ==
    IF end \in DOMAIN mv THEN [mv EXCEPT ![end] = VoteEnroll(@, cands)] ELSE mv

ToSend(mv, h, boxes) ==
    [votes  |-> mv,
     enroll |-> boxes,
     dist   |-> IF h + DISTRIBUTE_INTERVAL + 1 \in DOMAIN mv
                THEN VoteDistribute(mv[h + DISTRIBUTE_INTERVAL + 1]) ELSE <<>>,
     pub    |-> IF h + 1 \in DOMAIN mv THEN VotePublish(mv[h + 1]) ELSE <<>>]

\* For block b at height h, in the given epoch, which stands for the randomness of the boxes.
Evolve(mv, h, b, cands, epoch) ==
    LET boxes == [d \in Local |-> [by |-> d, at |-> b.id, gen |-> epoch]]
    IN ToSend(EndEnroll(SetUp(mv, h + INTERVAL, boxes), h + DISTRIBUTE_INTERVAL + 1, cands), h, boxes)

\* Slip: only the votes that were not enrolled yet are given up.
RollbackSetUpOnly(mv, from, to) == [x \in {y \in DOMAIN mv : y <= to + INTERVAL} |-> mv[x]]

\* CMvDelegate::Rollback
Rollback(mv, from, to) ==
    LET erased == {x \in DOMAIN mv : \/ x > to + INTERVAL
                                     \/ x > to + DISTRIBUTE_INTERVAL /\ x <= from + DISTRIBUTE_INTERVAL
                                     \/ x > to + 1 /\ x <= from + 1
                                     \/ x = from + 1}
    IN [x \in DOMAIN mv \ erased |-> mv[x]]

HandleDistribute(mv, x, from, data) ==
    IF x \in DOMAIN mv
    THEN LET r == VoteAccept(mv[x], from, data) IN [ok |-> r.ok, votes |-> [mv EXCEPT ![x] = r.v]]
    ELSE [ok |-> FALSE, votes |-> mv]

HandlePublish(mv, x, from, data) ==
    IF x \in DOMAIN mv
    THEN LET r == VoteCollect(mv[x], from, data) IN [ok |-> r.ok, votes |-> [mv EXCEPT ![x] = r.v]]
    ELSE [ok |-> FALSE, votes |-> mv]

NoAgreement == [secrets |-> {}, weight |-> 0, ballot |-> {}]
GetAgreement(mv, x) == IF x \in DOMAIN mv THEN VoteAgreement(mv[x]) ELSE NoAgreement
GetProof(mv, x) == IF x \in DOMAIN mv THEN mv[x].collected ELSE <<>>

-----------------------------------------------------------------------------
\* The votes after the blocks of ch at heights from to upto, evolved one after the other.
EvolveRange(mv, ch, from, upto, epoch) ==
    FoldLeft(LAMBDA v, h : Evolve(v, h, BlockAt(ch, h), GetBlockDelegateEnrolled(ch, h), epoch).votes,
             mv, [i \in 1..(upto - from + 1) |-> from + i - 1])

\* CConsensus::LoadChain
LoadChain(ch, epoch) ==
    EvolveRange(<<>>, ch, Max({0, Height(ch) - ENROLL_INTERVAL + 1}), Height(ch), epoch)

\* The data of the node's own delegates are handled as those of the others are.
HandleAll(mv, Handle(_, _, _, _), x, data) ==
    FoldLeft(LAMBDA v, d : Handle(v, x, d, data[d]).votes, mv, SetToSortSeq(DOMAIN data, <))

\* The data of the node's own delegates for the block at height h.
HandleOwn(res, h) ==
    [res EXCEPT !.votes = HandleAll(HandleAll(@, HandleDistribute, h + DISTRIBUTE_INTERVAL + 1, res.dist),
                                    HandlePublish, h + 1, res.pub)]

\* CConsensus::PrimaryUpdate: ch is the chain up to the block that the update ends with,
\* of which the last added blocks are new, and removed blocks were above them.
ConsensusUpdate(mv, ch, added, removed, epoch) ==
    LET last == Height(ch)
        start == last - added
        kept == IF removed > 0 THEN Rollback(mv, start + removed, start) ELSE mv
    IN HandleOwn(Evolve(EvolveRange(kept, ch, start + 1, last - 1, epoch), last,
                        BlockAt(ch, last), GetBlockDelegateEnrolled(ch, last), epoch), last)
=============================================================================
