-------------------------- MODULE DelegatedChannel ---------------------------
(***************************************************************************)
(* CDelegatedChannel (src/delegatedchn.cpp): how a node learns from its peers  *)
(* which shares the delegates have distributed and published, and asks for   *)
(* those it has not.  Every handler runs with rwPeer held, so each is an     *)
(* operator from one channel to the next.  What the node announces in turn,  *)
(* which has no effect on the rest of the channel, is left out.              *)
(*                                                                           *)
(* Shares are named by the block they belong to (the anchor), their kind and     *)
(* the delegate.  A bitmap is the set of the positions whose bit is set.         *)
(***************************************************************************)
EXTENDS Integers, FiniteSets, SequencesExt

CONSTANTS
    DISTRIBUTE_INTERVAL,    \* MV_CONSENSUS_DISTRIBUTE_INTERVAL
    IntBits                 \* the width of int, 32

EmptyData == [enrolled |-> <<>>, dist |-> {}, pub |-> {}]

NewPeer == [idents |-> <<>>, busy |-> FALSE]

\* CDelegatedChannelChain (list is newest first), CDataScheduler, and the requests sent to
\* the peers.
EmptyChannel == [list |-> <<>>, data |-> <<>>, last |-> -1,
                 peers |-> <<>>, known |-> <<>>, sent |-> {}]

-----------------------------------------------------------------------------
\* CDelegatedChannelChainData: data.count(...) is shifted as size_t, but the mask of
\* GetKnownData as int: its sign bit selects every higher position.
GetBitmap(d, have) == {i \in 0..(Len(d.enrolled) - 1) : d.enrolled[i + 1] \in have}

Masked(bitmap, i) ==
    LET j == i % IntBits IN IF j = IntBits - 1 THEN \E k \in bitmap : k >= j ELSE j \in bitmap

GetKnownData(d, bitmap) ==
    {d.enrolled[i + 1] : i \in {k \in 0..(Len(d.enrolled) - 1) : Masked(bitmap, k)}}

DataOf(c, a) == IF a \in DOMAIN c.data THEN c.data[a] ELSE EmptyData

FullList(c, a) == Len(c.list) = DISTRIBUTE_INTERVAL + 1 /\ a = Head(c.list)

GetDistributeBitmap(c, a) == GetBitmap(DataOf(c, a), DataOf(c, a).dist)
GetPublishBitmap(c, a) ==
    IF FullList(c, a) THEN GetBitmap(DataOf(c, Last(c.list)), DataOf(c, a).pub) ELSE {}

AskForDistribute(c, a, bitmap) ==
    GetKnownData(DataOf(c, a), bitmap \ GetDistributeBitmap(c, a))
AskForPublish(c, a, bitmap) ==
    IF FullList(c, a) THEN GetKnownData(DataOf(c, Last(c.list)), bitmap \ GetPublishBitmap(c, a)) ELSE {}

IsOutOfDistributeRange(c, a) == a \notin DOMAIN c.data
IsOutOfPublishRange(c, a) == c.list = <<>> \/ Head(c.list) # a

\* CDelegatedChannelChain::Update.  enrolled are the blocks added, oldest first; dist and
\* pub the delegates of this node whose data belong to the newest of them.
ChainUpdate(c, start, enrolled, dist, pub) ==
    LET behind == c.last < start
        drop == IF behind THEN Len(c.list) ELSE Min({Len(c.list), Max({0, c.last - start})})
        kept == SubSeq(c.list, drop + 1, Len(c.list))
        old == [a \in {x \in DOMAIN c.data : ~behind /\ ~Contains(SubSeq(c.list, 1, drop), x)} |-> c.data[a]]
        pushed == Reverse([i \in DOMAIN enrolled |-> enrolled[i].id]) \o kept
        list == SubSeq(pushed, 1, Min({Len(pushed), DISTRIBUTE_INTERVAL + 1}))
        Add(d, e) == [d EXCEPT !.enrolled = @ \o e.dests]
        fresh == [a \in {e.id : e \in ToSet(enrolled)} |->
                     Add(IF a \in DOMAIN old THEN old[a] ELSE EmptyData,
                         CHOOSE e \in ToSet(enrolled) : e.id = a)]
        data == fresh @@ old
        filled == [data EXCEPT ![Head(list)] = [@ EXCEPT !.dist = @ \cup dist, !.pub = @ \cup pub]]
        trimmed == SubSeq(pushed, Len(list) + 1, Len(pushed))
    IN [c EXCEPT !.list = list, !.last = start + Len(enrolled),
                 !.data = [a \in {x \in DOMAIN filled : ~Contains(trimmed, x)} |-> filled[a]]]

-----------------------------------------------------------------------------
\* CDataScheduler.  known[ident] is [by: the peers that have it, asked: the one that was
\* asked, or 0].
KnownOf(c, ident) == IF ident \in DOMAIN c.known THEN c.known[ident] ELSE [by |-> {}, asked |-> 0]
GetAssignedPeer(c, ident) == KnownOf(c, ident).asked

AddKnownData(c, p, ident) ==
    IF p \in DOMAIN c.peers /\ p \notin KnownOf(c, ident).by
    THEN [c EXCEPT !.known = (ident :> [KnownOf(c, ident) EXCEPT !.by = @ \cup {p}]) @@ @,
                   !.peers[p].idents = Append(@, ident)]
    ELSE c

\* Slip: the peer that was asked is not freed.
RemoveKnownDataBusy(c, ident) ==
    [c EXCEPT !.peers = [p \in DOMAIN @ |-> IF p \in c.known[ident].by
                                            THEN [c.peers[p] EXCEPT !.idents = Remove(@, ident)] ELSE @[p]],
              !.known = [i \in DOMAIN @ \ {ident} |-> @[i]]]

RemoveKnownData(c, ident) ==
    [c EXCEPT !.peers = [p \in DOMAIN @ |->
                  [c.peers[p] EXCEPT !.idents = IF p \in c.known[ident].by THEN Remove(@, ident) ELSE @,
                                     !.busy = @ /\ p # c.known[ident].asked]],
              !.known = [i \in DOMAIN @ \ {ident} |-> @[i]]]

ActivatePeer(c, p) == IF p \in DOMAIN c.peers THEN c ELSE [c EXCEPT !.peers = (p :> NewPeer) @@ @]

\* Slip: what the peer was asked for stays with it.
DeactivatePeerOnly(c, p) ==
    [c EXCEPT !.known = [i \in DOMAIN @ |-> IF Contains(c.peers[p].idents, i)
                                            THEN [c.known[i] EXCEPT !.by = @ \ {p}] ELSE @[i]],
              !.peers = [q \in DOMAIN @ \ {p} |-> @[q]]]

DeactivatePeer(c, p) ==
    [c EXCEPT !.known = [i \in DOMAIN @ |->
                  IF Contains(c.peers[p].idents, i)
                  THEN [by |-> @[i].by \ {p}, asked |-> IF @[i].asked = p THEN 0 ELSE @[i].asked]
                  ELSE @[i]],
              !.peers = [q \in DOMAIN @ \ {p} |-> @[q]]]

\* DispatchGetDelegated: each idle peer, in turn, is asked for the first thing it has that
\* nobody was asked for and whose anchor is in the list.
DispatchGetDelegated(c) ==
    LET Ask(s, p) ==
            LET free == SelectSeq(s.peers[p].idents,
                            LAMBDA i : Contains(s.list, i[1]) /\ GetAssignedPeer(s, i) = 0)
            IN IF s.peers[p].busy \/ free = <<>> THEN s
               ELSE [s EXCEPT !.peers[p].busy = TRUE,
                              !.known[free[1]].asked = p,
                              !.sent = @ \cup {<<p, free[1]>>}]
    IN FoldLeft(Ask, c, SetToSortSeq(DOMAIN c.peers, <))

-----------------------------------------------------------------------------
\* The handlers.
PeerDeactive(c, p) ==
    LET gone == IF p \in DOMAIN c.peers THEN DeactivatePeer(c, p) ELSE c
    IN DispatchGetDelegated(gone)

AddPeerKnown(c, p, a, kind, dests) ==
    FoldLeft(LAMBDA s, d : AddKnownData(s, p, <<a, kind, d>>), c, SetToSortSeq(dests, <))

PeerBulletin(c, p, b) ==
    LET one == AddPeerKnown(c, p, b.anchor, "dist", AskForDistribute(c, b.anchor, b.bmDist))
        two == AddPeerKnown(one, p, b.anchor, "pub", AskForPublish(one, b.anchor, b.bmPub))
        all == FoldLeft(LAMBDA s, a : AddPeerKnown(s, p, a, "dist", AskForDistribute(s, a, b.map[a])),
                        two, b.order)
    IN DispatchGetDelegated(all)

InRange(c, ident) == IF ident[2] = "dist" THEN ~IsOutOfDistributeRange(c, ident[1])
                                          ELSE ~IsOutOfPublishRange(c, ident[1])

Insert(c, ident) ==
    IF ident[2] = "dist" THEN [c EXCEPT !.data[ident[1]].dist = @ \cup {ident[3]}]
                         ELSE [c EXCEPT !.data[ident[1]].pub = @ \cup {ident[3]}]

\* The data asked for arrives (HandleEvent of CMvEventPeerDistribute and -Publish): empty
\* tells whether the peer sent none, accepted what AddNewDistribute or AddNewPublish
\* returned.  After an empty or a rejected answer nobody is asked for anything.
PeerData(c, p, ident, empty, accepted) ==
    LET removed == RemoveKnownData(c, ident)
        asked == DispatchGetDelegated(removed)
    IN IF GetAssignedPeer(c, ident) # p THEN c
       ELSE IF ~InRange(removed, ident) THEN asked
       ELSE IF empty \/ ~accepted THEN removed
       ELSE Insert(asked, ident)

ChannelPrimaryUpdate(c, start, enrolled, dist, pub) ==
    DispatchGetDelegated(ChainUpdate(c, start, enrolled, dist, pub))
=============================================================================
