------------------------------ MODULE Schedule ------------------------------
(***************************************************************************)
(* CSchedule (src/schedule.cpp): what a node knows, for one fork, of the        *)
(* blocks and transactions its peers have announced, who was asked for them,     *)
(* and which of those received wait for a parent.  CNetChannel calls it with     *)
(* mtxSched held, so each operation is an operator from one schedule to the      *)
(* next.                                                                      *)
(*                                                                           *)
(* The same facts are kept twice: mapPeer has the items each peer knows and is    *)
(* asked for, mapState the peers that know each item and the one that was asked.   *)
(* Lists are sets here, since only the choice of the items to ask for depends      *)
(* on their order, and that choice is left open.                                *)
(***************************************************************************)
EXTENDS Integers, FiniteSets

CONSTANTS
    Peers,
    Blocks, Txs,        \* hashes; an item (CInv) is one of either
    NONE,
    MaxInv,             \* MAX_INV_COUNT
    MaxPeerBlocks,      \* MAX_PEER_BLOCK_INV_COUNT
    MaxPeerTxs,         \* MAX_PEER_TX_INV_COUNT
    MaxAsk              \* MAX_PEER_SCHED_COUNT, the most items asked for at once

Items == Blocks \cup Txs

\* The items of the same type as i.
Kind(i) == IF i \in Blocks THEN Blocks ELSE Txs
MaxPeer(kind) == IF kind = Blocks THEN MaxPeerBlocks ELSE MaxPeerTxs

\* CInvState
States == [asked : Peers \cup {NONE}, received : BOOLEAN, known : SUBSET Peers]
NewState == [asked |-> NONE, received |-> FALSE, known |-> {}]

\* Hashes are numbers of 256 bits, so there are finitely many of them.
ASSUME ItemsAssumption == /\ IsFiniteSet(Blocks) /\ IsFiniteSet(Txs) /\ Blocks \cap Txs = {}
                          /\ NONE \notin Peers \cup States
                          /\ {MaxInv, MaxPeerBlocks, MaxPeerTxs, MaxAsk} \subseteq Nat \ {0}

Schedules == [list     : [Peers -> SUBSET Items],      \* CInvPeer::listKnown
              assigned : [Peers -> SUBSET Items],      \* CInvPeer::setAssigned
              state    : [Items -> States \cup {NONE}],  \* mapState
              orphan   : SUBSET (Items \X Items)]      \* mapOrphanByPrev: <<prev, hash>>

EmptySchedule == [list     |-> [p \in Peers |-> {}],
                  assigned |-> [p \in Peers |-> {}],
                  state    |-> [i \in Items |-> NONE],
                  orphan   |-> {}]

Exists(s, i) == s.state[i] # NONE

\* mapState.size()
Size(s) == Cardinality({i \in Items : Exists(s, i)})

\* mapState[inv], which makes a state where there is none.
StateOf(s, i) == IF Exists(s, i) THEN s.state[i] ELSE NewState

KnownPeers(s, i) == StateOf(s, i).known
Received(s, i) == StateOf(s, i).received
GetNext(s, i) == {link[2] : link \in {l \in s.orphan : l[1] = i}}

-----------------------------------------------------------------------------
\* AddNewInv for the items I and each of the peers P: the schedules it may lead to.
\* An item is not taken when the schedule or the peer's list is full, so which ones
\* are taken depends on their order, which is left open.
AddNewInv(s, I, P) ==
    LET After(taken) == Size(s) + Cardinality({i \in I : /\ ~Exists(s, i)
                                                         /\ \E p \in P : i \in taken[p]})
        FullAfter(p, i, taken) ==
            \/ After(taken) >= MaxInv
            \/ Cardinality((s.list[p] \cup taken[p]) \cap Kind(i)) >= MaxPeer(Kind(i))
        Possible(taken) ==
            /\ Size(s) >= MaxInv => \A p \in P : taken[p] = {}
            /\ After(taken) <= MaxInv
            /\ \A p \in P :
                 /\ taken[p] \subseteq I \ s.list[p]
                 /\ \A i \in taken[p] :
                      Cardinality((s.list[p] \cup taken[p]) \cap Kind(i)) <= MaxPeer(Kind(i))
                 /\ \A i \in I \ (s.list[p] \cup taken[p]) : FullAfter(p, i, taken)
    IN  {[s EXCEPT !.list = [p \in Peers |-> IF p \in P THEN @[p] \cup taken[p] ELSE @[p]],
                   !.state = [i \in Items |->
                                LET new == {p \in P : i \in taken[p]}
                                IN  IF new = {} THEN @[i]
                                    ELSE [StateOf(s, i) EXCEPT !.known = @ \cup new]]]
         : taken \in {t \in [P -> SUBSET I] : Possible(t)}}

\* Every peer forgets the items I.
Forget(s, I) ==
    [s EXCEPT !.list = [p \in Peers |-> @[p] \ {i \in I : p \in KnownPeers(s, i)}],
              !.assigned = [p \in Peers |-> @[p] \ {i \in I : p \in KnownPeers(s, i)}],
              !.state = [i \in Items |-> IF i \in I THEN NONE ELSE @[i]]]

\* RemoveInv for the items I; the links to those received go as well.
RemoveInv(s, I) ==
    [Forget(s, I) EXCEPT !.orphan = {l \in @ : ~(l[2] \in I /\ Received(s, l[2]))}]

\* Slip: a peer that leaves keeps what it was asked for.
RemovePeerKeepsAsked(s, p) ==
    LET Left(i) == [StateOf(s, i) EXCEPT !.known = @ \ {p}]
        gone == {i \in s.list[p] : Left(i).known = {}}
    IN  [list     |-> [s.list EXCEPT ![p] = {}],
         assigned |-> [s.assigned EXCEPT ![p] = {}],
         state    |-> [i \in Items |-> IF i \notin s.list[p] THEN s.state[i]
                                       ELSE IF i \in gone THEN NONE ELSE Left(i)],
         orphan   |-> {l \in s.orphan : l[2] \notin gone}]

\* RemovePeer: an item that nobody else knows is dropped, and one that the peer
\* was asked for, received or not, has to be asked for again.
RemovePeer(s, p) ==
    LET Left(i) == [StateOf(s, i) EXCEPT !.known = @ \ {p}]
        gone == {i \in s.list[p] : Left(i).known = {}}
    IN  [list     |-> [s.list EXCEPT ![p] = {}],
         assigned |-> [s.assigned EXCEPT ![p] = {}],
         state    |-> [i \in Items |->
                         IF i \notin s.list[p] THEN s.state[i]
                         ELSE IF i \in gone THEN NONE
                         ELSE IF Left(i).asked = p
                              THEN [Left(i) EXCEPT !.asked = NONE, !.received = FALSE]
                              ELSE Left(i)],
         orphan   |-> {l \in s.orphan : l[2] \notin gone}]

\* Slip: nobody is asked instead.
NoPeersAfter(s, p) == {}

\* The peers that may now be asked for what p was asked for.
PeersAfter(s, p) ==
    UNION {KnownPeers(s, i) \ {p} : i \in {j \in s.list[p] : StateOf(s, j).asked = p}}

-----------------------------------------------------------------------------
\* ReceiveBlock and ReceiveTx, from a peer outside the node's own cluster.
MayReceive(s, p, i) == Exists(s, i) /\ s.state[i].asked = p /\ ~s.state[i].received

Receive(s, p, i) == [s EXCEPT !.state[i].received = TRUE, !.assigned[p] = @ \ {i}]

\* AddOrphanBlockPrev and AddOrphanTxPrev.
AddOrphan(s, i, prevs) == [s EXCEPT !.orphan = @ \cup {<<prev, i>> : prev \in prevs}]

\* COrphan::RemoveBranch: the items that wait, directly or not, for the root.
Branch(s, root) ==
    LET Closed(S) == GetNext(s, root) \subseteq S /\ \A i \in S : GetNext(s, i) \subseteq S
    IN  {i \in Items : \A S \in SUBSET Items : Closed(S) => i \in S}

\* InvalidateBlock and InvalidateTx.
Invalidate(s, root) ==
    LET branch == Branch(s, root)
        cut == [Forget(s, branch) EXCEPT
                  !.orphan = {l \in @ : l[1] \notin branch \cup {root}}]
    IN  RemoveInv(cut, {root})

\* The peers that know an item of the branch.
Misbehaving(s, root) == UNION {KnownPeers(s, i) : i \in Branch(s, root) \cup {root}}

-----------------------------------------------------------------------------
\* ScheduleKnownInv: the items of a kind that p knows and nobody was asked for.
Unasked(s, p, kind) == {i \in s.list[p] \cap kind : StateOf(s, i).asked = NONE}

\* fReceivedAll, when there is nothing to ask for.
ReceivedAll(s, p, kind) ==
    /\ s.list[p] \cap kind # {}
    /\ \A i \in s.list[p] \cap kind : StateOf(s, i).asked # NONE /\ Received(s, i)

\* The sets of items that p may be asked for next.
Asks(s, p, kind) ==
    {A \in SUBSET Unasked(s, p, kind) :
        \/ Cardinality(A) = MaxAsk
        \/ A = Unasked(s, p, kind) /\ Cardinality(A) < MaxAsk}

Ask(s, p, A) == [s EXCEPT !.assigned[p] = @ \cup A,
                          !.state = [i \in Items |-> IF i \in A
                                                     THEN [StateOf(s, i) EXCEPT !.asked = p]
                                                     ELSE s.state[i]]]

Full(s, p, kind) == Cardinality(s.list[p] \cap kind) >= MaxPeer(kind)
=============================================================================
