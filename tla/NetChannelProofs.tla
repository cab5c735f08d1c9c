-------------------------- MODULE NetChannelProofs --------------------------
(***************************************************************************)
(* The books of CSchedule and CNetChannel stay in order for any peers,       *)
(* blocks and transactions: BooksInOrder of NetChannel, by the inductive      *)
(* invariant BooksInv.  What the operations of CSchedule do comes first.       *)
(***************************************************************************)
EXTENDS NetChannel, FiniteSetTheorems, TLAPS

-----------------------------------------------------------------------------
(* The operations of CSchedule, one at a time: each leads from a schedule whose two views agree,   *)
(* within its limits, to one of that kind (Sound), and says what it may add and take away (Kept).   *)

\* The two views of a schedule, peer by peer and item by item, agree.
Agree(s) ==
    /\ \A p \in Peers, i \in Items :
         /\ i \in s.list[p] <=> p \in KnownPeers(s, i)
         /\ i \in s.assigned[p] <=> StateOf(s, i).asked = p /\ ~Received(s, i)
    /\ \A i \in Items : Exists(s, i) =>
         /\ KnownPeers(s, i) # {}
         /\ Received(s, i) => StateOf(s, i).asked # NONE
         /\ StateOf(s, i).asked \in KnownPeers(s, i) \cup {NONE}

\* The items of a schedule that exist.
Existing(s) == {i \in Items : Exists(s, i)}

\* A schedule is within its limits.
Within(s) ==
    /\ Cardinality(Existing(s)) <= MaxInv
    /\ \A p \in Peers, kind \in {Blocks, Txs} :
         Cardinality(s.list[p] \cap kind) <= MaxPeer(kind)

Sound(s) == s \in Schedules /\ Agree(s) /\ Within(s)

\* From s to n nothing is received, only the peers P learn of items, and what is still
\* received keeps its links.
Kept(s, n, P) ==
    /\ \A i \in Items :
         /\ KnownPeers(n, i) \subseteq KnownPeers(s, i) \cup P
         /\ Received(n, i) => Received(s, i)
         /\ Received(n, i) => \A j \in Items : <<j, i>> \in s.orphan => <<j, i>> \in n.orphan

\* The states an item can have.
LEMMA StateTyped ==
    ASSUME NEW s \in Schedules, NEW i \in Items
    PROVE  /\ StateOf(s, i) \in States
           /\ Exists(s, i) => s.state[i] \in States /\ StateOf(s, i) = s.state[i]
           /\ ~Exists(s, i) => s.state[i] = NONE /\ StateOf(s, i) = NewState
           /\ KnownPeers(s, i) \subseteq Peers
           /\ Received(s, i) \in BOOLEAN
           /\ StateOf(s, i).asked \in Peers \cup {NONE}
           /\ Received(s, i) \/ KnownPeers(s, i) # {} => Exists(s, i)
  <1>1. s.state \in [Items -> States \cup {NONE}]
    BY DEF Schedules
  <1>2. s.state[i] \in States \cup {NONE}
    BY <1>1
  <1>3. NewState \in States
    BY DEF NewState, States
  <1>4. StateOf(s, i) \in States
    BY <1>2, <1>3 DEF StateOf, Exists
  <1>5. StateOf(s, i).known \subseteq Peers /\ StateOf(s, i).received \in BOOLEAN
        /\ StateOf(s, i).asked \in Peers \cup {NONE}
    BY <1>4 DEF States
  <1>6. ~Exists(s, i) => StateOf(s, i).known = {} /\ StateOf(s, i).received = FALSE
    BY DEF StateOf, NewState
  <1> QED
    BY <1>2, <1>4, <1>5, <1>6 DEF StateOf, Exists, KnownPeers, Received

\* Fewer items, and none more at any peer, are within the limits as well.
LEMMA FewerWithin ==
    ASSUME NEW s \in Schedules, Within(s), NEW n \in Schedules,
           Existing(n) \subseteq Existing(s),
           \A p \in Peers : n.list[p] \subseteq s.list[p]
    PROVE  Within(n)
  <1>1. IsFiniteSet(Items)
    BY ItemsAssumption, FS_Union, Zenon DEF Items
  <1>2. IsFiniteSet(Existing(s))
    BY <1>1, FS_Subset DEF Existing
  <1>3. Cardinality(Existing(n)) <= Cardinality(Existing(s))
    BY <1>2, FS_Subset
  <1>4. Cardinality(Existing(n)) \in Nat /\ Cardinality(Existing(s)) \in Nat
    BY <1>2, FS_Subset, FS_CardinalityType, Zenon
  <1>5. Cardinality(Existing(n)) <= MaxInv
    BY <1>3, <1>4, ItemsAssumption DEF Within
  <1>6. ASSUME NEW p \in Peers, NEW kind \in {Blocks, Txs}
        PROVE  Cardinality(n.list[p] \cap kind) <= MaxPeer(kind)
    <2>1. s.list[p] \cap kind \subseteq Items /\ n.list[p] \cap kind \subseteq s.list[p] \cap kind
      BY <1>6 DEF Items
    <2>2. IsFiniteSet(s.list[p] \cap kind)
      BY <1>1, <2>1, FS_Subset, Zenon
    <2>3. /\ Cardinality(n.list[p] \cap kind) <= Cardinality(s.list[p] \cap kind)
          /\ Cardinality(n.list[p] \cap kind) \in Nat /\ Cardinality(s.list[p] \cap kind) \in Nat
      BY <2>1, <2>2, FS_Subset, FS_CardinalityType, Zenon
    <2>4. MaxPeer(kind) \in Nat
      BY ItemsAssumption DEF MaxPeer
    <2>5. Cardinality(s.list[p] \cap kind) <= MaxPeer(kind)
      BY Zenon DEF Within
    <2> QED
      BY <2>3, <2>4, <2>5
  <1> QED
    BY <1>5, <1>6, Zenon DEF Within

\* Forget: the items are known to nobody, the others stay as they are.
LEMMA ForgetSound ==
    ASSUME NEW s, Sound(s), NEW I
    PROVE  /\ Sound(Forget(s, I)) /\ Kept(s, Forget(s, I), {})
           /\ \A i \in Items : i \in I => ~Exists(Forget(s, I), i)
           /\ Forget(s, I).orphan = s.orphan
  <1> DEFINE n == Forget(s, I)
  <1>s. s \in Schedules /\ Agree(s) /\ Within(s)
    BY DEF Sound
  <1>1. /\ n.list = [p \in Peers |-> s.list[p] \ {i \in I : p \in KnownPeers(s, i)}]
        /\ n.assigned = [p \in Peers |-> s.assigned[p] \ {i \in I : p \in KnownPeers(s, i)}]
        /\ n.state = [i \in Items |-> IF i \in I THEN NONE ELSE s.state[i]]
        /\ n.orphan = s.orphan
    BY <1>s DEF Forget, Schedules
  <1>2. n \in Schedules
    <2>1. n.list \in [Peers -> SUBSET Items] /\ n.assigned \in [Peers -> SUBSET Items]
      BY <1>s, <1>1 DEF Schedules
    <2>2. n.state \in [Items -> States \cup {NONE}]
      BY <1>s, <1>1, Zenon DEF Schedules
    <2> QED
      BY <1>s, <2>1, <2>2, Zenon DEF Schedules, Forget
  <1>3. \A i \in Items : i \in I => ~Exists(n, i) /\ StateOf(n, i) = NewState
    BY <1>1 DEF Exists, StateOf
  <1>4. \A i \in Items : i \notin I => StateOf(n, i) = StateOf(s, i) /\ (Exists(n, i) <=> Exists(s, i))
    BY <1>1 DEF Exists, StateOf
  <1>5. \A p \in Peers, i \in Items : 
          /\ i \in n.list[p] <=> i \in s.list[p] /\ ~(i \in I /\ p \in KnownPeers(s, i))
          /\ i \in n.assigned[p] <=> i \in s.assigned[p] /\ ~(i \in I /\ p \in KnownPeers(s, i))
    BY <1>1
  <1> HIDE DEF n
  <1>6. Agree(n)
    <2>1. ASSUME NEW p \in Peers, NEW i \in Items, i \in I
          PROVE  i \notin n.list[p] /\ i \notin n.assigned[p]
      <3>1. i \in s.assigned[p] => StateOf(s, i).asked = p
        BY <1>s, Zenon DEF Agree
      <3>2. StateOf(s, i).asked = p => Exists(s, i)
        BY <1>s, StateTyped, ItemsAssumption DEF NewState
      <3>3. i \in s.assigned[p] => p \in KnownPeers(s, i)
        BY <1>s, <3>1, <3>2, ItemsAssumption DEF Agree
      <3> QED
        BY <1>s, <1>5, <2>1, <3>3, Zenon DEF Agree
    <2>2. NewState.known = {} /\ NewState.received = FALSE /\ NewState.asked = NONE
      BY DEF NewState
    <2>3. ASSUME NEW p \in Peers, NEW i \in Items
          PROVE  /\ i \in n.list[p] <=> p \in KnownPeers(n, i)
                 /\ i \in n.assigned[p] <=> StateOf(n, i).asked = p /\ ~Received(n, i)
      <3>1. CASE i \in I
        BY <2>1, <1>3, <2>2, <3>1, ItemsAssumption, Zenon DEF KnownPeers
      <3>2. CASE i \notin I
        BY <1>s, <1>4, <1>5, <3>2 DEF Agree, KnownPeers, Received
      <3> QED
        BY <3>1, <3>2
    <2>4. ASSUME NEW i \in Items, Exists(n, i)
          PROVE  /\ KnownPeers(n, i) # {}
                 /\ Received(n, i) => StateOf(n, i).asked # NONE
                 /\ StateOf(n, i).asked \in KnownPeers(n, i) \cup {NONE}
      BY <1>s, <1>3, <1>4, <2>4, Zenon DEF Agree, KnownPeers, Received
    <2> QED
      BY <2>3, <2>4 DEF Agree
  <1>7. Within(n)
    <2>1. Existing(n) \subseteq Existing(s)
      BY <1>3, <1>4 DEF Existing
    <2>2. \A p \in Peers : n.list[p] \subseteq s.list[p]
      BY <1>1
    <2> QED
      BY <1>s, <1>2, <2>1, <2>2, FewerWithin, Zenon
  <1>8. Kept(s, n, {})
    <2>1. ASSUME NEW i \in Items
          PROVE  /\ KnownPeers(n, i) \subseteq KnownPeers(s, i)
                 /\ Received(n, i) => Received(s, i)
      BY <1>3, <1>4 DEF KnownPeers, Received, NewState
    <2> QED
      BY <1>1, <2>1, Zenon DEF Kept
  <1> QED
    BY <1>1, <1>2, <1>3, <1>6, <1>7, <1>8, Zenon DEF Sound, n

\* Links may be set freely: the items stay as they are.
LEMMA OrphanSound ==
    ASSUME NEW s, Sound(s), NEW O \in SUBSET (Items \X Items)
    PROVE  LET n == [s EXCEPT !.orphan = O]
           IN  /\ Sound(n) /\ n.orphan = O
               /\ \A i \in Items : /\ StateOf(n, i) = StateOf(s, i)
                                   /\ KnownPeers(n, i) = KnownPeers(s, i)
                                   /\ Received(n, i) = Received(s, i)
                                   /\ Exists(n, i) = Exists(s, i)
  <1> DEFINE n == [s EXCEPT !.orphan = O]
  <1>s. s \in Schedules /\ Agree(s) /\ Within(s)
    BY DEF Sound
  <1>1. n \in Schedules /\ n.orphan = O
        /\ n.list = s.list /\ n.assigned = s.assigned /\ n.state = s.state
    BY <1>s DEF Schedules
  <1> HIDE DEF n
  <1>2. \A i \in Items : /\ StateOf(n, i) = StateOf(s, i)
                         /\ KnownPeers(n, i) = KnownPeers(s, i)
                         /\ Received(n, i) = Received(s, i)
                         /\ Exists(n, i) = Exists(s, i)
    BY <1>1, Zenon DEF StateOf, KnownPeers, Received, Exists
  <1>3. Agree(n)
    BY <1>s, <1>1, <1>2 DEF Agree
  <1>4. Within(n)
    BY <1>s, <1>1, <1>2, Zenon DEF Within, Existing
  <1> QED
    BY <1>1, <1>2, <1>3, <1>4, Zenon DEF Sound, n

\* One operation after the other.
LEMMA KeptTwice ==
    ASSUME NEW s, NEW m, NEW n, NEW P, NEW Q, Kept(s, m, P), Kept(m, n, Q)
    PROVE  Kept(s, n, P \cup Q)
  BY DEF Kept

\* RemoveInv
LEMMA RemoveInvSound ==
    ASSUME NEW s, Sound(s), NEW I
    PROVE  /\ Sound(RemoveInv(s, I)) /\ Kept(s, RemoveInv(s, I), {})
           /\ \A i \in Items : i \in I => ~Exists(RemoveInv(s, I), i) /\ ~Received(RemoveInv(s, I), i)
  <1> DEFINE f == Forget(s, I)
             O == {l \in f.orphan : ~(l[2] \in I /\ Received(s, l[2]))}
             n == [f EXCEPT !.orphan = O]
  <1>1. n = RemoveInv(s, I)
    BY DEF RemoveInv
  <1>2. Sound(f) /\ Kept(s, f, {}) /\ f.orphan = s.orphan /\ \A i \in Items : i \in I => ~Exists(f, i)
    BY ForgetSound, Zenon
  <1>3. O \in SUBSET (Items \X Items)
    BY <1>2 DEF Sound, Schedules
  <1> HIDE DEF f
  <1>4. /\ Sound(n) /\ n.orphan = O
        /\ \A i \in Items : /\ KnownPeers(n, i) = KnownPeers(f, i)
                            /\ Received(n, i) = Received(f, i)
                            /\ Exists(n, i) = Exists(f, i)
    BY <1>2, <1>3, OrphanSound, Zenon
  <1>5. \A i \in Items : i \in I => ~Exists(n, i) /\ ~Received(n, i)
    BY <1>2, <1>4, StateTyped, Zenon DEF Sound
  <1>6. \A i, j \in Items : i \notin I /\ <<j, i>> \in s.orphan => <<j, i>> \in n.orphan
    BY <1>2, <1>4, Zenon
  <1> HIDE DEF n, O
  <1>7. Kept(s, n, {})
    BY <1>2, <1>4, <1>5, <1>6, Zenon DEF Kept
  <1> QED
    BY <1>1, <1>4, <1>5, <1>7, Zenon

\* Branch holds whatever waits for its root or for one of its own items.
LEMMA BranchClosed ==
    ASSUME NEW s \in Schedules, NEW root,
           NEW j, j \in Branch(s, root) \cup {root}, NEW i \in Items, <<j, i>> \in s.orphan
    PROVE  i \in Branch(s, root)
  <1>1. i \in GetNext(s, j)
    BY DEF GetNext
  <1> QED
    BY <1>1, Zenon DEF Branch

\* InvalidateBlock, InvalidateTx: the item goes, with all that waits for it.
LEMMA InvalidateSound ==
    ASSUME NEW s, Sound(s), NEW root \in Items
    PROVE  /\ Sound(Invalidate(s, root)) /\ Kept(s, Invalidate(s, root), {})
           /\ ~Exists(Invalidate(s, root), root) /\ ~Received(Invalidate(s, root), root)
  <1> DEFINE B == Branch(s, root)
             f == Forget(s, B)
             O == {l \in f.orphan : l[1] \notin B \cup {root}}
             c == [f EXCEPT !.orphan = O]
  <1>1. Invalidate(s, root) = RemoveInv(c, {root})
    BY Zenon DEF Invalidate
  <1>2. Sound(f) /\ Kept(s, f, {}) /\ f.orphan = s.orphan /\ \A i \in Items : i \in B => ~Exists(f, i)
    BY ForgetSound, Zenon
  <1>3. \A i, j \in Items : i \notin B /\ <<j, i>> \in s.orphan => j \notin B \cup {root}
    BY BranchClosed, Zenon DEF Sound
  <1>4. O \in SUBSET (Items \X Items)
    BY <1>2 DEF Sound, Schedules
  <1> HIDE DEF f, B
  <1>5. /\ Sound(c) /\ c.orphan = O
        /\ \A i \in Items : /\ KnownPeers(c, i) = KnownPeers(f, i)
                            /\ Received(c, i) = Received(f, i)
                            /\ Exists(c, i) = Exists(f, i)
    BY <1>2, <1>4, OrphanSound, Zenon
  <1>6. \A i \in Items : Received(c, i) => i \notin B
    BY <1>2, <1>5, StateTyped, Zenon DEF Sound
  <1>7. \A i, j \in Items : Received(c, i) /\ <<j, i>> \in s.orphan => <<j, i>> \in c.orphan
    BY <1>2, <1>3, <1>5, <1>6, Zenon
  <1> HIDE DEF c, O
  <1>8. Kept(s, c, {})
    BY <1>2, <1>5, <1>7, Zenon DEF Kept
  <1>9. /\ Sound(RemoveInv(c, {root})) /\ Kept(c, RemoveInv(c, {root}), {})
        /\ ~Exists(RemoveInv(c, {root}), root) /\ ~Received(RemoveInv(c, {root}), root)
    BY <1>5, RemoveInvSound, Zenon
  <1>10. Kept(s, RemoveInv(c, {root}), {} \cup {})
    BY <1>8, <1>9, KeptTwice, Zenon
  <1> QED
    BY <1>1, <1>9, <1>10, Zenon

\* RemovePeer: nothing is left of the peer.
LEMMA RemovePeerSound ==
    ASSUME NEW s, Sound(s), NEW p \in Peers
    PROVE  /\ Sound(RemovePeer(s, p)) /\ Kept(s, RemovePeer(s, p), {})
           /\ \A i \in Items : p \notin KnownPeers(RemovePeer(s, p), i)
  <1> DEFINE Left(i) == [StateOf(s, i) EXCEPT !.known = @ \ {p}]
             gone == {i \in s.list[p] : Left(i).known = {}}
             After(i) == IF i \notin s.list[p] THEN s.state[i]
                         ELSE IF i \in gone THEN NONE
                         ELSE IF Left(i).asked = p
                              THEN [Left(i) EXCEPT !.asked = NONE, !.received = FALSE]
                              ELSE Left(i)
             n == RemovePeer(s, p)
  <1>s. s \in Schedules /\ Agree(s) /\ Within(s)
    BY DEF Sound
  <1>1. /\ n = [list |-> n.list, assigned |-> n.assigned, state |-> n.state, orphan |-> n.orphan]
        /\ n.list = [s.list EXCEPT ![p] = {}] /\ n.assigned = [s.assigned EXCEPT ![p] = {}]
        /\ n.state = [i \in Items |-> After(i)]
        /\ n.orphan = {l \in s.orphan : l[2] \notin gone}
    BY Zenon DEF RemovePeer
  <1> HIDE DEF n
  <1>2. \A i \in Items : StateOf(s, i) \in States
    BY <1>s, StateTyped, Zenon
  <1>3. \A i \in Items :
          /\ Left(i) \in States /\ Left(i).asked = StateOf(s, i).asked
          /\ Left(i).received = Received(s, i) /\ Left(i).known = KnownPeers(s, i) \ {p}
    BY <1>2 DEF States, Received, KnownPeers
  <1>4. n \in Schedules
    <2>0. \A i \in Items : /\ s.state[i] \in States \cup {NONE}
                          /\ Left(i) \in States
                          /\ [Left(i) EXCEPT !.asked = NONE, !.received = FALSE] \in States
      <3>1. \A i \in Items : Left(i) \in States
        BY <1>3
      <3> HIDE DEF Left
      <3>2. \A i \in Items : [Left(i) EXCEPT !.asked = NONE, !.received = FALSE] \in States
        BY <3>1, Zenon DEF States
      <3> QED
        BY <1>s, <3>1, <3>2, Zenon DEF Schedules
    <2> HIDE DEF Left, gone
    <2>1. \A i \in Items : After(i) \in States \cup {NONE}
      BY <2>0, Zenon
    <2> HIDE DEF After
    <2>2. n.state \in [Items -> States \cup {NONE}]
      BY <1>1, <2>1, Zenon
    <2>3. n.list \in [Peers -> SUBSET Items] /\ n.assigned \in [Peers -> SUBSET Items]
          /\ n.orphan \in SUBSET (Items \X Items)
      BY <1>s, <1>1, Zenon DEF Schedules
    <2> QED
      BY <1>1, <2>2, <2>3, Zenon DEF Schedules
  <1>5. \A i \in Items : i \in s.list[p] <=> p \in KnownPeers(s, i)
    BY <1>s DEF Agree
  <1>6. ASSUME NEW i \in Items, p \notin KnownPeers(s, i)
        PROVE  /\ StateOf(n, i) = StateOf(s, i) /\ (Exists(n, i) <=> Exists(s, i))
               /\ StateOf(s, i).asked # p
    <2>1. n.state[i] = s.state[i]
      BY <1>1, <1>5, <1>6, Zenon
    <2>2. Exists(s, i) => StateOf(s, i).asked # p
      BY <1>s, <1>6, ItemsAssumption DEF Agree
    <2>3. ~Exists(s, i) => StateOf(s, i).asked # p
      BY <1>s, StateTyped, ItemsAssumption DEF NewState
    <2> QED
      BY <2>1, <2>2, <2>3, Zenon DEF StateOf, Exists
  <1>7. ASSUME NEW i \in Items, p \in KnownPeers(s, i), KnownPeers(s, i) # {p}
        PROVE  /\ Exists(n, i) /\ Exists(s, i) /\ KnownPeers(n, i) = KnownPeers(s, i) \ {p}
               /\ StateOf(s, i).asked = p => StateOf(n, i).asked = NONE /\ ~Received(n, i)
               /\ StateOf(s, i).asked # p => /\ StateOf(n, i).asked = StateOf(s, i).asked
                                             /\ Received(n, i) = Received(s, i)
    <2>1. i \notin gone /\ i \in s.list[p]
      BY <1>3, <1>5, <1>7, Zenon
    <2>2. n.state[i] = IF Left(i).asked = p THEN [Left(i) EXCEPT !.asked = NONE, !.received = FALSE]
                                            ELSE Left(i)
      BY <1>1, <2>1, Zenon
    <2>3. n.state[i] \in States
      BY <1>3, <2>2, Zenon DEF States
    <2>4. Exists(n, i) /\ StateOf(n, i) = n.state[i]
      BY <2>3, ItemsAssumption, Zenon DEF Exists, StateOf
    <2>5. Exists(s, i)
      BY <1>s, <1>7, StateTyped, Zenon
    <2>6. CASE StateOf(s, i).asked = p
      <3>1. n.state[i] = [Left(i) EXCEPT !.asked = NONE, !.received = FALSE]
        BY <1>3, <2>2, <2>6, Zenon
      <3>2. n.state[i].asked = NONE /\ n.state[i].received = FALSE /\ n.state[i].known = Left(i).known
        BY <1>3, <3>1, Zenon DEF States
      <3> QED
        BY <1>3, <2>4, <2>5, <2>6, <3>2, Zenon DEF KnownPeers, Received
    <2>7. CASE StateOf(s, i).asked # p
      BY <1>3, <2>2, <2>4, <2>5, <2>7, Zenon DEF KnownPeers, Received
    <2> QED
      BY <2>6, <2>7
  <1>8. ASSUME NEW i \in Items, KnownPeers(s, i) = {p}
        PROVE  ~Exists(n, i) /\ i \in gone
    BY <1>1, <1>3, <1>5, <1>8, Zenon DEF Exists
  <1>9. ASSUME NEW i \in Items, i \in gone
        PROVE  KnownPeers(s, i) = {p}
    BY <1>3, <1>5, <1>9, Zenon
  <1>10. \A q \in Peers, i \in Items :
          /\ i \in n.list[q] <=> q # p /\ i \in s.list[q]
          /\ i \in n.assigned[q] <=> q # p /\ i \in s.assigned[q]
    BY <1>s, <1>1, Zenon DEF Schedules
  <1>11. \A i, j \in Items : i \notin gone /\ <<j, i>> \in s.orphan => <<j, i>> \in n.orphan
    BY <1>1, Zenon
  <1> HIDE DEF gone, After, Left
  <1>12. \A i \in Items : ~Exists(n, i) => KnownPeers(n, i) = {} /\ ~Received(n, i)
                                           /\ StateOf(n, i).asked = NONE
    BY DEF KnownPeers, Received, StateOf, NewState
  <1>13. Agree(n)
    <2>1. ASSUME NEW q \in Peers, NEW i \in Items
          PROVE  /\ i \in n.list[q] <=> q \in KnownPeers(n, i)
                 /\ i \in n.assigned[q] <=> StateOf(n, i).asked = q /\ ~Received(n, i)
      <3>0. /\ i \in s.list[q] <=> q \in KnownPeers(s, i)
            /\ i \in s.assigned[q] <=> StateOf(s, i).asked = q /\ ~Received(s, i)
            /\ q # NONE /\ p # NONE
        BY <1>s, ItemsAssumption, Zenon DEF Agree
      <3>1. CASE p \notin KnownPeers(s, i)
        BY <1>6, <1>10, <3>0, <3>1, Zenon DEF KnownPeers, Received
      <3>2. CASE p \in KnownPeers(s, i) /\ KnownPeers(s, i) # {p}
        BY <1>7, <1>10, <3>0, <3>2, Zenon
      <3>3. CASE KnownPeers(s, i) = {p}
        <4>1. Exists(s, i)
          BY <1>s, <3>3, StateTyped, Zenon
        <4>2. StateOf(s, i).asked \in {p, NONE}
          BY <1>s, <3>3, <4>1, Zenon DEF Agree
        <4> QED
          BY <1>8, <1>10, <1>12, <3>0, <3>3, <4>2, Zenon
      <3> QED
        BY <3>1, <3>2, <3>3, Zenon
    <2>2. ASSUME NEW i \in Items, Exists(n, i)
          PROVE  /\ KnownPeers(n, i) # {}
                 /\ Received(n, i) => StateOf(n, i).asked # NONE
                 /\ StateOf(n, i).asked \in KnownPeers(n, i) \cup {NONE}
      <3>0. Exists(s, i) => /\ KnownPeers(s, i) # {}
                            /\ Received(s, i) => StateOf(s, i).asked # NONE
                            /\ StateOf(s, i).asked \in KnownPeers(s, i) \cup {NONE}
        BY <1>s, Zenon DEF Agree
      <3>1. CASE p \notin KnownPeers(s, i)
        BY <1>6, <2>2, <3>0, <3>1, Zenon DEF KnownPeers, Received
      <3>2. CASE p \in KnownPeers(s, i)
        BY <1>7, <1>8, <2>2, <3>0, <3>2, Zenon
      <3> QED
        BY <3>1, <3>2, Zenon
    <2> QED
      BY <2>1, <2>2, Zenon DEF Agree
  <1>14. Within(n)
    <2>1. Existing(n) \subseteq Existing(s)
      BY <1>6, <1>7, <1>8, Zenon DEF Existing
    <2>2. \A q \in Peers : n.list[q] \subseteq s.list[q]
      BY <1>s, <1>1, Zenon DEF Schedules
    <2> QED
      BY <1>s, <1>4, <2>1, <2>2, FewerWithin, Zenon
  <1>15. ASSUME NEW i \in Items
         PROVE  /\ KnownPeers(n, i) \subseteq KnownPeers(s, i) /\ p \notin KnownPeers(n, i)
                /\ Received(n, i) => Received(s, i) /\ i \notin gone
    <2>1. CASE p \notin KnownPeers(s, i)
      BY <1>6, <1>9, <2>1, Zenon DEF KnownPeers, Received
    <2>2. CASE p \in KnownPeers(s, i) /\ KnownPeers(s, i) # {p}
      BY <1>7, <1>9, <2>2, Zenon
    <2>3. CASE KnownPeers(s, i) = {p}
      BY <1>8, <1>12, <2>3, Zenon
    <2> QED
      BY <2>1, <2>2, <2>3, Zenon
  <1>16. Kept(s, n, {})
    BY <1>11, <1>15, Zenon DEF Kept
  <1> QED
    BY <1>4, <1>13, <1>14, <1>15, <1>16, Zenon DEF Sound, n

\* ReceiveBlock, ReceiveTx: the item, and no other, is received now.
LEMMA ReceiveSound ==
    ASSUME NEW s, Sound(s), NEW p \in Peers, NEW r \in Items, MayReceive(s, p, r)
    PROVE  /\ Sound(Receive(s, p, r)) /\ Receive(s, p, r).orphan = s.orphan
           /\ \A i \in Items : /\ KnownPeers(Receive(s, p, r), i) = KnownPeers(s, i)
                               /\ Exists(Receive(s, p, r), i) = Exists(s, i)
                               /\ StateOf(Receive(s, p, r), i).asked = StateOf(s, i).asked
                               /\ Received(Receive(s, p, r), i) <=> i = r \/ Received(s, i)
  <1> DEFINE n == Receive(s, p, r)
  <1>s. s \in Schedules /\ Agree(s) /\ Within(s)
    BY Zenon DEF Sound
  <1>m. Exists(s, r) /\ s.state[r] \in States /\ StateOf(s, r) = s.state[r] /\ s.state[r].asked = p
        /\ ~s.state[r].received
    BY <1>s, StateTyped, Zenon DEF MayReceive
  <1>1. /\ n \in Schedules
        /\ n.list = s.list /\ n.orphan = s.orphan
        /\ n.assigned = [s.assigned EXCEPT ![p] = @ \ {r}]
        /\ n.state = [s.state EXCEPT ![r].received = TRUE]
    BY <1>s, <1>m, Zenon DEF Receive, Schedules, States
  <1> HIDE DEF n
  <1>2. n.state[r] \in States /\ n.state[r].received = TRUE
        /\ n.state[r].asked = p /\ n.state[r].known = s.state[r].known
    <2>1. s.state \in [Items -> States \cup {NONE}]
      BY <1>s, Zenon DEF Schedules
    <2>2. n.state[r] = [s.state[r] EXCEPT !.received = TRUE]
      BY <1>1, <2>1, Zenon
    <2> QED
      BY <1>m, <2>2, Zenon DEF States
  <1>3. Exists(n, r) /\ StateOf(n, r) = n.state[r]
    BY <1>2, ItemsAssumption, Zenon DEF Exists, StateOf
  <1>4. \A i \in Items : i # r => StateOf(n, i) = StateOf(s, i) /\ Exists(n, i) = Exists(s, i)
    <2>1. s.state \in [Items -> States \cup {NONE}]
      BY <1>s DEF Schedules
    <2>2. \A i \in Items : i # r => n.state[i] = s.state[i]
      BY <1>1, <2>1, Zenon
    <2> QED
      BY <2>2, Zenon DEF Exists, StateOf
  <1>5. \A i \in Items : /\ KnownPeers(n, i) = KnownPeers(s, i)
                         /\ Exists(n, i) = Exists(s, i)
                         /\ StateOf(n, i).asked = StateOf(s, i).asked
                         /\ Received(n, i) <=> i = r \/ Received(s, i)
    BY <1>2, <1>3, <1>4, <1>m, Zenon DEF KnownPeers, Received, Exists
  <1>6. \A q \in Peers, i \in Items : i \in n.assigned[q] <=> i \in s.assigned[q] /\ ~(q = p /\ i = r)
    BY <1>s, <1>1 DEF Schedules
  <1>7. Agree(n)
    <2>1. ASSUME NEW q \in Peers, NEW i \in Items
          PROVE  /\ i \in n.list[q] <=> q \in KnownPeers(n, i)
                 /\ i \in n.assigned[q] <=> StateOf(n, i).asked = q /\ ~Received(n, i)
      <3>1. i \in n.list[q] <=> q \in KnownPeers(n, i)
        BY <1>s, <1>1, <1>5, Zenon DEF Agree
      <3>2. i \in n.assigned[q] <=> StateOf(n, i).asked = q /\ ~Received(n, i)
        BY <1>s, <1>1, <1>5, <1>6, <1>m DEF Agree
      <3> QED
        BY <3>1, <3>2, Zenon
    <2>2. ASSUME NEW i \in Items, Exists(n, i)
          PROVE  /\ KnownPeers(n, i) # {}
                 /\ Received(n, i) => StateOf(n, i).asked # NONE
                 /\ StateOf(n, i).asked \in KnownPeers(n, i) \cup {NONE}
      BY <1>s, <1>5, <1>m, <2>2, ItemsAssumption DEF Agree
    <2> QED
      BY <2>1, <2>2, Zenon DEF Agree
  <1>8. Within(n)
    BY <1>s, <1>1, <1>5, Zenon DEF Within, Existing
  <1> QED
    BY <1>1, <1>5, <1>7, <1>8, Zenon DEF Sound, n

\* The pairs that one orphan adds.
LEMMA PairsOf ==
    ASSUME NEW r, NEW prevs, NEW j, NEW i
    PROVE  <<j, i>> \in {<<prev, r>> : prev \in prevs} <=> i = r /\ j \in prevs
  OBVIOUS

\* AddOrphanBlockPrev, AddOrphanTxPrev
LEMMA AddOrphanSound ==
    ASSUME NEW s, Sound(s), NEW r \in Items, NEW prevs \in SUBSET Items
    PROVE  /\ Sound(AddOrphan(s, r, prevs))
           /\ \A j \in Items, i \in Items : <<j, i>> \in AddOrphan(s, r, prevs).orphan <=>
                  <<j, i>> \in s.orphan \/ (i = r /\ j \in prevs)
           /\ \A i \in Items : /\ KnownPeers(AddOrphan(s, r, prevs), i) = KnownPeers(s, i)
                               /\ Exists(AddOrphan(s, r, prevs), i) = Exists(s, i)
                               /\ StateOf(AddOrphan(s, r, prevs), i) = StateOf(s, i)
                               /\ Received(AddOrphan(s, r, prevs), i) = Received(s, i)
  <1> DEFINE O == s.orphan \cup {<<prev, r>> : prev \in prevs}
  <1>1. O \in SUBSET (Items \X Items)
    BY DEF Sound, Schedules
  <1>2. AddOrphan(s, r, prevs) = [s EXCEPT !.orphan = O]
    BY DEF AddOrphan
  <1>3. \A j \in Items, i \in Items : <<j, i>> \in O <=> <<j, i>> \in s.orphan \/ (i = r /\ j \in prevs)
    BY PairsOf
  <1> HIDE DEF O
  <1> QED
    BY <1>1, <1>2, <1>3, OrphanSound

\* ScheduleKnownInv: p is asked for items that it knows and nobody was asked for.
LEMMA AskSound ==
    ASSUME NEW s, Sound(s), NEW p \in Peers, NEW A \in SUBSET Items,
           \A i \in A : i \in s.list[p] /\ StateOf(s, i).asked = NONE
    PROVE  /\ Sound(Ask(s, p, A)) /\ Kept(s, Ask(s, p, A), {})
           /\ Ask(s, p, A).list = s.list
           /\ \A i \in Items : /\ Received(Ask(s, p, A), i) = Received(s, i)
                               /\ StateOf(Ask(s, p, A), i).asked = IF i \in A THEN p ELSE StateOf(s, i).asked
                               /\ KnownPeers(Ask(s, p, A), i) = KnownPeers(s, i)
                               /\ Exists(Ask(s, p, A), i) = Exists(s, i)
  <1> DEFINE n == Ask(s, p, A)
             New(i) == [StateOf(s, i) EXCEPT !.asked = p]
  <1>s. s \in Schedules /\ Agree(s) /\ Within(s)
    BY DEF Sound
  <1>1. \A i \in A : Exists(s, i) /\ p \in KnownPeers(s, i) /\ ~Received(s, i)
    BY <1>s, StateTyped DEF Agree
  <1>2. \A i \in Items : /\ New(i) \in States /\ New(i).asked = p
                         /\ New(i).known = KnownPeers(s, i) /\ New(i).received = Received(s, i)
    <2>1. \A i \in Items : StateOf(s, i) \in States
      BY <1>s, StateTyped
    <2> QED
      BY <2>1 DEF States, KnownPeers, Received
  <1>3. /\ n.list = s.list /\ n.orphan = s.orphan
        /\ n.assigned = [s.assigned EXCEPT ![p] = @ \cup A]
        /\ n.state = [i \in Items |-> IF i \in A THEN New(i) ELSE s.state[i]]
    BY <1>s DEF Ask, Schedules
  <1>4. n \in Schedules
    <2>1. n.assigned \in [Peers -> SUBSET Items]
      BY <1>s, <1>3 DEF Schedules
    <2>2. n.state \in [Items -> States \cup {NONE}]
      BY <1>s, <1>2, <1>3 DEF Schedules
    <2> QED
      BY <1>s, <2>1, <2>2, Zenon DEF Schedules, Ask
  <1> HIDE DEF n, New
  <1>5. \A i \in A : Exists(n, i) /\ StateOf(n, i) = New(i)
    BY <1>2, <1>3, ItemsAssumption DEF Exists, StateOf
  <1>6. \A i \in Items : i \notin A => StateOf(n, i) = StateOf(s, i) /\ Exists(n, i) = Exists(s, i)
    <2>1. \A i \in Items : i \notin A => n.state[i] = s.state[i]
      BY <1>3, Zenon
    <2> QED
      BY <2>1 DEF Exists, StateOf
  <1>7. \A i \in Items : /\ Received(n, i) = Received(s, i)
                         /\ StateOf(n, i).asked = IF i \in A THEN p ELSE StateOf(s, i).asked
                         /\ KnownPeers(n, i) = KnownPeers(s, i)
                         /\ Exists(n, i) = Exists(s, i)
    BY <1>1, <1>2, <1>5, <1>6, Zenon DEF KnownPeers, Received, Exists
  <1>8. \A q \in Peers, i \in Items : i \in n.assigned[q] <=> i \in s.assigned[q] \/ (q = p /\ i \in A)
    <2>1. s.assigned \in [Peers -> SUBSET Items]
      BY <1>s DEF Schedules
    <2>2. \A q \in Peers : n.assigned[q] = IF q = p THEN s.assigned[p] \cup A ELSE s.assigned[q]
      BY <1>3, <2>1, Zenon
    <2> QED
      BY <2>2
  <1>9. Agree(n)
    <2>1. ASSUME NEW q \in Peers, NEW i \in Items
          PROVE  /\ i \in n.list[q] <=> q \in KnownPeers(n, i)
                 /\ i \in n.assigned[q] <=> StateOf(n, i).asked = q /\ ~Received(n, i)
      <3>1. i \in n.list[q] <=> q \in KnownPeers(n, i)
        BY <1>s, <1>3, <1>7, ZenonT(40) DEF Agree
      <3>2. i \in n.assigned[q] <=> StateOf(n, i).asked = q /\ ~Received(n, i)
        BY <1>s, <1>1, <1>7, <1>8, ItemsAssumption DEF Agree
      <3> QED
        BY <3>1, <3>2, Zenon
    <2>2. ASSUME NEW i \in Items, Exists(n, i)
          PROVE  /\ KnownPeers(n, i) # {}
                 /\ Received(n, i) => StateOf(n, i).asked # NONE
                 /\ StateOf(n, i).asked \in KnownPeers(n, i) \cup {NONE}
      BY <1>s, <1>1, <1>7, <2>2 DEF Agree
    <2> QED
      BY <2>1, <2>2, Zenon DEF Agree
  <1>10. Within(n)
    BY <1>s, <1>3, <1>7, Zenon DEF Within, Existing
  <1>11. Kept(s, n, {})
    BY <1>3, <1>7, Zenon DEF Kept
  <1> QED
    BY <1>3, <1>4, <1>7, <1>9, <1>10, <1>11 DEF Sound, n

\* AddNewInv: the peers P learn of items, as far as the limits allow.
LEMMA AddNewInvSound ==
    ASSUME NEW s, Sound(s), NEW I \in SUBSET Items, NEW P \in SUBSET Peers, NEW n \in AddNewInv(s, I, P)
    PROVE  /\ Sound(n) /\ Kept(s, n, P) /\ n.orphan = s.orphan
           /\ \A i \in Items : /\ StateOf(n, i).asked = StateOf(s, i).asked
                               /\ Received(n, i) = Received(s, i)
                               /\ KnownPeers(s, i) \subseteq KnownPeers(n, i)
                               /\ Exists(s, i) => Exists(n, i)
  <1>s. s \in Schedules /\ Agree(s) /\ Within(s)
    BY Zenon DEF Sound
  <1>1. PICK taken \in [P -> SUBSET I] :
          /\ n = [s EXCEPT !.list = [p \in Peers |-> IF p \in P THEN @[p] \cup taken[p] ELSE @[p]],
                           !.state = [i \in Items |->
                                        LET new == {p \in P : i \in taken[p]}
                                        IN  IF new = {} THEN @[i]
                                            ELSE [StateOf(s, i) EXCEPT !.known = @ \cup new]]]
          /\ Size(s) + Cardinality({i \in I : ~Exists(s, i) /\ \E p \in P : i \in taken[p]}) <= MaxInv
          /\ \A p \in P : \A i \in taken[p] :
               Cardinality((s.list[p] \cup taken[p]) \cap Kind(i)) <= MaxPeer(Kind(i))
    BY Zenon DEF AddNewInv
  <1> DEFINE New(i) == {p \in P : i \in taken[p]}
             With(i) == [StateOf(s, i) EXCEPT !.known = @ \cup New(i)]
  <1>2. \A i \in Items : /\ With(i) \in States /\ With(i).asked = StateOf(s, i).asked
                         /\ With(i).received = Received(s, i)
                         /\ With(i).known = KnownPeers(s, i) \cup New(i)
    <2>1. \A i \in Items : StateOf(s, i) \in States /\ New(i) \subseteq Peers
      BY <1>s, StateTyped, Zenon
    <2> QED
      BY <2>1, Zenon DEF States, KnownPeers, Received
  <1>3. /\ n.list = [p \in Peers |-> IF p \in P THEN s.list[p] \cup taken[p] ELSE s.list[p]]
        /\ n.state = [i \in Items |-> IF New(i) = {} THEN s.state[i] ELSE With(i)]
        /\ n.assigned = s.assigned /\ n.orphan = s.orphan
    BY <1>s, <1>1, Zenon DEF Schedules
  <1>4. n \in Schedules
    <2>1. n.list \in [Peers -> SUBSET Items]
      BY <1>s, <1>3 DEF Schedules
    <2>2. n.state \in [Items -> States \cup {NONE}]
      BY <1>s, <1>2, <1>3 DEF Schedules
    <2> QED
      BY <1>s, <1>1, <2>1, <2>2, Zenon DEF Schedules
  <1>5. \A i \in Items : New(i) # {} => n.state[i] = With(i)
    BY <1>3, Zenon
  <1>6. \A i \in Items : New(i) = {} => n.state[i] = s.state[i]
    BY <1>3, Zenon
  <1>7. \A p \in Peers, i \in Items : i \in n.list[p] <=> i \in s.list[p] \/ p \in New(i)
    BY <1>3
  <1>8. \A i \in Items : New(i) \subseteq P
    OBVIOUS
  <1>9. {i \in I : ~Exists(s, i) /\ \E p \in P : i \in taken[p]} = {i \in Items : ~Exists(s, i) /\ New(i) # {}}
    OBVIOUS
  <1> HIDE DEF With, New
  <1>10. \A i \in Items : New(i) # {} => Exists(n, i) /\ StateOf(n, i) = With(i)
    BY <1>2, <1>5, ItemsAssumption DEF Exists, StateOf
  <1>11. \A i \in Items : New(i) = {} => StateOf(n, i) = StateOf(s, i) /\ Exists(n, i) = Exists(s, i)
    BY <1>6, Zenon DEF Exists, StateOf
  <1>12. \A i \in Items : /\ StateOf(n, i).asked = StateOf(s, i).asked
                          /\ Received(n, i) = Received(s, i)
                          /\ KnownPeers(n, i) = KnownPeers(s, i) \cup New(i)
    BY <1>2, <1>10, <1>11, Zenon DEF KnownPeers, Received
  <1>13. \A i \in Items : Exists(n, i) <=> Exists(s, i) \/ New(i) # {}
    BY <1>10, <1>11, Zenon
  <1>14. Agree(n)
    <2>1. ASSUME NEW q \in Peers, NEW i \in Items
          PROVE  /\ i \in n.list[q] <=> q \in KnownPeers(n, i)
                 /\ i \in n.assigned[q] <=> StateOf(n, i).asked = q /\ ~Received(n, i)
      BY <1>s, <1>3, <1>7, <1>12 DEF Agree
    <2>2. ASSUME NEW i \in Items, Exists(n, i)
          PROVE  /\ KnownPeers(n, i) # {}
                 /\ Received(n, i) => StateOf(n, i).asked # NONE
                 /\ StateOf(n, i).asked \in KnownPeers(n, i) \cup {NONE}
      <3>1. CASE Exists(s, i)
        BY <1>s, <1>12, <3>1 DEF Agree
      <3>2. CASE ~Exists(s, i)
        BY <1>s, <1>12, <1>13, <2>2, <3>2, StateTyped DEF NewState
      <3> QED
        BY <3>1, <3>2, Zenon
    <2> QED
      BY <2>1, <2>2, Zenon DEF Agree
  <1>15. Cardinality(Existing(n)) <= MaxInv
    <2> DEFINE more == {i \in Items : ~Exists(s, i) /\ New(i) # {}}
    <2>1. IsFiniteSet(Items)
      BY ItemsAssumption, FS_Union, Zenon DEF Items
    <2>2. IsFiniteSet(Existing(s)) /\ IsFiniteSet(more)
      BY <2>1, FS_Subset, Zenon DEF Existing
    <2>3. Existing(n) = Existing(s) \cup more /\ Existing(s) \cap more = {}
      BY <1>13 DEF Existing
    <2>4. Cardinality(Existing(s)) + Cardinality(more) <= MaxInv
      BY <1>1, <1>9, Zenon DEF Size, Existing
    <2> HIDE DEF more
    <2>5. Cardinality({}) = 0
      BY FS_EmptySet, Zenon
    <2>6. Cardinality(Existing(s) \cup more)
            = Cardinality(Existing(s)) + Cardinality(more) - Cardinality(Existing(s) \cap more)
      BY <2>2, FS_Union, Zenon
    <2>7. Cardinality(Existing(s)) \in Nat /\ Cardinality(more) \in Nat
      BY <2>2, FS_CardinalityType, Zenon
    <2>8. Cardinality(Existing(n)) = Cardinality(Existing(s)) + Cardinality(more) - 0
      BY <2>3, <2>5, <2>6, Zenon
    <2> QED
      BY <2>4, <2>7, <2>8, ItemsAssumption
  <1>16. ASSUME NEW p \in Peers, NEW kind \in {Blocks, Txs}
         PROVE  Cardinality(n.list[p] \cap kind) <= MaxPeer(kind)
    <2>1. CASE p \in P /\ taken[p] \cap kind # {}
      <3>1. PICK i \in taken[p] : i \in kind
        BY <2>1, Zenon
      <3>2. kind = Kind(i)
        BY <3>1, ItemsAssumption, Zenon DEF Kind
      <3>3. n.list[p] = s.list[p] \cup taken[p]
        BY <1>3, <2>1, Zenon
      <3> QED
        BY <1>1, <2>1, <3>2, <3>3, Zenon
    <2>2. CASE ~(p \in P /\ taken[p] \cap kind # {})
      <3>1. n.list[p] \cap kind = s.list[p] \cap kind
        BY <1>3, <2>2, ZenonT(40)
      <3> QED
        BY <1>s, <3>1, Zenon DEF Within
    <2> QED
      BY <2>1, <2>2, Zenon
  <1>17. Kept(s, n, P)
    BY <1>3, <1>8, <1>12 DEF Kept
  <1> QED
    BY <1>3, <1>4, <1>12, <1>13, <1>14, <1>15, <1>16, <1>17, Zenon DEF Sound, Within

\* The schedule with nothing in it.
LEMMA EmptySound == Sound(EmptySchedule)
  <1>1. EmptySchedule \in Schedules
    BY Zenon DEF EmptySchedule, Schedules
  <1>2. \A i \in Items : ~Exists(EmptySchedule, i) /\ StateOf(EmptySchedule, i) = NewState
    BY Zenon DEF EmptySchedule, Exists, StateOf
  <1>3. Agree(EmptySchedule)
    <2>1. \A i \in Items : /\ StateOf(EmptySchedule, i).asked = NONE
                           /\ KnownPeers(EmptySchedule, i) = {}
      BY <1>2 DEF KnownPeers, NewState
    <2>2. \A p \in Peers : EmptySchedule.list[p] = {} /\ EmptySchedule.assigned[p] = {}
      BY DEF EmptySchedule
    <2> HIDE DEF EmptySchedule
    <2> QED
      BY <1>2, <2>1, <2>2, ItemsAssumption, Zenon DEF Agree
  <1>4. Existing(EmptySchedule) = {}
    BY <1>2 DEF Existing
  <1>5. Within(EmptySchedule)
    <2>1. Cardinality({}) = 0
      BY FS_EmptySet, Zenon
    <2>2. \A p \in Peers : \A kind : EmptySchedule.list[p] \cap kind = {}
      BY Zenon DEF EmptySchedule
    <2>3. MaxInv >= 0 /\ \A kind : MaxPeer(kind) >= 0
      BY ItemsAssumption DEF MaxPeer
    <2> HIDE DEF EmptySchedule
    <2>4. \A p \in Peers, kind \in {Blocks, Txs} : Cardinality(EmptySchedule.list[p] \cap kind) <= MaxPeer(kind)
      BY <2>1, <2>2, <2>3, Zenon
    <2> QED
      BY <1>4, <2>1, <2>3, <2>4, Zenon DEF Within
  <1> QED
    BY <1>1, <1>3, <1>5, Zenon DEF Sound

-----------------------------------------------------------------------------
(* The inductive invariant.                                                   *)

Jobs == [pc : {"idle", "block", "tx", "post", "insert", "erase"}, owner : Peers \cup {NONE},
         item : Items \cup Peers \cup {NONE}, work : SUBSET Items, peers : SUBSET Peers,
         bad : SUBSET Peers, seen : SUBSET Items]

\* The types of the variables other than sched and job.
OthersTyped ==
    /\ world \subseteq Blocks \cup {Root} /\ Root \in world /\ pool \subseteq Txs
    /\ link \in [Peers -> {"new", "up", "leaving", "removed", "gone"}]
    /\ requests \in [Peers -> SUBSET Items] /\ getBlocks \subseteq Peers
    /\ peer \in [Peers -> {"absent", "none", "sync", "unsync"}] /\ unsync \subseteq Peers
    /\ extending \in BOOLEAN /\ local \subseteq Vacant \cup LocalTxs /\ crossed \subseteq Peers

InTouch(p) == link[p] \in {"up", "leaving"}

\* The peers that the schedule and the handler in progress speak of are connected, or their
\* Deactive is still to come.
Linked ==
    /\ \A i \in Items : \A p \in KnownPeers(sched, i) : InTouch(p)
    /\ \A p \in job.peers : InTouch(p)
    /\ job.pc \in {"insert", "erase"} => job.item \in Peers /\ InTouch(job.item)

\* mapPeer has the peers from their Active to the end of their Deactive.
PeerLinked == \A p \in Peers : peer[p] = "absent" <=> link[p] \in {"new", "gone"}

\* The first half of SetPeerSyncStatus is done.
HalfMoved ==
    \A p \in Peers \ crossed : Moving(p) => peer[p] = IF job.pc = "insert" THEN "unsync" ELSE "sync"

\* A received transaction is linked to each of the inputs that it waits for.
OrphansLinked ==
    \A t \in Txs : Received(sched, t) => \A i \in MissingPrevTx(t) : <<i, t>> \in sched.orphan

\* A received transaction with all it needs, none of it from a block or from this node.
Ready(t) == /\ Received(sched, t) /\ MissingPrevTx(t) = {}
            /\ ({t} \cup Inputs[t]) \cap (InBlocks \cup local) = {}

\* Such a transaction is among those that AddNewTx is about to try.
Released == \A t \in Txs : Ready(t) => job.pc = "tx" /\ t \in job.work

\* What AddNewTx has looked up is still to be tried, or done; a first transaction that is
\* found in a block has had none looked up.
TxJob ==
    job.pc = "tx" =>
        IF job.item \in InBlocks THEN job.work \subseteq {job.item}
        ELSE \A t \in job.seen : t \in job.work \/ ~Received(sched, t)

Typed == Sound(sched) /\ job \in Jobs /\ OthersTyped
PeersRight == Linked /\ PeerLinked /\ HalfMoved /\ UnsyncFollows
OrphansRight == OrphansLinked /\ Released /\ TxJob

BooksInv == Typed /\ PeersRight /\ OrphansRight

\* The invariant implies the property.
LEMMA BooksInvImplies == BooksInv => BooksInOrder
  <1> SUFFICES ASSUME BooksInv
               PROVE  BooksInOrder
    OBVIOUS
  <1>s. sched \in Schedules /\ Agree(sched) /\ Within(sched)
    BY Zenon DEF BooksInv, Typed, Sound
  <1>1. TypeOK
    BY <1>s DEF BooksInv, Typed, OthersTyped, TypeOK, Jobs, Schedules
  <1>2. ListsAgree /\ LimitsKept
    BY <1>s, Zenon DEF Agree, Within, Existing, Size, ListsAgree, LimitsKept
  <1>3. GoneForgotten
    <2>1. ASSUME NEW p \in Peers, link[p] \in {"removed", "gone"}
          PROVE  /\ sched.list[p] = {} /\ sched.assigned[p] = {}
                 /\ \A i \in Items : p \notin KnownPeers(sched, i) /\ StateOf(sched, i).asked # p
      <3>1. \A i \in Items : p \notin KnownPeers(sched, i)
        BY <2>1, Zenon DEF BooksInv, PeersRight, Linked, InTouch
      <3>2. \A i \in Items : StateOf(sched, i).asked # p
        BY <1>s, <3>1, StateTyped, ItemsAssumption DEF Agree, NewState
      <3>3. sched.list[p] \subseteq Items /\ sched.assigned[p] \subseteq Items
        BY <1>s, Zenon DEF Schedules
      <3> QED
        BY <1>s, <3>1, <3>2, <3>3 DEF Agree
    <2>2. \A p \in Peers : link[p] = "gone" => peer[p] = "absent"
      BY DEF BooksInv, PeersRight, PeerLinked
    <2> QED
      BY <2>1, <2>2, Zenon DEF GoneForgotten
  <1>4. OrphanTxsReleased
    <2>1. job = Idle => job.pc # "tx"
      BY DEF Idle
    <2> QED
      BY <2>1, Zenon DEF OrphanTxsReleased, BooksInv, OrphansRight, Released, Ready
  <1> QED
    BY <1>1, <1>2, <1>3, <1>4, Zenon DEF BooksInOrder, BooksInv, PeersRight

LEMMA BooksInvInit == Init => BooksInv
  <1> SUFFICES ASSUME Init
               PROVE  BooksInv
    OBVIOUS
  <1>1. Sound(sched)
    BY EmptySound, Zenon DEF Init
  <1>2. \A i \in Items : KnownPeers(sched, i) = {} /\ Received(sched, i) = FALSE
    BY Zenon DEF Init, EmptySchedule, KnownPeers, Received, StateOf, Exists, NewState
  <1>3. job \in Jobs /\ job.pc = "idle" /\ job.peers = {}
    BY DEF Init, Idle, Jobs
  <1>4. OthersTyped
    BY Zenon DEF Init, OthersTyped
  <1>5. PeersRight
    BY <1>2, <1>3, Zenon DEF Init, PeersRight, Linked, PeerLinked, HalfMoved, UnsyncFollows, Moving
  <1>6. OrphansRight
    BY <1>2, <1>3, Zenon DEF OrphansRight, OrphansLinked, Released, Ready, TxJob, Items
  <1> QED
    BY <1>1, <1>3, <1>4, <1>5, <1>6, Zenon DEF BooksInv, Typed

\* A step that receives no transaction, makes none ready, and leaves to AddNewTx what it
\* has to try.
LEMMA OrphansQuiet ==
    ASSUME OrphansRight,
           \A t \in Txs : Received(sched', t) =>
               /\ Received(sched, t)
               /\ \A i \in Items : <<i, t>> \in sched.orphan => <<i, t>> \in sched'.orphan,
           \A t \in Txs : MissingPrevTx(t)' \subseteq MissingPrevTx(t),
           \A t \in Txs : Ready(t)' => Ready(t),
           job.pc = "tx" => \A t \in job.work :
               (job'.pc = "tx" /\ t \in job'.work) \/ ~Received(sched', t),
           job'.pc = "tx" => /\ job.pc = "tx" /\ job'.work \subseteq job.work
                             /\ job'.item = job.item /\ job'.seen = job.seen
                             /\ \A t \in job.seen : Received(sched', t) => Received(sched, t)
                             /\ InBlocks' = InBlocks
    PROVE  OrphansRight'
  <1>1. \A t \in Txs : MissingPrevTx(t) \subseteq Items
    BY ChainAssumption, Zenon DEF MissingPrevTx, Items
  <1>2. OrphansLinked'
    BY <1>1, Zenon DEF OrphansRight, OrphansLinked
  <1>3. Released'
    BY Zenon DEF OrphansRight, Released, Ready
  <1>4. TxJob'
    BY DEF OrphansRight, TxJob
  <1> QED
    BY <1>2, <1>3, <1>4, Zenon DEF OrphansRight

\* Such a step, where nothing enters the chain or the pool.
LEMMA OrphansStay ==
    ASSUME Typed, OrphansRight, NEW P, Kept(sched, sched', P), UNCHANGED <<world, pool, local>>,
           job.pc = "tx" => \A t \in job.work :
               (job'.pc = "tx" /\ t \in job'.work) \/ ~Received(sched', t),
           job'.pc = "tx" => /\ job.pc = "tx" /\ job'.work \subseteq job.work
                             /\ job'.item = job.item /\ job'.seen = job.seen
    PROVE  OrphansRight'
  <1>1. InBlocks' = InBlocks
    BY DEF InBlocks
  <1>2. \A t : MissingPrevTx(t)' = MissingPrevTx(t)
    BY <1>1, Zenon DEF MissingPrevTx
  <1>3. \A t \in Items : Received(sched', t) =>
               /\ Received(sched, t)
               /\ \A i \in Items : <<i, t>> \in sched.orphan => <<i, t>> \in sched'.orphan
    BY Zenon DEF Kept
  <1>4. \A t \in Txs : Ready(t)' => Ready(t)
    BY <1>1, <1>2, <1>3, Zenon DEF Ready, Items
  <1>5. job.seen \subseteq Items /\ Txs \subseteq Items
    BY Zenon DEF Typed, Jobs, Items
  <1> QED
    BY <1>1, <1>2, <1>3, <1>4, <1>5, OrphansQuiet, Zenon

\* Nothing that the schedule, the chain or the pool are about changes.
LEMMA OrphansUnchanged ==
    ASSUME OrphansRight, UNCHANGED <<sched, world, pool, job, local>>
    PROVE  OrphansRight'
  BY Zenon DEF OrphansRight, OrphansLinked, Released, Ready, TxJob, MissingPrevTx, InBlocks

\* Close only has connections leave.
LEMMA CloseKeeps ==
    ASSUME OthersTyped, NEW P, Close(P)
    PROVE  /\ link' \in [Peers -> {"new", "up", "leaving", "removed", "gone"}]
           /\ \A p \in Peers : /\ InTouch(p)' = InTouch(p)
                               /\ link[p]' \in {"new", "gone"} <=> link[p] \in {"new", "gone"}
  BY DEF OthersTyped, Close, Connected, InTouch

-----------------------------------------------------------------------------
(* Peers come and go.                                                         *)

LEMMA ActiveKeeps ==
    ASSUME BooksInv, NEW p \in Peers, Active(p)
    PROVE  BooksInv'
  <1> USE DEF Active, PeerFrame, ownVars
  <1>1. Typed'
    BY DEF BooksInv, Typed, OthersTyped
  <1>2. OrphansRight'
    BY OrphansUnchanged, Zenon DEF BooksInv
  <1>3. \A q \in Peers : link'[q] = IF q = p THEN "up" ELSE link[q]
    BY Zenon DEF BooksInv, Typed, OthersTyped
  <1>4. \A q \in Peers : peer'[q] = IF q = p THEN "none" ELSE peer[q]
    BY Zenon DEF BooksInv, Typed, OthersTyped
  <1>5. job.peers \subseteq Peers /\ \A i \in Items : KnownPeers(sched, i) \subseteq Peers
    BY StateTyped, Zenon DEF BooksInv, Typed, Jobs, Sound
  <1>6. Linked'
    BY <1>3, <1>5, Zenon DEF BooksInv, PeersRight, Linked, InTouch
  <1>7. PeerLinked'
    BY <1>3, <1>4 DEF BooksInv, PeersRight, PeerLinked
  <1>8. \A q \in Peers : Moving(q)' = Moving(q)
    BY Zenon DEF Moving
  <1>9. ~Moving(p) /\ peer[p] = "absent"
    BY Zenon DEF Moving, BooksInv, PeersRight, Linked, PeerLinked, InTouch
  <1>10. HalfMoved' /\ UnsyncFollows'
    BY <1>4, <1>8, <1>9 DEF BooksInv, PeersRight, HalfMoved, UnsyncFollows
  <1> QED
    BY <1>1, <1>2, <1>6, <1>7, <1>10, Zenon DEF BooksInv, PeersRight

LEMMA SubscribeKeeps ==
    ASSUME BooksInv, NEW p \in Peers, Subscribe(p)
    PROVE  BooksInv'
  <1> USE DEF Subscribe, PeerFrame, ownVars
  <1>1. \A q \in Peers : peer'[q] = IF q = p /\ peer[p] = "none" THEN "unsync" ELSE peer[q]
    BY Zenon DEF BooksInv, Typed, OthersTyped
  <1>2. Typed'
    BY DEF BooksInv, Typed, OthersTyped, Crossing
  <1>3. OrphansRight'
    BY OrphansUnchanged, Zenon DEF BooksInv
  <1>4. Linked' /\ PeerLinked'
    BY <1>1 DEF BooksInv, PeersRight, Linked, PeerLinked, InTouch
  <1>5. \A q \in Peers : Moving(q)' = Moving(q)
    BY DEF Moving
  <1>6. peer'[p] \in {"sync", "unsync"}
    BY <1>1, Zenon DEF BooksInv, Typed, OthersTyped
  <1>7. HalfMoved' /\ UnsyncFollows'
    BY <1>1, <1>5, <1>6, Zenon DEF BooksInv, PeersRight, HalfMoved, UnsyncFollows, Crossing
  <1> QED
    BY <1>2, <1>3, <1>4, <1>7, Zenon DEF BooksInv, PeersRight

LEMMA UnsubscribeKeeps ==
    ASSUME BooksInv, NEW p \in Peers, Unsubscribe(p)
    PROVE  BooksInv'
  <1> USE DEF Unsubscribe, PeerFrame, ownVars
  <1>1. \A q \in Peers : peer'[q] = IF q = p THEN "none" ELSE peer[q]
    BY Zenon DEF BooksInv, Typed, OthersTyped
  <1>2. Typed'
    BY DEF BooksInv, Typed, OthersTyped, Crossing
  <1>3. OrphansRight'
    BY OrphansUnchanged, Zenon DEF BooksInv
  <1>4. Linked' /\ PeerLinked'
    BY <1>1 DEF BooksInv, PeersRight, Linked, PeerLinked, InTouch
  <1>5. \A q \in Peers : Moving(q)' = Moving(q)
    BY Zenon DEF Moving
  <1>6. HalfMoved' /\ UnsyncFollows'
    BY <1>1, <1>5 DEF BooksInv, PeersRight, HalfMoved, UnsyncFollows, Crossing
  <1> QED
    BY <1>2, <1>3, <1>4, <1>6, Zenon DEF BooksInv, PeersRight

\* A step that leaves the subscriptions, and does not come between the halves of
\* SetPeerSyncStatus.
LEMMA PeersStay ==
    ASSUME PeersRight, UNCHANGED <<peer, unsync, crossed>>,
           \A p \in Peers : link[p]' \in {"new", "gone"} <=> link[p] \in {"new", "gone"},
           Linked',
           \/ UNCHANGED job
           \/ job.pc \notin {"insert", "erase"} /\ job'.pc \notin {"insert", "erase"}
    PROVE  PeersRight'
  <1>1. PeerLinked'
    BY Zenon DEF PeersRight, PeerLinked
  <1>2. HalfMoved' /\ UnsyncFollows'
    BY DEF PeersRight, HalfMoved, UnsyncFollows, Moving
  <1> QED
    BY <1>1, <1>2, Zenon DEF PeersRight

\* The peers and items that the parts of the state name.
LEMMA Named ==
    ASSUME Typed
    PROVE  /\ job.peers \subseteq Peers /\ job.work \subseteq Items
           /\ \A i \in Items : KnownPeers(sched, i) \subseteq Peers
           /\ \A i : GetNext(sched, i) \subseteq Items
           /\ \A p \in Peers : sched.list[p] \subseteq Items
           /\ \A p \in Peers : PeersAfter(sched, p) \subseteq Peers
  <1>1. sched \in Schedules
    BY Zenon DEF Typed, Sound
  <1>2. \A i \in Items : KnownPeers(sched, i) \subseteq Peers
    BY <1>1, StateTyped, Zenon
  <1>3. \A p \in Peers : sched.list[p] \subseteq Items
    BY <1>1, Zenon DEF Schedules
  <1>4. \A i : GetNext(sched, i) \subseteq Items
    BY <1>1 DEF GetNext, Schedules
  <1>5. \A p \in Peers : PeersAfter(sched, p) \subseteq Peers
    BY <1>2, <1>3, Zenon DEF PeersAfter
  <1> QED
    BY <1>2, <1>3, <1>4, <1>5, Zenon DEF Typed, Jobs

\* The peers that know an item of a branch are peers.
LEMMA MisbehavingPeers ==
    ASSUME NEW s \in Schedules, NEW root \in Items
    PROVE  Misbehaving(s, root) \subseteq Peers
  <1>1. Branch(s, root) \cup {root} \subseteq Items
    BY DEF Branch
  <1> QED
    BY <1>1, StateTyped, Zenon DEF Misbehaving

\* The handler after its main part.
LEMMA PostTyped ==
    ASSUME NEW p \in Peers, NEW P \in SUBSET Peers, NEW B \in SUBSET Peers
    PROVE  /\ Post(p, P, B) \in Jobs
           /\ Post(p, P, B).pc = "post" /\ Post(p, P, B).peers = P
  BY Zenon DEF Post, Idle, Jobs

LEMMA LeaveKeeps ==
    ASSUME BooksInv, NEW p \in Peers, Leave(p)
    PROVE  BooksInv'
  <1> USE DEF Leave, PeerFrame, ownVars
  <1>1. /\ link' \in [Peers -> {"new", "up", "leaving", "removed", "gone"}]
        /\ \A q \in Peers : /\ InTouch(q)' = InTouch(q)
                            /\ link[q]' \in {"new", "gone"} <=> link[q] \in {"new", "gone"}
    BY CloseKeeps, Zenon DEF BooksInv, Typed
  <1>2. Typed'
    BY <1>1, Zenon DEF BooksInv, Typed, OthersTyped
  <1>3. Linked'
    BY <1>1, Named, Zenon DEF BooksInv, PeersRight, Linked
  <1>4. PeersRight'
    BY <1>1, <1>3, PeersStay, Zenon DEF BooksInv
  <1> QED
    BY <1>2, <1>4, OrphansUnchanged, Zenon DEF BooksInv

LEMMA DeactiveKeeps ==
    ASSUME BooksInv, NEW p \in Peers, Deactive(p)
    PROVE  BooksInv'
  <1> USE DEF Deactive, ownVars
  <1>1. /\ Sound(sched') /\ Kept(sched, sched', {})
        /\ \A i \in Items : p \notin KnownPeers(sched', i)
    BY RemovePeerSound, Zenon DEF BooksInv, Typed
  <1>2. job' \in Jobs /\ job'.pc = "post" /\ job'.peers = PeersAfter(sched, p) /\ job.pc = "idle"
    BY Named, PostTyped DEF BooksInv, Idle
  <1>3. \A q \in Peers : link'[q] = IF q = p THEN "removed" ELSE link[q]
    BY DEF BooksInv, Typed, OthersTyped
  <1>4. Typed'
    BY <1>1, <1>2, Zenon DEF BooksInv, Typed, OthersTyped
  <1>5. PeersAfter(sched, p) \subseteq Peers \ {p} /\ \A q \in PeersAfter(sched, p) : InTouch(q)
    BY Named, Zenon DEF BooksInv, PeersRight, Linked, PeersAfter
  <1>6. \A i \in Items : KnownPeers(sched', i) \subseteq KnownPeers(sched, i) \ {p}
    BY <1>1, Zenon DEF Kept
  <1>7. Linked'
    <2>1. \A q \in Peers \ {p} : InTouch(q)' = InTouch(q)
      BY <1>3, Zenon DEF InTouch
    <2>2. \A i \in Items : \A q \in KnownPeers(sched', i) : q \in Peers /\ InTouch(q)'
      BY <1>6, <2>1, Named, Zenon DEF BooksInv, PeersRight, Linked
    <2> QED
      BY <1>2, <1>5, <2>1, <2>2, Zenon DEF Linked
  <1>8. PeersRight'
    BY <1>2, <1>3, <1>7, PeersStay DEF BooksInv
  <1>9. OrphansRight'
    BY <1>1, <1>2, OrphansStay, Zenon DEF BooksInv
  <1> QED
    BY <1>4, <1>8, <1>9, Zenon DEF BooksInv

LEMMA DeactivePeerKeeps ==
    ASSUME BooksInv, NEW p \in Peers, DeactivePeer(p)
    PROVE  BooksInv'
  <1> USE DEF DeactivePeer, PeerFrame, ownVars
  <1>1. \A q \in Peers : link'[q] = IF q = p THEN "gone" ELSE link[q]
    BY Zenon DEF BooksInv, Typed, OthersTyped
  <1>2. \A q \in Peers : peer'[q] = IF q = p THEN "absent" ELSE peer[q]
    BY Zenon DEF BooksInv, Typed, OthersTyped
  <1>3. Typed'
    BY Zenon DEF BooksInv, Typed, OthersTyped
  <1>4. \A q \in Peers : InTouch(q)' = InTouch(q)
    BY <1>1 DEF InTouch
  <1>5. Linked'
    BY <1>4, Named, Zenon DEF BooksInv, PeersRight, Linked
  <1>6. PeerLinked'
    BY <1>1, <1>2, Zenon DEF BooksInv, PeersRight, PeerLinked
  <1>7. \A q \in Peers : Moving(q)' = Moving(q) /\ ~Moving(p)
    BY Zenon DEF Moving, BooksInv, PeersRight, Linked, InTouch
  <1>8. HalfMoved'
    BY <1>2, <1>7, Zenon DEF BooksInv, PeersRight, HalfMoved
  <1>9. UnsyncFollows'
    BY <1>2, <1>7 DEF BooksInv, PeersRight, UnsyncFollows
  <1> QED
    BY <1>3, <1>5, <1>6, <1>8, <1>9, OrphansUnchanged, Zenon DEF BooksInv, PeersRight

-----------------------------------------------------------------------------
(* What the peers send.                                                       *)

LEMMA InvKeeps ==
    ASSUME BooksInv, NEW p \in Peers, NEW I \in SUBSET Items, Inv(p, I), getBlocks' \subseteq Peers
    PROVE  BooksInv'
  <1> USE DEF Inv, peerVars, ownVars
  <1>1. /\ Sound(sched') /\ Kept(sched, sched', {p})
    BY AddNewInvSound, Zenon DEF BooksInv, Typed
  <1>2. job' \in Jobs /\ job'.pc = "post" /\ job'.peers = {p} /\ job.pc = "idle"
    BY PostTyped DEF Idle
  <1>3. Typed'
    BY <1>1, <1>2, Zenon DEF BooksInv, Typed, OthersTyped
  <1>4. \A q \in Peers : InTouch(q)' = InTouch(q)
    BY Zenon DEF InTouch
  <1>5. InTouch(p)
    BY Zenon DEF Handling, InTouch
  <1>6. \A i \in Items : KnownPeers(sched', i) \subseteq KnownPeers(sched, i) \cup {p}
    BY <1>1, Zenon DEF Kept
  <1>7. Linked'
    BY <1>2, <1>4, <1>5, <1>6, Named, Zenon DEF BooksInv, PeersRight, Linked
  <1>8. PeersRight'
    BY <1>2, <1>7, PeersStay, Zenon DEF BooksInv
  <1>9. OrphansRight'
    BY <1>1, <1>2, OrphansStay, Zenon DEF BooksInv
  <1> QED
    BY <1>3, <1>8, <1>9, Zenon DEF BooksInv

LEMMA AnnounceKeeps ==
    ASSUME BooksInv, NEW p \in Peers, Announce(p) \/ AnswerGetBlocks(p)
    PROVE  BooksInv'
  <1>1. Has[p] \subseteq Items /\ getBlocks \subseteq Peers
    BY ChainAssumption, Zenon DEF BooksInv, Typed, OthersTyped
  <1>2. CASE Announce(p)
    BY <1>1, <1>2, InvKeeps, Zenon DEF Announce
  <1>3. CASE AnswerGetBlocks(p)
    BY <1>1, <1>3, InvKeeps, Zenon DEF AnswerGetBlocks
  <1> QED
    BY <1>2, <1>3, Zenon

\* What an answer has in common, once the schedule and the handler are known to be right.
LEMMA AnswerTyped ==
    ASSUME BooksInv, NEW p \in Peers, NEW i \in Items, Answer(p, i), Sound(sched'), job' \in Jobs,
           link' \in [Peers -> {"new", "up", "leaving", "removed", "gone"}]
    PROVE  Typed'
  BY Zenon DEF BooksInv, Typed, OthersTyped, Answer, ownVars

LEMMA UnexpectedKeeps ==
    ASSUME BooksInv, NEW p \in Peers, NEW i \in Items, Unexpected(p, i)
    PROVE  BooksInv'
  <1>1. /\ link' \in [Peers -> {"new", "up", "leaving", "removed", "gone"}]
        /\ \A q \in Peers : /\ InTouch(q)' = InTouch(q)
                            /\ link[q]' \in {"new", "gone"} <=> link[q] \in {"new", "gone"}
    BY CloseKeeps, Zenon DEF BooksInv, Typed, Unexpected
  <1>2. Typed'
    BY <1>1, AnswerTyped, Zenon DEF BooksInv, Typed, Unexpected
  <1>3. Linked'
    BY <1>1, Named, Zenon DEF BooksInv, PeersRight, Linked, Unexpected
  <1>4. PeersRight'
    BY <1>1, <1>3, PeersStay, Zenon DEF BooksInv, Unexpected, Answer
  <1> QED
    BY <1>2, <1>4, OrphansUnchanged, Zenon DEF BooksInv, Unexpected, Answer, ownVars

\* The peers of a handler that has dealt with an answer.
LEMMA AnswerPeers ==
    ASSUME BooksInv, NEW p \in Peers, NEW i \in Items, Answer(p, i), UNCHANGED link,
           \A j \in Items : KnownPeers(sched', j) \subseteq KnownPeers(sched, j) \cup KnownPeers(sched, i),
           job'.pc \in {"block", "tx", "post"}, job'.peers = KnownPeers(sched, i)
    PROVE  PeersRight'
  <1>1. \A q \in Peers : InTouch(q)' = InTouch(q)
    BY Zenon DEF InTouch
  <1>2. Linked'
    BY <1>1, Named, ZenonT(40) DEF BooksInv, PeersRight, Linked
  <1>3. job.pc = "idle"
    BY DEF Answer, Idle
  <1> QED
    BY <1>2, <1>3, PeersStay, Zenon DEF BooksInv, Answer

LEMMA BlockKeeps ==
    ASSUME BooksInv, NEW p \in Peers, NEW b \in Blocks, Block(p, b)
    PROVE  BooksInv'
  <1> DEFINE r == Receive(sched, p, b)
             known == KnownPeers(sched, b)
  <1>1. Answer(p, b) /\ MayReceive(sched, p, b) /\ UNCHANGED link /\ b \in Items
    BY Zenon DEF Block, Items
  <1>2. /\ Sound(r) /\ r.orphan = sched.orphan
        /\ \A i \in Items : /\ KnownPeers(r, i) = KnownPeers(sched, i)
                            /\ Received(r, i) <=> i = b \/ Received(sched, i)
    BY <1>1, ReceiveSound DEF BooksInv, Typed
  <1>3. known \subseteq Peers
    BY <1>1, Named, Zenon DEF BooksInv
  <1>4. Prev[b] \in Items \/ Prev[b] \in world
    BY ChainAssumption, Zenon DEF Items, BooksInv, Typed, OthersTyped
  <1> HIDE DEF r
  <1>5. /\ Sound(sched')
        /\ \A j \in Items : KnownPeers(sched', j) = KnownPeers(sched, j)
        /\ \A j \in Items : Received(sched', j) <=> j = b \/ Received(sched, j)
        /\ \A j \in Items, i \in Items : <<j, i>> \in sched.orphan => <<j, i>> \in sched'.orphan
    <2>1. CASE Prev[b] \in world
      <3>1. sched' = r
        BY <2>1, Zenon DEF Block, r
      <3> QED
        BY <1>2, <3>1, Zenon
    <2>2. CASE Prev[b] \notin world
      <3>1. sched' = AddOrphan(r, b, {Prev[b]})
        BY <2>2, Zenon DEF Block, r
      <3>2. {Prev[b]} \in SUBSET Items /\ Sound(r) /\ b \in Items
        BY <1>1, <1>2, <1>4, <2>2, Zenon
      <3>3. /\ Sound(sched')
            /\ \A j \in Items, i \in Items : <<j, i>> \in r.orphan => <<j, i>> \in sched'.orphan
            /\ \A j \in Items : /\ KnownPeers(sched', j) = KnownPeers(r, j)
                                /\ Received(sched', j) = Received(r, j)
        BY <3>1, <3>2, AddOrphanSound
      <3> QED
        BY <1>2, <3>3, Zenon
    <2> QED
      BY <2>1, <2>2, Zenon
  <1>6. job' \in Jobs /\ job'.pc \in {"block", "post"} /\ job'.peers = known
    <2>1. job' = Post(p, known, {}) \/ job' = [Post(p, known, {}) EXCEPT !.pc = "block", !.work = {b}]
      BY DEF Block
    <2>2. {b} \in SUBSET Items /\ {} \in SUBSET Peers
      BY <1>1, Zenon
    <2> HIDE DEF known
    <2>3. CASE job' = Post(p, known, {})
      BY <1>3, <2>2, <2>3, PostTyped
    <2>4. CASE job' = [Post(p, known, {}) EXCEPT !.pc = "block", !.work = {b}]
      <3>1. [Post(p, known, {}) EXCEPT !.pc = "block", !.work = {b}]
              \in {j \in Jobs : j.pc = "block" /\ j.peers = known}
        BY <1>1, <1>3, <2>2, Zenon DEF Post, Idle, Jobs
      <3> QED
        BY <2>4, <3>1, Zenon
    <2> QED
      BY <2>1, <2>3, <2>4, Zenon
  <1>7. Typed'
    BY <1>1, <1>5, <1>6, AnswerTyped, Zenon DEF BooksInv, Typed, OthersTyped
  <1>8. PeersRight'
    BY <1>1, <1>5, <1>6, AnswerPeers, Zenon
  <1>9. OrphansRight'
    <2>1. UNCHANGED <<world, pool, local>> /\ job.pc = "idle"
      BY <1>1, Zenon DEF Answer, ownVars, Idle
    <2>2. InBlocks' = InBlocks
      BY <2>1, Zenon DEF InBlocks
    <2>3. \A t : MissingPrevTx(t)' = MissingPrevTx(t)
      BY <2>1, <2>2, Zenon DEF MissingPrevTx
    <2>4. \A t \in Txs : t \in Items /\ t # b
      BY ItemsAssumption, Zenon DEF Items
    <2>5. \A t \in Txs : Received(sched', t) <=> Received(sched, t)
      BY <1>5, <2>4, Zenon
    <2>6. \A t \in Txs : Ready(t)' => Ready(t)
      BY <2>1, <2>2, <2>3, <2>5, Zenon DEF Ready
    <2> QED
      BY <1>5, <1>6, <2>1, <2>3, <2>4, <2>5, <2>6, OrphansQuiet, Zenon DEF BooksInv
  <1> QED
    BY <1>7, <1>8, <1>9, Zenon DEF BooksInv

\* HandleEvent(CMvEventPeerTx): its three outcomes.
LEMMA TxKeeps ==
    ASSUME BooksInv, NEW p \in Peers, NEW t \in Txs, Tx(p, t)
    PROVE  BooksInv'
  <1> DEFINE r == Receive(sched, p, t)
             known == KnownPeers(sched, t)
             missing == MissingPrevTx(t)
  <1>1. Answer(p, t) /\ MayReceive(sched, p, t) /\ UNCHANGED link /\ t \in Items
    BY Zenon DEF Tx, Items
  <1>2. /\ Sound(r) /\ r \in Schedules /\ r.orphan = sched.orphan
        /\ \A i \in Items : /\ KnownPeers(r, i) = KnownPeers(sched, i)
                            /\ Received(r, i) <=> i = t \/ Received(sched, i)
    BY <1>1, ReceiveSound DEF BooksInv, Typed, Sound
  <1>3. known \in SUBSET Peers /\ missing \in SUBSET Items /\ {} \in SUBSET Peers
    BY <1>1, Named, ChainAssumption, Zenon DEF BooksInv, MissingPrevTx, Items
  <1>4. UNCHANGED <<world, pool, local>> /\ job.pc = "idle"
    BY <1>1, Zenon DEF Answer, ownVars, Idle
  <1>5. InBlocks' = InBlocks
    BY <1>4 DEF InBlocks
  <1>6. \A x : MissingPrevTx(x)' = MissingPrevTx(x)
    BY <1>4, <1>5, Zenon DEF MissingPrevTx
  <1>7. Txs \subseteq Items
    BY Zenon DEF Items
  <1>8. ASSUME Anchor[t] \notin world, sched' = Invalidate(r, t),
               job' = Post(p, known, Misbehaving(r, t))
        PROVE  BooksInv'
    <2> HIDE DEF r, known, missing
    <2>1. Sound(sched') /\ Kept(r, sched', {}) /\ ~Received(sched', t)
      BY <1>1, <1>2, <1>8, InvalidateSound, ZenonT(40)
    <2>2. job' \in Jobs /\ job'.pc = "post" /\ job'.peers = known
      BY <1>1, <1>2, <1>3, <1>8, MisbehavingPeers, PostTyped
    <2>3. Typed'
      BY <1>1, <2>1, <2>2, AnswerTyped, Zenon DEF BooksInv, Typed, OthersTyped
    <2>4. PeersRight'
      BY <1>1, <1>2, <2>1, <2>2, AnswerPeers, Zenon DEF Kept, known
    <2>5. Kept(sched, sched', {})
      BY <1>2, <2>1, Zenon DEF Kept
    <2>6. OrphansRight'
      BY <1>4, <2>2, <2>5, OrphansStay, Zenon DEF BooksInv
    <2> QED
      BY <2>3, <2>4, <2>6, Zenon DEF BooksInv
  <1>9. ASSUME missing = {}, sched' = r,
               job' = [Post(p, known, {}) EXCEPT !.pc = "tx", !.item = t, !.work = {t}]
        PROVE  BooksInv'
    <2>1. job' \in Jobs /\ job'.pc = "tx" /\ job'.peers = known /\ job'.item = t /\ job'.work = {t}
          /\ job'.seen = {}
      <3>1. {t} \in SUBSET Items
        BY <1>1
      <3> HIDE DEF r, known, missing
      <3>2. [Post(p, known, {}) EXCEPT !.pc = "tx", !.item = t, !.work = {t}]
              \in {j \in Jobs : j.pc = "tx" /\ j.peers = known /\ j.item = t /\ j.work = {t} /\ j.seen = {}}
        BY <1>1, <1>3, <3>1, Zenon DEF Post, Idle, Jobs
      <3> QED
        BY <1>9, <3>2, Zenon
    <2> HIDE DEF r
    <2>2. Typed'
      BY <1>1, <1>2, <1>9, <2>1, AnswerTyped, Zenon DEF BooksInv, Typed, OthersTyped
    <2>3. PeersRight'
      BY <1>1, <1>2, <1>9, <2>1, AnswerPeers, Zenon
    <2>4. OrphansLinked'
      BY <1>2, <1>6, <1>7, <1>9, Zenon DEF BooksInv, OrphansRight, OrphansLinked
    <2>5. \A x \in Txs : Ready(x)' => x = t
      BY <1>2, <1>4, <1>5, <1>6, <1>7, <1>9, Zenon DEF BooksInv, OrphansRight, Released, Ready
    <2>6. Released' /\ TxJob'
      BY <2>1, <2>5, Zenon DEF Released, TxJob
    <2> QED
      BY <2>2, <2>3, <2>4, <2>6, Zenon DEF BooksInv, OrphansRight
  <1>10. ASSUME missing # {},
                sched' \in AddNewInv(AddOrphan(r, t, missing), {i \in missing : ~Exists(sched, i)}, known),
                job' = Post(p, known, {})
         PROVE  BooksInv'
    <2> DEFINE o == AddOrphan(r, t, missing)
               I == {i \in missing : ~Exists(sched, i)}
    <2>1. I \in SUBSET Items
      BY <1>3, Zenon
    <2> HIDE DEF r, known
    <2>2. /\ Sound(o)
          /\ \A j \in Items, i \in Items : <<j, i>> \in o.orphan <=>
                 <<j, i>> \in sched.orphan \/ (i = t /\ j \in missing)
          /\ \A i \in Items : /\ KnownPeers(o, i) = KnownPeers(sched, i)
                              /\ Received(o, i) <=> i = t \/ Received(sched, i)
      <3> HIDE DEF missing
      <3>1. missing \in SUBSET Items /\ Sound(r) /\ t \in Items
        BY <1>1, <1>2, <1>3, Zenon
      <3>2. /\ Sound(o)
            /\ \A j \in Items, i \in Items : <<j, i>> \in o.orphan <=>
                   <<j, i>> \in r.orphan \/ (i = t /\ j \in missing)
            /\ \A i \in Items : KnownPeers(o, i) = KnownPeers(r, i) /\ Received(o, i) = Received(r, i)
        <4> DEFINE a == AddOrphan(r, t, missing)
        <4> HIDE DEF o
        <4>1. /\ Sound(a)
              /\ \A j \in Items, i \in Items : <<j, i>> \in a.orphan <=>
                     <<j, i>> \in r.orphan \/ (i = t /\ j \in missing)
              /\ \A i \in Items : KnownPeers(a, i) = KnownPeers(r, i) /\ Received(a, i) = Received(r, i)
          BY <3>1, AddOrphanSound
        <4>2. o = a
          BY Zenon DEF o
        <4> HIDE DEF a
        <4> QED
          BY <4>1, <4>2, ZenonT(40)
      <3> QED
        BY <1>2, <3>2, Zenon
    <2>3. sched' \in AddNewInv(o, I, known)
      BY <1>10, Zenon
    <2> HIDE DEF o, I, missing
    <2>4. /\ Sound(sched') /\ Kept(o, sched', known) /\ sched'.orphan = o.orphan
          /\ \A i \in Items : Received(sched', i) = Received(o, i)
      <3>1. Sound(o) /\ known \in SUBSET Peers
        BY <1>3, <2>2, Zenon
      <3>2. ASSUME NEW n \in AddNewInv(o, I, known)
            PROVE  /\ Sound(n) /\ Kept(o, n, known) /\ n.orphan = o.orphan
                   /\ \A i \in Items : Received(n, i) = Received(o, i)
        BY <2>1, <3>1, AddNewInvSound
      <3> QED
        BY <2>3, <3>2, Zenon
    <2>5. job' \in Jobs /\ job'.pc = "post" /\ job'.peers = known
      BY <1>3, <1>10, PostTyped, Zenon
    <2>6. Typed'
      BY <1>1, <2>4, <2>5, AnswerTyped, Zenon DEF BooksInv, Typed, OthersTyped
    <2>7. \A i \in Items : KnownPeers(sched', i) \subseteq KnownPeers(sched, i) \cup known
      BY <2>2, <2>4, Zenon DEF Kept
    <2>8. PeersRight'
      BY <1>1, <2>5, <2>7, AnswerPeers, Zenon DEF known
    <2>9. \A i \in Items : Received(sched', i) <=> i = t \/ Received(sched, i)
      BY <2>2, <2>4, Zenon
    <2>10. OrphansLinked'
      <3>1. \A x \in Txs : MissingPrevTx(x) \subseteq Items
        BY ChainAssumption, Zenon DEF MissingPrevTx, Items
      <3> QED
        BY <1>6, <1>7, <2>2, <2>4, <2>9, <3>1, Zenon DEF BooksInv, OrphansRight, OrphansLinked, missing
    <2>11. \A x \in Txs : ~Ready(x)'
      BY <1>4, <1>5, <1>6, <1>7, <1>10, <2>9, Zenon DEF BooksInv, OrphansRight, Released, Ready, missing
    <2>12. Released' /\ TxJob'
      BY <2>5, <2>11, Zenon DEF Released, TxJob
    <2> QED
      BY <2>6, <2>8, <2>10, <2>12, Zenon DEF BooksInv, OrphansRight
  <1> QED
    BY <1>8, <1>9, <1>10, Zenon DEF Tx

-----------------------------------------------------------------------------
(* AddNewBlock, AddNewTx and PostAddNew.                                      *)

LEMMA KeptSame == \A s, P : Kept(s, s, P)
  BY DEF Kept

\* The peers of a handler that goes on with what it has to try.
LEMMA WorkPeers ==
    ASSUME BooksInv, UNCHANGED peerVars, Kept(sched, sched', {}),
           job.pc \notin {"insert", "erase"}, job'.pc \notin {"insert", "erase"},
           \A q \in job'.peers : q \in job.peers \/ \E i \in Items : q \in KnownPeers(sched, i)
    PROVE  PeersRight'
  <1> USE DEF peerVars
  <1>1. \A q \in Peers : InTouch(q)' = InTouch(q)
    BY DEF InTouch
  <1>2. \A i \in Items : KnownPeers(sched', i) \subseteq KnownPeers(sched, i)
    BY Zenon DEF Kept
  <1>3. Linked'
    BY <1>1, <1>2, Named, Zenon DEF BooksInv, PeersRight, Linked
  <1> QED
    BY <1>3, PeersStay, Zenon DEF BooksInv

LEMMA AddNewBlockKeeps ==
    ASSUME BooksInv, NEW b \in Blocks, AddNewBlock(b)
    PROVE  BooksInv'
  <1> USE DEF WorkFrame, ownVars
  <1>1. /\ job.pc = "block" /\ b \in job.work /\ b \in Items
        /\ UNCHANGED <<requests, getBlocks, peerVars, ownVars>>
    BY Zenon DEF AddNewBlock, Items
  <1>2. job \in Jobs /\ Sound(sched) /\ sched \in Schedules
    BY DEF BooksInv, Typed, Sound
  <1>3. ASSUME job' = [job EXCEPT !.work = Tried(b, {})], UNCHANGED <<sched, world, pool>>
        PROVE  BooksInv'
    <2>1. job' \in Jobs /\ job'.pc = "block" /\ job'.peers = job.peers
      BY <1>1, <1>2, <1>3, Zenon DEF Jobs, Tried
    <2>2. Typed'
      BY <1>1, <1>3, <2>1, Zenon DEF BooksInv, Typed, OthersTyped, peerVars
    <2>3. PeersRight'
      BY <1>1, <1>3, <2>1, KeptSame, WorkPeers, Zenon
    <2>4. OrphansRight'
      BY <1>1, <1>3, <2>1, KeptSame, OrphansStay, Zenon DEF BooksInv
    <2> QED
      BY <2>2, <2>3, <2>4, Zenon DEF BooksInv
  <1>4. ASSUME sched' = Invalidate(sched, b), UNCHANGED <<world, pool>>,
               job' = [job EXCEPT !.work = Tried(b, {}), !.bad = @ \cup Misbehaving(sched, b)]
        PROVE  BooksInv'
    <2>1. Sound(sched') /\ Kept(sched, sched', {})
      BY <1>1, <1>2, <1>4, InvalidateSound, Zenon
    <2>2. Misbehaving(sched, b) \subseteq Peers
      BY <1>1, <1>2, MisbehavingPeers, Zenon
    <2>3. job' \in Jobs /\ job'.pc = "block" /\ job'.peers = job.peers
      BY <1>1, <1>2, <1>4, <2>2, Zenon DEF Jobs, Tried
    <2>4. Typed'
      BY <1>1, <1>4, <2>1, <2>3, Zenon DEF BooksInv, Typed, OthersTyped, peerVars
    <2>5. PeersRight'
      BY <1>1, <2>1, <2>3, WorkPeers, Zenon
    <2>6. OrphansRight'
      BY <1>1, <1>4, <2>1, <2>3, OrphansStay, Zenon DEF BooksInv
    <2> QED
      BY <2>4, <2>5, <2>6, Zenon DEF BooksInv
  <1>5. ASSUME Release(b)
        PROVE  BooksInv'
    <2> DEFINE items == IF b \in world THEN {b} ELSE {b} \cup Contents[b]
               known == UNION {KnownPeers(sched, i) :
                                 i \in {b} \cup IF b \in world THEN {} ELSE Contents[b]}
    <2>1. Contents[b] \subseteq Items /\ Root # b
      BY ChainAssumption, Zenon DEF Items
    <2>2. /\ sched' = RemoveInv(sched, items)
          /\ job' = [job EXCEPT !.work = Tried(b, GetNext(sched, b)), !.peers = @ \cup known]
          /\ world' = world \cup {b} /\ pool' = pool \ Contents[b]
      BY <1>5, Zenon DEF Release
    <2>3. Sound(sched') /\ Kept(sched, sched', {})
      BY <1>2, <2>2, RemoveInvSound, Zenon
    <2>4. \A q \in known : q \in Peers /\ \E i \in Items : q \in KnownPeers(sched, i)
      BY <1>1, <2>1, Named, Zenon DEF BooksInv
    <2>5. GetNext(sched, b) \subseteq Items
      BY Named, Zenon DEF BooksInv
    <2> HIDE DEF known, items
    <2>6. job' \in Jobs /\ job'.pc = "block" /\ job'.peers = job.peers \cup known
      BY <1>1, <1>2, <2>2, <2>4, <2>5, Zenon DEF Jobs, Tried
    <2>7. Typed'
      BY <1>1, <2>2, <2>3, <2>6, Zenon DEF BooksInv, Typed, OthersTyped, peerVars
    <2>8. PeersRight'
      BY <1>1, <2>3, <2>4, <2>6, WorkPeers, Zenon
    <2>9. InBlocks' = InBlocks \cup Contents[b]
      BY <2>1, <2>2, Zenon DEF InBlocks
    <2>10. \A t : MissingPrevTx(t)' = MissingPrevTx(t) \ Contents[b]
      BY <2>2, <2>9, Zenon DEF MissingPrevTx
    <2>11. \A t \in Txs : Received(sched', t) =>
              /\ Received(sched, t)
              /\ \A i \in Items : <<i, t>> \in sched.orphan => <<i, t>> \in sched'.orphan
      BY <2>3, Zenon DEF Kept, Items
    <2>12. ASSUME NEW t \in Txs, Ready(t)'
           PROVE  Ready(t)
      <3>1. Inputs[t] \cap Contents[b] = {}
        BY <2>9, <2>12, Zenon DEF Ready
      <3>2. MissingPrevTx(t) = {}
        BY <2>10, <2>12, <3>1, Zenon DEF Ready, MissingPrevTx
      <3> QED
        BY <1>1, <2>9, <2>11, <2>12, <3>2, Zenon DEF Ready
    <2>13. OrphansRight'
      BY <1>1, <2>6, <2>10, <2>11, <2>12, OrphansQuiet, Zenon DEF BooksInv
    <2> QED
      BY <2>7, <2>8, <2>13 DEF BooksInv
  <1> QED
    BY <1>3, <1>4, <1>5, Zenon DEF AddNewBlock

\* A round of AddNewTx.  A transaction that the new one completes is linked to it, so it is
\* looked up now, unless it was before: then it is still to be tried.
LEMMA AddNewTxKeeps ==
    ASSUME BooksInv, NEW t \in Txs, AddNewTx(t)
    PROVE  BooksInv'
  <1> USE DEF WorkFrame, ownVars
  <1>1. /\ job.pc = "tx" /\ t \in job.work /\ t \in Items /\ UNCHANGED world
        /\ UNCHANGED <<requests, getBlocks, peerVars, ownVars>>
    BY DEF AddNewTx, Items
  <1>2. job \in Jobs /\ Sound(sched) /\ sched \in Schedules
    BY DEF BooksInv, Typed, Sound
  <1>3. InBlocks' = InBlocks
    BY <1>1, Zenon DEF InBlocks
  <1>4. ASSUME ~Received(sched, t), job' = [job EXCEPT !.work = Tried(t, {})],
               UNCHANGED <<sched, pool>>
        PROVE  BooksInv'
    <2>1. /\ job' \in Jobs /\ job'.pc = "tx" /\ job'.peers = job.peers /\ job'.item = job.item
          /\ job'.seen = job.seen /\ job'.work = job.work \ {t}
      BY <1>1, <1>2, <1>4, Zenon DEF Jobs, Tried
    <2>2. Typed'
      BY <1>1, <1>4, <2>1, Zenon DEF BooksInv, Typed, OthersTyped, peerVars
    <2>3. PeersRight'
      BY <1>1, <1>4, <2>1, KeptSame, WorkPeers, Zenon
    <2>4. OrphansRight'
      BY <1>1, <1>4, <2>1, KeptSame, OrphansStay, Zenon DEF BooksInv
    <2> QED
      BY <2>2, <2>3, <2>4 DEF BooksInv
  <1>5. ASSUME job.item \in InBlocks, job' = [job EXCEPT !.work = {}], UNCHANGED <<sched, pool>>
        PROVE  BooksInv'
    <2>1. /\ job' \in Jobs /\ job'.pc = "tx" /\ job'.peers = job.peers /\ job'.item = job.item
          /\ job'.work = {}
      BY <1>1, <1>2, <1>5, Zenon DEF Jobs
    <2>2. Typed'
      BY <1>1, <1>5, <2>1, Zenon DEF BooksInv, Typed, OthersTyped, peerVars
    <2>3. PeersRight'
      BY <1>1, <1>5, <2>1, KeptSame, WorkPeers, Zenon
    <2>4. \A x : MissingPrevTx(x)' = MissingPrevTx(x)
      BY <1>3, <1>5, Zenon DEF MissingPrevTx
    <2>5. OrphansLinked'
      BY <1>5, <2>4, Zenon DEF BooksInv, OrphansRight, OrphansLinked
    <2>6. job.work \subseteq {job.item}
      BY <1>1, <1>5, Zenon DEF BooksInv, OrphansRight, TxJob
    <2>7. \A x \in Txs : ~Ready(x)
      BY <1>5, <2>6, Zenon DEF BooksInv, OrphansRight, Released, Ready
    <2>8. \A x \in Txs : Ready(x)' = Ready(x)
      BY <1>1, <1>3, <1>5, <2>4, Zenon DEF Ready
    <2>9. Released' /\ TxJob'
      BY <1>3, <1>5, <2>1, <2>7, <2>8 DEF Released, TxJob
    <2> QED
      BY <2>2, <2>3, <2>5, <2>9, Zenon DEF BooksInv, OrphansRight
  <1>6. ASSUME job.item \notin InBlocks, TxOK(t), pool' = pool \cup {t},
               sched' = RemoveInv(sched, {t}),
               job' = [job EXCEPT !.work = Tried(t, GetNext(sched, t) \ job.seen),
                                  !.seen = @ \cup GetNext(sched, t),
                                  !.peers = @ \cup KnownPeers(sched, t)]
        PROVE  BooksInv'
    <2> DEFINE next == GetNext(sched, t)
               known == KnownPeers(sched, t)
    <2>1. next \subseteq Items /\ known \subseteq Peers
      BY <1>1, Named, Zenon DEF BooksInv
    <2>2. /\ Sound(sched') /\ Kept(sched, sched', {}) /\ ~Received(sched', t)
      BY <1>1, <1>2, <1>6, RemoveInvSound, Zenon
    <2>3. job' = [job EXCEPT !.work = (job.work \ {t}) \cup (next \ job.seen),
                             !.seen = job.seen \cup next, !.peers = job.peers \cup known]
      BY <1>2, <1>6, Zenon DEF Tried, Jobs
    <2>4. \A x \in Txs : <<t, x>> \in sched.orphan => x \in next
      BY DEF GetNext
    <2> HIDE DEF next
    <2>5. /\ job' \in Jobs /\ job'.pc = "tx" /\ job'.peers = job.peers \cup known
          /\ job'.item = job.item /\ job'.seen = job.seen \cup next
          /\ job'.work = (job.work \ {t}) \cup (next \ job.seen)
      <3> HIDE DEF known
      <3> QED
        BY <1>1, <1>2, <2>1, <2>3, Zenon DEF Jobs
    <2>6. Typed'
      BY <1>1, <1>6, <2>2, <2>5, Zenon DEF BooksInv, Typed, OthersTyped, peerVars
    <2>7. PeersRight'
      BY <1>1, <2>2, <2>5, WorkPeers, Zenon
    <2>8. \A x : MissingPrevTx(x)' = MissingPrevTx(x) \ {t}
      BY <1>3, <1>6, Zenon DEF MissingPrevTx
    <2>9. \A x \in Items : Received(sched', x) => Received(sched, x) /\ x # t
      BY <2>2, Zenon DEF Kept
    <2>10. OrphansLinked'
      <3>1. \A x \in Txs : MissingPrevTx(x) \subseteq Items /\ x \in Items
        BY ChainAssumption, Zenon DEF MissingPrevTx, Items
      <3> QED
        BY <2>2, <2>8, <3>1, Zenon DEF BooksInv, OrphansRight, OrphansLinked, Kept
    <2>11. \A x \in job.seen : x \in job.work \/ ~Received(sched, x)
      BY <1>1, <1>6, Zenon DEF BooksInv, OrphansRight, TxJob
    <2>12. ASSUME NEW x \in Txs, Ready(x)'
           PROVE  x \in job'.work
      <3>1. Received(sched, x) /\ x # t
        BY <2>9, <2>12, Zenon DEF Ready, Items
      <3>2. CASE t \in MissingPrevTx(x)
        <4>1. x \in next
          BY <2>4, <3>1, <3>2, Zenon DEF BooksInv, OrphansRight, OrphansLinked
        <4> QED
          BY <2>5, <2>11, <3>1, <4>1, Zenon
      <3>3. CASE t \notin MissingPrevTx(x)
        <4>1. Ready(x)
          BY <1>1, <1>3, <2>8, <2>12, <3>1, <3>3, Zenon DEF Ready
        <4> QED
          BY <2>5, <3>1, <4>1, Zenon DEF BooksInv, OrphansRight, Released
      <3> QED
        BY <3>2, <3>3, Zenon
    <2>13. Released'
      BY <2>5, <2>12, Zenon DEF Released
    <2>14. TxJob'
      <3>1. \A x \in job'.seen : x \in job'.work \/ ~Received(sched', x)
        BY <1>2, <2>1, <2>5, <2>9, <2>11, ZenonT(40) DEF Jobs
      <3> QED
        BY <1>3, <1>6, <2>5, <3>1 DEF TxJob
    <2> QED
      BY <2>6, <2>7, <2>10, <2>13, <2>14, Zenon DEF BooksInv, OrphansRight
  <1>7. ASSUME sched' = Invalidate(sched, t), UNCHANGED pool,
               job' = [job EXCEPT !.work = Tried(t, {}), !.bad = @ \cup Misbehaving(sched, t)]
        PROVE  BooksInv'
    <2>1. Sound(sched') /\ Kept(sched, sched', {}) /\ ~Received(sched', t)
      BY <1>1, <1>2, <1>7, InvalidateSound, Zenon
    <2>2. Misbehaving(sched, t) \subseteq Peers
      BY <1>1, <1>2, MisbehavingPeers, Zenon
    <2>3. /\ job' \in Jobs /\ job'.pc = "tx" /\ job'.peers = job.peers /\ job'.item = job.item
          /\ job'.seen = job.seen /\ job'.work = job.work \ {t}
      BY <1>1, <1>2, <1>7, <2>2, Zenon DEF Jobs, Tried
    <2>4. Typed'
      BY <1>1, <1>7, <2>1, <2>3, Zenon DEF BooksInv, Typed, OthersTyped, peerVars
    <2>5. PeersRight'
      BY <1>1, <2>1, <2>3, WorkPeers, Zenon
    <2>6. OrphansRight'
      BY <1>1, <1>7, <2>1, <2>3, OrphansStay, Zenon DEF BooksInv
    <2> QED
      BY <2>4, <2>5, <2>6, Zenon DEF BooksInv
  <1> QED
    BY <1>4, <1>5, <1>6, <1>7, Zenon DEF AddNewTx

LEMMA EndWorkKeeps ==
    ASSUME BooksInv, EndWork
    PROVE  BooksInv'
  <1> USE DEF EndWork, WorkFrame, ownVars
  <1>1. /\ job' \in Jobs /\ job'.pc = "post" /\ job'.peers = job.peers
    BY Zenon DEF BooksInv, Typed, Jobs
  <1>2. Typed'
    BY <1>1, Zenon DEF BooksInv, Typed, OthersTyped, peerVars
  <1>3. PeersRight'
    BY <1>1, KeptSame, WorkPeers, Zenon
  <1>4. OrphansRight'
    BY <1>1, KeptSame, OrphansStay, Zenon DEF BooksInv
  <1> QED
    BY <1>2, <1>3, <1>4, Zenon DEF BooksInv

\* What SchedulePeerInv asks of the peer.
LEMMA AskForKeeps ==
    ASSUME BooksInv, NEW p \in Peers, NEW kind \in {Blocks, Txs}, AskFor(p, kind)
    PROVE  /\ Sound(sched') /\ Kept(sched, sched', {}) /\ UNCHANGED <<link, getBlocks>>
           /\ requests' \in [Peers -> SUBSET Items]
  <1>1. PICK A \in Asks(sched, p, kind) :
          /\ sched' = Ask(sched, p, A)
          /\ requests' = IF Connected(p) THEN [requests EXCEPT ![p] = @ \cup A] ELSE requests
    BY Zenon DEF AskFor
  <1>2. A \in SUBSET Items /\ \A i \in A : i \in sched.list[p] /\ StateOf(sched, i).asked = NONE
    BY Named, Zenon DEF Asks, Unasked, BooksInv
  <1>3. Sound(sched') /\ Kept(sched, sched', {})
    BY <1>1, <1>2, AskSound, Zenon DEF BooksInv, Typed
  <1>4. requests' \in [Peers -> SUBSET Items]
    BY <1>1, <1>2, Zenon DEF BooksInv, Typed, OthersTyped
  <1> QED
    BY <1>3, <1>4, Zenon DEF AskFor

\* SchedulePeerInv, up to the first half of SetPeerSyncStatus.
LEMMA SchedulePeerInvKeeps ==
    ASSUME BooksInv, NEW p \in Peers, SchedulePeerInv(p)
    PROVE  BooksInv'
  <1>1. /\ job.pc = "post" /\ p \in job.peers /\ UNCHANGED <<world, pool, unsync, crossed, ownVars>>
        /\ job \in Jobs
    BY DEF SchedulePeerInv, BooksInv, Typed
  <1>2. /\ Sound(sched') /\ Kept(sched, sched', {})
        /\ requests' \in [Peers -> SUBSET Items] /\ getBlocks' \subseteq Peers
        /\ UNCHANGED link \/ Close({p})
    <2>1. CASE AskFor(p, Blocks) \/ AskFor(p, Txs)
      BY <2>1, AskForKeeps, Zenon DEF BooksInv, Typed, OthersTyped
    <2>2. CASE MissingPrev(p)
      BY <2>2, KeptSame, Zenon DEF MissingPrev, BooksInv, Typed, OthersTyped
    <2>3. CASE TooMany(p, Blocks) \/ TooMany(p, Txs)
      BY <2>3, KeptSame, Zenon DEF TooMany, BooksInv, Typed, OthersTyped
    <2>4. CASE NothingToAsk(p)
      BY <2>4, KeptSame, Zenon DEF NothingToAsk, BooksInv, Typed, OthersTyped
    <2> QED
      BY <2>1, <2>2, <2>3, <2>4, Zenon DEF SchedulePeerInv
  <1>3. /\ link' \in [Peers -> {"new", "up", "leaving", "removed", "gone"}]
        /\ \A q \in Peers : /\ InTouch(q)' = InTouch(q)
                            /\ link[q]' \in {"new", "gone"} <=> link[q] \in {"new", "gone"}
    BY <1>2, CloseKeeps, Zenon DEF BooksInv, Typed, OthersTyped, InTouch
  <1>4. InTouch(p) /\ peer[p] \in {"none", "sync", "unsync"}
    BY <1>1, Zenon DEF BooksInv, Typed, OthersTyped, PeersRight, Linked, PeerLinked, InTouch
  <1>5. ASSUME peer' \in [Peers -> {"absent", "none", "sync", "unsync"}], job' \in Jobs
        PROVE  Typed'
    BY <1>1, <1>2, <1>3, <1>5, Zenon DEF BooksInv, Typed, OthersTyped, ownVars
  <1>6. ASSUME job'.peers = job.peers \ {p},
               job'.pc \in {"insert", "erase"} => job'.item = p
        PROVE  Linked'
    <2>1. \A i \in Items : KnownPeers(sched', i) \subseteq KnownPeers(sched, i)
      BY <1>2, Zenon DEF Kept
    <2> QED
      BY <1>3, <1>4, <1>6, <2>1, Named, Zenon DEF BooksInv, PeersRight, Linked
  <1>7. ASSUME job'.pc \in {"post", "insert", "erase"}
        PROVE  OrphansRight'
    BY <1>1, <1>2, <1>7, OrphansStay, Zenon DEF BooksInv, ownVars
  <1>8. ASSUME job' = [job EXCEPT !.peers = @ \ {p}], UNCHANGED peer
        PROVE  BooksInv'
    <2>1. job' \in Jobs /\ job'.peers = job.peers \ {p} /\ job'.pc = "post"
      BY <1>1, <1>8, Zenon DEF Jobs
    <2>2. PeersRight'
      BY <1>1, <1>3, <1>6, <1>8, <2>1, PeersStay, Zenon DEF BooksInv
    <2> QED
      BY <1>5, <1>7, <1>8, <2>1, <2>2, Zenon DEF BooksInv, Typed, OthersTyped
  <1>9. ASSUME NEW status \in {"sync", "unsync"}, peer[p] \in {"sync", "unsync"}, peer[p] # status,
               peer' = [peer EXCEPT ![p] = status],
               job' = [job EXCEPT !.peers = @ \ {p}, !.item = p,
                                  !.pc = IF status = "sync" THEN "erase" ELSE "insert"]
        PROVE  BooksInv'
    <2>1. /\ job' \in Jobs /\ job'.peers = job.peers \ {p} /\ job'.item = p
          /\ job'.pc = IF status = "sync" THEN "erase" ELSE "insert"
      BY <1>1, <1>9, Zenon DEF Jobs
    <2>2. \A q \in Peers : peer'[q] = IF q = p THEN status ELSE peer[q]
      BY <1>9, Zenon DEF BooksInv, Typed, OthersTyped
    <2>3. peer' \in [Peers -> {"absent", "none", "sync", "unsync"}]
      BY <1>9, Zenon DEF BooksInv, Typed, OthersTyped
    <2>4. Typed' /\ Linked' /\ OrphansRight'
      BY <1>5, <1>6, <1>7, <2>1, <2>3, Zenon
    <2>5. PeerLinked'
      BY <1>3, <1>4, <1>9, <2>2 DEF BooksInv, PeersRight, PeerLinked
    <2>6. \A q \in Peers : (Moving(q)' <=> q = p) /\ ~Moving(q)
      BY <1>1, <2>1, Zenon DEF Moving
    <2>7. HalfMoved'
      BY <2>1, <2>2, <2>6, Zenon DEF HalfMoved
    <2>8. UnsyncFollows'
      BY <1>1, <2>2, <2>6, Zenon DEF BooksInv, PeersRight, UnsyncFollows
    <2> QED
      BY <2>4, <2>5, <2>7, <2>8, Zenon DEF BooksInv, PeersRight
  <1>10. ASSUME SetStatus(p)
         PROVE  BooksInv'
    <2> DEFINE status == IF sched.list[p] \cap Blocks = {} THEN "sync" ELSE "unsync"
    <2>1. status \in {"sync", "unsync"}
      OBVIOUS
    <2>2. /\ peer' = [peer EXCEPT ![p] = IF peer[p] \in {"sync", "unsync"} THEN status ELSE "none"]
          /\ job' = IF peer[p] \in {"sync", "unsync"} /\ peer[p] # status
                    THEN [job EXCEPT !.peers = @ \ {p}, !.item = p,
                                     !.pc = IF status = "sync" THEN "erase" ELSE "insert"]
                    ELSE [job EXCEPT !.peers = @ \ {p}]
      BY <1>10, Zenon DEF SetStatus
    <2> HIDE DEF status
    <2>3. CASE peer[p] \in {"sync", "unsync"} /\ peer[p] # status
      BY <1>9, <2>1, <2>2, <2>3, Zenon
    <2>4. CASE ~(peer[p] \in {"sync", "unsync"} /\ peer[p] # status)
      <3>1. peer' = peer
        BY <1>4, <2>2, <2>4, Zenon DEF BooksInv, Typed, OthersTyped
      <3> QED
        BY <1>8, <2>2, <2>4, <3>1, Zenon
    <2> QED
      BY <2>3, <2>4, Zenon
  <1> QED
    BY <1>8, <1>10, Zenon DEF SchedulePeerInv

\* SetPeerSyncStatus, the second half.
LEMMA SetUnsyncKeeps ==
    ASSUME BooksInv, SetUnsync
    PROVE  BooksInv'
  <1> USE DEF SetUnsync, ownVars
  <1> DEFINE p == job.item
  <1>1. job.pc \in {"insert", "erase"} /\ p \in Peers /\ InTouch(p)
    BY DEF BooksInv, PeersRight, Linked
  <1>2. job' \in Jobs /\ job'.pc = "post" /\ job'.peers = job.peers
    BY Zenon DEF BooksInv, Typed, Jobs
  <1>3. Typed'
    BY <1>1, <1>2, Zenon DEF BooksInv, Typed, OthersTyped
  <1>4. Linked' /\ PeerLinked'
    BY <1>2, Zenon DEF BooksInv, PeersRight, Linked, PeerLinked, InTouch
  <1>5. \A q \in Peers : ~Moving(q)' /\ (Moving(q) <=> q = p)
    BY <1>1, <1>2, Zenon DEF Moving
  <1>6. p \notin crossed => peer[p] = IF job.pc = "insert" THEN "unsync" ELSE "sync"
    BY <1>1, <1>5, Zenon DEF BooksInv, PeersRight, HalfMoved
  <1>7. HalfMoved' /\ UnsyncFollows'
    BY <1>1, <1>5, <1>6, Zenon DEF BooksInv, PeersRight, HalfMoved, UnsyncFollows
  <1>8. OrphansRight'
    BY <1>1, <1>2, KeptSame, OrphansStay, Zenon DEF BooksInv
  <1> QED
    BY <1>3, <1>4, <1>7, <1>8, Zenon DEF BooksInv, PeersRight

LEMMA EndPostKeeps ==
    ASSUME BooksInv, EndPost
    PROVE  BooksInv'
  <1> USE DEF EndPost, ownVars
  <1>1. /\ link' \in [Peers -> {"new", "up", "leaving", "removed", "gone"}]
        /\ \A q \in Peers : /\ InTouch(q)' = InTouch(q)
                            /\ link[q]' \in {"new", "gone"} <=> link[q] \in {"new", "gone"}
    BY CloseKeeps, Zenon DEF BooksInv, Typed
  <1>2. job' \in Jobs /\ job'.pc = "idle" /\ job'.peers = {}
    BY Zenon DEF Idle, Jobs
  <1>3. Typed'
    BY <1>1, <1>2, Zenon DEF BooksInv, Typed, OthersTyped
  <1>4. Linked'
    BY <1>1, <1>2, Named, Zenon DEF BooksInv, PeersRight, Linked
  <1>5. PeersRight'
    BY <1>1, <1>2, <1>4, PeersStay, Zenon DEF BooksInv
  <1>6. OrphansRight'
    BY <1>2, KeptSame, OrphansStay, Zenon DEF BooksInv
  <1> QED
    BY <1>3, <1>5, <1>6, Zenon DEF BooksInv

-----------------------------------------------------------------------------
(* What enters from other threads, and the theorem.                           *)

LEMMA LocalKeeps ==
    ASSUME BooksInv, CheckSync \/ (\E b \in Vacant : LocalVacant(b)) \/ (\E t \in LocalTxs : LocalTx(t))
    PROVE  BooksInv'
  <1>1. UNCHANGED <<sched, job, requests, getBlocks, peerVars>>
    BY Zenon DEF CheckSync, LocalVacant, LocalTx, LocalFrame
  <1>2. Typed'
    <2>1. /\ world' \subseteq Blocks \cup {Root} /\ Root \in world' /\ pool' \subseteq Txs
          /\ extending' \in BOOLEAN /\ local' \subseteq Vacant \cup LocalTxs
      <3>1. /\ world \subseteq Blocks \cup {Root} /\ Root \in world /\ pool \subseteq Txs
            /\ extending \in BOOLEAN /\ local \subseteq Vacant \cup LocalTxs
        BY Zenon DEF BooksInv, Typed, OthersTyped
      <3>2. CASE CheckSync
        BY <3>1, <3>2, Zenon DEF CheckSync
      <3>3. CASE \E b \in Vacant : LocalVacant(b)
        <4>1. PICK b \in Vacant : LocalVacant(b)
          BY <3>3, Zenon
        <4>2. b \in Blocks /\ world' = world \cup {b} /\ UNCHANGED pool /\ extending' = FALSE
              /\ (local' = local \/ local' = local \cup {b})
          BY <4>1, ChainAssumption, Zenon DEF LocalVacant
        <4> QED
          BY <3>1, <4>2, Zenon
      <3>4. CASE \E t \in LocalTxs : LocalTx(t)
        BY <3>1, <3>4, ChainAssumption, Zenon DEF LocalTx
      <3> QED
        BY <3>2, <3>3, <3>4, Zenon
    <2> QED
      BY <1>1, <2>1, Zenon DEF BooksInv, Typed, OthersTyped, peerVars
  <1>3. PeersRight'
    BY <1>1, Zenon DEF BooksInv, PeersRight, Linked, PeerLinked, HalfMoved, UnsyncFollows, Moving,
                InTouch, peerVars
  <1>4. CASE CheckSync
    BY <1>1, <1>2, <1>3, <1>4, OrphansUnchanged, Zenon DEF BooksInv, CheckSync
  <1>5. ASSUME NEW b \in Vacant, LocalVacant(b)
        PROVE  BooksInv'
    <2>1. b \in Blocks /\ Contents[b] = {}
      BY ChainAssumption, Zenon
    <2>2. InBlocks' = InBlocks
      BY <1>5, <2>1, Zenon DEF LocalVacant, InBlocks
    <2>3. \A t : MissingPrevTx(t)' = MissingPrevTx(t)
      BY <1>5, <2>2, Zenon DEF LocalVacant, MissingPrevTx
    <2>4. local \subseteq local'
      BY <1>5, Zenon DEF LocalVacant
    <2>5. \A t \in Txs : Ready(t)' => Ready(t)
      BY <1>1, <2>2, <2>3, <2>4, Zenon DEF Ready
    <2>6. OrphansRight'
      BY <1>1, <2>2, <2>3, <2>5, OrphansQuiet, Zenon DEF BooksInv
    <2> QED
      BY <1>2, <1>3, <2>6, Zenon DEF BooksInv
  <1>6. ASSUME NEW t \in LocalTxs, LocalTx(t)
        PROVE  BooksInv'
    <2>1. pool' = pool \cup {t} /\ local' = local \cup {t} /\ UNCHANGED world
      BY <1>6, Zenon DEF LocalTx
    <2>2. InBlocks' = InBlocks
      BY <2>1, Zenon DEF InBlocks
    <2>3. \A x : MissingPrevTx(x)' = MissingPrevTx(x) \ {t}
      BY <2>1, <2>2, Zenon DEF MissingPrevTx
    <2>4. ASSUME NEW x \in Txs, Ready(x)'
          PROVE  Ready(x)
      <3>1. t \notin Inputs[x]
        BY <2>1, <2>4, Zenon DEF Ready
      <3>2. MissingPrevTx(x) = {}
        BY <2>3, <2>4, <3>1, Zenon DEF Ready, MissingPrevTx
      <3> QED
        BY <1>1, <2>1, <2>2, <2>4, <3>2, Zenon DEF Ready
    <2>5. OrphansRight'
      BY <1>1, <2>2, <2>3, <2>4, OrphansQuiet, Zenon DEF BooksInv
    <2> QED
      BY <1>2, <1>3, <2>5, Zenon DEF BooksInv
  <1> QED
    BY <1>4, <1>5, <1>6, Zenon

LEMMA BooksInvStep == BooksInv /\ [Next]_vars => BooksInv'
  <1> SUFFICES ASSUME BooksInv, [Next]_vars
               PROVE  BooksInv'
    OBVIOUS
  <1>1. ASSUME NEW p \in Peers, Answers(p)
        PROVE  BooksInv'
    BY <1>1, BlockKeeps, TxKeeps, UnexpectedKeeps, Zenon DEF Answers
  <1>2. ASSUME NEW p \in Peers,
               \/ Active(p) \/ Subscribe(p) \/ Unsubscribe(p) \/ Leave(p)
               \/ Deactive(p) \/ DeactivePeer(p) \/ Announce(p) \/ AnswerGetBlocks(p)
        PROVE  BooksInv'
    BY Zenon, <1>2, ActiveKeeps, SubscribeKeeps, UnsubscribeKeeps, LeaveKeeps, DeactiveKeeps,
       DeactivePeerKeeps, AnnounceKeeps
  <1>3. CASE JobStep
    BY Zenon, <1>3, AddNewBlockKeeps, AddNewTxKeeps, EndWorkKeeps, SchedulePeerInvKeeps, SetUnsyncKeeps,
       EndPostKeeps DEF JobStep
  <1>4. CASE UNCHANGED vars
    <2>1. OrphansRight'
      BY <1>4, OrphansUnchanged, Zenon DEF BooksInv, vars, ownVars
    <2>2. Typed'
      BY <1>4, Zenon DEF BooksInv, Typed, OthersTyped, vars, peerVars, ownVars
    <2>3. PeersRight'
      BY <1>4, Zenon DEF BooksInv, PeersRight, Linked, PeerLinked, HalfMoved, UnsyncFollows, Moving,
                  InTouch, vars, peerVars
    <2> QED
      BY <2>1, <2>2, <2>3, Zenon DEF BooksInv
  <1> QED
    BY <1>1, <1>2, <1>3, <1>4, LocalKeeps, Zenon DEF Next

\* For any peers, blocks, transactions and limits, whatever the peers announce, answer, leave or
\* subscribe to between the steps of the handlers, the two views of CSchedule agree and keep the
\* limits, nobody that is gone is remembered, mapUnsync follows the subscriptions, and
\* AddNewTx leaves no transaction behind whose inputs have arrived.
THEOREM BooksKept == Spec => []BooksInOrder
  <1>1. BooksInv => BooksInOrder
    BY BooksInvImplies
  <1> QED
    BY <1>1, BooksInvInit, BooksInvStep, PTL DEF Spec
=============================================================================
