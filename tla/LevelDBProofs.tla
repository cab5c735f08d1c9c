---------------------------- MODULE LevelDBProofs ----------------------------
(***************************************************************************)
(* The skip list of LevelDB's memtable, read while it is written, and its files,   *)
(* background thread and limiters, for every set of keys, every height and every     *)
(* number of readers, units, items and users.                                  *)
(***************************************************************************)
EXTENDS SkipList, PosixEnv, WellFoundedInduction, FiniteSetTheorems, SequenceTheorems, TLAPS

-----------------------------------------------------------------------------
(* The skip list.  Each level is a list in order that misses none of its nodes, also while a    *)
(* node is half linked, and a node is on every level below one that it is on: so a walk that      *)
(* goes down a level loses no key.                                               *)

SkNodes == {SkHead} \cup SkKeys

SkTypeOK ==
    /\ SkHead \in DOMAIN skNext /\ DOMAIN skNext \subseteq SkNodes
    /\ skNext \in [DOMAIN skNext -> [SkLevels -> SkKeys \cup {SkNil, SkUnset}]]
    /\ skHeights \subseteq 1..SkHeight
    /\ skDone \subseteq SkKeys

\* The lists of the levels.
ListInv ==
    \A l \in SkLevels :
        /\ SkHead \in NodesOn(l)
        /\ \A n \in NodesOn(l) :
               /\ skNext[n][l] \in NodesOn(l) \cup {SkNil}
               /\ skNext[n][l] > n
               /\ \A m \in NodesOn(l) : ~(n < m /\ m < skNext[n][l])

\* A node on a level is on all levels below; what was inserted is on the lowest.
LevelsInv ==
    /\ \A l \in SkLevels : l > 0 => NodesOn(l) \subseteq NodesOn(l - 1)
    /\ skDone \subseteq NodesOn(0)

\* The node being inserted is on the levels done, and prev is right for the others.
InsInv ==
    skIns # NoInsert =>
        /\ skIns \in [key : SkKeys, height : 1..SkHeight, level : 0..SkHeight, prev : [SkLevels -> SkNodes]]
        /\ skIns.level <= skIns.height
        /\ skIns.key \in DOMAIN skNext
        /\ \A l \in SkLevels :
               /\ l < skIns.level => skIns.key \in NodesOn(l)
               /\ l >= skIns.level =>
                      /\ skIns.key \notin NodesOn(l)
                      /\ skIns.prev[l] \in NodesOn(l)
                      /\ skIns.prev[l] < skIns.key
                      /\ \A m \in NodesOn(l) : m < skIns.key => m <= skIns.prev[l]

SkReader == [op : {"rest", "seek", "less", "last", "next"}, from : SkNodes \cup {SkNil},
             x : SkNodes \cup {SkNil}, level : SkLevels, before : SUBSET SkKeys,
             node : SkKeys \cup {SkNil}]

\* A reader stands on a node of its level, before what it looks for.
ReaderInv ==
    /\ skRd \in [SkReaders -> SkReader]
    /\ \A r \in SkReaders :
           /\ skRd[r].before \subseteq skDone
           /\ skRd[r].node # SkNil => skRd[r].node \in NodesOn(0)
           /\ skRd[r].op \in {"seek", "less"} => skRd[r].from \in SkKeys
           /\ skRd[r].op \in {"seek", "less", "last"} /\ skRd[r].x # SkNil =>
                  /\ skRd[r].x \in NodesOn(skRd[r].level)
                  /\ skRd[r].op # "last" => skRd[r].x < skRd[r].from

SkIInv == SkTypeOK /\ ListInv /\ LevelsInv /\ InsInv /\ ReaderInv /\ NoKeyPassed

\* A set of natural numbers has a least one.
LEMMA LeastOf ==
    ASSUME NEW S \in SUBSET Nat, S # {}
    PROVE  \E s \in S : \A t \in S : s <= t
<1> DEFINE R == OpToRel(<, Nat)
<1>1. \A s, t \in Nat : s < t => <<s, t>> \in R
  BY DEF OpToRel
<1>2. IsWellFoundedOn(R, Nat)
  BY NatLessThanWellFounded, Zenon
<1> HIDE DEF R
<1>3. \E s \in S : \A t \in S : ~(<<t, s>> \in R)
  BY <1>2, WFMin, Zenon
<1>4. PICK s \in S : \A t \in S : ~(<<t, s>> \in R)
  BY <1>3
<1>5. \A t \in S : ~(t < s)
  BY <1>1, <1>4, Zenon
<1>6. \A t \in S : s <= t
  BY <1>5
<1> QED
  BY <1>6

\* The node before a key on a level exists.
LEMMA PrevOnIs ==
    ASSUME SkTypeOK, ListInv, NEW key \in SkKeys, NEW l \in SkLevels
    PROVE  /\ PrevOn(key, l) \in NodesOn(l)
           /\ PrevOn(key, l) < key
           /\ \A m \in NodesOn(l) : m < key => m <= PrevOn(key, l)
<1> DEFINE S == {key - m : m \in {n \in NodesOn(l) : n < key}}
<1>1. key \in Nat /\ NodesOn(l) \subseteq Int /\ SkHead \in NodesOn(l) /\ SkHead < key
  <2>1. key \in Nat /\ SkHead \in Int /\ SkHead < key /\ SkKeys \subseteq Int
    BY SkAssumption DEF SkHead, SkNil
  <2>2. NodesOn(l) \subseteq SkNodes
    BY DEF SkTypeOK, NodesOn
  <2> QED
    BY <2>1, <2>2, Zenon DEF ListInv, SkNodes
<1>2. S \subseteq Nat /\ key - SkHead \in S
  BY <1>1 DEF SkHead
<1>3. \E s \in S : \A t \in S : s <= t
  <2> HIDE DEF S
  <2> QED
    BY <1>2, LeastOf, Zenon
<1>4. PICK n \in NodesOn(l) : n < key /\ \A t \in S : key - n <= t
  BY <1>3
<1>5. \A m \in NodesOn(l) : m < key => m <= n
  <2>1. \A m \in NodesOn(l) : m < key => key - m \in S
    OBVIOUS
  <2> HIDE DEF S
  <2> QED
    BY <1>1, <1>4, <2>1
<1>6. \E x \in NodesOn(l) : x < key /\ \A m \in NodesOn(l) : m < key => m <= x
  BY <1>4, <1>5, Zenon
<1> QED
  BY <1>6, Zenon DEF PrevOn

\* The empty list: only the head, which leads to the end on every level.
LEMMA SkInitIInv == SkInit => SkIInv
<1> SUFFICES ASSUME SkInit PROVE SkIInv
  OBVIOUS
<1> USE SkAssumption DEF SkInit, SkHead, SkNil, SkUnset, SkLevels, SkNodes
<1>1. SkTypeOK
  BY DEF SkTypeOK
<1>2. \A l \in SkLevels : NodesOn(l) = {SkHead} /\ skNext[SkHead][l] = SkNil
  BY DEF NodesOn
<1>3. ListInv /\ LevelsInv
  BY <1>2 DEF ListInv, LevelsInv
<1>4. InsInv
  BY DEF InsInv
<1>5. ReaderInv
  BY DEF ReaderInv, Resting, SkReader
<1>6. NoKeyPassed
  BY DEF NoKeyPassed, Ended, Resting
<1> QED
  BY <1>1, <1>3, <1>4, <1>5, <1>6 DEF SkIInv

\* What the order of head, keys and null is.
LEMMA SkNumbers ==
    /\ SkHead \in Int /\ SkNil \in Int /\ SkUnset \in Int
    /\ SkHead < SkNil /\ SkNil < SkUnset
    /\ \A k \in SkKeys : k \in Int /\ SkHead < k /\ k < SkNil
    /\ SkLevels \subseteq Nat /\ 0 \in SkLevels
    /\ \A h \in 1..SkHeight : h - 1 \in SkLevels
    /\ \A l \in SkLevels : l > 0 => l - 1 \in SkLevels
BY SkAssumption DEF SkHead, SkNil, SkUnset, SkLevels

\* A step that changes no list keeps what is known of them.
LEMMA SameLists ==
    ASSUME ListInv, \A l \in SkLevels : NodesOn(l)' = NodesOn(l),
           \A l \in SkLevels : \A n \in NodesOn(l) : skNext'[n][l] = skNext[n][l]
    PROVE  ListInv'
BY DEF ListInv

\* Insert finds the predecessors on every level and makes the node, which no level leads to yet.
LEMMA KeepInsertStart ==
    ASSUME SkIInv, NEW key \in SkKeys, NEW height \in 1..SkHeight, InsertStart(key, height)
    PROVE  SkIInv'
<1>1. SkTypeOK /\ ListInv /\ LevelsInv /\ ReaderInv /\ NoKeyPassed
  BY DEF SkIInv
<1>2. /\ key \notin DOMAIN skNext
      /\ DOMAIN skNext' = DOMAIN skNext \cup {key}
      /\ skNext'[key] = [l \in SkLevels |-> SkUnset]
      /\ \A n \in DOMAIN skNext : skNext'[n] = skNext[n]
      /\ skNext' = [n \in DOMAIN skNext' |-> skNext'[n]]
      /\ UNCHANGED <<skDone, skRd>>
  BY DEF InsertStart
<1>3. \A l \in SkLevels : NodesOn(l)' = NodesOn(l)
  BY <1>2 DEF NodesOn
<1>4. \A l \in SkLevels : \A n \in NodesOn(l) : skNext'[n][l] = skNext[n][l]
  BY <1>2, Zenon DEF NodesOn
<1>5. SkTypeOK'
  <2>1. \A n \in DOMAIN skNext' : skNext'[n] \in [SkLevels -> SkKeys \cup {SkNil, SkUnset}]
    BY <1>1, <1>2, Zenon DEF SkTypeOK
  <2>2. SkHead \in DOMAIN skNext' /\ DOMAIN skNext' \subseteq SkNodes
    BY <1>1, <1>2, Zenon DEF SkTypeOK, SkNodes
  <2>3. skHeights' \subseteq 1..SkHeight /\ skDone' \subseteq SkKeys
    BY <1>1, <1>2, Zenon DEF SkTypeOK, InsertStart
  <2> QED
    BY <1>2, <2>1, <2>2, <2>3, Zenon DEF SkTypeOK
<1>6. ListInv'
  BY <1>1, <1>3, <1>4, SameLists, Zenon
<1>7. LevelsInv'
  BY <1>1, <1>2, <1>3, SkNumbers DEF LevelsInv
<1>8. InsInv'
  <2>1. skIns' = [key |-> key, height |-> height, level |-> 0, prev |-> [l \in SkLevels |-> PrevOn(key, l)]]
    BY DEF InsertStart
  <2>2. \A l \in SkLevels : /\ PrevOn(key, l) \in NodesOn(l)
                            /\ PrevOn(key, l) < key
                            /\ \A m \in NodesOn(l) : m < key => m <= PrevOn(key, l)
    BY <1>1, PrevOnIs, Zenon
  <2>3. \A l \in SkLevels : NodesOn(l) \subseteq SkNodes /\ key \notin NodesOn(l)
    BY <1>1, <1>2, Zenon DEF NodesOn, SkTypeOK
  <2>4. skIns' \in [key : SkKeys, height : 1..SkHeight, level : 0..SkHeight, prev : [SkLevels -> SkNodes]]
    BY <2>1, <2>2, <2>3, SkAssumption
  <2>5. key \in DOMAIN skNext' /\ \A l \in SkLevels : ~(l < 0)
    BY <1>2, SkNumbers
  <2>6. /\ skIns'.level = 0 /\ skIns'.height = height /\ skIns'.key = key
        /\ \A l \in SkLevels : skIns'.prev[l] = PrevOn(key, l)
    BY <2>1
  <2>7. 0 <= height
    OBVIOUS
  <2> QED
    BY <1>3, <2>2, <2>3, <2>4, <2>5, <2>6, <2>7, Zenon DEF InsInv
<1>9. ReaderInv' /\ NoKeyPassed'
  <2>1. ReaderInv'
    BY <1>1, <1>2, <1>3, SkNumbers, ZenonT(40) DEF ReaderInv, SkReader
  <2>2. NoKeyPassed'
    BY <1>1, <1>2, Zenon DEF NoKeyPassed
  <2> QED
    BY <2>1, <2>2, Zenon
<1> QED
  BY <1>5, <1>6, <1>7, <1>8, <1>9, Zenon DEF SkIInv

\* The node is on all its levels: the key counts as inserted.
LEMMA KeepInsertEnd ==
    ASSUME SkIInv, InsertEnd
    PROVE  SkIInv'
<1>1. SkTypeOK /\ ListInv /\ LevelsInv /\ InsInv /\ ReaderInv /\ NoKeyPassed
  BY DEF SkIInv
<1>2. /\ skIns # NoInsert /\ skIns.level = skIns.height
      /\ skDone' = skDone \cup {skIns.key} /\ skIns' = NoInsert
      /\ UNCHANGED <<skNext, skHeights, skRd>>
  BY Zenon DEF InsertEnd
<1>3. skIns.key \in SkKeys /\ skIns.key \in NodesOn(0)
  <2>1. skIns.level > 0 /\ 0 \in SkLevels
    BY <1>1, <1>2, SkNumbers DEF InsInv
  <2> QED
    BY <1>1, <1>2, <2>1, Zenon DEF InsInv
<1>4. \A l : NodesOn(l)' = NodesOn(l)
  BY <1>2, Zenon DEF NodesOn
<1>5. SkTypeOK' /\ LevelsInv'
  BY <1>1, <1>2, <1>3, <1>4, Zenon DEF SkTypeOK, LevelsInv
<1>6. ListInv'
  BY <1>1, <1>2, <1>4, Zenon DEF ListInv
<1>7. InsInv'
  BY <1>2, Zenon DEF InsInv
<1>8. ReaderInv'
  BY <1>1, <1>2, <1>4, Zenon DEF ReaderInv
<1>9. NoKeyPassed'
  BY <1>1, <1>2, Zenon DEF NoKeyPassed
<1> QED
  BY <1>5, <1>6, <1>7, <1>8, <1>9 DEF SkIInv

\* The node is linked between its predecessor on the level and what came after that.
LEMMA KeepInsertLink ==
    ASSUME SkIInv, InsertLink
    PROVE  SkIInv'
<1>1. SkTypeOK /\ ListInv /\ LevelsInv /\ InsInv /\ ReaderInv /\ NoKeyPassed
  BY DEF SkIInv
<1>2. skIns # NoInsert /\ skIns.level < skIns.height
  BY DEF InsertLink
<1>3. PICK k \in SkKeys, l \in SkLevels, p \in SkNodes :
        /\ k = skIns.key /\ l = skIns.level /\ p = skIns.prev[l]
        /\ k \in DOMAIN skNext /\ k \notin NodesOn(l) /\ p \in NodesOn(l) /\ p < k
        /\ \A m \in NodesOn(l) : m < k => m <= p
  BY <1>1, <1>2, SkAssumption DEF InsInv, SkLevels
<1>4. PICK q \in NodesOn(l) \cup {SkNil} : q = skNext[p][l] /\ q # SkUnset
  BY <1>1, <1>3 DEF ListInv, NodesOn
<1>5. /\ skNext' = [skNext EXCEPT ![k][l] = q, ![p][l] = k]
      /\ skIns' = [skIns EXCEPT !.level = @ + 1]
      /\ UNCHANGED <<skHeights, skDone, skRd>>
  BY <1>3, <1>4, Zenon DEF InsertLink, LinkLevel
<1>6. /\ NodesOn(l) \subseteq DOMAIN skNext /\ DOMAIN skNext \subseteq SkNodes
      /\ DOMAIN skNext' = DOMAIN skNext
      /\ \A n \in DOMAIN skNext : skNext[n] \in [SkLevels -> SkKeys \cup {SkNil, SkUnset}]
  BY <1>1, <1>5, Zenon DEF SkTypeOK, NodesOn
<1>7. p # k /\ p \in DOMAIN skNext /\ \A n \in SkNodes : n \in Int /\ n < SkNil
  BY <1>3, <1>6, SkNumbers, Zenon DEF SkNodes
<1>8. /\ skNext'[k] = [skNext[k] EXCEPT ![l] = q]
      /\ skNext'[p] = [skNext[p] EXCEPT ![l] = k]
      /\ \A n \in DOMAIN skNext : n # k /\ n # p => skNext'[n] = skNext[n]
  BY <1>3, <1>5, <1>7, Zenon
<1>9. /\ skNext'[k][l] = q /\ skNext'[p][l] = k
      /\ \A n \in DOMAIN skNext, i \in SkLevels :
             ~(i = l /\ n \in {k, p}) => skNext'[n][i] = skNext[n][i]
  BY <1>3, <1>6, <1>7, <1>8
<1>10. k # SkUnset
  BY <1>3, SkNumbers
<1>11. /\ NodesOn(l)' = NodesOn(l) \cup {k}
       /\ \A i \in SkLevels : i # l => NodesOn(i)' = NodesOn(i)
  BY <1>3, <1>4, <1>6, <1>9, <1>10 DEF NodesOn
<1>12. SkTypeOK'
  <2>1. q \in SkKeys \cup {SkNil, SkUnset}
    BY <1>3, <1>4, <1>6, <1>7, Zenon
  <2>2. \A n \in DOMAIN skNext : skNext'[n] \in [SkLevels -> SkKeys \cup {SkNil, SkUnset}]
    BY <1>3, <1>6, <1>7, <1>8, <2>1
  <2>3. skNext' = [n \in DOMAIN skNext |-> skNext'[n]]
    BY <1>1, <1>5, Zenon DEF SkTypeOK
  <2> QED
    BY <1>1, <1>5, <1>6, <2>2, <2>3, Zenon DEF SkTypeOK
<1>13. /\ k < q /\ p < q
       /\ \A m \in NodesOn(l) : ~(p < m /\ m < q)
  <2>1. p < q /\ \A m \in NodesOn(l) : ~(p < m /\ m < q)
    BY <1>1, <1>3, <1>4, Zenon DEF ListInv
  <2>2. CASE q = SkNil
    BY <1>7, <2>1, <2>2, SkNumbers, Zenon
  <2>3. CASE q \in NodesOn(l)
    BY <1>3, <1>6, <1>7, <2>1, <2>3, SkNumbers
  <2> QED
    BY <1>4, <2>2, <2>3, Zenon
<1>14. ListInv'
  <2>1. \A i \in SkLevels : i # l =>
          /\ SkHead \in NodesOn(i)'
          /\ \A n \in NodesOn(i)' :
               /\ skNext'[n][i] \in NodesOn(i)' \cup {SkNil}
               /\ skNext'[n][i] > n
               /\ \A m \in NodesOn(i)' : ~(n < m /\ m < skNext'[n][i])
    <3>1. \A i \in SkLevels : NodesOn(i) \subseteq DOMAIN skNext
      BY DEF NodesOn
    <3> QED
      BY <1>1, <1>9, <1>11, <3>1 DEF ListInv
  <2>2. SkHead \in NodesOn(l)'
    BY <1>1, <1>11, ZenonT(40) DEF ListInv
  <2>3. /\ skNext'[k][l] \in NodesOn(l)' \cup {SkNil}
        /\ skNext'[k][l] > k
        /\ \A m \in NodesOn(l)' : ~(k < m /\ m < skNext'[k][l])
    BY <1>3, <1>4, <1>6, <1>7, <1>9, <1>11, <1>13, SkNumbers
  <2>4. /\ skNext'[p][l] \in NodesOn(l)' \cup {SkNil}
        /\ skNext'[p][l] > p
        /\ \A m \in NodesOn(l)' : ~(p < m /\ m < skNext'[p][l])
    BY <1>3, <1>6, <1>7, <1>9, <1>11
  <2>5. ASSUME NEW n \in NodesOn(l), n # p
        PROVE  /\ skNext'[n][l] \in NodesOn(l)' \cup {SkNil}
               /\ skNext'[n][l] > n
               /\ \A m \in NodesOn(l)' : ~(n < m /\ m < skNext'[n][l])
    <3>1. skNext'[n][l] = skNext[n][l]
      BY <1>3, <1>6, <1>9, <2>5, Zenon
    <3>2. /\ skNext[n][l] \in NodesOn(l) \cup {SkNil}
          /\ skNext[n][l] > n
          /\ \A m \in NodesOn(l) : ~(n < m /\ m < skNext[n][l])
      BY <1>1, <1>3, Zenon DEF ListInv
    <3>3. ~(n < k /\ k < skNext[n][l])
      <4>1. n \in Int /\ p \in Int /\ k \in Int /\ skNext[n][l] \in Int
        BY <1>3, <1>6, <1>7, <3>2, SkNumbers, Zenon
      <4>2. n < k => n < p
        BY <1>3, <2>5, <4>1
      <4>3. ~(n < p /\ p < skNext[n][l])
        BY <1>3, <3>2, Zenon
      <4> QED
        BY <1>3, <4>1, <4>2, <4>3
    <3> QED
      BY <1>11, <3>1, <3>2, <3>3, Zenon
  <2> QED
    BY <1>11, <2>1, <2>2, <2>3, <2>4, <2>5 DEF ListInv
<1>15. LevelsInv'
  <2>1. l > 0 => k \in NodesOn(l - 1)
    BY <1>1, <1>2, <1>3, SkNumbers DEF InsInv
  <2>2. \A i \in SkLevels : i \in Nat /\ (i > 0 => i - 1 \in SkLevels) /\ 0 \in SkLevels
    BY SkNumbers, Zenon
  <2>3. \A i \in SkLevels : i > 0 => NodesOn(i)' \subseteq NodesOn(i - 1)'
    <3>1. SUFFICES ASSUME NEW i \in SkLevels, i > 0 PROVE NodesOn(i)' \subseteq NodesOn(i - 1)'
      OBVIOUS
    <3>2. PICK j \in SkLevels : j = i - 1 /\ j # i
      BY <2>2, <3>1
    <3>3. NodesOn(i) \subseteq NodesOn(j) /\ (i = l => k \in NodesOn(j))
      BY <1>1, <2>1, <3>1, <3>2, Zenon DEF LevelsInv
    <3>4. NodesOn(i)' \subseteq NodesOn(j)'
      BY <1>11, <3>2, <3>3, Zenon
    <3> QED
      BY <3>2, <3>4, Zenon
  <2>4. skDone' \subseteq NodesOn(0)'
    BY <1>1, <1>5, <1>11, <2>2, Zenon DEF LevelsInv
  <2> QED
    BY <2>3, <2>4, Zenon DEF LevelsInv
<1>16. InsInv'
  <2>1. /\ skIns \in [key : SkKeys, height : 1..SkHeight, level : 0..SkHeight, prev : [SkLevels -> SkNodes]]
        /\ skIns.level + 1 <= skIns.height
    BY <1>1, <1>2 DEF InsInv
  <2>2. /\ skIns'.key = k /\ skIns'.level = l + 1 /\ skIns'.height = skIns.height /\ skIns'.prev = skIns.prev
        /\ skIns' \in [key : SkKeys, height : 1..SkHeight, level : 0..SkHeight, prev : [SkLevels -> SkNodes]]
    <3>1. l + 1 \in 0..SkHeight
      BY <1>3, <2>1, SkAssumption, SkNumbers
    <3>2. skIns.key \in SkKeys /\ skIns.height \in 1..SkHeight /\ skIns.prev \in [SkLevels -> SkNodes]
      BY <2>1, Zenon
    <3>3. skIns' = [key |-> k, height |-> skIns.height, level |-> l + 1, prev |-> skIns.prev]
      BY <1>3, <1>5, <2>1, Zenon
    <3> QED
      BY <3>1, <3>2, <3>3, Zenon
  <2>3. \A i \in SkLevels : i \in Nat /\ l \in Nat
    BY SkNumbers, Zenon
  <2>4. \A i \in SkLevels : i < l + 1 => k \in NodesOn(i)'
    BY <1>1, <1>2, <1>3, <1>11, <2>3 DEF InsInv
  <2>5. \A i \in SkLevels : i >= l + 1 =>
                      /\ k \notin NodesOn(i)'
                      /\ skIns'.prev[i] \in NodesOn(i)'
                      /\ skIns'.prev[i] < k
                      /\ \A m \in NodesOn(i)' : m < k => m <= skIns'.prev[i]
    BY <1>1, <1>2, <1>3, <1>11, <2>2, <2>3 DEF InsInv
  <2> QED
    BY <1>3, <1>6, <2>1, <2>2, <2>4, <2>5 DEF InsInv
<1>17. ReaderInv' /\ NoKeyPassed'
  <2>1. \A i \in SkLevels : NodesOn(i) \subseteq NodesOn(i)'
    BY <1>11
  <2>2. ReaderInv'
    BY <1>1, <1>5, <2>1, SkNumbers, Zenon DEF ReaderInv, SkReader
  <2>3. NoKeyPassed'
    BY <1>1, <1>5, Zenon DEF NoKeyPassed
  <2> QED
    BY <2>2, <2>3, Zenon
<1> QED
  BY <1>12, <1>14, <1>15, <1>16, <1>17, Zenon DEF SkIInv

\* NoKeyPassed, reader by reader.
Passes(rd) ==
    Ended(rd) =>
        /\ rd.node # SkUnset
        /\ rd.op = "seek" => rd.node >= rd.from /\ ~\E k \in rd.before : k >= rd.from /\ k < rd.node
        /\ rd.op = "next" => rd.node > rd.from /\ ~\E k \in rd.before : k > rd.from /\ k < rd.node
        /\ rd.op = "less" => ~\E k \in rd.before : k < rd.from /\ (rd.node = SkNil \/ k > rd.node)
        /\ rd.op = "last" => ~\E k \in rd.before : rd.node = SkNil \/ k > rd.node

\* The same as NoKeyPassed has it.
PassesCase(rd) ==
    Ended(rd) =>
        /\ rd.node # SkUnset
        /\ CASE rd.op = "seek" -> rd.node >= rd.from /\ ~\E k \in rd.before : k >= rd.from /\ k < rd.node
             [] rd.op = "next" -> rd.node > rd.from /\ ~\E k \in rd.before : k > rd.from /\ k < rd.node
             [] rd.op = "less" -> ~\E k \in rd.before : k < rd.from /\ (rd.node = SkNil \/ k > rd.node)
             [] rd.op = "last" -> ~\E k \in rd.before : rd.node = SkNil \/ k > rd.node

\* The property of a reader, case by case and as the proof uses it.
LEMMA PassesAll ==
    ASSUME NEW rd, rd.op \in {"rest", "seek", "less", "last", "next"}
    PROVE  PassesCase(rd) <=> Passes(rd)
<1>1. CASE rd.op = "rest"
  BY <1>1 DEF Passes, PassesCase, Ended
<1>2. CASE rd.op = "seek"
  BY <1>2 DEF Passes, PassesCase
<1>3. CASE rd.op = "next"
  BY <1>3 DEF Passes, PassesCase
<1>4. CASE rd.op = "less"
  BY <1>4 DEF Passes, PassesCase
<1>5. CASE rd.op = "last"
  BY <1>5 DEF Passes, PassesCase
<1> QED
  BY <1>1, <1>2, <1>3, <1>4, <1>5, Zenon

AllPass == \A r \in SkReaders : Passes(skRd[r])

\* The property and its form by reader are one.
LEMMA PassedIs == ReaderInv => (NoKeyPassed <=> AllPass)
<1> SUFFICES ASSUME ReaderInv PROVE NoKeyPassed <=> AllPass
  OBVIOUS
<1>1. \A r \in SkReaders : skRd[r].op \in {"rest", "seek", "less", "last", "next"}
  BY DEF ReaderInv, SkReader
<1>2. \A r \in SkReaders : PassesCase(skRd[r]) <=> Passes(skRd[r])
  BY <1>1, PassesAll
<1>3. NoKeyPassed <=> \A r \in SkReaders : \E rd \in {skRd[r]} : PassesCase(rd)
  BY Zenon DEF NoKeyPassed, PassesCase
<1> QED
  BY <1>2, <1>3, Zenon DEF AllPass

\* The same of the state after a step.
LEMMA PassedIsNext == ReaderInv' => (NoKeyPassed' <=> AllPass')
BY PassedIs, PTL

\* What ReaderInv says of one reader.
Stands(rd) ==
    /\ rd \in SkReader
    /\ rd.before \subseteq skDone
    /\ rd.node # SkNil => rd.node \in NodesOn(0)
    /\ rd.op \in {"seek", "less"} => rd.from \in SkKeys
    /\ rd.op \in {"seek", "less", "last"} /\ rd.x # SkNil =>
           /\ rd.x \in NodesOn(rd.level)
           /\ rd.op # "last" => rd.x < rd.from

\* A step of one reader.
LEMMA ReaderStep ==
    ASSUME SkIInv, NEW r \in SkReaders, NEW rd, Stands(rd), Passes(rd),
           skRd' = [skRd EXCEPT ![r] = rd], UNCHANGED <<skNext, skHeights, skIns, skDone>>
    PROVE  SkIInv'
<1>1. SkTypeOK /\ ListInv /\ LevelsInv /\ InsInv /\ ReaderInv /\ NoKeyPassed
  BY DEF SkIInv
<1>2. \A l : NodesOn(l)' = NodesOn(l)
  BY DEF NodesOn
<1>3. SkTypeOK' /\ LevelsInv'
  BY <1>1, <1>2, Zenon DEF SkTypeOK, LevelsInv
<1>4. ListInv' /\ InsInv'
  BY <1>1, <1>2, Zenon DEF ListInv, InsInv
<1>5. skRd' \in [SkReaders -> SkReader] /\ skRd'[r] = rd /\ \A s \in SkReaders : s # r => skRd'[s] = skRd[s]
  BY <1>1 DEF ReaderInv, Stands
<1>6. ReaderInv'
  <2>1. \A s \in SkReaders : Stands(skRd'[s])
    BY <1>1, <1>5, Zenon DEF ReaderInv, Stands
  <2> QED
    BY <1>2, <1>5, <2>1, Zenon DEF ReaderInv, Stands
<1>7. AllPass
  BY <1>1, PassedIs, Zenon
<1>8. AllPass'
  BY <1>5, <1>7, Zenon DEF AllPass
<1>9. NoKeyPassed'
  BY <1>6, <1>8, PassedIsNext, Zenon
<1> QED
  BY <1>3, <1>4, <1>6, <1>9, Zenon DEF SkIInv

\* A walk starts at the head, on a level the writer has given the list.
LEMMA KeepWalk ==
    ASSUME SkIInv, NEW r \in SkReaders, NEW op, NEW from, Walk(r, op, from),
           \/ op \in {"seek", "less"} /\ from \in SkKeys
           \/ op = "last" /\ from = SkNil
    PROVE  SkIInv'
<1>1. SkTypeOK /\ ListInv /\ LevelsInv
  BY DEF SkIInv
<1>2. PICK h \in skHeights :
          skRd' = [skRd EXCEPT ![r] = [op |-> op, from |-> from, x |-> SkHead, level |-> h - 1,
                                       before |-> skDone, node |-> SkNil]]
  BY Zenon DEF Walk
<1> DEFINE rd == [op |-> op, from |-> from, x |-> SkHead, level |-> h - 1, before |-> skDone, node |-> SkNil]
<1>3. h - 1 \in SkLevels
  BY <1>1, SkNumbers, Zenon DEF SkTypeOK
<1>4. rd \in SkReader
  BY <1>1, <1>3, Zenon DEF SkReader, SkTypeOK, SkNodes
<1>5. Stands(rd)
  BY <1>1, <1>3, <1>4, SkNumbers, Zenon DEF Stands, ListInv
<1>6. Passes(rd)
  BY SkNumbers DEF Passes, Ended
<1>7. UNCHANGED <<skNext, skHeights, skIns, skDone>>
  BY DEF Walk
<1> HIDE DEF rd
<1> QED
  BY <1>2, <1>5, <1>6, <1>7, ReaderStep, Zenon DEF rd

\* A reader follows one link of its level.
LEMMA KeepReadLink ==
    ASSUME SkIInv, NEW r \in SkReaders, NEW from \in NodesOn(0), ReadLink(r, from)
    PROVE  SkIInv'
<1>1. SkTypeOK /\ ListInv /\ LevelsInv
  BY DEF SkIInv
<1> DEFINE rd == [op |-> "next", from |-> from, x |-> from, level |-> 0, before |-> skDone,
                  node |-> skNext[from][0]]
<1>2. skRd' = [skRd EXCEPT ![r] = rd] /\ UNCHANGED <<skNext, skHeights, skIns, skDone>>
  BY Zenon DEF ReadLink
<1>3. /\ skNext[from][0] \in NodesOn(0) \cup {SkNil} /\ skNext[from][0] > from
      /\ \A m \in NodesOn(0) : ~(from < m /\ m < skNext[from][0])
      /\ 0 \in SkLevels
  BY <1>1, SkNumbers, Zenon DEF ListInv
<1>4. from \in SkNodes /\ skNext[from][0] \in SkKeys \cup {SkNil} /\ skNext[from][0] # SkUnset
  BY <1>1, <1>3, SkNumbers DEF SkTypeOK, NodesOn, SkNodes
<1>5. rd \in SkReader
  BY <1>1, <1>3, <1>4, Zenon DEF SkReader, SkTypeOK
<1>6. Stands(rd)
  BY <1>3, <1>5, Zenon DEF Stands
<1>7. Passes(rd)
  BY <1>1, <1>3, <1>4, Zenon DEF Passes, LevelsInv
<1> HIDE DEF rd
<1> QED
  BY <1>2, <1>6, <1>7, ReaderStep, Zenon

\* A walk goes on to a node before what it looks for, or down a level, or has found it.
LEMMA KeepReadStep ==
    ASSUME SkIInv, NEW r \in SkReaders, ReadStep(r)
    PROVE  SkIInv'
<1>1. SkTypeOK /\ ListInv /\ LevelsInv /\ ReaderInv
  BY Zenon DEF SkIInv
<1>2. PICK rd \in SkReader : rd = skRd[r] /\ Stands(rd)
  BY <1>1, Zenon DEF ReaderInv, Stands
<1>3. rd.op \in {"seek", "less", "last"} /\ rd.x # SkNil
  BY <1>2, Zenon DEF ReadStep
<1>4. PICK x \in SkNodes, l \in SkLevels : x = rd.x /\ l = rd.level /\ x \in NodesOn(l)
  BY <1>2, <1>3, Zenon DEF SkReader, Stands
<1>5. PICK nx \in NodesOn(l) \cup {SkNil} :
        /\ nx = skNext[x][l] /\ nx > x
        /\ \A m \in NodesOn(l) : ~(x < m /\ m < nx)
  BY <1>1, <1>4 DEF ListInv
<1>6. skRd' = [skRd EXCEPT ![r] = Stepped(rd, nx)] /\ UNCHANGED <<skNext, skHeights, skIns, skDone>>
  BY <1>2, <1>4, <1>5, Zenon DEF ReadStep
<1>7. /\ nx # SkUnset /\ nx \in SkNodes \cup {SkNil} /\ nx \in Int /\ x \in Int /\ nx # SkHead
      /\ \A m \in SkNodes : m \in Int /\ SkHead <= m /\ m < SkNil
  BY <1>1, <1>4, <1>5, SkNumbers DEF SkTypeOK, NodesOn, SkNodes
<1>8. Stands(Stepped(rd, nx)) /\ Passes(Stepped(rd, nx))
  <2>1. Forward(rd, nx) <=> IF rd.op = "last" THEN nx # SkNil ELSE nx < rd.from
    <3>1. CASE rd.op = "last"
      BY <3>1 DEF Forward
    <3>2. CASE rd.op \in {"seek", "less"}
      BY <3>2, Zenon DEF Forward
    <3> QED
      BY <1>3, <3>1, <3>2, Zenon
  <2>2. CASE Forward(rd, nx)
    <3>1. nx # SkNil /\ nx \in NodesOn(l) /\ nx \in SkNodes
      BY <1>2, <1>3, <1>5, <1>7, <2>1, <2>2, SkNumbers DEF Stands
    <3>2. Stepped(rd, nx) = [rd EXCEPT !.x = nx]
      BY <1>7, <2>2, Zenon DEF Stepped
    <3>3. [rd EXCEPT !.x = nx] \in SkReader
      BY <3>1, Zenon DEF SkReader
    <3>4. Stands([rd EXCEPT !.x = nx])
      BY <1>2, <1>3, <1>4, <2>1, <2>2, <3>1, <3>3, Zenon DEF Stands, SkReader
    <3>5. Passes([rd EXCEPT !.x = nx])
      BY <1>2, <1>3, <3>1, Zenon DEF Passes, Ended, SkReader
    <3> QED
      BY <3>2, <3>4, <3>5, Zenon
  <2>3. CASE ~Forward(rd, nx) /\ l > 0
    <3>1. Stepped(rd, nx) = [rd EXCEPT !.level = l - 1]
      BY <1>4, <1>7, <2>3, Zenon DEF Stepped, SkReader
    <3>2. l - 1 \in SkLevels /\ x \in NodesOn(l - 1)
      BY <1>1, <1>4, <2>3, SkNumbers, Zenon DEF LevelsInv
    <3>3. [rd EXCEPT !.level = l - 1] \in SkReader
      BY <3>2, Zenon DEF SkReader
    <3>4. Stands([rd EXCEPT !.level = l - 1])
      BY <1>2, <1>4, <3>2, <3>3, Zenon DEF Stands, SkReader
    <3>5. Passes([rd EXCEPT !.level = l - 1])
      BY <1>2, <1>3, Zenon DEF Passes, Ended, SkReader
    <3> QED
      BY <3>1, <3>4, <3>5, Zenon
  <2>4. CASE ~Forward(rd, nx) /\ l = 0
    <3> DEFINE f == Found(rd, nx)
               nd == [rd EXCEPT !.x = SkNil, !.node = f]
    <3>1. Stepped(rd, nx) = nd
      BY <1>4, <1>7, <2>4 DEF Stepped
    <3>2. f = IF rd.op = "seek" THEN nx ELSE IF x = SkHead THEN SkNil ELSE x
      BY <1>4, Zenon DEF Found
    <3>3. f \in SkKeys \cup {SkNil} /\ (f # SkNil => f \in NodesOn(0)) /\ f # SkUnset
      BY <1>4, <1>5, <1>7, <2>4, <3>2, SkNumbers DEF SkNodes
    <3>4. /\ nd.op = rd.op /\ nd.from = rd.from /\ nd.before = rd.before /\ nd.x = SkNil /\ nd.node = f
          /\ nd \in SkReader
      <4> HIDE DEF f
      <4> QED
        BY <3>3, Zenon DEF SkReader
    <3> HIDE DEF nd, f
    <3>5. Stands(nd)
      BY <1>2, <3>3, <3>4, Zenon DEF Stands
    <3>6. \A k \in rd.before : k \in NodesOn(0) /\ k \in SkKeys /\ k \in Int /\ k < SkNil /\ SkHead < k
      BY <1>1, <1>2, SkNumbers, Zenon DEF Stands, LevelsInv, SkTypeOK
    <3>7. \A k \in rd.before : ~(x < k /\ k < nx)
      BY <1>5, <2>4, <3>6, Zenon
    <3>8. ASSUME rd.op = "last" PROVE Passes(nd)
      <4>1. nx = SkNil
        BY <2>1, <2>4, <3>8, Zenon
      <4>2. ~\E k \in rd.before : f = SkNil \/ k > f
        BY <1>7, <3>2, <3>6, <3>7, <3>8, <4>1, SkNumbers
      <4> QED
        BY <3>3, <3>4, <3>8, <4>2, Zenon DEF Passes
    <3>9. ASSUME rd.op \in {"seek", "less"} PROVE Passes(nd)
      <4>1. rd.from \in SkKeys /\ rd.from \in Int /\ x < rd.from /\ nx >= rd.from
        BY <1>2, <1>3, <1>4, <1>7, <2>1, <2>4, <3>9, SkNumbers DEF Stands
      <4>2. rd.op = "seek" => f >= rd.from /\ ~\E k \in rd.before : k >= rd.from /\ k < f
        BY <1>7, <3>2, <3>6, <3>7, <4>1
      <4>3. rd.op = "less" => ~\E k \in rd.before : k < rd.from /\ (f = SkNil \/ k > f)
        BY <1>7, <3>2, <3>6, <3>7, <4>1, SkNumbers
      <4> QED
        BY <3>3, <3>4, <3>9, <4>2, <4>3, Zenon DEF Passes
    <3> QED
      BY <1>3, <3>1, <3>5, <3>8, <3>9, Zenon
  <2>5. l > 0 \/ l = 0
    BY SkNumbers
  <2> QED
    BY <2>2, <2>3, <2>4, <2>5, Zenon
<1> HIDE DEF Stepped
<1> QED
  BY <1>6, <1>8, ReaderStep, Zenon

\* A reader that has found its node rests on it.
LEMMA KeepReadEnd ==
    ASSUME SkIInv, NEW r \in SkReaders, SkReadEnd(r)
    PROVE  SkIInv'
<1>1. ReaderInv
  BY DEF SkIInv
<1>2. PICK rd \in SkReader : rd = skRd[r] /\ Stands(rd)
  BY <1>1, Zenon DEF ReaderInv, Stands
<1>3. skRd' = [skRd EXCEPT ![r] = Resting(rd.node)] /\ UNCHANGED <<skNext, skHeights, skIns, skDone>>
  BY <1>2, Zenon DEF SkReadEnd
<1>4. Resting(rd.node) \in SkReader
  BY SkNumbers, Zenon DEF Resting, SkReader
<1>5. Stands(Resting(rd.node)) /\ Passes(Resting(rd.node))
  BY <1>2, <1>4, Zenon DEF Stands, Passes, Ended, Resting
<1> HIDE DEF Resting
<1> QED
  BY <1>3, <1>5, ReaderStep, Zenon

\* Every step of the writer and of the readers keeps the invariant.
LEMMA SkNextIInv == SkIInv /\ [SkStep]_skVars => SkIInv'
<1> SUFFICES ASSUME SkIInv, [SkStep]_skVars PROVE SkIInv'
  OBVIOUS
<1>1. CASE \E key \in SkKeys, height \in 1..SkHeight : InsertStart(key, height)
  BY <1>1, KeepInsertStart, Zenon
<1>2. CASE InsertLink \/ InsertEnd
  BY <1>2, KeepInsertLink, KeepInsertEnd, Zenon
<1>3. ASSUME NEW r \in SkReaders, \E target \in SkKeys : ReadSeek(r, target) PROVE SkIInv'
  BY <1>3, KeepWalk, Zenon DEF ReadSeek
<1>4. ASSUME NEW r \in SkReaders, ReadPrev(r) \/ ReadSeekToLast(r) PROVE SkIInv'
  <2>1. skRd[r].node # SkNil => skRd[r].node \in SkKeys
    BY Zenon DEF SkIInv, ReaderInv, SkReader
  <2> QED
    BY <1>4, <2>1, KeepWalk, Zenon DEF ReadPrev, ReadSeekToLast
<1>5. ASSUME NEW r \in SkReaders, ReadNext(r) \/ ReadSeekToFirst(r) PROVE SkIInv'
  <2>1. (skRd[r].node # SkNil => skRd[r].node \in NodesOn(0)) /\ SkHead \in NodesOn(0)
    BY SkNumbers, Zenon DEF SkIInv, ReaderInv, ListInv
  <2> QED
    BY <1>5, <2>1, KeepReadLink, Zenon DEF ReadNext, ReadSeekToFirst
<1>6. ASSUME NEW r \in SkReaders, ReadStep(r) \/ SkReadEnd(r) PROVE SkIInv'
  BY <1>6, KeepReadStep, KeepReadEnd, Zenon
<1>7. CASE UNCHANGED skVars
  <2>1. UNCHANGED <<skNext, skHeights, skIns, skDone, skRd>>
    BY <1>7, Zenon DEF skVars
  <2>2. \A l : NodesOn(l)' = NodesOn(l)
    BY <2>1, Zenon DEF NodesOn
  <2> QED
    BY <2>1, <2>2, Zenon DEF SkIInv, SkTypeOK, ListInv, LevelsInv, InsInv, ReaderInv, NoKeyPassed
<1> QED
  BY <1>1, <1>2, <1>3, <1>4, <1>5, <1>6, <1>7, Zenon DEF SkStep

\* A reader that takes no lock never passes over a key whose insert had returned when it began, nor
\* follows a link that was never written, whatever the writer has half linked.
THEOREM ReadersPassNoKey == SkSpec => []NoKeyPassed
<1>1. SkIInv => NoKeyPassed
  BY DEF SkIInv
<1> QED
  BY <1>1, SkInitIInv, SkNextIInv, PTL DEF SkSpec

-----------------------------------------------------------------------------
(* The environment's files.  A file always holds a run of the units appended, from the first  *)
(* on, and until a call has failed the buffer holds the rest of them.                         *)
PeFileType ==
    [buf : Seq(Nat), os : Seq(Nat), disk : Seq(Nat), total : Nat, failed : BOOLEAN,
     manifest : BOOLEAN, dirsync : BOOLEAN, synced : Nat]
Follows(from, s) == \A i \in 1..Len(s) : s[i] = from + i
Holds(f) ==
    /\ f \in PeFileType
    /\ Len(f.buf) <= PeBuffer
    /\ Follows(0, f.os)
    /\ f.synced = Len(f.disk) /\ f.synced <= Len(f.os)
    /\ f.synced > 0 /\ f.manifest => f.dirsync
Whole(f) == Len(f.os) + Len(f.buf) = f.total /\ Follows(Len(f.os), f.buf)
FileInv == Holds(peFile) /\ (~peFile.failed => Whole(peFile))

(* The work: what has run, the item running and the queue are the items scheduled, in order. *)
WorkType == [queue : Seq(Nat), next : Nat, bg : {"off", "wait", "idle", "run"}, item : Nat, ran : Seq(Nat)]
WorkOK(w, done) ==
    /\ w \in WorkType
    /\ Follows(0, w.ran)
    /\ done = Len(w.ran) + (IF w.bg = "run" THEN 1 ELSE 0)
    /\ w.bg = "run" => w.item = done
    /\ Follows(done, w.queue)
    /\ w.next = done + Len(w.queue) + 1
    /\ w.bg \in {"off", "wait"} => w.queue = <<>>
WorkInv == \E done \in Nat : WorkOK(peWork, done)

(* The limiters: the threads that have taken one, and of these the ones that may keep it. *)
States == {"none", "mmap?", "mmap", "fd", "fd?", "kept", "each"}
OpenType == [mmaps : Int, fds : Int, user : [PeUsers -> [pc : States, old : Int]]]
Taken(o, held, asked) == {u \in PeUsers : o.user[u].pc \in {held, asked}}
Granted(o, held, asked) ==
    {u \in PeUsers : o.user[u].pc = held \/ (o.user[u].pc = asked /\ o.user[u].old > 0)}
Limited(o, left, limit, held, asked) ==
    /\ left = limit - Cardinality(Taken(o, held, asked))
    /\ Cardinality(Granted(o, held, asked)) <= limit
OpenInv ==
    /\ peOpen \in OpenType
    /\ Limited(peOpen, peOpen.mmaps, PeMmaps, "mmap", "mmap?")
    /\ Limited(peOpen, peOpen.fds, PeFds, "kept", "fd?")

PeIInv == FileInv /\ WorkInv /\ OpenInv

-----------------------------------------------------------------------------
\* The units appended are numbered on from those before.
LEMMA UnitsIs ==
    ASSUME NEW from \in Nat, NEW n \in Nat
    PROVE  Units(from, n) \in Seq(Nat) /\ Len(Units(from, n)) = n /\ Follows(from, Units(from, n))
<1>1. Units(from, n) \in Seq(Nat) /\ Len(Units(from, n)) = n
  BY IsASeq DEF Units
<1> QED
  BY <1>1, Zenon DEF Units, Follows

\* A sequence numbered from 1 on is the sequence of its units.
LEMMA FollowsIs ==
    ASSUME NEW s \in Seq(Nat), Follows(0, s)
    PROVE  s = Units(0, Len(s))
<1>1. Len(s) \in Nat
  BY LenProperties
<1>2. Units(0, Len(s)) \in Seq(Nat) /\ Len(Units(0, Len(s))) = Len(s) /\ Follows(0, Units(0, Len(s)))
  BY <1>1, UnitsIs, Zenon
<1>3. \A i \in 1..Len(s) : s[i] = Units(0, Len(s))[i]
  BY <1>2, Zenon DEF Follows
<1> QED
  BY <1>2, <1>3, SeqEqual, Zenon

\* Two runs of units, one after the other, are a run.
LEMMA FollowsCat ==
    ASSUME NEW from \in Nat, NEW s \in Seq(Nat), NEW t \in Seq(Nat), Follows(from, s), Follows(from + Len(s), t)
    PROVE  s \o t \in Seq(Nat) /\ Len(s \o t) = Len(s) + Len(t) /\ Follows(from, s \o t)
<1>1. s \o t \in Seq(Nat) /\ Len(s \o t) = Len(s) + Len(t) /\ Len(s) \in Nat /\ Len(t) \in Nat
  BY ConcatProperties, LenProperties, Zenon
<1>2. ASSUME NEW i \in 1..Len(s \o t) PROVE (s \o t)[i] = from + i
  <2>1. CASE i <= Len(s)
    BY <1>1, <2>1, ConcatProperties DEF Follows
  <2>2. CASE i > Len(s)
    <3>1. (s \o t)[i] = t[i - Len(s)]
      BY <1>1, <2>2, ConcatProperties
    <3>2. i - Len(s) \in 1..Len(t)
      BY <1>1, <1>2, <2>2
    <3> QED
      BY <1>1, <3>1, <3>2 DEF Follows
  <2> QED
    BY <1>1, <2>1, <2>2
<1> QED
  BY <1>1, <1>2, Zenon DEF Follows

\* What a write that failed has written is a run too.
LEMMA FollowsSub ==
    ASSUME NEW from \in Nat, NEW s \in Seq(Nat), Follows(from, s), NEW n \in 0..Len(s)
    PROVE  SubSeq(s, 1, n) \in Seq(Nat) /\ Len(SubSeq(s, 1, n)) = n /\ Follows(from, SubSeq(s, 1, n))
<1>1. SubSeq(s, 1, n) \in Seq(Nat) /\ Len(SubSeq(s, 1, n)) = n /\ Len(s) \in Nat
  BY SubSeqProperties, LenProperties
<1>2. \A i \in 1..n : SubSeq(s, 1, n)[i] = s[i]
  BY <1>1, SubSeqProperties
<1> QED
  BY <1>1, <1>2 DEF Follows

\* A write, whole or not, leaves the file a run of units; nothing else of the file changes.
LEMMA Written ==
    ASSUME NEW f, Holds(f), NEW data \in Seq(Nat), Follows(Len(f.os), data), NEW n \in 0..Len(data)
    PROVE  /\ Holds(WriteUnbuffered(f, data, n))
           /\ WriteUnbuffered(f, data, n).buf = f.buf
           /\ WriteUnbuffered(f, data, n).total = f.total
           /\ Len(WriteUnbuffered(f, data, n).os) = Len(f.os) + n
           /\ WriteUnbuffered(f, data, n).failed <=> (f.failed \/ n < Len(data))
<1>1. f \in PeFileType /\ f.os \in Seq(Nat) /\ Len(f.os) \in Nat /\ Len(data) \in Nat /\ Follows(0, f.os)
  BY LenProperties, Zenon DEF Holds, PeFileType
<1>2. PICK part \in Seq(Nat) : part = SubSeq(data, 1, n) /\ Len(part) = n /\ Follows(Len(f.os), part)
  BY <1>1, FollowsSub, ZenonT(40)
<1>3. PICK os \in Seq(Nat) : os = f.os \o part /\ Len(os) = Len(f.os) + n /\ Follows(0, os)
  <2>1. Follows(0 + Len(f.os), part)
    BY <1>1, <1>2
  <2> QED
    BY <1>1, <1>2, <2>1, FollowsCat, Zenon
<1>4. PICK b \in BOOLEAN : b = (f.failed \/ n < Len(data))
  BY Zenon
<1>5. PICK g \in PeFileType : /\ g = [f EXCEPT !.os = os, !.failed = b]
                              /\ g.os = os /\ g.failed = b
                              /\ g.buf = f.buf /\ g.total = f.total /\ g.disk = f.disk /\ g.synced = f.synced
                              /\ g.manifest = f.manifest /\ g.dirsync = f.dirsync
  <2> DEFINE h == [f EXCEPT !.os = os, !.failed = b]
  <2>1. h \in PeFileType
    BY <1>1, Zenon DEF PeFileType
  <2>2. /\ h.os = os /\ h.failed = b
        /\ h.buf = f.buf /\ h.total = f.total /\ h.disk = f.disk /\ h.synced = f.synced
        /\ h.manifest = f.manifest /\ h.dirsync = f.dirsync
    BY <1>1 DEF PeFileType
  <2>3. h = [f EXCEPT !.os = os, !.failed = b]
    OBVIOUS
  <2> HIDE DEF h
  <2> QED
    BY <2>1, <2>2, <2>3, Zenon
<1>6. WriteUnbuffered(f, data, n) = g
  <2>1. WriteUnbuffered(f, data, n) = [f EXCEPT !.os = f.os \o SubSeq(data, 1, n), !.failed = f.failed \/ n < Len(data)]
    BY <1>1, Zenon DEF WriteUnbuffered, PeFileType
  <2> QED
    BY <1>2, <1>3, <1>4, <1>5, <2>1, Zenon
<1>7. Holds(g)
  BY <1>1, <1>3, <1>5 DEF Holds, PeFileType
<1> QED
  BY <1>3, <1>4, <1>5, <1>6, <1>7, Zenon

\* FlushBuffer: the buffer is empty, and all of it is in the file unless the write has failed.
LEMMA Flushed ==
    ASSUME NEW f, Holds(f), Follows(Len(f.os), f.buf), NEW n \in 0..Len(f.buf)
    PROVE  /\ Holds(FlushBuffer(f, n))
           /\ FlushBuffer(f, n).buf = <<>>
           /\ FlushBuffer(f, n).total = f.total
           /\ Len(FlushBuffer(f, n).os) = Len(f.os) + n
           /\ FlushBuffer(f, n).failed <=> (f.failed \/ n < Len(f.buf))
<1>1. f.buf \in Seq(Nat)
  BY DEF Holds, PeFileType
<1>2. PICK g : /\ g = WriteUnbuffered(f, f.buf, n) /\ Holds(g) /\ g.total = f.total
               /\ Len(g.os) = Len(f.os) + n /\ (g.failed <=> (f.failed \/ n < Len(f.buf)))
  BY <1>1, Written, Zenon
<1>3. PICK h : h = FlushBuffer(f, n) /\ h = [g EXCEPT !.buf = <<>>]
  BY <1>2, Zenon DEF FlushBuffer
<1>4. g \in PeFileType
  BY <1>2, Zenon DEF Holds
<1>5. <<>> \in Seq(Nat) /\ Len(<<>>) = 0
  BY EmptySeq, Zenon
<1>6. /\ h \in PeFileType /\ h.buf = <<>> /\ h.total = g.total /\ h.os = g.os /\ h.failed = g.failed
      /\ h.disk = g.disk /\ h.synced = g.synced /\ h.manifest = g.manifest /\ h.dirsync = g.dirsync
  BY <1>3, <1>4, <1>5, Zenon DEF PeFileType
<1>7. Holds(h)
  BY <1>2, <1>5, <1>6, PeAssumption DEF Holds
<1> QED
  BY <1>2, <1>3, <1>6, <1>7, Zenon

\* PosixWritableFile::Flush.
LEMMA KeepFlush ==
    ASSUME FileInv, NEW n \in 0..PeBuffer, PeFlush(n)
    PROVE  FileInv'
<1>1. PICK f : f = peFile /\ Holds(f) /\ Whole(f) /\ ~f.failed /\ n <= Len(f.buf) /\ peFile' = FlushBuffer(f, n)
  BY DEF FileInv, PeFlush
<1>2. Len(f.buf) \in Nat /\ Len(f.os) \in Nat
  BY <1>1, LenProperties, Zenon DEF Holds, PeFileType
<1>3. PICK g : /\ g = FlushBuffer(f, n) /\ Holds(g) /\ g.buf = <<>> /\ g.total = f.total
               /\ Len(g.os) = Len(f.os) + n /\ (g.failed <=> (f.failed \/ n < Len(f.buf)))
  BY <1>1, <1>2, Flushed, PeAssumption DEF Whole
<1>4. Len(<<>>) = 0
  BY EmptySeq, Zenon
<1>5. ASSUME ~g.failed PROVE Whole(g)
  <2>1. ~(n < Len(f.buf))
    BY <1>3, <1>5, Zenon
  <2>2. n = Len(f.buf)
    BY <1>1, <1>2, <2>1, PeAssumption
  <2>3. Len(g.buf) = 0 /\ Len(g.os) = g.total
    BY <1>1, <1>2, <1>3, <1>4, <2>2, Zenon DEF Whole
  <2>4. g.total \in Nat
    BY <1>3, Zenon DEF Holds, PeFileType
  <2> QED
    BY <2>3, <2>4 DEF Whole, Follows
<1> QED
  BY <1>1, <1>3, <1>5, Zenon DEF FileInv

\* The file fails: what it holds stays.
LEMMA Failing ==
    ASSUME NEW f, Holds(f)
    PROVE  Holds([f EXCEPT !.failed = TRUE]) /\ [f EXCEPT !.failed = TRUE].failed
<1>1. f \in PeFileType
  BY DEF Holds
<1>2. PICK g : g = [f EXCEPT !.failed = TRUE]
  BY Zenon
<1>3. /\ g \in PeFileType /\ g.buf = f.buf /\ g.os = f.os /\ g.disk = f.disk /\ g.synced = f.synced
      /\ g.manifest = f.manifest /\ g.dirsync = f.dirsync /\ g.failed
  BY <1>1, <1>2, Zenon DEF PeFileType
<1>4. Holds(g)
  BY <1>3, Zenon DEF Holds
<1> QED
  BY <1>2, <1>3, <1>4, Zenon

\* Sync: the directory of a manifest, then the buffer, then the data, each of which may fail.
LEMMA KeepSync ==
    ASSUME FileInv, NEW n \in 0..PeBuffer, NEW ok \in BOOLEAN, NEW dir \in BOOLEAN, PeSync(n, ok, dir)
    PROVE  FileInv'
<1>1. PICK f : /\ f = peFile /\ Holds(f) /\ Whole(f) /\ ~f.failed /\ n <= Len(f.buf)
               /\ peFile' = IF dir THEN Synced(FlushBuffer(SyncDirIfManifest(f), n), ok)
                            ELSE [f EXCEPT !.failed = TRUE]
  BY Zenon DEF FileInv, PeSync
<1>2. Len(f.buf) \in Nat /\ Len(f.os) \in Nat /\ f \in PeFileType /\ Len(<<>>) = 0
  BY <1>1, LenProperties, EmptySeq, Zenon DEF Holds, PeFileType
<1>3. CASE ~dir
  BY <1>1, <1>3, Failing, Zenon DEF FileInv
<1>4. CASE dir
  <2>1. PICK d : /\ d = SyncDirIfManifest(f) /\ d \in PeFileType /\ (d.manifest => d.dirsync)
                 /\ d.buf = f.buf /\ d.os = f.os /\ d.disk = f.disk /\ d.synced = f.synced
                 /\ d.manifest = f.manifest /\ d.total = f.total /\ d.failed = f.failed
    <3>1. PICK b \in BOOLEAN : b = (f.dirsync \/ f.manifest)
      BY Zenon
    <3>2. PICK d : d = [f EXCEPT !.dirsync = b]
      BY Zenon
    <3>3. SyncDirIfManifest(f) = [f EXCEPT !.dirsync = f.dirsync \/ f.manifest]
      BY DEF SyncDirIfManifest
    <3>4. d = SyncDirIfManifest(f)
      BY <3>1, <3>2, <3>3, Zenon
    <3>5. /\ d \in PeFileType /\ d.dirsync = b
          /\ d.buf = f.buf /\ d.os = f.os /\ d.disk = f.disk /\ d.synced = f.synced
          /\ d.manifest = f.manifest /\ d.total = f.total /\ d.failed = f.failed
      BY <1>2, <3>2, Zenon DEF PeFileType
    <3> QED
      BY <3>1, <3>4, <3>5, Zenon
  <2>2. Holds(d) /\ Follows(Len(d.os), d.buf)
    BY <1>1, <2>1, Zenon DEF Holds, Whole
  <2>3. PICK g : /\ g = FlushBuffer(d, n) /\ Holds(g) /\ g.buf = <<>> /\ g.total = d.total
                 /\ Len(g.os) = Len(d.os) + n /\ (g.failed <=> (d.failed \/ n < Len(d.buf)))
                 /\ g.manifest => g.dirsync
    <3>1. n \in 0..Len(d.buf)
      BY <1>1, <1>2, <2>1, PeAssumption
    <3>2. FlushBuffer(d, n).manifest = d.manifest /\ FlushBuffer(d, n).dirsync = d.dirsync
      BY <2>1, Zenon DEF FlushBuffer, WriteUnbuffered, PeFileType
    <3> QED
      BY <2>1, <2>2, <3>1, <3>2, Flushed, Zenon
  <2>4. peFile' = Synced(g, ok) /\ g \in PeFileType
    BY <1>1, <1>4, <2>1, <2>3, Zenon DEF Holds
  <2>5. CASE g.failed \/ ~ok
    BY <2>3, <2>4, <2>5, Failing, Zenon DEF FileInv, Synced
  <2>6. CASE ~g.failed /\ ok
    <3>1. Len(g.os) = g.total /\ ~g.failed
      <4>1. ~(n < Len(d.buf)) /\ ~g.failed
        BY <2>3, <2>6, Zenon
      <4>2. n = Len(f.buf)
        BY <1>1, <1>2, <2>1, <4>1, PeAssumption
      <4> QED
        BY <1>1, <2>1, <2>3, <4>1, <4>2, Zenon DEF Whole
    <3>2. PICK h : h = [g EXCEPT !.disk = g.os, !.synced = g.total]
      OBVIOUS
    <3>3. peFile' = h
      BY <2>4, <2>6, <3>2 DEF Synced
    <3>4. /\ h \in PeFileType /\ h.buf = g.buf /\ h.os = g.os /\ h.disk = g.os /\ h.synced = g.total
          /\ h.manifest = g.manifest /\ h.dirsync = g.dirsync /\ h.total = g.total
      BY <2>4, <3>2, Zenon DEF PeFileType
    <3>5. Holds(h)
      BY <2>3, <3>1, <3>4 DEF Holds, PeFileType
    <3>6. Whole(h)
      BY <1>2, <2>3, <3>1, <3>4 DEF Whole, Follows, PeFileType
    <3> QED
      BY <3>3, <3>5, <3>6, Zenon DEF FileInv
  <2> QED
    BY <2>5, <2>6, Zenon
<1> QED
  BY <1>3, <1>4, Zenon

\* Append: what fits goes to the buffer; else the buffer is written, and the rest is kept or written.
LEMMA KeepAppend ==
    ASSUME FileInv, NEW size \in PeAppends, NEW n \in 0..PeBuffer, NEW m \in 0..PeMaxUnits, PeAppend(size, n, m)
    PROVE  FileInv'
<1>1. PICK f : f = peFile /\ Holds(f) /\ Whole(f) /\ ~f.failed
  BY Zenon DEF FileInv, PeAppend
<1>2. /\ f \in PeFileType /\ f.buf \in Seq(Nat) /\ f.os \in Seq(Nat) /\ f.total \in Nat
      /\ size \in Nat /\ PeBuffer \in Nat
  BY <1>1, PeAssumption, Zenon DEF Holds, PeFileType
<1>3. PICK lb \in Nat, lo \in Nat : /\ lb = Len(f.buf) /\ lo = Len(f.os)
                                    /\ lb <= PeBuffer /\ f.total = lo + lb /\ Follows(lo, f.buf)
  BY <1>1, <1>2, LenProperties, Zenon DEF Holds, Whole
<1>4. PICK fit \in Nat : fit = Fits(f, size) /\ fit <= size /\ lb + fit <= PeBuffer
  <2>1. Fits(f, size) = IF size < PeBuffer - lb THEN size ELSE PeBuffer - lb
    BY <1>3, Zenon DEF Fits
  <2>2. PeBuffer - lb \in Nat
    BY <1>2, <1>3
  <2>3. CASE size < PeBuffer - lb
    BY <1>2, <1>3, <2>1, <2>2, <2>3
  <2>4. CASE ~(size < PeBuffer - lb)
    <3>1. Fits(f, size) = PeBuffer - lb
      BY <2>1, <2>4, Zenon
    <3>2. PeBuffer - lb <= size /\ lb + (PeBuffer - lb) <= PeBuffer
      BY <1>2, <1>3, <2>4
    <3> QED
      BY <2>2, <3>1, <3>2, Zenon
  <2> QED
    BY <2>3, <2>4, Zenon
<1>5. PICK buf \in Seq(Nat) : /\ buf = f.buf \o Units(f.total, fit)
                              /\ Len(buf) = lb + fit /\ Follows(lo, buf)
  <2>1. PICK u \in Seq(Nat) : u = Units(f.total, fit) /\ Len(u) = fit /\ Follows(lo + Len(f.buf), u)
    BY <1>2, <1>3, <1>4, UnitsIs, ZenonT(40)
  <2>2. f.buf \o u \in Seq(Nat) /\ Len(f.buf \o u) = Len(f.buf) + Len(u) /\ Follows(lo, f.buf \o u)
    BY <1>2, <1>3, <2>1, FollowsCat, ZenonT(40)
  <2> QED
    BY <1>3, <2>1, <2>2, Zenon
<1>6. PICK g : g = [f EXCEPT !.buf = buf, !.total = f.total + size]
  OBVIOUS
<1>7. /\ IF fit = size THEN n = 0 /\ m = 0 /\ peFile' = g
         ELSE /\ n <= Len(g.buf) /\ m <= size - fit
              /\ peFile' = AppendRest(FlushBuffer(g, n), Units(f.total + fit, size - fit), m)
  BY <1>1, <1>2, <1>4, <1>5, <1>6, Zenon DEF PeAppend, PeFileType
<1>8. /\ g \in PeFileType /\ g.buf = buf /\ g.total = f.total + size /\ g.os = f.os /\ g.disk = f.disk
      /\ g.synced = f.synced /\ g.manifest = f.manifest /\ g.dirsync = f.dirsync /\ g.failed = f.failed
  <2>1. f.total + size \in Nat
    BY <1>2
  <2> QED
    BY <1>2, <1>6, <2>1, Zenon DEF PeFileType
<1>9. Holds(g) /\ Follows(Len(g.os), g.buf) /\ Len(g.buf) = lb + fit /\ Len(g.os) = lo /\ g.total = lo + lb + size
  BY <1>1, <1>2, <1>3, <1>4, <1>5, <1>8, Zenon DEF Holds
<1>10. CASE fit = size
  <2>1. Whole(g)
    BY <1>2, <1>9, <1>10 DEF Whole
  <2> QED
    BY <1>7, <1>9, <1>10, <2>1, Zenon DEF FileInv
<1>11. CASE fit # size
  <2>1. n \in 0..Len(g.buf) /\ m \in 0..(size - fit)
    <3>1. n <= lb + fit /\ m <= size - fit
      BY <1>7, <1>9, <1>11, Zenon
    <3>2. size - fit \in Nat /\ n \in Nat /\ m \in Nat
      BY <1>2, <1>4, PeAssumption
    <3> QED
      BY <1>2, <1>4, <1>9, <3>1, <3>2
  <2>2. PICK h : /\ h = FlushBuffer(g, n) /\ Holds(h) /\ h.buf = <<>> /\ h.total = g.total
                 /\ Len(h.os) = Len(g.os) + n /\ (h.failed <=> (g.failed \/ n < Len(g.buf)))
    BY <1>9, <2>1, Flushed, Zenon
  <2>3. PICK data \in Seq(Nat) : /\ data = Units(f.total + fit, size - fit) /\ Len(data) = size - fit
                                 /\ Follows(f.total + fit, data)
    <3>1. f.total + fit \in Nat /\ size - fit \in Nat
      BY <1>2, <1>4
    <3> QED
      BY <3>1, UnitsIs, Zenon
  <2>4. peFile' = AppendRest(h, data, m)
    BY <1>7, <1>11, <2>2, <2>3
  <2>5. CASE h.failed
    BY <2>2, <2>4, <2>5, Zenon DEF AppendRest, FileInv
  <2>6. CASE ~h.failed
    <3>1. ~(n < Len(g.buf))
      BY <2>2, <2>6, Zenon
    <3>2. Len(h.os) = f.total + fit
      <4>1. n = lb + fit
        BY <1>9, <2>1, <3>1
      <4>2. Len(h.os) = lo + n
        BY <1>9, <2>2, Zenon
      <4>3. f.total = lo + lb
        BY <1>3, Zenon
      <4> QED
        BY <1>4, <4>1, <4>2, <4>3
    <3>3. Follows(Len(h.os), data)
      BY <2>3, <3>2, Zenon
    <3>4. h \in PeFileType /\ h.total = f.total + size
      BY <1>8, <2>2, Zenon DEF Holds
    <3>5. CASE Len(data) < PeBuffer
      <4>1. PICK k : k = [h EXCEPT !.buf = data] /\ peFile' = k
        BY <2>4, <2>6, <3>5, Zenon DEF AppendRest
      <4>2. /\ k \in PeFileType /\ k.buf = data /\ k.total = h.total /\ k.os = h.os /\ k.disk = h.disk
            /\ k.synced = h.synced /\ k.manifest = h.manifest /\ k.dirsync = h.dirsync
        BY <3>4, <4>1, ZenonT(40) DEF PeFileType
      <4>3. Holds(k)
        BY <1>4, <2>2, <2>3, <3>5, <4>2, PeAssumption DEF Holds
      <4>4. Whole(k)
        <5>1. Len(k.os) = f.total + fit /\ Len(k.buf) = size - fit /\ k.total = f.total + size
          BY <2>3, <3>2, <3>4, <4>2, ZenonT(40)
        <5> QED
          BY <1>2, <3>3, <4>2, <5>1 DEF Whole
      <4> QED
        BY <4>1, <4>3, <4>4, Zenon DEF FileInv
    <3>6. CASE ~(Len(data) < PeBuffer)
      <4>1. PICK k : /\ k = WriteUnbuffered(h, data, m) /\ peFile' = k /\ Holds(k) /\ k.buf = h.buf /\ k.total = h.total
                     /\ Len(k.os) = Len(h.os) + m /\ (k.failed <=> (h.failed \/ m < Len(data)))
        <5>1. peFile' = WriteUnbuffered(h, data, m)
          BY <2>4, <2>6, <3>6, Zenon DEF AppendRest
        <5>2. m \in 0..Len(data)
          BY <2>1, <2>3, Zenon
        <5> QED
          BY <2>2, <3>3, <5>1, <5>2, Written, Zenon
      <4>2. ASSUME ~k.failed PROVE Whole(k)
        <5>1. ~(m < Len(data))
          BY <4>1, <4>2, Zenon
        <5>2. Len(k.os) = k.total
          <6>1. m = size - fit
            BY <1>2, <1>4, <2>1, <2>3, <5>1
          <6> QED
            BY <1>2, <3>2, <3>4, <4>1, <6>1
        <5>3. Len(k.buf) = 0 /\ k.total \in Nat
          BY <2>2, <4>1, EmptySeq, Zenon DEF Holds, PeFileType
        <5> QED
          BY <5>2, <5>3 DEF Whole, Follows
      <4> QED
        BY <4>1, <4>2, Zenon DEF FileInv
    <3> QED
      BY <3>5, <3>6
  <2> QED
    BY <2>5, <2>6, Zenon
<1> QED
  BY <1>10, <1>11, Zenon

\* A stop of the machine cuts the file no shorter than what was synced.
LEMMA KeepCrash ==
    ASSUME FileInv, PeCrash
    PROVE  FileInv'
<1>1. PICK f : f = peFile /\ Holds(f)
  BY Zenon DEF FileInv
<1>2. PICK n \in Len(f.disk)..Len(f.os) :
        peFile' = [f EXCEPT !.os = SubSeq(f.os, 1, n), !.buf = <<>>, !.failed = TRUE]
  BY <1>1, Zenon DEF PeCrash, Holds, PeFileType
<1>3. f \in PeFileType /\ f.os \in Seq(Nat) /\ Len(f.os) \in Nat /\ Len(f.disk) \in Nat /\ Follows(0, f.os)
  BY <1>1, LenProperties, Zenon DEF Holds, PeFileType
<1>4. PICK os \in Seq(Nat) : os = SubSeq(f.os, 1, n) /\ Len(os) = n /\ Follows(0, os)
  <2>1. n \in 0..Len(f.os)
    BY <1>2, <1>3
  <2> QED
    BY <1>3, <2>1, FollowsSub, Zenon
<1>5. <<>> \in Seq(Nat) /\ Len(<<>>) = 0
  BY EmptySeq, Zenon
<1>6. PICK g : g = peFile' /\ g = [f EXCEPT !.os = os, !.buf = <<>>, !.failed = TRUE]
  BY <1>2, <1>4, Zenon
<1>7. /\ g \in PeFileType /\ g.buf = <<>> /\ g.os = os /\ g.disk = f.disk /\ g.failed
      /\ g.synced = f.synced /\ g.manifest = f.manifest /\ g.dirsync = f.dirsync
  BY <1>3, <1>5, <1>6, Zenon DEF PeFileType
<1>8. Holds(g)
  BY <1>1, <1>2, <1>3, <1>4, <1>5, <1>7, PeAssumption DEF Holds
<1> QED
  BY <1>6, <1>7, <1>8, Zenon DEF FileInv

\* A run of units grows by the next one, and shrinks by its first.
LEMMA FollowsAppend ==
    ASSUME NEW from \in Nat, NEW s \in Seq(Nat), Follows(from, s), NEW e \in Nat, e = from + Len(s) + 1
    PROVE  Append(s, e) \in Seq(Nat) /\ Len(Append(s, e)) = Len(s) + 1 /\ Follows(from, Append(s, e))
<1>1. /\ Append(s, e) \in Seq(Nat) /\ Len(Append(s, e)) = Len(s) + 1 /\ Len(s) \in Nat
      /\ \A i \in 1..Len(s) : Append(s, e)[i] = s[i]
      /\ Append(s, e)[Len(s) + 1] = e
  BY AppendProperties, LenProperties
<1>2. ASSUME NEW i \in 1..(Len(s) + 1) PROVE Append(s, e)[i] = from + i
  <2>1. CASE i \in 1..Len(s)
    BY <1>1, <2>1, Zenon DEF Follows
  <2>2. CASE i = Len(s) + 1
    BY <1>1, <2>2
  <2> QED
    BY <1>1, <2>1, <2>2
<1> QED
  BY <1>1, <1>2, Zenon DEF Follows

\* A run without its first unit is the run from the next one on.
LEMMA FollowsTail ==
    ASSUME NEW from \in Nat, NEW s \in Seq(Nat), Follows(from, s), s # <<>>
    PROVE  /\ Tail(s) \in Seq(Nat) /\ Len(Tail(s)) = Len(s) - 1 /\ Len(s) \in Nat \ {0}
           /\ Follows(from + 1, Tail(s)) /\ Head(s) = from + 1
<1>1. /\ Tail(s) \in Seq(Nat) /\ Len(Tail(s)) = Len(s) - 1 /\ Len(s) \in Nat \ {0} /\ Head(s) = s[1]
      /\ \A i \in 1..(Len(s) - 1) : Tail(s)[i] = s[i + 1]
  BY HeadTailProperties, EmptySeq
<1>2. ASSUME NEW i \in 1..(Len(s) - 1) PROVE Tail(s)[i] = (from + 1) + i
  <2>1. i + 1 \in 1..Len(s)
    BY <1>1
  <2> QED
    BY <1>1, <2>1 DEF Follows
<1>3. Head(s) = from + 1
  BY <1>1 DEF Follows
<1> QED
  BY <1>1, <1>2, <1>3, Zenon DEF Follows

\* Schedule adds to the queue, and starts the thread or wakes it when it waits.
LEMMA KeepSchedule ==
    ASSUME WorkInv, PeSchedule
    PROVE  WorkInv'
<1>1. PICK w \in WorkType, done \in Nat : w = peWork /\ WorkOK(w, done)
  BY Zenon DEF WorkInv, WorkOK
<1>2. w \in WorkType /\ w.queue \in Seq(Nat) /\ w.next \in Nat /\ Len(w.queue) \in Nat
  BY <1>1, LenProperties, Zenon DEF WorkOK, WorkType
<1>3. PICK q \in Seq(Nat) : q = Append(w.queue, w.next) /\ Len(q) = Len(w.queue) + 1 /\ Follows(done, q)
  BY <1>1, <1>2, FollowsAppend, Zenon DEF WorkOK
<1>4. PICK bg \in {"idle", "run"} :
        /\ bg = IF w.bg = "off" \/ (w.bg = "wait" /\ w.queue = <<>>) THEN "idle" ELSE w.bg
        /\ bg = "run" <=> w.bg = "run"
  BY <1>1, <1>2, Zenon DEF WorkOK, WorkType
<1>5. PICK v : v = peWork' /\ v = [w EXCEPT !.queue = q, !.next = w.next + 1, !.bg = bg]
  BY <1>1, <1>2, <1>3, <1>4, Zenon DEF PeSchedule, WorkType
<1>6. v \in WorkType /\ v.queue = q /\ v.next = w.next + 1 /\ v.bg = bg /\ v.ran = w.ran /\ v.item = w.item
  <2>1. w.next + 1 \in Nat
    BY <1>2
  <2> QED
    BY <1>2, <1>5, <2>1, Zenon DEF WorkType
<1>7. WorkOK(v, done)
  <2>1. v.next = done + Len(q) + 1
    <3>1. w.next = done + Len(w.queue) + 1
      BY <1>1, Zenon DEF WorkOK
    <3>2. PICK k \in Nat : Len(q) = k + 1 /\ v.next = (done + k + 1) + 1
      BY <1>2, <1>3, <1>6, <3>1, Zenon
    <3> QED
      BY <3>2
  <2>2. done = Len(v.ran) + (IF v.bg = "run" THEN 1 ELSE 0)
    BY <1>1, <1>4, <1>6, Zenon DEF WorkOK
  <2>3. v.bg \notin {"off", "wait"}
    BY <1>4, <1>6, Zenon
  <2> QED
    BY <1>1, <1>3, <1>4, <1>6, <2>1, <2>2, <2>3, Zenon DEF WorkOK
<1> QED
  BY <1>5, <1>7, Zenon DEF WorkInv

\* BackgroundThreadMain takes the first item, or waits when there is none.
LEMMA KeepTake ==
    ASSUME WorkInv, BackgroundTake
    PROVE  WorkInv'
<1>1. PICK w \in WorkType, done \in Nat : w = peWork /\ WorkOK(w, done)
  BY Zenon DEF WorkInv, WorkOK
<1>2. w \in WorkType /\ w.queue \in Seq(Nat) /\ w.next \in Nat /\ w.ran \in Seq(Nat) /\ w.bg = "idle" /\ done = Len(w.ran)
  BY <1>1, LenProperties DEF WorkOK, WorkType, BackgroundTake
<1>3. CASE w.queue = <<>>
  <2>1. PICK v : v = peWork' /\ v = [w EXCEPT !.bg = "wait"]
    BY <1>1, <1>3, Zenon DEF BackgroundTake
  <2>2. v \in WorkType /\ v.queue = w.queue /\ v.next = w.next /\ v.bg = "wait" /\ v.ran = w.ran
    BY <1>2, <2>1, Zenon DEF WorkType
  <2>3. WorkOK(v, done)
    BY <1>1, <1>2, <1>3, <2>2, Zenon DEF WorkOK
  <2> QED
    BY <2>1, <2>3, Zenon DEF WorkInv
<1>4. CASE w.queue # <<>>
  <2>1. PICK q \in Seq(Nat) : /\ q = Tail(w.queue) /\ Len(q) = Len(w.queue) - 1 /\ Len(w.queue) \in Nat
                              /\ Follows(done + 1, q) /\ Head(w.queue) = done + 1
    BY <1>1, <1>2, <1>4, FollowsTail, Zenon DEF WorkOK
  <2>2. PICK v : v = peWork' /\ v = [w EXCEPT !.bg = "run", !.item = done + 1, !.queue = q]
    BY <1>1, <1>2, <1>4, <2>1, Zenon DEF BackgroundTake, WorkType
  <2>3. v \in WorkType /\ v.queue = q /\ v.next = w.next /\ v.bg = "run" /\ v.ran = w.ran /\ v.item = done + 1
    <3>1. done + 1 \in Nat
      OBVIOUS
    <3> QED
      BY <1>2, <2>2, <3>1, Zenon DEF WorkType
  <2>4. v.next = (done + 1) + Len(q) + 1
    <3>1. w.next = done + Len(w.queue) + 1
      BY <1>1, Zenon DEF WorkOK
    <3>2. PICK k \in Nat : k = Len(w.queue) /\ Len(q) = k - 1 /\ v.next = done + k + 1
      BY <2>1, <2>3, <3>1, Zenon
    <3>3. (done + 1) + (k - 1) + 1 = done + k + 1
      OBVIOUS
    <3> QED
      BY <3>2, <3>3, Zenon
  <2>5. WorkOK(v, done + 1)
    BY <1>1, <1>2, <2>1, <2>3, <2>4, Zenon DEF WorkOK
  <2> QED
    BY <2>2, <2>5 DEF WorkInv
<1> QED
  BY <1>3, <1>4, Zenon

\* The item has run.
LEMMA KeepRun ==
    ASSUME WorkInv, BackgroundRun
    PROVE  WorkInv'
<1>1. PICK w \in WorkType, done \in Nat : w = peWork /\ WorkOK(w, done)
  BY Zenon DEF WorkInv, WorkOK
<1>2. /\ w \in WorkType /\ w.queue \in Seq(Nat) /\ w.next \in Nat /\ w.ran \in Seq(Nat) /\ w.bg = "run"
      /\ done = Len(w.ran) + 1 /\ w.item = done /\ Len(w.ran) \in Nat
  BY <1>1, LenProperties, Zenon DEF WorkOK, WorkType, BackgroundRun
<1>3. PICK ran \in Seq(Nat) : ran = Append(w.ran, w.item) /\ Len(ran) = done /\ Follows(0, ran)
  <2>1. Follows(0, w.ran) /\ w.item \in Nat /\ w.item = 0 + Len(w.ran) + 1
    BY <1>1, <1>2 DEF WorkOK
  <2> QED
    BY <1>2, <2>1, FollowsAppend, ZenonT(40)
<1>4. PICK v : v = peWork' /\ v = [w EXCEPT !.bg = "idle", !.ran = ran, !.item = 0]
  BY <1>1, <1>2, <1>3 DEF BackgroundRun, WorkType
<1>5. v \in WorkType /\ v.queue = w.queue /\ v.next = w.next /\ v.bg = "idle" /\ v.ran = ran
  <2>1. 0 \in Nat
    OBVIOUS
  <2> QED
    BY <1>2, <1>4, <2>1, Zenon DEF WorkType
<1>6. WorkOK(v, done)
  BY <1>1, <1>2, <1>3, <1>5 DEF WorkOK
<1> QED
  BY <1>4, <1>6, Zenon DEF WorkInv

-----------------------------------------------------------------------------
\* The threads are finitely many, and only one that has taken one may keep it.
LEMMA TakenFacts ==
    ASSUME NEW o, NEW held, NEW asked
    PROVE  /\ IsFiniteSet(Taken(o, held, asked)) /\ Cardinality(Taken(o, held, asked)) \in Nat
           /\ IsFiniteSet(Granted(o, held, asked)) /\ Cardinality(Granted(o, held, asked)) \in Nat
           /\ Cardinality(Granted(o, held, asked)) <= Cardinality(Taken(o, held, asked))
<1>1. Taken(o, held, asked) \subseteq PeUsers /\ Granted(o, held, asked) \subseteq Taken(o, held, asked)
  BY DEF Taken, Granted
<1>2. IsFiniteSet(Taken(o, held, asked)) /\ IsFiniteSet(Granted(o, held, asked))
  BY <1>1, PeAssumption, FS_Subset, Zenon
<1> QED
  BY <1>1, <1>2, FS_Subset, FS_CardinalityType, Zenon

\* One user's step.
Moves(o, n, u, pc, old) == n.user = [o.user EXCEPT ![u] = [pc |-> pc, old |-> old]]

\* It changes that user's record and no other.
LEMMA MovesFacts ==
    ASSUME NEW o \in OpenType, NEW n, NEW u \in PeUsers, NEW pc, NEW old, Moves(o, n, u, pc, old)
    PROVE  /\ n.user[u].pc = pc /\ n.user[u].old = old
           /\ \A v \in PeUsers : v # u => n.user[v] = o.user[v]
BY DEF Moves, OpenType

\* Limiter::Acquire takes one: it may keep it when there was one left.
LEMMA LimitTake ==
    ASSUME NEW o \in OpenType, NEW n, NEW u \in PeUsers, NEW held, NEW asked, held # asked,
           NEW left \in Int, NEW limit \in Nat, Moves(o, n, u, asked, left),
           o.user[u].pc \notin {held, asked}, Limited(o, left, limit, held, asked)
    PROVE  Limited(n, left - 1, limit, held, asked)
<1> DEFINE T == Taken(o, held, asked)
           G == Granted(o, held, asked)
<1>1. /\ n.user[u].pc = asked /\ n.user[u].old = left
      /\ \A v \in PeUsers : v # u => n.user[v] = o.user[v]
  BY MovesFacts
<1>2. Taken(n, held, asked) = T \cup {u} /\ u \notin T /\ u \notin G
  BY <1>1, Zenon DEF Taken, Granted
<1>3. Granted(n, held, asked) = IF left > 0 THEN G \cup {u} ELSE G
  <2>1. CASE left > 0
    BY <1>1, <2>1, Zenon DEF Granted
  <2>2. CASE ~(left > 0)
    BY <1>1, <1>2, <2>2, Zenon DEF Granted
  <2> QED
    BY <2>1, <2>2, Zenon
<1> HIDE DEF T, G
<1>4. PICK t \in Nat, g \in Nat : t = Cardinality(T) /\ g = Cardinality(G) /\ g <= t /\ left = limit - t /\ g <= limit
  BY TakenFacts, Zenon DEF Limited, T, G
<1>5. Cardinality(T \cup {u}) = t + 1 /\ Cardinality(G \cup {u}) = g + 1
  BY <1>2, <1>4, TakenFacts, FS_AddElement, Zenon DEF T, G
<1>6. Cardinality(Taken(n, held, asked)) = t + 1
  BY <1>2, <1>5, Zenon
<1>7. Cardinality(Granted(n, held, asked)) <= limit
  <2>1. CASE left > 0
    BY <1>3, <1>4, <1>5, <2>1
  <2>2. CASE ~(left > 0)
    BY <1>3, <1>4, <2>2, Zenon
  <2> QED
    BY <2>1, <2>2, Zenon
<1>8. left - 1 = limit - (t + 1)
  BY <1>4
<1> QED
  BY <1>6, <1>7, <1>8, Zenon DEF Limited

\* A thread that was granted one has it.
LEMMA LimitGrant ==
    ASSUME NEW o \in OpenType, NEW n, NEW u \in PeUsers, NEW held, NEW asked,
           NEW left \in Int, NEW limit \in Nat, Moves(o, n, u, held, 0),
           o.user[u].pc = asked, o.user[u].old > 0, Limited(o, left, limit, held, asked)
    PROVE  Limited(n, left, limit, held, asked)
<1>1. n.user[u].pc = held /\ \A v \in PeUsers : v # u => n.user[v] = o.user[v]
  BY MovesFacts
<1>2. Taken(n, held, asked) = Taken(o, held, asked)
  BY <1>1, Zenon DEF Taken
<1>3. Granted(n, held, asked) = Granted(o, held, asked)
  BY <1>1, Zenon DEF Granted
<1> QED
  BY <1>2, <1>3, Zenon DEF Limited

\* Limiter::Release, and the second half of an Acquire that found none: one comes back.
LEMMA LimitFree ==
    ASSUME NEW o \in OpenType, NEW n, NEW u \in PeUsers, NEW held, NEW asked,
           NEW left \in Int, NEW limit \in Nat, NEW pc, NEW old, Moves(o, n, u, pc, old),
           pc \notin {held, asked}, o.user[u].pc \in {held, asked}, Limited(o, left, limit, held, asked)
    PROVE  Limited(n, left + 1, limit, held, asked)
<1> DEFINE T == Taken(o, held, asked)
           G == Granted(o, held, asked)
<1>1. n.user[u].pc = pc /\ \A v \in PeUsers : v # u => n.user[v] = o.user[v]
  BY MovesFacts
<1>2. Taken(n, held, asked) = T \ {u} /\ u \in T
  BY <1>1, Zenon DEF Taken
<1>3. Granted(n, held, asked) = G \ {u}
  BY <1>1, Zenon DEF Granted
<1> HIDE DEF T, G
<1>4. PICK t \in Nat, g \in Nat : t = Cardinality(T) /\ g = Cardinality(G) /\ left = limit - t /\ g <= limit
  BY TakenFacts, Zenon DEF Limited, T, G
<1>5. Cardinality(T \ {u}) = t - 1 /\ Cardinality(G \ {u}) \in {g, g - 1}
  BY <1>2, <1>4, TakenFacts, FS_RemoveElement, Zenon DEF T, G
<1>6. Cardinality(Granted(n, held, asked)) <= limit
  BY <1>3, <1>4, <1>5
<1>7. left + 1 = limit - (t - 1)
  BY <1>4
<1> QED
  BY <1>2, <1>5, <1>6, <1>7, Zenon DEF Limited

\* What the one limiter does leaves the other alone.
LEMMA LimitOther ==
    ASSUME NEW o \in OpenType, NEW n, NEW u \in PeUsers, NEW held, NEW asked,
           NEW left \in Int, NEW limit \in Nat, NEW pc, NEW old, Moves(o, n, u, pc, old),
           pc \notin {held, asked}, o.user[u].pc \notin {held, asked}, Limited(o, left, limit, held, asked)
    PROVE  Limited(n, left, limit, held, asked)
<1>1. n.user[u].pc = pc /\ \A v \in PeUsers : v # u => n.user[v] = o.user[v]
  BY MovesFacts
<1>2. Taken(n, held, asked) = Taken(o, held, asked)
  BY <1>1, Zenon DEF Taken
<1>3. Granted(n, held, asked) = Granted(o, held, asked)
  BY <1>1, Zenon DEF Granted
<1> QED
  BY <1>2, <1>3, Zenon DEF Limited

\* The two limiters apart.
Mmaps(o) == Limited(o, o.mmaps, PeMmaps, "mmap", "mmap?")
Fds(o) == Limited(o, o.fds, PeFds, "kept", "fd?")

\* PosixEnv::NewRandomAccessFile asks the limiter of the maps.
LEMMA KeepOpenTable ==
    ASSUME OpenInv, NEW u \in PeUsers, PeOpenTable(u)
    PROVE  OpenInv'
<1>1. PICK o \in OpenType : /\ o = peOpen /\ Mmaps(o) /\ Fds(o) /\ o.user[u].pc = "none"
                            /\ peOpen' = SetUser([o EXCEPT !.mmaps = o.mmaps - 1], u, "mmap?", o.mmaps)
  BY Zenon DEF OpenInv, PeOpenTable, Mmaps, Fds
<1>2. o.mmaps \in Int /\ o.fds \in Int /\ o.mmaps - 1 \in Int /\ PeMmaps \in Nat /\ PeFds \in Nat
  BY PeAssumption DEF OpenType
<1>4. PICK n : n = SetUser([o EXCEPT !.mmaps = o.mmaps - 1], u, "mmap?", o.mmaps) /\ n = peOpen'
  BY <1>1, Zenon
<1>5. n \in OpenType /\ n.mmaps = o.mmaps - 1 /\ n.fds = o.fds /\ Moves(o, n, u, "mmap?", o.mmaps)
  <2>1. "mmap?" \in States /\ o.mmaps \in Int
    BY <1>2, Zenon DEF States
  <2>2. n \in OpenType
    <3>1. [o.user EXCEPT ![u] = [pc |-> "mmap?", old |-> o.mmaps]] \in [PeUsers -> [pc : States, old : Int]]
      BY <2>1, Zenon DEF OpenType
    <3>2. PICK w \in [PeUsers -> [pc : States, old : Int]] : w = [o.user EXCEPT ![u] = [pc |-> "mmap?", old |-> o.mmaps]]
      BY <3>1, Zenon
    <3>3. n = [mmaps |-> o.mmaps - 1, fds |-> o.fds, user |-> w]
      BY <2>1, <1>2, <1>4, <3>2, Zenon DEF SetUser, OpenType
    <3> QED
      BY <1>2, <3>3, Zenon DEF OpenType
  <2>3. n.mmaps = o.mmaps - 1
    BY <2>1, <1>2, <1>4, Zenon DEF SetUser, OpenType, Moves
  <2>4. n.fds = o.fds
    BY <2>1, <1>2, <1>4, Zenon DEF SetUser, OpenType, Moves
  <2>5. Moves(o, n, u, "mmap?", o.mmaps)
    BY <2>1, <1>2, <1>4, Zenon DEF SetUser, OpenType, Moves
  <2> QED
    BY <2>2, <2>3, <2>4, <2>5, Zenon
<1>6. Mmaps(n)
  BY <1>1, <1>2, <1>5, LimitTake DEF Mmaps
<1>7. Fds(n)
  BY <1>1, <1>2, <1>5, LimitOther DEF Fds
<1> QED
  BY <1>4, <1>5, <1>6, <1>7, Zenon DEF OpenInv, Mmaps, Fds

\* The map is kept, or its turn comes back: the open failed, or there was none left.
LEMMA KeepMmapAcquired ==
    ASSUME OpenInv, NEW u \in PeUsers, MmapAcquired(u)
    PROVE  OpenInv'
<1>1. PICK o \in OpenType : /\ o = peOpen /\ Mmaps(o) /\ Fds(o) /\ o.user[u].pc = "mmap?"
                            /\ \/ o.user[u].old > 0 /\ peOpen' = SetUser(o, u, "mmap", 0)
                               \/ \E pc \in {"none", "fd"} : peOpen' = SetUser([o EXCEPT !.mmaps = o.mmaps + 1], u, pc, 0)
  BY Zenon DEF OpenInv, MmapAcquired, Mmaps, Fds
<1>2. o.mmaps \in Int /\ o.fds \in Int /\ o.mmaps + 1 \in Int /\ PeMmaps \in Nat /\ PeFds \in Nat
  BY PeAssumption DEF OpenType
<1>3. PICK n : n = peOpen'
  OBVIOUS
<1>4. n \in OpenType /\ Mmaps(n) /\ Fds(n)
  <2>1. CASE o.user[u].old > 0 /\ n = SetUser(o, u, "mmap", 0)
    <3>1. n \in OpenType /\ n.mmaps = o.mmaps /\ n.fds = o.fds /\ Moves(o, n, u, "mmap", 0)
      <4>1. "mmap" \in States /\ 0 \in Int
        BY DEF States
      <4> QED
        BY <4>1, <1>2, <2>1, Zenon DEF SetUser, OpenType, Moves
    <3>2. Mmaps(n)
      BY <1>1, <1>2, <2>1, <3>1, LimitGrant, Zenon DEF Mmaps
    <3>3. Fds(n)
      BY <1>1, <1>2, <3>1, LimitOther DEF Fds
    <3> QED
      BY <3>1, <3>2, <3>3, Zenon
  <2>2. ASSUME NEW pc \in {"none", "fd"}, n = SetUser([o EXCEPT !.mmaps = o.mmaps + 1], u, pc, 0)
        PROVE  n \in OpenType /\ Mmaps(n) /\ Fds(n)
    <3>2. n \in OpenType /\ n.mmaps = o.mmaps + 1 /\ n.fds = o.fds /\ Moves(o, n, u, pc, 0)
      <4>1. pc \in States /\ 0 \in Int
        BY DEF States
      <4> QED
        BY <4>1, <1>2, <2>2, Zenon DEF SetUser, OpenType, Moves
    <3>3. Mmaps(n)
      BY <1>1, <1>2, <3>2, LimitFree DEF Mmaps
    <3>4. Fds(n)
      BY <1>1, <1>2, <3>2, LimitOther, Zenon DEF Fds
    <3> QED
      BY <3>2, <3>3, <3>4, Zenon
  <2> QED
    BY <1>1, <1>3, <2>1, <2>2, Zenon
<1> QED
  BY <1>3, <1>4, Zenon DEF OpenInv, Mmaps, Fds

\* It asks the limiter of the files kept open.
LEMMA KeepFdAcquire ==
    ASSUME OpenInv, NEW u \in PeUsers, FdAcquire(u)
    PROVE  OpenInv'
<1>1. PICK o \in OpenType : /\ o = peOpen /\ Mmaps(o) /\ Fds(o) /\ o.user[u].pc = "fd"
                            /\ peOpen' = SetUser([o EXCEPT !.fds = o.fds - 1], u, "fd?", o.fds)
  BY Zenon DEF OpenInv, FdAcquire, Mmaps, Fds
<1>2. o.mmaps \in Int /\ o.fds \in Int /\ o.fds - 1 \in Int /\ PeMmaps \in Nat /\ PeFds \in Nat
  BY PeAssumption DEF OpenType
<1>4. PICK n : n = SetUser([o EXCEPT !.fds = o.fds - 1], u, "fd?", o.fds) /\ n = peOpen'
  BY <1>1, Zenon
<1>5. n \in OpenType /\ n.fds = o.fds - 1 /\ n.mmaps = o.mmaps /\ Moves(o, n, u, "fd?", o.fds)
  <2>1. "fd?" \in States /\ o.fds \in Int
    BY <1>2, Zenon DEF States
  <2>2. n \in OpenType
    <3>1. [o.user EXCEPT ![u] = [pc |-> "fd?", old |-> o.fds]] \in [PeUsers -> [pc : States, old : Int]]
      BY <2>1, Zenon DEF OpenType
    <3>2. PICK w \in [PeUsers -> [pc : States, old : Int]] : w = [o.user EXCEPT ![u] = [pc |-> "fd?", old |-> o.fds]]
      BY <3>1, Zenon
    <3>3. n = [mmaps |-> o.mmaps, fds |-> o.fds - 1, user |-> w]
      BY <2>1, <1>2, <1>4, <3>2, Zenon DEF SetUser, OpenType
    <3> QED
      BY <1>2, <3>3, Zenon DEF OpenType
  <2>3. n.fds = o.fds - 1
    BY <2>1, <1>2, <1>4, Zenon DEF SetUser, OpenType, Moves
  <2>4. n.mmaps = o.mmaps
    BY <2>1, <1>2, <1>4, Zenon DEF SetUser, OpenType, Moves
  <2>5. Moves(o, n, u, "fd?", o.fds)
    BY <2>1, <1>2, <1>4, Zenon DEF SetUser, OpenType, Moves
  <2> QED
    BY <2>2, <2>3, <2>4, <2>5, Zenon
<1>6. Fds(n)
  BY <1>1, <1>2, <1>5, LimitTake DEF Fds
<1>7. Mmaps(n)
  BY <1>1, <1>2, <1>5, LimitOther DEF Mmaps
<1> QED
  BY <1>4, <1>5, <1>6, <1>7, Zenon DEF OpenInv, Mmaps, Fds

\* The file is kept open, or its turn comes back.
LEMMA KeepFdAcquired ==
    ASSUME OpenInv, NEW u \in PeUsers, FdAcquired(u)
    PROVE  OpenInv'
<1>1. PICK o \in OpenType : /\ o = peOpen /\ Mmaps(o) /\ Fds(o) /\ o.user[u].pc = "fd?"
                            /\ \/ o.user[u].old > 0 /\ peOpen' = SetUser(o, u, "kept", 0)
                               \/ peOpen' = SetUser([o EXCEPT !.fds = o.fds + 1], u, "each", 0)
  BY Zenon DEF OpenInv, FdAcquired, Mmaps, Fds
<1>2. o.mmaps \in Int /\ o.fds \in Int /\ o.fds + 1 \in Int /\ PeMmaps \in Nat /\ PeFds \in Nat
  BY PeAssumption DEF OpenType
<1>3. PICK n : n = peOpen'
  OBVIOUS
<1>4. n \in OpenType /\ Mmaps(n) /\ Fds(n)
  <2>1. CASE o.user[u].old > 0 /\ n = SetUser(o, u, "kept", 0)
    <3>1. n \in OpenType /\ n.mmaps = o.mmaps /\ n.fds = o.fds /\ Moves(o, n, u, "kept", 0)
      <4>1. "kept" \in States /\ 0 \in Int
        BY DEF States
      <4> QED
        BY <4>1, <1>2, <2>1, Zenon DEF SetUser, OpenType, Moves
    <3>2. Fds(n)
      BY <1>1, <1>2, <2>1, <3>1, LimitGrant, Zenon DEF Fds
    <3>3. Mmaps(n)
      BY <1>1, <1>2, <3>1, LimitOther DEF Mmaps
    <3> QED
      BY <3>1, <3>2, <3>3, Zenon
  <2>2. CASE n = SetUser([o EXCEPT !.fds = o.fds + 1], u, "each", 0)
    <3>2. n \in OpenType /\ n.fds = o.fds + 1 /\ n.mmaps = o.mmaps /\ Moves(o, n, u, "each", 0)
      <4>1. "each" \in States /\ 0 \in Int
        BY DEF States
      <4> QED
        BY <4>1, <1>2, <2>2, Zenon DEF SetUser, OpenType, Moves
    <3>3. Fds(n)
      BY <1>1, <1>2, <3>2, LimitFree DEF Fds
    <3>4. Mmaps(n)
      BY <1>1, <1>2, <3>2, LimitOther DEF Mmaps
    <3> QED
      BY <3>2, <3>3, <3>4, Zenon
  <2> QED
    BY <1>1, <1>3, <2>1, <2>2, Zenon
<1> QED
  BY <1>3, <1>4 DEF OpenInv, Mmaps, Fds

\* The table is closed: the destructor releases what it held.
LEMMA KeepCloseTable ==
    ASSUME OpenInv, NEW u \in PeUsers, CloseTable(u)
    PROVE  OpenInv'
<1>1. PICK o \in OpenType : /\ o = peOpen /\ Mmaps(o) /\ Fds(o) /\ o.user[u].pc \in {"mmap", "kept", "each"}
                            /\ peOpen' = SetUser([o EXCEPT !.mmaps = o.mmaps + (IF o.user[u].pc = "mmap" THEN 1 ELSE 0),
                                                           !.fds = o.fds + (IF o.user[u].pc = "kept" THEN 1 ELSE 0)],
                                                 u, "none", 0)
  BY Zenon DEF OpenInv, CloseTable, Mmaps, Fds
<1>2. o.mmaps \in Int /\ o.fds \in Int /\ PeMmaps \in Nat /\ PeFds \in Nat
  BY PeAssumption, Zenon DEF OpenType
<1>3. PICK m \in Int, d \in Int : /\ m = o.mmaps + (IF o.user[u].pc = "mmap" THEN 1 ELSE 0)
                                  /\ d = o.fds + (IF o.user[u].pc = "kept" THEN 1 ELSE 0)
  BY <1>2
<1>5. PICK n : n = SetUser([o EXCEPT !.mmaps = m, !.fds = d], u, "none", 0) /\ n = peOpen'
  BY <1>1, <1>3, Zenon
<1>6. n \in OpenType /\ n.mmaps = m /\ n.fds = d /\ Moves(o, n, u, "none", 0)
  <2>1. "none" \in States /\ 0 \in Int
    BY DEF States
  <2>2. n \in OpenType
    <3>1. [o.user EXCEPT ![u] = [pc |-> "none", old |-> 0]] \in [PeUsers -> [pc : States, old : Int]]
      BY <2>1, Zenon DEF OpenType
    <3>2. PICK w \in [PeUsers -> [pc : States, old : Int]] : w = [o.user EXCEPT ![u] = [pc |-> "none", old |-> 0]]
      BY <3>1, Zenon
    <3>3. n = [mmaps |-> m, fds |-> d, user |-> w]
      BY <2>1, <1>5, <3>2, Zenon DEF SetUser, OpenType
    <3> QED
      BY <1>2, <3>3, Zenon DEF OpenType
  <2>3. n.mmaps = m
    BY <2>1, <1>5, Zenon DEF SetUser, OpenType, Moves
  <2>4. n.fds = d
    BY <2>1, <1>5, Zenon DEF SetUser, OpenType, Moves
  <2>5. Moves(o, n, u, "none", 0)
    BY <2>1, <1>5, Zenon DEF SetUser, OpenType, Moves
  <2> QED
    BY <2>2, <2>3, <2>4, <2>5, Zenon
<1>7. Mmaps(n)
  <2>1. CASE o.user[u].pc = "mmap"
    BY <1>1, <1>2, <1>3, <1>6, <2>1, LimitFree DEF Mmaps
  <2>2. CASE o.user[u].pc # "mmap"
    <3>1. m = o.mmaps /\ o.user[u].pc \notin {"mmap", "mmap?"}
      BY <1>1, <1>2, <1>3, <2>2
    <3> QED
      BY <1>1, <1>2, <1>6, <3>1, LimitOther, Zenon DEF Mmaps
  <2> QED
    BY <2>1, <2>2, Zenon
<1>8. Fds(n)
  <2>1. CASE o.user[u].pc = "kept"
    BY <1>1, <1>2, <1>3, <1>6, <2>1, LimitFree DEF Fds
  <2>2. CASE o.user[u].pc # "kept"
    <3>1. d = o.fds /\ o.user[u].pc \notin {"kept", "fd?"}
      BY <1>1, <1>2, <1>3, <2>2
    <3> QED
      BY <1>1, <1>2, <1>6, <3>1, LimitOther, Zenon DEF Fds
  <2> QED
    BY <2>1, <2>2, Zenon
<1> QED
  BY <1>5, <1>6, <1>7, <1>8, Zenon DEF OpenInv, Mmaps, Fds

-----------------------------------------------------------------------------
\* The environment starts with nothing appended, scheduled or open.
LEMMA PeInitIInv ==
    ASSUME PeInit
    PROVE  PeIInv
<1>1. FileInv
  <2>1. PICK m \in BOOLEAN :
           peFile = [buf |-> <<>>, os |-> <<>>, disk |-> <<>>, total |-> 0, failed |-> FALSE,
                     manifest |-> m, dirsync |-> FALSE, synced |-> 0]
    BY Zenon DEF PeInit
  <2>2. peFile \in PeFileType
    BY <2>1 DEF PeFileType
  <2> QED
    BY <2>1, <2>2, PeAssumption DEF FileInv, Holds, Whole, Follows
<1>2. WorkInv
  <2>1. peWork \in WorkType
    BY DEF PeInit, WorkType
  <2>2. WorkOK(peWork, 0)
    BY <2>1 DEF PeInit, WorkOK, Follows
  <2> QED
    BY <2>2, Zenon DEF WorkInv
<1>3. OpenInv
  <2>1. peOpen \in OpenType
    BY PeAssumption DEF PeInit, OpenType, States
  <2>2. /\ Taken(peOpen, "mmap", "mmap?") = {} /\ Granted(peOpen, "mmap", "mmap?") = {}
        /\ Taken(peOpen, "kept", "fd?") = {} /\ Granted(peOpen, "kept", "fd?") = {}
    BY DEF PeInit, Taken, Granted
  <2>3. Cardinality({}) = 0 /\ PeMmaps \in Nat /\ PeFds \in Nat
    BY FS_EmptySet, PeAssumption, Zenon
  <2>4. peOpen.mmaps = PeMmaps /\ peOpen.fds = PeFds
    BY DEF PeInit
  <2> QED
    BY <2>1, <2>2, <2>3, <2>4 DEF OpenInv, Limited
<1> QED
  BY <1>1, <1>2, <1>3, Zenon DEF PeIInv

\* Each part's steps keep its invariant and leave the other two alone.
LEMMA PeNextIInv ==
    ASSUME PeIInv, [PeFileStep \/ PeWorkStep \/ PeOpenStep]_peVars
    PROVE  PeIInv'
<1>1. FileInv /\ WorkInv /\ OpenInv
  BY DEF PeIInv
<1>2. ASSUME UNCHANGED peFile PROVE FileInv'
  BY <1>1, <1>2, Zenon DEF FileInv
<1>3. ASSUME UNCHANGED peWork PROVE WorkInv'
  BY <1>1, <1>3, Zenon DEF WorkInv
<1>4. ASSUME UNCHANGED peOpen PROVE OpenInv'
  BY <1>1, <1>4, Zenon DEF OpenInv
<1>5. CASE PeFileStep
  <2>1. UNCHANGED <<peWork, peOpen>>
    BY <1>5, Zenon DEF PeFileStep, PeAppend, PeFlush, PeSync, PeCrash
  <2>2. FileInv'
    BY <1>1, <1>5, KeepAppend, KeepFlush, KeepSync, KeepCrash, Zenon DEF PeFileStep
  <2> QED
    BY <1>3, <1>4, <2>1, <2>2, Zenon DEF PeIInv
<1>6. CASE PeWorkStep
  <2>1. UNCHANGED <<peFile, peOpen>>
    BY <1>6, Zenon DEF PeWorkStep, PeSchedule, BackgroundTake, BackgroundRun
  <2>2. WorkInv'
    BY <1>1, <1>6, KeepSchedule, KeepTake, KeepRun, Zenon DEF PeWorkStep
  <2> QED
    BY <1>2, <1>4, <2>1, <2>2, Zenon DEF PeIInv
<1>7. CASE PeOpenStep
  <2>1. UNCHANGED <<peFile, peWork>>
    BY <1>7, Zenon DEF PeOpenStep, PeOpenTable, MmapAcquired, FdAcquire, FdAcquired, CloseTable
  <2>2. OpenInv'
    BY <1>1, <1>7, KeepOpenTable, KeepMmapAcquired, KeepFdAcquire, KeepFdAcquired, KeepCloseTable, Zenon DEF PeOpenStep
  <2> QED
    BY <1>2, <1>3, <2>1, <2>2, Zenon DEF PeIInv
<1>8. CASE UNCHANGED peVars
  BY <1>2, <1>3, <1>4, <1>8, Zenon DEF PeIInv, peVars
<1> QED
  BY <1>5, <1>6, <1>7, <1>8, Zenon

\* Who has taken one has it or is about to learn whether it may keep it.
LEMMA HowMany ==
    ASSUME NEW held, NEW asked, held # asked, NEW left \in Int, NEW limit \in Nat,
           Limited(peOpen, left, limit, held, asked)
    PROVE  left = limit - How(held) - How(asked) /\ How(held) <= limit
<1> DEFINE H == {u \in PeUsers : peOpen.user[u].pc = held}
           A == {u \in PeUsers : peOpen.user[u].pc = asked}
<1>1. H \cup A = Taken(peOpen, held, asked) /\ H \cap A = {} /\ H \subseteq Granted(peOpen, held, asked)
  BY Zenon DEF Taken, Granted
<1>2. IsFiniteSet(H) /\ IsFiniteSet(A)
  BY PeAssumption, FS_Subset, Zenon
<1>3. How(held) = Cardinality(H) /\ How(asked) = Cardinality(A)
  BY DEF How
<1> HIDE DEF H, A
<1>4. PICK h \in Nat, a \in Nat : h = Cardinality(H) /\ a = Cardinality(A)
  BY <1>2, FS_CardinalityType, Zenon
<1>5. Cardinality(H \cup A) = h + a
  <2>1. Cardinality(H \cap A) = 0
    BY <1>1, FS_EmptySet, Zenon
  <2>2. Cardinality(H \cup A) = Cardinality(H) + Cardinality(A) - Cardinality(H \cap A)
    BY <1>2, FS_Union, Zenon
  <2> QED
    BY <1>4, <2>1, <2>2
<1>6. PICK g \in Nat : g = Cardinality(Granted(peOpen, held, asked)) /\ g <= limit
  BY TakenFacts, Zenon DEF Limited
<1>7. h <= g
  BY <1>1, <1>4, <1>6, TakenFacts, FS_Subset, Zenon
<1>8. left = limit - (h + a)
  BY <1>1, <1>5, Zenon DEF Limited
<1> QED
  BY <1>3, <1>4, <1>6, <1>7, <1>8

\* The invariant says what the environment promises.
LEMMA PeIInvImplies ==
    ASSUME PeIInv
    PROVE  EnvKeepsWord
<1>1. PICK f \in PeFileType : f = peFile /\ Holds(f) /\ (~f.failed => Whole(f))
  BY DEF PeIInv, FileInv, Holds
<1>2. f.os \in Seq(Nat) /\ f.buf \in Seq(Nat) /\ f.synced \in Nat /\ f.total \in Nat /\ Len(f.os) \in Nat /\ Len(f.buf) \in Nat
  BY LenProperties DEF PeFileType
<1>3. ASSUME ~f.failed PROVE f.os \o f.buf = Units(0, f.total)
  <2>1. Follows(0, f.os) /\ Follows(Len(f.os), f.buf) /\ Len(f.os) + Len(f.buf) = f.total
    BY <1>1, <1>3, Zenon DEF Holds, Whole
  <2>2. 0 + Len(f.os) = Len(f.os)
    BY <1>2
  <2>3. f.os \o f.buf \in Seq(Nat) /\ Len(f.os \o f.buf) = f.total /\ Follows(0, f.os \o f.buf)
    BY <1>2, <2>1, <2>2, FollowsCat, ZenonT(40)
  <2> QED
    BY <2>3, FollowsIs, Zenon
<1>4. f.synced <= Len(f.os) /\ \A i \in 1..f.synced : f.os[i] = i
  <2>1. f.synced <= Len(f.os) /\ Follows(0, f.os)
    BY <1>1 DEF Holds
  <2>2. ASSUME NEW i \in 1..f.synced PROVE f.os[i] = i
    <3>1. i \in 1..Len(f.os) /\ 0 + i = i
      BY <1>2, <2>1
    <3> QED
      BY <2>1, <3>1 DEF Follows
  <2> QED
    BY <2>1, <2>2
<1>5. f.synced > 0 /\ f.manifest => f.dirsync
  BY <1>1 DEF Holds
<1>6. peWork.ran = Units(0, Len(peWork.ran)) /\ (peWork.bg \in {"off", "wait"} => peWork.queue = <<>>)
  <2>1. PICK done \in Nat : WorkOK(peWork, done)
    BY DEF PeIInv, WorkInv
  <2>2. peWork.ran \in Seq(Nat) /\ Follows(0, peWork.ran)
    BY <2>1, Zenon DEF WorkOK, WorkType
  <2> QED
    BY <2>1, <2>2, FollowsIs, Zenon DEF WorkOK
<1>7. /\ peOpen.mmaps \in Int /\ Limited(peOpen, peOpen.mmaps, PeMmaps, "mmap", "mmap?")
      /\ peOpen.fds \in Int /\ Limited(peOpen, peOpen.fds, PeFds, "kept", "fd?")
      /\ PeMmaps \in Nat /\ PeFds \in Nat
  BY PeAssumption, Zenon DEF PeIInv, OpenInv, OpenType
<1>8. peOpen.mmaps = PeMmaps - How("mmap") - How("mmap?") /\ How("mmap") <= PeMmaps
  BY <1>7, HowMany, Zenon
<1>9. peOpen.fds = PeFds - How("kept") - How("fd?") /\ How("kept") <= PeFds
  BY <1>7, HowMany, Zenon
<1> QED
  BY <1>1, <1>3, <1>4, <1>5, <1>6, <1>8, <1>9, ZenonT(40) DEF EnvKeepsWord

(* Files, background work and limiters keep the environment's word, whatever the sizes of the  *)
(* buffer and of the appends, the limits and the number of threads: what a sync that succeeded  *)
(* covered stays in the file, work runs once and in order, and no limit is exceeded            *)
(* (env_posix.cc Append, Flush, Sync, Schedule, BackgroundThreadMain, Limiter).             *)
THEOREM EnvironmentKeepsWord == PeSpec => []EnvKeepsWord
<1>1. PeInit => PeIInv
  BY PeInitIInv, Zenon
<1>2. PeIInv /\ [PeFileStep \/ PeWorkStep \/ PeOpenStep]_peVars => PeIInv'
  BY PeNextIInv, Zenon
<1>3. PeIInv => EnvKeepsWord
  BY PeIInvImplies
<1> QED
  BY <1>1, <1>2, <1>3, PTL DEF PeSpec
=============================================================================
