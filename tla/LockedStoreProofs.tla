-------------------------- MODULE LockedStoreProofs -------------------------
(***************************************************************************)
(* The lock CWalleveRWAccess, and CTSDB, the store whose flush thread upgrades  *)
(* one while it moves entries from its map to the file: both are correct for    *)
(* every set of threads, times, keys, values and readers.                      *)
(***************************************************************************)
EXTENDS RWAccess, CTSDB, FiniteSetTheorems, TLAPS

-----------------------------------------------------------------------------
(* RWAccess, for every finite set of threads.  The inductive invariant LockInv    *)
(* adds to the type invariant and to CountersAgree (the counters count threads)   *)
(* that the exclusive modes exclude each other and, for each condition variable,   *)
(* why a thread blocked on it is not forgotten.                                 *)

LockReaders == At({"reading"})
LockWriters == At({"writing", "waitWrite", "wokenWrite"})
Exclusives == At({"writing", "upgradable", "waitUpgrade", "wokenUpgrade", "upgraded"})
Upgraders == At({"waitUpgrade", "wokenUpgrade", "upgraded"})

AtMostOne(S) == \A t, u \in S : t = u

\* A thread that may write found no reader inside.
WriterAlone == At({"writing", "upgraded"}) # {} => nRead = 0

\* Why each waiting thread is still to be woken.
WakeReader ==
    At({"waitRead"}) # {} => nWrite # 0 \/ fUpgraded \/ At({"notifyRead"}) # {}
WakeUpgradeLock ==
    At({"waitUpgradeLock"}) # {}
        => fExclusive \/ nWrite # 0 \/ At({"notifyRead"}) # {}
WakeWriter ==
    At({"waitWrite"}) # {}
        => nRead # 0 \/ fExclusive \/ At({"notifyWrite", "wokenWrite"}) # {}
WakeUpgrade ==
    At({"waitUpgrade"}) # {} => nRead # 0 \/ At({"notifyUpgrade"}) # {}

LockInv ==
    /\ RWTypeOK
    /\ CountersAgree
    /\ AtMostOne(Exclusives)
    /\ WriterAlone
    /\ WakeReader
    /\ WakeUpgradeLock
    /\ WakeWriter
    /\ WakeUpgrade

-----------------------------------------------------------------------------
\* Threads is finite, so every At(S) is, and Cardinality counts it.
LEMMA AtFinite ==
    ASSUME NEW S
    PROVE  IsFiniteSet(At(S)) /\ Cardinality(At(S)) \in Nat
<1>1. At(S) \subseteq Threads
  BY DEF At
<1>2. IsFiniteSet(At(S))
  BY <1>1, ThreadsFinite, FS_Subset
<1> QED
  BY <1>2, FS_CardinalityType

\* Adding a new thread to a finite set of threads counts one more.
LEMMA CardAdd ==
    ASSUME NEW S, IsFiniteSet(S), NEW x, x \notin S
    PROVE  Cardinality(S \cup {x}) = Cardinality(S) + 1
BY FS_AddElement

\* Removing a thread from a finite set of threads counts one less.
LEMMA CardRemove ==
    ASSUME NEW S, IsFiniteSet(S), NEW x, x \in S
    PROVE  Cardinality(S \ {x}) = Cardinality(S) - 1
BY FS_RemoveElement

\* A finite set of threads is empty exactly when it counts zero.
LEMMA CardZero ==
    ASSUME NEW S, IsFiniteSet(S)
    PROVE  Cardinality(S) = 0 <=> S = {}
BY FS_EmptySet

-----------------------------------------------------------------------------
\* Initially every thread is idle and all the counters are zero.
LEMMA InitLockInv == RWInit => LockInv
<1> SUFFICES ASSUME RWInit PROVE LockInv
  OBVIOUS
<1>1. \A S : "idle" \notin S => At(S) = {}
  BY DEF RWInit, At
<1>2. /\ LockReaders = {} /\ LockWriters = {} /\ Exclusives = {} /\ Upgraders = {}
      /\ At({"writing", "upgraded"}) = {} /\ At({"waitRead"}) = {}
      /\ At({"waitUpgradeLock"}) = {} /\ At({"waitWrite"}) = {}
      /\ At({"waitUpgrade"}) = {}
  BY <1>1 DEF LockReaders, LockWriters, Exclusives, Upgraders
<1>3. Cardinality({}) = 0
  BY FS_EmptySet
<1>4. RWTypeOK
  BY Zenon DEF RWInit, RWTypeOK, States
<1>5. CountersAgree
  BY <1>2, <1>3 DEF RWInit, CountersAgree, LockReaders, LockWriters, Exclusives, Upgraders
<1> QED
  BY <1>2, <1>4, <1>5 DEF RWInit, LockInv, AtMostOne, WriterAlone, WakeReader,
     WakeUpgradeLock, WakeWriter, WakeUpgrade

-----------------------------------------------------------------------------
\* What a step that moves one thread does to the set of threads at S.
LEMMA MoveAt ==
    ASSUME RWTypeOK, NEW t \in Threads, NEW s, Goto(t, s), NEW S
    PROVE  At(S)' = IF s \in S THEN At(S) \cup {t} ELSE At(S) \ {t}
BY DEF RWTypeOK, Goto, At

\* A thread is in At(S) exactly when its pc is in S.
LEMMA InAt ==
    ASSUME NEW t \in Threads, NEW S
    PROVE  t \in At(S) <=> pc[t] \in S
BY DEF At

\* The counters are zero exactly when there is nobody to count.
LEMMA CountsZero ==
    ASSUME LockInv
    PROVE  (nRead = 0 <=> LockReaders = {}) /\ (nWrite = 0 <=> LockWriters = {})
BY AtFinite, CardZero DEF LockInv, CountersAgree, LockReaders, LockWriters

\* ReadLock and ReadTryLock, when they let the reader in.
LEMMA EnterRead ==
    ASSUME LockInv, NEW t \in Threads, pc[t] \in {"idle", "wokenRead"},
           ~ReadBlocked, Goto(t, "reading"), nRead' = nRead + 1,
           UNCHANGED <<nWrite, fExclusive, fUpgraded>>
    PROVE  LockInv'
<1>1. RWTypeOK /\ CountersAgree
  BY DEF LockInv
<1>2. RWTypeOK'
  BY <1>1 DEF RWTypeOK, Goto, States, Holding
<1>3. \A S : At(S)' = IF "reading" \in S THEN At(S) \cup {t} ELSE At(S) \ {t}
  BY <1>1, MoveAt
<1>4. \A S : "idle" \notin S /\ "wokenRead" \notin S => t \notin At(S)
  BY InAt
<1>5. /\ LockReaders' = LockReaders \cup {t}
      /\ t \notin LockReaders
      /\ LockWriters' = LockWriters
      /\ Exclusives' = Exclusives
      /\ Upgraders' = Upgraders
      /\ At({"writing", "upgraded"})' = At({"writing", "upgraded"})
      /\ At({"waitRead"})' = At({"waitRead"})
      /\ At({"waitUpgradeLock"})' = At({"waitUpgradeLock"})
      /\ At({"waitWrite"})' = At({"waitWrite"})
      /\ At({"waitUpgrade"})' = At({"waitUpgrade"})
      /\ At({"notifyRead"})' = At({"notifyRead"})
      /\ At({"notifyWrite", "wokenWrite"})' = At({"notifyWrite", "wokenWrite"})
      /\ At({"notifyUpgrade"})' = At({"notifyUpgrade"})
  BY <1>3, <1>4, Zenon DEF LockReaders, LockWriters, Exclusives, Upgraders
<1>6. CountersAgree'
  BY <1>1, <1>5, CardAdd, AtFinite DEF CountersAgree, LockReaders, LockWriters, Exclusives, Upgraders
<1>7. LockWriters = {} /\ Upgraders = {}
  BY <1>1, CountsZero DEF CountersAgree, ReadBlocked, Upgraders
<1>8. At({"writing", "upgraded"}) = {}
  BY <1>7 DEF LockWriters, Upgraders, At
<1> QED
  BY <1>1, <1>2, <1>5, <1>6, <1>8 DEF LockInv, RWTypeOK, AtMostOne, WriterAlone, WakeReader,
     WakeUpgradeLock, WakeWriter, WakeUpgrade
\* ReadUnlock: the last reader passes on to the upgrader or to a writer.
LEMMA KeepReadUnlock ==
    ASSUME LockInv, NEW t \in Threads, ReadUnlock(t)
    PROVE  LockInv'
<1>1. RWTypeOK /\ CountersAgree
  BY DEF LockInv
<1>2. t \in LockReaders
  BY InAt DEF ReadUnlock, LockReaders
<1>3. nRead # 0
  BY <1>2, CountsZero
<1>4. RWTypeOK'
  BY <1>1, <1>3 DEF RWTypeOK, ReadUnlock, Goto, States, Notifying
<1>5. /\ LockReaders' = LockReaders \ {t}
      /\ LockWriters' = LockWriters
      /\ Exclusives' = Exclusives
      /\ Upgraders' = Upgraders
  BY <1>1 DEF RWTypeOK, ReadUnlock, Goto, At, LockReaders, LockWriters, Exclusives, Upgraders
<1>6. CountersAgree'
  BY <1>1, <1>2, <1>5, CardRemove, AtFinite
     DEF ReadUnlock, CountersAgree, LockReaders, LockWriters, Exclusives, Upgraders
<1>7. nWrite = 0 => LockWriters = {}
  BY CountsZero
<1>8. WriterAlone' /\ WakeReader' /\ WakeUpgradeLock'
  BY <1>1, <1>3, <1>4 DEF LockInv, RWTypeOK, ReadUnlock, Goto, At, WriterAlone, WakeReader, WakeUpgradeLock
<1>9. WakeWriter'
  BY <1>1, <1>4, <1>7 DEF LockInv, RWTypeOK, ReadUnlock, Goto, At, WakeWriter, LockWriters
<1>10. WakeUpgrade'
  BY <1>1, <1>4, Zenon DEF LockInv, RWTypeOK, CountersAgree, ReadUnlock, Goto, At, WakeUpgrade
<1> QED
  BY <1>4, <1>5, <1>6, <1>8, <1>9, <1>10 DEF LockInv, AtMostOne
\* ReadLock, when the reader has to wait.
LEMMA KeepReadWait ==
    ASSUME LockInv, NEW t \in Threads, pc[t] \in {"idle", "wokenRead"}, ReadBlocked,
           Goto(t, "waitRead"), UNCHANGED counters
    PROVE  LockInv'
<1>1. RWTypeOK /\ CountersAgree
  BY DEF LockInv
<1>2. RWTypeOK'
  BY <1>1 DEF RWTypeOK, Goto, States, Waiting, counters
<1>3. /\ LockReaders' = LockReaders
      /\ LockWriters' = LockWriters
      /\ Exclusives' = Exclusives
      /\ Upgraders' = Upgraders
  BY <1>1 DEF RWTypeOK, Goto, At, LockReaders, LockWriters, Exclusives, Upgraders
<1>4. CountersAgree'
  BY <1>1, <1>3 DEF counters, CountersAgree, LockReaders, LockWriters, Exclusives, Upgraders
<1>5. WriterAlone' /\ WakeUpgradeLock' /\ WakeWriter' /\ WakeUpgrade'
  BY <1>1 DEF LockInv, RWTypeOK, Goto, counters, At, WriterAlone, WakeUpgradeLock, WakeWriter, WakeUpgrade
<1>6. WakeReader'
  BY DEF ReadBlocked, WakeReader, counters
<1> QED
  BY <1>2, <1>3, <1>4, <1>5, <1>6 DEF LockInv, AtMostOne

\* WriteLock, whether the writer queues up or is let in.
LEMMA KeepWriteLock ==
    ASSUME LockInv, NEW t \in Threads, WriteLock(t)
    PROVE  LockInv'
<1>1. RWTypeOK /\ CountersAgree
  BY DEF LockInv
<1>2. RWTypeOK'
  <2>1. nRead' \in Nat /\ nWrite' \in Nat
    BY <1>1 DEF RWTypeOK, WriteLock
  <2>2. pc' \in [Threads -> States]
    BY <1>1 DEF RWTypeOK, WriteLock, Goto, States, Waiting, Holding
  <2>3. fExclusive' \in BOOLEAN /\ fUpgraded' \in BOOLEAN
    BY <1>1, Zenon DEF RWTypeOK, WriteLock
  <2> QED
    BY <2>1, <2>2, <2>3 DEF RWTypeOK
<1>3. /\ LockReaders' = LockReaders
      /\ Upgraders' = Upgraders
      /\ pc[t] = "idle" => t \notin LockWriters /\ LockWriters' = LockWriters \cup {t}
      /\ pc[t] # "idle" => LockWriters' = LockWriters
      /\ ~fExclusive => Exclusives = {}
      /\ Exclusives' = IF nRead = 0 /\ ~fExclusive THEN {t} ELSE Exclusives
  BY <1>1, Zenon DEF RWTypeOK, CountersAgree, WriteLock, Goto, At, LockReaders, LockWriters, Exclusives, Upgraders
<1>4. nWrite' = Cardinality(LockWriters')
  <2>1. CASE pc[t] = "idle"
    BY <1>1, <1>3, <2>1, AtFinite, CardAdd DEF CountersAgree, WriteLock, LockWriters
  <2>2. CASE pc[t] # "idle"
    BY <1>1, <1>3, <2>2 DEF CountersAgree, WriteLock, LockWriters
  <2> QED
    BY <2>1, <2>2
<1>5. CountersAgree'
  BY <1>1, <1>3, <1>4 DEF WriteLock, CountersAgree, LockReaders, LockWriters, Exclusives, Upgraders
<1>6. nWrite' # 0
  BY <1>1, <1>3, CountsZero DEF WriteLock, RWTypeOK, LockWriters, At
<1>7. WriterAlone' /\ WakeReader' /\ WakeUpgradeLock'
  BY <1>1, <1>6 DEF LockInv, RWTypeOK, WriteLock, Goto, At, WriterAlone, WakeReader, WakeUpgradeLock
<1>8. WakeWriter'
  BY <1>1 DEF LockInv, RWTypeOK, WriteLock, Goto, At, WakeWriter
<1>9. WakeUpgrade'
  BY <1>1 DEF LockInv, RWTypeOK, WriteLock, Goto, At, WakeUpgrade
<1> QED
  BY <1>2, <1>3, <1>5, <1>7, <1>8, <1>9 DEF LockInv, AtMostOne

\* WriteUnlock: the next writer is notified, or all the readers.
LEMMA KeepWriteUnlock ==
    ASSUME LockInv, NEW t \in Threads, WriteUnlock(t)
    PROVE  LockInv'
<1>1. RWTypeOK /\ CountersAgree /\ AtMostOne(Exclusives)
  BY DEF LockInv
<1>2. t \in LockWriters /\ t \in Exclusives
  BY InAt DEF WriteUnlock, LockWriters, Exclusives
<1>3. nWrite # 0
  BY <1>2, CountsZero
<1>4. RWTypeOK'
  <2>1. nRead' \in Nat /\ nWrite' \in Nat
    BY <1>1, <1>3 DEF RWTypeOK, WriteUnlock
  <2>2. pc' \in [Threads -> States]
    BY <1>1 DEF RWTypeOK, WriteUnlock, Goto, States, Notifying
  <2>3. fExclusive' \in BOOLEAN /\ fUpgraded' \in BOOLEAN
    BY <1>1, Zenon DEF RWTypeOK, WriteUnlock
  <2> QED
    BY <2>1, <2>2, <2>3 DEF RWTypeOK
<1>5. /\ LockReaders' = LockReaders
      /\ LockWriters' = LockWriters \ {t}
      /\ Exclusives' = Exclusives \ {t}
      /\ Upgraders' = Upgraders
  BY <1>1 DEF RWTypeOK, WriteUnlock, Goto, At, LockReaders, LockWriters, Exclusives, Upgraders
<1>6. Exclusives' = {}
  BY <1>1, <1>2, <1>5 DEF AtMostOne
<1>7. nWrite' = Cardinality(LockWriters')
  BY <1>1, <1>2, <1>5, CardRemove, AtFinite DEF WriteUnlock, CountersAgree, LockWriters
<1>8. CountersAgree'
  BY <1>1, <1>5, <1>6, <1>7
     DEF WriteUnlock, CountersAgree, LockReaders, LockWriters, Exclusives, Upgraders
<1>9. nWrite' = 0 => LockWriters' = {}
  BY <1>5, <1>7, AtFinite, CardZero, FS_RemoveElement, Zenon DEF LockWriters
<1>10. WriterAlone' /\ WakeUpgrade'
  BY <1>1, <1>6 DEF LockInv, RWTypeOK, WriteUnlock, Goto, At, WriterAlone, WakeUpgrade, Exclusives
<1>11. WakeReader' /\ WakeUpgradeLock'
  BY <1>1 DEF RWTypeOK, WriteUnlock, Goto, At, WakeReader, WakeUpgradeLock
<1>12. WakeWriter'
  BY <1>1, <1>9 DEF RWTypeOK, WriteUnlock, Goto, At, WakeWriter, LockWriters
<1> QED
  BY <1>4, <1>6, <1>8, <1>10, <1>11, <1>12 DEF LockInv, AtMostOne
\* UpgradeLock, whether the thread waits or becomes the upgradable one.
LEMMA KeepUpgradeLock ==
    ASSUME LockInv, NEW t \in Threads, UpgradeLock(t)
    PROVE  LockInv'
<1>1. RWTypeOK /\ CountersAgree
  BY DEF LockInv
<1>2. RWTypeOK'
  <2>1. pc' \in [Threads -> States]
    BY <1>1 DEF RWTypeOK, UpgradeLock, Goto, States, Waiting, Holding
  <2>2. fExclusive' \in BOOLEAN /\ fUpgraded' \in BOOLEAN
    BY <1>1, Zenon DEF RWTypeOK, UpgradeLock
  <2> QED
    BY <1>1, <2>1, <2>2 DEF RWTypeOK, UpgradeLock
<1>3. /\ LockReaders' = LockReaders
      /\ LockWriters' = LockWriters
      /\ Upgraders' = Upgraders
      /\ ~fExclusive => Exclusives = {}
      /\ Exclusives' = IF fExclusive THEN Exclusives ELSE {t}
  BY <1>1 DEF RWTypeOK, CountersAgree, UpgradeLock, Goto, At, LockReaders, LockWriters, Exclusives, Upgraders
<1>4. Exclusives' # {}
  BY <1>1, <1>3 DEF CountersAgree, Exclusives
<1>5. CountersAgree'
  BY <1>1, <1>3, <1>4 DEF UpgradeLock, CountersAgree, LockReaders, LockWriters, Exclusives, Upgraders
<1>6. WriterAlone' /\ WakeReader' /\ WakeUpgrade'
  BY <1>1 DEF LockInv, RWTypeOK, UpgradeLock, Goto, At, WriterAlone, WakeReader, WakeUpgrade
<1>7. WakeUpgradeLock' /\ WakeWriter'
  BY DEF UpgradeLock, WakeUpgradeLock, WakeWriter
<1> QED
  BY <1>2, <1>3, <1>5, <1>6, <1>7 DEF LockInv, AtMostOne

\* UpgradeToWriteLock, whether readers are still inside or not.
LEMMA KeepUpgradeToWriteLock ==
    ASSUME LockInv, NEW t \in Threads, UpgradeToWriteLock(t)
    PROVE  LockInv'
<1>1. RWTypeOK /\ CountersAgree
  BY DEF LockInv
<1>2. RWTypeOK'
  <2>1. pc' \in [Threads -> States]
    BY <1>1 DEF RWTypeOK, UpgradeToWriteLock, Goto, States, Waiting, Holding
  <2>2. fExclusive' \in BOOLEAN /\ fUpgraded' \in BOOLEAN
    BY <1>1, Zenon DEF RWTypeOK, UpgradeToWriteLock
  <2> QED
    BY <1>1, <2>1, <2>2 DEF RWTypeOK, UpgradeToWriteLock
<1>3. /\ LockReaders' = LockReaders
      /\ LockWriters' = LockWriters
      /\ Exclusives' = Exclusives
      /\ t \in Upgraders'
  BY <1>1 DEF RWTypeOK, UpgradeToWriteLock, Goto, At, LockReaders, LockWriters, Exclusives, Upgraders
<1>4. CountersAgree'
  BY <1>1, <1>3 DEF UpgradeToWriteLock, CountersAgree, LockReaders, LockWriters, Exclusives, Upgraders
<1>5. WriterAlone' /\ WakeUpgradeLock' /\ WakeWriter'
  BY <1>1 DEF LockInv, RWTypeOK, UpgradeToWriteLock, Goto, At, WriterAlone, WakeUpgradeLock, WakeWriter
<1>6. WakeReader'
  BY DEF UpgradeToWriteLock, WakeReader
<1>7. WakeUpgrade'
  BY <1>1 DEF LockInv, RWTypeOK, UpgradeToWriteLock, Goto, At, WakeUpgrade
<1> QED
  BY <1>2, <1>3, <1>4, <1>5, <1>6, <1>7 DEF LockInv, AtMostOne

\* UpgradeUnlock: a writer is notified if it can go on, else all the readers.
LEMMA KeepUpgradeUnlock ==
    ASSUME LockInv, NEW t \in Threads, UpgradeUnlock(t)
    PROVE  LockInv'
<1>1. RWTypeOK /\ CountersAgree /\ AtMostOne(Exclusives)
  BY DEF LockInv
<1>2. RWTypeOK'
  <2>1. pc' \in [Threads -> States]
    BY <1>1 DEF RWTypeOK, UpgradeUnlock, Goto, States, Notifying
  <2>2. fExclusive' \in BOOLEAN /\ fUpgraded' \in BOOLEAN
    BY <1>1, Zenon DEF RWTypeOK, UpgradeUnlock
  <2> QED
    BY <1>1, <2>1, <2>2 DEF RWTypeOK, UpgradeUnlock
<1>3. /\ LockReaders' = LockReaders
      /\ LockWriters' = LockWriters
      /\ t \in Exclusives
      /\ Exclusives' = Exclusives \ {t}
      /\ Upgraders' \subseteq Exclusives'
  BY <1>1 DEF RWTypeOK, UpgradeUnlock, Goto, At, LockReaders, LockWriters, Exclusives, Upgraders
<1>4. Exclusives' = {} /\ Upgraders' = {}
  BY <1>1, <1>3 DEF AtMostOne
<1>5. CountersAgree'
  BY <1>1, <1>3, <1>4 DEF UpgradeUnlock, CountersAgree, LockReaders, LockWriters, Exclusives, Upgraders
<1>6. WriterAlone' /\ WakeUpgrade'
  BY <1>4 DEF At, WriterAlone, WakeUpgrade, Exclusives
<1>7. WakeReader' /\ WakeUpgradeLock'
  BY <1>1 DEF RWTypeOK, UpgradeUnlock, Goto, At, WakeReader, WakeUpgradeLock
<1>8. nWrite = 0 => LockWriters = {}
  BY CountsZero
<1>9. At({"upgraded"}) # {} => nRead = 0
  BY DEF LockInv, WriterAlone, At
<1>10. WakeWriter'
  BY <1>1, <1>3, <1>8, <1>9 DEF RWTypeOK, UpgradeUnlock, Goto, At, WakeWriter, LockWriters
<1> QED
  BY <1>2, <1>4, <1>5, <1>6, <1>7, <1>10 DEF LockInv, AtMostOne
\* notify_all on condRead leaves nobody blocked there.
LEMMA KeepNotifyRead ==
    ASSUME LockInv, NEW t \in Threads, pc[t] = "notifyRead", NotifyAllReaders(t),
           UNCHANGED counters
    PROVE  LockInv'
<1>1. RWTypeOK /\ CountersAgree
  BY DEF LockInv
<1>2. RWTypeOK'
  BY <1>1 DEF RWTypeOK, NotifyAllReaders, counters, States, Woken
<1>3. /\ LockReaders' = LockReaders
      /\ LockWriters' = LockWriters
      /\ Exclusives' = Exclusives
      /\ Upgraders' = Upgraders
  BY <1>1 DEF RWTypeOK, NotifyAllReaders, At, LockReaders, LockWriters, Exclusives, Upgraders
<1>4. CountersAgree'
  BY <1>1, <1>3 DEF counters, CountersAgree, LockReaders, LockWriters, Exclusives, Upgraders
<1>5. WakeReader' /\ WakeUpgradeLock'
  BY <1>1 DEF RWTypeOK, NotifyAllReaders, At, WakeReader, WakeUpgradeLock
<1>6. WriterAlone' /\ WakeWriter' /\ WakeUpgrade'
  BY <1>1 DEF LockInv, RWTypeOK, counters, NotifyAllReaders, At, WriterAlone, WakeWriter, WakeUpgrade
<1> QED
  BY <1>2, <1>3, <1>4, <1>5, <1>6 DEF LockInv, AtMostOne

\* notify_one on condWrite: the reason to wake passes to the woken writer.
LEMMA KeepNotifyWrite ==
    ASSUME LockInv, NEW t \in Threads, pc[t] = "notifyWrite",
           NotifyOne(t, "waitWrite", "wokenWrite"), UNCHANGED counters
    PROVE  LockInv'
<1>1. RWTypeOK /\ CountersAgree
  BY DEF LockInv
<1>2. RWTypeOK'
  BY <1>1 DEF RWTypeOK, NotifyOne, Goto, counters, States, Woken, At
<1>3. /\ LockReaders' = LockReaders
      /\ LockWriters' = LockWriters
      /\ Exclusives' = Exclusives
      /\ Upgraders' = Upgraders
  BY <1>1 DEF RWTypeOK, NotifyOne, Goto, At, LockReaders, LockWriters, Exclusives, Upgraders
<1>4. CountersAgree'
  BY <1>1, <1>3 DEF counters, CountersAgree, LockReaders, LockWriters, Exclusives, Upgraders
<1>5. WakeWriter'
  BY <1>1 DEF RWTypeOK, NotifyOne, Goto, At, WakeWriter
<1>6. WriterAlone' /\ WakeReader' /\ WakeUpgradeLock' /\ WakeUpgrade'
  BY <1>1 DEF LockInv, RWTypeOK, counters, NotifyOne, Goto, At, WriterAlone, WakeReader,
     WakeUpgradeLock, WakeUpgrade
<1> QED
  BY <1>2, <1>3, <1>4, <1>5, <1>6 DEF LockInv, AtMostOne

\* notify_one on condUpgrade: only one thread can be blocked there.
LEMMA KeepNotifyUpgrade ==
    ASSUME LockInv, NEW t \in Threads, pc[t] = "notifyUpgrade",
           NotifyOne(t, "waitUpgrade", "wokenUpgrade"), UNCHANGED counters
    PROVE  LockInv'
<1>1. RWTypeOK /\ CountersAgree /\ AtMostOne(Exclusives)
  BY DEF LockInv
<1>2. RWTypeOK'
  BY <1>1 DEF RWTypeOK, NotifyOne, Goto, counters, States, Woken, At
<1>3. /\ LockReaders' = LockReaders
      /\ LockWriters' = LockWriters
      /\ Exclusives' = Exclusives
      /\ Upgraders' = Upgraders
  BY <1>1 DEF RWTypeOK, NotifyOne, Goto, At, LockReaders, LockWriters, Exclusives, Upgraders
<1>4. CountersAgree'
  BY <1>1, <1>3 DEF counters, CountersAgree, LockReaders, LockWriters, Exclusives, Upgraders
<1>5. WakeUpgrade'
  BY <1>1 DEF RWTypeOK, NotifyOne, Goto, At, AtMostOne, Exclusives, WakeUpgrade
<1>6. WriterAlone' /\ WakeReader' /\ WakeUpgradeLock' /\ WakeWriter'
  BY <1>1 DEF LockInv, RWTypeOK, counters, NotifyOne, Goto, At, WriterAlone, WakeReader,
     WakeUpgradeLock, WakeWriter
<1> QED
  BY <1>2, <1>3, <1>4, <1>5, <1>6 DEF LockInv, AtMostOne

-----------------------------------------------------------------------------
\* LockInv is inductive: no step of any thread breaks it.
LEMMA NextLockInv == LockInv /\ [RWNext]_rwVars => LockInv'
<1> SUFFICES ASSUME LockInv, [RWNext]_rwVars PROVE LockInv'
  OBVIOUS
<1>1. CASE UNCHANGED rwVars
  BY <1>1 DEF rwVars, LockInv, RWTypeOK, CountersAgree, AtMostOne, Exclusives, WriterAlone,
     WakeReader, WakeUpgradeLock, WakeWriter, WakeUpgrade, At
<1>2. CASE RWNext
  <2> PICK t \in Threads : Step(t)
    BY <1>2 DEF RWNext
  <2>1. CASE ReadLock(t)
    BY <2>1, EnterRead, KeepReadWait DEF ReadLock, counters
  <2>2. CASE ReadTryLock(t)
    BY <2>2, EnterRead DEF ReadTryLock
  <2>3. CASE ReadUnlock(t)
    BY <2>3, KeepReadUnlock
  <2>4. CASE WriteLock(t)
    BY <2>4, KeepWriteLock
  <2>5. CASE WriteUnlock(t)
    BY <2>5, KeepWriteUnlock
  <2>6. CASE UpgradeLock(t)
    BY <2>6, KeepUpgradeLock
  <2>7. CASE UpgradeToWriteLock(t)
    BY <2>7, KeepUpgradeToWriteLock
  <2>8. CASE UpgradeUnlock(t)
    BY <2>8, KeepUpgradeUnlock
  <2>9. CASE Notify(t)
    BY <2>9, KeepNotifyRead, KeepNotifyWrite, KeepNotifyUpgrade DEF Notify
  <2> QED
    BY <2>1, <2>2, <2>3, <2>4, <2>5, <2>6, <2>7, <2>8, <2>9 DEF Step
<1> QED
  BY <1>1, <1>2

\* The strengthened invariant holds in every reachable state.
THEOREM AlwaysLockInv == RWSpec => []LockInv
BY InitLockInv, NextLockInv, PTL DEF RWSpec

-----------------------------------------------------------------------------
\* The counters of CWalleveRWAccess count what they are meant to count, with
\* any number of threads and in any interleaving.
THEOREM CountersCorrect == RWSpec => [](RWTypeOK /\ CountersAgree)
<1>1. LockInv => RWTypeOK /\ CountersAgree
  BY DEF LockInv
<1> QED
  BY <1>1, AlwaysLockInv, PTL

\* LockInv excludes a second holder beside a writer, and a second upgradable one.
LEMMA IInvExcludes == LockInv => MutualExclusion
<1> SUFFICES ASSUME LockInv PROVE MutualExclusion
  OBVIOUS
<1>1. \A t, u \in Exclusives : t = u
  BY DEF LockInv, AtMostOne
<1>2. At({"writing", "upgraded"}) # {} => LockReaders = {}
  BY CountsZero DEF LockInv, WriterAlone
<1>3. At({"writing", "upgraded"}) \subseteq Exclusives
  BY DEF At, Exclusives
<1>4. At(Holding) \subseteq LockReaders \cup Exclusives
  BY DEF At, Holding, LockReaders, Exclusives
<1>5. At({"writing", "upgraded"}) \subseteq At(Holding)
  BY DEF At, Holding
<1>6. \A t \in At({"writing", "upgraded"}) : At(Holding) = {t}
  BY <1>1, <1>2, <1>3, <1>4, <1>5
<1> QED
  BY <1>1, <1>6 DEF MutualExclusion, Exclusives

\* CWalleveRWAccess is a lock: a thread that may write is alone inside, and at
\* most one thread is upgradable.
THEOREM Exclusion == RWSpec => []MutualExclusion
BY AlwaysLockInv, IInvExcludes, PTL

\* LockInv traces every blocked thread back to one that is awake.
LEMMA IInvAwake == LockInv => NoLostWakeup
<1> SUFFICES ASSUME LockInv, \A t \in Threads : pc[t] \in {"idle"} \cup Waiting
             PROVE  \A t \in Threads : pc[t] = "idle"
  BY DEF NoLostWakeup
<1>2. /\ At({"notifyRead"}) = {}
      /\ At({"notifyUpgrade"}) = {}
      /\ At({"notifyWrite", "wokenWrite"}) = {}
      /\ LockReaders = {}
  BY DEF At, Waiting, LockReaders
<1>3. nRead = 0
  BY <1>2, CountsZero
<1>4. At({"waitUpgrade"}) = {}
  BY <1>2, <1>3 DEF LockInv, WakeUpgrade
<1>5. Exclusives = {} /\ Upgraders = {}
  BY <1>4 DEF Exclusives, Upgraders, At, Waiting
<1>6. ~fExclusive /\ ~fUpgraded
  BY <1>5 DEF LockInv, CountersAgree, Exclusives, Upgraders
<1>7. At({"waitWrite"}) = {}
  BY <1>2, <1>3, <1>6 DEF LockInv, WakeWriter
<1>8. LockWriters = {}
  BY <1>7 DEF LockWriters, At, Waiting
<1>9. nWrite = 0
  BY <1>8, CountsZero
<1>10. At({"waitRead"}) = {} /\ At({"waitUpgradeLock"}) = {}
  BY <1>2, <1>6, <1>9 DEF LockInv, WakeReader, WakeUpgradeLock
<1> QED
  BY <1>4, <1>7, <1>10 DEF At, Waiting

\* No unlock of CWalleveRWAccess loses a wake-up: the threads that use a lock
\* are never all blocked in it.
THEOREM WakeupsKept == RWSpec => []NoLostWakeup
BY AlwaysLockInv, IInvAwake, PTL
-----------------------------------------------------------------------------
modes == [t \in Threads |-> Mode(pc[t])]

\* A step that moves one thread changes at most that thread's mode.
LEMMA MoveMode ==
    ASSUME RWTypeOK, NEW t \in Threads, NEW s, Goto(t, s)
    PROVE  modes' = [modes EXCEPT ![t] = Mode(s)]
BY Zenon DEF RWTypeOK, Goto, modes

\* A thread that holds nothing and goes on holding nothing changes no mode.
LEMMA MoveNone ==
    ASSUME RWTypeOK, NEW t \in Threads, NEW s, Goto(t, s),
           Mode(pc[t]) = "none", Mode(s) = "none"
    PROVE  modes' = modes
<1>1. modes' = [modes EXCEPT ![t] = "none"]
  BY MoveMode
<1>2. modes[t] = "none"
  BY DEF modes
<1> QED
  BY <1>1, <1>2, Zenon DEF modes

\* Every step of the lock is a step of SharedLock or changes no mode.
LEMMA StepRefines ==
    ASSUME LockInv, NEW t \in Threads, Step(t)
    PROVE  Lock!Next \/ modes' = modes
<1>1. RWTypeOK /\ CountersAgree /\ MutualExclusion
  BY IInvExcludes DEF LockInv
<1>2. \A u \in Threads : modes[u] = Mode(pc[u])
  BY DEF modes
<1>3. (nRead = 0 <=> LockReaders = {}) /\ (nWrite = 0 <=> LockWriters = {})
  BY CountsZero
<1>a. ASSUME ~ReadBlocked, pc[t] \in {"idle", "wokenRead"}, Goto(t, "reading")
      PROVE  Lock!AcquireShared(t)
  <2>1. LockWriters = {} /\ Upgraders = {}
    BY <1>1, <1>3, <1>a DEF ReadBlocked, CountersAgree, Upgraders
  <2>2. \A u \in Threads : modes[u] \in {"none", "shared", "upgradable"}
    BY <1>2, <2>1 DEF Mode, LockWriters, Upgraders, At
  <2>3. modes' = [modes EXCEPT ![t] = "shared"]
    BY <1>1, <1>a, MoveMode DEF Mode
  <2> QED
    BY <1>2, <1>a, <2>2, <2>3 DEF Lock!AcquireShared, Lock!Others, modes, Mode
<1>4. CASE ReadLock(t)
  <2>1. CASE ReadBlocked /\ Goto(t, "waitRead")
    BY <1>1, <1>4, <2>1, MoveNone DEF ReadLock, Mode
  <2>2. CASE ~ReadBlocked /\ Goto(t, "reading")
    BY <1>4, <1>a, <2>2 DEF ReadLock, Lock!Next
  <2> QED
    BY <1>4, <2>1, <2>2 DEF ReadLock
<1>5. CASE ReadTryLock(t)
  BY <1>5, <1>a DEF ReadTryLock, Lock!Next
<1>6. CASE ReadUnlock(t)
  <2>1. modes' = [modes EXCEPT ![t] = "none"]
    BY <1>1, <1>6, MoveMode DEF ReadUnlock, Mode
  <2> QED
    BY <1>2, <1>6, <2>1, Zenon DEF ReadUnlock, Mode, Lock!Next, Lock!Release, modes
<1>7. CASE WriteLock(t)
  <2>1. CASE Goto(t, "waitWrite")
    BY <1>1, <1>7, <2>1, MoveNone DEF WriteLock, Mode
  <2>2. CASE nRead = 0 /\ ~fExclusive /\ Goto(t, "writing")
    <3>1. LockReaders = {} /\ Exclusives = {}
      BY <1>1, <1>3, <2>2 DEF CountersAgree, Exclusives
    <3>2. \A u \in Threads : modes[u] = "none"
      BY <1>2, <3>1 DEF Mode, LockReaders, Exclusives, At
    <3>3. modes' = [modes EXCEPT ![t] = "exclusive"]
      BY <1>1, <2>2, MoveMode DEF Mode
    <3> QED
      BY <3>2, <3>3, Zenon DEF Lock!Next, Lock!AcquireExclusive, Lock!Others, modes
  <2> QED
    BY <1>7, <2>1, <2>2 DEF WriteLock
<1>8. CASE WriteUnlock(t)
  <2>1. modes' = [modes EXCEPT ![t] = "none"]
    BY <1>1, <1>8, MoveMode DEF WriteUnlock, Mode
  <2> QED
    BY <1>2, <1>8, <2>1, Zenon DEF WriteUnlock, Mode, Lock!Next, Lock!Release, modes
<1>9. CASE UpgradeLock(t)
  <2>1. CASE fExclusive
    BY <1>1, <1>9, <2>1, MoveNone DEF UpgradeLock, Mode
  <2>2. CASE ~fExclusive
    <3>1. Exclusives = {}
      BY <1>1, <2>2 DEF CountersAgree, Exclusives
    <3>2. \A u \in Threads : modes[u] \in {"none", "shared"}
      BY <1>2, <3>1 DEF Mode, Exclusives, At
    <3>3. modes' = [modes EXCEPT ![t] = "upgradable"]
      BY <1>1, <1>9, <2>2, MoveMode DEF UpgradeLock, Mode
    <3>4. modes[t] = "none"
      BY <1>2, <1>9 DEF UpgradeLock, Mode
    <3> QED
      BY <3>2, <3>3, <3>4, Zenon DEF Lock!Next, Lock!AcquireUpgradable, Lock!Others, modes
  <2> QED
    BY <2>1, <2>2
<1>10. CASE UpgradeToWriteLock(t)
  <2>1. modes[t] = "upgradable" /\ t \in Exclusives
    BY <1>2, <1>10 DEF UpgradeToWriteLock, Mode, Exclusives, At
  <2>2. CASE nRead # 0
    <3>1. modes' = [modes EXCEPT ![t] = "upgradable"]
      BY <1>1, <1>10, <2>2, MoveMode DEF UpgradeToWriteLock, Mode
    <3> QED
      BY <2>1, <3>1, Zenon DEF modes
  <2>3. CASE nRead = 0
    <3>1. \A u \in Threads \ {t} : modes[u] = "none"
      BY <1>1, <1>2, <1>3, <2>1, <2>3 DEF MutualExclusion, Mode, LockReaders, Exclusives, At
    <3>2. modes' = [modes EXCEPT ![t] = "exclusive"]
      BY <1>1, <1>10, <2>3, MoveMode DEF UpgradeToWriteLock, Mode
    <3> QED
      BY <2>1, <3>1, <3>2, Zenon DEF Lock!Next, Lock!AcquireExclusive, Lock!Others, modes
  <2> QED
    BY <1>1, <2>2, <2>3 DEF RWTypeOK
<1>11. CASE UpgradeUnlock(t)
  <2>1. modes' = [modes EXCEPT ![t] = "none"]
    BY <1>1, <1>11, MoveMode DEF UpgradeUnlock, Mode
  <2> QED
    BY <1>2, <1>11, <2>1, Zenon DEF UpgradeUnlock, Mode, Lock!Next, Lock!Release, modes
<1>12. CASE Notify(t)
  <2>1. \A u \in Threads : Mode(pc[u])' = Mode(pc[u])
    BY <1>1, <1>12 DEF RWTypeOK, Notify, NotifyAllReaders, NotifyOne, Goto, At, Mode
  <2> QED
    BY <2>1 DEF modes
<1> QED
  BY <1>4, <1>5, <1>6, <1>7, <1>8, <1>9, <1>10, <1>11, <1>12 DEF Step

\* The lock built from a mutex and three condition variables implements the
\* abstract lock: its users may reason with SharedLock.
THEOREM RefinesSharedLock == RWSpec => ImplementsSharedLock
<1>1. RWInit => Lock!Init
  BY DEF RWInit, Lock!Init, Mode
<1>2. LockInv /\ [RWNext]_rwVars => [Lock!Next]_modes
  <2>1. ASSUME LockInv, RWNext PROVE Lock!Next \/ modes' = modes
    BY <2>1, StepRefines DEF RWNext
  <2>2. ASSUME UNCHANGED rwVars PROVE modes' = modes
    BY <2>2 DEF rwVars, modes
  <2> QED
    BY <2>1, <2>2
<1> QED
  BY <1>1, <1>2, AlwaysLockInv, PTL DEF RWSpec, ImplementsSharedLock, Lock!Spec, modes

-----------------------------------------------------------------------------
(* CTSDB, for every set of times, keys, values and readers.  A chunk of the upper  *)
(* map was copied from below, so the argument needs that the copy is complete: it   *)
(* is taken from the chunk the content shows at that moment (CopyIsContent), unless  *)
(* rwLower is upgraded after the flip.  The invariant adds what Deinitialize has     *)
(* already emptied (StopInv) and what a Retrieve in progress can still return        *)
(* (ReaderInv).                                                                *)

\* The two flushes of Deinitialize empty the upper map, then the lower one.
StopInv ==
    /\ stop # "run" => \A r \in Readers : reader[r].pc = "idle"
    /\ ~failed /\ (stop = "second" \/ (stop = "first" /\ flush = "flipped"))
         => upper = NoChunks
    /\ ~failed /\ stop = "second" /\ flush = "flipped" => lower = NoChunks
    /\ stop = "done" => flush = "idle"

\* The values that the lookups still to come can find are among those seen.
ReaderInv ==
    \A r \in Readers :
        LET t == reader[r].time
            k == reader[r].key
        IN  /\ reader[r].pc # "idle" => Content[t][k] \in reader[r].seen
            /\ reader[r].pc = "lower" => flipped[t][k] \in reader[r].seen
            /\ reader[r].pc = "file" /\ ~reader[r].late
                 => flipped[t][k] \in reader[r].seen /\ OnDisk[t][k] \in reader[r].seen

IInv ==
    /\ TypeOK
    /\ IndexIsSnapshot
    /\ EntriesKept
    /\ StopInv
    /\ ReaderInv
    /\ RetrievesLinearizable

-----------------------------------------------------------------------------
USE DEF ReaderStates

\* The chunk without entries is a chunk.
LEMMA EmptyIsChunk == EmptyChunk \in Chunks /\ NONE \notin Chunks
BY NoneAssumption DEF EmptyChunk, Chunks

\* A map laid over a table gives a table.
LEMMA OverTable ==
    ASSUME NEW m \in Maps, NEW t \in Tables
    PROVE  Over(m, t) \in Tables
BY DEF Over, Maps, Tables

\* An empty map hides nothing.
LEMMA OverNone ==
    ASSUME NEW t \in Tables
    PROVE  Over(NoChunks, t) = t /\ NoChunks \in Maps
BY DEF Over, NoChunks, Maps, Tables

\* Putting a chunk into the upper map puts it into the content.
LEMMA OverPut ==
    ASSUME NEW m \in Maps, NEW t \in Tables, NEW n \in Times, NEW c \in Chunks
    PROVE  Over([m EXCEPT ![n] = c], t) = [Over(m, t) EXCEPT ![n] = c]
BY EmptyIsChunk, Zenon DEF Over, Maps, Tables

\* What the index refers to, and the content, are tables.
LEMMA TablesOK ==
    ASSUME TypeOK
    PROVE  OnDisk \in Tables /\ Over(lower, OnDisk) \in Tables /\ Content \in Tables
<1>1. OnDisk \in Tables
  BY EmptyIsChunk, Zenon DEF TypeOK, OnDisk, Tables
<1> QED
  BY <1>1, OverTable, Zenon DEF TypeOK, Content

\* dbIndex.Update leaves the lower map laid over what was on disk.
LEMMA IndexUpdateDisk ==
    ASSUME TypeOK, IndexUpdate
    PROVE  OnDisk' = Over(lower, OnDisk)
BY EmptyIsChunk, Zenon DEF TypeOK, IndexUpdate, OnDisk, Over, Maps

\* GetUpdateMap copies the chunk that the content shows, except in the moment that sets raced.
LEMMA CopyIsContent ==
    ASSUME TypeOK, IndexIsSnapshot, NEW t \in Times
    PROVE  /\ GetUpdateMap(t) \in Chunks
           /\ ~(upper[t] = NONE /\ lower[t] # NONE /\ flush = "flipped")
                => GetUpdateMap(t) = Content[t]
<1>1. OnDisk \in Tables /\ upper \in Maps /\ lower \in Maps
  BY TablesOK DEF TypeOK
<1>2. Content[t] = IF upper[t] = NONE THEN Over(lower, OnDisk)[t] ELSE upper[t]
  BY DEF Content, Over
<1>3. Over(lower, OnDisk)[t] = IF lower[t] = NONE THEN OnDisk[t] ELSE lower[t]
  BY DEF Over
<1>4. flush = "upgraded" => OnDisk[t] = Over(lower, OnDisk)[t]
  BY DEF IndexIsSnapshot
<1>5. GetUpdateMap(t) \in Chunks
  BY <1>1 DEF GetUpdateMap, Maps, Tables
<1> QED
  BY <1>2, <1>3, <1>4, <1>5, Zenon DEF GetUpdateMap, LowerUpgraded

-----------------------------------------------------------------------------
\* Initially everything is empty.
LEMMA InitIInv == Init => IInv
<1> SUFFICES ASSUME Init PROVE IInv
  OBVIOUS
<1>1. NoChunks \in Maps /\ index \in [Times -> (Chunks \ {EmptyChunk}) \cup {NONE}]
  BY DEF Init, NoChunks, Maps
<1>2. OnDisk \in Tables
  BY <1>1, EmptyIsChunk DEF OnDisk, Tables
<1>3. TypeOK
  BY <1>1, <1>2, Zenon DEF Init, TypeOK, IdleReader
<1>4. Over(lower, OnDisk) = OnDisk /\ Content = OnDisk
  BY <1>2, OverNone, Zenon DEF Init, Content
<1>5. IndexIsSnapshot /\ EntriesKept
  BY <1>4, Zenon DEF Init, IndexIsSnapshot, EntriesKept
<1>6. ReaderInv /\ RetrievesLinearizable /\ StopInv
  BY DEF Init, ReaderInv, RetrievesLinearizable, StopInv, IdleReader
<1> QED
  BY <1>3, <1>5, <1>6 DEF IInv

-----------------------------------------------------------------------------
\* Update and Erase change one entry of the content, of which every Retrieve takes note.
LEMMA KeepWrite ==
    ASSUME IInv, NEW t \in Times, NEW k \in Keys, NEW v \in Values \cup {NONE}, Write(t, k, v)
    PROVE  IInv'
<1> DEFINE copy == [GetUpdateMap(t) EXCEPT ![k] = v]
           after == [Content EXCEPT ![t] = copy]
<1>1. TypeOK /\ IndexIsSnapshot
  BY DEF IInv
<1>2. OnDisk \in Tables /\ Over(lower, OnDisk) \in Tables /\ Content \in Tables
  BY <1>1, TablesOK, Zenon
<1>3. copy \in Chunks
  BY <1>1, CopyIsContent, Zenon DEF Chunks
<1>4. OnDisk' = OnDisk /\ Over(lower, OnDisk)' = Over(lower, OnDisk)
  BY DEF Write, OnDisk, Over
<1>5. Content' = after /\ after \in Tables
  <2>1. Content' = Over([upper EXCEPT ![t] = copy], Over(lower, OnDisk))
    BY <1>4 DEF Write, Content, Over
  <2>2. upper \in Maps
    BY <1>1, Zenon DEF TypeOK
  <2>3. Over([upper EXCEPT ![t] = copy], Over(lower, OnDisk)) = after
    BY <1>2, <1>3, <2>2, OverPut DEF Content
  <2>4. after \in Tables
    BY <1>2, <1>3, Zenon DEF Tables
  <2> QED
    BY <2>1, <2>3, <2>4, Zenon
<1>6. raced' \in BOOLEAN /\ (~raced' => ~raced)
  <2>1. raced \in BOOLEAN
    BY <1>1, Zenon DEF TypeOK
  <2> QED
    BY <2>1, Zenon DEF Write
<1>7. /\ \A r \in Readers : /\ reader'[r].pc = reader[r].pc
                            /\ reader'[r].time = reader[r].time
                            /\ reader'[r].key = reader[r].key
                            /\ reader'[r].val = reader[r].val
                            /\ reader'[r].late = reader[r].late
                            /\ reader[r].seen \subseteq reader'[r].seen
                            /\ reader[r].pc # "idle" =>
                                  after[reader[r].time][reader[r].key] \in reader'[r].seen
      /\ reader' \in [Readers -> ReaderStates]
  <2>1. reader' = [r \in Readers |->
            IF reader[r].pc = "idle" THEN reader[r]
            ELSE [reader[r] EXCEPT !.seen = @ \cup {after[reader[r].time][reader[r].key]}]]
    BY Zenon DEF Write, Witness
  <2>2. \A r \in Readers : reader[r].pc # "idle" =>
            after[reader[r].time][reader[r].key] \in Values \cup {NONE}
    BY <1>1, <1>5, Zenon DEF TypeOK, Tables, Chunks
  <2> HIDE DEF after
  <2>3. reader \in [Readers -> ReaderStates]
    BY <1>1, Zenon DEF TypeOK
  <2> QED
    BY <2>1, <2>2, <2>3
<1>8. TypeOK'
  <2>1. upper' \in Maps
    BY <1>1, <1>3, Zenon DEF TypeOK, Write, Maps
  <2>2. truth' \in Tables
    BY <1>1, Zenon DEF TypeOK, Write, Tables, Chunks
  <2>3. UNCHANGED <<lower, index, flush, stop, crashes, failed, flipped, flippedBefore>>
    BY Zenon DEF Write, history
  <2> QED
    BY <1>1, <1>6, <1>7, <2>1, <2>2, <2>3, Zenon DEF TypeOK
<1>9. IndexIsSnapshot'
  BY <1>1, <1>4, Zenon DEF IndexIsSnapshot, Write, history
<1>10. EntriesKept'
  <2>1. ASSUME ~raced' PROVE Content' = truth'
    <3>1. GetUpdateMap(t) = Content[t]
      BY <1>1, <2>1, CopyIsContent, Zenon DEF Write
    <3>2. Content = truth
      BY <1>6, <2>1, Zenon DEF IInv, EntriesKept
    <3> QED
      BY <1>5, <3>1, <3>2, Zenon DEF Write
  <2>2. stop' # "done"
    BY Zenon DEF Write
  <2> QED
    BY <2>1, <2>2, Zenon DEF EntriesKept
<1>11. StopInv'
  BY <1>7 DEF StopInv, Write
<1>12. ReaderInv'
  <2>1. flipped' = flipped
    BY DEF Write, history
  <2> QED
    BY <1>4, <1>5, <1>7, <2>1, ZenonT(40) DEF IInv, ReaderInv
<1>13. RetrievesLinearizable'
  BY <1>7 DEF IInv, RetrievesLinearizable
<1> QED
  BY <1>8, <1>9, <1>10, <1>11, <1>12, <1>13, Zenon DEF IInv

\* Steps of Flush and Deinitialize that move no data.
LEMMA KeepFlushControl ==
    ASSUME IInv, FlushBegin \/ WriteBatch \/ FlushFail \/ FlushUpgrade \/ Deinitialize
    PROVE  IInv'
<1>1. TypeOK
  BY DEF IInv
<1>2. UNCHANGED <<store, reader, crashes, truth, raced, history>>
  BY DEF FlushBegin, WriteBatch, FlushFail, FlushUpgrade, Deinitialize, FlushFrame
<1>3. /\ OnDisk' = OnDisk /\ Over(lower, OnDisk)' = Over(lower, OnDisk)
      /\ Content' = Content
  BY <1>2 DEF store, OnDisk, Over, Content
<1>4. failed' \in BOOLEAN /\ (failed => failed')
  <2>1. failed \in BOOLEAN
    BY <1>1 DEF TypeOK
  <2>2. CASE FlushFail
    BY <2>1, <2>2, Zenon DEF FlushFail
  <2>3. CASE failed' = failed
    BY <2>1, <2>3, Zenon
  <2> QED
    BY <2>2, <2>3, Zenon DEF FlushBegin, WriteBatch, FlushUpgrade, Deinitialize
<1>5. /\ flush' \in {"idle", "locked", "written", "committed", "upgraded", "flipped"}
      /\ stop' \in {"run", "first", "second", "done"}
  BY <1>1, Zenon DEF TypeOK, FlushBegin, WriteBatch, FlushFail, FlushUpgrade, Deinitialize, AfterFlush
<1>6. TypeOK'
  BY <1>1, <1>2, <1>4, <1>5, Zenon DEF TypeOK, store, history
<1>7. IndexIsSnapshot'
  BY <1>2, <1>3, Zenon DEF IInv, IndexIsSnapshot, history, FlushBegin, WriteBatch, FlushFail,
     FlushUpgrade, Deinitialize
<1>8. StopInv'
  BY <1>1, <1>2, <1>4, Zenon DEF IInv, StopInv, TypeOK, store, FlushBegin, WriteBatch, FlushFail,
     FlushUpgrade, Deinitialize, AfterFlush
<1>9. EntriesKept'
  <2>1. ~failed' /\ stop' = "done" => stop = "done"
    BY <1>1, Zenon DEF TypeOK, FlushBegin, WriteBatch, FlushFail, FlushUpgrade, Deinitialize, AfterFlush
  <2> QED
    BY <1>2, <1>3, <1>4, <2>1, Zenon DEF IInv, EntriesKept
<1>10. ReaderInv' /\ RetrievesLinearizable'
  BY <1>2, <1>3, Zenon DEF IInv, ReaderInv, RetrievesLinearizable, history
<1> QED
  BY <1>6, <1>7, <1>8, <1>9, <1>10, Zenon DEF IInv

\* IndexUpdate makes the index refer to the chunks of the last flip: the content stays.
LEMMA KeepIndexUpdate ==
    ASSUME IInv, IndexUpdate
    PROVE  IInv'
<1>1. TypeOK /\ IndexIsSnapshot
  BY DEF IInv
<1>2. UNCHANGED <<upper, lower, reader, crashes, truth, raced, flipped, flippedBefore, stop, failed>>
  BY DEF IndexUpdate, FlushFrame, history
<1>3. OnDisk' = flipped
  BY <1>1, IndexUpdateDisk, Zenon DEF IndexIsSnapshot
<1>4. Over(lower, OnDisk)' = Over(lower, OnDisk)
  <2>1. Over(lower, OnDisk)' = Over(lower, Over(lower, OnDisk))
    BY <1>1, <1>2, IndexUpdateDisk, Zenon DEF Over
  <2> QED
    BY <2>1 DEF Over
<1>5. Content' = Content
  BY <1>2, <1>4, Zenon DEF Content, Over
<1>6. TypeOK'
  BY <1>1, <1>2, Zenon DEF TypeOK, IndexUpdate, Maps
<1>7. IndexIsSnapshot'
  BY <1>1, <1>2, <1>3, <1>4, Zenon DEF IndexIsSnapshot, IndexUpdate
<1>8. StopInv'
  BY <1>2 DEF IInv, StopInv, IndexUpdate
<1>9. EntriesKept'
  <2>1. stop # "done"
    BY Zenon DEF IInv, StopInv, IndexUpdate
  <2> QED
    BY <1>2, <1>5, <2>1, Zenon DEF IInv, EntriesKept
<1>10. ReaderInv' /\ RetrievesLinearizable'
  BY <1>2, <1>3, <1>5, Zenon DEF IInv, ReaderInv, RetrievesLinearizable
<1> QED
  BY <1>6, <1>7, <1>8, <1>9, <1>10, Zenon DEF IInv

\* Flip renames the maps once the index has the chunks of the lower one: the content stays.
LEMMA KeepFlip ==
    ASSUME IInv, Flip
    PROVE  IInv'
<1>1. TypeOK /\ IndexIsSnapshot
  BY DEF IInv
<1>2. Content \in Tables
  BY <1>1, TablesOK, Zenon
<1>3. OnDisk = flipped /\ Over(lower, OnDisk) = OnDisk /\ OnDisk' = OnDisk
  BY <1>1, Zenon DEF IndexIsSnapshot, Flip, OnDisk
<1>4. Over(lower, OnDisk)' = Content
  BY <1>3, Zenon DEF Flip, Content, Over
<1>5. Content' = Content
  <2>1. Content' = Over(NoChunks, Content)
    BY <1>4, Zenon DEF Flip, Content, Over, NoChunks
  <2> QED
    BY <1>2, <2>1, OverNone, Zenon
<1>6. TypeOK'
  BY <1>1, <1>2, OverNone, Zenon DEF TypeOK, Flip
<1>7. IndexIsSnapshot'
  BY <1>3, <1>4, Zenon DEF IndexIsSnapshot, Flip
<1>8. StopInv'
  <2>1. failed' = failed /\ stop' = stop /\ reader' = reader
    BY DEF Flip
  <2>2. upper' = NoChunks /\ lower' = upper /\ flush = "upgraded" /\ flush' = "flipped"
    BY DEF Flip
  <2> QED
    BY <2>1, <2>2, Zenon DEF IInv, StopInv, NoChunks
<1>9. EntriesKept'
  <2>1. stop # "done"
    BY Zenon DEF IInv, StopInv, Flip
  <2> QED
    BY <1>5, <2>1, Zenon DEF IInv, EntriesKept, Flip
<1>10. ReaderInv' /\ RetrievesLinearizable'
  BY <1>3, <1>5, Zenon DEF IInv, ReaderInv, RetrievesLinearizable, Flip
<1> QED
  BY <1>6, <1>7, <1>8, <1>9, <1>10 DEF IInv

\* FlushEnd ends one of the two flushes of Deinitialize.
LEMMA KeepFlushEnd ==
    ASSUME IInv, FlushEnd
    PROVE  IInv'
<1>1. TypeOK
  BY DEF IInv
<1>2. UNCHANGED <<store, reader, crashes, truth, raced, history, failed>>
  BY Zenon DEF FlushEnd, FlushFrame
<1>3. /\ OnDisk' = OnDisk /\ Over(lower, OnDisk)' = Over(lower, OnDisk)
      /\ Content' = Content
  BY <1>2, Zenon DEF store, OnDisk, Over, Content
<1>4. TypeOK'
  BY <1>1, <1>2, Zenon DEF TypeOK, store, history, FlushEnd, AfterFlush
<1>5. IndexIsSnapshot'
  BY <1>2, <1>3, Zenon DEF IInv, IndexIsSnapshot, history, FlushEnd
<1>6. StopInv'
  BY <1>1, <1>2 DEF IInv, StopInv, TypeOK, store, FlushEnd, AfterFlush
<1>7. EntriesKept'
  <2>1. ASSUME ~failed, stop' = "done"
        PROVE  Content = OnDisk
    <3>1. stop = "second" \/ stop = "done"
      BY <1>1, <2>1, Zenon DEF FlushEnd, AfterFlush, TypeOK
    <3>2. upper = NoChunks /\ lower = NoChunks
      BY <2>1, <3>1, ZenonT(40) DEF IInv, StopInv, FlushEnd
    <3> QED
      BY <1>1, <3>2, OverNone, TablesOK, Zenon DEF Content
  <2> QED
    BY <1>2, <1>3, <2>1, Zenon DEF IInv, EntriesKept
<1>8. ReaderInv' /\ RetrievesLinearizable'
  BY <1>2, <1>3 DEF IInv, ReaderInv, RetrievesLinearizable, history
<1> QED
  BY <1>4, <1>5, <1>6, <1>7, <1>8 DEF IInv

\* A step of a Retrieve that leaves its reader in a good state is good.
LEMMA KeepReader ==
    ASSUME IInv, ReadFrame,
           NEW r \in Readers, NEW rec \in ReaderStates, SetReader(r, rec),
           rec.pc # "idle" => /\ stop = "run"
                              /\ rec.time \in Times /\ rec.key \in Keys
                              /\ Content[rec.time][rec.key] \in rec.seen,
           rec.pc = "lower" => flipped[rec.time][rec.key] \in rec.seen,
           rec.pc = "file" /\ ~rec.late => /\ flipped[rec.time][rec.key] \in rec.seen
                                           /\ OnDisk[rec.time][rec.key] \in rec.seen,
           rec.pc = "done" /\ ~rec.late => rec.val \in rec.seen
    PROVE  IInv'
<1>1. TypeOK
  BY DEF IInv
<1>2. UNCHANGED <<upper, lower, index, flush, stop, crashes, failed, truth, raced,
                  flipped, flippedBefore>>
  BY DEF ReadFrame, store, history
<1>3. /\ OnDisk' = OnDisk /\ Over(lower, OnDisk)' = Over(lower, OnDisk)
      /\ Content' = Content
  BY <1>2, Zenon DEF OnDisk, Over, Content
<1>4. /\ reader'[r] = rec
      /\ \A q \in Readers : q # r => reader'[q] = reader[q]
  BY <1>1, Zenon DEF SetReader, TypeOK
<1>5. TypeOK'
  BY <1>1, <1>2, ZenonT(40) DEF TypeOK, SetReader
<1>6. IndexIsSnapshot' /\ EntriesKept'
  BY <1>2, <1>3, Zenon DEF IInv, IndexIsSnapshot, EntriesKept
<1>7. StopInv'
  BY <1>2, <1>4 DEF IInv, StopInv
<1>8. ReaderInv'
  <2>1. flipped' = flipped
    BY <1>2, Zenon
  <2>2. ASSUME NEW q \in Readers
        PROVE  LET t == reader'[q].time
                   k == reader'[q].key
               IN  /\ reader'[q].pc # "idle" => Content[t][k] \in reader'[q].seen
                   /\ reader'[q].pc = "lower" => flipped[t][k] \in reader'[q].seen
                   /\ reader'[q].pc = "file" /\ ~reader'[q].late
                        => flipped[t][k] \in reader'[q].seen /\ OnDisk[t][k] \in reader'[q].seen
    <3>1. CASE q = r
      BY <1>4, <3>1, Zenon
    <3>2. CASE q # r
      <4>1. reader'[q] = reader[q]
        BY <1>4, <3>2, Zenon
      <4> QED
        BY <4>1, Zenon DEF IInv, ReaderInv
    <3> QED
      BY <3>1, <3>2, Zenon
  <2> QED
    BY <1>3, <2>1, <2>2, Zenon DEF ReaderInv
<1>9. RetrievesLinearizable'
  BY <1>4, Zenon DEF IInv, RetrievesLinearizable
<1> QED
  BY <1>5, <1>6, <1>7, <1>8, <1>9, Zenon DEF IInv

\* The lookups of Retrieve.
LEMMA KeepRetrieve ==
    ASSUME IInv, NEW r \in Readers,
           \/ \E t \in Times, k \in Keys : RetrieveUpper(r, t, k)
           \/ RetrieveLower(r) \/ RetrieveFile(r) \/ RetrieveReturn(r)
    PROVE  IInv'
<1>1. TypeOK /\ IndexIsSnapshot
  BY Zenon DEF IInv
<1>2. OnDisk \in Tables /\ Content \in Tables /\ upper \in Maps /\ lower \in Maps
      /\ Over(lower, OnDisk) = flipped /\ flipped \in Tables
  BY <1>1, TablesOK, Zenon DEF TypeOK, IndexIsSnapshot
<1>3. reader[r] \in ReaderStates
      /\ (reader[r].pc # "idle" => reader[r].time \in Times /\ reader[r].key \in Keys /\ stop = "run")
  BY <1>1, Zenon DEF TypeOK, IInv, StopInv
<1>4. /\ \A t \in Times : flipped[t] = IF lower[t] = NONE THEN OnDisk[t] ELSE lower[t]
      /\ \A t \in Times : Content[t] = IF upper[t] = NONE THEN flipped[t] ELSE upper[t]
  BY <1>2 DEF Content, Over
<1>5. \A c \in Chunks, k \in Keys : c[k] \in Values \cup {NONE}
  BY DEF Chunks
<1>6. ASSUME NEW t \in Times, NEW k \in Keys, RetrieveUpper(r, t, k) PROVE IInv'
  <2> DEFINE rec == [pc   |-> IF upper[t] = NONE THEN "lower" ELSE "done",
                     time |-> t,
                     key  |-> k,
                     val  |-> IF upper[t] = NONE THEN NONE ELSE upper[t][k],
                     seen |-> {Content[t][k]},
                     late |-> FALSE]
  <2>1. SetReader(r, rec) /\ ReadFrame /\ stop = "run"
    BY <1>6, Zenon DEF RetrieveUpper
  <2>2. Content[t][k] \in Values \cup {NONE} /\ (upper[t] # NONE => upper[t][k] \in Values \cup {NONE})
    BY <1>2, <1>5, Zenon DEF Tables, Maps
  <2>3. rec \in ReaderStates
    BY <2>2, ZenonT(40)
  <2>4. rec.pc = "lower" => flipped[rec.time][rec.key] \in rec.seen
    BY <1>4
  <2>5. rec.pc = "done" => rec.val \in rec.seen
    BY <1>4, ZenonT(40)
  <2>6. rec.pc # "file" /\ rec.time \in Times /\ rec.key \in Keys /\ Content[rec.time][rec.key] \in rec.seen
    OBVIOUS
  <2> HIDE DEF rec
  <2> QED
    BY <2>1, <2>3, <2>4, <2>5, <2>6, KeepReader, Zenon
<1>7. ASSUME NEW c \in Chunks, reader[r].pc # "idle", Return(r, c), ReadFrame,
             ~reader[r].late => c[reader[r].key] \in reader[r].seen
      PROVE  IInv'
  <2> DEFINE rec == [reader[r] EXCEPT !.pc = "done", !.val = c[reader[r].key]]
  <2>1. SetReader(r, rec)
    BY <1>7 DEF Return
  <2>2. c[reader[r].key] \in Values \cup {NONE}
    BY <1>3, <1>5, <1>7, Zenon
  <2>3. rec \in ReaderStates
    BY <1>3, <2>2, Zenon
  <2>4. /\ rec.pc = "done" /\ rec.val = c[reader[r].key] /\ rec.time = reader[r].time
        /\ rec.key = reader[r].key /\ rec.seen = reader[r].seen /\ rec.late = reader[r].late
    BY <1>3, Zenon
  <2>5. Content[rec.time][rec.key] \in rec.seen
    BY <1>7, <2>4, Zenon DEF IInv, ReaderInv
  <2> HIDE DEF rec
  <2> QED
    BY <1>3, <1>7, <2>1, <2>3, <2>4, <2>5, KeepReader, Zenon
<1>8. CASE RetrieveLower(r)
  <2> DEFINE t == reader[r].time
             k == reader[r].key
  <2>1. /\ reader[r].pc = "lower" /\ ReadFrame
        /\ IF LowerUpgraded \/ lower[t] = NONE
           THEN SetReader(r, [reader[r] EXCEPT !.pc = "file", !.late = (flush = "flipped")])
           ELSE Return(r, lower[t])
    BY <1>8, Zenon DEF RetrieveLower
  <2>2. t \in Times /\ k \in Keys /\ flipped[t][k] \in reader[r].seen /\ Content[t][k] \in reader[r].seen
    BY <1>3, <2>1, Zenon DEF IInv, ReaderInv
  <2>3. CASE ~(LowerUpgraded \/ lower[t] = NONE)
    <3>1. lower[t] \in Chunks /\ lower[t][k] = flipped[t][k]
      BY <1>2, <1>4, <2>2, <2>3, Zenon DEF Maps
    <3> QED
      BY <1>7, <2>1, <2>2, <2>3, <3>1, Zenon
  <2>4. CASE LowerUpgraded \/ lower[t] = NONE
    <3> DEFINE rec == [reader[r] EXCEPT !.pc = "file", !.late = (flush = "flipped")]
    <3>1. SetReader(r, rec)
      BY <2>1, <2>4, Zenon
    <3>2. rec \in ReaderStates
      BY <1>3, Zenon
    <3>3. /\ rec.pc = "file" /\ rec.time = t /\ rec.key = k
          /\ rec.seen = reader[r].seen /\ (rec.late <=> flush = "flipped")
      BY <1>3, Zenon
    <3>4. ~rec.late => OnDisk[t] = flipped[t]
      BY <1>1, <1>4, <2>2, <2>4, <3>3, Zenon DEF LowerUpgraded, IndexIsSnapshot
    <3> HIDE DEF rec
    <3> QED
      BY <1>3, <2>1, <2>2, <3>1, <3>2, <3>3, <3>4, KeepReader, Zenon
  <2> QED
    BY <2>3, <2>4, Zenon
<1>9. CASE RetrieveFile(r)
  <2>1. reader[r].pc = "file" /\ Return(r, OnDisk[reader[r].time]) /\ ReadFrame
    BY <1>9, Zenon DEF RetrieveFile
  <2>2. OnDisk[reader[r].time] \in Chunks
    BY <1>2, <1>3, <2>1, Zenon DEF Tables
  <2>3. ~reader[r].late => OnDisk[reader[r].time][reader[r].key] \in reader[r].seen
    BY <2>1, Zenon DEF IInv, ReaderInv
  <2> QED
    BY <1>7, <2>1, <2>2, <2>3, Zenon
<1>10. CASE RetrieveReturn(r)
  <2>1. IdleReader \in ReaderStates /\ IdleReader.pc = "idle"
    BY DEF IdleReader
  <2>2. SetReader(r, IdleReader) /\ ReadFrame
    BY <1>10 DEF RetrieveReturn
  <2> QED
    BY <2>1, <2>2, KeepReader, Zenon
<1> QED
  BY <1>6, <1>8, <1>9, <1>10, Zenon

\* A new process finds what is on disk, and takes it for the truth.
LEMMA KeepRestart ==
    ASSUME IInv, NEW c \in Nat, Restart(c)
    PROVE  IInv'
<1>1. TypeOK
  BY DEF IInv
<1>2. OnDisk' = OnDisk /\ OnDisk \in Tables
  BY <1>1, TablesOK, Zenon DEF Restart, OnDisk
<1>3. upper' = NoChunks /\ lower' = NoChunks
  BY DEF Restart
<1>4. Over(lower, OnDisk)' = OnDisk'
  BY <1>2, <1>3, OverNone, Zenon DEF Over
<1>5. Content' = OnDisk'
  BY <1>2, <1>3, <1>4, OverNone, Zenon DEF Content, Over
<1>6. TypeOK'
  BY <1>1, <1>2, OverNone, Zenon DEF TypeOK, Restart, IdleReader
<1>7. IndexIsSnapshot' /\ EntriesKept'
  BY <1>2, <1>4, <1>5, Zenon DEF IndexIsSnapshot, EntriesKept, Restart
<1>8. StopInv' /\ ReaderInv' /\ RetrievesLinearizable'
  BY Zenon DEF Restart, StopInv, ReaderInv, RetrievesLinearizable, IdleReader
<1> QED
  BY <1>6, <1>7, <1>8, Zenon DEF IInv

\* Every step keeps the invariant.
LEMMA NextIInv == IInv /\ [Next]_vars => IInv'
<1> SUFFICES ASSUME IInv, [Next]_vars PROVE IInv'
  OBVIOUS
<1>1. CASE UNCHANGED vars
  <2>1. UNCHANGED <<upper, lower, index, flush, stop, reader, crashes, failed, truth, raced,
                    flipped, flippedBefore>>
    BY <1>1 DEF vars, store, history
  <2>2. /\ OnDisk' = OnDisk /\ Over(lower, OnDisk)' = Over(lower, OnDisk)
        /\ Content' = Content
    BY <2>1 DEF OnDisk, Over, Content
  <2> QED
    BY <2>1, <2>2, ZenonT(40) DEF IInv, TypeOK, IndexIsSnapshot, EntriesKept, StopInv, ReaderInv,
       RetrievesLinearizable
<1>2. ASSUME NEW t \in Times, NEW k \in Keys, (\E v \in Values : Update(t, k, v)) \/ Erase(t, k)
      PROVE  IInv'
  BY <1>2, KeepWrite DEF Update, Erase
<1>3. CASE FlushBegin \/ WriteBatch \/ FlushFail \/ FlushUpgrade \/ Deinitialize
  BY <1>3, KeepFlushControl
<1>4. CASE IndexUpdate \/ Flip \/ FlushEnd
  BY <1>4, KeepIndexUpdate, KeepFlip, KeepFlushEnd
<1>5. CASE CleanRestart \/ Crash
  <2>1. crashes \in Nat
    BY DEF IInv, TypeOK
  <2> QED
    BY <1>5, <2>1, KeepRestart DEF CleanRestart, Crash
<1>6. ASSUME NEW r \in Readers,
             \/ \E t \in Times, k \in Keys : RetrieveUpper(r, t, k)
             \/ RetrieveLower(r) \/ RetrieveFile(r) \/ RetrieveReturn(r)
      PROVE  IInv'
  BY <1>6, KeepRetrieve, Zenon
<1> QED
  BY <1>1, <1>2, <1>3, <1>4, <1>5, <1>6, Zenon DEF Next

\* The invariant holds in every state of the store.
THEOREM Invariance == Spec => []IInv
BY InitIInv, NextIInv, PTL DEF Spec

-----------------------------------------------------------------------------
\* No entry that Update or Erase wrote is lost or comes back, unless an Update fell between the
\* flip of a Flush and the release of rwLower; and the two flushes of Deinitialize leave all
\* entries in the file.
THEOREM EntriesCorrect == Spec => []EntriesKept
<1>1. IInv => EntriesKept
  BY DEF IInv
<1> QED
  BY <1>1, Invariance, PTL

\* At whatever point of Flush the process dies, the index and the chunks it refers to hold the
\* entries of one of the last two flips.
THEOREM CrashLeavesFlip == Spec => []IndexIsSnapshot
<1>1. IInv => IndexIsSnapshot
  BY DEF IInv
<1> QED
  BY <1>1, Invariance, PTL

\* A Retrieve whose ReadTryLock did not fall between the flip and the release of rwLower returns
\* a value its key had during the call.
THEOREM RetrievesCorrect == Spec => []RetrievesLinearizable
<1>1. IInv => RetrievesLinearizable
  BY DEF IInv
<1> QED
  BY <1>1, Invariance, PTL
=============================================================================
