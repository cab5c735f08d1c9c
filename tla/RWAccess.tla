------------------------------ MODULE RWAccess ------------------------------
(***************************************************************************)
(* CWalleveRWAccess (walleve/walleve/rwlock.h): the readers/writer lock      *)
(* with an upgradable mode that guards the block index, every fork and the   *)
(* write caches.  It is built from one mutex and three condition variables.  *)
(*                                                                         *)
(* A step is one critical section under the mutex, up to the next wait or    *)
(* to the unlock.  The notify calls of the unlock operations come after the  *)
(* mutex is released, so they are steps of their own and other threads may   *)
(* run in between.  A thread that was notified tests its condition again     *)
(* when it gets the mutex back.  Wake-ups without a notify are left out: the *)
(* lock must not depend on them.                                            *)
(***************************************************************************)
EXTENDS Integers, FiniteSets

CONSTANT Threads     \* the threads that use one lock

ASSUME ThreadsFinite == IsFiniteSet(Threads)

VARIABLES
    nRead,           \* readers that hold the lock
    nWrite,          \* writers that hold the lock or wait for it
    fExclusive,      \* a writer or an upgradable thread holds the lock
    fUpgraded,       \* the upgradable thread has asked to write
    pc               \* where each thread is

rwVars == <<nRead, nWrite, fExclusive, fUpgraded, pc>>
counters == <<nRead, nWrite, fExclusive, fUpgraded>>

\* Blocked in condRead, condRead, condWrite and condUpgrade respectively.
Waiting == {"waitRead", "waitUpgradeLock", "waitWrite", "waitUpgrade"}

\* Notified and about to test the loop condition again.
Woken == {"wokenRead", "wokenUpgradeLock", "wokenWrite", "wokenUpgrade"}

Holding == {"reading", "writing", "upgradable", "upgraded"}

\* The mutex of an unlock is released and its notify call is still to come.
Notifying == {"notifyRead", "notifyWrite", "notifyUpgrade"}

States == {"idle"} \cup Waiting \cup Woken \cup Holding \cup Notifying

At(S) == {t \in Threads : pc[t] \in S}

Goto(t, s) == pc' = [pc EXCEPT ![t] = s]

RWInit ==
    /\ nRead = 0
    /\ nWrite = 0
    /\ fExclusive = FALSE
    /\ fUpgraded = FALSE
    /\ pc = [t \in Threads |-> "idle"]

-----------------------------------------------------------------------------
\* Plausible slips in the code below; no specification uses them.

\* Slip: ReadUnlock that looks for a waiting writer before a waiting upgrader.
ReadUnlockWriterFirst(t) ==
    /\ pc[t] = "reading"
    /\ nRead' = nRead - 1
    /\ Goto(t, IF nRead' = 0 /\ nWrite # 0 THEN "notifyWrite"
               ELSE IF nRead' = 0 /\ fExclusive THEN "notifyUpgrade"
               ELSE "idle")
    /\ UNCHANGED <<nWrite, fExclusive, fUpgraded>>

\* Slip: ReadLock and ReadTryLock that let readers in while an upgrade is pending.
ReadBlockedByWritersOnly == nWrite # 0

\* Slip: WriteLock that forgets the upgradable holder.
WriteLockIgnoringUpgrade(t) ==
    /\ pc[t] \in {"idle", "wokenWrite"}
    /\ nWrite' = IF pc[t] = "idle" THEN nWrite + 1 ELSE nWrite
    /\ \/ /\ nRead # 0
          /\ Goto(t, "waitWrite")
          /\ fExclusive' = fExclusive
       \/ /\ nRead = 0
          /\ Goto(t, "writing")
          /\ fExclusive' = TRUE
    /\ UNCHANGED <<nRead, fUpgraded>>

-----------------------------------------------------------------------------
ReadBlocked == nWrite # 0 \/ fUpgraded

ReadLock(t) ==
    /\ pc[t] \in {"idle", "wokenRead"}
    /\ \/ /\ ReadBlocked
          /\ Goto(t, "waitRead")
          /\ nRead' = nRead
       \/ /\ ~ReadBlocked
          /\ Goto(t, "reading")
          /\ nRead' = nRead + 1
    /\ UNCHANGED <<nWrite, fExclusive, fUpgraded>>

\* Returns false, and changes nothing, when it would have to wait.
ReadTryLock(t) ==
    /\ pc[t] = "idle"
    /\ ~ReadBlocked
    /\ nRead' = nRead + 1
    /\ Goto(t, "reading")
    /\ UNCHANGED <<nWrite, fExclusive, fUpgraded>>

ReadUnlock(t) ==
    /\ pc[t] = "reading"
    /\ nRead' = nRead - 1
    /\ Goto(t, IF nRead' = 0 /\ fExclusive THEN "notifyUpgrade"
               ELSE IF nRead' = 0 /\ nWrite # 0 THEN "notifyWrite"
               ELSE "idle")
    /\ UNCHANGED <<nWrite, fExclusive, fUpgraded>>

WriteLock(t) ==
    /\ pc[t] \in {"idle", "wokenWrite"}
    /\ nWrite' = IF pc[t] = "idle" THEN nWrite + 1 ELSE nWrite
    /\ \/ /\ nRead # 0 \/ fExclusive
          /\ Goto(t, "waitWrite")
          /\ fExclusive' = fExclusive
       \/ /\ nRead = 0 /\ ~fExclusive
          /\ Goto(t, "writing")
          /\ fExclusive' = TRUE
    /\ UNCHANGED <<nRead, fUpgraded>>

WriteUnlock(t) ==
    /\ pc[t] = "writing"
    /\ nWrite' = nWrite - 1
    /\ fExclusive' = FALSE
    /\ Goto(t, IF nWrite' # 0 THEN "notifyWrite" ELSE "notifyRead")
    /\ UNCHANGED <<nRead, fUpgraded>>

UpgradeLock(t) ==
    /\ pc[t] \in {"idle", "wokenUpgradeLock"}
    /\ Goto(t, IF fExclusive THEN "waitUpgradeLock" ELSE "upgradable")
    /\ fExclusive' = TRUE
    /\ UNCHANGED <<nRead, nWrite, fUpgraded>>

UpgradeToWriteLock(t) ==
    /\ pc[t] \in {"upgradable", "wokenUpgrade"}
    /\ fUpgraded' = TRUE
    /\ Goto(t, IF nRead # 0 THEN "waitUpgrade" ELSE "upgraded")
    /\ UNCHANGED <<nRead, nWrite, fExclusive>>

UpgradeUnlock(t) ==
    /\ pc[t] \in {"upgradable", "upgraded"}
    /\ Goto(t, IF nWrite # 0 /\ (fUpgraded \/ nRead = 0)
               THEN "notifyWrite" ELSE "notifyRead")
    /\ fExclusive' = FALSE
    /\ fUpgraded' = FALSE
    /\ UNCHANGED <<nRead, nWrite>>

-----------------------------------------------------------------------------
\* notify_one: one thread blocked on the condition wakes, if there is one.
NotifyOne(t, from, to) ==
    \/ /\ At({from}) = {}
       /\ Goto(t, "idle")
    \/ \E w \in At({from}) : pc' = [pc EXCEPT ![t] = "idle", ![w] = to]

\* notify_all on condRead, where ReadLock and UpgradeLock both wait.
NotifyAllReaders(t) ==
    pc' = [u \in Threads |->
             IF u = t THEN "idle"
             ELSE IF pc[u] = "waitRead" THEN "wokenRead"
             ELSE IF pc[u] = "waitUpgradeLock" THEN "wokenUpgradeLock"
             ELSE pc[u]]

Notify(t) ==
    /\ \/ pc[t] = "notifyRead" /\ NotifyAllReaders(t)
       \/ pc[t] = "notifyWrite" /\ NotifyOne(t, "waitWrite", "wokenWrite")
       \/ pc[t] = "notifyUpgrade" /\ NotifyOne(t, "waitUpgrade", "wokenUpgrade")
    /\ UNCHANGED counters

-----------------------------------------------------------------------------
Step(t) ==
    \/ ReadLock(t) \/ ReadTryLock(t) \/ ReadUnlock(t)
    \/ WriteLock(t) \/ WriteUnlock(t)
    \/ UpgradeLock(t) \/ UpgradeToWriteLock(t) \/ UpgradeUnlock(t)
    \/ Notify(t)

RWNext == \E t \in Threads : Step(t)

(***************************************************************************)
(* A thread inside the lock's code keeps running, and a thread that holds    *)
(* the lock releases it: every holder in the code is a scope or a CBlockView *)
(* whose destructor unlocks.  Nothing obliges an idle thread to lock.        *)
(***************************************************************************)
Progress(t) ==
    \/ pc[t] # "idle" /\ (ReadLock(t) \/ WriteLock(t) \/ UpgradeLock(t))
    \/ pc[t] = "wokenUpgrade" /\ UpgradeToWriteLock(t)
    \/ ReadUnlock(t) \/ WriteUnlock(t) \/ UpgradeUnlock(t) \/ Notify(t)

Fairness == \A t \in Threads : WF_rwVars(Progress(t))

RWSpec == RWInit /\ [][RWNext]_rwVars
RWFairSpec == RWSpec /\ Fairness

-----------------------------------------------------------------------------
\* The fields have their types, and pc is one of the states above.
RWTypeOK ==
    /\ nRead \in Nat
    /\ nWrite \in Nat
    /\ fExclusive \in BOOLEAN
    /\ fUpgraded \in BOOLEAN
    /\ pc \in [Threads -> States]

\* The counters of rwlock.h count threads: nRead the readers inside, nWrite
\* the writers inside or queued; fExclusive means that some thread writes or is
\* upgradable, and fUpgraded that the upgradable one has asked to write.
CountersAgree ==
    /\ nRead = Cardinality(At({"reading"}))
    /\ nWrite = Cardinality(At({"writing", "waitWrite", "wokenWrite"}))
    /\ fExclusive <=> At({"writing", "upgradable", "waitUpgrade",
                          "wokenUpgrade", "upgraded"}) # {}
    /\ fUpgraded <=> At({"waitUpgrade", "wokenUpgrade", "upgraded"}) # {}

\* Whatever the interleaving of ReadLock, WriteLock, UpgradeLock and
\* UpgradeToWriteLock, a thread that may write is alone in the lock, and no two
\* threads are upgradable at once.
MutualExclusion ==
    /\ \A t \in At({"writing", "upgraded"}) : At(Holding) = {t}
    /\ \A t, u \in At({"writing", "upgradable", "waitUpgrade",
                       "wokenUpgrade", "upgraded"}) : t = u

\* No wake-up is lost between the critical section of an unlock and its notify
\* call: threads are never all asleep, that is, blocked in a condition variable
\* with nobody inside the lock or about to notify.
NoLostWakeup ==
    (\A t \in Threads : pc[t] \in {"idle"} \cup Waiting)
        => \A t \in Threads : pc[t] = "idle"

\* UpgradeToWriteLock shuts new readers out through fUpgraded, so a thread that
\* waits in it for the readers inside gets to write: the wait is left in no other
\* way, and again and again nobody is in it.
UpgradeSucceeds == []<>(At({"waitUpgrade", "wokenUpgrade"}) = {})

-----------------------------------------------------------------------------
\* What each thread holds, for the abstract lock.
Mode(s) == IF s = "reading" THEN "shared"
           ELSE IF s \in {"upgradable", "waitUpgrade", "wokenUpgrade"} THEN "upgradable"
           ELSE IF s \in {"writing", "upgraded"} THEN "exclusive"
           ELSE "none"

Lock == INSTANCE SharedLock WITH mode <- [t \in Threads |-> Mode(pc[t])]

\* The lock built from a mutex and condition variables implements SharedLock:
\* every critical section grants or releases at most one compatible mode.
ImplementsSharedLock == Lock!Spec

=============================================================================
