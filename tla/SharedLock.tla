----------------------------- MODULE SharedLock -----------------------------
(***************************************************************************)
(* What a lock with shared, upgradable and exclusive holders promises to    *)
(* the classes that use it (CBlockBase, CBlockFork, CForkUnspentDB, CCTSDB): *)
(*   - any number of threads share it;                                      *)
(*   - at most one thread is upgradable, and it may coexist with sharers;   *)
(*   - an exclusive holder is alone.                                        *)
(* Acquiring and releasing are single steps; how threads wait and wake each  *)
(* other up is RWAccess's business.                                         *)
(***************************************************************************)
CONSTANT Threads

VARIABLE mode    \* what each thread holds

Modes == {"none", "shared", "upgradable", "exclusive"}

Init == mode = [t \in Threads |-> "none"]

Others(t, S) == \A u \in Threads \ {t} : mode[u] \in S

AcquireShared(t) ==
    /\ mode[t] = "none"
    /\ Others(t, {"none", "shared", "upgradable"})
    /\ mode' = [mode EXCEPT ![t] = "shared"]

AcquireUpgradable(t) ==
    /\ mode[t] = "none"
    /\ Others(t, {"none", "shared"})
    /\ mode' = [mode EXCEPT ![t] = "upgradable"]

AcquireExclusive(t) ==
    /\ mode[t] \in {"none", "upgradable"}
    /\ Others(t, {"none"})
    /\ mode' = [mode EXCEPT ![t] = "exclusive"]

Release(t) ==
    /\ mode[t] # "none"
    /\ mode' = [mode EXCEPT ![t] = "none"]

Next == \E t \in Threads :
    \/ AcquireShared(t)
    \/ AcquireUpgradable(t)
    \/ AcquireExclusive(t)
    \/ Release(t)

Spec == Init /\ [][Next]_mode

=============================================================================
