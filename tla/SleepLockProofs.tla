-------------------------- MODULE SleepLockProofs --------------------------
(***************************************************************************)
(* Mutual exclusion and the absence of missed wakeups, for any set of      *)
(* processes, from the inductive invariant LockInv.                        *)
(***************************************************************************)
EXTENDS SleepLock, TLAPS

\* No process is NoProc, and the lock is free at first.
LEMMA InitLockInv == Init => LockInv
  BY SleepLockConstants
  DEF SleepLockConstants, Init, LockInv, TypeOK, SpinInv, OwnerInv, WaiterInv, Owns, Places

\* The steps of acquiresleep and sleep keep LockInv: a process sees lk->locked,
\* takes ptable.lock and gives lk up in an order that leaves no gap.
LEMMA AcquireSteps ==
  ASSUME LockInv, NEW p \in Procs,
         \/ Call(p) \/ AcquireLk(p) \/ Taken(p) \/ Wait(p) \/ AcquirePtable(p)
         \/ ReleaseLk(p) \/ Sched(p) \/ Resume(p) \/ Tidy(p) \/ kill(p)
  PROVE  LockInv'
  <1> USE SleepLockConstants DEF SleepLockConstants, Goto, LockInv
  <1>1. TypeOK'
    BY DEF TypeOK, Places, Call, AcquireLk, Taken, Wait, AcquirePtable, ReleaseLk,
           Sched, Resume, Tidy, kill
  <1>2. SpinInv'
    BY DEF TypeOK, Places, SpinInv, Call, AcquireLk, Taken, Wait, AcquirePtable, ReleaseLk,
           Sched, Resume, Tidy, kill
  <1>3. OwnerInv'
    BY DEF TypeOK, Places, OwnerInv, Owns, Call, AcquireLk, Taken, Wait, AcquirePtable,
           ReleaseLk, Sched, Resume, Tidy, kill
  <1>4. WaiterInv'
    BY DEF TypeOK, Places, WaiterInv, Call, AcquireLk, Taken, Wait, AcquirePtable,
           ReleaseLk, Sched, Resume, Tidy, kill
  <1> QED BY <1>1, <1>2, <1>3, <1>4

\* The steps of releasesleep keep LockInv: lk->locked is cleared while lk is
\* held, so that nobody is between the test and ptable.lock, and wakeup finds
\* nobody between ptable.lock and SLEEPING.
LEMMA ReleaseSteps ==
  ASSUME LockInv, NEW p \in Procs,
         Leave(p) \/ AcquireToRelease(p) \/ Clear(p) \/ Wakeup(p) \/ Unlock(p)
  PROVE  LockInv'
  <1> USE SleepLockConstants DEF SleepLockConstants, Goto, LockInv
  <1>1. TypeOK'
    BY DEF TypeOK, Places, Leave, AcquireToRelease, Clear, Wakeup, Unlock
  <1>2. SpinInv'
    BY DEF TypeOK, Places, SpinInv, Leave, AcquireToRelease, Clear, Wakeup, Unlock
  <1>3. OwnerInv'
    BY DEF TypeOK, Places, OwnerInv, Owns, Leave, AcquireToRelease, Clear, Wakeup, Unlock
  <1>4. WaiterInv'
    BY DEF TypeOK, Places, SpinInv, OwnerInv, Owns, WaiterInv, Leave, AcquireToRelease,
           Clear, Wakeup, Unlock
  <1> QED BY <1>1, <1>2, <1>3, <1>4

\* LockInv holds in every reachable state.
THEOREM LockInvariant == Spec => []LockInv
  <1>1. LockInv /\ [Next]_vars => LockInv'
    <2> SUFFICES ASSUME LockInv, [Next]_vars PROVE LockInv'
      OBVIOUS
    <2>1. CASE Next
      BY <2>1, AcquireSteps, ReleaseSteps DEF Next, Work
    <2>2. CASE UNCHANGED vars
      BY <2>2 DEF vars, LockInv, TypeOK, SpinInv, OwnerInv, Owns, WaiterInv
    <2> QED BY <2>1, <2>2
  <1> QED BY <1>1, InitLockInv, PTL DEF Spec

\* At most one process is between acquiresleep and releasesleep.
THEOREM SleepLockExcludes == Spec => []MutualExclusion
  <1>1. LockInv => MutualExclusion
    BY DEF LockInv, OwnerInv, MutualExclusion
  <1> QED BY <1>1, LockInvariant, PTL

\* sleep misses no wakeup, as the comment in proc.c claims.
THEOREM SleepMissesNoWakeup == Spec => []NoMissedWakeup
  <1>1. LockInv => NoMissedWakeup
    BY DEF LockInv, OwnerInv, WaiterInv, NoMissedWakeup
  <1> QED BY <1>1, LockInvariant, PTL
=============================================================================
