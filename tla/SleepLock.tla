----------------------------- MODULE SleepLock -----------------------------
(***************************************************************************)
(* A sleep-lock (src/sleeplock.c) on top of sleep and wakeup (src/proc.c), *)
(* with every acquire and release of the two spinlocks involved, lk->lk    *)
(* and ptable.lock, a step of its own.  The other modules take the pair    *)
(* "release the lock and go to sleep" as one step; this one shows that the *)
(* order in which sleep() takes ptable.lock and gives up lk justifies it.  *)
(***************************************************************************)
EXTENDS Integers, FiniteSets

CONSTANTS Procs,    \* processes that use the lock
          NoProc    \* no process

ASSUME SleepLockConstants == NoProc \notin Procs

VARIABLES
  lk,       \* holder of lk->lk
  ptable,   \* holder of ptable.lock
  locked,   \* lk->locked
  pid,      \* lk->pid
  pc        \* where a process is

vars == <<lk, ptable, locked, pid, pc>>

Places == {"idle",
           "acquire", "test",             \* acquiresleep
           "sleep", "give", "sched",      \* sleep, up to sched()
           "asleep",                      \* SLEEPING with chan = lk
           "runnable", "resumed",         \* RUNNABLE; back from sched()
           "critical",                    \* between the two calls
           "release", "clear", "wakeup", "unlock"}   \* releasesleep

TypeOK ==
  /\ lk \in Procs \cup {NoProc}
  /\ ptable \in Procs \cup {NoProc}
  /\ locked \in BOOLEAN
  /\ pid \in Procs \cup {NoProc}
  /\ pc \in [Procs -> Places]

Init ==
  /\ lk = NoProc /\ ptable = NoProc
  /\ locked = FALSE /\ pid = NoProc
  /\ pc = [p \in Procs |-> "idle"]

Goto(p, from, to) == pc[p] = from /\ pc' = [pc EXCEPT ![p] = to]

-----------------------------------------------------------------------------
(* acquiresleep *)

Call(p) ==
  /\ Goto(p, "idle", "acquire")
  /\ UNCHANGED <<lk, ptable, locked, pid>>

\* acquire(&lk->lk), on entry and at the end of sleep().
AcquireLk(p) ==
  /\ lk = NoProc
  /\ Goto(p, "acquire", "test")
  /\ lk' = p
  /\ UNCHANGED <<ptable, locked, pid>>

\* Variant: the lock is taken without looking at lk->locked again after sleep.
Taken_Once(p) ==
  /\ Goto(p, "test", "critical")
  /\ locked' = TRUE /\ pid' = p /\ lk' = NoProc
  /\ UNCHANGED ptable

Taken(p) ==
  /\ ~locked
  /\ Goto(p, "test", "critical")
  /\ locked' = TRUE /\ pid' = p /\ lk' = NoProc
  /\ UNCHANGED ptable

Wait(p) ==
  /\ locked
  /\ Goto(p, "test", "sleep")
  /\ UNCHANGED <<lk, ptable, locked, pid>>

\* sleep(): acquire(&ptable.lock) ...
AcquirePtable(p) ==
  /\ ptable = NoProc
  /\ Goto(p, "sleep", "give")
  /\ ptable' = p
  /\ UNCHANGED <<lk, locked, pid>>

\* ... release(lk) ...
ReleaseLk(p) ==
  /\ Goto(p, "give", "sched")
  /\ lk' = NoProc
  /\ UNCHANGED <<ptable, locked, pid>>

\* ... and sched(), whose scheduler releases ptable.lock.
Sched(p) ==
  /\ Goto(p, "sched", "asleep")
  /\ ptable' = NoProc
  /\ UNCHANGED <<lk, locked, pid>>

\* scheduler() takes ptable.lock and switches to a process it finds runnable.
Resume(p) ==
  /\ ptable = NoProc
  /\ Goto(p, "runnable", "resumed")
  /\ ptable' = p
  /\ UNCHANGED <<lk, locked, pid>>

\* The rest of sleep() up to the acquire(lk).
Tidy(p) ==
  /\ Goto(p, "resumed", "acquire")
  /\ ptable' = NoProc
  /\ UNCHANGED <<lk, locked, pid>>

-----------------------------------------------------------------------------
(* releasesleep *)

Leave(p) ==
  /\ Goto(p, "critical", "release")
  /\ UNCHANGED <<lk, ptable, locked, pid>>

\* Variant: lk->locked is cleared without lk->lk.
AcquireToRelease_NoLk(p) ==
  /\ Goto(p, "release", "clear")
  /\ UNCHANGED <<lk, ptable, locked, pid>>

AcquireToRelease(p) ==
  /\ lk = NoProc
  /\ Goto(p, "release", "clear")
  /\ lk' = p
  /\ UNCHANGED <<ptable, locked, pid>>

Clear(p) ==
  /\ Goto(p, "clear", "wakeup")
  /\ locked' = FALSE /\ pid' = NoProc
  /\ UNCHANGED <<lk, ptable>>

\* Variant: wakeup wakes nobody.
Wakeup_Nobody(p) ==
  /\ ptable = NoProc
  /\ Goto(p, "wakeup", "unlock")
  /\ UNCHANGED <<lk, ptable, locked, pid>>

\* wakeup(lk): nothing else can happen between its acquire and release.
Wakeup(p) ==
  /\ ptable = NoProc
  /\ pc[p] = "wakeup"
  /\ pc' = [q \in Procs |-> IF q = p THEN "unlock"
                            ELSE IF pc[q] = "asleep" THEN "runnable"
                            ELSE pc[q]]
  /\ UNCHANGED <<lk, ptable, locked, pid>>

Unlock(p) ==
  /\ Goto(p, "unlock", "idle")
  /\ lk' = NoProc
  /\ UNCHANGED <<ptable, locked, pid>>

-----------------------------------------------------------------------------

\* kill() makes a sleeping process runnable; acquiresleep sleeps again.
kill(p) ==
  /\ ptable = NoProc
  /\ Goto(p, "asleep", "runnable")
  /\ UNCHANGED <<lk, ptable, locked, pid>>

\* What a process does inside the two functions.
Work(p) ==
  \/ AcquireLk(p) \/ Taken(p) \/ Wait(p)
  \/ AcquirePtable(p) \/ ReleaseLk(p) \/ Sched(p) \/ Resume(p) \/ Tidy(p)
  \/ AcquireToRelease(p) \/ Clear(p) \/ Wakeup(p) \/ Unlock(p)

Next == \E p \in Procs : Call(p) \/ Work(p) \/ Leave(p) \/ kill(p)

Spec == Init /\ [][Next]_vars

-----------------------------------------------------------------------------
(* Properties. *)

Owns(p) == pc[p] \in {"critical", "release", "clear"}

\* At most one process is between acquiresleep and releasesleep, and the
\* lock's fields name it (sleeplock.c:26-30,37-38).
MutualExclusion ==
  /\ \A p, q \in Procs : Owns(p) /\ Owns(q) => p = q
  /\ \A p \in Procs : Owns(p) => locked /\ pid = p

\* While a process sleeps, or is about to with lk already released, the lock
\* is held, or a releaser that has cleared it has yet to call wakeup: no
\* wakeup is missed (proc.c:427-432, "we won't miss any wakeup").
NoMissedWakeup ==
  \A p \in Procs : pc[p] \in {"sched", "asleep"} =>
    \E q \in Procs : Owns(q) \/ pc[q] = "wakeup"

\* The inductive invariant behind both: who holds which spinlock where, and
\* what a process that has seen lk->locked may rely on while it holds lk->lk.
SpinInv ==
  \A p \in Procs :
    /\ lk = p <=> pc[p] \in {"test", "sleep", "give", "clear", "wakeup", "unlock"}
    /\ ptable = p <=> pc[p] \in {"give", "sched", "resumed"}
OwnerInv ==
  /\ \A p \in Procs : Owns(p) => locked /\ pid = p
  /\ locked => pid \in Procs /\ Owns(pid)
WaiterInv ==
  \A p \in Procs :
    /\ pc[p] \in {"sleep", "give"} => locked
    /\ pc[p] \in {"sched", "asleep"} => locked \/ \E q \in Procs : pc[q] = "wakeup"

\* Spinlock holders, the owner and the waiters agree in every state.
LockInv == TypeOK /\ SpinInv /\ OwnerInv /\ WaiterInv

-----------------------------------------------------------------------------
(* A process inside the functions goes on when it can; the critical section  *)
(* ends.  Spinlocks are not fair, hence strong fairness.                     *)

Fairness == \A p \in Procs : SF_vars(Work(p)) /\ WF_vars(Leave(p))

FairSpec == Spec /\ Fairness

\* A lock that someone waits for is not left free for ever.
WaitersServed ==
  (\E p \in Procs : pc[p] \in {"asleep", "runnable", "resumed", "acquire"})
    ~> (\E p \in Procs : Owns(p))
=============================================================================
