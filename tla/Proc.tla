-------------------------------- MODULE Proc --------------------------------
(***************************************************************************)
(* The process table of src/proc.c: allocation of slots, fork, exit, wait, *)
(* kill, sleep and wakeup, and the scheduler on several CPUs.              *)
(*                                                                         *)
(* Code that runs with ptable.lock held is one step, except that a process *)
(* resumed inside wait() goes on with the lock the scheduler took, which   *)
(* `locked' records.  Writes to a slot that proc.c makes without the lock  *)
(* (in fork and allocproc) are steps of their own.                         *)
(*                                                                         *)
(* Memory is abstracted to "kalloc or copyuvm may fail".  User programs    *)
(* are arbitrary, but init never calls exit and is never killed: exit()    *)
(* panics if it does.                                                      *)
(***************************************************************************)
EXTENDS Integers, FiniteSets

CONSTANTS NPROC,   \* slots of the process table
          CPUs,    \* processors
          MaxPid   \* bound: no process is created with a greater pid

ASSUME ProcConstants ==
  /\ NPROC \in Nat \ {0}
  /\ MaxPid \in Nat \ {0}

Slots == 1..NPROC
None == 0                \* the null pointer
initproc == 1
Dev == NPROC + 1         \* a channel that is no process: &ticks

VARIABLES
  state,    \* p->state
  pid,      \* p->pid
  parent,   \* p->parent
  killed,   \* p->killed
  chan,     \* p->chan
  nextpid,  \* nextpid
  cpu,      \* c->proc
  pc,       \* where in the kernel (or in user code) a process is
  child,    \* np, while a process is in fork
  locked    \* the process that was resumed with ptable.lock held

table == <<state, pid, parent, killed, chan>>
vars == <<table, nextpid, cpu, pc, child, locked>>

States == {"UNUSED", "EMBRYO", "SLEEPING", "RUNNABLE", "RUNNING", "ZOMBIE"}

TypeOK ==
  /\ state \in [Slots -> States]
  /\ pid \in [Slots -> 0..MaxPid]
  /\ parent \in [Slots -> Slots \cup {None}]
  /\ killed \in [Slots -> BOOLEAN]
  /\ chan \in [Slots -> Slots \cup {None, Dev}]
  /\ nextpid \in 1..(MaxPid + 1)
  /\ cpu \in [CPUs -> Slots \cup {None}]
  /\ pc \in [Slots -> {"user", "fork", "forkchild", "check", "tosleep", "wait"}]
  /\ child \in [Slots -> Slots \cup {None}]
  /\ locked \in Slots \cup {None}

\* userinit() has made the first process.
Init ==
  /\ state = [p \in Slots |-> IF p = initproc THEN "RUNNABLE" ELSE "UNUSED"]
  /\ pid = [p \in Slots |-> IF p = initproc THEN 1 ELSE 0]
  /\ parent = [p \in Slots |-> None]
  /\ killed = [p \in Slots |-> FALSE]
  /\ chan = [p \in Slots |-> None]
  /\ nextpid = 2
  /\ cpu = [c \in CPUs |-> None]
  /\ pc = [p \in Slots |-> "user"]
  /\ child = [p \in Slots |-> None]
  /\ locked = None

First(S) == CHOOSE p \in S : \A q \in S : p <= q

At(p, where) == state[p] = "RUNNING" /\ pc[p] = where
Goto(p, where) == pc' = [pc EXCEPT ![p] = where]

\* trap() turns a killed process away when it enters the kernel.
Enters(p) == At(p, "user") /\ ~killed[p]
Free == locked = None    \* ptable.lock can be taken

wakeup1(st, ch) ==
  [p \in Slots |-> IF st[p] = "SLEEPING" /\ chan[p] = ch THEN "RUNNABLE" ELSE st[p]]

\* The CPU that ran p is back in scheduler().
OffCPU(p) == [c \in CPUs |-> IF cpu[c] = p THEN None ELSE cpu[c]]

-----------------------------------------------------------------------------
(* scheduler, sched and yield *)

\* scheduler() switches to p, which returns from sched(): sleep() clears
\* p->chan, and wait() goes on without releasing ptable.lock.
Schedule(c, p) ==
  /\ cpu[c] = None /\ Free
  /\ state[p] = "RUNNABLE"
  /\ state' = [state EXCEPT ![p] = "RUNNING"]
  /\ cpu' = [cpu EXCEPT ![c] = p]
  /\ chan' = [chan EXCEPT ![p] = None]
  /\ locked' = IF pc[p] = "wait" THEN p ELSE None
  /\ UNCHANGED <<pid, parent, killed, nextpid, pc, child>>

\* tickslock is free: see sys_sleep below.
LockFree == \A p \in Slots : pc[p] # "tosleep"

\* A timer interrupt, which a process does not take while it holds a spinlock
\* or spins for one: acquire() disables interrupts first.
Yield(p) ==
  /\ state[p] = "RUNNING" /\ pc[p] # "tosleep" /\ Free
  /\ pc[p] = "check" => LockFree
  /\ state' = [state EXCEPT ![p] = "RUNNABLE"]
  /\ cpu' = OffCPU(p)
  /\ UNCHANGED <<pid, parent, killed, chan, nextpid, pc, child, locked>>

-----------------------------------------------------------------------------
(* fork *)

Unused == {p \in Slots : state[p] = "UNUSED"}

\* allocproc(), up to the release of ptable.lock.
allocproc(p) ==
  /\ Enters(p) /\ Free
  /\ Unused # {} /\ nextpid <= MaxPid
  /\ LET n == First(Unused) IN
     /\ state' = [state EXCEPT ![n] = "EMBRYO"]
     /\ pid' = [pid EXCEPT ![n] = nextpid]
     /\ child' = [child EXCEPT ![p] = n]
  /\ nextpid' = nextpid + 1
  /\ Goto(p, "fork")
  /\ UNCHANGED <<parent, killed, chan, cpu, locked>>

\* kalloc() or copyuvm() fails; p->state is written without ptable.lock.
ForkFail(p) ==
  /\ At(p, "fork")
  /\ state' = [state EXCEPT ![child[p]] = "UNUSED"]
  /\ child' = [child EXCEPT ![p] = None]
  /\ Goto(p, "user")
  /\ UNCHANGED <<pid, parent, killed, chan, nextpid, cpu, locked>>

ForkParent(p) ==
  /\ At(p, "fork")
  /\ parent' = [parent EXCEPT ![child[p]] = p]
  /\ Goto(p, "forkchild")
  /\ UNCHANGED <<state, pid, killed, chan, nextpid, cpu, child, locked>>

ForkDone(p) ==
  /\ At(p, "forkchild") /\ Free
  /\ state' = [state EXCEPT ![child[p]] = "RUNNABLE"]
  /\ child' = [child EXCEPT ![p] = None]
  /\ Goto(p, "user")
  /\ UNCHANGED <<pid, parent, killed, chan, nextpid, cpu, locked>>

-----------------------------------------------------------------------------
(* exit and wait *)

Children(p) == {q \in Slots : parent[q] = p}
\* Variant: wait does not compare p->parent.
Zombies_Anyones(p) == {q \in Slots : state[q] = "ZOMBIE"}

Zombies(p) == {q \in Children(p) : state[q] = "ZOMBIE"}

\* Variant: init is not woken for a zombie that is passed on to it.
Exit_NoInitWakeup(p) ==
  /\ At(p, "user") /\ p # initproc /\ Free
  /\ state' = [wakeup1(state, parent[p]) EXCEPT ![p] = "ZOMBIE"]
  /\ parent' = [q \in Slots |-> IF parent[q] = p THEN initproc ELSE parent[q]]
  /\ cpu' = OffCPU(p)
  /\ UNCHANGED <<pid, killed, chan, nextpid, pc, child, locked>>

\* Variant: the parent is not woken.
Exit_NoWakeup(p) ==
  /\ At(p, "user") /\ p # initproc /\ Free
  /\ state' = [state EXCEPT ![p] = "ZOMBIE"]
  /\ parent' = [q \in Slots |-> IF parent[q] = p THEN initproc ELSE parent[q]]
  /\ cpu' = OffCPU(p)
  /\ UNCHANGED <<pid, killed, chan, nextpid, pc, child, locked>>

\* exit(): called by the program, or by trap() for a killed process.
Exit(p) ==
  /\ At(p, "user") /\ p # initproc /\ Free
  /\ LET woken == wakeup1(state, parent[p])
         all == IF Zombies(p) # {} THEN wakeup1(woken, initproc) ELSE woken
     IN  state' = [all EXCEPT ![p] = "ZOMBIE"]
  /\ parent' = [q \in Slots |-> IF parent[q] = p THEN initproc ELSE parent[q]]
  /\ cpu' = OffCPU(p)
  /\ UNCHANGED <<pid, killed, chan, nextpid, pc, child, locked>>

\* wait() scans the table: on entry, and again when it is resumed.
Scans(p) == (Enters(p) /\ Free) \/ (At(p, "wait") /\ locked = p)

WaitReap(p) ==
  /\ Scans(p)
  /\ Zombies(p) # {}
  /\ LET z == First(Zombies(p)) IN
     /\ state' = [state EXCEPT ![z] = "UNUSED"]
     /\ pid' = [pid EXCEPT ![z] = 0]
     /\ parent' = [parent EXCEPT ![z] = None]
     /\ killed' = [killed EXCEPT ![z] = FALSE]
  /\ Goto(p, "user") /\ locked' = None
  /\ UNCHANGED <<chan, nextpid, cpu, child>>

WaitFail(p) ==
  /\ Scans(p)
  /\ Zombies(p) = {} /\ (Children(p) = {} \/ killed[p])
  /\ Goto(p, "user") /\ locked' = None
  /\ UNCHANGED <<table, nextpid, cpu, child>>

WaitSleep(p) ==
  /\ Scans(p)
  /\ Zombies(p) = {} /\ Children(p) # {} /\ ~killed[p]
  /\ state' = [state EXCEPT ![p] = "SLEEPING"]
  /\ chan' = [chan EXCEPT ![p] = p]
  /\ cpu' = OffCPU(p)
  /\ Goto(p, "wait") /\ locked' = None
  /\ UNCHANGED <<pid, parent, killed, nextpid, child>>

-----------------------------------------------------------------------------
(* kill *)

\* Variant: kill does not look at p->state.
kill_WakesAny(p, n) ==
  /\ Enters(p) /\ Free
  /\ \E q \in Slots : pid[q] = n
  /\ LET q == First({r \in Slots : pid[r] = n}) IN
     /\ q # initproc
     /\ killed' = [killed EXCEPT ![q] = TRUE]
     /\ state' = [state EXCEPT ![q] = "RUNNABLE"]
  /\ UNCHANGED <<pid, parent, chan, nextpid, cpu, pc, child, locked>>

\* Variant: kill leaves a sleeping process asleep.
kill_NoWake(p, n) ==
  /\ Enters(p) /\ Free
  /\ \E q \in Slots : pid[q] = n
  /\ LET q == First({r \in Slots : pid[r] = n}) IN
     /\ q # initproc
     /\ killed' = [killed EXCEPT ![q] = TRUE]
     /\ state' = state
  /\ UNCHANGED <<pid, parent, chan, nextpid, cpu, pc, child, locked>>

\* The first slot with that pid, whatever its state.
kill(p, n) ==
  /\ Enters(p) /\ Free
  /\ \E q \in Slots : pid[q] = n
  /\ LET q == First({r \in Slots : pid[r] = n}) IN
     /\ q # initproc
     /\ killed' = [killed EXCEPT ![q] = TRUE]
     /\ state' = IF state[q] = "SLEEPING" THEN [state EXCEPT ![q] = "RUNNABLE"] ELSE state
  /\ UNCHANGED <<pid, parent, chan, nextpid, cpu, pc, child, locked>>

-----------------------------------------------------------------------------
(* A system call that sleeps until an interrupt handler calls wakeup, as     *)
(* sys_sleep does.  The handler needs the spinlock (tickslock) that the      *)
(* process holds from its last check of the condition until sleep() has      *)
(* ptable.lock; kill does not.                                               *)

SleepCall(p) ==
  /\ Enters(p)
  /\ Goto(p, "check")
  /\ UNCHANGED <<table, nextpid, cpu, child, locked>>

\* while(condition){ if(killed) return -1; sleep(); }
SleepDone(p) ==
  /\ At(p, "check") /\ LockFree
  /\ Goto(p, "user")
  /\ UNCHANGED <<table, nextpid, cpu, child, locked>>

SleepMore(p) ==
  /\ At(p, "check") /\ LockFree
  /\ ~killed[p]
  /\ Goto(p, "tosleep")
  /\ UNCHANGED <<table, nextpid, cpu, child, locked>>

sleep(p) ==
  /\ At(p, "tosleep") /\ Free
  /\ state' = [state EXCEPT ![p] = "SLEEPING"]
  /\ chan' = [chan EXCEPT ![p] = Dev]
  /\ cpu' = OffCPU(p)
  /\ Goto(p, "check")
  /\ UNCHANGED <<pid, parent, killed, nextpid, child, locked>>

\* The interrupt handler: wakeup(&ticks).
Interrupt ==
  /\ LockFree /\ Free
  /\ state' = wakeup1(state, Dev)
  /\ UNCHANGED <<pid, parent, killed, chan, nextpid, cpu, pc, child, locked>>

-----------------------------------------------------------------------------

Step(p) ==
  \/ allocproc(p) \/ ForkFail(p) \/ ForkParent(p) \/ ForkDone(p)
  \/ Exit(p)
  \/ WaitReap(p) \/ WaitFail(p) \/ WaitSleep(p)
  \/ SleepCall(p) \/ SleepDone(p) \/ SleepMore(p) \/ sleep(p)

Next ==
  \/ \E p \in Slots : Step(p) \/ Yield(p)
  \/ \E p \in Slots, n \in 0..MaxPid : kill(p, n)
  \/ \E c \in CPUs, p \in Slots : Schedule(c, p)
  \/ Interrupt

Spec == Init /\ [][Next]_vars

-----------------------------------------------------------------------------
(* Properties. *)

Live(p) == state[p] \in {"SLEEPING", "RUNNABLE", "RUNNING"}

\* A process that runs is on exactly one CPU, and a CPU runs only processes
\* marked RUNNING: a slot is never reused, nor woken a second time, under a
\* CPU that still runs it (proc.c:341-351).
OneCPU ==
  /\ \A c \in CPUs : cpu[c] # None => state[cpu[c]] = "RUNNING"
  /\ \A p \in Slots : state[p] = "RUNNING" => \E c \in CPUs : cpu[c] = p
  /\ \A c, d \in CPUs : cpu[c] # None /\ cpu[c] = cpu[d] => c = d

\* Every process but init has a live parent to wait for it: exit passes the
\* children on before it becomes a zombie, and fork cannot add one later; a
\* free slot is nobody's child (proc.c:200,255-262,294).
LiveParent ==
  \A p \in Slots \ {initproc} :
    /\ Live(p) \/ state[p] = "ZOMBIE" => Live(parent[p])
    /\ state[p] = "UNUSED" => parent[p] = None

\* A process asleep in wait has a child to wait for, none of its children is
\* already a zombie, and nobody has killed it: no wakeup of exit or kill is
\* lost, also when the child is passed on to init (proc.c:252-262,304,487).
WaitNotMissed ==
  \A p \in Slots :
    state[p] = "SLEEPING" /\ chan[p] = p =>
      Children(p) # {} /\ Zombies(p) = {} /\ ~killed[p]

\* Processes have different pids, so that wait and kill mean one of them; the
\* pid a failed fork leaves in a free slot is no one else's.
PidsDiffer ==
  \A p \in Slots : pid[p] # 0 => \A q \in Slots : pid[p] = pid[q] => p = q

\* An EMBRYO belongs to exactly one process, which is in fork: the slot that
\* allocproc hands out, and that fork writes without ptable.lock, is touched
\* by nobody else (proc.c:79-98,193-213).
EmbryoOwned ==
  /\ \A n \in Slots : state[n] = "EMBRYO" =>
       \E p \in Slots : Live(p) /\ child[p] = n /\ pc[p] \in {"fork", "forkchild"}
  /\ \A p \in Slots : child[p] # None => \A q \in Slots : child[p] = child[q] => p = q

\* A slot of the process table has one life at a time: it is on one CPU, has a pid
\* of its own, and is filled by one process (proc.c:79-98, 341-351).
SlotsConsistent == TypeOK /\ OneCPU /\ PidsDiffer /\ EmbryoOwned

\* Whatever the order of fork, exit, wait and kill, every process has a live parent,
\* and no parent sleeps past the end of a child (proc.c:252-262, 284-305).
FamilyConsistent == LiveParent /\ WaitNotMissed

Reaping ==
  \A p \in Slots : state[p] = "ZOMBIE" /\ state'[p] # "ZOMBIE" =>
    /\ state'[p] = "UNUSED" /\ parent'[p] = None /\ pid'[p] = 0
    /\ state[parent[p]] = "RUNNING"

\* A slot leaves ZOMBIE only when its parent, on a CPU, reaps it in wait, and
\* is then free, nobody's child and without a pid (proc.c:287-297).
ReapedByParent == [][Reaping]_vars

\* A new process has not been killed: its pid is new, so that no call of kill
\* can have named it (proc.c:90,476).
BornAlive ==
  [][\A p \in Slots : state[p] = "UNUSED" /\ state'[p] = "EMBRYO" => ~killed'[p]]_vars

-----------------------------------------------------------------------------
(* The scheduler scans the whole table, so that a runnable process gets a    *)
(* CPU; a process in the kernel goes on, the timer keeps ticking, and every  *)
(* sleep of init has an end.  Programs may stay in user code for ever,       *)
(* except that init keeps calling wait and a killed process is stopped by    *)
(* the next interrupt.                                                       *)

Kernel(p) ==
  \/ ForkFail(p) \/ ForkParent(p) \/ ForkDone(p)
  \/ (pc[p] = "wait" /\ (WaitReap(p) \/ WaitFail(p) \/ WaitSleep(p)))
  \/ SleepDone(p) \/ sleep(p)
  \/ (killed[p] /\ Exit(p))

Fairness ==
  /\ WF_vars(Interrupt)
  /\ \A p \in Slots :
       /\ WF_vars(Yield(p))
       /\ SF_vars(\E c \in CPUs : Schedule(c, p))
       /\ SF_vars(Kernel(p))
  /\ SF_vars(SleepDone(initproc))
  /\ SF_vars(WaitReap(initproc))

FairSpec == Spec /\ Fairness

\* A process that is killed in user code, in fork, in wait or in sys_sleep exits.
\* kill wakes it if it sleeps; killed by another CPU between the test in
\* sys_sleep and sleep() it does sleep, but the next tick wakes it
\* (proc.c:304, 487-490; sysproc.c:70).  A sleep that no interrupt ends is KilledLeaves
\* of Pipe.
KilledExits ==
  \A p \in Slots \ {initproc} :
    Live(p) /\ killed[p] ~> state[p] \in {"ZOMBIE", "UNUSED"}

\* Once its parent is gone a zombie is reaped by init.
OrphansReaped ==
  \A p \in Slots : state[p] = "ZOMBIE" /\ parent[p] = initproc ~> state[p] = "UNUSED"
=============================================================================
