------------------------------ MODULE Spinlock ------------------------------
(***************************************************************************)
(* Spin locks, the interrupt flag and the hand-over of ptable.lock         *)
(* (src/spinlock.c; sched, scheduler, yield, sleep and forkret of          *)
(* src/proc.c; trap of src/trap.c).  A thread is a process in the kernel   *)
(* or the scheduler of a CPU.  Its code is the sequence of the operations  *)
(* it has yet to do; an interrupt puts the handler's in front.             *)
(***************************************************************************)
EXTENDS Integers, Sequences, FiniteSets

CONSTANTS CPUs, Procs

VARIABLES
  locked, holder,   \* lk->locked, lk->cpu
  run,              \* the thread a CPU runs
  flag,             \* FL_IF of a CPU
  ncli, intena,     \* struct cpu
  code,             \* the operations a thread has still to do
  saved,            \* local variable intena of sched
  state,            \* p->state
  spanic            \* the message of a panic

cpus == <<flag, ncli, intena>>
locks == <<locked, holder>>
svars == <<locks, run, cpus, code, saved, state, spanic>>

Threads == Procs \cup CPUs
Locks == {"ptable", "dev"}
NoCPU == "none"

\* fl is the local variable eflags of pushcli.
Op(name, lk) == [op |-> name, lk |-> lk, fl |-> FALSE]
acquire(lk) == <<Op("readeflags", lk), Op("cli", lk), Op("xchg", lk)>>
release(lk) == <<Op("release", lk)>>
sched == <<Op("sched", "ptable"), Op("resume", "ptable")>>
yield == acquire("ptable") \o <<Op("RUNNABLE", "ptable")>> \o sched
         \o release("ptable")
sleep(lk) == acquire("ptable") \o release(lk) \o <<Op("SLEEPING", "ptable")>>
             \o sched \o release("ptable") \o acquire(lk)
wakeup == acquire("ptable") \o <<Op("wake", "ptable")>> \o release("ptable")

\* forkret(), with the flag of whichever thread ran last, and trapret
forkret == release("ptable") \o <<Op("trapret", "ptable")>>

\* One turn of the scheduler's loop, after its sti().
scheduler == acquire("ptable") \o <<Op("pick", "ptable")>>
             \o release("ptable")

\* A process waits for a device once, with the device's lock held.
DeviceCall == acquire("dev") \o sleep("dev") \o release("dev")
\* trap(): the handler of a device that wakes sleepers, or of the timer
DeviceInterrupt == acquire("dev") \o wakeup \o release("dev")
trap(t, timer) ==
  (IF timer THEN IF t \in Procs THEN yield ELSE <<>> ELSE DeviceInterrupt)
  \o <<Op("iret", "ptable")>>

SInit ==
  /\ locked = [lk \in Locks |-> FALSE] /\ holder = [lk \in Locks |-> NoCPU]
  /\ run = [c \in CPUs |-> c]
  /\ flag = [c \in CPUs |-> FALSE]
  /\ ncli = [c \in CPUs |-> 0] /\ intena = [c \in CPUs |-> FALSE]
  /\ code = [t \in Threads |->
              IF t \in CPUs THEN <<>> ELSE forkret]
  /\ saved = [p \in Procs |-> FALSE]
  /\ state = [p \in Procs |-> "RUNNABLE"]
  /\ spanic = ""

-----------------------------------------------------------------------------
holding(lk, c) == locked[lk] /\ holder[lk] = c

\* Go on with the code of thread t, after its first operation.
Step(t) == code' = [code EXCEPT ![t] = Tail(@)]
Panic(msg) == spanic' = msg /\ UNCHANGED <<locks, run, cpus, code, saved,
                                            state>>

\* pushcli() after its readeflags()
pushcli(c, t) ==
  /\ flag' = [flag EXCEPT ![c] = FALSE]
  /\ intena' = [intena EXCEPT ![c] = IF ncli[c] = 0 THEN Head(code[t]).fl ELSE @]
  /\ ncli' = [ncli EXCEPT ![c] = @ + 1]

popcli(c) ==
  /\ ncli' = [ncli EXCEPT ![c] = @ - 1]
  /\ flag' = [flag EXCEPT ![c] = ncli[c] = 1 /\ intena[c]]
  /\ intena' = intena

\* The first half of pushcli(): an interrupt can come before the cli().
Readeflags(c, t) ==
  /\ Head(code[t]).op = "readeflags"
  /\ code' = [code EXCEPT ![t] = [Tail(@) EXCEPT ![1].fl = flag[c]]]
  /\ UNCHANGED <<locks, run, cpus, saved, state, spanic>>

\* The rest of pushcli(), and acquire()'s test
Cli(c, t) ==
  LET lk == Head(code[t]).lk IN
  /\ Head(code[t]).op = "cli"
  /\ IF holding(lk, c) THEN Panic("acquire")
     ELSE /\ pushcli(c, t)
          /\ Step(t)
          /\ UNCHANGED <<locks, run, saved, state, spanic>>

\* acquire()'s xchg succeeds.
Xchg(c, t) ==
  LET lk == Head(code[t]).lk IN
  /\ Head(code[t]).op = "xchg" /\ ~locked[lk]
  /\ locked' = [locked EXCEPT ![lk] = TRUE]
  /\ holder' = [holder EXCEPT ![lk] = c]
  /\ Step(t)
  /\ UNCHANGED <<run, cpus, saved, state, spanic>>

Release(c, t) ==
  LET lk == Head(code[t]).lk IN
  /\ Head(code[t]).op = "release"
  /\ IF ~holding(lk, c) THEN Panic("release")
     ELSE IF flag[c] THEN Panic("popcli - interruptible")
     ELSE IF ncli[c] < 1 THEN Panic("popcli")
     ELSE /\ locked' = [locked EXCEPT ![lk] = FALSE]
          /\ holder' = [holder EXCEPT ![lk] = NoCPU]
          /\ popcli(c)
          /\ Step(t)
          /\ UNCHANGED <<run, saved, state, spanic>>

-----------------------------------------------------------------------------
\* p->state = RUNNABLE in yield(), SLEEPING in sleep()
SetState(c, p) ==
  /\ Head(code[p]).op \in {"RUNNABLE", "SLEEPING"}
  /\ state' = [state EXCEPT ![p] = Head(code[p]).op]
  /\ Step(p)
  /\ UNCHANGED <<locks, run, cpus, saved, spanic>>

\* wakeup1()
Wake(c, t) ==
  /\ Head(code[t]).op = "wake"
  /\ state' = [p \in Procs |-> IF state[p] = "SLEEPING" THEN "RUNNABLE"
                               ELSE state[p]]
  /\ Step(t)
  /\ UNCHANGED <<locks, run, cpus, saved, spanic>>

\* sched() up to its swtch(): the CPU goes back to its scheduler.
Sched(c, p) ==
  /\ Head(code[p]).op = "sched"
  /\ IF ~holding("ptable", c) THEN Panic("sched ptable.lock")
     ELSE IF ncli[c] # 1 THEN Panic("sched locks")
     ELSE IF state[p] = "RUNNING" THEN Panic("sched running")
     ELSE IF flag[c] THEN Panic("sched interruptible")
     ELSE /\ saved' = [saved EXCEPT ![p] = intena[c]]
          /\ run' = [run EXCEPT ![c] = c]
          /\ Step(p)
          /\ UNCHANGED <<locks, cpus, state, spanic>>

\* Variant: intena is taken for a property of the CPU.
Restored_Cpu(c, p) == intena[c]

Restored(c, p) == saved[p]

\* sched() after its swtch()
Resume(c, p) ==
  /\ Head(code[p]).op = "resume"
  /\ intena' = [intena EXCEPT ![c] = Restored(c, p)]
  /\ Step(p)
  /\ UNCHANGED <<locks, run, flag, ncli, saved, state, spanic>>

\* The scheduler enables interrupts, and starts the next turn of its loop.
Scheduler(c) ==
  /\ run[c] = c /\ code[c] = <<>>
  /\ flag' = [flag EXCEPT ![c] = TRUE]
  /\ code' = [code EXCEPT ![c] = scheduler]
  /\ UNCHANGED <<locks, run, ncli, intena, saved, state, spanic>>

\* The scheduler finds a process to run, or reaches the end of the table.
Pick(c, t) ==
  /\ Head(code[t]).op = "pick"
  /\ \/ /\ \E p \in Procs :
             /\ state[p] = "RUNNABLE"
             /\ state' = [state EXCEPT ![p] = "RUNNING"]
             /\ run' = [run EXCEPT ![c] = p]
        /\ code' = code
     \/ Step(t) /\ UNCHANGED <<run, state>>
  /\ UNCHANGED <<locks, cpus, saved, spanic>>

-----------------------------------------------------------------------------
\* The handler returns to where IF was set; a new process starts with it set.
Iret(c, t) ==
  /\ Head(code[t]).op \in {"iret", "trapret"}
  /\ flag' = [flag EXCEPT ![c] = TRUE]
  /\ Step(t)
  /\ UNCHANGED <<locks, run, ncli, intena, saved, state, spanic>>

\* An interrupt comes in through an interrupt gate, which clears IF.
Interrupt(c) ==
  /\ flag[c] /\ spanic = ""
  /\ \E timer \in BOOLEAN :
       code' = [code EXCEPT ![run[c]] = trap(run[c], timer) \o @]
  /\ flag' = [flag EXCEPT ![c] = FALSE]
  /\ UNCHANGED <<locks, run, ncli, intena, saved, state, spanic>>

\* A process in the kernel, with interrupts on, calls a driver.
Start(c) ==
  /\ run[c] \in Procs /\ code[run[c]] = <<>>
  /\ code' = [code EXCEPT ![run[c]] = DeviceCall]
  /\ UNCHANGED <<locks, run, cpus, saved, state, spanic>>

Execute(c) ==
  LET t == run[c] IN
  /\ code[t] # <<>> /\ spanic = ""
  /\ \/ Readeflags(c, t) \/ Cli(c, t) \/ Xchg(c, t) \/ Release(c, t)
     \/ SetState(c, t) \/ Wake(c, t) \/ Sched(c, t) \/ Resume(c, t)
     \/ Pick(c, t) \/ Iret(c, t)

SNext == \E c \in CPUs : Scheduler(c) \/ Interrupt(c) \/ Start(c) \/ Execute(c)

-----------------------------------------------------------------------------
Spinning(t) == code[t] # <<>> /\ Head(code[t]).op = "xchg"
InHandler(t) == \E i \in DOMAIN code[t] : code[t][i].op = "iret"

\* A CPU with a lock, or spinning for one, takes no interrupt, and ncli
\* counts the locks it holds and waits for, also when ptable.lock passes
\* from the thread that took it to the one that releases it.
NcliCountsLocks ==
  \A c \in CPUs :
    /\ ncli[c] = Cardinality({lk \in Locks : holding(lk, c)})
                 + (IF Spinning(run[c]) THEN 1 ELSE 0)
    /\ ncli[c] > 0 => ~flag[c]

\* No sequence of acquire, release, sched and interrupts reaches a panic of
\* spinlock.c or sched(): above all no handler waits for a lock of the
\* thread it interrupted.
NoSpinPanic == spanic = ""

\* "intena is a property of this kernel thread, not this CPU": after its
\* last release a thread finds interrupts as before its first acquire, on
\* whichever CPU it goes on: off in a handler, on otherwise (a scheduler
\* about to sti(), and a new process about to leave the kernel, excepted).
FlagRestored ==
  \A c \in CPUs :
    \/ ncli[c] > 0 \/ code[run[c]] = <<>>
    \/ Head(code[run[c]]).op = "trapret"
    \/ flag[c] = ~InHandler(run[c])

\* Locks and interrupts do not get in each other's way: the nesting is counted
\* right, no handler spins for ever, and every thread finds the flag it left
\* (spinlock.c:24-123, proc.c:358-382).
InterruptsSound == NcliCountsLocks /\ NoSpinPanic /\ FlagRestored
=============================================================================
