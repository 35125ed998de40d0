----------------------------- MODULE ProcProofs -----------------------------
(***************************************************************************)
(* Slots and the family tree of the process table stay consistent, for any *)
(* number of slots, CPUs and pids, and a zombie is reaped by its parent.   *)
(***************************************************************************)
EXTENDS Proc, WellFoundedInduction, TLAPS

-----------------------------------------------------------------------------
(* The inductive invariant. *)

\* init, the foster parent of every orphan, is there and has no parent.
InitLives == Live(initproc) /\ parent[initproc] = None

\* Pids in use are smaller than the next one.
PidsBelow == \A p \in Slots : pid[p] < nextpid

\* fork: who is in it has an EMBRYO, which is its child from the second step
\* on; who does not run, sleep or wait for a CPU is not in the kernel.
ForkInv ==
  /\ \A p \in Slots :
       /\ child[p] # None <=> pc[p] \in {"fork", "forkchild"}
       /\ pc[p] = "fork" => state[child[p]] = "EMBRYO" /\ parent[child[p]] = None
       /\ pc[p] = "forkchild" => state[child[p]] = "EMBRYO" /\ parent[child[p]] = p
       /\ ~Live(p) => pc[p] = "user"
  /\ \A n \in Slots : state[n] = "EMBRYO" => \E p \in Slots : child[p] = n
  /\ \A p, q \in Slots : child[p] # None /\ child[p] = child[q] => p = q

\* Every process but init has a parent, which is alive and not itself.
ParentInv ==
  \A p \in Slots :
    /\ parent[p] # p
    /\ p # initproc /\ (Live(p) \/ state[p] = "ZOMBIE") =>
         parent[p] # None /\ Live(parent[p])
    /\ state[p] = "UNUSED" => parent[p] = None

ProcInv ==
  /\ TypeOK /\ InitLives
  /\ OneCPU
  /\ PidsDiffer /\ PidsBelow
  /\ ForkInv /\ ParentInv
  /\ WaitNotMissed

-----------------------------------------------------------------------------

\* The order of the natural numbers, for the least slot of a scan.
LessThan == {ss \in Nat \X Nat : ss[1] < ss[2]}

\* Every set of natural numbers has a least one.
LEMMA LessThanWellFounded == IsWellFoundedOn(LessThan, Nat)
  BY NatLessThanWellFounded DEF OpToRel, LessThan

\* A scan of the table stops at a slot of the set it looks for.
LEMMA FirstIn ==
  ASSUME NEW S \in SUBSET Slots, S # {}
  PROVE  First(S) \in S
  <1>1. S \subseteq Nat
    BY ProcConstants DEF Slots, ProcConstants
  <1>2. PICK m \in S : \A y \in S : ~(<<y, m>> \in LessThan)
    BY <1>1, WFMin, LessThanWellFounded
  <1>3. ASSUME NEW y \in S PROVE m <= y
    <2>1. <<y, m>> \in Nat \X Nat /\ <<y, m>>[1] = y /\ <<y, m>>[2] = m
      BY <1>1
    <2>2. ~(y < m)
      BY <1>2, <2>1 DEF LessThan
    <2> QED BY <1>1, <2>2
  <1> QED BY <1>3 DEF First

\* The first state satisfies the invariant.
LEMMA InitProcInv == Init => ProcInv
  <1> SUFFICES ASSUME Init PROVE ProcInv
    OBVIOUS
  <1> USE ProcConstants DEF ProcConstants, Init, Slots, None, initproc
  <1>1. TypeOK /\ InitLives /\ PidsDiffer /\ PidsBelow
    BY DEF TypeOK, States, Dev, InitLives, Live, PidsDiffer, PidsBelow
  <1>2. OneCPU /\ ForkInv /\ ParentInv /\ WaitNotMissed
    BY DEF OneCPU, ForkInv, ParentInv, WaitNotMissed, Live
  <1> QED BY <1>1, <1>2 DEF ProcInv

\* init has a slot; the null pointer and the device's channel are no slots.
LEMMA SlotFacts ==
  initproc \in Slots /\ None \notin Slots /\ Dev \notin Slots /\ Dev # None
  BY ProcConstants DEF ProcConstants, Slots, None, Dev, initproc

-----------------------------------------------------------------------------
(* Each operation preserves the invariant. *)

\* Switching to and from a process changes neither its slot's owner nor its
\* family; only a process that sleeps in wait is on its own channel.
LEMMA SchedulerSteps ==
  ASSUME ProcInv, NEW p \in Slots,
         Yield(p) \/ \E c \in CPUs : Schedule(c, p)
  PROVE  ProcInv'
  <1> USE SlotFacts DEF ProcInv, TypeOK, States
  <1>1. CASE Yield(p)
    <2> USE <1>1 DEF Yield
    <2>1. TypeOK' /\ InitLives' /\ PidsDiffer' /\ PidsBelow'
      BY DEF OffCPU, InitLives, Live, PidsDiffer, PidsBelow
    <2>2. OneCPU'
      BY DEF OneCPU, OffCPU
    <2>3. ForkInv'
      BY DEF ForkInv, Live
    <2>4. ParentInv'
      BY DEF ParentInv, Live
    <2>5. WaitNotMissed'
      BY DEF WaitNotMissed, Children, Zombies
    <2> QED BY <2>1, <2>2, <2>3, <2>4, <2>5
  <1>2. CASE \E c \in CPUs : Schedule(c, p)
    <2> PICK c \in CPUs : Schedule(c, p)
      BY <1>2
    <2> USE DEF Schedule
    <2>1. TypeOK' /\ InitLives' /\ PidsDiffer' /\ PidsBelow'
      BY DEF InitLives, Live, PidsDiffer, PidsBelow
    <2>2. OneCPU'
      BY DEF OneCPU
    <2>3. ForkInv'
      BY DEF ForkInv, Live
    <2>4. ParentInv'
      BY DEF ParentInv, Live
    <2>5. WaitNotMissed'
      BY DEF WaitNotMissed, Children, Zombies
    <2> QED BY <2>1, <2>2, <2>3, <2>4, <2>5
  <1> QED BY <1>1, <1>2

\* allocproc takes a free slot, whose pid is new; until fork has filled it,
\* nobody but the caller's fork touches it.
LEMMA ForkSteps ==
  ASSUME ProcInv, NEW p \in Slots,
         allocproc(p) \/ ForkFail(p) \/ ForkParent(p) \/ ForkDone(p)
  PROVE  ProcInv'
  <1> USE SlotFacts DEF ProcInv, TypeOK, States, Goto
  <1>1. CASE allocproc(p)
    <2> DEFINE m == First(Unused)
    <2>0. m \in Slots /\ state[m] = "UNUSED" /\ m # p
      BY <1>1, FirstIn, SMTT(30) DEF allocproc, Unused, Enters, At
    <2> HIDE DEF m
    <2> USE <1>1, <2>0 DEF allocproc, Enters, At
    <2>1. TypeOK'
      BY ProcConstants DEF m, ProcConstants
    <2>7. InitLives'
      BY DEF m, InitLives, Live
    <2>6. PidsDiffer' /\ PidsBelow'
      BY ProcConstants, SMTT(30) DEF m, ProcConstants, PidsDiffer, PidsBelow
    <2>2. OneCPU'
      BY DEF m, OneCPU
    <2>3. ForkInv'
      <3>1. \A q \in Slots : child[q] # m
        BY DEF ForkInv
      <3>2. /\ child[p] = None /\ parent[m] = None /\ pc[p] = "user" /\ pc[m] = "user"
            /\ child[m] = None
        BY DEF ForkInv, ParentInv, Live
      <3>3. /\ child' = [child EXCEPT ![p] = m] /\ pc' = [pc EXCEPT ![p] = "fork"]
            /\ state' = [state EXCEPT ![m] = "EMBRYO"] /\ parent' = parent
        BY DEF m
      <3>4. \A q \in Slots \ {p} : child'[q] = child[q] /\ pc'[q] = pc[q]
        BY <3>3, SMTT(30)
      <3>5. ASSUME NEW q \in Slots, child[q] # None
            PROVE  child[q] \in Slots /\ state'[child[q]] = state[child[q]]
        BY <3>1, <3>3, <3>5
      <3> QED BY <3>1, <3>2, <3>3, <3>4, <3>5 DEF ForkInv, Live
    <2>4. ParentInv'
      BY DEF m, ParentInv, Live
    <2>5. WaitNotMissed'
      BY SMTT(30) DEF m, WaitNotMissed, Children, Zombies
    <2> QED BY <2>1, <2>2, <2>3, <2>4, <2>5, <2>6, <2>7
  <1>2. CASE ForkFail(p)
    <2>0. child[p] \in Slots /\ child[p] # p /\ state[child[p]] = "EMBRYO"
      BY <1>2 DEF ForkFail, At, ForkInv
    <2> USE <1>2, <2>0 DEF ForkFail, At
    <2>1. TypeOK' /\ InitLives' /\ PidsDiffer' /\ PidsBelow'
      BY DEF InitLives, Live, PidsDiffer, PidsBelow
    <2>2. OneCPU'
      BY DEF OneCPU
    <2>3. ForkInv'
      BY DEF ForkInv, Live
    <2>4. ParentInv'
      BY SMTT(30) DEF ForkInv, ParentInv, Live
    <2>5. WaitNotMissed'
      BY DEF ForkInv, WaitNotMissed, Children, Zombies, Live
    <2> QED BY <2>1, <2>2, <2>3, <2>4, <2>5
  <1>3. CASE ForkParent(p)
    <2>0. child[p] \in Slots /\ child[p] # p /\ state[child[p]] = "EMBRYO"
      BY <1>3, SMTT(30) DEF ForkParent, At, ForkInv
    <2> USE <1>3, <2>0 DEF ForkParent, At
    <2>1. TypeOK' /\ InitLives' /\ PidsDiffer' /\ PidsBelow'
      BY DEF InitLives, Live, PidsDiffer, PidsBelow
    <2>2. OneCPU'
      BY DEF OneCPU
    <2>3. ForkInv'
      BY SMTT(30) DEF ForkInv, Live
    <2>4. ParentInv'
      BY DEF ForkInv, ParentInv, Live
    <2>5. WaitNotMissed'
      BY DEF ForkInv, WaitNotMissed, Children, Zombies, Live
    <2> QED BY <2>1, <2>2, <2>3, <2>4, <2>5
  <1>4. CASE ForkDone(p)
    <2>0. child[p] \in Slots /\ child[p] # p /\ state[child[p]] = "EMBRYO"
      BY <1>4 DEF ForkDone, At, ForkInv
    <2> USE <1>4, <2>0 DEF ForkDone, At
    <2>1. TypeOK' /\ InitLives' /\ PidsDiffer' /\ PidsBelow'
      BY DEF InitLives, Live, PidsDiffer, PidsBelow
    <2>2. OneCPU'
      BY SMTT(30) DEF OneCPU
    <2>3. ForkInv'
      BY DEF ForkInv, Live
    <2>4. ParentInv'
      BY DEF ForkInv, ParentInv, Live
    <2>5. WaitNotMissed'
      BY DEF ForkInv, WaitNotMissed, Children, Zombies, Live
    <2> QED BY <2>1, <2>2, <2>3, <2>4, <2>5, SMTT(30)
  <1> QED BY <1>1, <1>2, <1>3, <1>4, SMTT(30)

\* exit leaves a zombie to a live parent and wakes it, passes the children on
\* to init, and wakes init if one of them is a zombie already.
LEMMA ExitStep ==
  ASSUME ProcInv, NEW p \in Slots, Exit(p)
  PROVE  ProcInv'
  <1> USE SlotFacts DEF ProcInv, TypeOK, States
  <1>1. /\ state[p] = "RUNNING" /\ pc[p] = "user" /\ p # initproc
        /\ child[p] = None /\ parent[p] \in Slots \ {p}
    BY DEF Exit, At, ForkInv, ParentInv, Live
  \* Who is woken, and that nobody else changes.
  <1>2. \A q \in Slots \ {p} :
          \/ state'[q] = state[q]
          \/ state[q] = "SLEEPING" /\ state'[q] = "RUNNABLE"
    BY SMTT(30) DEF Exit, wakeup1
  <1>3. state' \in [Slots -> States] /\ state'[p] = "ZOMBIE"
    BY DEF Exit, wakeup1
  <1>4. /\ ~(state'[parent[p]] = "SLEEPING" /\ chan[parent[p]] = parent[p])
        /\ Zombies(p) # {} =>
             ~(state'[initproc] = "SLEEPING" /\ chan[initproc] = initproc)
    BY <1>1 DEF Exit, wakeup1
  <1>5. \A q \in Slots : Live(q) /\ q # p => Live(q)'
    BY <1>2, SMTT(30) DEF Live
  <1>6. /\ parent' = [q \in Slots |-> IF parent[q] = p THEN initproc ELSE parent[q]]
        /\ cpu' = OffCPU(p)
        /\ UNCHANGED <<pid, killed, chan, nextpid, pc, child, locked>>
    BY DEF Exit
  <1>7. TypeOK' /\ InitLives' /\ PidsDiffer' /\ PidsBelow'
    BY <1>1, <1>3, <1>5, <1>6 DEF InitLives, OffCPU, PidsDiffer, PidsBelow
  <1>8. OneCPU'
    BY <1>1, <1>2, <1>3, <1>6, SMTT(30) DEF OneCPU, OffCPU
  <1>9. ForkInv'
    BY <1>1, <1>2, <1>3, <1>5, <1>6 DEF ForkInv, Live
  <1>10. ParentInv'
    BY <1>1, <1>2, <1>3, <1>5, <1>6 DEF InitLives, ParentInv, Live
  <1>11. WaitNotMissed'
    <2> SUFFICES ASSUME NEW q \in Slots, state'[q] = "SLEEPING", chan[q] = q
                 PROVE  Children(q)' # {} /\ Zombies(q)' = {} /\ ~killed[q]
      BY <1>6, SMTT(30) DEF WaitNotMissed
    <2>1. q # p /\ state[q] = "SLEEPING" /\ q # parent[p]
      BY <1>2, <1>3, <1>4, SMTT(30)
    <2>2. Children(q)' # {} /\ ~killed[q]
      BY <1>6, <2>1, SMTT(30) DEF WaitNotMissed, Children
    <2>3. Zombies(q)' = {}
      <3> SUFFICES ASSUME NEW z \in Slots, parent'[z] = q, state'[z] = "ZOMBIE"
                   PROVE  FALSE
        BY SMTT(30) DEF Zombies, Children
      <3>1. z # p
        BY <1>1, <1>6, <2>1, SMTT(30)
      <3>2. state[z] = "ZOMBIE"
        BY <1>2, <3>1, SMTT(30)
      <3> QED BY <1>4, <1>6, <2>1, <3>2 DEF WaitNotMissed, Zombies, Children
    <2> QED BY <2>2, <2>3, SMTT(30)
  <1> QED BY <1>7, <1>8, <1>9, <1>10, <1>11

\* wait reaps a zombie child, or gives up, or sleeps while it has children
\* and none of them is a zombie.
LEMMA WaitSteps ==
  ASSUME ProcInv, NEW p \in Slots,
         WaitReap(p) \/ WaitFail(p) \/ WaitSleep(p)
  PROVE  ProcInv'
  <1> USE SlotFacts DEF ProcInv, TypeOK, States, Goto
  <1>0. state[p] = "RUNNING" /\ pc[p] \in {"user", "wait"}
    BY SMTT(30) DEF WaitReap, WaitFail, WaitSleep, Scans, Enters, At
  <1>1. CASE WaitReap(p)
    <2> DEFINE z == First(Zombies(p))
    <2>0. z \in Slots /\ state[z] = "ZOMBIE" /\ parent[z] = p
      <3>1. Zombies(p) \in SUBSET Slots /\ Zombies(p) # {}
        BY <1>1 DEF WaitReap, Zombies, Children
      <3>2. z \in Zombies(p)
        BY <3>1, FirstIn
      <3> QED BY <3>2 DEF Zombies, Children
    <2> HIDE DEF z
    <2>1. /\ state' = [state EXCEPT ![z] = "UNUSED"] /\ pid' = [pid EXCEPT ![z] = 0]
          /\ parent' = [parent EXCEPT ![z] = None]
          /\ killed' = [killed EXCEPT ![z] = FALSE]
          /\ pc' = [pc EXCEPT ![p] = "user"] /\ locked' = None
          /\ UNCHANGED <<chan, nextpid, cpu, child>>
      BY <1>1 DEF WaitReap, z
    <2> USE <1>0, <2>0, <2>1
    <2>2. TypeOK' /\ InitLives' /\ PidsDiffer' /\ PidsBelow'
      BY ProcConstants, SMTT(30) DEF ProcConstants, InitLives, Live, PidsDiffer, PidsBelow
    <2>3. OneCPU'
      BY DEF OneCPU
    <2>4. ForkInv'
      BY DEF ForkInv, Live
    <2>5. ParentInv'
      BY SMTT(30) DEF InitLives, ParentInv, Live
    <2>6. WaitNotMissed'
      BY SMTT(30) DEF WaitNotMissed, Children, Zombies
    <2> QED BY <2>2, <2>3, <2>4, <2>5, <2>6
  <1>2. CASE WaitFail(p)
    <2> USE <1>0, <1>2 DEF WaitFail, table
    <2>1. TypeOK' /\ InitLives' /\ PidsDiffer' /\ PidsBelow'
      BY SMTT(30) DEF InitLives, Live, PidsDiffer, PidsBelow
    <2>2. OneCPU' /\ ForkInv'
      BY SMTT(30) DEF OneCPU, ForkInv, Live
    <2>3. ParentInv' /\ WaitNotMissed'
      BY SMTT(30) DEF ParentInv, Live, WaitNotMissed, Children, Zombies
    <2> QED BY <2>1, <2>2, <2>3, SMTT(30)
  <1>3. CASE WaitSleep(p)
    <2> USE <1>0, <1>3 DEF WaitSleep
    <2>1. TypeOK' /\ InitLives' /\ PidsDiffer' /\ PidsBelow'
      BY SMTT(30) DEF OffCPU, InitLives, Live, PidsDiffer, PidsBelow
    <2>2. OneCPU'
      BY DEF OneCPU, OffCPU
    <2>3. ForkInv'
      BY SMTT(30) DEF ForkInv, Live
    <2>4. ParentInv'
      BY SMTT(30) DEF ParentInv, Live
    <2>5. WaitNotMissed'
      BY DEF WaitNotMissed, Children, Zombies
    <2> QED BY <2>1, <2>2, <2>3, <2>4, <2>5, SMTT(30)
  <1> QED BY <1>1, <1>2, <1>3, SMTT(30)

\* kill wakes whom it kills, so that it leaves nobody asleep in wait.
LEMMA KillStep ==
  ASSUME ProcInv, NEW p \in Slots, NEW k \in 0..MaxPid, kill(p, k)
  PROVE  ProcInv'
  <1> USE SlotFacts DEF ProcInv, TypeOK, States
  <1> DEFINE S == {r \in Slots : pid[r] = k}
             q == First(S)
  <1>1. q \in Slots
    <2>1. S \in SUBSET Slots /\ S # {}
      BY DEF kill
    <2> HIDE DEF S
    <2> QED BY <2>1, FirstIn, SMTT(30)
  <1>2. /\ killed' = [killed EXCEPT ![q] = TRUE]
        /\ state' = IF state[q] = "SLEEPING" THEN [state EXCEPT ![q] = "RUNNABLE"] ELSE state
        /\ UNCHANGED <<pid, parent, chan, nextpid, cpu, pc, child, locked>>
    BY SMTT(30) DEF kill
  <1> HIDE DEF q
  <1> USE <1>1, <1>2
  <1>3. TypeOK' /\ InitLives' /\ PidsDiffer' /\ PidsBelow'
    BY DEF InitLives, Live, PidsDiffer, PidsBelow
  <1>4. OneCPU'
    BY DEF OneCPU
  <1>5. ForkInv'
    BY SMTT(30) DEF ForkInv, Live
  <1>6. ParentInv'
    BY SMTT(30) DEF ParentInv, Live
  <1>7. WaitNotMissed'
    BY DEF WaitNotMissed, Children, Zombies
  <1> QED BY <1>3, <1>4, <1>5, <1>6, <1>7

\* Sleeping for a device, and the wakeup by its interrupt handler, concern a
\* channel that is no process.
LEMMA SleepSteps ==
  ASSUME ProcInv,
         \/ Interrupt
         \/ \E p \in Slots : SleepCall(p) \/ SleepDone(p) \/ SleepMore(p) \/ sleep(p)
  PROVE  ProcInv'
  <1> USE SlotFacts DEF ProcInv, TypeOK, States, Goto
  <1>1. CASE Interrupt
    <2> USE <1>1 DEF Interrupt, wakeup1
    <2>1. TypeOK' /\ InitLives' /\ PidsDiffer' /\ PidsBelow'
      BY SMTT(30) DEF InitLives, Live, PidsDiffer, PidsBelow
    <2>2. OneCPU'
      BY SMTT(30) DEF OneCPU
    <2>3. ForkInv'
      BY DEF ForkInv, Live
    <2>4. ParentInv'
      BY SMTT(30) DEF ParentInv, Live
    <2>5. WaitNotMissed'
      BY SMTT(30) DEF WaitNotMissed, Children, Zombies
    <2> QED BY <2>1, <2>2, <2>3, <2>4, <2>5, SMTT(30)
  <1>2. ASSUME NEW p \in Slots, SleepCall(p) \/ SleepDone(p) \/ SleepMore(p)
        PROVE  ProcInv'
    <2> USE <1>2 DEF SleepCall, SleepDone, SleepMore, Enters, At, table
    <2>1. TypeOK' /\ InitLives' /\ PidsDiffer' /\ PidsBelow'
      BY SMTT(30) DEF InitLives, Live, PidsDiffer, PidsBelow
    <2>2. OneCPU' /\ ForkInv'
      BY SMTT(30) DEF OneCPU, ForkInv, Live
    <2>3. ParentInv' /\ WaitNotMissed'
      BY SMTT(30) DEF ParentInv, Live, WaitNotMissed, Children, Zombies
    <2> QED BY <2>1, <2>2, <2>3, SMTT(30)
  <1>3. ASSUME NEW p \in Slots, sleep(p)
        PROVE  ProcInv'
    <2> USE <1>3 DEF sleep, At
    <2>1. TypeOK' /\ InitLives' /\ PidsDiffer' /\ PidsBelow'
      BY SMTT(30) DEF OffCPU, InitLives, Live, PidsDiffer, PidsBelow
    <2>2. OneCPU'
      BY DEF OneCPU, OffCPU
    <2>3. ForkInv'
      BY SMTT(30) DEF ForkInv, Live
    <2>4. ParentInv'
      BY DEF ParentInv, Live
    <2>5. WaitNotMissed'
      BY DEF WaitNotMissed, Children, Zombies
    <2> QED BY <2>1, <2>2, <2>3, <2>4, <2>5, SMTT(30)
  <1> QED BY <1>1, <1>2, <1>3, SMTT(30)

-----------------------------------------------------------------------------
(* The theorems. *)

\* ProcInv holds in every reachable state.
THEOREM ProcInvariant == Spec => []ProcInv
  <1>1. ProcInv /\ [Next]_vars => ProcInv'
    <2> SUFFICES ASSUME ProcInv, [Next]_vars PROVE ProcInv'
      OBVIOUS
    <2>1. CASE Next
      BY <2>1, SchedulerSteps, ForkSteps, ExitStep, WaitSteps, KillStep, SleepSteps, SMTT(30)
      DEF Next, Step
    <2>2. CASE UNCHANGED vars
      <3> USE <2>2 DEF vars, table, ProcInv
      <3>1. TypeOK'
        BY SMTT(30) DEF TypeOK
      <3>2. InitLives' /\ OneCPU'
        BY SMTT(30) DEF InitLives, Live, OneCPU
      <3>3. PidsDiffer' /\ PidsBelow'
        BY SMTT(30) DEF PidsDiffer, PidsBelow
      <3>4. ForkInv'
        BY SMTT(30) DEF ForkInv, Live
      <3>5. ParentInv'
        BY SMTT(30) DEF ParentInv, Live
      <3>6. WaitNotMissed'
        BY SMTT(30) DEF WaitNotMissed, Children, Zombies
      <3> QED BY <3>1, <3>2, <3>3, <3>4, <3>5, <3>6
    <2> QED BY <2>1, <2>2
  <1> QED BY <1>1, InitProcInv, PTL DEF Spec

\* A slot is on one CPU at most, has a pid of its own, and while it is being
\* filled belongs to the one process that forks (proc.c:79-98, 341-351).
THEOREM SlotsStayConsistent == Spec => []SlotsConsistent
  <1>1. ProcInv => SlotsConsistent
    <2> SUFFICES ASSUME ProcInv PROVE EmbryoOwned
      BY DEF ProcInv, SlotsConsistent
    <2> QED BY SlotFacts DEF ProcInv, TypeOK, ForkInv, EmbryoOwned
  <1> QED BY <1>1, ProcInvariant, PTL

\* Every process has a live parent, and nobody sleeps in wait past the end of
\* a child, whatever the order of fork, exit, wait and kill (proc.c:252-305).
THEOREM FamilyStaysConsistent == Spec => []FamilyConsistent
  <1>1. ProcInv => FamilyConsistent
    BY DEF ProcInv, ParentInv, FamilyConsistent, LiveParent
  <1> QED BY <1>1, ProcInvariant, PTL

\* Only its parent, in wait, frees the slot of a zombie, and wipes it
\* (proc.c:287-297).
THEOREM ZombiesReapedByParent == Spec => ReapedByParent
  <1>1. ProcInv /\ [Next]_vars => [Reaping]_vars
    <2> SUFFICES ASSUME ProcInv, Next,
                        NEW z \in Slots, state[z] = "ZOMBIE", state'[z] # "ZOMBIE"
                 PROVE  /\ state'[z] = "UNUSED" /\ parent'[z] = None /\ pid'[z] = 0
                        /\ state[parent[z]] = "RUNNING"
      BY DEF Reaping
    <2> USE DEF ProcInv, TypeOK
    <2>1. PICK p \in Slots : WaitReap(p)
      <3>1. ASSUME NEW p \in Slots, allocproc(p) PROVE FALSE
        <4>1. Unused \in SUBSET Slots /\ Unused # {}
          BY <3>1 DEF allocproc, Unused
        <4>2. First(Unused) \in Slots /\ state[First(Unused)] = "UNUSED"
          <5>1. First(Unused) \in Unused
            BY <4>1, FirstIn
          <5> QED BY <5>1 DEF Unused
        <4> QED BY <3>1, <4>2 DEF allocproc
      <3>2. ASSUME NEW p \in Slots, ForkFail(p) \/ ForkParent(p) \/ ForkDone(p)
            PROVE  FALSE
        BY <3>2, SlotFacts DEF ForkFail, ForkParent, ForkDone, At, ForkInv
      <3>3. ASSUME NEW p \in Slots, Exit(p) PROVE FALSE
        BY <3>3, SMTT(30) DEF Exit, wakeup1
      <3>4. ASSUME NEW p \in Slots,
                   WaitFail(p) \/ WaitSleep(p) \/ Yield(p) \/ SleepCall(p)
                   \/ SleepDone(p) \/ SleepMore(p) \/ sleep(p)
            PROVE  FALSE
        BY <3>4, SMTT(30) DEF WaitFail, WaitSleep, Yield, SleepCall, SleepDone, SleepMore, sleep,
                    Scans, Enters, At, table
      <3>5. ASSUME NEW p \in Slots, NEW k \in 0..MaxPid, kill(p, k) PROVE FALSE
        BY <3>5 DEF kill
      <3>6. ASSUME NEW c \in CPUs, NEW p \in Slots, Schedule(c, p) PROVE FALSE
        BY <3>6 DEF Schedule
      <3>7. ASSUME Interrupt PROVE FALSE
        BY <3>7, SMTT(30) DEF Interrupt, wakeup1
      <3> QED BY <3>1, <3>2, <3>3, <3>4, <3>5, <3>6, <3>7, SMTT(30) DEF Next, Step
    <2>2. Zombies(p) \in SUBSET Slots /\ Zombies(p) # {}
      BY <2>1, SMTT(30) DEF WaitReap, Zombies, Children
    <2>3. First(Zombies(p)) \in Slots /\ parent[First(Zombies(p))] = p
      <3>1. First(Zombies(p)) \in Zombies(p)
        BY <2>2, FirstIn
      <3> QED BY <3>1 DEF Zombies, Children
    <2>4. z = First(Zombies(p))
      BY <2>1, <2>3 DEF WaitReap
    <2> QED BY <2>1, <2>3, <2>4 DEF WaitReap, Scans, Enters, At
  <1> QED BY <1>1, ProcInvariant, PTL DEF Spec, ReapedByParent
=============================================================================
