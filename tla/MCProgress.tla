----------------------------- MODULE MCProgress -----------------------------
(***************************************************************************)
(* Progress of the process table, the log and a sleep-lock, for TLC.  A    *)
(* behaviour is one of the part that `part` names; the variables of the    *)
(* other parts keep their initial values.                                  *)
(***************************************************************************)
EXTENDS SleepLock, TLC

CONSTANTS Blocks, Vals, NoVal, NoBlock, MAXOPBLOCKS, LOGSIZE, NLOG, OpBlocks,
          NPROC, CPUs, MaxPid

VARIABLES
  part,
  home, logblk, head, lh, outstanding, committing, cache, dirty, lpc, held,
  wrote, step, tail, booted,
  state, rpid, parent, killed, chan, nextpid, cpu, rpc, child, rlocked

L == INSTANCE Log WITH pc <- lpc
R == INSTANCE Proc WITH pid <- rpid, pc <- rpc, locked <- rlocked

lvars == <<home, logblk, head, lh, outstanding, committing, cache, dirty, lpc,
           held, wrote, step, tail, booted>>
rvars == <<state, rpid, parent, killed, chan, nextpid, cpu, rpc, child, rlocked>>
pvars == <<part, vars, lvars, rvars>>

PInit == part \in {"proc", "log", "lock"} /\ Init /\ L!Init /\ R!Init

\* The steps of each part, the others at rest.
P(A) == part = "proc" /\ A /\ UNCHANGED <<part, vars, lvars>>
Q(A) == part = "log" /\ A /\ UNCHANGED <<part, vars, rvars>>
T(A) == part = "lock" /\ A /\ UNCHANGED <<part, lvars, rvars>>

PNext == P(R!Next) \/ Q(L!Next) \/ T(Next)

\* The conjunction of the Fairness of the parts.  Only one part moves, so one
\* condition on a disjunction is the conjunction of those on its disjuncts.
PFairness ==
  /\ WF_pvars(P(R!Interrupt) \/ Q(L!CommitStep))
  /\ \A p \in Procs :
       /\ WF_pvars(P(R!Yield(p)) \/ Q(L!LogWrite(p)) \/ T(Leave(p)))
       /\ WF_pvars(Q(L!FinishCommit(p)))
       /\ SF_pvars(P(\E c \in CPUs : R!Schedule(c, p)) \/ Q(L!EndOp(p)) \/ T(Work(p)))
       /\ SF_pvars(P(R!Kernel(p)))
  /\ SF_pvars(P(R!SleepDone(R!initproc)))
  /\ SF_pvars(P(R!WaitReap(R!initproc)))

PSpec == PInit /\ [][PNext]_pvars /\ PFairness

-----------------------------------------------------------------------------
(* The properties that are not SleepLock's, each stated in the module of   *)
(* its part.                                                               *)

\* Every process that sleeps in begin_op is woken, by the end of a commit or of
\* another call, and every commit ends and lets new calls begin
\* (log.c:130-134, 161, 169-173).
LogProgress == L!SleepersWake /\ L!CommitsEnd

\* A process that is killed in user code, in fork, in wait or in sys_sleep exits,
\* also when another CPU kills it between the test of p->killed and sleep():
\* the next tick wakes it (proc.c:304, 487-490; sysproc.c:70).
KilledExits == R!KilledExits

\* Once its parent is gone a zombie is reaped by init.
OrphansReaped == R!OrphansReaped
=============================================================================
