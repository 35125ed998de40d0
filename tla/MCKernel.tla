------------------------------ MODULE MCKernel ------------------------------
(***************************************************************************)
(* The parts of the kernel that processes, interrupts and CPUs share, for  *)
(* TLC.  A behaviour is one of the part that `part` names; the variables   *)
(* of the other parts keep their initial values.  The two parts that are   *)
(* not extended keep their variables in the cells x1 .. x16, and leave the *)
(* cells they have no use for at NoProc.                                   *)
(***************************************************************************)
EXTENDS Proc, Pipe, Console, MCMachines

CONSTANTS SLOTS, MaxSends            \* Network

VARIABLES part, x1, x2, x3, x4, x5, x6, x7, x8, x9, x10, x11, x12, x13, x14,
          x15, x16

S == INSTANCE Spinlock WITH
  locked <- x1, holder <- x2, run <- x3, flag <- x4,
  ncli <- x5, intena <- x6, code <- x7, saved <- x8, state <- x9,
  spanic <- x10

N == INSTANCE Network WITH
  Buses <- Machines, bus <- x1, totdev <- x2, nics <- x3,
  npanic <- x4, tbd <- x5, tbuf <- x6, tbdtail <- x7, tdlen <- x8, tdh <- x9,
  tdt <- x10, wire <- x11, npc <- x12, frame <- x13, oldtail <- x14,
  asked <- x15, overlap <- x16

Symmetry == Permutations(CPUs) \cup Permutations(Procs)

xvars == <<x1, x2, x3, x4, x5, x6, x7, x8, x9, x10, x11, x12, x13, x14, x15, x16>>
kvars == <<part, vars, pvars, cvars, xvars>>
From11 == <<x11, x12, x13, x14, x15, x16>>

No11 ==
  /\ x11 = NoProc /\ x12 = NoProc /\ x13 = NoProc /\ x14 = NoProc
  /\ x15 = NoProc /\ x16 = NoProc
No1 ==
  /\ x1 = NoProc /\ x2 = NoProc /\ x3 = NoProc /\ x4 = NoProc /\ x5 = NoProc
  /\ x6 = NoProc /\ x7 = NoProc /\ x8 = NoProc /\ x9 = NoProc /\ x10 = NoProc
  /\ No11

KInit ==
  /\ Init /\ PInit /\ CInit
  /\ \/ part \in {"proc", "pipe", "console"} /\ No1
     \/ part = "spin" /\ S!SInit /\ No11
     \/ part = "network" /\ N!NInit
  /\ part # "pipe" => \A i \in DOMAIN data : data[i] = 0

KNext ==
  \/ part = "proc" /\ Next /\ UNCHANGED <<part, pvars, cvars, xvars>>
  \/ part = "pipe" /\ PNext /\ UNCHANGED <<part, vars, cvars, xvars>>
  \/ part = "console" /\ CNext /\ UNCHANGED <<part, vars, pvars, xvars>>
  \/ part = "spin" /\ S!SNext /\ UNCHANGED <<part, vars, pvars, cvars, From11>>
  \/ part = "network" /\ N!NNext /\ UNCHANGED <<part, vars, pvars, cvars>>

KSpec == KInit /\ [][KNext]_kvars

-----------------------------------------------------------------------------
(* The properties of the parts that are not extended, each stated in the    *)
(* module of its part.                                                      *)

\* Locks and interrupts do not get in each other's way: the nesting is counted
\* right, no handler spins for ever, and every thread finds the flag it left
\* (spinlock.c:24-123, proc.c:358-382).
InterruptsSound == part = "spin" => S!InterruptsSound

\* The scan leaves every bar as it was, and registers a card exactly when a
\* function that answers is an E1000, with the memory base of that card.
ScanFindsCard == part = "network" => N!ScanFindsCard

\* As long as no two calls overlap, the card sends the frames of the driver in
\* the order of the calls, and a call that has returned has its frame on the
\* wire: "done" in a descriptor is never that of an earlier frame in its slot
\* (e1000.c:274-291).
SentInOrder == part = "network" => N!SentInOrder
=============================================================================
