----------------------------- MODULE MCAnswers -----------------------------
(***************************************************************************)
(* What the disk, the network card and the other end of a pipe answer, for *)
(* TLC.  A behaviour is one of the part that `part` names; the variables   *)
(* of the other parts keep their initial values.                           *)
(***************************************************************************)
EXTENDS Pipe, MCMachines

CONSTANTS p1, p2,                                      \* the elements of Procs
          NBUF, NBLOCKS, Written, MaxPinned, Faulty,   \* Disk
          SLOTS, MaxSends                              \* Network

VARIABLES
  part,
  buf, owner, lru, idequeue, device, disk, dpc, bp, want, driver, panic,
  current, failed,
  bus, totdev, nics, npanic, tbd, tbuf, tbdtail, tdlen, tdh, tdt, wire, npc,
  frame, oldtail, asked, overlap

\* Two processes that share block 1 and two buffers.
BlocksUsed == p1 :> {1, 2} @@ p2 :> {1}

D == INSTANCE Disk WITH Reads <- BlocksUsed, pc <- dpc
N == INSTANCE Network WITH Buses <- {OneCard}

dvars == <<buf, owner, lru, idequeue, device, disk, dpc, bp, want, driver,
           panic, current, failed>>
nvars == <<bus, totdev, nics, npanic, tbd, tbuf, tbdtail, tdlen, tdh, tdt, wire,
           npc, frame, oldtail, asked, overlap>>
mvars == <<part, pvars, dvars, nvars>>

MInit ==
  /\ part \in {"pipe", "disk", "network"}
  /\ PInit /\ D!DInit /\ N!NInit
  /\ part # "disk" => driver = "ide"
  /\ part # "network" => \A i \in DOMAIN tbd : ~tbd[i].done

\* The steps of each part, the others at rest.
P(A) == part = "pipe" /\ A /\ UNCHANGED <<part, dvars, nvars>>
B(A) == part = "disk" /\ panic = "" /\ A /\ UNCHANGED <<part, pvars, nvars>>
C(A) == part = "network" /\ A /\ UNCHANGED <<part, pvars, dvars>>

MNext == P(PNext) \/ B(D!DNext) \/ C(N!NNext)

\* Pipe's Fairness; the disk and the card go on with what they were given,
\* and so does a process that waits for them and is woken, or polls.
MFairness ==
  /\ WF_mvars(B(D!Device) \/ C(N!Transmit))
  /\ \A p \in Procs :
       /\ SF_mvars(P(Work(p)))
       /\ SF_mvars(P(pipeclose(p)))
       /\ WF_mvars(B(D!Return(p)) \/ C(N!sende1000(p)))

MSpec == MInit /\ [][MNext]_mvars /\ MFairness

-----------------------------------------------------------------------------
(* The properties that are not Pipe's, each stated in the module of its     *)
(* part.                                                                    *)

\* Every request given to the driver is answered, also behind others in the queue
\* and after a device error: the loop of iderw ends (ide.c:161).
RequestsAnswered == D!RequestsAnswered

\* A call that no other overlaps ends, unless the card has left the ring:
\* sende1000 has no timeout (e1000.c:287).
SendReturns == N!SendReturns

\* The card works on the ring that the driver has set up for it, of
\* E1000_TBD_SLOTS descriptors (e1000.c:16-22, 382-386).
WithinRing == N!WithinRing
=============================================================================
