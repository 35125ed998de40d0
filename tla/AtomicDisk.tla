----------------------------- MODULE AtomicDisk -----------------------------
(***************************************************************************)
(* What the logging layer of xv6 promises to the file system calls above   *)
(* it: the disk behaves as one array of blocks whose updates become        *)
(* durable all together, only at a moment when no system call is active,   *)
(* and a crash takes every block back to the last such moment.             *)
(***************************************************************************)
EXTENDS Naturals

CONSTANTS Blocks,   \* block numbers
          Vals      \* contents of a block

VARIABLES durable,  \* the contents a crash leaves behind
          current,  \* the contents system calls see
          active    \* number of file system calls in progress

avars == <<durable, current, active>>

Init ==
  /\ durable \in [Blocks -> Vals]
  /\ current = durable
  /\ active = 0

Begin ==
  /\ active' = active + 1
  /\ UNCHANGED <<durable, current>>

Write(b, v) ==
  /\ active > 0
  /\ current' = [current EXCEPT ![b] = v]
  /\ UNCHANGED <<durable, active>>

End ==
  /\ active > 0
  /\ active' = active - 1
  /\ UNCHANGED <<durable, current>>

Commit ==
  /\ active = 0
  /\ durable' = current
  /\ UNCHANGED <<current, active>>

Crash ==
  /\ current' = durable
  /\ active' = 0
  /\ UNCHANGED durable

Next ==
  \/ Begin
  \/ \E b \in Blocks, v \in Vals : Write(b, v)
  \/ End
  \/ Commit
  \/ Crash

Spec == Init /\ [][Next]_avars
=============================================================================
