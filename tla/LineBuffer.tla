----------------------------- MODULE LineBuffer -----------------------------
(***************************************************************************)
(* What the console promises its readers: typed characters collect in a    *)
(* line that can still be edited, a finished line is handed over whole,    *)
(* readers take characters in the order typed, and an end of file is       *)
(* consumed only by a read that has nothing else to return.                *)
(***************************************************************************)
EXTENDS Naturals, Sequences

CONSTANTS Procs, Typed, SIZE

VARIABLES ready,   \* characters handed over and not read yet
          edit,    \* the line being typed
          took     \* characters the current read of a process has taken

vars == <<ready, edit, took>>

Init == ready = <<>> /\ edit = <<>> /\ took = [p \in Procs |-> 0]

\* A full buffer is handed over like a finished line.
Type(c) ==
  LET all == ready \o Append(edit, c) IN
  /\ Len(ready) + Len(edit) < SIZE
  /\ IF c \in {"nl", "eot"} \/ Len(all) = SIZE
     THEN ready' = all /\ edit' = <<>>
     ELSE edit' = Append(edit, c) /\ ready' = ready
  /\ took' = took

Erase ==
  /\ edit # <<>>
  /\ edit' = SubSeq(edit, 1, Len(edit) - 1)
  /\ UNCHANGED <<ready, took>>

KillLine == edit' = <<>> /\ UNCHANGED <<ready, took>>

Take(p) ==
  /\ ready # <<>> /\ Head(ready) # "eot"
  /\ ready' = Tail(ready)
  /\ took' = [took EXCEPT ![p] = @ + 1]
  /\ edit' = edit

EndOfFile(p) ==
  /\ ready # <<>> /\ Head(ready) = "eot" /\ took[p] = 0
  /\ ready' = Tail(ready)
  /\ UNCHANGED <<edit, took>>

Return(p) == took' = [took EXCEPT ![p] = 0] /\ UNCHANGED <<ready, edit>>

Next ==
  \/ Erase \/ KillLine
  \/ \E c \in Typed : Type(c)
  \/ \E p \in Procs : Take(p) \/ EndOfFile(p) \/ Return(p)

Spec == Init /\ [][Next]_vars
=============================================================================
