----------------------------- MODULE LogProofs ------------------------------
(***************************************************************************)
(* The inductive invariant of the write-ahead log, for every number of     *)
(* processes, blocks and log slots.                                        *)
(***************************************************************************)
EXTENDS Log, FiniteSetTheorems, TLAPS

IInv == TypeOK /\ LogInv

\* A machine that is switched on, with an empty log on disk, satisfies the
\* invariant.
LEMMA InitIInv == Init => IInv
<1> SUFFICES ASSUME Init PROVE IInv
  OBVIOUS
<1> USE LogConstants DEF LogConstants
<1>1. TypeOK
  <2>1. logblk \in [1..(NLOG-1) -> Vals]
    BY DEF Init
  <2>2. /\ head \in Seq(Blocks) /\ Len(head) < NLOG
        /\ lh \in Seq(Blocks) /\ Len(lh) < NLOG
    BY DEF Init
  <2>3. committing \in BOOLEAN /\ booted \in BOOLEAN
    BY Zenon DEF Init
  <2> QED
    BY <2>1, <2>2, <2>3 DEF Init, TypeOK
<1>2. CountInv
  <2>1. Ops = {}
    BY DEF Init, Ops
  <2> QED
    BY <2>1, FS_EmptySet DEF Init, CountInv
<1>3. Distinct(lh) /\ Distinct(head)
  BY DEF Init, Distinct
<1>4. BufInv /\ ModeInv /\ PhaseInv
  BY DEF Init, BufInv, NothingLost, Recyclable, ModeInv, PhaseInv
<1> QED
  BY <1>1, <1>2, <1>3, <1>4 DEF IInv, LogInv

-----------------------------------------------------------------------------
(* The number of calls in progress. *)

\* Ops is a finite set, so that its cardinality is a number.
LEMMA OpsFinite == IsFiniteSet(Ops) /\ Cardinality(Ops) \in Nat
<1>1. Ops \in SUBSET Procs
  BY DEF Ops
<1> QED
  BY <1>1, LogConstants, FS_Subset, FS_CardinalityType DEF LogConstants

\* Inside a call log.outstanding is positive, and neither a commit nor a
\* recovery is under way.
LEMMA InCall ==
  ASSUME IInv, NEW p \in Procs, pc[p] = "op"
  PROVE  outstanding >= 1 /\ booted /\ ~committing /\ step = "run"
<1>1. Ops # {}
  BY DEF Ops
<1>2. outstanding # 0
  BY <1>1, OpsFinite, FS_EmptySet DEF IInv, LogInv, CountInv
<1>3. outstanding >= 1
  BY <1>2 DEF IInv, TypeOK
<1> QED
  BY <1>2, <1>3 DEF IInv, LogInv, ModeInv, TypeOK

\* While log.outstanding is 0 no process is inside a call.
LEMMA NoCall ==
  ASSUME IInv, outstanding = 0
  PROVE  \A p \in Procs : pc[p] # "op"
BY InCall DEF IInv, TypeOK

\* A step that changes neither who is in a call nor the counter.
LEMMA CountKept ==
  ASSUME CountInv, outstanding' = outstanding, Ops' = Ops
  PROVE  CountInv'
BY DEF CountInv

-----------------------------------------------------------------------------
(* Every action preserves the invariant. *)

\* bread fills an empty buffer with what the disk holds.
LEMMA StepBread ==
  ASSUME IInv, NEW b \in Blocks, Bread(b)
  PROVE  IInv'
<1> USE LogConstants DEF LogConstants, IInv, LogInv, Bread, disk, mem, calls, ctl
<1>1. TypeOK'
  BY DEF TypeOK
<1>2. CountInv'
  BY CountKept DEF Ops
<1>3. Distinct(lh)' /\ Distinct(head)'
  BY DEF Distinct
<1>4. BufInv'
  BY DEF BufInv, NothingLost, Recyclable, TypeOK
<1>5. ModeInv'
  BY DEF ModeInv
<1>6. PhaseInv'
  BY DEF PhaseInv, Uninstalled, Elems, TypeOK, BufInv
<1> QED
  BY <1>1, <1>2, <1>3, <1>4, <1>5, <1>6

\* bget takes over only a buffer that equals its block on disk.
LEMMA StepRecycle ==
  ASSUME IInv, NEW b \in Blocks, Recycle(b)
  PROVE  IInv'
<1> USE LogConstants DEF LogConstants, IInv, LogInv, Recycle, disk, mem, calls, ctl
<1>1. TypeOK'
  BY DEF TypeOK
<1>2. CountInv'
  BY CountKept DEF Ops
<1>3. Distinct(lh)' /\ Distinct(head)'
  BY DEF Distinct
<1>4. BufInv'
  BY DEF BufInv, NothingLost, Recyclable, TypeOK
<1>5. ModeInv'
  BY DEF ModeInv
<1>6. PhaseInv'
  <2>1. b \notin dirty
    BY DEF Recyclable
  <2>2. \A c \in Blocks : c # b => cache'[c] = cache[c]
    BY DEF TypeOK
  <2>3. \A i \in 1..Len(lh) : lh[i] \in Blocks
    BY DEF TypeOK
  <2>4. step \in {"write_log", "write_head"} =>
          \A i \in 1..Len(lh) : lh[i] # b
    BY <2>1 DEF PhaseInv, Elems
  <2>5. step = "install" /\ booted =>
          \A i \in (tail + 1)..Len(lh) : lh[i] # b
    BY <2>1 DEF PhaseInv, Uninstalled
  <2>6. tail \in Nat /\ Len(lh) \in Nat
    BY DEF TypeOK
  <2>7. step = "write_log" => \A i \in 1..tail : logblk[i] = cache'[lh[i]]
    BY <2>2, <2>3, <2>4, <2>6 DEF PhaseInv
  <2>8. step = "write_head" => \A i \in 1..Len(lh) : logblk[i] = cache'[lh[i]]
    BY <2>2, <2>3, <2>4 DEF PhaseInv
  <2>9. step = "install" /\ booted =>
          \A i \in (tail + 1)..Len(lh) : cache'[lh[i]] = logblk[i]
    BY <2>2, <2>3, <2>5, <2>6 DEF PhaseInv
  <2> QED
    BY <2>7, <2>8, <2>9 DEF PhaseInv, Uninstalled, Elems
<1> QED
  BY <1>1, <1>2, <1>3, <1>4, <1>5, <1>6

\* begin_op adds one call to those log.outstanding counts.
LEMMA StepBeginOp ==
  ASSUME IInv, NEW p \in Procs, BeginOp(p)
  PROVE  IInv'
<1> USE LogConstants DEF LogConstants, IInv, LogInv, BeginOp, disk, bufs, ctl
<1>1. TypeOK'
  BY DEF TypeOK
<1>2. CountInv'
  <2>1. Ops' = Ops \cup {p} /\ p \notin Ops
    BY DEF Ops, TypeOK
  <2>2. Cardinality(Ops') = Cardinality(Ops) + 1
    BY <2>1, OpsFinite, FS_AddElement
  <2> QED
    BY <2>2 DEF CountInv
<1>3. Distinct(lh)' /\ Distinct(head)'
  BY DEF Distinct
<1>4. BufInv'
  BY DEF BufInv, NothingLost, Recyclable, TypeOK
<1>5. ModeInv'
  BY DEF ModeInv, TypeOK
<1>6. PhaseInv'
  BY DEF PhaseInv, Uninstalled, Elems
<1> QED
  BY <1>1, <1>2, <1>3, <1>4, <1>5, <1>6

\* A process that goes to sleep in begin_op is not counted.
LEMMA StepBeginOpSleep ==
  ASSUME IInv, NEW p \in Procs, BeginOpSleep(p)
  PROVE  IInv'
<1> USE LogConstants DEF LogConstants, IInv, LogInv, BeginOpSleep, disk, mem, bufs, ctl
<1>1. TypeOK'
  BY DEF TypeOK
<1>2. CountInv'
  <2>1. Ops' = Ops
    BY DEF Ops, TypeOK
  <2> QED
    BY <2>1, CountKept
<1>3. Distinct(lh)' /\ Distinct(head)'
  BY DEF Distinct
<1>4. BufInv'
  BY DEF BufInv, NothingLost, Recyclable, TypeOK
<1>5. ModeInv'
  BY DEF ModeInv, TypeOK
<1>6. PhaseInv'
  BY DEF PhaseInv, Uninstalled, Elems
<1> QED
  BY <1>1, <1>2, <1>3, <1>4, <1>5, <1>6

\* A call changes a buffer only while it holds it, so that it may differ
\* from the disk.
LEMMA StepModify ==
  ASSUME IInv, NEW p \in Procs, NEW b \in Blocks, NEW v \in Vals, Modify(p, b, v)
  PROVE  IInv'
<1> USE LogConstants DEF LogConstants, IInv, LogInv, Modify, disk, mem, ctl
<1>0. step = "run"
  BY InCall
<1>1. TypeOK'
  BY DEF TypeOK
<1>2. CountInv'
  BY CountKept DEF Ops
<1>3. Distinct(lh)' /\ Distinct(head)'
  BY DEF Distinct
<1>4. BufInv'
  BY DEF BufInv, NothingLost, Recyclable, TypeOK
<1>5. ModeInv'
  BY DEF ModeInv
<1>6. PhaseInv'
  BY <1>0 DEF PhaseInv, Elems
<1> QED
  BY <1>1, <1>2, <1>3, <1>4, <1>5, <1>6

\* log_write adds a block to the header once and pins its buffer.
LEMMA StepLogWrite ==
  ASSUME IInv, NEW p \in Procs, LogWrite(p)
  PROVE  IInv'
<1> USE LogConstants DEF LogConstants, IInv, LogInv, disk, ctl
<1> DEFINE b == held[p]
<1>0. /\ b \in Blocks /\ pc[p] = "op" /\ step = "run"
      /\ lh' = IF b \in Elems(lh) THEN lh ELSE Append(lh, b)
      /\ dirty' = dirty \cup {b} /\ held' = [held EXCEPT ![p] = NoBlock]
      /\ outstanding >= 1 /\ Len(lh) < NLOG - 1
      /\ UNCHANGED <<disk, outstanding, committing, cache, pc, wrote, ctl>>
  <2>1. b \in Blocks /\ pc[p] = "op"
    BY DEF LogWrite, TypeOK, BufInv
  <2> QED
    BY <2>1, InCall DEF LogWrite, TooBig, TypeOK
<1>a. lh' \in Seq(Blocks) /\ Elems(lh') = Elems(lh) \cup {b} /\ Len(lh') <= Len(lh) + 1
  BY <1>0 DEF Elems, TypeOK
<1>1. TypeOK'
  BY <1>0, <1>a DEF TypeOK
<1>2. CountInv'
  BY <1>0, CountKept DEF Ops
<1>3. Distinct(lh)' /\ Distinct(head)'
  <2>1. CASE b \in Elems(lh)
    BY <1>0, <2>1 DEF Distinct
  <2>2. CASE b \notin Elems(lh)
    <3>1. lh' = Append(lh, b) /\ lh \in Seq(Blocks)
      BY <1>0, <2>2 DEF TypeOK
    <3>2. \A i \in 1..Len(lh) : lh'[i] = lh[i] /\ lh[i] # b
      BY <3>1, <2>2 DEF Elems
    <3>3. Len(lh') = Len(lh) + 1 /\ lh'[Len(lh) + 1] = b /\ Len(lh) \in Nat
      <4>1. b \in Blocks
        BY <1>0
      <4> QED
        BY <3>1, <4>1
    <3>4. \A i \in 1..Len(lh') : i \in 1..Len(lh) \/ i = Len(lh) + 1
      BY <3>3
    <3> QED
      BY <1>0, <3>2, <3>3, <3>4 DEF Distinct
  <2> QED
    BY <2>1, <2>2
<1>4. BufInv'
  BY <1>0 DEF BufInv, NothingLost, Recyclable, TypeOK
<1>5. ModeInv'
  BY <1>0, InCall DEF ModeInv, TypeOK
<1>6. PhaseInv'
  BY <1>0, <1>a DEF PhaseInv, Elems
<1> QED
  BY <1>1, <1>2, <1>3, <1>4, <1>5, <1>6

\* The last end_op starts a commit with no call left; others only leave.
LEMMA StepEndOp ==
  ASSUME IInv, NEW p \in Procs, EndOp(p)
  PROVE  IInv'
<1> USE LogConstants DEF LogConstants, IInv, LogInv, EndOp, disk, bufs
<1>0. outstanding >= 1 /\ booted /\ ~committing /\ step = "run"
  BY InCall
<1>a. pc' \in [Procs -> {"idle", "asleep", "woken", "op", "commit"}]
  BY DEF Wakeup, TypeOK
<1>b. \/ /\ outstanding = 1 /\ committing' = TRUE /\ tail' = 0
         /\ pc' = [pc EXCEPT ![p] = "commit"]
         /\ step' = IF lh = <<>> THEN "finish" ELSE "write_log"
      \/ /\ outstanding # 1 /\ UNCHANGED <<committing, step, tail>>
  OBVIOUS
<1>1. TypeOK'
  <2>1. outstanding' \in Nat
    BY <1>0 DEF TypeOK
  <2>2. committing' \in BOOLEAN /\ booted' \in BOOLEAN
    BY <1>b, Zenon DEF TypeOK
  <2>3. /\ step' \in {"run", "write_log", "write_head", "install", "erase", "finish", "boot"}
        /\ tail' \in 0..NLOG
    BY <1>b DEF TypeOK
  <2>4. wrote' \in [Procs -> SUBSET Blocks]
    BY DEF TypeOK
  <2> QED
    BY <1>a, <2>1, <2>2, <2>3, <2>4 DEF TypeOK
<1>2. CountInv'
  <2>1. Ops' = Ops \ {p} /\ p \in Ops
    BY DEF Ops, TypeOK, Wakeup
  <2>2. Cardinality(Ops') = Cardinality(Ops) - 1
    BY <2>1, OpsFinite, FS_RemoveElement
  <2> QED
    BY <2>2 DEF CountInv
<1>3. Distinct(lh)' /\ Distinct(head)'
  BY DEF Distinct
<1>4. BufInv'
  BY DEF BufInv, NothingLost, Recyclable, TypeOK, Wakeup
<1>5. ModeInv'
  <2>1. outstanding' = outstanding - 1 /\ outstanding \in Nat /\ booted' = booted /\ lh' = lh
    BY DEF TypeOK
  <2>2. CASE outstanding = 1
    BY <1>0, <1>b, <2>1, <2>2 DEF ModeInv, TypeOK
  <2>3. CASE outstanding # 1
    BY <1>0, <1>b, <2>1, <2>3 DEF ModeInv
  <2> QED
    BY <2>2, <2>3
<1>6. PhaseInv'
  BY <1>0 DEF PhaseInv, Elems, TypeOK
<1> QED
  BY <1>1, <1>2, <1>3, <1>4, <1>5, <1>6

\* end_op returns after a commit with an empty log.
LEMMA StepFinishCommit ==
  ASSUME IInv, NEW p \in Procs, FinishCommit(p)
  PROVE  IInv'
<1> USE LogConstants DEF LogConstants, IInv, LogInv, FinishCommit, disk, bufs
<1>0. booted /\ committing /\ outstanding = 0
  BY DEF ModeInv
<1>a. pc' \in [Procs -> {"idle", "asleep", "woken", "op", "commit"}]
  BY DEF Wakeup, TypeOK
<1>1. TypeOK'
  BY <1>a DEF TypeOK
<1>2. CountInv'
  <2>1. Ops' = Ops
    BY DEF Ops, TypeOK, Wakeup
  <2> QED
    BY <2>1, CountKept
<1>3. Distinct(lh)' /\ Distinct(head)'
  BY DEF Distinct
<1>4. BufInv'
  BY DEF BufInv, NothingLost, Recyclable, TypeOK, Wakeup
<1>5. ModeInv'
  BY <1>0 DEF ModeInv, PhaseInv
<1>6. PhaseInv'
  BY DEF PhaseInv, Elems
<1> QED
  BY <1>1, <1>2, <1>3, <1>4, <1>5, <1>6

\* write_log copies one more buffer to its slot of the log.
LEMMA StepWriteLog ==
  ASSUME IInv, write_log
  PROVE  IInv'
<1> USE LogConstants DEF LogConstants, IInv, LogInv, write_log, Loop, Data, mem, calls
<1>1. TypeOK'
  BY DEF TypeOK, PhaseInv
<1>2. CountInv'
  BY CountKept DEF Ops
<1>3. Distinct(lh)' /\ Distinct(head)'
  BY DEF Distinct
<1>4. BufInv'
  BY DEF BufInv, NothingLost, Recyclable, TypeOK, PhaseInv
<1>5. ModeInv'
  BY DEF ModeInv
<1>6. PhaseInv'
  BY DEF PhaseInv, Elems, TypeOK, BufInv, Distinct
<1> QED
  BY <1>1, <1>2, <1>3, <1>4, <1>5, <1>6

\* write_head makes the header on disk equal to the one in memory.
LEMMA StepWriteHead ==
  ASSUME IInv, write_head
  PROVE  IInv'
<1> USE LogConstants DEF LogConstants, IInv, LogInv, write_head, mem, bufs, calls
<1>1. TypeOK'
  BY DEF TypeOK
<1>2. CountInv'
  BY CountKept DEF Ops
<1>3. Distinct(lh)' /\ Distinct(head)'
  BY DEF Distinct
<1>4. BufInv'
  BY DEF BufInv, NothingLost, Recyclable
<1>5. ModeInv'
  BY DEF ModeInv
<1>6. PhaseInv'
  BY DEF PhaseInv, Uninstalled, Elems, TypeOK
<1> QED
  BY <1>1, <1>2, <1>3, <1>4, <1>5, <1>6

\* install_trans copies one more block home, where buffer and log agree.
LEMMA StepInstall ==
  ASSUME IInv, install_trans
  PROVE  IInv'
<1> USE LogConstants DEF LogConstants, IInv, LogInv, install_trans, Loop, mem, calls
<1>1. TypeOK'
  BY DEF TypeOK, PhaseInv
<1>2. CountInv'
  BY CountKept DEF Ops
<1>3. Distinct(lh)' /\ Distinct(head)'
  BY DEF Distinct
<1>4. BufInv'
  BY DEF BufInv, NothingLost, Recyclable, TypeOK, PhaseInv
<1>5. ModeInv'
  BY DEF ModeInv
<1>6. PhaseInv'
  BY DEF PhaseInv, Uninstalled, TypeOK, ModeInv, Distinct
<1> QED
  BY <1>1, <1>2, <1>3, <1>4, <1>5, <1>6

\* Erasing the header leaves the blocks at home as they are in the log.
LEMMA StepErase ==
  ASSUME IInv, EraseLog
  PROVE  IInv'
<1> USE LogConstants DEF LogConstants, IInv, LogInv, EraseLog, bufs, calls
<1>1. TypeOK'
  BY DEF TypeOK
<1>2. CountInv'
  BY CountKept DEF Ops
<1>3. Distinct(lh)' /\ Distinct(head)'
  BY DEF Distinct
<1>4. BufInv'
  BY DEF BufInv, NothingLost, Recyclable
<1>5. ModeInv'
  BY DEF ModeInv, TypeOK
<1>6. PhaseInv'
  BY DEF PhaseInv, Elems
<1> QED
  BY <1>1, <1>2, <1>3, <1>4, <1>5, <1>6

\* Recovery starts with the header it finds on disk.
LEMMA StepReadHead ==
  ASSUME IInv, read_head
  PROVE  IInv'
<1> USE LogConstants DEF LogConstants, IInv, LogInv, read_head, disk, bufs, calls
<1>1. TypeOK'
  BY DEF TypeOK
<1>2. CountInv'
  BY CountKept DEF Ops
<1>3. Distinct(lh)' /\ Distinct(head)'
  BY DEF Distinct
<1>4. BufInv'
  BY DEF BufInv, NothingLost, Recyclable
<1>5. ModeInv'
  BY DEF ModeInv
<1>6. PhaseInv'
  BY DEF PhaseInv, TypeOK, ModeInv
<1> QED
  BY <1>1, <1>2, <1>3, <1>4, <1>5, <1>6

\* A crash keeps the disk and what is known of it.
LEMMA StepCrash ==
  ASSUME IInv, Crash
  PROVE  IInv'
<1> USE LogConstants DEF LogConstants, IInv, LogInv, Crash, disk
<1>1. TypeOK'
  <2>1. /\ lh' \in Seq(Blocks) /\ Len(lh') < NLOG
        /\ cache' \in [Blocks -> Vals \cup {NoVal}]
        /\ pc' \in [Procs -> {"idle", "asleep", "woken", "op", "commit"}]
        /\ held' \in [Procs -> Blocks \cup {NoBlock}]
        /\ wrote' \in [Procs -> SUBSET Blocks]
    BY DEF TypeOK
  <2>2. committing' \in BOOLEAN /\ booted' \in BOOLEAN
    BY Zenon
  <2> QED
    BY <2>1, <2>2 DEF TypeOK
<1>2. CountInv'
  <2>1. Ops' = {}
    BY DEF Ops
  <2> QED
    BY <2>1, FS_EmptySet DEF CountInv
<1>3. Distinct(lh)' /\ Distinct(head)'
  BY DEF Distinct
<1>4. BufInv'
  BY DEF BufInv, NothingLost, Recyclable
<1>5. ModeInv'
  BY DEF ModeInv
<1>6. PhaseInv'
  BY DEF PhaseInv
<1> QED
  BY <1>1, <1>2, <1>3, <1>4, <1>5, <1>6

\* A step that changes nothing keeps the invariant.
LEMMA StepStutter ==
  ASSUME IInv, UNCHANGED vars
  PROVE  IInv'
BY DEF IInv, LogInv, TypeOK, Distinct, CountInv, Ops, BufInv, NothingLost,
       Recyclable, ModeInv, PhaseInv, Elems, Uninstalled,
       vars, disk, mem, bufs, calls, ctl

-----------------------------------------------------------------------------

\* LogInv, and with it the types, holds in every reachable state of log.c.
THEOREM LogInvariant == Spec => [](TypeOK /\ LogInv)
<1>1. Init => IInv
  BY InitIInv
<1>2. IInv /\ [Next]_vars => IInv'
  BY StepBread, StepRecycle, StepBeginOp, StepBeginOpSleep, StepModify,
     StepLogWrite, StepEndOp, StepFinishCommit, StepWriteLog, StepWriteHead,
     StepInstall, StepErase, StepReadHead, StepCrash, StepStutter
  DEF Next, Call, CommitStep
<1>3. IInv => TypeOK /\ LogInv
  BY DEF IInv
<1> QED
  BY <1>1, <1>2, <1>3, PTL DEF Spec
=============================================================================
