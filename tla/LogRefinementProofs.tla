------------------------ MODULE LogRefinementProofs -------------------------
(***************************************************************************)
(* The write-ahead log implements the atomic disk of module AtomicDisk, and *)
(* what is idle is durable.                                                *)
(***************************************************************************)
EXTENDS LogProofs

(* What a crash leaves behind, and what the calls see. *)

\* Recovery takes a block from its log slot if the header names it.
DurableFacts ==
  /\ \A i \in 1..Len(head) : Durable[head[i]] = logblk[i]
  /\ \A b \in Blocks \ Elems(head) : Durable[b] = home[b]
  /\ Durable \in [Blocks -> Vals]

\* The header has no duplicates, so that recovery takes block head[i] from slot i.
LEMMA DurableValue == IInv => DurableFacts
<1> SUFFICES ASSUME IInv PROVE DurableFacts
  OBVIOUS
<1> USE LogConstants DEF LogConstants, IInv, LogInv
<1>1. \A i \in 1..Len(head) :
        head[i] \in Blocks /\ (CHOOSE j \in 1..Len(head) : head[j] = head[i]) = i
  BY DEF TypeOK, Distinct
<1>2. \A i \in 1..Len(head) : head[i] \in Elems(head)
  BY DEF Elems
<1>3. \A i \in 1..Len(head) : Durable[head[i]] = logblk[i]
  BY <1>1, <1>2 DEF Durable
<1>4. \A b \in Blocks \ Elems(head) : Durable[b] = home[b]
  BY DEF Durable
<1>5. \A b \in Blocks : Durable[b] \in Vals
  <2> TAKE b \in Blocks
  <2>1. CASE b \in Elems(head)
    <3>1. PICK i \in 1..Len(head) : head[i] = b
      BY <2>1 DEF Elems
    <3>2. i \in 1..(NLOG - 1)
      BY DEF TypeOK
    <3> QED
      BY <3>1, <3>2, <1>3 DEF TypeOK
  <2>2. CASE b \notin Elems(head)
    BY <2>2, <1>4 DEF TypeOK
  <2> QED
    BY <2>1, <2>2
<1>6. Durable = [b \in Blocks |-> Durable[b]]
  BY DEF Durable
<1>7. Durable \in [Blocks -> Vals]
  BY <1>5, <1>6
<1> QED
  BY <1>3, <1>4, <1>7 DEF DurableFacts

\* The same facts about the state after a step.
LEMMA DurableValueNext == IInv' => DurableFacts'
BY DurableValue, PTL

\* With an empty header recovery changes nothing.
EmptyFact == head = <<>> => Durable = home

\* An empty header names no block to install.
LEMMA DurableEmpty == TypeOK => EmptyFact
<1> SUFFICES ASSUME TypeOK, head = <<>> PROVE Durable = home
  BY DEF EmptyFact
<1>1. Elems(head) = {}
  BY DEF Elems
<1> QED
  BY <1>1 DEF Durable, TypeOK

\* The same after a step.
LEMMA DurableEmptyNext == TypeOK' => EmptyFact'
BY DurableEmpty, PTL

\* When no buffer is dirty or locked, calls see the disk.
LEMMA CleanCache ==
  ASSUME IInv, dirty = {}, \A p \in Procs : pc[p] # "op"
  PROVE  \A b \in Blocks : Data(b) = home[b]
<1>1. \A p \in Procs : held[p] = NoBlock
  BY DEF IInv, LogInv, BufInv
<1>2. \A b \in Blocks : Recyclable(b)
  BY <1>1, LogConstants DEF Recyclable, LogConstants
<1> QED
  BY <1>2 DEF IInv, LogInv, BufInv, NothingLost, Data

-----------------------------------------------------------------------------
(* Each step of the log is a step of the atomic disk, or none. *)

Stutter == UNCHANGED <<Durable, Current, outstanding>>

\* At first the durable and the current disk are both the home blocks.
LEMMA RefInit == Init => AD!Init
<1> SUFFICES ASSUME Init PROVE AD!Init
  OBVIOUS
<1>1. IInv
  BY InitIInv
<1>2. Durable \in [Blocks -> Vals]
  BY <1>1, DurableValue DEF DurableFacts
<1> QED
  BY <1>2 DEF AD!Init, Init, Current

\* Steps that leave the disk and the mode alone: only Data matters.
LEMMA SameDisk ==
  ASSUME UNCHANGED <<disk, booted>>, \A b \in Blocks : Data(b)' = Data(b)
  PROVE  UNCHANGED <<Durable, Current>>
<1>1. Durable' = Durable
  BY DEF Durable, disk, Elems
<1> QED
  BY <1>1 DEF Current

\* Filling a buffer changes neither disk.
LEMMA RefBread ==
  ASSUME IInv, NEW b \in Blocks, Bread(b) PROVE Stutter
<1>1. \A c \in Blocks : Data(c)' = Data(c)
  BY LogConstants DEF LogConstants, IInv, TypeOK, Bread, Data, disk
<1> QED
  BY <1>1, SameDisk DEF Bread, Stutter, mem, ctl

\* Recycling a clean buffer changes neither disk.
LEMMA RefRecycle ==
  ASSUME IInv, NEW b \in Blocks, Recycle(b) PROVE Stutter
<1>1. \A c \in Blocks : Data(c)' = Data(c)
  BY DEF IInv, LogInv, BufInv, NothingLost, TypeOK, Recycle, Data, disk
<1> QED
  BY <1>1, SameDisk DEF Recycle, Stutter, mem, ctl

\* begin_op is a Begin.
LEMMA RefBeginOp ==
  ASSUME IInv, NEW p \in Procs, BeginOp(p) PROVE AD!Begin
<1>1. \A c \in Blocks : Data(c)' = Data(c)
  BY DEF BeginOp, Data, disk, bufs
<1> QED
  BY <1>1, SameDisk DEF BeginOp, ctl, AD!Begin

\* Going to sleep is a stutter.
LEMMA RefBeginOpSleep ==
  ASSUME IInv, NEW p \in Procs, BeginOpSleep(p) PROVE Stutter
<1>1. \A c \in Blocks : Data(c)' = Data(c)
  BY DEF BeginOpSleep, Data, disk, bufs
<1> QED
  BY <1>1, SameDisk DEF BeginOpSleep, ctl, mem, Stutter

\* Changing a buffer is a Write.
LEMMA RefModify ==
  ASSUME IInv, NEW p \in Procs, NEW b \in Blocks, NEW v \in Vals, Modify(p, b, v)
  PROVE  AD!Write(b, v)
<1>1. booted /\ booted' /\ outstanding > 0 /\ outstanding' = outstanding
  BY InCall DEF Modify, mem, ctl, IInv, TypeOK
<1>2. Durable' = Durable
  BY DEF Durable, Modify, disk, Elems
<1>3. \A c \in Blocks : Data(c)' = IF c = b THEN v ELSE Data(c)
  BY LogConstants DEF LogConstants, IInv, TypeOK, Modify, Data, disk
<1>4. Current' = [Current EXCEPT ![b] = v]
  BY <1>1, <1>3 DEF Current
<1> QED
  BY <1>1, <1>2, <1>4 DEF AD!Write

\* log_write is a stutter.
LEMMA RefLogWrite ==
  ASSUME IInv, NEW p \in Procs, LogWrite(p) PROVE Stutter
<1>1. \A c \in Blocks : Data(c)' = Data(c)
  BY DEF LogWrite, Data, disk
<1> QED
  BY <1>1, SameDisk DEF LogWrite, ctl, Stutter

\* end_op is an End.
LEMMA RefEndOp ==
  ASSUME IInv, NEW p \in Procs, EndOp(p) PROVE AD!End
<1>1. \A c \in Blocks : Data(c)' = Data(c)
  BY DEF EndOp, Data, disk, bufs
<1>2. outstanding > 0
  BY InCall DEF EndOp, IInv, TypeOK
<1> QED
  BY <1>1, <1>2, SameDisk DEF EndOp, AD!End

\* The rest of end_op is a stutter.
LEMMA RefFinishCommit ==
  ASSUME IInv, NEW p \in Procs, FinishCommit(p) PROVE Stutter
<1>1. \A c \in Blocks : Data(c)' = Data(c)
  BY DEF FinishCommit, Data, disk, bufs
<1> QED
  BY <1>1, SameDisk DEF FinishCommit, Stutter

\* Writing a log block is a stutter: the header on disk is still empty.
LEMMA RefWriteLog ==
  ASSUME IInv, write_log PROVE Stutter
<1>1. head = <<>> /\ head' = <<>> /\ home' = home
  BY DEF IInv, LogInv, PhaseInv, write_log, Loop
<1>2. Durable' = Durable
  BY <1>1, DurableEmpty, DurableEmptyNext, StepWriteLog DEF IInv, EmptyFact
<1>3. \A c \in Blocks : Data(c)' = Data(c)
  BY <1>1, LogConstants DEF LogConstants, IInv, LogInv, PhaseInv, TypeOK, write_log, Loop, Data
<1> QED
  BY <1>2, <1>3 DEF write_log, mem, Current, Stutter

\* The disk write of the header is the commit point.
LEMMA RefWriteHead ==
  ASSUME IInv, write_head PROVE AD!Commit
<1> USE LogConstants DEF LogConstants, IInv, LogInv
<1>1. booted /\ booted' /\ outstanding = 0 /\ outstanding' = 0
  BY DEF ModeInv, write_head, mem
<1>2. \A c \in Blocks : Data(c)' = Data(c)
  BY DEF write_head, Data, bufs
<1>3. Current' = Current
  BY <1>1, <1>2 DEF Current
<1>4. \A c \in Blocks : Durable[c]' = Data(c)
  <2> TAKE c \in Blocks
  <2>0. DurableFacts' /\ head' = lh /\ home' = home /\ logblk' = logblk
    BY DurableValueNext, StepWriteHead DEF write_head
  <2>1. CASE c \in Elems(lh)
    <3>1. PICK i \in 1..Len(lh) : lh[i] = c
      BY <2>1 DEF Elems
    <3>2. Durable[c]' = logblk[i]
      BY <3>1, <2>0 DEF DurableFacts
    <3>3. logblk[i] = cache[c] /\ cache[c] # NoVal
      BY <3>1, <2>1 DEF PhaseInv, BufInv, write_head
    <3> QED
      BY <3>2, <3>3 DEF Data
  <2>2. CASE c \notin Elems(lh)
    <3>1. c \notin dirty
      BY <2>2 DEF PhaseInv, write_head
    <3>2. \A p \in Procs : held[p] = NoBlock
      BY <1>1, NoCall DEF BufInv
    <3>3. Data(c) = home[c]
      BY <3>1, <3>2 DEF BufInv, NothingLost, Recyclable, Data
    <3>4. Durable[c]' = home[c]
      BY <2>2, <2>0 DEF DurableFacts, Elems
    <3> QED
      BY <3>3, <3>4
  <2> QED
    BY <2>1, <2>2
<1>5. Durable' = Current
  <2>1. Durable' \in [Blocks -> Vals]
    BY DurableValueNext, StepWriteHead DEF DurableFacts
  <2> QED
    BY <1>1, <1>4, <2>1 DEF Current
<1> QED
  BY <1>1, <1>3, <1>5 DEF AD!Commit

\* Installing a block is a stutter: recovery would read it from the log.
LEMMA RefInstall ==
  ASSUME IInv, install_trans PROVE Stutter
<1> USE LogConstants DEF LogConstants, IInv, LogInv
<1> DEFINE b == lh[tail + 1]
<1>1. /\ tail + 1 \in 1..Len(lh) /\ b \in Blocks /\ head = lh
      /\ logblk[tail + 1] \in Vals
  BY DEF install_trans, Loop, PhaseInv, TypeOK
<1>2. /\ head' = head /\ logblk' = logblk /\ booted' = booted
      /\ home' = [home EXCEPT ![b] = logblk[tail + 1]]
      /\ cache' = [cache EXCEPT ![b] = logblk[tail + 1]]
  BY DEF install_trans
<1>3. DurableFacts /\ DurableFacts'
  BY DurableValue, DurableValueNext, StepInstall
<1>4. \A c \in Blocks : Durable'[c] = Durable[c]
  <2> TAKE c \in Blocks
  <2>1. CASE c \in Elems(head)
    <3>1. PICK i \in 1..Len(head) : head[i] = c
      BY <2>1 DEF Elems
    <3> QED
      BY <3>1, <1>2, <1>3 DEF DurableFacts
  <2>2. CASE c \notin Elems(head)
    <3>1. c # b
      BY <2>2, <1>1 DEF Elems
    <3>2. c \notin Elems(head')
      BY <2>2, <1>2
    <3> QED
      BY <2>2, <3>1, <3>2, <1>2, <1>3 DEF DurableFacts, Elems, TypeOK
  <2> QED
    BY <2>1, <2>2
<1>5. Durable' = Durable
  BY <1>3, <1>4 DEF DurableFacts
<1>6. ASSUME booted PROVE \A c \in Blocks : Data(c)' = Data(c)
  <2>1. cache[b] = logblk[tail + 1] /\ tail + 1 \in (tail + 1)..Len(lh)
    BY <1>1, <1>6 DEF PhaseInv, install_trans, Loop, TypeOK
  <2> QED
    BY <1>1, <1>2, <2>1 DEF Data, TypeOK
<1> QED
  BY <1>2, <1>5, <1>6 DEF Stutter, Current, install_trans, mem

\* Erasing the header is a stutter: everything in it has been installed.
LEMMA RefErase ==
  ASSUME IInv, EraseLog PROVE Stutter
<1> USE LogConstants DEF LogConstants, IInv, LogInv
<1>1. /\ head = lh /\ dirty = {} /\ head' = <<>> /\ booted' = TRUE
      /\ \A i \in 1..Len(head) : home[head[i]] = logblk[i]
      /\ UNCHANGED <<home, logblk, outstanding, cache>>
  BY DEF EraseLog, PhaseInv, bufs
<1>2. DurableFacts
  BY DurableValue
<1>3. Durable = home
  <2>1. ASSUME NEW c \in Blocks PROVE Durable[c] = home[c]
    <3>1. CASE c \in Elems(head)
      <4>1. PICK i \in 1..Len(head) : head[i] = c
        BY <3>1 DEF Elems
      <4> QED
        BY <4>1, <1>1, <1>2 DEF DurableFacts
    <3>2. CASE c \notin Elems(head)
      BY <3>2, <1>2 DEF DurableFacts
    <3> QED
      BY <3>1, <3>2
  <2> QED
    BY <2>1, <1>2 DEF DurableFacts, TypeOK
<1>4. Durable' = home
  BY <1>1, DurableEmptyNext, StepErase DEF EmptyFact
<1>5. outstanding = 0
  BY DEF ModeInv, EraseLog
<1>6. \A c \in Blocks : Data(c) = home[c] /\ Data(c)' = Data(c)
  BY <1>1, <1>5, CleanCache, NoCall DEF Data
<1>7. [c \in Blocks |-> Data(c)] = home /\ [c \in Blocks |-> Data(c)]' = home
  BY <1>6 DEF TypeOK
<1> QED
  BY <1>1, <1>3, <1>4, <1>7 DEF Stutter, Current

\* Reading the header is a stutter.
LEMMA RefReadHead ==
  ASSUME IInv, read_head PROVE Stutter
<1>1. \A c \in Blocks : Data(c)' = Data(c)
  BY DEF read_head, Data, disk, bufs
<1> QED
  BY <1>1, SameDisk DEF read_head, Stutter

\* A crash is a Crash.
LEMMA RefCrash ==
  ASSUME IInv, Crash PROVE AD!Crash
<1>1. Durable' = Durable
  BY DEF Durable, Crash, disk, Elems
<1>2. Current' = Durable
  BY <1>1 DEF Current, Crash
<1> QED
  BY <1>1, <1>2 DEF Crash, AD!Crash

\* A step that leaves all variables alone is a stutter.
LEMMA RefStutter ==
  ASSUME UNCHANGED vars PROVE Stutter
<1>1. \A c \in Blocks : Data(c)' = Data(c)
  BY DEF vars, Data, disk, bufs
<1> QED
  BY <1>1, SameDisk DEF vars, mem, ctl, Stutter

\* The write-ahead log implements the atomic disk: every step of a call, of a
\* commit, of a recovery and every crash is a step of AtomicDisk or changes
\* nothing that AtomicDisk shows.
THEOREM LogRefinement == Spec => Refinement
<1>1. Init => AD!Init
  BY RefInit
<1>2. IInv /\ [Next]_vars => [AD!Next]_AD!avars
  <2> SUFFICES ASSUME IInv, [Next]_vars PROVE AD!Next \/ Stutter
    BY DEF AD!avars, Stutter
  <2>1. ASSUME NEW p \in Procs, Call(p) PROVE AD!Next \/ Stutter
    BY <2>1, RefBeginOp, RefBeginOpSleep, RefModify, RefLogWrite, RefEndOp,
       RefFinishCommit DEF Call, AD!Next
  <2>2. ASSUME NEW b \in Blocks, Bread(b) \/ Recycle(b) PROVE Stutter
    BY <2>2, RefBread, RefRecycle
  <2>3. ASSUME CommitStep PROVE AD!Next \/ Stutter
    BY <2>3, RefWriteLog, RefWriteHead, RefInstall, RefErase, RefReadHead
    DEF CommitStep, AD!Next
  <2>4. ASSUME Crash PROVE AD!Next
    BY <2>4, RefCrash DEF AD!Next
  <2> QED
    BY <2>1, <2>2, <2>3, <2>4, RefStutter DEF Next
<1>3. IInv <=> TypeOK /\ LogInv
  BY DEF IInv
<1> QED
  BY <1>1, <1>2, <1>3, LogInvariant, PTL DEF Spec, Refinement, AD!Spec

\* When the last end_op has returned everything written is durable.
THEOREM QuiescentDurability == Spec => []QuiescentDurable
<1>1. IInv => QuiescentDurable
  <2> SUFFICES ASSUME IInv, booted, outstanding = 0, ~committing
               PROVE  Current = Durable /\ lh = <<>> /\ dirty = {}
    BY DEF QuiescentDurable
  <2>1. step = "run" /\ lh = <<>> /\ head = <<>> /\ dirty = {}
    BY DEF IInv, LogInv, ModeInv, PhaseInv, Elems
  <2>2. Durable = home
    BY <2>1, DurableEmpty DEF IInv, EmptyFact
  <2>3. \A b \in Blocks : Data(b) = home[b]
    BY <2>1, CleanCache, NoCall
  <2> QED
    BY <2>1, <2>2, <2>3 DEF Current, IInv, TypeOK
<1>2. IInv <=> TypeOK /\ LogInv
  BY DEF IInv
<1> QED
  BY <1>1, <1>2, LogInvariant, PTL
=============================================================================
