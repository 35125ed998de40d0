--------------------------- MODULE LogSpaceProofs ---------------------------
(***************************************************************************)
(* Sleeping in begin_op and the space of the log: no wakeup is lost, and   *)
(* with some room to spare log_write never panics.                         *)
(***************************************************************************)
EXTENDS LogProofs

(* Sleeping in begin_op. *)

SleepInv == \A p \in Procs : pc[p] = "asleep" => committing \/ NoSpace

\* One more call in progress, or one more block in the log, leaves less space.
LEMMA SpaceShrinks ==
  ASSUME NEW n \in Nat, NEW m \in Nat, n <= m,
         NEW i \in Nat, NEW j \in Nat, i <= j,
         n + (i + 1) * MAXOPBLOCKS > LOGSIZE
  PROVE  m + (j + 1) * MAXOPBLOCKS > LOGSIZE
<1> USE LogConstants DEF LogConstants
<1>1. j + 1 = (i + 1) + (j - i) /\ j - i \in Nat
  OBVIOUS
<1>2. (j + 1) * MAXOPBLOCKS = (i + 1) * MAXOPBLOCKS + (j - i) * MAXOPBLOCKS
  BY <1>1
<1>3. (j - i) * MAXOPBLOCKS >= 0
  BY <1>1
<1> QED
  BY <1>2, <1>3

\* Every step that could end the reason for a sleep wakes the sleepers.
LEMMA StepSleepInv ==
  ASSUME IInv, SleepInv, [Next]_vars
  PROVE  SleepInv'
<1> USE LogConstants DEF LogConstants, SleepInv
<1>0. outstanding \in Nat /\ lh \in Seq(Blocks) /\ Len(lh) \in Nat
  BY DEF IInv, TypeOK
<1>1. ASSUME NEW p \in Procs, BeginOp(p) PROVE SleepInv'
  <2>1. outstanding' = outstanding + 1 /\ lh' = lh /\ committing' = committing
    BY <1>1 DEF BeginOp
  <2>2. \A q \in Procs : pc'[q] = "asleep" => pc[q] = "asleep"
    BY <1>1 DEF BeginOp, IInv, TypeOK
  <2>3. NoSpace => NoSpace'
    BY <2>1, <1>0, SpaceShrinks DEF NoSpace
  <2> QED
    BY <2>1, <2>2, <2>3
<1>2. ASSUME NEW p \in Procs, BeginOpSleep(p) PROVE SleepInv'
  BY <1>2 DEF BeginOpSleep, IInv, TypeOK, NoSpace, mem
<1>3. ASSUME NEW p \in Procs, NEW b \in Blocks, NEW v \in Vals, Modify(p, b, v)
      PROVE  SleepInv'
  BY <1>3 DEF Modify, mem, NoSpace
<1>4. ASSUME NEW p \in Procs, LogWrite(p) PROVE SleepInv'
  <2>1. /\ UNCHANGED <<pc, outstanding, committing>>
        /\ lh' = lh \/ (lh' = Append(lh, held[p]) /\ held[p] \in Blocks)
    BY <1>4 DEF LogWrite, IInv, TypeOK
  <2>2. Len(lh') \in Nat /\ Len(lh) <= Len(lh')
    BY <2>1, <1>0
  <2>3. NoSpace => NoSpace'
    BY <2>1, <2>2, <1>0, SpaceShrinks DEF NoSpace
  <2> QED
    BY <2>1, <2>3
<1>5. ASSUME NEW p \in Procs, EndOp(p) PROVE SleepInv'
  BY <1>5 DEF EndOp, Wakeup, IInv, TypeOK
<1>6. ASSUME NEW p \in Procs, FinishCommit(p) PROVE SleepInv'
  BY <1>6 DEF FinishCommit, Wakeup, IInv, TypeOK
<1>7. ASSUME NEW b \in Blocks, Bread(b) \/ Recycle(b) PROVE SleepInv'
  BY <1>7 DEF Bread, Recycle, mem, calls, NoSpace
<1>8. ASSUME CommitStep PROVE SleepInv'
  <2>1. UNCHANGED <<pc, committing, outstanding>>
    BY <1>8 DEF CommitStep, write_log, write_head, install_trans, EraseLog, read_head, mem, calls
  <2>2. committing \/ \A p \in Procs : pc[p] = "idle"
    BY <1>8 DEF CommitStep, write_log, write_head, install_trans, EraseLog, read_head,
                Loop, IInv, LogInv, ModeInv
  <2> QED
    BY <2>1, <2>2
<1>9. ASSUME Crash PROVE SleepInv'
  BY <1>9 DEF Crash
<1>10. ASSUME UNCHANGED vars PROVE SleepInv'
  BY <1>10 DEF vars, mem, calls, NoSpace
<1> QED
  BY <1>1, <1>2, <1>3, <1>4, <1>5, <1>6, <1>7, <1>8, <1>9, <1>10 DEF Next, Call

\* No wakeup of begin_op is lost, and a sleeper always has a waker.
THEOREM NoWakeupLost == Spec => []NoLostWakeup
<1>1. Init => SleepInv
  BY DEF Init, SleepInv
<1>2. IInv /\ SleepInv /\ [Next]_vars => SleepInv'
  BY StepSleepInv
<1>3. IInv /\ SleepInv => NoLostWakeup
  <2> SUFFICES ASSUME IInv, SleepInv, NEW p \in Procs, pc[p] = "asleep"
               PROVE  \E q \in Procs : pc[q] \in {"op", "commit"}
    BY DEF NoLostWakeup, SleepInv
  <2>1. CASE committing
    BY <2>1 DEF IInv, LogInv, ModeInv
  <2>2. CASE ~committing
    <3>1. booted /\ step = "run" /\ NoSpace
      BY <2>2 DEF IInv, LogInv, ModeInv, SleepInv
    <3>2. ASSUME outstanding = 0 PROVE FALSE
      <4>1. lh = <<>>
        BY <3>1, <3>2 DEF IInv, LogInv, ModeInv
      <4> QED
        BY <3>1, <3>2, <4>1, LogConstants DEF NoSpace, LogConstants
    <3>3. Ops # {}
      BY <3>2, FS_EmptySet DEF IInv, LogInv, CountInv
    <3> QED
      BY <3>3 DEF Ops
  <2> QED
    BY <2>1, <2>2
<1>4. IInv <=> TypeOK /\ LogInv
  BY DEF IInv
<1> QED
  BY <1>1, <1>2, <1>3, <1>4, LogInvariant, PTL DEF Spec

-----------------------------------------------------------------------------
(* The log never overflows.  Every call in progress owns MAXOPBLOCKS slots   *)
(* and uses one up for each block of its own that gets into the header; the  *)
(* slots still owned, and the header, fit into LOGSIZE.                      *)

Logged(p) == wrote[p] \cap Elems(lh)

Reserved == {t \in Ops \X (1..MAXOPBLOCKS) : t[2] > Cardinality(Logged(t[1]))}

\* A call writes at most OpBlocks different blocks, and all of them but the
\* one it is working on are in the header.
WroteInv ==
  /\ \A p \in Procs : /\ IsFiniteSet(wrote[p])
                      /\ Cardinality(wrote[p]) <= OpBlocks
                      /\ pc[p] # "op" => wrote[p] = {}
                      /\ wrote[p] \ {held[p]} \subseteq Elems(lh)
                      /\ held[p] # NoBlock => held[p] \in wrote[p]
  /\ \A p, q \in Procs : held[p] # NoBlock /\ held[p] = held[q] => p = q

SpaceInv == step = "run" => Len(lh) + Cardinality(Reserved) <= LOGSIZE

\* The margin the code has: a call writes at most 7 blocks, MAXOPBLOCKS is 10.
RoomyLog == OpBlocks + 2 <= MAXOPBLOCKS /\ LOGSIZE <= NLOG

\* What Append does to the set of blocks in a header.
LEMMA ElemsAppend ==
  ASSUME NEW q \in Seq(Blocks), NEW b \in Blocks
  PROVE  /\ Append(q, b) \in Seq(Blocks)
         /\ Len(Append(q, b)) = Len(q) + 1 /\ Len(q) \in Nat
         /\ Elems(Append(q, b)) = Elems(q) \cup {b}
<1> DEFINE r == Append(q, b)
<1>1. r \in Seq(Blocks) /\ Len(r) = Len(q) + 1 /\ Len(q) \in Nat
  OBVIOUS
<1>2. \A i \in 1..Len(q) : r[i] = q[i]
  OBVIOUS
<1>3. r[Len(q) + 1] = b
  OBVIOUS
<1>4. \A i \in 1..Len(r) : i \in 1..Len(q) \/ i = Len(q) + 1
  BY <1>1
<1>5. 1..Len(q) \subseteq 1..Len(r) /\ Len(q) + 1 \in 1..Len(r)
  BY <1>1
<1> HIDE DEF r
<1>6. Elems(r) \subseteq Elems(q) \cup {b}
  BY <1>2, <1>3, <1>4 DEF Elems
<1>7. Elems(q) \cup {b} \subseteq Elems(r)
  BY <1>2, <1>3, <1>5 DEF Elems
<1>8. Elems(r) = Elems(q) \cup {b}
  BY <1>6, <1>7
<1> QED
  BY <1>1, <1>8 DEF r

\* The calls in progress reserve at most MAXOPBLOCKS slots each.
LEMMA ReservedFinite ==
  /\ IsFiniteSet(Reserved)
  /\ Cardinality(Reserved) \in Nat
  /\ Cardinality(Reserved) <= Cardinality(Ops) * MAXOPBLOCKS
<1> USE LogConstants DEF LogConstants
<1>1. IsFiniteSet(1..MAXOPBLOCKS) /\ Cardinality(1..MAXOPBLOCKS) = MAXOPBLOCKS
  BY FS_Interval
<1>2. /\ IsFiniteSet(Ops \X (1..MAXOPBLOCKS))
      /\ Cardinality(Ops \X (1..MAXOPBLOCKS)) = Cardinality(Ops) * MAXOPBLOCKS
  <2> DEFINE I == 1..MAXOPBLOCKS
  <2>1. IsFiniteSet(I) /\ Cardinality(I) = MAXOPBLOCKS
    BY <1>1
  <2> HIDE DEF I
  <2>2. IsFiniteSet(Ops \X I) /\ Cardinality(Ops \X I) = Cardinality(Ops) * Cardinality(I)
    BY <2>1, OpsFinite, FS_Product
  <2> QED
    BY <2>1, <2>2 DEF I
<1>3. Reserved \in SUBSET (Ops \X (1..MAXOPBLOCKS))
  BY DEF Reserved
<1> QED
  BY <1>2, <1>3, FS_Subset, FS_CardinalityType

ReservedFacts ==
  /\ IsFiniteSet(Reserved)
  /\ Cardinality(Reserved) \in Nat
  /\ Cardinality(Reserved) <= Cardinality(Ops) * MAXOPBLOCKS

\* The same facts under one name.
LEMMA ReservedFactsHere == ReservedFacts
BY ReservedFinite DEF ReservedFacts

\* The same facts after a step.
LEMMA ReservedFactsNext == ReservedFacts'
BY ReservedFactsHere, PTL

\* The blocks of a call that are in the header are at most OpBlocks.
LEMMA LoggedBound ==
  ASSUME WroteInv, NEW p \in Procs
  PROVE  /\ IsFiniteSet(Logged(p))
         /\ Cardinality(Logged(p)) \in Nat
         /\ Cardinality(Logged(p)) <= Cardinality(wrote[p])
         /\ Cardinality(wrote[p]) \in Nat
         /\ Cardinality(Logged(p)) <= OpBlocks
<1>1. IsFiniteSet(wrote[p]) /\ Cardinality(wrote[p]) <= OpBlocks
  BY DEF WroteInv
<1>2. Logged(p) \in SUBSET wrote[p]
  BY DEF Logged
<1> QED
  BY <1>1, <1>2, FS_Subset, FS_CardinalityType, LogConstants DEF LogConstants

\* wrote keeps account of the blocks a call has put into the header.
LEMMA StepWroteInv ==
  ASSUME IInv, WroteInv, [Next]_vars
  PROVE  WroteInv'
<1> USE LogConstants DEF LogConstants
<1>1. ASSUME NEW p \in Procs, BeginOp(p) PROVE WroteInv'
  BY <1>1 DEF BeginOp, WroteInv, Elems, IInv, TypeOK
<1>2. ASSUME NEW p \in Procs, BeginOpSleep(p) PROVE WroteInv'
  BY <1>2 DEF BeginOpSleep, WroteInv, Elems, IInv, TypeOK, mem
<1>3. ASSUME NEW p \in Procs, NEW b \in Blocks, NEW v \in Vals, Modify(p, b, v)
      PROVE  WroteInv'
  <2>1. IsFiniteSet(wrote[p] \cup {b}) /\ Cardinality(wrote[p] \cup {b}) <= OpBlocks
    <3>1. IsFiniteSet(wrote[p])
      BY DEF WroteInv
    <3> QED
      BY <1>3, <3>1, FS_AddElement DEF Modify
  <2>2. /\ wrote' = [wrote EXCEPT ![p] = wrote[p] \cup {b}]
        /\ held' = [held EXCEPT ![p] = b]
        /\ held[p] = NoBlock /\ pc[p] = "op" /\ pc' = pc /\ lh' = lh
        /\ \A q \in Procs : held[q] # b
        /\ wrote \in [Procs -> SUBSET Blocks]
        /\ held \in [Procs -> Blocks \cup {NoBlock}]
    BY <1>3 DEF Modify, mem, IInv, TypeOK
  <2>3. wrote[p] \subseteq Elems(lh)
    BY <2>2 DEF WroteInv
  <2> QED
    BY <2>1, <2>2, <2>3 DEF WroteInv, Elems
<1>4. ASSUME NEW p \in Procs, LogWrite(p) PROVE WroteInv'
  <2>1. /\ held[p] \in Blocks
        /\ held' = [held EXCEPT ![p] = NoBlock]
        /\ UNCHANGED <<pc, wrote>>
        /\ lh' = IF held[p] \in Elems(lh) THEN lh ELSE Append(lh, held[p])
    BY <1>4 DEF LogWrite, IInv, TypeOK
  <2>2. Elems(lh') = Elems(lh) \cup {held[p]}
    <3>1. CASE held[p] \in Elems(lh)
      BY <2>1, <3>1
    <3>2. CASE held[p] \notin Elems(lh)
      BY <2>1, <3>2, ElemsAppend DEF IInv, TypeOK
    <3> QED
      BY <3>1, <3>2
  <2>3. held \in [Procs -> Blocks \cup {NoBlock}]
    BY DEF IInv, TypeOK
  <2> HIDE DEF Elems
  <2> QED
    BY <2>1, <2>2, <2>3 DEF WroteInv
<1>5. ASSUME NEW p \in Procs, EndOp(p) PROVE WroteInv'
  <2>1. \A q \in Procs : q # p => (pc'[q] = "op" <=> pc[q] = "op")
    BY <1>5 DEF EndOp, Wakeup, IInv, TypeOK
  <2>2. wrote' = [wrote EXCEPT ![p] = {}] /\ UNCHANGED <<held, lh>> /\ held[p] = NoBlock
    BY <1>5 DEF EndOp
  <2>3. Cardinality({}) <= OpBlocks /\ IsFiniteSet({})
    BY FS_EmptySet
  <2> QED
    BY <2>1, <2>2, <2>3 DEF WroteInv, Elems, IInv, TypeOK
<1>6. ASSUME NEW p \in Procs, FinishCommit(p) PROVE WroteInv'
  BY <1>6 DEF FinishCommit, Wakeup, WroteInv, Elems, IInv, TypeOK
<1>7. ASSUME NEW b \in Blocks, Bread(b) \/ Recycle(b) PROVE WroteInv'
  BY <1>7 DEF Bread, Recycle, WroteInv, Elems, mem, calls
<1>8. ASSUME write_log \/ write_head \/ install_trans PROVE WroteInv'
  BY <1>8 DEF write_log, write_head, install_trans, WroteInv, Elems, mem, calls
<1>9. ASSUME EraseLog \/ read_head PROVE WroteInv'
  <2>1. \A p \in Procs : pc[p] # "op" /\ wrote[p] = {}
    BY <1>9, NoCall DEF EraseLog, read_head, IInv, LogInv, ModeInv, WroteInv
  <2> QED
    BY <1>9, <2>1 DEF EraseLog, read_head, WroteInv, calls
<1>10. ASSUME Crash PROVE WroteInv'
  BY <1>10, FS_EmptySet DEF Crash, WroteInv
<1>11. ASSUME UNCHANGED vars PROVE WroteInv'
  BY <1>11 DEF vars, WroteInv, Elems, mem, calls
<1> QED
  BY <1>1, <1>2, <1>3, <1>4, <1>5, <1>6, <1>7, <1>8, <1>9, <1>10, <1>11
  DEF Next, Call, CommitStep

\* A step that lets no call own more slots and adds nothing to the header.
LEMMA SpaceKept ==
  ASSUME SpaceInv, step' = "run" => step = "run", lh' = lh, Reserved' \subseteq Reserved,
         lh \in Seq(Blocks)
  PROVE  SpaceInv'
<1>1. Cardinality(Reserved') <= Cardinality(Reserved)
  BY ReservedFactsHere, FS_Subset DEF ReservedFacts
<1> QED
  BY <1>1, ReservedFactsHere, ReservedFactsNext, LogConstants
  DEF SpaceInv, ReservedFacts, LogConstants

\* begin_op lets a call in only if its reservation fits.
LEMMA SpaceBeginOp ==
  ASSUME IInv, NEW p \in Procs, BeginOp(p)
  PROVE  SpaceInv'
<1>1. Cardinality(Reserved') <= Cardinality(Ops') * MAXOPBLOCKS
  BY ReservedFactsNext DEF ReservedFacts
<1>2. Cardinality(Ops') = outstanding + 1
  <2>1. IInv' /\ outstanding' = outstanding + 1
    BY StepBeginOp DEF BeginOp
  <2> QED
    BY <2>1 DEF IInv, LogInv, CountInv
<1>3. Len(lh') + (outstanding + 1) * MAXOPBLOCKS <= LOGSIZE
  BY LogConstants DEF BeginOp, NoSpace, IInv, TypeOK, LogConstants
<1> QED
  BY <1>1, <1>2, <1>3, ReservedFactsNext, LogConstants
  DEF SpaceInv, ReservedFacts, LogConstants, IInv, TypeOK, BeginOp

\* A block that is about to be logged is still covered by the reservation.
LEMMA SpaceModify ==
  ASSUME IInv, WroteInv, WroteInv', SpaceInv,
         NEW p \in Procs, NEW b \in Blocks, NEW v \in Vals, Modify(p, b, v)
  PROVE  SpaceInv'
<1>1. /\ wrote' = [wrote EXCEPT ![p] = wrote[p] \cup {b}] /\ UNCHANGED <<lh, pc, step>>
      /\ wrote \in [Procs -> SUBSET Blocks] /\ lh \in Seq(Blocks)
  BY DEF Modify, mem, ctl, IInv, TypeOK
<1>2. ASSUME NEW q \in Procs
      PROVE  Cardinality(Logged(q)) <= Cardinality(Logged(q)')
  <2>1. IsFiniteSet(wrote'[q])
    BY DEF WroteInv
  <2>2. Logged(q)' \in SUBSET wrote'[q] /\ Logged(q) \in SUBSET (Logged(q)')
    BY <1>1 DEF Logged
  <2>3. IsFiniteSet(Logged(q)')
    BY <2>1, <2>2, FS_Subset
  <2> QED
    BY <2>2, <2>3, FS_Subset
<1>3. Ops' = Ops
  BY <1>1 DEF Ops
<1>4. Reserved' \subseteq Reserved
  <2> SUFFICES ASSUME NEW t \in Reserved' PROVE t \in Reserved
    OBVIOUS
  <2>1. t \in Ops \X (1..MAXOPBLOCKS) /\ t[2] > Cardinality(Logged(t[1]))'
    BY <1>3 DEF Reserved
  <2>2. t[1] \in Procs /\ t[2] \in Nat
    BY <2>1 DEF Ops
  <2>3. Cardinality(Logged(t[1])) \in Nat /\ Cardinality(Logged(t[1])') \in Nat
    <3>1. IsFiniteSet(wrote'[t[1]]) /\ Logged(t[1])' \in SUBSET wrote'[t[1]]
      BY <2>2 DEF WroteInv, Logged
    <3> QED
      BY <3>1, <2>2, LoggedBound, FS_Subset, FS_CardinalityType
  <2> QED
    BY <2>1, <2>2, <2>3, <1>2 DEF Reserved
<1> QED
  BY <1>1, <1>4, SpaceKept

\* log_write turns a reserved slot into a used one.
LEMMA SpaceLogWrite ==
  ASSUME IInv, WroteInv, SpaceInv, RoomyLog, NEW p \in Procs, LogWrite(p)
  PROVE  SpaceInv'
<1> USE LogConstants DEF LogConstants
<1> DEFINE b == held[p]
           k == Cardinality(Logged(p)) + 1
<1>1. /\ b \in Blocks /\ b # NoBlock /\ UNCHANGED <<wrote, pc, step>>
      /\ lh' = IF b \in Elems(lh) THEN lh ELSE Append(lh, b)
      /\ lh \in Seq(Blocks) /\ pc[p] = "op" /\ b \in wrote[p]
  BY DEF LogWrite, IInv, LogInv, BufInv, TypeOK, ctl, WroteInv
<1>2. CASE b \in Elems(lh)
  <2>1. Reserved' = Reserved /\ lh' = lh
    BY <1>1, <1>2 DEF Reserved, Logged, Ops
  <2> QED
    BY <2>1, <1>1, SpaceKept
<1>3. CASE b \notin Elems(lh)
  <2>1. Len(lh') = Len(lh) + 1 /\ Elems(lh') = Elems(lh) \cup {b} /\ Len(lh) \in Nat
    <3>1. lh' = Append(lh, b)
      BY <1>1, <1>3
    <3>2. lh \in Seq(Blocks) /\ b \in Blocks
      BY <1>1
    <3> HIDE DEF b
    <3> QED
      BY <3>1, <3>2, ElemsAppend
  <2>2. Logged(p)' = Logged(p) \cup {b} /\ b \notin Logged(p)
    BY <1>1, <1>3, <2>1 DEF Logged, Elems
  <2>3. Cardinality(Logged(p)') = k /\ k \in Nat
    <3>1. IsFiniteSet(Logged(p)) /\ Cardinality(Logged(p)) \in Nat
      BY LoggedBound
    <3>2. Cardinality(Logged(p) \cup {b}) = Cardinality(Logged(p)) + 1
      BY <3>1, <2>2, FS_AddElement
    <3> QED
      BY <3>1, <3>2, <2>2
  <2>4. k <= OpBlocks
    <3>1. Logged(p) \cup {b} \in SUBSET wrote[p]
      BY <1>1 DEF Logged
    <3>2. Cardinality(Logged(p) \cup {b}) <= Cardinality(wrote[p])
      BY <3>1, FS_Subset DEF WroteInv
    <3> QED
      BY <3>2, <2>2, <2>3, LoggedBound DEF WroteInv
  <2>5. ASSUME NEW q \in Procs, q # p PROVE Logged(q)' = Logged(q)
    <3>1. b \notin wrote[q]
      BY <2>5, <1>1, <1>3 DEF WroteInv
    <3> QED
      BY <3>1, <1>1, <2>1 DEF Logged, Elems
  <2>6. <<p, k>> \in Reserved
    BY <1>1, <2>3, <2>4, LoggedBound DEF Reserved, Ops, RoomyLog
  <2>7. Reserved' = Reserved \ {<<p, k>>}
    <3>1. Ops' = Ops /\ Ops \subseteq Procs
      BY <1>1 DEF Ops
    <3>2. ASSUME NEW q \in Ops, NEW j \in 1..MAXOPBLOCKS
          PROVE  j > Cardinality(Logged(q)') <=>
                   j > Cardinality(Logged(q)) /\ <<q, j>> # <<p, k>>
      <4>1. CASE q = p
        BY <4>1, <2>3, LoggedBound
      <4>2. CASE q # p
        BY <4>2, <2>5, <3>1
      <4> QED
        BY <4>1, <4>2
    <3> QED
      BY <3>1, <3>2 DEF Reserved
  <2>8. Cardinality(Reserved') = Cardinality(Reserved) - 1
    <3>1. IsFiniteSet(Reserved)
      BY ReservedFactsHere DEF ReservedFacts
    <3>2. Cardinality(Reserved \ {<<p, k>>}) = Cardinality(Reserved) - 1
      <4> HIDE DEF k
      <4> QED
        BY <3>1, <2>6, FS_RemoveElement
    <3> QED
      BY <2>7, <3>2
  <2> QED
    BY <1>1, <2>1, <2>8, ReservedFactsHere DEF SpaceInv, ReservedFacts
<1> QED
  BY <1>2, <1>3

\* No step takes more of the log than was reserved for it.
LEMMA StepSpaceInv ==
  ASSUME IInv, WroteInv, SpaceInv, RoomyLog, [Next]_vars
  PROVE  SpaceInv'
<1> USE LogConstants DEF LogConstants
<1>0. lh \in Seq(Blocks) /\ WroteInv'
  BY StepWroteInv DEF IInv, TypeOK
<1>1. ASSUME NEW p \in Procs, BeginOp(p) PROVE SpaceInv'
  BY <1>1, SpaceBeginOp
<1>2. ASSUME NEW p \in Procs, BeginOpSleep(p) PROVE SpaceInv'
  <2>1. Ops' = Ops
    BY <1>2 DEF BeginOpSleep, Ops, IInv, TypeOK
  <2>2. UNCHANGED <<lh, wrote, step>>
    BY <1>2 DEF BeginOpSleep, mem, ctl
  <2>3. Reserved' = Reserved
    BY <2>1, <2>2 DEF Reserved, Logged, Elems
  <2> QED
    BY <2>2, <2>3, <1>0, SpaceKept
<1>3. ASSUME NEW p \in Procs, NEW b \in Blocks, NEW v \in Vals, Modify(p, b, v)
      PROVE  SpaceInv'
  BY <1>0, <1>3, SpaceModify
<1>4. ASSUME NEW p \in Procs, LogWrite(p) PROVE SpaceInv'
  BY <1>4, SpaceLogWrite
<1>5. ASSUME NEW p \in Procs, EndOp(p) PROVE SpaceInv'
  <2>1. Ops' = Ops \ {p} /\ lh' = lh /\ \A q \in Procs \ {p} : wrote'[q] = wrote[q]
    BY <1>5 DEF EndOp, Wakeup, Ops, IInv, TypeOK
  <2>2. Reserved' \subseteq Reserved
    <3>1. \A q \in Ops' : q \in Ops /\ Logged(q)' = Logged(q)
      BY <2>1 DEF Logged, Elems, Ops
    <3> QED
      BY <3>1 DEF Reserved
  <2>3. step = "run"
    BY <1>5, InCall DEF EndOp
  <2> QED
    BY <2>1, <2>2, <2>3, <1>0, SpaceKept
<1>6. ASSUME outstanding' = 0, lh' = <<>>, IInv' PROVE SpaceInv'
  <2>1. Cardinality(Ops') = 0
    BY <1>6 DEF IInv, LogInv, CountInv
  <2>2. Cardinality(Reserved') <= 0
    BY <2>1, ReservedFactsNext DEF ReservedFacts
  <2> QED
    BY <1>6, <2>2, ReservedFactsNext DEF SpaceInv, ReservedFacts
<1>7. ASSUME NEW p \in Procs, FinishCommit(p) PROVE SpaceInv'
  BY <1>6, <1>7, StepFinishCommit DEF FinishCommit, IInv, LogInv, PhaseInv, ModeInv
<1>8. ASSUME EraseLog PROVE SpaceInv'
  BY <1>6, <1>8, StepErase DEF EraseLog, IInv, LogInv, ModeInv
<1>9. ASSUME write_log \/ write_head \/ install_trans \/ read_head \/ Crash PROVE SpaceInv'
  BY <1>9 DEF write_log, write_head, install_trans, read_head, Crash, Loop, SpaceInv
<1>10. ASSUME UNCHANGED <<lh, pc, wrote, step>> PROVE SpaceInv'
  <2>1. Reserved' = Reserved
    BY <1>10 DEF Reserved, Logged, Elems, Ops
  <2> QED
    BY <2>1, <1>0, <1>10, SpaceKept
<1>11. ASSUME NEW b \in Blocks, Bread(b) \/ Recycle(b) PROVE SpaceInv'
  BY <1>10, <1>11 DEF Bread, Recycle, mem, calls, ctl
<1>12. ASSUME UNCHANGED vars PROVE SpaceInv'
  BY <1>10, <1>12 DEF vars, mem, calls, ctl
<1> QED
  BY <1>1, <1>2, <1>3, <1>4, <1>5, <1>7, <1>8, <1>9, <1>11, <1>12 DEF Next, Call, CommitStep

\* If no call writes more than MAXOPBLOCKS - 2 different blocks and the log on
\* disk has LOGSIZE blocks, none of the panics of log.c can fire.
THEOREM LogNeverPanics ==
  ASSUME RoomyLog PROVE Spec => []NoPanic
<1>1. Init => WroteInv /\ SpaceInv
  BY LogConstants, FS_EmptySet DEF Init, WroteInv, SpaceInv, LogConstants
<1>2. IInv /\ WroteInv /\ SpaceInv /\ [Next]_vars => WroteInv' /\ SpaceInv'
  BY StepWroteInv, StepSpaceInv
<1>3. IInv /\ WroteInv /\ SpaceInv => NoPanic
  <2> SUFFICES ASSUME IInv, WroteInv, SpaceInv PROVE NoPanic
    OBVIOUS
  <2>1. \A p \in Procs : pc[p] = "op" => ~committing
    BY InCall
  <2>2. ASSUME NEW p \in Procs, held[p] # NoBlock PROVE ~TooBig /\ outstanding >= 1
    <3>1. pc[p] = "op" /\ outstanding >= 1 /\ step = "run" /\ Len(lh) \in Nat
      BY <2>2, InCall DEF IInv, LogInv, BufInv, TypeOK
    <3> DEFINE D == {<<p, MAXOPBLOCKS>>, <<p, MAXOPBLOCKS - 1>>}
    <3>2. D \in SUBSET Reserved
      BY <3>1, LoggedBound, RoomyLog, LogConstants DEF Reserved, Ops, RoomyLog, LogConstants
    <3>3. Cardinality(D) = 2
      <4>1. D = {<<p, MAXOPBLOCKS>>} \cup {<<p, MAXOPBLOCKS - 1>>}
        OBVIOUS
      <4>2. <<p, MAXOPBLOCKS - 1>> \notin {<<p, MAXOPBLOCKS>>}
        BY LogConstants DEF LogConstants
      <4>3. /\ IsFiniteSet({<<p, MAXOPBLOCKS>>})
            /\ Cardinality({<<p, MAXOPBLOCKS>>}) = 1
        BY FS_Singleton
      <4>4. Cardinality({<<p, MAXOPBLOCKS>>} \cup {<<p, MAXOPBLOCKS - 1>>}) = 1 + 1
        BY <4>2, <4>3, FS_AddElement
      <4> QED
        BY <4>1, <4>4
    <3>4. Cardinality(Reserved) >= 2
      BY <3>2, <3>3, ReservedFactsHere, FS_Subset DEF ReservedFacts
    <3> QED
      BY <3>1, <3>4, ReservedFactsHere, RoomyLog, LogConstants
      DEF SpaceInv, TooBig, ReservedFacts, RoomyLog, LogConstants
  <2> QED
    BY <2>1, <2>2 DEF NoPanic
<1>4. IInv <=> TypeOK /\ LogInv
  BY DEF IInv
<1> QED
  BY <1>1, <1>2, <1>3, <1>4, LogInvariant, PTL DEF Spec
=============================================================================
