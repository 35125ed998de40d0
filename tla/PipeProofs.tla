----------------------------- MODULE PipeProofs -----------------------------
(***************************************************************************)
(* A pipe stays within its buffer, is not used once it is freed, loses no  *)
(* wakeup and is a bounded stream of bytes, for any number of processes,   *)
(* any buffer size and any width of the counters.                          *)
(***************************************************************************)
EXTENDS Pipe, RingProofs

-----------------------------------------------------------------------------
(* The inductive invariant. *)

\* nwrite is never more than the size of the buffer ahead of nread.
RingInv == Count <= PIPESIZE

\* p->lock is held between two steps only from the test of p->killed to the
\* sleep.
LockInv == \A p \in Procs : lock = p <=> ppc[p] \in {"wsleep", "rsleep"}

\* A process in a call has the descriptor open and bytes left to move.
CallInv ==
  \A p \in Procs :
    /\ ppc[p] \in {"write", "wsleep", "wasleep"} => "w" \in fds[p] /\ left[p] > 0
    /\ ppc[p] \in {"read", "rsleep", "rasleep"} => "r" \in fds[p] /\ left[p] > 0

\* An end is open as long as somebody has it or is on the way to close it,
\* and only the last one to have it is.
OpenInv ==
  \A p \in Procs :
    /\ "w" \in fds[p] \/ ppc[p] = "closew" => writeopen
    /\ "r" \in fds[p] \/ ppc[p] = "closer" => readopen
    /\ ppc[p] = "closew" =>
         \A q \in Procs : "w" \notin fds[q] /\ (ppc[q] = "closew" => q = p)
    /\ ppc[p] = "closer" =>
         \A q \in Procs : "r" \notin fds[q] /\ (ppc[q] = "closer" => q = p)

\* Until somebody is killed, who sleeps or is about to has to.
WakeInv ==
  (\A p \in Procs : ~pkilled[p]) =>
    \A p \in Procs :
      /\ ppc[p] \in {"rsleep", "rasleep"} => Empty /\ writeopen
      /\ ppc[p] \in {"wsleep", "wasleep"} => Full /\ readopen

PipeInv == PTypeOK /\ RingInv /\ LockInv /\ CallInv /\ OpenInv /\ WakeInv

-----------------------------------------------------------------------------
(* The ring. *)

\* The constants, as the lemmas about rings need them.
LEMMA Sizes ==
  /\ PIPESIZE \in Int /\ PIPESIZE > 0 /\ Wrap \in Int /\ Wrap > 0
  /\ Wrap % PIPESIZE = 0 /\ PIPESIZE < Wrap /\ MaxN \in Nat
  BY PipeConstants DEF PipeConstants

\* The bound on the calls is a number.
LEMMA BoundIsNat == MaxN \in Nat
  BY Sizes

\* The tests of pipewrite and piperead for a full and for an empty buffer,
\* for any values of the counters.
LEMMA CountersFacts ==
  ASSUME NEW i \in 0..(Wrap-1), NEW j \in 0..(Wrap-1)
  PROVE  /\ (j - i) % Wrap \in 0..(Wrap-1)
         /\ j = (i + PIPESIZE) % Wrap <=> (j - i) % Wrap = PIPESIZE
         /\ i = j <=> (j - i) % Wrap = 0
  <1> USE Sizes
  <1>1. (j - i) % Wrap = IF j >= i THEN j - i ELSE j - i + Wrap
    BY ModNear
  <1>2. (i + PIPESIZE) % Wrap =
          IF i + PIPESIZE < Wrap THEN i + PIPESIZE ELSE i + PIPESIZE - Wrap
    BY ModNear
  <1> QED BY <1>1, <1>2

\* The same for the pipe.
LEMMA CountFacts ==
  ASSUME PTypeOK, RingInv
  PROVE  /\ Count \in 0..PIPESIZE /\ Room \in 0..PIPESIZE
         /\ Full <=> Count = PIPESIZE
         /\ Empty <=> Count = 0
  <1>1. /\ Count \in 0..(Wrap-1)
        /\ Full <=> Count = PIPESIZE
        /\ Empty <=> Count = 0
    BY CountersFacts DEF PTypeOK, Count, Full, Empty
  <1> QED BY <1>1, Sizes DEF Room, RingInv

\* Storing k bytes that fit moves nwrite on by k, and storing none changes
\* nothing.
LEMMA StoreFacts ==
  ASSUME PTypeOK, RingInv, NEW k \in 0..Room, NEW s \in [1..k -> Byte], Store(s),
         nread' = nread
  PROVE  /\ Len(s) = k /\ s \in Seq(Byte)
         /\ data' \in [0..(PIPESIZE-1) -> Byte] /\ nwrite' \in 0..(Wrap-1)
         /\ Count' = Count + k
         /\ k = 0 => data' = data /\ nwrite' = nwrite
  <1> USE Sizes DEF PTypeOK
  <1>1. Count \in 0..PIPESIZE /\ Room \in 0..PIPESIZE /\ Room = PIPESIZE - Count
    BY CountFacts DEF Room
  <1>2. Len(s) = k /\ s \in Seq(Byte)
    BY <1>1, FunctionIsSeq
  <1>3. \A i \in 0..(PIPESIZE-1) : (i - nwrite) % PIPESIZE \in 0..(PIPESIZE-1)
    BY ModDef
  <1>4. data' = [i \in 0..(PIPESIZE-1) |->
                  IF (i - nwrite) % PIPESIZE < k
                    THEN s[((i - nwrite) % PIPESIZE) + 1] ELSE data[i]]
    BY <1>2 DEF Store
  <1>5. data' \in [0..(PIPESIZE-1) -> Byte]
    BY <1>1, <1>3, <1>4
  <1>6. k = 0 => data' = data
    BY <1>3, <1>4
  <1>7. nwrite' = (nwrite + k) % Wrap
    BY <1>2 DEF Store
  <1>8. nwrite' \in 0..(Wrap-1) /\ Count' = Count + k
    <2>1. k \in Nat /\ ((nwrite - nread) % Wrap) + k < Wrap
      BY <1>1 DEF Count
    <2>2. /\ (nwrite + k) % Wrap \in 0..(Wrap-1)
          /\ (((nwrite + k) % Wrap) - nread) % Wrap = ((nwrite - nread) % Wrap) + k
      <3>1. Wrap \in Int /\ Wrap > 0 /\ nread \in 0..(Wrap-1) /\ nwrite \in 0..(Wrap-1)
        OBVIOUS
      <3>2. \A i, j \in 0..(Wrap-1) : \A d \in Nat : ((j - i) % Wrap) + d < Wrap =>
              /\ (j + d) % Wrap \in 0..(Wrap-1)
              /\ (((j + d) % Wrap) - i) % Wrap = ((j - i) % Wrap) + d
        BY <3>1, MoveFront, Zenon
      <3> QED BY <2>1, <3>1, <3>2, Zenon
    <2> QED BY <1>7, <2>2 DEF Count
  <1>9. k = 0 => nwrite' = nwrite
    BY <1>7, ModNear
  <1> QED BY <1>2, <1>5, <1>6, <1>8, <1>9

\* Taking k bytes moves nread on by k.
LEMMA TakeFacts ==
  ASSUME PTypeOK, RingInv, NEW k \in 0..Count, nread' = (nread + k) % Wrap,
         nwrite' = nwrite
  PROVE  nread' \in 0..(Wrap-1) /\ Count' = Count - k
  <1>1. k \in Nat /\ k <= (nwrite - nread) % Wrap
    BY CountFacts DEF Count
  <1>2. nread \in 0..(Wrap-1) /\ nwrite \in 0..(Wrap-1)
    BY DEF PTypeOK
  <1>3. /\ (nread + k) % Wrap \in 0..(Wrap-1)
        /\ (nwrite - ((nread + k) % Wrap)) % Wrap = ((nwrite - nread) % Wrap) - k
    <2>1. Wrap \in Int /\ Wrap > 0
      BY Sizes
    <2>2. \A i, j \in 0..(Wrap-1) : \A d \in Nat : d <= (j - i) % Wrap =>
            /\ (i + d) % Wrap \in 0..(Wrap-1)
            /\ (j - ((i + d) % Wrap)) % Wrap = ((j - i) % Wrap) - d
      BY <2>1, MoveBack, Zenon
    <2> QED BY <1>1, <1>2, <2>2, Zenon
  <1> QED BY <1>3 DEF Count

-----------------------------------------------------------------------------
(* Each step preserves the invariant. *)

\* The new pipe satisfies the invariant.
LEMMA InitPipeInv == PInit => PipeInv
  <1> SUFFICES ASSUME PInit PROVE PipeInv
    OBVIOUS
  <1> USE Sizes, ProcessConstants DEF ProcessConstants, PInit
  <1>1. PTypeOK
    BY EmptySeq DEF PTypeOK, Places
  <1>2. RingInv
    BY ModNear DEF RingInv, Count
  <1>3. LockInv /\ CallInv /\ OpenInv /\ WakeInv
    BY DEF LockInv, CallInv, OpenInv, WakeInv
  <1> QED BY <1>1, <1>2, <1>3 DEF PipeInv

\* The steps that do not touch the ring: entering a call, going to sleep, and
\* finding nothing to read.
LEMMA WaitingSteps ==
  ASSUME PipeInv, NEW p \in Procs,
         \/ \E k \in 1..MaxN : WriteCall(p, k) \/ ReadCall(p, k)
         \/ WriteSleep(p) \/ ReadWait(p) \/ ReadSleep(p)
  PROVE  PipeInv'
  <1> USE ProcessConstants DEF ProcessConstants, PipeInv, ring, opens
  <1>1. ASSUME NEW k \in 1..MaxN, WriteCall(p, k) \/ ReadCall(p, k)
        PROVE  PipeInv'
    <2> USE <1>1 DEF WriteCall, ReadCall
    <2>1. PTypeOK'
      <3>1. left' = [left EXCEPT ![p] = k] /\ k \in 0..MaxN
        BY BoundIsNat
      <3>2. left' \in [Procs -> 0..MaxN]
        BY <3>1 DEF PTypeOK
      <3>3. ppc' \in [Procs -> Places]
        BY ZenonT(30) DEF PTypeOK, Places
      <3> QED BY <3>2, <3>3 DEF PTypeOK
    <2>6. RingInv'
      BY DEF RingInv, Count
    <2>2. LockInv'
      BY DEF PTypeOK, LockInv
    <2>3. CallInv'
      BY DEF PTypeOK, CallInv
    <2>4. OpenInv'
      BY DEF PTypeOK, OpenInv
    <2>5. WakeInv'
      BY DEF PTypeOK, WakeInv, Empty, Full
    <2> QED BY <2>1, <2>2, <2>3, <2>4, <2>5, <2>6
  <1>2. CASE WriteSleep(p) \/ ReadSleep(p)
    <2> USE <1>2 DEF WriteSleep, ReadSleep
    <2>1. PTypeOK' /\ RingInv'
      BY SMTT(30) DEF PTypeOK, Places, RingInv, Count
    <2>2. LockInv'
      BY SMTT(30) DEF PTypeOK, LockInv
    <2>3. CallInv'
      BY DEF PTypeOK, CallInv
    <2>4. OpenInv'
      BY DEF PTypeOK, OpenInv
    <2>5. WakeInv'
      BY DEF PTypeOK, WakeInv, Empty, Full
    <2> QED BY <2>1, <2>2, <2>3, <2>4, <2>5
  <1>3. CASE ReadWait(p)
    <2> USE <1>3 DEF ReadWait
    <2>1. PTypeOK'
      <3>1. left' \in [Procs -> 0..MaxN]
        <4>1. left' = left \/ left' = [left EXCEPT ![p] = 0]
          OBVIOUS
        <4> QED BY <4>1, BoundIsNat DEF PTypeOK
      <3>2. ppc' \in [Procs -> Places] /\ lock' \in Procs \cup {NoProc}
        BY DEF PTypeOK, Places
      <3> QED BY <3>1, <3>2 DEF PTypeOK
    <2>6. RingInv'
      BY DEF RingInv, Count
    <2>2. LockInv'
      BY DEF PTypeOK, LockInv
    <2>3. CallInv'
      BY DEF PTypeOK, CallInv
    <2>4. OpenInv'
      BY DEF PTypeOK, OpenInv
    <2>5. WakeInv'
      BY DEF PTypeOK, WakeInv, Empty, Full
    <2> QED BY <2>1, <2>2, <2>3, <2>4, <2>5, <2>6
  <1> QED BY <1>1, <1>2, <1>3

\* The last close of an end finds nobody in a call on that end, and wakes the
\* other side.
LEMMA CloseSteps ==
  ASSUME PipeInv, NEW p \in Procs,
         pipeclose(p) \/ (\E e \in {"r", "w"} : fileclose(p, e))
  PROVE  PipeInv'
  <1> USE ProcessConstants DEF ProcessConstants, PipeInv, ring, opens
  <1>1. CASE pipeclose(p)
    <2> USE <1>1 DEF pipeclose, WakeReaders, WakeWriters
    <2>1. PTypeOK' /\ RingInv'
      BY DEF PTypeOK, Places, RingInv, Count
    <2>2. LockInv'
      BY SMTT(30) DEF PTypeOK, LockInv
    <2>3. CallInv'
      BY DEF PTypeOK, CallInv
    <2>4. OpenInv'
      <3>1. \A q \in Procs : ppc'[q] \in {"closew", "closer"} => q # p /\ ppc'[q] = ppc[q]
        BY DEF PTypeOK
      <3>2. CASE ppc[p] = "closew"
        BY <3>1, <3>2 DEF PTypeOK, OpenInv
      <3>3. CASE ppc[p] = "closer"
        BY <3>1, <3>3 DEF PTypeOK, OpenInv
      <3> QED BY <3>2, <3>3
    <2>5. WakeInv'
      BY DEF PTypeOK, LockInv, CallInv, OpenInv, WakeInv, Empty, Full
    <2> QED BY <2>1, <2>2, <2>3, <2>4, <2>5
  <1>2. ASSUME NEW e \in {"r", "w"}, fileclose(p, e)
        PROVE  PipeInv'
    <2> USE <1>2 DEF fileclose, LastUser
    <2>1. PTypeOK' /\ RingInv'
      BY DEF PTypeOK, Places, RingInv, Count
    <2>2. LockInv'
      BY DEF PTypeOK, LockInv
    <2>3. CallInv'
      BY DEF PTypeOK, CallInv
    <2>4. OpenInv'
      BY DEF PTypeOK, OpenInv
    <2>5. WakeInv'
      BY DEF PTypeOK, WakeInv, Empty, Full
    <2> QED BY <2>1, <2>2, <2>3, <2>4, <2>5
  <1> QED BY <1>1, <1>2

\* kill wakes its victim, and ends what WakeInv promises.
LEMMA KillStep ==
  ASSUME PipeInv, NEW p \in Procs, pkill(p)
  PROVE  PipeInv'
  <1> USE DEF PipeInv, ring, opens, pkill
  <1>1. PTypeOK' /\ RingInv'
    BY DEF PTypeOK, Places, RingInv, Count
  <1>2. LockInv' /\ CallInv' /\ OpenInv'
    BY DEF PTypeOK, LockInv, CallInv, OpenInv
  <1>3. WakeInv'
    BY DEF PTypeOK, WakeInv
  <1> QED BY <1>1, <1>2, <1>3

\* pipewrite copies what fits and wakes the readers; it stops short of the
\* end only on a full buffer.
LEMMA WriteStep ==
  ASSUME PipeInv, NEW p \in Procs, pipewrite(p)
  PROVE  PipeInv'
  <1> USE ProcessConstants DEF ProcessConstants, PipeInv, opens, Least
  <1> DEFINE k == Least(left[p], Room)
  <1>1. /\ Count \in 0..PIPESIZE /\ Room \in 0..PIPESIZE /\ Room = PIPESIZE - Count
        /\ (Full <=> Count = PIPESIZE) /\ (Empty <=> Count = 0)
    BY CountFacts, SMTT(30) DEF Room
  <1>2. k \in 0..Room /\ left[p] \in 0..MaxN /\ k <= left[p] /\ (left[p] # k => k = Room)
    BY <1>1, BoundIsNat, Sizes, SMTT(30) DEF PTypeOK
  <1>3. PICK b \in [1..k -> Byte] : Store(b)
    BY DEF pipewrite
  <1> HIDE DEF k
  <1>4. /\ ppc[p] = "write" /\ lock = NoProc
        /\ \/ /\ left[p] = k
              /\ ppc' = WakeReaders([ppc EXCEPT ![p] = "idle"])
              /\ left' = [left EXCEPT ![p] = 0] /\ lock' = lock
           \/ /\ left[p] # k /\ (~readopen \/ pkilled[p])
              /\ ppc' = [ppc EXCEPT ![p] = "idle"]
              /\ left' = [left EXCEPT ![p] = 0] /\ lock' = lock
           \/ /\ left[p] # k /\ readopen /\ ~pkilled[p]
              /\ ppc' = WakeReaders([ppc EXCEPT ![p] = "wsleep"])
              /\ left' = [left EXCEPT ![p] = @ - k] /\ lock' = p
        /\ UNCHANGED <<nread, readopen, writeopen, fds, pkilled, got>>
    BY SMTT(30) DEF pipewrite, k
  <1>5. /\ data' \in [0..(PIPESIZE-1) -> Byte] /\ nwrite' \in 0..(Wrap-1)
        /\ Count' = Count + k
    BY <1>2, <1>3, <1>4, StoreFacts
  <1>6. PTypeOK'
    <2>1. left' \in [Procs -> 0..MaxN]
      <3>1. left[p] - k \in 0..MaxN /\ 0 \in 0..MaxN
        BY <1>1, <1>2, BoundIsNat
      <3>2. left' = [left EXCEPT ![p] = 0] \/ left' = [left EXCEPT ![p] = left[p] - k]
        BY <1>4 DEF PTypeOK
      <3> QED BY <3>1, <3>2 DEF PTypeOK
    <2>2. ppc' \in [Procs -> Places] /\ lock' \in Procs \cup {NoProc}
      BY <1>4, SMTT(30) DEF PTypeOK, Places, WakeReaders
    <2> QED BY <1>4, <1>5, <2>1, <2>2 DEF PTypeOK
  <1>7. RingInv'
    BY <1>1, <1>2, <1>5, Sizes, SMTT(30) DEF RingInv
  <1>8. LockInv'
    BY <1>4 DEF PTypeOK, LockInv, WakeReaders
  <1>9. CallInv'
    <2>1. left[p] # k => left[p] - k > 0
      BY <1>1, <1>2
    <2> QED BY <1>4, <2>1, SMTT(30) DEF PTypeOK, CallInv, WakeReaders
  <1>10. OpenInv'
    <2>1. \A q \in Procs : ppc'[q] \in {"closew", "closer"} => ppc'[q] = ppc[q]
      BY <1>4 DEF PTypeOK, WakeReaders
    <2> QED BY <1>4, <2>1, SMTT(30) DEF OpenInv
  <1>11. WakeInv'
    <2> SUFFICES ASSUME \A q \in Procs : ~pkilled[q], NEW q \in Procs
                 PROVE  /\ ppc'[q] \in {"rsleep", "rasleep"} => Empty' /\ writeopen
                        /\ ppc'[q] \in {"wsleep", "wasleep"} => Full' /\ readopen
      BY <1>4, SMTT(30) DEF WakeInv
    <2>1. Full' <=> Count' = PIPESIZE
      BY <1>4, <1>5, CountersFacts DEF PTypeOK, Full, Count
    <2>2. ppc'[q] \notin {"rsleep", "rasleep"}
      BY <1>4 DEF PTypeOK, LockInv, CallInv, OpenInv, WakeReaders
    <2>3. ASSUME ppc'[q] = "wsleep" PROVE Full' /\ readopen
      <3>1. left[p] # k /\ readopen
        BY <1>4, <2>3 DEF PTypeOK, LockInv, WakeReaders
      <3> QED BY <1>1, <1>2, <1>5, <2>1, <3>1, Sizes
    <2>4. ASSUME ppc'[q] = "wasleep" PROVE Full' /\ readopen
      <3>1. Full /\ readopen
        BY <1>4, <2>4 DEF PTypeOK, WakeInv, WakeReaders
      <3> QED BY <1>1, <1>2, <1>5, <2>1, <3>1, Sizes
    <2> QED BY <2>2, <2>3, <2>4
  <1> QED BY <1>6, <1>7, <1>8, <1>9, <1>10, <1>11

\* piperead copies what there is, and wakes the writers.
LEMMA ReadStep ==
  ASSUME PipeInv, NEW p \in Procs, ReadCopy(p)
  PROVE  PipeInv'
  <1> USE ProcessConstants DEF ProcessConstants, PipeInv, opens, Least
  <1> DEFINE k == Least(left[p], Count)
  <1>1. Count \in 0..PIPESIZE /\ (Empty <=> Count = 0)
    BY CountFacts
  <1>2. k \in 0..Count
    BY <1>1, BoundIsNat, Sizes DEF PTypeOK
  <1>3. /\ ppc[p] = "read" /\ lock = NoProc /\ ~(Empty /\ writeopen)
        /\ got' = [i \in 1..k |-> data[(nread + i - 1) % PIPESIZE]]
        /\ nread' = (nread + k) % Wrap
        /\ ppc' = WakeWriters([ppc EXCEPT ![p] = "idle"])
        /\ left' = [left EXCEPT ![p] = 0]
        /\ UNCHANGED <<data, nwrite, readopen, writeopen, lock, fds, pkilled>>
    BY DEF ReadCopy
  <1> HIDE DEF k
  <1>4. nread' \in 0..(Wrap-1) /\ Count' = Count - k
    BY <1>2, <1>3, TakeFacts
  <1>5. PTypeOK'
    <2>1. got' \in Seq(Byte)
      <3>1. \A i \in 1..k : (nread + i - 1) % PIPESIZE \in 0..(PIPESIZE-1)
        BY <1>1, <1>2, ModDef, Sizes DEF PTypeOK
      <3>2. got' \in [1..k -> Byte] /\ k \in Nat
        <4>1. \A i \in 1..k : data[(nread + i - 1) % PIPESIZE] \in Byte
          BY <3>1 DEF PTypeOK
        <4> QED BY <1>1, <1>2, <1>3, <4>1, Sizes
      <3> QED BY <3>2, FunctionIsSeq
    <2>2. left' \in [Procs -> 0..MaxN] /\ ppc' \in [Procs -> Places]
      BY <1>3, BoundIsNat DEF PTypeOK, Places, WakeWriters
    <2> QED BY <1>3, <1>4, <2>1, <2>2 DEF PTypeOK
  <1>6. RingInv'
    BY <1>1, <1>2, <1>4, Sizes DEF RingInv
  <1>7. LockInv' /\ CallInv' /\ OpenInv'
    BY <1>3 DEF PTypeOK, LockInv, CallInv, OpenInv, WakeWriters
  <1>8. WakeInv'
    BY <1>3 DEF PTypeOK, LockInv, WakeInv, WakeWriters
  <1> QED BY <1>5, <1>6, <1>7, <1>8

-----------------------------------------------------------------------------
(* The theorems about states. *)

\* PipeInv holds in every reachable state.
THEOREM PipeInvariant == PSpec => []PipeInv
  <1>1. PipeInv /\ [PNext]_pvars => PipeInv'
    <2> SUFFICES ASSUME PipeInv, [PNext]_pvars PROVE PipeInv'
      OBVIOUS
    <2>1. CASE PNext
      BY <2>1, WaitingSteps, CloseSteps, KillStep, WriteStep, ReadStep, SMTT(30) DEF PNext, Work
    <2>2. CASE UNCHANGED pvars
      <3> USE <2>2 DEF pvars, ring, opens, procs, PipeInv
      <3>1. PTypeOK' /\ RingInv'
        BY DEF PTypeOK, RingInv, Count
      <3>2. LockInv' /\ CallInv' /\ OpenInv'
        BY SMTT(30) DEF LockInv, CallInv, OpenInv
      <3>3. WakeInv'
        BY DEF WakeInv, Empty, Full
      <3> QED BY <3>1, <3>2, <3>3
    <2> QED BY <2>1, <2>2
  <1> QED BY <1>1, InitPipeInv, PTL DEF PSpec

\* The counters and descriptors stay within their bounds, and nobody is in a
\* pipe that pipeclose has freed (pipe.c:59-75).
THEOREM PipeStaysSound == PSpec => []PipeSound
  <1>1. PipeInv => PipeSound
    BY SMTT(30) DEF PipeInv, PTypeOK, Places, CallInv, OpenInv, PipeSound, NoUseAfterFree, InPipe
  <1> QED BY <1>1, PipeInvariant, PTL

\* Without kill, nobody sleeps in a pipe who could go on (pipe.c:85,106).
THEOREM PipeLosesNoWakeup == PSpec => []NoLostWakeup
  <1>1. PipeInv => NoLostWakeup
    BY DEF PipeInv, WakeInv, NoLostWakeup
  <1> QED BY <1>1, PipeInvariant, PTL

-----------------------------------------------------------------------------
(* The pipe implements a bounded stream of bytes. *)

\* The bytes between nread and nwrite are a sequence of Count bytes.
LEMMA ContentsFacts ==
  ASSUME PipeInv
  PROVE  /\ Contents \in Seq(Byte) /\ Len(Contents) = Count
         /\ \A i \in 1..Count : Contents[i] = data[(nread + i - 1) % PIPESIZE]
  <1> USE DEF PipeInv
  <1>1. Count \in Nat
    BY CountFacts, Sizes
  <1>2. \A i \in 1..Count : (nread + i - 1) % PIPESIZE \in 0..(PIPESIZE-1)
    BY <1>1, ModDef, Sizes DEF PTypeOK
  <1>3. \A i \in 1..Count : data[(nread + i - 1) % PIPESIZE] \in Byte
    BY <1>2 DEF PTypeOK
  <1>4. Contents \in [1..Count -> Byte]
    BY <1>3 DEF Contents
  <1> QED BY <1>1, <1>4, FunctionIsSeq DEF Contents

\* A new pipe is an empty stream.
LEMMA InitRefines == PInit => BS!Init
  <1> SUFFICES ASSUME PInit PROVE BS!Init
    OBVIOUS
  <1>1. Count = 0
    BY ModNear, Sizes DEF PInit, Count
  <1>2. Contents = <<>>
    BY <1>1 DEF Contents
  <1> QED BY <1>2 DEF PInit, BS!Init

\* pipewrite appends the bytes that fit.
LEMMA WriteRefines ==
  ASSUME PipeInv, NEW p \in Procs, pipewrite(p)
  PROVE  BS!Put \/ UNCHANGED BS!svars
  <1> USE DEF PipeInv
  <1> DEFINE k == Least(left[p], Room)
  <1>1. /\ Count \in 0..PIPESIZE /\ Room = PIPESIZE - Count /\ PIPESIZE \in Nat
        /\ PIPESIZE > 0
    BY CountFacts, Sizes DEF Room
  <1>2. k \in 0..Room
    BY <1>1, BoundIsNat, SMTT(30) DEF PTypeOK, Least
  <1>3. PICK b \in [1..k -> Byte] : Store(b)
    BY DEF pipewrite
  <1>4. UNCHANGED <<nread, writeopen, got>> /\ writeopen
    BY DEF pipewrite, opens, CallInv, OpenInv
  <1> HIDE DEF k
  <1>5. /\ Len(b) = k /\ b \in Seq(Byte) /\ Count' = Count + k
        /\ k = 0 => data' = data /\ nwrite' = nwrite
    BY <1>2, <1>3, <1>4, StoreFacts
  <1>6. CASE k = 0
    BY <1>4, <1>5, <1>6 DEF BS!svars, Contents, Count
  <1>7. CASE k # 0
    \* The cell at distance x from nread, written or not.
    <2>1. ASSUME NEW x \in 0..(Count + k - 1)
          PROVE  data'[(nread + x) % PIPESIZE] =
                   IF x < Count THEN data[(nread + x) % PIPESIZE] ELSE b[x - Count + 1]
      <3> DEFINE c == (nread + x) % PIPESIZE
                 d == (c - nwrite) % PIPESIZE
      <3>1. nread \in Int /\ nwrite \in Int /\ x \in Int
        BY <1>1, <1>2 DEF PTypeOK
      <3>2. c \in 0..(PIPESIZE-1)
        BY <3>1, Sizes, ModDef
      <3>3. d = (x - Count) % PIPESIZE
        BY <3>1, Sizes, CellFrom DEF Count
      <3>4. d = IF x < Count THEN x - Count + PIPESIZE ELSE x - Count
        BY <1>1, <1>2, <3>3, ModNear
      <3>5. data'[c] = IF d < Len(b) THEN b[d + 1] ELSE data[c]
        BY <1>3, <3>2 DEF Store
      <3> HIDE DEF c, d
      <3>6. data'[c] = IF x < Count THEN data[c] ELSE b[x - Count + 1]
        BY <1>1, <1>2, <1>5, <3>4, <3>5
      <3> QED BY <3>6 DEF c
    <2>2. Contents \in Seq(Byte) /\ Len(Contents) = Count
      BY ContentsFacts
    <2>3. /\ Contents \o b \in Seq(Byte) /\ Len(Contents \o b) = Count + k
          /\ \A i \in 1..(Count + k) :
               (Contents \o b)[i] = IF i <= Count THEN Contents[i] ELSE b[i - Count]
      BY <1>5, <2>2, ConcatProperties
    <2>4. ASSUME NEW i \in 1..(Count + k) PROVE Contents'[i] = (Contents \o b)[i]
      <3>1. Contents'[i] = data'[(nread + i - 1) % PIPESIZE]
        BY <1>4, <1>5 DEF Contents
      <3>2. PICK x \in 0..(Count + k - 1) : x = i - 1
        BY <1>1, <1>2
      <3>3. nread + i - 1 = nread + x /\ i \in Int
        BY <1>1, <1>2, <3>2 DEF PTypeOK
      <3>4. Contents'[i] = IF x < Count THEN data[(nread + x) % PIPESIZE]
                                        ELSE b[x - Count + 1]
        BY <2>1, <3>1, <3>3
      <3>5. i <= Count => Contents[i] = data[(nread + x) % PIPESIZE]
        BY <1>1, <3>3, ContentsFacts
      <3>6. (x < Count <=> i <= Count) /\ x - Count + 1 = i - Count
        BY <1>1, <3>2, <3>3
      <3>7. CASE i <= Count
        BY <2>3, <3>4, <3>5, <3>6, <3>7, SMTT(30)
      <3>8. CASE ~(i <= Count)
        BY <2>3, <3>4, <3>6, <3>8
      <3> QED BY <3>7, <3>8
    <2>5. Contents' \in Seq(Byte) /\ Len(Contents') = Count + k
      <3>1. \A i \in 1..(Count + k) : (Contents \o b)[i] \in Byte
        BY <2>3, ElementOfSeq
      <3>2. Contents' \in [1..(Count + k) -> Byte]
        BY <1>5, <2>4, <3>1 DEF Contents
      <3> QED BY <1>1, <1>2, <3>2, FunctionIsSeq
    <2>6. Contents' = Contents \o b
      BY <2>3, <2>4, <2>5, SeqEqual
    <2>7. k \in 1..(PIPESIZE - Len(Contents))
      BY <1>1, <1>2, <1>7, <2>2
    <2> QED BY <1>4, <2>6, <2>7, ZenonT(30) DEF BS!Put
  <1> QED BY <1>6, <1>7

\* The copy of piperead takes the first bytes and hands them to its caller.
LEMMA ReadRefines ==
  ASSUME PipeInv, NEW p \in Procs, ReadCopy(p)
  PROVE  BS!Get
  <1> USE DEF PipeInv
  <1> DEFINE k == Least(left[p], Count)
  <1>1. Count \in 0..PIPESIZE /\ PIPESIZE \in Nat /\ nread \in Int
    BY CountFacts, Sizes DEF PTypeOK
  <1>2. k \in 0..Count /\ (k = 0 => Count = 0)
    BY <1>1, BoundIsNat DEF PTypeOK, CallInv, ReadCopy, Least
  <1>3. /\ nread' = (nread + k) % Wrap /\ UNCHANGED <<nwrite, data, writeopen>>
        /\ got' = [i \in 1..k |-> data[(nread + i - 1) % PIPESIZE]]
    BY DEF ReadCopy, opens
  <1>4. k = 0 => ~writeopen
    <2>1. Count = 0 => Empty
      BY CountFacts
    <2> QED BY <1>2, <2>1 DEF ReadCopy
  <1> HIDE DEF k
  <1>5. Count' = Count - k
    BY <1>2, <1>3, TakeFacts
  <1>6. Contents \in Seq(Byte) /\ Len(Contents) = Count
    BY ContentsFacts
  <1> DEFINE rest == SubSeq(Contents, k + 1, Len(Contents))
  <1>7. /\ rest \in Seq(Byte) /\ Len(rest) = Count - k
        /\ \A i \in 1..(Count - k) : rest[i] = Contents[k + i]
    BY <1>1, <1>2, <1>6, SubSeqProperties, SMTT(30)
  <1>8. ASSUME NEW i \in 1..(Count - k) PROVE Contents'[i] = rest[i]
    <2>1. Contents'[i] = data[(nread' + i - 1) % PIPESIZE]
      BY <1>3, <1>5, <1>8 DEF Contents
    <2>2. PICK j \in 1..Count : j = k + i
      BY <1>1, <1>2
    <2>3. Contents[j] = data[(nread + j - 1) % PIPESIZE]
      BY ContentsFacts
    <2>4. (nread' + i - 1) % PIPESIZE = (nread + j - 1) % PIPESIZE
      <3>1. PICK a \in Int, b \in Int : a = nread + k /\ b = i - 1
        BY <1>1, <1>2
      <3>2. ((a % Wrap) + b) % PIPESIZE = (a + b) % PIPESIZE
        <4>1. Wrap % PIPESIZE = 0 /\ Wrap > 0 /\ PIPESIZE > 0
          BY Sizes
        <4>2. Wrap \in Int /\ PIPESIZE \in Int
          BY Sizes
        <4>3. \A x, y \in Int : ((x % Wrap) + y) % PIPESIZE = (x + y) % PIPESIZE
          BY <4>1, <4>2, ModInside, Zenon
        <4> QED BY <4>3, Zenon
      <3>3. a % Wrap \in Int
        BY ModDef, Sizes
      <3>4. nread' + i - 1 = (a % Wrap) + b /\ nread + j - 1 = a + b
        BY <1>1, <1>2, <1>3, <2>2, <3>1, <3>3
      <3> QED BY <3>2, <3>4
    <2> QED BY <1>7, <2>1, <2>2, <2>3, <2>4
  <1> HIDE DEF rest
  <1>9. Contents' \in Seq(Byte) /\ Len(Contents') = Count - k
    <2>1. \A i \in 1..(Count - k) : rest[i] \in Byte
      BY <1>7, ElementOfSeq
    <2>2. Contents' \in [1..(Count - k) -> Byte]
      BY <1>5, <1>8, <2>1 DEF Contents
    <2> QED BY <1>1, <1>2, <2>2, FunctionIsSeq
  <1>10. Contents' = rest
    BY <1>7, <1>8, <1>9, SeqEqual
  <1>11. got' = SubSeq(Contents, 1, k)
    <2> DEFINE first == SubSeq(Contents, 1, k)
    <2>1. /\ first \in Seq(Byte) /\ Len(first) = k
          /\ \A i \in 1..k : first[i] = Contents[i]
      BY <1>1, <1>2, <1>6, SubSeqProperties
    <2> HIDE DEF first
    <2>2. \A i \in 1..k : got'[i] = first[i]
      BY <1>1, <1>2, <1>3, <2>1, ContentsFacts, SMTT(30)
    <2>3. \A i \in 1..k : got'[i] \in Byte
      BY <2>1, <2>2, ElementOfSeq
    <2>4. got' \in Seq(Byte) /\ Len(got') = k
      BY <1>1, <1>2, <1>3, <2>3, FunctionIsSeq
    <2>5. got' = first
      BY <2>1, <2>2, <2>4, SeqEqual
    <2> QED BY <2>5 DEF first
  <1>12. k = 0 => ~writeopen /\ Contents = <<>>
    BY <1>2, <1>4, <1>6, EmptySeq
  <1> QED BY <1>2, <1>3, <1>6, <1>10, <1>11, <1>12 DEF BS!Get, rest

\* Every other step leaves the stream alone, but for the last writer's close.
LEMMA OtherRefines ==
  ASSUME NEW p \in Procs,
         \/ \E n \in 1..MaxN : WriteCall(p, n) \/ ReadCall(p, n)
         \/ WriteSleep(p) \/ ReadWait(p) \/ ReadSleep(p)
         \/ \E e \in {"r", "w"} : fileclose(p, e)
         \/ pipeclose(p) \/ pkill(p)
  PROVE  BS!End \/ UNCHANGED BS!svars
  <1>1. UNCHANGED <<data, nread, nwrite, got>>
    BY DEF WriteCall, ReadCall, WriteSleep, ReadWait, ReadSleep, fileclose, pipeclose,
           pkill, ring
  <1>2. UNCHANGED Contents
    BY <1>1 DEF Contents, Count
  <1>3. writeopen' = writeopen \/ writeopen' = FALSE
    BY DEF WriteCall, ReadCall, WriteSleep, ReadWait, ReadSleep, fileclose, pipeclose,
           pkill, opens
  <1> QED BY <1>1, <1>2, <1>3 DEF BS!End, BS!svars

\* A pipe is a bounded first-in first-out stream of bytes, for any number of
\* readers and writers, any size of the buffer and any multiple of it at which
\* the counters wrap (pipe.c:78-121).
THEOREM PipeIsByteStream == PSpec => StreamOrder
  <1>1. PipeInv /\ [PNext]_pvars => [BS!Next]_(BS!svars)
    <2> SUFFICES ASSUME PipeInv, [PNext]_pvars PROVE BS!Next \/ UNCHANGED BS!svars
      OBVIOUS
    <2>1. CASE PNext
      <3>1. PICK p \in Procs :
              \/ \E n \in 1..MaxN : WriteCall(p, n) \/ ReadCall(p, n)
              \/ Work(p)
              \/ \E e \in {"r", "w"} : fileclose(p, e)
              \/ pipeclose(p)
              \/ pkill(p)
        BY <2>1 DEF PNext
      <3>2. CASE pipewrite(p)
        BY <3>2, WriteRefines DEF BS!Next
      <3>3. CASE ReadCopy(p)
        BY <3>3, ReadRefines DEF BS!Next
      <3>4. CASE ~pipewrite(p) /\ ~ReadCopy(p)
        BY <3>1, <3>4, OtherRefines DEF Work, BS!Next
      <3> QED BY <3>2, <3>3, <3>4
    <2>2. CASE UNCHANGED pvars
      BY <2>2 DEF pvars, ring, opens, procs, Contents, Count, BS!svars
    <2> QED BY <2>1, <2>2
  <1> QED BY <1>1, InitRefines, PipeInvariant, PTL DEF PSpec, StreamOrder, BS!Spec
=============================================================================
