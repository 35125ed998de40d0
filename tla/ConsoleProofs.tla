--------------------------- MODULE ConsoleProofs ---------------------------
(***************************************************************************)
(* Proofs about Console: the inductive invariant of the input ring and of  *)
(* cons.lock, and that the ring implements LineBuffer.                     *)
(***************************************************************************)
EXTENDS Console, RingProofs

\* Who is between acquire(&cons.lock) and release().
Holds(p) == cpc[p] \in {"loop", "sleep", "put"}

\* The three indices stand in the order r, w, e around the ring, at most
\* INPUT_BUF apart, and a full ring has been handed over.
IndexInv ==
  /\ Distance(r, w) + Distance(w, e) <= INPUT_BUF
  /\ Distance(r, w) + Distance(w, e) = INPUT_BUF => w = e

\* One process at a time is inside the lock.
ConsLockInv == \A p \in Procs : conslock = p <=> Holds(p)

\* What a call has moved and what it has still to move stay within its n.
ConsCallInv ==
  \A p \in Procs :
    /\ n[p] + took[p] <= ConsN
    /\ cpc[p] = "idle" => took[p] = 0

\* A reader goes to sleep, and sleeps, on an empty ring.
ReaderInv == \A p \in Procs : cpc[p] \in {"sleep", "asleep"} => r = w

\* A line that can be edited has no newline: ^U erases all of it.
EditInv ==
  \A k \in 0..(Distance(w, e) - 1) : buf[((w + k) % ConsWrap) % INPUT_BUF] # "nl"

ConsInv ==
  /\ CTypeOK /\ IndexInv /\ ConsLockInv /\ ConsCallInv /\ ReaderInv /\ EditInv
  /\ ~mixed

-----------------------------------------------------------------------------
(* Distances between indices. *)

Index == 0..(ConsWrap - 1)
Cell == 0..(INPUT_BUF - 1)

\* The sizes as integers.
LEMMA ConsSizes ==
  /\ INPUT_BUF \in Int /\ INPUT_BUF > 0 /\ ConsWrap \in Int /\ ConsWrap > 0
  /\ ConsWrap % INPUT_BUF = 0 /\ INPUT_BUF < ConsWrap /\ ConsN \in Nat
  BY ConsoleConstants DEF ConsoleConstants

\* What a distance is: how far i has to be moved on to reach j.
LEMMA DistanceFacts ==
  ASSUME NEW i \in Index, NEW j \in Index
  PROVE  /\ Distance(i, j) \in Index
         /\ Distance(i, j) = IF j >= i THEN j - i ELSE j - i + ConsWrap
         /\ Distance(i, j) = 0 <=> i = j
  <1>1. Distance(i, j) = IF j >= i THEN j - i ELSE j - i + ConsWrap
    BY ModNear, ConsSizes DEF Index, Distance
  <1> QED BY <1>1, ConsSizes DEF Index

\* The index d places after i.
LEMMA DistanceIs ==
  ASSUME NEW i \in Index, NEW j \in Index, NEW d \in Index
  PROVE  j = (i + d) % ConsWrap <=> Distance(i, j) = d
  <1>1. (i + d) % ConsWrap = IF i + d < ConsWrap THEN i + d ELSE i + d - ConsWrap
    BY ModNear, ConsSizes DEF Index
  <1>2. Distance(i, j) = IF j >= i THEN j - i ELSE j - i + ConsWrap
    BY DistanceFacts
  <1> QED BY <1>1, <1>2, ConsSizes DEF Index

\* Distances add up, as long as they do not go round.
LEMMA DistanceSum ==
  ASSUME NEW i \in Index, NEW j \in Index, NEW k \in Index,
         Distance(i, j) + Distance(j, k) < ConsWrap
  PROVE  Distance(i, k) = Distance(i, j) + Distance(j, k)
  <1>1. Distance(i, j) = IF j >= i THEN j - i ELSE j - i + ConsWrap
    BY DistanceFacts
  <1>2. Distance(j, k) = IF k >= j THEN k - j ELSE k - j + ConsWrap
    BY DistanceFacts
  <1>3. Distance(i, k) = IF k >= i THEN k - i ELSE k - i + ConsWrap
    BY DistanceFacts
  <1> QED BY <1>1, <1>2, <1>3, ConsSizes DEF Index

\* An index in front moves on by one.
LEMMA DistanceInc ==
  ASSUME NEW i \in Index, NEW j \in Index, Distance(i, j) + 1 < ConsWrap
  PROVE  Inc(j) \in Index /\ Distance(i, Inc(j)) = Distance(i, j) + 1
  <1>1. Inc(j) = IF j = ConsWrap - 1 THEN 0 ELSE j + 1
    BY ModNear, ConsSizes DEF Index, Inc
  <1>2. Inc(j) \in Index
    BY <1>1, ConsSizes DEF Index
  <1>3. Distance(i, j) = IF j >= i THEN j - i ELSE j - i + ConsWrap
    BY DistanceFacts
  <1>4. Distance(i, Inc(j)) = IF Inc(j) >= i THEN Inc(j) - i ELSE Inc(j) - i + ConsWrap
    BY <1>2, DistanceFacts
  <1> QED BY <1>1, <1>2, <1>3, <1>4, ConsSizes DEF Index

\* An index in front moves back by one.
LEMMA DistanceDec ==
  ASSUME NEW i \in Index, NEW j \in Index, i # j
  PROVE  Dec(j) \in Index /\ Distance(i, Dec(j)) = Distance(i, j) - 1
  <1>1. Dec(j) = IF j = 0 THEN ConsWrap - 1 ELSE j - 1
    BY ModNear, ConsSizes DEF Index, Dec
  <1>2. Dec(j) \in Index
    BY <1>1, ConsSizes DEF Index
  <1>3. Distance(i, j) = IF j >= i THEN j - i ELSE j - i + ConsWrap
    BY DistanceFacts
  <1>4. Distance(i, Dec(j)) = IF Dec(j) >= i THEN Dec(j) - i ELSE Dec(j) - i + ConsWrap
    BY <1>2, DistanceFacts
  <1> QED BY <1>1, <1>2, <1>3, <1>4, ConsSizes DEF Index

\* An index behind moves on by one.
LEMMA DistanceBehind ==
  ASSUME NEW i \in Index, NEW j \in Index, i # j
  PROVE  Inc(i) \in Index /\ Distance(Inc(i), j) = Distance(i, j) - 1
  <1>1. Inc(i) = IF i = ConsWrap - 1 THEN 0 ELSE i + 1
    BY ModNear, ConsSizes DEF Index, Inc
  <1>2. Inc(i) \in Index
    BY <1>1, ConsSizes DEF Index
  <1>3. Distance(i, j) = IF j >= i THEN j - i ELSE j - i + ConsWrap
    BY DistanceFacts
  <1>4. Distance(Inc(i), j) = IF j >= Inc(i) THEN j - Inc(i) ELSE j - Inc(i) + ConsWrap
    BY <1>2, DistanceFacts
  <1> QED BY <1>1, <1>2, <1>3, <1>4, ConsSizes DEF Index

-----------------------------------------------------------------------------
(* The characters in d cells of the ring b, from index i on. *)

Cells(b, i, d) == [k \in 1..d |-> b[((i + k - 1) % ConsWrap) % INPUT_BUF]]

\* The wrap of the indices does not show in the cells.
LEMMA CellSum ==
  ASSUME NEW a \in Int, NEW b \in Int
  PROVE  ((a % ConsWrap) + b) % INPUT_BUF = (a + b) % INPUT_BUF
  <1>1. ConsWrap % INPUT_BUF = 0 /\ ConsWrap > 0 /\ INPUT_BUF > 0
    BY ConsSizes
  <1>2. ConsWrap \in Int /\ INPUT_BUF \in Int
    BY ConsSizes
  <1>3. \A x, y \in Int : ((x % ConsWrap) + y) % INPUT_BUF = (x + y) % INPUT_BUF
    BY <1>1, <1>2, ModInside, Zenon
  <1> QED BY <1>3, Zenon

\* The cell of an index, which input.buf takes modulo INPUT_BUF.
LEMMA CellOf ==
  ASSUME NEW a \in Int
  PROVE  (a % ConsWrap) % INPUT_BUF = a % INPUT_BUF /\ a % INPUT_BUF \in Cell
  <1>1. PICK z \in Int : z = 0
    OBVIOUS
  <1>2. ((a % ConsWrap) + z) % INPUT_BUF = (a + z) % INPUT_BUF
    BY CellSum
  <1>3. a % ConsWrap \in Int /\ a % INPUT_BUF \in Cell
    BY ConsSizes, ModDef DEF Cell
  <1> QED BY <1>1, <1>2, <1>3

\* d cells are a sequence of d characters.
LEMMA CellsFacts ==
  ASSUME NEW b \in [Cell -> Typed], NEW i \in Index, NEW d \in Nat
  PROVE  /\ Cells(b, i, d) \in Seq(Typed) /\ Len(Cells(b, i, d)) = d
         /\ \A k \in 1..d : Cells(b, i, d)[k] = b[(i + k - 1) % INPUT_BUF]
  <1>1. ASSUME NEW k \in 1..d
        PROVE  /\ ((i + k - 1) % ConsWrap) % INPUT_BUF = (i + k - 1) % INPUT_BUF
               /\ (i + k - 1) % INPUT_BUF \in Cell
    <2>1. i + k - 1 \in Int
      BY ConsSizes DEF Index
    <2> QED BY <2>1, CellOf
  <1>2. \A k \in 1..d : Cells(b, i, d)[k] = b[(i + k - 1) % INPUT_BUF]
    BY <1>1 DEF Cells
  <1>3. Cells(b, i, d) \in [1..d -> Typed]
    BY <1>1 DEF Cells
  <1> QED BY <1>2, <1>3, FunctionIsSeq

\* What the state's sequences are.
LEMMA CharsAreCells ==
  \A i, j : Chars(i, j) = Cells(buf, i, Distance(i, j))
  BY DEF Chars, Cells

\* Cells less than INPUT_BUF places after i differ.
LEMMA CellsDiffer ==
  ASSUME NEW i \in Int, NEW j \in Cell, NEW k \in Cell,
         (i + j) % INPUT_BUF = (i + k) % INPUT_BUF
  PROVE  j = k
  <1>1. ASSUME NEW x \in Cell
        PROVE  (((i + x) % INPUT_BUF) - i) % INPUT_BUF = x
    <2>1. x \in Int /\ (i - i) % ConsWrap = 0
      BY ConsSizes, ModNear DEF Cell
    <2>2. (((i + x) % INPUT_BUF) - i) % INPUT_BUF = (x - ((i - i) % ConsWrap)) % INPUT_BUF
      <3>1. ConsWrap % INPUT_BUF = 0 /\ ConsWrap > 0 /\ INPUT_BUF > 0
        BY ConsSizes
      <3>2. ConsWrap \in Int /\ INPUT_BUF \in Int
        BY ConsSizes
      <3>3. \A a, c, f \in Int :
              (((a + f) % INPUT_BUF) - c) % INPUT_BUF = (f - ((c - a) % ConsWrap)) % INPUT_BUF
        BY <3>1, <3>2, CellFrom, Zenon
      <3> QED BY <2>1, <3>3, Zenon
    <2>3. x - ((i - i) % ConsWrap) = x
      BY <2>1
    <2>4. x % INPUT_BUF = x
      BY ConsSizes, ModNear DEF Cell
    <2> QED BY <2>2, <2>3, <2>4
  <1> QED BY <1>1

\* A character stored t places after i is not one of the d before it.
LEMMA CellsOther ==
  ASSUME NEW b \in [Cell -> Typed], NEW i \in Index, NEW t \in Cell, NEW d \in 0..t,
         NEW x \in Typed
  PROVE  Cells([b EXCEPT ![(i + t) % INPUT_BUF] = x], i, d) = Cells(b, i, d)
  <1> DEFINE b2 == [b EXCEPT ![(i + t) % INPUT_BUF] = x]
  <1>1. b2 \in [Cell -> Typed] /\ i \in Int /\ d \in Nat
    BY ConsSizes DEF Index, Cell
  <1>2. ASSUME NEW k \in 1..d
        PROVE  b2[(i + k - 1) % INPUT_BUF] = b[(i + k - 1) % INPUT_BUF]
    <2>1. PICK j \in Cell : j = k - 1 /\ j # t
      BY ConsSizes DEF Cell
    <2>2. i + k - 1 = i + j /\ i + j \in Int
      BY <1>1, <2>1 DEF Cell
    <2>3. (i + j) % INPUT_BUF \in Cell
      BY <2>2, CellOf
    <2>4. (i + j) % INPUT_BUF # (i + t) % INPUT_BUF
      BY <1>1, <2>1, CellsDiffer
    <2> QED BY <2>2, <2>3, <2>4
  <1> HIDE DEF b2
  <1>3. \A k \in 1..d : Cells(b2, i, d)[k] = Cells(b, i, d)[k]
    BY <1>1, <1>2, CellsFacts
  <1>4. Cells(b2, i, d) = Cells(b, i, d)
    BY <1>1, <1>3, CellsFacts, SeqEqual
  <1> QED BY <1>4 DEF b2

\* Storing a character behind d others appends it to them.
LEMMA CellsAppend ==
  ASSUME NEW b \in [Cell -> Typed], NEW i \in Index, NEW d \in Cell, NEW x \in Typed
  PROVE  Cells([b EXCEPT ![(i + d) % INPUT_BUF] = x], i, d + 1) = Append(Cells(b, i, d), x)
  <1> DEFINE b2 == [b EXCEPT ![(i + d) % INPUT_BUF] = x]
  <1>1. b2 \in [Cell -> Typed] /\ i \in Int /\ d \in Nat /\ d + 1 \in Nat /\ d \in 0..d
    BY ConsSizes DEF Index, Cell
  <1>2. Cells(b2, i, d) = Cells(b, i, d)
    <2>1. \A t \in Cell : \A f \in 0..t :
            Cells([b EXCEPT ![(i + t) % INPUT_BUF] = x], i, f) = Cells(b, i, f)
      BY CellsOther, Zenon
    <2> QED BY <1>1, <2>1, Zenon
  <1>3. b2[(i + d) % INPUT_BUF] = x
    BY <1>1, CellOf
  <1> HIDE DEF b2
  <1>4. /\ Cells(b, i, d) \in Seq(Typed) /\ Len(Cells(b, i, d)) = d
        /\ Cells(b2, i, d + 1) \in Seq(Typed) /\ Len(Cells(b2, i, d + 1)) = d + 1
    BY <1>1, CellsFacts
  <1>5. /\ Append(Cells(b, i, d), x) \in Seq(Typed)
        /\ Len(Append(Cells(b, i, d), x)) = d + 1
        /\ \A k \in 1..d : Append(Cells(b, i, d), x)[k] = Cells(b, i, d)[k]
        /\ Append(Cells(b, i, d), x)[d + 1] = x
    BY <1>4, AppendProperties
  <1>6. \A k \in 1..d : Cells(b2, i, d + 1)[k] = Cells(b2, i, d)[k]
    BY <1>1 DEF Cells
  <1>7. Cells(b2, i, d + 1)[d + 1] = x
    <2>1. i + (d + 1) - 1 = i + d /\ d + 1 \in 1..(d + 1)
      BY <1>1
    <2>2. Cells(b2, i, d + 1)[d + 1] = b2[(i + (d + 1) - 1) % INPUT_BUF]
      BY <1>1, <2>1, CellsFacts
    <2> QED BY <1>3, <2>1, <2>2
  <1>8. \A k \in 1..(d + 1) : Cells(b2, i, d + 1)[k] = Append(Cells(b, i, d), x)[k]
    BY <1>1, <1>2, <1>5, <1>6, <1>7
  <1>9. Cells(b2, i, d + 1) = Append(Cells(b, i, d), x)
    BY <1>4, <1>5, <1>8, SeqEqual
  <1> QED BY <1>9 DEF b2

\* Cells from i on and cells from where those end are one stretch of cells.
LEMMA CellsConcat ==
  ASSUME NEW b \in [Cell -> Typed], NEW i \in Index, NEW j \in Index, NEW d \in Nat,
         NEW f \in Nat, j = (i + d) % ConsWrap
  PROVE  Cells(b, i, d) \o Cells(b, j, f) = Cells(b, i, d + f)
  <1>9. PICK g \in Nat : g = d + f
    OBVIOUS
  <1> DEFINE s == Cells(b, i, d)
             u == Cells(b, j, f)
             both == s \o u
  <1>1. s \in Seq(Typed) /\ Len(s) = d /\ u \in Seq(Typed) /\ Len(u) = f
    BY CellsFacts
  <1>2. /\ both \in Seq(Typed) /\ Len(both) = d + f
        /\ \A k \in 1..(d + f) :
             both[k] = IF k <= d THEN s[k] ELSE u[k - d]
    <2> HIDE DEF s, u
    <2> QED BY <1>1, ConcatProperties
  <1>3. ASSUME NEW k \in 1..(d + f) PROVE both[k] = Cells(b, i, g)[k]
    <2>1. CASE k <= d
      BY <1>9, <1>2, <2>1 DEF Cells
    <2>2. CASE ~(k <= d)
      <3>1. PICK x \in 1..f : x = k - d
        BY <2>2
      <3>2. PICK y \in Int, z \in Int : y = i + d /\ z = x - 1
        BY DEF Index
      <3>3. ((y % ConsWrap) + z) % INPUT_BUF = (y + z) % INPUT_BUF
        BY CellSum
      <3>4. j + x - 1 = (y % ConsWrap) + z /\ i + k - 1 = y + z
        BY <3>1, <3>2 DEF Index
      <3>5. Cells(b, j, f)[x] = b[(j + x - 1) % INPUT_BUF]
        BY CellsFacts
      <3>6. Cells(b, i, g)[k] = b[(i + k - 1) % INPUT_BUF]
        BY <1>9, CellsFacts
      <3> QED BY <1>2, <2>2, <3>1, <3>3, <3>4, <3>5, <3>6
    <2> QED BY <2>1, <2>2
  <1> HIDE DEF both
  <1>4. Cells(b, i, g) \in Seq(Typed) /\ Len(Cells(b, i, g)) = d + f
    BY <1>9, CellsFacts
  <1>5. both = Cells(b, i, g)
    BY <1>2, <1>3, <1>4, SeqEqual
  <1> QED BY <1>9, <1>5 DEF both

\* Taking the first character leaves the cells behind it.
LEMMA CellsTail ==
  ASSUME NEW b \in [Cell -> Typed], NEW i \in Index, NEW d \in Nat \ {0}
  PROVE  /\ Cells(b, i, d) # <<>> /\ Head(Cells(b, i, d)) = b[i % INPUT_BUF]
         /\ Tail(Cells(b, i, d)) = Cells(b, Inc(i), d - 1)
  <1> DEFINE s == Cells(b, i, d)
             u == Cells(b, Inc(i), d - 1)
  <1>1. /\ s \in Seq(Typed) /\ Len(s) = d
        /\ \A k \in 1..d : s[k] = b[(i + k - 1) % INPUT_BUF]
    BY CellsFacts
  <1>2. i \in Int /\ Inc(i) \in Index /\ Inc(i) = (i + 1) % ConsWrap /\ d - 1 \in Nat
    BY ConsSizes, ModDef DEF Index, Inc
  <1>3. /\ u \in Seq(Typed) /\ Len(u) = d - 1
        /\ \A k \in 1..(d-1) : u[k] = b[(Inc(i) + k - 1) % INPUT_BUF]
    BY <1>2, CellsFacts
  <1> HIDE DEF s, u
  <1>4. s # <<>> /\ Head(s) = b[i % INPUT_BUF]
    <2>1. i + 1 - 1 = i /\ 1 \in 1..d
      BY <1>2
    <2>2. s[1] = b[i % INPUT_BUF]
      BY <1>1, <2>1
    <2> QED BY <1>1, <2>2, EmptySeq, HeadTailProperties
  <1>5. /\ Tail(s) \in Seq(Typed) /\ Len(Tail(s)) = d - 1
        /\ \A k \in 1..(d-1) : Tail(s)[k] = s[k + 1]
    BY <1>1, <1>4, HeadTailProperties
  <1>6. ASSUME NEW k \in 1..(d-1) PROVE Tail(s)[k] = u[k]
    <2>1. PICK y \in Int, z \in Int : y = i + 1 /\ z = k - 1
      BY <1>2
    <2>2. ((y % ConsWrap) + z) % INPUT_BUF = (y + z) % INPUT_BUF
      BY CellSum
    <2>3. Inc(i) + k - 1 = (y % ConsWrap) + z /\ i + (k + 1) - 1 = y + z
      BY <1>2, <2>1 DEF Index
    <2>4. k + 1 \in 1..d
      OBVIOUS
    <2>5. Tail(s)[k] = b[(i + (k + 1) - 1) % INPUT_BUF]
      BY <1>1, <1>5, <2>4
    <2>6. u[k] = b[(Inc(i) + k - 1) % INPUT_BUF]
      BY <1>3
    <2> QED BY <2>2, <2>3, <2>5, <2>6
  <1>7. Tail(s) = u
    BY <1>3, <1>5, <1>6, SeqEqual, SMTT(30)
  <1> QED BY <1>4, <1>7 DEF s, u

\* Taking back the last character leaves the cells before it.
LEMMA CellsFront ==
  ASSUME NEW b \in [Cell -> Typed], NEW i \in Index, NEW d \in Nat \ {0}
  PROVE  SubSeq(Cells(b, i, d), 1, d - 1) = Cells(b, i, d - 1)
  <1> DEFINE s == Cells(b, i, d)
             u == Cells(b, i, d - 1)
  <1>1. s \in Seq(Typed) /\ Len(s) = d
    BY CellsFacts
  <1>2. u \in Seq(Typed) /\ Len(u) = d - 1
    BY CellsFacts, d - 1 \in Nat
  <1>3. \A k \in 1..(d-1) : s[k] = u[k]
    BY DEF Cells
  <1> HIDE DEF s, u
  <1>4. /\ SubSeq(s, 1, d - 1) \in Seq(Typed) /\ Len(SubSeq(s, 1, d - 1)) = d - 1
        /\ \A k \in 1..(d-1) : SubSeq(s, 1, d - 1)[k] = s[k]
    BY <1>1, SubSeqProperties
  <1>5. SubSeq(s, 1, d - 1) = u
    BY <1>2, <1>3, <1>4, SeqEqual
  <1> QED BY <1>5 DEF s, u

-----------------------------------------------------------------------------
(* The inductive invariant. *)

\* A console nobody has used yet.
LEMMA InitConsInv == CInit => ConsInv
  <1> SUFFICES ASSUME CInit PROVE ConsInv
    OBVIOUS
  <1>1. CTypeOK /\ r \in Index /\ w \in Index /\ e \in Index
    <2>1. 0 \in 0..(ConsWrap-1) /\ 0 \in 0..ConsN /\ "a" \in Typed
      BY ConsSizes DEF Typed
    <2> QED BY <2>1, Zenon DEF CInit, CTypeOK, Index
  <1>2. Distance(r, w) = 0 /\ Distance(w, e) = 0
    BY <1>1, DistanceFacts DEF CInit
  <1>3. IndexInv /\ EditInv
    BY <1>2, ConsSizes DEF CInit, IndexInv, EditInv
  <1>4. ConsLockInv /\ ConsCallInv /\ ReaderInv
    BY ConsSizes, ProcessConstants
       DEF CInit, ConsLockInv, ConsCallInv, ReaderInv, Holds, ProcessConstants
  <1> QED BY <1>1, <1>3, <1>4 DEF CInit, ConsInv

\* A step that leaves the ring alone leaves its indices and the line alone.
LEMMA RingUntouched ==
  ASSUME IndexInv, EditInv, UNCHANGED input
  PROVE  IndexInv' /\ EditInv'
  BY DEF input, IndexInv, EditInv, Distance

\* Every step of a process but a turn of consoleread's loop.
LEMMA ProcessSteps ==
  ASSUME ConsInv, NEW p \in Procs,
         \/ \E k \in 1..ConsN : Call(p, "read", k) \/ Call(p, "write", k)
         \/ Lock(p) \/ Sleep(p) \/ consolewrite(p) \/ ckill(p)
  PROVE  ConsInv'
  <1> USE DEF ConsInv
  <1>1. UNCHANGED input
    BY DEF Call, Lock, Sleep, consolewrite, ckill
  <1>2. IndexInv' /\ EditInv'
    BY <1>1, RingUntouched
  <1>3. CTypeOK'
    <2>1. UNCHANGED <<buf, r, w, e>> /\ conslock' \in Procs \cup {NoProc}
      BY <1>1 DEF CTypeOK, input, Call, Lock, Acquire, Sleep, consolewrite, Return, ckill
    <2>2. cpc' \in [Procs -> {"idle", "read", "loop", "sleep", "asleep", "write", "put"}]
      BY DEF CTypeOK, Call, Lock, Sleep, consolewrite, Return, ckill
    <2>3. n' \in [Procs -> 0..ConsN] /\ took' \in [Procs -> 0..ConsN]
      <3>1. n[p] \in 0..ConsN /\ 0 \in 0..ConsN /\ (n[p] # 0 => n[p] - 1 \in 0..ConsN)
        BY ConsSizes DEF CTypeOK
      <3>2. n' = n \/ \E k \in 0..ConsN : n' = [n EXCEPT ![p] = k]
        BY <3>1, ConsSizes DEF Call, Lock, Sleep, consolewrite, Return, ckill
      <3>3. took' = took \/ took' = [took EXCEPT ![p] = 0]
        BY DEF Call, Lock, Sleep, consolewrite, Return, ckill
      <3> QED BY <3>1, <3>2, <3>3 DEF CTypeOK
    <2>4. ckilled' \in [Procs -> BOOLEAN] /\ mixed' \in BOOLEAN
      BY DEF CTypeOK, Call, Lock, Sleep, consolewrite, consputc, ckill
    <2> QED BY <2>1, <2>2, <2>3, <2>4, SMTT(30) DEF CTypeOK
  <1>4. ConsLockInv'
    BY ProcessConstants DEF ProcessConstants, CTypeOK, ConsLockInv, Holds, Call, Lock,
       Acquire, Sleep, consolewrite, Return, ckill
  <1>5. ConsCallInv'
    <2>1. CASE \E k \in 1..ConsN : Call(p, "read", k) \/ Call(p, "write", k)
      BY <2>1, ConsSizes DEF CTypeOK, ConsCallInv, Call
    <2>2. CASE Lock(p) \/ Sleep(p) \/ ckill(p)
      BY <2>2 DEF CTypeOK, ConsCallInv, Lock, Sleep, ckill
    <2>3. CASE consolewrite(p)
      <3>1. CASE n[p] = 0
        BY <2>3, <3>1, ConsSizes DEF CTypeOK, ConsCallInv, consolewrite, Return
      <3>2. CASE n[p] # 0
        <4>1. n' = [n EXCEPT ![p] = @ - 1] /\ UNCHANGED <<cpc, took>>
          BY <2>3, <3>2 DEF consolewrite
        <4>2. n[p] \in Int /\ took[p] \in Int
          BY ConsSizes DEF CTypeOK
        <4> QED BY <4>1, <4>2, ConsSizes DEF CTypeOK, ConsCallInv
      <3> QED BY <3>1, <3>2
    <2> QED BY <2>1, <2>2, <2>3
  <1>6. ReaderInv'
    BY <1>1 DEF CTypeOK, ReaderInv, input, Call, Lock, Sleep, consolewrite, Return, ckill
  <1>7. mixed' = FALSE
    BY DEF CTypeOK, ConsLockInv, Holds, Call, Lock, Sleep, consolewrite, consputc, ckill
  <1> QED BY <1>2, <1>3, <1>4, <1>5, <1>6, <1>7

\* The two stretches of the ring, and the whole.
LEMMA IndexFacts ==
  ASSUME ConsInv
  PROVE  /\ r \in Index /\ w \in Index /\ e \in Index
         /\ Distance(r, w) \in Nat /\ Distance(w, e) \in Nat
         /\ Distance(r, e) = Distance(r, w) + Distance(w, e)
         /\ Distance(r, e) <= INPUT_BUF
         /\ buf \in [Cell -> Typed]
  <1>1. r \in Index /\ w \in Index /\ e \in Index /\ buf \in [Cell -> Typed]
    BY DEF ConsInv, CTypeOK, Index, Cell
  <1>2. Distance(r, w) \in Index /\ Distance(w, e) \in Index
    BY <1>1, DistanceFacts
  <1>3. Distance(r, w) + Distance(w, e) < ConsWrap
    BY <1>2, ConsSizes DEF ConsInv, IndexInv, Index
  <1>4. Distance(r, e) = Distance(r, w) + Distance(w, e)
    BY <1>1, <1>3, DistanceSum
  <1> QED BY <1>1, <1>2, <1>4, ConsSizes DEF ConsInv, IndexInv, Index

\* A turn of consoleread's loop.
LEMMA ReadTurn ==
  ASSUME ConsInv, NEW p \in Procs, consoleread(p)
  PROVE  ConsInv'
  <1> USE DEF ConsInv
  <1>1. UNCHANGED <<buf, w, e, ckilled, mixed>> /\ cpc[p] = "loop"
    BY DEF consoleread
  <1>2. r' = r \/ (r # w /\ r' = Inc(r))
    BY DEF consoleread
  <1>3. r' \in Index /\ IndexInv'
    <2>1. CASE r' = r
      BY <1>1, <2>1, IndexFacts DEF IndexInv, Distance
    <2>2. CASE r # w /\ r' = Inc(r)
      <3>1. Inc(r) \in Index /\ Distance(Inc(r), w) = Distance(r, w) - 1
        BY <2>2, IndexFacts, DistanceBehind
      <3>2. Distance(r, w)' = Distance(r, w) - 1 /\ Distance(w, e)' = Distance(w, e)
        BY <1>1, <2>2, <3>1 DEF Distance
      <3> QED BY <2>2, <3>1, <3>2, IndexFacts, ConsSizes DEF IndexInv
    <2> QED BY <1>2, <2>1, <2>2
  <1>4. CTypeOK'
    <2>1. /\ conslock' \in Procs \cup {NoProc}
          /\ cpc' \in [Procs -> {"idle", "read", "loop", "sleep", "asleep", "write", "put"}]
      BY DEF CTypeOK, consoleread, Return
    <2>2. /\ n[p] \in 0..ConsN /\ took[p] \in 0..ConsN /\ 0 \in 0..ConsN
          /\ n[p] > 0 => n[p] - 1 \in 0..ConsN /\ took[p] + 1 \in 0..ConsN
      BY ConsSizes DEF CTypeOK, ConsCallInv
    <2>3. n' = n \/ \E k \in 0..ConsN : n' = [n EXCEPT ![p] = k]
      BY <2>2 DEF consoleread, Return
    <2>4. took' = took \/ \E k \in 0..ConsN : took' = [took EXCEPT ![p] = k]
      BY <2>2 DEF consoleread, Return
    <2>5. n' \in [Procs -> 0..ConsN] /\ took' \in [Procs -> 0..ConsN]
      BY <2>2, <2>3, <2>4, ZenonT(30) DEF CTypeOK
    <2> QED BY <1>1, <1>3, <2>1, <2>5 DEF CTypeOK, Index
  <1>5. ConsLockInv'
    BY ProcessConstants
       DEF ProcessConstants, CTypeOK, ConsLockInv, Holds, consoleread, Return
  <1>6. ConsCallInv'
    <2>1. n[p] \in Int /\ took[p] \in Int /\ n[p] >= 0
      BY ConsSizes DEF CTypeOK
    <2>2. \/ UNCHANGED <<n, took>>
          \/ n'[p] = 0 /\ took'[p] = 0
          \/ /\ n[p] > 0 /\ took'[p] = took[p] + 1 /\ (n'[p] = 0 \/ n'[p] = n[p] - 1)
             /\ cpc' = cpc
      BY DEF CTypeOK, consoleread, Return
    <2>3. \A q \in Procs \ {p} : n'[q] = n[q] /\ took'[q] = took[q] /\ cpc'[q] = cpc[q]
      BY DEF CTypeOK, consoleread, Return
    <2>4. n'[p] + took'[p] <= ConsN
      BY <2>1, <2>2, ConsSizes DEF ConsCallInv
    <2>5. cpc'[p] = "idle" => took'[p] = 0
      BY <1>1, <2>2 DEF CTypeOK, consoleread, Return
    <2> QED BY <2>3, <2>4, <2>5 DEF ConsCallInv
  <1>7. ReaderInv'
    <2>1. CASE r' = r
      BY <1>1, <2>1 DEF CTypeOK, ReaderInv, consoleread, Return
    <2>2. CASE r # w /\ r' = Inc(r)
      BY <1>1, <2>2 DEF CTypeOK, ReaderInv, consoleread, Return
    <2> QED BY <1>2, <2>1, <2>2
  <1>8. EditInv'
    BY <1>1 DEF EditInv, Distance
  <1> QED BY <1>1, <1>3, <1>4, <1>5, <1>6, <1>7, <1>8

\* ^U erases the line back to w.
LEMMA KillErasesLine ==
  ASSUME ConsInv
  PROVE  LineStart = w
  <1>1. {k \in 0..(Distance(w, e) - 1) :
           buf[((w + k) % ConsWrap) % INPUT_BUF] = "nl"} = {}
    BY DEF ConsInv, EditInv
  <1> QED BY <1>1 DEF LineStart

\* The handler stores the character c.
Stored(c) ==
  /\ Distance(r, e) < INPUT_BUF
  /\ buf' = [buf EXCEPT ![e % INPUT_BUF] = c]
  /\ e' = Inc(e)

\* Where the indices are after c is stored.
LEMMA StoredFacts ==
  ASSUME ConsInv, NEW c \in Typed, Stored(c)
  PROVE  /\ e' \in Index /\ buf' \in [Cell -> Typed] /\ e % INPUT_BUF \in Cell
         /\ Distance(w, e') = Distance(w, e) + 1
         /\ Distance(r, e') = Distance(r, e) + 1
         /\ e' = (r + INPUT_BUF) % ConsWrap <=> Distance(r, e) + 1 = INPUT_BUF
         /\ Distance(w, e) \in Cell /\ Distance(r, e) \in Cell
         /\ e % INPUT_BUF = (w + Distance(w, e)) % INPUT_BUF
         /\ e % INPUT_BUF = (r + Distance(r, e)) % INPUT_BUF
         /\ w = (r + Distance(r, w)) % ConsWrap
  <1>1. e \in Int /\ r \in Int /\ w \in Int
    BY IndexFacts, ConsSizes DEF Index
  <1>2. e % INPUT_BUF \in Cell
    BY <1>1, CellOf
  <1>3. buf' \in [Cell -> Typed]
    BY <1>2, IndexFacts DEF Stored
  <1>4. /\ Distance(w, e) \in Cell /\ Distance(r, e) \in Cell
        /\ Distance(w, e) + 1 < ConsWrap /\ Distance(r, e) + 1 < ConsWrap
        /\ Distance(w, e) \in Int /\ Distance(r, e) \in Int
    BY IndexFacts, ConsSizes, SMTT(30) DEF Stored, Cell
  <1>5. e' \in Index /\ Distance(w, e') = Distance(w, e) + 1
    BY <1>4, IndexFacts, DistanceInc DEF Stored
  <1>6. Distance(r, e') = Distance(r, e) + 1
    BY <1>4, IndexFacts, DistanceInc DEF Stored
  <1>7. e' = (r + INPUT_BUF) % ConsWrap <=> Distance(r, e) + 1 = INPUT_BUF
    <2>1. INPUT_BUF \in Index
      BY ConsSizes DEF Index
    <2> QED BY <1>5, <1>6, <2>1, IndexFacts, DistanceIs
  <1>8. /\ e = (w + Distance(w, e)) % ConsWrap /\ e = (r + Distance(r, e)) % ConsWrap
        /\ w = (r + Distance(r, w)) % ConsWrap
    <2>1. Distance(w, e) \in Index /\ Distance(r, e) \in Index /\ Distance(r, w) \in Index
      BY IndexFacts, DistanceFacts
    <2> QED BY <2>1, IndexFacts, DistanceIs
  <1>9. /\ e % INPUT_BUF = (w + Distance(w, e)) % INPUT_BUF
        /\ e % INPUT_BUF = (r + Distance(r, e)) % INPUT_BUF
    <2>1. w + Distance(w, e) \in Int /\ r + Distance(r, e) \in Int
      BY <1>1, <1>4
    <2>2. /\ ((w + Distance(w, e)) % ConsWrap) % INPUT_BUF = (w + Distance(w, e)) % INPUT_BUF
          /\ ((r + Distance(r, e)) % ConsWrap) % INPUT_BUF = (r + Distance(r, e)) % INPUT_BUF
      BY <2>1, CellOf
    <2> QED BY <1>8, <2>2
  <1> QED BY <1>2, <1>3, <1>4, <1>5, <1>6, <1>7, <1>8, <1>9

\* A key.
LEMMA KeyStep ==
  ASSUME ConsInv, NEW c \in Keys, consoleintr(c)
  PROVE  ConsInv'
  <1> USE DEF ConsInv
  <1>1. UNCHANGED <<r, conslock, n, took, ckilled>> /\ conslock = NoProc
    BY DEF consoleintr
  <1>2. \A p \in Procs : ~Holds(p)
    BY <1>1, ProcessConstants DEF ProcessConstants, ConsLockInv
  <1>3. mixed' = FALSE
    BY <1>2 DEF CTypeOK, Holds, consoleintr, Insert, consputc
  <1>4. cpc' = cpc \/ cpc' = Readers
    BY DEF consoleintr, Insert
  <1>5. ConsLockInv' /\ ConsCallInv'
    BY <1>1, <1>2, <1>4 DEF CTypeOK, ConsLockInv, ConsCallInv, Holds, Readers
  <1>6. cpc' \in [Procs -> {"idle", "read", "loop", "sleep", "asleep", "write", "put"}]
    BY <1>4 DEF CTypeOK, Readers
  <1>7. ASSUME UNCHANGED <<buf, w, cpc>>, e' \in Index, Distance(w, e)' <= Distance(w, e),
               Distance(w, e)' \in Nat
        PROVE  ConsInv'
    <2>1. CTypeOK'
      BY <1>1, <1>3, <1>6, <1>7 DEF CTypeOK, Index
    <2>2. Distance(r, w)' = Distance(r, w)
      BY <1>1, <1>7 DEF Distance
    <2>3. IndexInv'
      <3>1. CASE Distance(w, e)' = Distance(w, e) /\ Distance(w, e) = 0
        <4>1. w' = e'
          BY <1>7, <3>1, IndexFacts, DistanceFacts DEF Distance
        <4> QED BY <2>2, <3>1, <4>1 DEF IndexInv
      <3>2. CASE ~(Distance(w, e)' = Distance(w, e) /\ Distance(w, e) = 0)
        <4>1. w = e <=> Distance(w, e) = 0
          BY IndexFacts, DistanceFacts
        <4> QED BY <1>7, <2>2, <3>2, <4>1, IndexFacts, ConsSizes DEF IndexInv
      <3> QED BY <3>1, <3>2
    <2>4. EditInv'
      BY <1>7, IndexFacts DEF EditInv
    <2>5. ReaderInv'
      BY <1>1, <1>7 DEF ReaderInv
    <2> QED BY <1>3, <1>5, <2>1, <2>3, <2>4, <2>5
  <1>8. CASE c = "kill"
    <2>1. UNCHANGED <<buf, w, cpc>> /\ e' = w
      BY <1>8, KillErasesLine DEF consoleintr
    <2>2. Distance(w, e)' = 0
      BY <2>1, IndexFacts, DistanceFacts DEF Distance
    <2> QED BY <1>7, <2>1, <2>2, IndexFacts
  <1>9. CASE c = "bs"
    <2>1. UNCHANGED <<buf, w, cpc>>
      BY <1>9 DEF consoleintr
    <2>2. CASE e # w
      <3>1. e' = Dec(e)
        BY <1>9, <2>2 DEF consoleintr, Editable
      <3>2. Dec(e) \in Index /\ Distance(w, Dec(e)) = Distance(w, e) - 1
        BY <2>2, IndexFacts, DistanceDec
      <3>3. Distance(w, e)' = Distance(w, e) - 1 /\ Distance(w, e) > 0
        BY <2>1, <2>2, <3>1, <3>2, IndexFacts, DistanceFacts DEF Distance
      <3> QED BY <1>7, <2>1, <3>1, <3>2, <3>3, IndexFacts
    <2>3. CASE e = w
      <3>1. e' = e /\ Distance(w, e)' = Distance(w, e)
        BY <1>9, <2>1, <2>3 DEF consoleintr, Editable, Distance
      <3> QED BY <1>7, <2>1, <3>1, IndexFacts
    <2> QED BY <2>2, <2>3
  <1>10. CASE c \notin {"kill", "bs"}
    <2> DEFINE d == IF c = "cr" THEN "nl" ELSE c
    <2>1. d \in Typed /\ Insert(d)
      BY <1>10 DEF consoleintr, Keys, Typed
    <2> HIDE DEF d
    <2>2. CASE ~(Distance(r, e) < INPUT_BUF)
      <3>1. UNCHANGED <<buf, w, e, cpc>>
        BY <2>1, <2>2 DEF Insert
      <3>2. Distance(w, e)' = Distance(w, e)
        BY <3>1 DEF Distance
      <3> QED BY <1>7, <3>1, <3>2, IndexFacts
    <2>3. CASE Distance(r, e) < INPUT_BUF
      <3>1. Stored(d)
        BY <2>1, <2>3 DEF Insert, Stored
      <3>2. /\ e' \in Index /\ buf' \in [Cell -> Typed]
            /\ Distance(w, e') = Distance(w, e) + 1
            /\ Distance(r, e') = Distance(r, e) + 1
            /\ e' = (r + INPUT_BUF) % ConsWrap <=> Distance(r, e) + 1 = INPUT_BUF
        BY <2>1, <3>1, StoredFacts
      <3>3. CASE HandOver(d, Inc(e))
        <4>1. w' = e' /\ cpc' = Readers
          BY <2>1, <2>3, <3>3, <3>1 DEF Insert, Stored
        <4>2. Distance(w, e)' = 0
          <5>1. Distance(e', e') = 0
            BY <3>2, DistanceFacts
          <5> QED BY <4>1, <5>1 DEF Distance
        <4>3. Distance(r, w)' = Distance(r, e) + 1
          BY <1>1, <3>2, <4>1, SMTT(30) DEF Distance
        <4>4. IndexInv' /\ EditInv'
          BY <2>3, <4>1, <4>2, <4>3, IndexFacts, ConsSizes, SMTT(30) DEF IndexInv, EditInv
        <4>5. ReaderInv'
          BY <1>2, <4>1, SMTT(30) DEF CTypeOK, ReaderInv, Readers, Holds
        <4>6. CTypeOK'
          BY <1>1, <1>3, <1>6, <3>2, <4>1 DEF CTypeOK, Index, Cell
        <4> QED BY <1>3, <1>5, <4>4, <4>5, <4>6
      <3>4. CASE ~HandOver(d, Inc(e))
        <4>1. UNCHANGED <<w, cpc>> /\ d # "nl" /\ Distance(r, e) + 1 # INPUT_BUF
          BY <2>1, <2>3, <3>1, <3>2, <3>4 DEF Insert, HandOver, Stored
        <4>2. /\ Distance(w, e)' = Distance(w, e) + 1
              /\ Distance(r, w)' = Distance(r, w)
          BY <1>1, <3>2, <4>1 DEF Distance
        <4>3. IndexInv'
          BY <2>3, <4>1, <4>2, IndexFacts, ConsSizes DEF IndexInv
        <4>4. ASSUME NEW k \in 0..Distance(w, e)
              PROVE  buf'[((w + k) % ConsWrap) % INPUT_BUF] # "nl"
          <5>1. w + k \in Int /\ w \in Int
            BY IndexFacts, ConsSizes DEF Index
          <5>2. /\ ((w + k) % ConsWrap) % INPUT_BUF = (w + k) % INPUT_BUF
                /\ (w + k) % INPUT_BUF \in Cell
            BY <5>1, CellOf
          <5>3. e % INPUT_BUF = (w + Distance(w, e)) % INPUT_BUF
            BY <2>1, <3>1, StoredFacts, SMTT(30)
          <5>4. CASE k = Distance(w, e)
            BY <3>1, <4>1, <5>2, <5>3, <5>4, IndexFacts, SMTT(30) DEF Stored
          <5>5. CASE k # Distance(w, e)
            <6>1. k \in 0..(Distance(w, e) - 1)
              BY <5>5, IndexFacts, SMTT(30)
            <6>2. buf[(w + k) % INPUT_BUF] # "nl"
              BY <5>2, <6>1 DEF EditInv
            <6> QED BY <3>1, <4>1, <5>2, <6>2, IndexFacts DEF Stored
          <5> QED BY <5>4, <5>5
        <4>5. EditInv'
          <5>1. \A k \in 0..(Distance(w, e)' - 1) : k \in 0..Distance(w, e)
            BY <4>2, IndexFacts, SMTT(30)
          <5> QED BY <4>1, <4>4, <5>1 DEF EditInv
        <4>6. ReaderInv'
          BY <1>1, <4>1 DEF ReaderInv
        <4>7. CTypeOK'
          BY <1>1, <1>3, <1>6, <3>2, <4>1 DEF CTypeOK, Index, Cell
        <4> QED BY <1>3, <1>5, <4>3, <4>5, <4>6, <4>7, SMTT(30)
      <3> QED BY <3>3, <3>4
    <2> QED BY <2>2, <2>3
  <1> QED BY <1>8, <1>9, <1>10

-----------------------------------------------------------------------------
(* The theorems about states. *)

\* ConsInv holds in every reachable state.
THEOREM ConsoleInvariant == CSpec => []ConsInv
  <1>1. ConsInv /\ [CNext]_cvars => ConsInv'
    <2> SUFFICES ASSUME ConsInv, [CNext]_cvars PROVE ConsInv'
      OBVIOUS
    <2>1. CASE CNext
      BY <2>1, KeyStep, ProcessSteps, ReadTurn DEF CNext
    <2>2. CASE UNCHANGED cvars
      <3> USE <2>2 DEF cvars, ConsInv
      <3>1. IndexInv' /\ EditInv'
        BY RingUntouched, SMTT(30)
      <3>2. CTypeOK' /\ mixed' = mixed
        BY DEF CTypeOK, input
      <3>3. ConsLockInv' /\ ConsCallInv' /\ ReaderInv'
        BY DEF ConsLockInv, ConsCallInv, ReaderInv, Holds, input
      <3> QED BY <3>1, <3>2, <3>3
    <2> QED BY <2>1, <2>2
  <1> QED BY <1>1, InitConsInv, PTL DEF CSpec

\* Readers, writers and the handler share the console: no reader sleeps on a
\* ring that has input, a full ring has been handed over, and the text of one
\* write is never interrupted (console.c:193-289).
THEOREM ConsoleStaysShared == CSpec => []ConsoleShared
  <1>1. ConsInv => ConsoleShared
    <2> SUFFICES ASSUME ConsInv PROVE ConsoleShared
      OBVIOUS
    <2>1. Distance(r, e) = INPUT_BUF => w = e
      BY IndexFacts DEF ConsInv, IndexInv
    <2> QED BY <2>1 DEF ConsInv, ReaderInv, ConsoleShared, InputNotMissed, WritesWhole
  <1> QED BY <1>1, ConsoleInvariant, PTL

-----------------------------------------------------------------------------
(* The ring implements the line buffer. *)

\* What the abstract sequences are.
LEMMA LinesFacts ==
  ASSUME ConsInv
  PROVE  /\ Chars(r, w) \in Seq(Typed) /\ Len(Chars(r, w)) = Distance(r, w)
         /\ Chars(w, e) \in Seq(Typed) /\ Len(Chars(w, e)) = Distance(w, e)
  BY IndexFacts, CharsAreCells, CellsFacts

\* An empty ring is an empty line buffer.
LEMMA InitLines == CInit => Lines!Init
  <1> SUFFICES ASSUME CInit PROVE Lines!Init
    OBVIOUS
  <1>1. Distance(0, 0) = 0
    BY ConsSizes, DistanceFacts DEF Index
  <1>2. Chars(0, 0) = <<>>
    BY <1>1 DEF Chars
  <1> QED BY <1>2 DEF CInit, Lines!Init

\* Steps of processes that do not move the indices end a read or show nothing.
LEMMA ProcessLines ==
  ASSUME NEW p \in Procs, UNCHANGED <<buf, r, w, e>>,
         took' = took \/ took' = [took EXCEPT ![p] = 0]
  PROVE  Lines!Next \/ UNCHANGED Lines!vars
  <1>1. UNCHANGED <<Chars(r, w), Chars(w, e)>>
    BY DEF Chars, Distance
  <1> QED BY <1>1 DEF Lines!Next, Lines!Return, Lines!vars

\* A reader takes the first character, or the end of file.
LEMMA ReadLines ==
  ASSUME ConsInv, NEW p \in Procs, consoleread(p)
  PROVE  Lines!Next \/ UNCHANGED Lines!vars
  <1>1. UNCHANGED <<buf, w, e>>
    BY DEF consoleread
  <1>2. CASE r' = r
    <2>1. took' = took \/ took' = [took EXCEPT ![p] = 0] \/ (r # w /\ r' = Inc(r))
      BY DEF consoleread, Return
    <2>2. r # w => Inc(r) # r
      <3>1. r # w => Distance(Inc(r), w) = Distance(r, w) - 1 /\ Distance(r, w) \in Nat
        BY IndexFacts, DistanceBehind, SMTT(30)
      <3> QED BY <3>1
    <2> QED BY <1>1, <1>2, <2>1, <2>2, ProcessLines
  <1>3. CASE r' # r
    <2> DEFINE c == buf[r % INPUT_BUF]
    <2>1. /\ r # w /\ r' = Inc(r)
          /\ \/ c = "eot" /\ ~(took[p] > 0) /\ took' = [took EXCEPT ![p] = 0]
             \/ c # "eot" /\ took' = [took EXCEPT ![p] = @ + 1]
      BY <1>3 DEF consoleread, Return, SaveEof
    <2>2. Distance(r, w) \in Nat \ {0}
      BY <2>1, IndexFacts, DistanceFacts, SMTT(30)
    <2>3. Distance(Inc(r), w) = Distance(r, w) - 1
      BY <2>1, IndexFacts, DistanceBehind
    <2>4. Chars(r, w)' = Cells(buf, Inc(r), Distance(Inc(r), w))
      BY <1>1, <2>1 DEF Chars, Cells, Distance
    <2>5. /\ Chars(r, w) # <<>> /\ Head(Chars(r, w)) = c
          /\ Chars(r, w)' = Tail(Chars(r, w))
      <3>1. Chars(r, w) = Cells(buf, r, Distance(r, w))
        BY CharsAreCells
      <3>2. \A d \in Nat \ {0} :
              /\ Cells(buf, r, d) # <<>> /\ Head(Cells(buf, r, d)) = c
              /\ Tail(Cells(buf, r, d)) = Cells(buf, Inc(r), d - 1)
        BY IndexFacts, CellsTail
      <3> QED BY <2>2, <2>3, <2>4, <3>1, <3>2
    <2>6. Chars(w, e)' = Chars(w, e)
      BY <1>1 DEF Chars, Distance
    <2>7. took \in [Procs -> 0..ConsN] /\ took[p] \in Int
      BY ConsSizes DEF ConsInv, CTypeOK
    <2> HIDE DEF c
    <2>8. CASE c = "eot"
      <3>1. took[p] = 0
        BY <2>1, <2>7, <2>8 DEF ConsInv, CTypeOK
      <3>2. took' = took
        BY <2>1, <2>7, <2>8, <3>1
      <3> QED BY <2>5, <2>6, <2>8, <3>1, <3>2 DEF Lines!EndOfFile, Lines!Next
    <2>9. CASE c # "eot"
      BY <2>1, <2>5, <2>6, <2>9 DEF Lines!Take, Lines!Next
    <2> QED BY <2>8, <2>9, SMTT(30)
  <1> QED BY <1>2, <1>3, SMTT(30)

\* A character typed is appended to the line, and a finished line, or a full
\* ring, is handed over.
LEMMA TypeLines ==
  ASSUME ConsInv, NEW c \in Typed, Stored(c), UNCHANGED <<r, took>>,
         w' = IF HandOver(c, Inc(e)) THEN Inc(e) ELSE w
  PROVE  Lines!Type(c)
  <1> DEFINE a == Distance(r, w)
             d == Distance(w, e)
             line == Append(Chars(w, e), c)
             all == Chars(r, w) \o line
  <1>1. /\ a \in Nat /\ d \in Nat /\ Distance(r, e) = a + d /\ buf \in [Cell -> Typed]
        /\ r \in Index /\ w \in Index /\ a + d < INPUT_BUF
    BY IndexFacts DEF Stored
  <1>2. /\ e' \in Index /\ e' = Inc(e) /\ buf' \in [Cell -> Typed]
        /\ Distance(w, e') = d + 1 /\ Distance(r, e') = a + d + 1
        /\ e' = (r + INPUT_BUF) % ConsWrap <=> a + d + 1 = INPUT_BUF
        /\ d \in Cell /\ a + d \in Cell
        /\ buf' = [buf EXCEPT ![(w + d) % INPUT_BUF] = c]
        /\ buf' = [buf EXCEPT ![(r + (a + d)) % INPUT_BUF] = c]
        /\ w = (r + a) % ConsWrap
    BY <1>1, StoredFacts DEF Stored
  <1>3. Chars(r, w) = Cells(buf, r, a) /\ Chars(w, e) = Cells(buf, w, d)
    BY CharsAreCells
  <1>4. Len(Chars(r, w)) = a /\ Len(Chars(w, e)) = d
    BY LinesFacts
  <1> HIDE DEF a, d
  <1>5. Cells(buf', r, a) = Chars(r, w)
    <2>1. \A t \in Cell : \A f \in 0..t :
            Cells([buf EXCEPT ![(r + t) % INPUT_BUF] = c], r, f) = Cells(buf, r, f)
      BY <1>1, CellsOther
    <2>2. a \in 0..(a + d)
      BY <1>1
    <2> QED BY <1>2, <1>3, <2>1, <2>2, Zenon
  <1>6. Cells(buf', w, d + 1) = line
    <2>1. \A f \in Cell : Cells([buf EXCEPT ![(w + f) % INPUT_BUF] = c], w, f + 1) =
                            Append(Cells(buf, w, f), c)
      BY <1>1, CellsAppend
    <2> QED BY <1>2, <1>3, <2>1, Zenon
  <1>7. Cells(buf', r, a + (d + 1)) = all
    <2>1. PICK f \in Nat : f = d + 1
      BY <1>1
    <2>2. \A b \in [Cell -> Typed] : Cells(b, r, a) \o Cells(b, w, f) = Cells(b, r, a + f)
      <3>1. w = (r + a) % ConsWrap /\ r \in Index /\ w \in Index /\ a \in Nat
        BY <1>1, <1>2
      <3> QED BY <3>1, CellsConcat, ZenonT(30)
    <2> QED BY <1>2, <1>5, <1>6, <2>1, <2>2
  <1>8. Len(all) = a + d + 1
    <2>1. PICK f \in Nat : f = a + (d + 1) /\ f = a + d + 1
      BY <1>1
    <2>2. \A b \in [Cell -> Typed] : Len(Cells(b, r, f)) = f
      BY <1>1, CellsFacts, ZenonT(30)
    <2> QED BY <1>2, <1>7, <2>1, <2>2
  <1> HIDE DEF line, all
  <1>9. CASE HandOver(c, Inc(e))
    <2>1. w' = e' /\ (c \in {"nl", "eot"} \/ Len(all) = INPUT_BUF)
      BY <1>2, <1>8, <1>9 DEF HandOver
    <2>2. Chars(r, w)' = Cells(buf', r, Distance(r, e'))
      BY <2>1 DEF Chars, Cells, Distance
    <2>3. a + d + 1 = a + (d + 1)
      BY <1>1
    <2>4. Chars(r, w)' = all
      BY <1>2, <1>7, <2>2, <2>3
    <2>5. Distance(e', e') = 0
      BY <1>2, DistanceFacts
    <2>6. Chars(w, e)' = <<>>
      BY <2>1, <2>5, SMTT(30) DEF Chars, Distance
    <2> QED BY <1>1, <1>4, <2>1, <2>4, <2>6 DEF Lines!Type, all, line
  <1>10. CASE ~HandOver(c, Inc(e))
    <2>1. w' = w /\ ~(c \in {"nl", "eot"} \/ Len(all) = INPUT_BUF)
      BY <1>2, <1>8, <1>10 DEF HandOver
    <2>2. Chars(r, w)' = Cells(buf', r, a)
      BY <2>1 DEF Chars, Cells, Distance, a
    <2>3. Chars(w, e)' = Cells(buf', w, Distance(w, e'))
      BY <2>1 DEF Chars, Cells, Distance
    <2>4. Chars(r, w)' = Chars(r, w) /\ Chars(w, e)' = line
      BY <1>2, <1>5, <1>6, <2>2, <2>3
    <2> QED BY <1>1, <1>4, <2>1, <2>4 DEF Lines!Type, all, line
  <1> QED BY <1>9, <1>10

\* A key edits the line or hands it over.
LEMMA KeyLines ==
  ASSUME ConsInv, NEW c \in Keys, consoleintr(c)
  PROVE  Lines!Next \/ UNCHANGED Lines!vars
  <1>1. UNCHANGED <<r, took>>
    BY DEF consoleintr
  <1>2. CASE c = "kill"
    <2>1. UNCHANGED <<buf, w>> /\ e' = w
      BY <1>2, KillErasesLine DEF consoleintr
    <2>2. Distance(w, w) = 0
      BY IndexFacts, DistanceFacts
    <2>3. Chars(r, w)' = Chars(r, w) /\ Chars(w, e)' = <<>>
      BY <1>1, <2>1, <2>2 DEF Chars, Distance
    <2> QED BY <1>1, <2>3 DEF Lines!KillLine, Lines!Next
  <1>3. CASE c = "bs"
    <2>1. UNCHANGED <<buf, w>>
      BY <1>3 DEF consoleintr
    <2>2. Chars(r, w)' = Chars(r, w)
      BY <1>1, <2>1 DEF Chars, Distance
    <2>3. CASE e = w
      <3>1. e' = e
        BY <1>3, <2>3, SMTT(30) DEF consoleintr, Editable
      <3> QED BY <1>1, <2>1, <2>2, <3>1 DEF Lines!vars, Chars, Distance
    <2>4. CASE e # w
      <3>1. e' = Dec(e) /\ Distance(w, Dec(e)) = Distance(w, e) - 1
        BY <1>3, <2>4, IndexFacts, DistanceDec DEF consoleintr, Editable
      <3>2. Distance(w, e) \in Nat \ {0}
        BY <2>4, IndexFacts, DistanceFacts
      <3>3. Chars(w, e)' = Cells(buf, w, Distance(w, Dec(e)))
        BY <2>1, <3>1 DEF Chars, Cells, Distance
      <3>4. SubSeq(Cells(buf, w, Distance(w, e)), 1, Distance(w, e) - 1) =
              Cells(buf, w, Distance(w, e) - 1)
        BY <3>2, IndexFacts, CellsFront
      <3>5. Chars(w, e)' = SubSeq(Chars(w, e), 1, Len(Chars(w, e)) - 1)
        BY <3>1, <3>3, <3>4, LinesFacts, CharsAreCells
      <3>6. Chars(w, e) # <<>>
        BY <3>2, LinesFacts, EmptySeq
      <3> QED BY <1>1, <2>2, <3>5, <3>6 DEF Lines!Erase, Lines!Next
    <2> QED BY <2>3, <2>4
  <1>4. CASE c \notin {"kill", "bs"}
    <2> DEFINE d == IF c = "cr" THEN "nl" ELSE c
    <2>1. d \in Typed /\ Insert(d)
      BY <1>4 DEF consoleintr, Keys, Typed
    <2> HIDE DEF d
    <2>2. CASE ~(Distance(r, e) < INPUT_BUF)
      BY <1>1, <2>1, <2>2 DEF Insert, Lines!vars, Chars, Distance
    <2>3. CASE Distance(r, e) < INPUT_BUF
      <3>1. Stored(d) /\ w' = IF HandOver(d, Inc(e)) THEN Inc(e) ELSE w
        BY <2>1, <2>3 DEF Insert, Stored
      <3> QED BY <1>1, <2>1, <3>1, TypeLines DEF Lines!Next
    <2> QED BY <2>2, <2>3
  <1> QED BY <1>2, <1>3, <1>4

\* The ring implements the line buffer: for any size of the ring, any multiple
\* of it at which the indices wrap and any number of readers and writers, no
\* character is lost, repeated, reordered or taken back once handed over, and
\* a ^D behind other characters is kept for the next read (console.c:193-270).
THEOREM ConsoleIsLineBuffer == CSpec => LineDiscipline
  <1>1. ConsInv /\ [CNext]_cvars => [Lines!Next]_(Lines!vars)
    <2> SUFFICES ASSUME ConsInv, [CNext]_cvars PROVE Lines!Next \/ UNCHANGED Lines!vars
      OBVIOUS
    <2>1. CASE \E c \in Keys : consoleintr(c)
      BY <2>1, KeyLines, SMTT(30)
    <2>2. CASE \E p \in Procs : consoleread(p)
      BY <2>2, ReadLines
    <2>3. ASSUME NEW p \in Procs,
                 \/ \E k \in 1..ConsN : Call(p, "read", k) \/ Call(p, "write", k)
                 \/ Lock(p) \/ Sleep(p) \/ consolewrite(p) \/ ckill(p)
          PROVE  Lines!Next \/ UNCHANGED Lines!vars
      <3>1. UNCHANGED <<buf, r, w, e>>
        BY <2>3, SMTT(30) DEF input, Call, Lock, Sleep, consolewrite, ckill
      <3>2. took' = took \/ took' = [took EXCEPT ![p] = 0]
        BY <2>3 DEF Call, Lock, Sleep, consolewrite, Return, ckill
      <3> QED BY <3>1, <3>2, ProcessLines
    <2>4. CASE UNCHANGED cvars
      BY <2>4 DEF cvars, input, Lines!vars, Chars, Distance
    <2> QED BY <2>1, <2>2, <2>3, <2>4 DEF CNext
  <1> QED BY <1>1, InitLines, ConsoleInvariant, PTL DEF CSpec, LineDiscipline, Lines!Spec
=============================================================================
