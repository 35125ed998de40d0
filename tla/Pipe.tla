-------------------------------- MODULE Pipe --------------------------------
(***************************************************************************)
(* A pipe of src/pipe.c, shared by processes that read, write, close and   *)
(* get killed.  Code under p->lock is one step, except that the test of    *)
(* myproc()->killed and the sleep after it are two: kill (src/proc.c)      *)
(* takes ptable.lock only.                                                 *)
(***************************************************************************)
EXTENDS Integers, Sequences, FiniteSets, Processes

CONSTANTS Byte,       \* values of a byte
          PIPESIZE,
          Wrap,       \* 2^32, a multiple of PIPESIZE: nread and nwrite are uint
          MaxN        \* bound: greatest n of a read or write call

ASSUME PipeConstants ==
  /\ PIPESIZE \in Nat \ {0}
  /\ Wrap \in Nat /\ Wrap % PIPESIZE = 0 /\ PIPESIZE < Wrap
  /\ MaxN \in Nat

VARIABLES
  data, nread, nwrite,   \* struct pipe
  readopen, writeopen,
  lock,                  \* the process that holds p->lock between two steps
  fds,                   \* the ends a process has open
  ppc,                   \* where a process is
  left,                  \* n - i of pipewrite, n of piperead
  pkilled,               \* p->killed
  got                    \* the bytes the last piperead copied out

ring == <<data, nread, nwrite>>
opens == <<readopen, writeopen>>
procs == <<fds, ppc, left, pkilled>>
pvars == <<ring, opens, lock, procs, got>>

Places == {"idle",
           "write", "wsleep", "wasleep",   \* in pipewrite
           "read", "rsleep", "rasleep",    \* in piperead
           "closew", "closer"}             \* in fileclose, before pipeclose

PTypeOK ==
  /\ data \in [0..(PIPESIZE-1) -> Byte]
  /\ nread \in 0..(Wrap-1) /\ nwrite \in 0..(Wrap-1)
  /\ readopen \in BOOLEAN /\ writeopen \in BOOLEAN
  /\ lock \in Procs \cup {NoProc}
  /\ fds \in [Procs -> SUBSET {"r", "w"}]
  /\ ppc \in [Procs -> Places]
  /\ left \in [Procs -> 0..MaxN]
  /\ pkilled \in [Procs -> BOOLEAN]
  /\ got \in Seq(Byte)

\* pipealloc() has made the pipe, and fork() has passed both ends on.
PInit ==
  /\ \E b \in Byte : data = [i \in 0..(PIPESIZE-1) |-> b]
  /\ nread = 0 /\ nwrite = 0
  /\ readopen = TRUE /\ writeopen = TRUE
  /\ lock = NoProc
  /\ fds = [p \in Procs |-> {"r", "w"}]
  /\ ppc = [p \in Procs |-> "idle"]
  /\ left = [p \in Procs |-> 0]
  /\ pkilled = [p \in Procs |-> FALSE]
  /\ got = <<>>

Count == (nwrite - nread) % Wrap
\* Variant: the test for a full ring is off by one.
Room_OneMore == PIPESIZE + 1 - Count

Room == PIPESIZE - Count
Full == nwrite = (nread + PIPESIZE) % Wrap
Empty == nread = nwrite
Least(a, b) == IF a <= b THEN a ELSE b

\* wakeup(&p->nread) and wakeup(&p->nwrite)
WakeReaders(f) == [p \in Procs |-> IF f[p] = "rasleep" THEN "read" ELSE f[p]]
WakeWriters(f) == [p \in Procs |-> IF f[p] = "wasleep" THEN "write" ELSE f[p]]

-----------------------------------------------------------------------------
(* pipewrite *)

WriteCall(p, n) ==
  /\ ppc[p] = "idle" /\ "w" \in fds[p] /\ ~pkilled[p]
  /\ ppc' = [ppc EXCEPT ![p] = "write"]
  /\ left' = [left EXCEPT ![p] = n]
  /\ UNCHANGED <<ring, opens, lock, fds, pkilled, got>>

\* Put the bytes s into the ring, from nwrite on.
Store(s) ==
  /\ data' = [i \in 0..(PIPESIZE-1) |->
                LET j == (i - nwrite) % PIPESIZE
                IN  IF j < Len(s) THEN s[j + 1] ELSE data[i]]
  /\ nwrite' = (nwrite + Len(s)) % Wrap

\* From acquire(&p->lock), or from the return of sleep(), to the end or to
\* the next sleep: copy what fits; if not all did, the ring is full.
pipewrite(p) ==
  LET k == Least(left[p], Room) IN
  /\ ppc[p] = "write" /\ lock = NoProc
  /\ \E s \in [1..k -> Byte] : Store(s)
  /\ \/ /\ left[p] = k
        /\ ppc' = WakeReaders([ppc EXCEPT ![p] = "idle"])
        /\ left' = [left EXCEPT ![p] = 0]
        /\ lock' = lock
     \/ /\ left[p] # k
        /\ ~readopen \/ pkilled[p]
        /\ ppc' = [ppc EXCEPT ![p] = "idle"]
        /\ left' = [left EXCEPT ![p] = 0]
        /\ lock' = lock
     \/ /\ left[p] # k
        /\ readopen /\ ~pkilled[p]
        /\ ppc' = WakeReaders([ppc EXCEPT ![p] = "wsleep"])
        /\ left' = [left EXCEPT ![p] = @ - k]
        /\ lock' = p
  /\ UNCHANGED <<nread, opens, fds, pkilled, got>>

WriteSleep(p) ==
  /\ ppc[p] = "wsleep"
  /\ ppc' = [ppc EXCEPT ![p] = "wasleep"]
  /\ lock' = NoProc
  /\ UNCHANGED <<ring, opens, fds, left, pkilled, got>>

-----------------------------------------------------------------------------
(* piperead *)

ReadCall(p, n) ==
  /\ ppc[p] = "idle" /\ "r" \in fds[p] /\ ~pkilled[p]
  /\ ppc' = [ppc EXCEPT ![p] = "read"]
  /\ left' = [left EXCEPT ![p] = n]
  /\ UNCHANGED <<ring, opens, lock, fds, pkilled, got>>

\* The while loop finds nothing to read: give up if killed, else sleep.
ReadWait(p) ==
  /\ ppc[p] = "read" /\ lock = NoProc
  /\ Empty /\ writeopen
  /\ \/ /\ pkilled[p]
        /\ ppc' = [ppc EXCEPT ![p] = "idle"]
        /\ left' = [left EXCEPT ![p] = 0]
        /\ lock' = lock
     \/ /\ ~pkilled[p]
        /\ ppc' = [ppc EXCEPT ![p] = "rsleep"]
        /\ left' = left
        /\ lock' = p
  /\ UNCHANGED <<ring, opens, fds, pkilled, got>>

ReadSleep(p) ==
  /\ ppc[p] = "rsleep"
  /\ ppc' = [ppc EXCEPT ![p] = "rasleep"]
  /\ lock' = NoProc
  /\ UNCHANGED <<ring, opens, fds, left, pkilled, got>>

\* Variant: the reader does not wake the writers.
ReadCopy_NoWakeup(p) ==
  LET k == Least(left[p], Count) IN
  /\ ppc[p] = "read" /\ lock = NoProc
  /\ ~(Empty /\ writeopen)
  /\ got' = [i \in 1..k |-> data[(nread + i - 1) % PIPESIZE]]
  /\ nread' = (nread + k) % Wrap
  /\ ppc' = [ppc EXCEPT ![p] = "idle"]
  /\ left' = [left EXCEPT ![p] = 0]
  /\ UNCHANGED <<data, nwrite, opens, lock, fds, pkilled>>

ReadCopy(p) ==
  LET k == Least(left[p], Count) IN
  /\ ppc[p] = "read" /\ lock = NoProc
  /\ ~(Empty /\ writeopen)
  /\ got' = [i \in 1..k |-> data[(nread + i - 1) % PIPESIZE]]
  /\ nread' = (nread + k) % Wrap
  /\ ppc' = WakeWriters([ppc EXCEPT ![p] = "idle"])
  /\ left' = [left EXCEPT ![p] = 0]
  /\ UNCHANGED <<data, nwrite, opens, lock, fds, pkilled>>

-----------------------------------------------------------------------------
(* close and kill *)

\* Variant: the first close of an end, not the last, closes it.
LastUser_Any(p, e) == TRUE

LastUser(p, e) == \A q \in Procs \ {p} : e \notin fds[q]

\* fileclose: drop the reference; the last one goes on to pipeclose.
fileclose(p, e) ==
  /\ ppc[p] = "idle" /\ e \in fds[p]
  /\ fds' = [fds EXCEPT ![p] = @ \ {e}]
  /\ ppc' = IF LastUser(p, e)
              THEN [ppc EXCEPT ![p] = IF e = "w" THEN "closew" ELSE "closer"]
              ELSE ppc
  /\ UNCHANGED <<ring, opens, lock, left, pkilled, got>>

\* Variant: pipeclose wakes the processes of the side that it closes.
pipeclose_OwnSide(p) ==
  /\ lock = NoProc
  /\ \/ /\ ppc[p] = "closew"
        /\ writeopen' = FALSE /\ readopen' = readopen
        /\ ppc' = WakeWriters([ppc EXCEPT ![p] = "idle"])
     \/ /\ ppc[p] = "closer"
        /\ readopen' = FALSE /\ writeopen' = writeopen
        /\ ppc' = WakeReaders([ppc EXCEPT ![p] = "idle"])
  /\ UNCHANGED <<ring, lock, fds, left, pkilled, got>>

pipeclose(p) ==
  /\ lock = NoProc
  /\ \/ /\ ppc[p] = "closew"
        /\ writeopen' = FALSE /\ readopen' = readopen
        /\ ppc' = WakeReaders([ppc EXCEPT ![p] = "idle"])
     \/ /\ ppc[p] = "closer"
        /\ readopen' = FALSE /\ writeopen' = writeopen
        /\ ppc' = WakeWriters([ppc EXCEPT ![p] = "idle"])
  /\ UNCHANGED <<ring, lock, fds, left, pkilled, got>>

\* kill: takes ptable.lock, so not while sleep() changes p->state, but at any
\* other moment.
pkill(p) ==
  /\ ~pkilled[p]
  /\ pkilled' = [pkilled EXCEPT ![p] = TRUE]
  /\ ppc' = CASE ppc[p] = "rasleep" -> [ppc EXCEPT ![p] = "read"]
              [] ppc[p] = "wasleep" -> [ppc EXCEPT ![p] = "write"]
              [] OTHER -> ppc
  /\ UNCHANGED <<ring, opens, lock, fds, left, got>>

Work(p) == pipewrite(p) \/ WriteSleep(p) \/ ReadWait(p) \/ ReadSleep(p) \/ ReadCopy(p)

PNext ==
  \E p \in Procs :
    \/ \E n \in 1..MaxN : WriteCall(p, n) \/ ReadCall(p, n)
    \/ Work(p)
    \/ \E e \in {"r", "w"} : fileclose(p, e)
    \/ pipeclose(p)
    \/ pkill(p)

PSpec == PInit /\ [][PNext]_pvars

-----------------------------------------------------------------------------
(* Properties. *)

Contents == [i \in 1..Count |-> data[(nread + i - 1) % PIPESIZE]]

BS == INSTANCE ByteStream
        WITH Capacity <- PIPESIZE, stream <- Contents, ended <- ~writeopen

\* A pipe is a bounded FIFO: no byte is lost, duplicated or reordered, whatever
\* the number of readers and writers and also when the counters wrap around,
\* and a reader sees the end only after the last byte and the last writer.
StreamOrder == BS!Spec

InPipe(p) == ppc[p] \in Places \ {"idle"}
Asleep(p) == ppc[p] \in {"rasleep", "wasleep"}

\* Nobody uses the pipe once both ends are closed, which frees it: neither a
\* call in progress nor a sleeper that would be woken later (pipe.c:70-73).
NoUseAfterFree == ~readopen /\ ~writeopen => \A p \in Procs : ~InPipe(p)

\* The counters, flags and descriptors of a pipe stay within their bounds, and
\* nobody uses it once it is freed (pipe.c:59-75).
PipeSound == PTypeOK /\ NoUseAfterFree

\* As long as nobody is killed, a reader sleeps only while the pipe is empty
\* and can still be written, and a writer only while it is full and can still
\* be read, so that they never all sleep (pipe.c:85,106).
NoLostWakeup ==
  (\A p \in Procs : ~pkilled[p]) =>
    \A p \in Procs :
      /\ ppc[p] = "rasleep" => Empty /\ writeopen
      /\ ppc[p] = "wasleep" => Full /\ readopen

\* A reader waits only for an empty pipe, also when writers get killed
\* (pipe.c:106, "DOC: pipe-empty").
ReadersWaitOnEmpty == \A p \in Procs : ppc[p] = "rasleep" => Empty

-----------------------------------------------------------------------------
(* A process in the kernel goes on when it can take p->lock. *)

PFairness == \A p \in Procs : SF_pvars(Work(p)) /\ SF_pvars(pipeclose(p))

PFairSpec == PSpec /\ PFairness

\* When all write ends are closed every reader gets its answer, and when all
\* read ends are closed every writer does.
ClosersRelease ==
  \A p \in Procs :
    /\ (ppc[p] \in {"read", "rsleep", "rasleep"} /\ ~writeopen) ~> ppc[p] = "idle"
    /\ (ppc[p] \in {"write", "wsleep", "wasleep"} /\ ~readopen) ~> ppc[p] = "idle"

\* A process that is killed in a pipe call leaves it (proc.c:476-488).
KilledLeaves == \A p \in Procs : pkilled[p] /\ InPipe(p) ~> ~InPipe(p)
=============================================================================
