-------------------------------- MODULE Log --------------------------------
(***************************************************************************)
(* The write-ahead log of src/log.c, with the part of the buffer cache     *)
(* (src/bio.c) it depends on: a file system call brackets its updates with *)
(* begin_op and end_op, the last call to end commits the group, and a      *)
(* crash may happen between any two writes to the disk, also during the    *)
(* recovery from an earlier crash.                                         *)
(*                                                                         *)
(* A block's content is one value; a disk write of one block is atomic     *)
(* (BSIZE is one sector).  Code that runs under log.lock is one step.      *)
(***************************************************************************)
EXTENDS Integers, Sequences, FiniteSets

CONSTANTS Procs,        \* processes that make file system calls
          Blocks,       \* numbers of the blocks outside the log
          Vals,         \* contents of a block
          NoVal,        \* "no buffer holds this block"
          NoBlock,      \* "this process holds no buffer"
          MAXOPBLOCKS,  \* log slots begin_op reserves for a call
          LOGSIZE,      \* log slots begin_op hands out
          NLOG,         \* sb.nlog: blocks of the log on disk, header included
          OpBlocks      \* different blocks a call really writes

ASSUME LogConstants ==
  /\ IsFiniteSet(Procs)
  /\ NoVal \notin Vals
  /\ NoBlock \notin Blocks
  /\ MAXOPBLOCKS \in Nat \ {0}
  /\ LOGSIZE \in Nat
  /\ MAXOPBLOCKS <= LOGSIZE
  /\ NLOG \in Nat \ {0}
  /\ OpBlocks \in Nat

VARIABLES
  home,         \* disk: contents of the blocks at their home location
  logblk,       \* disk: log blocks, log.start+1 onwards
  head,         \* disk: the header block, as the sequence block[0..n-1]
  lh,           \* log.lh, the header in memory
  outstanding,  \* log.outstanding
  committing,   \* log.committing
  cache,        \* data of the buffer that holds a block
  dirty,        \* blocks whose buffer has B_DIRTY
  pc,           \* where a process is
  held,         \* the buffer a process has locked and modified
  wrote,        \* blocks a process has written in its current call
  step,         \* where commit() or recover_from_log() is
  tail,         \* the loop variable of write_log() and install_trans()
  booted        \* initlog() has returned

disk == <<home, logblk, head>>
mem == <<lh, outstanding, committing>>
bufs == <<cache, dirty>>
calls == <<pc, held, wrote>>
ctl == <<step, tail, booted>>
vars == <<disk, mem, bufs, calls, ctl>>

Elems(s) == {s[i] : i \in 1..Len(s)}

TypeOK ==
  /\ home \in [Blocks -> Vals]
  /\ logblk \in [1..(NLOG-1) -> Vals]
  /\ head \in Seq(Blocks) /\ Len(head) < NLOG
  /\ lh \in Seq(Blocks) /\ Len(lh) < NLOG
  /\ outstanding \in Nat
  /\ committing \in BOOLEAN
  /\ cache \in [Blocks -> Vals \cup {NoVal}]
  /\ dirty \subseteq Blocks
  /\ pc \in [Procs -> {"idle", "asleep", "woken", "op", "commit"}]
  /\ held \in [Procs -> Blocks \cup {NoBlock}]
  /\ wrote \in [Procs -> SUBSET Blocks]
  /\ step \in {"run", "write_log", "write_head", "install", "erase", "finish", "boot"}
  /\ tail \in 0..NLOG
  /\ booted \in BOOLEAN

Init ==
  /\ home \in [Blocks -> Vals]
  /\ \E v \in Vals : logblk = [i \in 1..(NLOG-1) |-> v]
  /\ head = <<>> /\ lh = <<>>
  /\ outstanding = 0 /\ committing = FALSE
  /\ cache = [b \in Blocks |-> NoVal] /\ dirty = {}
  /\ pc = [p \in Procs |-> "idle"]
  /\ held = [p \in Procs |-> NoBlock]
  /\ wrote = [p \in Procs |-> {}]
  /\ step = "boot" /\ tail = 0 /\ booted = FALSE

-----------------------------------------------------------------------------
(* The buffer cache, as the log sees it. *)

\* What bread returns for block b: the cached data, else the disk's.
Data(b) == IF cache[b] = NoVal THEN home[b] ELSE cache[b]

\* bread by a call that only reads (fileread makes no transaction).
Bread(b) ==
  /\ booted
  /\ cache[b] = NoVal
  /\ cache' = [cache EXCEPT ![b] = home[b]]
  /\ UNCHANGED <<disk, mem, dirty, calls, ctl>>

\* bget may take over a buffer nobody holds, unless it is dirty.
Recyclable(b) == b \notin dirty /\ \A p \in Procs : held[p] # b

Recycle(b) ==
  /\ cache[b] # NoVal
  /\ Recyclable(b)
  /\ cache' = [cache EXCEPT ![b] = NoVal]
  /\ UNCHANGED <<disk, mem, dirty, calls, ctl>>

-----------------------------------------------------------------------------
(* File system calls. *)

\* Variant: begin_op forgets the blocks of the call that it lets in.
NoSpace_OthersOnly == Len(lh) + outstanding * MAXOPBLOCKS > LOGSIZE

\* "this op might exhaust log space"
NoSpace == Len(lh) + (outstanding + 1) * MAXOPBLOCKS > LOGSIZE

\* Variant: wakeup wakes nobody.
Wakeup_Nobody(f) == f

\* wakeup(&log)
Wakeup(f) == [p \in Procs |-> IF f[p] = "asleep" THEN "woken" ELSE f[p]]

BeginOp(p) ==
  /\ booted
  /\ pc[p] \in {"idle", "woken"}
  /\ ~committing /\ ~NoSpace
  /\ outstanding' = outstanding + 1
  /\ pc' = [pc EXCEPT ![p] = "op"]
  /\ UNCHANGED <<disk, lh, committing, bufs, held, wrote, ctl>>

BeginOpSleep(p) ==
  /\ booted
  /\ pc[p] \in {"idle", "woken"}
  /\ committing \/ NoSpace
  /\ pc' = [pc EXCEPT ![p] = "asleep"]
  /\ UNCHANGED <<disk, mem, bufs, held, wrote, ctl>>

\* bp = bread(b); modify bp->data
Modify(p, b, v) ==
  /\ pc[p] = "op" /\ held[p] = NoBlock
  /\ \A q \in Procs : held[q] # b
  /\ Cardinality(wrote[p] \cup {b}) <= OpBlocks
  /\ cache' = [cache EXCEPT ![b] = v]
  /\ held' = [held EXCEPT ![p] = b]
  /\ wrote' = [wrote EXCEPT ![p] = @ \cup {b}]
  /\ UNCHANGED <<disk, mem, dirty, pc, ctl>>

TooBig == Len(lh) >= LOGSIZE \/ Len(lh) >= NLOG - 1

\* Variant: the buffer is not marked B_DIRTY.
LogWrite_NoPin(p) ==
  LET b == held[p] IN
  /\ b # NoBlock
  /\ ~TooBig /\ outstanding >= 1
  /\ lh' = IF b \in Elems(lh) THEN lh ELSE Append(lh, b)
  /\ held' = [held EXCEPT ![p] = NoBlock]
  /\ UNCHANGED <<disk, outstanding, committing, bufs, pc, wrote, ctl>>

\* log_write(bp); brelse(bp).  It panics when TooBig or outside a transaction.
LogWrite(p) ==
  LET b == held[p] IN
  /\ b # NoBlock
  /\ ~TooBig /\ outstanding >= 1
  /\ lh' = IF b \in Elems(lh) THEN lh ELSE Append(lh, b)
  /\ dirty' = dirty \cup {b}
  /\ held' = [held EXCEPT ![p] = NoBlock]
  /\ UNCHANGED <<disk, outstanding, committing, cache, pc, wrote, ctl>>

\* end_op, up to the call of commit(), which does nothing when lh.n is 0.
EndOp(p) ==
  /\ pc[p] = "op" /\ held[p] = NoBlock /\ ~committing
  /\ outstanding' = outstanding - 1
  /\ wrote' = [wrote EXCEPT ![p] = {}]
  /\ \/ /\ outstanding = 1
        /\ committing' = TRUE
        /\ pc' = [pc EXCEPT ![p] = "commit"]
        /\ step' = IF lh = <<>> THEN "finish" ELSE "write_log"
        /\ tail' = 0
     \/ /\ outstanding # 1
        /\ pc' = Wakeup([pc EXCEPT ![p] = "idle"])
        /\ UNCHANGED <<committing, step, tail>>
  /\ UNCHANGED <<disk, lh, bufs, held, booted>>

\* Variant: end_op does not wake the sleepers after the commit.
FinishCommit_NoWakeup(p) ==
  /\ pc[p] = "commit" /\ step = "finish"
  /\ committing' = FALSE
  /\ pc' = [pc EXCEPT ![p] = "idle"]
  /\ step' = "run"
  /\ UNCHANGED <<disk, lh, outstanding, bufs, held, wrote, tail, booted>>

\* The rest of end_op, after commit() has returned.
FinishCommit(p) ==
  /\ pc[p] = "commit" /\ step = "finish"
  /\ committing' = FALSE
  /\ pc' = Wakeup([pc EXCEPT ![p] = "idle"])
  /\ step' = "run"
  /\ UNCHANGED <<disk, lh, outstanding, bufs, held, wrote, tail, booted>>

-----------------------------------------------------------------------------
(* commit() and recover_from_log(): one disk write per step. *)

\* One iteration of the loop of a phase; the last one moves to the next phase.
Loop(phase, next) ==
  /\ step = phase
  /\ IF tail + 1 < Len(lh)
       THEN tail' = tail + 1 /\ step' = step
       ELSE tail' = 0 /\ step' = next

\* Variant: commit installs before it writes the header.
write_log_SkipsHead ==
  LET b == lh[tail + 1] IN
  /\ Loop("write_log", "install")
  /\ logblk' = [logblk EXCEPT ![tail + 1] = Data(b)]
  /\ cache' = [cache EXCEPT ![b] = Data(b)]
  /\ UNCHANGED <<home, head, mem, dirty, calls, booted>>

write_log ==
  LET b == lh[tail + 1] IN
  /\ Loop("write_log", "write_head")
  /\ logblk' = [logblk EXCEPT ![tail + 1] = Data(b)]
  /\ cache' = [cache EXCEPT ![b] = Data(b)]
  /\ UNCHANGED <<home, head, mem, dirty, calls, booted>>

\* Variant: commit erases the log without installing it.
write_head_SkipsInstall ==
  /\ step = "write_head"
  /\ head' = lh
  /\ step' = "erase"
  /\ UNCHANGED <<home, logblk, mem, bufs, calls, tail, booted>>

write_head ==
  /\ step = "write_head"
  /\ head' = lh
  /\ step' = "install"
  /\ UNCHANGED <<home, logblk, mem, bufs, calls, tail, booted>>

install_trans ==
  LET b == lh[tail + 1] IN
  /\ Loop("install", "erase")
  /\ home' = [home EXCEPT ![b] = logblk[tail + 1]]
  /\ cache' = [cache EXCEPT ![b] = logblk[tail + 1]]
  /\ dirty' = dirty \ {b}
  /\ UNCHANGED <<logblk, head, mem, calls, booted>>

\* log.lh.n = 0; write_head(): the end of commit() and of recover_from_log().
EraseLog ==
  /\ step = "erase"
  /\ lh' = <<>> /\ head' = <<>>
  /\ step' = IF booted THEN "finish" ELSE "run"
  /\ booted' = TRUE
  /\ UNCHANGED <<home, logblk, outstanding, committing, bufs, calls, tail>>

\* read_head(), the start of recover_from_log().
read_head ==
  /\ step = "boot"
  /\ lh' = head
  /\ step' = IF head = <<>> THEN "erase" ELSE "install"
  /\ UNCHANGED <<disk, outstanding, committing, bufs, calls, tail, booted>>

\* Power fails: the disk stays, memory is lost, the machine boots again.
Crash ==
  /\ lh' = <<>> /\ outstanding' = 0 /\ committing' = FALSE
  /\ cache' = [b \in Blocks |-> NoVal] /\ dirty' = {}
  /\ pc' = [p \in Procs |-> "idle"]
  /\ held' = [p \in Procs |-> NoBlock]
  /\ wrote' = [p \in Procs |-> {}]
  /\ step' = "boot" /\ tail' = 0 /\ booted' = FALSE
  /\ UNCHANGED disk

CommitStep == write_log \/ write_head \/ install_trans \/ EraseLog \/ read_head

Call(p) ==
  \/ BeginOp(p)
  \/ BeginOpSleep(p)
  \/ \E b \in Blocks, v \in Vals : Modify(p, b, v)
  \/ LogWrite(p)
  \/ EndOp(p)
  \/ FinishCommit(p)

Next ==
  \/ \E p \in Procs : Call(p)
  \/ \E b \in Blocks : Bread(b) \/ Recycle(b)
  \/ CommitStep
  \/ Crash

Spec == Init /\ [][Next]_vars

-----------------------------------------------------------------------------
(* The disk a crash at this moment leaves to the file system, once recovery  *)
(* has run, and the disk that system calls see.                              *)

Durable ==
  [b \in Blocks |-> IF b \in Elems(head)
                       THEN logblk[CHOOSE i \in 1..Len(head) : head[i] = b]
                       ELSE home[b]]

Current == IF booted THEN [b \in Blocks |-> Data(b)] ELSE Durable

AD == INSTANCE AtomicDisk
        WITH durable <- Durable, current <- Current, active <- outstanding

-----------------------------------------------------------------------------
(* Properties. *)

\* The log implements an atomic disk: whatever the interleaving of calls,
\* commit steps and crashes (also crashes inside recovery), what is durable
\* changes only at one step of a commit, with no call active, to exactly what
\* the calls saw, and a crash goes back to it (log.c:9-22).
Refinement == AD!Spec

\* None of the panics of log.c can fire: log_write always finds room and a
\* transaction, and end_op never runs during a commit (log.c:152,218,220).
NoPanic ==
  /\ \A p \in Procs : held[p] # NoBlock => ~TooBig /\ outstanding >= 1
  /\ \A p \in Procs : pc[p] = "op" => ~committing

\* When the last call has ended and its end_op has returned, everything the
\* calls wrote is durable and the log is empty (log.c:144,165-173).
QuiescentDurable ==
  booted /\ outstanding = 0 /\ ~committing =>
    Current = Durable /\ lh = <<>> /\ dirty = {}

\* A buffer that differs from its block on disk cannot be recycled: it is
\* locked by the process that changed it or pinned by B_DIRTY (log.c:205,231).
NothingLost ==
  \A b \in Blocks : cache[b] # NoVal /\ Recyclable(b) => cache[b] = home[b]

\* No lost wakeup: while a process sleeps in begin_op the reason it sleeps for
\* still holds, and someone is on the way to end_op who will wake it.
NoLostWakeup ==
  \A p \in Procs : pc[p] = "asleep" =>
    /\ committing \/ NoSpace
    /\ \E q \in Procs : pc[q] \in {"op", "commit"}

-----------------------------------------------------------------------------
(* The inductive invariant. *)

Distinct(s) == \A i, j \in 1..Len(s) : s[i] = s[j] => i = j

\* Blocks of the header not yet installed.
Uninstalled == {lh[i] : i \in (tail + 1)..Len(lh)}

\* log.outstanding counts the calls in progress.
Ops == {p \in Procs : pc[p] = "op"}
CountInv == outstanding = Cardinality(Ops)

\* Buffers in use are in the cache, locked by one process, inside a call.
BufInv ==
  /\ \A p \in Procs : held[p] # NoBlock => pc[p] = "op" /\ cache[held[p]] # NoVal
  /\ \A b \in dirty : cache[b] # NoVal
  /\ NothingLost

\* No call is active during a commit or a recovery.
ModeInv ==
  /\ committing <=> (booted /\ step # "run")
  /\ committing => outstanding = 0 /\ \E p \in Procs : pc[p] = "commit"
  /\ ~booted => /\ step \in {"boot", "install", "erase"}
                /\ outstanding = 0 /\ dirty = {}
                /\ \A p \in Procs : pc[p] = "idle"
  /\ step = "boot" => ~booted
  /\ step = "run" /\ outstanding = 0 => lh = <<>>

\* What the disk and the buffers hold at each phase of commit and recovery.
PhaseInv ==
  /\ step \in {"run", "write_log", "write_head"} => head = <<>> /\ dirty = Elems(lh)
  /\ step \in {"boot", "run", "write_head", "erase", "finish"} => tail = 0
  /\ step \in {"write_log", "install"} => tail < Len(lh)
  /\ step = "write_log" => \A i \in 1..tail : logblk[i] = cache[lh[i]]
  /\ step = "write_head" => lh # <<>> /\ \A i \in 1..Len(lh) : logblk[i] = cache[lh[i]]
  /\ step \in {"install", "erase"} => head = lh
  /\ step = "install" =>
       /\ \A i \in 1..tail : home[lh[i]] = logblk[i]
       /\ booted => /\ dirty = Uninstalled
                    /\ \A i \in (tail + 1)..Len(lh) : cache[lh[i]] = logblk[i]
  /\ step = "erase" => dirty = {} /\ \A i \in 1..Len(lh) : home[lh[i]] = logblk[i]
  /\ step = "finish" => lh = <<>> /\ head = <<>> /\ dirty = {}

\* Between any two steps, of calls, commit or recovery, a crash leaves a disk
\* that recovery turns into the last committed one (log.c:53-202).
LogInv ==
  /\ Distinct(lh) /\ Distinct(head)
  /\ CountInv
  /\ BufInv
  /\ ModeInv
  /\ PhaseInv

-----------------------------------------------------------------------------
(* A call makes finitely many log_writes and then calls end_op, and the disk *)
(* completes every write; a process that was woken runs again.               *)

Fairness ==
  /\ WF_vars(CommitStep)
  /\ \A p \in Procs :
       /\ WF_vars(LogWrite(p))
       /\ SF_vars(EndOp(p))
       /\ WF_vars(FinishCommit(p))

FairSpec == Spec /\ Fairness

\* Every process that sleeps in begin_op is woken, by the end of a commit or of
\* another call (log.c:130-134,161,171).
SleepersWake == \A p \in Procs : pc[p] = "asleep" ~> pc[p] # "asleep"

\* Every commit ends and lets new calls begin (log.c:169-173).
CommitsEnd == committing ~> ~committing
=============================================================================
