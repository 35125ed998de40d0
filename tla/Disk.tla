-------------------------------- MODULE Disk --------------------------------
(***************************************************************************)
(* The buffer cache (bio.c) on the IDE driver (ide.c) or on the memory     *)
(* disk (memide.c).  A section of code under bcache.lock or idelock is one *)
(* step; the sleep lock of a buffer is its `owner` (SleepLock models how    *)
(* it is taken).  A process that sleeps in iderw goes on when the condition *)
(* of its loop is met (Proc models sleep and wakeup).                      *)
(***************************************************************************)
EXTENDS Naturals, Sequences, SequencesExt, FiniteSets

CONSTANTS Procs, NoProc,
          NBUF,         \* buffers in the cache
          NBLOCKS,      \* blocks of the disk, numbered from 1; a buffer starts with 0
          Reads,        \* Reads[p]: the blocks that p uses
          Written,      \* the blocks that processes modify
          MaxPinned,    \* blocks the log may keep dirty in the cache
          Faulty        \* the blocks the device may fail on, once each

Bufs == 1 .. NBUF
Blocks == 1 .. NBLOCKS

VARIABLES buf,          \* blockno, refcnt, valid, dirty, data of each buffer
          owner,        \* the process that holds b->lock
          lru,          \* bcache.head: the buffers, most recently used first
          idequeue,
          device,       \* external: the command the controller executes
          disk,         \* external: what is on the platter
          pc, bp,       \* where each process is, and its buffer
          want,         \* the block it asked for
          driver,       \* "ide" or "memide", chosen when the kernel is linked
          panic,
          current,      \* ghost: the contents last given to each block
          failed        \* ghost: the blocks the device failed to read or write
dvars == <<buf, owner, lru, idequeue, device, disk, pc, bp, want, driver, panic,
           current, failed>>

Idle == [state |-> "idle", op |-> "none", blockno |-> 0, data |-> 0]

DInit ==
    /\ buf = [b \in Bufs |-> [blockno |-> 0, refcnt |-> 0, valid |-> FALSE, dirty |-> FALSE, data |-> 0]]
    /\ owner = [b \in Bufs |-> NoProc]
    /\ lru = [i \in Bufs |-> NBUF + 1 - i]
    /\ idequeue = <<>> /\ device = Idle
    /\ disk = [k \in Blocks |-> 0] /\ current = disk
    /\ pc = [p \in Procs |-> "idle"] /\ bp = [p \in Procs |-> 1] /\ want = [p \in Procs |-> 0]
    /\ driver \in {"ide", "memide"} /\ panic = "" /\ failed = {}

Goto(p, l) == pc' = [pc EXCEPT ![p] = l]

-----------------------------------------------------------------------------
(* bio.c *)

Cached(k) == {b \in Bufs : buf[b].blockno = k}

Unused(b) == buf[b].refcnt = 0 /\ ~buf[b].dirty

\* The buffer that bget recycles: the least recently used one that is unused.
Victim == lru[CHOOSE i \in Bufs : Unused(lru[i]) /\ \A j \in i + 1 .. NBUF : ~Unused(lru[j])]

\* bget up to the release of bcache.lock.  The old data of a recycled buffer are
\* never looked at: 0 stands for them.
bget(p, k) ==
    /\ pc[p] = "idle"
    /\ want' = [want EXCEPT ![p] = k]
    /\ \/ \E b \in Cached(k) :
            /\ buf' = [buf EXCEPT ![b].refcnt = @ + 1]
            /\ bp' = [bp EXCEPT ![p] = b] /\ Goto(p, "lock") /\ UNCHANGED panic
       \/ /\ Cached(k) = {}
          /\ IF \A b \in Bufs : ~Unused(b)
             THEN panic' = "bget: no buffers" /\ UNCHANGED <<buf, bp, pc>>
             ELSE /\ buf' = [buf EXCEPT ![Victim] = [blockno |-> k, refcnt |-> 1, valid |-> FALSE,
                                                     dirty |-> FALSE, data |-> 0]]
                  /\ bp' = [bp EXCEPT ![p] = Victim] /\ Goto(p, "lock") /\ UNCHANGED panic
    /\ UNCHANGED <<owner, lru, idequeue, device, disk, driver, current, failed>>

NeedsRead(b) == ~buf[b].valid

\* acquiresleep, and the test of B_VALID in bread.
bread(p) ==
    /\ pc[p] = "lock" /\ owner[bp[p]] = NoProc
    /\ owner' = [owner EXCEPT ![bp[p]] = p]
    /\ Goto(p, IF NeedsRead(bp[p]) THEN "iderw" ELSE "have")
    /\ UNCHANGED <<buf, lru, idequeue, device, disk, bp, want, driver, panic, current, failed>>

Change(p, k) == current' = [current EXCEPT ![k] = 1 - @]

\* The holder modifies the data and calls bwrite.
bwrite(p) ==
    LET b == bp[p] IN
    /\ pc[p] = "have" /\ want[p] \in Written
    /\ Change(p, want[p])
    /\ buf' = [buf EXCEPT ![b].data = current'[want[p]], ![b].dirty = TRUE]
    /\ Goto(p, "iderw")
    /\ UNCHANGED <<owner, lru, idequeue, device, disk, bp, want, driver, panic, failed>>

Pinned == {b \in Bufs : buf[b].dirty /\ \A p \in Procs : pc[p] \in {"iderw", "wait", "sync"} => bp[p] # b}

\* The holder modifies the data and calls log_write, which sets B_DIRTY: the log
\* keeps the block in the cache until it commits.
log_write(p) ==
    LET b == bp[p] IN
    /\ pc[p] = "have" /\ want[p] \in Written
    /\ b \in Pinned \/ Cardinality(Pinned) < MaxPinned
    /\ Change(p, want[p])
    /\ buf' = [buf EXCEPT ![b].data = current'[want[p]], ![b].dirty = TRUE]
    /\ Goto(p, "brelse")
    /\ UNCHANGED <<owner, lru, idequeue, device, disk, bp, want, driver, panic, failed>>

\* The log writes a pinned block home: bread and bwrite of what is cached.
install(p) ==
    /\ pc[p] = "have" /\ bp[p] \in Pinned
    /\ Goto(p, "iderw")
    /\ UNCHANGED <<buf, owner, lru, idequeue, device, disk, bp, want, driver, panic, current, failed>>

\* brelse up to releasesleep.
releasesleep(p) ==
    /\ pc[p] \in {"have", "brelse"}
    /\ owner' = [owner EXCEPT ![bp[p]] = NoProc]
    /\ Goto(p, "unref")
    /\ UNCHANGED <<buf, lru, idequeue, device, disk, bp, want, driver, panic, current, failed>>

MostRecent(b) == <<b>> \o SelectSeq(lru, LAMBDA x : x # b)

\* The rest of brelse, under bcache.lock.
brelse(p) ==
    LET b == bp[p] IN
    /\ pc[p] = "unref"
    /\ buf' = [buf EXCEPT ![b].refcnt = @ - 1]
    /\ lru' = IF buf[b].refcnt = 1 THEN MostRecent(b) ELSE lru
    /\ Goto(p, "idle") /\ want' = [want EXCEPT ![p] = 0] /\ bp' = [bp EXCEPT ![p] = 1]
    /\ UNCHANGED <<owner, idequeue, device, disk, driver, panic, current, failed>>

-----------------------------------------------------------------------------
(* ide.c *)

idestart(b) ==
    [state |-> "busy", op |-> IF buf[b].dirty THEN "write" ELSE "read",
     blockno |-> buf[b].blockno, data |-> IF buf[b].dirty THEN buf[b].data ELSE 0]

\* Variant: the request is started although the device works on another.
AppendRequest_Start(b) == device' = idestart(b) /\ idequeue' = Append(idequeue, b)

\* Append b to idequeue and start the disk if necessary.
AppendRequest(b) ==
    /\ idequeue' = Append(idequeue, b)
    /\ device' = IF idequeue = <<>> THEN idestart(b) ELSE device

\* iderw up to its loop.
iderw(p) ==
    LET b == bp[p] IN
    /\ driver = "ide" /\ pc[p] = "iderw"
    /\ IF buf[b].valid /\ ~buf[b].dirty
       THEN panic' = "iderw: nothing to do" /\ UNCHANGED <<idequeue, device, pc>>
       ELSE AppendRequest(b) /\ Goto(p, IF buf[b].dirty THEN "sync" ELSE "wait") /\ UNCHANGED panic
    /\ UNCHANGED <<buf, owner, lru, disk, bp, want, driver, current, failed>>

\* The loop of iderw ends, for a bread or a bwrite.
Synced(p) ==
    /\ pc[p] \in {"wait", "sync"} /\ buf[bp[p]].valid /\ ~buf[bp[p]].dirty
    /\ Goto(p, IF pc[p] = "wait" THEN "have" ELSE "brelse")
    /\ UNCHANGED <<buf, owner, lru, idequeue, device, disk, bp, want, driver, panic, current, failed>>

\* External: the controller finishes its command and raises its interrupt.
Execute ==
    /\ device.state = "busy"
    /\ device' = [device EXCEPT !.state = "irq",
                                !.data = IF device.op = "read" THEN disk[device.blockno] ELSE 0]
    /\ disk' = IF device.op = "write" THEN [disk EXCEPT ![device.blockno] = device.data] ELSE disk
    /\ UNCHANGED <<buf, owner, lru, idequeue, pc, bp, want, driver, panic, current, failed>>

\* External: the command fails; the controller reports the error and interrupts.
Fail ==
    /\ device.state = "busy" /\ device.blockno \in Faulty \ failed
    /\ device' = [device EXCEPT !.state = "error", !.data = 0]
    /\ failed' = failed \cup {device.blockno}
    /\ UNCHANGED <<buf, owner, lru, idequeue, disk, pc, bp, want, driver, panic, current>>

\* Variant: the next request in the queue is not started.
StartNext_Never(queue) == Idle

StartNext(queue) == IF queue = <<>> THEN Idle ELSE idestart(queue[1])

\* A read that failed leaves the data as they are; the buffer is valid all the same.
ideintr ==
    /\ device.state \in {"irq", "error"}
    /\ idequeue # <<>>
    /\ LET b == idequeue[1] IN
       /\ idequeue' = Tail(idequeue)
       /\ buf' = [buf EXCEPT ![b].data = IF ~buf[b].dirty /\ device.state = "irq" THEN device.data ELSE @,
                             ![b].valid = TRUE, ![b].dirty = FALSE]
    /\ device' = StartNext(Tail(idequeue))
    /\ UNCHANGED <<owner, lru, disk, pc, bp, want, driver, panic, current, failed>>

-----------------------------------------------------------------------------
(* memide.c: the copy is made at once. *)
memrw(p) ==
    LET b == bp[p]
        k == buf[b].blockno IN
    /\ driver = "memide" /\ pc[p] = "iderw"
    /\ IF buf[b].valid /\ ~buf[b].dirty
       THEN panic' = "iderw: nothing to do" /\ UNCHANGED <<buf, disk, pc>>
       ELSE /\ disk' = IF buf[b].dirty THEN [disk EXCEPT ![k] = buf[b].data] ELSE disk
            /\ buf' = [buf EXCEPT ![b].data = disk'[k], ![b].valid = TRUE, ![b].dirty = FALSE]
            /\ Goto(p, IF buf[b].dirty THEN "brelse" ELSE "have") /\ UNCHANGED panic
    /\ UNCHANGED <<owner, lru, idequeue, device, bp, want, driver, current, failed>>

-----------------------------------------------------------------------------
Call(p) == \E k \in Reads[p] : bget(p, k)
Return(p) == releasesleep(p) \/ brelse(p) \/ iderw(p) \/ Synced(p) \/ memrw(p)
Update(p) == bwrite(p) \/ log_write(p) \/ install(p)
Device == Execute \/ Fail \/ ideintr

DNext == panic = "" /\ (Device \/ \E p \in Procs : Call(p) \/ bread(p) \/ Return(p) \/ Update(p))


-----------------------------------------------------------------------------
DTypeOK ==
    /\ buf \in [Bufs -> [blockno : 0 .. NBLOCKS, refcnt : 0 .. Cardinality(Procs), valid : BOOLEAN,
                         dirty : BOOLEAN, data : 0 .. 1]]
    /\ owner \in [Bufs -> Procs \cup {NoProc}]
    /\ Len(lru) = NBUF /\ ToSet(lru) = Bufs
    /\ idequeue \in Seq(Bufs) /\ disk \in [Blocks -> 0 .. 1]
    /\ pc \in [Procs -> {"idle", "lock", "iderw", "wait", "sync", "have", "brelse", "unref"}]
    /\ bp \in [Procs -> Bufs] /\ want \in [Procs -> 0 .. NBLOCKS]

\* No block is in two buffers, so that the lock of a buffer serialises the users
\* of its block, and a process that waits for or holds a buffer still finds in it
\* the block it asked for: bget recycles no buffer in use (bio.c:67-90).
OneBufferPerBlock ==
    /\ \A b, c \in Bufs : buf[b].blockno = buf[c].blockno /\ buf[b].blockno # 0 => b = c
    /\ \A p \in Procs : pc[p] # "idle" => buf[bp[p]].blockno = want[p]

\* The holder of a buffer sees the contents last given to its block, through any
\* number of evictions and writes by others, unless the device failed on the block:
\* a buffer that the log has modified stays in the cache (bio.c:78-80).
ReadLatest ==
    \A p \in Procs : pc[p] \in {"have", "brelse"} /\ want[p] \notin failed
                      => buf[bp[p]].data = current[want[p]]

\* A buffer that is valid and not dirty equals the disk: when bwrite returns, the
\* block is written (ide.c:134-136), unless the device failed on it.
CleanIsSynced ==
    \A b \in Bufs : buf[b].valid /\ ~buf[b].dirty /\ buf[b].blockno \notin failed
                      => buf[b].data = disk[buf[b].blockno]

\* The device works on the first buffer of idequeue, with the data and the
\* direction of that buffer, whenever the queue is not empty; each queued buffer is
\* there once, held by a process that waits for it (ide.c:30-32, 107, 151-158).
QueueMatchesDevice ==
    /\ (device.state = "idle") <=> (idequeue = <<>>)
    /\ idequeue # <<>> => device.blockno = buf[idequeue[1]].blockno
                          /\ (device.op = "write") <=> buf[idequeue[1]].dirty
    /\ \A i, j \in 1 .. Len(idequeue) : idequeue[i] = idequeue[j] => i = j
    /\ \A i \in 1 .. Len(idequeue) :
          \E p \in Procs : pc[p] \in {"wait", "sync"} /\ bp[p] = idequeue[i] /\ owner[idequeue[i]] = p

\* A cache as large as the blocks in use and those the log pins never runs out,
\* and no request is made for nothing (bio.c:92, ide.c:143).
NoDiskPanic == panic = ""

\* The cache and the driver together act as the disk itself: one copy of a block,
\* always the latest, and one request at the device, the right one (bio.c, ide.c).
DiskSound == /\ DTypeOK /\ OneBufferPerBlock /\ ReadLatest /\ CleanIsSynced
             /\ QueueMatchesDevice /\ NoDiskPanic

\* Every request given to the driver is answered, also behind others in the queue
\* and after a device error: the loop of iderw ends (ide.c:161).
RequestsAnswered ==
    \A p \in Procs : pc[p] \in {"iderw", "wait", "sync"} ~> pc[p] \in {"have", "brelse"}
=============================================================================
