# Verification of the xv6 kernel with networking

TLA+ models of the system under `src/`, their TLC configurations and TLAPS
proofs. The system is xv6 for x86 multiprocessors, extended with a PCI scan, an
E1000 driver and an ARP request call, with its user library, shell, text tools
and mkfs.

`PROJECT.json` lists the components with their status, the map from definitions
to source lines, the runs, the hazards and the findings.

## The system

| Component | What makes it hard | Modules |
|---|---|---|
| log (`log.c`) | crashes between disk writes, group commit, space reservation, sleeping in begin_op | `Log`, `AtomicDisk` |
| buffer cache and disk driver (`bio.c`, `ide.c`, `memide.c`) | recycling against pinning, one buffer per block, interrupt against submission, device errors | `Disk` |
| inodes, directories, files and their calls (`fs.c`, `file.c`, `sysfile.c`) | references against links, locking order, partial failures | `FileSys` |
| file contents and blocks (`fs.c`, `file.c`) | indirect blocks, limits, truncation | `FileData`, `FsParams` |
| processes (`proc.c`, `trap.c`) | several CPUs, lost wakeups, orphans, reuse of slots | `Proc` |
| spinlocks (`spinlock.c`, `proc.c`, `trap.c`) | interrupts, a lock handed from one thread to another | `Spinlock` |
| sleep-locks (`sleeplock.c`) | sleep under a spinlock | `SleepLock` |
| pipes (`pipe.c`) | several readers and writers, counter wrap, kill, close | `Pipe`, `ByteStream` |
| memory and exec (`kalloc.c`, `vm.c`, `proc.c`, `exec.c`) | an allocation that fails in the middle | `Vm` |
| arguments and stacks (`syscall.c`, `exec.c`, `vm.c`) | sums that wrap around | `Args` |
| console (`console.c`, `kbd.c`) | ring limits, interrupt against reader, key state | `Console`, `LineBuffer`, `Screen` |
| network (`pci.c`, `nic.c`, `e1000.c`, `sysarp.c`) | no locking, busy waiting, stale descriptors | `Network` |
| ARP frames (`arpfrm.c`, `arp.c`) | byte order, parsing | `Arpfrm`, `MCArp` |
| user allocator (`umalloc.c`) | joining neighbours | `Umalloc` |
| strings and printf (`string.c`, `ulib.c`, `fs.c`, `printf.c`, `console.c`) | overlaps, missing zeros, the smallest int | `Strings`, `Printf` |
| shell (`sh.c`) | pipe ends left open | `Shell` |
| grep and wc (`grep.c`, `wc.c`) | lines and words cut by the buffer | `TextTools` |
| mkfs (`mkfs.c`) | rounding, indirect blocks | `Mkfs`, `FsParams` |

Every system call that sleeps uses `sleep` and `wakeup`; file system calls are
bracketed by `begin_op` and `end_op`; sleep-locks protect buffers and inodes;
`kill` only sets a flag that the sleeping loops and `trap` test. The modules meet
at these interfaces: `SleepLock` shows that "release the lock and sleep" may be
taken as one step, which `Log`, `Proc`, `Pipe`, `Console` and `Disk` do;
`Spinlock` that a section under a spinlock is not interrupted by a handler that
needs the lock, so that the others take it as one step; `Log` that a transaction
is atomic, which `FileSys` and `FileData` rely on; `Disk` that `bread` and
`bwrite` do what `Log` takes them to do.

## Modules

`AtomicDisk`, `ByteStream` and `LineBuffer` are abstract: what the log, a pipe
and the console's input promise. The modules named `...Proofs` hold the theorems:
`LogProofs`, `LogRefinementProofs` and `LogSpaceProofs` those of the log,
`ProcProofs`, `SleepLockProofs`, `PipeProofs` and `ConsoleProofs` those of the
component they are named after, and `RingProofs` the lemmas on ring buffers that
the last two share. `Processes` declares the set of processes for `Pipe` and
`Console`. The modules `MC...` are for TLC. Definitions named `X_Variant` (with the comment "Variant:") are
deliberately wrong forms of `X`; they show that each property can fail.

### Log

`home`, `logblk` and `head` are the disk, the rest is memory. A block's content
is one value. Each disk write of `write_log`, `write_head` and `install_trans`
is a step, `tail` is their loop variable, and `Crash` may come between any two,
also while `read_head`, `install_trans` and `EraseLog` perform a recovery.
`begin_op` and `end_op` are one step each for every section under `log.lock`.
A call changes a buffer (`Modify`) and then gives it to `log_write`
(`LogWrite`); readers load and drop clean buffers at any time. `log_write` tests
the free space before it takes `log.lock`: `NoPanic` requires the test to
succeed in every state in which some call is about to make it, so the order of
test and lock does not matter where `NoPanic` holds. `wrote` counts the blocks
of a call against `OpBlocks`, the number calls really write. The log that mkfs
lays out has LOGSIZE blocks with the header (`mkfs.c:25`), so that `log_write`
accepts one block fewer than `begin_op` hands out; calls that wrote all of their
MAXOPBLOCKS blocks could panic, and no call of this repository does.

The refinement mapping takes `durable` to what recovery would rebuild from the
current disk, `current` to what `bread` returns, and `active` to `outstanding`.

### Disk

Sections under `bcache.lock` and `idelock` are steps. `lru` is the list of
`bcache.head`, most recently used first; `bget` looks for the block from the
front and for a buffer to recycle from the back, and waits for the buffer's
sleep-lock afterwards. A process then modifies the data and calls `bwrite` or
`log_write`, or writes a pinned block home (`install`), and releases in the two
steps of `brelse`: first the sleep-lock, then the reference. `device` is the
controller's command with the data it was given; `Execute` and `Fail` are the
hardware. `memrw` is `iderw` of the memory disk; `driver` says which is linked.
`current` is the content last given to a block, for `ReadLatest`. A buffer that
fails to be read is marked valid by `ideintr`; the properties exclude such blocks.

### FileSys

Two processes make system calls in any order out of the sets of `MCCalls`. A
step is the code between two points where a sleep-lock is taken or released
while others may see the difference: `namex` is a step per path element, `iput`
is four (the test under the lock, `itrunc` with `iupdate`, `valid = 0`, and the
decrement), `unlink`, `link`, `create`, `open` are a few each. `open` and `pipe`
take each file in a step of its own and give it back when a file, a page or a
descriptor is missing later. `th[p]` is the stack of a call: where it is, the
references and the files it owns, the rest of its path. The inode cache and
the file table have the sizes that `Programs` gives them: with two entries the cache fills up and `iget` panics, as it can in
the code, where there may be more open files than entries (`param.h:5-6`); with
three it holds all inodes. `NamespaceExact` therefore does not exclude that panic.
A transaction is atomic by `Log`, so nothing is said of crashes. Names are model
strings; contents are in `FileData`.

Three ghosts name the situations for which the code gives no guarantee:
`astray`, an entry was made in a directory that has been removed; `orphan`, the
".." of a removed directory was followed, whose parent may be gone; `overlap`,
two `iput`s of an unlinked inode met (the finding of `fs_leak`).

`NoLockCycle` leaves out the two places where a process waits for a lock against
the order of the tree: `iput` of the directory in `unlink` and `create` (the
finding of `fs_deadlock`), and `iput` in `dirlink` for a link to the name "." or
"..", where the process waits for itself or for the parent. The program `Dots` of
`MCCalls` makes such links.

### FileData

A disk of a few blocks of two cells each. A step is one transaction on a locked
inode: an iteration of `filewrite`, a `fileread`, a truncation. `file` is the
reference: the bytes the inode should hold. `fdpanic` is the panic of `balloc`.

### Proc

Slots are `1..NPROC` and slot 1 is init. Code under `ptable.lock` is one step.
A process resumed in `wait` still holds the lock that the scheduler took
(`locked`). `fork` writes its EMBRYO without the lock, in steps of its own.
`SleepCall`, `SleepMore`, `SleepDone` and `sleep` are the loop of `sys_sleep`,
with the deadline abstracted to a choice; the lock `tickslock` is held exactly
in `tosleep`. A process is not preempted while it spins for `tickslock`, because
`acquire` has turned interrupts off (`spinlock.c:27`). Memory is abstracted to "an allocation may fail" (`Vm` has it).
`exit` closes the files of the process before it takes `ptable.lock`; here only
its part under the lock appears. init neither exits nor is killed: `exit` panics
then, and nothing in `kill` prevents it.

### Spinlock

Threads are the processes in the kernel and the scheduler of each CPU. `code`
is the list of operations a thread has still to do (read the flags, `cli`,
`xchg`, release, switch); an interrupt pushes the handler's operations in front
whenever the CPU's flag allows. Two locks are modelled: ptable.lock, which
passes through `swtch`, and the lock of a device that its handler takes as well.

### SleepLock

The places of `pc` lie between consecutive operations on `lk->lk` and
`ptable.lock`.

### Pipe

Everything under `p->lock` is one step, except that the test of `killed` and
the sleep are two (`wsleep`, `rsleep`), because `kill` does not take `p->lock`.
`pipewrite` copies as many bytes as fit, which is what its loop does before it
can sleep or return. `fds` are the open ends of the processes; closing the last
descriptor of an end goes through `closew` or `closer` to `pipeclose`. The page
is free when both ends are closed. Calls ask for at least one byte.

### Vm

Frames are numbered; `data` is what is in each, one value per page. The
allocator's functions work on a record `m` of free list, contents, the table
under construction and `ok`, which turns FALSE where the code returns an error.
`fork`, `growproc`, `exec`, `exit` and `wait` are one step each: calls of two
processes meet only in `kalloc` and `kfree`, and since the number of pages is
chosen from `Memories`, a call is made to fail at each of its allocations.
`view` is the reference: what each process should see in each page and whether
it may touch it. `leaked` are the pages that `copyuvm` loses.

### Console

`buf`, `r`, `w`, `e` are the input ring with counters modulo `ConsWrap`.
`consoleintr` is one step per key. A reader sleeps in `asleep` and holds
`cons.lock` from its return to the end of the copy; a `^D` behind other
characters is put back (`SaveEof`). Writers put one character per step.

### Network

`pciinit` scans the machine chosen from `Buses` in one step, as it does at boot
with nobody else running. `sende1000` goes in the steps in which it reads or
writes memory that the card or another CPU sees, and each reads `tbdtail` again,
because nothing locks it. The card transmits the descriptors between head and
tail; its ring ends where TDLEN says. TDLEN counts bytes, 16 for a descriptor, and
the driver writes 128 times that (`e1000.c:386`), so that after the driver's last
slot the card goes on into memory that is not the ring (`Overrun`). What it finds
there is not known: it sends something of it (`Foreign`) or nothing, and perhaps
never comes back, so `Overrun` is not fair. `SentInOrder` is about the frames of the
driver and `SendReturns` about calls during which the card is in the ring;
`WithinRing` is the finding. The status that the card writes to the memory behind
the ring is not modelled. `inite1000` panics where a base address has the wrong
size or there is no port; the scan stops at the first card for which it does.

### Pure algorithms

`Strings`, `Printf`, `TextTools`, `Shell`, `Screen`, `Mkfs`, `Args` and `Arpfrm`
define the functions of the source on sequences; `MCSystem` checks each against
a reference definition over all inputs up to a length. Digits are printed from
the table of each `printint`, one in upper and one in lower case. `grep` is given
the lengths of its reads: a short read that leaves no newline in the buffer makes
it drop the part of the line it has, so `FiltersCorrect` is stated for reads that
do not. `uva2ka` dereferences a null pointer where there is no page table; `Args`
calls that "stray" and leaves the outcome open. `Umalloc` is a state
machine on headers with addresses counted in units; the program may also call
`sbrk` itself, so that the heap has gaps.

## Runs

`MCKernel`, `MCSystem`, `MCProgress` and `MCAnswers` check several machines in one
run: the variable `part` (`case` in `MCSystem`, where it may also name a function
and its arguments) is chosen in the initial state and never changes, only
the machine it names takes steps, and the variables of the others keep their
initial values. The states of the parts are disjoint, so a part behaves as if
alone. Machines that have theorems are EXTENDed, so that a run checks the very
definitions the theorems prove: `MCKernel` extends `Proc`, `Pipe` and `Console`,
`MCProgress` extends `SleepLock`, `MCAnswers` extends `Pipe` (the definitions of
`Pipe` and `Console` carry a `P` or `C` where the names would meet). The other
machines are INSTANCEs whose variables are given their own names or shared cells
(`x1`, `x2`, ...), and their properties read `part = "..." => M!Property`.
`MCMachines` has the machines on which the network is checked in two runs.

| Run | Parts and bounds | Checks |
|---|---|---|
| `log_crash` | 2 processes, 5 blocks, 2 values, log of 4 blocks and the header, calls that reserve 2 blocks and write 1 | `LogInv`, `QuiescentDurable`, `NoPanic`, `NoLostWakeup`, `Refinement` |
| `kernel_safety` | Process table: 4 slots, 2 CPUs, 4 pids. Pipe: 2 processes, 2 byte values, ring of 2, counters modulo 4, calls of 2 bytes. Console: 2 processes, ring of 3, counters modulo 6. Spinlock: 2 CPUs, 2 processes. Network: several machines, ring of 2, 4 frames | `SlotsConsistent`, `FamilyConsistent`, `ReapedByParent`; `PipeSound`, `NoLostWakeup`, `StreamOrder`; `ConsoleShared`, `LineDiscipline`; `InterruptsSound`; `ScanFindsCard`, `SentInOrder` |
| `system_system` | File system: 2 processes, 3 inodes, 2 or 3 cache entries, 2 or 3 files, 2 descriptors each, two names. Disk: 3 buffers, 4 blocks, one pinned, one faulty. Contents: 2 inodes, 4 blocks of 2, files of 3 blocks. Memory: 9 to 17 pages, 2 processes, 7 calls. malloc: heap of 9 units. Pure functions: all inputs up to a length of 4 to 5 | `ReferencesExact`, `NamespaceExact`, `NoLockCycle`; `DiskSound`; `FileContents`, `BlocksExact`; `PagesConserved`, `MemoryExact`; `HeapSound`; `LibraryCorrect`, `FiltersCorrect`, `ShellCorrect`, `ImageConsistent`, `UserMemoryChecked`, `TerminalCorrect` |
| `progress_live` | log: 3 processes, log of 4; process table: 3 slots, 2 CPUs; sleep-lock: 3 processes | `LogProgress`, `KilledExits`, `OrphansReaped`; `MutualExclusion`, `NoMissedWakeup`, `WaitersServed` |
| `answers_live` | pipe: ring of 1, calls of 2 bytes; disk: 2 buffers; network: one card, ring of 2, 3 frames | `ClosersRelease`, `RequestsAnswered`, `SendReturns` |
| `net_ring` | as in `answers_live` | `WithinRing` violated |
| `proc_stalekill` | 3 slots, 1 CPU | `BornAlive` violated |
| `pipe_killrace`, `pipe_killedwriter` | 2 and 3 processes | `KilledLeaves`, `ReadersWaitOnEmpty` violated |
| `fs_leak`, `fs_deadlock` | as in `system_system`, and the calls of `linkunlink` | `FreedWithLastRef`, `NoDeadlock` violated |
| `arp_target` | addresses of up to three digits per octet | `RequestNamesTarget` violated |

Some of these properties are conjunctions of several named ones that belong to
one component: `SlotsConsistent` of `OneCPU`, `PidsDiffer` and `EmbryoOwned`,
`NamespaceExact` of `LinksExact`, `NoDanglingNoLeak` and `NoFsPanic`,
`LibraryCorrect` of one property per function, and so on. The conjuncts are
defined and explained just above the conjunction, in the component's module or,
for pure functions, in `MCSystem`.

Why the bounds are enough. Two processes suffice for group commit, and the third
in `progress_live` is the one that must wait. Five blocks are more than the four
that the log takes, so that only the reservation keeps it from overflowing, and
let a transaction be cut by a crash before, between and after its installs. Two
CPUs let a kill land between the test of `killed` and the sleep. Four slots allow a
grandparent, a parent and a child besides init, which is what passing on a
zombie needs. A ring of two with counters modulo four wraps after two writes and
separates full from empty, and a call larger than the free space sleeps in its
middle. Three inodes are a directory, a file or directory in it, and the root;
two cache entries, two files and two descriptors run out. Three buffers for four blocks
force recycling while one is pinned. Files of one direct and two indirect blocks
cross into the indirect block, meet the largest size and exhaust the disk. With
9 to 17 pages every allocation of fork, exec and sbrk fails in some behaviour.
The heap of nine units holds three or four blocks, so that a block can be freed
between two free or used neighbours. Pure functions are checked where their
loops turn: at lengths below, at and above the sizes of the buffers.

Processes and blocks are interchangeable in `log_crash`, processes and CPUs in
`kernel_safety`; no symmetry is used for
liveness. Deadlock is checked in `log_crash`, in `proc_stalekill` and in
`progress_live`; elsewhere the system may stop: all ends of a pipe closed, all calls made, all bounds used.

Bounds that are not in the code: `MaxPid` (pids are never reused in the code
either), `MaxN` and `ConsN` (bytes per call), `OpBlocks`, `MaxCalls`,
`MaxSends`, `MaxPinned`, and the sets of calls, lengths, images and machines.

### Fairness

A disk write completes and a process in the kernel goes on (weak, or strong
where it needs a lock that others take in between). The scheduler scans the
whole table, hence strong fairness of `Schedule` for each process. The timer
ticks. User code may run for ever, except that init keeps calling `wait`
(`init.c`) and that a killed process is stopped at its next trap. A file system
call ends. A sleep-lock's critical section ends. Sleep-locks are not
starvation-free, so `WaitersServed` promises only that someone gets the lock.
The disk controller and the network card finish what they have begun and raise
their interrupt; a process whose request is done is scheduled again.

### Findings

The violated properties are disagreements between the code and its comments,
tests or messages, described in `PROJECT.json`: the card is told of a ring 128
times as long as the driver's; `kill` marks free slots, so that a process may be born killed; a kill
just before a pipe reader sleeps does not wake it; a killed pipe writer does not
wake the readers of the pipe it has filled; two last references to an unlinked
file that are put at once leak it; `create` takes the directory's lock again
while it holds the new file's, and an unlink of the file that has the directory
waits for it: both wait for ever; the parser of IP addresses
reads every octet from the start of the text.

Some properties hold up to a known exception, which their comments name: the
page that `copyuvm` drops, the root directory that `mkfs` rounds up once too
often, `memmove` of the user library when it copies upwards, directories that
are used after they were removed, links to "." and "..", short reads that cut the
first line in `grep`'s buffer, arguments of `exec` longer than the process, and
network sends that overlap or find the card outside the ring.

## Theorems

For every value of the constants allowed by `LogConstants`:

* `LogInvariant`: `TypeOK /\ LogInv` is inductive. `LogInv` says, phase by phase
  of commit and recovery, which of header, log blocks, home blocks and buffers
  agree (`PhaseInv`), that no call is active meanwhile (`ModeInv`), that a buffer
  that differs from the disk is held or dirty (`BufInv`), that `outstanding`
  counts the calls (`CountInv`), and that the header has no duplicates. Without
  the last, recovery could take a block from the wrong slot.
* `LogRefinement`: from it, every step of `Log` is a step of `AtomicDisk` or a
  stutter. `write_head` is the one step that maps to `Commit`.
* `QuiescentDurability`, `NoWakeupLost`: durability when idle, and no sleeper in
  `begin_op` without reason or rescuer.
* `LogNeverPanics`, under `RoomyLog` (calls write two blocks fewer than
  MAXOPBLOCKS, and the log area has LOGSIZE blocks): the blocks logged plus the
  slots still reserved never exceed LOGSIZE. The slack covers the header block
  and the test that `log_write` makes before it looks for absorption.

For every set of processes: `LockInvariant` (`LockInv` is inductive: the holder
of each spinlock is determined by where processes are, and a process that has
seen `locked` can rely on it until it has `ptable.lock`), and from it
`SleepLockExcludes` and `SleepMissesNoWakeup`.

For every number of slots and every set of CPUs (`ProcConstants`), in
`ProcProofs`:

* `ProcInvariant`: `ProcInv` is inductive. Besides the parts of the properties it
  says that init lives and is nobody's child, that every pid handed out is below
  `nextpid`, that a process between `allocproc` and the end of `fork` is alive and
  alone owns an EMBRYO, which has no parent yet or has that process (`ForkInv`),
  and that nobody is its own parent (`ParentInv`). Without the bound
  on pids a new one might repeat an old one, without `ForkInv` the slot that
  `fork` makes RUNNABLE might be in use, and without the last `exit` might
  change the parent of the very process that exits.
* `SlotsStayConsistent`, `FamilyStaysConsistent` and the action property
  `ZombiesReapedByParent` follow from it. That a scan finds a first free slot
  is the well-foundedness of the natural numbers (`FirstIn`).

For every set of processes and bytes, every size of the buffer and every greater
multiple of it at which the counters wrap (`ProcessConstants`, `PipeConstants`;
in the code 512 and 2^32), in `PipeProofs`:

* `PipeInvariant`: `PipeInv` is inductive. It says that nwrite is at most
  PIPESIZE ahead of nread (`RingInv`), that the lock is held exactly between the
  test of `killed` and the sleep (`LockInv`), that a process in a call has the
  end open (`CallInv`, `OpenInv`), and that nobody sleeps who could go on as
  long as nobody is killed, the process about to sleep included (`WakeInv`).
* `PipeStaysSound` and `PipeLosesNoWakeup` follow from it.
* `PipeIsByteStream`: `pipewrite` maps to `Put` or, when nothing fits, to a
  stutter; the copy of `piperead` to `Get`; the last writer's close to `End`.
  The arithmetic is in `RingProofs`: a cell k places after nread is k - d places
  after nwrite when nwrite is d ahead, whatever has wrapped, because the wrap is
  a multiple of the size (`CellFrom`, `ModInside`).

For every set of processes, every size of the input ring and every greater
multiple of it at which the indices wrap (`ProcessConstants`,
`ConsoleConstants`; in the code 128 and 2^32), in `ConsoleProofs`:

* `ConsoleInvariant`: `ConsInv` is inductive. It says that r, w and e stand in
  this order within INPUT_BUF of each other and a full ring has been handed over
  (`IndexInv`), that one process at a time is inside `cons.lock`
  (`ConsLockInv`), that a reader sleeps, or is about to, on an empty ring
  (`ReaderInv`), and that the line being typed has no newline (`EditInv`), so
  that `^U` erases exactly that line.
* `ConsoleStaysShared` follows from it.
* `ConsoleIsLineBuffer`: each key maps to `Type`, `Erase`, `KillLine` or a
  stutter, a turn of `consoleread` to `Take`, `EndOfFile`, `Return` or a stutter.

Each inductive invariant was checked with TLC before it was proved: `ProcInv` with
four slots and two CPUs, `PipeInv` and `ConsInv` with three processes.

Only model-checked: all liveness properties (the prover does not handle fairness
and ENABLED); the pure functions (what a recursive definition computes needs
induction over data); and the safety of `Spinlock`, `Network`, `Disk`, `FileSys`,
`FileData`, `Vm` and `Umalloc`, for which no inductive invariant has been written.

## Not modelled

* Boot code, assembly, interrupt controllers, `mp.c`, `uart.c`, and the register
  set-up of `ide.c` and `e1000.c`: sequential device I/O whose effect is known
  only to the hardware.
* The tables of `kbd.h`; the model has one letter key and the modifiers.
* `parseip`, `parsereply` and the receiving half of the network, which are never
  called or are empty in the source; the padding of the frame's structure.
* The on-disk byte order that mkfs converts to, and reading its input files.
* A crash while an unlinked file is open: the code has no recovery for it.
* `sleep` with a negative argument: the deadline is abstracted to a choice.
* The remaining user programs, which are clients of the kernel.
