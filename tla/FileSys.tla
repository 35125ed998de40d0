------------------------------ MODULE FileSys ------------------------------
(***************************************************************************)
(* Inodes, directories, path names and the system calls on them (fs.c,     *)
(* sysfile.c, file.c, and what fork and exit of proc.c do with files).     *)
(*                                                                         *)
(* A step goes from one lock to the next: what a process does while it     *)
(* holds the sleep lock of one inode only, and releases in the same step,  *)
(* nobody else can see in parts.  Where it holds a lock across steps, the   *)
(* lock is in `owner`.  The calls run inside transactions, which Log       *)
(* models; the contents of files are in FileData, pipes in Pipe.           *)
(*                                                                         *)
(* A process keeps each reference to an inode that it holds in one of its  *)
(* registers: w (the inode namex has reached), ip, dp, x (passed to iput), *)
(* and each reference to an open file without a descriptor in f or g.      *)
(***************************************************************************)
EXTENDS Naturals, Integers, Sequences, SequencesExt, FiniteSets, FiniteSetsExt

CONSTANTS Procs, NoProc,
          initproc,     \* the process that never exits
          INUMS,        \* inodes 1 .. INUMS of the disk, 1 is the root
          NOFILE,       \* descriptors of a process
          Names,        \* names of directory entries, "." and ".." aside
          Programs      \* bound: the choices for the system calls that each process makes,
                        \* with the sizes of the inode cache and of the file table

VARIABLES dinode,       \* type and nlink of each inode on disk
          ents,         \* ents[d][n]: the inode number of entry n of directory d, or 0
          dotdot,       \* the entry ".." of each directory
          icache,       \* inum, ref, valid, type, nlink of each cache entry
          owner,        \* the process that holds ip->lock
          ftable,       \* ref, type, ip of each open file
          ofile, cwd,   \* of each process; 0 if none
          calls,        \* calls[p]: the system calls that p makes
          th,           \* where each process is, and its registers
          panic,
          astray,       \* ghost: an entry was made in a directory already removed
          overlap,      \* ghost: two iputs of an unlinked inode have overlapped
          orphan        \* ghost: ".." was looked up in a directory already removed
fsvars == <<dinode, ents, dotdot, icache, owner, ftable, ofile, cwd, calls, th, panic, astray, overlap,
            orphan>>

Inums == 1 .. INUMS
Slots == DOMAIN icache
Files == DOMAIN ftable
NoEnts == [n \in Names |-> 0]
NoInode == [inum |-> 0, ref |-> 0, valid |-> FALSE, type |-> "none", nlink |-> 0]
NoFile == [ref |-> 0, type |-> "none", ip |-> 0]
NoCall == [op |-> "none"]
Idle == [pc |-> "idle", k |-> "", w |-> 0, ip |-> 0, dp |-> 0, x |-> 0, f |-> 0, g |-> 0,
         path |-> <<>>, par |-> FALSE, name |-> "", call |-> NoCall]

\* mkfs has made the root directory; each process has it as its current one.
FInit ==
    /\ dinode = [i \in Inums |-> IF i = 1 THEN [type |-> "dir", nlink |-> 1]
                                 ELSE [type |-> "free", nlink |-> 0]]
    /\ ents = [i \in Inums |-> NoEnts] /\ dotdot = [i \in Inums |-> IF i = 1 THEN 1 ELSE 0]
    /\ \E g \in Programs :
         /\ calls = g.calls /\ ftable = [f \in 1 .. g.nfile |-> NoFile]
         /\ icache = [s \in 1 .. g.ninode |->
                        IF s = 1 THEN [NoInode EXCEPT !.inum = 1, !.ref = Cardinality(Procs)] ELSE NoInode]
    /\ owner = [s \in Slots |-> NoProc]
    /\ ofile = [p \in Procs |-> [d \in 1 .. NOFILE |-> 0]]
    /\ cwd = [p \in Procs |-> 1] /\ th = [p \in Procs |-> Idle]
    /\ panic = "" /\ astray = FALSE /\ overlap = FALSE /\ orphan = FALSE

-----------------------------------------------------------------------------
(* Frames *)
Is(p, l) == th[p].pc = l
Goto(p, l) == th' = [th EXCEPT ![p].pc = l]
Set(p, f) == th' = [th EXCEPT ![p] = f]
disks == <<dinode, ents, dotdot, astray, overlap, orphan>>
files == <<ftable, ofile, cwd>>
Panics(msg) == panic' = msg /\ UNCHANGED <<disks, icache, owner, files, th>>

\* t with reference s passed to iput, and l to follow.
Put(t, s, l) == [(IF l = "idle" THEN Idle ELSE t) EXCEPT !.pc = "iput", !.x = s, !.k = l]

-----------------------------------------------------------------------------
(* The inode cache *)

CachedAt(c, inum) == {s \in Slots : c[s].ref > 0 /\ c[s].inum = inum}

Empties == {s \in Slots : icache[s].ref = 0}

\* The slot that iget returns for inum, 0 if the cache is full, and the cache.
SlotFor(inum) ==
    IF CachedAt(icache, inum) # {} THEN CHOOSE s \in CachedAt(icache, inum) : TRUE
    ELSE IF Empties = {} THEN 0 ELSE Min(Empties)

iget(c, inum) ==
    LET s == SlotFor(inum)
    IN  IF CachedAt(icache, inum) # {} THEN [c EXCEPT ![s].ref = @ + 1]
        ELSE [c EXCEPT ![s] = [inum |-> inum, ref |-> 1, valid |-> FALSE, type |-> "none", nlink |-> 0]]

\* acquiresleep of ip->lock does not wait.
Unlocked(s) == owner[s] = NoProc

\* The entry after ilock, which reads it from disk if it is not valid.
Loaded(s) ==
    LET c == icache[s]
        d == dinode[c.inum]
    IN  IF c.valid THEN c ELSE [c EXCEPT !.valid = TRUE, !.type = d.type, !.nlink = d.nlink]
Load(s) == [icache EXCEPT ![s] = Loaded(s)]
NoType(s) == ~icache[s].valid /\ dinode[icache[s].inum].type = "free"

\* What follows ilock, and what follows iget.
Locked(s, A) == Unlocked(s) /\ IF NoType(s) THEN Panics("ilock: no type") ELSE A
Got(i, A) == IF SlotFor(i) = 0 THEN Panics("iget: no inodes") ELSE A

\* The inode number of a name in the directory d, "." and ".." included.
dirlookup(d, n) ==
    CASE n = "." -> d
      [] n = ".." -> dotdot[d]
      [] OTHER -> ents[d][n]

LastRef(s) == icache[s].valid /\ icache[s].nlink = 0 /\ icache[s].ref = 1

\* iput up to the test of the reference count; the lock is kept if the inode goes.
iput(p) ==
    LET s == th[p].x IN
    /\ Is(p, "iput") /\ Unlocked(s)
    /\ IF LastRef(s) THEN owner' = [owner EXCEPT ![s] = p] /\ Goto(p, "itrunc")
       ELSE Goto(p, "unref") /\ UNCHANGED owner
    /\ overlap' = (overlap \/ (icache[s].valid /\ icache[s].nlink = 0
                               /\ \E q \in Procs \ {p} : Is(q, "unref") /\ th[q].x = s))
    /\ UNCHANGED <<dinode, ents, dotdot, astray, orphan, icache, files, panic>>

\* itrunc, ip->type = 0, iupdate: from here on ialloc can take the inode.
itrunc(p) ==
    LET i == icache[th[p].x].inum IN
    /\ Is(p, "itrunc")
    /\ dinode' = [dinode EXCEPT ![i] = [type |-> "free", nlink |-> 0]]
    /\ ents' = [ents EXCEPT ![i] = NoEnts] /\ dotdot' = [dotdot EXCEPT ![i] = 0]
    /\ icache' = [icache EXCEPT ![th[p].x].type = "free"]
    /\ Goto(p, "invalidate")
    /\ UNCHANGED <<astray, overlap, orphan, owner, files, panic>>

Invalid(s) == [icache EXCEPT ![s].valid = FALSE, ![s].type = "none"]

invalidate(p) ==
    LET s == th[p].x IN
    /\ Is(p, "invalidate")
    /\ icache' = Invalid(s)
    /\ owner' = [owner EXCEPT ![s] = NoProc] /\ Goto(p, "unref")
    /\ UNCHANGED <<disks, files, panic>>

\* ip->ref--.  What an unused entry holds besides is of no account.
unref(p) ==
    LET s == th[p].x IN
    /\ Is(p, "unref")
    /\ icache' = [icache EXCEPT ![s] = IF @.ref = 1 THEN NoInode ELSE [@ EXCEPT !.ref = @ - 1]]
    /\ Set(p, IF th[p].k = "idle" THEN Idle
              ELSE IF th[p].k = "dead" THEN [Idle EXCEPT !.pc = "dead"]
              ELSE [th[p] EXCEPT !.pc = th[p].k, !.k = "", !.x = 0])
    /\ UNCHANGED <<disks, owner, files, panic>>

-----------------------------------------------------------------------------
(* namex *)

\* th[p] at the start of namex; the reference comes from iget or idup.
Start(p, t, path, par) ==
    LET At(s, c) == /\ icache' = c
                    /\ Set(p, [t EXCEPT !.pc = "namex", !.w = s, !.path = path.names, !.par = par])
                    /\ UNCHANGED <<disks, owner, files, panic>>
    IN  IF path.abs THEN Got(1, At(SlotFor(1), iget(icache, 1)))
        ELSE At(cwd[p], [icache EXCEPT ![cwd[p]].ref = @ + 1])

\* Where a call goes on when its path has been found, and when it has not.
Found(t) ==
    CASE t.call.op = "link" -> (IF t.ip = 0 THEN "link1" ELSE "link2")
      [] t.call.op = "unlink" -> "unlink1"
      [] t.call.op = "open" /\ ~t.call.create -> "open1"
      [] t.call.op = "chdir" -> "chdir1"
      [] OTHER -> "create1"
NotFound(t) == IF t.call.op = "link" /\ t.ip # 0 THEN "linkbad" ELSE "idle"

\* The reference at which namex has arrived is dropped: the call fails.
Drop(p) == Put([th[p] EXCEPT !.w = 0], th[p].w, NotFound(th[p]))

\* The end of the path.
namexEnd(p) ==
    LET t == th[p] IN
    /\ Is(p, "namex") /\ t.path = <<>>
    /\ Set(p, IF t.par THEN Drop(p) ELSE [t EXCEPT !.pc = Found(t)])
    /\ UNCHANGED <<disks, icache, owner, files, panic>>

\* One element of the path.
namex(p) ==
    LET t == th[p]
        s == t.w
        last == t.par /\ Len(t.path) = 1
        i == dirlookup(icache[s].inum, t.path[1])
        Same == icache' = Load(s) /\ UNCHANGED <<disks, owner, files, panic>> IN
    /\ Is(p, "namex") /\ t.path # <<>>
    /\ Locked(s,
        \/ /\ Loaded(s).type # "dir" \/ (~last /\ i = 0)
           /\ Set(p, Drop(p)) /\ Same
        \/ /\ Loaded(s).type = "dir" /\ last
           /\ Set(p, [t EXCEPT !.pc = Found(t), !.name = t.path[1], !.path = <<>>]) /\ Same
        \/ /\ Loaded(s).type = "dir" /\ ~last /\ i # 0
           /\ Got(i, /\ Set(p, Put([t EXCEPT !.w = SlotFor(i), !.path = Tail(t.path)], s, "namex"))
                     /\ icache' = iget(Load(s), i)
                     /\ orphan' = (orphan \/ (t.path[1] = ".." /\ Loaded(s).nlink = 0))
                     /\ UNCHANGED <<dinode, ents, dotdot, astray, overlap, owner, files, panic>>))

-----------------------------------------------------------------------------
(* link *)

\* nlink changes by n, in the cache and, by iupdate, on disk.
Links(c, s, n) == [c EXCEPT ![s].nlink = @ + n]
Dlinks(s, n) == [dinode EXCEPT ![icache[s].inum].nlink = @ + n]

\* Variant: the lock of the inode is kept while the new path is looked up.
LinkOwner_Kept(p, s) == [owner EXCEPT ![s] = p]

\* link gives the lock back before it looks up the new path.
LinkOwner(p, s) == owner

link1(p) ==
    LET t == th[p]
        s == t.w IN
    /\ Is(p, "link1")
    /\ Locked(s,
        /\ \/ /\ Loaded(s).type = "dir"
              /\ Set(p, Drop(p)) /\ icache' = Load(s) /\ UNCHANGED <<dinode, owner>>
           \/ /\ Loaded(s).type # "dir"
              /\ owner' = LinkOwner(p, s)
              /\ icache' = Links(Load(s), s, 1) /\ dinode' = Dlinks(s, 1)
              /\ Set(p, [t EXCEPT !.pc = "linknew", !.ip = s, !.w = 0])
        /\ UNCHANGED <<ents, dotdot, astray, overlap, orphan, files, panic>>)

linknew(p) == Is(p, "linknew") /\ Start(p, th[p], th[p].call.new, TRUE)

\* dirlink: a name that exists is looked up and put again under the lock of dp.
link2(p) ==
    LET t == th[p]
        s == t.w
        d == icache[s].inum
        i == dirlookup(d, t.name) IN
    /\ Is(p, "link2")
    /\ Locked(s,
        \/ /\ i # 0
           /\ Got(i, /\ icache' = iget(Load(s), i) /\ owner' = [owner EXCEPT ![s] = p]
                     /\ Set(p, Put([t EXCEPT !.w = 0, !.dp = s], SlotFor(i), "link2bad"))
                     /\ UNCHANGED <<disks, files, panic>>)
        \/ /\ i = 0
           /\ ents' = [ents EXCEPT ![d][t.name] = icache[t.ip].inum]
           /\ astray' = (astray \/ Loaded(s).nlink = 0)
           /\ icache' = Load(s) /\ Set(p, Put([t EXCEPT !.w = 0], s, "putip"))
           /\ UNCHANGED <<dinode, dotdot, overlap, orphan, owner, files, panic>>)

Unlinked(s) == dinode' = Dlinks(s, -1) /\ icache' = Links(Load(s), s, -1)

linkbad(p) ==
    LET s == th[p].ip IN
    /\ Is(p, "linkbad")
    /\ Locked(s, /\ Unlinked(s) /\ Set(p, Put([th[p] EXCEPT !.ip = 0], s, "idle"))
                 /\ UNCHANGED <<ents, dotdot, astray, overlap, orphan, owner, files, panic>>)

-----------------------------------------------------------------------------
(* unlink *)

IsDots(n) == n \in {".", ".."}

unlink1(p) ==
    LET t == th[p]
        s == t.w
        i == dirlookup(icache[s].inum, t.name)
        bad == IsDots(t.name) \/ i = 0 IN
    /\ Is(p, "unlink1")
    /\ Locked(s,
        \/ /\ bad /\ Set(p, Drop(p)) /\ icache' = Load(s)
           /\ UNCHANGED <<disks, owner, files, panic>>
        \/ /\ ~bad
           /\ Got(i, /\ icache' = iget(Load(s), i) /\ owner' = [owner EXCEPT ![s] = p]
                     /\ Set(p, [t EXCEPT !.pc = "unlink2", !.w = 0, !.dp = s, !.ip = SlotFor(i)])
                     /\ UNCHANGED <<disks, files, panic>>))

isdirempty(d) == ents[d] = NoEnts

\* The entry goes, and with a directory the count that its ".." stood for.
RemoveEntry(p, s) ==
    LET t == th[p]
        isdir == Loaded(s).type = "dir" IN
    /\ ents' = [ents EXCEPT ![icache[t.dp].inum][t.name] = 0]
    /\ icache' = IF isdir THEN Links(Load(s), t.dp, -1) ELSE Load(s)
    /\ dinode' = IF isdir THEN Dlinks(t.dp, -1) ELSE dinode
    /\ owner' = [owner EXCEPT ![t.dp] = NoProc, ![s] = p]
    /\ Set(p, Put([t EXCEPT !.dp = 0], t.dp, "unlink3"))
    /\ UNCHANGED <<dotdot, astray, overlap, orphan, files, panic>>

unlink2(p) ==
    LET s == th[p].ip
        full == Loaded(s).type = "dir" /\ ~isdirempty(icache[s].inum) IN
    /\ Is(p, "unlink2")
    /\ Locked(s, IF Loaded(s).nlink < 1 THEN Panics("unlink: nlink < 1")
                 ELSE \/ /\ full
                         /\ icache' = Load(s) /\ Set(p, Put([th[p] EXCEPT !.ip = 0], s, "putdp"))
                         /\ UNCHANGED <<disks, owner, files, panic>>
                      \/ ~full /\ RemoveEntry(p, s))

unlink3(p) ==
    LET s == th[p].ip IN
    /\ Is(p, "unlink3")
    /\ Unlinked(s) /\ owner' = [owner EXCEPT ![s] = NoProc]
    /\ Set(p, Put([th[p] EXCEPT !.ip = 0], s, "idle"))
    /\ UNCHANGED <<ents, dotdot, astray, overlap, orphan, files, panic>>

\* iunlockput(dp) and iunlockput(ip) at the end of a call, or iput(ip).
putdp(p) ==
    /\ th[p].pc \in {"putdp", "link2bad"}
    /\ owner' = [owner EXCEPT ![th[p].dp] = NoProc]
    /\ Set(p, Put([th[p] EXCEPT !.dp = 0], th[p].dp, NotFound(th[p])))
    /\ UNCHANGED <<disks, icache, files, panic>>

putip(p) ==
    LET s == th[p].ip IN
    /\ Is(p, "putip")
    /\ owner' = IF owner[s] = p THEN [owner EXCEPT ![s] = NoProc] ELSE owner
    /\ Set(p, Put([th[p] EXCEPT !.ip = 0], s, "idle"))
    /\ UNCHANGED <<disks, icache, files, panic>>

-----------------------------------------------------------------------------
(* create, and the calls that use it *)

TypeOf(call) == IF call.op = "mkdir" THEN "dir" ELSE IF call.op = "mknod" THEN "dev" ELSE "file"

FreeInodes == {j \in Inums : dinode[j].type = "free"}

\* The name exists, or ialloc takes a free inode.  ialloc reads one inode block
\* after the other: any inode that is free can be the first it meets.
create1(p) ==
    LET t == th[p]
        s == t.w
        i == dirlookup(icache[s].inum, t.name) IN
    /\ Is(p, "create1")
    /\ Locked(s,
        \/ /\ i # 0
           /\ Got(i, /\ icache' = iget(Load(s), i)
                     /\ Set(p, Put([t EXCEPT !.w = 0, !.ip = SlotFor(i)], s, "create2"))
                     /\ UNCHANGED <<disks, owner, files, panic>>)
        \/ /\ i = 0
           /\ IF FreeInodes = {} THEN Panics("ialloc: no inodes")
              ELSE \E j \in FreeInodes :
                     Got(j, /\ dinode' = [dinode EXCEPT ![j] = [type |-> TypeOf(t.call), nlink |-> 0]]
                            /\ icache' = iget(Load(s), j) /\ owner' = [owner EXCEPT ![s] = p]
                            /\ Set(p, [t EXCEPT !.pc = "create3", !.w = 0, !.dp = s, !.ip = SlotFor(j)])
                            /\ UNCHANGED <<ents, dotdot, astray, overlap, orphan, files, panic>>))

\* The inode that exists is returned locked if it and the one asked for are files.
create2(p) ==
    LET t == th[p]
        s == t.ip IN
    /\ Is(p, "create2")
    /\ Locked(s,
        /\ icache' = Load(s)
        /\ \/ /\ TypeOf(t.call) = "file" /\ Loaded(s).type = "file"
              /\ owner' = [owner EXCEPT ![s] = p] /\ Goto(p, "open2")
           \/ /\ ~(TypeOf(t.call) = "file" /\ Loaded(s).type = "file")
              /\ Set(p, Put([t EXCEPT !.ip = 0], s, "idle")) /\ UNCHANGED owner
        /\ UNCHANGED <<disks, files, panic>>)

\* Variant: the parent does not count the ".." of a new directory.
ForDotDot_None(isdir) == 0

ForDotDot(isdir) == IF isdir THEN 1 ELSE 0

\* The new inode gets its count and its entries.
create3(p) ==
    LET t == th[p]
        s == t.ip
        i == icache[s].inum
        d == icache[t.dp].inum
        isdir == TypeOf(t.call) = "dir" IN
    /\ Is(p, "create3")
    /\ Locked(s,
        /\ icache' = Links([Load(s) EXCEPT ![s].nlink = 1], t.dp, ForDotDot(isdir))
        /\ dinode' = [dinode EXCEPT ![i].nlink = 1, ![d].nlink = @ + ForDotDot(isdir)]
        /\ ents' = [ents EXCEPT ![d][t.name] = i]
        /\ dotdot' = IF isdir THEN [dotdot EXCEPT ![i] = d] ELSE dotdot
        /\ astray' = (astray \/ icache[t.dp].nlink = 0)
        /\ owner' = [owner EXCEPT ![t.dp] = NoProc, ![s] = p]
        /\ Set(p, Put([t EXCEPT !.dp = 0], t.dp, IF t.call.op = "open" THEN "open2" ELSE "putip"))
        /\ UNCHANGED <<overlap, orphan, files, panic>>)

-----------------------------------------------------------------------------
(* open, chdir *)

open1(p) ==
    LET s == th[p].w
        bad == Loaded(s).type = "dir" /\ th[p].call.write IN
    /\ Is(p, "open1")
    /\ Locked(s,
        /\ icache' = Load(s)
        /\ \/ bad /\ Set(p, Drop(p)) /\ UNCHANGED owner
           \/ /\ ~bad /\ Set(p, [th[p] EXCEPT !.pc = "open2", !.ip = s, !.w = 0])
              /\ owner' = [owner EXCEPT ![s] = p]
        /\ UNCHANGED <<disks, files, panic>>)

FreeFiles == {f \in Files : ftable[f].ref = 0}
FreeFds(p) == {d \in 1 .. NOFILE : ofile[p][d] = 0}

\* filealloc, and fileclose of file f
filealloc == [ftable EXCEPT ![Min(FreeFiles)].ref = 1]
Closed(f) == [ftable EXCEPT ![f] = IF @.ref = 1 THEN NoFile ELSE [@ EXCEPT !.ref = @ - 1]]

\* iunlockput(ip) at the end of open
OpenFails(p) ==
    /\ Set(p, Put([th[p] EXCEPT !.ip = 0], th[p].ip, "idle"))
    /\ owner' = [owner EXCEPT ![th[p].ip] = NoProc]

\* open takes a file and then a descriptor; without either it fails.
open2(p) ==
    /\ Is(p, "open2")
    /\ \/ /\ FreeFiles # {}
          /\ ftable' = filealloc
          /\ Set(p, [th[p] EXCEPT !.pc = "open3", !.f = Min(FreeFiles)]) /\ UNCHANGED owner
       \/ FreeFiles = {} /\ OpenFails(p) /\ UNCHANGED ftable
    /\ UNCHANGED <<disks, icache, ofile, cwd, panic>>

\* Variant: the file is not closed again when there is no descriptor for it.
GivenBack_Not(f) == ftable

GivenBack(f) == Closed(f)

open3(p) ==
    LET t == th[p] IN
    /\ Is(p, "open3")
    /\ \/ /\ FreeFds(p) # {}
          /\ ofile' = [ofile EXCEPT ![p][Min(FreeFds(p))] = t.f]
          /\ ftable' = [ftable EXCEPT ![t.f].type = "inode", ![t.f].ip = t.ip]
          /\ owner' = [owner EXCEPT ![t.ip] = NoProc] /\ Set(p, Idle)
       \/ FreeFds(p) = {} /\ ftable' = GivenBack(t.f) /\ OpenFails(p) /\ UNCHANGED ofile
    /\ UNCHANGED <<disks, icache, cwd, panic>>

chdir1(p) ==
    LET s == th[p].w IN
    /\ Is(p, "chdir1")
    /\ Locked(s,
        /\ icache' = Load(s)
        /\ \/ Loaded(s).type # "dir" /\ Set(p, Drop(p)) /\ UNCHANGED cwd
           \/ /\ Loaded(s).type = "dir" /\ Set(p, Put(th[p], cwd[p], "chdir2"))
              /\ cwd' = [cwd EXCEPT ![p] = 0]
        /\ UNCHANGED <<disks, owner, ftable, ofile, panic>>)

chdir2(p) ==
    /\ Is(p, "chdir2")
    /\ cwd' = [cwd EXCEPT ![p] = th[p].w] /\ Set(p, Idle)
    /\ UNCHANGED <<disks, icache, owner, ftable, ofile, panic>>
-----------------------------------------------------------------------------
(* Descriptors *)

\* fileclose of descriptor d, with l to follow; an inode is put with its last
\* reference.
fileclose(p, d, l) ==
    LET f == ofile[p][d]
        last == ftable[f].ref = 1 IN
    /\ ofile' = [ofile EXCEPT ![p][d] = 0]
    /\ ftable' = Closed(f)
    /\ Set(p, IF last /\ ftable[f].type = "inode" THEN Put(th[p], ftable[f].ip, l)
              ELSE IF l = "idle" THEN Idle ELSE [th[p] EXCEPT !.pc = l])
    /\ UNCHANGED <<disks, icache, owner, cwd, panic>>

sys_close(p, d) == Is(p, "idle") /\ ofile[p][d] # 0 /\ fileclose(p, d, "idle")

filedup(f) == [ftable EXCEPT ![f].ref = @ + 1]

sys_dup(p, d) ==
    LET f == ofile[p][d] IN
    /\ Is(p, "idle") /\ f # 0 /\ FreeFds(p) # {}
    /\ ofile' = [ofile EXCEPT ![p][Min(FreeFds(p))] = f]
    /\ ftable' = filedup(f)
    /\ UNCHANGED <<disks, icache, owner, cwd, th, panic>>

\* pipealloc takes two files, one after the other,
sys_pipe(p) ==
    /\ Is(p, "idle") /\ FreeFiles # {}
    /\ ftable' = filealloc /\ Set(p, [th[p] EXCEPT !.pc = "pipealloc", !.f = Min(FreeFiles)])
    /\ UNCHANGED <<disks, icache, owner, ofile, cwd, panic>>

pipealloc(p) ==
    /\ Is(p, "pipealloc")
    /\ \/ /\ FreeFiles # {}
          /\ ftable' = filealloc /\ Set(p, [th[p] EXCEPT !.pc = "pipefds", !.g = Min(FreeFiles)])
       \/ FreeFiles = {} /\ Goto(p, "pipebad") /\ UNCHANGED ftable
    /\ UNCHANGED <<disks, icache, owner, ofile, cwd, panic>>

\* and a page, which kalloc may refuse; sys_pipe needs two descriptors then.
pipefds(p) ==
    LET t == th[p]
        fds == FreeFds(p) IN
    /\ Is(p, "pipefds")
    /\ \/ Goto(p, "pipebad") /\ UNCHANGED <<ftable, ofile>>
       \/ /\ ftable' = [ftable EXCEPT ![t.f].type = "pipe", ![t.g].type = "pipe"]
          /\ \/ /\ Cardinality(fds) >= 2
                /\ ofile' = [ofile EXCEPT ![p][Min(fds)] = t.f, ![p][Min(fds \ {Min(fds)})] = t.g]
                /\ Set(p, Idle)
             \/ Cardinality(fds) < 2 /\ Goto(p, "pipebad") /\ UNCHANGED ofile
    /\ UNCHANGED <<disks, icache, owner, cwd, panic>>

\* fileclose of the files that a failing call of pipe has taken
pipebad(p) ==
    LET t == th[p] IN
    /\ Is(p, "pipebad")
    /\ ftable' = Closed(IF t.f # 0 THEN t.f ELSE t.g)
    /\ Set(p, IF t.f # 0 /\ t.g # 0 THEN [t EXCEPT !.f = 0] ELSE Idle)
    /\ UNCHANGED <<disks, icache, owner, ofile, cwd, panic>>

\* fstat, read and write lock the inode of an open file.
filestat(p, d) ==
    LET s == ftable[ofile[p][d]].ip IN
    /\ Is(p, "idle") /\ ofile[p][d] # 0 /\ ftable[ofile[p][d]].type = "inode"
    /\ Locked(s, icache' = Load(s) /\ UNCHANGED <<disks, owner, files, th, panic>>)

Uses(fds, f) == Cardinality({d \in 1 .. NOFILE : fds[d] = f})

\* The child gets the open files and the current directory of its parent.
fork(p, q) ==
    /\ Is(p, "idle") /\ Is(q, "dead")
    /\ ofile' = [ofile EXCEPT ![q] = ofile[p]]
    /\ ftable' = [f \in Files |-> [ftable[f] EXCEPT !.ref = @ + Uses(ofile[p], f)]]
    /\ cwd' = [cwd EXCEPT ![q] = cwd[p]] /\ icache' = [icache EXCEPT ![cwd[p]].ref = @ + 1]
    /\ Set(q, Idle)
    /\ UNCHANGED <<disks, owner, panic>>

\* exit closes the open files one by one, then puts the current directory.
exit(p) ==
    LET open == {d \in 1 .. NOFILE : ofile[p][d] # 0} IN
    /\ Is(p, "exit")
    /\ \/ open # {} /\ fileclose(p, Min(open), "exit")
       \/ /\ open = {}
          /\ cwd' = [cwd EXCEPT ![p] = 0] /\ Set(p, Put(th[p], cwd[p], "dead"))
          /\ UNCHANGED <<disks, icache, owner, ftable, ofile, panic>>

-----------------------------------------------------------------------------
IsParent(c) == c.op \in {"unlink", "mkdir", "mknod"} \/ (c.op = "open" /\ c.create)

\* The calls on path names, and exit.
Enter(p, c) ==
    IF c.op = "exit"
    THEN p # initproc /\ Goto(p, "exit") /\ UNCHANGED <<disks, icache, owner, files, panic>>
    ELSE Start(p, [th[p] EXCEPT !.call = c], c.path, IsParent(c))

Makes(p, op) == [op |-> op] \in calls[p]

Syscall(p) ==
    \/ \E c \in calls[p] : c.op \notin {"dup", "pipe", "fstat", "fork"} /\ Is(p, "idle") /\ Enter(p, c)
    \/ \E d \in 1 .. NOFILE : \/ sys_close(p, d)
                              \/ Makes(p, "dup") /\ sys_dup(p, d)
                              \/ Makes(p, "fstat") /\ filestat(p, d)
    \/ Makes(p, "pipe") /\ sys_pipe(p)
    \/ Makes(p, "fork") /\ \E q \in Procs : fork(p, q)

Steps(p) ==
    \/ iput(p) \/ namex(p) \/ link1(p) \/ link2(p) \/ linkbad(p) \/ unlink1(p) \/ unlink2(p)
    \/ create1(p) \/ create2(p) \/ create3(p) \/ open1(p) \/ chdir1(p)
    \/ itrunc(p) \/ invalidate(p) \/ unref(p) \/ namexEnd(p) \/ linknew(p) \/ putdp(p) \/ putip(p)
    \/ unlink3(p) \/ open2(p) \/ open3(p) \/ chdir2(p) \/ exit(p)
    \/ pipealloc(p) \/ pipefds(p) \/ pipebad(p)

FNext == panic = "" /\ UNCHANGED calls /\ \E p \in Procs : Syscall(p) \/ Steps(p)

FSpec == FInit /\ [][FNext]_fsvars

-----------------------------------------------------------------------------
FTypeOK ==
    /\ dinode \in [Inums -> [type : {"free", "dir", "file", "dev"}, nlink : Nat]]
    /\ ents \in [Inums -> [Names -> 0 .. INUMS]] /\ dotdot \in [Inums -> 0 .. INUMS]
    /\ \A s \in Slots : icache[s].inum \in 0 .. INUMS /\ icache[s].ref \in Nat
    /\ owner \in [Slots -> Procs \cup {NoProc}]
    /\ \A f \in Files : ftable[f].ref \in Nat /\ ftable[f].ip \in Slots \cup {0}
    /\ cwd \in [Procs -> Slots \cup {0}]

\* The reference count of a cached inode is the number of pointers to it: current
\* directories, open files, and the calls under way, on their error paths too.  No
\* pointer leads to an unused entry (fs.c:123-128).
RefsExact ==
    \A s \in Slots :
        icache[s].ref =
            Cardinality({p \in Procs : cwd[p] = s})
            + Cardinality({f \in Files : ftable[f].ref > 0 /\ ftable[f].type = "inode" /\ ftable[f].ip = s})
            + Cardinality({p \in Procs : th[p].w = s}) + Cardinality({p \in Procs : th[p].ip = s})
            + Cardinality({p \in Procs : th[p].dp = s}) + Cardinality({p \in Procs : th[p].x = s})

\* An inode is in the cache at most once, and an entry that is valid, and not in the
\* hands of an iput that frees it, agrees with the disk, also when the inode is freed
\* and allocated again while another process is still in iput or waits for its lock
\* (fs.c:131-135, 344).
CacheCoherent ==
    /\ \A r, s \in Slots : icache[r].ref > 0 /\ icache[s].ref > 0 /\ icache[r].inum = icache[s].inum => r = s
    /\ \A s \in Slots : icache[s].valid /\ ~(\E p \in Procs : Is(p, "invalidate") /\ th[p].x = s) =>
         /\ icache[s].type = dinode[icache[s].inum].type
         /\ icache[s].nlink = dinode[icache[s].inum].nlink

Entries(i) == Cardinality({<<d, n>> \in Inums \X Names : ents[d][n] = i})
Subdirs(d) == Cardinality({n \in Names : ents[d][n] # 0 /\ dinode[ents[d][n]].type = "dir"})

\* The calls that have counted a link and not yet made it, or removed an entry and
\* not yet the count.
Pending(i) ==
    Cardinality({p \in Procs : /\ th[p].ip # 0 /\ icache[th[p].ip].inum = i
                               /\ \/ th[p].call.op = "link" /\ th[p].pc # "putip" /\ th[p].k # "putip"
                                  \/ th[p].call.op = "unlink" /\ (Is(p, "unlink3") \/ th[p].k = "unlink3")})

\* The link count of an inode is the number of its entries, and for a directory
\* also of its subdirectories, up to the calls under way, however link, unlink and
\* create interleave.  It is stated as long as no entry has been made in a directory
\* that was already removed, which create does not refuse (sysfile.c:142, 223, 271).
LinksExact ==
    ~astray => \A i \in Inums : dinode[i].type # "free" =>
        dinode[i].nlink = (IF i = 1 THEN 1 ELSE 0) + Entries(i)
                          + (IF dinode[i].type = "dir" THEN Subdirs(i) ELSE 0) + Pending(i)

\* No entry leads to a free inode, and an inode without links is in use by someone
\* who will free it: nothing dangles and nothing leaks (fs.c:325-331).  The leak is
\* excluded as long as no two iputs of an unlinked inode overlap: see FreedWithLastRef.
NoDanglingNoLeak ==
    ~astray => \A i \in Inums :
        /\ dinode[i].type = "free" => Entries(i) = 0
        /\ ~overlap /\ dinode[i].type # "free" /\ dinode[i].nlink = 0 => CachedAt(icache, i) # {}

\* "If that was the last reference and the inode has no links to it, free the inode
\* (and its content) on disk" (fs.c:328-329): an inode without links that nobody
\* refers to any more is free.
FreedWithLastRef ==
    \A i \in Inums : dinode[i].type # "free" /\ dinode[i].nlink = 0 => CachedAt(icache, i) # {}

\* The reference count of an open file is the number of descriptors for it, in all
\* processes, and of the calls of open and pipe that have it and no descriptor yet:
\* a call that fails half-way gives back what it took (file.c:44-80;
\* sysfile.c:318-324, 432-441; pipe.c:29-57).
FileRefsExact ==
    \A f \in Files :
        ftable[f].ref = Cardinality({<<p, d>> \in Procs \X (1 .. NOFILE) : ofile[p][d] = f})
                        + Cardinality({p \in Procs : f \in {th[p].f, th[p].g}})

\* Every count of references, of cached inodes and of open files, is exact, and the
\* inode cache holds the truth about the disk (fs.c:115-152, file.c:44-80).
ReferencesExact == FTypeOK /\ RefsExact /\ CacheCoherent /\ FileRefsExact

\* No call finds a free inode behind an entry or a link count of 0 behind a name
\* (fs.c:311, sysfile.c:211); the panics of ialloc and iget, whose tables may be full,
\* are not excluded.  The ".." of a directory that has been removed is the exception:
\* nothing keeps the parent from being freed.
NoFsPanic == orphan \/ panic \in {"", "ialloc: no inodes", "iget: no inodes"}

\* The tree of names is sound: link counts are exact, no name leads nowhere, no
\* inode is lost, and no call panics but for a full table (fs.c:311, sysfile.c:211).
NamespaceExact == LinksExact /\ NoDanglingNoLeak /\ NoFsPanic

\* The lock a process is about to take, 0 if none.
WaitsFor(t) ==
    CASE t.pc = "iput" -> t.x
      [] t.pc = "namex" -> (IF t.path = <<>> THEN 0 ELSE t.w)
      [] t.pc \in {"link1", "link2", "unlink1", "create1", "open1", "chdir1"} -> t.w
      [] t.pc \in {"linkbad", "unlink2", "create2", "create3"} -> t.ip
      [] OTHER -> 0

Blocks(q, p) == LET s == WaitsFor(th[p]) IN s # 0 /\ owner[s] = q

Acyclic(B(_, _)) == \A P \in SUBSET Procs : P # {} => \E p \in P : \A q \in P : ~B(q, p)

\* A process that puts the directory while it holds the lock of the entry.
Upward(p) == Is(p, "iput") /\ th[p].ip # 0 /\ owner[th[p].ip] = p

\* A process whose dirlink has found "." or "..", and puts it under the lock of dp.
PutsDots(p) == Is(p, "iput") /\ th[p].k = "link2bad" /\ IsDots(th[p].name)

\* A directory is locked before what is in it (sysfile.c:195, 207, 265): no process
\* waits for a lock that it holds itself or that is held by one which waits for it,
\* in a circle of any length.  This is up to the two places where the order is not
\* kept: the iput of the directory in unlink and create (see NoDeadlock), and that of
\* dirlink for a link to the name "." or "..", where the process waits for itself or
\* for the parent (fs.c:560-561).
NoLockCycle == Acyclic(LAMBDA q, p : Blocks(q, p) /\ ~Upward(p) /\ ~PutsDots(p))

\* "another concurrent link/unlink/create test, to look for deadlocks"
\* (usertests.c:855-856): the processes never wait for each other in a circle.
NoDeadlock == Acyclic(Blocks)
=============================================================================
