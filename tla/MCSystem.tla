------------------------------ MODULE MCSystem ------------------------------
(***************************************************************************)
(* The file system, the disk, virtual memory and the sequential code of    *)
(* the kernel and the programs, for TLC.  `case` names the part that runs, *)
(* or the function that is tried and its arguments.  One part runs at a    *)
(* time, so they all keep their variables in the cells y1 .. y14; the      *)
(* cells a part has no use for stay at NoProc.                             *)
(***************************************************************************)
EXTENDS Integers, Sequences, SequencesExt, FiniteSetsExt, MCCalls

CONSTANTS NoProc,
          LINE,     \* the longest command line of the whole alphabet
          PIPELINE, \* the longest command line of pipes, blocks and redirections
          TEXT      \* the longest text, pattern or path

FileBytes == <<{1, 2}, {3}>>
FileLengths == <<{1, 2}, {2}>>

Seg(vaddr, memsz, filesz) == [vaddr |-> vaddr, memsz |-> memsz, filesz |-> filesz]

Program(segs, fits) == [segs |-> segs, fits |-> fits]

\* Programs: one page, segments in descending order; two that exec refuses after it
\* has allocated pages, one whose end wraps around.
Small == Program(<<Seg(0, 1, 1)>>, TRUE)
Descending == Program(<<Seg(2, 2, 2), Seg(0, 2, 2)>>, TRUE)
Refused == {Program(<<Seg(0, 3, 1)>>, FALSE), Program(<<Seg(0, 2, 2), Seg(1, 2, 1)>>, TRUE),
            Program(<<Seg(4, 21, 0)>>, TRUE)}

\* The first process executes a program and forks, as init does; its child calls sbrk
\* and exec.
Images == <<{Small, Descending}, {Small, Descending} \cup Refused>>
Growth == <<{3}, {-7, -2, 3}>>

VARIABLES case, y1, y2, y3, y4, y5, y6, y7, y8, y9, y10, y11, y12, y13, y14

Fs == INSTANCE FileSys WITH
  Procs <- {p1, p2}, initproc <- p1, INUMS <- 3, NOFILE <- 2,
  Names <- {"a", "b"}, Programs <- SafePrograms,
  dinode <- y1, ents <- y2, dotdot <- y3, icache <- y4, owner <- y5,
  ftable <- y6, ofile <- y7, cwd <- y8, calls <- y9, th <- y10, panic <- y11,
  astray <- y12, overlap <- y13, orphan <- y14
\* Two processes that share block 1; with two more blocks each the three
\* buffers have to be recycled.
BlocksUsed == [p \in {p1, p2} |-> IF p = p1 THEN {1, 2, 3} ELSE {1, 4}]
D == INSTANCE Disk WITH
  Procs <- {p1, p2}, Reads <- BlocksUsed, NBUF <- 3, NBLOCKS <- 4,
  Written <- {1}, MaxPinned <- 1, Faulty <- {1},
  buf <- y1, owner <- y2, lru <- y3, idequeue <- y4, device <- y5, disk <- y6,
  pc <- y7, bp <- y8, want <- y9, driver <- y10, panic <- y11, current <- y12,
  failed <- y13
U == INSTANCE Umalloc WITH
  MAXHEAP <- 9, MINCORE <- 3, UNITS <- {2, 3, 4},
  heap <- y1, brk <- y2, used <- y3, gaps <- y4
Fd == INSTANCE FileData WITH
  BSIZE <- 2, NDIRECT <- 1, NINDIRECT <- 2, NBLOCKS <- 4, MAXBLOCKS <- 6,
  Inodes <- {1, 2}, Lengths <- FileLengths, Data <- FileBytes,
  inode <- y1, dinode <- y2, blocks <- y3, bitmap <- y4, off <- y5,
  file <- y6, fdpanic <- y7
Vm == INSTANCE Vm WITH
  PGSIZE <- 2, SPAN <- 3, KERNBASE <- 12, KTABLES <- 1,
  Memories <- {9, 11, 13, 15, 17}, Pids <- {1, 2}, Grows <- Growth,
  Images <- Images, Stored <- {0}, MaxCalls <- 7,
  freelist <- y1, data <- y2, space <- y3, view <- y4, leaked <- y5,
  ncalls <- y6, vpanic <- y7
S == INSTANCE Strings WITH DIRSIZ <- 2
P == INSTANCE Printf WITH WORD <- 64
T == INSTANCE TextTools WITH BUFSIZE <- 4
Sh == INSTANCE Shell WITH MAXARGS <- 3, NOFILE <- 6
Mk == INSTANCE Mkfs WITH BSIZE <- 8, NDIRECT <- 2, NINDIRECT <- 3, DIRENT <- 4,
                         NLOGBLOCKS <- 2, NINODEBLOCKS <- 1, NBITMAP <- 1
Ar == INSTANCE Args WITH ADDRS <- 64, PAGE <- 8, SPAN <- 16, KTABLES <- 48, MAXARG <- 2
X == INSTANCE Args WITH ADDRS <- 256, PAGE <- 32, SPAN <- 64, KTABLES <- 192, MAXARG <- 3
F == INSTANCE Arpfrm WITH DIRSIZ <- 2, RADIX <- 4
V == INSTANCE Screen WITH COLS <- 2, LINES <- 2

Strs(C, n) == UNION {[1 .. k -> C] : k \in 0 .. n}

\* Memory with a different byte at every address.
Mem == [a \in 0 .. 6 |-> 100 + a]

Letters == {97, 98}
Path == Strs({97, 98, 47}, TEXT)
Garbled == {<<97, 97>>, <<98, 0>>, <<0, 97>>}

KeyNames == {"lshift", "rshift", "lctl", "rctl", "caps", "a"}

CaseInit ==
    \/ \E d, s \in 0 .. 6, n \in 0 .. 6 : d + n <= 7 /\ s + n <= 7 /\ case = [fn |-> "memmove", d |-> d, s |-> s, n |-> n]
    \/ \E t \in Strs(Letters, 3), n \in 0 .. 4 : case = [fn |-> "safestrcpy", t |-> t \o <<0>>, n |-> n]
    \/ \E x, y \in Strs(Letters, 3) \ {<<>>}, g, h \in Garbled :
          case = [fn |-> "name", x |-> x, y |-> y, g |-> g, h |-> h]
    \/ \E p \in Path : case = [fn |-> "path", p |-> p]
    \/ \E v \in 0 .. 63 : case = [fn |-> "printint", v |-> v]
    \/ \E f \in Strs({"d", "x", "s", "%", "q", "w"}, 4) : case = [fn |-> "printf", f |-> f]
    \/ \E re \in Strs({"a", "b", ".", "*", "^", "$"}, 3), t \in Strs({"a", "b"}, 3) :
          case = [fn |-> "match", re |-> re, t |-> t]
    \/ \E re \in {<<"a">>, <<"^", "b">>, <<"$">>}, t \in Strs({"a", "b", "n"}, TEXT) :
          \E r \in Strs({1, 2}, 2) : case = [fn |-> "grep", re |-> re, t |-> t, r |-> r]
    \/ \E t \in Strs({"a", " ", "n"}, TEXT) : case = [fn |-> "wc", t |-> t]
    \/ \E s \in Strs({"a", " "} \cup Sh!symbols, LINE) \cup Strs({"a", "|", "(", ")", ">"}, PIPELINE) :
          case = [fn |-> "sh", s |-> s]
    \/ \E n \in 0 .. 4 : \E z \in [1 .. n -> {0, 7, 17, 40}] : case = [fn |-> "mkfs", z |-> z]
    \/ \E i \in 0 .. 63, n \in {-4, -1, 0, 1, 4, 31}, sz \in {0, 1, 3, 4, 5, 8, 21, 31, 32} :
          case = [fn |-> "args", i |-> i, n |-> n, sz |-> sz]
    \/ \E l \in Strs({3, 9, 14, 20, 40, 90, 150}, 4) : \E sz \in {64, 96} : case = [fn |-> "exec", l |-> l, sz |-> sz]
    \/ \E v \in 0 .. 255 : case = [fn |-> "htons", v |-> v]
    \/ \E m \in [1 .. 2 -> 0 .. 255] : m[2] \in {0, 10, 159, 255} /\ case = [fn |-> "mac", m |-> m]
    \/ \E t \in Strs({"x", "y", "nl", "bs"}, 6) : case = [fn |-> "cga", t |-> t]
    \/ \E k \in Strs(KeyNames, 5) : case = [fn |-> "kbd", k |-> k]

From5 == <<y5, y6, y7, y8, y9, y10, y11, y12, y13, y14>>
From8 == <<y8, y9, y10, y11, y12, y13, y14>>
No8 ==
  /\ y8 = NoProc /\ y9 = NoProc /\ y10 = NoProc /\ y11 = NoProc
  /\ y12 = NoProc /\ y13 = NoProc /\ y14 = NoProc
No5 == y5 = NoProc /\ y6 = NoProc /\ y7 = NoProc /\ No8
No1 == y1 = NoProc /\ y2 = NoProc /\ y3 = NoProc /\ y4 = NoProc /\ No5

Is(fn) == case.fn = fn

Init ==
    \/ CaseInit /\ No1
    \/ case = [fn |-> "fs"] /\ Fs!FInit
    \/ case = [fn |-> "disk"] /\ D!DInit /\ y14 = NoProc
    \/ case = [fn |-> "umalloc"] /\ U!UInit /\ No5
    \/ case = [fn |-> "filedata"] /\ Fd!FDInit /\ No8
    \/ case = [fn |-> "vm"] /\ Vm!VInit /\ No8

Next ==
    \/ Is("fs") /\ Fs!FNext /\ UNCHANGED case
    \/ Is("disk") /\ D!DNext /\ UNCHANGED <<case, y14>>
    \/ Is("umalloc") /\ U!UNext /\ UNCHANGED <<case, From5>>
    \/ Is("filedata") /\ Fd!FDNext /\ UNCHANGED <<case, From8>>
    \/ Is("vm") /\ Vm!VNext /\ UNCHANGED <<case, From8>>

libvars == <<case, y1, y2, y3, y4, From5>>
Spec == Init /\ [][Next]_libvars

-----------------------------------------------------------------------------
(* The state machines: properties stated in their modules. *)

\* Every count of references, of cached inodes and of open files, is exact, and the
\* inode cache holds the truth about the disk (fs.c:115-152, file.c:44-80).
ReferencesExact == Is("fs") => Fs!ReferencesExact

\* The tree of names is sound: link counts are exact, no name leads nowhere, no
\* inode is lost, and no call panics but for a full table (fs.c:311, sysfile.c:211).
NamespaceExact == Is("fs") => Fs!NamespaceExact

\* A directory is locked before what is in it (sysfile.c:195, 207, 265): no process
\* waits for a lock that it holds itself or that is held by one which waits for it,
\* in a circle of any length.  This is up to the two places where the order is not
\* kept: the iput of the directory in unlink and create, and that of dirlink for a
\* link to the name "." or ".." (fs.c:560-561).
NoLockCycle == Is("fs") => Fs!NoLockCycle

\* The cache and the driver together act as the disk itself: one copy of a block,
\* always the latest, and one request at the device, the right one (bio.c, ide.c).
DiskSound == Is("disk") => D!DiskSound

\* Every page of memory is free or has exactly one use, as a kernel stack, a page
\* directory, a page table or a page of one process, whichever allocation of fork,
\* exec or sbrk failed half-way.  The page that copyuvm drops when mappages fails is
\* the one exception (kalloc.c:59-95, vm.c:221-343).
PagesConserved == Is("vm") => Vm!PagesConserved

\* A process has exactly the memory its size says, with exactly its own data in it
\* (vm.c:182-343, proc.c:158-176).
MemoryExact == Is("vm") => Vm!MemoryExact

\* The heap is divided into blocks without loss or overlap, and free neighbours
\* are one block (umalloc.c:23-45, 63-90).
HeapSound == Is("umalloc") => U!HeapSound

\* An inode, read through the copy on disk, holds what has been written to it
\* and nothing else: writei, bmap and iupdate lose no byte, mix no two files, and
\* leave nothing behind in memory only (fs.c:483-512).
FileContents == Is("filedata") => Fd!FileContents

\* Blocks are neither lost, nor shared, nor more in one transaction than the log
\* has been promised (fs.c:92, 409-436; file.c:128-133).
BlocksExact == Is("filedata") => Fd!BlocksExact

-----------------------------------------------------------------------------
\* memmove copies as if through a second buffer, whichever way the two areas
\* overlap (string.c:38-45); memmove of the user library does so unless the
\* destination lies inside the source, above its start (ulib.c:83).
MemmoveExact ==
    Is("memmove") =>
        LET d == case.d
            s == case.s
            copied == [a \in 0 .. 6 |-> IF a \in d .. d + case.n - 1 THEN Mem[s + a - d] ELSE Mem[a]]
        IN  /\ S!memmove(Mem, d, s, case.n) = copied
            /\ (d \in s + 1 .. s + case.n - 1) # (S!umemmove(Mem, d, s, case.n) = copied)

\* safestrcpy stores a NUL within its n bytes and nothing behind them, and copies
\* the longest part of the string that leaves room for it (string.c:81-94).
SafestrcpyTerminates ==
    Is("safestrcpy") =>
        LET old == <<120, 120, 120, 120, 120>>
            new == S!safestrcpy(old, case.t, case.n)
            len == S!Iterations(case.n - 1, LAMBDA i : S!At(case.t, i) # 0)
        IN  /\ \A i \in case.n + 1 .. 5 : new[i] = old[i]
            /\ case.n > 0 => new[len + 1] = 0 /\ \A i \in 1 .. len : new[i] = case.t[i]

\* A name written to a directory entry by dirlink is found by dirlookup exactly
\* under the names that agree with it in the first DIRSIZ bytes, whatever the
\* entry and namex's buffer held before (fs.c:517-521, 573, 611-615).
NameFound ==
    Is("name") =>
        LET cut(n) == SubSeq(n, 1, IF Len(n) < 2 THEN Len(n) ELSE 2)
            entry == S!strncpy(case.g, S!CopyName(<<0, 0>>, case.x), 2)
            asked == S!CopyName(case.h, case.y)
        IN  (S!namecmp(asked, entry) = 0) <=> cut(case.x) = cut(case.y)

\* namex visits the elements between the slashes of a path, in order, however
\* many slashes separate or end them, and has no path left exactly at the last one,
\* where nameiparent stops (fs.c:596-619, 641).
PathElements ==
    Is("path") =>
        LET p == case.p
            starts == {i \in 1 .. Len(p) : p[i] # 47 /\ (i = 1 \/ p[i - 1] = 47)}
            end(i) == Max({j \in i .. Len(p) : \A k \in i .. j : p[k] # 47})
            elems == [n \in 1 .. Cardinality(starts) |->
                        LET i == CHOOSE x \in starts : Cardinality({y \in starts : y < x}) = n - 1
                        IN  SubSeq(p, i, end(i))]
            names == S!Names[p \o <<0>>, <<0, 0>>]
            first == S!skipelem(p \o <<0>>, <<0, 0>>)
        IN  /\ Len(names) = Len(elems)
            /\ first.ok => (first.path = <<0>> <=> Len(elems) = 1)
            /\ \A n \in 1 .. Len(elems) : S!namecmp(names[n], S!CopyName(<<0, 0>>, elems[n])) = 0

-----------------------------------------------------------------------------
Digit(d) == (CHOOSE k \in 1 .. 16 : d[2] \in {P!UPPER[k], P!LOWER[k]}) - 1
Value(digits, radix) == FoldLeft(LAMBDA n, d : n * radix + Digit(d), 0, digits)

\* %d prints the value of every int, the smallest one included, whose negation is
\* itself, and %x prints that of every uint (printf.c:19-35, console.c:34-49).
PrintintExact ==
    Is("printint") =>
        \A d \in {P!printint(case.v, 10, TRUE), P!cprintint(case.v, 10, TRUE)} :
            /\ P!Signed(case.v) = (IF d[1] = <<"c", "-">> THEN -Value(Tail(d), 10) ELSE Value(d, 10))
            /\ \A x \in {P!printint(case.v, 16, FALSE), P!cprintint(case.v, 16, FALSE)} :
                 Value(x, 16) = case.v

\* printf and cprintf, written apart, print the same for every format without %c but
\* for the case of the hexadecimal digits, and take the same number of arguments
\* (printf.c:14, 51-84; console.c:30, 69-100).
PrintfsAgree ==
    Is("printf") =>
        \A args \in {<<0, 43>>, <<43, 0>>} :
            LET c == P!cprintf[case.f, args, 1, 0]
                u == P!printf(case.f, args)
            IN  /\ Len(c.out) = Len(u.out) /\ c.used = u.used
                /\ \A i \in 1 .. Len(c.out) :
                     IF c.out[i][1] = "n" /\ u.out[i][1] = "n" THEN Digit(c.out[i]) = Digit(u.out[i])
                     ELSE c.out[i] = u.out[i]

\* grep's backtracking matcher accepts the lines that its pattern denotes
\* (grep.c:72-106).
MatchCorrect == Is("match") => (T!match(case.re, case.t) = T!Selects(case.re, case.t))

\* grep prints exactly the terminated lines that match, in order, if there is a
\* newline in the buffer after every read but the last one: so it is when the reads
\* fill the buffer and each line fits it.  Where a short read leaves none, the line
\* that it cut is lost (grep.c:16-35).
GrepComplete ==
    Is("grep") =>
        LET ls == T!Lines[case.t]
            tail == IF T!Newlines(case.t) = {} THEN case.t ELSE T!Unfinished(case.t)
            fit == (\A i \in 1 .. Len(ls) : Len(ls[i]) <= 2) /\ Len(tail) <= 2
            bufs == T!Buffers[<<>>, case.t, case.r]
            whole == \A i \in 1 .. Len(bufs) - 1 : T!Newlines(bufs[i]) # {}
        IN  /\ whole => T!grep(case.re, case.t, case.r) = SelectSeq(ls, LAMBDA l : T!match(case.re, l))
            /\ fit /\ case.r = <<>> => whole

\* wc counts the words as the places where a word starts, wherever the reads cut the
\* file (wc.c:15-28).
WcCounts ==
    Is("wc") =>
        LET t == case.t
            r == T!wc(t)
        IN  /\ r.c = Len(t) /\ r.l = Cardinality(T!Newlines(t))
            /\ r.w = Cardinality({i \in 1 .. Len(t) : t[i] = "a" /\ (i = 1 \/ t[i - 1] # "a")})

\* grep and wc answer as if they had the whole file at once; grep does so if no read
\* but the last one leaves its buffer without a newline (grep.c:16-35, wc.c:15-28).
FiltersCorrect == MatchCorrect /\ GrepComplete /\ WcCounts

-----------------------------------------------------------------------------
(* What a command consists of: its words, and its nodes by type. *)

RECURSIVE Nodes(_)
Nodes(c) ==
    CASE c.type = "EXEC" -> <<c>>
      [] c.type \in {"REDIR", "BACK"} -> <<c>> \o Nodes(c.cmd)
      [] c.type \in {"PIPE", "LIST"} -> <<c>> \o Nodes(c.left) \o Nodes(c.right)

WordsOf(c) ==
    FlattenSeq([i \in 1 .. Len(Nodes(c)) |->
        CASE Nodes(c)[i].type = "EXEC" -> Nodes(c)[i].argv
          [] Nodes(c)[i].type = "REDIR" -> <<Nodes(c)[i].file>>
          [] OTHER -> <<>>])

Count(c, type) == Len(SelectSeq(Nodes(c), LAMBDA n : n.type = type))
Signs(s, x) == Cardinality({i \in 1 .. Len(s) : s[i] = x})

\* The words of a line: its maximal runs of "a".
LineWords(s) ==
    {<<q, e>> \in (1 .. Len(s)) \X (2 .. Len(s) + 1) :
        /\ q < e /\ \A k \in q .. e - 1 : s[k] = "a"
        /\ q > 1 => s[q - 1] # "a"
        /\ e <= Len(s) => s[e] # "a"}

\* A line that the parser accepts is parsed whole: each of its words is in the
\* command exactly once, each |, ; and & gives one node, and what stands left of a
\* | or ; is in the left branch (sh.c:327-446).
ParseWhole(s, cmd) ==
    /\ ToSet(WordsOf(cmd)) = LineWords(s)
    /\ Len(WordsOf(cmd)) = Cardinality(LineWords(s))
    /\ Count(cmd, "PIPE") = Signs(s, "|") /\ Count(cmd, "LIST") = Signs(s, ";")
    /\ Count(cmd, "BACK") = Signs(s, "&")
    /\ \A n \in ToSet(Nodes(cmd)) : n.type \in {"PIPE", "LIST"} =>
         \A w \in ToSet(WordsOf(n.left)), v \in ToSet(WordsOf(n.right)) : w[2] <= v[1]

\* nulterminate ends every word in place, the names of redirections included, and
\* overwrites no character of another word (sh.c:448-493).
WordsTerminated(s, cmd) ==
    LET nuls == Sh!nulterminate(cmd)
    IN  \A w \in LineWords(s) : w[2] \in nuls /\ nuls \cap (w[1] .. w[2] - 1) = {}

\* Every process that a command starts, and every one that waits for others, has
\* just the descriptors 0, 1 and 2 open, and an end of a pipe is held only on its
\* own side of it, so that a reader sees the end of the stream (sh.c:100-122).
PipeEndsClosed(cmd) ==
    LET Side(side, me, id) == Len(id) > Len(me) /\ SubSeq(id, 1, Len(me) + 1) = Append(me, side)
    IN  \A p \in Sh!runcmd(cmd, Sh!Terminal, <<>>) :
          /\ \A d \in DOMAIN p.fds : (p.fds[d] # Sh!Closed) <=> d \in 0 .. 2
          /\ \A d \in 0 .. 2 : /\ p.fds[d][1] = "write" => Side("w", p.fds[d][2], p.id)
                               /\ p.fds[d][1] = "read" => Side("r", p.fds[d][2], p.id)

\* The shell runs the commands that the line spells, on the files and pipe ends
\* that it spells, and on no others (sh.c).
ShellCorrect ==
    Is("sh") => \A r \in {Sh!parsecmd(case.s)} : r.ok =>
        ParseWhole(case.s, r.cmd) /\ WordsTerminated(case.s, r.cmd) /\ PipeEndsClosed(r.cmd)

-----------------------------------------------------------------------------
\* The image of mkfs is consistent: no block belongs to two places, the blocks in
\* use are those the bitmap marks behind the metadata, and every block below the
\* size of an inode is allocated.  The one exception is the root directory when
\* its entries fill their blocks exactly: it is given one block that does not
\* exist (mkfs.c:161).
ImageConsistent ==
    Is("mkfs") =>
        LET m == Mk!main(case.z)
            img == m.img
            I == 1 .. Len(img.inodes)
            refs == UNION {Mk!References(img, i) : i \in I}
            full == (m.entries * 4) % 8 = 0
        IN  img.ok =>
              /\ \A r, q \in refs : Mk!Target(img, r) = Mk!Target(img, q) => r = q
              /\ {Mk!Target(img, r) : r \in refs} = m.bitmap \ (0 .. Mk!nmeta - 1)
              /\ \A i \in I : \A b \in 0 .. (img.inodes[i].size + 7) \div 8 - 1 :
                    Mk!BlockOf(img, i, b) # 0
                      \/ (i = 1 /\ full /\ b = img.inodes[i].size \div 8 - 1)

\* A pointer that the kernel accepts from a process points to memory of the
\* process, to its last byte, also where the sum of address and length wraps
\* around (syscall.c:17-70).
PointersInside ==
    Is("args") =>
        /\ Ar!fetchint(case.i, case.sz) => case.i + 4 <= case.sz
        /\ Ar!argptr(case.i, case.n, case.sz) => case.n >= 0 /\ case.i + case.n <= case.sz
        /\ LET len == Ar!fetchstr(case.i, case.sz, {5, 20, 40})
           IN  len >= 0 => case.i + len < case.sz /\ case.i + len \in {5, 20, 40}

\* When exec succeeds, the argument strings and the vector of pointers lie in the
\* stack page, in order and without overlap; arguments that do not fit make exec
\* fail at the guard page (exec.c:63-88).  Only arguments longer than the whole process
\* can take copyout below address 0 to where there is no page table, and uva2ka
\* astray (vm.c:352-353): nothing is said of exec then.
ExecStackFits ==
    Is("exec") =>
        LET r == X!ExecStack(case.l, case.sz)
        IN  /\ r.res = "page" =>
                 /\ Len(case.l) <= 3
                 /\ r.sp >= case.sz - 32 /\ r.sp % 4 = 0
                 /\ \A i \in 1 .. Len(case.l) :
                      /\ r.argv[i] + case.l[i] <= (IF i = 1 THEN case.sz ELSE r.argv[i - 1])
                      /\ r.argv[i] >= r.sp + r.size
            /\ r.res = "stray" => FoldLeft(LAMBDA n, len : n + len, 0, case.l) > case.sz

\* What passes between user memory and the kernel stays inside the process, at
\* every address and length but for arguments of exec longer than the whole process
\* (syscall.c, exec.c).
UserMemoryChecked == PointersInside /\ ExecStackFits

\* htons reverses the four bytes of its argument (arpfrm.c:11-17).
NetworkOrder ==
    Is("htons") => \A k \in 0 .. 3 : (F!htons(case.v) \div 4 ^ k) % 4 = (case.v \div 4 ^ (3 - k)) % 4

\* A MAC address survives its conversion to text and back (arpfrm.c:19-41, 109-133).
MacRoundTrip == Is("mac") => F!packmac(F!unpackmac(case.m)) = case.m

\* The functions of the kernel's and the user library do what their callers rely
\* on, at the edges of their buffers and value ranges too (string.c, printf.c,
\* console.c, fs.c, arpfrm.c).
LibraryCorrect ==
    /\ MemmoveExact /\ SafestrcpyTerminates /\ NameFound /\ PathElements
    /\ PrintintExact /\ PrintfsAgree /\ NetworkOrder /\ MacRoundTrip

-----------------------------------------------------------------------------
\* A text laid out in rows of two characters; a full row starts the next one.
RECURSIVE Rows(_)
Rows(t) ==
    IF t = <<>> THEN <<<<>>>>
    ELSE LET rs == Rows(SubSeq(t, 1, Len(t) - 1))
             c == t[Len(t)]
             row == IF c = "nl" THEN rs[Len(rs)] ELSE Append(rs[Len(rs)], c)
             up == SubSeq(rs, 1, Len(rs) - 1) \o <<row>>
         IN  IF c = "nl" \/ Len(row) = 2 THEN Append(up, <<>>) ELSE up

\* The screen shows the last rows of the text written to it with the cursor
\* behind them, and the cursor stays on the screen whatever is written, so that
\* the panic for it is never reached (console.c:143-162).
ScreenShowsTail ==
    Is("cga") =>
        LET t == case.t
            s == FoldLeft(LAMBDA st, c : V!cgaputc(st, c), V!Blank, t)
            rs == Rows(t)
            top == IF Len(rs) > 2 THEN Len(rs) - 2 ELSE 0
        IN  /\ ~s.panic /\ s.pos \in 0 .. 3
            /\ "bs" \notin ToSet(t) =>
                 /\ s.pos = 2 * (Len(rs) - top - 1) + Len(rs[Len(rs)])
                 /\ \A i \in 0 .. 3 :
                      LET r == top + (i \div 2) + 1
                          col == (i % 2) + 1
                      IN  s.crt[i] = IF r <= Len(rs) /\ col <= Len(rs[r]) THEN rs[r][col] ELSE " "

\* What the keyboard sends for the i-th of a sequence of presses and releases, a
\* key being pressed and released in turn.
IsUp(k, i) == Cardinality({j \in 1 .. i : k[j] = k[i]}) % 2 = 0
Scans(k, i) ==
    CASE k[i] = "rctl" -> <<V!E0, V!Scan("ctl", IsUp(k, i))>>
      [] k[i] = "lctl" -> <<V!Scan("ctl", IsUp(k, i))>>
      [] k[i] \in {"lshift", "rshift"} -> <<V!Scan("shift", IsUp(k, i))>>
      [] OTHER -> <<V!Scan(k[i], IsUp(k, i))>>

\* The character of a letter key depends on the latest event of the shift keys, on
\* that of the control keys and on how often caps lock was pressed, and on nothing
\* else in the history, prefixed codes and releases included (kbd.c:20-43).
KeysDecoded ==
    Is("kbd") =>
        LET k == case.k
            codes == FlattenSeq([i \in 1 .. Len(k) |-> Scans(k, i)])
            s == FoldLeft(LAMBDA st, d : V!kbdgetc(st.shift, d), [shift |-> {}, c |-> "NO"], codes)
            Held(names) == LET is == {i \in 1 .. Len(k) : k[i] \in names} IN is # {} /\ ~IsUp(k, Max(is))
            caps == Cardinality({i \in 1 .. Len(k) : k[i] = "caps" /\ ~IsUp(k, i)}) % 2 = 1
        IN  k # <<>> /\ k[Len(k)] = "a" /\ ~IsUp(k, Len(k)) =>
              s.c = (IF Held({"lctl", "rctl"}) THEN "^A"
                     ELSE IF Held({"lshift", "rshift"}) # caps THEN "A" ELSE "a")

\* The terminal shows what was written and delivers what was typed (console.c, kbd.c).
TerminalCorrect == ScreenShowsTail /\ KeysDecoded
=============================================================================
