--------------------------------- MODULE Vm ---------------------------------
(***************************************************************************)
(* Physical pages (kalloc.c), page tables (vm.c) and what builds address   *)
(* spaces from them: userinit, fork, growproc and wait of proc.c, and exec. *)
(*                                                                         *)
(* A call is one step.  Two calls meet only in kalloc and kfree, where one *)
(* may take the page another needs: a call fails wherever memory runs out. *)
(* `view` is the memory that each process should see.                      *)
(***************************************************************************)
EXTENDS Integers, Sequences, SequencesExt, FiniteSets, FiniteSetsExt

CONSTANTS PGSIZE,       \* bytes of a page
          SPAN,         \* pages that one page table maps
          KERNBASE,     \* end of user memory; addresses wrap at 2 * KERNBASE
          KTABLES,      \* page tables that map the kernel
          Memories,     \* the numbers of physical pages to try
          Pids,         \* slots of the process table, 1 for the first process
          Grows,        \* Grows[p]: arguments of sbrk
          Images,       \* Images[p]: programs, each a sequence of segments, and whether
                        \* the arguments fit in the stack (Args)
          Stored,       \* the pages that processes store to
          MaxCalls      \* bound: system calls in a behaviour

Frames == 1 .. Max(Memories)
VPages == 0 .. KERNBASE \div PGSIZE - 1
Tables == 0 .. KERNBASE \div (PGSIZE * SPAN) + KTABLES - 1
KernelTables == {d \in Tables : d * PGSIZE * SPAN >= KERNBASE}

PGROUNDUP(a) == ((a + PGSIZE - 1) \div PGSIZE) * PGSIZE

\* Contents of a page: cleared, filled with junk by kfree, read from a program or
\* copied by exec, stored by the process.
zero == 0
junk == 1
loaded == 2
stored == 3

Unmapped == <<>>
NoTable == [dir |-> 0, pt |-> [d \in Tables |-> 0], pte |-> [v \in VPages |-> 0], u |-> {}]
NoSpace == [state |-> "UNUSED", kstack |-> 0, t |-> NoTable, sz |-> 0]
NoView == [v \in VPages |-> Unmapped]

VARIABLES freelist,     \* kmem.freelist; its order is of no account
          data,         \* the contents of each page
          space,        \* state, kstack, pgdir and sz of each process
          view,         \* ghost: the contents and PTE_U that each of its pages should have
          leaked,       \* ghost: pages that nothing refers to any more
          ncalls,       \* the system calls made, up to MaxCalls
          vpanic
memory == <<freelist, data, leaked, vpanic>>
vmvars == <<memory, space, view, ncalls>>

-----------------------------------------------------------------------------
(* A call works on a record: the free pages, the contents, the page table     *)
(* under construction, whether it has failed, the leaked pages and the panic. *)

Now(t) == [free |-> freelist, data |-> data, t |-> t, ok |-> TRUE, lost |-> leaked, panic |-> vpanic]
Failed(m) == [m EXCEPT !.ok = FALSE]

\* kalloc returns some free page; f.page is 0 if there is none.
kalloc(m) ==
    IF m.free = {} THEN [m |-> m, page |-> 0]
    ELSE [m |-> [m EXCEPT !.free = @ \ {Min(m.free)}], page |-> Min(m.free)]

\* kfree of several pages, 0 standing for none.
kfree(m, pages) ==
    LET P == pages \ {0}
    IN  [m EXCEPT !.free = @ \cup P, !.data = [f \in Frames |-> IF f \in P THEN junk ELSE @[f]]]

\* walkpgdir with alloc set: the page table that maps d exists, or memory runs out.
walkpgdir(m, d) ==
    LET k == kalloc(m)
    IN  IF m.t.pt[d] # 0 THEN m
        ELSE IF k.page = 0 THEN Failed(m)
        ELSE [k.m EXCEPT !.t.pt[d] = k.page, !.data[k.page] = zero]

\* mappages for one page.
mappages(m, v, page, user) ==
    LET Enter(n) ==
            IF ~n.ok THEN n
            ELSE IF n.t.pte[v] # 0 THEN [n EXCEPT !.panic = "remap"]
            ELSE [n EXCEPT !.t.pte[v] = page, !.t.u = IF user THEN @ \cup {v} ELSE @ \ {v}]
    IN  Enter(walkpgdir(m, v \div SPAN))

Cleared(t, V) == [t EXCEPT !.pte = [v \in VPages |-> IF v \in V THEN 0 ELSE @[v]], !.u = @ \ V]

\* deallocuvm: the pages from newsz, rounded up, to oldsz go.
deallocuvm(m, oldsz, newsz) ==
    LET V == {v \in VPages : v * PGSIZE >= PGROUNDUP(newsz) /\ v * PGSIZE < oldsz}
    IN  IF newsz >= oldsz THEN m
        ELSE [kfree(m, {m.t.pte[v] : v \in V}) EXCEPT !.t = Cleared(m.t, V)]

freevm(m) ==
    LET FreeTables(n) ==
            [kfree(n, {n.t.pt[d] : d \in Tables} \cup {n.t.dir}) EXCEPT !.t = NoTable]
    IN  FreeTables(deallocuvm(m, KERNBASE, 0))

\* A page table that maps the kernel; what was taken is given back on failure.
setupkvm(m0) ==
    LET k == kalloc(m0)
        Kept(m) == IF m.ok THEN m ELSE Failed(freevm(m))
    IN  IF k.page = 0 THEN Failed(m0)
        ELSE Kept(FoldSet(LAMBDA d, n : IF n.ok THEN walkpgdir(n, d) ELSE n,
                          [k.m EXCEPT !.t = [NoTable EXCEPT !.dir = k.page], !.data[k.page] = zero],
                          KernelTables))

Pages(from, to) == [i \in 1 .. to - from |-> from + i - 1]

\* Variant: the page that could not be mapped is not given back.
Return_Never(m, page) == m

Return(m, page) == kfree(m, {page})

\* allocuvm for newsz < KERNBASE; on failure the pages it has added are removed.
allocuvm(m0, oldsz, newsz) ==
    LET Mapped(n, page) == IF n.ok THEN n ELSE Return(n, page)
        Add(m, v) ==
            LET k == kalloc(m)
            IN  IF ~m.ok THEN m ELSE IF k.page = 0 THEN Failed(m)
                ELSE Mapped(mappages([k.m EXCEPT !.data[k.page] = zero], v, k.page, TRUE), k.page)
        first == PGROUNDUP(oldsz) \div PGSIZE
        last == PGROUNDUP(newsz) \div PGSIZE
        Kept(m) == IF m.ok THEN m ELSE deallocuvm(m, newsz, oldsz)
    IN  IF newsz >= KERNBASE THEN Failed(m0)
        ELSE Kept(FoldLeft(Add, m0, Pages(first, IF last < first THEN first ELSE last)))

\* The size after allocuvm.
Larger(oldsz, newsz) == IF newsz < oldsz THEN oldsz ELSE newsz

\* Variant: the child gets the pages of its parent, not copies.
CopyOf_Shared(m, page) == [m |-> m, page |-> page]

CopyOf(m, page) ==
    LET k == kalloc(m) IN IF k.page = 0 THEN k ELSE [k EXCEPT !.m.data[k.page] = m.data[page]]

\* copyuvm: t is the parent's page table.  When mappages fails, the page that was
\* to be mapped is not freed (vm.c:334-335).
copyuvm(m0, t, sz) ==
    LET Mapped(n, page) == IF n.ok THEN n ELSE [n EXCEPT !.lost = @ \cup {page}]
        Copy(m, v) ==
            LET k == CopyOf(m, t.pte[v])
            IN  IF ~m.ok THEN m
                ELSE IF t.pte[v] = 0 THEN [Failed(m) EXCEPT !.panic = "copyuvm: page not present"]
                ELSE IF k.page = 0 THEN Failed(m)
                ELSE Mapped(mappages(k.m, v, k.page, v \in t.u), k.page)
        Kept(m) == IF m.ok THEN m ELSE freevm(m)
        CopyAll(d) == IF ~d.ok THEN d
                      ELSE Kept(FoldLeft(Copy, d, Pages(0, PGROUNDUP(sz) \div PGSIZE)))
    IN  CopyAll(setupkvm(m0))

-----------------------------------------------------------------------------
(* exec *)

PagesOf(addr, n) == {v \in VPages : v * PGSIZE >= addr /\ v * PGSIZE < addr + n}

\* loaduvm reads filesz bytes of a segment to its pages.
loaduvm(m, seg) ==
    LET V == PagesOf(seg.vaddr, seg.filesz)
    IN  IF \E v \in V : m.t.pte[v] = 0 THEN [m EXCEPT !.panic = "loaduvm: address should exist"]
        ELSE [m EXCEPT !.data = [f \in Frames |-> IF \E v \in V : m.t.pte[v] = f THEN loaded ELSE @[f]]]

\* A segment that exec does not refuse.
Sound(seg) == /\ seg.memsz >= seg.filesz
              /\ (seg.vaddr + seg.memsz) % (2 * KERNBASE) >= seg.vaddr

\* One program header: x.sz is the size so far, and 0 makes exec fail.
LoadSegment(x, seg) ==
    LET newsz == seg.vaddr + seg.memsz
        sz == Larger(x.sz, newsz)
        Load(m) == IF ~m.ok \/ sz = 0 \/ seg.vaddr % PGSIZE # 0 THEN Failed(m) ELSE loaduvm(m, seg)
    IN  IF ~x.m.ok THEN x
        ELSE IF ~Sound(seg) THEN [x EXCEPT !.m = Failed(x.m)]
        ELSE [m |-> Load(allocuvm(x.m, x.sz, newsz)), sz |-> sz]

clearpteu(t, v) == [t EXCEPT !.u = @ \ {v}]

\* The new image: the segments, the guard page and the stack, to which the
\* arguments are copied.
NewImage(image) ==
    LET Finish(m, top) ==
            LET guard == top \div PGSIZE - 2
            IN  IF ~m.ok THEN [m |-> m, sz |-> 0]
                ELSE [m |-> [m EXCEPT !.t = clearpteu(@, guard), !.data[m.t.pte[guard + 1]] = loaded],
                      sz |-> top]
        AddStack(x) ==
            LET base == PGROUNDUP(x.sz)
            IN  IF ~x.m.ok THEN x ELSE Finish(allocuvm(x.m, base, base + 2 * PGSIZE), base + 2 * PGSIZE)
    IN  AddStack(FoldLeft(LoadSegment, [m |-> setupkvm(Now(NoTable)), sz |-> 0], image))

-----------------------------------------------------------------------------
\* The results of a call become the state of the kernel.
Memory(m) == /\ freelist' = m.free /\ data' = m.data /\ leaked' = m.lost /\ vpanic' = m.panic

Running(p) == space[p].state = "RUNNING"

\* kinit1 and kinit2 free each of n pages.
kinit(n) == [free |-> 1 .. n, data |-> [f \in Frames |-> junk], t |-> NoTable, ok |-> TRUE,
             lost |-> {}, panic |-> ""]

\* The page at address 0 with the code of the first process.
inituvm(m) ==
    LET k == kalloc(m) IN mappages([k.m EXCEPT !.data[k.page] = loaded], 0, k.page, TRUE)

\* userinit has made the first process.
VInit ==
    \E n \in Memories : \E k \in {kalloc(kinit(n))} : \E m \in {inituvm(setupkvm(k.m))} :
        /\ freelist = m.free /\ data = m.data /\ leaked = {} /\ vpanic = "" /\ ncalls = 0
        /\ space = [p \in Pids |-> IF p # 1 THEN NoSpace
                     ELSE [state |-> "RUNNING", kstack |-> k.page, t |-> m.t, sz |-> PGSIZE]]
        /\ view = [p \in Pids |-> IF p = 1 THEN [NoView EXCEPT ![0] = <<loaded, TRUE>>] ELSE NoView]

fork(p, q) ==
    /\ Running(p) /\ space[q].state = "UNUSED"
    /\ \E k \in {kalloc(Now(NoTable))} : \E m \in {copyuvm(k.m, space[p].t, space[p].sz)} :
       \/ k.page = 0 /\ UNCHANGED <<memory, space, view>>
       \/ k.page # 0 /\ ~m.ok /\ Memory(kfree(m, {k.page})) /\ UNCHANGED <<space, view>>
       \/ /\ k.page # 0 /\ m.ok /\ Memory(m)
          /\ space' = [space EXCEPT ![q] = [space[p] EXCEPT !.kstack = k.page, !.t = m.t]]
          /\ view' = [view EXCEPT ![q] = view[p]]

\* A process that gives back all its memory gets an error for it, keeps its size,
\* and faults at its next instruction.
growproc(p, n) ==
    LET sz == space[p].sz
        newsz == (sz + n) % (2 * KERNBASE) IN
    \E m \in {IF n > 0 THEN allocuvm(Now(space[p].t), sz, newsz) ELSE deallocuvm(Now(space[p].t), sz, newsz)} :
    /\ Running(p) /\ Memory(m)
    /\ space' = [space EXCEPT ![p].t = m.t, ![p].sz = IF ~m.ok \/ newsz = 0 \/ (n < 0 /\ newsz > sz) THEN @ ELSE newsz,
                              ![p].state = IF newsz = 0 THEN "FAULTS" ELSE @]
    /\ view' = IF ~m.ok \/ (n < 0 /\ newsz > sz) THEN view
               ELSE [view EXCEPT ![p] = [v \in VPages |->
                        IF v * PGSIZE >= newsz THEN Unmapped
                        ELSE IF v * PGSIZE >= PGROUNDUP(sz) THEN <<zero, TRUE>> ELSE @[v]]]

\* What a program should find: its segments, later ones over earlier ones, the
\* guard page and the stack, at the top.
ViewOf(image, sz) ==
    [v \in VPages |->
        CASE v * PGSIZE >= sz -> Unmapped
          [] v * PGSIZE = sz - PGSIZE -> <<loaded, TRUE>>
          [] v * PGSIZE = sz - 2 * PGSIZE -> <<zero, FALSE>>
          [] OTHER -> <<IF \E i \in 1 .. Len(image) : v \in PagesOf(image[i].vaddr, image[i].filesz)
                        THEN loaded ELSE zero, TRUE>>]

exec(p, image, fits) ==
    /\ Running(p)
    /\ \E x \in {NewImage(image)} : LET ok == x.m.ok /\ fits IN
       \/ ~ok /\ Memory(IF x.m.t.dir = 0 THEN x.m ELSE freevm(x.m)) /\ UNCHANGED <<space, view>>
       \/ /\ ok /\ Memory(freevm([x.m EXCEPT !.t = space[p].t]))
          /\ space' = [space EXCEPT ![p].t = x.m.t, ![p].sz = x.sz]
          /\ view' = [view EXCEPT ![p] = ViewOf(image, x.sz)]

\* The process stores to a page that it may access.
store(p, v) ==
    LET f == space[p].t.pte[v] IN
    /\ Running(p) /\ f # 0 /\ v \in space[p].t.u
    /\ data' = [data EXCEPT ![f] = stored]
    /\ view' = [view EXCEPT ![p][v] = <<stored, TRUE>>]
    /\ UNCHANGED <<freelist, space, leaked, vpanic>>

exit(p) ==
    /\ p # 1 /\ space[p].state \in {"RUNNING", "FAULTS"}
    /\ space' = [space EXCEPT ![p].state = "ZOMBIE"]
    /\ UNCHANGED <<freelist, data, view, leaked, vpanic>>

\* wait frees the kernel stack and the memory of a zombie.
wait(q) ==
    /\ space[q].state = "ZOMBIE"
    /\ Memory(freevm(kfree(Now(space[q].t), {space[q].kstack})))
    /\ space' = [space EXCEPT ![q] = NoSpace] /\ view' = [view EXCEPT ![q] = NoView]

Syscall(p) ==
    \/ \E q \in Pids : fork(p, q)
    \/ \E n \in Grows[p] : growproc(p, n)
    \/ \E x \in Images[p] : exec(p, x.segs, x.fits)
    \/ exit(p) \/ wait(p)

VNext ==
    /\ vpanic = ""
    /\ \E p \in Pids :
        \/ ncalls < MaxCalls /\ Syscall(p) /\ ncalls' = ncalls + 1
        \/ (\E v \in Stored : store(p, v)) /\ UNCHANGED ncalls

-----------------------------------------------------------------------------
PagesOwned(p) ==
    LET s == space[p] IN
    <<s.kstack, s.t.dir>> \o [d \in 1 .. Cardinality(Tables) |-> s.t.pt[d - 1]]
                          \o [v \in 1 .. Cardinality(VPages) |-> s.t.pte[v - 1]]

\* Every page of memory is free or has exactly one use, as a kernel stack, a page
\* directory, a page table or a page of one process, whichever allocation of fork,
\* exec or sbrk failed half-way.  The page that copyuvm drops when mappages fails is
\* the one exception (kalloc.c:59-95, vm.c:221-343).
PagesConserved ==
    LET all == FoldSet(LAMBDA p, s : s \o PagesOwned(p), <<>>, Pids)
        uses == SelectSeq(all, LAMBDA f : f # 0)
    IN  /\ Cardinality(ToSet(uses)) = Len(uses)
        /\ \E n \in Memories : ToSet(uses) = (1 .. n) \ (freelist \cup leaked)

\* Each process sees its own memory: what it loaded, stored, or inherited at fork,
\* zeroes in what sbrk added, never junk or a page of another process, and its guard
\* page stays out of reach, also after calls that failed (vm.c:182-343, exec.c:39-100).
OwnMemory ==
    \A p \in Pids : \A v \in VPages :
        LET t == space[p].t IN
        view[p][v] = IF t.pte[v] = 0 THEN Unmapped ELSE <<data[t.pte[v]], v \in t.u>>

\* The pages of a process are those below its size, so that the system calls may
\* take p->sz for the end of its memory, and the kernel never maps a page twice or
\* misses one (vm.c:72, 208, 329; syscall.c:22).
SizeIsMapped ==
    /\ vpanic = ""
    /\ \A p \in Pids : Running(p) => \A v \in VPages : (space[p].t.pte[v] # 0) <=> v * PGSIZE < space[p].sz

\* A process has exactly the memory its size says, with exactly its own data in it
\* (vm.c:182-343, proc.c:158-176).
MemoryExact == OwnMemory /\ SizeIsMapped
=============================================================================
