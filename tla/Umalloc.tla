------------------------------ MODULE Umalloc ------------------------------
(***************************************************************************)
(* malloc and free of the user library (umalloc.c): first fit on a circular *)
(* list of free blocks that is kept in address order.  Memory is counted in *)
(* units of one Header; address 0 is the static header `base', which lies   *)
(* below the heap.  A block is named by the address of its header.         *)
(***************************************************************************)
EXTENDS Naturals, Integers, FiniteSets, FiniteSetsExt

CONSTANTS MAXHEAP,  \* the units sbrk can hand out before it fails
          MINCORE,  \* the least morecore asks for (4096)
          UNITS     \* the sizes the program asks malloc for, header included

VARIABLES heap,     \* the allocator: ptr and size of the headers, freep, 0 before its first use
          brk,      \* the end of the heap, the address sbrk returns next
          used,     \* the blocks handed out and not yet freed
          gaps      \* units the program took with sbrk itself
uvars == <<heap, brk, used, gaps>>

base == 0
Addrs == 0 .. MAXHEAP

UInit ==
    /\ heap = [ptr |-> [a \in Addrs |-> 0], size |-> [a \in Addrs |-> 0], ready |-> FALSE,
               freep |-> base]
    /\ brk = 1 /\ used = {} /\ gaps = 0

-----------------------------------------------------------------------------
\* Whether bp belongs between p and p's successor: behind p, or, where the
\* list wraps around, at either end.
Between(h, bp, p) ==
    LET q == h.ptr[p] IN (bp > p /\ bp < q) \/ (p >= q /\ (bp > p \/ bp < q))

\* The first block from p on behind which bp belongs.
RECURSIVE FindPlace(_, _, _)
FindPlace(h, bp, p) == IF Between(h, bp, p) THEN p ELSE FindPlace(h, bp, h.ptr[p])

\* Variant: a block is not joined to the one below it.
Insert_NoJoin(h, bp, p) ==
    LET q == h.ptr[p]
    IN  [h EXCEPT !.ptr[p] = bp, !.ptr[bp] = q, !.freep = p]

\* bp goes behind p and is joined to its neighbours where they touch.
Insert(h, bp, p) ==
    LET q == h.ptr[p]
        upper == bp + h.size[bp] = q
        h1 == IF upper
              THEN [h EXCEPT !.size[bp] = @ + h.size[q], !.ptr[bp] = h.ptr[q],
                             !.size[q] = 0, !.ptr[q] = 0]
              ELSE [h EXCEPT !.ptr[bp] = q]
        lower == p + h1.size[p] = bp
    IN  IF lower
        THEN [h1 EXCEPT !.size[p] = @ + h1.size[bp], !.ptr[p] = h1.ptr[bp],
                        !.size[bp] = 0, !.ptr[bp] = 0, !.freep = p]
        ELSE [h1 EXCEPT !.ptr[p] = bp, !.freep = p]

Free(h, bp) == Insert(h, bp, FindPlace(h, bp, h.freep))

\* The first block that holds n units, in the order of the list from behind
\* freep round to freep itself; base when there is none.  base has size 0.
RECURSIVE FirstFit(_, _, _)
FirstFit(h, n, prevp) ==
    LET p == h.ptr[prevp]
    IN  IF h.size[p] >= n THEN [prevp |-> prevp, p |-> p]
        ELSE IF p = h.freep THEN [prevp |-> prevp, p |-> base]
        ELSE FirstFit(h, n, p)

\* The block found is unlinked if it fits exactly, else its upper end is cut off.
Carve(h, fit, n) ==
    IF h.size[fit.p] = n
    THEN [at |-> fit.p, h |-> [h EXCEPT !.ptr[fit.prevp] = h.ptr[fit.p], !.ptr[fit.p] = 0,
                                        !.freep = fit.prevp]]
    ELSE LET at == fit.p + h.size[fit.p] - n
         IN  [at |-> at, h |-> [h EXCEPT !.size[fit.p] = @ - n, !.size[at] = n,
                                         !.freep = fit.prevp]]

\* The list before the search: the first call makes base its only member.
Ready(h) == [h EXCEPT !.ready = TRUE]

\* The units morecore asks sbrk for, and whether sbrk has them.
Core(n) == IF n < MINCORE THEN MINCORE ELSE n
HasCore(n) == brk + Core(n) <= MAXHEAP + 1

morecore(h, n) == Free([h EXCEPT !.size[brk] = Core(n)], brk)

malloc(n) ==
    LET h == Ready(heap)
        fit == FirstFit(h, n, h.freep)
        grown == morecore(h, n)
        again == FirstFit(grown, n, grown.freep)
    IN  \/ /\ fit.p # base
           /\ heap' = Carve(h, fit, n).h
           /\ used' = used \cup {Carve(h, fit, n).at}
           /\ UNCHANGED <<brk, gaps>>
        \/ /\ fit.p = base /\ HasCore(n)
           /\ heap' = Carve(grown, again, n).h
           /\ used' = used \cup {Carve(grown, again, n).at}
           /\ brk' = brk + Core(n)
           /\ UNCHANGED gaps
        \/ /\ fit.p = base /\ ~HasCore(n)
           /\ heap' = h
           /\ UNCHANGED <<brk, used, gaps>>

free(bp) ==
    /\ bp \in used
    /\ heap' = Free(heap, bp)
    /\ used' = used \ {bp}
    /\ UNCHANGED <<brk, gaps>>

\* The program moves the break itself, so that the next core is not adjacent.
sbrk ==
    /\ gaps = 0 /\ brk <= MAXHEAP
    /\ brk' = brk + 1 /\ gaps' = gaps + 1
    /\ UNCHANGED <<heap, used>>

UNext == (\E n \in UNITS : malloc(n)) \/ (\E bp \in used : free(bp)) \/ sbrk

-----------------------------------------------------------------------------
\* The blocks on the free list, base included.
RECURSIVE Linked(_, _)
Linked(h, seen) ==
    LET more == {h.ptr[p] : p \in seen} IN IF more \subseteq seen THEN seen ELSE Linked(h, seen \cup more)
FreeBlocks == Linked(heap, {heap.freep})

Extent(p) == p .. p + heap.size[p] - 1

\* Every unit that malloc obtained from sbrk belongs to exactly one block, free
\* or in use: malloc never hands out memory twice, and free loses none
\* (umalloc.c:33-42, 76-81).
UPartition ==
    LET blocks == (FreeBlocks \cup used) \ {base}
    IN  /\ \A p, q \in blocks : p # q => Extent(p) \cap Extent(q) = {}
        /\ FreeBlocks \cap used = {}
        /\ UNION {Extent(p) : p \in blocks} \subseteq 1 .. brk - 1
        /\ MapThenSumSet(LAMBDA p : heap.size[p], blocks) = brk - 1 - gaps

\* The free list is one circle in address order, with base as its lowest member,
\* and two free blocks never touch: free has joined them, whichever of the two
\* was freed first (umalloc.c:30-42).
UCoalesced ==
    heap.ready =>
        /\ base \in FreeBlocks
        /\ \A p \in FreeBlocks :
             LET above == {q \in FreeBlocks : q > p}
             IN  /\ heap.ptr[p] = IF above = {} THEN base ELSE Min(above)
                 /\ p + heap.size[p] \notin FreeBlocks \ {p}

\* The heap is divided into blocks without loss or overlap, and free neighbours
\* are one block (umalloc.c:23-45, 63-90).
HeapSound == UPartition /\ UCoalesced
=============================================================================
