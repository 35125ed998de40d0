-------------------------------- MODULE Args --------------------------------
(***************************************************************************)
(* The checks between user memory and the kernel: the arguments of system  *)
(* calls (syscall.c: fetchint, fetchstr, argptr) and the initial stack that *)
(* exec builds (exec.c:63-88, with copyout and uva2ka of vm.c).  Addresses *)
(* are machine words: sums wrap around at ADDRS.                           *)
(***************************************************************************)
EXTENDS Naturals, Integers, Sequences, SequencesExt

CONSTANTS ADDRS,        \* the number of addresses (2^32)
          PAGE,         \* PGSIZE
          SPAN,         \* the addresses of a page table
          KTABLES,      \* the kernel has page tables for the addresses from here on
          MAXARG        \* arguments exec takes (param.h)

Wrapped(x) == x % ADDRS

fetchint(addr, sz) == ~(addr >= sz \/ Wrapped(addr + 4) > sz)

\* The address of the nth argument, above the saved program counter.
argint(esp, n, sz) == fetchint(Wrapped(esp + 4 + 4 * n), sz)

\* Variant: the end of the block is compared without its start.
argptr_End(i, size, sz) == ~(size < 0 \/ Wrapped(i + size) > sz)

\* i is the word fetched for the pointer, size an int.
argptr(i, size, sz) == ~(size < 0 \/ i >= sz \/ Wrapped(i + size) > sz)

\* The length of the string at addr, -1 if it does not end below sz; nuls are
\* the addresses that hold a NUL.
fetchstr(addr, sz, nuls) ==
    LET ends == {s \in nuls : addr <= s /\ s < sz}
    IN  IF addr >= sz \/ ends = {} THEN -1
        ELSE (CHOOSE s \in ends : \A t \in ends : s <= t) - addr

-----------------------------------------------------------------------------
(* exec: the stack page ends at sz; the page below it is the guard page.      *)

PageOf(va) == va \div PAGE

HasTable(va, sz) == va \div SPAN <= (sz - 1) \div SPAN \/ va >= KTABLES

\* uva2ka finds a page that is present and has PTE_U, or none.  Where there is no page
\* table it takes the word at address 0 for the entry, and goes astray.
uva2ka(va, sz) ==
    IF ~HasTable(va, sz) THEN "stray"
    ELSE IF va < sz /\ PageOf(va) # PageOf(sz - 2 * PAGE) THEN "page" ELSE "none"

\* The first page that is not there decides.
copyout(va, len, sz) ==
    LET bad == {k \in 0 .. len - 1 : uva2ka(Wrapped(va + k), sz) # "page"}
    IN  IF bad = {} THEN "page"
        ELSE uva2ka(Wrapped(va + (CHOOSE k \in bad : \A j \in bad : k <= j)), sz)

Down4(x) == x - (x % 4)

\* One argument string of len bytes, its NUL included, is pushed.
PushArg(st, len, sz) ==
    LET sp == Down4(Wrapped(st.sp - len + ADDRS))
    IN  [sp |-> sp, argv |-> Append(st.argv, sp),
         res |-> IF Len(st.argv) < MAXARG THEN copyout(sp, len, sz) ELSE "none"]

\* The strings, then the words 0xffffffff, argc, argv, argv[0] .. argv[argc].  exec
\* succeeds if res is "page", fails if it is "none", and may do either when astray.
ExecStack(lens, sz) ==
    LET st == FoldLeft(LAMBDA s, len : IF s.res = "page" THEN PushArg(s, len, sz) ELSE s,
                       [sp |-> sz, argv |-> <<>>, res |-> "page"], lens)
        size == (3 + Len(lens) + 1) * 4
        sp == Wrapped(st.sp - size + ADDRS)
    IN  [res |-> IF st.res = "page" THEN copyout(sp, size, sz) ELSE st.res,
         sp |-> sp, size |-> size, argv |-> st.argv]
=============================================================================
