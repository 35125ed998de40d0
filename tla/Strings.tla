------------------------------ MODULE Strings ------------------------------
(***************************************************************************)
(* The string and memory functions of the kernel (string.c, util.c) and of *)
(* the user library (ulib.c), and the name handling of directories that    *)
(* rests on them (skipelem and namecmp of fs.c, DIRSIZ).                    *)
(*                                                                         *)
(* Memory is a function from addresses to bytes; a C string is a sequence  *)
(* of bytes whose first NUL ends it.                                        *)
(***************************************************************************)
EXTENDS Naturals, Integers, Sequences, SequencesExt

CONSTANT DIRSIZ     \* the length of a name in a directory entry (fs.h)

NUL == 0
SLASH == 47

-----------------------------------------------------------------------------
(* Memory *)

\* The order in which a loop of n iterations visits the offsets 0..n-1.
Up(n) == [i \in 1 .. n |-> i - 1]
Down(n) == Reverse(Up(n))

CopyBytes(mem, dst, src, offsets) ==
    FoldLeft(LAMBDA m, i : [m EXCEPT ![dst + i] = m[src + i]], mem, offsets)

memmove(mem, dst, src, n) ==
    CopyBytes(mem, dst, src, IF src < dst /\ src + n > dst THEN Down(n) ELSE Up(n))

\* memmove of the user library always copies upwards.
umemmove(mem, dst, src, n) == CopyBytes(mem, dst, src, Up(n))

-----------------------------------------------------------------------------
(* Strings *)

\* The number of iterations of a loop that runs while Goes(i) holds of the
\* offset i, and at most n times.
Iterations(n, Goes(_)) ==
    CHOOSE i \in 0 .. n : (i = n \/ ~Goes(i)) /\ \A j \in 0 .. i - 1 : Goes(j)

At(s, i) == s[i + 1]

strncmp(p, q, n) ==
    LET i == Iterations(n, LAMBDA k : At(p, k) # NUL /\ At(p, k) = At(q, k))
    IN  IF i = n THEN 0 ELSE At(p, i) - At(q, i)

\* Variant: the loop stops before it has stored the NUL, and the padding
\* starts one byte too late.
strncpy_Pad(s, t, n) ==
    LET copied == Iterations(n, LAMBDA i : At(t, i) # NUL)
    IN  [i \in 1 .. Len(s) |-> IF i <= copied THEN t[i]
                               ELSE IF copied + 1 < i /\ i <= n THEN NUL ELSE s[i]]

\* The iteration that stores the NUL counts as one of the n.
strncpy(s, t, n) ==
    LET z == Iterations(n, LAMBDA i : At(t, i) # NUL)
        copied == IF z < n THEN z + 1 ELSE n
        padded == copied + (n - copied)
    IN  [i \in 1 .. Len(s) |-> IF i <= copied THEN t[i]
                               ELSE IF i <= padded THEN NUL ELSE s[i]]

\* s is left behind the NUL that ends the loop, or behind the n-1st byte, and
\* one more NUL is stored there.
safestrcpy(s, t, n) ==
    LET z == Iterations(n - 1, LAMBDA i : At(t, i) # NUL)
        copied == IF z < n - 1 THEN z + 1 ELSE n - 1
    IN  IF n <= 0 THEN s
        ELSE [i \in 1 .. Len(s) |-> IF i <= copied THEN t[i]
                                    ELSE IF i = copied + 1 THEN NUL ELSE s[i]]

IsDigit(c) == c \in 48 .. 57

atoi(s) ==
    LET digits == SubSeq(s, 1, Iterations(Len(s), LAMBDA i : IsDigit(At(s, i))))
    IN  FoldLeft(LAMBDA n, c : n * 10 + (c - 48), 0, digits)

-----------------------------------------------------------------------------
(* Path elements *)

Slashes(path) == Iterations(Len(path), LAMBDA i : At(path, i) = SLASH)

Drop(path, n) == SubSeq(path, n + 1, Len(path))

\* The element that skipelem copies into the buffer `name`, which keeps what it
\* held behind the NUL.
CopyName(name, elem) ==
    [i \in 1 .. DIRSIZ |-> IF i <= Len(elem) THEN elem[i]
                           ELSE IF i = Len(elem) + 1 THEN NUL ELSE name[i]]

skipelem(path, name) ==
    LET p == Drop(path, Slashes(path))
        len == Iterations(Len(p), LAMBDA i : At(p, i) \notin {SLASH, NUL})
        rest == Drop(p, len)
    IN  IF p[1] = NUL THEN [ok |-> FALSE, path |-> p, name |-> name]
        ELSE [ok |-> TRUE, path |-> Drop(rest, Slashes(rest)),
              name |-> CopyName(name, SubSeq(p, 1, len))]

namecmp(s, t) == strncmp(s, t, DIRSIZ)

\* The names that namex meets on its way along a path, in one buffer.
Names[path \in Seq(Nat), name \in Seq(Nat)] ==
    LET r == skipelem(path, name)
    IN  IF ~r.ok THEN <<>> ELSE <<r.name>> \o Names[r.path, r.name]
=============================================================================
