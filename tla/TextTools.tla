----------------------------- MODULE TextTools -----------------------------
(***************************************************************************)
(* The text filters grep (grep.c) and wc (wc.c).  A text is a sequence of  *)
(* characters; the NUL that ends a string is the end of the sequence.      *)
(***************************************************************************)
EXTENDS Naturals, Integers, Sequences, SequencesExt, FiniteSets

CONSTANT BUFSIZE    \* the size of grep's buffer (grep.c:7)

NL == "n"
Spaces == {" ", NL}

Rest(s, n) == SubSeq(s, n + 1, Len(s))
Least(S) == CHOOSE i \in S : \A j \in S : i <= j

-----------------------------------------------------------------------------
(* The pattern matcher *)

Matches(c, t) == c = "." \/ c = t

\* matchstar tries the rest of the pattern after 0, 1, ... characters that c
\* matches.
Run(c, text) ==
    LET stops == {i \in 0 .. Len(text) - 1 : ~Matches(c, text[i + 1])}
    IN  IF stops = {} THEN Len(text) ELSE Least(stops)

matchhere[re \in Seq(STRING), text \in Seq(STRING)] ==
    IF re = <<>> THEN TRUE
    ELSE IF Len(re) > 1 /\ re[2] = "*"
    THEN \E i \in 0 .. Run(re[1], text) : matchhere[Rest(re, 2), Rest(text, i)]
    ELSE IF re = <<"$">> THEN text = <<>>
    ELSE /\ text # <<>>
         /\ Matches(re[1], text[1])
         /\ matchhere[Tail(re), Tail(text)]

match(re, text) ==
    IF re # <<>> /\ re[1] = "^" THEN matchhere[Tail(re), text]
    ELSE \E i \in 0 .. Len(text) : matchhere[re, Rest(text, i)]

\* What a pattern means, without backtracking: the set of positions of the
\* text that can be reached from the positions `at` by matching all of re.
Reach[re \in Seq(STRING), text \in Seq(STRING), at \in SUBSET Nat] ==
    IF re = <<>> THEN at
    ELSE IF Len(re) > 1 /\ re[2] = "*"
    THEN Reach[Rest(re, 2), text,
               {j \in 0 .. Len(text) :
                   \E i \in at : i <= j /\ \A k \in i + 1 .. j : Matches(re[1], text[k])}]
    ELSE IF re = <<"$">> THEN at \cap {Len(text)}
    ELSE Reach[Tail(re), text,
               {i + 1 : i \in {k \in at : k < Len(text) /\ Matches(re[1], text[k + 1])}}]

Selects(re, text) ==
    IF re # <<>> /\ re[1] = "^" THEN Reach[Tail(re), text, {0}] # {}
    ELSE Reach[re, text, 0 .. Len(text)] # {}

-----------------------------------------------------------------------------
(* The loop over the file *)

Newlines(s) == {i \in 1 .. Len(s) : s[i] = NL}

\* The terminated lines of a text, without their newline.
Lines[s \in Seq(STRING)] ==
    IF Newlines(s) = {} THEN <<>>
    ELSE LET q == Least(Newlines(s))
         IN  <<SubSeq(s, 1, q - 1)>> \o Lines[Rest(s, q)]

\* What follows the last newline of the buffer.
Unfinished(s) ==
    LET q == CHOOSE i \in Newlines(s) : \A j \in Newlines(s) : j <= i
    IN  Rest(s, q)

\* Variant: the unfinished line is dropped also when complete ones precede it.
Kept_Nothing(buf) == <<>>

\* What moves to the start of the buffer for the next read: nothing at all when
\* the buffer holds no newline.
Kept(buf) == IF Newlines(buf) = {} THEN <<>> ELSE Unfinished(buf)

\* The contents of grep's buffer after each read, with `left` characters in it and
\* `file` still to be read.  A read fills the buffer unless the file ends; from a pipe
\* or a terminal it may return less, short[1] the first time, and so on.
Buffers[left \in Seq(STRING), file \in Seq(STRING), short \in Seq(Nat)] ==
    LET n == Least({BUFSIZE - Len(left) - 1, Len(file)} \cup {short[i] : i \in DOMAIN short \cap {1}})
        buf == left \o SubSeq(file, 1, n)
    IN  IF n = 0 THEN <<>>
        ELSE <<buf>> \o Buffers[Kept(buf), Rest(file, n), Rest(short, 1)]

\* The lines that grep prints
grep(re, file, short) ==
    FlattenSeq([i \in DOMAIN Buffers[<<>>, file, short] |->
        SelectSeq(Lines[Buffers[<<>>, file, short][i]], LAMBDA line : match(re, line))])

-----------------------------------------------------------------------------
\* One character of wc's loop; inword lasts from one read to the next.
wcstep(r, c) ==
    [c |-> r.c + 1, l |-> r.l + (IF c = NL THEN 1 ELSE 0),
     w |-> IF c \notin Spaces /\ ~r.inword THEN r.w + 1 ELSE r.w,
     inword |-> c \notin Spaces]

wc(text) == FoldLeft(wcstep, [l |-> 0, w |-> 0, c |-> 0, inword |-> FALSE], text)
=============================================================================
