------------------------------- MODULE Printf -------------------------------
(***************************************************************************)
(* Formatted output: cprintf of the kernel (console.c) and printf of the   *)
(* user library (printf.c), each with its own printint.  Output is a       *)
(* sequence of pairs: a digit <<"n", c>>, a character <<"c", c>> or the    *)
(* string <<"s", p>> at p; an argument is a machine word.                  *)
(***************************************************************************)
EXTENDS Naturals, Integers, Sequences, SequencesExt

CONSTANT WORD       \* the number of values of a uint (2^32)

Signed(x) == IF x >= WORD \div 2 THEN x - WORD ELSE x

\* The digits of printf.c and those of console.c
UPPER == <<"0", "1", "2", "3", "4", "5", "6", "7", "8", "9", "A", "B", "C", "D", "E", "F">>
LOWER == <<"0", "1", "2", "3", "4", "5", "6", "7", "8", "9", "a", "b", "c", "d", "e", "f">>

\* x % base and x /= base until nothing is left; the last digit comes first.
Digits[x \in Nat, base \in Nat, digits \in {UPPER, LOWER}] ==
    <<<<"n", digits[(x % base) + 1]>>>>
    \o (IF x \div base = 0 THEN <<>> ELSE Digits[x \div base, base, digits])

\* -xx is taken modulo WORD, so that the smallest int is its own negation.
printint(xx, base, sgn) ==
    LET neg == sgn /\ Signed(xx) < 0
        x == IF neg THEN (WORD - xx) % WORD ELSE xx
    IN  Reverse(Digits[x, base, UPPER] \o (IF neg THEN <<<<"c", "-">>>> ELSE <<>>))

\* printint of console.c keeps the sign in the parameter `sign` itself.
cprintint(xx, base, sign) ==
    LET neg == IF sign THEN Signed(xx) < 0 ELSE FALSE
        x == IF neg THEN (WORD - xx) % WORD ELSE xx
    IN  Reverse(Digits[x, base, LOWER] \o (IF neg THEN <<<<"c", "-">>>> ELSE <<>>))

\* A null pointer is printed as (null), which stands for its six characters.
Chars(arg) == IF arg = 0 THEN <<<<"c", "(null)">>>> ELSE <<<<"s", arg>>>>

Arg(args, n) == args[n + 1]

-----------------------------------------------------------------------------
\* What cprintf prints for fmt from position i on, with n arguments consumed.
cprintf[fmt \in Seq(STRING), args \in Seq(Nat), i \in Nat, n \in Nat] ==
    LET c == fmt[i + 1]
        Go(out, used) ==
            LET r == cprintf[fmt, args, i + 2, n + used]
            IN  [out |-> out \o r.out, used |-> r.used]
    IN  IF i > Len(fmt) THEN [out |-> <<>>, used |-> n]
        ELSE IF fmt[i] # "%"
        THEN LET r == cprintf[fmt, args, i + 1, n]
             IN  [out |-> <<<<"c", fmt[i]>>>> \o r.out, used |-> r.used]
        ELSE IF i = Len(fmt) THEN [out |-> <<>>, used |-> n]
        ELSE CASE c = "d" -> Go(cprintint(Arg(args, n), 10, TRUE), 1)
               [] c \in {"x", "p"} -> Go(cprintint(Arg(args, n), 16, FALSE), 1)
               [] c = "s" -> Go(Chars(Arg(args, n)), 1)
               [] c = "%" -> Go(<<<<"c", "%">>>>, 0)
               [] OTHER -> Go(<<<<"c", "%">>, <<"c", c>>>>, 0)

\* One character of printf's loop; state is "%" after a per cent sign.
PrintfStep(r, c, args) ==
    LET Emit(out, used) == [r EXCEPT !.out = @ \o out, !.used = @ + used, !.state = "0"]
    IN  IF r.state = "0"
        THEN IF c = "%" THEN [r EXCEPT !.state = "%"] ELSE [r EXCEPT !.out = Append(@, <<"c", c>>)]
        ELSE CASE c = "d" -> Emit(printint(Arg(args, r.used), 10, TRUE), 1)
               [] c \in {"x", "p"} -> Emit(printint(Arg(args, r.used), 16, FALSE), 1)
               [] c = "s" -> Emit(Chars(Arg(args, r.used)), 1)
               [] c = "c" -> Emit(<<<<"b", Arg(args, r.used)>>>>, 1)
               [] c = "%" -> Emit(<<<<"c", c>>>>, 0)
               [] OTHER -> Emit(<<<<"c", "%">>, <<"c", c>>>>, 0)

printf(fmt, args) ==
    FoldLeft(LAMBDA r, c : PrintfStep(r, c, args),
             [out |-> <<>>, used |-> 0, state |-> "0"], fmt)
=============================================================================
