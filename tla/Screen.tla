------------------------------- MODULE Screen -------------------------------
(***************************************************************************)
(* The two ends of the console hardware: cgaputc of src/console.c, which   *)
(* keeps the screen, and kbdgetc of src/kbd.c, which turns scan codes into *)
(* characters.                                                             *)
(***************************************************************************)
EXTENDS Integers, Sequences

CONSTANTS COLS, LINES    \* 80 and 24: the 25th line only takes the cursor

Cells == 0 .. (LINES + 1) * COLS - 1
Blank == [crt |-> [i \in Cells |-> " "], pos |-> 0, panic |-> FALSE]

Moved(pos, c) ==
    CASE c = "nl" -> pos + (COLS - (pos % COLS))
      [] c = "bs" -> IF pos > 0 THEN pos - 1 ELSE pos
      [] OTHER -> pos + 1

\* Variant: the screen scrolls one line late.
Scrolls_Late(pos) == pos \div COLS > LINES

Scrolls(pos) == pos \div COLS >= LINES

\* All lines move up, and the rest of the last one is cleared.
Scroll(crt, pos) ==
    [i \in Cells |-> CASE i >= pos /\ i < LINES * COLS -> " "
                       [] i < (LINES - 1) * COLS -> crt[i + COLS]
                       [] OTHER -> crt[i]]

cgaputc(s, c) ==
    LET put == IF c \in {"nl", "bs"} THEN s.crt ELSE [s.crt EXCEPT ![s.pos] = c]
        p == Moved(s.pos, c)
        pos == IF Scrolls(p) THEN p - COLS ELSE p
        crt == IF Scrolls(p) THEN Scroll(put, pos) ELSE put
    IN  IF s.panic \/ p < 0 \/ p > (LINES + 1) * COLS THEN [s EXCEPT !.panic = TRUE]
        ELSE [crt |-> [crt EXCEPT ![pos] = " "], pos |-> pos, panic |-> FALSE]

-----------------------------------------------------------------------------
(* A scan code is the prefix or a key with its release bit. *)

E0 == [key |-> "e0", up |-> FALSE]
Scan(key, up) == [key |-> key, up |-> up]

\* shiftcode[], for keys without and with the prefix
shiftcode(key, e0) ==
    CASE key = "shift" /\ ~e0 -> {"SHIFT"}
      [] key = "ctl" -> {"CTL"}
      [] OTHER -> {}

Toggle(set, x) == IF x \in set THEN set \ {x} ELSE set \cup {x}

\* charcode[] for the key of a letter, and CAPSLOCK
Char(key, e0, shift) ==
    LET case1 == IF "SHIFT" \in shift THEN "A" ELSE "a"
    IN  CASE key # "a" \/ e0 -> "NO"
          [] "CTL" \in shift -> "^A"
          [] "CAPSLOCK" \in shift -> IF case1 = "A" THEN "a" ELSE "A"
          [] OTHER -> case1

Unescaped(shift) == shift \ {"E0ESC"}

\* kbdgetc(): the static variable shift after a scan code, and the result
kbdgetc(shift, data) ==
    LET e0 == "E0ESC" \in shift
        on == Unescaped(shift) \cup shiftcode(data.key, e0)
        new == IF data.key = "caps" /\ ~e0 THEN Toggle(on, "CAPSLOCK") ELSE on
    IN  CASE data = E0 -> [shift |-> shift \cup {"E0ESC"}, c |-> "NO"]
          [] data # E0 /\ data.up ->
               [shift |-> shift \ (shiftcode(data.key, e0) \cup {"E0ESC"}), c |-> "NO"]
          [] OTHER -> [shift |-> new, c |-> Char(data.key, e0, new)]
=============================================================================
