------------------------------ MODULE Console ------------------------------
(***************************************************************************)
(* The console of src/console.c: the interrupt handler that edits lines in *)
(* the input ring, processes that read lines and write text, and kill().   *)
(* A process holds cons.lock between the steps of a call; the handler runs *)
(* in one step when the lock is free, one key at a time.                   *)
(***************************************************************************)
EXTENDS Integers, Sequences, Processes

CONSTANTS INPUT_BUF,
          ConsWrap,   \* 2^32, a multiple of INPUT_BUF: r, w and e are uint
          ConsN       \* bound: greatest n of a read or write call

ASSUME ConsoleConstants ==
  /\ INPUT_BUF \in Nat \ {0}
  /\ ConsWrap \in Nat /\ ConsWrap % INPUT_BUF = 0 /\ INPUT_BUF < ConsWrap
  /\ ConsN \in Nat

VARIABLES
  buf, r, w, e,   \* input
  conslock,       \* the process that holds cons.lock
  cpc,            \* where a process is
  n, took,        \* n, and target - n, of a call
  ckilled,        \* p->killed
  mixed           \* a character was put into the text of another's write

input == <<buf, r, w, e>>
cvars == <<input, conslock, cpc, n, took, ckilled, mixed>>

\* What arrives in the ring, and the keys the handler acts upon.
Typed == {"a", "nl", "eot"}
Keys == Typed \cup {"cr", "bs", "kill"}

CTypeOK ==
  /\ buf \in [0..(INPUT_BUF - 1) -> Typed]
  /\ r \in 0..(ConsWrap - 1) /\ w \in 0..(ConsWrap - 1) /\ e \in 0..(ConsWrap - 1)
  /\ conslock \in Procs \cup {NoProc}
  /\ cpc \in [Procs -> {"idle", "read", "loop", "sleep", "asleep",
                        "write", "put"}]
  /\ n \in [Procs -> 0..ConsN] /\ took \in [Procs -> 0..ConsN]
  /\ ckilled \in [Procs -> BOOLEAN]
  /\ mixed \in BOOLEAN

CInit ==
  /\ buf = [i \in 0..(INPUT_BUF - 1) |-> "a"]
  /\ r = 0 /\ w = 0 /\ e = 0
  /\ conslock = NoProc
  /\ cpc = [p \in Procs |-> "idle"]
  /\ n = [p \in Procs |-> 0] /\ took = [p \in Procs |-> 0]
  /\ ckilled = [p \in Procs |-> FALSE]
  /\ mixed = FALSE

-----------------------------------------------------------------------------
(* the handler *)

\* consputc() by the handler or by p: writers other than p are in the midst
\* of their text.
consputc(p) == mixed' = (mixed \/ \E q \in Procs \ {p} : cpc[q] = "put")

Inc(i) == (i + 1) % ConsWrap
Dec(i) == (i - 1) % ConsWrap
Distance(i, j) == (j - i) % ConsWrap

\* The line with the character c just stored before i goes to the readers.
HandOver(c, i) == c \in {"nl", "eot"} \/ i = (r + INPUT_BUF) % ConsWrap

\* Variant: the line goes to the readers and nobody is told.
Readers_Nobody == cpc

\* wakeup(&input.r)
Readers == [p \in Procs |-> IF cpc[p] = "asleep" THEN "read" ELSE cpc[p]]

Insert(c) ==
  IF Distance(r, e) < INPUT_BUF
  THEN /\ buf' = [buf EXCEPT ![e % INPUT_BUF] = c]
       /\ e' = Inc(e)
       /\ consputc(NoProc)
       /\ IF HandOver(c, Inc(e)) THEN w' = Inc(e) /\ cpc' = Readers
                                 ELSE UNCHANGED <<w, cpc>>
  ELSE UNCHANGED <<buf, w, e, cpc, mixed>>

Editable == e # w

\* The start of the line being typed: after the last newline, or w.
LineStart ==
  LET stops == {k \in 0..(Distance(w, e) - 1) :
                  buf[((w + k) % ConsWrap) % INPUT_BUF] = "nl"}
  IN  IF stops = {} THEN w
      ELSE (w + 1 + (CHOOSE k \in stops : \A j \in stops : j <= k)) % ConsWrap

\* consoleintr() for one key (^P only lists the processes)
consoleintr(c) ==
  /\ conslock = NoProc
  /\ \/ /\ c = "kill" /\ e' = LineStart
        /\ IF e' = e THEN mixed' = mixed ELSE consputc(NoProc)
        /\ UNCHANGED <<buf, w, cpc>>
     \/ /\ c = "bs"
        /\ IF Editable THEN e' = Dec(e) /\ consputc(NoProc)
                       ELSE UNCHANGED <<e, mixed>>
        /\ UNCHANGED <<buf, w, cpc>>
     \/ /\ c \notin {"kill", "bs"}
        /\ Insert(IF c = "cr" THEN "nl" ELSE c)
  /\ UNCHANGED <<r, conslock, n, took, ckilled>>

-----------------------------------------------------------------------------
(* processes *)

\* A process enters consoleread() or consolewrite() with k bytes to move.
Call(p, where, k) ==
  /\ cpc[p] = "idle" /\ ~ckilled[p]
  /\ cpc' = [cpc EXCEPT ![p] = where]
  /\ n' = [n EXCEPT ![p] = k]
  /\ UNCHANGED <<input, conslock, took, ckilled, mixed>>

\* acquire(&cons.lock)
Acquire(p) == conslock = NoProc /\ conslock' = p

\* acquire() at the start of a call, or at the end of sleep()
Lock(p) ==
  /\ cpc[p] \in {"read", "write"}
  /\ Acquire(p)
  /\ cpc' = [cpc EXCEPT ![p] = IF @ = "read" THEN "loop" ELSE "put"]
  /\ UNCHANGED <<input, n, took, ckilled, mixed>>

Return(p) ==
  /\ cpc' = [cpc EXCEPT ![p] = "idle"]
  /\ n' = [n EXCEPT ![p] = 0] /\ took' = [took EXCEPT ![p] = 0]
  /\ conslock' = IF conslock = p THEN NoProc ELSE conslock

\* Variant: an end of file found behind other characters is dropped.
SaveEof_Never(p) == FALSE

\* "Save ^D for next time, to make sure caller gets a 0-byte result."
SaveEof(p) == took[p] > 0

\* One turn of consoleread's loop.
consoleread(p) ==
  LET c == buf[r % INPUT_BUF] IN
  /\ cpc[p] = "loop"
  /\ \/ /\ n[p] = 0
        /\ Return(p) /\ UNCHANGED r
     \/ /\ n[p] > 0 /\ r = w /\ ckilled[p]
        /\ Return(p) /\ UNCHANGED r
     \/ /\ n[p] > 0 /\ r = w /\ ~ckilled[p]
        /\ cpc' = [cpc EXCEPT ![p] = "sleep"]
        /\ UNCHANGED <<r, n, took, conslock>>
     \/ /\ n[p] > 0 /\ r # w /\ c = "eot"
        /\ r' = IF SaveEof(p) THEN r ELSE Inc(r)
        /\ Return(p)
     \/ /\ n[p] > 0 /\ r # w /\ c # "eot"
        /\ r' = Inc(r)
        /\ took' = [took EXCEPT ![p] = @ + 1]
        /\ n' = [n EXCEPT ![p] = IF c = "nl" THEN 0 ELSE @ - 1]
        /\ UNCHANGED <<cpc, conslock>>
  /\ UNCHANGED <<buf, w, e, ckilled, mixed>>

\* sleep(&input.r, &cons.lock)
Sleep(p) ==
  /\ cpc[p] = "sleep"
  /\ cpc' = [cpc EXCEPT ![p] = "asleep"]
  /\ conslock' = NoProc
  /\ UNCHANGED <<input, n, took, ckilled, mixed>>

\* One turn of consolewrite's loop.
consolewrite(p) ==
  /\ cpc[p] = "put"
  /\ IF n[p] = 0
     THEN Return(p) /\ mixed' = mixed
     ELSE /\ n' = [n EXCEPT ![p] = @ - 1]
          /\ consputc(p)
          /\ UNCHANGED <<cpc, took, conslock>>
  /\ UNCHANGED <<input, ckilled>>

\* kill() of src/proc.c
ckill(p) ==
  /\ ckilled' = [ckilled EXCEPT ![p] = TRUE]
  /\ cpc' = [cpc EXCEPT ![p] = IF @ = "asleep" THEN "read" ELSE @]
  /\ UNCHANGED <<input, conslock, n, took, mixed>>

CNext ==
  \/ \E c \in Keys : consoleintr(c)
  \/ \E p \in Procs :
       \/ \E k \in 1..ConsN : Call(p, "read", k) \/ Call(p, "write", k)
       \/ Lock(p) \/ consoleread(p) \/ Sleep(p) \/ consolewrite(p)
       \/ ckill(p)

CSpec == CInit /\ [][CNext]_cvars

-----------------------------------------------------------------------------
Chars(i, j) == [k \in 1..Distance(i, j) |->
                  buf[((i + k - 1) % ConsWrap) % INPUT_BUF]]

Lines == INSTANCE LineBuffer WITH
  ready <- Chars(r, w), edit <- Chars(w, e), SIZE <- INPUT_BUF

\* The ring implements the line buffer, across the wrap of its indices: no
\* character typed is lost, repeated, reordered or taken back once handed
\* over, and a ^D behind other characters is kept for the next read.
LineDiscipline == Lines!Spec

\* A reader sleeps only on an empty ring: consoleintr's wakeup reaches every
\* reader, and a ring that is full has been handed over, so typing can go on.
InputNotMissed ==
  /\ \A p \in Procs : cpc[p] = "asleep" => r = w
  /\ Distance(r, e) = INPUT_BUF => w = e

\* The text of one consolewrite is not interrupted by another's or by echo.
WritesWhole == ~mixed

\* Readers, writers and the interrupt handler share the console without losing
\* each other's input or mixing output (console.c:193-289).
ConsoleShared == CTypeOK /\ InputNotMissed /\ WritesWhole
=============================================================================
