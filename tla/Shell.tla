------------------------------- MODULE Shell -------------------------------
(***************************************************************************)
(* The shell (sh.c): the tokenizer, the recursive-descent parser,          *)
(* nulterminate, and the file descriptors that runcmd arranges with fork,  *)
(* pipe, dup, close and open before each exec.                             *)
(*                                                                         *)
(* A line is a sequence of characters; "a" stands for every character that *)
(* is neither white space nor a symbol.  A word is the pair <<q, eq>> of   *)
(* its first position and the position behind it.  The panics of the       *)
(* parser, which end the process, make the result's ok FALSE.              *)
(***************************************************************************)
EXTENDS Naturals, Integers, Sequences, SequencesExt, FiniteSets

CONSTANTS MAXARGS,  \* the size of argv in struct execcmd
          NOFILE    \* descriptors of a process (param.h)

whitespace == {" "}
symbols == {"<", "|", ">", "&", ";", "(", ")"}

-----------------------------------------------------------------------------
(* Tokens *)

\* The first position from i on whose character is not in C.
Skip(s, i, C) ==
    LET stops == {j \in i .. Len(s) : s[j] \notin C}
    IN  IF stops = {} THEN Len(s) + 1 ELSE CHOOSE j \in stops : \A k \in stops : j <= k

Char(s, i) == IF i <= Len(s) THEN s[i] ELSE "0"

\* The token at i, the word it is, and the position of what follows it.
gettoken(s, i) ==
    LET q == Skip(s, i, whitespace)
        c == Char(s, q)
        eq == CASE c = "0" -> q
                [] c = ">" /\ Char(s, q + 1) = ">" -> q + 2
                [] c \in symbols -> q + 1
                [] OTHER -> Skip(s, q, {"a"})
    IN  [tok |-> IF eq = q + 2 /\ c = ">" THEN "+" ELSE c,
         word |-> <<q, eq>>, next |-> Skip(s, eq, whitespace)]

peek(s, i, toks) == Char(s, Skip(s, i, whitespace)) \in toks

-----------------------------------------------------------------------------
(* Constructors *)

execcmd(argv) == [type |-> "EXEC", argv |-> argv]
redircmd(cmd, file, fd) == [type |-> "REDIR", cmd |-> cmd, file |-> file, fd |-> fd]
pipecmd(left, right) == [type |-> "PIPE", left |-> left, right |-> right]
listcmd(left, right) == [type |-> "LIST", left |-> left, right |-> right]
backcmd(cmd) == [type |-> "BACK", cmd |-> cmd]

-----------------------------------------------------------------------------
(* The parser: each operator takes the line and a position, and returns the   *)
(* command it recognised and the position behind it.                         *)

Fails(i) == [ok |-> FALSE, cmd |-> execcmd(<<>>), next |-> i]
Result(cmd, i) == [ok |-> TRUE, cmd |-> cmd, next |-> i]

\* The redirections from i on, in the order of the line.
RECURSIVE Redirs(_, _, _)
Redirs(s, i, found) ==
    IF ~peek(s, i, {"<", ">"}) THEN [ok |-> TRUE, redirs |-> found, next |-> i]
    ELSE LET op == gettoken(s, i)
             file == gettoken(s, op.next)
         IN  IF file.tok # "a" THEN [ok |-> FALSE, redirs |-> found, next |-> i]
             ELSE Redirs(s, file.next,
                         Append(found, [file |-> file.word, fd |-> IF op.tok = "<" THEN 0 ELSE 1]))

\* Each further redirection goes around the command that has the earlier ones.
Wrap(cmd, redirs) == FoldLeft(LAMBDA c, r : redircmd(c, r.file, r.fd), cmd, redirs)

parseredirs(s, r) ==
    LET d == Redirs(s, r.next, <<>>)
    IN  IF ~d.ok THEN Fails(d.next) ELSE Result(Wrap(r.cmd, d.redirs), d.next)

\* The loop of parseexec: the arguments go into the EXEC node, the
\* redirections met on the way around it.
RECURSIVE Args(_, _, _, _)
Args(s, i, argv, redirs) ==
    LET d == Redirs(s, i, redirs)
        t == gettoken(s, d.next)
    IN  IF ~d.ok \/ Len(argv) >= MAXARGS THEN Fails(i)
        ELSE IF peek(s, d.next, {"|", ")", "&", ";"}) \/ t.tok = "0"
        THEN Result(Wrap(execcmd(argv), d.redirs), d.next)
        ELSE IF t.tok # "a" THEN Fails(i)
        ELSE Args(s, t.next, Append(argv, t.word), d.redirs)

RECURSIVE parseline(_, _)
RECURSIVE parsepipe(_, _)
RECURSIVE Background(_, _)

parseblock(s, i) ==
    LET Closing(r) == IF ~r.ok \/ ~peek(s, r.next, {")"}) THEN Fails(i)
                    ELSE parseredirs(s, [r EXCEPT !.next = gettoken(s, r.next).next])
    IN  Closing(parseline(s, gettoken(s, i).next))

parseexec(s, i) ==
    IF peek(s, i, {"("}) THEN parseblock(s, i) ELSE Args(s, i, <<>>, <<>>)

parsepipe(s, i) ==
    LET Pipe(left, right) == IF ~right.ok THEN right
                             ELSE Result(pipecmd(left.cmd, right.cmd), right.next)
        From(left) == IF ~left.ok \/ ~peek(s, left.next, {"|"}) THEN left
                      ELSE Pipe(left, parsepipe(s, gettoken(s, left.next).next))
    IN  From(parseexec(s, i))

\* The loop of parseline over the ampersands.
Background(s, r) ==
    IF ~r.ok \/ ~peek(s, r.next, {"&"}) THEN r
    ELSE Background(s, Result(backcmd(r.cmd), gettoken(s, r.next).next))

parseline(s, i) ==
    LET List(left, right) == IF ~right.ok THEN right
                             ELSE Result(listcmd(left.cmd, right.cmd), right.next)
        From(left) == IF ~left.ok \/ ~peek(s, left.next, {";"}) THEN left
                      ELSE List(left, parseline(s, gettoken(s, left.next).next))
    IN  From(Background(s, parsepipe(s, i)))

parsecmd(s) ==
    LET Whole(r) == IF r.ok /\ Skip(s, r.next, whitespace) # Len(s) + 1 THEN Fails(r.next) ELSE r
    IN  Whole(parseline(s, 1))

\* *rcmd->efile = 0
FileEnd(cmd) == {cmd.file[2]}

\* The positions of the line that nulterminate overwrites with a NUL.
RECURSIVE nulterminate(_)
nulterminate(cmd) ==
    CASE cmd.type = "EXEC" -> {w[2] : w \in ToSet(cmd.argv)}
      [] cmd.type = "REDIR" -> nulterminate(cmd.cmd) \cup FileEnd(cmd)
      [] cmd.type \in {"PIPE", "LIST"} -> nulterminate(cmd.left) \cup nulterminate(cmd.right)
      [] cmd.type = "BACK" -> nulterminate(cmd.cmd)

-----------------------------------------------------------------------------
(* Running a command.  A descriptor table maps each descriptor to what it is  *)
(* open on: "tty", a file, or the end of a pipe.  A process is named by the   *)
(* path of forks that leads to it.                                           *)

Closed == <<"closed">>
Lowest(fds) == CHOOSE d \in 0 .. NOFILE - 1 :
                   fds[d] = Closed /\ \A e \in 0 .. d - 1 : fds[e] # Closed

Close(fds, d) == [fds EXCEPT ![d] = Closed]
Open(fds, obj) == [fds EXCEPT ![Lowest(fds)] = obj]
Dup(fds, d) == Open(fds, fds[d])

\* Variant: the waiting parent keeps its descriptors of the pipe.
PipeParent_Keeps(fds, rd, wr) == fds

PipeParent(fds, rd, wr) == Close(Close(fds, rd), wr)

\* What the child of a pipe does: fd becomes the end p of the pipe.
PipeChild(fds, fd, p, rd, wr) == Close(Close(Dup(Close(fds, fd), p), rd), wr)

\* The processes of a command, each with the descriptors it holds when it calls
\* exec, or while it waits for its children.
RECURSIVE runcmd(_, _, _)
runcmd(cmd, fds, me) ==
    CASE cmd.type = "EXEC" ->
           IF cmd.argv = <<>> THEN {} ELSE {[id |-> me, runs |-> TRUE, fds |-> fds]}
      [] cmd.type = "REDIR" ->
           runcmd(cmd.cmd, Open(Close(fds, cmd.fd), <<"file", cmd.file>>), me)
      [] cmd.type = "LIST" ->
           {[id |-> me, runs |-> FALSE, fds |-> fds]}
             \cup runcmd(cmd.left, fds, Append(me, "l")) \cup runcmd(cmd.right, fds, Append(me, "r"))
      [] cmd.type = "PIPE" ->
           LET rd == Lowest(fds)
               fds1 == Open(fds, <<"read", me>>)
               wr == Lowest(fds1)
               fds2 == Open(fds1, <<"write", me>>)
           IN  {[id |-> me, runs |-> FALSE, fds |-> PipeParent(fds2, rd, wr)]}
                 \cup runcmd(cmd.left, PipeChild(fds2, 1, wr, rd, wr), Append(me, "w"))
                 \cup runcmd(cmd.right, PipeChild(fds2, 0, rd, rd, wr), Append(me, "r"))
      [] cmd.type = "BACK" -> runcmd(cmd.cmd, fds, Append(me, "b"))

\* The shell itself has 0, 1 and 2 open on the console.
Terminal == [d \in 0 .. NOFILE - 1 |-> IF d \in 0 .. 2 THEN <<"tty">> ELSE Closed]
=============================================================================
