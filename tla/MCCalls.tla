------------------------------ MODULE MCCalls ------------------------------
(* The system calls that two processes choose from, for FileSys.            *)

CONSTANTS p1, p2

Abs(names) == [abs |-> TRUE, names |-> names]
Rel(names) == [abs |-> FALSE, names |-> names]
On(op, path) == [op |-> op, path |-> path]
Open(path, create) == [op |-> "open", path |-> path, create |-> create, write |-> TRUE]

A == <<"a">>
AB == <<"a", "b">>

Link(old, new) == [op |-> "link", path |-> old, new |-> new]
Op(op) == [op |-> op]
Two(c1, c2) == [p \in {p1, p2} |-> IF p = p1 THEN c1 ELSE c2]

\* Programs with an inode cache and a file table of n and m entries
Sized(n, m, progs) == {[calls |-> c, ninode |-> n, nfile |-> m] : c \in progs}

\* One process makes and removes a directory and a file in it, and the file's other
\* name; the other gives the file that name, and fails to open the directory for
\* writing, to link it and to remove ".".
Tree == Two({On("mkdir", Abs(A)), On("unlink", Abs(A)), Open(Abs(AB), TRUE), On("unlink", Abs(<<"b">>))},
            {Link(Abs(AB), Abs(<<"b">>)), Open(Abs(A), FALSE), Link(Abs(A), Abs(AB)), On("unlink", Rel(<<".">>))})

\* A file is opened and removed.
Share == Two({On("unlink", Abs(A))}, {Open(Abs(A), TRUE), Op("exit")})

\* The open files are shared with a child, which makes pipes, until the files or the
\* descriptors run out.
Pipes == Two({Open(Abs(A), TRUE), Op("fork")}, {Op("dup"), Op("pipe"), Op("exit")})

\* Links are made to the names "." and ".." of a directory; a file is not entered.
Dots == Two({On("mkdir", Abs(A)), Open(Abs(<<"b">>), TRUE), On("unlink", Abs(A))},
            {Link(Abs(<<"b">>), Abs(<<"a", ".">>)), Link(Abs(<<"b">>), Abs(<<"a", "..">>)),
             On("chdir", Abs(<<"b">>))})

\* A device file is made, opened and removed.
Device == Two({On("mknod", Abs(A)), On("unlink", Abs(A))}, {Open(Abs(A), FALSE), Op("fstat")})

\* Directories are made, entered and removed on both sides, until the inodes run out.
Race == Two({On("mkdir", Abs(A)), On("unlink", Abs(A))},
            {On("mkdir", Abs(AB)), On("unlink", Abs(AB)), On("chdir", Abs(AB)), On("chdir", Rel(<<"..">>))})

\* All inodes fit the larger cache; the smaller one runs full.  The calls of Pipes take
\* files for which there is no descriptor left.
SafePrograms ==
    Sized(3, 2, {Tree, Share, Dots, Device, Race}) \cup Sized(2, 3, {Pipes}) \cup Sized(2, 2, {Tree, Dots})

\* The loop of the test linkunlink: create, link and unlink "a" in any order, with "b"
\* for the file "cat" (usertests.c:870-879).
Mix == {Open(Rel(A), TRUE), Link(Rel(<<"b">>), Rel(A)), On("unlink", Rel(A))}
LinkUnlink == Sized(3, 2, {Two(Mix \cup {Open(Rel(<<"b">>), TRUE)}, Mix)})
=============================================================================
