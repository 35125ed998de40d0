------------------------------ MODULE FileData ------------------------------
(***************************************************************************)
(* The contents of inodes (fs.c: balloc, bfree, bmap, itrunc, readi,       *)
(* writei, iupdate) and the read and write calls on them (fileread and     *)
(* filewrite of file.c).  Each step is one transaction under the inode's   *)
(* lock.  A block is an array of BSIZE cells, each a byte or, in an        *)
(* indirect block, a block number.  `file` is what the inode should hold.  *)
(***************************************************************************)
EXTENDS Integers, Sequences, SequencesExt, FiniteSets, FsParams

CONSTANTS Inodes,
          NBLOCKS,      \* data blocks of the disk
          MAXBLOCKS,    \* blocks a call may log (MAXOPBLOCKS)
          Data,         \* Data[i]: the bytes written to inode i
          Lengths       \* Lengths[i]: the lengths of writes and reads of inode i

VARIABLES inode,        \* the in-memory inodes: size and addrs
          dinode,       \* the inodes on disk
          blocks,       \* the data blocks
          bitmap,       \* the blocks in use
          off,          \* the offset of the open file on each inode
          file,         \* ghost: the contents each inode should have
          fdpanic       \* the panic reached, "" if none
fdvars == <<inode, dinode, blocks, bitmap, off, file, fdpanic>>

Blocks == 1 .. NBLOCKS
Zeroes == [c \in 0 .. BSIZE - 1 |-> 0]
\* What a free block holds is of no account: one value stands for all.
Garbage == [c \in 0 .. BSIZE - 1 |-> 99]
NoContents == [size |-> 0, addrs |-> [n \in 0 .. NDIRECT |-> 0]]

FDInit ==
    /\ inode = [i \in Inodes |-> NoContents] /\ dinode = inode
    /\ blocks = [b \in Blocks |-> Garbage] /\ bitmap = {}
    /\ off = [i \in Inodes |-> 0] /\ file = [i \in Inodes |-> <<>>]
    /\ fdpanic = ""

-----------------------------------------------------------------------------
(* A transaction works on a record: the inode ip, the blocks, the bitmap,     *)
(* what it has logged, and the panic it ran into.                            *)

Begin(i) == [ip |-> inode[i], dip |-> dinode[i], blk |-> blocks, map |-> bitmap,
             log |-> {}, panic |-> ""]

\* Block 0 stands for the bitmap block.
balloc(t) ==
    LET b == CHOOSE x \in Blocks \ t.map : \A y \in Blocks \ t.map : x <= y
    IN  IF t.map = Blocks THEN [t |-> [t EXCEPT !.panic = "balloc"], addr |-> 1]
        ELSE [t |-> [t EXCEPT !.map = @ \cup {b}, !.blk[b] = Zeroes, !.log = @ \cup {0, b}],
              addr |-> b]

bfree(t, b) ==
    IF b \notin t.map THEN [t EXCEPT !.panic = "bfree"]
    ELSE [t EXCEPT !.map = @ \ {b}, !.blk[b] = Garbage, !.log = @ \cup {0}]

\* addrs[n] is filled in if it is 0.
NeedAddr(t, n) ==
    LET r == balloc(t)
    IN  IF t.ip.addrs[n] # 0 THEN t ELSE [r.t EXCEPT !.ip.addrs[n] = r.addr]

bmap(t, bn) ==
    LET t1 == NeedAddr(t, NDIRECT)
        ind == t1.ip.addrs[NDIRECT]
        k == bn - NDIRECT
        r == balloc(t1)
    IN  IF bn < NDIRECT
        THEN LET t2 == NeedAddr(t, bn) IN [t |-> t2, addr |-> t2.ip.addrs[bn]]
        ELSE IF t1.blk[ind][k] # 0 THEN [t |-> t1, addr |-> t1.blk[ind][k]]
        ELSE [t |-> [r.t EXCEPT !.blk[ind][k] = r.addr, !.log = @ \cup {ind}], addr |-> r.addr]

\* NBLOCKS + 1 stands for the block of the inode.
iupdate(t) == [t EXCEPT !.dip = t.ip, !.log = @ \cup {NBLOCKS + 1}]

lesser(a, b) == IF a < b THEN a ELSE b

\* The loop of writei: n bytes v from offset o on, up to the end of a block at
\* a time.
RECURSIVE WriteLoop(_, _, _, _)
WriteLoop(t, o, n, v) ==
    LET r == bmap(t, o \div BSIZE)
        m == lesser(n, BSIZE - (o % BSIZE))
        at == (o % BSIZE) .. (o % BSIZE) + m - 1
    IN  IF n = 0 \/ t.panic # "" THEN t
        ELSE WriteLoop([r.t EXCEPT !.blk[r.addr] = [c \in DOMAIN @ |-> IF c \in at THEN v ELSE @[c]],
                                   !.log = @ \cup {r.addr}], o + m, n - m, v)

\* Variant: the size grows without iupdate.
writei_NoUpdate(t, o, n, v) ==
    LET w == WriteLoop(t, o, n, v)
    IN  IF o > t.ip.size \/ o + n > MAXFILE * BSIZE THEN [t |-> t, r |-> -1]
        ELSE [t |-> IF n > 0 /\ o + n > w.ip.size THEN [w EXCEPT !.ip.size = o + n] ELSE w, r |-> n]

writei(t, o, n, v) ==
    LET w == WriteLoop(t, o, n, v)
    IN  IF o > t.ip.size \/ o + n > MAXFILE * BSIZE THEN [t |-> t, r |-> -1]
        ELSE [t |-> IF n > 0 /\ o + n > w.ip.size THEN iupdate([w EXCEPT !.ip.size = o + n]) ELSE w,
              r |-> n]

\* The loop of readi; bmap may allocate here too.
RECURSIVE ReadLoop(_, _, _)
ReadLoop(t, o, n) ==
    LET r == bmap(t, o \div BSIZE)
        m == lesser(n, BSIZE - (o % BSIZE))
        rest == ReadLoop(r.t, o + m, n - m)
    IN  IF n = 0 \/ t.panic # "" THEN [t |-> t, bytes |-> <<>>]
        ELSE [t |-> rest.t,
              bytes |-> [k \in 1 .. m |-> r.t.blk[r.addr][(o % BSIZE) + k - 1]] \o rest.bytes]

readi(t, o, n) ==
    IF o > t.ip.size THEN [t |-> t, bytes |-> <<>>]
    ELSE ReadLoop(t, o, lesser(n, t.ip.size - o))

\* The blocks an inode owns, in the order in which itrunc frees them.
Owned(ip, blk) ==
    LET ind == ip.addrs[NDIRECT]
        direct == [n \in 1 .. NDIRECT |-> ip.addrs[n - 1]]
        indirect == IF ind = 0 THEN <<>> ELSE [k \in 1 .. NINDIRECT |-> blk[ind][k - 1]] \o <<ind>>
    IN  SelectSeq(direct \o indirect, LAMBDA b : b # 0)

\* Variant: the indirect block itself is not freed.
itrunc_Leak(t) ==
    LET freed == SelectSeq(Owned(t.ip, t.blk), LAMBDA b : b # t.ip.addrs[NDIRECT])
    IN  iupdate([FoldLeft(bfree, t, freed) EXCEPT !.ip = NoContents])

itrunc(t) == iupdate([FoldLeft(bfree, t, Owned(t.ip, t.blk)) EXCEPT !.ip = NoContents])

-----------------------------------------------------------------------------
Commit(i, t) ==
    /\ inode' = [inode EXCEPT ![i] = t.ip] /\ dinode' = [dinode EXCEPT ![i] = t.dip]
    /\ blocks' = t.blk /\ bitmap' = t.map /\ fdpanic' = t.panic

\* What one iteration of filewrite may write (file.c:133).
MaxChunk == ((MAXBLOCKS - 1 - 1 - 2) \div 2) * BSIZE

\* The contents after n bytes v have been written at o.
Overwrite(s, o, n, v) ==
    [k \in 1 .. (IF o + n > Len(s) THEN o + n ELSE Len(s)) |->
        IF o < k /\ k <= o + n THEN v ELSE s[k]]

\* One iteration of filewrite's loop, n bytes of value v.
filewrite(i, n, v) ==
    LET w == writei(Begin(i), off[i], n, v)
    IN  /\ n <= MaxChunk
        /\ Commit(i, w.t)
        /\ off' = IF w.r > 0 THEN [off EXCEPT ![i] = @ + w.r] ELSE off
        /\ file' = IF w.r > 0 THEN [file EXCEPT ![i] = Overwrite(@, off[i], n, v)] ELSE file

fileread(i, n) ==
    LET d == readi(Begin(i), off[i], n)
    IN  /\ Commit(i, d.t)
        /\ off' = [off EXCEPT ![i] = @ + Len(d.bytes)]
        /\ UNCHANGED file

\* The file is opened again, with a new offset.
Reopen(i) ==
    /\ off[i] # 0
    /\ off' = [off EXCEPT ![i] = 0]
    /\ UNCHANGED <<inode, dinode, blocks, bitmap, file, fdpanic>>

\* The last iput of an unlinked file; the inode is then used for a new one.
Truncate(i) ==
    /\ Commit(i, itrunc(Begin(i)))
    /\ off' = [off EXCEPT ![i] = 0] /\ file' = [file EXCEPT ![i] = <<>>]

FDNext ==
    /\ fdpanic = ""
    /\ \E i \in Inodes :
          \/ \E n \in Lengths[i] : \E v \in Data[i] : filewrite(i, n, v)
          \/ \E n \in Lengths[i] : fileread(i, n)
          \/ Reopen(i) \/ Truncate(i)

-----------------------------------------------------------------------------
\* An inode, read through the copy on disk, holds what has been written to it
\* and nothing else: writei, bmap and iupdate lose no byte, mix no two files, and
\* leave nothing behind in memory only (fs.c:483-512).
FileContents ==
    fdpanic = "" =>
        \A i \in Inodes :
            readi([Begin(i) EXCEPT !.ip = dinode[i]], 0, MAXFILE * BSIZE).bytes = file[i]

\* The bitmap marks exactly the blocks that inodes on disk own, and no block is
\* owned twice: nothing leaks when a file is truncated or when its growth stops
\* at the largest size, and bfree never meets a free block (fs.c:92, 409-436).
BlocksAccounted ==
    /\ fdpanic # "bfree"
    /\ fdpanic = "" =>
         LET own == [i \in Inodes |-> Owned(dinode[i], blocks)]
         IN  /\ bitmap = UNION {ToSet(own[i]) : i \in Inodes}
             /\ \A i, j \in Inodes, m \in 1 .. NBLOCKS, n \in 1 .. NBLOCKS :
                  (m <= Len(own[i]) /\ n <= Len(own[j]) /\ <<i, m>> # <<j, n>>)
                      => own[i][m] # own[j][n]

\* One iteration of filewrite logs no more blocks than a call may (file.c:128:
\* "write a few blocks at a time to avoid exceeding the maximum log transaction
\* size, including i-node, indirect block, allocation blocks, and 2 blocks of slop
\* for non-aligned writes").
ChunkFitsLog ==
    \A i \in Inodes :
        Cardinality(writei(Begin(i), off[i], MaxChunk, 0).t.log) <= MAXBLOCKS

\* Blocks are neither lost, nor shared, nor more in one transaction than the log
\* has been promised (fs.c:92, 409-436; file.c:128-133).
BlocksExact == BlocksAccounted /\ ChunkFitsLog
=============================================================================
