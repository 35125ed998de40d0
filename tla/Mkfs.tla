-------------------------------- MODULE Mkfs --------------------------------
(***************************************************************************)
(* mkfs (mkfs.c), which lays out the disk and writes the first file system: *)
(* the inodes, blocks and bitmap of an image that holds the given files.   *)
(* Sizes are in bytes, with small blocks; file contents are not modelled.  *)
(***************************************************************************)
EXTENDS Naturals, Integers, Sequences, SequencesExt, FiniteSets, FsParams

CONSTANTS DIRENT,                             \* the size of a directory entry
          NLOGBLOCKS, NINODEBLOCKS, NBITMAP   \* the layout, in blocks

ROOTINO == 1
nmeta == 2 + NLOGBLOCKS + NINODEBLOCKS + NBITMAP

\* An image: the inodes allocated so far, the next free block, and the block
\* numbers in each indirect block.
Empty == [inodes |-> <<>>, freeblock |-> nmeta, indirect |-> <<>>, ok |-> TRUE]

ialloc(img, type) ==
    [img EXCEPT !.inodes = Append(@, [type |-> type, nlink |-> 1, size |-> 0,
                                      addrs |-> [n \in 0 .. NDIRECT |-> 0]]),
                !.indirect = Append(@, [n \in 0 .. NINDIRECT - 1 |-> 0])]

\* Variant: the block numbers of the indirect block are not taken from the free
\* blocks.
NeedBlock_Shared(img, i, fbn) ==
    IF fbn < NDIRECT
    THEN IF img.inodes[i].addrs[fbn] # 0 THEN img
         ELSE [img EXCEPT !.inodes[i].addrs[fbn] = img.freeblock, !.freeblock = @ + 1]
    ELSE IF img.indirect[i][fbn - NDIRECT] # 0 THEN img
         ELSE [img EXCEPT !.inodes[i].addrs[NDIRECT] = img.freeblock,
                          !.indirect[i][fbn - NDIRECT] = img.freeblock, !.freeblock = @ + 1]

\* Block fbn of inode i gets a disk block unless it has one; so does, before
\* it, the indirect block.
NeedBlock(img, i, fbn) ==
    IF fbn < NDIRECT
    THEN IF img.inodes[i].addrs[fbn] # 0 THEN img
         ELSE [img EXCEPT !.inodes[i].addrs[fbn] = img.freeblock, !.freeblock = @ + 1]
    ELSE LET img1 == IF img.inodes[i].addrs[NDIRECT] # 0 THEN img
                     ELSE [img EXCEPT !.inodes[i].addrs[NDIRECT] = img.freeblock,
                                      !.freeblock = @ + 1]
         IN  IF img1.indirect[i][fbn - NDIRECT] # 0 THEN img1
             ELSE [img1 EXCEPT !.indirect[i][fbn - NDIRECT] = img1.freeblock,
                               !.freeblock = @ + 1]

\* n bytes are appended to inode i, block by block; assert(fbn < MAXFILE)
\* ends mkfs.
RECURSIVE iappend(_, _, _)
iappend(img, i, n) ==
    LET off == img.inodes[i].size
        fbn == off \div BSIZE
        room == (fbn + 1) * BSIZE - off
        n1 == IF n < room THEN n ELSE room
    IN  IF n = 0 \/ ~img.ok THEN img
        ELSE IF fbn >= MAXFILE THEN [img EXCEPT !.ok = FALSE]
        ELSE iappend([NeedBlock(img, i, fbn) EXCEPT !.inodes[i].size = off + n1], i, n - n1)

\* One file of the command line: an inode, its entry in the root, its contents.
AddFile(img, size) ==
    LET inum == Len(img.inodes) + 1
    IN  iappend(iappend(ialloc(img, "FILE"), ROOTINO, DIRENT), inum, size)

\* The blocks marked in the bitmap.
balloc(used) == 0 .. used - 1

\* The root is given a whole number of blocks.
main(sizes) ==
    LET root == iappend(iappend(ialloc(Empty, "DIR"), ROOTINO, DIRENT), ROOTINO, DIRENT)
        full == FoldLeft(AddFile, root, sizes)
        off == (full.inodes[ROOTINO].size \div BSIZE + 1) * BSIZE
    IN  [img |-> [full EXCEPT !.inodes[ROOTINO].size = off],
         entries |-> full.inodes[ROOTINO].size \div DIRENT,
         bitmap |-> balloc(full.freeblock)]

-----------------------------------------------------------------------------
\* The blocks an inode refers to, each with the place that refers to it.
References(img, i) ==
    {<<i, "addr", n>> : n \in {k \in 0 .. NDIRECT : img.inodes[i].addrs[k] # 0}} \cup
    {<<i, "ind", n>> : n \in {k \in 0 .. NINDIRECT - 1 : img.indirect[i][k] # 0}}

Target(img, r) == IF r[2] = "addr" THEN img.inodes[r[1]].addrs[r[3]] ELSE img.indirect[r[1]][r[3]]

\* The disk block of block fbn of an inode, 0 if it has none.
BlockOf(img, i, fbn) ==
    IF fbn < NDIRECT THEN img.inodes[i].addrs[fbn]
    ELSE IF img.inodes[i].addrs[NDIRECT] = 0 THEN 0 ELSE img.indirect[i][fbn - NDIRECT]
=============================================================================
