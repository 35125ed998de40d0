------------------------------ MODULE FsParams ------------------------------
(***************************************************************************)
(* The sizes that fs.h fixes for the file system and for mkfs, as          *)
(* parameters.                                                             *)
(***************************************************************************)
EXTENDS Naturals

CONSTANTS BSIZE,        \* bytes in a block (512)
          NDIRECT,      \* block numbers in an inode (12)
          NINDIRECT     \* block numbers in an indirect block (BSIZE / 4)

MAXFILE == NDIRECT + NINDIRECT
=============================================================================
