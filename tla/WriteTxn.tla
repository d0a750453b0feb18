------------------------------ MODULE WriteTxn ------------------------------
(***************************************************************************)
(* The blocks that one transaction of filewrite (kernel/file.c) uses, with *)
(* the constants of include/fs.h: begin_op, the loop of writei and bmap    *)
(* over the blocks of a chunk, iupdate, end_op.  Log.tla bounds a          *)
(* transaction by MaxTxn blocks; this module says what the bound is for    *)
(* the longest transaction the kernel makes and whether the log area and   *)
(* the block cache have room for it.                                       *)
(*                                                                         *)
(* A file without holes has the blocks 0 .. have-1.  The file system has   *)
(* one bitmap block (BBLOCK is the same for all of its 1024 blocks).       *)
(***************************************************************************)
EXTENDS Naturals, FiniteSets

CONSTANTS
  BSIZE, NDIRECT, NINDIRECT, MAXOPBLOCKS, LOGSIZE, NBUF,   \* include/fs.h
  Offsets,   \* the values of f->off
  Sizes,     \* what a call of write has still to write
  Slack      \* by how much the file is longer than the offset

WriteTxnAssumption ==
  /\ {BSIZE, NDIRECT, NINDIRECT, MAXOPBLOCKS, LOGSIZE, NBUF} \subseteq Nat \ {0}
  /\ Offsets \cup Slack \subseteq Nat
  /\ Sizes \subseteq Nat \ {0}

VARIABLES
  pc,      \* idle, write (in writei's loop)
  off,     \* f->off, then the loop's off
  left,    \* n - tot
  have,    \* blocks of the file
  used,    \* blocks bread since begin_op
  logged   \* blocks bwritten since begin_op: log_write takes one slot each

vars == <<pc, off, left, have, used, logged>>

Data(bn) == <<"data", bn>>
Meta(kind) == <<kind, 0>>        \* bitmap, indirect, inode

Blocks(bytes) == (bytes + BSIZE - 1) \div BSIZE

Init ==
  /\ pc = "idle"
  /\ off = 0 /\ left = 0 /\ have = 0
  /\ used = {} /\ logged = {}

\* mutant of Chunk: the call is one transaction
ChunkAll(n) == n

\* mutant of Chunk: one block more
ChunkOneMore(n) ==
  IF n > (MAXOPBLOCKS + 1) * BSIZE THEN (MAXOPBLOCKS + 1) * BSIZE ELSE n

\* filewrite splits what is left of the call
Chunk(n) == IF n > MAXOPBLOCKS * BSIZE THEN MAXOPBLOCKS * BSIZE ELSE n

\* begin_op; ilock has read the inode when the file was opened
Begin(o, n, s) ==
  /\ pc = "idle"
  /\ o + Chunk(n) <= (NDIRECT + NINDIRECT) * BSIZE       \* else writei returns -1
  /\ pc' = "write"
  /\ off' = o /\ left' = Chunk(n) /\ have' = Blocks(o + s)
  /\ used' = {} /\ logged' = {}

\* what bmap(ip, bn, 1) reads, and what it writes; a new block is zeroed
BmapReads(bn) ==
     (IF bn >= NDIRECT THEN {Meta("indirect")} ELSE {})
  \cup (IF bn >= have THEN {Meta("bitmap"), Data(bn)} ELSE {})

BmapWrites(bn) ==
  IF bn < have THEN {}
  ELSE {Meta("bitmap"), Data(bn)} \cup
       (IF bn >= NDIRECT THEN {Meta("indirect")} ELSE {})

\* one round of writei's loop
Round ==
  /\ pc = "write"
  /\ left > 0
  /\ LET bn == off \div BSIZE
         room == BSIZE - (off % BSIZE)
         m  == IF room > left THEN left ELSE room
     IN  /\ used' = used \cup BmapReads(bn) \cup {Data(bn)}
         /\ logged' = logged \cup BmapWrites(bn) \cup {Data(bn)}
         /\ have' = IF bn >= have THEN bn + 1 ELSE have
         /\ off' = off + m
         /\ left' = left - m
  /\ UNCHANGED pc

\* iupdate and end_op
Finish ==
  /\ pc = "write"
  /\ left = 0
  /\ used' = used \cup {Meta("inode")}
  /\ logged' = logged \cup {Meta("inode")}
  /\ pc' = "idle"
  /\ UNCHANGED <<off, left, have>>

Next ==
  \/ \E o \in Offsets, n \in Sizes, s \in Slack : Begin(o, n, s)
  \/ Round
  \/ Finish

Spec == Init /\ [][Next]_vars
-----------------------------------------------------------------------------
\* The log area, header included, has a block for everything a write logs: the
\* longest transaction does not run into log_write's panic, and with the
\* bound MaxTxn < NLog of Log.tla it stays in front of the inode blocks.
LogHasRoom == Cardinality(logged) < LOGSIZE

\* The buffers hold the blocks of the transaction and their log blocks, the bound
\* 2 * MaxTxn < NBuf of Log.tla: a logged block is never recycled before the
\* commit.  With 30 buffers and 14 blocks one more block would not fit.
CacheHasRoom == 2 * Cardinality(used) < NBUF
=============================================================================
