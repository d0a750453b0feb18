-------------------------------- MODULE Fsck --------------------------------
(***************************************************************************)
(* The consistency check fsck_lite of kernel/fs_debug.c on any disk image: *)
(* the inodes that are in use, the numbers that blocks have in them when   *)
(* they are read as indirect blocks, and the bitmap.                       *)
(*                                                                         *)
(* fsck_lite keeps a buffer while it reads others; bread of a block whose  *)
(* buffer the caller itself holds never returns.                           *)
(***************************************************************************)
EXTENDS Integers, FiniteSets

CONSTANTS
  FSSIZE,                 \* blocks of the disk
  INODESTART, BMAPSTART,  \* superblock: inode blocks, then bitmap blocks
  NINODES,                \* superblock: numbers of inodes are below it
  IPB, BPB,               \* inodes of an inode block, bits of a bitmap block
  NDIRECT, NINDIRECT,     \* direct addresses; addresses in an indirect block
  Direct, Indirect,       \* bound: addresses that inodes have
  Entry                   \* bound: addresses that indirect blocks have

\* calc_nbitmap, calc_datastart
NBITMAP == (FSSIZE + BPB - 1) \div BPB
DATASTART == BMAPSTART + NBITMAP
Data == DATASTART..(FSSIZE - 1)
Block == 0..(FSSIZE - 1)

FsckAssumption ==
  /\ {FSSIZE, INODESTART, BMAPSTART, NINODES, IPB, BPB, NDIRECT, NINDIRECT} \subseteq Nat \ {0}
  /\ (NINODES - 1) \div IPB + INODESTART < BMAPSTART /\ DATASTART < FSSIZE
  /\ Direct \cup Indirect \cup Entry \subseteq Nat

IBLOCK(inum) == inum \div IPB + INODESTART
BBLOCK(bno) == bno \div BPB + BMAPSTART
Inum == 1..(NINODES - 1)

VARIABLES
  inodes,   \* the inodes in use, with their addrs; addrs[NDIRECT + 1] is the indirect block
  entries,  \* what blocks hold as indirect blocks
  bitmap,   \* blocks marked as allocated
  pc,       \* inode, direct, indirect, entry, end (of an inode), done, panic, hang
  inum, i,  \* inum; the index of the inner loops
  used,     \* used[]
  errors,   \* errors
  held      \* blocks whose buffers fsck_lite holds

image == <<inodes, entries, bitmap>>
vars == <<inodes, entries, bitmap, pc, inum, i, used, errors, held>>

Addrs == {a \in [1..(NDIRECT + 1) -> Direct \cup Indirect] :
            a[NDIRECT + 1] \in Indirect /\ \A n \in 1..NDIRECT : a[n] \in Direct}

Init ==
  /\ \E live \in SUBSET Inum : inodes \in [live -> Addrs]
  /\ entries \in [(Indirect \cap Block) \ {0} -> [1..NINDIRECT -> Entry]]
  /\ \E marked \in SUBSET Data : bitmap = (Block \ Data) \cup marked
  /\ pc = "inode" /\ inum = 1 /\ i = 1
  /\ used = {} /\ errors = 0 /\ held = {}

\* how bread of a block ends: only "ok" returns a buffer
Bread(bno, locked) ==
  IF bno >= FSSIZE THEN "panic" ELSE IF bno \in locked THEN "hang" ELSE "ok"

\* out of range, in the metadata, or referenced before
Bad(addr) == addr >= FSSIZE \/ addr < DATASTART \/ addr \in used

\* mutant of Allocated: the bit of the next block is looked at
AllocatedNext(addr) == addr + 1 \in bitmap

\* bitmap_isset
Allocated(addr) == addr \in bitmap

\* check_addr, after which fsck_lite goes on at next
CheckAddr(addr, next) ==
  CASE addr = 0 -> pc' = next /\ UNCHANGED <<used, errors>>
    [] addr # 0 /\ Bad(addr) -> pc' = next /\ errors' = errors + 1 /\ UNCHANGED used
    [] OTHER ->
         LET read == Bread(BBLOCK(addr), held)
         IN  /\ used' = used \cup {addr}
             /\ errors' = IF read = "ok" /\ ~Allocated(addr) THEN errors + 1 ELSE errors
             /\ pc' = IF read = "ok" THEN next ELSE read

\* the loop over the inodes
NextInode ==
  /\ pc = "inode"
  /\ LET read == Bread(IBLOCK(inum), held)
     IN  IF inum \notin Inum THEN pc' = "done" /\ UNCHANGED <<inum, i, held>>
         ELSE IF read # "ok" THEN pc' = read /\ UNCHANGED <<inum, i, held>>
         ELSE IF inum \notin DOMAIN inodes THEN inum' = inum + 1 /\ UNCHANGED <<pc, i, held>>
         ELSE pc' = "direct" /\ i' = 1 /\ held' = {IBLOCK(inum)} /\ UNCHANGED inum
  /\ UNCHANGED <<image, used, errors>>

CheckDirect ==
  /\ pc = "direct"
  /\ CheckAddr(inodes[inum][i], IF i < NDIRECT THEN "direct" ELSE "indirect")
  /\ i' = i + 1
  /\ UNCHANGED <<image, inum, held>>

IndirectBlock == inodes[inum][NDIRECT + 1]

CheckIndirect ==
  /\ pc = "indirect"
  /\ IF IndirectBlock = 0
       THEN pc' = "end" /\ UNCHANGED <<used, errors>>
       ELSE CheckAddr(IndirectBlock, "read")
  /\ UNCHANGED <<image, inum, i, held>>

\* the indirect block is read, whatever check_addr has found
ReadIndirect ==
  /\ pc = "read"
  /\ LET read == Bread(IndirectBlock, held)
     IN  IF read = "ok"
           THEN pc' = "entry" /\ i' = 1 /\ held' = held \cup {IndirectBlock}
           ELSE pc' = read /\ UNCHANGED <<i, held>>
  /\ UNCHANGED <<image, inum, used, errors>>

CheckEntry ==
  /\ pc = "entry"
  /\ CheckAddr(entries[IndirectBlock][i], IF i < NINDIRECT THEN "entry" ELSE "end")
  /\ i' = i + 1
  /\ UNCHANGED <<image, inum, held>>

\* mutant of EndOfInode: the inode block is not released
EndOfInodeKeeps ==
  /\ pc = "end"
  /\ held' = held \cap {IBLOCK(inum)}
  /\ inum' = inum + 1
  /\ pc' = "inode"
  /\ UNCHANGED <<image, i, used, errors>>

\* brelse of both blocks
EndOfInode ==
  /\ pc = "end"
  /\ held' = {}
  /\ inum' = inum + 1
  /\ pc' = "inode"
  /\ UNCHANGED <<image, i, used, errors>>

\* the caller goes on, panic() loops, or acquiresleep does
Ended ==
  /\ pc \in {"done", "panic", "hang"}
  /\ UNCHANGED vars

Next ==
  \/ NextInode \/ CheckDirect \/ CheckIndirect \/ ReadIndirect \/ CheckEntry \/ EndOfInode
  \/ Ended

Spec == Init /\ [][Next]_vars

\* count_free_blocks
CountFreeBlocks == Cardinality({b \in Data : b \notin bitmap})
-----------------------------------------------------------------------------
TypeOK ==
  /\ pc \in {"inode", "direct", "indirect", "read", "entry", "end", "done", "panic", "hang"}
  /\ inum \in Inum \cup {NINODES} /\ i \in Nat
  /\ used \subseteq Data
  /\ errors \in Nat
  /\ held \subseteq Block /\ Cardinality(held) <= 2

\* a place where an address stands: <<inode, index>> or <<inode, -1, index>>
Places ==
  {<<n, k, 0>> : n \in DOMAIN inodes, k \in 1..(NDIRECT + 1)}
    \cup {<<n, NDIRECT + 1, k>> : n \in DOMAIN inodes, k \in 1..NINDIRECT}

AddressAt(p) ==
  IF p[3] = 0 THEN inodes[p[1]][p[2]]
  ELSE LET b == inodes[p[1]][NDIRECT + 1]
       IN  IF b \in Block \ {0} THEN entries[b][p[3]] ELSE 0

References == {p \in Places : AddressAt(p) # 0}

\* what the comment above fsck_lite lists: addresses are of data blocks, no block
\* is referenced twice, and what is referenced is allocated
Consistent ==
  /\ \A p \in References : AddressAt(p) \in Data /\ AddressAt(p) \in bitmap
  /\ \A p, q \in References : AddressAt(p) = AddressAt(q) => p = q

\* Whenever fsck_lite comes to its end, it has reported errors if the image has
\* some, and only then.
Verdict == pc = "done" => (errors = 0 <=> Consistent)

\* If an image is clean, the blocks that the counts call free are referenced by no
\* file, and free and referenced blocks fit into the data region.
CountsFit ==
  pc = "done" /\ errors = 0 =>
    CountFreeBlocks + Cardinality(References) <= Cardinality(Data)

\* It does come to its end, and neither panics nor waits for a buffer that it holds
\* itself, unless an inode has an indirect block outside of the data region.
ReturnsUnlessBadIndirect ==
  pc \in {"panic", "hang"} =>
    \E n \in DOMAIN inodes : inodes[n][NDIRECT + 1] \notin Data \cup {0}

\* The check itself keeps its rules whatever is on the disk.
CheckSound == TypeOK /\ CountsFit /\ ReturnsUnlessBadIndirect
=============================================================================
