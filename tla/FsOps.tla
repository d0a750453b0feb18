------------------------------- MODULE FsOps -------------------------------
(***************************************************************************)
(* The functions of kernel/fs.c as operators on a file system value.       *)
(*                                                                         *)
(* A value s has what the blocks hold (dinode, bitmap, block) and the      *)
(* inode cache (ic).  An operator returns the value the C function leaves, *)
(* or a result [s, v] when the function also returns something.  When      *)
(* panic() is called the operators that follow change nothing more.        *)
(*                                                                         *)
(* A block is BSize cells and a cell is the smallest thing the code        *)
(* addresses: a byte, a block number of an indirect block or a directory   *)
(* entry.  Hence NIndirect = BSize and a directory entry takes one cell.   *)
(* The cache of inodes is indexed by inode number: iget gives a number one *)
(* slot at most, and Cached counts the slots in use.  The types are        *)
(* T_UNUSED, T_DIR and T_FILE; no code path makes a device inode.          *)
(***************************************************************************)
EXTENDS Naturals, FiniteSets, SequencesExt

CONSTANTS
  BSize,       \* BSIZE in cells
  NDirect,     \* NDIRECT
  NInodes,     \* sb.ninodes: the inode numbers are 1 .. NInodes - 1
  NInode,      \* NINODE, the slots of the inode cache
  DataBlock,   \* the numbers of the data blocks
  Name,        \* the names of files
  Byte         \* the bytes of files

ASSUME FsAssumption ==
  /\ {BSize, NDirect, NInodes, NInode} \subseteq Nat \ {0}
  /\ NInodes > 1
  /\ DataBlock \subseteq Nat \ {0} /\ IsFiniteSet(DataBlock) /\ DataBlock # {}
  /\ Byte \subseteq Nat
  /\ Name \cap {".", "..", ""} = {}
  /\ NInodes <= (NDirect + BSize) * BSize  \* a directory has room for all names

NIndirect == BSize
MaxFile   == NDirect + NIndirect
Inum      == 1..(NInodes - 1)
Root      == 1                                    \* ROOTINO

Cell   == [n: Nat, name: Name \cup {".", "..", ""}]
Dirent(i, name) == [n |-> i, name |-> name]
Raw(n) == [n |-> n, name |-> ""]
ZeroBlock == [k \in 0..(BSize - 1) |-> Raw(0)]

\* struct dinode; addrs[NDirect] is the indirect block
NoAddrs == [k \in 0..NDirect |-> 0]
NewDinode(type) == [type |-> type, nlink |-> 1, size |-> 0, addrs |-> NoAddrs]
Unused == [type |-> "T_UNUSED", nlink |-> 0, size |-> 0, addrs |-> NoAddrs]

\* struct inode; d is what ilock copies from the dinode
FreeSlot == [ref |-> 0, locked |-> FALSE, valid |-> FALSE, d |-> Unused]
Cached(s) == {i \in Inum : s.ic[i].ref > 0}

\* what fs_init leaves on a disk that virtio_disk_init has cleared
RootBlock == Min(DataBlock)
Formatted ==
  [dinode |-> [i \in Inum |->
                 IF i = Root
                   THEN [type |-> "T_DIR", nlink |-> 1, size |-> 2,
                         addrs |-> [NoAddrs EXCEPT ![0] = RootBlock]]
                   ELSE Unused],
   bitmap |-> {RootBlock},
   block  |-> [b \in DataBlock |->
                 IF b = RootBlock
                   THEN [ZeroBlock EXCEPT ![0] = Dirent(Root, "."),
                                          ![1] = Dirent(Root, "..")]
                   ELSE ZeroBlock],
   ic     |-> [i \in Inum |-> FreeSlot],
   panic  |-> ""]

Ok(s) == s.panic = ""
Panic(s, why) == IF Ok(s) THEN [s EXCEPT !.panic = why] ELSE s
Result(s, v) == [s |-> s, v |-> v]
-----------------------------------------------------------------------------
\* mutant of Balloc: no bzero
BallocDirty(s) ==
  IF DataBlock \subseteq s.bitmap
    THEN Result(Panic(s, "balloc: out of blocks"), 0)
    ELSE LET b == Min(DataBlock \ s.bitmap)
         IN  Result([s EXCEPT !.bitmap = @ \cup {b}], b)

\* the first block whose bit is clear, with its contents zeroed
Balloc(s) ==
  IF DataBlock \subseteq s.bitmap
    THEN Result(Panic(s, "balloc: out of blocks"), 0)
    ELSE LET b == Min(DataBlock \ s.bitmap)
         IN  Result([s EXCEPT !.bitmap = @ \cup {b}, !.block[b] = ZeroBlock], b)

\* mutant of Bfree: missing blocks are not skipped
BfreeAll(s, blocks) ==
  IF \A k \in DOMAIN blocks : blocks[k] \in s.bitmap
    THEN [s EXCEPT !.bitmap = @ \ {blocks[k] : k \in DOMAIN blocks}]
    ELSE Panic(s, "bfree: block not allocated")

\* bfree of one block after the other; 0 is no block.  All at once, because the loop
\* ends in the panic if and only if a block is not allocated or comes twice
Bfree(s, blocks) ==
  LET used == {k \in DOMAIN blocks : blocks[k] # 0}
  IN  IF \A k \in used : /\ blocks[k] \in s.bitmap
                         /\ \A j \in used : blocks[j] = blocks[k] => j = k
        THEN [s EXCEPT !.bitmap = @ \ {blocks[k] : k \in used}]
        ELSE Panic(s, "bfree: block not allocated")

\* addrs[k] of an inode, allocated when it is missing and wanted
InodeAddr(s, i, k, alloc) ==
  LET Entered(r) == Result([r.s EXCEPT !.ic[i].d.addrs[k] = r.v], r.v)
  IN  IF s.ic[i].d.addrs[k] = 0 /\ alloc THEN Entered(Balloc(s))
      ELSE Result(s, s.ic[i].d.addrs[k])

\* mutant of Bmap: the new block number is not stored in the indirect block
BmapForgets(s, i, bn, alloc) ==
  LET Within(top) ==
        LET a == top.s.block[top.v][bn - NDirect].n
        IN  IF top.v = 0 \/ ~Ok(top.s) THEN top
            ELSE IF a # 0 \/ ~alloc THEN Result(top.s, a)
            ELSE Balloc(top.s)
  IN  IF bn < NDirect THEN InodeAddr(s, i, bn, alloc)
      ELSE Within(InodeAddr(s, i, NDirect, alloc))

\* the block number of the bn-th block of a file, 0 when it has none
Bmap(s, i, bn, alloc) ==
  LET k == bn - NDirect
      Entered(r, top) == Result([r.s EXCEPT !.block[top][k] = Raw(r.v)], r.v)
      Within(top) ==
        LET a == top.s.block[top.v][k].n
        IN  IF top.v = 0 \/ ~Ok(top.s) THEN top
            ELSE IF a # 0 \/ ~alloc THEN Result(top.s, a)
            ELSE Entered(Balloc(top.s), top.v)
  IN  IF bn < NDirect THEN InodeAddr(s, i, bn, alloc)
      ELSE IF bn >= MaxFile THEN Result(Panic(s, "bmap: out of range"), 0)
      ELSE Within(InodeAddr(s, i, NDirect, alloc))
-----------------------------------------------------------------------------
\* iget; a slot that is taken anew keeps nothing of its last use but its lock
Iget(s, i) ==
  IF ~Ok(s) THEN s
  ELSE IF s.ic[i].ref > 0 THEN [s EXCEPT !.ic[i].ref = @ + 1]
  ELSE IF Cardinality(Cached(s)) = NInode THEN Panic(s, "iget: no free inode")
  ELSE [s EXCEPT !.ic[i] = [FreeSlot EXCEPT !.ref = 1, !.locked = s.ic[i].locked]]

\* acquiresleep spins when the lock is taken: with one flow, forever
Ilock(s, i) ==
  LET d == IF s.ic[i].valid THEN s.ic[i].d ELSE s.dinode[i]
  IN  IF ~Ok(s) THEN s
      ELSE IF s.ic[i].ref < 1 THEN Panic(s, "ilock: bad ip")
      ELSE IF s.ic[i].locked THEN Panic(s, "acquiresleep spins")
      ELSE IF ~s.ic[i].valid /\ d.type = "T_UNUSED" THEN Panic(s, "ilock: no type")
      ELSE [s EXCEPT !.ic[i] = [@ EXCEPT !.locked = TRUE, !.valid = TRUE, !.d = d]]

\* mutant of Iunlock: releasesleep is not called
IunlockNot(s, i) == s

Iunlock(s, i) ==
  IF ~Ok(s) THEN s
  ELSE IF ~s.ic[i].locked \/ s.ic[i].ref < 1 THEN Panic(s, "iunlock")
  ELSE [s EXCEPT !.ic[i].locked = FALSE]

Iupdate(s, i) == IF Ok(s) THEN [s EXCEPT !.dinode[i] = s.ic[i].d] ELSE s

\* mutant of BlocksOf: the indirect block itself is kept
BlocksOfNoTop(s, d) ==
  [k \in 0..(MaxFile - 1) |->
     IF k < NDirect THEN d.addrs[k]
     ELSE IF d.addrs[NDirect] = 0 THEN 0
     ELSE s.block[d.addrs[NDirect]][k - NDirect].n]

\* what itrunc looks at: the direct blocks, those in the indirect block and, at
\* MaxFile, the indirect block itself; 0 is no block
BlocksOf(s, d) ==
  [k \in 0..MaxFile |->
     IF k < NDirect THEN d.addrs[k]
     ELSE IF k = MaxFile \/ d.addrs[NDirect] = 0 THEN d.addrs[NDirect]
     ELSE s.block[d.addrs[NDirect]][k - NDirect].n]

Itrunc(s, i) ==
  IF ~Ok(s) THEN s
  ELSE Iupdate([Bfree(s, BlocksOf(s, s.ic[i].d))
                  EXCEPT !.ic[i].d = [@ EXCEPT !.addrs = NoAddrs, !.size = 0]], i)

\* drop a reference; the last one to an inode without a link deletes the file.  A slot
\* that nobody refers to is shown empty, as the next iget makes it, but for its lock
Iput(s, i) ==
  LET last == s.ic[i].ref = 1 /\ s.ic[i].valid /\ s.ic[i].d.nlink = 0
      Deleted(t) ==
        [Iunlock(Iupdate([t EXCEPT !.ic[i].d.type = "T_UNUSED"], i), i)
           EXCEPT !.ic[i].valid = FALSE]
      Dropped(t) ==
        [t EXCEPT !.ic[i] = IF t.ic[i].ref = 1 THEN [FreeSlot EXCEPT !.locked = t.ic[i].locked]
                            ELSE [t.ic[i] EXCEPT !.ref = @ - 1]]
  IN  IF ~Ok(s) THEN s
      ELSE Dropped(IF last THEN Deleted(Itrunc(Ilock(s, i), i)) ELSE s)

\* the first unused dinode
Ialloc(s, type) ==
  LET free == {i \in Inum : s.dinode[i].type = "T_UNUSED"}
      i == Min(free)
      t == Iget([s EXCEPT !.dinode[i] = NewDinode(type)], i)
  IN  IF ~Ok(s) THEN Result(s, 0)
      ELSE IF free = {} THEN Result(Panic(s, "ialloc: no inodes"), 0)
      ELSE Result([t EXCEPT !.ic[i].d = [@ EXCEPT !.type = type, !.nlink = 1]], i)
-----------------------------------------------------------------------------
\* the cell of a file at an offset, as readi finds it
CellAt(s, i, off) ==
  LET b == Bmap(s, i, off \div BSize, FALSE).v
  IN  s.block[b][off % BSize]

Mapped(s, i, off) == Bmap(s, i, off \div BSize, FALSE).v # 0

\* readi of at most n cells from off; v is the sequence of cells read
Readi(s, i, off, n) ==
  LET size  == s.ic[i].d.size
      count == IF off > size THEN 0 ELSE Min({n, size - off})
  IN  IF ~Ok(s) THEN Result(s, <<>>)
      ELSE IF \E k \in 0..(count - 1) : ~Mapped(s, i, off + k)
        THEN Result(Panic(s, "readi: addr == 0"), <<>>)
      ELSE Result(s, [k \in 1..count |-> CellAt(s, i, off + k - 1)])

\* one round of the loop of writei: the cell c at off
StoreCell(s, i, off, c) ==
  LET Stored(r) == IF Ok(r.s) THEN [r.s EXCEPT !.block[r.v][off % BSize] = c] ELSE r.s
  IN  IF Ok(s) THEN Stored(Bmap(s, i, off \div BSize, TRUE)) ELSE s

StoreCells(s, i, off, cells) ==
  LET after[k \in 0..Len(cells)] ==
        IF k = 0 THEN s ELSE StoreCell(after[k - 1], i, off + k - 1, cells[k])
  IN  after[Len(cells)]

\* what writei refuses
TooFar(s, i, off, cells) ==
  off > s.ic[i].d.size \/ off + Len(cells) > MaxFile * BSize

\* mutant of Writei: no iupdate at the end
WriteiInMemory(s, i, off, cells) ==
  IF ~Ok(s) \/ TooFar(s, i, off, cells) THEN Result(s, FALSE)
  ELSE Result([StoreCells(s, i, off, cells)
                 EXCEPT !.ic[i].d.size = Max({@, off + Len(cells)})], TRUE)

\* mutant of Writei: an offset behind the end is accepted
WriteiHole(s, i, off, cells) ==
  IF ~Ok(s) \/ off + Len(cells) > MaxFile * BSize THEN Result(s, FALSE)
  ELSE Result(Iupdate([StoreCells(s, i, off, cells)
                         EXCEPT !.ic[i].d.size = Max({@, off + Len(cells)})], i), TRUE)

\* writei of the cells from off on; v is TRUE when it writes them, else -1
Writei(s, i, off, cells) ==
  IF ~Ok(s) \/ TooFar(s, i, off, cells) THEN Result(s, FALSE)
  ELSE Result(Iupdate([StoreCells(s, i, off, cells)
                         EXCEPT !.ic[i].d.size = Max({@, off + Len(cells)})], i), TRUE)
-----------------------------------------------------------------------------
\* v is the inode with the name, referenced, or 0
Dirlookup(s, dp, name) ==
  LET Search(entries) ==
        LET hits == {k \in 1..Len(entries.v) :
                       entries.v[k].n # 0 /\ entries.v[k].name = name}
            i    == entries.v[Min(hits)].n
        IN  IF ~Ok(entries.s) \/ hits = {} THEN Result(entries.s, 0)
            ELSE Result(Iget(entries.s, i), i)
  IN  IF ~Ok(s) THEN Result(s, 0)
      ELSE IF s.ic[dp].d.type # "T_DIR" THEN Result(Panic(s, "dirlookup: not DIR"), 0)
      ELSE Search(Readi(s, dp, 0, s.ic[dp].d.size))

\* v tells whether the name was added; an entry of that name keeps the
\* reference that dirlookup took
Dirlink(s, dp, name, i) ==
  LET size == s.ic[dp].d.size
      free == {o \in 0..(size - 1) : CellAt(s, dp, o).n = 0}
      off  == IF free = {} THEN size ELSE Min(free)
      Written(w) == IF w.v THEN w ELSE Result(Panic(w.s, "dirlink: write"), FALSE)
      Add(old) ==
        IF ~Ok(old.s) \/ old.v # 0 THEN Result(old.s, FALSE)
        ELSE Written(Writei(old.s, dp, off, <<Dirent(i, name)>>))
  IN  Add(Dirlookup(s, dp, name))

\* a path is "" or has elements; "/" has none
EmptyPath == [empty |-> TRUE,  elems |-> <<>>]
Path(elems) == [empty |-> FALSE, elems |-> elems]

\* one round of the loop of namex: the k-th element, looked up in the inode r.v
Walk(r, path, parent, k) ==
  LET t == Ilock(r.s, r.v)
      next == Dirlookup(t, r.v, path.elems[k])
      Leave(u) == Iput(Iunlock(u, r.v), r.v)
      Stop(u, v) == [s |-> u, v |-> v, stop |-> TRUE]
  IN  IF r.stop THEN r
      ELSE IF Ok(t) /\ t.ic[r.v].d.type # "T_DIR" THEN Stop(Leave(t), 0)
      ELSE IF parent /\ k = Len(path.elems) THEN Stop(Iunlock(t, r.v), r.v)
      ELSE [s |-> Leave(next.s), v |-> next.v, stop |-> next.v = 0 \/ ~Ok(next.s)]

\* v is the inode, or its directory when `parent', or 0
Namex(s, path, parent) ==
  LET start == [s |-> Iget(s, Root), v |-> Root, stop |-> FALSE]
      after[k \in 0..Len(path.elems)] ==
        IF k = 0 THEN start ELSE Walk(after[k - 1], path, parent, k)
      end == after[Len(path.elems)]
  IN  IF path.empty THEN Result(Iget(s, Root), 0)
      ELSE IF end.stop \/ ~parent THEN Result(end.s, end.v)
      ELSE Result(Iput(end.s, end.v), 0)
-----------------------------------------------------------------------------
\* create() when its name exists in the locked directory dp: v is the locked
\* file or 0
Reuse(s, dp, ip) ==
  LET Found(t) == IF Ok(t) /\ t.ic[ip].d.type = "T_FILE" THEN Result(t, ip)
                  ELSE Result(Iput(Iunlock(t, ip), ip), 0)
  IN  Found(Ilock(Iput(Iunlock(s, dp), dp), ip))

\* mutant of Link: the new inode is not linked into its directory
NoLink(s, dp, name, ip) == Result(Iput(Iunlock(Ilock(s, ip), dp), dp), ip)

\* create() when it does not: the name is linked to the new inode ip, whose
\* nlink is 1 already
Link(s, dp, name, ip) ==
  LET Undo(t) ==
        Iput(Iput(Iunlock(Iupdate([Iunlock(t, ip) EXCEPT !.ic[ip].d.nlink = 0], ip),
                          dp), ip), dp)
      Linked(r) ==
        IF ~Ok(r.s) THEN Result(r.s, 0)
        ELSE IF r.v THEN Result(Iput(Iunlock(r.s, dp), dp), ip)
        ELSE Result(Undo(r.s), 0)
  IN  Linked(Dirlink(Iupdate(Ilock(s, ip), ip), dp, name, ip))

\* create() of sysfile.c with T_FILE, its only use
Create(s, path) ==
  LET name == Last(path.elems)
      New(a, dp) == IF Ok(a.s) THEN Link(a.s, dp, name, a.v) ELSE Result(a.s, 0)
      In(old, dp) ==
        IF ~Ok(old.s) THEN Result(old.s, 0)
        ELSE IF old.v # 0 THEN Reuse(old.s, dp, old.v)
        ELSE New(Ialloc(old.s, "T_FILE"), dp)
      At(p) == IF ~Ok(p.s) \/ p.v = 0 THEN Result(p.s, 0)
               ELSE In(Dirlookup(Ilock(p.s, p.v), p.v, name), p.v)
  IN  At(Namex(s, path, TRUE))
=============================================================================
