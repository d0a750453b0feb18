--------------------------- MODULE FileSysProofs ---------------------------
(***************************************************************************)
(* Proofs about FileSys: between two steps disk, bitmap, directory, inode  *)
(* cache, file table and descriptors agree, for every geometry that        *)
(* FsAssumption admits and every sequence of calls, panics and restarts.   *)
(*                                                                         *)
(* The invariant IInv is stated of one file system value and the tables.   *)
(* Exact says that the blocks marked used are those that inodes refer to,  *)
(* each in one place; Sized that an inode has the blocks that its size     *)
(* calls for; Dir that the root has one entry for each inode in use; and   *)
(* Slots that the reference count of an inode is the number of its open    *)
(* files and of the pointers p and q that the call in progress has to it,  *)
(* and that the locked ones are its inodes a and b.  Every operator of     *)
(* FsOps has a lemma that says what it leaves of these: Kept when it does  *)
(* not touch the disk, Full or NoneFree when it ran out of blocks or       *)
(* inodes.  While one inode has no entry yet, x is that inode.             *)
(*                                                                         *)
(* The loops of writei and namex are handled by their first round that     *)
(* goes wrong, which MinIs finds.                                          *)
(***************************************************************************)
EXTENDS FileSys, FiniteSetTheorems, SequenceTheorems, WellFoundedInduction, TLAPS
-----------------------------------------------------------------------------
(* Numbers.                                                                *)

\* balloc, ialloc, dirlookup, filealloc and fdalloc take the first that fits.
LEMMA MinIs ==
  ASSUME NEW S \in SUBSET Nat, S # {}
  PROVE  Min(S) \in S /\ \A n \in S : Min(S) <= n
<1> DEFINE R == {pair \in Nat \X Nat : pair[1] < pair[2]}
<1>1. IsWellFoundedOn(R, Nat)
  BY NatLessThanWellFounded DEF OpToRel
<1>2. PICK x \in S : \A y \in S : ~(<<y, x>> \in R)
  <2>1. PICK z \in S : TRUE
    OBVIOUS
  <2> QED  BY <1>1, <2>1, WFMin
<1>3. ASSUME NEW y \in S PROVE x <= y
  <2>1. x \in Nat /\ y \in Nat /\ ~(<<y, x>> \in R)
    BY <1>2
  <2> QED  BY <2>1
<1> QED  BY <1>3 DEF Min

\* What the assumptions say of the constants.
LEMMA Consts ==
  /\ BSize \in Nat /\ BSize >= 2 /\ NDirect \in Nat /\ NDirect > 0
  /\ NIndirect = BSize /\ MaxFile = NDirect + BSize /\ MaxFile \in Nat
  /\ NInodes \in Nat /\ NInodes > 1 /\ Root = 1 /\ Root \in Inum /\ Inum \subseteq Nat /\ 0 \notin Inum
  /\ NInode \in Nat /\ DataBlock \subseteq Nat /\ 0 \notin DataBlock
  /\ NFile \in Nat /\ NFile > 0 /\ NOFile \in Nat /\ NOFile > 0 /\ NInode >= NOFile + 2
<1>1. /\ BSize \in Nat \ {0} /\ NDirect \in Nat \ {0} /\ NInodes \in Nat \ {0} /\ NInode \in Nat \ {0}
      /\ NFile \in Nat \ {0} /\ NOFile \in Nat \ {0} /\ NInodes > 1 /\ NInode >= NOFile + 2 /\ BSize >= 2
  BY FsAssumption, FileSysAssumption
<1>2. DataBlock \subseteq Nat /\ 0 \notin DataBlock
  BY FsAssumption
<1>3. Root = 1 /\ Root \in Inum /\ Inum \subseteq Nat /\ 0 \notin Inum
  BY <1>1 DEF Root, Inum
<1> QED  BY <1>1, <1>2, <1>3 DEF NIndirect, MaxFile

\* The blocks that a file of n cells needs.
InFile(bn, n) == bn * BSize < n

\* A position in a file is a cell of one block.
LEMMA Position ==
  ASSUME NEW p \in Nat
  PROVE  /\ p \div BSize \in Nat /\ p % BSize \in 0..(BSize - 1)
         /\ p = BSize * (p \div BSize) + (p % BSize)
BY Consts

\* A block is in a file when the file reaches into it.
LEMMA InFileFacts ==
  ASSUME NEW p \in Nat, NEW bn \in Nat, bn = p \div BSize
  PROVE  /\ \A n \in Nat : p < n => InFile(bn, n)
         /\ \A k \in Nat : InFile(k, p + 1) <=> InFile(k, p) \/ k = bn
         /\ \A k \in Nat : k < bn => InFile(k, p)
         /\ \A m \in Nat : p < m * BSize => bn < m
<1>1. PICK r \in 0..(BSize - 1) : p = BSize * bn + r
  BY Position
<1> HIDE DEF InFile
<1>2. \A n \in Nat : p < n => InFile(bn, n)
  BY <1>1, Consts DEF InFile
<1>3. \A k \in Nat : k < bn => k * BSize + BSize <= bn * BSize
  <2> TAKE k \in Nat
  <2> HAVE k < bn
  <2>1. PICK e \in Nat : bn = k + 1 + e
    <3>1. bn - k - 1 \in Nat /\ bn = k + 1 + (bn - k - 1)
      OBVIOUS
    <3> QED  BY <3>1
  <2>2. bn * BSize = k * BSize + BSize + e * BSize /\ e * BSize >= 0 /\ k * BSize \in Nat
    BY <2>1, Consts
  <2> QED  BY <2>2, Consts
<1>4. \A k \in Nat : bn < k => bn * BSize + BSize <= k * BSize
  <2> TAKE k \in Nat
  <2> HAVE bn < k
  <2>1. PICK e \in Nat : k = bn + 1 + e
    <3>1. k - bn - 1 \in Nat /\ k = bn + 1 + (k - bn - 1)
      OBVIOUS
    <3> QED  BY <3>1
  <2>2. k * BSize = bn * BSize + BSize + e * BSize /\ e * BSize >= 0 /\ bn * BSize \in Nat
    BY <2>1, Consts
  <2> QED  BY <2>2, Consts
<1>5. bn * BSize \in Nat /\ bn * BSize <= p /\ p < bn * BSize + BSize
  BY <1>1, Consts
<1>6. \A k \in Nat : k < bn => InFile(k, p)
  BY <1>3, <1>5, Consts DEF InFile
<1>7. ASSUME NEW k \in Nat PROVE InFile(k, p + 1) <=> InFile(k, p) \/ k = bn
  <2>1. k * BSize \in Nat
    BY Consts
  <2>2. CASE k < bn
    BY <2>1, <2>2, <1>3, <1>5, Consts DEF InFile
  <2>3. CASE k = bn
    BY <2>3, <1>5, Consts DEF InFile
  <2>4. CASE bn < k
    BY <2>1, <2>4, <1>4, <1>5, Consts DEF InFile
  <2> QED  BY <2>2, <2>3, <2>4
<1>8. ASSUME NEW m \in Nat, p < m * BSize PROVE bn < m
  <2>1. CASE m = bn
    BY <2>1, <1>8, <1>5, Consts
  <2>2. CASE m < bn
    BY <2>2, <1>8, <1>3, <1>5, Consts
  <2> QED  BY <2>1, <2>2, Consts
<1> QED  BY <1>2, <1>6, <1>7, <1>8

-----------------------------------------------------------------------------
(* Files and their blocks.                                                 *)

DinodeSet == [type : {"T_UNUSED", "T_DIR", "T_FILE"}, nlink : Nat, size : Nat,
              addrs : [0..NDirect -> DataBlock \cup {0}]]
BlockSet  == [0..(BSize - 1) -> Cell]
SlotSet   == [ref : Nat, locked : BOOLEAN, valid : BOOLEAN, d : DinodeSet]
PanicSet  == {"", "balloc: out of blocks", "ialloc: no inodes"}
FsValue   == [dinode : [Inum -> DinodeSet], bitmap : SUBSET DataBlock,
              block : [DataBlock -> BlockSet], ic : [Inum -> SlotSet], panic : PanicSet]

Addr(d, k) == d.addrs[k]

\* What is in a dinode.
LEMMA DinodeIs ==
  ASSUME NEW d \in DinodeSet
  PROVE  /\ d.type \in {"T_UNUSED", "T_DIR", "T_FILE"} /\ d.nlink \in Nat /\ d.size \in Nat
         /\ \A k \in 0..NDirect : Addr(d, k) \in DataBlock \cup {0}
BY DEF DinodeSet, Addr

\* Dinodes with the same fields are equal.
LEMMA DinodeEqual ==
  ASSUME NEW d \in DinodeSet, NEW e \in DinodeSet, d.type = e.type, d.nlink = e.nlink,
         d.size = e.size, \A k \in 0..NDirect : Addr(d, k) = Addr(e, k)
  PROVE  d = e
<1>1. d.addrs = e.addrs
  <2>1. d.addrs \in [0..NDirect -> DataBlock \cup {0}] /\ e.addrs \in [0..NDirect -> DataBlock \cup {0}]
    BY DEF DinodeSet
  <2>2. \A k \in 0..NDirect : d.addrs[k] = e.addrs[k]
    BY DEF Addr
  <2>3. d.addrs = [k \in 0..NDirect |-> d.addrs[k]] /\ e.addrs = [k \in 0..NDirect |-> e.addrs[k]]
    BY <2>1, Zenon
  <2>4. [k \in 0..NDirect |-> d.addrs[k]] = [k \in 0..NDirect |-> e.addrs[k]]
    BY <2>2, Zenon
  <2> QED  BY <2>3, <2>4, Zenon
<1> QED  BY <1>1 DEF DinodeSet

\* What inode d refers to at k: a direct block, a block of its indirect block or,
\* at MaxFile, its indirect block.
Place(d, blk, k) ==
  IF k < NDirect THEN Addr(d, k)
  ELSE IF k = MaxFile \/ Addr(d, NDirect) = 0 THEN Addr(d, NDirect)
  ELSE blk[Addr(d, NDirect)][k - NDirect].n

\* The blocks marked used are those that inodes refer to, each in one place.
Exact(dn, bm, blk) ==
  /\ \A i \in Inum, k \in 0..MaxFile : Place(dn[i], blk, k) # 0 => Place(dn[i], blk, k) \in bm
  /\ \A i, j \in Inum : \A k, m \in 0..MaxFile :
       Place(dn[i], blk, k) # 0 /\ Place(dn[i], blk, k) = Place(dn[j], blk, m) => i = j /\ k = m
  /\ \A b \in bm : \E i \in Inum, k \in 0..MaxFile : Place(dn[i], blk, k) = b

\* balloc and a store of the new number at place k of inode i.
LEMMA ExactGrows ==
  ASSUME NEW dn, NEW bm, NEW blk, Exact(dn, bm, blk), NEW dn2, NEW bm2, NEW blk2,
         NEW i \in Inum, NEW k \in 0..MaxFile, 0 \notin bm,
         NEW b, b # 0, b \notin bm, bm2 = bm \cup {b},
         Place(dn[i], blk, k) = 0, Place(dn2[i], blk2, k) = b,
         \A j \in Inum, m \in 0..MaxFile :
           ~(j = i /\ m = k) => Place(dn2[j], blk2, m) = Place(dn[j], blk, m)
  PROVE  Exact(dn2, bm2, blk2)
<1>1. ASSUME NEW j \in Inum, NEW m \in 0..MaxFile, Place(dn2[j], blk2, m) # 0
      PROVE  /\ Place(dn2[j], blk2, m) \in bm2
             /\ Place(dn2[j], blk2, m) = b => j = i /\ m = k
  BY <1>1 DEF Exact
<1>2. ASSUME NEW j \in Inum, NEW j2 \in Inum, NEW m \in 0..MaxFile, NEW m2 \in 0..MaxFile,
             Place(dn2[j], blk2, m) # 0, Place(dn2[j], blk2, m) = Place(dn2[j2], blk2, m2)
      PROVE  j = j2 /\ m = m2
  <2>1. CASE Place(dn2[j], blk2, m) = b
    BY <1>1, <1>2, <2>1
  <2>2. CASE Place(dn2[j], blk2, m) # b
    <3>1. ~(j = i /\ m = k) /\ ~(j2 = i /\ m2 = k)
      BY <1>2, <2>2
    <3> QED  BY <1>2, <3>1 DEF Exact
  <2> QED  BY <2>1, <2>2
<1>3. ASSUME NEW c \in bm2 PROVE \E j \in Inum, m \in 0..MaxFile : Place(dn2[j], blk2, m) = c
  <2>1. CASE c = b
    BY <2>1
  <2>2. CASE c \in bm
    <3>1. PICK j \in Inum, m \in 0..MaxFile : Place(dn[j], blk, m) = c
      BY <2>2 DEF Exact
    <3>2. CASE j = i /\ m = k
      BY <3>1, <3>2, <1>3
    <3> QED  BY <3>1, <3>2
  <2> QED  BY <2>1, <2>2
<1> QED  BY <1>1, <1>2, <1>3 DEF Exact

\* Place MaxFile is the indirect block ...
LEMMA PlaceTop ==
  ASSUME NEW d, NEW blk
  PROVE  Place(d, blk, MaxFile) = Addr(d, NDirect)
BY Consts DEF Place

\* ... and those before it are its entries.
LEMMA PlaceEntry ==
  ASSUME NEW d, NEW blk, NEW m \in 0..(BSize - 1), NEW k, k = m + NDirect
  PROVE  /\ k \in 0..MaxFile /\ k # MaxFile
         /\ Addr(d, NDirect) # 0 => Place(d, blk, k) = blk[Addr(d, NDirect)][m].n
         /\ Addr(d, NDirect) = 0 => Place(d, blk, k) = 0
<1>1. k \in 0..MaxFile /\ k # MaxFile /\ ~(k < NDirect) /\ k - NDirect = m
  BY Consts
<1>2. Addr(d, NDirect) # 0 => Place(d, blk, k) = blk[Addr(d, NDirect)][k - NDirect].n
  BY <1>1 DEF Place
<1> QED  BY <1>1, <1>2 DEF Place

\* Two inodes and disks alike in their addresses and in the indirect block.
LEMMA SamePlaces ==
  ASSUME NEW d, NEW d2, NEW blk, NEW blk2, \A n \in 0..NDirect : Addr(d2, n) = Addr(d, n),
         Addr(d, NDirect) # 0 => blk2[Addr(d, NDirect)] = blk[Addr(d, NDirect)],
         NEW k \in 0..MaxFile
  PROVE  Place(d2, blk2, k) = Place(d, blk, k)
BY Consts DEF Place

\* bzero leaves a block that refers to nothing.
LEMMA ZeroBlockIs ==
  /\ ZeroBlock \in BlockSet
  /\ \A k \in 0..(BSize - 1) : ZeroBlock[k].n = 0
BY DEF ZeroBlock, BlockSet, Cell, Raw

\* A new block for addrs[m] of inode i.
AddrAdded(dn, bm, blk, i, m, b, dn2, bm2, blk2) ==
  /\ dn \in [Inum -> DinodeSet] /\ bm \in SUBSET DataBlock /\ blk \in [DataBlock -> BlockSet]
  /\ Exact(dn, bm, blk) /\ i \in Inum /\ m \in 0..NDirect /\ b \in DataBlock \ bm /\ bm2 = bm \cup {b}
  /\ Addr(dn[i], m) = 0
  /\ dn2 \in [Inum -> DinodeSet] /\ \A j \in Inum : j # i => dn2[j] = dn[j]
  /\ Addr(dn2[i], m) = b /\ \A n \in 0..NDirect : n # m => Addr(dn2[i], n) = Addr(dn[i], n)
  /\ blk2 \in [DataBlock -> BlockSet] /\ blk2[b] = ZeroBlock
  /\ \A c \in DataBlock : c # b => blk2[c] = blk[c]

\* It is referred to from there and from nowhere else.
LEMMA AddAddr ==
  ASSUME NEW dn, NEW bm, NEW blk, NEW i, NEW m, NEW b, NEW dn2, NEW bm2, NEW blk2,
         AddrAdded(dn, bm, blk, i, m, b, dn2, bm2, blk2),
         NEW k, k = (IF m = NDirect THEN MaxFile ELSE m)
  PROVE  /\ Exact(dn2, bm2, blk2)
         /\ Place(dn2[i], blk2, k) = b
         /\ \A j \in Inum, n \in 0..MaxFile :
              ~(j = i /\ n = k) => Place(dn2[j], blk2, n) = Place(dn[j], blk, n)
<1>a. /\ dn \in [Inum -> DinodeSet] /\ bm \in SUBSET DataBlock /\ blk \in [DataBlock -> BlockSet]
      /\ Exact(dn, bm, blk) /\ i \in Inum /\ m \in 0..NDirect /\ b \in DataBlock \ bm /\ bm2 = bm \cup {b}
      /\ Addr(dn[i], m) = 0
      /\ dn2 \in [Inum -> DinodeSet] /\ \A j \in Inum : j # i => dn2[j] = dn[j]
      /\ Addr(dn2[i], m) = b /\ \A n \in 0..NDirect : n # m => Addr(dn2[i], n) = Addr(dn[i], n)
      /\ blk2 \in [DataBlock -> BlockSet] /\ blk2[b] = ZeroBlock
      /\ \A c \in DataBlock : c # b => blk2[c] = blk[c]
  BY DEF AddrAdded
<1>0. k \in 0..MaxFile /\ NDirect \in Nat /\ MaxFile = NDirect + BSize /\ BSize \in Nat /\ BSize >= 2
      /\ b # 0 /\ b \in DataBlock
  BY <1>a, Consts
<1>1. Place(dn[i], blk, k) = 0 /\ Place(dn2[i], blk2, k) = b
  <2>1. \A d, bl : Place(d, bl, k) = Addr(d, m)
    <3>1. CASE m = NDirect
      BY <3>1, PlaceTop
    <3>2. CASE m # NDirect
      <4>1. k = m /\ m < NDirect
        BY <1>a, <1>0, <3>2
      <4> QED  BY <4>1 DEF Place
    <3> QED  BY <3>1, <3>2
  <2> QED  BY <1>a, <2>1
<1>2. ASSUME NEW j \in Inum, NEW n \in 0..MaxFile, j # i
      PROVE  Place(dn2[j], blk2, n) = Place(dn[j], blk, n)
  <2>1. Addr(dn[j], NDirect) # 0 => Addr(dn[j], NDirect) \in bm
    BY <1>a, PlaceTop, <1>0 DEF Exact
  <2>2. dn2[j] = dn[j] /\ (Addr(dn[j], NDirect) # 0 => blk2[Addr(dn[j], NDirect)] = blk[Addr(dn[j], NDirect)])
    BY <1>a, <2>1, <1>2
  <2> QED  BY <1>a, <2>2, SamePlaces
<1>3. ASSUME NEW n \in 0..MaxFile, n # k
      PROVE  Place(dn2[i], blk2, n) = Place(dn[i], blk, n)
  <2>1. CASE n < NDirect
    BY <1>a, <2>1, <1>3, <1>0 DEF Place
  <2>2. CASE n >= NDirect /\ m # NDirect
    <3>1. Addr(dn[i], NDirect) # 0 => Addr(dn[i], NDirect) \in bm
      BY <1>a, PlaceTop, <1>0 DEF Exact
    <3>2. Addr(dn2[i], NDirect) = Addr(dn[i], NDirect)
      BY <1>a, <2>2, <1>0
    <3>3. Addr(dn[i], NDirect) # 0 => blk2[Addr(dn[i], NDirect)] = blk[Addr(dn[i], NDirect)]
      BY <1>a, <3>1
    <3> QED  BY <1>a, <2>2, <3>2, <3>3, <1>0 DEF Place
  <2>3. CASE n >= NDirect /\ m = NDirect
    <3>1. n # MaxFile /\ n - NDirect \in 0..(BSize - 1)
      BY <1>a, <2>3, <1>3, <1>0
    <3>2. Place(dn[i], blk, n) = 0
      BY <1>a, <2>3, <3>1, <1>0 DEF Place
    <3>3. Place(dn2[i], blk2, n) = ZeroBlock[n - NDirect].n
      BY <1>a, <2>3, <3>1, <1>0 DEF Place
    <3> QED  BY <1>a, <3>1, <3>2, <3>3, ZeroBlockIs
  <2> QED  BY <1>a, <2>1, <2>2, <2>3, <1>0
<1>4. \A j \in Inum, n \in 0..MaxFile :
        ~(j = i /\ n = k) => Place(dn2[j], blk2, n) = Place(dn[j], blk, n)
  BY <1>a, <1>2, <1>3
<1>5. Exact(dn2, bm2, blk2)
  BY <1>a, <1>0, <1>1, <1>4, ExactGrows, Consts
<1> QED  BY <1>a, <1>1, <1>4, <1>5

\* A new block for entry m of the indirect block of inode i.
EntryAdded(dn, bm, blk, i, m, b, top, bm2, blk2) ==
  /\ dn \in [Inum -> DinodeSet] /\ bm \in SUBSET DataBlock /\ blk \in [DataBlock -> BlockSet]
  /\ Exact(dn, bm, blk) /\ i \in Inum /\ m \in 0..(BSize - 1) /\ b \in DataBlock \ bm /\ bm2 = bm \cup {b}
  /\ top = Addr(dn[i], NDirect) /\ top # 0 /\ blk[top][m].n = 0
  /\ blk2 \in [DataBlock -> BlockSet]
  /\ blk2[top][m].n = b /\ \A n \in 0..(BSize - 1) : n # m => blk2[top][n] = blk[top][n]
  /\ \A c \in DataBlock : c # b /\ c # top => blk2[c] = blk[c]

\* It is referred to from there and from nowhere else.
LEMMA AddEntry ==
  ASSUME NEW dn, NEW bm, NEW blk, NEW i, NEW m, NEW b, NEW top, NEW bm2, NEW blk2,
         EntryAdded(dn, bm, blk, i, m, b, top, bm2, blk2)
  PROVE  /\ Exact(dn, bm2, blk2)
         /\ Place(dn[i], blk2, m + NDirect) = b
         /\ \A j \in Inum, n \in 0..MaxFile :
              ~(j = i /\ n = m + NDirect) => Place(dn[j], blk2, n) = Place(dn[j], blk, n)
         /\ top \in bm
<1>a. /\ dn \in [Inum -> DinodeSet] /\ bm \in SUBSET DataBlock /\ blk \in [DataBlock -> BlockSet]
      /\ Exact(dn, bm, blk) /\ i \in Inum /\ m \in 0..(BSize - 1) /\ b \in DataBlock \ bm /\ bm2 = bm \cup {b}
      /\ top = Addr(dn[i], NDirect) /\ top # 0 /\ blk[top][m].n = 0
      /\ blk2 \in [DataBlock -> BlockSet]
      /\ blk2[top][m].n = b /\ \A n \in 0..(BSize - 1) : n # m => blk2[top][n] = blk[top][n]
      /\ \A c \in DataBlock : c # b /\ c # top => blk2[c] = blk[c]
  BY DEF EntryAdded
<1> DEFINE k == m + NDirect
<1>0. k \in 0..MaxFile /\ k # MaxFile /\ k >= NDirect /\ k - NDirect = m /\ NDirect \in Nat
      /\ MaxFile = NDirect + BSize /\ BSize \in Nat /\ BSize >= 2
      /\ b # 0 /\ b \in DataBlock
  BY <1>a, Consts
<1> HIDE DEF k
<1>1. Place(dn[i], blk, k) = 0 /\ Place(dn[i], blk2, k) = b
  BY <1>a, <1>0 DEF Place
<1>2. Place(dn[i], blk, MaxFile) = top /\ MaxFile \in 0..MaxFile
  BY <1>a, <1>0, PlaceTop
<1>3. top \in bm
  BY <1>a, <1>2 DEF Exact
<1>4. ASSUME NEW j \in Inum, NEW n \in 0..MaxFile, j # i
      PROVE  Place(dn[j], blk2, n) = Place(dn[j], blk, n)
  <2>1. Place(dn[j], blk, MaxFile) = Addr(dn[j], NDirect)
    BY <1>a, PlaceTop
  <2>2. Addr(dn[j], NDirect) # 0 => Addr(dn[j], NDirect) \in bm /\ Addr(dn[j], NDirect) # top
    BY <1>a, <1>2, <1>4, <2>1 DEF Exact
  <2>3. Addr(dn[j], NDirect) # 0 => blk2[Addr(dn[j], NDirect)] = blk[Addr(dn[j], NDirect)]
    BY <1>a, <2>2
  <2> QED  BY <1>a, <2>3, SamePlaces
<1>5. ASSUME NEW n \in 0..MaxFile, n # k
      PROVE  Place(dn[i], blk2, n) = Place(dn[i], blk, n)
  <2>1. CASE n < NDirect \/ n = MaxFile
    BY <1>a, <2>1 DEF Place
  <2>2. CASE n >= NDirect /\ n # MaxFile
    <3>1. n - NDirect \in 0..(BSize - 1) /\ n - NDirect # m
      BY <1>a, <2>2, <1>5, <1>0
    <3>2. blk2[top][n - NDirect] = blk[top][n - NDirect]
      BY <1>a, <3>1
    <3> QED  BY <1>a, <3>2 DEF Place
  <2> QED  BY <1>a, <2>1, <2>2, <1>0
<1>6. \A j \in Inum, n \in 0..MaxFile :
        ~(j = i /\ n = k) => Place(dn[j], blk2, n) = Place(dn[j], blk, n)
  BY <1>a, <1>4, <1>5
<1>7. Exact(dn, bm2, blk2)
  BY <1>a, <1>0, <1>1, <1>6, ExactGrows, Consts
<1> QED  BY <1>a, <1>1, <1>3, <1>6, <1>7 DEF k

-----------------------------------------------------------------------------
(* balloc and bmap.                                                        *)

NoBlock == "balloc: out of blocks"

\* r is the result [s |-> t, v |-> v]
Gives(r, t, v) == r.s = t /\ r.v = v

Slot(s, i) == s.ic[i]
Mem(s, i)  == s.ic[i].d
Dsk(s, i)  == s.dinode[i]

\* The inodes while inode i is worked on in memory, and what inode j refers to at n.
Now(s, i) == [j \in Inum |-> IF j = i THEN Mem(s, i) ELSE Dsk(s, j)]
Ref(s, i, j, n) == Place(Now(s, i)[j], s.block, n)
NowExact(s, i) == Exact(Now(s, i), s.bitmap, s.block)

\* What is in a file system value.
LEMMA ValueIs ==
  ASSUME NEW s \in FsValue
  PROVE  /\ s.bitmap \in SUBSET DataBlock /\ s.block \in [DataBlock -> BlockSet]
         /\ s.panic \in PanicSet
         /\ \A i \in Inum : Mem(s, i) \in DinodeSet /\ Dsk(s, i) \in DinodeSet /\ Slot(s, i) \in SlotSet
BY DEF FsValue, SlotSet, Mem, Dsk, Slot

\* The inode that is worked on is the one in memory.
LEMMA NowIs ==
  ASSUME NEW s \in FsValue, NEW i \in Inum
  PROVE  /\ Now(s, i) \in [Inum -> DinodeSet] /\ Now(s, i)[i] = Mem(s, i)
         /\ \A j \in Inum : j # i => Now(s, i)[j] = Dsk(s, j)
BY ValueIs DEF Now

\* Slot i is the same but for its copy of the inode, and the other slots are the same.
SameSlots(s, t, i) ==
  /\ \A j \in Inum : j # i => Slot(t, j) = Slot(s, j)
  /\ Slot(t, i).ref = Slot(s, i).ref /\ Slot(t, i).locked = Slot(s, i).locked
  /\ Slot(t, i).valid = Slot(s, i).valid

\* ... and so is that copy, but for the addresses.
SameFile(s, t, i) ==
  /\ SameSlots(s, t, i) /\ \A j \in Inum : Dsk(t, j) = Dsk(s, j)
  /\ Mem(t, i).type = Mem(s, i).type /\ Mem(t, i).size = Mem(s, i).size
  /\ Mem(t, i).nlink = Mem(s, i).nlink

\* SameFile is transitive.
LEMMA SameFileTwice ==
  ASSUME NEW s, NEW t, NEW u, NEW i, SameFile(s, t, i), SameFile(t, u, i)
  PROVE  SameFile(s, u, i)
BY DEF SameFile, SameSlots

\* Only blocks and bitmap may differ.
SameInodes(s, t) == t.ic = s.ic /\ t.dinode = s.dinode

\* The same inodes and indirect blocks refer to the same blocks.
LEMMA SameInodesIs ==
  ASSUME NEW s, NEW t, SameInodes(s, t), NEW i
  PROVE  /\ SameFile(s, t, i) /\ Now(t, i) = Now(s, i)
         /\ \A j : Mem(t, j) = Mem(s, j) /\ Dsk(t, j) = Dsk(s, j) /\ Slot(t, j) = Slot(s, j)
<1>1. \A j : Mem(t, j) = Mem(s, j) /\ Dsk(t, j) = Dsk(s, j) /\ Slot(t, j) = Slot(s, j)
  BY DEF SameInodes, Mem, Dsk, Slot
<1>2. Now(t, i) = Now(s, i)
  BY <1>1 DEF Now
<1> QED  BY <1>1, <1>2 DEF SameFile, SameSlots

\* panic() changes nothing else.
LEMMA PanicIs ==
  ASSUME NEW s \in FsValue, Ok(s), NEW why \in PanicSet, NEW t, t = Panic(s, why)
  PROVE  /\ t \in FsValue /\ t.panic = why
         /\ t.dinode = s.dinode /\ t.bitmap = s.bitmap /\ t.block = s.block /\ t.ic = s.ic
BY DEF Panic, FsValue

\* balloc finds a free block and clears it, or the disk is full.
LEMMA BallocIs ==
  ASSUME NEW s \in FsValue, Ok(s), NEW t, NEW b, Gives(Balloc(s), t, b)
  PROVE  \/ t \in FsValue /\ t.panic = NoBlock /\ b = 0
         \/ /\ t \in FsValue /\ Ok(t) /\ b \in DataBlock \ s.bitmap
            /\ t.bitmap = s.bitmap \cup {b} /\ SameInodes(s, t)
            /\ t.block[b] = ZeroBlock
            /\ \A c \in DataBlock : c # b => t.block[c] = s.block[c]
<1>1. CASE DataBlock \subseteq s.bitmap
  <2>1. NoBlock \in PanicSet
    BY DEF NoBlock, PanicSet
  <2>2. Balloc(s) = Result(Panic(s, NoBlock), 0)
    BY <1>1 DEF Balloc, NoBlock
  <2>3. t = Panic(s, NoBlock) /\ b = 0
    BY <2>2 DEF Result, Gives
  <2> QED  BY <2>1, <2>3, PanicIs
<1>2. CASE ~(DataBlock \subseteq s.bitmap)
  <2> DEFINE c == Min(DataBlock \ s.bitmap)
             u == [s EXCEPT !.bitmap = @ \cup {c}, !.block[c] = ZeroBlock]
  <2>1. c \in DataBlock \ s.bitmap
    <3>1. DataBlock \ s.bitmap \in SUBSET Nat /\ DataBlock \ s.bitmap # {}
      BY <1>2, Consts
    <3> QED  BY <3>1, MinIs
  <2>2. t = u /\ b = c
    BY <1>2 DEF Balloc, Result, Gives
  <2> HIDE DEF c
  <2>3. /\ u \in FsValue /\ u.panic = s.panic /\ u.dinode = s.dinode /\ u.ic = s.ic
        /\ u.bitmap = s.bitmap \cup {c} /\ u.block = [s.block EXCEPT ![c] = ZeroBlock]
    BY <2>1, ZeroBlockIs DEF FsValue
  <2>4. u.block[c] = ZeroBlock /\ \A e \in DataBlock : e # c => u.block[e] = s.block[e]
    BY <2>1, <2>3 DEF FsValue
  <2> HIDE DEF u
  <2> QED  BY <2>1, <2>2, <2>3, <2>4 DEF Ok, SameInodes
<1> QED  BY <1>1, <1>2

Enter(s, i, k, b) == [s EXCEPT !.ic[i].d.addrs[k] = b]

\* A block number stored in addrs[m] of the inode in memory.
LEMMA EnterIs ==
  ASSUME NEW s \in FsValue, NEW i \in Inum, NEW k \in 0..NDirect, NEW b \in DataBlock \cup {0},
         NEW t, t = Enter(s, i, k, b)
  PROVE  /\ t \in FsValue /\ t.panic = s.panic /\ SameFile(s, t, i)
         /\ t.bitmap = s.bitmap /\ t.block = s.block
         /\ Addr(Mem(t, i), k) = b
         /\ \A n \in 0..NDirect : n # k => Addr(Mem(t, i), n) = Addr(Mem(s, i), n)
<1> DEFINE a == [s.ic[i].d.addrs EXCEPT ![k] = b]
           d == [s.ic[i].d EXCEPT !.addrs = a]
           c == [s.ic[i] EXCEPT !.d = d]
           u == [s.ic EXCEPT ![i] = c]
<1>1. t = [s EXCEPT !.ic = u]
  BY DEF Enter
<1>0. s.ic \in [Inum -> SlotSet] /\ s.ic[i] \in SlotSet /\ s.ic[i].d \in DinodeSet
      /\ s.ic[i].d.addrs \in [0..NDirect -> DataBlock \cup {0}]
  BY DEF FsValue, SlotSet, DinodeSet
<1>2. /\ a \in [0..NDirect -> DataBlock \cup {0}] /\ a[k] = b
      /\ \A n \in 0..NDirect : n # k => a[n] = Addr(Mem(s, i), n)
  BY <1>0 DEF Addr, Mem
<1> HIDE DEF a
<1>3. /\ d \in DinodeSet /\ d.addrs = a /\ d.type = s.ic[i].d.type /\ d.size = s.ic[i].d.size
      /\ d.nlink = s.ic[i].d.nlink
  BY <1>0, <1>2 DEF DinodeSet
<1> HIDE DEF d
<1>4. /\ c \in SlotSet /\ c.d = d /\ c.ref = s.ic[i].ref /\ c.locked = s.ic[i].locked /\ c.valid = s.ic[i].valid
  BY <1>0, <1>3 DEF SlotSet
<1> HIDE DEF c
<1>5. u \in [Inum -> SlotSet] /\ u[i] = c /\ \A j \in Inum : j # i => u[j] = s.ic[j]
  BY <1>0, <1>4
<1> HIDE DEF u
<1>6. /\ t \in FsValue /\ t.panic = s.panic /\ t.ic = u
      /\ t.dinode = s.dinode /\ t.bitmap = s.bitmap /\ t.block = s.block
  BY <1>1, <1>5 DEF FsValue
<1>7. Slot(t, i) = c /\ Mem(t, i) = d /\ \A j \in Inum : j # i => Slot(t, j) = Slot(s, j)
  BY <1>4, <1>5, <1>6 DEF Slot, Mem
<1>8. c.ref = Slot(s, i).ref /\ c.locked = Slot(s, i).locked /\ c.valid = Slot(s, i).valid
  BY <1>4 DEF Slot
<1>9. d.type = Mem(s, i).type /\ d.size = Mem(s, i).size /\ d.nlink = Mem(s, i).nlink
  BY <1>3 DEF Mem
<1>10. \A j : Dsk(t, j) = Dsk(s, j)
  BY <1>6 DEF Dsk
<1>11. \A n : Addr(d, n) = a[n]
  BY <1>3 DEF Addr
<1> QED  BY <1>2, <1>6, <1>7, <1>8, <1>9, <1>10, <1>11 DEF SameSlots, SameFile

\* Bmap has given inode i blocks at K, if they were missing, and done nothing else.
Grows(s, t, i, K) ==
  /\ t \in FsValue /\ Ok(t) /\ SameFile(s, t, i) /\ NowExact(t, i)
  /\ \A j \in Inum, n \in 0..MaxFile :
       /\ Ref(t, i, j, n) # 0 <=> Ref(s, i, j, n) # 0 \/ (j = i /\ n \in K)
       /\ Ref(s, i, j, n) # 0 => Ref(t, i, j, n) = Ref(s, i, j, n)
       /\ Ref(s, i, j, n) # 0 /\ n # MaxFile => t.block[Ref(s, i, j, n)] = s.block[Ref(s, i, j, n)]

\* Two blocks allocated one after the other.
LEMMA GrowsTwice ==
  ASSUME NEW s, NEW t, NEW u, NEW i \in Inum, NEW K, NEW M, Grows(s, t, i, K), Grows(t, u, i, M)
  PROVE  Grows(s, u, i, K \cup M)
<1>1. u \in FsValue /\ Ok(u) /\ SameFile(s, u, i) /\ NowExact(u, i)
  BY SameFileTwice DEF Grows
<1>2. ASSUME NEW j \in Inum, NEW n \in 0..MaxFile
      PROVE /\ Ref(u, i, j, n) # 0 <=> Ref(s, i, j, n) # 0 \/ (j = i /\ n \in K \cup M)
            /\ Ref(s, i, j, n) # 0 => Ref(u, i, j, n) = Ref(s, i, j, n)
            /\ Ref(s, i, j, n) # 0 /\ n # MaxFile =>
                 u.block[Ref(s, i, j, n)] = s.block[Ref(s, i, j, n)]
  BY DEF Grows
<1> QED  BY <1>1, <1>2 DEF Grows

\* Nothing allocated.
LEMMA GrowsNot ==
  ASSUME NEW s \in FsValue, NEW i \in Inum, Ok(s), NowExact(s, i)
  PROVE  Grows(s, s, i, {})
BY DEF Grows, SameSlots, SameFile

InodeAddrNew(s, i, k) == InodeAddr(s, i, k, TRUE)
AddrPlace(k) == IF k = NDirect THEN MaxFile ELSE k
Just(k) == {k}

\* addrs[k] is set after InodeAddr, or the disk is full.
LEMMA InodeAddrIs ==
  ASSUME NEW s \in FsValue, Ok(s), NEW i \in Inum, NowExact(s, i), NEW k \in 0..NDirect,
         NEW p, p = AddrPlace(k), NEW t, NEW v, Gives(InodeAddrNew(s, i, k), t, v)
  PROVE  \/ t \in FsValue /\ t.panic = NoBlock /\ v = 0
         \/ /\ Grows(s, t, i, Just(p)) /\ v \in DataBlock
            /\ v = Addr(Mem(t, i), k) /\ v = Ref(t, i, i, p)
<1>0. p \in 0..MaxFile /\ \A d, blk : Place(d, blk, p) = Addr(d, k)
  BY Consts DEF Place, AddrPlace
<1>1. Ref(s, i, i, p) = Addr(Mem(s, i), k) /\ Addr(Mem(s, i), k) \in DataBlock \cup {0}
  BY <1>0, NowIs, ValueIs, DinodeIs DEF Ref
<1>a. s.ic[i].d.addrs[k] = Addr(Mem(s, i), k)
  BY DEF Mem, Addr
<1>2. CASE Addr(Mem(s, i), k) # 0
  <2>1. t = s /\ v = Addr(Mem(s, i), k)
    BY <1>2, <1>a DEF InodeAddrNew, InodeAddr, Result, Gives
  <2>2. Grows(s, s, i, Just(p))
    BY <1>0, <1>1, <1>2, GrowsNot DEF Grows, Just
  <2> QED  BY <1>1, <1>2, <2>1, <2>2
<1>3. CASE Addr(Mem(s, i), k) = 0
  <2> DEFINE a == Balloc(s).s
             b == Balloc(s).v
  <2>1. t = Enter(a, i, k, b) /\ v = b
    BY <1>3, <1>a DEF InodeAddrNew, InodeAddr, Result, Enter, Gives
  <2>2. \/ a \in FsValue /\ a.panic = NoBlock /\ b = 0
        \/ /\ a \in FsValue /\ Ok(a) /\ b \in DataBlock \ s.bitmap
           /\ a.bitmap = s.bitmap \cup {b} /\ SameInodes(s, a)
           /\ a.block[b] = ZeroBlock
           /\ \A c \in DataBlock : c # b => a.block[c] = s.block[c]
    <3>1. Gives(Balloc(s), a, b)
      BY DEF Gives
    <3> HIDE DEF a, b
    <3> QED  BY <3>1, BallocIs
  <2> HIDE DEF a, b
  <2>3. CASE a \in FsValue /\ a.panic = NoBlock /\ b = 0
    <3>1. t \in FsValue /\ t.panic = a.panic
      BY <2>1, <2>3, EnterIs
    <3> QED  BY <2>1, <2>3, <3>1
  <2>4. CASE /\ a \in FsValue /\ Ok(a) /\ b \in DataBlock \ s.bitmap
             /\ a.bitmap = s.bitmap \cup {b} /\ SameInodes(s, a)
             /\ a.block[b] = ZeroBlock
             /\ \A c \in DataBlock : c # b => a.block[c] = s.block[c]
    <3>1. /\ t \in FsValue /\ t.panic = a.panic /\ SameFile(a, t, i)
          /\ t.bitmap = a.bitmap /\ t.block = a.block
          /\ Addr(Mem(t, i), k) = b
          /\ \A n \in 0..NDirect : n # k => Addr(Mem(t, i), n) = Addr(Mem(a, i), n)
      BY <2>1, <2>4, EnterIs
    <3>2. /\ SameFile(s, a, i) /\ Mem(a, i) = Mem(s, i) /\ Now(a, i) = Now(s, i)
      BY <2>4, SameInodesIs
    <3>3. SameFile(s, t, i) /\ Ok(t)
      BY <2>4, <3>1, <3>2, SameFileTwice DEF Ok
    <3> DEFINE dn == Now(s, i)
               dn2 == Now(t, i)
               bm == s.bitmap
               bm2 == t.bitmap
               blk == s.block
               blk2 == t.block
    <3>4. /\ dn \in [Inum -> DinodeSet] /\ bm \in SUBSET DataBlock /\ blk \in [DataBlock -> BlockSet]
          /\ Exact(dn, bm, blk) /\ b \in DataBlock \ bm /\ bm2 = bm \cup {b} /\ Addr(dn[i], k) = 0
          /\ dn2 \in [Inum -> DinodeSet] /\ \A j \in Inum : j # i => dn2[j] = dn[j]
      BY <1>3, <2>4, <3>1, <3>3, NowIs, ValueIs DEF NowExact, SameFile
    <3>5. /\ Addr(dn2[i], k) = b /\ \A n \in 0..NDirect : n # k => Addr(dn2[i], n) = Addr(dn[i], n)
          /\ blk2 \in [DataBlock -> BlockSet] /\ blk2[b] = ZeroBlock
          /\ \A c \in DataBlock : c # b => blk2[c] = blk[c]
      BY <2>4, <3>1, <3>2, NowIs, ValueIs
    <3>a. AddrAdded(dn, bm, blk, i, k, b, dn2, bm2, blk2)
      BY <3>4, <3>5 DEF AddrAdded
    <3> HIDE DEF dn, dn2, bm, bm2, blk, blk2
    <3>6. /\ Exact(dn2, bm2, blk2)
          /\ Place(dn2[i], blk2, p) = b
          /\ \A j \in Inum, n \in 0..MaxFile :
               ~(j = i /\ n = p) => Place(dn2[j], blk2, n) = Place(dn[j], blk, n)
      BY <3>a, AddAddr DEF AddrPlace
    <3>7. /\ NowExact(t, i) /\ Ref(t, i, i, p) = b
          /\ \A j \in Inum, n \in 0..MaxFile : ~(j = i /\ n = p) => Ref(t, i, j, n) = Ref(s, i, j, n)
      BY <2>4, <3>1, <3>6 DEF dn, dn2, bm, bm2, blk, blk2, NowExact, Ref
    <3>8. b # 0 /\ Ref(s, i, i, p) = 0
      BY <1>1, <1>3, <2>4, Consts
    <3>9. ASSUME NEW j \in Inum, NEW n \in 0..MaxFile, Ref(s, i, j, n) # 0
          PROVE  t.block[Ref(s, i, j, n)] = s.block[Ref(s, i, j, n)]
      <4>1. Ref(s, i, j, n) \in s.bitmap
        BY <3>4, <3>9 DEF Exact, Ref, dn, bm, blk
      <4>2. Ref(s, i, j, n) \in DataBlock /\ Ref(s, i, j, n) # b
        BY <2>4, <3>4, <4>1 DEF bm
      <4> QED  BY <3>5, <4>2 DEF blk, blk2
    <3>10. Grows(s, t, i, Just(p))
      BY <3>1, <3>3, <3>7, <3>8, <3>9 DEF Grows, Just
    <3> QED  BY <2>1, <2>4, <3>1, <3>7, <3>10
  <2> QED  BY <2>2, <2>3, <2>4
<1> QED  BY <1>2, <1>3

-----------------------------------------------------------------------------
SetCell(s, b, k, c) == [s EXCEPT !.block[b][k] = c]

\* A cell written to a block that no inode has as its indirect block.
LEMMA SetCellIs ==
  ASSUME NEW s \in FsValue, NEW b \in DataBlock, NEW k \in 0..(BSize - 1), NEW c \in Cell,
         NEW t, t = SetCell(s, b, k, c)
  PROVE  /\ t \in FsValue /\ t.panic = s.panic
         /\ t.dinode = s.dinode /\ t.bitmap = s.bitmap /\ t.ic = s.ic
         /\ t.block[b][k] = c /\ \A m \in 0..(BSize - 1) : m # k => t.block[b][m] = s.block[b][m]
         /\ \A e \in DataBlock : e # b => t.block[e] = s.block[e]
<1> DEFINE o == [s.block[b] EXCEPT ![k] = c]
           u == [s.block EXCEPT ![b] = o]
<1>1. t = [s EXCEPT !.block = u]
  BY DEF SetCell
<1>2. s.block \in [DataBlock -> BlockSet] /\ s.block[b] \in [0..(BSize - 1) -> Cell]
  BY DEF FsValue, BlockSet
<1>3. o \in [0..(BSize - 1) -> Cell] /\ o[k] = c /\ \A m \in 0..(BSize - 1) : m # k => o[m] = s.block[b][m]
  BY <1>2
<1> HIDE DEF o
<1>4. u \in [DataBlock -> BlockSet] /\ u[b] = o /\ \A e \in DataBlock : e # b => u[e] = s.block[e]
  BY <1>2, <1>3 DEF BlockSet
<1> HIDE DEF u
<1>5. /\ t \in FsValue /\ t.panic = s.panic /\ t.block = u
      /\ t.dinode = s.dinode /\ t.bitmap = s.bitmap /\ t.ic = s.ic
  BY <1>1, <1>4 DEF FsValue
<1> QED  BY <1>3, <1>4, <1>5

\* What inode j refers to is marked used, and is referred to once.
LEMMA RefUsed ==
  ASSUME NEW s \in FsValue, NEW i \in Inum, NowExact(s, i), NEW j \in Inum, NEW n \in 0..MaxFile,
         Ref(s, i, j, n) # 0
  PROVE  /\ Ref(s, i, j, n) \in s.bitmap /\ Ref(s, i, j, n) \in DataBlock
         /\ \A j2 \in Inum, n2 \in 0..MaxFile : Ref(s, i, j2, n2) = Ref(s, i, j, n) => j2 = j /\ n2 = n
<1> DEFINE dn == Now(s, i)
           blk == s.block
           bm == s.bitmap
<1>1. Exact(dn, bm, blk) /\ bm \in SUBSET DataBlock
  BY ValueIs DEF NowExact
<1>2. \A j2, n2 : Ref(s, i, j2, n2) = Place(dn[j2], blk, n2)
  BY DEF Ref
<1> HIDE DEF dn, blk
<1>3. /\ Ref(s, i, j, n) \in bm
      /\ \A j2 \in Inum, n2 \in 0..MaxFile : Ref(s, i, j2, n2) = Ref(s, i, j, n) => j2 = j /\ n2 = n
  BY <1>1, <1>2 DEF Exact
<1> QED  BY <1>1, <1>3

\* A new block in an indirect block.
LEMMA WithinIs ==
  ASSUME NEW s \in FsValue, Ok(s), NEW i \in Inum, NowExact(s, i), NEW m \in 0..(BSize - 1),
         NEW top, top = Addr(Mem(s, i), NDirect), top # 0, s.block[top][m].n = 0,
         NEW a, NEW b, Gives(Balloc(s), a, b), NEW c, c = Raw(b), NEW t, t = SetCell(a, top, m, c)
  PROVE  \/ t \in FsValue /\ t.panic = NoBlock /\ b = 0
         \/ /\ Grows(s, t, i, Just(m + NDirect)) /\ b \in DataBlock
            /\ b = Ref(t, i, i, m + NDirect)
<1>1. top \in DataBlock
  BY ValueIs, DinodeIs, Consts
<1>0. b \in Nat => c \in Cell /\ c.n = b
  BY DEF Raw, Cell
<1>2. CASE a \in FsValue /\ a.panic = NoBlock /\ b = 0
  <2>1. c \in Cell
    BY <1>0, <1>2
  <2> QED  BY <1>1, <1>2, <2>1, SetCellIs
<1>3. CASE /\ a \in FsValue /\ Ok(a) /\ b \in DataBlock \ s.bitmap
           /\ a.bitmap = s.bitmap \cup {b} /\ SameInodes(s, a)
           /\ a.block[b] = ZeroBlock
           /\ \A e \in DataBlock : e # b => a.block[e] = s.block[e]
  <2>0. c \in Cell /\ c.n = b /\ b # 0
    BY <1>0, <1>3, Consts
  <2>1. /\ t \in FsValue /\ t.panic = a.panic
        /\ t.dinode = a.dinode /\ t.bitmap = a.bitmap /\ t.ic = a.ic
        /\ t.block[top][m] = c /\ \A n \in 0..(BSize - 1) : n # m => t.block[top][n] = a.block[top][n]
        /\ \A e \in DataBlock : e # top => t.block[e] = a.block[e]
    BY <1>1, <1>3, <2>0, SetCellIs
  <2>2. SameInodes(s, t) /\ Ok(t)
    BY <1>3, <2>1 DEF SameInodes, Ok
  <2>3. SameFile(s, t, i) /\ Now(t, i) = Now(s, i)
    BY <2>2, SameInodesIs
  <2> DEFINE dn == Now(s, i)
             bm == s.bitmap
             bm2 == t.bitmap
             blk == s.block
             blk2 == t.block
  <2>4. /\ dn \in [Inum -> DinodeSet] /\ bm \in SUBSET DataBlock /\ blk \in [DataBlock -> BlockSet]
        /\ Exact(dn, bm, blk) /\ b \in DataBlock \ bm /\ bm2 = bm \cup {b}
        /\ top = Addr(dn[i], NDirect) /\ top # 0 /\ blk[top][m].n = 0
        /\ blk2 \in [DataBlock -> BlockSet]
    BY <1>3, <2>1, NowIs, ValueIs DEF NowExact
  <2>5. top \in bm
    <3>1. Place(dn[i], blk, MaxFile) = top /\ MaxFile \in 0..MaxFile
      BY <2>4, PlaceTop, Consts
    <3> QED  BY <2>4, <3>1 DEF Exact
  <2>6. /\ blk2[top][m].n = b /\ \A n \in 0..(BSize - 1) : n # m => blk2[top][n] = blk[top][n]
        /\ \A e \in DataBlock : e # b /\ e # top => blk2[e] = blk[e]
    BY <1>1, <1>3, <2>0, <2>1, <2>4, <2>5
  <2>7. EntryAdded(dn, bm, blk, i, m, b, top, bm2, blk2)
    BY <2>4, <2>6 DEF EntryAdded
  <2> HIDE DEF dn, bm, bm2, blk, blk2
  <2>8. /\ Exact(dn, bm2, blk2)
        /\ Place(dn[i], blk2, m + NDirect) = b
        /\ \A j \in Inum, n \in 0..MaxFile :
             ~(j = i /\ n = m + NDirect) => Place(dn[j], blk2, n) = Place(dn[j], blk, n)
    BY <2>7, AddEntry
  <2>9. /\ NowExact(t, i) /\ Ref(t, i, i, m + NDirect) = b
        /\ \A j \in Inum, n \in 0..MaxFile :
             ~(j = i /\ n = m + NDirect) => Ref(t, i, j, n) = Ref(s, i, j, n)
    BY <2>3, <2>8 DEF dn, bm, bm2, blk, blk2, NowExact, Ref
  <2>10. Ref(s, i, i, m + NDirect) = 0
    <3>1. Place(dn[i], blk, m + NDirect) = blk[top][m].n
      BY <2>4, PlaceEntry
    <3> QED  BY <2>4, <3>1 DEF dn, blk, Ref
  <2>11. ASSUME NEW j \in Inum, NEW n \in 0..MaxFile, Ref(s, i, j, n) # 0, n # MaxFile
        PROVE  t.block[Ref(s, i, j, n)] = s.block[Ref(s, i, j, n)]
    <3> DEFINE x == Place(dn[j], blk, n)
    <3>1. x # 0 /\ x = Ref(s, i, j, n)
      BY <2>11 DEF Ref, dn, blk
    <3>2. Place(dn[i], blk, MaxFile) = top /\ MaxFile \in 0..MaxFile
      BY <2>4, PlaceTop, Consts
    <3>3. x \in bm /\ x # top
      BY <2>4, <2>11, <3>1, <3>2 DEF Exact
    <3> HIDE DEF x
    <3>4. blk2[x] = blk[x]
      BY <2>4, <2>6, <3>3
    <3> QED  BY <3>1, <3>4 DEF blk, blk2
  <2>12. Grows(s, t, i, Just(m + NDirect))
    BY <2>0, <2>1, <2>2, <2>3, <2>9, <2>10, <2>11 DEF Grows, Just
  <2> QED  BY <1>3, <2>9, <2>12
<1> QED  BY <1>2, <1>3, BallocIs

PlacesFor(bn) == IF bn < NDirect THEN {bn} ELSE {bn, MaxFile}
BmapNew(s, i, bn) == Bmap(s, i, bn, TRUE)
BmapOld(s, i, bn) == Bmap(s, i, bn, FALSE)

\* bmap of a block that the file has or that is next.
LEMMA BmapIs ==
  ASSUME NEW s \in FsValue, Ok(s), NEW i \in Inum, NowExact(s, i), NEW bn \in 0..(MaxFile - 1),
         NEW t, NEW v, Gives(BmapNew(s, i, bn), t, v)
  PROVE  \/ t \in FsValue /\ t.panic = NoBlock
         \/ /\ Grows(s, t, i, PlacesFor(bn)) /\ v \in DataBlock
            /\ v = Ref(t, i, i, bn)
<1>1. CASE bn < NDirect
  <2>1. bn \in 0..NDirect /\ bn # NDirect
    BY <1>1, Consts
  <2>2. Gives(InodeAddrNew(s, i, bn), t, v)
    BY <1>1 DEF BmapNew, Bmap, InodeAddrNew
  <2>3. Just(bn) = PlacesFor(bn) /\ bn = AddrPlace(bn)
    BY <1>1, <2>1 DEF PlacesFor, Just, AddrPlace
  <2>4. \/ t \in FsValue /\ t.panic = NoBlock
        \/ /\ Grows(s, t, i, Just(bn)) /\ v \in DataBlock
           /\ v = Ref(t, i, i, bn)
    BY <2>1, <2>2, <2>3, InodeAddrIs
  <2> QED  BY <2>3, <2>4
<1>2. CASE bn >= NDirect
  <2> DEFINE m == bn - NDirect
             x == InodeAddrNew(s, i, NDirect).s
             top == InodeAddrNew(s, i, NDirect).v
             a == Balloc(x).s
             b == Balloc(x).v
             c == Raw(b)
             u == SetCell(a, top, m, c)
  <2>0. m \in 0..(BSize - 1) /\ bn = m + NDirect /\ NDirect \in 0..NDirect /\ ~(bn < NDirect)
        /\ ~(bn >= MaxFile) /\ m + NDirect = bn /\ bn # MaxFile /\ bn \in 0..MaxFile
    BY <1>2, Consts
  <2>1. BmapNew(s, i, bn) =
           IF top = 0 \/ ~Ok(x) THEN InodeAddrNew(s, i, NDirect)
           ELSE IF x.block[top][m].n # 0 THEN Result(x, x.block[top][m].n)
           ELSE Result(u, b)
    BY <2>0 DEF BmapNew, Bmap, SetCell, InodeAddrNew
  <2>2. Gives(InodeAddrNew(s, i, NDirect), x, top) /\ Gives(Balloc(x), a, b) /\ c = Raw(b)
        /\ u = SetCell(a, top, m, c)
    BY DEF Gives
  <2>3. /\ top = 0 \/ ~Ok(x) => t = x /\ v = top
        /\ ~(top = 0 \/ ~Ok(x)) /\ x.block[top][m].n # 0 => t = x /\ v = x.block[top][m].n
        /\ ~(top = 0 \/ ~Ok(x)) /\ x.block[top][m].n = 0 => t = u /\ v = b
    BY <2>1 DEF Gives, Result
  <2> HIDE DEF x, top, a, b, c, u, m
  <2>4. \/ x \in FsValue /\ x.panic = NoBlock /\ top = 0
        \/ /\ Grows(s, x, i, Just(MaxFile)) /\ top \in DataBlock
           /\ top = Addr(Mem(x, i), NDirect) /\ top = Ref(x, i, i, MaxFile)
    <3>1. MaxFile = AddrPlace(NDirect)
      BY DEF AddrPlace
    <3> QED  BY <2>0, <2>2, <3>1, InodeAddrIs
  <2>5. CASE x \in FsValue /\ x.panic = NoBlock /\ top = 0
    BY <2>3, <2>5
  <2>6. CASE /\ Grows(s, x, i, Just(MaxFile)) /\ top \in DataBlock
             /\ top = Addr(Mem(x, i), NDirect)
    <3>0. x \in FsValue /\ Ok(x) /\ NowExact(x, i) /\ top # 0
      BY <2>6, Consts DEF Grows
    <3>1. Ref(x, i, i, bn) = x.block[top][m].n
      BY <2>0, <2>6, <3>0, NowIs, PlaceEntry DEF Ref
    <3>2. CASE x.block[top][m].n # 0
      <4>1. t = x /\ v = Ref(x, i, i, bn)
        BY <2>3, <3>0, <3>1, <3>2
      <4>2. v \in DataBlock
        <5>1. Ref(x, i, i, bn) \in x.bitmap
          BY <2>0, <3>0, <3>1, <3>2, RefUsed
        <5> QED  BY <3>0, <4>1, <5>1, ValueIs
      <4>3. Grows(x, x, i, {})
        BY <3>0, GrowsNot
      <4>4. Ref(x, i, i, bn) # 0
        BY <3>1, <3>2
      <4>5. Grows(x, x, i, Just(bn))
        BY <4>3, <4>4 DEF Grows, Just
      <4>6. Grows(s, x, i, Just(MaxFile) \cup Just(bn))
        BY <2>6, <4>5, GrowsTwice
      <4>7. Just(MaxFile) \cup Just(bn) = PlacesFor(bn)
        BY <2>0 DEF PlacesFor, Just
      <4>8. Grows(s, x, i, PlacesFor(bn))
        BY <4>6, <4>7
      <4> QED  BY <4>1, <4>2, <4>8
    <3>3. CASE x.block[top][m].n = 0
      <4>1. t = u /\ v = b
        BY <2>3, <3>0, <3>3
      <4>2. \/ u \in FsValue /\ u.panic = NoBlock /\ b = 0
            \/ /\ Grows(x, u, i, Just(m + NDirect)) /\ b \in DataBlock
               /\ b = Ref(u, i, i, m + NDirect)
        BY <2>0, <2>2, <2>6, <3>0, <3>3, WithinIs
      <4>3. CASE u \in FsValue /\ u.panic = NoBlock
        BY <4>1, <4>3
      <4>4. CASE Grows(x, u, i, Just(m + NDirect)) /\ b \in DataBlock /\ b = Ref(u, i, i, m + NDirect)
        <5>1. Grows(s, u, i, Just(MaxFile) \cup Just(m + NDirect))
          BY <2>6, <4>4, GrowsTwice
        <5>2. Just(MaxFile) \cup Just(m + NDirect) = PlacesFor(bn) /\ m + NDirect = bn
          BY <2>0 DEF PlacesFor, Just
        <5>3. Grows(s, u, i, PlacesFor(bn))
          BY <5>1, <5>2
        <5> QED  BY <4>1, <4>4, <5>2, <5>3
      <4> QED  BY <4>2, <4>3, <4>4
    <3> QED  BY <3>2, <3>3
  <2> QED  BY <2>4, <2>5, <2>6
<1> QED  BY <1>1, <1>2, Consts

\* bmap that only looks.
LEMMA BmapLooks ==
  ASSUME NEW s, Ok(s), NEW i, NEW bn \in 0..(MaxFile - 1)
  PROVE  BmapOld(s, i, bn).v = Place(Mem(s, i), s.block, bn)
<1>0. \A k : s.ic[i].d.addrs[k] = Addr(Mem(s, i), k)
  BY DEF Addr, Mem
<1>1. CASE bn < NDirect
  <2>1. BmapOld(s, i, bn) = Result(s, Addr(Mem(s, i), bn))
    BY <1>0, <1>1 DEF BmapOld, Bmap, InodeAddr
  <2> QED  BY <1>1, <2>1 DEF Result, Place
<1>2. CASE bn >= NDirect
  <2>0. ~(bn < NDirect) /\ ~(bn >= MaxFile) /\ bn # MaxFile
    BY <1>2, Consts
  <2> DEFINE top == Addr(Mem(s, i), NDirect)
             x == Result(s, top)
  <2>1. InodeAddr(s, i, NDirect, FALSE) = x /\ x.s = s /\ x.v = top
    BY <1>0 DEF InodeAddr, Result
  <2> HIDE DEF x
  <2>2. BmapOld(s, i, bn) = IF x.v = 0 \/ ~Ok(x.s) THEN x
                            ELSE Result(x.s, x.s.block[x.v][bn - NDirect].n)
    BY <2>0, <2>1 DEF BmapOld, Bmap
  <2>3. CASE top = 0
    <3>1. BmapOld(s, i, bn).v = 0
      BY <2>1, <2>2, <2>3
    <3> QED  BY <2>0, <2>3, <3>1 DEF Place
  <2>4. CASE top # 0
    <3> DEFINE n == s.block[top][bn - NDirect].n
    <3>1. BmapOld(s, i, bn).v = n
      BY <2>1, <2>2, <2>4 DEF Result
    <3> QED  BY <2>0, <2>4, <3>1 DEF Place
  <2> QED  BY <2>3, <2>4
<1> QED  BY <1>1, <1>2, Consts

-----------------------------------------------------------------------------
(* writei.                                                                 *)

Full(t) == t \in FsValue /\ t.panic = NoBlock

\* The cell at pos of file j.
At(s, i, j, pos) == s.block[Ref(s, i, j, pos \div BSize)][pos % BSize]

\* A cell c written to block bn of file i.
LEMMA OverwriteIs ==
  ASSUME NEW s \in FsValue, NEW i \in Inum, NowExact(s, i), NEW bn \in 0..(MaxFile - 1),
         NEW v, v = Ref(s, i, i, bn), v \in DataBlock, NEW r \in 0..(BSize - 1), NEW c \in Cell,
         NEW t, t = SetCell(s, v, r, c)
  PROVE  /\ t \in FsValue /\ t.panic = s.panic /\ SameFile(s, t, i) /\ NowExact(t, i)
         /\ \A j \in Inum, n \in 0..MaxFile : Ref(t, i, j, n) = Ref(s, i, j, n)
         /\ \A b \in DataBlock : b # v => t.block[b] = s.block[b]
         /\ t.block[v][r] = c
         /\ \A m \in 0..(BSize - 1) : m # r => t.block[v][m] = s.block[v][m]
<1>1. /\ t \in FsValue /\ t.panic = s.panic
      /\ t.dinode = s.dinode /\ t.bitmap = s.bitmap /\ t.ic = s.ic
      /\ t.block[v][r] = c /\ \A m \in 0..(BSize - 1) : m # r => t.block[v][m] = s.block[v][m]
      /\ \A e \in DataBlock : e # v => t.block[e] = s.block[e]
  BY SetCellIs
<1>2. SameInodes(s, t)
  BY <1>1 DEF SameInodes
<1>3. SameFile(s, t, i) /\ Now(t, i) = Now(s, i)
  BY <1>2, SameInodesIs
<1>0. bn \in 0..MaxFile /\ MaxFile \in 0..MaxFile /\ bn # MaxFile /\ v # 0 /\ NDirect \in 0..NDirect
  BY Consts
<1>4. ASSUME NEW j \in Inum, NEW n \in 0..MaxFile
      PROVE  Ref(t, i, j, n) = Ref(s, i, j, n)
  <2> DEFINE d == Now(s, i)[j]
             blk == s.block
             blk2 == t.block
             top == Addr(d, NDirect)
  <2>1. Ref(s, i, j, MaxFile) = top
    BY PlaceTop DEF Ref
  <2>2. top # v
    <3> SUFFICES ASSUME top = v PROVE FALSE
      OBVIOUS
    <3> QED  BY <1>0, <2>1, RefUsed
  <2>3. top \in DataBlock \cup {0}
    BY <1>0, NowIs, DinodeIs
  <2>4. top # 0 => blk2[top] = blk[top]
    BY <1>1, <2>2, <2>3
  <2> HIDE DEF blk, blk2, d
  <2>5. Place(d, blk2, n) = Place(d, blk, n)
    BY <2>4, SamePlaces
  <2> QED  BY <1>3, <2>5 DEF Ref, d, blk, blk2
<1>5. NowExact(t, i)
  <2> DEFINE dn == Now(s, i)
             blk == s.block
             blk2 == t.block
             bm == s.bitmap
  <2>1. \A j \in Inum, n \in 0..MaxFile : Place(dn[j], blk2, n) = Place(dn[j], blk, n)
    BY <1>3, <1>4 DEF Ref
  <2>2. Exact(dn, bm, blk)
    BY DEF NowExact
  <2> HIDE DEF dn, blk, blk2, bm
  <2>3. Exact(dn, bm, blk2)
    BY <2>1, <2>2 DEF Exact
  <2> QED  BY <1>1, <1>3, <2>3 DEF dn, blk2, bm, NowExact
<1> QED  BY <1>1, <1>3, <1>4, <1>5

\* Different positions are different cells.
LEMMA PositionUnique ==
  ASSUME NEW p \in Nat, NEW q \in Nat, p \div BSize = q \div BSize, p % BSize = q % BSize
  PROVE  p = q
BY Position, Consts

Bigger(a, b) == IF b > a THEN b ELSE a

\* What a file of z cells refers to.
Needed(n, z) == IF n = MaxFile THEN InFile(NDirect, z) ELSE InFile(n, z)

\* One more cell needs at most the blocks that bmap allocates for it.
LEMMA NeededNext ==
  ASSUME NEW size \in Nat, NEW off \in Nat, off <= size, NEW k \in Nat, off + k < MaxFile * BSize,
         NEW bn, bn = (off + k) \div BSize
  PROVE  /\ bn \in 0..(MaxFile - 1) /\ Bigger(size, off + k) \in Nat /\ Bigger(size, off + k + 1) \in Nat
         /\ Needed(bn, Bigger(size, off + k + 1))
         /\ \A n \in 0..MaxFile : Needed(n, Bigger(size, off + k + 1)) <=>
               Needed(n, Bigger(size, off + k)) \/ n \in PlacesFor(bn)
<1> DEFINE p == off + k
           a == Bigger(size, p)
           b == Bigger(size, p + 1)
<1>0. p \in Nat /\ off + k + 1 = p + 1 /\ bn \in Nat /\ bn = p \div BSize /\ p < MaxFile * BSize
  BY Position
<1> HIDE DEF p
<1>1. /\ \A n \in Nat : p < n => InFile(bn, n)
      /\ \A m \in Nat : InFile(m, p + 1) <=> InFile(m, p) \/ m = bn
      /\ \A m \in Nat : m < bn => InFile(m, p)
      /\ bn < MaxFile
  BY <1>0, InFileFacts, Consts
<1>2. /\ a \in Nat /\ b \in Nat /\ p < b
      /\ \/ p < size /\ a = size /\ b = size
         \/ a = p /\ b = p + 1
  BY <1>0 DEF Bigger
<1>3. bn \in 0..(MaxFile - 1) /\ bn # MaxFile /\ bn \in 0..MaxFile /\ NDirect \in Nat
  BY <1>0, <1>1, Consts
<1> HIDE DEF a, b
<1>4. InFile(bn, b) /\ Needed(bn, b)
  BY <1>1, <1>2, <1>3 DEF Needed
<1>5. ASSUME NEW m \in Nat PROVE InFile(m, b) <=> InFile(m, a) \/ m = bn
  BY <1>1, <1>2, <1>4
<1>6. InFile(NDirect, b) <=> InFile(NDirect, a) \/ ~(bn < NDirect)
  <2>1. CASE bn < NDirect
    BY <1>3, <1>5, <2>1
  <2>2. CASE bn = NDirect
    BY <1>3, <1>4, <2>2
  <2>3. CASE NDirect < bn
    <3>1. NDirect \in Nat /\ NDirect < bn /\ p \in Nat
      BY <1>0, <1>3, <2>3
    <3>2. \A z \in Nat : InFile(NDirect, p) /\ z >= p => InFile(NDirect, z)
      BY <3>1, Consts DEF InFile
    <3>3. b >= p
      BY <3>1, <1>2
    <3>4. InFile(NDirect, p)
      BY <1>1, <3>1
    <3> QED  BY <1>2, <2>3, <3>1, <3>2, <3>3, <3>4
  <2> QED  BY <2>1, <2>2, <2>3, <1>3
<1>7. ASSUME NEW n \in 0..MaxFile PROVE Needed(n, b) <=> Needed(n, a) \/ n \in PlacesFor(bn)
  <2>1. CASE n = MaxFile
    BY <1>3, <1>6, <2>1 DEF Needed, PlacesFor
  <2>2. CASE n # MaxFile
    <3>1. n \in Nat
      BY Consts
    <3> QED  BY <3>1, <1>5, <2>2 DEF Needed, PlacesFor
  <2> QED  BY <2>1, <2>2
<1> QED  BY <1>0, <1>2, <1>3, <1>4, <1>7 DEF a, b, p

\* File i is ready to be written from off on.
Writable(s, i, off, size, cells) ==
  /\ s \in FsValue /\ Ok(s) /\ i \in Inum /\ NowExact(s, i) /\ cells \in Seq(Cell)
  /\ size = Mem(s, i).size /\ size \in Nat /\ size <= MaxFile * BSize
  /\ off \in Nat /\ off <= size /\ off + Len(cells) <= MaxFile * BSize
  /\ \A n \in 0..MaxFile : Ref(s, i, i, n) # 0 <=> Needed(n, size)

\* After k cells: the blocks that so many cells need, the cells in their places,
\* everything else as before.
Filled(s, t, i, off, k, cells) ==
  /\ t \in FsValue /\ Ok(t) /\ SameFile(s, t, i) /\ NowExact(t, i)
  /\ \A j \in Inum : j # i => \A n \in 0..MaxFile :
       /\ Ref(t, i, j, n) = Ref(s, i, j, n)
       /\ Ref(s, i, j, n) # 0 /\ n # MaxFile => t.block[Ref(s, i, j, n)] = s.block[Ref(s, i, j, n)]
  /\ \A n \in 0..MaxFile : Ref(t, i, i, n) # 0 <=> Needed(n, Bigger(Mem(s, i).size, off + k))
  /\ \A pos \in Nat : pos < Bigger(Mem(s, i).size, off + k) =>
       At(t, i, i, pos) = IF off <= pos /\ pos < off + k THEN cells[pos - off + 1] ELSE At(s, i, i, pos)

\* One round of the loop.
LEMMA StoreCellIs ==
  ASSUME NEW s, NEW i, NEW off, NEW size, NEW cells, Writable(s, i, off, size, cells),
         NEW k \in Nat, k < Len(cells), NEW t, Filled(s, t, i, off, k, cells),
         NEW p, p = off + k, NEW c, c = cells[k + 1], NEW u, u = StoreCell(t, i, p, c)
  PROVE  Full(u) \/ Filled(s, u, i, off, k + 1, cells)
<1>a. /\ s \in FsValue /\ i \in Inum /\ size = Mem(s, i).size /\ size \in Nat /\ size <= MaxFile * BSize
      /\ off \in Nat /\ off <= size /\ off + Len(cells) <= MaxFile * BSize /\ cells \in Seq(Cell)
  BY DEF Writable
<1>b. /\ t \in FsValue /\ Ok(t) /\ SameFile(s, t, i) /\ NowExact(t, i)
      /\ \A j \in Inum : j # i => \A n \in 0..MaxFile :
           /\ Ref(t, i, j, n) = Ref(s, i, j, n)
           /\ Ref(s, i, j, n) # 0 /\ n # MaxFile => t.block[Ref(s, i, j, n)] = s.block[Ref(s, i, j, n)]
      /\ \A n \in 0..MaxFile : Ref(t, i, i, n) # 0 <=> Needed(n, Bigger(size, off + k))
      /\ \A pos \in Nat : pos < Bigger(size, off + k) =>
           At(t, i, i, pos) = IF off <= pos /\ pos < off + k THEN cells[pos - off + 1] ELSE At(s, i, i, pos)
  BY <1>a DEF Filled
<1> DEFINE bn == p \div BSize
           r == p % BSize
           a == Bigger(size, off + k)
           b == Bigger(size, off + k + 1)
           x == BmapNew(t, i, bn).s
           v == BmapNew(t, i, bn).v
<1>0. p \in Nat /\ p < MaxFile * BSize /\ Len(cells) \in Nat /\ c \in Cell
  <2>1. Len(cells) \in Nat /\ k + 1 \in 1..Len(cells)
    BY <1>a
  <2> QED  BY <1>a, <2>1, Consts
<1>1. /\ bn \in 0..(MaxFile - 1) /\ a \in Nat /\ b \in Nat /\ Needed(bn, b) /\ bn # MaxFile /\ bn \in 0..MaxFile
      /\ \A n \in 0..MaxFile : Needed(n, b) <=> Needed(n, a) \/ n \in PlacesFor(bn)
  <2>1. bn = (off + k) \div BSize /\ off + k < MaxFile * BSize
    BY <1>0
  <2> HIDE DEF bn
  <2>2. /\ bn \in 0..(MaxFile - 1) /\ a \in Nat /\ b \in Nat /\ Needed(bn, b)
        /\ \A n \in 0..MaxFile : Needed(n, b) <=> Needed(n, a) \/ n \in PlacesFor(bn)
    BY <1>a, <2>1, NeededNext
  <2> QED  BY <2>2, Consts
<1>2. r \in 0..(BSize - 1)
  BY <1>0, Position
<1>3. u = IF Ok(x) THEN SetCell(x, v, r, c) ELSE x
  BY <1>b DEF StoreCell, BmapNew, SetCell
<1>4. Gives(BmapNew(t, i, bn), x, v)
  BY DEF Gives
<1>5. /\ (a = size /\ b = size /\ p < size) \/ (a = p /\ b = p + 1)
      /\ a <= MaxFile * BSize /\ b <= MaxFile * BSize
  BY <1>a, <1>0, Consts DEF Bigger
<1> HIDE DEF x, v
<1>6. \/ x \in FsValue /\ x.panic = NoBlock
      \/ Grows(t, x, i, PlacesFor(bn)) /\ v \in DataBlock /\ v = Ref(x, i, i, bn)
  BY <1>a, <1>b, <1>1, <1>4, BmapIs
<1>7. CASE x \in FsValue /\ x.panic = NoBlock
  BY <1>3, <1>7 DEF Full, Ok, NoBlock
<1>8. CASE Grows(t, x, i, PlacesFor(bn)) /\ v \in DataBlock /\ v = Ref(x, i, i, bn)
  <2> HIDE DEF bn, r, a, b
  <2>0. /\ x \in FsValue /\ Ok(x) /\ SameFile(t, x, i) /\ NowExact(x, i)
        /\ \A j \in Inum, n \in 0..MaxFile :
             /\ Ref(x, i, j, n) # 0 <=> Ref(t, i, j, n) # 0 \/ (j = i /\ n \in PlacesFor(bn))
             /\ Ref(t, i, j, n) # 0 => Ref(x, i, j, n) = Ref(t, i, j, n)
             /\ Ref(t, i, j, n) # 0 /\ n # MaxFile => x.block[Ref(t, i, j, n)] = t.block[Ref(t, i, j, n)]
    BY <1>8 DEF Grows
  <2>1. u = SetCell(x, v, r, c) /\ v # 0
    BY <1>3, <1>8, <2>0, Consts
  <2>2. /\ u \in FsValue /\ u.panic = x.panic /\ SameFile(x, u, i) /\ NowExact(u, i)
        /\ \A j \in Inum, n \in 0..MaxFile : Ref(u, i, j, n) = Ref(x, i, j, n)
        /\ \A e \in DataBlock : e # v => u.block[e] = x.block[e]
        /\ u.block[v][r] = c
        /\ \A m \in 0..(BSize - 1) : m # r => u.block[v][m] = x.block[v][m]
    BY <1>a, <1>0, <1>1, <1>2, <1>8, <2>0, <2>1, OverwriteIs
  <2>3. Ok(u) /\ SameFile(s, u, i)
    BY <1>b, <2>0, <2>2, SameFileTwice DEF Ok
  <2>4. \A j \in Inum, n \in 0..MaxFile :
          Ref(x, i, j, n) # 0 /\ ~(j = i /\ n = bn) =>
            Ref(x, i, j, n) # v /\ Ref(x, i, j, n) \in DataBlock
    BY <1>a, <1>1, <1>8, <2>0, RefUsed
  <2>5. ASSUME NEW j \in Inum, j # i, NEW n \in 0..MaxFile
        PROVE  /\ Ref(u, i, j, n) = Ref(s, i, j, n)
               /\ Ref(s, i, j, n) # 0 /\ n # MaxFile => u.block[Ref(s, i, j, n)] = s.block[Ref(s, i, j, n)]
    <3>1. Ref(u, i, j, n) = Ref(s, i, j, n) /\ Ref(x, i, j, n) = Ref(s, i, j, n) /\ Ref(t, i, j, n) = Ref(s, i, j, n)
      BY <1>b, <2>0, <2>2, <2>5
    <3>2. ASSUME Ref(s, i, j, n) # 0, n # MaxFile
          PROVE  u.block[Ref(s, i, j, n)] = s.block[Ref(s, i, j, n)]
      <4>1. Ref(s, i, j, n) # v /\ Ref(s, i, j, n) \in DataBlock
        BY <2>4, <2>5, <3>1, <3>2
      <4>2. x.block[Ref(s, i, j, n)] = t.block[Ref(s, i, j, n)]
        BY <2>0, <3>1, <3>2
      <4>3. t.block[Ref(s, i, j, n)] = s.block[Ref(s, i, j, n)]
        BY <1>b, <2>5, <3>2
      <4>4. u.block[Ref(s, i, j, n)] = x.block[Ref(s, i, j, n)]
        BY <2>2, <4>1
      <4> QED  BY <4>2, <4>3, <4>4
    <3> QED  BY <3>1, <3>2
  <2>6. \A n \in 0..MaxFile : Ref(u, i, i, n) # 0 <=> Needed(n, b)
    BY <1>a, <1>b, <1>1, <2>0, <2>2 DEF a
  <2>7. ASSUME NEW pos \in Nat, pos < b
        PROVE  At(u, i, i, pos) = IF off <= pos /\ pos < off + (k + 1) THEN cells[pos - off + 1] ELSE At(s, i, i, pos)
    <3> DEFINE q == pos \div BSize
               m == pos % BSize
    <3>0. q \in Nat /\ m \in 0..(BSize - 1)
      BY Position
    <3>1. CASE pos = p
      <4>1. q = bn /\ m = r
        BY <3>1 DEF bn, r
      <4>2. At(u, i, i, pos) = c
        <5>1. At(u, i, i, pos) = u.block[Ref(u, i, i, q)][m]
          BY DEF At
        <5>2. Ref(u, i, i, q) = v
          BY <1>1, <1>a, <1>8, <2>2, <4>1
        <5> QED  BY <2>2, <4>1, <5>1, <5>2
      <4>3. off <= pos /\ pos < off + (k + 1) /\ pos - off + 1 = k + 1
        BY <1>a, <3>1
      <4> QED  BY <4>2, <4>3
    <3>2. CASE pos # p
      <4>1. pos < a /\ pos < MaxFile * BSize
        BY <1>0, <1>1, <1>5, <2>7, <3>2, Consts
      <4>2. q \in 0..(MaxFile - 1) /\ InFile(q, a)
        <5>1. q = pos \div BSize
          OBVIOUS
        <5> HIDE DEF q
        <5>2. (pos < a => InFile(q, a)) /\ (pos < MaxFile * BSize => q < MaxFile)
          BY <1>1, <3>0, <5>1, InFileFacts, Consts
        <5> QED  BY <3>0, <4>1, <5>2, Consts
      <4>a. q \in 0..MaxFile /\ q # MaxFile
        BY <4>2, Consts
      <4>3. Ref(t, i, i, q) # 0
        BY <1>b, <4>2, <4>a DEF Needed, a
      <4>4. Ref(u, i, i, q) = Ref(t, i, i, q) /\ Ref(x, i, i, q) = Ref(t, i, i, q)
            /\ x.block[Ref(t, i, i, q)] = t.block[Ref(t, i, i, q)]
        BY <1>a, <2>0, <2>2, <4>3, <4>a
      <4> DEFINE w == Ref(t, i, i, q)
      <4>5. u.block[w][m] = x.block[w][m]
        <5>1. CASE q = bn
          <6>1. m # r
            BY <1>0, <3>2, <5>1, PositionUnique DEF bn, r
          <6>2. w = v
            BY <1>8, <4>4, <5>1
          <6> QED  BY <2>2, <3>0, <6>1, <6>2
        <5>2. CASE q # bn
          <6>1. w # v /\ w \in DataBlock
            BY <1>a, <2>4, <4>3, <4>4, <4>a, <5>2
          <6> QED  BY <2>2, <6>1
        <5> QED  BY <5>1, <5>2
      <4>6. At(u, i, i, pos) = u.block[w][m] /\ At(t, i, i, pos) = t.block[w][m]
        BY <4>4 DEF At
      <4>7. At(u, i, i, pos) = At(t, i, i, pos)
        BY <4>4, <4>5, <4>6
      <4>8. (off <= pos /\ pos < off + k) <=> (off <= pos /\ pos < off + (k + 1))
        BY <1>a, <3>2
      <4> QED  BY <1>b, <4>1, <4>7, <4>8 DEF a
    <3> QED  BY <3>1, <3>2
  <2>8. off + (k + 1) = off + k + 1
    BY <1>a
  <2> QED  BY <1>a, <2>2, <2>3, <2>5, <2>6, <2>7, <2>8 DEF Filled, b
<1> QED  BY <1>6, <1>7, <1>8

\* The values that the loop of writei goes through.
Rounds(f, s, i, off, cells, m) ==
  f = [k \in 0..m |-> IF k = 0 THEN s ELSE StoreCell(f[k - 1], i, off + k - 1, cells[k])]

\* The rounds of the loop of writei, as a function.
LEMMA RoundsExist ==
  ASSUME NEW s, NEW i, NEW off, NEW cells, NEW n \in Nat
  PROVE  \E f : Rounds(f, s, i, off, cells, n)
<1> DEFINE Missing == {m \in Nat : ~ \E f : Rounds(f, s, i, off, cells, m)}
<1> SUFFICES ASSUME Missing # {} PROVE FALSE
  OBVIOUS
<1>1. PICK m \in Missing : \A l \in Missing : m <= l
  BY MinIs
<1>2. m # 0
  <2> DEFINE f == [k \in 0..0 |-> s]
  <2>1. f = [k \in 0..0 |-> IF k = 0 THEN s ELSE StoreCell(f[k - 1], i, off + k - 1, cells[k])]
    OBVIOUS
  <2> HIDE DEF f
  <2>2. Rounds(f, s, i, off, cells, 0)
    BY <2>1 DEF Rounds
  <2> QED  BY <1>1, <2>2
<1>3. m - 1 \in Nat /\ m - 1 \notin Missing
  BY <1>1, <1>2
<1>4. PICK f : Rounds(f, s, i, off, cells, m - 1)
  BY <1>3
<1> DEFINE g == [k \in 0..m |-> IF k = m THEN StoreCell(f[m - 1], i, off + m - 1, cells[m]) ELSE f[k]]
<1>5. \A k \in 0..(m - 1) : g[k] = f[k]
  BY <1>1
<1>6. ASSUME NEW k \in 0..m
      PROVE  g[k] = IF k = 0 THEN s ELSE StoreCell(g[k - 1], i, off + k - 1, cells[k])
  <2>1. CASE k = m
    BY <1>2, <1>3, <1>5, <2>1
  <2>2. CASE k # m
    <3>1. k \in 0..(m - 1) /\ (k # 0 => k - 1 \in 0..(m - 1))
      BY <1>1, <2>2
    <3>2. f[k] = IF k = 0 THEN s ELSE StoreCell(f[k - 1], i, off + k - 1, cells[k])
      BY <1>4, <3>1 DEF Rounds
    <3> QED  BY <1>5, <3>1, <3>2
  <2> QED  BY <2>1, <2>2
<1>7. g = [k \in 0..m |-> g[k]]
  OBVIOUS
<1> HIDE DEF g
<1>8. Rounds(g, s, i, off, cells, m)
  BY <1>6, <1>7, Zenon DEF Rounds
<1> QED  BY <1>1, <1>8

\* The loop writes all cells, or the disk is full.
LEMMA StoreCellsIs ==
  ASSUME NEW s, NEW i, NEW off, NEW size, NEW cells, Writable(s, i, off, size, cells),
         NEW t, t = StoreCells(s, i, off, cells)
  PROVE  Full(t) \/ Filled(s, t, i, off, Len(cells), cells)
<1> DEFINE n == Len(cells)
           f == CHOOSE g : Rounds(g, s, i, off, cells, n)
<1>a. /\ s \in FsValue /\ Ok(s) /\ i \in Inum /\ size = Mem(s, i).size /\ size \in Nat /\ cells \in Seq(Cell)
      /\ off \in Nat /\ off <= size /\ NowExact(s, i) /\ n \in Nat
      /\ \A m \in 0..MaxFile : Ref(s, i, i, m) # 0 <=> Needed(m, size)
  BY DEF Writable
<1>1. t = f[n]
  BY DEF StoreCells, Rounds
<1>2. Rounds(f, s, i, off, cells, n)
  BY <1>a, RoundsExist
<1> HIDE DEF f
<1>3. f[0] = s /\ \A k \in 0..(n - 1) : f[k + 1] = StoreCell(f[k], i, off + k, cells[k + 1])
  BY <1>a, <1>2 DEF Rounds
<1>4. Filled(s, s, i, off, 0, cells)
  <2>1. Bigger(size, off + 0) = size /\ \A pos \in Nat : ~(off <= pos /\ pos < off + 0)
    BY <1>a DEF Bigger
  <2> QED  BY <1>a, <2>1 DEF Filled, SameFile, SameSlots
<1> DEFINE Wrong == {k \in 0..n : ~(Full(f[k]) \/ Filled(s, f[k], i, off, k, cells))}
<1>5. ASSUME Wrong # {} PROVE FALSE
  <2>0. Wrong \in SUBSET Nat
    OBVIOUS
  <2>1. PICK k \in Wrong : \A l \in Wrong : k <= l
    BY <1>5, <2>0, MinIs
  <2>2. k # 0
    BY <1>3, <1>4, <2>1
  <2>3. PICK m \in 0..(n - 1) : k = m + 1
    <3>1. k - 1 \in 0..(n - 1) /\ k = (k - 1) + 1
      BY <1>a, <2>1, <2>2
    <3> QED  BY <3>1
  <2>4. m \in 0..n /\ m \notin Wrong
    BY <1>a, <2>1, <2>3
  <2> DEFINE p == off + m
             c == cells[m + 1]
             u == f[m]
             v == f[k]
  <2>5. v = StoreCell(u, i, p, c)
    BY <1>3, <2>3
  <2>6. CASE Full(u)
    <3>1. v = u
      BY <2>5, <2>6 DEF StoreCell, Full, Ok, NoBlock
    <3> QED  BY <2>1, <2>6, <3>1
  <2>7. CASE Filled(s, u, i, off, m, cells)
    <3>1. m \in Nat /\ m < Len(cells)
      BY <1>a, <2>3
    <3>2. p = off + m /\ c = cells[m + 1]
      OBVIOUS
    <3> HIDE DEF p, c, u, v
    <3>3. Full(v) \/ Filled(s, v, i, off, m + 1, cells)
      BY <2>5, <2>7, <3>1, <3>2, StoreCellIs
    <3> QED  BY <2>1, <2>3, <3>3 DEF v
  <2> QED  BY <2>4, <2>6, <2>7
<1> QED  BY <1>1, <1>5, <1>a

-----------------------------------------------------------------------------
(* The invariant.                                                          *)

\* An inode has the blocks that its size calls for.
Sized(d, blk) ==
  /\ d.size <= MaxFile * BSize
  /\ \A n \in 0..MaxFile : Place(d, blk, n) # 0 <=> Needed(n, d.size)

\* The root is the only directory, files have one link, free inodes no blocks.
Kind(i, d) ==
  /\ i = Root => d.type = "T_DIR"
  /\ i # Root => d.type \in {"T_UNUSED", "T_FILE"}
  /\ d.type = "T_UNUSED" => d.size = 0
  /\ d.type # "T_UNUSED" => d.nlink = 1

Disk(s) ==
  /\ Exact(s.dinode, s.bitmap, s.block)
  /\ \A i \in Inum : Sized(Dsk(s, i), s.block) /\ Kind(i, Dsk(s, i))

\* The cell at pos of file j, the entry at o of the root directory, and their number.
Cel(s, j, pos) == s.block[Place(Dsk(s, j), s.block, pos \div BSize)][pos % BSize]
Ent(s, o)  == Cel(s, Root, o)
DirSize(s) == Dsk(s, Root).size
InUse(s, i) == Dsk(s, i).type # "T_UNUSED"

\* All names are different; behind "." and ".." there is one entry for each inode
\* in use but x.
Dir(s, x) ==
  /\ DirSize(s) >= 2
  /\ Ent(s, 0) = Dirent(Root, ".") /\ Ent(s, 1) = Dirent(Root, "..")
  /\ \A o \in 0..(DirSize(s) - 1), o2 \in 0..(DirSize(s) - 1) : Ent(s, o).name = Ent(s, o2).name => o = o2
  /\ \A o \in 2..(DirSize(s) - 1) :
       Ent(s, o).n \in Inum /\ Ent(s, o).n # Root /\ Ent(s, o).n # x /\ InUse(s, Ent(s, o).n)
  /\ \A o \in 2..(DirSize(s) - 1), o2 \in 2..(DirSize(s) - 1) : Ent(s, o).n = Ent(s, o2).n => o = o2
  /\ \A i \in Inum : i # Root /\ i # x /\ InUse(s, i) => \E o \in 2..(DirSize(s) - 1) : Ent(s, o).n = i

\* How many hold inode i: files, and the pointers p and q of a call.
Held(B, p, q, i) == B[i] + (IF p = i THEN 1 ELSE 0) + (IF q = i THEN 1 ELSE 0)

\* The inode cache when a call holds p and q and has a and b locked (0 for none).
Slots(s, B, p, q, a, b) ==
  /\ B \in [Inum -> Nat]
  /\ p \in Inum \cup {0} /\ q \in Inum \cup {0} /\ a \in Inum \cup {0} /\ b \in Inum \cup {0}
  /\ \A i \in Inum :
       /\ Slot(s, i).ref = Held(B, p, q, i)
       /\ Slot(s, i).locked <=> i = a \/ i = b
       /\ Slot(s, i).locked => Slot(s, i).valid
       /\ Slot(s, i).valid => Slot(s, i).ref > 0 /\ Mem(s, i) = Dsk(s, i)
       /\ Slot(s, i).ref > 0 => InUse(s, i)

\* The open files on each inode.
FilesOn(ft, i) == {k \in Idx : ft[k].ref > 0 /\ ft[k].ip = i}
RefsOf(ft) == [i \in Inum |-> Cardinality(FilesOn(ft, i))]
Descs(of, k) == {fd \in Fd : of[fd] = k}

FileSet == [type : {"FD_NONE", "FD_INODE"}, ref : Nat, readable : BOOLEAN, writable : BOOLEAN,
            ip : Inum \cup {0}, off : Nat]

\* An open file has as many references as descriptors, and never writes the root.
Opens(f) == f.type = "FD_INODE" /\ f.ip \in Inum /\ (f.writable => f.ip # Root)
Tables(ft, of) ==
  /\ ft \in [Idx -> FileSet] /\ of \in [Fd -> Idx \cup {0}]
  /\ \A k \in Idx : ft[k].ref = Cardinality(Descs(of, k))
  /\ \A k \in Idx : ft[k].ref > 0 => Opens(ft[k])

CallSet == [f : Idx \cup {0}, n : Nat, cells : Seq(Byte)]
Calling(c, ft) ==
  c \in CallSet /\ (c # NoCall => c.f \in Idx /\ ft[c.f].ref > 0 /\ ft[c.f].writable)

NoInodes == "ialloc: no inodes"

\* The parts of a file system value that agree on disk.
Sound(s, x) == s \in FsValue /\ Disk(s) /\ Dir(s, x)

\* What a file system value is between two steps, with B[i] files open on i.
Rest(s, B) ==
  /\ Sound(s, 0) /\ Slots(s, B, 0, 0, 0, 0)
  /\ s.panic = NoInodes => \A i \in Inum : InUse(s, i)

IInv == Rest(fs, RefsOf(ftable)) /\ Tables(ftable, ofile) /\ Calling(call, ftable)

-----------------------------------------------------------------------------
(* The inode cache.                                                        *)

\* The same disk.
Alike(s, t) == t.dinode = s.dinode /\ t.bitmap = s.bitmap /\ t.block = s.block

\* Alike is transitive ...
LEMMA AlikeTwice ==
  ASSUME NEW s, NEW t, NEW u, Alike(s, t), Alike(t, u)
  PROVE  Alike(s, u)
BY DEF Alike

\* ... and says all there is to say of inodes, cells and entries ...
LEMMA AlikeIs ==
  ASSUME NEW s, NEW t, Alike(s, t)
  PROVE  /\ \A i : Dsk(t, i) = Dsk(s, i) /\ (InUse(t, i) <=> InUse(s, i))
         /\ \A j, pos : Cel(t, j, pos) = Cel(s, j, pos)
         /\ \A o : Ent(t, o) = Ent(s, o)
         /\ DirSize(t) = DirSize(s)
<1>1. \A i : Dsk(t, i) = Dsk(s, i)
  BY DEF Alike, Dsk
<1>2. t.block = s.block
  BY DEF Alike
<1> QED  BY <1>1, <1>2 DEF InUse, Cel, Ent, DirSize

\* ... and keeps what agrees on disk.
LEMMA SoundAlike ==
  ASSUME NEW s, NEW t \in FsValue, NEW x, Sound(s, x), Alike(s, t)
  PROVE  Sound(t, x)
<1>1. \A i : Dsk(t, i) = Dsk(s, i) /\ (InUse(t, i) <=> InUse(s, i))
  BY AlikeIs
<1>2. \A o : Ent(t, o) = Ent(s, o)
  BY AlikeIs
<1>3. DirSize(t) = DirSize(s)
  BY AlikeIs
<1>4. Disk(t)
  BY <1>1 DEF Sound, Disk, Alike
<1>5. Dir(t, x)
  BY <1>1, <1>2, <1>3 DEF Sound, Dir
<1> QED  BY <1>4, <1>5 DEF Sound

PutSlot(s, i, c) == [s EXCEPT !.ic[i] = c]

\* A slot of the inode cache replaced by c.
LEMMA PutSlotIs ==
  ASSUME NEW s \in FsValue, NEW i \in Inum, NEW c \in SlotSet, NEW t, t = PutSlot(s, i, c)
  PROVE  /\ t \in FsValue /\ t.panic = s.panic /\ Alike(s, t)
         /\ Slot(t, i) = c /\ Mem(t, i) = c.d
         /\ \A j \in Inum : j # i => Slot(t, j) = Slot(s, j) /\ Mem(t, j) = Mem(s, j)
<1> DEFINE u == [s.ic EXCEPT ![i] = c]
<1>1. t = [s EXCEPT !.ic = u]
  BY DEF PutSlot
<1>2. s.ic \in [Inum -> SlotSet]
  BY DEF FsValue
<1>3. u \in [Inum -> SlotSet] /\ u[i] = c /\ \A j \in Inum : j # i => u[j] = s.ic[j]
  BY <1>2
<1> HIDE DEF u
<1>4. t \in FsValue /\ t.panic = s.panic /\ Alike(s, t) /\ t.ic = u
  BY <1>1, <1>3 DEF FsValue, Alike
<1>5. \A j : Slot(t, j) = u[j] /\ Mem(t, j) = u[j].d /\ Slot(s, j) = s.ic[j] /\ Mem(s, j) = s.ic[j].d
  BY <1>4 DEF Slot, Mem
<1> QED  BY <1>3, <1>4, <1>5

\* What is in a slot.
LEMMA SlotIs ==
  ASSUME NEW s \in FsValue, NEW i \in Inum
  PROVE  /\ Slot(s, i).ref \in Nat /\ Slot(s, i).locked \in BOOLEAN /\ Slot(s, i).valid \in BOOLEAN
         /\ Slot(s, i).d = Mem(s, i) /\ Mem(s, i) \in DinodeSet /\ Dsk(s, i) \in DinodeSet
BY ValueIs DEF SlotSet, Slot, Mem

\* Slot i has changed to c, and the holders from p to p2, q to q2 and so on.
LEMMA SlotsMoved ==
  ASSUME NEW s \in FsValue, NEW t, NEW i \in Inum, NEW c \in SlotSet, t = PutSlot(s, i, c),
         NEW B, NEW p, NEW q, NEW a, NEW b, Slots(s, B, p, q, a, b),
         NEW p2 \in Inum \cup {0}, NEW q2 \in Inum \cup {0}, NEW a2 \in Inum \cup {0}, NEW b2 \in Inum \cup {0},
         \A j \in Inum : j # i => Held(B, p2, q2, j) = Held(B, p, q, j),
         \A j \in Inum : j # i => ((j = a2 \/ j = b2) <=> (j = a \/ j = b)),
         c.ref = Held(B, p2, q2, i), c.locked <=> i = a2 \/ i = b2,
         c.locked => c.valid, c.valid => c.ref > 0 /\ c.d = Dsk(s, i), c.ref > 0 => InUse(s, i)
  PROVE  Slots(t, B, p2, q2, a2, b2)
<1>1. /\ t \in FsValue /\ Alike(s, t)
      /\ Slot(t, i) = c /\ Mem(t, i) = c.d
      /\ \A j \in Inum : j # i => Slot(t, j) = Slot(s, j) /\ Mem(t, j) = Mem(s, j)
  <2>1. s \in FsValue /\ i \in Inum /\ c \in SlotSet /\ t = PutSlot(s, i, c)
    OBVIOUS
  <2>2. t \in FsValue /\ Alike(s, t)
    BY <2>1, PutSlotIs
  <2>3. Slot(t, i) = c
    BY <2>1, PutSlotIs
  <2>6. Mem(t, i) = c.d
    BY <2>1, PutSlotIs, Zenon
  <2>4. \A j \in Inum : j # i => Slot(t, j) = Slot(s, j) /\ Mem(t, j) = Mem(s, j)
    BY <2>1, PutSlotIs
  <2> QED  BY <2>2, <2>3, <2>4, <2>6
<1>2. \A j : Dsk(t, j) = Dsk(s, j) /\ (InUse(t, j) <=> InUse(s, j))
  BY <1>1, AlikeIs
<1>3. ASSUME NEW j \in Inum
      PROVE  /\ Slot(t, j).ref = Held(B, p2, q2, j)
             /\ Slot(t, j).locked <=> j = a2 \/ j = b2
             /\ Slot(t, j).locked => Slot(t, j).valid
             /\ Slot(t, j).valid => Slot(t, j).ref > 0 /\ Mem(t, j) = Dsk(t, j)
             /\ Slot(t, j).ref > 0 => InUse(t, j)
  <2>1. CASE j = i
    BY <1>1, <1>2, <2>1
  <2>2. CASE j # i
    BY <1>1, <1>2, <2>2 DEF Slots
  <2> QED  BY <2>1, <2>2
<1> QED  BY <1>3 DEF Slots

Few(B) == IsFiniteSet({j \in Inum : B[j] > 0}) /\ Cardinality({j \in Inum : B[j] > 0}) <= NOFile

\* While a call holds one inode, the cache has a free slot.
LEMMA NotAllCached ==
  ASSUME NEW s \in FsValue, NEW B, NEW q, NEW a, NEW b, Slots(s, B, 0, q, a, b), Few(B)
  PROVE  Cardinality(Cached(s)) # NInode
<1> DEFINE F == {j \in Inum : B[j] > 0}
<1>1. IsFiniteSet(F) /\ Cardinality(F) <= NOFile
  BY DEF Few
<1>2. Cached(s) \subseteq F \cup {q}
  <2> SUFFICES ASSUME NEW j \in Inum, s.ic[j].ref > 0, j # q PROVE B[j] > 0
    BY DEF Cached
  <2>1. Slot(s, j).ref = Held(B, 0, q, j) /\ Slot(s, j).ref > 0 /\ B[j] \in Nat /\ j # 0
    BY Consts DEF Slots, Slot
  <2> QED  BY <2>1 DEF Held
<1> HIDE DEF F
<1>3. IsFiniteSet(F \cup {q}) /\ Cardinality(F \cup {q}) <= NOFile + 1
  <2>1. IsFiniteSet(F \cup {q}) /\ Cardinality(F \cup {q}) = IF q \in F THEN Cardinality(F) ELSE Cardinality(F) + 1
    BY <1>1, FS_AddElement
  <2> QED  BY <1>1, <2>1, FS_CardinalityType, Consts
<1>4. Cardinality(Cached(s)) <= Cardinality(F \cup {q}) /\ Cardinality(Cached(s)) \in Nat /\ Cardinality(F \cup {q}) \in Nat
  BY <1>2, <1>3, FS_Subset, FS_CardinalityType
<1> QED  BY <1>3, <1>4, Consts

\* What iget takes for a new inode.
LEMMA FreeSlotIs ==
  /\ FreeSlot \in SlotSet /\ FreeSlot.ref = 0 /\ ~FreeSlot.locked /\ ~FreeSlot.valid
  /\ [FreeSlot EXCEPT !.ref = 1] \in SlotSet
<1>1. NoAddrs \in [0..NDirect -> DataBlock \cup {0}]
  BY DEF NoAddrs
<1>2. Unused \in DinodeSet
  BY <1>1 DEF Unused, DinodeSet
<1> QED  BY <1>2 DEF FreeSlot, SlotSet

\* A slot that nobody has locked is taken and given back without its lock.
LEMMA UnlockedIs ==
  /\ [FreeSlot EXCEPT !.locked = FALSE] = FreeSlot
  /\ [FreeSlot EXCEPT !.ref = 1, !.locked = FALSE] = [FreeSlot EXCEPT !.ref = 1]
<1>1. \A c \in SlotSet : ~c.locked => [c EXCEPT !.locked = FALSE] = c
  BY DEF SlotSet
<1>2. \A c \in SlotSet : ~c.locked => [c EXCEPT !.ref = 1, !.locked = FALSE] = [c EXCEPT !.ref = 1]
  BY DEF SlotSet
<1> QED  BY <1>1, <1>2, FreeSlotIs

\* What a call that does not touch the disk leaves.
Kept(s, t, x, B, p, q, a, b) == Sound(t, x) /\ Ok(t) /\ Alike(s, t) /\ Slots(t, B, p, q, a, b)

\* Two calls that do not touch the disk.
LEMMA KeptTwice ==
  ASSUME NEW s, NEW t, NEW u, NEW x, NEW B, NEW p, NEW q, NEW a, NEW b, NEW p2, NEW q2, NEW a2, NEW b2,
         Kept(s, t, x, B, p, q, a, b), Kept(t, u, x, B, p2, q2, a2, b2)
  PROVE  Kept(s, u, x, B, p2, q2, a2, b2)
BY AlikeTwice DEF Kept

\* Who is called p or q, and a or b, does not matter.
LEMMA Swapped ==
  ASSUME NEW s, NEW t, NEW x, NEW B, NEW p, NEW q, NEW a, NEW b, Kept(s, t, x, B, p, q, a, b)
  PROVE  Kept(s, t, x, B, q, p, a, b) /\ Kept(s, t, x, B, p, q, b, a) /\ Kept(s, t, x, B, q, p, b, a)
<1>1. \A i \in Inum : Held(B, p, q, i) = Held(B, q, p, i)
  BY DEF Kept, Slots, Held
<1> QED  BY <1>1 DEF Kept, Slots

\* What is known of the slot of inode i.
LEMMA SlotOf ==
  ASSUME NEW s, NEW t, NEW x, NEW B, NEW p, NEW q, NEW a, NEW b, Kept(s, t, x, B, p, q, a, b), NEW i \in Inum
  PROVE  /\ t \in FsValue /\ Ok(t) /\ i # 0
         /\ B[i] \in Nat /\ Slot(t, i).ref = Held(B, p, q, i) /\ Slot(t, i).ref \in Nat
         /\ Slot(t, i).locked \in BOOLEAN /\ Slot(t, i).valid \in BOOLEAN /\ Slot(t, i).d = Mem(t, i)
         /\ (Slot(t, i).locked <=> i = a \/ i = b) /\ (Slot(t, i).locked => Slot(t, i).valid)
         /\ (Slot(t, i).valid => Slot(t, i).ref > 0 /\ Mem(t, i) = Dsk(t, i))
         /\ (Slot(t, i).ref > 0 => InUse(t, i)) /\ (InUse(t, i) <=> InUse(s, i))
<1>1. t \in FsValue /\ Ok(t) /\ Slots(t, B, p, q, a, b) /\ Alike(s, t)
  BY DEF Kept, Sound
<1>2. InUse(t, i) <=> InUse(s, i)
  BY <1>1, AlikeIs
<1>3. B[i] \in Nat /\ Slot(t, i).ref = Held(B, p, q, i)
      /\ (Slot(t, i).locked <=> i = a \/ i = b) /\ (Slot(t, i).locked => Slot(t, i).valid)
      /\ (Slot(t, i).valid => Slot(t, i).ref > 0 /\ Mem(t, i) = Dsk(t, i))
      /\ (Slot(t, i).ref > 0 => InUse(t, i))
  BY <1>1 DEF Slots
<1> QED  BY <1>1, <1>2, <1>3, SlotIs, Consts

\* iget adds a holder and finds room for it.
LEMMA IgetIs ==
  ASSUME NEW s, NEW t, NEW x, NEW B, NEW q, NEW a, NEW b, Kept(s, t, x, B, 0, q, a, b),
         NEW i \in Inum, InUse(t, i), Few(B), NEW u, u = Iget(t, i)
  PROVE  Kept(s, u, x, B, i, q, a, b)
<1>0. /\ t \in FsValue /\ Ok(t) /\ i # 0
      /\ B[i] \in Nat /\ Slot(t, i).ref = Held(B, 0, q, i) /\ Slot(t, i).ref \in Nat
      /\ (Slot(t, i).locked <=> i = a \/ i = b) /\ (Slot(t, i).locked => Slot(t, i).valid)
      /\ (Slot(t, i).valid => Slot(t, i).ref > 0 /\ Mem(t, i) = Dsk(t, i))
      /\ Slot(t, i).locked \in BOOLEAN /\ Slot(t, i).valid \in BOOLEAN /\ Slot(t, i).d = Mem(t, i)
  BY SlotOf
<1>a. Slots(t, B, 0, q, a, b) /\ Sound(t, x) /\ Alike(s, t)
  BY DEF Kept
<1>1. Held(B, i, q, i) = Held(B, 0, q, i) + 1 /\ \A j \in Inum : j # i => Held(B, i, q, j) = Held(B, 0, q, j)
  BY <1>0, <1>a, Consts DEF Held, Slots
<1>c. PICK c : c = IF Slot(t, i).ref > 0 THEN [Slot(t, i) EXCEPT !.ref = @ + 1] ELSE [FreeSlot EXCEPT !.ref = 1]
  OBVIOUS
<1>2. u = PutSlot(t, i, c)
  <2>1. Slot(t, i) = t.ic[i]
    BY DEF Slot
  <2>2. CASE Slot(t, i).ref > 0
    BY <1>0, <1>c, <2>1, <2>2 DEF Iget, PutSlot
  <2>3. CASE ~(Slot(t, i).ref > 0)
    <3>1. Cardinality(Cached(t)) # NInode
      BY <1>0, <1>a, NotAllCached
    <3>2. t.ic[i].locked = FALSE
      BY <1>0, <2>1, <2>3
    <3>3. u = [t EXCEPT !.ic[i] = [FreeSlot EXCEPT !.ref = 1, !.locked = t.ic[i].locked]]
      BY <1>0, <2>1, <2>3, <3>1, Zenon DEF Iget
    <3>4. c = [FreeSlot EXCEPT !.ref = 1, !.locked = t.ic[i].locked]
      BY <1>c, <2>3, <3>2, UnlockedIs, Zenon
    <3> QED  BY <3>3, <3>4 DEF PutSlot
  <2> QED  BY <2>2, <2>3
<1>3. /\ c \in SlotSet /\ c.ref = Slot(t, i).ref + 1 /\ c.locked = Slot(t, i).locked /\ c.valid = Slot(t, i).valid
      /\ c.valid => c.d = Mem(t, i)
  <2>1. CASE Slot(t, i).ref > 0
    <3>1. Slot(t, i) \in SlotSet
      BY <1>0, ValueIs
    <3>2. c = [Slot(t, i) EXCEPT !.ref = @ + 1]
      BY <1>c, <2>1
    <3>3. c.ref = Slot(t, i).ref + 1 /\ c.locked = Slot(t, i).locked /\ c.valid = Slot(t, i).valid /\ c.d = Slot(t, i).d /\ c \in SlotSet
      BY <3>1, <3>2 DEF SlotSet
    <3> QED  BY <3>3, <1>0
  <2>2. CASE ~(Slot(t, i).ref > 0)
    <3>1. Slot(t, i).locked = FALSE /\ Slot(t, i).valid = FALSE /\ Slot(t, i).ref = 0
      BY <1>0, <2>2
    <3>2. c = [FreeSlot EXCEPT !.ref = 1] /\ c.ref = 1 /\ c.locked = FALSE /\ c.valid = FALSE
      BY <1>c, <2>2 DEF FreeSlot
    <3>3. c.locked = Slot(t, i).locked /\ c.valid = Slot(t, i).valid
      BY <3>1, <3>2, Zenon
    <3>4. c \in SlotSet /\ c.ref = Slot(t, i).ref + 1 /\ ~c.valid
      BY <3>1, <3>2, FreeSlotIs
    <3> QED  BY <3>3, <3>4
  <2> QED  BY <2>1, <2>2
<1>4. u \in FsValue /\ u.panic = t.panic /\ Alike(t, u)
  BY <1>0, <1>2, <1>3, PutSlotIs
<1>5. Slots(u, B, i, q, a, b)
  <2>1. q \in Inum \cup {0} /\ a \in Inum \cup {0} /\ b \in Inum \cup {0}
    BY <1>a DEF Slots
  <2> QED  BY <1>a, <1>0, <1>1, <1>2, <1>3, <2>1, SlotsMoved
<1> QED  BY <1>0, <1>a, <1>4, <1>5, SoundAlike, AlikeTwice DEF Kept, Ok

-----------------------------------------------------------------------------
\* ilock of an inode that is held and that nobody has locked.
LEMMA IlockIs ==
  ASSUME NEW s, NEW t, NEW x, NEW B, NEW p, NEW q, NEW b, Kept(s, t, x, B, p, q, 0, b),
         NEW i \in Inum, i # b, Held(B, p, q, i) > 0, NEW u, u = Ilock(t, i)
  PROVE  Kept(s, u, x, B, p, q, i, b)
<1>0. /\ t \in FsValue /\ Ok(t) /\ i # 0
      /\ B[i] \in Nat /\ Slot(t, i).ref = Held(B, p, q, i) /\ Slot(t, i).ref \in Nat
      /\ (Slot(t, i).locked <=> i = 0 \/ i = b)
      /\ (Slot(t, i).valid => Slot(t, i).ref > 0 /\ Mem(t, i) = Dsk(t, i))
      /\ (Slot(t, i).ref > 0 => InUse(t, i)) /\ Slot(t, i).d = Mem(t, i)
  BY SlotOf
<1>a. Slots(t, B, p, q, 0, b) /\ Sound(t, x) /\ Alike(s, t)
  BY DEF Kept
<1>c. PICK c : c = [Slot(t, i) EXCEPT !.locked = TRUE, !.valid = TRUE, !.d = Dsk(t, i)]
  OBVIOUS
<1>1. Slot(t, i) = t.ic[i] /\ Dsk(t, i) = t.dinode[i]
  BY DEF Slot, Dsk
<1>2. ~Slot(t, i).locked /\ ~(Slot(t, i).ref < 1) /\ InUse(t, i) /\ Dsk(t, i).type # "T_UNUSED"
  BY <1>0 DEF InUse
<1>3. u = PutSlot(t, i, c)
  <2> DEFINE d == IF t.ic[i].valid THEN t.ic[i].d ELSE t.dinode[i]
  <2>1. d = Dsk(t, i)
    BY <1>0, <1>1
  <2>2. u = [t EXCEPT !.ic[i] = [@ EXCEPT !.locked = TRUE, !.valid = TRUE, !.d = d]]
    <3> HIDE DEF d
    <3>1. u = IF ~Ok(t) THEN t
              ELSE IF t.ic[i].ref < 1 THEN Panic(t, "ilock: bad ip")
              ELSE IF t.ic[i].locked THEN Panic(t, "acquiresleep spins")
              ELSE IF ~t.ic[i].valid /\ d.type = "T_UNUSED" THEN Panic(t, "ilock: no type")
              ELSE [t EXCEPT !.ic[i] = [@ EXCEPT !.locked = TRUE, !.valid = TRUE, !.d = d]]
      BY Zenon DEF Ilock, d
    <3>2. Ok(t) /\ ~(t.ic[i].ref < 1) /\ ~t.ic[i].locked /\ ~(d.type = "T_UNUSED")
      BY <1>0, <1>1, <1>2, <2>1, Zenon
    <3> QED  BY <3>1, <3>2, Zenon
  <2> HIDE DEF d
  <2> QED  BY <1>c, <1>1, <2>1, <2>2 DEF PutSlot
<1>4. /\ c \in SlotSet /\ c.ref = Slot(t, i).ref /\ c.locked /\ c.valid /\ c.d = Dsk(t, i)
  <2>1. Slot(t, i) \in SlotSet /\ Dsk(t, i) \in DinodeSet
    BY <1>0, ValueIs
  <2> QED  BY <1>c, <2>1 DEF SlotSet
<1>5. u \in FsValue /\ u.panic = t.panic /\ Alike(t, u)
  BY <1>0, <1>3, <1>4, PutSlotIs
<1>6. Slots(u, B, p, q, i, b)
  <2>1. p \in Inum \cup {0} /\ q \in Inum \cup {0} /\ b \in Inum \cup {0}
    BY <1>a DEF Slots
  <2>2. \A j \in Inum : j # i => ((j = i \/ j = b) <=> (j = 0 \/ j = b))
    BY Consts
  <2> QED  BY <1>a, <1>0, <1>2, <1>3, <1>4, <2>1, <2>2, SlotsMoved
<1> QED  BY <1>0, <1>a, <1>5, <1>6, SoundAlike, AlikeTwice DEF Kept, Ok

\* iunlock of an inode that the call has locked.
LEMMA IunlockIs ==
  ASSUME NEW s, NEW t, NEW x, NEW B, NEW p, NEW q, NEW i \in Inum, NEW b, Kept(s, t, x, B, p, q, i, b),
         i # b, NEW u, u = Iunlock(t, i)
  PROVE  Kept(s, u, x, B, p, q, 0, b)
<1>0. /\ t \in FsValue /\ Ok(t) /\ i # 0
      /\ B[i] \in Nat /\ Slot(t, i).ref = Held(B, p, q, i) /\ Slot(t, i).ref \in Nat
      /\ (Slot(t, i).locked <=> i = i \/ i = b)
      /\ (Slot(t, i).locked => Slot(t, i).valid)
      /\ (Slot(t, i).valid => Slot(t, i).ref > 0 /\ Mem(t, i) = Dsk(t, i))
      /\ (Slot(t, i).ref > 0 => InUse(t, i)) /\ Slot(t, i).d = Mem(t, i)
  BY SlotOf
<1>a. Slots(t, B, p, q, i, b) /\ Sound(t, x) /\ Alike(s, t)
  BY DEF Kept
<1>c. PICK c : c = [Slot(t, i) EXCEPT !.locked = FALSE]
  OBVIOUS
<1>1. Slot(t, i) = t.ic[i]
  BY DEF Slot
<1>2. Slot(t, i).locked /\ ~(Slot(t, i).ref < 1)
  BY <1>0
<1>3. u = PutSlot(t, i, c)
  BY <1>0, <1>c, <1>1, <1>2 DEF Iunlock, PutSlot
<1>4. /\ c \in SlotSet /\ c.ref = Slot(t, i).ref /\ ~c.locked /\ (c.valid => Slot(t, i).valid) /\ c.d = Slot(t, i).d
  <2>1. Slot(t, i) \in SlotSet
    BY <1>0, ValueIs
  <2> QED  BY <1>c, <2>1 DEF SlotSet
<1>5. u \in FsValue /\ u.panic = t.panic /\ Alike(t, u)
  BY <1>0, <1>3, <1>4, PutSlotIs
<1>6. Slots(u, B, p, q, 0, b)
  <2>1. p \in Inum \cup {0} /\ q \in Inum \cup {0} /\ b \in Inum \cup {0}
    BY <1>a DEF Slots
  <2>2. \A j \in Inum : j # i => ((j = 0 \/ j = b) <=> (j = i \/ j = b))
    BY Consts
  <2> QED  BY <1>a, <1>0, <1>2, <1>3, <1>4, <2>1, <2>2, SlotsMoved
<1> QED  BY <1>0, <1>a, <1>5, <1>6, SoundAlike, AlikeTwice DEF Kept, Ok

\* iput drops a holder; every inode has a link, so none is deleted.
LEMMA IputIs ==
  ASSUME NEW s, NEW t, NEW x, NEW B, NEW i \in Inum, NEW q, NEW a, NEW b, Kept(s, t, x, B, i, q, a, b),
         i # a, i # b, NEW u, u = Iput(t, i)
  PROVE  Kept(s, u, x, B, 0, q, a, b)
<1>0. /\ t \in FsValue /\ Ok(t) /\ i # 0
      /\ B[i] \in Nat /\ Slot(t, i).ref = Held(B, i, q, i) /\ Slot(t, i).ref \in Nat
      /\ (Slot(t, i).locked <=> i = a \/ i = b)
      /\ (Slot(t, i).locked => Slot(t, i).valid)
      /\ (Slot(t, i).valid => Slot(t, i).ref > 0 /\ Mem(t, i) = Dsk(t, i))
      /\ (Slot(t, i).ref > 0 => InUse(t, i)) /\ Slot(t, i).d = Mem(t, i)
  BY SlotOf
<1>a. Slots(t, B, i, q, a, b) /\ Sound(t, x) /\ Alike(s, t)
  BY DEF Kept
<1>b. /\ Held(B, i, q, i) = Held(B, 0, q, i) + 1 /\ Held(B, 0, q, i) \in Nat
      /\ \A j \in Inum : j # i => Held(B, 0, q, j) = Held(B, i, q, j)
  BY <1>0, <1>a, Consts DEF Held, Slots
<1>1. Slot(t, i) = t.ic[i] /\ ~Slot(t, i).locked
  BY <1>0 DEF Slot
<1>2. ~(t.ic[i].ref = 1 /\ t.ic[i].valid /\ t.ic[i].d.nlink = 0)
  <2>1. Slot(t, i).valid => Mem(t, i).nlink = 1
    BY <1>0, <1>a DEF Sound, Disk, Kind, InUse
  <2> QED  BY <2>1 DEF Slot, Mem
<1>c. PICK c : c = IF Slot(t, i).ref = 1 THEN FreeSlot ELSE [Slot(t, i) EXCEPT !.ref = @ - 1]
  OBVIOUS
<1>3. u = PutSlot(t, i, c)
  <2> DEFINE e == IF t.ic[i].ref = 1 THEN [FreeSlot EXCEPT !.locked = t.ic[i].locked]
                  ELSE [t.ic[i] EXCEPT !.ref = @ - 1]
  <2>1. u = [t EXCEPT !.ic[i] = e]
    BY <1>0, <1>2, Zenon DEF Iput
  <2>2. c = e
    <3>1. t.ic[i].locked = FALSE
      BY <1>0, <1>1
    <3> QED  BY <1>c, <1>1, <3>1, UnlockedIs, Zenon
  <2> HIDE DEF e
  <2> QED  BY <2>1, <2>2 DEF PutSlot
<1>4. /\ c \in SlotSet /\ c.ref = Slot(t, i).ref - 1 /\ ~c.locked
      /\ c.valid => c.d = Slot(t, i).d /\ Slot(t, i).valid /\ c.ref > 0
  <2>1. CASE Slot(t, i).ref = 1
    BY <1>c, <2>1, FreeSlotIs
  <2>2. CASE Slot(t, i).ref # 1
    <3>1. Slot(t, i) \in SlotSet /\ Slot(t, i).ref - 1 \in Nat /\ Slot(t, i).ref - 1 > 0
      BY <1>0, <1>b, <2>2, ValueIs
    <3>2. c = [Slot(t, i) EXCEPT !.ref = @ - 1]
      BY <1>c, <2>2
    <3>3. c \in SlotSet /\ c.ref = Slot(t, i).ref - 1 /\ c.d = Slot(t, i).d
      BY <3>1, <3>2 DEF SlotSet
    <3>4. c.locked = Slot(t, i).locked /\ c.valid = Slot(t, i).valid
      BY <3>1, <3>2 DEF SlotSet
    <3> QED  BY <1>1, <3>1, <3>3, <3>4
  <2> QED  BY <2>1, <2>2
<1>5. u \in FsValue /\ u.panic = t.panic /\ Alike(t, u)
  BY <1>0, <1>3, <1>4, PutSlotIs
<1>6. Slots(u, B, 0, q, a, b)
  <2>1. 0 \in Inum \cup {0} /\ q \in Inum \cup {0} /\ a \in Inum \cup {0} /\ b \in Inum \cup {0}
    BY <1>a DEF Slots
  <2>2. \A j \in Inum : j # i => ((j = a \/ j = b) <=> (j = a \/ j = b))
    OBVIOUS
  <2>3. c.ref = Held(B, 0, q, i) /\ (c.locked <=> i = a \/ i = b) /\ (c.locked => c.valid)
        /\ (c.valid => c.ref > 0 /\ c.d = Dsk(t, i)) /\ (c.ref > 0 => InUse(t, i))
    BY <1>0, <1>b, <1>4
  <2> QED  BY <1>a, <1>0, <1>b, <1>3, <1>4, <2>1, <2>2, <2>3, SlotsMoved
<1> QED  BY <1>0, <1>a, <1>5, <1>6, SoundAlike, AlikeTwice DEF Kept, Ok

-----------------------------------------------------------------------------
(* iupdate, and what writei leaves.                                        *)

\* The size after a write.
LEMMA MaxIs ==
  ASSUME NEW a \in Nat, NEW b \in Nat
  PROVE  Max({a, b}) = Bigger(a, b)
<1>1. \A x \in {a, b} : Bigger(a, b) >= x
  BY DEF Bigger
<1>2. Bigger(a, b) \in {a, b}
  BY DEF Bigger
<1>3. \A x \in {a, b} : (\A y \in {a, b} : x >= y) => x = Bigger(a, b)
  BY DEF Bigger
<1> QED  BY <1>1, <1>2, <1>3 DEF Max

\* Inodes that refer to the same blocks.
LEMMA ExactSame ==
  ASSUME NEW dn, NEW bm, NEW blk, NEW dn2, NEW blk2, Exact(dn, bm, blk),
         \A j \in Inum, n \in 0..MaxFile : Place(dn2[j], blk2, n) = Place(dn[j], blk, n)
  PROVE  Exact(dn2, bm, blk2)
BY DEF Exact

\* Inode i in memory and on disk are the same.
LEMMA AtRest ==
  ASSUME NEW s \in FsValue, NEW i \in Inum, Mem(s, i) = Dsk(s, i)
  PROVE  /\ \A j \in Inum : Now(s, i)[j] = Dsk(s, j)
         /\ \A j \in Inum : \A n : Ref(s, i, j, n) = Place(Dsk(s, j), s.block, n)
         /\ \A j \in Inum : \A pos : At(s, i, j, pos) = Cel(s, j, pos)
         /\ NowExact(s, i) <=> Exact(s.dinode, s.bitmap, s.block)
<1>1. \A j \in Inum : Now(s, i)[j] = Dsk(s, j)
  BY NowIs
<1>2. \A j \in Inum : \A n : Ref(s, i, j, n) = Place(Dsk(s, j), s.block, n)
  BY <1>1 DEF Ref
<1>3. \A j \in Inum : \A pos : At(s, i, j, pos) = Cel(s, j, pos)
  BY <1>2 DEF At, Cel
<1> DEFINE dn == Now(s, i)
           dn2 == s.dinode
           bm == s.bitmap
           blk == s.block
<1>4. \A j \in Inum : dn[j] = dn2[j]
  BY <1>1 DEF Dsk
<1> HIDE DEF dn, dn2, bm, blk
<1>5. Exact(dn, bm, blk) <=> Exact(dn2, bm, blk)
  BY <1>4, ExactSame
<1> QED  BY <1>1, <1>2, <1>3, <1>5 DEF NowExact, dn, dn2, bm, blk

\* iupdate writes one inode to the disk.
LEMMA IupdateIs ==
  ASSUME NEW s \in FsValue, NEW i \in Inum, Ok(s), NEW t, t = Iupdate(s, i)
  PROVE  /\ t \in FsValue /\ Ok(t)
         /\ \A j : Slot(t, j) = Slot(s, j) /\ Mem(t, j) = Mem(s, j)
         /\ t.bitmap = s.bitmap /\ t.block = s.block
         /\ Dsk(t, i) = Mem(s, i) /\ \A j \in Inum : j # i => Dsk(t, j) = Dsk(s, j)
<1> DEFINE u == [s.dinode EXCEPT ![i] = s.ic[i].d]
<1>1. t = [s EXCEPT !.dinode = u]
  BY DEF Iupdate
<1>2. s.dinode \in [Inum -> DinodeSet] /\ s.ic[i].d \in DinodeSet
  BY DEF FsValue, SlotSet
<1>3. u \in [Inum -> DinodeSet] /\ u[i] = Mem(s, i) /\ \A j \in Inum : j # i => u[j] = Dsk(s, j)
  BY <1>2 DEF Mem, Dsk
<1> HIDE DEF u
<1>4. /\ t \in FsValue /\ t.panic = s.panic /\ t.dinode = u
      /\ t.ic = s.ic /\ t.bitmap = s.bitmap /\ t.block = s.block
  BY <1>1, <1>3 DEF FsValue
<1>5. \A j : Slot(t, j) = Slot(s, j) /\ Mem(t, j) = Mem(s, j) /\ Dsk(t, j) = u[j]
  BY <1>4 DEF Slot, Mem, Dsk
<1> QED  BY <1>3, <1>4, <1>5 DEF Ok

\* The copy of inode i in memory changed to d.
PutMem(s, i, d) == PutSlot(s, i, [s.ic[i] EXCEPT !.d = d])

\* Only the copy in memory has changed.
LEMMA PutMemIs ==
  ASSUME NEW s \in FsValue, NEW i \in Inum, NEW d \in DinodeSet, NEW t, t = PutMem(s, i, d)
  PROVE  /\ t \in FsValue /\ t.panic = s.panic /\ Alike(s, t) /\ SameSlots(s, t, i)
         /\ Mem(t, i) = d
<1>c. PICK c : c = [s.ic[i] EXCEPT !.d = d]
  OBVIOUS
<1>1. s.ic[i] \in SlotSet
  BY DEF FsValue
<1>2. c \in SlotSet /\ c.d = d /\ c.ref = s.ic[i].ref /\ c.locked = s.ic[i].locked /\ c.valid = s.ic[i].valid
  BY <1>c, <1>1 DEF SlotSet
<1>3. t = PutSlot(s, i, c)
  BY <1>c DEF PutMem
<1>4. /\ t \in FsValue /\ t.panic = s.panic /\ Alike(s, t)
      /\ Slot(t, i) = c /\ Mem(t, i) = c.d
      /\ \A j \in Inum : j # i => Slot(t, j) = Slot(s, j)
  BY <1>2, <1>3, PutSlotIs
<1>5. Slot(t, i).ref = Slot(s, i).ref /\ Slot(t, i).locked = Slot(s, i).locked /\ Slot(t, i).valid = Slot(s, i).valid
  <2>1. Slot(s, i) = s.ic[i]
    BY DEF Slot
  <2> QED  BY <1>2, <1>4, <2>1
<1>6. Mem(t, i) = d
  BY <1>2, <1>4
<1> QED  BY <1>4, <1>5, <1>6 DEF SameSlots

\* The slots after file i was changed in memory and on disk.
LEMMA SlotsChanged ==
  ASSUME NEW s, NEW t, NEW i \in Inum, NEW B, NEW p, NEW q, NEW a, NEW b, Slots(s, B, p, q, a, b),
         SameSlots(s, t, i), Mem(t, i) = Dsk(t, i), InUse(t, i),
         \A j \in Inum : j # i => Dsk(t, j) = Dsk(s, j)
  PROVE  Slots(t, B, p, q, a, b)
<1>1. ASSUME NEW j \in Inum
      PROVE  /\ Slot(t, j).ref = Held(B, p, q, j)
             /\ Slot(t, j).locked <=> j = a \/ j = b
             /\ Slot(t, j).locked => Slot(t, j).valid
             /\ Slot(t, j).valid => Slot(t, j).ref > 0 /\ Mem(t, j) = Dsk(t, j)
             /\ Slot(t, j).ref > 0 => InUse(t, j)
  <2>1. CASE j = i
    BY <2>1 DEF Slots, SameSlots
  <2>2. CASE j # i
    <3>1. Slot(t, j) = Slot(s, j) /\ Mem(t, j) = Mem(s, j) /\ Dsk(t, j) = Dsk(s, j)
      BY <2>2 DEF SameSlots, Mem, Slot
    <3>2. InUse(t, j) <=> InUse(s, j)
      BY <3>1 DEF InUse
    <3> QED  BY <3>1, <3>2 DEF Slots
  <2> QED  BY <2>1, <2>2
<1> QED  BY <1>1 DEF Slots

\* A directory that no one has touched.
LEMMA DirSame ==
  ASSUME NEW s, NEW t, NEW x, Dir(s, x), DirSize(t) = DirSize(s),
         \A o \in 0..(DirSize(s) - 1) : Ent(t, o) = Ent(s, o),
         DirSize(s) \in Nat,
         \A i \in Inum : InUse(t, i) <=> InUse(s, i)
  PROVE  Dir(t, x)
<1>1. 0 \in 0..(DirSize(s) - 1) /\ 1 \in 0..(DirSize(s) - 1)
      /\ \A o \in 2..(DirSize(s) - 1) : o \in 0..(DirSize(s) - 1)
  BY DEF Dir
<1> QED  BY <1>1 DEF Dir

-----------------------------------------------------------------------------
\* t is s with cells written to file i at off.
Written(s, t, i, off, cells) ==
  /\ t \in FsValue /\ Ok(t) /\ Disk(t)
  /\ SameSlots(s, t, i) /\ Mem(t, i) = Dsk(t, i)
  /\ \A j \in Inum : j # i => Dsk(t, j) = Dsk(s, j)
  /\ Dsk(t, i).type = Dsk(s, i).type
  /\ Dsk(t, i).size = Bigger(Dsk(s, i).size, off + Len(cells))
  /\ \A j \in Inum : j # i => \A pos \in Nat : pos < Dsk(s, j).size => Cel(t, j, pos) = Cel(s, j, pos)
  /\ \A pos \in Nat : pos < Bigger(Dsk(s, i).size, off + Len(cells)) =>
       Cel(t, i, pos) = IF off <= pos /\ pos < off + Len(cells) THEN cells[pos - off + 1] ELSE Cel(s, i, pos)

\* A cell of a file is in one of its blocks.
LEMMA CellPlace ==
  ASSUME NEW d, NEW blk, Sized(d, blk), d.size \in Nat, NEW pos \in Nat, pos < d.size,
         NEW n, n = pos \div BSize
  PROVE  n \in 0..(MaxFile - 1) /\ n \in 0..MaxFile /\ n # MaxFile /\ Place(d, blk, n) # 0
<1>1. n \in Nat /\ pos < MaxFile * BSize
  BY Position, Consts DEF Sized
<1>2. InFile(n, d.size) /\ n < MaxFile
  BY <1>1, InFileFacts, Consts
<1> QED  BY <1>1, <1>2, Consts DEF Sized, Needed

\* What writei returns.
Yes(w) == w = TRUE
No(w)  == w = FALSE

\* writei refuses, runs out of blocks, or writes all cells.
LEMMA WriteiIs ==
  ASSUME NEW s \in FsValue, Ok(s), Disk(s), NEW i \in Inum, Mem(s, i) = Dsk(s, i), InUse(s, i),
         NEW off \in Nat, NEW cells \in Seq(Cell),
         NEW t, NEW w, Gives(Writei(s, i, off, cells), t, w)
  PROVE  \/ t = s /\ No(w) /\ (off > Dsk(s, i).size \/ off + Len(cells) > MaxFile * BSize)
         \/ Full(t)
         \/ Yes(w) /\ off <= Dsk(s, i).size /\ off + Len(cells) <= MaxFile * BSize /\ Written(s, t, i, off, cells)
<1> DEFINE size == Dsk(s, i).size
           n == Len(cells)
           z == Bigger(size, off + n)
<1>0. size \in Nat /\ n \in Nat /\ z \in Nat /\ Mem(s, i).size = size /\ s.ic[i].d = Mem(s, i) /\ z >= size
      /\ Sized(Dsk(s, i), s.block) /\ Kind(i, Dsk(s, i))
  BY SlotIs, DinodeIs DEF Bigger, Mem, Disk
<1>1. CASE off > size \/ off + n > MaxFile * BSize
  <2>1. TooFar(s, i, off, cells)
    BY <1>0, <1>1 DEF TooFar
  <2>2. t = s /\ No(w)
    BY <2>1 DEF Writei, Gives, Result, No
  <2> QED  BY <1>1, <2>2
<1>2. CASE ~(off > size \/ off + n > MaxFile * BSize)
  <2>1. ~TooFar(s, i, off, cells)
    BY <1>0, <1>2 DEF TooFar
  <2>p. PICK u : u = StoreCells(s, i, off, cells)
    OBVIOUS
  <2>q. PICK d : d = [Mem(u, i) EXCEPT !.size = Max({@, off + n})]
    OBVIOUS
  <2>r. PICK v : v = PutMem(u, i, d)
    OBVIOUS
  <2>2. t = Iupdate(v, i) /\ Yes(w)
    <3>1. v = [u EXCEPT !.ic[i].d.size = Max({@, off + n})]
      BY <2>q, <2>r DEF PutMem, PutSlot, Mem
    <3> QED  BY <2>1, <2>p, <3>1 DEF Writei, Gives, Result, Yes
  <2>3. off <= size /\ off + n <= MaxFile * BSize
    BY <1>0, <1>2, Consts
  <2>4. Writable(s, i, off, size, cells)
    <3>1. NowExact(s, i)
      BY AtRest DEF Disk
    <3>2. \A m \in 0..MaxFile : Ref(s, i, i, m) # 0 <=> Needed(m, size)
      BY <1>0, AtRest DEF Sized
    <3> QED  BY <1>0, <2>3, <3>1, <3>2 DEF Writable, Sized
  <2>5. Full(u) \/ Filled(s, u, i, off, n, cells)
    BY <2>4, <2>p, StoreCellsIs
  <2>6. ASSUME u \in FsValue
        PROVE  /\ d \in DinodeSet /\ d.size = Bigger(Mem(u, i).size, off + n) /\ d.type = Mem(u, i).type
               /\ d.nlink = Mem(u, i).nlink /\ \A m : Addr(d, m) = Addr(Mem(u, i), m)
               /\ v \in FsValue /\ v.panic = u.panic /\ Alike(u, v) /\ SameSlots(u, v, i) /\ Mem(v, i) = d
    <3>1. Mem(u, i) \in DinodeSet /\ Mem(u, i).size \in Nat
      BY <2>6, SlotIs, DinodeIs
    <3>2. Max({Mem(u, i).size, off + n}) = Bigger(Mem(u, i).size, off + n) /\ Bigger(Mem(u, i).size, off + n) \in Nat
      BY <1>0, <3>1, MaxIs DEF Bigger
    <3>3. d = [Mem(u, i) EXCEPT !.size = Bigger(Mem(u, i).size, off + n)]
      BY <2>q, <3>2
    <3>4. /\ d \in DinodeSet /\ d.size = Bigger(Mem(u, i).size, off + n) /\ d.type = Mem(u, i).type
          /\ d.nlink = Mem(u, i).nlink /\ \A m : Addr(d, m) = Addr(Mem(u, i), m)
      BY <3>1, <3>2, <3>3 DEF DinodeSet, Addr
    <3>5. v \in FsValue /\ v.panic = u.panic /\ Alike(u, v) /\ SameSlots(u, v, i) /\ Mem(v, i) = d
      BY <2>6, <2>r, <3>4, PutMemIs
    <3> QED  BY <3>4, <3>5
  <2>7. CASE Full(u)
    <3>1. v \in FsValue /\ v.panic = NoBlock
      BY <2>6, <2>7 DEF Full
    <3>2. t = v
      BY <2>2, <3>1 DEF Iupdate, Ok, NoBlock
    <3> QED  BY <3>1, <3>2 DEF Full
  <2>8. CASE Filled(s, u, i, off, n, cells)
    <3>1. /\ u \in FsValue /\ Ok(u) /\ SameFile(s, u, i) /\ NowExact(u, i)
          /\ \A j \in Inum : j # i => \A m \in 0..MaxFile :
               /\ Ref(u, i, j, m) = Ref(s, i, j, m)
               /\ Ref(s, i, j, m) # 0 /\ m # MaxFile => u.block[Ref(s, i, j, m)] = s.block[Ref(s, i, j, m)]
          /\ \A m \in 0..MaxFile : Ref(u, i, i, m) # 0 <=> Needed(m, z)
          /\ \A pos \in Nat : pos < z =>
               At(u, i, i, pos) = IF off <= pos /\ pos < off + n THEN cells[pos - off + 1] ELSE At(s, i, i, pos)
      BY <1>0, <2>8 DEF Filled
    <3>2. /\ Mem(u, i).type = Dsk(s, i).type /\ Mem(u, i).size = size /\ Mem(u, i).nlink = Dsk(s, i).nlink
          /\ SameSlots(s, u, i) /\ \A j \in Inum : Dsk(u, j) = Dsk(s, j)
      BY <1>0, <3>1 DEF SameFile
    <3>3. /\ d \in DinodeSet /\ d.size = z /\ d.type = Dsk(s, i).type /\ d.nlink = Dsk(s, i).nlink
          /\ \A m : Addr(d, m) = Addr(Mem(u, i), m)
          /\ v \in FsValue /\ v.panic = u.panic /\ Alike(u, v) /\ SameSlots(u, v, i) /\ Mem(v, i) = d
      BY <2>6, <3>1, <3>2
    <3>4. Ok(v)
      BY <3>1, <3>3 DEF Ok
    <3>5. /\ t \in FsValue /\ Ok(t)
          /\ \A j : Slot(t, j) = Slot(v, j) /\ Mem(t, j) = Mem(v, j)
          /\ t.bitmap = v.bitmap /\ t.block = v.block
          /\ Dsk(t, i) = Mem(v, i) /\ \A j \in Inum : j # i => Dsk(t, j) = Dsk(v, j)
      BY <2>2, <3>3, <3>4, IupdateIs
    <3>6. Mem(t, i) = Dsk(t, i) /\ Dsk(t, i) = d /\ SameSlots(s, t, i)
          /\ \A j \in Inum : j # i => Dsk(t, j) = Dsk(s, j)
      <4>1. SameSlots(s, t, i)
        BY <3>2, <3>3, <3>5 DEF SameSlots
      <4>2. \A j \in Inum : Dsk(v, j) = Dsk(u, j)
        BY <3>3, AlikeIs
      <4> QED  BY <3>2, <3>3, <3>5, <4>1, <4>2
    <3>7. t.bitmap = u.bitmap /\ t.block = u.block
      BY <3>3, <3>5 DEF Alike
    <3>8. ASSUME NEW j \in Inum, NEW m \in 0..MaxFile
          PROVE  Place(Dsk(t, j), t.block, m) = Ref(u, i, j, m)
      <4>1. CASE j = i
        <5>1. \A l \in 0..NDirect : Addr(d, l) = Addr(Mem(u, i), l)
          BY <3>3
        <5>2. Place(d, t.block, m) = Place(Mem(u, i), u.block, m)
          BY <3>7, <5>1, SamePlaces
        <5> QED  BY <3>1, <3>6, <4>1, <5>2, NowIs DEF Ref
      <4>2. CASE j # i
        BY <3>1, <3>2, <3>6, <3>7, <4>2, NowIs DEF Ref
      <4> QED  BY <4>1, <4>2
    <3>9. Disk(t)
      <4> DEFINE dn == Now(u, i)
                 dn2 == t.dinode
                 bm == u.bitmap
                 blk == u.block
      <4>1. \A j \in Inum, m \in 0..MaxFile : Place(dn2[j], blk, m) = Place(dn[j], blk, m)
        BY <3>7, <3>8 DEF Ref, Dsk
      <4>2. Exact(dn, bm, blk)
        BY <3>1 DEF NowExact
      <4>3. Exact(dn2, bm, blk)
        <5> HIDE DEF dn, dn2, bm, blk
        <5> QED  BY <4>1, <4>2, ExactSame
      <4>4. Exact(t.dinode, t.bitmap, t.block)
        BY <3>7, <4>3
      <4> HIDE DEF dn, dn2, bm, blk
      <4>5. ASSUME NEW j \in Inum PROVE Sized(Dsk(t, j), t.block) /\ Kind(j, Dsk(t, j))
        <5>1. CASE j = i
          <6>1. \A m \in 0..MaxFile : Place(Dsk(t, i), t.block, m) # 0 <=> Needed(m, z)
            BY <3>1, <3>8
          <6>2. Dsk(t, i).size = z /\ z <= MaxFile * BSize
            BY <1>0, <2>3, <3>3, <3>6, Consts DEF Bigger, Sized
          <6>3. Sized(Dsk(t, i), t.block)
            BY <6>1, <6>2 DEF Sized
          <6>4. Kind(i, Dsk(t, i))
            BY <1>0, <3>3, <3>6 DEF Kind, InUse
          <6> QED  BY <5>1, <6>3, <6>4
        <5>2. CASE j # i
          <6>1. \A m \in 0..MaxFile : Place(Dsk(t, j), t.block, m) = Place(Dsk(s, j), s.block, m)
            BY <3>1, <3>8, <5>2, AtRest
          <6>2. Sized(Dsk(s, j), s.block) /\ Kind(j, Dsk(s, j)) /\ Dsk(t, j) = Dsk(s, j)
            BY <3>6, <5>2 DEF Disk
          <6> QED  BY <6>1, <6>2 DEF Sized
        <5> QED  BY <5>1, <5>2
      <4> QED  BY <4>4, <4>5 DEF Disk
    <3>10. ASSUME NEW j \in Inum, j # i, NEW pos \in Nat, pos < Dsk(s, j).size
           PROVE  Cel(t, j, pos) = Cel(s, j, pos)
      <4>n. PICK m : m = pos \div BSize
        OBVIOUS
      <4>1. Dsk(s, j).size \in Nat /\ Sized(Dsk(s, j), s.block)
        BY SlotIs, DinodeIs DEF Disk
      <4>2. m \in 0..MaxFile /\ m # MaxFile /\ Place(Dsk(s, j), s.block, m) # 0
        BY <3>10, <4>1, <4>n, CellPlace
      <4>3. Ref(s, i, j, m) = Place(Dsk(s, j), s.block, m)
        BY AtRest
      <4>4. Place(Dsk(t, j), t.block, m) = Ref(s, i, j, m) /\ t.block[Ref(s, i, j, m)] = s.block[Ref(s, i, j, m)]
        BY <3>1, <3>7, <3>8, <3>10, <4>2, <4>3
      <4> QED  BY <4>n, <4>3, <4>4 DEF Cel
    <3>11. ASSUME NEW pos \in Nat, pos < z
           PROVE  Cel(t, i, pos) = IF off <= pos /\ pos < off + n THEN cells[pos - off + 1] ELSE Cel(s, i, pos)
      <4>n. PICK m : m = pos \div BSize
        OBVIOUS
      <4>1. Dsk(t, i).size = z /\ Sized(Dsk(t, i), t.block)
        BY <3>3, <3>6, <3>9 DEF Disk
      <4>2. m \in 0..MaxFile
        BY <1>0, <3>11, <4>1, <4>n, CellPlace
      <4>3. Cel(t, i, pos) = At(u, i, i, pos)
        BY <3>7, <3>8, <4>n, <4>2 DEF Cel, At
      <4>4. At(s, i, i, pos) = Cel(s, i, pos)
        BY AtRest
      <4> QED  BY <3>1, <3>11, <4>3, <4>4
    <3>12. Dsk(t, i).size = z /\ Dsk(t, i).type = Dsk(s, i).type
      BY <3>3, <3>6
    <3> HIDE DEF size, z
    <3> QED  BY <2>2, <2>3, <3>5, <3>6, <3>9, <3>10, <3>11, <3>12 DEF Written, size, z
  <2> QED  BY <2>5, <2>7, <2>8
<1> QED  BY <1>1, <1>2

-----------------------------------------------------------------------------
(* itrunc.                                                                 *)

\* bm2 is bm without the blocks of inode d.
Freed(bm, bm2, d, blk) ==
  \A b : b \in bm2 <=> b \in bm /\ \A k \in 0..MaxFile : b # Place(d, blk, k)

\* An inode without blocks, its old ones freed.
LEMMA ExactFreed ==
  ASSUME NEW dn, NEW bm, NEW blk, NEW dn2, NEW bm2, NEW i \in Inum, Exact(dn, bm, blk),
         Freed(bm, bm2, dn[i], blk),
         \A n \in 0..MaxFile : Place(dn2[i], blk, n) = 0,
         \A j \in Inum : j # i => dn2[j] = dn[j], 0 \notin bm
  PROVE  Exact(dn2, bm2, blk)
<1>1. ASSUME NEW j \in Inum, NEW k \in 0..MaxFile, Place(dn2[j], blk, k) # 0
      PROVE  j # i /\ Place(dn2[j], blk, k) = Place(dn[j], blk, k) /\ Place(dn2[j], blk, k) \in bm2
  <2>1. j # i /\ Place(dn2[j], blk, k) = Place(dn[j], blk, k)
    BY <1>1
  <2>2. Place(dn[j], blk, k) \in bm /\ \A m \in 0..MaxFile : Place(dn[j], blk, k) # Place(dn[i], blk, m)
    BY <1>1, <2>1 DEF Exact
  <2> QED  BY <2>1, <2>2 DEF Freed
<1>2. ASSUME NEW j \in Inum, NEW j2 \in Inum, NEW k \in 0..MaxFile, NEW k2 \in 0..MaxFile,
             Place(dn2[j], blk, k) # 0, Place(dn2[j], blk, k) = Place(dn2[j2], blk, k2)
      PROVE  j = j2 /\ k = k2
  <2>1. Place(dn2[j], blk, k) = Place(dn[j], blk, k) /\ Place(dn2[j2], blk, k2) = Place(dn[j2], blk, k2)
    <3>1. Place(dn2[j2], blk, k2) # 0
      BY <1>2
    <3> QED  BY <1>1, <1>2, <3>1
  <2>2. Place(dn[j], blk, k) # 0 /\ Place(dn[j], blk, k) = Place(dn[j2], blk, k2)
    BY <1>2, <2>1
  <2> QED  BY <2>2 DEF Exact
<1>3. ASSUME NEW b \in bm2 PROVE \E j \in Inum, k \in 0..MaxFile : Place(dn2[j], blk, k) = b
  <2>1. PICK j \in Inum, k \in 0..MaxFile : Place(dn[j], blk, k) = b
    BY <1>3 DEF Exact, Freed
  <2>2. j # i
    BY <1>3, <2>1 DEF Freed
  <2> QED  BY <2>1, <2>2
<1> QED  BY <1>1, <1>2, <1>3 DEF Exact

\* t is s with file i emptied.
Emptied(s, t, i) ==
  /\ t \in FsValue /\ Ok(t) /\ Disk(t)
  /\ SameSlots(s, t, i) /\ Mem(t, i) = Dsk(t, i)
  /\ \A j \in Inum : j # i => Dsk(t, j) = Dsk(s, j)
  /\ Dsk(t, i).type = Dsk(s, i).type /\ Dsk(t, i).size = 0
  /\ \A j \in Inum : j # i => \A pos : Cel(t, j, pos) = Cel(s, j, pos)

\* itrunc frees every block of the inode, and never a free one.
LEMMA BfreeIs ==
  ASSUME NEW s \in FsValue, Ok(s), Disk(s), NEW i \in Inum, Mem(s, i) = Dsk(s, i),
         NEW d, d = s.ic[i].d, NEW t, t = Bfree(s, BlocksOf(s, d))
  PROVE  /\ t \in FsValue /\ t.panic = s.panic /\ t.dinode = s.dinode /\ t.block = s.block /\ t.ic = s.ic
         /\ Freed(s.bitmap, t.bitmap, s.dinode[i], s.block)
<1> DEFINE blk == s.block
           dn == s.dinode
           bm == s.bitmap
           blocks == BlocksOf(s, d)
           used == {k \in DOMAIN blocks : blocks[k] # 0}
           freed == {blocks[k] : k \in used}
<1>1. d = dn[i] /\ \A k : d.addrs[k] = Addr(d, k)
  BY DEF Mem, Dsk, Addr
<1>2. DOMAIN blocks = 0..MaxFile
  BY DEF BlocksOf
<1>3. ASSUME NEW k \in 0..MaxFile PROVE blocks[k] = Place(dn[i], blk, k)
  <2>1. blocks[k] = IF k < NDirect THEN d.addrs[k]
                    ELSE IF k = MaxFile \/ d.addrs[NDirect] = 0 THEN d.addrs[NDirect]
                    ELSE s.block[d.addrs[NDirect]][k - NDirect].n
    BY DEF BlocksOf
  <2>2. d.addrs[k] = Addr(dn[i], k) /\ d.addrs[NDirect] = Addr(dn[i], NDirect)
    BY <1>1
  <2> HIDE DEF blocks, dn
  <2> QED  BY <2>1, <2>2, Zenon DEF Place
<1>4. Exact(dn, bm, blk) /\ bm \in SUBSET DataBlock /\ 0 \notin bm
  BY ValueIs, Consts DEF Disk
<1> HIDE DEF blk, dn, bm, blocks
<1>5. \A k \in used : blocks[k] \in bm /\ \A j \in used : blocks[j] = blocks[k] => j = k
  BY <1>2, <1>3, <1>4 DEF Exact
<1>6. t = [s EXCEPT !.bitmap = @ \ freed]
  BY <1>5 DEF Bfree, blocks, bm
<1>f. PICK bm2 : bm2 = bm \ freed
  OBVIOUS
<1>7. Freed(bm, bm2, dn[i], blk)
  <2>1. \A b \in bm : b # 0
    BY <1>4
  <2> QED  BY <2>1, <1>2, <1>3, <1>f DEF Freed
<1>8. t = [s EXCEPT !.bitmap = bm2] /\ bm2 \in SUBSET DataBlock
  BY <1>4, <1>6, <1>f DEF bm
<1>9. t \in FsValue /\ t.panic = s.panic /\ t.dinode = s.dinode /\ t.block = s.block /\ t.ic = s.ic
      /\ t.bitmap = bm2
  BY <1>8 DEF FsValue
<1> QED  BY <1>7, <1>9, <1>f DEF dn, bm, blk

\* itrunc empties the file.
LEMMA ItruncIs ==
  ASSUME NEW s \in FsValue, Ok(s), Disk(s), NEW i \in Inum, Mem(s, i) = Dsk(s, i), InUse(s, i),
         NEW t, t = Itrunc(s, i)
  PROVE  Emptied(s, t, i)
<1>p. PICK u : u = Bfree(s, BlocksOf(s, s.ic[i].d))
  OBVIOUS
<1>q. PICK d : d = [u.ic[i].d EXCEPT !.addrs = NoAddrs, !.size = 0]
  OBVIOUS
<1>r. PICK v : v = PutMem(u, i, d)
  OBVIOUS
<1>1. /\ u \in FsValue /\ u.panic = s.panic /\ u.dinode = s.dinode /\ u.block = s.block /\ u.ic = s.ic
      /\ Freed(s.bitmap, u.bitmap, s.dinode[i], s.block)
  BY <1>p, BfreeIs
<1>2. t = Iupdate(v, i)
  <2>1. v = [u EXCEPT !.ic[i].d = [@ EXCEPT !.addrs = NoAddrs, !.size = 0]]
    BY <1>q, <1>r DEF PutMem, PutSlot
  <2> QED  BY <1>p, <2>1 DEF Itrunc
<1>3. /\ d \in DinodeSet /\ d.size = 0 /\ d.type = Dsk(s, i).type /\ d.nlink = Dsk(s, i).nlink
      /\ \A m \in 0..NDirect : Addr(d, m) = 0
  <2>1. u.ic[i].d = Dsk(s, i) /\ Dsk(s, i) \in DinodeSet
    BY <1>1, SlotIs DEF Mem
  <2>2. d = [Dsk(s, i) EXCEPT !.addrs = NoAddrs, !.size = 0]
    BY <1>q, <2>1
  <2>3. NoAddrs \in [0..NDirect -> DataBlock \cup {0}] /\ \A m \in 0..NDirect : NoAddrs[m] = 0
    BY DEF NoAddrs
  <2>4. d \in DinodeSet /\ d.size = 0 /\ d.type = Dsk(s, i).type /\ d.nlink = Dsk(s, i).nlink /\ d.addrs = NoAddrs
    BY <2>1, <2>2, <2>3 DEF DinodeSet
  <2> QED  BY <2>3, <2>4 DEF Addr
<1>4. /\ v \in FsValue /\ v.panic = u.panic /\ Alike(u, v) /\ SameSlots(u, v, i) /\ Mem(v, i) = d
  BY <1>1, <1>3, <1>r, PutMemIs
<1>5. Ok(v)
  BY <1>1, <1>4 DEF Ok
<1>6. /\ t \in FsValue /\ Ok(t)
      /\ \A j : Slot(t, j) = Slot(v, j) /\ Mem(t, j) = Mem(v, j)
      /\ t.bitmap = v.bitmap /\ t.block = v.block
      /\ Dsk(t, i) = Mem(v, i) /\ \A j \in Inum : j # i => Dsk(t, j) = Dsk(v, j)
  BY <1>2, <1>4, <1>5, IupdateIs
<1>7. /\ Mem(t, i) = Dsk(t, i) /\ Dsk(t, i) = d /\ SameSlots(s, t, i)
      /\ \A j \in Inum : j # i => Dsk(t, j) = Dsk(s, j)
  <2>1. SameSlots(s, u, i)
    BY <1>1 DEF SameSlots, Slot
  <2>2. SameSlots(s, t, i)
    BY <1>4, <1>6, <2>1 DEF SameSlots
  <2>3. \A j \in Inum : Dsk(v, j) = Dsk(s, j)
    BY <1>1, <1>4 DEF Alike, Dsk
  <2> QED  BY <1>4, <1>6, <2>2, <2>3
<1>8. t.block = s.block /\ Freed(s.bitmap, t.bitmap, s.dinode[i], s.block)
  BY <1>1, <1>4, <1>6 DEF Alike
<1>9. \A m \in 0..MaxFile : Place(d, s.block, m) = 0
  BY <1>3, Consts DEF Place
<1>10. Exact(t.dinode, t.bitmap, t.block)
  <2> DEFINE dn == s.dinode
             dn2 == t.dinode
             bm == s.bitmap
             bm2 == t.bitmap
             blk == s.block
  <2>1. Exact(dn, bm, blk) /\ 0 \notin bm
    BY ValueIs, Consts DEF Disk
  <2>2. \A m \in 0..MaxFile : Place(dn2[i], blk, m) = 0
    BY <1>7, <1>9 DEF Dsk
  <2>3. \A j \in Inum : j # i => dn2[j] = dn[j]
    BY <1>7 DEF Dsk
  <2>4. Freed(bm, bm2, dn[i], blk)
    BY <1>8
  <2> HIDE DEF dn, dn2, bm, bm2, blk
  <2>5. Exact(dn2, bm2, blk)
    BY <2>1, <2>2, <2>3, <2>4, ExactFreed
  <2> QED  BY <1>8, <2>5 DEF dn2, bm2, blk
<1>11. ASSUME NEW j \in Inum PROVE Sized(Dsk(t, j), t.block) /\ Kind(j, Dsk(t, j))
  <2>1. CASE j = i
    <3>1. \A m \in 0..MaxFile : ~Needed(m, 0)
      BY Consts DEF Needed, InFile
    <3>2. Sized(d, t.block)
      BY <1>3, <1>8, <1>9, <3>1, Consts DEF Sized
    <3>3. Kind(i, Dsk(s, i))
      BY DEF Disk
    <3>4. Kind(i, d)
      BY <1>3, <3>3 DEF Kind, InUse
    <3> QED  BY <1>7, <2>1, <3>2, <3>4
  <2>2. CASE j # i
    BY <1>7, <1>8, <2>2 DEF Disk
  <2> QED  BY <2>1, <2>2
<1>12. Disk(t)
  BY <1>10, <1>11 DEF Disk
<1>13. \A j \in Inum : j # i => \A pos : Cel(t, j, pos) = Cel(s, j, pos)
  BY <1>7, <1>8 DEF Cel
<1>14. Dsk(t, i).type = Dsk(s, i).type /\ Dsk(t, i).size = 0
  BY <1>3, <1>7
<1> QED  BY <1>6, <1>7, <1>12, <1>13, <1>14 DEF Emptied

-----------------------------------------------------------------------------
(* readi and the directory.                                                *)

\* readi finds each cell before the end of the file.
LEMMA CellAtIs ==
  ASSUME NEW s \in FsValue, Ok(s), Disk(s), NEW i \in Inum, Mem(s, i) = Dsk(s, i),
         NEW pos \in Nat, pos < Dsk(s, i).size
  PROVE  Mapped(s, i, pos) /\ CellAt(s, i, pos) = Cel(s, i, pos) /\ Cel(s, i, pos) \in Cell
<1>n. PICK n : n = pos \div BSize
  OBVIOUS
<1>r. PICK r : r = pos % BSize
  OBVIOUS
<1>1. Dsk(s, i).size \in Nat /\ Sized(Dsk(s, i), s.block) /\ r \in 0..(BSize - 1)
  BY <1>r, SlotIs, DinodeIs, Position DEF Disk
<1>b. PICK b : b = Place(Dsk(s, i), s.block, n)
  OBVIOUS
<1>2. n \in 0..(MaxFile - 1) /\ n \in 0..MaxFile /\ b # 0
  BY <1>1, <1>n, <1>b, CellPlace
<1>3. BmapOld(s, i, n).v = b
  BY <1>2, <1>b, BmapLooks
<1>4. b \in DataBlock
  <2>1. NowExact(s, i) /\ Ref(s, i, i, n) = b
    BY <1>b, AtRest DEF Disk
  <2> QED  BY <1>2, <2>1, RefUsed
<1>5. Cel(s, i, pos) = s.block[b][r]
  BY <1>n, <1>r, <1>b DEF Cel
<1>6. Mapped(s, i, pos)
  BY <1>n, <1>2, <1>3 DEF Mapped, BmapOld
<1>7. CellAt(s, i, pos) = s.block[b][r]
  BY <1>n, <1>r, <1>3 DEF CellAt, BmapOld
<1>8. s.block[b][r] \in Cell
  BY <1>1, <1>4, ValueIs DEF BlockSet
<1> QED  BY <1>5, <1>6, <1>7, <1>8

\* How many cells readi reads.
Reads(size, off, n) == IF off > size THEN 0 ELSE Min({n, size - off})

\* It reads no further than the end.
LEMMA ReadsIs ==
  ASSUME NEW size \in Nat, NEW off \in Nat, NEW n \in Nat
  PROVE  /\ Reads(size, off, n) \in Nat
         /\ \A k \in Nat : k < Reads(size, off, n) => off + k < size
         /\ Reads(size, 0, size) = size
<1>1. CASE off > size
  <2>1. size - 0 = size /\ {size} \in SUBSET Nat /\ {size, size - 0} = {size}
    OBVIOUS
  <2>2. Min({size}) = size
    BY <2>1, MinIs
  <2> QED  BY <1>1, <2>1, <2>2 DEF Reads
<1>2. CASE off <= size
  <2>1. {n, size - off} \in SUBSET Nat
    BY <1>2
  <2>2. Min({n, size - off}) \in {n, size - off} /\ \A m \in {n, size - off} : Min({n, size - off}) <= m
    BY <2>1, MinIs
  <2>3. size - 0 = size /\ {size} \in SUBSET Nat /\ {size, size - 0} = {size}
    OBVIOUS
  <2>4. Min({size}) = size
    BY <2>3, MinIs
  <2>m. PICK m : m = Min({n, size - off})
    OBVIOUS
  <2>5. Reads(size, off, n) = m /\ m \in Nat /\ m <= size - off
    BY <1>2, <2>1, <2>2, <2>m DEF Reads
  <2>6. Reads(size, 0, size) = size
    BY <2>3, <2>4 DEF Reads
  <2> QED  BY <1>2, <2>5, <2>6
<1> QED  BY <1>1, <1>2

\* readi returns what the file has there.
LEMMA ReadiIs ==
  ASSUME NEW s \in FsValue, Ok(s), Disk(s), NEW i \in Inum, Mem(s, i) = Dsk(s, i),
         NEW off \in Nat, NEW n \in Nat, NEW t, NEW v, Gives(Readi(s, i, off, n), t, v),
         NEW m, m = Reads(Dsk(s, i).size, off, n)
  PROVE  /\ t = s /\ m \in Nat /\ v \in Seq(Cell) /\ Len(v) = m
         /\ \A k \in 1..m : v[k] = Cel(s, i, off + k - 1)
         /\ off > Dsk(s, i).size \/ off + m <= Dsk(s, i).size
<1> DEFINE size == Dsk(s, i).size
<1>1. size \in Nat /\ s.ic[i].d.size = size
  BY SlotIs, DinodeIs DEF Mem
<1>2. m \in Nat /\ (\A k \in Nat : k < m => off + k < size)
  BY <1>1, ReadsIs
<1>3. \A k \in 0..(m - 1) : Mapped(s, i, off + k)
  <2> TAKE k \in 0..(m - 1)
  <2>1. off + k \in Nat /\ off + k < size
    BY <1>2
  <2> QED  BY <2>1, CellAtIs
<1>4. ASSUME NEW k \in 1..m
      PROVE  CellAt(s, i, off + k - 1) = Cel(s, i, off + k - 1) /\ CellAt(s, i, off + k - 1) \in Cell
  <2>1. k - 1 \in Nat /\ k - 1 < m /\ off + k - 1 = off + (k - 1)
    BY <1>2
  <2>2. off + k - 1 \in Nat /\ off + k - 1 < size
    BY <1>2, <2>1
  <2> QED  BY <2>2, CellAtIs
<1>5. t = s /\ v = [k \in 1..m |-> CellAt(s, i, off + k - 1)]
  <2>1. Readi(s, i, off, n) = Result(s, [k \in 1..m |-> CellAt(s, i, off + k - 1)])
    <3>1. m = IF off > size THEN 0 ELSE Min({n, size - off})
      BY DEF Reads
    <3> HIDE DEF size
    <3> QED  BY <1>1, <1>3, <3>1, Zenon DEF Readi
  <2> QED  BY <2>1 DEF Gives, Result
<1>6. v \in Seq(Cell) /\ Len(v) = m
  BY <1>2, <1>4, <1>5
<1>7. off > size \/ off + m <= size
  <2>1. CASE m = 0
    BY <1>1, <2>1
  <2>2. CASE m # 0
    <3>1. m - 1 \in Nat /\ m - 1 < m
      BY <1>2, <2>2
    <3> QED  BY <1>1, <1>2, <3>1
  <2> QED  BY <2>1, <2>2
<1> QED  BY <1>2, <1>4, <1>5, <1>6, <1>7

\* The root is the directory.
LEMMA DirIs ==
  ASSUME NEW s, NEW x, Sound(s, x)
  PROVE  /\ s \in FsValue /\ Disk(s) /\ Dsk(s, Root).type = "T_DIR" /\ InUse(s, Root)
         /\ DirSize(s) \in Nat /\ DirSize(s) >= 2 /\ DirSize(s) <= MaxFile * BSize
         /\ \A o \in 0..(DirSize(s) - 1) :
              Ent(s, o).n \in Inum /\ Ent(s, o).n # 0 /\ InUse(s, Ent(s, o).n)
         /\ \A i \in Inum : i # Root => Dsk(s, i).type # "T_DIR"
<1>1. s \in FsValue /\ Disk(s) /\ Dir(s, x)
  BY DEF Sound
<1>2. Dsk(s, Root).type = "T_DIR" /\ InUse(s, Root) /\ (\A i \in Inum : i # Root => Dsk(s, i).type # "T_DIR")
  BY <1>1, Consts DEF Disk, Kind, InUse
<1>3. DirSize(s) \in Nat /\ DirSize(s) >= 2 /\ DirSize(s) <= MaxFile * BSize
  BY <1>1, Consts, SlotIs, DinodeIs DEF DirSize, Dir, Disk, Sized
<1>4. ASSUME NEW o \in 0..(DirSize(s) - 1)
      PROVE  Ent(s, o).n \in Inum /\ Ent(s, o).n # 0 /\ InUse(s, Ent(s, o).n)
  <2>1. CASE o = 0
    BY <1>1, <1>2, <2>1, Consts DEF Dir, Dirent
  <2>2. CASE o = 1
    BY <1>1, <1>2, <2>2, Consts DEF Dir, Dirent
  <2>3. CASE o # 0 /\ o # 1
    <3>1. o \in 2..(DirSize(s) - 1)
      BY <1>3, <2>3
    <3> QED  BY <1>1, <3>1, Consts DEF Dir
  <2> QED  BY <2>1, <2>2, <2>3
<1> QED  BY <1>1, <1>2, <1>3, <1>4

\* dirlookup returns the inode of an entry of that name, or there is none.
LEMMA DirlookupIs ==
  ASSUME NEW s, Ok(s), NEW x, Sound(s, x), Mem(s, Root) = Dsk(s, Root), NEW name,
         NEW t, NEW v, Gives(Dirlookup(s, Root, name), t, v)
  PROVE  \/ t = s /\ v = 0 /\ \A o \in 0..(DirSize(s) - 1) : Ent(s, o).name # name
         \/ \E o \in 0..(DirSize(s) - 1) :
              Ent(s, o).name = name /\ Ent(s, o).n = v /\ t = Iget(s, v) /\ v \in Inum /\ InUse(s, v)
<1> DEFINE size == DirSize(s)
<1>1. /\ s \in FsValue /\ Disk(s) /\ size \in Nat /\ Root \in Inum
      /\ \A o \in 0..(size - 1) : Ent(s, o).n \in Inum /\ Ent(s, o).n # 0 /\ InUse(s, Ent(s, o).n)
      /\ ~(s.ic[Root].d.type # "T_DIR") /\ s.ic[Root].d.size = size
  BY DirIs, Consts DEF Mem, DirSize
<1>r. PICK r : r = Readi(s, Root, 0, size)
  OBVIOUS
<1>e. PICK e : e = r.v
  OBVIOUS
<1>2. r.s = s /\ e \in Seq(Cell) /\ Len(e) = size /\ \A k \in 1..size : e[k] = Ent(s, k - 1)
  <2>1. Gives(Readi(s, Root, 0, size), r.s, e)
    BY <1>r, <1>e DEF Gives
  <2>2. size = Reads(Dsk(s, Root).size, 0, size)
    BY <1>1, ReadsIs DEF DirSize
  <2> HIDE DEF size
  <2>3. /\ r.s = s /\ e \in Seq(Cell) /\ Len(e) = size
        /\ \A k \in 1..size : e[k] = Cel(s, Root, 0 + k - 1)
    BY <1>1, <2>1, <2>2, ReadiIs
  <2>4. \A k \in 1..size : 0 + k - 1 = k - 1
    BY <1>1
  <2> QED  BY <2>3, <2>4 DEF Ent
<1>h. PICK hits : hits = {k \in 1..Len(e) : e[k].n # 0 /\ e[k].name = name}
  OBVIOUS
<1>3. Dirlookup(s, Root, name) =
        IF hits = {} THEN Result(s, 0) ELSE Result(Iget(s, e[Min(hits)].n), e[Min(hits)].n)
  <2> HIDE DEF size
  <2>1. ~(~Ok(r.s))
    BY <1>2
  <2> QED  BY <1>1, <1>2, <1>r, <1>e, <1>h, <2>1 DEF Dirlookup
<1>4. CASE hits = {}
  <2>1. t = s /\ v = 0
    BY <1>3, <1>4 DEF Gives, Result
  <2>2. ASSUME NEW o \in 0..(size - 1), Ent(s, o).name = name PROVE FALSE
    <3>1. o + 1 \in 1..size /\ (o + 1) - 1 = o
      BY <1>1
    <3>2. e[o + 1] = Ent(s, o)
      BY <1>2, <3>1
    <3>3. o + 1 \in hits
      BY <1>1, <1>2, <1>h, <2>2, <3>1, <3>2
    <3> QED  BY <1>4, <3>3
  <2> QED  BY <2>1, <2>2
<1>5. CASE hits # {}
  <2>1. Min(hits) \in hits
    <3>1. hits \in SUBSET Nat
      BY <1>h, <1>1, <1>2
    <3> QED  BY <1>5, <3>1, MinIs
  <2>k. PICK k : k = Min(hits)
    OBVIOUS
  <2>2. t = Iget(s, e[k].n) /\ v = e[k].n
    BY <1>3, <1>5, <2>k DEF Gives, Result
  <2>3. k \in 1..size /\ e[k].name = name /\ e[k] = Ent(s, k - 1)
    BY <1>2, <1>h, <2>1, <2>k
  <2>4. k - 1 \in 0..(size - 1)
    BY <1>1, <2>3
  <2> QED  BY <1>1, <2>2, <2>3, <2>4
<1> QED  BY <1>4, <1>5

\* There is room for one more name while x has none.
LEMMA DirRoom ==
  ASSUME NEW s, NEW x \in Inum, x # Root, Sound(s, x)
  PROVE  DirSize(s) + 1 <= MaxFile * BSize
<1> DEFINE size == DirSize(s)
           S == 2..(size - 1)
           T == (Inum \ {Root}) \ {x}
           f == [o \in S |-> Ent(s, o).n]
<1>1. size \in Nat /\ size >= 2 /\ Dir(s, x)
  BY DirIs DEF Sound
<1>2. \A o \in S : Ent(s, o).n \in T
  BY <1>1 DEF Dir
<1>3. \A o, o2 \in S : f[o] = f[o2] => o = o2
  BY <1>1 DEF Dir
<1>4. IsFiniteSet(S) /\ Cardinality(S) = size - 2
  <2>1. IsFiniteSet(S) /\ Cardinality(S) = IF 2 > size - 1 THEN 0 ELSE (size - 1) - 2 + 1
    BY <1>1, FS_Interval
  <2> QED  BY <1>1, <2>1
<1>5. IsFiniteSet(T) /\ Cardinality(T) = NInodes - 3
  <2>1. IsFiniteSet(Inum) /\ Cardinality(Inum) = NInodes - 1
    <3>1. NInodes - 1 \in Int /\ 1 \in Int /\ ~(1 > NInodes - 1)
      BY Consts
    <3>2. IsFiniteSet(1..(NInodes - 1)) /\ Cardinality(1..(NInodes - 1)) = IF 1 > NInodes - 1 THEN 0 ELSE (NInodes - 1) - 1 + 1
      BY <3>1, FS_Interval
    <3> QED  BY <3>1, <3>2, Consts DEF Inum
  <2>2. IsFiniteSet(Inum \ {Root}) /\ Cardinality(Inum \ {Root}) = NInodes - 2
    <3>1. IsFiniteSet(Inum \ {Root}) /\ Cardinality(Inum \ {Root}) = IF Root \in Inum THEN Cardinality(Inum) - 1 ELSE Cardinality(Inum)
      BY <2>1, FS_RemoveElement
    <3> QED  BY <2>1, <3>1, Consts
  <2>3. IsFiniteSet(T) /\ Cardinality(T) = IF x \in Inum \ {Root} THEN Cardinality(Inum \ {Root}) - 1 ELSE Cardinality(Inum \ {Root})
    BY <2>2, FS_RemoveElement
  <2> QED  BY <2>2, <2>3, Consts
<1> HIDE DEF S, T, f
<1>6. ~(Cardinality(T) < Cardinality(S))
  <2> SUFFICES ASSUME Cardinality(T) < Cardinality(S) PROVE FALSE
    OBVIOUS
  <2>1. f \in [S -> T]
    BY <1>2 DEF f
  <2>2. \E a, b \in S : a # b /\ f[a] = f[b]
    BY <1>4, <1>5, <2>1, FS_PigeonHole
  <2> QED  BY <1>3, <2>2
<1>7. size + 1 <= NInodes
  BY <1>1, <1>4, <1>5, <1>6, Consts
<1>8. NInodes <= MaxFile * BSize
  BY FsAssumption DEF MaxFile, NIndirect
<1> QED  BY <1>1, <1>7, <1>8, Consts

-----------------------------------------------------------------------------
(* New files.                                                              *)

\* File i is the same.
SameCells(s, t, i) ==
  /\ Dsk(t, i).size = Dsk(s, i).size
  /\ \A pos \in Nat : pos < Dsk(s, i).size => Cel(t, i, pos) = Cel(s, i, pos)

\* t is s with a directory entry for i, named so.
Named(s, t, i, name) ==
  /\ \A j \in Inum : (InUse(t, j) <=> InUse(s, j)) /\ (j # Root => SameCells(s, t, j))
  /\ DirSize(t) = DirSize(s) + 1
  /\ \A o \in 0..(DirSize(s) - 1) : Ent(t, o) = Ent(s, o)
  /\ Ent(t, DirSize(s)) = Dirent(i, name)

\* t is s with a new file i that has no name.
Taken(s, t, i) ==
  /\ i \in Inum /\ i # Root /\ ~InUse(s, i) /\ InUse(t, i) /\ Dsk(t, i).size = 0
  /\ t.block = s.block /\ \A j \in Inum : j # i => Dsk(t, j) = Dsk(s, j)

\* t is s with a new file i that has one.
MadeAs(s, t, i, name) ==
  /\ i \in Inum /\ i # Root /\ ~InUse(s, i) /\ InUse(t, i) /\ Dsk(t, i).size = 0
  /\ \A o \in 0..(DirSize(s) - 1) : Ent(s, o).name # name
  /\ \A j \in Inum : j # i => (InUse(t, j) <=> InUse(s, j)) /\ (j # Root => SameCells(s, t, j))
  /\ DirSize(t) = DirSize(s) + 1
  /\ \A o \in 0..(DirSize(s) - 1) : Ent(t, o) = Ent(s, o)
  /\ Ent(t, DirSize(s)) = Dirent(i, name)
Made(s, t, i) == \E name \in Name : MadeAs(s, t, i, name)

\* An entry written behind the end of the directory.
LEMMA NamedIs ==
  ASSUME NEW s, NEW x, Sound(s, x), NEW i, NEW name, NEW e, e = Dirent(i, name),
         NEW t, Written(s, t, Root, DirSize(s), <<e>>)
  PROVE  Named(s, t, i, name)
<1> DEFINE size == DirSize(s)
<1>1. size \in Nat /\ Root \in Inum
  BY DirIs, Consts
<1>2. Len(<<e>>) = 1 /\ <<e>>[1] = e
  OBVIOUS
<1>3. Dsk(t, Root).type = Dsk(s, Root).type /\ \A j \in Inum : j # Root => Dsk(t, j) = Dsk(s, j)
  BY DEF Written
<1>4. DirSize(t) = size + 1
  <2>1. Dsk(t, Root).size = Bigger(Dsk(s, Root).size, size + 1)
    BY <1>2 DEF Written
  <2> QED  BY <1>1, <2>1 DEF Bigger, DirSize
<1>5. ASSUME NEW o \in 0..size
      PROVE  Ent(t, o) = IF o = size THEN e ELSE Ent(s, o)
  <2>1. o \in Nat /\ o < Bigger(Dsk(s, Root).size, size + 1)
    BY <1>1 DEF Bigger, DirSize
  <2>2. Cel(t, Root, o) = IF size <= o /\ o < size + 1 THEN <<e>>[o - size + 1] ELSE Cel(s, Root, o)
    BY <1>2, <2>1 DEF Written
  <2>3. CASE o = size
    <3>1. size <= o /\ o < size + 1 /\ o - size + 1 = 1
      BY <1>1, <2>3
    <3> QED  BY <1>2, <2>2, <2>3, <3>1 DEF Ent
  <2>4. CASE o # size
    <3>1. ~(size <= o /\ o < size + 1)
      BY <1>1, <2>1, <2>4
    <3> QED  BY <2>2, <2>4, <3>1 DEF Ent
  <2> QED  BY <2>3, <2>4
<1>6. \A j \in Inum : (InUse(t, j) <=> InUse(s, j)) /\ (j # Root => SameCells(s, t, j))
  BY <1>3 DEF InUse, SameCells, Written
<1> HIDE DEF size
<1>7. (\A o \in 0..(size - 1) : Ent(t, o) = Ent(s, o)) /\ Ent(t, size) = e
  BY <1>1, <1>5
<1>8. DirSize(s) = size
  BY DEF size
<1> QED  BY <1>4, <1>6, <1>7, <1>8 DEF Named

\* Named does not see the inode cache.
LEMMA NamedAlike ==
  ASSUME NEW s, NEW u, NEW v, NEW t, NEW i, NEW name, Alike(s, u), Named(u, v, i, name), Alike(v, t)
  PROVE  Named(s, t, i, name)
<1>1. /\ \A j : Dsk(u, j) = Dsk(s, j) /\ (InUse(u, j) <=> InUse(s, j))
      /\ \A j, pos : Cel(u, j, pos) = Cel(s, j, pos)
      /\ \A o : Ent(u, o) = Ent(s, o)
      /\ DirSize(u) = DirSize(s)
  BY AlikeIs
<1>2. /\ \A j : Dsk(t, j) = Dsk(v, j) /\ (InUse(t, j) <=> InUse(v, j))
      /\ \A j, pos : Cel(t, j, pos) = Cel(v, j, pos)
      /\ \A o : Ent(t, o) = Ent(v, o)
      /\ DirSize(t) = DirSize(v)
  BY AlikeIs
<1> QED  BY <1>1, <1>2 DEF Named, SameCells

\* ialloc and dirlink make a file with a name.
LEMMA MadeIs ==
  ASSUME NEW s, NEW u, NEW v, NEW t, NEW i, NEW name \in Name, Alike(s, u), Taken(u, v, i), Named(v, t, i, name),
         \A o \in 0..(DirSize(u) - 1) : Ent(u, o).name # name
  PROVE  Made(s, t, i)
<1>1. /\ \A j : Dsk(u, j) = Dsk(s, j) /\ (InUse(u, j) <=> InUse(s, j))
      /\ \A j, pos : Cel(u, j, pos) = Cel(s, j, pos)
      /\ \A o : Ent(u, o) = Ent(s, o)
      /\ DirSize(u) = DirSize(s)
  BY AlikeIs
<1>2. Root \in Inum /\ i \in Inum /\ i # Root
  BY Consts DEF Taken
<1>3. /\ \A j \in Inum : j # i => Dsk(v, j) = Dsk(u, j) /\ (InUse(v, j) <=> InUse(u, j))
      /\ \A j \in Inum : j # i => \A pos : Cel(v, j, pos) = Cel(u, j, pos)
      /\ \A o : Ent(v, o) = Ent(u, o)
      /\ DirSize(v) = DirSize(u)
  <2>1. \A j \in Inum : j # i => Dsk(v, j) = Dsk(u, j)
    BY DEF Taken
  <2>2. v.block = u.block
    BY DEF Taken
  <2>3. \A j \in Inum : j # i => \A pos : Cel(v, j, pos) = Cel(u, j, pos)
    BY <2>1, <2>2 DEF Cel
  <2> QED  BY <1>2, <2>1, <2>3 DEF InUse, Ent, DirSize
<1>4. ~InUse(s, i) /\ InUse(t, i) /\ Dsk(t, i).size = 0
  BY <1>1, <1>2 DEF Taken, Named, SameCells
<1>5. \A o \in 0..(DirSize(s) - 1) : Ent(s, o).name # name /\ Ent(t, o) = Ent(s, o)
  BY <1>1, <1>3 DEF Named
<1>6. DirSize(t) = DirSize(s) + 1 /\ Ent(t, DirSize(s)) = Dirent(i, name)
  BY <1>1, <1>3 DEF Named
<1>7. \A j \in Inum : j # i => (InUse(t, j) <=> InUse(s, j)) /\ (j # Root => SameCells(s, t, j))
  BY <1>1, <1>3 DEF Named, SameCells
<1>8. MadeAs(s, t, i, name)
  BY <1>2, <1>4, <1>5, <1>6, <1>7 DEF MadeAs
<1> QED  BY <1>8 DEF Made

\* Nor does Made.
LEMMA MadeAlike ==
  ASSUME NEW s, NEW v, NEW t, NEW i, Made(s, v, i), Alike(v, t)
  PROVE  Made(s, t, i)
<1>2. /\ \A j : Dsk(t, j) = Dsk(v, j) /\ (InUse(t, j) <=> InUse(v, j))
      /\ \A j, pos : Cel(t, j, pos) = Cel(v, j, pos)
      /\ \A o : Ent(t, o) = Ent(v, o)
      /\ DirSize(t) = DirSize(v)
  BY AlikeIs
<1>3. PICK name \in Name : MadeAs(s, v, i, name)
  BY DEF Made
<1>4. MadeAs(s, t, i, name)
  BY <1>2, <1>3 DEF MadeAs, SameCells
<1> QED  BY <1>4 DEF Made

-----------------------------------------------------------------------------
(* dirlink.                                                                *)

\* The directory after a name for x was written behind its end.
LEMMA Appended ==
  ASSUME NEW s, NEW x \in Inum, x # Root, Sound(s, x), InUse(s, x),
         NEW name, \A o \in 0..(DirSize(s) - 1) : Ent(s, o).name # name,
         NEW e, e = Dirent(x, name), NEW t, Written(s, t, Root, DirSize(s), <<e>>)
  PROVE  Sound(t, 0)
<1> DEFINE size == DirSize(s)
<1>1. size \in Nat /\ size >= 2 /\ Dir(s, x)
  BY DirIs DEF Sound
<1>2. Len(<<e>>) = 1 /\ <<e>>[1] = e /\ e.n = x /\ e.name = name
  BY DEF Dirent
<1>3. /\ t \in FsValue /\ Disk(t) /\ Dsk(t, Root).type = Dsk(s, Root).type
      /\ \A j \in Inum : j # Root => Dsk(t, j) = Dsk(s, j)
  BY DEF Written
<1>4. DirSize(t) = size + 1
  <2>1. Dsk(t, Root).size = Bigger(Dsk(s, Root).size, size + 1)
    BY <1>2 DEF Written
  <2> QED  BY <1>1, <2>1 DEF Bigger, DirSize
<1>5. ASSUME NEW o \in 0..size
      PROVE  Ent(t, o) = IF o = size THEN e ELSE Ent(s, o)
  <2>1. o \in Nat /\ o < Bigger(Dsk(s, Root).size, size + 1)
    BY <1>1 DEF Bigger, DirSize
  <2>2. Cel(t, Root, o) = IF size <= o /\ o < size + 1 THEN <<e>>[o - size + 1] ELSE Cel(s, Root, o)
    BY <1>2, <2>1 DEF Written
  <2>3. CASE o = size
    <3>1. size <= o /\ o < size + 1 /\ o - size + 1 = 1
      BY <1>1, <2>3
    <3> QED  BY <1>2, <2>2, <2>3, <3>1 DEF Ent
  <2>4. CASE o # size
    <3>1. ~(size <= o /\ o < size + 1)
      BY <1>1, <2>1, <2>4
    <3> QED  BY <2>2, <2>4, <3>1 DEF Ent
  <2> QED  BY <2>3, <2>4
<1>6. \A i \in Inum : InUse(t, i) <=> InUse(s, i)
  BY <1>3 DEF InUse
<1> HIDE DEF size
<1>7. (\A o \in 0..(size - 1) : Ent(t, o) = Ent(s, o)) /\ Ent(t, size) = e
      /\ \A o \in 0..size : o \in 0..(size - 1) \/ o = size
  BY <1>1, <1>5
<1>8. size = DirSize(s) /\ (\A o \in 2..(size - 1) : o \in 0..(size - 1) /\ o \in 2..size) /\ size \in 2..size
      /\ 0 \in 0..(size - 1) /\ 1 \in 0..(size - 1) /\ (\A o \in 2..size : o \in 2..(size - 1) \/ o = size)
      /\ DirSize(t) - 1 = size /\ size + 1 >= 2
  BY <1>1, <1>4 DEF size
<1>9. Dir(t, 0)
  <2>1. DirSize(t) >= 2 /\ Ent(t, 0) = Dirent(Root, ".") /\ Ent(t, 1) = Dirent(Root, "..")
    BY <1>1, <1>4, <1>7, <1>8 DEF Dir
  <2>2. ASSUME NEW o \in 0..size, NEW o2 \in 0..size, Ent(t, o).name = Ent(t, o2).name
        PROVE  o = o2
    <3>1. CASE o # size /\ o2 # size
      BY <1>1, <1>7, <1>8, <2>2, <3>1 DEF Dir
    <3>2. CASE o = size \/ o2 = size
      BY <1>2, <1>7, <1>8, <2>2, <3>2
    <3> QED  BY <3>1, <3>2
  <2>3. ASSUME NEW o \in 2..size
        PROVE  Ent(t, o).n \in Inum /\ Ent(t, o).n # Root /\ Ent(t, o).n # 0 /\ InUse(t, Ent(t, o).n)
    <3>1. CASE o = size
      BY <1>2, <1>6, <1>7, <3>1, Consts
    <3>2. CASE o # size
      <4>1. o \in 2..(size - 1) /\ Ent(t, o) = Ent(s, o)
        BY <1>7, <1>8, <3>2
      <4>j. PICK j : j = Ent(s, o).n
        OBVIOUS
      <4>2. j \in Inum /\ j # Root /\ InUse(s, j)
        BY <1>1, <1>8, <4>1, <4>j DEF Dir
      <4> QED  BY <1>6, <4>1, <4>2, <4>j, Consts
    <3> QED  BY <3>1, <3>2
  <2>4. ASSUME NEW o \in 2..size, NEW o2 \in 2..size, Ent(t, o).n = Ent(t, o2).n
        PROVE  o = o2
    <3>1. CASE o # size /\ o2 # size
      BY <1>1, <1>7, <1>8, <2>4, <3>1 DEF Dir
    <3>2. CASE o = size \/ o2 = size
      BY <1>1, <1>2, <1>7, <1>8, <2>4, <3>2 DEF Dir
    <3> QED  BY <3>1, <3>2
  <2>5. ASSUME NEW i \in Inum, i # Root, InUse(t, i)
        PROVE  \E o \in 2..size : Ent(t, o).n = i
    <3>1. CASE i = x
      BY <1>2, <1>7, <1>8, <3>1
    <3>2. CASE i # x
      <4>1. PICK o \in 2..(size - 1) : Ent(s, o).n = i
        BY <1>1, <1>6, <1>8, <2>5, <3>2 DEF Dir
      <4> QED  BY <1>7, <1>8, <4>1
    <3> QED  BY <3>1, <3>2
  <2> QED  BY <1>8, <2>1, <2>2, <2>3, <2>4, <2>5 DEF Dir
<1> QED  BY <1>3, <1>9 DEF Sound

\* dirlink of a new name adds one entry, or the disk is full.
LEMMA DirlinkIs ==
  ASSUME NEW s, Ok(s), NEW x \in Inum, x # Root, Sound(s, x), InUse(s, x), Mem(s, Root) = Dsk(s, Root),
         NEW name \in Name \cup {".", ".."}, \A o \in 0..(DirSize(s) - 1) : Ent(s, o).name # name,
         NEW t, NEW w, Gives(Dirlink(s, Root, name, x), t, w)
  PROVE  \/ Full(t)
         \/ /\ Yes(w) /\ Ok(t) /\ Sound(t, 0) /\ SameSlots(s, t, Root) /\ Mem(t, Root) = Dsk(t, Root)
            /\ \A j \in Inum : j # Root => Dsk(t, j) = Dsk(s, j)
            /\ Named(s, t, x, name)
<1> DEFINE size == DirSize(s)
<1>1. /\ s \in FsValue /\ Disk(s) /\ size \in Nat /\ Root \in Inum /\ InUse(s, Root)
      /\ \A o \in 0..(size - 1) : Ent(s, o).n # 0
      /\ s.ic[Root].d.size = size
  BY DirIs, Consts DEF Mem, DirSize
<1>r. PICK r : r = Dirlookup(s, Root, name)
  OBVIOUS
<1>2. r.s = s /\ r.v = 0
  <2>1. Gives(Dirlookup(s, Root, name), r.s, r.v)
    BY <1>r DEF Gives
  <2> QED  BY <2>1, DirlookupIs
<1>3. {o \in 0..(size - 1) : CellAt(s, Root, o).n = 0} = {}
  <2> SUFFICES ASSUME NEW o \in 0..(size - 1) PROVE CellAt(s, Root, o).n # 0
    OBVIOUS
  <2>1. o \in Nat /\ o < Dsk(s, Root).size
    BY <1>1 DEF DirSize
  <2>2. CellAt(s, Root, o) = Ent(s, o)
    BY <1>1, <2>1, CellAtIs DEF Ent
  <2> QED  BY <1>1, <2>2
<1>e. PICK e : e = Dirent(x, name)
  OBVIOUS
<1>c. PICK cells : cells = <<e>>
  OBVIOUS
<1>w. PICK wr : wr = Writei(s, Root, size, cells)
  OBVIOUS
<1>u. PICK u : u = wr.s
  OBVIOUS
<1>v. PICK v : v = wr.v
  OBVIOUS
<1>p. PICK p : p = Panic(u, "dirlink: write")
  OBVIOUS
<1>4. Dirlink(s, Root, name, x) = IF v THEN wr ELSE Result(p, FALSE)
  <2> HIDE DEF size
  <2>f. PICK free : free = {o \in 0..(s.ic[Root].d.size - 1) : CellAt(s, Root, o).n = 0}
    OBVIOUS
  <2>1. free = {}
    BY <1>1, <1>3, <2>f
  <2>2. Dirlink(s, Root, name, x) =
          LET off == IF free = {} THEN s.ic[Root].d.size ELSE Min(free)
              Wr(a) == IF a.v THEN a ELSE Result(Panic(a.s, "dirlink: write"), FALSE)
              Add(old) == IF ~Ok(old.s) \/ old.v # 0 THEN Result(old.s, FALSE)
                          ELSE Wr(Writei(old.s, Root, off, <<Dirent(x, name)>>))
          IN  Add(Dirlookup(s, Root, name))
    BY <2>f, Zenon DEF Dirlink
  <2>3. ~(~Ok(r.s) \/ r.v # 0) /\ r.s = s
    BY <1>2
  <2>4. Dirlink(s, Root, name, x) = IF wr.v THEN wr ELSE Result(Panic(wr.s, "dirlink: write"), FALSE)
    BY <1>1, <1>r, <1>e, <1>c, <1>w, <2>1, <2>2, <2>3, Zenon
  <2> QED  BY <1>u, <1>v, <1>p, <2>4, Zenon
<1>5. cells \in Seq(Cell) /\ Len(cells) = 1
  <2>1. e \in Cell
    BY <1>e, Consts DEF Dirent, Cell
  <2> QED  BY <1>c, <2>1
<1>6. size + 1 <= MaxFile * BSize
  BY DirRoom
<1>7. Full(u) \/ (Yes(v) /\ Written(s, u, Root, size, cells))
  <2>1. Gives(Writei(s, Root, size, cells), u, v)
    BY <1>w, <1>u, <1>v DEF Gives
  <2>2. size = Dsk(s, Root).size
    BY DEF DirSize
  <2> HIDE DEF size
  <2>3. \/ u = s /\ No(v) /\ (size > Dsk(s, Root).size \/ size + Len(cells) > MaxFile * BSize)
        \/ Full(u)
        \/ Yes(v) /\ size <= Dsk(s, Root).size /\ size + Len(cells) <= MaxFile * BSize /\ Written(s, u, Root, size, cells)
    BY <1>1, <1>5, <2>1, WriteiIs
  <2>4. ~(size > Dsk(s, Root).size \/ size + Len(cells) > MaxFile * BSize)
    BY <1>1, <1>5, <1>6, <2>2, Consts
  <2> QED  BY <2>3, <2>4
<1>9. CASE Full(u)
  <2>1. p = u
    BY <1>p, <1>9 DEF Panic, Full, Ok, NoBlock
  <2>2. t = u
    <3>1. CASE v
      BY <1>4, <1>u, <3>1, Zenon DEF Gives
    <3>2. CASE ~v
      BY <1>4, <2>1, <3>2 DEF Gives, Result
    <3> QED  BY <3>1, <3>2
  <2> QED  BY <1>9, <2>2
<1>10. CASE Yes(v) /\ Written(s, u, Root, size, cells)
  <2>1. t = u /\ Yes(w)
    BY <1>4, <1>u, <1>v, <1>10, Zenon DEF Gives, Yes
  <2>2. Sound(t, 0)
    BY <1>c, <1>e, <1>10, <2>1, Appended
  <2>3. /\ Ok(t) /\ SameSlots(s, t, Root) /\ Mem(t, Root) = Dsk(t, Root)
        /\ \A j \in Inum : j # Root => Dsk(t, j) = Dsk(s, j)
    BY <1>10, <2>1 DEF Written
  <2>4. Named(s, t, x, name)
    BY <1>c, <1>e, <1>10, <2>1, NamedIs
  <2> QED  BY <2>1, <2>2, <2>3, <2>4
<1> QED  BY <1>7, <1>9, <1>10

-----------------------------------------------------------------------------
(* ialloc.                                                                 *)

NewFile == NewDinode("T_FILE")

\* A new file has no blocks.
LEMMA NewFileIs ==
  /\ NewFile \in DinodeSet /\ NewFile.type = "T_FILE" /\ NewFile.nlink = 1 /\ NewFile.size = 0
  /\ \A m \in 0..NDirect : Addr(NewFile, m) = 0
  /\ \A blk : \A m \in 0..MaxFile : Place(NewFile, blk, m) = 0
<1>1. NoAddrs \in [0..NDirect -> DataBlock \cup {0}] /\ \A m \in 0..NDirect : NoAddrs[m] = 0
  BY DEF NoAddrs
<1>2. NewFile \in DinodeSet /\ NewFile.type = "T_FILE" /\ NewFile.nlink = 1 /\ NewFile.size = 0
      /\ NewFile.addrs = NoAddrs
  BY <1>1 DEF NewFile, NewDinode, DinodeSet
<1>3. \A m \in 0..NDirect : Addr(NewFile, m) = 0
  BY <1>1, <1>2 DEF Addr
<1>4. \A blk : \A m \in 0..MaxFile : Place(NewFile, blk, m) = 0
  BY <1>3, Consts DEF Place
<1> QED  BY <1>2, <1>3, <1>4

SetDinode(s, i, d) == [s EXCEPT !.dinode[i] = d]

\* A free inode made a file.
LEMMA MadeFile ==
  ASSUME NEW s, Sound(s, 0), NEW i \in Inum, ~InUse(s, i), NEW t, t = SetDinode(s, i, NewFile)
  PROVE  /\ Sound(t, i) /\ t.panic = s.panic /\ i # Root
         /\ \A j : Slot(t, j) = Slot(s, j) /\ Mem(t, j) = Mem(s, j)
         /\ Dsk(t, i) = NewFile /\ \A j \in Inum : j # i => Dsk(t, j) = Dsk(s, j)
         /\ t.block = s.block
<1> DEFINE u == [s.dinode EXCEPT ![i] = NewFile]
<1>0. /\ s \in FsValue /\ Disk(s) /\ InUse(s, Root) /\ Dir(s, 0) /\ DirSize(s) \in Nat /\ DirSize(s) >= 2
      /\ Root \in Inum /\ i # Root /\ 0 \notin Inum
      /\ \A o \in 0..(DirSize(s) - 1) : Ent(s, o).n \in Inum /\ Ent(s, o).n # 0 /\ InUse(s, Ent(s, o).n)
  BY DirIs, Consts DEF Sound
<1>1. t = [s EXCEPT !.dinode = u]
  BY DEF SetDinode
<1>2. s.dinode \in [Inum -> DinodeSet] /\ NewFile \in DinodeSet
  BY <1>0, NewFileIs DEF FsValue
<1>3. u \in [Inum -> DinodeSet] /\ u[i] = NewFile /\ \A j \in Inum : j # i => u[j] = Dsk(s, j)
  BY <1>2 DEF Dsk
<1> HIDE DEF u
<1>4. /\ t \in FsValue /\ t.panic = s.panic /\ t.dinode = u
      /\ t.ic = s.ic /\ t.bitmap = s.bitmap /\ t.block = s.block
  BY <1>0, <1>1, <1>3 DEF FsValue
<1>5. /\ \A j : Slot(t, j) = Slot(s, j) /\ Mem(t, j) = Mem(s, j)
      /\ Dsk(t, i) = NewFile /\ \A j \in Inum : j # i => Dsk(t, j) = Dsk(s, j)
  BY <1>3, <1>4 DEF Slot, Mem, Dsk
<1>6. Exact(t.dinode, t.bitmap, t.block)
  <2> DEFINE dn == s.dinode
             dn2 == t.dinode
             bm == s.bitmap
             blk == s.block
  <2>1. Exact(dn, bm, blk)
    BY <1>0 DEF Disk
  <2>2. ASSUME NEW j \in Inum, NEW n \in 0..MaxFile
        PROVE  Place(dn2[j], blk, n) = Place(dn[j], blk, n)
    <3>1. CASE j = i
      <4>1. Sized(Dsk(s, i), s.block) /\ Dsk(s, i).size = 0
        BY <1>0 DEF Disk, Kind, InUse
      <4>2. ~Needed(n, 0)
        BY Consts DEF Needed, InFile
      <4>3. Place(dn[i], blk, n) = 0
        BY <4>1, <4>2 DEF Sized, Dsk
      <4>4. Place(dn2[i], blk, n) = 0
        BY <1>5, NewFileIs DEF Dsk
      <4> QED  BY <3>1, <4>3, <4>4
    <3>2. CASE j # i
      BY <1>5, <3>2 DEF Dsk
    <3> QED  BY <3>1, <3>2
  <2> HIDE DEF dn, dn2, bm, blk
  <2>3. Exact(dn2, bm, blk)
    BY <2>1, <2>2, ExactSame
  <2> QED  BY <1>4, <2>3 DEF dn2, bm, blk
<1>7. ASSUME NEW j \in Inum PROVE Sized(Dsk(t, j), t.block) /\ Kind(j, Dsk(t, j))
  <2>1. CASE j = i
    <3>1. \A m \in 0..MaxFile : ~Needed(m, 0)
      BY Consts DEF Needed, InFile
    <3>2. Sized(NewFile, t.block)
      BY <3>1, NewFileIs, Consts DEF Sized
    <3>3. Kind(i, NewFile)
      BY <1>0, NewFileIs DEF Kind
    <3> QED  BY <1>5, <2>1, <3>2, <3>3
  <2>2. CASE j # i
    BY <1>0, <1>4, <1>5, <2>2 DEF Disk
  <2> QED  BY <2>1, <2>2
<1>8. Dir(t, i)
  <2>1. DirSize(t) = DirSize(s) /\ \A o : Ent(t, o) = Ent(s, o)
    BY <1>0, <1>4, <1>5 DEF DirSize, Ent, Cel
  <2>2. \A j \in Inum : j # i => (InUse(t, j) <=> InUse(s, j))
    BY <1>5 DEF InUse
  <2>3. \A o \in 2..(DirSize(s) - 1) : Ent(s, o).n \in Inum /\ Ent(s, o).n # i /\ InUse(t, Ent(s, o).n)
    <3> TAKE o \in 2..(DirSize(s) - 1)
    <3>1. o \in 0..(DirSize(s) - 1)
      BY <1>0
    <3>2. Ent(s, o).n \in Inum /\ InUse(s, Ent(s, o).n)
      BY <1>0, <3>1
    <3> QED  BY <2>2, <3>2
  <2>4. \A j \in Inum : j # Root /\ j # i /\ InUse(t, j) => \E o \in 2..(DirSize(s) - 1) : Ent(s, o).n = j
    BY <1>0, <2>2 DEF Dir
  <2> QED  BY <1>0, <2>1, <2>3, <2>4 DEF Dir
<1> QED  BY <1>0, <1>4, <1>5, <1>6, <1>7, <1>8 DEF Sound, Disk

\* What ialloc leaves when there is no free inode.
NoneFree(s, t) == t \in FsValue /\ t.panic = NoInodes /\ \A i \in Inum : InUse(s, i)

IallocFile(s) == Ialloc(s, "T_FILE")

\* ialloc makes a file of an inode in no use, or there is none.
LEMMA IallocIs ==
  ASSUME NEW s0, NEW s, NEW B, Kept(s0, s, 0, B, Root, 0, Root, 0), Few(B),
         NEW t, NEW i, Gives(IallocFile(s), t, i)
  PROVE  \/ NoneFree(s, t)
         \/ /\ i \in Inum /\ i # Root /\ Kept(t, t, i, B, Root, i, Root, 0) /\ InUse(t, i)
            /\ DirSize(t) = DirSize(s) /\ (\A o : Ent(t, o) = Ent(s, o)) /\ Taken(s, t, i)
<1>0. Sound(s, 0) /\ Ok(s) /\ s \in FsValue /\ Slots(s, B, Root, 0, Root, 0) /\ Root \in Inum
  BY Consts DEF Kept, Sound
<1>f. PICK free : free = {j \in Inum : s.dinode[j].type = "T_UNUSED"}
  OBVIOUS
<1>m. PICK m : m = Min(free)
  OBVIOUS
<1>u. PICK u : u = SetDinode(s, m, NewFile)
  OBVIOUS
<1>v. PICK v : v = Iget(u, m)
  OBVIOUS
<1>d. PICK d : d = [v.ic[m].d EXCEPT !.type = "T_FILE", !.nlink = 1]
  OBVIOUS
<1>w. PICK w : w = PutMem(v, m, d)
  OBVIOUS
<1>p. PICK p : p = Panic(s, NoInodes)
  OBVIOUS
<1>1. IallocFile(s) = IF free = {} THEN Result(p, 0) ELSE Result(w, m)
  <2>1. w = [v EXCEPT !.ic[m].d = [@ EXCEPT !.type = "T_FILE", !.nlink = 1]]
    BY <1>w, <1>d DEF PutMem, PutSlot
  <2>2. IallocFile(s) = IF free = {} THEN Result(Panic(s, NoInodes), 0)
                        ELSE Result([v EXCEPT !.ic[m].d = [@ EXCEPT !.type = "T_FILE", !.nlink = 1]], m)
    BY <1>0, <1>f, <1>m, <1>u, <1>v DEF IallocFile, Ialloc, NoInodes, SetDinode, NewFile
  <2> QED  BY <1>p, <2>1, <2>2
<1>2. CASE free = {}
  <2>1. t = p
    BY <1>1, <1>2 DEF Gives, Result
  <2>2. NoInodes \in PanicSet
    BY DEF NoInodes, PanicSet
  <2>3. p \in FsValue /\ p.panic = NoInodes
    BY <1>0, <1>p, <2>2, PanicIs
  <2>4. \A j \in Inum : InUse(s, j)
    BY <1>2, <1>f DEF InUse, Dsk
  <2> QED  BY <2>1, <2>3, <2>4 DEF NoneFree
<1>3. CASE free # {}
  <2>1. m \in free
    <3>1. free \in SUBSET Nat
      BY <1>f, Consts
    <3> QED  BY <1>3, <1>m, <3>1, MinIs
  <2>2. m \in Inum /\ ~InUse(s, m)
    BY <1>f, <2>1 DEF InUse, Dsk
  <2>3. t = w /\ i = m
    BY <1>1, <1>3 DEF Gives, Result
  <2>4. /\ Sound(u, m) /\ u.panic = s.panic /\ m # Root
        /\ \A j : Slot(u, j) = Slot(s, j) /\ Mem(u, j) = Mem(s, j)
        /\ Dsk(u, m) = NewFile /\ \A j \in Inum : j # m => Dsk(u, j) = Dsk(s, j)
        /\ u.block = s.block
    BY <1>0, <1>u, <2>2, MadeFile
  <2>5. InUse(u, m) /\ \A j \in Inum : j # m => (InUse(u, j) <=> InUse(s, j))
    BY <2>4, NewFileIs DEF InUse
  <2>6. Slots(u, B, 0, Root, Root, 0)
    <3>1. ASSUME NEW j \in Inum
          PROVE  /\ Slot(u, j).ref = Held(B, 0, Root, j)
                 /\ Slot(u, j).locked <=> j = Root \/ j = 0
                 /\ Slot(u, j).locked => Slot(u, j).valid
                 /\ Slot(u, j).valid => Slot(u, j).ref > 0 /\ Mem(u, j) = Dsk(u, j)
                 /\ Slot(u, j).ref > 0 => InUse(u, j)
      <4>1. Held(B, 0, Root, j) = Held(B, Root, 0, j)
        BY <1>0, Consts DEF Held, Slots
      <4>2. CASE j = m
        <5>1. ~(Slot(s, m).ref > 0)
          BY <1>0, <2>2 DEF Slots
        <5> QED  BY <1>0, <2>2, <2>4, <2>5, <4>1, <4>2, <5>1 DEF Slots
      <4>3. CASE j # m
        BY <1>0, <2>4, <2>5, <4>1, <4>3 DEF Slots
      <4> QED  BY <4>2, <4>3
    <3> QED  BY <1>0, <3>1 DEF Slots
  <2>7. Kept(u, u, m, B, 0, Root, Root, 0)
    BY <1>0, <2>4, <2>6 DEF Kept, Alike, Ok
  <2>8. Kept(u, v, m, B, m, Root, Root, 0)
    BY <1>v, <2>2, <2>5, <2>7, IgetIs
  <2>9. /\ v \in FsValue /\ Ok(v) /\ Sound(v, m) /\ Alike(u, v) /\ Slots(v, B, m, Root, Root, 0)
        /\ Slot(v, m).ref \in Nat /\ Slot(v, m).d = Mem(v, m) /\ Mem(v, m) \in DinodeSet
        /\ Slot(v, m).ref = Held(B, m, Root, m) /\ (Slot(v, m).locked <=> m = Root \/ m = 0)
        /\ (Slot(v, m).locked => Slot(v, m).valid)
        /\ (Slot(v, m).valid => Slot(v, m).ref > 0 /\ Mem(v, m) = Dsk(v, m))
    <3>1. v \in FsValue
      BY <2>2, <2>8, SlotOf
    <3> QED  BY <2>2, <2>8, <3>1, SlotOf, SlotIs DEF Kept
  <2>10. Dsk(v, m) = NewFile /\ InUse(v, m) /\ Dsk(v, Root) = Dsk(s, Root) /\ v.block = s.block
    BY <1>0, <2>4, <2>5, <2>9, AlikeIs DEF Alike
  <2>11. d \in DinodeSet /\ (Slot(v, m).valid => d = NewFile)
    <3>1. d = [Mem(v, m) EXCEPT !.type = "T_FILE", !.nlink = 1]
      BY <1>d DEF Mem
    <3>2. d \in DinodeSet
      BY <2>9, <3>1 DEF DinodeSet
    <3>3. ASSUME Slot(v, m).valid PROVE d = NewFile
      <4>1. Mem(v, m) = NewFile
        BY <2>9, <2>10, <3>3
      <4>2. d = [NewFile EXCEPT !.type = "T_FILE", !.nlink = 1] /\ NewFile \in DinodeSet
        BY <3>1, <4>1, NewFileIs
      <4>3. d.type = "T_FILE" /\ d.nlink = 1 /\ d.size = NewFile.size /\ d.addrs = NewFile.addrs
        BY <4>2 DEF DinodeSet
      <4>4. \A k \in 0..NDirect : Addr(d, k) = Addr(NewFile, k)
        BY <4>3 DEF Addr
      <4> QED  BY <3>2, <4>3, <4>4, NewFileIs, DinodeEqual
    <3> QED  BY <3>2, <3>3
  <2>c. PICK c : c = [v.ic[m] EXCEPT !.d = d]
    OBVIOUS
  <2>12. w = PutSlot(v, m, c)
    BY <1>w, <2>c DEF PutMem
  <2>13. /\ c \in SlotSet /\ c.d = d /\ c.ref = Slot(v, m).ref /\ c.locked = Slot(v, m).locked
         /\ c.valid = Slot(v, m).valid
    <3>1. v.ic[m] \in SlotSet /\ Slot(v, m) = v.ic[m]
      BY <2>2, <2>9 DEF FsValue, Slot
    <3> QED  BY <2>c, <2>11, <3>1 DEF SlotSet
  <2>14. w \in FsValue /\ w.panic = v.panic /\ Alike(v, w)
    BY <2>2, <2>9, <2>12, <2>13, PutSlotIs
  <2>15. Slots(w, B, m, Root, Root, 0)
    <3>1. m \in Inum \cup {0} /\ Root \in Inum \cup {0} /\ 0 \in Inum \cup {0}
      BY <1>0, <2>2
    <3>2. c.ref = Held(B, m, Root, m) /\ (c.locked <=> m = Root \/ m = 0) /\ (c.locked => c.valid)
          /\ (c.valid => c.ref > 0 /\ c.d = Dsk(v, m)) /\ (c.ref > 0 => InUse(v, m))
      BY <2>9, <2>10, <2>11, <2>13
    <3> QED  BY <2>2, <2>9, <2>12, <2>13, <3>1, <3>2, SlotsMoved
  <2>16. Kept(w, w, m, B, m, Root, Root, 0)
    <3>1. Sound(w, m)
      BY <2>9, <2>14, SoundAlike
    <3> QED  BY <2>9, <2>14, <2>15, <3>1 DEF Kept, Alike, Ok
  <2>17. Kept(w, w, m, B, Root, m, Root, 0)
    BY <2>16, Swapped
  <2>18. InUse(w, m) /\ DirSize(w) = DirSize(s) /\ \A o : Ent(w, o) = Ent(s, o)
    <3>1. InUse(w, m) /\ Dsk(w, Root) = Dsk(s, Root) /\ w.block = s.block
      BY <2>10, <2>14, AlikeIs DEF Alike
    <3> QED  BY <3>1 DEF DirSize, Ent, Cel
  <2>19. Taken(s, w, m)
    <3>1. \A j \in Inum : Dsk(w, j) = Dsk(u, j)
      BY <2>9, <2>14, AlikeIs
    <3>2. w.block = s.block
      BY <2>10, <2>14 DEF Alike
    <3> QED  BY <2>2, <2>4, <2>18, <3>1, <3>2, NewFileIs DEF Taken
  <2> QED  BY <2>2, <2>3, <2>4, <2>17, <2>18, <2>19
<1> QED  BY <1>2, <1>3

-----------------------------------------------------------------------------
(* namex.                                                                  *)

\* namex stands before inode r.v, or has stopped with it (0 for none).
Walked(s, B, r, parent) ==
  /\ ~r.stop => r.v \in Inum /\ Kept(s, r.s, 0, B, r.v, 0, 0, 0)
  /\ r.stop => \/ r.v = 0 /\ Kept(s, r.s, 0, B, 0, 0, 0, 0)
               \/ r.v = Root /\ parent /\ Kept(s, r.s, 0, B, Root, 0, 0, 0)

\* iunlock and iput.
LEMMA LeaveIs ==
  ASSUME NEW s, NEW t, NEW B, NEW i \in Inum, NEW q, NEW b, i # b, Kept(s, t, 0, B, i, q, i, b),
         NEW u, u = Iput(Iunlock(t, i), i)
  PROVE  Kept(s, u, 0, B, 0, q, 0, b)
<1>v. PICK v : v = Iunlock(t, i)
  OBVIOUS
<1>1. i # 0
  BY Consts
<1>2. Kept(s, v, 0, B, i, q, 0, b)
  BY <1>1, <1>v, IunlockIs
<1> QED  BY <1>1, <1>2, <1>v, IputIs

\* A round of namex leaves the reference and the lock of the one before.
LEMMA WalkIs ==
  ASSUME NEW s, NEW B, NEW r, NEW parent, Walked(s, B, r, parent), Few(B), NEW path, NEW k,
         NEW z, z = Walk(r, path, parent, k)
  PROVE  Walked(s, B, z, parent)
<1>1. CASE r.stop
  BY <1>1 DEF Walk
<1>2. CASE ~r.stop
  <2>i. PICK i : i = r.v
    OBVIOUS
  <2>r. PICK rs : rs = r.s
    OBVIOUS
  <2>t. PICK t : t = Ilock(rs, i)
    OBVIOUS
  <2>n. PICK n : n = Dirlookup(t, i, path.elems[k])
    OBVIOUS
  <2>u. PICK u : u = n.s
    OBVIOUS
  <2>v. PICK v : v = n.v
    OBVIOUS
  <2>x. PICK left : left = Iput(Iunlock(t, i), i)
    OBVIOUS
  <2>y. PICK next : next = Iput(Iunlock(u, i), i)
    OBVIOUS
  <2>z. PICK kept : kept = Iunlock(t, i)
    OBVIOUS
  <2>c. PICK c : c = (v = 0 \/ ~Ok(u))
    OBVIOUS
  <2>1. z = IF Ok(t) /\ t.ic[i].d.type # "T_DIR" THEN [s |-> left, v |-> 0, stop |-> TRUE]
            ELSE IF parent /\ k = Len(path.elems) THEN [s |-> kept, v |-> i, stop |-> TRUE]
            ELSE [s |-> next, v |-> v, stop |-> c]
    <3>1. z = IF Ok(t) /\ t.ic[i].d.type # "T_DIR" THEN [s |-> left, v |-> 0, stop |-> TRUE]
              ELSE IF parent /\ k = Len(path.elems) THEN [s |-> kept, v |-> i, stop |-> TRUE]
              ELSE [s |-> next, v |-> v, stop |-> v = 0 \/ ~Ok(u)]
      BY <1>2, <2>i, <2>r, <2>t, <2>n, <2>u, <2>v, <2>x, <2>y, <2>z, Zenon DEF Walk
    <3> QED  BY <2>c, <3>1, Zenon
  <2>2. i \in Inum /\ Kept(s, rs, 0, B, i, 0, 0, 0)
    BY <1>2, <2>i, <2>r DEF Walked
  <2>3. i # 0 /\ Held(B, i, 0, i) > 0
    <3>1. i # 0 /\ B[i] \in Nat
      BY <2>2, SlotOf
    <3> QED  BY <3>1 DEF Held
  <2>4. Kept(s, t, 0, B, i, 0, i, 0)
    BY <2>2, <2>3, <2>t, IlockIs
  <2>5. t \in FsValue /\ Ok(t) /\ Sound(t, 0) /\ Mem(t, i) = Dsk(t, i)
    <3>1. Slot(t, i).locked /\ Slot(t, i).valid
      BY <2>2, <2>4, SlotOf
    <3>2. t \in FsValue /\ Ok(t) /\ Mem(t, i) = Dsk(t, i)
      BY <2>2, <2>4, <3>1, SlotOf
    <3> QED  BY <2>4, <3>2 DEF Kept
  <2>6. t.ic[i].d = Dsk(t, i)
    BY <2>5 DEF Mem
  <2>7. Kept(s, left, 0, B, 0, 0, 0, 0)
    BY <2>2, <2>3, <2>4, <2>x, LeaveIs
  <2>8. CASE t.ic[i].d.type # "T_DIR"
    <3>1. z = [s |-> left, v |-> 0, stop |-> TRUE]
      BY <2>1, <2>5, <2>8, Zenon
    <3>2. z.s = left /\ z.v = 0 /\ z.stop
      BY <3>1
    <3> QED  BY <2>7, <3>2 DEF Walked
  <2>9. CASE t.ic[i].d.type = "T_DIR"
    <3>1. i = Root
      BY <2>2, <2>5, <2>6, <2>9, DirIs
    <3>2. CASE parent /\ k = Len(path.elems)
      <4>1. z = [s |-> kept, v |-> i, stop |-> TRUE]
        BY <2>1, <2>9, <3>2, Zenon
      <4>2. z.s = kept /\ z.v = i /\ z.stop
        BY <4>1
      <4>3. Kept(s, kept, 0, B, i, 0, 0, 0)
        BY <2>2, <2>3, <2>4, <2>z, IunlockIs
      <4> QED  BY <3>1, <3>2, <4>2, <4>3 DEF Walked
    <3>3. CASE ~(parent /\ k = Len(path.elems))
      <4>1. z = [s |-> next, v |-> v, stop |-> c]
        BY <2>1, <2>9, <3>3, Zenon
      <4>2. z.s = next /\ z.v = v /\ (z.stop <=> (v = 0 \/ ~Ok(u)))
        <5>1. z.s = next /\ z.v = v /\ z.stop = c
          BY <4>1
        <5> QED  BY <2>c, <5>1, Zenon
      <4>d. PICK name : name = path.elems[k]
        OBVIOUS
      <4>3. \/ u = t /\ v = 0
            \/ u = Iget(t, v) /\ v \in Inum /\ InUse(t, v)
        <5>1. Gives(Dirlookup(t, Root, name), u, v)
          BY <2>n, <2>u, <2>v, <3>1, <4>d DEF Gives
        <5> QED  BY <2>5, <3>1, <5>1, DirlookupIs
      <4>4. CASE u = t /\ v = 0
        <5>1. next = left
          BY <2>x, <2>y, <4>4
        <5> QED  BY <2>7, <4>2, <4>4, <5>1 DEF Walked
      <4>5. CASE u = Iget(t, v) /\ v \in Inum /\ InUse(t, v)
        <5>1. Kept(s, t, 0, B, 0, i, i, 0)
          BY <2>4, Swapped
        <5>2. Kept(s, u, 0, B, v, i, i, 0)
          BY <4>5, <5>1, IgetIs
        <5>3. Kept(s, u, 0, B, i, v, i, 0)
          BY <5>2, Swapped
        <5>4. Kept(s, next, 0, B, 0, v, 0, 0)
          BY <2>2, <2>3, <2>y, <5>3, LeaveIs
        <5>5. Kept(s, next, 0, B, v, 0, 0, 0)
          BY <5>4, Swapped
        <5>6. Ok(u) /\ v # 0
          BY <4>5, <5>2, SlotOf
        <5> QED  BY <4>2, <4>5, <5>5, <5>6 DEF Walked
      <4> QED  BY <4>3, <4>4, <4>5
    <3> QED  BY <3>2, <3>3
  <2> QED  BY <2>8, <2>9
<1> QED  BY <1>1, <1>2

StartAt(s) == [s |-> Iget(s, Root), v |-> Root, stop |-> FALSE]

\* The results that the loop of namex goes through.
Walks(f, s, path, parent, m) ==
  f = [k \in 0..m |-> IF k = 0 THEN StartAt(s) ELSE Walk(f[k - 1], path, parent, k)]

\* The rounds of namex, as a function.
LEMMA WalksExist ==
  ASSUME NEW s, NEW path, NEW parent, NEW n \in Nat
  PROVE  \E f : Walks(f, s, path, parent, n)
<1> DEFINE Missing == {m \in Nat : ~ \E f : Walks(f, s, path, parent, m)}
<1> SUFFICES ASSUME Missing # {} PROVE FALSE
  OBVIOUS
<1>1. PICK m \in Missing : \A l \in Missing : m <= l
  BY MinIs
<1>2. m # 0
  <2> DEFINE f == [k \in 0..0 |-> StartAt(s)]
  <2>1. f = [k \in 0..0 |-> IF k = 0 THEN StartAt(s) ELSE Walk(f[k - 1], path, parent, k)]
    OBVIOUS
  <2> HIDE DEF f
  <2>2. Walks(f, s, path, parent, 0)
    BY <2>1 DEF Walks
  <2> QED  BY <1>1, <2>2
<1>3. m - 1 \in Nat /\ m - 1 \notin Missing
  BY <1>1, <1>2
<1>4. PICK f : Walks(f, s, path, parent, m - 1)
  BY <1>3
<1> DEFINE g == [k \in 0..m |-> IF k = m THEN Walk(f[m - 1], path, parent, m) ELSE f[k]]
<1>5. \A k \in 0..(m - 1) : g[k] = f[k]
  BY <1>1
<1>6. ASSUME NEW k \in 0..m
      PROVE  g[k] = IF k = 0 THEN StartAt(s) ELSE Walk(g[k - 1], path, parent, k)
  <2>1. CASE k = m
    BY <1>2, <1>3, <1>5, <2>1
  <2>2. CASE k # m
    <3>1. k \in 0..(m - 1) /\ (k # 0 => k - 1 \in 0..(m - 1))
      BY <1>1, <2>2
    <3>2. f[k] = IF k = 0 THEN StartAt(s) ELSE Walk(f[k - 1], path, parent, k)
      BY <1>4, <3>1 DEF Walks
    <3> QED  BY <1>5, <3>1, <3>2
  <2> QED  BY <2>1, <2>2
<1>7. g = [k \in 0..m |-> g[k]]
  OBVIOUS
<1> HIDE DEF g
<1>8. Walks(g, s, path, parent, m)
  BY <1>6, <1>7, Zenon DEF Walks
<1> QED  BY <1>1, <1>8

\* namex of a path that is not empty.
LEMMA NamexIs ==
  ASSUME NEW s0, NEW s, NEW B, Kept(s0, s, 0, B, 0, 0, 0, 0), Few(B), NEW parent,
         NEW path, ~path.empty, Len(path.elems) \in Nat, NEW t, NEW v, Gives(Namex(s, path, parent), t, v)
  PROVE  \/ v = 0 /\ Kept(s0, t, 0, B, 0, 0, 0, 0)
         \/ v \in Inum /\ Kept(s0, t, 0, B, v, 0, 0, 0) /\ (parent => v = Root /\ Len(path.elems) # 0)
<1> DEFINE n == Len(path.elems)
           f == CHOOSE g : Walks(g, s, path, parent, n)
<1>e. PICK end : end = f[n]
  OBVIOUS
<1>x. PICK put : put = Iput(end.s, end.v)
  OBVIOUS
<1>1. Namex(s, path, parent) =
        IF end.stop \/ ~parent THEN Result(end.s, end.v) ELSE Result(put, 0)
  <2>1. Namex(s, path, parent) =
          IF f[n].stop \/ ~parent THEN Result(f[n].s, f[n].v) ELSE Result(Iput(f[n].s, f[n].v), 0)
    BY DEF Namex, Walks, StartAt
  <2> HIDE DEF f
  <2> QED  BY <1>e, <1>x, <2>1, Zenon
<1>2. Walks(f, s, path, parent, n)
  BY WalksExist
<1> HIDE DEF f
<1>3. f[0] = StartAt(s) /\ \A k \in 0..(n - 1) : f[k + 1] = Walk(f[k], path, parent, k + 1)
  BY <1>2 DEF Walks
<1>4. Walked(s0, B, f[0], parent)
  <2>1. Root \in Inum /\ InUse(s, Root)
    BY DirIs, Consts DEF Kept
  <2>g. PICK g : g = Iget(s, Root)
    OBVIOUS
  <2>2. Kept(s0, g, 0, B, Root, 0, 0, 0)
    BY <2>1, <2>g, IgetIs
  <2>3. f[0].s = g /\ f[0].v = Root /\ ~f[0].stop
    BY <1>3, <2>g DEF StartAt
  <2> QED  BY <2>1, <2>2, <2>3 DEF Walked
<1> DEFINE Wrong == {k \in 0..n : ~Walked(s0, B, f[k], parent)}
<1>5. Wrong = {}
  <2> SUFFICES ASSUME Wrong # {} PROVE FALSE
    OBVIOUS
  <2>0. Wrong \in SUBSET Nat
    OBVIOUS
  <2>1. PICK k \in Wrong : \A l \in Wrong : k <= l
    BY <2>0, MinIs
  <2>2. k # 0
    BY <1>4, <2>1
  <2>3. PICK m \in 0..(n - 1) : k = m + 1
    <3>1. k - 1 \in 0..(n - 1) /\ k = (k - 1) + 1
      BY <2>1, <2>2
    <3> QED  BY <3>1
  <2>4. m \in 0..n /\ m \notin Wrong
    BY <2>1, <2>3
  <2>r. PICK r : r = f[m]
    OBVIOUS
  <2>z. PICK z : z = f[k]
    OBVIOUS
  <2>5. z = Walk(r, path, parent, k)
    BY <1>3, <2>3, <2>r, <2>z
  <2>6. Walked(s0, B, r, parent)
    BY <2>4, <2>r
  <2>7. Walked(s0, B, z, parent)
    BY <2>5, <2>6, WalkIs
  <2> QED  BY <2>1, <2>7, <2>z
<1>6. Walked(s0, B, end, parent)
  <2>1. n \in 0..n
    OBVIOUS
  <2> QED  BY <1>5, <1>e, <2>1
<1>7. CASE end.stop \/ ~parent
  <2>1. t = end.s /\ v = end.v
    BY <1>1, <1>7 DEF Gives, Result
  <2>2. CASE end.stop
    <3>1. n # 0
      BY <1>3, <1>e, <2>2 DEF StartAt
    <3> QED  BY <1>6, <2>1, <2>2, <3>1, Consts DEF Walked
  <2>3. CASE ~end.stop
    <3>1. ~parent
      BY <1>7, <2>3
    <3> QED  BY <1>6, <2>1, <2>3, <3>1 DEF Walked
  <2> QED  BY <2>2, <2>3
<1>8. CASE ~(end.stop \/ ~parent)
  <2>1. t = put /\ v = 0
    BY <1>1, <1>8 DEF Gives, Result
  <2>i. PICK i : i = end.v
    OBVIOUS
  <2>u. PICK u : u = end.s
    OBVIOUS
  <2>2. i \in Inum /\ Kept(s0, u, 0, B, i, 0, 0, 0)
    BY <1>6, <1>8, <2>i, <2>u DEF Walked
  <2>3. i # 0 /\ put = Iput(u, i)
    BY <1>x, <2>2, <2>i, <2>u, Consts
  <2>4. Kept(s0, put, 0, B, 0, 0, 0, 0)
    BY <2>2, <2>3, IputIs
  <2> QED  BY <2>1, <2>4
<1> QED  BY <1>7, <1>8

-----------------------------------------------------------------------------
(* create.                                                                 *)

\* What holds after a call holds before the next ...
LEMMA KeptSelf ==
  ASSUME NEW s, NEW t, NEW x, NEW B, NEW p, NEW q, NEW a, NEW b, Kept(s, t, x, B, p, q, a, b)
  PROVE  Kept(t, t, x, B, p, q, a, b)
BY DEF Kept, Alike

\* ... and this is what it says.
LEMMA KeptIs ==
  ASSUME NEW s, NEW t, NEW x, NEW B, NEW p, NEW q, NEW a, NEW b, Kept(s, t, x, B, p, q, a, b)
  PROVE  t \in FsValue /\ Ok(t) /\ Sound(t, x) /\ Disk(t) /\ Slots(t, B, p, q, a, b) /\ Alike(s, t)
BY DEF Kept, Sound

\* A locked inode in memory is the one on disk.
LEMMA LockedIs ==
  ASSUME NEW s, NEW t, NEW x, NEW B, NEW p, NEW q, NEW a, NEW b, Kept(s, t, x, B, p, q, a, b),
         NEW i \in Inum, i = a \/ i = b
  PROVE  Mem(t, i) = Dsk(t, i) /\ t.ic[i].d = Dsk(t, i) /\ InUse(t, i) /\ Slot(t, i).ref > 0
<1>1. Slot(t, i).locked /\ Slot(t, i).valid
  BY SlotOf
<1>2. Mem(t, i) = Dsk(t, i) /\ Slot(t, i).ref > 0 /\ InUse(t, i)
  BY <1>1, SlotOf
<1> QED  BY <1>2 DEF Mem

\* create of a name that exists returns the file, locked, or nothing.
LEMMA ReuseIs ==
  ASSUME NEW s0, NEW s, NEW B, NEW ip \in Inum, Kept(s0, s, 0, B, ip, Root, Root, 0),
         NEW t, NEW v, Gives(Reuse(s, Root, ip), t, v)
  PROVE  \/ v = 0 /\ Kept(s0, t, 0, B, 0, 0, 0, 0)
         \/ v = ip /\ v # Root /\ Kept(s0, t, 0, B, v, 0, v, 0)
<1>a. PICK a : a = Iput(Iunlock(s, Root), Root)
  OBVIOUS
<1>l. PICK l : l = Ilock(a, ip)
  OBVIOUS
<1>x. PICK left : left = Iput(Iunlock(l, ip), ip)
  OBVIOUS
<1>0. Root \in Inum /\ Root # 0 /\ ip # 0
  BY Consts
<1>1. Reuse(s, Root, ip) = IF Ok(l) /\ l.ic[ip].d.type = "T_FILE" THEN Result(l, ip) ELSE Result(left, 0)
  BY <1>a, <1>l, <1>x, Zenon DEF Reuse
<1>2. Kept(s0, a, 0, B, ip, 0, 0, 0)
  <2>1. Kept(s0, s, 0, B, Root, ip, Root, 0)
    BY Swapped
  <2>2. Kept(s0, a, 0, B, 0, ip, 0, 0)
    BY <1>0, <1>a, <2>1, LeaveIs
  <2> QED  BY <2>2, Swapped
<1>3. Kept(s0, l, 0, B, ip, 0, ip, 0)
  <2>1. Held(B, ip, 0, ip) > 0
    <3>1. B[ip] \in Nat
      BY <1>2, SlotOf
    <3> QED  BY <1>0, <3>1 DEF Held
  <2> QED  BY <1>0, <1>2, <1>l, <2>1, IlockIs
<1>4. Kept(s0, left, 0, B, 0, 0, 0, 0)
  BY <1>0, <1>3, <1>x, LeaveIs
<1>5. Ok(l) /\ Sound(l, 0) /\ l.ic[ip].d = Dsk(l, ip)
  BY <1>3, KeptIs, LockedIs
<1>6. CASE l.ic[ip].d.type = "T_FILE"
  <2>1. t = l /\ v = ip
    BY <1>1, <1>5, <1>6 DEF Gives, Result
  <2>2. ip # Root
    BY <1>5, <1>6, DirIs
  <2> QED  BY <1>3, <2>1, <2>2
<1>7. CASE l.ic[ip].d.type # "T_FILE"
  <2>1. t = left /\ v = 0
    BY <1>1, <1>7 DEF Gives, Result
  <2> QED  BY <1>4, <2>1
<1> QED  BY <1>6, <1>7

\* iupdate of an inode that has not changed.
LEMMA IupdateSame ==
  ASSUME NEW s \in FsValue, NEW i \in Inum, Mem(s, i) = Dsk(s, i), NEW t, t = Iupdate(s, i)
  PROVE  t = s
<1> DEFINE u == [s.dinode EXCEPT ![i] = s.ic[i].d]
<1>1. s.dinode \in [Inum -> DinodeSet] /\ s.ic[i].d = s.dinode[i]
  BY DEF FsValue, Mem, Dsk
<1>2. u = s.dinode
  BY <1>1
<1>3. t = s \/ t = [s EXCEPT !.dinode = u]
  BY DEF Iupdate
<1> HIDE DEF u
<1> QED  BY <1>2, <1>3 DEF FsValue

\* The new file is linked, or the disk is full.
LEMMA LinkIs ==
  ASSUME NEW s, NEW B, NEW i \in Inum, i # Root, Kept(s, s, i, B, Root, i, Root, 0), InUse(s, i),
         NEW name \in Name \cup {".", ".."}, \A o \in 0..(DirSize(s) - 1) : Ent(s, o).name # name,
         NEW t, NEW v, Gives(Link(s, Root, name, i), t, v)
  PROVE  Full(t) \/ (v = i /\ Kept(t, t, 0, B, v, 0, v, 0) /\ Named(s, t, i, name))
<1>l. PICK l : l = Ilock(s, i)
  OBVIOUS
<1>m. PICK m : m = Iupdate(l, i)
  OBVIOUS
<1>r. PICK r : r = Dirlink(m, Root, name, i)
  OBVIOUS
<1>u. PICK u : u = r.s
  OBVIOUS
<1>w. PICK w : w = r.v
  OBVIOUS
<1>x. PICK left : left = Iput(Iunlock(u, Root), Root)
  OBVIOUS
<1>0. Root \in Inum /\ Root # 0 /\ i # 0
  BY Consts
<1>1. Link(s, Root, name, i) =
        IF ~Ok(u) THEN Result(u, 0) ELSE IF w THEN Result(left, i)
        ELSE Result(Iput(Iput(Iunlock(Iupdate([Iunlock(u, i) EXCEPT !.ic[i].d.nlink = 0], i), Root), i), Root), 0)
  BY <1>l, <1>m, <1>r, <1>u, <1>w, <1>x, Zenon DEF Link
<1>2. Kept(s, l, i, B, Root, i, i, Root)
  <2>1. Kept(s, s, i, B, Root, i, 0, Root)
    BY Swapped
  <2>2. Held(B, Root, i, i) > 0
    <3>1. B[i] \in Nat
      BY SlotOf
    <3> QED  BY <1>0, <3>1 DEF Held
  <2> QED  BY <1>0, <1>l, <2>1, <2>2, IlockIs
<1>3. /\ l \in FsValue /\ Ok(l) /\ Sound(l, i) /\ Slots(l, B, Root, i, i, Root) /\ Alike(s, l)
      /\ Mem(l, i) = Dsk(l, i) /\ Mem(l, Root) = Dsk(l, Root) /\ InUse(l, i)
  BY <1>0, <1>2, KeptIs, LockedIs
<1>4. m = l
  BY <1>3, <1>m, IupdateSame
<1>5. \A o \in 0..(DirSize(l) - 1) : Ent(l, o).name # name
  BY <1>3, AlikeIs
<1>6. \/ Full(u)
      \/ /\ Yes(w) /\ Ok(u) /\ Sound(u, 0) /\ SameSlots(l, u, Root) /\ Mem(u, Root) = Dsk(u, Root)
         /\ \A j \in Inum : j # Root => Dsk(u, j) = Dsk(l, j)
         /\ Named(l, u, i, name)
  <2>1. Gives(Dirlink(l, Root, name, i), u, w)
    BY <1>4, <1>r, <1>u, <1>w DEF Gives
  <2> QED  BY <1>3, <1>5, <2>1, DirlinkIs
<1>7. CASE Full(u)
  <2>1. ~Ok(u)
    BY <1>7 DEF Full, Ok, NoBlock
  <2>2. t = u
    BY <1>1, <2>1 DEF Gives, Result
  <2> QED  BY <1>7, <2>2
<1>8. CASE /\ Yes(w) /\ Ok(u) /\ Sound(u, 0) /\ SameSlots(l, u, Root) /\ Mem(u, Root) = Dsk(u, Root)
           /\ \A j \in Inum : j # Root => Dsk(u, j) = Dsk(l, j)
           /\ Named(l, u, i, name)
  <2>1. t = left /\ v = i
    <3>1. Link(s, Root, name, i) = Result(left, i)
      BY <1>1, <1>8, Zenon DEF Yes
    <3> QED  BY <3>1 DEF Gives, Result
  <2>2. InUse(u, Root)
    BY <1>8, DirIs
  <2>3. Slots(u, B, Root, i, i, Root)
    BY <1>0, <1>3, <1>8, <2>2, SlotsChanged
  <2>4. Kept(u, u, 0, B, Root, i, i, Root)
    BY <1>8, <2>3 DEF Kept, Alike
  <2>5. Kept(u, u, 0, B, Root, i, Root, i)
    BY <2>4, Swapped
  <2>6. Kept(u, left, 0, B, 0, i, 0, i)
    BY <1>0, <1>x, <2>5, LeaveIs
  <2>7. Kept(u, left, 0, B, i, 0, i, 0)
    BY <2>6, Swapped
  <2>8. Named(s, left, i, name)
    BY <1>3, <1>8, <2>6, KeptIs, NamedAlike
  <2> QED  BY <2>1, <2>7, <2>8, KeptSelf
<1> QED  BY <1>6, <1>7, <1>8

-----------------------------------------------------------------------------
\* The paths of open.
PathSet == [empty: BOOLEAN, elems: Seq(Name \cup {".", ".."})]

\* What a call leaves that found no block or no inode, did nothing, or holds a
\* locked file: one that was there or a new one.
Stuck(s, t) == Full(t) \/ NoneFree(s, t)
Looked(s, B, t, v) ==
  \/ Stuck(s, t)
  \/ v = 0 /\ Kept(s, t, 0, B, 0, 0, 0, 0)
  \/ v \in Inum /\ v # Root /\ Kept(t, t, 0, B, v, 0, v, 0) /\ (Alike(s, t) \/ Made(s, t, v))

\* Whether an inode is free is a matter of the disk.
LEMMA NoneFreeAlike ==
  ASSUME NEW s, NEW u, Alike(s, u), NEW t, NoneFree(u, t)
  PROVE  NoneFree(s, t)
BY AlikeIs DEF NoneFree

\* create returns a locked file, or nothing, or the disk is full.
LEMMA CreateIs ==
  ASSUME NEW s, NEW B, Kept(s, s, 0, B, 0, 0, 0, 0), Few(B),
         NEW path \in PathSet, ~path.empty, NEW t, NEW v, Gives(Create(s, path), t, v)
  PROVE  Looked(s, B, t, v)
<1> DEFINE parent == TRUE
<1>e. PICK elems : elems = path.elems
  OBVIOUS
<1>n. PICK name : name = Last(elems)
  OBVIOUS
<1>p. PICK p : p = Namex(s, path, parent)
  OBVIOUS
<1>i. PICK i : i = p.v
  OBVIOUS
<1>u. PICK u : u = p.s
  OBVIOUS
<1>l. PICK l : l = Ilock(u, i)
  OBVIOUS
<1>o. PICK old : old = Dirlookup(l, i, name)
  OBVIOUS
<1>g. PICK g : g = old.s
  OBVIOUS
<1>j. PICK j : j = old.v
  OBVIOUS
<1>a. PICK a : a = IallocFile(g)
  OBVIOUS
<1>h. PICK h : h = a.s
  OBVIOUS
<1>k. PICK k : k = a.v
  OBVIOUS
<1>0. Root \in Inum /\ Root # 0 /\ elems \in Seq(Name \cup {".", ".."}) /\ Len(elems) \in Nat
  BY <1>e, Consts DEF PathSet
<1>1. Create(s, path) =
        IF ~Ok(u) \/ i = 0 THEN Result(u, 0)
        ELSE IF ~Ok(g) THEN Result(g, 0)
        ELSE IF j # 0 THEN Reuse(g, i, j)
        ELSE IF Ok(h) THEN Link(h, i, name, k) ELSE Result(h, 0)
  BY <1>e, <1>n, <1>p, <1>i, <1>u, <1>l, <1>o, <1>g, <1>j, <1>a, <1>h, <1>k, Zenon DEF Create, IallocFile
<1>2. \/ i = 0 /\ Kept(s, u, 0, B, 0, 0, 0, 0)
      \/ i = Root /\ Kept(s, u, 0, B, Root, 0, 0, 0) /\ Len(elems) # 0
  <2>1. Gives(Namex(s, path, parent), u, i)
    BY <1>p, <1>i, <1>u DEF Gives
  <2>2. Len(path.elems) \in Nat
    BY <1>0, <1>e
  <2>q. PICK q : q = parent
    OBVIOUS
  <2>3. Gives(Namex(s, path, q), u, i)
    BY <2>1, <2>q, Zenon
  <2>4. \/ i = 0 /\ Kept(s, u, 0, B, 0, 0, 0, 0)
        \/ i \in Inum /\ Kept(s, u, 0, B, i, 0, 0, 0) /\ (q => i = Root /\ Len(path.elems) # 0)
    BY <2>2, <2>3, NamexIs
  <2>5. q
    BY <2>q, Zenon
  <2> QED  BY <1>e, <2>4, <2>5
<1>3. CASE i = 0 /\ Kept(s, u, 0, B, 0, 0, 0, 0)
  <2>1. t = u /\ v = 0
    BY <1>1, <1>3 DEF Gives, Result
  <2> QED  BY <1>3, <2>1 DEF Looked
<1>4. CASE i = Root /\ Kept(s, u, 0, B, Root, 0, 0, 0) /\ Len(elems) # 0
  <2>1. name \in Name \cup {".", ".."}
    <3>1. name = elems[Len(elems)]
      BY <1>n DEF Last
    <3>2. Len(elems) \in 1..Len(elems)
      BY <1>0, <1>4
    <3> QED  BY <1>0, <3>1, <3>2
  <2>2. Kept(s, l, 0, B, Root, 0, Root, 0)
    <3>1. Held(B, Root, 0, Root) > 0
      <4>1. B[Root] \in Nat
        BY <1>0, <1>4, SlotOf
      <4> QED  BY <1>0, <4>1 DEF Held
    <3>2. l = Ilock(u, Root)
      BY <1>l, <1>4
    <3> QED  BY <1>0, <1>4, <3>1, <3>2, IlockIs
  <2>3. l \in FsValue /\ Ok(l) /\ Sound(l, 0) /\ Mem(l, Root) = Dsk(l, Root) /\ Alike(s, l)
    BY <1>0, <2>2, KeptIs, LockedIs
  <2>4. \/ g = l /\ j = 0 /\ \A o \in 0..(DirSize(l) - 1) : Ent(l, o).name # name
        \/ g = Iget(l, j) /\ j \in Inum /\ InUse(l, j)
    <3>1. Gives(Dirlookup(l, Root, name), g, j)
      BY <1>o, <1>g, <1>j, <1>4 DEF Gives
    <3> QED  BY <2>3, <3>1, DirlookupIs
  <2>5. CASE g = Iget(l, j) /\ j \in Inum /\ InUse(l, j)
    <3>1. Kept(s, l, 0, B, 0, Root, Root, 0)
      BY <2>2, Swapped
    <3>2. Kept(s, g, 0, B, j, Root, Root, 0)
      BY <2>5, <3>1, IgetIs
    <3>3. Ok(g) /\ j # 0
      BY <2>5, <3>2, SlotOf
    <3>4. Create(s, path) = Reuse(g, Root, j)
      <4>1. Ok(u)
        BY <1>4, KeptIs
      <4> QED  BY <1>0, <1>1, <1>4, <3>3, <4>1
    <3>5. \/ v = 0 /\ Kept(s, t, 0, B, 0, 0, 0, 0)
          \/ v = j /\ v # Root /\ Kept(s, t, 0, B, v, 0, v, 0)
      <4>1. Gives(Reuse(g, Root, j), t, v)
        BY <3>4
      <4> QED  BY <2>5, <3>2, <4>1, ReuseIs
    <3> QED  BY <2>5, <3>5, KeptSelf, KeptIs DEF Looked
  <2>6. CASE g = l /\ j = 0 /\ \A o \in 0..(DirSize(l) - 1) : Ent(l, o).name # name
    <3>1. Create(s, path) = IF Ok(h) THEN Link(h, Root, name, k) ELSE Result(h, 0)
      <4>1. Ok(u)
        BY <1>4, KeptIs
      <4> QED  BY <1>0, <1>1, <1>4, <2>3, <2>6, <4>1
    <3>2. \/ NoneFree(l, h)
          \/ /\ k \in Inum /\ k # Root /\ Kept(h, h, k, B, Root, k, Root, 0) /\ InUse(h, k)
             /\ DirSize(h) = DirSize(l) /\ (\A o : Ent(h, o) = Ent(l, o)) /\ Taken(l, h, k)
      <4>1. Gives(IallocFile(l), h, k)
        BY <1>a, <1>h, <1>k, <2>6 DEF Gives
      <4> QED  BY <2>2, <4>1, IallocIs
    <3>3. CASE NoneFree(l, h)
      <4>1. ~Ok(h)
        BY <3>3 DEF NoneFree, Ok, NoInodes
      <4>2. t = h
        BY <3>1, <4>1 DEF Gives, Result
      <4> QED  BY <2>3, <3>3, <4>2, NoneFreeAlike DEF Looked, Stuck
    <3>4. CASE /\ k \in Inum /\ k # Root /\ Kept(h, h, k, B, Root, k, Root, 0) /\ InUse(h, k)
               /\ DirSize(h) = DirSize(l) /\ (\A o : Ent(h, o) = Ent(l, o)) /\ Taken(l, h, k)
      <4>1. Ok(h)
        BY <3>4, KeptIs
      <4>2. Gives(Link(h, Root, name, k), t, v)
        BY <3>1, <4>1
      <4>3. \A o \in 0..(DirSize(h) - 1) : Ent(h, o).name # name
        BY <2>6, <3>4
      <4>4. Full(t) \/ (v = k /\ Kept(t, t, 0, B, v, 0, v, 0) /\ Named(h, t, k, name))
        BY <2>1, <3>4, <4>2, <4>3, LinkIs
      <4>5. name \in Name
        <5>1. Ent(l, 0) = Dirent(Root, ".") /\ Ent(l, 1) = Dirent(Root, "..") /\ DirSize(l) >= 2 /\ DirSize(l) \in Nat
          BY <2>3, DirIs DEF Sound, Dir
        <5>2. Ent(l, 0).name = "." /\ Ent(l, 1).name = ".."
          BY <5>1 DEF Dirent
        <5>3. 0 \in 0..(DirSize(l) - 1) /\ 1 \in 0..(DirSize(l) - 1)
          BY <5>1
        <5> QED  BY <2>1, <2>6, <5>2, <5>3
      <4>6. ASSUME Named(h, t, k, name) PROVE Made(s, t, k)
        BY <2>3, <2>6, <3>4, <4>5, <4>6, MadeIs
      <4> QED  BY <3>4, <4>4, <4>6 DEF Looked, Stuck
    <3> QED  BY <3>2, <3>3, <3>4
  <2> QED  BY <2>4, <2>5, <2>6
<1> QED  BY <1>2, <1>3, <1>4

\* ... when the mode is empty it may be the root.
Found(s, B, t, v, mode) ==
  \/ Looked(s, B, t, v)
  \/ mode = {} /\ v \in Inum /\ Kept(t, t, 0, B, v, 0, v, 0) /\ Alike(s, t)

\* The first half of open returns a locked inode that its mode allows.
LEMMA LookupIs ==
  ASSUME NEW B, Kept(fs, fs, 0, B, 0, 0, 0, 0), Few(B),
         NEW path \in PathSet, ~path.empty, NEW mode, NEW t, NEW v, Gives(Lookup(path, mode), t, v)
  PROVE  Found(fs, B, t, v, mode)
<1> DEFINE parent == FALSE
<1>0. Root \in Inum /\ Root # 0 /\ Len(path.elems) \in Nat
  BY Consts DEF PathSet
<1>1. CASE "O_CREATE" \in mode
  <2>1. Gives(Create(fs, path), t, v)
    BY <1>1 DEF Lookup
  <2> QED  BY <2>1, CreateIs DEF Found
<1>2. CASE "O_CREATE" \notin mode
  <2>p. PICK p : p = Namex(fs, path, parent)
    OBVIOUS
  <2>i. PICK i : i = p.v
    OBVIOUS
  <2>u. PICK u : u = p.s
    OBVIOUS
  <2>l. PICK l : l = Ilock(u, i)
    OBVIOUS
  <2>x. PICK left : left = Iput(Iunlock(l, i), i)
    OBVIOUS
  <2>1. Lookup(path, mode) =
          IF ~Ok(u) \/ i = 0 THEN Result(u, 0)
          ELSE IF Ok(l) /\ l.ic[i].d.type = "T_DIR" /\ mode # {} THEN Result(left, 0)
          ELSE Result(l, i)
    BY <1>2, <2>p, <2>i, <2>u, <2>l, <2>x, Zenon DEF Lookup
  <2>2. \/ i = 0 /\ Kept(fs, u, 0, B, 0, 0, 0, 0)
        \/ i \in Inum /\ Kept(fs, u, 0, B, i, 0, 0, 0)
    <3>q. PICK q : q = parent
      OBVIOUS
    <3>1. Gives(Namex(fs, path, q), u, i)
      BY <2>p, <2>i, <2>u, <3>q, Zenon DEF Gives
    <3> QED  BY <1>0, <3>1, NamexIs
  <2>3. CASE i = 0 /\ Kept(fs, u, 0, B, 0, 0, 0, 0)
    <3>1. t = u /\ v = 0
      BY <2>1, <2>3 DEF Gives, Result
    <3> QED  BY <2>3, <3>1 DEF Found, Looked
  <2>4. CASE i \in Inum /\ Kept(fs, u, 0, B, i, 0, 0, 0)
    <3>1. i # 0 /\ Ok(u) /\ Held(B, i, 0, i) > 0
      <4>1. i # 0 /\ Ok(u) /\ B[i] \in Nat
        BY <2>4, SlotOf
      <4> QED  BY <4>1 DEF Held
    <3>2. Kept(fs, l, 0, B, i, 0, i, 0)
      BY <2>4, <2>l, <3>1, IlockIs
    <3>3. Ok(l) /\ Sound(l, 0) /\ l.ic[i].d = Dsk(l, i)
      BY <2>4, <3>2, KeptIs, LockedIs
    <3>4. CASE l.ic[i].d.type = "T_DIR" /\ mode # {}
      <4>1. t = left /\ v = 0
        BY <2>1, <3>1, <3>3, <3>4 DEF Gives, Result
      <4>2. Kept(fs, left, 0, B, 0, 0, 0, 0)
        BY <2>4, <2>x, <3>1, <3>2, LeaveIs
      <4> QED  BY <4>1, <4>2 DEF Found, Looked
    <3>5. CASE ~(l.ic[i].d.type = "T_DIR" /\ mode # {})
      <4>1. t = l /\ v = i
        BY <2>1, <3>1, <3>5 DEF Gives, Result
      <4>2. Kept(l, l, 0, B, i, 0, i, 0) /\ Alike(fs, l)
        BY <3>2, KeptSelf, KeptIs
      <4>3. mode # {} => i # Root
        BY <3>3, <3>5, DirIs
      <4> QED  BY <2>4, <4>1, <4>2, <4>3 DEF Found, Looked
    <3> QED  BY <3>4, <3>5
  <2> QED  BY <2>2, <2>3, <2>4
<1> QED  BY <1>1, <1>2

-----------------------------------------------------------------------------
(* The tables of open files and descriptors.                               *)

\* The tables are finite and their indices are not 0.
LEMMA TableSets ==
  /\ IsFiniteSet(Fd) /\ Cardinality(Fd) = NOFile /\ Fd \in SUBSET Nat
  /\ IsFiniteSet(Idx) /\ Idx \in SUBSET Nat /\ 0 \notin Idx
<1>1. NOFile - 1 \in Int /\ NFile \in Int /\ 0 \in Int /\ 1 \in Int /\ ~(0 > NOFile - 1)
  BY Consts
<1>2. IsFiniteSet(0..(NOFile - 1)) /\ Cardinality(0..(NOFile - 1)) = IF 0 > NOFile - 1 THEN 0 ELSE (NOFile - 1) - 0 + 1
  BY <1>1, FS_Interval
<1>3. IsFiniteSet(1..NFile)
  BY <1>1, FS_Interval
<1> QED  BY <1>1, <1>2, <1>3, Consts DEF Fd, Idx

\* A file has descriptors if one of them leads to it.
LEMMA DescsIs ==
  ASSUME NEW of, NEW k
  PROVE  IsFiniteSet(Descs(of, k)) /\ Cardinality(Descs(of, k)) \in Nat
         /\ (Cardinality(Descs(of, k)) > 0 <=> \E fd \in Fd : of[fd] = k)
<1>1. Descs(of, k) \in SUBSET Fd /\ IsFiniteSet(Fd)
  BY TableSets DEF Descs
<1>2. IsFiniteSet(Descs(of, k))
  BY <1>1, FS_Subset
<1>3. Cardinality(Descs(of, k)) \in Nat /\ (Cardinality(Descs(of, k)) = 0 <=> Descs(of, k) = {})
  BY <1>2, FS_CardinalityType, FS_EmptySet
<1>4. Descs(of, k) # {} <=> \E fd \in Fd : of[fd] = k
  BY DEF Descs
<1> QED  BY <1>2, <1>3, <1>4

\* An inode has open files if one of them is on it.
LEMMA FilesOnIs ==
  ASSUME NEW ft, NEW i
  PROVE  IsFiniteSet(FilesOn(ft, i)) /\ Cardinality(FilesOn(ft, i)) \in Nat
         /\ (Cardinality(FilesOn(ft, i)) > 0 <=> \E k \in Idx : ft[k].ref > 0 /\ ft[k].ip = i)
<1>1. FilesOn(ft, i) \in SUBSET Idx /\ IsFiniteSet(Idx)
  BY TableSets DEF FilesOn
<1>2. IsFiniteSet(FilesOn(ft, i))
  BY <1>1, FS_Subset
<1>3. Cardinality(FilesOn(ft, i)) \in Nat /\ (Cardinality(FilesOn(ft, i)) = 0 <=> FilesOn(ft, i) = {})
  BY <1>2, FS_CardinalityType, FS_EmptySet
<1>4. FilesOn(ft, i) # {} <=> \E k \in Idx : ft[k].ref > 0 /\ ft[k].ip = i
  BY DEF FilesOn
<1> QED  BY <1>2, <1>3, <1>4

\* A descriptor that is set or cleared.
Redirected(of, of2, fd, w, v) ==
  /\ of \in [Fd -> Idx \cup {0}] /\ fd \in Fd /\ v \in Idx \cup {0} /\ w = of[fd] /\ w # v
  /\ of2 = [of EXCEPT ![fd] = v]

\* One descriptor more on v, one less on w.
Counted(of, of2, w, v) ==
  /\ of2 \in [Fd -> Idx \cup {0}]
  /\ Cardinality(Descs(of2, v)) = Cardinality(Descs(of, v)) + 1
  /\ Cardinality(Descs(of2, w)) = Cardinality(Descs(of, w)) - 1
  /\ \A k \in Idx : k # v /\ k # w => Cardinality(Descs(of2, k)) = Cardinality(Descs(of, k))

\* A descriptor is taken from one file and given to another.
LEMMA DescSet ==
  ASSUME NEW of, NEW of2, NEW fd, NEW w, NEW v, Redirected(of, of2, fd, w, v)
  PROVE  Counted(of, of2, w, v)
<1>1. /\ of2 \in [Fd -> Idx \cup {0}] /\ of2[fd] = v /\ \A g \in Fd : g # fd => of2[g] = of[g]
      /\ fd \in Fd /\ w = of[fd] /\ w # v
  BY DEF Redirected
<1>2. Descs(of2, v) = Descs(of, v) \cup {fd} /\ fd \notin Descs(of, v)
  BY <1>1 DEF Descs
<1>3. Descs(of2, w) = Descs(of, w) \ {fd} /\ fd \in Descs(of, w)
  BY <1>1 DEF Descs
<1>4. \A k : k # v /\ k # w => Descs(of2, k) = Descs(of, k)
  BY <1>1 DEF Descs
<1>5. Cardinality(Descs(of2, v)) = Cardinality(Descs(of, v)) + 1
  BY <1>2, DescsIs, FS_AddElement
<1>6. Cardinality(Descs(of2, w)) = Cardinality(Descs(of, w)) - 1
  BY <1>3, DescsIs, FS_RemoveElement
<1> QED  BY <1>1, <1>4, <1>5, <1>6 DEF Counted

\* At most NOFILE inodes are open.
LEMMA FewFiles ==
  ASSUME NEW ft, NEW of, Tables(ft, of)
  PROVE  Few(RefsOf(ft)) /\ RefsOf(ft) \in [Inum -> Nat]
<1> DEFINE F == {j \in Inum : RefsOf(ft)[j] > 0}
           f == [fd \in Fd |-> IF of[fd] = 0 THEN 0 ELSE ft[of[fd]].ip]
           G == {f[fd] : fd \in Fd}
<1>1. RefsOf(ft) \in [Inum -> Nat]
  BY FilesOnIs DEF RefsOf
<1>2. F \in SUBSET G
  <2> SUFFICES ASSUME NEW j \in Inum, RefsOf(ft)[j] > 0 PROVE \E fd \in Fd : f[fd] = j
    OBVIOUS
  <2>1. Cardinality(FilesOn(ft, j)) > 0
    BY DEF RefsOf
  <2>2. PICK k \in Idx : ft[k].ref > 0 /\ ft[k].ip = j
    BY <2>1, FilesOnIs
  <2>3. Cardinality(Descs(of, k)) > 0
    BY <2>2 DEF Tables
  <2>4. PICK fd \in Fd : of[fd] = k
    BY <2>3, DescsIs
  <2>5. of[fd] # 0
    BY <2>4, TableSets
  <2> QED  BY <2>2, <2>4, <2>5
<1>3. IsFiniteSet(G) /\ Cardinality(G) <= NOFile
  <2>1. f \in Surjection(Fd, G)
    BY DEF Surjection
  <2> HIDE DEF f, G
  <2> QED  BY <2>1, TableSets, FS_Surjection
<1> HIDE DEF F, G
<1>4. IsFiniteSet(F) /\ Cardinality(F) <= Cardinality(G)
  BY <1>2, <1>3, FS_Subset
<1>5. Cardinality(F) \in Nat /\ Cardinality(G) \in Nat
  BY <1>3, <1>4, FS_CardinalityType
<1> QED  BY <1>1, <1>3, <1>4, <1>5, Consts DEF Few, F

\* ft2 has one more file on inode i than ft.
OneMore(ft, ft2, k, i) ==
  /\ k \in Idx /\ i \in Inum /\ ft[k].ref = 0 /\ ft2[k].ref > 0 /\ ft2[k].ip = i
  /\ \A l \in Idx : l # k => ft2[l] = ft[l]

\* One count more is one pointer of the call less.
LEMMA RefsAdd ==
  ASSUME NEW ft, NEW ft2, NEW k, NEW i, OneMore(ft, ft2, k, i), NEW j \in Inum
  PROVE  Held(RefsOf(ft2), 0, 0, j) = Held(RefsOf(ft), i, 0, j)
<1>1. k \in Idx /\ i \in Inum /\ ft[k].ref = 0 /\ ft2[k].ref > 0 /\ ft2[k].ip = i
      /\ \A l \in Idx : l # k => ft2[l] = ft[l]
  BY DEF OneMore
<1>2. k \notin FilesOn(ft, j)
  BY <1>1 DEF FilesOn
<1>3. FilesOn(ft2, j) = IF j = i THEN FilesOn(ft, j) \cup {k} ELSE FilesOn(ft, j)
  BY <1>1 DEF FilesOn
<1>4. RefsOf(ft2)[j] = Cardinality(FilesOn(ft2, j)) /\ RefsOf(ft)[j] = Cardinality(FilesOn(ft, j))
      /\ Cardinality(FilesOn(ft, j)) \in Nat /\ IsFiniteSet(FilesOn(ft, j)) /\ j # 0
  BY FilesOnIs, Consts DEF RefsOf
<1>5. CASE j = i
  <2>1. FilesOn(ft2, j) = FilesOn(ft, j) \cup {k}
    BY <1>3, <1>5
  <2>2. Cardinality(FilesOn(ft2, j)) = Cardinality(FilesOn(ft, j)) + 1
    BY <1>2, <1>4, <2>1, FS_AddElement
  <2> QED  BY <1>4, <1>5, <2>2 DEF Held
<1>6. CASE j # i
  <2>1. FilesOn(ft2, j) = FilesOn(ft, j)
    BY <1>3, <1>6
  <2> QED  BY <1>4, <1>6, <2>1 DEF Held
<1> QED  BY <1>5, <1>6

\* The same files.
LEMMA RefsSame ==
  ASSUME NEW ft, NEW ft2, \A l \in Idx : (ft2[l].ref > 0 <=> ft[l].ref > 0) /\ ft2[l].ip = ft[l].ip
  PROVE  RefsOf(ft2) = RefsOf(ft)
<1>1. \A j : FilesOn(ft2, j) = FilesOn(ft, j)
  BY DEF FilesOn
<1> QED  BY <1>1 DEF RefsOf

\* The slots, seen with another count of files.
LEMMA SlotsRecounted ==
  ASSUME NEW s, NEW B, NEW p, NEW B2 \in [Inum -> Nat], NEW p2 \in Inum \cup {0}, Slots(s, B, p, 0, 0, 0),
         \A j \in Inum : Held(B2, p2, 0, j) = Held(B, p, 0, j)
  PROVE  Slots(s, B2, p2, 0, 0, 0)
BY DEF Slots

-----------------------------------------------------------------------------
(* Between two steps.                                                      *)

\* Between two steps no call holds anything ...
LEMMA RestKept ==
  ASSUME NEW s, NEW B, Rest(s, B), Ok(s)
  PROVE  Kept(s, s, 0, B, 0, 0, 0, 0)
BY DEF Rest, Kept, Alike

\* ... and a call that holds nothing has ended.
LEMMA KeptRest ==
  ASSUME NEW s, NEW t, NEW B, Kept(s, t, 0, B, 0, 0, 0, 0)
  PROVE  Rest(t, B) /\ Ok(t)
<1>1. t.panic # NoInodes
  BY DEF Kept, Ok, NoInodes
<1> QED  BY <1>1 DEF Kept, Rest

\* A step that ends in a panic keeps only the panic.
SetPanic(s, why) == [s EXCEPT !.panic = why]

\* panic() leaves the disk as the last transaction left it.
LEMMA PanicRest ==
  ASSUME NEW s, NEW B, Rest(s, B), NEW why \in PanicSet, why = NoInodes => \A i \in Inum : InUse(s, i),
         NEW t, t = SetPanic(s, why)
  PROVE  Rest(t, B)
<1>1. s \in FsValue /\ Sound(s, 0) /\ Slots(s, B, 0, 0, 0, 0)
  BY DEF Rest, Sound
<1>2. /\ t \in FsValue /\ t.dinode = s.dinode /\ t.bitmap = s.bitmap /\ t.block = s.block
      /\ t.ic = s.ic /\ t.panic = why
  BY <1>1 DEF FsValue, SetPanic
<1>3. Alike(s, t)
  BY <1>2 DEF Alike
<1>4. Sound(t, 0)
  BY <1>1, <1>2, <1>3, SoundAlike
<1>5. /\ \A j : Slot(t, j) = Slot(s, j) /\ Mem(t, j) = Mem(s, j)
      /\ \A j : Dsk(t, j) = Dsk(s, j) /\ (InUse(t, j) <=> InUse(s, j))
  BY <1>2, <1>3, AlikeIs DEF Slot, Mem
<1>6. Slots(t, B, 0, 0, 0, 0)
  BY <1>1, <1>5 DEF Slots
<1> QED  BY <1>2, <1>4, <1>5, <1>6 DEF Rest

\* What Commit leaves of t.
Committed(s, t) == IF Ok(t) THEN t ELSE SetPanic(s, t.panic)

\* A step ends in a commit or in a panic.
LEMMA CommitIs ==
  ASSUME NEW t, Commit(t)
  PROVE  fs' = Committed(fs, t)
BY DEF Commit, Committed, SetPanic

\* A call that found the disk full is not committed.
LEMMA CommitStuck ==
  ASSUME NEW s, NEW B, Rest(s, B), NEW t, Stuck(s, t), NEW u, u = Committed(s, t)
  PROVE  Rest(u, B) /\ ~Ok(t) /\ ~Ok(u)
<1>1. PICK why : why = t.panic
  OBVIOUS
<1>2. ~Ok(t) /\ why \in PanicSet /\ (why = NoInodes => \A i \in Inum : InUse(s, i))
  BY <1>1 DEF Stuck, Full, NoneFree, Ok, PanicSet, NoInodes, NoBlock
<1>3. u = SetPanic(s, why)
  BY <1>1, <1>2 DEF Committed
<1>4. s \in FsValue
  BY DEF Rest, Sound
<1>5. u.panic = why
  BY <1>3, <1>4 DEF FsValue, SetPanic
<1>6. ~Ok(u)
  BY <1>1, <1>2, <1>5 DEF Ok
<1> QED  BY <1>2, <1>3, <1>6, PanicRest

\* One that gave back what it held is.
LEMMA CommitKept ==
  ASSUME NEW s0, NEW s, NEW t, NEW B, Kept(s0, t, 0, B, 0, 0, 0, 0), NEW u, u = Committed(s, t)
  PROVE  Rest(u, B) /\ Ok(t) /\ u = t
<1>1. Rest(t, B) /\ Ok(t)
  BY KeptRest
<1> QED  BY <1>1 DEF Committed

\* The truth of a step's result carries over.
LEMMA RestSame ==
  ASSUME NEW s, NEW B, NEW B2, Rest(s, B), B2 = B
  PROVE  Rest(s, B2)
OBVIOUS

-----------------------------------------------------------------------------
(* open.                                                                   *)

\* A file that is not the root changed by a call that holds it.
LEMMA FileChanged ==
  ASSUME NEW s, NEW t, NEW B, NEW p, NEW i \in Inum, i # Root, Kept(s, s, 0, B, p, 0, i, 0),
         t \in FsValue, Ok(t), Disk(t), SameSlots(s, t, i), Mem(t, i) = Dsk(t, i),
         \A j \in Inum : j # i => Dsk(t, j) = Dsk(s, j), Dsk(t, i).type = Dsk(s, i).type,
         \A o \in 0..(DirSize(s) - 1) : Ent(t, o) = Ent(s, o)
  PROVE  Kept(t, t, 0, B, p, 0, i, 0)
<1>1. Sound(s, 0) /\ Slots(s, B, p, 0, i, 0) /\ InUse(s, i) /\ Dir(s, 0)
  BY KeptIs, LockedIs DEF Sound
<1>2. DirSize(s) \in Nat /\ Root \in Inum
  BY <1>1, DirIs, Consts
<1>3. DirSize(t) = DirSize(s) /\ \A j \in Inum : InUse(t, j) <=> InUse(s, j)
  BY <1>2 DEF DirSize, InUse
<1>4. Dir(t, 0)
  BY <1>1, <1>2, <1>3, DirSame
<1>5. Slots(t, B, p, 0, i, 0)
  BY <1>1, <1>3, SlotsChanged
<1> QED  BY <1>4, <1>5 DEF Kept, Sound, Alike

\* open with O_TRUNC leaves the inode locked and empty.
LEMMA TruncKept ==
  ASSUME NEW s, NEW B, NEW i \in Inum, i # Root, Kept(s, s, 0, B, i, 0, i, 0), NEW t, t = Itrunc(s, i)
  PROVE  Kept(t, t, 0, B, i, 0, i, 0) /\ Emptied(s, t, i)
<1>1. s \in FsValue /\ Ok(s) /\ Disk(s) /\ Sound(s, 0) /\ Mem(s, i) = Dsk(s, i) /\ InUse(s, i)
  BY KeptIs, LockedIs
<1>2. Emptied(s, t, i)
  BY <1>1, ItruncIs
<1>3. \A o : Ent(t, o) = Ent(s, o)
  BY <1>2, Consts DEF Emptied, Ent
<1> QED  BY <1>2, <1>3, FileChanged DEF Emptied

\* Nothing happens after a panic.
LEMMA PanicStays ==
  ASSUME NEW u, ~Ok(u), NEW i
  PROVE  Iunlock(u, i) = u /\ Iput(u, i) = u /\ Itrunc(u, i) = u
<1>1. Iunlock(u, i) = u
  BY Zenon DEF Iunlock
<1>2. Iput(u, i) = u
  BY Zenon DEF Iput
<1>3. Itrunc(u, i) = u
  BY Zenon DEF Itrunc
<1> QED  BY <1>1, <1>2, <1>3

\* sys_open has no file, no struct file or no descriptor ...
LEMMA OpenFails ==
  ASSUME NEW s, NEW B, NEW mode, NEW u, NEW i, Found(s, B, u, i, mode),
         NEW t, t = (IF i = 0 THEN u ELSE Iput(Iunlock(u, i), i))
  PROVE  Stuck(s, t) \/ (Kept(t, t, 0, B, 0, 0, 0, 0) /\ (Alike(s, t) \/ \E f \in Inum : Made(s, t, f)))
<1>0. 0 \notin Inum
  BY Consts
<1>1. CASE Stuck(s, u)
  <2>1. ~Ok(u)
    BY <1>1 DEF Stuck, Full, NoneFree, Ok, NoInodes, NoBlock
  <2>2. t = u
    BY <2>1, PanicStays
  <2> QED  BY <1>1, <2>2
<1>2. CASE i = 0 /\ Kept(s, u, 0, B, 0, 0, 0, 0)
  BY <1>2, KeptSelf, KeptIs
<1>3. CASE i \in Inum /\ Kept(u, u, 0, B, i, 0, i, 0) /\ (Alike(s, u) \/ Made(s, u, i))
  <2>1. t = Iput(Iunlock(u, i), i)
    BY <1>0, <1>3
  <2>2. Kept(u, t, 0, B, 0, 0, 0, 0)
    BY <1>0, <1>3, <2>1, LeaveIs
  <2>3. Alike(u, t)
    BY <2>2, KeptIs
  <2>4. Alike(s, t) \/ Made(s, t, i)
    BY <1>3, <2>3, AlikeTwice, MadeAlike
  <2> QED  BY <1>3, <2>2, <2>4, KeptSelf
<1> QED  BY <1>1, <1>2, <1>3 DEF Found, Looked

\* ... or has them all.
LEMMA OpenWorks ==
  ASSUME NEW s, NEW B, NEW mode, NEW u, NEW i, Found(s, B, u, i, mode), i # 0,
         NEW w, w = u \/ (w = Itrunc(u, i) /\ mode # {}), NEW t, t = Iunlock(w, i)
  PROVE  \/ Stuck(s, t)
         \/ /\ i \in Inum /\ (mode # {} => i # Root) /\ Kept(t, t, 0, B, i, 0, 0, 0)
            /\ Kept(u, u, 0, B, i, 0, i, 0) /\ (Alike(s, u) \/ Made(s, u, i))
            /\ Alike(u, t) \/ (i # Root /\ Emptied(u, w, i) /\ Alike(w, t))
<1>0. 0 \notin Inum
  BY Consts
<1>1. CASE Stuck(s, u)
  <2>1. ~Ok(u)
    BY <1>1 DEF Stuck, Full, NoneFree, Ok, NoInodes, NoBlock
  <2>2. t = u
    BY <2>1, PanicStays
  <2> QED  BY <1>1, <2>2
<1>2. CASE /\ i \in Inum /\ (mode # {} => i # Root) /\ Kept(u, u, 0, B, i, 0, i, 0)
           /\ Alike(s, u) \/ Made(s, u, i)
  <2>1. Kept(w, w, 0, B, i, 0, i, 0) /\ (w = u \/ (i # Root /\ Emptied(u, w, i)))
    <3>1. CASE w = u
      BY <1>2, <3>1
    <3>2. CASE w = Itrunc(u, i) /\ mode # {}
      BY <1>2, <3>2, TruncKept
    <3> QED  BY <3>1, <3>2
  <2>2. Kept(w, t, 0, B, i, 0, 0, 0)
    BY <1>0, <1>2, <2>1, IunlockIs
  <2>3. Alike(w, t)
    BY <2>2, KeptIs
  <2> QED  BY <1>2, <2>1, <2>2, <2>3, KeptSelf
<1> QED  BY <1>1, <1>2 DEF Found, Looked

\* Open files and descriptors after a successful open.
NewOpen(mode, i) ==
  [type |-> "FD_INODE", ref |-> 1, readable |-> "O_WRONLY" \notin mode,
   writable |-> {"O_WRONLY", "O_RDWR"} \cap mode # {}, ip |-> i, off |-> 0]

\* A new open file never writes the root.
LEMMA NewOpenIs ==
  ASSUME NEW mode, NEW i \in Inum, mode # {} => i # Root
  PROVE  /\ NewOpen(mode, i) \in FileSet /\ NewOpen(mode, i).ref = 1 /\ NewOpen(mode, i).ip = i
         /\ Opens(NewOpen(mode, i))
<1>1. PICK w : w = ({"O_WRONLY", "O_RDWR"} \cap mode # {})
  OBVIOUS
<1>2. PICK r : r = ("O_WRONLY" \notin mode)
  OBVIOUS
<1>3. w \in BOOLEAN /\ r \in BOOLEAN /\ (w => mode # {})
  BY <1>1, <1>2
<1>4. NewOpen(mode, i) = [type |-> "FD_INODE", ref |-> 1, readable |-> r, writable |-> w, ip |-> i, off |-> 0]
  BY <1>1, <1>2, Zenon DEF NewOpen
<1> QED  BY <1>3, <1>4 DEF FileSet, Opens

\* filealloc and fdalloc: one file and one descriptor for it.
LEMMA TablesOpened ==
  ASSUME NEW ft, NEW of, Tables(ft, of), NEW k \in Idx, ft[k].ref = 0, NEW fd \in Fd, of[fd] = 0,
         NEW f \in FileSet, f.ref = 1, Opens(f), NEW ft2, ft2 = [ft EXCEPT ![k] = f],
         NEW of2, of2 = [of EXCEPT ![fd] = k]
  PROVE  Tables(ft2, of2)
<1>1. ft \in [Idx -> FileSet] /\ of \in [Fd -> Idx \cup {0}] /\ 0 \notin Idx
  BY TableSets DEF Tables
<1>2. ft2 \in [Idx -> FileSet] /\ ft2[k] = f /\ \A l \in Idx : l # k => ft2[l] = ft[l]
  BY <1>1
<1>w. PICK w : w = of[fd]
  OBVIOUS
<1>0. w # k /\ w = 0
  BY <1>1, <1>w
<1>3. Counted(of, of2, w, k)
  <2>1. Redirected(of, of2, fd, w, k)
    BY <1>1, <1>w, <1>0 DEF Redirected
  <2> QED  BY <2>1, DescSet
<1>4. \A l \in Idx : ft[l].ref = Cardinality(Descs(of, l)) /\ (ft[l].ref > 0 => Opens(ft[l]))
  BY DEF Tables
<1>5. ASSUME NEW l \in Idx PROVE ft2[l].ref = Cardinality(Descs(of2, l)) /\ (ft2[l].ref > 0 => Opens(ft2[l]))
  <2>1. CASE l = k
    BY <1>2, <1>3, <1>4, <2>1 DEF Counted
  <2>2. CASE l # k
    BY <1>0, <1>1, <1>2, <1>3, <1>4, <2>2 DEF Counted
  <2> QED  BY <2>1, <2>2
<1> QED  BY <1>2, <1>3, <1>5 DEF Tables, Counted

-----------------------------------------------------------------------------
(* The steps.                                                              *)

\* What a step has to leave.
LEMMA Primed ==
  ASSUME Rest(fs', RefsOf(ftable')), Tables(ftable', ofile'), Calling(call', ftable')
  PROVE  IInv'
BY DEF IInv

\* Before a call.
LEMMA Before ==
  ASSUME IInv, Ok(fs), NEW B, B = RefsOf(ftable)
  PROVE  /\ Rest(fs, B) /\ Kept(fs, fs, 0, B, 0, 0, 0, 0) /\ Few(B) /\ B \in [Inum -> Nat]
         /\ Tables(ftable, ofile) /\ Calling(call, ftable)
<1>1. Rest(fs, B) /\ Tables(ftable, ofile) /\ Calling(call, ftable)
  BY DEF IInv
<1>2. Few(B) /\ B \in [Inum -> Nat]
  BY <1>1, FewFiles
<1> QED  BY <1>1, <1>2, RestKept

\* No write is in progress.
LEMMA NoCallIs ==
  ASSUME NEW ft
  PROVE  Calling(NoCall, ft)
<1>1. NoCall \in CallSet
  BY DEF NoCall, CallSet
<1> QED  BY <1>1 DEF Calling

\* One more file is open.
LEMMA RestAdd ==
  ASSUME NEW s, NEW ft, NEW ft2, NEW of2, Tables(ft2, of2), NEW k, NEW i, OneMore(ft, ft2, k, i),
         Kept(s, s, 0, RefsOf(ft), i, 0, 0, 0)
  PROVE  Rest(s, RefsOf(ft2))
<1>1. PICK B : B = RefsOf(ft)
  OBVIOUS
<1>2. PICK B2 : B2 = RefsOf(ft2)
  OBVIOUS
<1>3. \A j \in Inum : Held(B2, 0, 0, j) = Held(B, i, 0, j)
  BY <1>1, <1>2, RefsAdd
<1>4. B2 \in [Inum -> Nat] /\ 0 \in Inum \cup {0}
  BY <1>2, FewFiles
<1>5. Slots(s, B, i, 0, 0, 0) /\ Sound(s, 0) /\ Ok(s)
  BY <1>1, KeptIs
<1>6. Slots(s, B2, 0, 0, 0, 0)
  BY <1>3, <1>4, <1>5, SlotsRecounted
<1>7. s.panic # NoInodes
  BY <1>5 DEF Ok, NoInodes
<1>8. Rest(s, B2)
  BY <1>5, <1>6, <1>7 DEF Rest
<1> QED  BY <1>2, <1>8

\* One file less is open; its inode is still held.
LEMMA KeptDrop ==
  ASSUME NEW s, NEW ft, NEW ft2, NEW of2, Tables(ft2, of2), NEW k, NEW i, OneMore(ft2, ft, k, i),
         Kept(s, s, 0, RefsOf(ft), 0, 0, 0, 0)
  PROVE  Kept(s, s, 0, RefsOf(ft2), i, 0, 0, 0)
<1>1. PICK B : B = RefsOf(ft)
  OBVIOUS
<1>2. PICK B2 : B2 = RefsOf(ft2)
  OBVIOUS
<1>3. \A j \in Inum : Held(B2, i, 0, j) = Held(B, 0, 0, j)
  BY <1>1, <1>2, RefsAdd
<1>4. B2 \in [Inum -> Nat] /\ i \in Inum \cup {0}
  BY <1>2, FewFiles DEF OneMore
<1>5. Slots(s, B, 0, 0, 0, 0) /\ Sound(s, 0) /\ Ok(s)
  BY <1>1, KeptIs
<1>6. Slots(s, B2, i, 0, 0, 0)
  BY <1>3, <1>4, <1>5, SlotsRecounted
<1>7. Kept(s, s, 0, B2, i, 0, 0, 0)
  BY <1>5, <1>6 DEF Kept, Alike
<1> QED  BY <1>2, <1>7

\* filealloc and fdalloc return a free entry.
LEMMA Firsts ==
  /\ FreeIdx # {} => Min(FreeIdx) \in Idx /\ ftable[Min(FreeIdx)].ref = 0
  /\ FreeFd # {} => Min(FreeFd) \in Fd /\ ofile[Min(FreeFd)] = 0
<1>1. FreeIdx \in SUBSET Nat /\ FreeFd \in SUBSET Nat
  BY TableSets DEF FreeIdx, FreeFd
<1>2. FreeIdx # {} => Min(FreeIdx) \in FreeIdx
  BY <1>1, MinIs
<1>3. FreeFd # {} => Min(FreeFd) \in FreeFd
  BY <1>1, MinIs
<1> QED  BY <1>2, <1>3 DEF FreeIdx, FreeFd

\* open keeps the invariant.
LEMMA OpenStep ==
  ASSUME IInv, \A p \in Paths : ~p.empty, NEW path \in Paths, NEW mode, SysOpen(path, mode)
  PROVE  IInv'
<1>b. PICK B : B = RefsOf(ftable)
  OBVIOUS
<1>l. PICK l : l = Lookup(path, mode)
  OBVIOUS
<1>u. PICK u : u = l.s
  OBVIOUS
<1>i. PICK i : i = l.v
  OBVIOUS
<1>k. PICK k : k = Min(FreeIdx)
  OBVIOUS
<1>f. PICK fd : fd = Min(FreeFd)
  OBVIOUS
<1>w. PICK w : w = IF "O_TRUNC" \in mode /\ u.ic[i].d.type = "T_FILE" THEN Itrunc(u, i) ELSE u
  OBVIOUS
<1>1. Ready /\ Opened(l, mode) /\ call' = call
  BY <1>l DEF SysOpen
<1>2. Ok(fs) /\ call = NoCall
  BY <1>1 DEF Ready
<1>3. /\ Rest(fs, B) /\ Kept(fs, fs, 0, B, 0, 0, 0, 0) /\ Few(B) /\ B \in [Inum -> Nat]
      /\ Tables(ftable, ofile)
  BY <1>b, <1>2, Before
<1>4. path \in PathSet /\ ~path.empty
  BY FileSysAssumption DEF PathSet
<1>5. Gives(Lookup(path, mode), u, i)
  BY <1>l, <1>u, <1>i DEF Gives
<1>6. Found(fs, B, u, i, mode)
  BY <1>3, <1>4, <1>5, LookupIs
<1>7. Calling(call', ftable')
  BY <1>1, <1>2, NoCallIs
<1>8. CASE i = 0 \/ FreeIdx = {} \/ FreeFd = {}
  <2>t. PICK t : t = (IF i = 0 THEN u ELSE Iput(Iunlock(u, i), i))
    OBVIOUS
  <2>1. Commit(t) /\ ftable' = ftable /\ ofile' = ofile
    BY <1>1, <1>8, <1>u, <1>i, <2>t, Zenon DEF Opened
  <2>2. fs' = Committed(fs, t)
    BY <2>1, CommitIs
  <2>3. Rest(fs', B)
    <3>1. Stuck(fs, t) \/ Kept(t, t, 0, B, 0, 0, 0, 0)
      BY <1>6, <2>t, OpenFails
    <3>2. CASE Stuck(fs, t)
      BY <1>3, <2>2, <3>2, CommitStuck
    <3>3. CASE Kept(t, t, 0, B, 0, 0, 0, 0)
      BY <2>2, <3>3, CommitKept
    <3> QED  BY <3>1, <3>2, <3>3
  <2> QED  BY <1>3, <1>7, <1>b, <2>1, <2>3, Primed
<1>9. CASE ~(i = 0 \/ FreeIdx = {} \/ FreeFd = {})
  <2>t. PICK t : t = Iunlock(w, i)
    OBVIOUS
  <2>1. /\ Commit(t)
        /\ ~Ok(t) => ftable' = ftable /\ ofile' = ofile
        /\ Ok(t) => /\ ftable' = [ftable EXCEPT ![k] = NewOpen(mode, i)]
                    /\ ofile' = [ofile EXCEPT ![fd] = k]
    BY <1>1, <1>9, <1>u, <1>i, <1>k, <1>f, <1>w, <2>t, Zenon DEF Opened, NewOpen
  <2>2. fs' = Committed(fs, t)
    BY <2>1, CommitIs
  <2>3. \/ Stuck(fs, t)
        \/ i \in Inum /\ (mode # {} => i # Root) /\ Kept(t, t, 0, B, i, 0, 0, 0)
    <3>1. w = u \/ (w = Itrunc(u, i) /\ mode # {})
      BY <1>w
    <3> QED  BY <1>6, <1>9, <2>t, <3>1, OpenWorks
  <2>4. CASE Stuck(fs, t)
    <3>1. Rest(fs', B) /\ ~Ok(t)
      BY <1>3, <2>2, <2>4, CommitStuck
    <3> QED  BY <1>3, <1>7, <1>b, <2>1, <3>1, Primed
  <2>5. CASE i \in Inum /\ (mode # {} => i # Root) /\ Kept(t, t, 0, B, i, 0, 0, 0)
    <3>f. PICK f : f = NewOpen(mode, i)
      OBVIOUS
    <3>1. f \in FileSet /\ f.ref = 1 /\ f.ip = i /\ Opens(f)
      BY <2>5, <3>f, NewOpenIs
    <3>2. Ok(t) /\ fs' = t
      BY <2>2, <2>5, KeptIs DEF Committed
    <3>3. k \in Idx /\ ftable[k].ref = 0 /\ fd \in Fd /\ ofile[fd] = 0
      BY <1>9, <1>k, <1>f, Firsts
    <3>4. ftable' = [ftable EXCEPT ![k] = f] /\ ofile' = [ofile EXCEPT ![fd] = k]
      BY <2>1, <3>2, <3>f
    <3>5. Tables(ftable', ofile')
      BY <1>3, <3>1, <3>3, <3>4, TablesOpened
    <3>6. OneMore(ftable, ftable', k, i)
      BY <1>3, <2>5, <3>1, <3>3, <3>4 DEF OneMore, Tables
    <3>7. Rest(t, RefsOf(ftable'))
      BY <1>b, <2>5, <3>5, <3>6, RestAdd
    <3> QED  BY <1>7, <3>2, <3>5, <3>7, Primed
  <2> QED  BY <2>3, <2>4, <2>5
<1> QED  BY <1>8, <1>9

-----------------------------------------------------------------------------
\* An open descriptor leads to an open file.
LEMMA FileOf ==
  ASSUME NEW ft, NEW of, Tables(ft, of), NEW fd \in Fd, NEW k, k = of[fd], k # 0
  PROVE  k \in Idx /\ ft[k] \in FileSet /\ ft[k].ref > 0 /\ Opens(ft[k])
<1>1. k \in Idx /\ ft[k].ref = Cardinality(Descs(of, k)) /\ (ft[k].ref > 0 => Opens(ft[k])) /\ ft[k] \in FileSet
  BY DEF Tables
<1>2. Cardinality(Descs(of, k)) > 0
  BY DescsIs
<1> QED  BY <1>1, <1>2

\* The inode of an open file has a reference.
LEMMA FileHeld ==
  ASSUME NEW ft, NEW of, Tables(ft, of), NEW k \in Idx, ft[k].ref > 0, NEW i, i = ft[k].ip, NEW B, B = RefsOf(ft)
  PROVE  i \in Inum /\ i # 0 /\ Held(B, 0, 0, i) > 0 /\ (ft[k].writable => i # Root)
<1>1. i \in Inum /\ (ft[k].writable => i # Root) /\ i # 0
  BY Consts DEF Tables, Opens
<1>2. Cardinality(FilesOn(ft, i)) > 0 /\ Cardinality(FilesOn(ft, i)) \in Nat
  BY FilesOnIs
<1>3. B[i] > 0 /\ B[i] \in Nat
  BY <1>1, <1>2 DEF RefsOf
<1> QED  BY <1>1, <1>3 DEF Held

\* A file's offset moves.
Shifted(ft, ft2, k, n) == ft2 = [ft EXCEPT ![k].off = @ + n]

\* It keeps its references.
LEMMA OffMoved ==
  ASSUME NEW ft, NEW of, Tables(ft, of), NEW k \in Idx, NEW n \in Nat, NEW ft2, Shifted(ft, ft2, k, n)
  PROVE  /\ Tables(ft2, of) /\ RefsOf(ft2) = RefsOf(ft)
         /\ \A l \in Idx : ft2[l].ref = ft[l].ref /\ ft2[l].writable = ft[l].writable
<1>1. ft \in [Idx -> FileSet]
  BY DEF Tables
<1>2. ft2 \in [Idx -> FileSet]
  BY <1>1 DEF FileSet, Shifted
<1>3. \A l \in Idx : /\ ft2[l].ref = ft[l].ref /\ ft2[l].writable = ft[l].writable /\ ft2[l].ip = ft[l].ip
                     /\ ft2[l].type = ft[l].type
  BY <1>1 DEF FileSet, Shifted
<1>4. RefsOf(ft2) = RefsOf(ft)
  BY <1>3, RefsSame
<1>5. Tables(ft2, of)
  BY <1>2, <1>3 DEF Tables, Opens
<1> QED  BY <1>3, <1>4, <1>5

\* A call with a bad descriptor keeps the invariant.
LEMMA BadFdStep ==
  ASSUME IInv, NEW fd, SysBadFd(fd)
  PROVE  IInv'
<1>1. fs' = fs /\ ftable' = ftable /\ ofile' = ofile /\ call' = call
  BY DEF SysBadFd
<1> QED  BY <1>1 DEF IInv

\* dup keeps the invariant.
LEMMA DupStep ==
  ASSUME IInv, NEW old \in Fd, SysDup(old)
  PROVE  IInv'
<1>k. PICK k : k = ofile[old]
  OBVIOUS
<1>f. PICK fd : fd = Min(FreeFd)
  OBVIOUS
<1>1. Ok(fs) /\ call = NoCall /\ k # 0 /\ fs' = fs /\ call' = call
  BY <1>k DEF SysDup, Ready
<1>2. Rest(fs, RefsOf(ftable)) /\ Tables(ftable, ofile) /\ Calling(call', ftable')
  BY <1>1, NoCallIs DEF IInv
<1>3. CASE FreeFd = {}
  BY <1>1, <1>2, <1>3, Primed DEF SysDup
<1>4. CASE FreeFd # {}
  <2>1. ftable' = [ftable EXCEPT ![k].ref = @ + 1] /\ ofile' = [ofile EXCEPT ![fd] = k]
    BY <1>4, <1>k, <1>f DEF SysDup
  <2>2. k \in Idx /\ ftable[k] \in FileSet /\ ftable[k].ref > 0 /\ Opens(ftable[k])
    BY <1>1, <1>2, <1>k, FileOf
  <2>3. fd \in Fd /\ ofile[fd] = 0
    BY <1>4, <1>f, Firsts
  <2>4. ftable \in [Idx -> FileSet] /\ ofile \in [Fd -> Idx \cup {0}] /\ 0 \notin Idx
    BY <1>2, TableSets DEF Tables
  <2>w. PICK w : w = ofile[fd]
    OBVIOUS
  <2>5. w = 0 /\ w # k
    BY <2>2, <2>3, <2>4, <2>w
  <2>6. Counted(ofile, ofile', w, k)
    <3>1. Redirected(ofile, ofile', fd, w, k)
      BY <2>1, <2>2, <2>3, <2>4, <2>5, <2>w DEF Redirected
    <3> QED  BY <3>1, DescSet
  <2>7. ftable' \in [Idx -> FileSet]
    BY <2>1, <2>2, <2>4 DEF FileSet
  <2>8. /\ \A l \in Idx : /\ ftable'[l].type = ftable[l].type /\ ftable'[l].ip = ftable[l].ip
                          /\ ftable'[l].writable = ftable[l].writable
        /\ ftable'[k].ref = ftable[k].ref + 1 /\ \A l \in Idx : l # k => ftable'[l].ref = ftable[l].ref
        /\ \A l \in Idx : ftable[l].ref \in Nat
    BY <2>1, <2>2, <2>4 DEF FileSet
  <2>9. RefsOf(ftable') = RefsOf(ftable)
    <3>1. \A l \in Idx : (ftable'[l].ref > 0 <=> ftable[l].ref > 0) /\ ftable'[l].ip = ftable[l].ip
      BY <2>2, <2>8
    <3> QED  BY <3>1, RefsSame
  <2>10. ASSUME NEW l \in Idx
         PROVE  ftable'[l].ref = Cardinality(Descs(ofile', l)) /\ (ftable'[l].ref > 0 => Opens(ftable'[l]))
    <3>1. ftable[l].ref = Cardinality(Descs(ofile, l)) /\ (ftable[l].ref > 0 => Opens(ftable[l]))
      BY <1>2 DEF Tables
    <3>2. CASE l = k
      BY <2>2, <2>6, <2>8, <3>1, <3>2 DEF Counted, Opens
    <3>3. CASE l # k
      BY <2>4, <2>5, <2>6, <2>8, <3>1, <3>3 DEF Counted, Opens
    <3> QED  BY <3>2, <3>3
  <2>11. Tables(ftable', ofile')
    BY <2>6, <2>7, <2>10 DEF Tables, Counted
  <2> QED  BY <1>1, <1>2, <2>9, <2>11, Primed
<1> QED  BY <1>3, <1>4

\* close keeps the invariant.
LEMMA CloseStep ==
  ASSUME IInv, NEW fd \in Fd, SysClose(fd)
  PROVE  IInv' /\ Alike(fs, fs')
<1>k. PICK k : k = ofile[fd]
  OBVIOUS
<1>i. PICK i : i = ftable[k].ip
  OBVIOUS
<1>b. PICK B : B = RefsOf(ftable)
  OBVIOUS
<1>1. Ok(fs) /\ call = NoCall /\ k # 0 /\ call' = call /\ ofile' = [ofile EXCEPT ![fd] = 0]
  BY <1>k DEF SysClose, Ready
<1>2. Calling(call', ftable') /\ Tables(ftable, ofile) /\ Rest(fs, B) /\ Kept(fs, fs, 0, B, 0, 0, 0, 0)
  BY <1>1, <1>b, NoCallIs, Before
<1>3. k \in Idx /\ ftable[k] \in FileSet /\ ftable[k].ref > 0 /\ Opens(ftable[k])
  BY <1>1, <1>2, <1>k, FileOf
<1>4. ftable \in [Idx -> FileSet] /\ ofile \in [Fd -> Idx \cup {0}] /\ 0 \notin Idx
  BY <1>2, TableSets DEF Tables
<1>5. \A l \in Idx : ftable[l].ref = Cardinality(Descs(ofile, l)) /\ (ftable[l].ref > 0 => Opens(ftable[l]))
  BY <1>2 DEF Tables
<1>z. PICK z : z = 0
  OBVIOUS
<1>6. Counted(ofile, ofile', k, z)
  <2>1. Redirected(ofile, ofile', fd, k, z)
    BY <1>1, <1>k, <1>4, <1>z DEF Redirected
  <2> QED  BY <2>1, DescSet
<1>7. CASE ftable[k].ref > 1
  <2>1. ftable' = [ftable EXCEPT ![k].ref = @ - 1] /\ fs' = fs
    BY <1>7, <1>k DEF SysClose
  <2>2. ftable[k].ref \in Nat /\ ftable[k].ref - 1 \in Nat
    BY <1>3, <1>7 DEF FileSet
  <2>3. ftable' \in [Idx -> FileSet]
    BY <2>1, <2>2, <1>3, <1>4 DEF FileSet
  <2>4. /\ \A l \in Idx : /\ ftable'[l].type = ftable[l].type /\ ftable'[l].ip = ftable[l].ip
                          /\ ftable'[l].writable = ftable[l].writable
        /\ ftable'[k].ref = ftable[k].ref - 1 /\ \A l \in Idx : l # k => ftable'[l].ref = ftable[l].ref
    BY <2>1, <2>2, <1>3, <1>4 DEF FileSet
  <2>5. RefsOf(ftable') = RefsOf(ftable)
    <3>1. \A l \in Idx : (ftable'[l].ref > 0 <=> ftable[l].ref > 0) /\ ftable'[l].ip = ftable[l].ip
      BY <1>3, <1>7, <2>2, <2>4
    <3> QED  BY <3>1, RefsSame
  <2>6. ASSUME NEW l \in Idx
        PROVE  ftable'[l].ref = Cardinality(Descs(ofile', l)) /\ (ftable'[l].ref > 0 => Opens(ftable'[l]))
    <3>1. CASE l = k
      BY <1>3, <1>5, <1>6, <2>4, <3>1 DEF Counted, Opens
    <3>2. CASE l # k
      BY <1>4, <1>5, <1>6, <1>z, <2>4, <3>2 DEF Counted, Opens
    <3> QED  BY <3>1, <3>2
  <2>7. Tables(ftable', ofile')
    BY <1>6, <2>3, <2>6 DEF Tables, Counted
  <2>8. Alike(fs, fs')
    BY <2>1 DEF Alike
  <2> QED  BY <1>2, <1>b, <2>1, <2>5, <2>7, <2>8, Primed
<1>8. CASE ~(ftable[k].ref > 1)
  <2>t. PICK t : t = Iput(fs, i)
    OBVIOUS
  <2>1. ftable' = [ftable EXCEPT ![k] = NoFile] /\ Commit(t)
    BY <1>8, <1>k, <1>i, <1>3, <2>t DEF SysClose, Opens
  <2>2. NoFile \in FileSet /\ NoFile.ref = 0 /\ ftable[k].ref = 1
    BY <1>3, <1>8 DEF NoFile, FileSet
  <2>3. ftable' \in [Idx -> FileSet] /\ ftable'[k].ref = 0 /\ \A l \in Idx : l # k => ftable'[l] = ftable[l]
    BY <1>3, <1>4, <2>1, <2>2
  <2>4. ASSUME NEW l \in Idx
        PROVE  ftable'[l].ref = Cardinality(Descs(ofile', l)) /\ (ftable'[l].ref > 0 => Opens(ftable'[l]))
    <3>1. CASE l = k
      BY <1>3, <1>5, <1>6, <2>2, <2>3, <3>1 DEF Counted
    <3>2. CASE l # k
      BY <1>4, <1>5, <1>6, <1>z, <2>3, <3>2 DEF Counted
    <3> QED  BY <3>1, <3>2
  <2>5. Tables(ftable', ofile')
    BY <1>6, <2>3, <2>4 DEF Tables, Counted
  <2>6. i \in Inum /\ i # 0
    BY <1>2, <1>3, <1>i, <1>b, FileHeld
  <2>7. OneMore(ftable', ftable, k, i)
    BY <1>3, <1>i, <2>3, <2>6 DEF OneMore
  <2>8. Kept(fs, fs, 0, RefsOf(ftable'), i, 0, 0, 0)
    BY <1>2, <1>b, <2>5, <2>7, KeptDrop
  <2>c. PICK B2 : B2 = RefsOf(ftable')
    OBVIOUS
  <2>9. Kept(fs, fs, 0, B2, i, 0, 0, 0)
    BY <2>8, <2>c
  <2>10. Kept(fs, t, 0, B2, 0, 0, 0, 0)
    BY <2>6, <2>9, <2>t, IputIs
  <2>11. Rest(fs', B2) /\ Alike(fs, fs')
    BY <2>1, <2>10, CommitIs, CommitKept, KeptIs
  <2> QED  BY <1>2, <2>5, <2>11, <2>c, Primed
<1> QED  BY <1>7, <1>8

-----------------------------------------------------------------------------
\* What read finds in the file on inode i: at most n cells from off on.
LEMMA ReadIs ==
  ASSUME NEW B, Kept(fs, fs, 0, B, 0, 0, 0, 0), NEW i \in Inum, Held(B, 0, 0, i) > 0, NEW off \in Nat,
         NEW n \in Nat, NEW u, u = Ilock(fs, i), NEW w, NEW v, Gives(Readi(u, i, off, n), w, v),
         NEW t, t = Iunlock(w, i), NEW m, m = Reads(Dsk(fs, i).size, off, n)
  PROVE  /\ w = u /\ Kept(fs, t, 0, B, 0, 0, 0, 0)
         /\ m \in Nat /\ v \in Seq(Cell) /\ Len(v) = m
         /\ \A k \in 1..m : v[k] = Cel(fs, i, off + k - 1)
         /\ off > Dsk(fs, i).size \/ off + m <= Dsk(fs, i).size
<1>0. i # 0
  BY Consts
<1>1. Kept(fs, u, 0, B, 0, 0, i, 0)
  BY <1>0, IlockIs
<1>2. u \in FsValue /\ Ok(u) /\ Disk(u) /\ Mem(u, i) = Dsk(u, i) /\ Alike(fs, u)
  BY <1>1, KeptIs, LockedIs
<1>3. Dsk(u, i) = Dsk(fs, i) /\ \A pos : Cel(u, i, pos) = Cel(fs, i, pos)
  BY <1>2, AlikeIs
<1>4. /\ w = u /\ m \in Nat /\ v \in Seq(Cell) /\ Len(v) = m
      /\ \A k \in 1..m : v[k] = Cel(u, i, off + k - 1)
      /\ off > Dsk(u, i).size \/ off + m <= Dsk(u, i).size
  <2>1. m = Reads(Dsk(u, i).size, off, n)
    BY <1>3
  <2> QED  BY <1>2, <2>1, ReadiIs
<1>5. Kept(fs, t, 0, B, 0, 0, 0, 0)
  BY <1>0, <1>1, <1>4, IunlockIs
<1> QED  BY <1>3, <1>4, <1>5

\* read keeps the invariant.
LEMMA ReadStep ==
  ASSUME IInv, NEW fd \in Fd, NEW n \in Counts, SysRead(fd, n)
  PROVE  IInv' /\ Alike(fs, fs')
<1>k. PICK k : k = ofile[fd]
  OBVIOUS
<1>i. PICK i : i = ftable[k].ip
  OBVIOUS
<1>o. PICK off : off = ftable[k].off
  OBVIOUS
<1>b. PICK B : B = RefsOf(ftable)
  OBVIOUS
<1>u. PICK u : u = Ilock(fs, i)
  OBVIOUS
<1>r. PICK r : r = Readi(u, i, off, n)
  OBVIOUS
<1>w. PICK w : w = r.s
  OBVIOUS
<1>v. PICK v : v = r.v
  OBVIOUS
<1>t. PICK t : t = Iunlock(w, i)
  OBVIOUS
<1>1. Ok(fs) /\ call = NoCall /\ k # 0 /\ call' = call /\ ofile' = ofile
  BY <1>k DEF SysRead, Ready
<1>2. Calling(call', ftable') /\ Tables(ftable, ofile) /\ Rest(fs, B) /\ Kept(fs, fs, 0, B, 0, 0, 0, 0)
  BY <1>1, <1>b, NoCallIs, Before
<1>3. k \in Idx /\ ftable[k] \in FileSet /\ ftable[k].ref > 0
  BY <1>1, <1>2, <1>k, FileOf
<1>4. i \in Inum /\ Held(B, 0, 0, i) > 0 /\ off \in Nat /\ n \in Nat
  BY <1>2, <1>3, <1>i, <1>b, <1>o, FileHeld, FileSysAssumption DEF FileSet
<1>5. Gives(Readi(u, i, off, n), w, v)
  BY <1>r, <1>w, <1>v DEF Gives
<1>6. Kept(fs, t, 0, B, 0, 0, 0, 0) /\ Len(v) \in Nat
  <2>m. PICK m : m = Reads(Dsk(fs, i).size, off, n)
    OBVIOUS
  <2> QED  BY <1>2, <1>4, <1>5, <1>u, <1>t, <2>m, ReadIs
<1>7. Ok(t)
  BY <1>6, KeptIs
<1>8. CASE ~ftable[k].readable
  <2>1. fs' = fs /\ ftable' = ftable
    BY <1>8, <1>k DEF SysRead
  <2>2. Alike(fs, fs')
    BY <2>1 DEF Alike
  <2> QED  BY <1>1, <1>2, <1>b, <2>1, <2>2, Primed
<1>9. CASE ftable[k].readable
  <2>1. Commit(t) /\ (Ok(t) => ftable' = [ftable EXCEPT ![k].off = @ + Len(v)])
    BY <1>9, <1>k, <1>i, <1>o, <1>u, <1>r, <1>w, <1>v, <1>t, Zenon DEF SysRead
  <2>2. Rest(fs', B) /\ Alike(fs, fs')
    BY <1>6, <2>1, CommitIs, CommitKept, KeptIs
  <2>3. Tables(ftable', ofile) /\ RefsOf(ftable') = RefsOf(ftable)
    <3>p. PICK p : p = Len(v)
      OBVIOUS
    <3>1. p \in Nat /\ Shifted(ftable, ftable', k, p)
      BY <1>6, <1>7, <2>1, <3>p DEF Shifted
    <3> QED  BY <1>2, <1>3, <3>1, OffMoved
  <2> QED  BY <1>1, <1>2, <1>b, <2>2, <2>3, Primed
<1> QED  BY <1>8, <1>9

\* fstat keeps the invariant.
LEMMA FstatStep ==
  ASSUME IInv, NEW fd \in Fd, SysFstat(fd)
  PROVE  IInv' /\ Alike(fs, fs') /\ Ok(fs')
<1>k. PICK k : k = ofile[fd]
  OBVIOUS
<1>i. PICK i : i = ftable[k].ip
  OBVIOUS
<1>b. PICK B : B = RefsOf(ftable)
  OBVIOUS
<1>u. PICK u : u = Ilock(fs, i)
  OBVIOUS
<1>t. PICK t : t = Iunlock(u, i)
  OBVIOUS
<1>1. Ok(fs) /\ call = NoCall /\ k # 0 /\ call' = call /\ ofile' = ofile /\ ftable' = ftable
  BY <1>k DEF SysFstat, Ready
<1>2. Calling(call', ftable') /\ Tables(ftable, ofile) /\ Rest(fs, B) /\ Kept(fs, fs, 0, B, 0, 0, 0, 0)
  BY <1>1, <1>b, NoCallIs, Before
<1>3. k \in Idx /\ ftable[k].ref > 0
  BY <1>1, <1>2, <1>k, FileOf
<1>4. i \in Inum /\ i # 0 /\ Held(B, 0, 0, i) > 0
  BY <1>2, <1>3, <1>i, <1>b, FileHeld
<1>5. Kept(fs, u, 0, B, 0, 0, i, 0)
  BY <1>2, <1>4, <1>u, IlockIs
<1>6. Kept(fs, t, 0, B, 0, 0, 0, 0)
  BY <1>4, <1>5, <1>t, IunlockIs
<1>7. Commit(t)
  BY <1>k, <1>i, <1>u, <1>t DEF SysFstat
<1>8. Rest(fs', B) /\ Alike(fs, fs') /\ Ok(fs')
  BY <1>6, <1>7, CommitIs, CommitKept, KeptIs
<1> QED  BY <1>1, <1>2, <1>b, <1>8, Primed

\* The checks of write keep the invariant.
LEMMA WriteStep ==
  ASSUME IInv, NEW fd \in Fd, NEW cells \in Writes, SysWrite(fd, cells)
  PROVE  IInv'
<1>1. Ok(fs) /\ call = NoCall /\ ofile[fd] # 0 /\ fs' = fs /\ ftable' = ftable /\ ofile' = ofile
  BY DEF SysWrite, Ready
<1>2. Rest(fs', RefsOf(ftable')) /\ Tables(ftable', ofile')
  BY <1>1 DEF IInv
<1>3. CASE ftable[ofile[fd]].writable /\ cells # <<>>
  <2>1. call' = [f |-> ofile[fd], n |-> Len(cells), cells |-> cells]
    BY <1>3 DEF SysWrite
  <2>2. ofile[fd] \in Idx /\ ftable[ofile[fd]].ref > 0
    BY <1>1, FileOf DEF IInv
  <2>3. cells \in Seq(Byte) /\ Len(cells) \in Nat
    BY FileSysAssumption
  <2>4. Calling(call', ftable')
    BY <1>1, <1>3, <2>1, <2>2, <2>3 DEF Calling, CallSet
  <2> QED  BY <1>2, <2>4, Primed
<1>4. CASE ~(ftable[ofile[fd]].writable /\ cells # <<>>)
  <2>1. call' = call
    BY <1>4 DEF SysWrite
  <2> QED  BY <1>1, <1>2, <2>1, NoCallIs, Primed
<1> QED  BY <1>3, <1>4

\* A transaction of write.
LEMMA ChunkIs ==
  ASSUME NEW B, Kept(fs, fs, 0, B, 0, 0, 0, 0), NEW i \in Inum, i # Root, Held(B, 0, 0, i) > 0,
         NEW off \in Nat, NEW cells \in Seq(Cell), NEW u, u = Ilock(fs, i),
         NEW w, NEW v, Gives(Writei(u, i, off, cells), w, v), NEW t, t = Iunlock(w, i)
  PROVE  \/ Stuck(fs, t)
         \/ /\ Kept(t, t, 0, B, 0, 0, 0, 0) /\ Alike(fs, u) /\ u \in FsValue /\ Disk(u) /\ InUse(u, i)
            /\ \/ Alike(fs, t) /\ No(v)
               \/ Yes(v) /\ off <= Dsk(u, i).size /\ Written(u, w, i, off, cells) /\ Alike(w, t)
<1>1. Kept(fs, u, 0, B, 0, 0, i, 0) /\ i # 0
  BY Consts, IlockIs
<1>2. u \in FsValue /\ Ok(u) /\ Disk(u) /\ Sound(u, 0) /\ Mem(u, i) = Dsk(u, i) /\ InUse(u, i)
  BY <1>1, KeptIs, LockedIs
<1>3. Kept(u, u, 0, B, 0, 0, i, 0)
  BY <1>1, KeptSelf
<1>4. \/ w = u /\ No(v)
      \/ Full(w)
      \/ Yes(v) /\ off <= Dsk(u, i).size /\ Written(u, w, i, off, cells)
  BY <1>2, WriteiIs
<1>5. CASE Full(w)
  <2>1. ~Ok(w)
    BY <1>5 DEF Full, Ok, NoBlock
  <2>2. t = w
    BY <2>1, PanicStays
  <2> QED  BY <1>5, <2>2 DEF Stuck
<1>6. ASSUME Kept(w, w, 0, B, 0, 0, i, 0) PROVE Kept(t, t, 0, B, 0, 0, 0, 0) /\ Alike(w, t)
  <2>1. Kept(w, t, 0, B, 0, 0, 0, 0)
    BY <1>1, <1>6, IunlockIs
  <2> QED  BY <2>1, KeptSelf, KeptIs
<1>a. Alike(fs, u)
  BY <1>1, KeptIs
<1>7. CASE w = u /\ No(v)
  <2>1. Kept(t, t, 0, B, 0, 0, 0, 0) /\ Alike(u, t)
    BY <1>3, <1>6, <1>7
  <2> QED  BY <1>2, <1>7, <1>a, <2>1, AlikeTwice
<1>8. CASE Yes(v) /\ off <= Dsk(u, i).size /\ Written(u, w, i, off, cells)
  <2>1. \A o \in 0..(DirSize(u) - 1) : Ent(w, o) = Ent(u, o)
    <3>1. DirSize(u) \in Nat
      BY <1>2, DirIs
    <3>2. \A pos \in Nat : pos < DirSize(u) => Cel(w, Root, pos) = Cel(u, Root, pos)
      BY <1>8, Consts DEF Written, DirSize
    <3> QED  BY <3>1, <3>2 DEF Ent
  <2>2. Kept(w, w, 0, B, 0, 0, i, 0)
    BY <1>3, <1>8, <2>1, FileChanged DEF Written
  <2> QED  BY <1>2, <1>6, <1>8, <1>a, <2>2
<1> QED  BY <1>4, <1>5, <1>7, <1>8

\* What a transaction of write takes from the data, and what it leaves.
LEMMA ChunkCells ==
  ASSUME NEW seq \in Seq(Byte), NEW m, m = Min({Len(seq), MaxOpBlocks * BSize}),
         NEW cells, cells = [k \in 1..m |-> Raw(seq[k])]
  PROVE  m \in Nat /\ cells \in Seq(Cell) /\ SubSeq(seq, m + 1, Len(seq)) \in Seq(Byte)
<1>n. PICK n : n = Len(seq)
  OBVIOUS
<1>1. n \in Nat /\ MaxOpBlocks * BSize \in Nat
  <2>1. n \in Nat
    BY <1>n
  <2>2. MaxOpBlocks \in Nat
    BY FileSysAssumption
  <2> QED  BY <2>1, <2>2, Consts
<1>2. m \in Nat /\ m <= n
  <2> DEFINE S == {n, MaxOpBlocks * BSize}
  <2>1. S \in SUBSET Nat /\ S # {} /\ n \in S
    BY <1>1
  <2>2. m = Min(S)
    BY <1>n
  <2> HIDE DEF S
  <2>3. Min(S) \in S /\ \A x \in S : Min(S) <= x
    BY <2>1, MinIs
  <2> QED  BY <2>1, <2>2, <2>3
<1>3. \A k \in 1..n : seq[k] \in Byte /\ seq[k] \in Nat
  <2>1. Byte \subseteq Nat
    BY FsAssumption
  <2>2. \A k \in 1..n : seq[k] \in Byte
    BY <1>n
  <2> QED  BY <2>1, <2>2
<1>4. \A k \in 1..m : Raw(seq[k]) \in Cell
  <2> SUFFICES ASSUME NEW k \in 1..m PROVE Raw(seq[k]) \in Cell
    OBVIOUS
  <2>1. k \in 1..n
    BY <1>1, <1>2
  <2>2. seq[k] \in Nat
    BY <1>3, <2>1
  <2> QED  BY <2>2 DEF Raw, Cell
<1>5. cells \in Seq(Cell)
  <2>1. cells \in [1..m -> Cell]
    BY <1>4
  <2> QED  BY <1>2, <2>1, SeqDef
<1>6. SubSeq(seq, m + 1, n) \in Seq(Byte)
  <2> DEFINE a == m + 1
  <2>1. a \in Int /\ n \in Int /\ \A j \in a..n : seq[j] \in Byte
    <3>1. a \in Nat /\ n \in Nat /\ a >= 1
      BY <1>1, <1>2
    <3> HIDE DEF a
    <3>2. \A j \in a..n : j \in 1..n
      BY <3>1
    <3> QED  BY <1>3, <3>1, <3>2
  <2> HIDE DEF a
  <2>2. SubSeq(seq, a, n) \in Seq(Byte)
    BY <2>1, SubSeqProperties
  <2> QED  BY <2>2 DEF a
<1> QED  BY <1>n, <1>2, <1>5, <1>6

\* A transaction of write keeps the invariant.
LEMMA ChunkStep ==
  ASSUME IInv, WriteChunk
  PROVE  IInv'
<1>k. PICK k : k = call.f
  OBVIOUS
<1>i. PICK i : i = ftable[k].ip
  OBVIOUS
<1>o. PICK off : off = ftable[k].off
  OBVIOUS
<1>b. PICK B : B = RefsOf(ftable)
  OBVIOUS
<1>m. PICK m : m = Min({Len(call.cells), MaxOpBlocks * BSize})
  OBVIOUS
<1>c. PICK cells : cells = [j \in 1..m |-> Raw(call.cells[j])]
  OBVIOUS
<1>u. PICK u : u = Ilock(fs, i)
  OBVIOUS
<1>r. PICK r : r = Writei(u, i, off, cells)
  OBVIOUS
<1>w. PICK w : w = r.s
  OBVIOUS
<1>v. PICK v : v = r.v
  OBVIOUS
<1>t. PICK t : t = Iunlock(w, i)
  OBVIOUS
<1>1. Ok(fs) /\ call # NoCall /\ ofile' = ofile
  BY DEF WriteChunk
<1>2. Calling(call, ftable) /\ Tables(ftable, ofile) /\ Rest(fs, B) /\ Kept(fs, fs, 0, B, 0, 0, 0, 0)
  BY <1>1, <1>b, Before
<1>3. k \in Idx /\ ftable[k].ref > 0 /\ ftable[k].writable /\ call \in CallSet /\ call.cells \in Seq(Byte)
  BY <1>1, <1>2, <1>k DEF Calling, CallSet
<1>4. i \in Inum /\ i # 0 /\ Held(B, 0, 0, i) > 0 /\ i # Root
  BY <1>2, <1>3, <1>i, <1>b, FileHeld
<1>5. off \in Nat
  BY <1>2, <1>3, <1>o DEF Tables, FileSet
<1>6. m \in Nat /\ cells \in Seq(Cell) /\ SubSeq(call.cells, m + 1, Len(call.cells)) \in Seq(Byte)
  BY <1>3, <1>m, <1>c, ChunkCells
<1>7. Gives(Writei(u, i, off, cells), w, v)
  BY <1>r, <1>w, <1>v DEF Gives
<1>8. Stuck(fs, t) \/ Kept(t, t, 0, B, 0, 0, 0, 0)
  BY <1>2, <1>4, <1>5, <1>6, <1>7, <1>u, <1>t, ChunkIs
<1>9. /\ Commit(t)
      /\ ~Ok(t) => ftable' = ftable /\ call' = call
      /\ Ok(t) => \/ ftable' = ftable /\ call' = NoCall
                  \/ /\ Shifted(ftable, ftable', k, m)
                     /\ \/ call' = NoCall
                        \/ call' = [call EXCEPT !.cells = SubSeq(@, m + 1, Len(@))]
  BY <1>k, <1>i, <1>o, <1>m, <1>c, <1>u, <1>r, <1>w, <1>v, <1>t, Zenon DEF WriteChunk, Shifted
<1>10. CASE Stuck(fs, t)
  <2>1. Rest(fs', B) /\ ~Ok(t)
    BY <1>2, <1>9, <1>10, CommitIs, CommitStuck
  <2> QED  BY <1>1, <1>2, <1>9, <1>b, <2>1, Primed
<1>11. CASE Kept(t, t, 0, B, 0, 0, 0, 0)
  <2>1. Rest(fs', B) /\ Ok(t)
    BY <1>9, <1>11, CommitIs, CommitKept
  <2>2. CASE ftable' = ftable /\ call' = NoCall
    BY <1>1, <1>2, <1>b, <2>1, <2>2, NoCallIs, Primed
  <2>3. CASE Shifted(ftable, ftable', k, m)
    <3>1. /\ Tables(ftable', ofile) /\ RefsOf(ftable') = RefsOf(ftable)
          /\ \A l \in Idx : ftable'[l].ref = ftable[l].ref /\ ftable'[l].writable = ftable[l].writable
      BY <1>2, <1>3, <1>6, <2>3, OffMoved
    <3>2. CASE call' = NoCall
      BY <1>1, <1>b, <2>1, <3>1, <3>2, NoCallIs, Primed
    <3>3. CASE call' = [call EXCEPT !.cells = SubSeq(@, m + 1, Len(@))]
      <4>1. call' \in CallSet /\ call'.f = k
        BY <1>3, <1>6, <1>k, <3>3 DEF CallSet
      <4>2. Calling(call', ftable')
        BY <1>3, <3>1, <4>1 DEF Calling
      <4> QED  BY <1>1, <1>b, <2>1, <3>1, <4>2, Primed
    <3>4. CASE ftable' = ftable /\ call' = NoCall
      BY <1>1, <1>2, <1>b, <2>1, <3>4, NoCallIs, Primed
    <3> QED  BY <1>9, <2>1, <3>2, <3>3, <3>4
  <2> QED  BY <1>9, <2>1, <2>2, <2>3
<1> QED  BY <1>8, <1>10, <1>11

-----------------------------------------------------------------------------
(* fs_init.                                                                *)

\* No file is open and no inode in memory.
Empty(s) == \A i \in Inum : Slot(s, i) = FreeSlot

NoFiles == [k \in Idx |-> NoFile]
NoDescs == [fd \in Fd |-> 0]

\* The tables after a start.
LEMMA TablesEmpty ==
  /\ Tables(NoFiles, NoDescs)
  /\ \A i \in Inum : RefsOf(NoFiles)[i] = 0
<1>1. NoFile \in FileSet /\ NoFile.ref = 0
  BY DEF NoFile, FileSet
<1>2. NoFiles \in [Idx -> FileSet] /\ NoDescs \in [Fd -> Idx \cup {0}]
  BY <1>1 DEF NoFiles, NoDescs
<1>3. \A k \in Idx : NoFiles[k].ref = 0
  BY <1>1 DEF NoFiles
<1>4. \A k \in Idx : Descs(NoDescs, k) = {}
  BY TableSets DEF Descs, NoDescs
<1>5. \A i : FilesOn(NoFiles, i) = {}
  BY <1>3 DEF FilesOn
<1>6. Cardinality({}) = 0
  BY FS_EmptySet
<1>7. \A k \in Idx : NoFiles[k].ref = Cardinality(Descs(NoDescs, k)) /\ ~(NoFiles[k].ref > 0)
  BY <1>3, <1>4, <1>6
<1>8. Tables(NoFiles, NoDescs)
  BY <1>2, <1>7 DEF Tables
<1>9. \A i \in Inum : RefsOf(NoFiles)[i] = 0
  BY <1>5, <1>6 DEF RefsOf
<1> QED  BY <1>8, <1>9

\* A sound disk after a start.
LEMMA RestEmpty ==
  ASSUME NEW s, Sound(s, 0), Ok(s), Empty(s)
  PROVE  Rest(s, RefsOf(NoFiles))
<1>b. PICK B : B = RefsOf(NoFiles)
  OBVIOUS
<1>1. B \in [Inum -> Nat] /\ \A i \in Inum : B[i] = 0 /\ i # 0
  BY <1>b, TablesEmpty, FewFiles, Consts
<1>2. Slots(s, B, 0, 0, 0, 0)
  BY <1>1, FreeSlotIs DEF Slots, Held, Empty
<1>3. s.panic # NoInodes
  BY DEF Ok, NoInodes
<1>4. Rest(s, B)
  BY <1>2, <1>3 DEF Rest
<1> QED  BY <1>4, <1>b

\* A restart keeps the invariant, with and without a disk.
LEMMA RestartStep ==
  ASSUME IInv, Restart, Sound(Formatted, 0), Ok(Formatted), Empty(Formatted)
  PROVE  IInv'
<1>1. ftable' = NoFiles /\ ofile' = NoDescs /\ call' = NoCall
  BY DEF Restart, NoFiles, NoDescs
<1>2. Sound(fs', 0) /\ Ok(fs') /\ Empty(fs')
  <2>1. CASE ~KeepDisk
    BY <2>1 DEF Restart
  <2>2. CASE KeepDisk
    <3>1. fs' = [fs EXCEPT !.ic = [i \in Inum |-> FreeSlot], !.panic = ""]
      BY <2>2 DEF Restart
    <3>2. fs \in FsValue /\ Sound(fs, 0)
      BY DEF IInv, Rest, Sound
    <3>3. /\ fs' \in FsValue /\ fs'.ic = [i \in Inum |-> FreeSlot] /\ fs'.panic = ""
          /\ fs'.dinode = fs.dinode /\ fs'.bitmap = fs.bitmap /\ fs'.block = fs.block
      BY <3>1, <3>2, FreeSlotIs DEF FsValue, PanicSet
    <3>4. Alike(fs, fs')
      BY <3>3 DEF Alike
    <3>5. Sound(fs', 0)
      BY <3>2, <3>3, <3>4, SoundAlike
    <3> QED  BY <3>3, <3>5 DEF Ok, Empty, Slot
  <2> QED  BY <2>1, <2>2
<1>3. Rest(fs', RefsOf(NoFiles))
  BY <1>2, RestEmpty
<1> QED  BY <1>1, <1>3, TablesEmpty, NoCallIs, Primed

RootAddrs == [NoAddrs EXCEPT ![0] = RootBlock]
RootDinode == [type |-> "T_DIR", nlink |-> 1, size |-> 2, addrs |-> RootAddrs]
RootEntries == [ZeroBlock EXCEPT ![0] = Dirent(Root, "."), ![1] = Dirent(Root, "..")]

\* What fs_init writes.
LEMMA FormattedParts ==
  /\ \A i \in Inum : Formatted.dinode[i] = IF i = Root THEN RootDinode ELSE Unused
  /\ \A b \in DataBlock : Formatted.block[b] = IF b = RootBlock THEN RootEntries ELSE ZeroBlock
  /\ Formatted.bitmap = {RootBlock} /\ Formatted.panic = ""
  /\ \A i \in Inum : Slot(Formatted, i) = FreeSlot
  /\ RootBlock \in DataBlock /\ RootBlock # 0
  /\ RootDinode \in DinodeSet /\ Unused \in DinodeSet /\ RootEntries \in BlockSet
  /\ Formatted \in FsValue
<1>1. RootBlock \in DataBlock /\ RootBlock # 0
  BY Consts, FsAssumption, MinIs DEF RootBlock
<1>2. 0 \in 0..NDirect /\ 1 \in 0..(BSize - 1) /\ 0 \in 0..(BSize - 1)
  BY Consts
<1>3. NoAddrs \in [0..NDirect -> DataBlock \cup {0}]
  BY DEF NoAddrs
<1>4. RootAddrs \in [0..NDirect -> DataBlock \cup {0}]
  BY <1>1, <1>2, <1>3 DEF RootAddrs
<1>5. RootDinode \in DinodeSet /\ Unused \in DinodeSet
  BY <1>3, <1>4 DEF DinodeSet, RootDinode, Unused
<1>6. Dirent(Root, ".") \in Cell /\ Dirent(Root, "..") \in Cell
  BY Consts DEF Dirent, Cell
<1>7. RootEntries \in BlockSet
  BY <1>2, <1>6, ZeroBlockIs DEF RootEntries, BlockSet
<1>8. /\ Formatted.dinode = [i \in Inum |-> IF i = Root THEN RootDinode ELSE Unused]
      /\ Formatted.block = [b \in DataBlock |-> IF b = RootBlock THEN RootEntries ELSE ZeroBlock]
      /\ Formatted.bitmap = {RootBlock} /\ Formatted.panic = ""
      /\ Formatted.ic = [i \in Inum |-> FreeSlot]
  BY DEF Formatted, RootDinode, RootAddrs, RootEntries
<1>9. Formatted \in FsValue
  <2>1. Formatted = [dinode |-> Formatted.dinode, bitmap |-> Formatted.bitmap, block |-> Formatted.block,
                     ic |-> Formatted.ic, panic |-> Formatted.panic]
    BY DEF Formatted
  <2>2. Formatted.dinode \in [Inum -> DinodeSet] /\ Formatted.block \in [DataBlock -> BlockSet]
        /\ Formatted.ic \in [Inum -> SlotSet] /\ Formatted.bitmap \in SUBSET DataBlock /\ Formatted.panic \in PanicSet
    BY <1>1, <1>5, <1>7, <1>8, ZeroBlockIs, FreeSlotIs DEF PanicSet
  <2> QED  BY <2>1, <2>2 DEF FsValue
<1> QED  BY <1>1, <1>5, <1>7, <1>8, <1>9 DEF Slot

\* The root has one block and the other inodes have none.
LEMMA RootPlaces ==
  ASSUME NEW blk, NEW n \in 0..MaxFile
  PROVE  /\ Place(RootDinode, blk, n) = IF n = 0 THEN RootBlock ELSE 0
         /\ Place(Unused, blk, n) = 0
<1>0. 0 \in 0..NDirect /\ NDirect \in 0..NDirect /\ NDirect # 0
  BY Consts
<1>1. RootBlock \in DataBlock /\ RootBlock # 0 /\ 0 \in 0..NDirect /\ NDirect \in 0..NDirect /\ NDirect # 0
  BY <1>0, FormattedParts
<1>2. \A k \in 0..NDirect : Addr(Unused, k) = 0
  BY DEF Addr, Unused, NoAddrs
<1>3. \A k \in 0..NDirect : Addr(RootDinode, k) = IF k = 0 THEN RootBlock ELSE 0
  BY <1>1 DEF Addr, RootDinode, RootAddrs, NoAddrs
<1>4. n < NDirect => n \in 0..NDirect
  BY Consts
<1> QED  BY <1>1, <1>2, <1>3, <1>4, Consts DEF Place

\* Two cells are in the first block.
LEMMA TwoCells ==
  /\ \A n \in 0..MaxFile : (Needed(n, 2) <=> n = 0) /\ ~Needed(n, 0)
  /\ 2 <= MaxFile * BSize
  /\ 0 \div BSize = 0 /\ 0 % BSize = 0 /\ 1 \div BSize = 0 /\ 1 % BSize = 1
<1>1. BSize \in Nat /\ BSize >= 2 /\ NDirect \in Nat /\ NDirect >= 1 /\ MaxFile \in Nat /\ MaxFile >= 1
  BY Consts
<1>2. \A n \in Nat : n >= 1 => n * BSize >= 2
  <2> SUFFICES ASSUME NEW n \in Nat, n >= 1 PROVE n * BSize >= 2
    OBVIOUS
  <2>1. PICK m \in Nat : n = m + 1
    <3>1. n - 1 \in Nat /\ n = (n - 1) + 1
      OBVIOUS
    <3> QED  BY <3>1
  <2>2. n * BSize = m * BSize + BSize /\ m * BSize \in Nat
    BY <1>1, <2>1
  <2> QED  BY <1>1, <2>2
<1>3. \A n \in Nat : n * BSize \in Nat /\ 0 * BSize = 0
  BY <1>1
<1>4. \A n \in Nat : (InFile(n, 2) <=> n = 0) /\ ~InFile(n, 0)
  BY <1>2, <1>3 DEF InFile
<1>5. \A n \in 0..MaxFile : (Needed(n, 2) <=> n = 0) /\ ~Needed(n, 0)
  BY <1>1, <1>4 DEF Needed
<1>6. 0 \div BSize = 0 /\ 0 % BSize = 0 /\ 1 \div BSize = 0 /\ 1 % BSize = 1
  BY <1>1
<1> QED  BY <1>1, <1>2, <1>5, <1>6

\* A new file system is sound.
LEMMA FormattedIs ==
  Sound(Formatted, 0) /\ Ok(Formatted) /\ Empty(Formatted)
<1>s. PICK s : s = Formatted
  OBVIOUS
<1>1. /\ \A i \in Inum : Dsk(s, i) = IF i = Root THEN RootDinode ELSE Unused
      /\ s.block[RootBlock] = RootEntries /\ s.bitmap = {RootBlock} /\ s.panic = ""
      /\ RootBlock \in DataBlock /\ RootBlock # 0 /\ s \in FsValue /\ Empty(s)
  BY <1>s, FormattedParts DEF Dsk, Empty
<1>2. \A i \in Inum, n \in 0..MaxFile : Place(Dsk(s, i), s.block, n) = IF i = Root /\ n = 0 THEN RootBlock ELSE 0
  BY <1>1, RootPlaces
<1>3. Exact(s.dinode, s.bitmap, s.block)
  <2>d. PICK dn : dn = s.dinode
    OBVIOUS
  <2>k. PICK blk : blk = s.block
    OBVIOUS
  <2>1. /\ \A i \in Inum, n \in 0..MaxFile : ~(i = Root /\ n = 0) => Place(dn[i], blk, n) = 0
        /\ Place(dn[Root], blk, 0) = RootBlock /\ Root \in Inum /\ 0 \in 0..MaxFile
    BY <1>2, <2>d, <2>k, Consts DEF Dsk
  <2>2. Exact(dn, {RootBlock}, blk)
    BY <1>1, <2>1 DEF Exact
  <2> QED  BY <1>1, <2>2, <2>d, <2>k
<1>4. Root \in Inum /\ 0 \in 0..MaxFile
  BY Consts
<1>5. /\ RootDinode.size = 2 /\ RootDinode.type = "T_DIR" /\ RootDinode.nlink = 1
      /\ Unused.size = 0 /\ Unused.type = "T_UNUSED"
  BY DEF RootDinode, Unused
<1>6. ASSUME NEW i \in Inum PROVE Sized(Dsk(s, i), s.block) /\ Kind(i, Dsk(s, i))
  <2>1. CASE i = Root
    <3>1. Dsk(s, i) = RootDinode
      BY <1>1, <2>1
    <3>2. RootDinode.size <= MaxFile * BSize
      BY <1>5, TwoCells
    <3>3. \A n \in 0..MaxFile : Place(RootDinode, s.block, n) # 0 <=> Needed(n, RootDinode.size)
      <4> SUFFICES ASSUME NEW n \in 0..MaxFile PROVE Place(RootDinode, s.block, n) # 0 <=> Needed(n, 2)
        BY <1>5
      <4>1. Place(RootDinode, s.block, n) = IF n = 0 THEN RootBlock ELSE 0
        BY RootPlaces
      <4>2. Needed(n, 2) <=> n = 0
        BY TwoCells
      <4> QED  BY <1>1, <4>1, <4>2
    <3>4. Sized(RootDinode, s.block)
      BY <3>2, <3>3 DEF Sized
    <3>5. Kind(i, RootDinode)
      BY <1>5, <2>1 DEF Kind
    <3> QED  BY <3>1, <3>4, <3>5
  <2>2. CASE i # Root
    <3>1. Dsk(s, i) = Unused
      BY <1>1, <2>2
    <3>2. Unused.size <= MaxFile * BSize
      <4>1. MaxFile * BSize \in Nat
        BY Consts
      <4> QED  BY <1>5, <4>1
    <3>3. \A n \in 0..MaxFile : Place(Unused, s.block, n) # 0 <=> Needed(n, Unused.size)
      BY <1>5, RootPlaces, TwoCells
    <3>4. Sized(Unused, s.block)
      BY <3>2, <3>3 DEF Sized
    <3>5. Kind(i, Unused)
      BY <1>5, <2>2 DEF Kind
    <3> QED  BY <3>1, <3>4, <3>5
  <2> QED  BY <2>1, <2>2
<1>7. DirSize(s) = 2
  BY <1>1, <1>4, <1>5 DEF DirSize
<1>8. \A o \in 0..1 : Ent(s, o) = RootEntries[o]
  <2>1. Place(Dsk(s, Root), s.block, 0) = RootBlock
    BY <1>2, <1>4
  <2>2. Ent(s, 0) = RootEntries[0]
    BY <1>1, <2>1, TwoCells DEF Ent, Cel
  <2>3. Ent(s, 1) = RootEntries[1]
    BY <1>1, <2>1, TwoCells DEF Ent, Cel
  <2>4. \A o \in 0..1 : o = 0 \/ o = 1
    OBVIOUS
  <2> QED  BY <2>2, <2>3, <2>4
<1>9. RootEntries[0] = Dirent(Root, ".") /\ RootEntries[1] = Dirent(Root, "..")
  BY Consts DEF RootEntries, ZeroBlock
<1>10. Ent(s, 0) = Dirent(Root, ".") /\ Ent(s, 1) = Dirent(Root, "..")
  BY <1>8, <1>9
<1>11. Ent(s, 0).name # Ent(s, 1).name
  BY <1>10 DEF Dirent
<1>12. \A i \in Inum : i # Root => ~InUse(s, i)
  BY <1>1, <1>5 DEF InUse
<1>13. Dir(s, 0)
  BY <1>7, <1>10, <1>11, <1>12 DEF Dir
<1>14. Sound(s, 0)
  BY <1>1, <1>3, <1>6, <1>13 DEF Sound, Disk
<1> QED  BY <1>s, <1>1, <1>14 DEF Ok

\* The invariant holds at the start.
LEMMA InitStep ==
  ASSUME Init
  PROVE  IInv
<1>1. fs = Formatted /\ ftable = NoFiles /\ ofile = NoDescs /\ call = NoCall
  BY DEF Init, NoFiles, NoDescs
<1>2. Rest(Formatted, RefsOf(NoFiles))
  BY FormattedIs, RestEmpty
<1> QED  BY <1>1, <1>2, TablesEmpty, NoCallIs DEF IInv

\* Every step keeps the invariant.
LEMMA NextStep ==
  ASSUME \A path \in Paths : ~path.empty, IInv, [Next]_vars
  PROVE  IInv'
<1>1. CASE UNCHANGED vars
  BY <1>1 DEF IInv, vars
<1>2. ASSUME NEW path \in Paths, NEW mode \in Modes, SysOpen(path, mode) PROVE IInv'
  BY <1>2, OpenStep
<1>3. ASSUME NEW fd \in Fd, SysBadFd(fd) \/ SysDup(fd) \/ SysClose(fd) \/ SysFstat(fd) PROVE IInv'
  BY <1>3, BadFdStep, DupStep, CloseStep, FstatStep
<1>4. ASSUME NEW fd \in Fd, NEW n \in Counts, SysRead(fd, n) PROVE IInv'
  BY <1>4, ReadStep
<1>5. ASSUME NEW fd \in Fd, NEW cells \in Writes, SysWrite(fd, cells) PROVE IInv'
  BY <1>5, WriteStep
<1>6. CASE WriteChunk
  BY <1>6, ChunkStep
<1>7. CASE Restart
  BY <1>7, RestartStep, FormattedIs
<1> QED  BY <1>1, <1>2, <1>3, <1>4, <1>5, <1>6, <1>7 DEF Next

-----------------------------------------------------------------------------
(* What the invariant implies.                                             *)

\* The parts of the invariant.
LEMMA InvParts ==
  ASSUME IInv
  PROVE  /\ fs \in FsValue /\ Disk(fs) /\ Dir(fs, 0) /\ Sound(fs, 0)
         /\ Slots(fs, RefsOf(ftable), 0, 0, 0, 0)
         /\ (fs.panic = NoInodes => \A i \in Inum : InUse(fs, i))
         /\ Tables(ftable, ofile) /\ call \in CallSet
BY DEF IInv, Rest, Sound, Calling

\* An inode in use is one that is allocated.
LEMMA AllocatedIs ==
  ASSUME NEW i \in Inum
  PROVE  i \in Allocated <=> InUse(fs, i)
BY DEF Allocated, InUse, Dsk

\* All variables have their types.
LEMMA TypeCorrect ==
  ASSUME IInv
  PROVE  TypeOK
<1>0. fs \in FsValue /\ Tables(ftable, ofile) /\ call \in CallSet /\ Disk(fs)
  BY InvParts
<1>1. fs.dinode \in [Inum -> [type: {"T_UNUSED", "T_DIR", "T_FILE"}, nlink: Nat,
                              size: 0..(MaxFile * BSize),
                              addrs: [0..NDirect -> DataBlock \cup {0}]]]
  <2>1. fs.dinode \in [Inum -> DinodeSet] /\ \A i \in Inum : fs.dinode[i].size <= MaxFile * BSize
    BY <1>0 DEF FsValue, Disk, Sized, Dsk
  <2>2. MaxFile * BSize \in Nat
    BY Consts
  <2> QED  BY <2>1, <2>2 DEF DinodeSet
<1>2. /\ fs.bitmap \subseteq DataBlock /\ fs.block \in [DataBlock -> [0..(BSize - 1) -> Cell]]
      /\ DOMAIN fs.ic = Inum /\ \A i \in Inum : fs.ic[i].ref \in Nat
  BY <1>0 DEF FsValue, BlockSet, SlotSet
<1>3. ASSUME NEW k \in Idx PROVE ftable[k].ref \in 0..NOFile /\ ftable[k].ip \in Inum \cup {0}
  <2>1. Descs(ofile, k) \in SUBSET Fd /\ IsFiniteSet(Fd) /\ Cardinality(Fd) = NOFile
    BY TableSets DEF Descs
  <2>2. Cardinality(Descs(ofile, k)) <= Cardinality(Fd) /\ Cardinality(Descs(ofile, k)) \in Nat
    BY <2>1, FS_Subset, DescsIs
  <2>3. ftable[k].ref = Cardinality(Descs(ofile, k)) /\ ftable[k].ip \in Inum \cup {0}
    BY <1>0 DEF Tables, FileSet
  <2> QED  BY <2>1, <2>2, <2>3, Consts
<1>4. ofile \in [Fd -> Idx \cup {0}] /\ call.f \in Idx \cup {0}
  BY <1>0 DEF Tables, CallSet
<1> QED  BY <1>1, <1>2, <1>3, <1>4 DEF TypeOK

\* A valid inode in memory is the one on disk.
LEMMA CachedCurrent ==
  ASSUME IInv
  PROVE  CachedInodesCurrent
<1> SUFFICES ASSUME NEW i \in Inum, fs.ic[i].valid PROVE fs.ic[i].d = fs.dinode[i] /\ i \in Allocated
  BY DEF CachedInodesCurrent
<1>1. Slots(fs, RefsOf(ftable), 0, 0, 0, 0)
  BY InvParts
<1>2. /\ Slot(fs, i).valid => Slot(fs, i).ref > 0 /\ Mem(fs, i) = Dsk(fs, i)
      /\ Slot(fs, i).ref > 0 => InUse(fs, i)
  BY <1>1 DEF Slots
<1> QED  BY <1>2, AllocatedIs DEF Slot, Mem, Dsk

\* fsck_lite finds what the operators refer to.
LEMMA ReferencedIs ==
  ASSUME IInv, NEW i \in Inum, NEW k \in 0..MaxFile
  PROVE  /\ Referenced(<<i, k>>) = Place(fs.dinode[i], fs.block, k)
         /\ k # MaxFile => BlockNo(fs.dinode[i], k) = Place(fs.dinode[i], fs.block, k)
<1>d. PICK d : d = fs.dinode[i]
  OBVIOUS
<1>1. d \in DinodeSet
  BY <1>d, InvParts DEF FsValue
<1>2. d.addrs[NDirect] \in DataBlock \cup {0} /\ 0 \notin DataBlock
  BY <1>1, DinodeIs, Consts DEF Addr
<1>3. k # MaxFile => BlockNo(d, k) = Place(d, fs.block, k)
  BY <1>2 DEF BlockNo, Place, Addr
<1>4. k = MaxFile => Place(d, fs.block, k) = d.addrs[NDirect]
  BY PlaceTop DEF Addr
<1>5. Referenced(<<i, k>>) = Place(d, fs.block, k)
  BY <1>d, <1>3, <1>4 DEF Referenced
<1> QED  BY <1>d, <1>3, <1>5

\* The disk passes fsck_lite and has no block that nothing refers to.
LEMMA BlocksAre ==
  ASSUME IInv
  PROVE  BlocksAccounted
<1>n. PICK dn : dn = fs.dinode
  OBVIOUS
<1>k. PICK blk : blk = fs.block
  OBVIOUS
<1>m. PICK bm : bm = fs.bitmap
  OBVIOUS
<1>1. Exact(dn, bm, blk) /\ bm \in SUBSET DataBlock /\ 0 \notin bm
  BY <1>n, <1>k, <1>m, InvParts, Consts DEF Disk, FsValue
<1>2. \A i \in Inum : Sized(dn[i], blk) /\ Kind(i, dn[i])
  BY <1>n, <1>k, InvParts DEF Disk, Dsk
<1>3. ASSUME NEW r \in References
      PROVE  /\ r[1] \in Inum /\ r[2] \in 0..MaxFile /\ r = <<r[1], r[2]>>
             /\ Referenced(r) = Place(dn[r[1]], blk, r[2])
  <2>1. r[1] \in Inum /\ r[2] \in 0..MaxFile /\ r = <<r[1], r[2]>>
    BY DEF References
  <2> QED  BY <1>n, <1>k, <2>1, ReferencedIs
<1>4. \A r \in References : Referenced(r) \in {0} \cup (DataBlock \cap fs.bitmap)
  BY <1>1, <1>3, <1>m DEF Exact
<1>5. ASSUME NEW q \in References, NEW r \in References, Referenced(q) = Referenced(r), Referenced(q) # 0
      PROVE  q = r
  <2>1. q[1] = r[1] /\ q[2] = r[2]
    BY <1>1, <1>3, <1>5 DEF Exact
  <2>2. q = <<q[1], q[2]>> /\ r = <<r[1], r[2]>>
    BY <1>3
  <2> QED  BY <2>1, <2>2
<1>6. FsckLite
  BY <1>4, <1>5 DEF FsckLite
<1>7. ASSUME NEW b \in bm PROVE \E r \in References : Referenced(r) = b
  <2>1. PICK i \in Inum, n \in 0..MaxFile : Place(dn[i], blk, n) = b
    BY <1>1 DEF Exact
  <2>2. Place(dn[i], blk, n) # 0
    BY <1>1, <2>1
  <2>3. Needed(n, dn[i].size)
    BY <1>2, <2>2 DEF Sized
  <2>4. dn[i].type # "T_UNUSED"
    <3>1. ~Needed(n, 0)
      BY TwoCells
    <3> QED  BY <1>2, <2>3, <3>1 DEF Kind
  <2>5. <<i, n>> \in References
    BY <1>n, <2>4 DEF References, Allocated
  <2>6. Referenced(<<i, n>>) = b
    BY <1>n, <1>k, <2>1, ReferencedIs
  <2> QED  BY <2>5, <2>6
<1>8. ASSUME NEW i \in Allocated
      PROVE  /\ \A bn \in 0..(MaxFile - 1) : BlockNo(fs.dinode[i], bn) # 0 <=> bn * BSize < fs.dinode[i].size
             /\ fs.dinode[i].addrs[NDirect] # 0 <=> fs.dinode[i].size > NDirect * BSize
  <2>1. i \in Inum
    BY DEF Allocated
  <2>2. ASSUME NEW n \in 0..(MaxFile - 1)
        PROVE  BlockNo(fs.dinode[i], n) # 0 <=> n * BSize < fs.dinode[i].size
    <3>1. n \in 0..MaxFile /\ n # MaxFile
      BY Consts
    <3>2. BlockNo(dn[i], n) = Place(dn[i], blk, n)
      BY <1>n, <1>k, <2>1, <3>1, ReferencedIs
    <3>3. Place(dn[i], blk, n) # 0 <=> InFile(n, dn[i].size)
      BY <1>2, <2>1, <3>1 DEF Sized, Needed
    <3> QED  BY <1>n, <3>2, <3>3 DEF InFile
  <2>3. dn[i].addrs[NDirect] # 0 <=> InFile(NDirect, dn[i].size)
    <3>1. MaxFile \in 0..MaxFile
      BY Consts
    <3>2. Place(dn[i], blk, MaxFile) # 0 <=> InFile(NDirect, dn[i].size)
      BY <1>2, <2>1, <3>1 DEF Sized, Needed
    <3> QED  BY <3>2, PlaceTop DEF Addr
  <2>4. dn[i].size \in Nat /\ NDirect * BSize \in Nat
    BY <1>n, <2>1, InvParts, DinodeIs, Consts DEF FsValue
  <2> QED  BY <1>n, <2>2, <2>3, <2>4 DEF InFile
<1> QED  BY <1>6, <1>7, <1>8, <1>m DEF BlocksAccounted

\* The reference counts are those of files and descriptors.
LEMMA RefsMatch ==
  ASSUME IInv
  PROVE  RefsMatchHolders
<1>1. Slots(fs, RefsOf(ftable), 0, 0, 0, 0) /\ Tables(ftable, ofile)
  BY InvParts
<1>2. ASSUME NEW i \in Inum
      PROVE  fs.ic[i].ref = Cardinality({k \in Idx : ftable[k].ref > 0 /\ ftable[k].ip = i}) /\ ~fs.ic[i].locked
  <2>1. /\ Slot(fs, i).ref = Held(RefsOf(ftable), 0, 0, i) /\ (Slot(fs, i).locked <=> i = 0 \/ i = 0) /\ i # 0
    BY <1>1, Consts DEF Slots
  <2>2. RefsOf(ftable)[i] = Cardinality(FilesOn(ftable, i)) /\ Cardinality(FilesOn(ftable, i)) \in Nat
    BY FilesOnIs DEF RefsOf
  <2>3. Held(RefsOf(ftable), 0, 0, i) = Cardinality(FilesOn(ftable, i))
    BY <2>1, <2>2 DEF Held
  <2> QED  BY <2>1, <2>3 DEF Slot, FilesOn
<1>3. \A k \in Idx : ftable[k].ref = Cardinality({fd \in Fd : ofile[fd] = k})
  BY <1>1 DEF Tables, Descs
<1> QED  BY <1>2, <1>3 DEF RefsMatchHolders, InodeRefsCountFiles

\* The kernel stops only when blocks or inodes have run out.
LEMMA PanicsAre ==
  ASSUME IInv
  PROVE  PanicsOnlyWhenFull
<1>1. fs.panic \in PanicSet
  BY InvParts DEF FsValue
<1>2. fs.panic = NoInodes => Allocated = Inum
  <2>1. Allocated \subseteq Inum
    BY DEF Allocated
  <2> QED  BY <2>1, InvParts, AllocatedIs
<1> QED  BY <1>1, <1>2 DEF PanicsOnlyWhenFull, PanicSet, NoInodes

\* The contents of a file are the cells that its blocks hold.
LEMMA ContentsAre ==
  ASSUME IInv, NEW i \in Inum, NEW e, e = Contents(fs.dinode[i]), NEW z, z = Dsk(fs, i).size
  PROVE  z \in Nat /\ e = [k \in 1..z |-> Cel(fs, i, k - 1)]
<1>d. PICK d : d = fs.dinode[i]
  OBVIOUS
<1>0. z \in Nat /\ Sized(d, fs.block) /\ d.size = z
  <2>1. Disk(fs) /\ d \in DinodeSet
    BY <1>d, InvParts DEF FsValue
  <2> QED  BY <1>d, <2>1, DinodeIs DEF Disk, Dsk
<1>1. e = [k \in 1..z |->
             LET b == BlockNo(d, (k - 1) \div BSize)
             IN  IF b \in DataBlock THEN fs.block[b][(k - 1) % BSize] ELSE Raw(0)]
  BY <1>0, <1>d DEF Contents
<1>2. ASSUME NEW k \in 1..z PROVE e[k] = Cel(fs, i, k - 1)
  <2>p. PICK p : p = k - 1
    OBVIOUS
  <2>n. PICK n : n = p \div BSize
    OBVIOUS
  <2>1. p \in Nat /\ p < z
    BY <1>0, <2>p
  <2>2. n \in 0..MaxFile /\ n # MaxFile /\ Place(d, fs.block, n) # 0
    BY <1>0, <2>1, <2>n, CellPlace
  <2>3. BlockNo(d, n) = Place(d, fs.block, n)
    BY <2>2, <1>d, ReferencedIs
  <2>4. Place(d, fs.block, n) \in DataBlock
    BY <2>2, <1>d, InvParts DEF Disk, Exact, FsValue
  <2>5. e[k] = IF BlockNo(d, n) \in DataBlock THEN fs.block[BlockNo(d, n)][p % BSize] ELSE Raw(0)
    BY <1>1, <2>p, <2>n
  <2> QED  BY <2>3, <2>4, <2>5, <2>p, <2>n, <1>d DEF Cel, Dsk
<1>3. e = [k \in 1..z |-> e[k]]
  BY <1>1
<1> QED  BY <1>0, <1>2, <1>3

\* The root directory has one entry for each file.
LEMMA DirectoryIs ==
  ASSUME IInv
  PROVE  DirectoryAccounted
<1>z. PICK z : z = DirSize(fs)
  OBVIOUS
<1>e. PICK e : e = Contents(fs.dinode[Root])
  OBVIOUS
<1>0. Sound(fs, 0) /\ Dir(fs, 0) /\ Root \in Inum /\ z \in Nat /\ z >= 2
  BY <1>z, InvParts, DirIs, Consts
<1>1. DOMAIN e = 1..z /\ \A k \in 1..z : e[k] = Ent(fs, k - 1)
  BY <1>0, <1>e, <1>z, ContentsAre DEF DirSize, Ent
<1>2. Len(e) = z
  BY <1>0, <1>e, <1>z, ContentsAre DEF DirSize
<1>3. /\ \A j, k \in 1..z : e[j].name = e[k].name => j = k
      /\ \A k \in 1..z : e[k].n \in Allocated
  <2>1. \A k \in 1..z : k - 1 \in 0..(z - 1)
    BY <1>0
  <2>2. ASSUME NEW j \in 1..z, NEW k \in 1..z, e[j].name = e[k].name PROVE j = k
    <3>1. j - 1 = k - 1
      BY <1>0, <1>1, <1>z, <2>1, <2>2 DEF Dir
    <3> QED  BY <3>1, <1>0
  <2>3. ASSUME NEW k \in 1..z PROVE e[k].n \in Allocated
    <3>1. Ent(fs, k - 1).n \in Inum /\ InUse(fs, Ent(fs, k - 1).n)
      BY <1>0, <1>z, <2>1, DirIs
    <3> QED  BY <1>1, <3>1, AllocatedIs
  <2> QED  BY <2>2, <2>3
<1>4. ASSUME NEW i \in Inum, i # Root
      PROVE  Cardinality({k \in 1..z : e[k].n = i}) = IF i \in Allocated THEN fs.dinode[i].nlink ELSE 0
  <2>1. e[1].n = Root /\ e[2].n = Root
    <3>1. e[1] = Ent(fs, 0) /\ e[2] = Ent(fs, 1)
      <4>1. 1 \in 1..z /\ 2 \in 1..z /\ 1 - 1 = 0 /\ 2 - 1 = 1
        BY <1>0
      <4> QED  BY <1>1, <4>1
    <3> QED  BY <1>0, <3>1 DEF Dir, Dirent
  <2>2. CASE i \notin Allocated
    <3>1. {k \in 1..z : e[k].n = i} = {}
      BY <1>3, <2>2
    <3> QED  BY <2>2, <3>1, FS_EmptySet
  <2>3. CASE i \in Allocated
    <3>1. InUse(fs, i) /\ i # 0
      BY <2>3, AllocatedIs, Consts
    <3>2. PICK o \in 2..(z - 1) : Ent(fs, o).n = i
      BY <1>0, <1>4, <1>z, <3>1 DEF Dir
    <3>k. PICK k : k = o + 1
      OBVIOUS
    <3>3. k \in 1..z /\ e[k].n = i
      <4>1. k \in 1..z /\ k - 1 = o
        BY <1>0, <3>2, <3>k
      <4> QED  BY <1>1, <3>2, <4>1
    <3>4. ASSUME NEW j \in 1..z, e[j].n = i PROVE j = k
      <4>1. j - 1 \in 2..(z - 1)
        <5>1. j # 1 /\ j # 2
          BY <1>4, <2>1, <3>4
        <5> QED  BY <1>0, <5>1
      <4>2. Ent(fs, j - 1).n = Ent(fs, o).n
        BY <1>1, <3>2, <3>4
      <4>3. j - 1 = o
        BY <1>0, <1>z, <3>2, <4>1, <4>2 DEF Dir
      <4> QED  BY <3>k, <4>3, <1>0
    <3>5. {j \in 1..z : e[j].n = i} = {k}
      BY <3>3, <3>4
    <3>6. fs.dinode[i].nlink = 1
      BY <3>1, InvParts DEF Disk, Kind, Dsk, InUse
    <3> QED  BY <2>3, <3>5, <3>6, FS_Singleton
  <2> QED  BY <2>2, <2>3
<1> QED  BY <1>2, <1>3, <1>4, <1>e DEF DirectoryAccounted
-----------------------------------------------------------------------------
(* The theorems.  The empty path is excluded: namex leaks the reference to *)
(* the root that it takes for it (run MCEmptyPath).                        *)

\* The invariant holds in every state.
THEOREM Invariance ==
  ASSUME \A path \in Paths : ~path.empty
  PROVE  Spec => []IInv
<1>1. Init => IInv
  BY InitStep
<1>2. IInv /\ [Next]_vars => IInv'
  BY NextStep
<1> QED  BY <1>1, <1>2, PTL DEF Spec

\* The state is well formed, and every valid inode in memory is the one on disk: open
\* with O_TRUNC, create and write go through iupdate.
THEOREM InodesHold ==
  ASSUME \A path \in Paths : ~path.empty
  PROVE  Spec => []InodesOK
<1>1. IInv => InodesOK
  BY TypeCorrect, CachedCurrent DEF InodesOK
<1> QED  BY <1>1, Invariance, PTL

\* The disk passes fsck_lite after every call and every crash, and a file has exactly
\* the blocks of its size: balloc, bmap, bfree and itrunc neither leak nor share one.
THEOREM BlocksHold ==
  ASSUME \A path \in Paths : ~path.empty
  PROVE  Spec => []BlocksAccounted
<1>1. IInv => BlocksAccounted
  BY BlocksAre
<1> QED  BY <1>1, Invariance, PTL

\* The root directory has one entry for each file and no name twice: what ialloc
\* takes create links, in the same transaction.
THEOREM DirectoryHolds ==
  ASSUME \A path \in Paths : ~path.empty
  PROVE  Spec => []DirectoryAccounted
<1>1. IInv => DirectoryAccounted
  BY DirectoryIs
<1> QED  BY <1>1, Invariance, PTL

\* Between two calls the counts of file table and inode cache are those of
\* descriptors and open files, and no inode is locked.
THEOREM RefsHold ==
  ASSUME \A path \in Paths : ~path.empty
  PROVE  Spec => []RefsMatchHolders
<1>1. IInv => RefsMatchHolders
  BY RefsMatch
<1> QED  BY <1>1, Invariance, PTL

\* Of the panics of fs.c only those of a full disk can happen: no double free, no hole,
\* no self-deadlock on an inode, no full inode cache.
THEOREM PanicsHold ==
  ASSUME \A path \in Paths : ~path.empty
  PROVE  Spec => []PanicsOnlyWhenFull
<1>1. IInv => PanicsOnlyWhenFull
  BY PanicsAre
<1> QED  BY <1>1, Invariance, PTL

\* Disk, directory, cache and descriptors agree in all of these respects.
THEOREM AllHold ==
  ASSUME \A path \in Paths : ~path.empty
  PROVE  Spec => []AllAccounted
<1>1. IInv => AllAccounted
  BY TypeCorrect, CachedCurrent, BlocksAre, DirectoryIs, RefsMatch
     DEF AllAccounted, InodesOK
<1> QED  BY <1>1, Invariance, PTL
=============================================================================
