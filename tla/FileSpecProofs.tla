--------------------------- MODULE FileSpecProofs ---------------------------
(***************************************************************************)
(* The calls of kernel/sysfile.c implement the files of FileSpec: what a   *)
(* read returns is what the last write of a cell put there, whichever of   *)
(* the descriptors it went through.                                        *)
(*                                                                         *)
(* Data(s) is what FileSpec sees of a file system value s.  First, what    *)
(* writei, itrunc and create() do to Data; then what becomes of the tables *)
(* under the refinement mapping; then, for each call, that its step is one *)
(* of FileSpec or is not seen.  What a step does to the cells of the disk  *)
(* comes from the lemmas of FileSysProofs, under its invariant IInv; the   *)
(* mapping also needs that a free struct file is cleared (Unopened).       *)
(***************************************************************************)
EXTENDS FileSysProofs
-----------------------------------------------------------------------------
(* The files that FileSpec sees.                                           *)

\* A cell before the end of a file is one.
LEMMA CelIs ==
  ASSUME NEW s \in FsValue, Disk(s), NEW i \in Inum, NEW pos \in Nat, pos < Dsk(s, i).size
  PROVE  Cel(s, i, pos) \in Cell
<1>n. PICK n : n = pos \div BSize
  OBVIOUS
<1>r. PICK r : r = pos % BSize
  OBVIOUS
<1>b. PICK b : b = Place(Dsk(s, i), s.block, n)
  OBVIOUS
<1>1. Dsk(s, i).size \in Nat /\ Sized(Dsk(s, i), s.block) /\ r \in 0..(BSize - 1)
  BY <1>r, SlotIs, DinodeIs, Position DEF Disk
<1>2. n \in 0..MaxFile /\ b # 0
  BY <1>1, <1>n, <1>b, CellPlace
<1>3. b \in DataBlock
  BY <1>2, <1>b DEF Disk, Exact, Dsk, FsValue
<1>4. s.block[b][r] \in Cell
  BY <1>1, <1>3, ValueIs DEF BlockSet
<1> QED  BY <1>4, <1>n, <1>r, <1>b DEF Cel

\* The contents of a file, and of all files.
FileCells(s, i) == [k \in 1..Dsk(s, i).size |-> Cel(s, i, k - 1)]
Used(s) == {j \in Inum : InUse(s, j)}
Data(s) == [i \in Used(s) |-> FileCells(s, i)]

\* The contents of a file are a sequence of as many cells as its size.
LEMMA FileCellsAre ==
  ASSUME NEW s \in FsValue, Disk(s), NEW i \in Inum
  PROVE  /\ FileCells(s, i) \in Seq(Cell) /\ Len(FileCells(s, i)) = Dsk(s, i).size
         /\ Dsk(s, i).size \in Nat
         /\ \A k \in 1..Dsk(s, i).size : FileCells(s, i)[k] = Cel(s, i, k - 1)
<1>z. PICK z : z = Dsk(s, i).size
  OBVIOUS
<1>f. PICK f : f = FileCells(s, i)
  OBVIOUS
<1>1. z \in Nat
  BY <1>z, SlotIs, DinodeIs
<1>2. f = [k \in 1..z |-> Cel(s, i, k - 1)]
  BY <1>f, <1>z DEF FileCells
<1>3. ASSUME NEW k \in 1..z PROVE Cel(s, i, k - 1) \in Cell
  <2>p. PICK p : p = k - 1
    OBVIOUS
  <2>1. p \in Nat /\ p < z
    BY <1>1, <2>p
  <2> QED  BY <1>z, <2>1, <2>p, CelIs
<1>4. f \in [1..z -> Cell]
  BY <1>2, <1>3
<1>5. f \in Seq(Cell) /\ Len(f) = z
  BY <1>1, <1>2, <1>4, SeqDef
<1> QED  BY <1>1, <1>2, <1>5, <1>f, <1>z

\* What is in Data.
LEMMA DataIs ==
  ASSUME NEW s
  PROVE  /\ DOMAIN Data(s) = Used(s) /\ \A i \in Used(s) : Data(s)[i] = FileCells(s, i)
         /\ \A i \in Inum : i \in Used(s) <=> InUse(s, i)
BY DEF Data, Used

\* The same cells are the same contents.
LEMMA CellsSame ==
  ASSUME NEW s \in FsValue, NEW t, NEW i \in Inum, SameCells(s, t, i)
  PROVE  FileCells(t, i) = FileCells(s, i)
<1>z. PICK z : z = Dsk(s, i).size
  OBVIOUS
<1>1. z \in Nat
  BY <1>z, SlotIs, DinodeIs
<1>2. \A k \in 1..z : Cel(t, i, k - 1) = Cel(s, i, k - 1)
  <2> SUFFICES ASSUME NEW k \in 1..z PROVE Cel(t, i, k - 1) = Cel(s, i, k - 1)
    OBVIOUS
  <2>p. PICK p : p = k - 1
    OBVIOUS
  <2>1. p \in Nat /\ p < z
    BY <1>1, <2>p
  <2> QED  BY <1>z, <2>1, <2>p DEF SameCells
<1>3. FileCells(t, i) = [k \in 1..z |-> Cel(t, i, k - 1)] /\ FileCells(s, i) = [k \in 1..z |-> Cel(s, i, k - 1)]
  BY <1>z DEF FileCells, SameCells
<1> QED  BY <1>2, <1>3

\* The same disk has the same files ...
LEMMA DataSame ==
  ASSUME NEW s, NEW t, Alike(s, t)
  PROVE  Data(t) = Data(s)
<1>1. \A i : Dsk(t, i) = Dsk(s, i) /\ (InUse(t, i) <=> InUse(s, i))
  BY AlikeIs
<1>2. \A i, pos : Cel(t, i, pos) = Cel(s, i, pos)
  BY AlikeIs
<1>3. Used(t) = Used(s)
  BY <1>1 DEF Used
<1>4. \A i : FileCells(t, i) = FileCells(s, i)
  BY <1>1, <1>2 DEF FileCells
<1> QED  BY <1>3, <1>4 DEF Data

\* All files but i are the same.
OthersSame(s, t, i) ==
  /\ \A j \in Inum : j # i => (InUse(t, j) <=> InUse(s, j))
  /\ \A j \in Inum : j # i /\ InUse(s, j) => SameCells(s, t, j)

Changed(D, E, i, c) == E = [D EXCEPT ![i] = c]

\* ... and one file changed is one value changed.
LEMMA DataChanged ==
  ASSUME NEW s \in FsValue, NEW t, NEW i \in Inum, InUse(s, i), InUse(t, i), OthersSame(s, t, i),
         NEW c, c = FileCells(t, i)
  PROVE  Changed(Data(s), Data(t), i, c)
<1>1. Used(t) = Used(s)
  BY DEF Used, OthersSame
<1>2. \A j \in Used(s) : j # i => FileCells(t, j) = FileCells(s, j)
  BY CellsSame DEF Used, OthersSame
<1>3. [Data(s) EXCEPT ![i] = c] = [j \in Used(s) |-> IF j = i THEN c ELSE FileCells(s, j)]
  BY DEF Data, Used
<1>4. Data(t) = [j \in Used(s) |-> IF j = i THEN c ELSE FileCells(s, j)]
  BY <1>1, <1>2 DEF Data
<1> QED  BY <1>3, <1>4 DEF Changed

Overlaid(r, old, off, m, new, z) ==
  /\ r \in Seq(Cell) /\ Len(r) = z
  /\ \A k \in 1..z : r[k] = IF off < k /\ k <= off + m THEN new[k - off] ELSE old[k]

\* What Overlay does to a sequence.
LEMMA OverlayIs ==
  ASSUME NEW old \in Seq(Cell), NEW new \in Seq(Cell), NEW off \in Nat,
         NEW n, n = Len(old), NEW m, m = Len(new), NEW e, e = off + m, NEW z, z = Bigger(n, e), off <= n,
         NEW r, r = Files!Overlay(old, off, new)
  PROVE  Overlaid(r, old, off, m, new, z)
<1>f. PICK from : from = off + m + 1
  OBVIOUS
<1>a. PICK a : a = SubSeq(old, 1, off)
  OBVIOUS
<1>b. PICK b : b = SubSeq(old, from, n)
  OBVIOUS
<1>c. PICK c : c = a \o new
  OBVIOUS
<1>0. n \in Nat /\ m \in Nat /\ off <= n /\ from \in Nat /\ from >= 1
  BY <1>f, LenProperties
<1>1. r = c \o b
  BY <1>f, <1>a, <1>b, <1>c DEF Files!Overlay
<1>e. \A k \in 1..n : old[k] \in Cell
  OBVIOUS
<1>2. a \in Seq(Cell) /\ Len(a) = off /\ \A k \in 1..off : a[k] = old[k]
  <2>1. \A k \in 1..off : old[k] \in Cell
    BY <1>0, <1>e
  <2>2. /\ SubSeq(old, 1, off) \in Seq(Cell) /\ Len(SubSeq(old, 1, off)) = IF 1 <= off THEN off - 1 + 1 ELSE 0
        /\ \A k \in 1..(off - 1 + 1) : SubSeq(old, 1, off)[k] = old[1 + k - 1]
    BY <1>0, <2>1, SubSeqProperties
  <2> QED  BY <1>a, <2>2
<1>3. /\ b \in Seq(Cell) /\ Len(b) = (IF from <= n THEN n - from + 1 ELSE 0)
      /\ \A k \in 1..(n - from + 1) : b[k] = old[from + k - 1]
  <2>1. \A k \in from..n : old[k] \in Cell
    BY <1>0, <1>e
  <2>2. from \in Int /\ n \in Int
    BY <1>0
  <2> QED  BY <1>b, <2>1, <2>2, SubSeqProperties
<1>4. c \in Seq(Cell) /\ Len(c) = off + m /\ \A k \in 1..(off + m) : c[k] = IF k <= off THEN a[k] ELSE new[k - off]
  BY <1>2, <1>c, ConcatProperties
<1>w. PICK w : w = Len(b)
  OBVIOUS
<1>v. w = IF from <= n THEN n - from + 1 ELSE 0
  BY <1>3, <1>w
<1>5. z = off + m + w /\ z \in Nat /\ w \in Nat
  <2>2. z = IF off + m > n THEN off + m ELSE n
    BY DEF Bigger
  <2>3. CASE from <= n
    BY <1>0, <1>v, <1>f, <2>2, <2>3
  <2>4. CASE ~(from <= n)
    BY <1>0, <1>v, <1>f, <2>2, <2>4
  <2> QED  BY <2>3, <2>4
<1>6. r \in Seq(Cell) /\ Len(r) = z /\ \A k \in 1..z : r[k] = IF k <= off + m THEN c[k] ELSE b[k - (off + m)]
  <2>1. /\ c \o b \in Seq(Cell) /\ Len(c \o b) = Len(c) + Len(b)
        /\ \A k \in 1..(Len(c) + Len(b)) : (c \o b)[k] = IF k <= Len(c) THEN c[k] ELSE b[k - Len(c)]
    BY <1>3, <1>4, ConcatProperties
  <2>2. Len(c) = off + m /\ Len(b) = w
    BY <1>4, <1>w
  <2> HIDE <1>3, <1>4
  <2> QED  BY <1>1, <1>5, <2>1, <2>2
<1>7. ASSUME NEW k \in 1..z
      PROVE  r[k] = IF off < k /\ k <= off + m THEN new[k - off] ELSE old[k]
  <2>1. CASE k <= off
    BY <1>0, <1>2, <1>4, <1>5, <1>6, <2>1
  <2>2. CASE off < k /\ k <= off + m
    BY <1>0, <1>4, <1>5, <1>6, <2>2
  <2>3. CASE off + m < k
    <3>l. PICK l : l = k - (off + m)
      OBVIOUS
    <3>1. l \in 1..(n - from + 1) /\ from + l - 1 = k
      <4>1. w > 0 /\ l \in Nat /\ l >= 1 /\ l <= w
        BY <1>0, <1>5, <2>3, <3>l
      <4>2. w = n - from + 1
        BY <1>v, <4>1
      <4> QED  BY <1>0, <1>f, <3>l, <4>1, <4>2
    <3>2. r[k] = b[l]
      BY <1>0, <1>5, <1>6, <2>3, <3>l
    <3>3. b[l] = old[k]
      BY <1>3, <3>1
    <3> QED  BY <1>0, <2>3, <3>2, <3>3
  <2> QED  BY <1>0, <1>5, <2>1, <2>2, <2>3
<1> QED  BY <1>6, <1>7 DEF Overlaid

\* writei overlays the file with the cells.
LEMMA Overlays ==
  ASSUME NEW s \in FsValue, Disk(s), NEW i \in Inum, NEW off \in Nat, off <= Dsk(s, i).size,
         NEW cells \in Seq(Cell), NEW t, Written(s, t, i, off, cells)
  PROVE  FileCells(t, i) = Files!Overlay(FileCells(s, i), off, cells)
<1>f. PICK f : f = FileCells(s, i)
  OBVIOUS
<1>g. PICK g : g = FileCells(t, i)
  OBVIOUS
<1>r. PICK r : r = Files!Overlay(f, off, cells)
  OBVIOUS
<1>n. PICK n : n = Dsk(s, i).size
  OBVIOUS
<1>m. PICK m : m = Len(cells)
  OBVIOUS
<1>z. PICK z : z = Bigger(n, off + m)
  OBVIOUS
<1>1. f \in Seq(Cell) /\ Len(f) = n /\ n \in Nat /\ \A k \in 1..n : f[k] = Cel(s, i, k - 1)
  BY <1>f, <1>n, FileCellsAre
<1>2. m \in Nat /\ off <= n
  BY <1>m, <1>n, LenProperties
<1>3. t \in FsValue /\ Disk(t) /\ Dsk(t, i).size = z
  BY <1>n, <1>m, <1>z DEF Written
<1>4. g \in Seq(Cell) /\ Len(g) = z /\ z \in Nat /\ \A k \in 1..z : g[k] = Cel(t, i, k - 1)
  BY <1>3, <1>g, FileCellsAre
<1>5. \A pos \in Nat : pos < z =>
        Cel(t, i, pos) = IF off <= pos /\ pos < off + m THEN cells[pos - off + 1] ELSE Cel(s, i, pos)
  BY <1>n, <1>m, <1>z DEF Written
<1>6. /\ r \in Seq(Cell) /\ Len(r) = z
      /\ \A k \in 1..z : r[k] = IF off < k /\ k <= off + m THEN cells[k - off] ELSE f[k]
  <2>2. Overlaid(r, f, off, m, cells, z)
    <3>1. f \in Seq(Cell) /\ r = Files!Overlay(f, off, cells) /\ n = Len(f) /\ off <= n
      BY <1>1, <1>2, <1>r
    <3>e. PICK e : e = off + m
      OBVIOUS
    <3>2. z = Bigger(n, e)
      BY <1>z, <3>e
    <3> QED  BY <1>m, <3>1, <3>2, <3>e, OverlayIs, Zenon
  <2> QED  BY <2>2 DEF Overlaid
<1>7. ASSUME NEW k \in 1..z PROVE g[k] = r[k]
  <2>p. PICK p : p = k - 1
    OBVIOUS
  <2>1. p \in Nat /\ p < z /\ k = p + 1
    BY <1>4, <2>p
  <2>2. g[k] = IF off <= p /\ p < off + m THEN cells[p - off + 1] ELSE Cel(s, i, p)
    BY <1>4, <1>5, <2>1, <2>p
  <2>3. CASE off <= p /\ p < off + m
    <3>1. off < k /\ k <= off + m /\ p - off + 1 = k - off
      BY <1>2, <2>1, <2>3
    <3> QED  BY <1>6, <2>2, <2>3, <3>1
  <2>4. CASE ~(off <= p /\ p < off + m)
    <3>1. ~(off < k /\ k <= off + m)
      BY <1>2, <2>1, <2>4
    <3>2. k \in 1..n
      BY <1>1, <1>2, <1>z, <2>1, <2>4 DEF Bigger
    <3>3. g[k] = Cel(s, i, p)
      BY <2>2, <2>4, Zenon
    <3>4. r[k] = f[k]
      BY <1>6, <3>1, Zenon
    <3> QED  BY <1>1, <2>p, <3>2, <3>3, <3>4
  <2> QED  BY <2>3, <2>4
<1>8. g = r
  BY <1>4, <1>6, <1>7, SeqEqual
<1> QED  BY <1>8, <1>f, <1>g, <1>r

\* The cells of a file that is written are in its place, those of the others stay.
LEMMA DataWritten ==
  ASSUME NEW s \in FsValue, Disk(s), NEW i \in Inum, InUse(s, i), NEW off \in Nat, off <= Dsk(s, i).size,
         NEW cells \in Seq(Cell), NEW t, Written(s, t, i, off, cells),
         NEW c, c = Files!Overlay(FileCells(s, i), off, cells)
  PROVE  Changed(Data(s), Data(t), i, c)
<1>1. c = FileCells(t, i)
  BY Overlays
<1>2. InUse(t, i)
  BY DEF Written, InUse
<1>3. OthersSame(s, t, i)
  BY DEF Written, InUse, OthersSame, SameCells
<1> QED  BY <1>1, <1>2, <1>3, DataChanged

\* itrunc leaves the file empty and the others as they are.
LEMMA DataEmptied ==
  ASSUME NEW s \in FsValue, NEW i \in Inum, InUse(s, i), NEW t, Emptied(s, t, i)
  PROVE  Changed(Data(s), Data(t), i, <<>>) /\ FileCells(t, i) = <<>>
<1>1. FileCells(t, i) = <<>>
  <2>1. t \in FsValue /\ Disk(t) /\ Dsk(t, i).size = 0
    BY DEF Emptied
  <2>2. FileCells(t, i) \in Seq(Cell) /\ Len(FileCells(t, i)) = 0
    BY <2>1, FileCellsAre
  <2> QED  BY <2>2, EmptySeq
<1>2. InUse(t, i)
  BY DEF Emptied, InUse
<1>3. OthersSame(s, t, i)
  BY DEF Emptied, InUse, OthersSame, SameCells
<1> QED  BY <1>1, <1>2, <1>3, DataChanged

-----------------------------------------------------------------------------
(* New files.                                                              *)

\* create() makes an empty file and appends its entry to the root directory.
Creates(D, E, i, name) ==
  E = [g \in DOMAIN D \cup {i} |->
         IF g = i THEN <<>> ELSE IF g = Root THEN Append(D[Root], Dirent(i, name)) ELSE D[g]]
NoEntry(D, name) == \A k \in 1..Len(D[Root]) : \A g \in Inum : D[Root][k] # Dirent(g, name)
CreatesIn(D, E, i) == \E name \in Name : i \notin DOMAIN D /\ NoEntry(D, name) /\ Creates(D, E, i, name)

\* One element more is Append.
LEMMA OneAppended ==
  ASSUME NEW f \in Seq(Cell), NEW g \in Seq(Cell), NEW e \in Cell, NEW n, n = Len(f), Len(g) = n + 1,
         \A k \in 1..n : g[k] = f[k], g[n + 1] = e
  PROVE  g = Append(f, e)
<1>h. PICK h : h = Append(f, e)
  OBVIOUS
<1>1. h \in Seq(Cell) /\ Len(h) = n + 1 /\ (\A k \in 1..n : h[k] = f[k]) /\ h[n + 1] = e /\ n \in Nat
  BY <1>h, AppendProperties, LenProperties
<1>2. \A k \in 1..(n + 1) : g[k] = h[k]
  BY <1>1
<1>3. Len(g) = Len(h) /\ \A k \in 1..Len(g) : g[k] = h[k]
  BY <1>1, <1>2
<1>4. g = h
  BY <1>1, <1>3, SeqEqual
<1> QED  BY <1>4, <1>h

\* The root directory of a file system with a new file.
LEMMA RootAppended ==
  ASSUME NEW s \in FsValue, Disk(s), NEW t \in FsValue, Disk(t), NEW i \in Inum, NEW name \in Name,
         MadeAs(s, t, i, name), NEW e, e = Dirent(i, name)
  PROVE  FileCells(t, Root) = Append(FileCells(s, Root), e)
<1>f. PICK f : f = FileCells(s, Root)
  OBVIOUS
<1>g. PICK g : g = FileCells(t, Root)
  OBVIOUS
<1>n. PICK n : n = Dsk(s, Root).size
  OBVIOUS
<1>1. /\ f \in Seq(Cell) /\ Len(f) = n /\ n \in Nat
      /\ \A k \in 1..n : f[k] = Cel(s, Root, k - 1)
  BY <1>f, <1>n, Consts, FileCellsAre
<1>2. Dsk(t, Root).size = n + 1
  BY <1>n DEF MadeAs, DirSize
<1>3. /\ g \in Seq(Cell) /\ Len(g) = n + 1
      /\ \A k \in 1..(n + 1) : g[k] = Cel(t, Root, k - 1)
  BY <1>g, <1>2, Consts, FileCellsAre
<1>4. (\A o \in 0..(n - 1) : Cel(t, Root, o) = Cel(s, Root, o)) /\ Cel(t, Root, n) = e
  BY <1>n DEF MadeAs, DirSize, Ent
<1>5. ASSUME NEW k \in 1..n PROVE g[k] = f[k]
  <2>o. PICK o : o = k - 1
    OBVIOUS
  <2>1. o \in 0..(n - 1) /\ k \in 1..(n + 1)
    BY <1>1, <2>o
  <2> QED  BY <1>1, <1>3, <1>4, <2>1, <2>o
<1>6. g[n + 1] = e
  <2>1. n + 1 \in 1..(n + 1) /\ (n + 1) - 1 = n
    BY <1>1
  <2> QED  BY <1>3, <1>4, <2>1
<1>7. e \in Cell
  BY Consts DEF Dirent, Cell
<1>8. g = Append(f, e)
  BY <1>1, <1>3, <1>5, <1>6, <1>7, OneAppended
<1> QED  BY <1>8, <1>f, <1>g

\* The files after a new file was made.
LEMMA DataMade ==
  ASSUME NEW s, Sound(s, 0), NEW t, Sound(t, 0), NEW i, Made(s, t, i)
  PROVE  CreatesIn(Data(s), Data(t), i) /\ i \in Inum /\ i # Root /\ InUse(t, i)
<1>1. PICK name \in Name : MadeAs(s, t, i, name)
  BY DEF Made
<1>e. PICK e : e = Dirent(i, name)
  OBVIOUS
<1>2. i \in Inum /\ i # Root /\ ~InUse(s, i) /\ InUse(t, i) /\ Root \in Inum
  BY <1>1, Consts DEF MadeAs
<1>3. s \in FsValue /\ Disk(s) /\ t \in FsValue /\ Disk(t) /\ InUse(s, Root)
  BY DirIs
<1>4. Used(t) = Used(s) \cup {i}
  BY <1>1, <1>2 DEF MadeAs, Used
<1>5. FileCells(t, i) = <<>>
  <2>1. Dsk(t, i).size = 0
    BY <1>1 DEF MadeAs
  <2>2. FileCells(t, i) \in Seq(Cell) /\ Len(FileCells(t, i)) = 0
    BY <1>2, <1>3, <2>1, FileCellsAre
  <2> QED  BY <2>2, EmptySeq
<1>6. FileCells(t, Root) = Append(FileCells(s, Root), e)
  BY <1>1, <1>2, <1>3, <1>e, RootAppended
<1>7. ASSUME NEW g \in Inum, g # i, g # Root PROVE FileCells(t, g) = FileCells(s, g)
  <2>1. SameCells(s, t, g)
    BY <1>1, <1>7 DEF MadeAs
  <2> QED  BY <1>3, <2>1, CellsSame
<1>8. Creates(Data(s), Data(t), i, name)
  <2>1. DOMAIN Data(s) = Used(s) /\ \A g \in Used(s) : Data(s)[g] = FileCells(s, g) /\ g \in Inum
    BY DataIs DEF Used
  <2>2. Root \in Used(s) /\ i \notin Used(s)
    BY <1>2, <1>3 DEF Used
  <2>3. \A g \in Used(s) \cup {i} :
          FileCells(t, g) = IF g = i THEN <<>> ELSE IF g = Root THEN Append(Data(s)[Root], e) ELSE Data(s)[g]
    BY <1>2, <1>5, <1>6, <1>7, <2>1, <2>2
  <2>4. Data(t) = [g \in Used(s) \cup {i} |-> FileCells(t, g)]
    BY <1>4 DEF Data
  <2> QED  BY <1>e, <2>1, <2>3, <2>4 DEF Creates
<1>9. NoEntry(Data(s), name)
  <2>f. PICK f : f = FileCells(s, Root)
    OBVIOUS
  <2>n. PICK n : n = DirSize(s)
    OBVIOUS
  <2>1. Data(s)[Root] = f
    BY <1>2, <1>3, <2>f, DataIs
  <2>2. Len(f) = n /\ n \in Nat /\ \A k \in 1..n : f[k] = Ent(s, k - 1)
    BY <1>2, <1>3, <2>f, <2>n, FileCellsAre DEF DirSize, Ent
  <2>3. ASSUME NEW k \in 1..n, NEW g \in Inum PROVE f[k] # Dirent(g, name)
    <3>o. PICK o : o = k - 1
      OBVIOUS
    <3>1. o \in 0..(n - 1)
      BY <2>2, <3>o
    <3>2. f[k].name # name
      BY <1>1, <2>2, <2>n, <3>o, <3>1 DEF MadeAs
    <3> QED  BY <3>2 DEF Dirent
  <2> QED  BY <2>1, <2>2, <2>3 DEF NoEntry
<1>10. i \notin DOMAIN Data(s)
  BY <1>2, DataIs
<1> QED  BY <1>2, <1>8, <1>9, <1>10 DEF CreatesIn

\* What open does to the files.
OpensTo(D, E, i) ==
  \/ i \in DOMAIN D /\ E = D
  \/ i \in DOMAIN D \ {Root} /\ Changed(D, E, i, <<>>)
  \/ CreatesIn(D, E, i)

\* A successful open; a file just made is empty already.
LEMMA DataOpened ==
  ASSUME NEW s, Sound(s, 0), NEW u, Sound(u, 0), NEW w, NEW t, NEW i \in Inum, InUse(u, i),
         Alike(s, u) \/ Made(s, u, i),
         Alike(u, t) \/ (i # Root /\ Emptied(u, w, i) /\ Alike(w, t))
  PROVE  OpensTo(Data(s), Data(t), i)
<1>1. u \in FsValue /\ Disk(u) /\ i \in DOMAIN Data(u)
  BY DirIs, DataIs
<1>2. Data(t) = Data(u) \/ (i # Root /\ Changed(Data(u), Data(t), i, <<>>))
  <2>1. CASE Alike(u, t)
    BY <2>1, DataSame
  <2>2. CASE i # Root /\ Emptied(u, w, i) /\ Alike(w, t)
    <3>1. Changed(Data(u), Data(w), i, <<>>)
      BY <1>1, <2>2, DataEmptied
    <3>2. Data(t) = Data(w)
      BY <2>2, DataSame
    <3> QED  BY <2>2, <3>1, <3>2
  <2> QED  BY <2>1, <2>2
<1>3. CASE Alike(s, u)
  <2>1. Data(u) = Data(s)
    BY <1>3, DataSame
  <2> QED  BY <1>1, <1>2, <2>1 DEF OpensTo
<1>4. CASE Made(s, u, i)
  <2>1. CreatesIn(Data(s), Data(u), i)
    BY <1>4, DataMade
  <2>2. Data(u)[i] = <<>>
    BY <2>1 DEF CreatesIn, Creates
  <2>3. Data(t) = Data(u)
    <3>1. ASSUME Changed(Data(u), Data(t), i, <<>>) PROVE Data(t) = Data(u)
      <4>d. PICK d : d = Data(u)
        OBVIOUS
      <4>1. d = [g \in DOMAIN d |-> d[g]]
        BY <4>d DEF Data
      <4>2. [d EXCEPT ![i] = <<>>] = d
        BY <2>2, <4>1, <4>d
      <4> QED  BY <3>1, <4>2, <4>d DEF Changed
    <3> QED  BY <1>2, <3>1
  <2> QED  BY <2>1, <2>3 DEF OpensTo
<1> QED  BY <1>3, <1>4

-----------------------------------------------------------------------------
(* The refinement mapping.                                                 *)

\* An open file and a write in progress as FileSpec sees them.
Seen(f) == [file |-> f.ip, off |-> f.off, r |-> f.readable, w |-> f.writable]
SeenAll(ft) == [k \in Idx |-> Seen(ft[k])]
Raws(cells) == [k \in 1..Len(cells) |-> Raw(cells[k])]
Left(c) == [d |-> c.f, n |-> c.n, cells |-> Raws(c.cells)]

\* What the mapping gives, in terms of one file system value.
LEMMA FilesSeen ==
  IInv => FileData = Data(fs)
<1> SUFFICES ASSUME IInv PROVE FileData = Data(fs)
  OBVIOUS
<1>1. Allocated = Used(fs)
  BY DEF Allocated, Used, InUse, Dsk
<1>2. ASSUME NEW i \in Used(fs) PROVE Contents(fs.dinode[i]) = FileCells(fs, i)
  <2>e. PICK e : e = Contents(fs.dinode[i])
    OBVIOUS
  <2>z. PICK z : z = Dsk(fs, i).size
    OBVIOUS
  <2>1. e = [k \in 1..z |-> Cel(fs, i, k - 1)]
    BY <2>e, <2>z, ContentsAre DEF Used
  <2> QED  BY <2>1, <2>e, <2>z DEF FileCells
<1> QED  BY <1>1, <1>2 DEF FileData, Data

\* The same of the next state.
LEMMA FilesSeenNext ==
  IInv' => FileData' = Data(fs')
<1>1. (IInv => FileData = Data(fs))'
  BY FilesSeen, PTL
<1>2. Data(fs)' = Data(fs')
  BY DEF Data, Used, InUse, Dsk, FileCells, Cel, Place, Addr
<1> QED  BY <1>1, <1>2

\* The tables are mapped entry by entry.
LEMMA TablesSeen ==
  /\ Descriptions = SeenAll(ftable) /\ Descriptions' = SeenAll(ftable')
  /\ Unwritten = Left(call) /\ Unwritten' = Left(call')
BY DEF Descriptions, SeenAll, Seen, Unwritten, Left, Raws

\* No write in progress, and a description in no use.
LEMMA IdleIs ==
  /\ Left(NoCall) = Files!Idle
  /\ Seen(NoFile) = Files!Closed
BY DEF Left, NoCall, Raws, Files!Idle, Seen, NoFile, Files!Closed

\* A write in progress is not over.
LEMMA NotIdle ==
  ASSUME NEW c \in CallSet, c.f # 0
  PROVE  Left(c) # Files!Idle
BY DEF Left, Files!Idle

\* Entries of the file table in no use are cleared.
Unopened(ft) == \A k \in Idx : ft[k].ref = 0 => ft[k] = NoFile

\* What a step may do to an entry of the file table.
Cleared(ft, ft2) == \A k \in Idx : ft2[k] = ft[k] \/ ft2[k].ref > 0 \/ ft2[k] = NoFile

\* Such a step leaves the free entries clear.
LEMMA ClearedIs ==
  ASSUME NEW ft, Unopened(ft), NEW ft2, Cleared(ft, ft2)
  PROVE  Unopened(ft2)
BY DEF Unopened, Cleared

\* fileclose clears the entry that it frees.
LEMMA UnopenedStep ==
  ASSUME IInv, Unopened(ftable), [Next]_vars
  PROVE  Unopened(ftable')
<1>1. Tables(ftable, ofile) /\ ftable \in [Idx -> FileSet] /\ Calling(call, ftable)
  BY DEF IInv, Tables
<1>2. \A k \in Idx : ftable[k].ref \in Nat
  BY <1>1 DEF FileSet
<1>3. \A fd \in Fd : ofile[fd] # 0 => ofile[fd] \in Idx /\ ftable[ofile[fd]].ref > 0
  BY <1>1, FileOf
<1>4. ASSUME NEW fd \in Fd, SysDup(fd) PROVE Cleared(ftable, ftable')
  <2>k. PICK k : k = ofile[fd]
    OBVIOUS
  <2>1. k \in Idx /\ ftable[k].ref > 0
    BY <1>3, <1>4, <2>k DEF SysDup
  <2>2. ftable' = ftable \/ ftable' = [ftable EXCEPT ![k].ref = @ + 1]
    BY <1>4, <2>k DEF SysDup
  <2>3. CASE ftable' = ftable
    BY <2>3 DEF Cleared
  <2>4. CASE ftable' = [ftable EXCEPT ![k].ref = @ + 1]
    <3>1. \A l \in Idx : l # k => ftable'[l] = ftable[l]
      BY <1>1, <2>4
    <3>2. ftable'[k].ref = ftable[k].ref + 1
      BY <1>1, <2>1, <2>4 DEF FileSet
    <3>3. ftable'[k].ref > 0
      BY <1>2, <2>1, <3>2
    <3> QED  BY <3>1, <3>3 DEF Cleared
  <2> QED  BY <2>2, <2>3, <2>4
<1>5. ASSUME NEW fd \in Fd, SysClose(fd) PROVE Cleared(ftable, ftable')
  <2>k. PICK k : k = ofile[fd]
    OBVIOUS
  <2>1. k \in Idx /\ ftable[k].ref > 0
    BY <1>3, <1>5, <2>k DEF SysClose
  <2>2. \/ ftable[k].ref > 1 /\ ftable' = [ftable EXCEPT ![k].ref = @ - 1]
        \/ ftable' = [ftable EXCEPT ![k] = NoFile]
    BY <1>5, <2>k DEF SysClose
  <2>3. CASE ftable[k].ref > 1 /\ ftable' = [ftable EXCEPT ![k].ref = @ - 1]
    <3>1. \A l \in Idx : l # k => ftable'[l] = ftable[l]
      BY <1>1, <2>3
    <3>2. ftable'[k].ref = ftable[k].ref - 1
      BY <1>1, <2>1, <2>3 DEF FileSet
    <3>3. ftable'[k].ref > 0
      BY <1>2, <2>1, <2>3, <3>2
    <3> QED  BY <3>1, <3>3 DEF Cleared
  <2>4. CASE ftable' = [ftable EXCEPT ![k] = NoFile]
    BY <1>1, <2>1, <2>4 DEF Cleared
  <2> QED  BY <2>2, <2>3, <2>4
<1>6. ASSUME NEW k \in Idx, ftable[k].ref > 0, NEW n, Shifted(ftable, ftable', k, n) PROVE Cleared(ftable, ftable')
  <2>1. \A l \in Idx : l # k => ftable'[l] = ftable[l]
    BY <1>1, <1>6 DEF Shifted
  <2>2. ftable'[k].ref = ftable[k].ref
    BY <1>1, <1>6 DEF Shifted, FileSet
  <2> QED  BY <1>6, <2>1, <2>2 DEF Cleared
<1>7. ASSUME NEW path, NEW mode, SysOpen(path, mode) PROVE Cleared(ftable, ftable')
  <2>l. PICK l : l = Lookup(path, mode)
    OBVIOUS
  <2>k. PICK k : k = Min(FreeIdx)
    OBVIOUS
  <2>1. Opened(l, mode)
    BY <1>7, <2>l DEF SysOpen
  <2>2. ftable' = ftable \/ (FreeIdx # {} /\ ftable' = [ftable EXCEPT ![k] = NewOpen(mode, l.v)])
    BY <2>1, <2>k, Zenon DEF Opened, NewOpen
  <2>3. CASE ftable' = ftable
    BY <2>3 DEF Cleared
  <2>4. CASE FreeIdx # {} /\ ftable' = [ftable EXCEPT ![k] = NewOpen(mode, l.v)]
    <3>1. k \in Idx
      BY <2>4, <2>k, Firsts
    <3>f. PICK f : f = NewOpen(mode, l.v)
      OBVIOUS
    <3>2. f.ref = 1
      BY <3>f DEF NewOpen
    <3> QED  BY <1>1, <2>4, <3>1, <3>2, <3>f DEF Cleared
  <2> QED  BY <2>2, <2>3, <2>4
<1>8. ASSUME NEW fd \in Fd, NEW n, SysRead(fd, n) PROVE Cleared(ftable, ftable')
  <2>k. PICK k : k = ofile[fd]
    OBVIOUS
  <2>1. k \in Idx /\ ftable[k].ref > 0
    BY <1>3, <1>8, <2>k DEF SysRead
  <2>2. ftable' = ftable \/ \E m : Shifted(ftable, ftable', k, m)
    BY <1>8, <2>k, Zenon DEF SysRead, Shifted
  <2>3. CASE ftable' = ftable
    BY <2>3 DEF Cleared
  <2> QED  BY <1>6, <2>1, <2>2, <2>3
<1>9. ASSUME WriteChunk PROVE Cleared(ftable, ftable')
  <2>k. PICK k : k = call.f
    OBVIOUS
  <2>1. k \in Idx /\ ftable[k].ref > 0
    BY <1>1, <1>9, <2>k DEF WriteChunk, Calling
  <2>2. ftable' = ftable \/ \E m : Shifted(ftable, ftable', k, m)
    BY <1>9, <2>k, Zenon DEF WriteChunk, Shifted
  <2>3. CASE ftable' = ftable
    BY <2>3 DEF Cleared
  <2> QED  BY <1>6, <2>1, <2>2, <2>3
<1>10. ASSUME Restart PROVE Cleared(ftable, ftable')
  BY <1>10 DEF Restart, Cleared
<1>11. ASSUME ftable' = ftable PROVE Cleared(ftable, ftable')
  BY <1>11 DEF Cleared
<1>12. Cleared(ftable, ftable')
  <2>1. CASE Next
    BY <2>1, <1>4, <1>5, <1>7, <1>8, <1>9, <1>10, <1>11 DEF Next, SysBadFd, SysFstat, SysWrite
  <2>2. CASE UNCHANGED vars
    BY <2>2, <1>11 DEF vars
  <2> QED  BY <2>1, <2>2
<1> QED  BY <1>12, ClearedIs

-----------------------------------------------------------------------------
(* The steps of FileSpec, in terms of Data.                                *)

\* A step that the caller does not see.
LEMMA UnseenStep ==
  ASSUME IInv, IInv', Data(fs') = Data(fs), ftable' = ftable, ofile' = ofile, call' = call, ret' = ret
  PROVE  UNCHANGED Files!fsvars
<1>1. FileData' = FileData
  BY FilesSeen, FilesSeenNext
<1>2. Descriptions' = Descriptions /\ Unwritten' = Unwritten
  BY TablesSeen
<1> QED  BY <1>1, <1>2 DEF Files!fsvars

\* A call that returns -1.
LEMMA FailStep ==
  ASSUME IInv, IInv', Data(fs') = Data(fs), call = NoCall, ftable' = ftable, ofile' = ofile, call' = NoCall,
         ret' = Answer(-1, <<>>)
  PROVE  Files!Fail
<1>1. FileData' = FileData
  BY FilesSeen, FilesSeenNext
<1>2. Descriptions' = Descriptions /\ Unwritten' = Unwritten /\ Unwritten = Files!Idle
  BY TablesSeen, IdleIs
<1>3. ret' = Files!Answer(-1, <<>>)
  BY DEF Answer, Files!Answer
<1> QED  BY <1>1, <1>2, <1>3 DEF Files!Fail

\* The files that create() makes are those of FileSpec.
LEMMA CreatedIs ==
  ASSUME IInv, IInv', NEW i, CreatesIn(Data(fs), Data(fs'), i)
  PROVE  \E name \in Name :
           /\ i \notin DOMAIN FileData
           /\ \A k \in 1..Len(FileData[Root]) : \A g \in Inum : FileData[Root][k] # Dirent(g, name)
           /\ FileData' = Files!Created(i, name)
<1>1. FileData = Data(fs) /\ FileData' = Data(fs')
  BY FilesSeen, FilesSeenNext
<1>2. PICK name \in Name : /\ i \notin DOMAIN FileData /\ NoEntry(FileData, name)
                           /\ Creates(FileData, FileData', i, name)
  BY <1>1, Zenon DEF CreatesIn
<1>3. FileData' = Files!Created(i, name)
  BY <1>2, Zenon DEF Creates, Files!Created
<1> QED  BY <1>2, <1>3, Zenon DEF NoEntry

\* open fails after create().
LEMMA CreateOnlyStep ==
  ASSUME IInv, IInv', NEW i, CreatesIn(Data(fs), Data(fs'), i), call = NoCall, ftable' = ftable,
         ofile' = ofile, call' = NoCall, ret' = Answer(-1, <<>>)
  PROVE  \E name \in Name : Files!CreateOnly(i, name)
<1>1. Descriptions' = Descriptions /\ Unwritten' = Unwritten /\ Unwritten = Files!Idle
  BY TablesSeen, IdleIs
<1>2. ret' = Files!Answer(-1, <<>>)
  BY DEF Answer, Files!Answer
<1>3. PICK name \in Name :
        /\ i \notin DOMAIN FileData
        /\ \A k \in 1..Len(FileData[Root]) : \A g \in Inum : FileData[Root][k] # Dirent(g, name)
        /\ FileData' = Files!Created(i, name)
  BY CreatedIs
<1>4. Files!CreateOnly(i, name)
  BY <1>1, <1>2, <1>3, Zenon DEF Files!CreateOnly
<1> QED  BY <1>4

\* What the mapping makes of a new open file.
LEMMA SeenOpened ==
  ASSUME NEW ft \in [Idx -> FileSet], NEW k \in Idx, NEW f, NEW ft2, Changed(ft, ft2, k, f),
         NEW o, o = Seen(f), NEW D, D = SeenAll(ft), NEW E, E = SeenAll(ft2)
  PROVE  Changed(D, E, k, o)
BY DEF SeenAll, Changed

\* open succeeds.
LEMMA OpenedStep ==
  ASSUME IInv, IInv', Unopened(ftable), NEW i \in Inum, OpensTo(Data(fs), Data(fs'), i), call = NoCall,
         NEW k \in Idx, ftable[k].ref = 0, NEW fd \in Fd, ofile[fd] = 0, NEW mode, mode # {} => i # Root,
         NEW f, f = NewOpen(mode, i), Changed(ftable, ftable', k, f), Changed(ofile, ofile', fd, k),
         call' = NoCall, ret' = Answer(fd, <<>>)
  PROVE  \E r \in BOOLEAN, w \in BOOLEAN : Files!Open(fd, k, i, r, w)
<1>r. PICK r : r = ("O_WRONLY" \notin mode)
  OBVIOUS
<1>w. PICK w : w = ({"O_WRONLY", "O_RDWR"} \cap mode # {})
  OBVIOUS
<1>1. r \in BOOLEAN /\ w \in BOOLEAN /\ (w => mode # {})
  BY <1>r, <1>w
<1>o. PICK o : o = Seen(f)
  OBVIOUS
<1>2. o = [file |-> i, off |-> 0, r |-> r, w |-> w]
  <2>1. f = [type |-> "FD_INODE", ref |-> 1, readable |-> r, writable |-> w, ip |-> i, off |-> 0]
    BY <1>r, <1>w, Zenon DEF NewOpen
  <2> QED  BY <2>1, <1>o DEF Seen
<1>3. Descriptions' = [Descriptions EXCEPT ![k] = o]
  <2>1. ftable \in [Idx -> FileSet]
    BY DEF IInv, Tables
  <2>3. Changed(Descriptions, Descriptions', k, o)
    BY <1>o, <2>1, SeenOpened, TablesSeen, Zenon
  <2> QED  BY <2>3, Zenon DEF Changed
<1>4. Descriptions[k] = Files!Closed
  <2>1. ftable[k] = NoFile
    BY DEF Unopened
  <2>2. Descriptions[k] = Seen(ftable[k])
    BY TablesSeen DEF SeenAll
  <2> QED  BY <2>1, <2>2, IdleIs
<1>5. Unwritten' = Unwritten /\ Unwritten = Files!Idle
  BY TablesSeen, IdleIs
<1>6. ret' = Files!Answer(fd, <<>>)
  BY DEF Answer, Files!Answer
<1>7. FileData = Data(fs) /\ FileData' = Data(fs')
  BY FilesSeen, FilesSeenNext
<1>8. \/ i \in DOMAIN FileData /\ FileData' = FileData
      \/ i \in DOMAIN FileData \ {Root} /\ FileData' = [FileData EXCEPT ![i] = <<>>]
      \/ \E name \in Name :
           /\ i \notin DOMAIN FileData
           /\ \A l \in 1..Len(FileData[Root]) : \A g \in Inum : FileData[Root][l] # Dirent(g, name)
           /\ FileData' = Files!Created(i, name)
  <2>1. CASE CreatesIn(Data(fs), Data(fs'), i)
    BY <2>1, CreatedIs, Zenon
  <2>2. CASE i \in DOMAIN Data(fs) /\ Data(fs') = Data(fs)
    BY <1>7, <2>2
  <2>3. CASE i \in DOMAIN Data(fs) \ {Root} /\ Changed(Data(fs), Data(fs'), i, <<>>)
    BY <1>7, <2>3, Zenon DEF Changed
  <2> QED  BY <2>1, <2>2, <2>3, Zenon DEF OpensTo
<1>9. i = Root => ~w
  BY <1>1
<1>11. ofile' = [ofile EXCEPT ![fd] = k]
  BY Zenon DEF Changed
<1>10. Files!Open(fd, k, i, r, w)
  BY <1>11, <1>2, <1>3, <1>4, <1>5, <1>6, <1>8, <1>9, Zenon DEF Files!Open
<1> QED  BY <1>1, <1>10

-----------------------------------------------------------------------------
(* The calls of kernel/sysfile.c, one lemma each.                          *)

\* A step that ends in a panic does not touch the files.
LEMMA StuckData ==
  ASSUME NEW t, Stuck(fs, t), fs' = Committed(fs, t)
  PROVE  ~Ok(t) /\ Data(fs') = Data(fs)
<1>1. ~Ok(t)
  BY DEF Stuck, Full, NoneFree, Ok, NoInodes, NoBlock
<1>2. fs' = SetPanic(fs, t.panic)
  BY <1>1 DEF Committed
<1>3. Alike(fs, fs')
  BY <1>2 DEF SetPanic, Alike
<1> QED  BY <1>1, <1>3, DataSame

\* open is an open, a failure or a create() whose file stays closed.
LEMMA OpenSeen ==
  ASSUME IInv, IInv', Unopened(ftable), \A p \in Paths : ~p.empty, NEW path \in Paths, NEW mode, SysOpen(path, mode)
  PROVE  Files!FSNext \/ UNCHANGED Files!fsvars
<1>b. PICK B : B = RefsOf(ftable)
  OBVIOUS
<1>l. PICK l : l = Lookup(path, mode)
  OBVIOUS
<1>u. PICK u : u = l.s
  OBVIOUS
<1>i. PICK i : i = l.v
  OBVIOUS
<1>k. PICK k : k = Min(FreeIdx)
  OBVIOUS
<1>f. PICK fd : fd = Min(FreeFd)
  OBVIOUS
<1>w. PICK w : w = IF "O_TRUNC" \in mode /\ u.ic[i].d.type = "T_FILE" THEN Itrunc(u, i) ELSE u
  OBVIOUS
<1>1. Ready /\ Opened(l, mode) /\ call' = call
  BY <1>l DEF SysOpen
<1>2. Ok(fs) /\ call = NoCall /\ call' = NoCall
  BY <1>1 DEF Ready
<1>3. /\ Rest(fs, B) /\ Kept(fs, fs, 0, B, 0, 0, 0, 0) /\ Few(B) /\ Tables(ftable, ofile) /\ Sound(fs, 0)
  BY <1>b, <1>2, Before, InvParts
<1>4. path \in PathSet /\ ~path.empty
  BY FileSysAssumption DEF PathSet
<1>5. Gives(Lookup(path, mode), u, i)
  BY <1>l, <1>u, <1>i DEF Gives
<1>6. Found(fs, B, u, i, mode)
  BY <1>3, <1>4, <1>5, LookupIs
<1>7. CASE i = 0 \/ FreeIdx = {} \/ FreeFd = {}
  <2>t. PICK t : t = (IF i = 0 THEN u ELSE Iput(Iunlock(u, i), i))
    OBVIOUS
  <2>1. /\ Commit(t) /\ ftable' = ftable /\ ofile' = ofile
        /\ Ok(t) => ret' = Answer(-1, <<>>)
        /\ ~Ok(t) => ret' = ret
    BY <1>1, <1>7, <1>u, <1>i, <2>t, Zenon DEF Opened
  <2>2. fs' = Committed(fs, t)
    BY <2>1, CommitIs
  <2>3. Stuck(fs, t) \/ (Kept(t, t, 0, B, 0, 0, 0, 0) /\ (Alike(fs, t) \/ \E f \in Inum : Made(fs, t, f)))
    BY <1>6, <2>t, OpenFails
  <2>4. CASE Stuck(fs, t)
    <3>1. ret' = ret /\ Data(fs') = Data(fs)
      BY <2>1, <2>2, <2>4, StuckData
    <3> QED  BY <1>2, <2>1, <3>1, UnseenStep
  <2>5. ASSUME Kept(t, t, 0, B, 0, 0, 0, 0) PROVE fs' = t /\ Sound(t, 0) /\ ret' = Answer(-1, <<>>)
    BY <2>1, <2>2, <2>5, KeptIs DEF Committed
  <2>6. CASE Kept(t, t, 0, B, 0, 0, 0, 0) /\ Alike(fs, t)
    <3>1. Data(fs') = Data(fs)
      BY <2>5, <2>6, DataSame
    <3>2. Files!Fail
      BY <1>2, <2>1, <2>5, <2>6, <3>1, FailStep
    <3> QED  BY <3>2, Zenon DEF Files!FSNext
  <2>7. CASE Kept(t, t, 0, B, 0, 0, 0, 0) /\ \E f \in Inum : Made(fs, t, f)
    <3>1. PICK f \in Inum : Made(fs, t, f)
      BY <2>7
    <3>2. CreatesIn(Data(fs), Data(fs'), f)
      BY <1>3, <2>5, <2>7, <3>1, DataMade
    <3>3. \E name \in Name : Files!CreateOnly(f, name)
      BY <1>2, <2>1, <2>5, <2>7, <3>2, CreateOnlyStep
    <3> QED  BY <3>3, Zenon DEF Files!FSNext
  <2> QED  BY <2>3, <2>4, <2>6, <2>7
<1>8. CASE ~(i = 0 \/ FreeIdx = {} \/ FreeFd = {})
  <2>t. PICK t : t = Iunlock(w, i)
    OBVIOUS
  <2>1. /\ Commit(t)
        /\ ~Ok(t) => ftable' = ftable /\ ofile' = ofile /\ ret' = ret
        /\ Ok(t) => /\ ftable' = [ftable EXCEPT ![k] = NewOpen(mode, i)]
                    /\ ofile' = [ofile EXCEPT ![fd] = k]
                    /\ ret' = Answer(fd, <<>>)
    BY <1>1, <1>8, <1>u, <1>i, <1>k, <1>f, <1>w, <2>t, Zenon DEF Opened, NewOpen
  <2>2. fs' = Committed(fs, t)
    BY <2>1, CommitIs
  <2>3. \/ Stuck(fs, t)
        \/ /\ i \in Inum /\ (mode # {} => i # Root) /\ Kept(t, t, 0, B, i, 0, 0, 0)
           /\ Kept(u, u, 0, B, i, 0, i, 0) /\ (Alike(fs, u) \/ Made(fs, u, i))
           /\ Alike(u, t) \/ (i # Root /\ Emptied(u, w, i) /\ Alike(w, t))
    <3>1. w = u \/ (w = Itrunc(u, i) /\ mode # {})
      BY <1>w
    <3> QED  BY <1>6, <1>8, <2>t, <3>1, OpenWorks
  <2>4. CASE Stuck(fs, t)
    <3>1. ~Ok(t) /\ Data(fs') = Data(fs)
      BY <2>2, <2>4, StuckData
    <3> QED  BY <1>2, <2>1, <3>1, UnseenStep
  <2>5. CASE /\ i \in Inum /\ (mode # {} => i # Root) /\ Kept(t, t, 0, B, i, 0, 0, 0)
             /\ Kept(u, u, 0, B, i, 0, i, 0) /\ (Alike(fs, u) \/ Made(fs, u, i))
             /\ Alike(u, t) \/ (i # Root /\ Emptied(u, w, i) /\ Alike(w, t))
    <3>1. Ok(t) /\ fs' = t
      BY <2>2, <2>5, KeptIs DEF Committed
    <3>2. k \in Idx /\ ftable[k].ref = 0 /\ fd \in Fd /\ ofile[fd] = 0
      BY <1>8, <1>k, <1>f, Firsts
    <3>3. OpensTo(Data(fs), Data(fs'), i)
      <4>1. Sound(u, 0) /\ InUse(u, i)
        BY <2>5, KeptIs, LockedIs
      <4> QED  BY <1>3, <2>5, <3>1, <4>1, DataOpened
    <3>f. PICK f : f = NewOpen(mode, i)
      OBVIOUS
    <3>5. Changed(ftable, ftable', k, f) /\ Changed(ofile, ofile', fd, k) /\ ret' = Answer(fd, <<>>)
      BY <2>1, <3>1, <3>f, Zenon DEF Changed
    <3>6. mode # {} => i # Root
      BY <2>5
    <3>4. \E r \in BOOLEAN, b \in BOOLEAN : Files!Open(fd, k, i, r, b)
      BY <1>2, <2>5, <3>2, <3>3, <3>5, <3>6, <3>f, OpenedStep, Zenon
    <3> QED  BY <2>5, <3>2, <3>4, Zenon DEF Files!FSNext
  <2> QED  BY <2>3, <2>4, <2>5
<1> QED  BY <1>7, <1>8

\* A bad descriptor is a failure.
LEMMA BadFdSeen ==
  ASSUME IInv, IInv', NEW fd, SysBadFd(fd)
  PROVE  Files!FSNext
<1>1. /\ call = NoCall /\ fs' = fs /\ ftable' = ftable /\ ofile' = ofile /\ call' = NoCall
      /\ ret' = Answer(-1, <<>>)
  BY DEF SysBadFd, Ready
<1>2. Files!Fail
  BY <1>1, FailStep
<1> QED  BY <1>2, Zenon DEF Files!FSNext

\* Reference counts are not seen.
LEMMA SeenSame ==
  ASSUME NEW ft, NEW ft2, \A k \in Idx : Seen(ft2[k]) = Seen(ft[k])
  PROVE  SeenAll(ft2) = SeenAll(ft)
BY DEF SeenAll

\* A reference more or less.
Recounted(ft, ft2, k, n) == ft2 = [ft EXCEPT ![k].ref = n]

\* It is not seen.
LEMMA SeenCounted ==
  ASSUME NEW ft \in [Idx -> FileSet], NEW k \in Idx, NEW n, NEW ft2, Recounted(ft, ft2, k, n)
  PROVE  SeenAll(ft2) = SeenAll(ft)
<1>1. \A l \in Idx : Seen(ft2[l]) = Seen(ft[l])
  BY DEF Recounted, Seen, FileSet
<1> QED  BY <1>1, SeenSame

\* dup is a dup or a failure.
LEMMA DupSeen ==
  ASSUME IInv, IInv', NEW old \in Fd, SysDup(old)
  PROVE  Files!FSNext
<1>k. PICK k : k = ofile[old]
  OBVIOUS
<1>f. PICK fd : fd = Min(FreeFd)
  OBVIOUS
<1>1. call = NoCall /\ k # 0 /\ fs' = fs /\ call' = NoCall
  BY <1>k DEF SysDup, Ready
<1>2. CASE FreeFd = {}
  <2>1. ftable' = ftable /\ ofile' = ofile /\ ret' = Answer(-1, <<>>)
    BY <1>2 DEF SysDup
  <2>2. Files!Fail
    BY <1>1, <2>1, FailStep
  <2> QED  BY <2>2, Zenon DEF Files!FSNext
<1>3. CASE FreeFd # {}
  <2>n. PICK n : n = ftable[k].ref + 1
    OBVIOUS
  <2>1. /\ ftable' = [ftable EXCEPT ![k].ref = @ + 1] /\ ofile' = [ofile EXCEPT ![fd] = ofile[old]]
        /\ ret' = Files!Answer(fd, <<>>)
    BY <1>3, <1>k, <1>f DEF SysDup, Answer, Files!Answer
  <2>2. Tables(ftable, ofile) /\ ftable \in [Idx -> FileSet]
    BY DEF IInv, Tables
  <2>3. k \in Idx
    BY <1>1, <1>k, <2>2, FileOf
  <2>4. fd \in Fd /\ ofile[fd] = 0
    BY <1>3, <1>f, Firsts
  <2>5. Recounted(ftable, ftable', k, n)
    BY <2>1, <2>n DEF Recounted
  <2>6. Descriptions' = Descriptions
    BY <2>2, <2>3, <2>5, SeenCounted, TablesSeen
  <2>7. FileData' = FileData
    BY <1>1, FilesSeen, FilesSeenNext
  <2>8. Unwritten' = Unwritten /\ Unwritten = Files!Idle
    BY <1>1, TablesSeen, IdleIs
  <2>9. Files!Dup(old, fd)
    BY <1>1, <1>k, <2>1, <2>4, <2>6, <2>7, <2>8, Zenon DEF Files!Dup
  <2> QED  BY <2>4, <2>9, Zenon DEF Files!FSNext
<1> QED  BY <1>2, <1>3

\* close is a close.
LEMMA CloseSeen ==
  ASSUME IInv, IInv', Alike(fs, fs'), NEW fd \in Fd, SysClose(fd)
  PROVE  Files!FSNext
<1>k. PICK k : k = ofile[fd]
  OBVIOUS
<1>1. /\ call = NoCall /\ k # 0 /\ call' = NoCall /\ ofile' = [ofile EXCEPT ![fd] = 0]
      /\ ret' = Files!Answer(0, <<>>)
  BY <1>k DEF SysClose, Ready, Answer, Files!Answer
<1>2. Tables(ftable, ofile) /\ Tables(ftable', ofile') /\ ftable \in [Idx -> FileSet]
  BY DEF IInv, Tables
<1>3. k \in Idx /\ ftable[k] \in FileSet /\ ftable[k].ref > 0 /\ ftable[k].ref \in Nat
  BY <1>1, <1>2, <1>k, FileOf DEF FileSet
<1>4. ftable'[k].ref > 0 <=> \E g \in Fd : ofile'[g] = k
  <2>1. ftable'[k].ref = Cardinality(Descs(ofile', k))
    BY <1>2, <1>3 DEF Tables
  <2> QED  BY <2>1, DescsIs
<1>5. FileData' = FileData
  BY FilesSeen, FilesSeenNext, DataSame
<1>6. Unwritten' = Unwritten /\ Unwritten = Files!Idle
  BY <1>1, TablesSeen, IdleIs
<1>7. Descriptions' = IF \E g \in Fd : ofile'[g] = k THEN Descriptions
                      ELSE [Descriptions EXCEPT ![k] = Files!Closed]
  <2>1. CASE ftable[k].ref > 1
    <3>n. PICK n : n = ftable[k].ref - 1
      OBVIOUS
    <3>1. ftable' = [ftable EXCEPT ![k].ref = @ - 1]
      BY <1>k, <2>1 DEF SysClose
    <3>2. Recounted(ftable, ftable', k, n)
      BY <3>1, <3>n DEF Recounted
    <3>3. Descriptions' = Descriptions
      BY <1>2, <1>3, <3>2, SeenCounted, TablesSeen
    <3>4. ftable'[k].ref = n /\ n > 0
      <4>1. ftable'[k].ref = n
        BY <1>2, <1>3, <3>2 DEF Recounted, FileSet
      <4> QED  BY <1>3, <2>1, <3>n, <4>1
    <3> QED  BY <1>4, <3>3, <3>4
  <2>2. CASE ~(ftable[k].ref > 1)
    <3>f. PICK f : f = NoFile
      OBVIOUS
    <3>o. PICK o : o = Files!Closed
      OBVIOUS
    <3>1. ftable' = [ftable EXCEPT ![k] = f]
      BY <1>k, <2>2, <3>f DEF SysClose
    <3>2. Changed(ftable, ftable', k, f)
      BY <3>1, Zenon DEF Changed
    <3>3. o = Seen(f)
      BY <3>f, <3>o, IdleIs
    <3>4. Changed(Descriptions, Descriptions', k, o)
      BY <1>2, <1>3, <3>2, <3>3, SeenOpened, TablesSeen, Zenon
    <3>5. ftable'[k].ref = 0
      BY <1>2, <1>3, <3>1, <3>f DEF NoFile
    <3>6. ~(\E g \in Fd : ofile'[g] = k)
      BY <1>4, <3>5
    <3>7. Descriptions' = [Descriptions EXCEPT ![k] = o]
      BY <3>4, Zenon DEF Changed
    <3> QED  BY <3>6, <3>7, <3>o, Zenon
  <2> QED  BY <2>1, <2>2
<1>8. Files!Close(fd)
  BY <1>1, <1>k, <1>5, <1>6, <1>7, Zenon DEF Files!Close
<1> QED  BY <1>8, Zenon DEF Files!FSNext

\* An offset that moves is seen to move.
LEMMA SeenShifted ==
  ASSUME NEW ft \in [Idx -> FileSet], NEW k \in Idx, NEW n, NEW ft2, Shifted(ft, ft2, k, n),
         NEW D, D = SeenAll(ft), NEW E, E = SeenAll(ft2)
  PROVE  Shifted(D, E, k, n)
<1>1. \A l \in Idx : Seen(ft2[l]) = IF l = k THEN [Seen(ft[l]) EXCEPT !.off = @ + n] ELSE Seen(ft[l])
  BY DEF Shifted, Seen, FileSet
<1>2. E = [l \in Idx |-> IF l = k THEN [Seen(ft[l]) EXCEPT !.off = @ + n] ELSE Seen(ft[l])]
  BY <1>1 DEF SeenAll
<1>3. [D EXCEPT ![k].off = @ + n] = [l \in Idx |-> IF l = k THEN [Seen(ft[l]) EXCEPT !.off = @ + n] ELSE Seen(ft[l])]
  BY DEF SeenAll
<1> QED  BY <1>2, <1>3 DEF Shifted

\* Consecutive cells of a file are a part of it.
LEMMA PartIs ==
  ASSUME NEW f \in Seq(Cell), NEW n, n = Len(f), NEW off \in Nat, NEW m \in Nat, NEW e, e = off + m,
         m = 0 \/ e <= n, NEW v \in Seq(Cell), Len(v) = m, \A k \in 1..m : v[k] = f[off + k],
         NEW from, from = off + 1, NEW r, r = SubSeq(f, from, e)
  PROVE  v = r
<1>0. n \in Nat
  BY LenProperties
<1>1. r \in Seq(Cell) /\ Len(r) = m /\ \A k \in 1..m : r[k] = f[off + k]
  <2>1. CASE m = 0
    <3>1. from > e
      BY <2>1
    <3>2. r = <<>>
      BY <3>1, SubSeqProperties
    <3> QED  BY <2>1, <3>2
  <2>2. CASE m # 0
    <3>1. from \in 1..(n + 1) /\ e \in (from - 1)..n
      BY <1>0, <2>2
    <3>2. from \in Int /\ e \in Int /\ \A k \in from..e : f[k] \in Cell
      <4>1. \A k \in from..e : k \in 1..n
        BY <1>0, <2>2
      <4>2. \A k \in 1..n : f[k] \in Cell
        BY ElementOfSeq
      <4> QED  BY <4>1, <4>2
    <3>3. /\ r \in Seq(Cell)
          /\ Len(r) = IF from <= e THEN e - from + 1 ELSE 0
          /\ \A k \in 1..(e - from + 1) : r[k] = f[from + k - 1]
      BY <3>2, SubSeqProperties
    <3>4. from <= e /\ e - from + 1 = m
      BY <2>2
    <3>5. \A k \in 1..m : from + k - 1 = off + k
      OBVIOUS
    <3> QED  BY <3>3, <3>4, <3>5
  <2> QED  BY <2>1, <2>2
<1>2. Len(v) = Len(r) /\ \A k \in 1..Len(v) : v[k] = r[k]
  BY <1>1
<1> QED  BY <1>1, <1>2, SeqEqual

\* read returns what the file has at the offset.
LEMMA ReadSeen ==
  ASSUME IInv, IInv', Alike(fs, fs'), NEW fd \in Fd, NEW n \in Counts, SysRead(fd, n)
  PROVE  Files!FSNext
<1>k. PICK k : k = ofile[fd]
  OBVIOUS
<1>i. PICK i : i = ftable[k].ip
  OBVIOUS
<1>o. PICK off : off = ftable[k].off
  OBVIOUS
<1>b. PICK B : B = RefsOf(ftable)
  OBVIOUS
<1>u. PICK u : u = Ilock(fs, i)
  OBVIOUS
<1>r. PICK r : r = Readi(u, i, off, n)
  OBVIOUS
<1>w. PICK w : w = r.s
  OBVIOUS
<1>v. PICK v : v = r.v
  OBVIOUS
<1>t. PICK t : t = Iunlock(w, i)
  OBVIOUS
<1>m. PICK m : m = Reads(Dsk(fs, i).size, off, n)
  OBVIOUS
<1>1. Ok(fs) /\ call = NoCall /\ k # 0 /\ call' = NoCall /\ ofile' = ofile
  BY <1>k DEF SysRead, Ready
<1>2. Tables(ftable, ofile) /\ Kept(fs, fs, 0, B, 0, 0, 0, 0) /\ ftable \in [Idx -> FileSet]
  BY <1>1, <1>b, Before DEF Tables
<1>3. k \in Idx /\ ftable[k] \in FileSet /\ ftable[k].ref > 0
  BY <1>1, <1>2, <1>k, FileOf
<1>4. i \in Inum /\ Held(B, 0, 0, i) > 0 /\ off \in Nat /\ n \in Nat
  BY <1>2, <1>3, <1>i, <1>b, <1>o, FileHeld, FileSysAssumption DEF FileSet
<1>5. Gives(Readi(u, i, off, n), w, v)
  BY <1>r, <1>w, <1>v DEF Gives
<1>6. /\ Kept(fs, t, 0, B, 0, 0, 0, 0)
      /\ m \in Nat /\ v \in Seq(Cell) /\ Len(v) = m
      /\ \A p \in 1..m : v[p] = Cel(fs, i, off + p - 1)
      /\ off > Dsk(fs, i).size \/ off + m <= Dsk(fs, i).size
  BY <1>2, <1>4, <1>5, <1>u, <1>t, <1>m, ReadIs
<1>7. Ok(t)
  BY <1>6, KeptIs
<1>8. Unwritten' = Unwritten /\ Unwritten = Files!Idle
  BY <1>1, TablesSeen, IdleIs
<1>9. CASE ~ftable[k].readable
  <2>1. Data(fs') = Data(fs) /\ ftable' = ftable /\ ret' = Answer(-1, <<>>)
    BY <1>9, <1>k, DataSame DEF SysRead
  <2>2. Files!Fail
    BY <1>1, <2>1, FailStep
  <2> QED  BY <2>2, Zenon DEF Files!FSNext
<1>10. CASE ftable[k].readable
  <2>1. ftable' = [ftable EXCEPT ![k].off = @ + Len(v)] /\ ret' = Answer(Len(v), v)
    BY <1>7, <1>10, <1>k, <1>i, <1>o, <1>u, <1>r, <1>w, <1>v, <1>t, Zenon DEF SysRead
  <2>2. ret'.v = m /\ ret'.got = v
    BY <1>6, <2>1 DEF Answer
  <2>3. Shifted(Descriptions, Descriptions', k, m)
    <3>1. Shifted(ftable, ftable', k, m)
      BY <1>6, <2>1 DEF Shifted
    <3> QED  BY <1>2, <1>3, <3>1, SeenShifted, TablesSeen
  <2>f. PICK f : f = FileCells(fs, i)
    OBVIOUS
  <2>z. PICK z : z = Dsk(fs, i).size
    OBVIOUS
  <2>e. PICK e : e = off + m
    OBVIOUS
  <2>s. PICK from : from = off + 1
    OBVIOUS
  <2>4. fs \in FsValue /\ Disk(fs) /\ InUse(fs, i)
    BY <1>3, <1>4, <1>2, SlotOf, InvParts
  <2>5. FileData[i] = f /\ FileData' = FileData
    <3>1. FileData = Data(fs) /\ FileData' = Data(fs') /\ Data(fs') = Data(fs)
      BY FilesSeen, FilesSeenNext, DataSame
    <3>2. Data(fs)[i] = f
      BY <1>4, <2>4, <2>f, DataIs
    <3> QED  BY <3>1, <3>2
  <2>6. f \in Seq(Cell) /\ Len(f) = z /\ z \in Nat /\ \A p \in 1..z : f[p] = Cel(fs, i, p - 1)
    BY <1>4, <2>4, <2>f, <2>z, FileCellsAre
  <2>7. m = 0 \/ e <= z
    BY <1>6, <1>m, <2>e, <2>z DEF Reads
  <2>8. \A p \in 1..m : v[p] = f[off + p]
    <3> SUFFICES ASSUME NEW p \in 1..m PROVE v[p] = f[off + p]
      OBVIOUS
    <3>q. PICK q : q = off + p
      OBVIOUS
    <3>1. q \in 1..z
      BY <1>4, <1>6, <2>6, <2>7, <2>e, <3>q
    <3>c. PICK c : c = off + p - 1
      OBVIOUS
    <3>2. c = q - 1
      BY <1>4, <1>6, <3>q, <3>c
    <3>3. v[p] = Cel(fs, i, c)
      BY <1>6, <3>c
    <3>4. f[q] = Cel(fs, i, c)
      BY <2>6, <3>1, <3>2
    <3> QED  BY <3>3, <3>4, <3>q
  <2>9. v = SubSeq(f, from, e)
    <3>r. PICK part : part = SubSeq(f, from, e)
      OBVIOUS
    <3>1. v = part
      BY <1>4, <1>6, <2>6, <2>7, <2>8, <2>e, <2>s, <3>r, PartIs
    <3> QED  BY <3>1, <3>r
  <2>10. v # <<>> => e <= z
    BY <1>6, <2>7
  <2>d. PICK d : d = Descriptions[k]
    OBVIOUS
  <2>11. d.r /\ d.off = off /\ d.file = i
    BY <1>3, <1>10, <1>i, <1>o, <2>d, TablesSeen DEF SeenAll, Seen
  <2>12. Files!Read(fd)
    <3>1. Descriptions' = [Descriptions EXCEPT ![k].off = @ + Len(v)]
      BY <1>6, <2>3 DEF Shifted
    <3>2. v # <<>> => d.off + Len(v) <= Len(FileData[d.file])
      BY <1>6, <2>5, <2>6, <2>10, <2>11, <2>e
    <3>3. v = SubSeq(FileData[d.file], d.off + 1, d.off + Len(v))
      BY <1>6, <2>5, <2>9, <2>11, <2>e, <2>s
    <3>4. Len(v) = ret'.v
      BY <1>6, <2>2
    <3>5. UNCHANGED <<FileData, ofile, Unwritten>>
      BY <1>1, <1>8, <2>5
    <3>6. Unwritten = Files!Idle /\ ofile[fd] # 0 /\ Descriptions[ofile[fd]].r
      BY <1>1, <1>8, <1>k, <2>d, <2>11
    <3>7. Descriptions[ofile[fd]] = d /\ ofile[fd] = k /\ ret'.got = v
      BY <1>k, <2>d, <2>2
    <3> QED  BY <3>1, <3>2, <3>3, <3>4, <3>5, <3>6, <3>7, Zenon DEF Files!Read
  <2> QED  BY <2>12, Zenon DEF Files!FSNext
<1> QED  BY <1>9, <1>10

\* fstat returns the number and the size of the file.
LEMMA FstatSeen ==
  ASSUME IInv, IInv', Alike(fs, fs'), Ok(fs'), NEW fd \in Fd, SysFstat(fd)
  PROVE  Files!FSNext
<1>k. PICK k : k = ofile[fd]
  OBVIOUS
<1>i. PICK i : i = ftable[k].ip
  OBVIOUS
<1>b. PICK B : B = RefsOf(ftable)
  OBVIOUS
<1>u. PICK u : u = Ilock(fs, i)
  OBVIOUS
<1>t. PICK t : t = Iunlock(u, i)
  OBVIOUS
<1>1. Ok(fs) /\ call = NoCall /\ k # 0 /\ call' = NoCall /\ ofile' = ofile /\ ftable' = ftable
  BY <1>k DEF SysFstat, Ready
<1>2. Tables(ftable, ofile) /\ Kept(fs, fs, 0, B, 0, 0, 0, 0)
  BY <1>1, <1>b, Before
<1>3. k \in Idx /\ ftable[k].ref > 0
  BY <1>1, <1>2, <1>k, FileOf
<1>4. i \in Inum /\ i # 0 /\ Held(B, 0, 0, i) > 0
  BY <1>2, <1>3, <1>i, <1>b, FileHeld
<1>5. Kept(fs, u, 0, B, 0, 0, i, 0)
  BY <1>2, <1>4, <1>u, IlockIs
<1>6. u.ic[i].d.size = Dsk(fs, i).size /\ InUse(fs, i)
  <2>1. u.ic[i].d = Dsk(u, i) /\ InUse(u, i) /\ Alike(fs, u)
    BY <1>4, <1>5, LockedIs, KeptIs
  <2> QED  BY <2>1, AlikeIs
<1>7. Ok(t)
  <2>1. Kept(fs, t, 0, B, 0, 0, 0, 0)
    BY <1>4, <1>5, <1>t, IunlockIs
  <2> QED  BY <2>1, KeptIs
<1>8. ret' = Answer(0, <<Raw(i), Raw(u.ic[i].d.size)>>)
  BY <1>7, <1>k, <1>i, <1>u, <1>t, Zenon DEF SysFstat
<1>9. FileData' = FileData /\ Len(FileData[i]) = Dsk(fs, i).size
  <2>1. FileData = Data(fs) /\ FileData' = Data(fs') /\ Data(fs') = Data(fs)
    BY FilesSeen, FilesSeenNext, DataSame
  <2>2. Data(fs)[i] = FileCells(fs, i)
    BY <1>4, <1>6, DataIs
  <2>3. fs \in FsValue /\ Disk(fs)
    BY InvParts
  <2> QED  BY <1>4, <2>1, <2>2, <2>3, FileCellsAre
<1>10. Descriptions[k].file = i
  BY <1>3, <1>i, TablesSeen DEF SeenAll, Seen
<1>11. ret'.v = 0 /\ ret'.got = <<Dirent(Descriptions[k].file, ""), Dirent(Len(FileData[Descriptions[k].file]), "")>>
  BY <1>6, <1>8, <1>9, <1>10 DEF Answer, Raw, Dirent
<1>12. Unwritten' = Unwritten /\ Unwritten = Files!Idle /\ Descriptions' = Descriptions
  BY <1>1, TablesSeen, IdleIs
<1>13. Files!Stat(fd)
  BY <1>1, <1>k, <1>9, <1>11, <1>12, Zenon DEF Files!Stat
<1> QED  BY <1>13, Zenon DEF Files!FSNext

\* The data of a write, as cells.
LEMMA RawsIs ==
  ASSUME NEW seq \in Seq(Byte), NEW n, n = Len(seq), NEW r, r = Raws(seq)
  PROVE  /\ n \in Nat /\ r \in Seq(Cell) /\ Len(r) = n
         /\ \A k \in 1..n : seq[k] \in Byte /\ Raw(seq[k]) \in Cell /\ r[k] = Raw(seq[k])
<1>1. n \in Nat /\ r = [k \in 1..n |-> Raw(seq[k])]
  BY LenProperties DEF Raws
<1>2. \A k \in 1..n : seq[k] \in Byte
  BY ElementOfSeq
<1>3. \A k \in 1..n : Raw(seq[k]) \in Cell
  <2>1. Byte \subseteq Nat
    BY FsAssumption
  <2> QED  BY <1>2, <2>1 DEF Raw, Cell
<1>4. r \in [1..n -> Cell]
  BY <1>1, <1>3
<1> QED  BY <1>1, <1>2, <1>3, <1>4, SeqDef

\* write begins, or fails, or has nothing to write.
LEMMA WriteSeen ==
  ASSUME IInv, IInv', NEW fd \in Fd, NEW cells \in Writes, SysWrite(fd, cells)
  PROVE  Files!FSNext
<1>k. PICK k : k = ofile[fd]
  OBVIOUS
<1>1. Ok(fs) /\ call = NoCall /\ k # 0 /\ fs' = fs /\ ftable' = ftable /\ ofile' = ofile
  BY <1>k DEF SysWrite, Ready
<1>2. Tables(ftable, ofile)
  BY DEF IInv
<1>3. k \in Idx /\ ftable[k].ref > 0
  BY <1>1, <1>2, <1>k, FileOf
<1>4. FileData' = FileData /\ Descriptions' = Descriptions /\ Unwritten = Files!Idle
  BY <1>1, FilesSeen, FilesSeenNext, TablesSeen, IdleIs
<1>5. CASE ~ftable[k].writable
  <2>1. call' = NoCall /\ ret' = Answer(-1, <<>>)
    BY <1>1, <1>5, <1>k DEF SysWrite
  <2>2. Files!Fail
    BY <1>1, <2>1, FailStep
  <2> QED  BY <2>2, Zenon DEF Files!FSNext
<1>d. PICK d : d = Descriptions[k]
  OBVIOUS
<1>6. CASE ftable[k].writable
  <2>1. d.w
    BY <1>3, <1>6, <1>d, TablesSeen DEF SeenAll, Seen
  <2>2. \/ Unwritten'.d = k /\ Unwritten'.n = Len(Unwritten'.cells) /\ ret' = ret
        \/ ret' = Answer(0, <<>>) /\ Unwritten' = Unwritten
    <3>1. CASE cells # <<>>
      <4>1. call' = [f |-> k, n |-> Len(cells), cells |-> cells] /\ ret' = ret
        BY <1>6, <1>k, <3>1 DEF SysWrite
      <4>2. Unwritten' = [d |-> k, n |-> Len(cells), cells |-> Raws(cells)]
        BY <4>1, TablesSeen DEF Left
      <4>3. Len(Raws(cells)) = Len(cells)
        BY FileSysAssumption, RawsIs
      <4> QED  BY <4>1, <4>2, <4>3
    <3>2. CASE cells = <<>>
      <4>1. call' = call /\ ret' = Answer(0, <<>>)
        BY <1>6, <1>k, <3>2 DEF SysWrite
      <4> QED  BY <4>1, TablesSeen
    <3> QED  BY <3>1, <3>2
  <2>3. ofile[fd] = k /\ Descriptions[ofile[fd]] = d /\ ofile' = ofile
    BY <1>1, <1>k, <1>d
  <2>4. \/ Unwritten'.d = ofile[fd] /\ Unwritten'.n = Len(Unwritten'.cells) /\ UNCHANGED ret
        \/ ret' = Files!Answer(0, <<>>) /\ UNCHANGED Unwritten
    BY <2>2, <2>3 DEF Answer, Files!Answer
  <2>5. UNCHANGED <<FileData, ofile, Descriptions>>
    BY <1>4, <2>3
  <2>6. Files!WriteBegin(fd)
    BY <1>1, <1>4, <2>1, <2>3, <2>4, <2>5, Zenon DEF Files!WriteBegin
  <2> QED  BY <2>6, Zenon DEF Files!FSNext
<1> QED  BY <1>5, <1>6

\* The first m cells of the data, as a transaction writes them, and the rest.
Split(seq, n, m, cells, from, r, rest) ==
  /\ seq \in Seq(Byte) /\ n = Len(seq) /\ m \in Nat /\ m <= n /\ from = m + 1 /\ r = Raws(seq)
  /\ cells = [k \in 1..m |-> Raw(seq[k])] /\ rest = SubSeq(seq, from, n)

\* They are parts of what is left of the write.
LEMMA ChunkSeen ==
  ASSUME NEW seq, NEW n, NEW m, NEW cells, NEW from, NEW r, NEW rest, Split(seq, n, m, cells, from, r, rest)
  PROVE  cells = SubSeq(r, 1, m) /\ Raws(rest) = SubSeq(r, from, n) /\ Len(r) = n
<1>0. /\ seq \in Seq(Byte) /\ n = Len(seq) /\ m \in Nat /\ m <= n /\ from = m + 1 /\ r = Raws(seq)
      /\ cells = [k \in 1..m |-> Raw(seq[k])] /\ rest = SubSeq(seq, from, n)
  BY DEF Split
<1>m. m \in Nat /\ m <= n /\ from = m + 1
  BY <1>0
<1>1. /\ n \in Nat /\ r \in Seq(Cell) /\ Len(r) = n
      /\ \A k \in 1..n : seq[k] \in Byte /\ Raw(seq[k]) \in Cell /\ r[k] = Raw(seq[k])
  BY <1>0, RawsIs
<1>2. \A k \in 1..m : k \in 1..n
  BY <1>1, <1>m
<1>3. cells \in Seq(Cell) /\ Len(cells) = m /\ \A k \in 1..m : cells[k] = Raw(seq[k])
  <2>1. cells \in [1..m -> Cell] /\ \A k \in 1..m : cells[k] = Raw(seq[k])
    BY <1>0, <1>1, <1>2
  <2> QED  BY <1>m, <2>1, SeqDef
<1>4. cells = SubSeq(r, 1, m)
  <2>a. PICK a : a = SubSeq(r, 1, m)
    OBVIOUS
  <2>1. \A k \in 1..m : cells[k] = r[0 + k]
    BY <1>1, <1>2, <1>3
  <2>2. 1 = 0 + 1 /\ m = 0 + m /\ 0 \in Nat
    BY <1>m
  <2>3. cells = a
    BY <1>1, <1>3, <1>m, <2>a, <2>1, <2>2, PartIs
  <2> QED  BY <2>3, <2>a
<1>5. Raws(rest) = SubSeq(r, from, n)
  <2>a. PICK a : a = rest
    OBVIOUS
  <2>b. PICK b : b = SubSeq(r, from, n)
    OBVIOUS
  <2>p. PICK p : p = n - m
    OBVIOUS
  <2>1. p \in Nat /\ n = m + p
    BY <1>1, <1>m, <2>p
  <2>2. \A k \in from..n : k \in 1..n /\ seq[k] \in Byte
    BY <1>1, <1>m
  <2>3. a \in Seq(Byte) /\ Len(a) = p /\ \A k \in 1..p : a[k] = seq[m + k]
    <3>1. from \in Int /\ n \in Int
      BY <1>1, <1>m
    <3>2. /\ a \in Seq(Byte)
          /\ Len(a) = IF from <= n THEN n - from + 1 ELSE 0
          /\ \A k \in 1..(n - from + 1) : a[k] = seq[from + k - 1]
      BY <1>0, <2>2, <2>a, <3>1, SubSeqProperties
    <3>3. n - from + 1 = p /\ (~(from <= n) => p = 0)
      BY <1>1, <1>m, <2>1
    <3>4. \A k \in 1..p : from + k - 1 = m + k
      BY <1>m
    <3> QED  BY <3>2, <3>3, <3>4
  <2>v. PICK v : v = Raws(a)
    OBVIOUS
  <2>4. v \in Seq(Cell) /\ Len(v) = p /\ \A k \in 1..p : v[k] = Raw(a[k])
    BY <2>3, <2>v, RawsIs
  <2>5. \A k \in 1..p : v[k] = r[m + k]
    <3> SUFFICES ASSUME NEW k \in 1..p PROVE v[k] = r[m + k]
      OBVIOUS
    <3>q. PICK q : q = m + k
      BY <1>m
    <3>1. q \in 1..n
      BY <1>1, <1>m, <2>1, <3>q
    <3> QED  BY <1>1, <2>3, <2>4, <3>1, <3>q
  <2>6. v = b
    BY <1>1, <1>m, <2>b, <2>1, <2>4, <2>5, PartIs
  <2> QED  BY <2>6, <2>a, <2>b, <2>v
<1> QED  BY <1>1, <1>4, <1>5

\* A transaction writes as many cells as a step of FileSpec.
LEMMA ChunkLen ==
  ASSUME NEW seq \in Seq(Byte), NEW n, n = Len(seq), NEW m, m = Min({n, MaxOpBlocks * BSize})
  PROVE  m \in Nat /\ m <= n /\ m = Files!Min({MaxOpBlocks * BSize, n})
<1>c. PICK c : c = MaxOpBlocks * BSize
  OBVIOUS
<1>S. PICK S : S = {n, c}
  OBVIOUS
<1>1. n \in Nat /\ c \in Nat
  <2>1. MaxOpBlocks \in Nat /\ BSize \in Nat
    BY FileSysAssumption, Consts
  <2> QED  BY <1>c, <2>1, LenProperties
<1>2. S \in SUBSET Nat /\ S # {} /\ n \in S /\ S = {c, n}
  BY <1>1, <1>S
<1>3. m = Min(S)
  BY <1>c, <1>S
<1>4. Files!Min(S) = Min(S)
  BY DEF Min, Files!Min
<1>5. Min(S) \in S /\ \A x \in S : Min(S) <= x
  BY <1>2, MinIs
<1> QED  BY <1>1, <1>2, <1>3, <1>4, <1>5, <1>c

\* A transaction of write is a step of write, its failure, or not seen.
LEMMA WriteChunkSeen ==
  ASSUME IInv, IInv', WriteChunk
  PROVE  Files!FSNext \/ UNCHANGED Files!fsvars
<1>k. PICK k : k = call.f
  OBVIOUS
<1>i. PICK i : i = ftable[k].ip
  OBVIOUS
<1>o. PICK off : off = ftable[k].off
  OBVIOUS
<1>b. PICK B : B = RefsOf(ftable)
  OBVIOUS
<1>q. PICK seq : seq = call.cells
  OBVIOUS
<1>n. PICK n : n = Len(seq)
  OBVIOUS
<1>m. PICK m : m = Min({n, MaxOpBlocks * BSize})
  OBVIOUS
<1>c. PICK cells : cells = [j \in 1..m |-> Raw(seq[j])]
  OBVIOUS
<1>u. PICK u : u = Ilock(fs, i)
  OBVIOUS
<1>r. PICK r : r = Writei(u, i, off, cells)
  OBVIOUS
<1>w. PICK w : w = r.s
  OBVIOUS
<1>v. PICK v : v = r.v
  OBVIOUS
<1>t. PICK t : t = Iunlock(w, i)
  OBVIOUS
<1>1. Ok(fs) /\ call # NoCall /\ ofile' = ofile
  BY DEF WriteChunk
<1>2. Calling(call, ftable) /\ Tables(ftable, ofile) /\ Rest(fs, B) /\ Kept(fs, fs, 0, B, 0, 0, 0, 0)
  BY <1>1, <1>b, Before
<1>3. /\ k \in Idx /\ k # 0 /\ ftable \in [Idx -> FileSet] /\ ftable[k].ref > 0 /\ ftable[k].writable
      /\ call \in CallSet /\ seq \in Seq(Byte)
  BY <1>1, <1>2, <1>k, <1>q DEF Calling, CallSet, Tables, Idx
<1>4. i \in Inum /\ i # 0 /\ Held(B, 0, 0, i) > 0 /\ i # Root
  BY <1>2, <1>3, <1>i, <1>b, FileHeld
<1>5. off \in Nat
  BY <1>3, <1>o DEF FileSet
<1>6. m \in Nat /\ m <= n /\ m = Files!Min({MaxOpBlocks * BSize, n}) /\ cells \in Seq(Cell)
  <2>1. cells \in Seq(Cell)
    BY <1>3, <1>n, <1>m, <1>c, ChunkCells
  <2> QED  BY <1>3, <1>n, <1>m, <2>1, ChunkLen
<1>7. Gives(Writei(u, i, off, cells), w, v)
  BY <1>r, <1>w, <1>v DEF Gives
<1>8. \/ Stuck(fs, t)
      \/ /\ Kept(t, t, 0, B, 0, 0, 0, 0) /\ Alike(fs, u) /\ u \in FsValue /\ Disk(u) /\ InUse(u, i)
         /\ \/ Alike(fs, t) /\ No(v)
            \/ Yes(v) /\ off <= Dsk(u, i).size /\ Written(u, w, i, off, cells) /\ Alike(w, t)
  BY <1>2, <1>4, <1>5, <1>6, <1>7, <1>u, <1>t, ChunkIs
<1>9. /\ Commit(t)
      /\ ~Ok(t) => ftable' = ftable /\ call' = call /\ ret' = ret
      /\ Ok(t) /\ ~v => ftable' = ftable /\ call' = NoCall /\ ret' = Answer(-1, <<>>)
      /\ Ok(t) /\ v => /\ Shifted(ftable, ftable', k, m)
                       /\ m = n => call' = NoCall /\ ret' = Answer(call.n, <<>>)
                       /\ m # n => call' = [call EXCEPT !.cells = SubSeq(@, m + 1, Len(@))] /\ ret' = ret
  BY <1>k, <1>i, <1>o, <1>q, <1>n, <1>m, <1>c, <1>u, <1>r, <1>w, <1>v, <1>t, Zenon DEF WriteChunk, Shifted
<1>10. fs' = Committed(fs, t)
  BY <1>9, CommitIs
<1>11. Unwritten = Left(call) /\ Unwritten # Files!Idle
  BY <1>3, <1>k, TablesSeen, NotIdle
<1>12. FileData = Data(fs) /\ FileData' = Data(fs')
  BY FilesSeen, FilesSeenNext
<1>13. CASE Stuck(fs, t)
  <2>1. ~Ok(t) /\ Data(fs') = Data(fs)
    BY <1>10, <1>13, StuckData
  <2> QED  BY <1>1, <1>9, <2>1, UnseenStep
<1>14. ASSUME Kept(t, t, 0, B, 0, 0, 0, 0) PROVE Ok(t) /\ fs' = t
  BY <1>10, <1>14, KeptIs DEF Committed
<1>15. CASE Kept(t, t, 0, B, 0, 0, 0, 0) /\ Alike(fs, t) /\ No(v)
  <2>1. ftable' = ftable /\ call' = NoCall /\ ret' = Answer(-1, <<>>) /\ Data(fs') = Data(fs)
    BY <1>9, <1>14, <1>15, DataSame DEF No
  <2>2. Unwritten' = Files!Idle /\ UNCHANGED <<FileData, ofile, Descriptions>>
    BY <1>1, <1>12, <2>1, TablesSeen, IdleIs
  <2>3. ret' = Files!Answer(-1, <<>>)
    BY <2>1 DEF Answer, Files!Answer
  <2>4. Files!WriteFail
    BY <1>11, <2>2, <2>3, Zenon DEF Files!WriteFail
  <2> QED  BY <2>4, Zenon DEF Files!FSNext
<1>16. CASE /\ Kept(t, t, 0, B, 0, 0, 0, 0) /\ Alike(fs, u) /\ u \in FsValue /\ Disk(u) /\ InUse(u, i)
            /\ Yes(v) /\ off <= Dsk(u, i).size /\ Written(u, w, i, off, cells) /\ Alike(w, t)
  <2>1. Ok(t) /\ fs' = t /\ v
    BY <1>14, <1>16 DEF Yes
  <2>f. PICK f : f = FileCells(u, i)
    OBVIOUS
  <2>g. PICK g : g = Files!Overlay(f, off, cells)
    OBVIOUS
  <2>x. PICK x : x = Raws(seq)
    OBVIOUS
  <2>e. PICK from : from = m + 1
    OBVIOUS
  <2>2. Changed(FileData, FileData', i, g) /\ FileData[i] = f
    <3>1. Data(u) = Data(fs) /\ Data(t) = Data(w)
      BY <1>16, DataSame
    <3>2. Changed(Data(u), Data(w), i, g)
      BY <1>4, <1>5, <1>6, <1>16, <2>f, <2>g, DataWritten
    <3>3. Data(u)[i] = f
      BY <1>4, <1>16, <2>f, DataIs
    <3> QED  BY <1>12, <2>1, <3>1, <3>2, <3>3
  <2>3. off <= Len(FileData[i])
    <3>1. Len(f) = Dsk(u, i).size
      BY <1>4, <1>16, <2>f, FileCellsAre
    <3> QED  BY <1>16, <2>2, <3>1
  <2>y. PICK rest : rest = SubSeq(seq, from, n)
    OBVIOUS
  <2>4. cells = SubSeq(x, 1, m) /\ Raws(rest) = SubSeq(x, from, n) /\ Len(x) = n
    <3>1. seq \in Seq(Byte) /\ m \in Nat /\ m <= n
      BY <1>3, <1>6
    <3>2. Split(seq, n, m, cells, from, x, rest)
      BY <1>n, <1>c, <2>x, <2>e, <2>y, <3>1, Zenon DEF Split
    <3> QED  BY <3>2, ChunkSeen, Zenon
  <2>5. Unwritten.d = k /\ Unwritten.n = call.n /\ Unwritten.cells = x
    BY <1>11, <1>k, <1>q, <2>x DEF Left
  <2>6. Shifted(ftable, ftable', k, m)
    BY <1>9, <2>1
  <2>7. Shifted(Descriptions, Descriptions', k, m)
    BY <1>3, <1>6, <2>6, SeenShifted, TablesSeen
  <2>d. PICK d : d = Descriptions[k]
    OBVIOUS
  <2>8. d.off = off /\ d.file = i
    BY <1>3, <1>i, <1>o, <2>d, TablesSeen DEF SeenAll, Seen
  <2>9. m = n => Unwritten' = Files!Idle /\ ret' = Files!Answer(Unwritten.n, <<>>)
    <3> SUFFICES ASSUME m = n PROVE Unwritten' = Files!Idle /\ ret' = Files!Answer(Unwritten.n, <<>>)
      OBVIOUS
    <3>1. call' = NoCall /\ ret' = Answer(call.n, <<>>)
      BY <1>9, <2>1
    <3> QED  BY <2>5, <3>1, TablesSeen, IdleIs DEF Answer, Files!Answer
  <2>10. m # n => Unwritten' = [Unwritten EXCEPT !.cells = SubSeq(@, m + 1, Len(@))] /\ ret' = ret
    <3> SUFFICES ASSUME m # n
                 PROVE  Unwritten' = [Unwritten EXCEPT !.cells = SubSeq(@, m + 1, Len(@))] /\ ret' = ret
      OBVIOUS
    <3>1. call' = [call EXCEPT !.cells = SubSeq(@, m + 1, Len(@))] /\ ret' = ret
      BY <1>9, <2>1
    <3>z. PICK z : z = SubSeq(x, from, n)
      OBVIOUS
    <3>2. call'.f = call.f /\ call'.n = call.n /\ call'.cells = rest
      BY <1>3, <1>q, <1>n, <2>e, <2>y, <3>1 DEF CallSet
    <3>3. Unwritten' = [d |-> call.f, n |-> call.n, cells |-> z]
      BY <2>4, <3>2, <3>z, TablesSeen DEF Left
    <3>4. [Unwritten EXCEPT !.cells = SubSeq(@, m + 1, Len(@))] = [Unwritten EXCEPT !.cells = z]
      BY <2>4, <2>5, <2>e, <3>z
    <3>5. [Unwritten EXCEPT !.cells = z] = [d |-> call.f, n |-> call.n, cells |-> z]
      BY <1>11 DEF Left
    <3> QED  BY <3>1, <3>3, <3>4, <3>5
  <2>11. Files!WriteStep
    <3>1. Unwritten.d = k /\ Descriptions[k] = d /\ d.file = i /\ d.off = off
      BY <2>5, <2>8, <2>d
    <3>2. Len(Unwritten.cells) = n /\ Unwritten.cells = x
      BY <2>4, <2>5
    <3>3. m = Files!Min({MaxOpBlocks * BSize, Len(Unwritten.cells)})
      BY <1>6, <3>2
    <3>4. FileData' = [FileData EXCEPT ![i] = Files!Overlay(@, off, SubSeq(Unwritten.cells, 1, m))]
      <4>1. Files!Overlay(FileData[i], off, SubSeq(Unwritten.cells, 1, m)) = g
        BY <2>2, <2>4, <2>g, <3>2
      <4>2. FileData' = [FileData EXCEPT ![i] = g]
        BY <2>2 DEF Changed
      <4> QED  BY <4>1, <4>2
    <3>5. Descriptions' = [Descriptions EXCEPT ![k].off = @ + m]
      BY <2>7 DEF Shifted
    <3>6. IF m = Len(Unwritten.cells)
            THEN Unwritten' = Files!Idle /\ ret' = Files!Answer(Unwritten.n, <<>>)
            ELSE /\ Unwritten' = [Unwritten EXCEPT !.cells = SubSeq(@, m + 1, Len(@))]
                 /\ ret' = ret
      BY <2>9, <2>10, <3>2
    <3> QED  BY <1>1, <1>11, <2>3, <3>1, <3>3, <3>4, <3>5, <3>6, Zenon DEF Files!WriteStep
  <2> QED  BY <2>11, Zenon DEF Files!FSNext
<1> QED  BY <1>8, <1>13, <1>15, <1>16

-----------------------------------------------------------------------------
(* The start.                                                              *)

\* A new file system has only the root directory, with its two entries.
LEMMA FormattedSeen ==
  Data(Formatted) = Files!Empty
<1>s. PICK s : s = Formatted
  OBVIOUS
<1>a. PICK a : a = Dirent(Root, ".")
  OBVIOUS
<1>b. PICK b : b = Dirent(Root, "..")
  OBVIOUS
<1>f. PICK f : f = FileCells(s, Root)
  OBVIOUS
<1>1. /\ \A i \in Inum : Dsk(s, i) = IF i = Root THEN RootDinode ELSE Unused
      /\ s.block[RootBlock] = RootEntries /\ s \in FsValue
      /\ RootBlock \in DataBlock /\ RootBlock # 0
  BY <1>s, FormattedParts DEF Dsk
<1>2. /\ RootDinode.size = 2 /\ RootDinode.type = "T_DIR" /\ Unused.type = "T_UNUSED" /\ Root \in Inum
      /\ Disk(s)
  BY <1>s, FormattedIs, Consts DEF RootDinode, Unused, Sound
<1>3. Used(s) = {Root}
  BY <1>1, <1>2 DEF Used, InUse
<1>4. f \in Seq(Cell) /\ Len(f) = 2 /\ \A k \in 1..2 : f[k] = Cel(s, Root, k - 1)
  BY <1>1, <1>2, <1>f, FileCellsAre
<1>5. RootEntries[0] = a /\ RootEntries[1] = b
  BY <1>a, <1>b, Consts DEF RootEntries, ZeroBlock
<1>6. Cel(s, Root, 0) = a /\ Cel(s, Root, 1) = b
  <2>1. Dsk(s, Root) = RootDinode /\ 0 \in 0..MaxFile
    BY <1>1, <1>2, Consts
  <2>2. Place(Dsk(s, Root), s.block, 0) = RootBlock
    BY <2>1, RootPlaces
  <2>3. Cel(s, Root, 0) = RootEntries[0]
    BY <1>1, <2>2, TwoCells DEF Cel
  <2>4. Cel(s, Root, 1) = RootEntries[1]
    BY <1>1, <2>2, TwoCells DEF Cel
  <2> QED  BY <1>5, <2>3, <2>4
<1>7. f[1] = a /\ f[2] = b
  <2>1. 1 \in 1..2 /\ 2 \in 1..2 /\ 1 - 1 = 0 /\ 2 - 1 = 1
    OBVIOUS
  <2>2. f[1] = Cel(s, Root, 0)
    BY <1>4, <2>1
  <2>3. f[2] = Cel(s, Root, 1)
    BY <1>4, <2>1
  <2> QED  BY <1>6, <2>2, <2>3
<1>8. f = <<a, b>>
  <2>g. PICK g : g = <<a, b>>
    OBVIOUS
  <2>1. a \in Cell /\ b \in Cell
    BY <1>a, <1>b, Consts DEF Dirent, Cell
  <2>2. g \in Seq(Cell) /\ Len(g) = 2 /\ g[1] = a /\ g[2] = b
    BY <2>1, <2>g
  <2>3. \A k \in 1..2 : k = 1 \/ k = 2
    OBVIOUS
  <2>4. \A k \in 1..Len(f) : f[k] = g[k]
    BY <1>4, <1>7, <2>2, <2>3
  <2> QED  BY <1>4, <2>2, <2>4, <2>g, SeqEqual
<1>9. Data(s) = [i \in {Root} |-> f]
  BY <1>3, <1>f DEF Data
<1> QED  BY <1>s, <1>a, <1>b, <1>8, <1>9 DEF Files!Empty

\* No file is open after a start.
LEMMA NoFilesSeen ==
  /\ SeenAll(NoFiles) = [d \in Idx |-> Files!Closed] /\ Unopened(NoFiles)
<1>1. \A k \in Idx : NoFiles[k] = NoFile
  BY DEF NoFiles
<1> QED  BY <1>1, IdleIs DEF SeenAll, Unopened

\* The initial states are initial.
LEMMA InitSeen ==
  ASSUME Init
  PROVE  Files!FSInit /\ Unopened(ftable)
<1>1. fs = Formatted /\ ftable = NoFiles /\ ofile = [fd \in Fd |-> 0] /\ call = NoCall /\ ret = Answer(0, <<>>)
  BY DEF Init, NoFiles
<1>2. FileData = Files!Empty
  BY <1>1, InitStep, FilesSeen, FormattedSeen
<1>3. Descriptions = [d \in Idx |-> Files!Closed] /\ Unopened(ftable)
  BY <1>1, TablesSeen, NoFilesSeen
<1>4. Unwritten = Files!Idle
  BY <1>1, TablesSeen, IdleIs
<1>5. ret = Files!Answer(0, <<>>)
  BY <1>1 DEF Answer, Files!Answer
<1> QED  BY <1>1, <1>2, <1>3, <1>4, <1>5, Zenon DEF Files!FSInit

\* A restart keeps the files or starts with none.
LEMMA RestartSeen ==
  ASSUME IInv, IInv', Restart
  PROVE  Files!FSNext
<1>1. ftable' = NoFiles /\ ofile' = [fd \in Fd |-> 0] /\ call' = NoCall /\ ret' = Answer(0, <<>>)
  BY DEF Restart, NoFiles
<1>2. FileData = Data(fs) /\ FileData' = Data(fs')
  BY FilesSeen, FilesSeenNext
<1>3. FileData' \in {FileData, Files!Empty}
  <2>1. CASE KeepDisk
    <3>1. fs' = [fs EXCEPT !.ic = [i \in Inum |-> FreeSlot], !.panic = ""]
      BY <2>1 DEF Restart
    <3>2. Alike(fs, fs')
      BY <3>1, InvParts DEF Alike, FsValue
    <3> QED  BY <1>2, <3>2, DataSame
  <2>2. CASE ~KeepDisk
    <3>1. fs' = Formatted
      BY <2>2 DEF Restart
    <3> QED  BY <1>2, <3>1, FormattedSeen
  <2> QED  BY <2>1, <2>2
<1>4. Descriptions' = [d \in Idx |-> Files!Closed] /\ Unwritten' = Files!Idle
  BY <1>1, TablesSeen, NoFilesSeen, IdleIs
<1>5. ret' = Files!Answer(0, <<>>)
  BY <1>1 DEF Answer, Files!Answer
<1>6. Files!Crash
  BY <1>1, <1>3, <1>4, <1>5, Zenon DEF Files!Crash
<1> QED  BY <1>6, Zenon DEF Files!FSNext

\* Every step is one of FileSpec or is not seen.
LEMMA NextSeen ==
  ASSUME \A path \in Paths : ~path.empty, IInv, Unopened(ftable), [Next]_vars
  PROVE  IInv' /\ Unopened(ftable') /\ (Files!FSNext \/ UNCHANGED Files!fsvars)
<1>1. IInv' /\ Unopened(ftable')
  BY NextStep, UnopenedStep
<1>2. CASE UNCHANGED vars
  BY <1>1, <1>2, UnseenStep DEF vars
<1>3. ASSUME NEW path \in Paths, NEW mode \in Modes, SysOpen(path, mode)
      PROVE  Files!FSNext \/ UNCHANGED Files!fsvars
  BY <1>1, <1>3, OpenSeen
<1>4. ASSUME NEW fd \in Fd, SysBadFd(fd) \/ SysDup(fd) \/ SysClose(fd) \/ SysFstat(fd) PROVE Files!FSNext
  <2>1. CASE SysBadFd(fd)
    BY <1>1, <2>1, BadFdSeen
  <2>2. CASE SysDup(fd)
    BY <1>1, <2>2, DupSeen
  <2>3. CASE SysClose(fd)
    BY <1>1, <2>3, CloseStep, CloseSeen
  <2>4. CASE SysFstat(fd)
    BY <1>1, <2>4, FstatStep, FstatSeen
  <2> QED  BY <1>4, <2>1, <2>2, <2>3, <2>4
<1>5. ASSUME NEW fd \in Fd, NEW n \in Counts, SysRead(fd, n) PROVE Files!FSNext
  BY <1>1, <1>5, ReadStep, ReadSeen
<1>6. ASSUME NEW fd \in Fd, NEW cells \in Writes, SysWrite(fd, cells) PROVE Files!FSNext
  BY <1>1, <1>6, WriteSeen
<1>7. CASE WriteChunk
  BY <1>1, <1>7, WriteChunkSeen
<1>8. CASE Restart
  BY <1>1, <1>8, RestartSeen
<1> QED  BY <1>1, <1>2, <1>3, <1>4, <1>5, <1>6, <1>7, <1>8 DEF Next

-----------------------------------------------------------------------------
\* What is read is what was written through any descriptor, no call changes another
\* file, and a crash leaves every write in whole transactions: open, read, write,
\* close, dup, fstat and a restart do what FileSpec says, on a disk that keeps its
\* contents and on the RAM disk.  The empty path is excluded, as in FileSysProofs.
THEOREM FilesRefined ==
  ASSUME \A path \in Paths : ~path.empty
  PROVE  Spec => ImplementsFiles
<1>1. Init => IInv /\ Unopened(ftable) /\ Files!FSInit
  BY InitStep, InitSeen
<1>2. IInv /\ Unopened(ftable) /\ [Next]_vars => IInv' /\ Unopened(ftable)' /\ [Files!FSNext]_(Files!fsvars)
  <2>1. Unopened(ftable)' <=> Unopened(ftable')
    BY DEF Unopened
  <2> QED  BY <2>1, NextSeen
<1> QED  BY <1>1, <1>2, PTL DEF Spec, ImplementsFiles, Files!FSSpec
=============================================================================
