------------------------------ MODULE FileSys ------------------------------
(***************************************************************************)
(* The file table of kernel/file.c and the file system calls of            *)
(* kernel/sysfile.c over the inode layer of FsOps.                         *)
(*                                                                         *)
(* One flow of control makes the calls.  begin_op .. end_op is one step,   *)
(* which is what the log provides (Log!ImplementsAtomicDisk): every call   *)
(* is a step but write, which is one step for each transaction.  A panic   *)
(* in the middle of a step leaves the disk as it was before the step: the  *)
(* transaction is not committed.  The machine may restart at any time.     *)
(***************************************************************************)
EXTENDS FsOps, Integers

CONSTANTS
  NFile,        \* NFILE
  NOFile,       \* NOFILE
  MaxOpBlocks,  \* MAXOPBLOCKS
  Paths,        \* the paths open is called with
  Modes,        \* the omodes, each a set of flags
  Counts,       \* the sizes of reads
  Writes,       \* the data of writes
  MaxSize,      \* bound: cells of a file that is written to
  KeepDisk      \* as in Log

ASSUME FileSysAssumption ==
  /\ {NFile, NOFile, MaxOpBlocks} \subseteq Nat \ {0}
  /\ NInode >= NOFile + 2           \* see PanicsOnlyWhenFull
  /\ BSize >= 2
  /\ Paths \subseteq [empty: BOOLEAN, elems: Seq(Name \cup {".", ".."})]
  /\ Modes \subseteq SUBSET {"O_WRONLY", "O_RDWR", "O_CREATE", "O_TRUNC"}
  /\ Counts \subseteq Nat
  /\ Writes \subseteq Seq(Byte)
  /\ MaxSize \in Nat
  /\ KeepDisk \in BOOLEAN

VARIABLES
  fs,      \* blocks, bitmap, dinodes, inode cache
  ftable,  \* ftable.file
  ofile,   \* g_ofile, an index of ftable or 0
  call,    \* the write call in progress
  ret      \* what the last call returned

vars == <<fs, ftable, ofile, call, ret>>

Fd  == 0..(NOFile - 1)
Idx == 1..NFile
NoFile == [type |-> "FD_NONE", ref |-> 0, readable |-> FALSE, writable |-> FALSE,
           ip |-> 0, off |-> 0]
NoCall == [f |-> 0, n |-> 0, cells |-> <<>>]
Answer(v, got) == [v |-> v, got |-> got]

Init ==
  /\ fs = Formatted
  /\ ftable = [k \in Idx |-> NoFile]
  /\ ofile = [fd \in Fd |-> 0]
  /\ call = NoCall
  /\ ret = Answer(0, <<>>)

\* between two calls
Ready == Ok(fs) /\ call = NoCall

\* a step ends in s, or in a panic with the disk unchanged
Commit(s) == fs' = IF Ok(s) THEN s ELSE [fs EXCEPT !.panic = s.panic]

\* filealloc and fdalloc take the first free entry
FreeIdx == {k \in Idx : ftable[k].ref = 0}
FreeFd  == {fd \in Fd : ofile[fd] = 0}

\* mutant of Lookup: a directory opened for writing is not released
LookupLeaks(path, mode) ==
  LET In(t, ip) == IF Ok(t) /\ t.ic[ip].d.type = "T_DIR" /\ mode # {}
                     THEN Result(Iunlock(t, ip), 0) ELSE Result(t, ip)
      At(r) == IF ~Ok(r.s) \/ r.v = 0 THEN Result(r.s, 0) ELSE In(Ilock(r.s, r.v), r.v)
  IN  IF "O_CREATE" \in mode THEN Create(fs, path) ELSE At(Namex(fs, path, FALSE))

\* the first half of sys_open: the inode, locked, or 0
Lookup(path, mode) ==
  LET In(t, ip) == IF Ok(t) /\ t.ic[ip].d.type = "T_DIR" /\ mode # {}
                     THEN Result(Iput(Iunlock(t, ip), ip), 0) ELSE Result(t, ip)
      At(r) == IF ~Ok(r.s) \/ r.v = 0 THEN Result(r.s, 0) ELSE In(Ilock(r.s, r.v), r.v)
  IN  IF "O_CREATE" \in mode THEN Create(fs, path) ELSE At(Namex(fs, path, FALSE))

\* mutant of Opened: the inode is not released when there is no room for the file
OpenedLeaks(l, mode) ==
  LET k == Min(FreeIdx)
      fd == Min(FreeFd)
      t == IF "O_TRUNC" \in mode /\ l.s.ic[l.v].d.type = "T_FILE"
             THEN Itrunc(l.s, l.v) ELSE l.s
      failed == l.v = 0 \/ FreeIdx = {} \/ FreeFd = {}
      s == IF l.v = 0 THEN l.s
           ELSE IF failed THEN Iunlock(l.s, l.v)
           ELSE Iunlock(t, l.v)
  IN  /\ Commit(s)
      /\ IF failed \/ ~Ok(s)
           THEN /\ ret' = IF Ok(s) THEN Answer(-1, <<>>) ELSE ret
                /\ UNCHANGED <<ftable, ofile>>
           ELSE /\ ftable' = [ftable EXCEPT ![k] =
                     [type |-> "FD_INODE", ref |-> 1,
                      readable |-> "O_WRONLY" \notin mode,
                      writable |-> {"O_WRONLY", "O_RDWR"} \cap mode # {},
                      ip |-> l.v, off |-> 0]]
                /\ ofile' = [ofile EXCEPT ![fd] = k]
                /\ ret' = Answer(fd, <<>>)

\* the second half: a struct file and a descriptor for what Lookup returned
Opened(l, mode) ==
  LET k == Min(FreeIdx)
      fd == Min(FreeFd)
      t == IF "O_TRUNC" \in mode /\ l.s.ic[l.v].d.type = "T_FILE"
             THEN Itrunc(l.s, l.v) ELSE l.s
      failed == l.v = 0 \/ FreeIdx = {} \/ FreeFd = {}
      s == IF l.v = 0 THEN l.s
           ELSE IF failed THEN Iput(Iunlock(l.s, l.v), l.v)
           ELSE Iunlock(t, l.v)
  IN  /\ Commit(s)
      /\ IF failed \/ ~Ok(s)
           THEN /\ ret' = IF Ok(s) THEN Answer(-1, <<>>) ELSE ret
                /\ UNCHANGED <<ftable, ofile>>
           ELSE /\ ftable' = [ftable EXCEPT ![k] =
                     [type |-> "FD_INODE", ref |-> 1,
                      readable |-> "O_WRONLY" \notin mode,
                      writable |-> {"O_WRONLY", "O_RDWR"} \cap mode # {},
                      ip |-> l.v, off |-> 0]]
                /\ ofile' = [ofile EXCEPT ![fd] = k]
                /\ ret' = Answer(fd, <<>>)

SysOpen(path, mode) ==
  /\ Ready
  /\ Opened(Lookup(path, mode), mode)
  /\ UNCHANGED call

\* argfd fails: read, write, close, dup or fstat of a descriptor not open
SysBadFd(fd) ==
  /\ Ready
  /\ ofile[fd] = 0
  /\ ret' = Answer(-1, <<>>)
  /\ UNCHANGED <<fs, ftable, ofile, call>>

SysDup(old) ==
  /\ Ready
  /\ ofile[old] # 0
  /\ IF FreeFd = {}
       THEN /\ ret' = Answer(-1, <<>>)
            /\ UNCHANGED <<ftable, ofile>>
       ELSE /\ ofile' = [ofile EXCEPT ![Min(FreeFd)] = ofile[old]]
            /\ ftable' = [ftable EXCEPT ![ofile[old]].ref = @ + 1]
            /\ ret' = Answer(Min(FreeFd), <<>>)
  /\ UNCHANGED <<fs, call>>

\* sys_close and fileclose
SysClose(fd) ==
  /\ Ready
  /\ ofile[fd] # 0
  /\ LET f == ftable[ofile[fd]]
     IN  IF f.ref > 1
           THEN /\ ftable' = [ftable EXCEPT ![ofile[fd]].ref = @ - 1]
                /\ UNCHANGED fs
           ELSE /\ ftable' = [ftable EXCEPT ![ofile[fd]] = NoFile]
                /\ Commit(IF f.type = "FD_INODE" THEN Iput(fs, f.ip) ELSE fs)
  /\ ofile' = [ofile EXCEPT ![fd] = 0]
  /\ ret' = Answer(0, <<>>)
  /\ UNCHANGED call

\* fileread; the offset moves by what was read
SysRead(fd, n) ==
  /\ Ready
  /\ ofile[fd] # 0
  /\ LET f == ftable[ofile[fd]]
         r == Readi(Ilock(fs, f.ip), f.ip, f.off, n)
         s == Iunlock(r.s, f.ip)
     IN  IF ~f.readable
           THEN /\ ret' = Answer(-1, <<>>)
                /\ UNCHANGED <<fs, ftable>>
           ELSE /\ Commit(s)
                /\ ftable' = IF Ok(s)
                     THEN [ftable EXCEPT ![ofile[fd]].off = @ + Len(r.v)] ELSE ftable
                /\ ret' = IF Ok(s) THEN Answer(Len(r.v), r.v) ELSE ret
  /\ UNCHANGED <<ofile, call>>

\* filewrite: the checks, then the loop of transactions
SysWrite(fd, cells) ==
  /\ Ready
  /\ ofile[fd] # 0
  /\ ftable[ofile[fd]].off + Len(cells) <= MaxSize
  /\ IF ftable[ofile[fd]].writable /\ cells # <<>>
       THEN /\ call' = [f |-> ofile[fd], n |-> Len(cells), cells |-> cells]
            /\ UNCHANGED ret
       ELSE /\ ret' = Answer(IF ftable[ofile[fd]].writable THEN 0 ELSE -1, <<>>)
            /\ UNCHANGED call
  /\ UNCHANGED <<fs, ftable, ofile>>

\* mutant of WriteChunk: the offset moves before writei has succeeded
WriteChunkMoves ==
  /\ Ok(fs)
  /\ call # NoCall
  /\ LET f    == ftable[call.f]
         m    == Min({Len(call.cells), MaxOpBlocks * BSize})
         cells == [k \in 1..m |-> Raw(call.cells[k])]
         w    == Writei(Ilock(fs, f.ip), f.ip, f.off, cells)
         s    == Iunlock(w.s, f.ip)
         done == m = Len(call.cells)
     IN  /\ Commit(s)
         /\ IF ~Ok(s) THEN UNCHANGED <<ftable, call, ret>>
            ELSE IF ~w.v
              THEN /\ call' = NoCall
                   /\ ret' = Answer(-1, <<>>)
                   /\ ftable' = [ftable EXCEPT ![call.f].off = @ + m]
              ELSE /\ ftable' = [ftable EXCEPT ![call.f].off = @ + m]
                   /\ call' = IF done THEN NoCall
                              ELSE [call EXCEPT !.cells = SubSeq(@, m + 1, Len(@))]
                   /\ ret' = IF done THEN Answer(call.n, <<>>) ELSE ret
  /\ UNCHANGED ofile

\* one round of the loop: at most MAXOPBLOCKS * BSIZE cells
WriteChunk ==
  /\ Ok(fs)
  /\ call # NoCall
  /\ LET f    == ftable[call.f]
         m    == Min({Len(call.cells), MaxOpBlocks * BSize})
         cells == [k \in 1..m |-> Raw(call.cells[k])]
         w    == Writei(Ilock(fs, f.ip), f.ip, f.off, cells)
         s    == Iunlock(w.s, f.ip)
         done == m = Len(call.cells)
     IN  /\ Commit(s)
         /\ IF ~Ok(s) THEN UNCHANGED <<ftable, call, ret>>
            ELSE IF ~w.v
              THEN /\ call' = NoCall
                   /\ ret' = Answer(-1, <<>>)
                   /\ UNCHANGED ftable
              ELSE /\ ftable' = [ftable EXCEPT ![call.f].off = @ + m]
                   /\ call' = IF done THEN NoCall
                              ELSE [call EXCEPT !.cells = SubSeq(@, m + 1, Len(@))]
                   /\ ret' = IF done THEN Answer(call.n, <<>>) ELSE ret
  /\ UNCHANGED ofile

\* filestat: st.ino and st.size; the other fields follow from st.ino
SysFstat(fd) ==
  /\ Ready
  /\ ofile[fd] # 0
  /\ LET ip == ftable[ofile[fd]].ip
         t  == Ilock(fs, ip)
         s  == Iunlock(t, ip)
     IN  /\ Commit(s)
         /\ ret' = IF Ok(s) THEN Answer(0, <<Raw(ip), Raw(t.ic[ip].d.size)>>) ELSE ret
  /\ UNCHANGED <<ftable, ofile, call>>

\* the machine restarts and runs fs_init: every table is empty; the disk is
\* as the last transaction left it or, with the RAM disk, newly formatted
Restart ==
  /\ fs' = IF KeepDisk
             THEN [fs EXCEPT !.ic = [i \in Inum |-> FreeSlot], !.panic = ""]
             ELSE Formatted
  /\ ftable' = [k \in Idx |-> NoFile]
  /\ ofile' = [fd \in Fd |-> 0]
  /\ call' = NoCall
  /\ ret' = Answer(0, <<>>)

Next ==
  \/ \E path \in Paths, mode \in Modes : SysOpen(path, mode)
  \/ \E fd \in Fd :
       SysBadFd(fd) \/ SysDup(fd) \/ SysClose(fd) \/ SysFstat(fd)
  \/ \E fd \in Fd, n \in Counts : SysRead(fd, n)
  \/ \E fd \in Fd, cells \in Writes : SysWrite(fd, cells)
  \/ WriteChunk
  \/ Restart

Spec == Init /\ [][Next]_vars
-----------------------------------------------------------------------------
\* the disk's inodes, and what a dinode refers to
Allocated == {i \in Inum : fs.dinode[i].type # "T_UNUSED"}

BlockNo(d, bn) ==
  IF bn < NDirect THEN d.addrs[bn]
  ELSE IF d.addrs[NDirect] \notin DataBlock THEN 0
  ELSE fs.block[d.addrs[NDirect]][bn - NDirect].n

Contents(d) ==
  [k \in 1..d.size |->
     LET b == BlockNo(d, (k - 1) \div BSize)
     IN  IF b \in DataBlock THEN fs.block[b][(k - 1) % BSize] ELSE Raw(0)]

\* fsck_lite of fs_debug.c: every reference is to a data block that the bitmap
\* has, and no block is referenced twice
References == {r \in Inum \X (0..MaxFile) : r[1] \in Allocated}

Referenced(r) ==
  LET d == fs.dinode[r[1]]
  IN  IF r[2] = MaxFile THEN d.addrs[NDirect] ELSE BlockNo(d, r[2])

FsckLite ==
  /\ \A r \in References : Referenced(r) \in {0} \cup (DataBlock \cap fs.bitmap)
  /\ \A q, r \in References : Referenced(q) = Referenced(r) /\ Referenced(q) # 0 => q = r

TypeOK ==
  /\ fs.dinode \in [Inum -> [type: {"T_UNUSED", "T_DIR", "T_FILE"}, nlink: Nat,
                             size: 0..(MaxFile * BSize),
                             addrs: [0..NDirect -> DataBlock \cup {0}]]]
  /\ fs.bitmap \subseteq DataBlock
  /\ fs.block \in [DataBlock -> [0..(BSize - 1) -> Cell]]
  /\ DOMAIN fs.ic = Inum
  /\ \A i \in Inum : fs.ic[i].ref \in Nat
  /\ \A k \in Idx : ftable[k].ref \in 0..NOFile /\ ftable[k].ip \in Inum \cup {0}
  /\ ofile \in [Fd -> Idx \cup {0}]
  /\ call.f \in Idx \cup {0}

\* After every call and after every crash the disk passes fsck_lite, no block is
\* marked used that nothing refers to, and a file has exactly the blocks its
\* size calls for: balloc, bmap, itrunc and the restart never leak or share one.
BlocksAccounted ==
  /\ FsckLite
  /\ fs.bitmap \subseteq {Referenced(r) : r \in References}
  /\ \A i \in Allocated, bn \in 0..(MaxFile - 1) :
       BlockNo(fs.dinode[i], bn) # 0 <=> bn * BSize < fs.dinode[i].size
  /\ \A i \in Allocated :
       fs.dinode[i].addrs[NDirect] # 0 <=> fs.dinode[i].size > NDirect * BSize

\* The root directory has one entry for each file and one name for each entry:
\* create links what ialloc took, also when open fails after it.
DirectoryAccounted ==
  LET entries == Contents(fs.dinode[Root])
  IN  /\ \A j, k \in 1..Len(entries) : entries[j].name = entries[k].name => j = k
      /\ \A i \in Inum \ {Root} :
           Cardinality({k \in 1..Len(entries) : entries[k].n = i}) =
             IF i \in Allocated THEN fs.dinode[i].nlink ELSE 0
      /\ \A k \in 1..Len(entries) : entries[k].n \in Allocated

\* fs.h: ref is how many places refer to an inode in the cache.  Between two calls
\* these are the open files on it.
InodeRefsCountFiles ==
  Ready => \A i \in Inum :
    fs.ic[i].ref = Cardinality({k \in Idx : ftable[k].ref > 0 /\ ftable[k].ip = i})

\* Between two calls the reference count of an open file is the number of its
\* descriptors and that of an inode the number of open files on it; nothing is
\* left locked.  A count too high keeps a slot forever, one too low frees it.
RefsMatchHolders ==
  /\ InodeRefsCountFiles
  /\ Ready =>
       /\ \A k \in Idx : ftable[k].ref = Cardinality({fd \in Fd : ofile[fd] = k})
       /\ \A i \in Inum : ~fs.ic[i].locked

\* An inode in memory that is valid is the one on the disk: open truncates, and
\* write extends, through iupdate, so a second descriptor sees the same file.
CachedInodesCurrent ==
  \A i \in Inum : fs.ic[i].valid => fs.ic[i].d = fs.dinode[i] /\ i \in Allocated

\* The state is well formed, and the inodes in memory agree with the disk: a stale
\* or a wild one is what every lookup after it would go by.
InodesOK == TypeOK /\ CachedInodesCurrent

\* Disk, directory, cache and descriptors agree in all of these respects.
AllAccounted == BlocksAccounted /\ DirectoryAccounted /\ RefsMatchHolders /\ InodesOK

\* The kernel stops only because the disk has no block or no inode left: no
\* double free, no hole, no self-deadlock on an inode, no full inode cache.
PanicsOnlyWhenFull ==
  /\ fs.panic \in {"", "balloc: out of blocks", "ialloc: no inodes"}
  /\ fs.panic = "ialloc: no inodes" => Allocated = Inum

\* What FileSpec sees of the state: the contents of the files, the open files
\* without their reference counts, and what is left of a write.
FileData == [i \in Allocated |-> Contents(fs.dinode[i])]
Descriptions == [k \in Idx |-> [file |-> ftable[k].ip, off |-> ftable[k].off,
                                r |-> ftable[k].readable, w |-> ftable[k].writable]]
Unwritten == [d |-> call.f, n |-> call.n,
              cells |-> [k \in 1..Len(call.cells) |-> Raw(call.cells[k])]]

\* The calls implement the files and descriptors of FileSpec: what is read is what
\* was written through any descriptor, no call changes another file, and a
\* restart leaves each write in whole transactions.
Files == INSTANCE FileSpec WITH
  File  <- Inum,
  Desc  <- Idx,
  Chunk <- MaxOpBlocks * BSize,
  Entry <- Dirent,
  Fresh <- <<Dirent(Root, "."), Dirent(Root, "..")>>,
  data  <- FileData,
  fds   <- ofile,
  desc  <- Descriptions,
  todo  <- Unwritten

ImplementsFiles == Files!FSSpec
=============================================================================
