---------------------------- MODULE BufferCache ----------------------------
(***************************************************************************)
(* The block cache of kernel/bio.c as a value and the operations on it.    *)
(*                                                                         *)
(* The C code keeps NBUF buffers on a circular list around bcache.head:    *)
(* head.next is the most recently released buffer, head.prev the least     *)
(* recently released one.  A cache value lists the buffers in that order,  *)
(* place 1 being head.next and place NBuf head.prev, so a buffer is known  *)
(* by its place and needs no address.  The device number is left out: the  *)
(* kernel has one device, and binit's dev = 0, which no lookup can match,  *)
(* is NoBlock here.  `valid' is left out too: bget clears it only for a    *)
(* buffer it recycles and bread reads the block before it returns, hence   *)
(* every buffer that names a block is valid when no call is in progress.   *)
(***************************************************************************)
EXTENDS Naturals

CONSTANTS
  NBuf,      \* NBUF, the number of buffers
  Block,     \* the block numbers of the disk
  NoBlock,   \* what a buffer holds before its first use
  Data,      \* the contents of a block
  Zero       \* the contents of a block after virtio_disk_init

ASSUME CacheAssumption ==
  /\ NBuf \in Nat \ {0}
  /\ NoBlock \notin Block
  /\ Zero \in Data

Place == 1..NBuf

Buffer == [blk: Block \cup {NoBlock}, ref: Nat, data: Data]

Cache == [Place -> Buffer]

\* binit: every buffer empty, nobody uses one
EmptyCache == [k \in Place |-> [blk |-> NoBlock, ref |-> 0, data |-> Zero]]

IsCached(c, b) == \E k \in Place : c[k].blk = b

PlaceOf(c, b) == CHOOSE k \in Place : c[k].blk = b

\* holdingsleep(&b->lock) and refcnt > 0: a flow of control has the buffer
IsHeld(c, b) == \E k \in Place : c[k].blk = b /\ c[k].ref > 0

HeldPlaces(c) == {k \in Place : c[k].ref > 0}

\* the search of bget by block number has one answer
OneBufferPerBlock(c) ==
  \A j, k \in Place : c[j].blk = c[k].blk /\ c[j].blk # NoBlock => j = k

\* bget finds the block or a buffer to recycle; otherwise it panics
CanGet(c, b) == IsCached(c, b) \/ \E k \in Place : c[k].ref = 0

\* mutant of Victim: the search starts at head.next
VictimFromFront(c) ==
  CHOOSE k \in Place :
    /\ c[k].ref = 0
    /\ \A j \in Place : c[j].ref = 0 => j >= k

\* the buffer bget recycles: refcnt = 0, searched from head.prev
Victim(c) ==
  CHOOSE k \in Place :
    /\ c[k].ref = 0
    /\ \A j \in Place : c[j].ref = 0 => j <= k

\* bread: bget, and a disk read of contents d when the block was not cached
Get(c, b, d) ==
  IF IsCached(c, b)
    THEN [c EXCEPT ![PlaceOf(c, b)].ref = @ + 1]
    ELSE [c EXCEPT ![Victim(c)] = [blk |-> b, ref |-> 1, data |-> d]]

\* the caller's stores into b->data
Fill(c, b, d) == [c EXCEPT ![PlaceOf(c, b)].data = d]

\* mutant of ToFront: brelse leaves the buffer where it is
StayInPlace(c, p) == c

\* unlink the buffer at place p and insert it behind bcache.head
ToFront(c, p) ==
  [k \in Place |-> IF k = 1 THEN c[p] ELSE IF k <= p THEN c[k - 1] ELSE c[k]]

\* brelse: drop one reference; the last one moves the buffer to the front
Release(c, b) ==
  LET p == PlaceOf(c, b)
      d == [c EXCEPT ![p].ref = @ - 1]
  IN  IF d[p].ref = 0 THEN ToFront(d, p) ELSE d

\* bread, overwrite and brelse of a block within one call
Overwrite(c, b, d) == Release(Fill(Get(c, b, d), b, d), b)
=============================================================================
