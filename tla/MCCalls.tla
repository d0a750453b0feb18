------------------------------- MODULE MCCalls ------------------------------
EXTENDS Calls

(* System calls: int of 4 bits, registers and ticks of 5.  a7 has the handlers, *)
(* -1, a number behind the table and one whose high half is not 0; arguments    *)
(* are zero, the largest, the smallest, -1 and one with a high half.            *)
MCNum == {1, 2, 3, 4, 5, 6, 7, 19, 31}
MCWord == {0, 7, 8, 31, 18}
MCStrLen(addr) == addr % 9

(* Write transactions: the constants of fs.h; offsets at, before and behind the *)
(* boundaries of blocks and of the range of the direct blocks; writes of a      *)
(* byte, a block, the longest chunk and more.                                   *)
MCOffsets == {0, 1, 4095, 4096, 4097, 8 * 4096 - 1, 11 * 4096 + 1,
              12 * 4096 - 1, 12 * 4096, 12 * 4096 + 1, 20 * 4096 - 1}
MCSizes == {1, 4096, 4097, 40959, 40960, 200000}
MCSlack == {0, 1, 4096, 40960}

(* fsck_lite: two inodes with one direct and one indirect block of two entries; *)
(* the data blocks are 4 to 6, 3 is the bitmap and 7 is behind the disk.        *)
MCDirect == {0, 3, 4, 5}
MCIndirect == {0, 3, 5, 7}
MCEntry == {0, 4, 7}
=============================================================================
