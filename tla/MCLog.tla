------------------------------- MODULE MCLog -------------------------------
(* A log area of 3 blocks (header and 2 data blocks) in front of 3 home blocks. *)
EXTENDS Log

MCHome == {4, 5, 6}
MCBlock == 1..6
=============================================================================
