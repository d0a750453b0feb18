------------------------------- MODULE MCTrap -------------------------------
(* A text with a backspace and a line of ticks of two bytes, and the smallest *)
(* queue that is not only a holding register.                                 *)
EXTENDS Trap

MCText == <<"a", "BS">>
MCTickLine == <<"t", "k">>
=============================================================================
