------------------------------- MODULE MCProc -------------------------------
(* Three slots and four pages, so that stacks can run out and come back in    *)
(* another order; the synchronisation test of three items behind any of this. *)
EXTENDS ProdCons
=============================================================================
