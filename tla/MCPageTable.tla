---------------------------- MODULE MCPageTable -----------------------------
(* Tables of five entries: 63 virtual pages, 9 of them memory, 8 of which the *)
(* allocator has.  kvminit needs 6 tables, and leaves out the second entry of *)
(* the root, as it does in the code: memory and the UART have a table of the  *)
(* second level each, and a page between them has none.                       *)
EXTENDS PageTable

MCCallVA == {50, 53, 60, 102, 126}
MCCallPA == {2, 3}
=============================================================================
