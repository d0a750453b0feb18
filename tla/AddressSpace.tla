---------------------------- MODULE AddressSpace ----------------------------
(***************************************************************************)
(* What map_page of kernel/vm.c promises: an address space is a partial    *)
(* function from virtual pages to a physical page with permissions.  A     *)
(* call adds one page or nothing, and no call changes or removes a page.   *)
(***************************************************************************)
EXTENDS Naturals

CONSTANTS
  VPage,      \* virtual pages
  PPage,      \* physical pages
  Permission  \* what a mapping may be used for

VARIABLE space

Mapping == [pa : PPage, perm : Permission]

ASInit == space = [va \in {} |-> 0]

Map(va) ==
  /\ DOMAIN space' = DOMAIN space \cup {va}
  /\ space'[va] \in Mapping
  /\ \A v \in DOMAIN space : space'[v] = space[v]

ASNext == \E va \in VPage \ DOMAIN space : Map(va)

ASSpec == ASInit /\ [][ASNext]_space
=============================================================================
