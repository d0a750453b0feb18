----------------------------- MODULE AtomicDisk -----------------------------
(***************************************************************************)
(* What the log promises to the file system: blocks whose changes become   *)
(* permanent together.  `current' is what a read returns, `stable' what a  *)
(* restart finds.  A write outside of every operation is permanent at      *)
(* once; the writes made inside operations become permanent in one step    *)
(* after the last of the overlapping operations has ended.                 *)
(***************************************************************************)
EXTENDS Naturals

CONSTANTS Home, Data, Zero

VARIABLES stable, current, nops

advars == <<stable, current, nops>>

ADInit ==
  /\ stable = [b \in Home |-> Zero]
  /\ current = stable
  /\ nops = 0

Begin ==
  /\ nops' = nops + 1
  /\ UNCHANGED <<stable, current>>

Write(b, v) ==
  /\ current' = [current EXCEPT ![b] = v]
  /\ stable' = IF nops = 0 THEN current' ELSE stable
  /\ UNCHANGED nops

End ==
  /\ nops > 0
  /\ nops' = nops - 1
  /\ UNCHANGED <<stable, current>>

Commit ==
  /\ nops = 0
  /\ stable' = current
  /\ UNCHANGED <<current, nops>>

Crash ==
  /\ current' = stable
  /\ nops' = 0
  /\ UNCHANGED stable

ADNext ==
  \/ Begin
  \/ \E b \in Home, v \in Data : Write(b, v)
  \/ End
  \/ Commit
  \/ Crash

ADSpec == ADInit /\ [][ADNext]_advars
=============================================================================
