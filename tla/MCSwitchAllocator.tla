------------------------- MODULE MCSwitchAllocator -------------------------
(***************************************************************************)
(* Ports of a router in the corner of a mesh, for SwitchAllocator: flits   *)
(* come from the interface and from the east and leave to the east and to  *)
(* the north, where those that want to turn back are deflected to.         *)
(***************************************************************************)
EXTENDS SwitchAllocator, TLC

CornerIn  == 0 :> "Local" @@ 1 :> "East"
CornerOut == 0 :> "East" @@ 1 :> "North"
=============================================================================
