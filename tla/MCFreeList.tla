----------------------------- MODULE MCFreeList -----------------------------
(* Model-checking instances of FreeList; the configurations choose the     *)
(* number of units and where the device may fail.                          *)
EXTENDS FreeList

(* The faults that leave both lists intact, and the ones that do not.      *)
AllocFaults == {"walk", "allocFlush"}
PushFaults  == AllocFaults \union {"push"}

(* The auxiliary chains feed back into no other variable; runs whose       *)
(* properties do not mention them leave them out of the state fingerprint. *)
WithoutChains == <<node, disk, sb, op, owned>>
=============================================================================
