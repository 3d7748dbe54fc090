----------------------------- MODULE Allocator -----------------------------
(***************************************************************************)
(* What the callers of allocate_inode/free_inode and allocate_db/free_db   *)
(* rely on, without the list in the free space: a set of free units in     *)
(* memory, the copy of it that a crash falls back to, and the units that   *)
(* callers hold.  The FreeList module is shown to implement this one.      *)
(***************************************************************************)
CONSTANT Units

VARIABLES
    free,   (* the units that the next allocation may return               *)
    saved,  (* the same after a crash: what the super block on the device  *)
            (* leads to                                                    *)
    owned,  (* the units held by callers                                   *)
    moving  (* the unit changing hands: out of free and not yet owned, or  *)
            (* back in free and still owned; {} between calls              *)

vars == <<free, saved, owned, moving>>

Init ==
    /\ free = Units
    /\ saved = Units
    /\ owned = {}
    /\ moving = {}

Take(u) ==
    /\ moving = {}
    /\ u \in free
    /\ free' = free \ {u}
    /\ moving' = {u}
    /\ UNCHANGED <<saved, owned>>

Give(u) ==
    /\ moving = {}
    /\ u \in owned
    /\ free' = free \union {u}
    /\ moving' = {u}
    /\ UNCHANGED <<saved, owned>>

(* The call returns: the unit ends on the side it was moving to.           *)
Settle ==
    /\ moving # {}
    /\ saved' = free
    /\ owned' = IF moving \subseteq free THEN owned \ moving
                                         ELSE owned \union moving
    /\ moving' = {}
    /\ UNCHANGED free

(* An allocation that failed after its unit left the list: nobody has it.  *)
Lose ==
    /\ moving # {}
    /\ moving \cap free = {}
    /\ moving' = {}
    /\ UNCHANGED <<free, saved, owned>>

Save ==
    /\ moving = {}
    /\ saved' = free
    /\ UNCHANGED <<free, owned, moving>>

Crash ==
    /\ free' = saved
    /\ moving' = {}
    /\ UNCHANGED <<saved, owned>>

Next ==
    \/ \E u \in Units : Take(u) \/ Give(u)
    \/ Settle
    \/ Lose
    \/ Save
    \/ Crash

Spec == Init /\ [][Next]_vars
=============================================================================
