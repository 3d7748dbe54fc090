------------------------------ MODULE FreeList ------------------------------
(***************************************************************************)
(* The free-space allocator of dkfs.  The inode table and the data region  *)
(* are each managed by a list of free nodes kept in the free space itself: *)
(* a node { next_ptr, size } is stored at the start of the free extent it  *)
(* describes, and the super block holds the pointer of the first node and  *)
(* the number of units in use.  allocate_inode/free_inode and              *)
(* allocate_db/free_db are the same algorithm over the two regions; this   *)
(* module models one region.                                               *)
(*                                                                         *)
(* A unit is an inode slot or a data block, numbered from 1; 0 is the null *)
(* pointer.  Sizes are counted in units: format and free_* only create     *)
(* extents that are whole units, and a unit (256 or 4096 bytes) is larger  *)
(* than a node (16 bytes), so an extent is split exactly when at least one *)
(* unit is left over.                                                      *)
(*                                                                         *)
(* One step is one device write, with the memory assignments around it, so *)
(* that a crash or a failed write can fall between any two of them.        *)
(***************************************************************************)
EXTENDS Naturals, Sequences, FiniteSets

CONSTANTS
    Count,   (* units in the region: inode_count or db_count              *)
    Faults,  (* the steps at which the device may report an error         *)
    Data     (* content of a unit that is not a free-list node            *)

Units == 1 .. Count
Node  == [next_ptr : 0 .. Count, size : 0 .. Count]
Steps == {"walk", "allocFlush", "push", "freeFlush"}

ASSUME CountAssumption == Count \in Nat \ {0}
ASSUME FaultsAssumption == Faults \subseteq Steps
ASSUME DataAssumption == Data \notin Node

VARIABLES
    node,   (* node[u]: what the device stores at the start of unit u      *)
    disk,   (* the super block on the device                               *)
    sb,     (* the super block in memory (Donkey::sb)                      *)
    op,     (* the allocator call in progress                              *)
    owned,  (* units the callers hold: returned and not yet given back     *)
    chain,  (* auxiliary: the extents of the list rooted at sb.fl_ptr,     *)
            (* last one first to be allocated                              *)
    dchain  (* auxiliary: the same for the super block on the device       *)

vars == <<node, disk, sb, op, owned, chain, dchain>>

Idle == [pc |-> "idle", unit |-> 0, next_ptr |-> 0]

(***************************************************************************)
(* format: one free extent that covers the whole region.                   *)
(***************************************************************************)
Init ==
    /\ node = [u \in Units |->
                 IF u = 1 THEN [next_ptr |-> 0, size |-> Count] ELSE Data]
    /\ disk = [fl_ptr |-> 1, used |-> 0]
    /\ sb = disk
    /\ op = Idle
    /\ owned = {}
    /\ chain = <<1>>
    /\ dchain = <<1>>

-----------------------------------------------------------------------------
(***************************************************************************)
(* Reading a node.  Bytes that were never written as a node, and the boot  *)
(* block that the null pointer designates, decode to an arbitrary node.    *)
(***************************************************************************)
ReadNode(p) ==
    IF p \in Units /\ node[p] # Data THEN {node[p]} ELSE Node

Pop(c)       == SubSeq(c, 1, Len(c) - 1)
SetTop(c, u) == Append(Pop(c), u)

(* Mutant: the comparison with the number of units is <=.                  *)
AllocateOneMore ==
    /\ op.pc = "idle"
    /\ sb.used <= Count
    /\ op' = [pc |-> "walk", unit |-> sb.fl_ptr, next_ptr |-> 0]
    /\ UNCHANGED <<node, disk, sb, owned, chain, dchain>>

(***************************************************************************)
(* allocate_inode, allocate_db: with used = count the caller gets          *)
(* Exhausted and nothing changes; otherwise the list is searched from its  *)
(* head.                                                                   *)
(***************************************************************************)
Allocate ==
    /\ op.pc = "idle"
    /\ sb.used < Count
    /\ op' = [pc |-> "walk", unit |-> sb.fl_ptr, next_ptr |-> 0]
    /\ UNCHANGED <<node, disk, sb, owned, chain, dchain>>

(* Mutant: the whole extent is taken and counted, though one unit is asked *)
(* for.                                                                    *)
TakeExtent(p, fl) ==
    /\ UNCHANGED node
    /\ sb' = [fl_ptr |-> fl.next_ptr, used |-> sb.used + fl.size]
    /\ chain' = Pop(chain)

(***************************************************************************)
(* allocate_from_free, one call per node.  A node that is too small sends  *)
(* the search to the next one.  Otherwise the front unit is taken; what is *)
(* left of the extent is written back as a node of its own and becomes the *)
(* new head.  The first conjunct is no check of the code: a node decoded   *)
(* from other bytes may claim an extent that leaves the region, and the    *)
(* model does not follow the program beyond it.  No node of a list does.   *)
(***************************************************************************)
TakeFrom(p, fl) ==
    /\ fl.size > 1 => p + 1 \in Units
    /\ node' = IF fl.size > 1
               THEN [node EXCEPT ![p + 1] = [fl EXCEPT !.size = fl.size - 1]]
               ELSE node
    /\ sb' = [fl_ptr |-> IF fl.size > 1 THEN p + 1 ELSE fl.next_ptr,
              used   |-> sb.used + 1]
    /\ chain' = IF fl.size > 1 THEN SetTop(chain, p + 1) ELSE Pop(chain)

(* Mutant: an extent of exactly the size asked for is taken for too small. *)
AllocateFromFreeStrict ==
    /\ op.pc = "walk"
    /\ \E fl \in ReadNode(op.unit) :
         \/ /\ fl.size > 1
            /\ TakeFrom(op.unit, fl)
            /\ op' = [op EXCEPT !.pc = "allocFlush"]
         \/ /\ fl.size <= 1
            /\ op' = [op EXCEPT !.unit = fl.next_ptr]
            /\ UNCHANGED <<node, sb, chain>>
    /\ UNCHANGED <<disk, owned, dchain>>

AllocateFromFree ==
    /\ op.pc = "walk"
    /\ \E fl \in ReadNode(op.unit) :
         \/ /\ fl.size >= 1
            /\ TakeFrom(op.unit, fl)
            /\ op' = [op EXCEPT !.pc = "allocFlush"]
         \/ /\ fl.size < 1
            /\ op' = [op EXCEPT !.unit = fl.next_ptr]
            /\ UNCHANGED <<node, sb, chain>>
    /\ UNCHANGED <<disk, owned, dchain>>

(* Mutant: allocate_* returns without flush_sb.                            *)
FinishAllocateUnflushed ==
    /\ op.pc = "allocFlush"
    /\ owned' = owned \union {op.unit}
    /\ op' = Idle
    /\ UNCHANGED <<node, disk, sb, chain, dchain>>

(***************************************************************************)
(* flush_sb at the end of allocate_*, and the return to the caller.        *)
(***************************************************************************)
FinishAllocate ==
    /\ op.pc = "allocFlush"
    /\ disk' = sb
    /\ dchain' = chain
    /\ owned' = owned \union {op.unit}
    /\ op' = Idle
    /\ UNCHANGED <<node, sb, chain>>

(* Mutant: the counter is decremented before the node is written.          *)
FreeCountedFirst(u) ==
    /\ op.pc = "idle"
    /\ u \in owned
    /\ op' = [pc |-> "push", unit |-> u, next_ptr |-> sb.fl_ptr]
    /\ sb' = [fl_ptr |-> u, used |-> sb.used - 1]
    /\ UNCHANGED <<node, disk, owned, chain, dchain>>

(***************************************************************************)
(* free_inode, free_db.  The new head is assigned before its node is       *)
(* written.                                                                *)
(***************************************************************************)
Free(u) ==
    /\ op.pc = "idle"
    /\ u \in owned
    /\ op' = [pc |-> "push", unit |-> u, next_ptr |-> sb.fl_ptr]
    /\ sb' = [sb EXCEPT !.fl_ptr = u]
    /\ UNCHANGED <<node, disk, owned, chain, dchain>>

(* Mutants: next_ptr is read after the head has been assigned; the counter *)
(* is not decremented.                                                     *)
PushNodeLoop ==
    /\ op.pc = "push"
    /\ node' = [node EXCEPT ![op.unit] = [next_ptr |-> sb.fl_ptr, size |-> 1]]
    /\ sb' = [sb EXCEPT !.used = sb.used - 1]
    /\ chain' = Append(chain, op.unit)
    /\ op' = [op EXCEPT !.pc = "freeFlush"]
    /\ UNCHANGED <<disk, owned, dchain>>
PushNodeUncounted ==
    /\ op.pc = "push"
    /\ node' = [node EXCEPT ![op.unit] = [next_ptr |-> op.next_ptr, size |-> 1]]
    /\ chain' = Append(chain, op.unit)
    /\ op' = [op EXCEPT !.pc = "freeFlush"]
    /\ UNCHANGED <<sb, disk, owned, dchain>>

(* The write of the node, and the count.                                   *)
PushNode ==
    /\ op.pc = "push"
    /\ node' = [node EXCEPT ![op.unit] = [next_ptr |-> op.next_ptr, size |-> 1]]
    /\ sb' = [sb EXCEPT !.used = sb.used - 1]
    /\ chain' = Append(chain, op.unit)
    /\ op' = [op EXCEPT !.pc = "freeFlush"]
    /\ UNCHANGED <<disk, owned, dchain>>

(* Mutant: the counter is decremented once more on the way out.            *)
FinishFreeCounted ==
    /\ op.pc = "freeFlush"
    /\ sb' = [sb EXCEPT !.used = sb.used - 1]
    /\ disk' = sb'
    /\ dchain' = chain
    /\ owned' = owned \ {op.unit}
    /\ op' = Idle
    /\ UNCHANGED <<node, chain>>

(***************************************************************************)
(* flush_sb at the end of free_*; only then does the caller forget its     *)
(* pointer to the unit.                                                    *)
(***************************************************************************)
FinishFree ==
    /\ op.pc = "freeFlush"
    /\ disk' = sb
    /\ dchain' = chain
    /\ owned' = owned \ {op.unit}
    /\ op' = Idle
    /\ UNCHANGED <<node, sb, chain>>

(***************************************************************************)
(* A device access of the call in progress fails: the call returns the     *)
(* error at once (the ? operator) and what it had assigned stays assigned. *)
(***************************************************************************)
DeviceError ==
    /\ op.pc \in Faults
    /\ op' = Idle
    /\ UNCHANGED <<node, disk, sb, owned, chain, dchain>>

(***************************************************************************)
(* The owner of a unit stores an inode, file data or pointers in it.       *)
(***************************************************************************)
WriteUnit(u) ==
    /\ op.pc = "idle"
    /\ u \in owned
    /\ node[u] # Data
    /\ node' = [node EXCEPT ![u] = Data]
    /\ UNCHANGED <<disk, sb, op, owned, chain, dchain>>

(***************************************************************************)
(* flush_sb called for the other region writes this region's fields too.   *)
(***************************************************************************)
FlushForOtherRegion ==
    /\ op.pc = "idle"
    /\ disk # sb
    /\ disk' = sb
    /\ dchain' = chain
    /\ UNCHANGED <<node, sb, op, owned, chain>>

(***************************************************************************)
(* The process dies; the next open reads the super block from the device.  *)
(***************************************************************************)
Crash ==
    /\ op' = Idle
    /\ sb' = disk
    /\ chain' = dchain
    /\ UNCHANGED <<node, disk, owned, dchain>>

Next ==
    \/ Allocate
    \/ AllocateFromFree
    \/ FinishAllocate
    \/ \E u \in Units : Free(u)
    \/ PushNode
    \/ FinishFree
    \/ DeviceError
    \/ \E u \in Units : WriteUnit(u)
    \/ FlushForOtherRegion
    \/ Crash

Spec == Init /\ [][Next]_vars

(* The code of a call runs to its end unless the process dies.             *)
FairSpec ==
    /\ Spec
    /\ WF_vars(AllocateFromFree)
    /\ WF_vars(FinishAllocate)
    /\ WF_vars(PushNode)
    /\ WF_vars(FinishFree)

-----------------------------------------------------------------------------
(***************************************************************************)
(* Properties.                                                             *)
(***************************************************************************)
SuperBlock == [fl_ptr : 0 .. Count, used : 0 .. Count]
Call == [pc : Steps \union {"idle"}, unit : 0 .. Count, next_ptr : 0 .. Count]

(* Every pointer stays in its region and the used counters between 0 and   *)
(* the number of units, so that neither += 1 nor -= 1 on them wraps.       *)
TypeOK ==
    /\ node \in [Units -> Node \union {Data}]
    /\ disk \in SuperBlock
    /\ sb \in SuperBlock
    /\ op \in Call
    /\ owned \subseteq Units
    /\ chain \in Seq(Units)
    /\ dchain \in Seq(Units)

(* The units of the extent whose node is at p, and of all extents of c.    *)
Extent(nd, p) == p .. (p + nd[p].size - 1)

FreeUnits(nd, c) == UNION {Extent(nd, c[k]) : k \in 1 .. Len(c)}

(* The list rooted at head is exactly the chain c of free extents: it      *)
(* follows next_ptr to the null pointer, every extent holds at least one   *)
(* unit and lies in the region, and no two overlap.                        *)
IsList(nd, head, c) ==
    /\ head = IF Len(c) = 0 THEN 0 ELSE c[Len(c)]
    /\ \A k \in 1 .. Len(c) :
         /\ nd[c[k]] \in Node
         /\ nd[c[k]].next_ptr = IF k = 1 THEN 0 ELSE c[k - 1]
         /\ nd[c[k]].size >= 1
         /\ Extent(nd, c[k]) \subseteq Units
    /\ \A j, k \in 1 .. Len(c) :
         j # k => Extent(nd, c[j]) \cap Extent(nd, c[k]) = {}

InMemory == FreeUnits(node, chain)
OnDevice == FreeUnits(node, dchain)

(* The pointer that leads to the list in memory: between the assignment of *)
(* the new head and the write of its node, free_* holds it in new_fl.      *)
MemoryHead == IF op.pc = "push" THEN op.next_ptr ELSE sb.fl_ptr

(* At every moment, a crash in the middle of a call included, the super    *)
(* block in memory and the one on the device each lead to a well-formed    *)
(* free list, although both lists share the nodes in the free space.       *)
ListsWellFormed ==
    /\ IsList(node, MemoryHead, chain)
    /\ IsList(node, disk.fl_ptr, dchain)

(* used_inode_count and used_db_count agree with the list: Exhausted is    *)
(* returned exactly when the list is empty.                                *)
SpaceAccounted ==
    /\ sb.used + Cardinality(InMemory) = Count
    /\ disk.used + Cardinality(OnDevice) = Count

Freeing   == IF op.pc = "freeFlush" THEN {op.unit} ELSE {}
Allocated == IF op.pc = "allocFlush" THEN {op.unit} ELSE {}

(* No unit is free and in use at once, in memory or after a crash, but for *)
(* the unit that free_* is about to take from its owner; and the unit that *)
(* allocate_* is about to return belongs to nobody.                        *)
NoDoubleUse ==
    /\ (owned \ Freeing) \cap InMemory = {}
    /\ owned \cap OnDevice = {}
    /\ Allocated \cap (owned \union InMemory) = {}

(* allocate_from_free never recurses: the head always has room.  A search  *)
(* that went on would lose every node it passed, since the pointer it      *)
(* returns as the new head is the successor of the node it took from.      *)
HeadHasRoom ==
    op.pc = "walk" => op.unit = sb.fl_ptr /\ op.unit \in InMemory

(* Every call comes back.  allocate_from_free calls itself for the next    *)
(* node without a bound and without a check for the null pointer, behind   *)
(* which the boot block decodes to a node that may lead back into the      *)
(* list; it ends because the counter sends it only into a list with room.  *)
CallsReturn == (op.pc # "idle") ~> (op.pc = "idle")

(* The counter of used units never falls below the number of units callers *)
(* can still give back, so -= 1 in free_* cannot wrap.                     *)
CounterCoversOwned ==
    Cardinality(owned) <= sb.used + (IF op.pc = "freeFlush" THEN 1 ELSE 0)

(* The allocator that callers see.                                         *)
Abs == INSTANCE Allocator WITH
    free   <- InMemory,
    saved  <- OnDevice,
    moving <- Freeing \union Allocated

(* The list in the free space implements the abstract allocator.           *)
ImplementsAllocator == Abs!Spec

(* What allocate_from_free expects of the head it is given (its comment:   *)
(* "Allocated a block of size `size` from `FreeList` at `ptr`"): between   *)
(* calls, the head in the super block designates a free node.              *)
HeadIsFreeList ==
    op.pc = "idle" /\ sb.fl_ptr # 0 =>
        node[sb.fl_ptr] # Data /\ sb.fl_ptr \notin owned
=============================================================================
