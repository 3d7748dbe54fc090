------------------------------- MODULE Format -------------------------------
(***************************************************************************)
(* Making a file system (format and Donkey::create_root of dkfs/src/lib.rs,*)
(* called by mkdk) and opening it (open): one step per device write, any   *)
(* of which the device may refuse for its bounds, and after any of which   *)
(* the process may end.                                                    *)
(*                                                                         *)
(* pc is the next write of format, or                                      *)
(*   "ok", "failed"        format has returned                             *)
(*   "off"                 no process uses the device                      *)
(*   "mounted", "refused"  open has returned                               *)
(***************************************************************************)
EXTENDS Layout

CONSTANTS
    Lens,   (* lengths of devices                                          *)
    Ratios  (* bytes per inode                                             *)

ASSUME RatiosAssumption == Ratios \subseteq Nat \ {0}
ASSUME LensAssumption   == Lens \subseteq 0 .. Word \div 512

VARIABLES
    len,  (* the length of the device                                      *)
    bpi,  (* the ratio that format was called with                         *)
    pc,
    sb,   (* the super block in memory                                     *)
    dsb,  (* the super block on the device                                 *)
    at    (* what the device holds at the places that format writes        *)

fvars == <<len, bpi, pc, sb, dsb, at>>

NoSb == [magic |-> FALSE, inode_count |-> 0, used_inode_count |-> 0, db_count |-> 0,
         used_db_count |-> 0, inode_fl_ptr |-> 0, db_fl_ptr |-> 0]

Blank       == [kind |-> "blank"]
Node(next, n) == [kind |-> "node", next |-> next, size |-> n]
RootDir(nlink) == [kind |-> "inode", nlink |-> nlink]
DirData     == [kind |-> "data"]

Places(n) ==
    {FIRST_INODE_PTR, FIRST_INODE_PTR + INODE_SIZE}
    \union {first_db_ptr(n, r) : r \in Ratios}
    \union {first_db_ptr(n, r) + DEFAULT_BLOCK_SIZE : r \in Ratios}

Init ==
    /\ len \in Lens /\ bpi \in Ratios
    /\ pc = "super"
    /\ sb = NoSb /\ dsb = NoSb
    /\ at = [p \in Places(len) |-> Blank]

-----------------------------------------------------------------------------
(***************************************************************************)
(* A write of n bytes of content at place p, by which format goes on to    *)
(* step; and the same of the super block.                                  *)
(***************************************************************************)
Holding(p, content) == [at EXCEPT ![p] = content]

Put(p, n, content, step, error) ==
    IF write_fits(len, p, n)
    THEN at' = Holding(p, content) /\ pc' = step
    ELSE at' = at /\ pc' = error

flush_sb(s, step, error) ==
    IF write_fits(len, SUPER_BLOCK_PTR, SuperBlockLen)
    THEN dsb' = s /\ pc' = step
    ELSE dsb' = dsb /\ pc' = error

FormatSuper ==
    /\ pc = "super"
    /\ sb' = [magic |-> TRUE,
              inode_count |-> inode_count(len, bpi), used_inode_count |-> 0,
              db_count |-> db_count(len, bpi), used_db_count |-> 0,
              inode_fl_ptr |-> FIRST_INODE_PTR, db_fl_ptr |-> first_db_ptr(len, bpi)]
    /\ flush_sb(sb', "inodes", "failed")
    /\ UNCHANGED <<len, bpi, at>>

FormatInodes ==
    /\ pc = "inodes"
    /\ Put(FIRST_INODE_PTR, FreeListLen, Node(0, sb.inode_count * INODE_SIZE),
           "blocks", "failed")
    /\ UNCHANGED <<len, bpi, sb, dsb>>

FormatBlocks ==
    /\ pc = "blocks"
    /\ Put(first_db_ptr(len, bpi), FreeListLen, Node(0, FreeBytes(len, bpi)),
           "allocate_inode", "failed")
    /\ UNCHANGED <<len, bpi, sb, dsb>>

(* allocate_from_free: what is left of the extent at ptr becomes a node,   *)
(* unless it is too small for one.                                         *)
Left(ptr, unit)      == at[ptr].size - unit
Splits(ptr, unit)    == Left(ptr, unit) >= FreeListLen
CanSplit(ptr, unit)  == Splits(ptr, unit) => write_fits(len, ptr + unit, FreeListLen)
NewHead(ptr, unit)   == IF Splits(ptr, unit) THEN ptr + unit ELSE at[ptr].next
AfterSplit(ptr, unit) ==
    IF Splits(ptr, unit) THEN Holding(ptr + unit, Node(at[ptr].next, Left(ptr, unit))) ELSE at

InodeTaken(s, head) == [s EXCEPT !.inode_fl_ptr = head, !.used_inode_count = @ + 1]
DbTaken(s, head)    == [s EXCEPT !.db_fl_ptr = head, !.used_db_count = @ + 1]

(* create_root: mknod, which stops when there is no inode.                 *)
AllocateInode ==
    /\ pc = "allocate_inode"
    /\ IF sb.used_inode_count < sb.inode_count /\ CanSplit(sb.inode_fl_ptr, INODE_SIZE)
       THEN /\ at' = AfterSplit(sb.inode_fl_ptr, INODE_SIZE)
            /\ sb' = InodeTaken(sb, NewHead(sb.inode_fl_ptr, INODE_SIZE))
            /\ pc' = "flush_inode_list"
       ELSE pc' = "failed" /\ UNCHANGED <<sb, at>>
    /\ UNCHANGED <<len, bpi, dsb>>

(* Mutant: the super block is not written.                                 *)
FlushNoInodeList ==
    /\ pc = "flush_inode_list" /\ pc' = "write_inode"
    /\ UNCHANGED <<len, bpi, sb, dsb, at>>

FlushInodeList ==
    /\ pc = "flush_inode_list"
    /\ flush_sb(sb, "write_inode", "failed")
    /\ UNCHANGED <<len, bpi, sb, at>>

(* The new inode is at the former head; its links are still in memory, and *)
(* the number it got has to be ROOT_INODE.                                 *)
WriteInode ==
    /\ pc = "write_inode"
    /\ Put(FIRST_INODE_PTR, InodeLen, RootDir(0),
           IF ino_of(FIRST_INODE_PTR) = ROOT_INODE THEN "allocate_db" ELSE "failed",
           "failed")
    /\ UNCHANGED <<len, bpi, sb, dsb>>

(* create_root closes the directory: its content gets a block.  Errors     *)
(* from here on are lost when the BufWriter is dropped.                    *)
AllocateDb ==
    /\ pc = "allocate_db"
    /\ IF sb.used_db_count < sb.db_count /\ CanSplit(sb.db_fl_ptr, DEFAULT_BLOCK_SIZE)
       THEN /\ at' = AfterSplit(sb.db_fl_ptr, DEFAULT_BLOCK_SIZE)
            /\ sb' = DbTaken(sb, NewHead(sb.db_fl_ptr, DEFAULT_BLOCK_SIZE))
            /\ pc' = "flush_db_list"
       ELSE pc' = "close_inode" /\ UNCHANGED <<sb, at>>
    /\ UNCHANGED <<len, bpi, dsb>>

FlushDbList ==
    /\ pc = "flush_db_list"
    /\ flush_sb(sb, "write_dir", "close_inode")
    /\ UNCHANGED <<len, bpi, sb, at>>

WriteDir ==
    /\ pc = "write_dir"
    /\ Put(first_db_ptr(len, bpi), RootDirLen, DirData, "close_inode", "close_inode")
    /\ UNCHANGED <<len, bpi, sb, dsb>>

CloseInode ==
    /\ pc = "close_inode"
    /\ Put(FIRST_INODE_PTR, InodeLen, RootDir(2), "ok", "failed")
    /\ UNCHANGED <<len, bpi, sb, dsb>>

(* The process ends: after format returned, or before.                     *)
Stop ==
    /\ pc # "off"
    /\ pc' = "off" /\ sb' = NoSb
    /\ UNCHANGED <<len, bpi, dsb, at>>

(* open: only the magic number is looked at.                               *)
Open ==
    /\ pc = "off"
    /\ IF dsb.magic THEN pc' = "mounted" /\ sb' = dsb
                    ELSE pc' = "refused" /\ UNCHANGED sb
    /\ UNCHANGED <<len, bpi, dsb, at>>

Reformat(r) ==
    /\ pc = "off"
    /\ pc' = "super" /\ bpi' = r
    /\ UNCHANGED <<len, sb, dsb, at>>

Step ==
    \/ FormatSuper
    \/ FormatInodes
    \/ FormatBlocks
    \/ AllocateInode
    \/ FlushInodeList
    \/ WriteInode
    \/ AllocateDb
    \/ FlushDbList
    \/ WriteDir
    \/ CloseInode
    \/ Stop
    \/ Open

(* A new device, formatted once; and one that is formatted again.          *)
FormatSpec == Init /\ [][Step]_fvars
AgainSpec  == Init /\ [][Step \/ \E r \in Ratios : Reformat(r)]_fvars

-----------------------------------------------------------------------------
(***************************************************************************)
(* Properties.                                                             *)
(***************************************************************************)
SuperBlocks ==
    [magic : BOOLEAN, inode_count : Nat, used_inode_count : 0 .. 1,
     db_count : 0 .. Word - 1, used_db_count : 0 .. 1, inode_fl_ptr : Nat, db_fl_ptr : Nat]

Steps ==
    {"super", "inodes", "blocks", "allocate_inode", "flush_inode_list", "write_inode",
     "allocate_db", "flush_db_list", "write_dir", "close_inode",
     "ok", "failed", "off", "mounted", "refused"}

TypeOK ==
    /\ len \in Lens /\ bpi \in Ratios /\ pc \in Steps
    /\ sb \in SuperBlocks /\ dsb \in SuperBlocks
    /\ \A p \in DOMAIN at :
         at[p] \in {Blank, DirData} \union [kind : {"inode"}, nlink : {0, 2}]
                   \union [kind : {"node"}, next : {0}, size : 0 .. Word - 1]

(* The device has room for an inode, for the table, and for a data block.  *)
Fits == inode_count(len, bpi) > 0 /\ used_blocks(len, bpi) < block_count(len)

(* format fails only on a device that is too small for the ratio; a table  *)
(* that does not fit is noticed, although the sizes computed from it wrap. *)
(* In particular the root gets its number.                                 *)
FailsOnlyIfTooSmall == pc = "failed" => ~Fits

(* In memory or on the device, s describes an inode table followed by data *)
(* blocks up to the end of the device, without overlap.                    *)
RegionsApart(s) ==
    /\ s.inode_count > 0
    /\ s.db_count \in 1 .. block_count(len)
    /\ FIRST_INODE_PTR + INODE_SIZE * s.inode_count
         <= (block_count(len) - s.db_count) * DEFAULT_BLOCK_SIZE

(* After format succeeded, every unit that the allocators can hand out is  *)
(* inside its region, so that writing it neither fails nor reaches into    *)
(* the next one; inode numbers and pointers designate each other; and the  *)
(* two free extents hold whole units, as many as the counters say.         *)
FormattedIsSound ==
    pc = "ok" =>
      /\ RegionsApart(sb)
      /\ \A i \in ROOT_INODE .. ROOT_INODE + sb.inode_count - 1 :
           /\ ino_of(ptr_of(i)) = i
           /\ ptr_of(i) >= SUPER_BLOCK_PTR + SuperBlockLen
           /\ ptr_of(i) + INODE_SIZE <= first_db_ptr(len, bpi)
           /\ write_fits(len, ptr_of(i), InodeLen)
      /\ \A k \in 0 .. sb.db_count - 1 :
           write_fits(len, first_db_ptr(len, bpi) + k * DEFAULT_BLOCK_SIZE, DEFAULT_BLOCK_SIZE)
      /\ FreeBytes(len, bpi) = sb.db_count * DEFAULT_BLOCK_SIZE

(* The free lists of s start with a node of all units that are not used.   *)
HeadsAreNodes(s) ==
    /\ s.used_inode_count < s.inode_count =>
         at[s.inode_fl_ptr] = Node(0, (s.inode_count - s.used_inode_count) * INODE_SIZE)
    /\ s.used_db_count < s.db_count =>
         at[s.db_fl_ptr] = Node(0, (s.db_count - s.used_db_count) * DEFAULT_BLOCK_SIZE)

(* A new device whose formatting was interrupted anywhere is usable only   *)
(* if its root can be read, and then it is sound.                          *)
ReadableIsSound ==
    pc = "mounted" /\ at[FIRST_INODE_PTR].kind = "inode" =>
      RegionsApart(sb) /\ HeadsAreNodes(sb)

(* allocate_from_free (lib.rs) allocates "from `FreeList` at `ptr`": on a  *)
(* device that open accepts and whose root can be read, the head of the    *)
(* inode list designates a free node.                                      *)
MountedHasList ==
    /\ pc = "mounted" /\ at[FIRST_INODE_PTR].kind = "inode"
    /\ sb.used_inode_count < sb.inode_count
    => at[sb.inode_fl_ptr].kind = "node"
=============================================================================
