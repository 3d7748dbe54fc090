------------------------------- MODULE DkFile -------------------------------
(***************************************************************************)
(* The content of one file: struct DkFile of dkfs/src/file.rs.  Blocks are *)
(* found through direct pointers in the inode and through trees of pointer *)
(* blocks, one tree of each height up to Levels.  ptr_cache keeps one      *)
(* pointer block per height, which is written to the device when another   *)
(* takes its place and when the file is flushed.                           *)
(*                                                                         *)
(* The methods are operators from state to state.  A device write that a   *)
(* crash can separate from the next one is a step of its own while the     *)
(* file is flushed; the other calls are one step.                          *)
(*                                                                         *)
(* Abstractions: positions and sizes count cells, BS of them to a block; a *)
(* write fills its cells with one value; extended attributes, mode and     *)
(* times are left out (see Xattr and Donkey); the device does not fail.    *)
(***************************************************************************)
EXTENDS Integers, SequencesExt, FiniteSetsExt

CONSTANTS
    Direct,     (* direct pointers of an inode (12)                        *)
    Fan,        (* pointers in a pointer block (512)                       *)
    Levels,     (* heights of the trees (4)                                *)
    BS,         (* cells in a block                                        *)
    NBlocks,    (* data blocks of the device                               *)
    Values,     (* what users write                                        *)
    Positions,  (* where they read and write                               *)
    Lengths,    (* how much at a time                                      *)
    Sizes,      (* the sizes to which they truncate                        *)
    Junk        (* a cell that no user wrote                               *)

ASSUME GeometryAssumption ==
    /\ {Direct, Fan, Levels, BS, NBlocks} \subseteq Nat \ {0}
    /\ Fan > 1
    /\ Positions \union Lengths \union Sizes \subseteq Nat
    /\ Junk \notin Values

(* The null pointer is 0.                                                  *)
Block == 1 .. NBlocks
Slot  == 0 .. Fan - 1
Cell  == 0 .. BS - 1

(* What the device holds in a block.                                       *)
FreeNode     == [kind |-> "free"]
PtrBlock(pb) == [kind |-> "ptrs", ptr |-> pb]
Data(cells)  == [kind |-> "data", cell |-> cells]

empty_ptr_block == [k \in Slot |-> 0]
NotCached       == [ptr |-> 0, pb |-> empty_ptr_block]
EmptyCache      == [l \in 1 .. Levels |-> NotCached]

NewInode(nlink) ==
    [direct |-> [k \in 0 .. Direct - 1 |-> 0], indir |-> [l \in 1 .. Levels |-> 0],
     size |-> 0, blocks |-> 0, nlink |-> nlink]

(***************************************************************************)
(* The state s of the file is a record:                                    *)
(*   free    the free blocks, the next one to be allocated first           *)
(*   dev     what the device holds in every block                          *)
(*   dino    the inode on the device; nlink is 0 if there is none          *)
(*   opened  the file is in opened_files; then also                        *)
(*   ino     the inode in memory,                                          *)
(*   cache   ptr_cache, and                                                *)
(*   dirty   whether a flush has something to write                        *)
(*   sane    no block was read as a pointer block that was not written as  *)
(*           one, and none freed twice; the model does not follow the      *)
(*           program any further                                           *)
(*   panicked  the program has ended in level_off                          *)
(* and, while a call is in progress,                                       *)
(*   ok, ptr, pos, out   no error yet, the block found, the position in    *)
(*           the file, the cells read so far.                              *)
(***************************************************************************)
VARIABLES
    f,        (* the file                                                  *)
    op,       (* the flush in progress                                     *)
    reply,    (* what the last read returned                               *)
    written,  (* auxiliary: positions written and not cut off since        *)
    synced,   (* auxiliary: those of them that a flush has made durable    *)
    crashes   (* auxiliary: the process may crash in this behaviour        *)

vars == <<f, op, reply, written, synced, crashes>>

Idle    == [level |-> 0, closing |-> FALSE]
NoReply == [at |-> 0, len |-> 0, out |-> <<>>]

-----------------------------------------------------------------------------
(***************************************************************************)
(* The shape of the tree.  Start(l), the sum of the blocks that the lower  *)
(* trees lead to, is the first block index of the tree of height l; l = 0  *)
(* stands for the direct pointers.                                         *)
(***************************************************************************)
Start(l) == IF l = 0 THEN 0 ELSE Direct + (Fan^l - Fan) \div (Fan - 1)

Capacity == Start(Levels + 1)

level_off(bi) ==
    LET level == CHOOSE l \in 0 .. Levels : bi >= Start(l) /\ bi < Start(l + 1)
    IN  [level |-> level, off |-> bi - Start(level)]

(* The slot that leads to offset off in a pointer block of height l.       *)
Index(off, l) == (off \div Fan^(l - 1)) % Fan

(* The heights below a tree of height level, from the top down to low.     *)
Down(level, low) == [i \in 1 .. level - low + 1 |-> level + 1 - i]

block_of_pos(pos)      == pos \div BS
next_block_of_pos(pos) == (pos + BS - 1) \div BS

-----------------------------------------------------------------------------
(***************************************************************************)
(* Blocks.  The free list is first in, last out, and every operation on it *)
(* reaches the device at once.                                             *)
(***************************************************************************)
(* Mutant: the block is counted before it is known that there is one.      *)
allocate_db_counted(s) ==
    LET t == [s EXCEPT !.ino.blocks = @ + 1]
    IN  IF s.free = <<>> THEN [t EXCEPT !.ok = FALSE, !.ptr = 0]
        ELSE [t EXCEPT !.free = Tail(@), !.ptr = Head(s.free)]

(* Sets ptr to a new block, or ok to FALSE when they are exhausted.        *)
allocate_db(s) ==
    IF s.free = <<>> THEN [s EXCEPT !.ok = FALSE, !.ptr = 0]
    ELSE [s EXCEPT !.free = Tail(@), !.ptr = Head(s.free), !.ino.blocks = @ + 1]

free_db(s, b) ==
    [s EXCEPT !.sane = @ /\ b \notin Range(s.free),
              !.free = <<b>> \o @, !.dev[b] = FreeNode, !.ino.blocks = @ - 1]

(* A pointer block as it is decoded from the device.                       *)
PtrsOn(s, b) == IF s.dev[b].kind = "ptrs" THEN s.dev[b].ptr ELSE empty_ptr_block

(* Mutant: the pointer block that loses its place is not written.          *)
WriteBackNothing(s, l) == s

WriteBack(s, l) ==
    IF s.cache[l].ptr = 0 THEN s
    ELSE [s EXCEPT !.dev[s.cache[l].ptr] = PtrBlock(s.cache[l].pb)]

CacheEmpty(s, l, b) == [s EXCEPT !.cache[l] = [ptr |-> b, pb |-> empty_ptr_block]]

CacheRead(s, l, b) ==
    [s EXCEPT !.cache[l] = [ptr |-> b, pb |-> PtrsOn(s, b)],
              !.sane = @ /\ s.dev[b].kind = "ptrs"]

(* load_ptrs, and load_ptrs_in_cache once it knows the pointer.            *)
load_ptrs(s, l, b) ==
    IF s.cache[l].ptr = b THEN s ELSE CacheRead(WriteBack(s, l), l, b)

-----------------------------------------------------------------------------
(***************************************************************************)
(* Finding the block with index bi, which ptr then designates; 0 for none. *)
(***************************************************************************)
locate(s, bi) ==
    LET at == level_off(bi)
        Follow(t, l) == [t EXCEPT !.ptr = t.cache[l].pb[Index(at.off, l)]]
        Descend(t, l) == IF t.ptr = 0 THEN t ELSE Follow(load_ptrs(t, l, t.ptr), l)
    IN  IF bi >= Capacity THEN [s EXCEPT !.ptr = 0, !.panicked = TRUE]
        ELSE IF at.level = 0 THEN [s EXCEPT !.ptr = s.ino.direct[at.off]]
        ELSE FoldLeft(Descend, [s EXCEPT !.ptr = s.ino.indir[at.level]],
                      Down(at.level, 1))

(* The root of the tree of height l, allocated if there is none.           *)
load_ptrs_alloc(s, l) ==
    LET Rooted(t) == IF ~t.ok THEN t
                     ELSE [CacheEmpty(t, l, t.ptr) EXCEPT !.ino.indir[l] = t.ptr]
    IN  IF s.ino.indir[l] # 0 THEN load_ptrs(s, l, s.ino.indir[l])
        ELSE Rooted(allocate_db(WriteBack(s, l)))

(* Mutant: the pointer block below is taken over from another one.         *)
load_ptrs_in_cache_keep(s, l, k) ==
    LET Linked(t) == IF ~t.ok THEN t
                     ELSE [t EXCEPT !.cache[l].pb[k] = t.ptr, !.cache[l - 1].ptr = t.ptr]
    IN  IF s.cache[l].pb[k] # 0 THEN load_ptrs(s, l - 1, s.cache[l].pb[k])
        ELSE Linked(allocate_db(s))

(* The pointer block in slot k of the one cached for height l.             *)
load_ptrs_in_cache_alloc(s, l, k) ==
    LET Below(t) == IF t.cache[l - 1].ptr = t.ptr THEN t
                    ELSE CacheEmpty(WriteBack(t, l - 1), l - 1, t.ptr)
        Linked(t) == IF ~t.ok THEN t ELSE Below([t EXCEPT !.cache[l].pb[k] = t.ptr])
    IN  IF s.cache[l].pb[k] # 0 THEN load_ptrs(s, l - 1, s.cache[l].pb[k])
        ELSE Linked(allocate_db(s))

locate_alloc(s, bi) ==
    LET at == level_off(bi)
        k  == Index(at.off, 1)
        SetDirect(t) == IF ~t.ok THEN t ELSE [t EXCEPT !.ino.direct[at.off] = t.ptr]
        SetLeaf(t) == IF ~t.ok THEN t ELSE [t EXCEPT !.cache[1].pb[k] = t.ptr]
        Leaf(t) == IF ~t.ok THEN t
                   ELSE IF t.cache[1].pb[k] # 0 THEN [t EXCEPT !.ptr = t.cache[1].pb[k]]
                   ELSE SetLeaf(allocate_db(t))
        Descend(t, l) == IF ~t.ok THEN t
                         ELSE load_ptrs_in_cache_alloc(t, l, Index(at.off, l))
    IN  IF bi >= Capacity THEN [s EXCEPT !.ok = FALSE, !.panicked = TRUE]
        ELSE IF at.level > 0
        THEN Leaf(FoldLeft(Descend, load_ptrs_alloc(s, at.level), Down(at.level, 2)))
        ELSE IF s.ino.direct[at.off] # 0 THEN [s EXCEPT !.ptr = s.ino.direct[at.off]]
        ELSE SetDirect(allocate_db(s))

-----------------------------------------------------------------------------
(***************************************************************************)
(* Freeing the blocks from index from on.                                  *)
(***************************************************************************)
RECURSIVE clear_pointers_rec(_, _, _, _, _)

(* Returns whether to clear b as well.  The pointer block is read from the *)
(* device, and the one with the cleared pointers is not written back.      *)
clear_pointers_rec(s, from, start, b, level) ==
    LET Child(t, k) ==
          LET p == PtrsOn(s, b)[k]
              r == clear_pointers_rec(t, from, start + k * Fan^(level - 1), p, level - 1)
          IN  IF r.clear THEN free_db(r.s, p) ELSE r.s
        Read == [s EXCEPT !.sane = @ /\ s.dev[b].kind = "ptrs"]
    IN  IF b = 0 THEN [s |-> s, clear |-> FALSE]
        ELSE [s |-> IF level = 0 THEN s
                    ELSE FoldLeft(Child, Read, [i \in 1 .. Fan |-> i - 1]),
              clear |-> from <= start]

(* Mutant: the trees are cleared from their first block on.                *)
free_file_db_whole(s, from) ==
    LET One(t, k) == IF t.ino.direct[k] = 0 THEN t
                     ELSE [free_db(t, t.ino.direct[k]) EXCEPT !.ino.direct[k] = 0]
        Freed(r, l, b) == IF r.clear THEN [free_db(r.s, b) EXCEPT !.ino.indir[l] = 0]
                          ELSE r.s
        Tree(t, l) == Freed(clear_pointers_rec(t, 0, Start(l), t.ino.indir[l], l),
                            l, t.ino.indir[l])
    IN  FoldLeft(Tree, IF from >= Direct THEN s
                       ELSE FoldLeft(One, s, [i \in 1 .. Direct |-> i - 1]),
                 [l \in 1 .. Levels |-> l])

(* Mutant: the root of a tree stays allocated.                             *)
free_file_db_below(s, from) ==
    LET One(t, k) == IF t.ino.direct[k] = 0 THEN t
                     ELSE [free_db(t, t.ino.direct[k]) EXCEPT !.ino.direct[k] = 0]
        Freed(r, l) == IF r.clear THEN [r.s EXCEPT !.ino.indir[l] = 0] ELSE r.s
        Tree(t, l) == Freed(clear_pointers_rec(t, from, Start(l), t.ino.indir[l], l), l)
    IN  FoldLeft(Tree, IF from >= Direct THEN s
                       ELSE FoldLeft(One, s, [i \in 1 .. Direct |-> i - 1]),
                 [l \in 1 .. Levels |-> l])

(* Below Direct, all direct blocks are freed, whatever from is.            *)
free_file_db(s, from) ==
    LET One(t, k) == IF t.ino.direct[k] = 0 THEN t
                     ELSE [free_db(t, t.ino.direct[k]) EXCEPT !.ino.direct[k] = 0]
        Freed(r, l, b) == IF r.clear THEN [free_db(r.s, b) EXCEPT !.ino.indir[l] = 0]
                          ELSE r.s
        Tree(t, l) == Freed(clear_pointers_rec(t, from, Start(l), t.ino.indir[l], l),
                            l, t.ino.indir[l])
    IN  FoldLeft(Tree, IF from >= Direct THEN s
                       ELSE FoldLeft(One, s, [i \in 1 .. Direct |-> i - 1]),
                 [l \in 1 .. Levels |-> l])

update_size(s, size) ==
    [IF s.ino.size > size THEN free_file_db(s, next_block_of_pos(size)) ELSE s
        EXCEPT !.ino.size = size, !.dirty = TRUE]

-----------------------------------------------------------------------------
(***************************************************************************)
(* Reading and writing up to left cells from pos on; each call handles one *)
(* block, and Handle::read and write repeat it.                            *)
(***************************************************************************)
CellsOf(block) == IF block.kind = "data" THEN block.cell ELSE [c \in Cell |-> Junk]

(* Mutant: a read goes on to the end of the block.                         *)
dk_read_block(s, left) ==
    LET bo == s.pos % BS
        n  == Min({BS - bo, left})
        Found(t) == IF t.ptr = 0 THEN t
                    ELSE [t EXCEPT !.pos = @ + n,
                            !.out = @ \o [i \in 1 .. n |-> CellsOf(t.dev[t.ptr])[bo + i - 1]]]
    IN  IF s.pos >= s.ino.size THEN s ELSE Found(locate(s, block_of_pos(s.pos)))

(* Reads nothing at the end of the file, and where no block is allocated.  *)
dk_read(s, left) ==
    LET bo == s.pos % BS
        n  == Min({BS - bo, s.ino.size - s.pos, left})
        Found(t) == IF t.ptr = 0 THEN t
                    ELSE [t EXCEPT !.pos = @ + n,
                            !.out = @ \o [i \in 1 .. n |-> CellsOf(t.dev[t.ptr])[bo + i - 1]]]
    IN  IF s.pos >= s.ino.size THEN s ELSE Found(locate(s, block_of_pos(s.pos)))

dk_write(s, left, v) ==
    LET bo == s.pos % BS
        n  == Min({BS - bo, left})
        Put(t) == [t EXCEPT !.pos = @ + n,
                     !.dev[t.ptr] = Data([c \in Cell |-> IF c \in bo .. bo + n - 1 THEN v
                                                         ELSE CellsOf(t.dev[t.ptr])[c]])]
        Grown(t) == IF t.pos > t.ino.size THEN update_size(t, t.pos) ELSE t
        Located(t) == IF t.ok THEN Grown(Put(t)) ELSE t
    IN  Located(locate_alloc([s EXCEPT !.dirty = TRUE], block_of_pos(s.pos)))

RECURSIVE read_to_end(_, _)

(* io.take(size).read_to_end: until nothing is read.                       *)
read_to_end(s, left) ==
    LET Again(t) == IF t.pos = s.pos THEN t ELSE read_to_end(t, left - (t.pos - s.pos))
    IN  IF left = 0 THEN s ELSE Again(dk_read(s, left))

RECURSIVE write_all(_, _, _)

write_all(s, left, v) ==
    LET Again(t) == IF t.ok THEN write_all(t, left - (t.pos - s.pos), v) ELSE t
    IN  IF left = 0 THEN s ELSE Again(dk_write(s, left, v))

-----------------------------------------------------------------------------
(***************************************************************************)
(* The steps.                                                              *)
(***************************************************************************)
(* The fields that a call in progress uses.                                *)
Called(s, pos) == [s EXCEPT !.ok = TRUE, !.ptr = 0, !.pos = pos, !.out = <<>>]
Returned(s) == Called(s, 0)

Closed(s) == [s EXCEPT !.opened = FALSE, !.ino = NewInode(0), !.cache = EmptyCache,
                       !.dirty = FALSE]

Init ==
    /\ f = Returned([free |-> [b \in 1 .. NBlocks |-> b],
                     dev |-> [b \in Block |-> FreeNode], dino |-> NewInode(1),
                     opened |-> FALSE, ino |-> NewInode(0), cache |-> EmptyCache,
                     dirty |-> FALSE, sane |-> TRUE, panicked |-> FALSE,
                     ok |-> TRUE, ptr |-> 0, pos |-> 0, out |-> <<>>])
    /\ op = Idle
    /\ reply = NoReply
    /\ written = {}
    /\ synced = {}
    /\ crashes \in BOOLEAN

(* The library is free to take the next call.                              *)
Ready == f.sane /\ ~f.panicked /\ op = Idle
Open  == Ready /\ f.opened

(* Handle::mknod and Donkey::open.                                         *)
Create ==
    /\ Ready /\ ~f.opened /\ f.dino.nlink = 0
    /\ f' = [f EXCEPT !.dino = NewInode(1)]
    /\ reply' = NoReply /\ UNCHANGED <<op, written, synced>>

OpenFile ==
    /\ Ready /\ ~f.opened /\ f.dino.nlink > 0
    /\ f' = [f EXCEPT !.opened = TRUE, !.ino = f.dino]
    /\ reply' = NoReply /\ UNCHANGED <<op, written, synced>>

(* Handle::read; evicted pointer blocks are written.                       *)
Read(pos, len) ==
    /\ Open
    /\ LET s == read_to_end(Called(f, pos), len)
       IN  f' = Returned(s) /\ reply' = [at |-> pos, len |-> len, out |-> s.out]
    /\ UNCHANGED <<op, written, synced>>

(* Handle::write.  When the blocks are exhausted, what was written before  *)
(* stays.                                                                  *)
Write(pos, len, v) ==
    /\ Open
    /\ LET s == write_all(Called(f, pos), len, v)
       IN  f' = Returned(s) /\ written' = written \union (pos .. s.pos - 1)
    /\ reply' = NoReply /\ UNCHANGED <<op, synced>>

(* Handle::setattr with a size.                                            *)
Truncate(size) ==
    /\ Open
    /\ f' = update_size(f, size)
    /\ written' = {p \in written : p < size}
    /\ synced' = synced \intersect written'
    /\ reply' = NoReply /\ UNCHANGED op

(* Donkey::unlink of the last name.                                        *)
Unlink ==
    /\ Open /\ f.ino.nlink > 0
    /\ f' = [f EXCEPT !.ino.nlink = 0, !.dirty = TRUE]
    /\ reply' = NoReply /\ UNCHANGED <<op, written, synced>>

NeedsFlush == f.dirty /\ f.ino.nlink > 0

(* flush: first the pointer blocks, lowest height first, then the inode.   *)
StartFlush(closing) ==
    /\ Open /\ NeedsFlush
    /\ op' = [level |-> 1, closing |-> closing]
    /\ reply' = NoReply /\ UNCHANGED <<f, written, synced>>

FlushPtrs ==
    /\ op.level \in 1 .. Levels
    /\ f' = WriteBack(f, op.level)
    /\ op' = [op EXCEPT !.level = @ + 1]
    /\ UNCHANGED <<reply, written, synced>>

(* Mutant: the inode is written first.                                     *)
FlushInodeFirst ==
    /\ op.level \in 1 .. Levels
    /\ f' = [IF op.closing THEN Closed(f) ELSE f EXCEPT !.dino = f.ino, !.dirty = FALSE]
    /\ op' = Idle /\ synced' = written
    /\ UNCHANGED <<reply, written>>

FlushInode ==
    /\ op.level > Levels
    /\ f' = [IF op.closing THEN Closed(f) ELSE f EXCEPT !.dino = f.ino, !.dirty = FALSE]
    /\ op' = Idle /\ synced' = written
    /\ UNCHANGED <<reply, written>>

(* close_files_in_list without anything to write: a file without a name is *)
(* destroyed.                                                              *)
CloseFile ==
    /\ Open /\ ~NeedsFlush
    /\ LET destroyed == [update_size(f, 0) EXCEPT !.dino = NewInode(0)]
       IN  f' = Closed(IF f.ino.nlink = 0 THEN destroyed ELSE f)
    /\ written' = IF f.ino.nlink = 0 THEN {} ELSE written
    /\ synced' = synced \intersect written'
    /\ reply' = NoReply /\ UNCHANGED op

(* The process ends at any moment; what the device holds remains.          *)
Crash ==
    /\ f.sane /\ f.opened
    /\ f' = Closed(f)
    /\ op' = Idle /\ reply' = NoReply
    /\ written' = synced /\ UNCHANGED synced

Grow ==
    \/ Create
    \/ OpenFile
    \/ \E pos \in Positions, len \in Lengths : Read(pos, len)
    \/ \E pos \in Positions, len \in Lengths, v \in Values : Write(pos, len, v)
    \/ \E size \in Sizes : f.ino.size <= size /\ Truncate(size)
    \/ \E closing \in BOOLEAN : StartFlush(closing)
    \/ FlushPtrs
    \/ FlushInode
    \/ f.ino.nlink > 0 /\ CloseFile

Shrink ==
    \/ \E size \in Sizes : f.ino.size > size /\ Truncate(size)
    \/ Unlink
    \/ f.ino.nlink = 0 /\ CloseFile

Spec == Init /\ [][(Grow \/ Shrink) /\ UNCHANGED crashes]_vars

(* With crashes, nothing is freed; without, a file is shrunk and removed   *)
(* while no pointer block is cached, as when it is opened for just that.   *)
ColdStep ==
    \/ (f.opened => f.ino.nlink > 0) /\ Grow
    \/ ~crashes /\ f.cache = EmptyCache /\ Shrink
    \/ crashes /\ Crash

ColdSpec == Init /\ [][ColdStep /\ UNCHANGED crashes]_vars

-----------------------------------------------------------------------------
(***************************************************************************)
(* Properties.                                                             *)
(***************************************************************************)
TypeOK ==
    /\ f.free \in Seq(Block)
    /\ \A b \in Block :
         f.dev[b] \in {FreeNode} \union [kind : {"ptrs"}, ptr : [Slot -> 0 .. NBlocks]]
                      \union [kind : {"data"}, cell : [Cell -> Values \union {Junk}]]
    /\ \A i \in {f.ino, f.dino} :
         /\ Range(i.direct) \union Range(i.indir) \subseteq 0 .. NBlocks
         /\ i.size \in Nat /\ i.blocks \in 0 .. NBlocks /\ i.nlink \in 0 .. 1
    /\ \A l \in 1 .. Levels : f.cache[l] \in [ptr : 0 .. NBlocks, pb : [Slot -> 0 .. NBlocks]]
    /\ {f.opened, f.dirty, f.ok, f.sane, f.panicked} \subseteq BOOLEAN
    /\ op \in [level : 0 .. Levels + 1, closing : BOOLEAN]
    /\ synced \subseteq written /\ written \subseteq Nat

(* The inode, and the pointers in block b of height l, as the program sees *)
(* them now.                                                               *)
Inode == IF f.opened THEN f.ino ELSE f.dino
Ptrs(l, b) == IF f.opened /\ f.cache[l].ptr = b THEN f.cache[l].pb ELSE PtrsOn(f, b)

RECURSIVE Below(_, _, _, _)

(* The pointer that b, of height l, leads to at height h on the way to     *)
(* offset off; 0 if there is none.                                         *)
Below(b, l, h, off) ==
    IF b = 0 \/ l = h THEN b ELSE Below(Ptrs(l, b)[Index(off, l)], l - 1, h, off)

(* The same from the inode to block index bi; h = 0 is the data block.     *)
At == [bi \in 0 .. Capacity - 1 |-> level_off(bi)]

PointerTo(bi, h) ==
    Below(IF At[bi].level = 0 THEN Inode.direct[At[bi].off] ELSE Inode.indir[At[bi].level],
          At[bi].level, h, At[bi].off)

(* The places of the tree that hold a pointer, with the pointer.           *)
Pointers ==
    LET On(bi) == {[level |-> At[bi].level, height |-> h, n |-> At[bi].off \div Fan^h,
                    ptr |-> PointerTo(bi, h)] : h \in 0 .. At[bi].level}
    IN  {x \in UNION {On(bi) : bi \in 0 .. Capacity - 1} : x.ptr # 0}

Owned == {x.ptr : x \in Pointers}

(* What a read finds at position p: a cell, or Junk where nothing is.      *)
Content(p) ==
    LET b == PointerTo(block_of_pos(p), 0)
    IN  IF b = 0 THEN Junk ELSE CellsOf(f.dev[b])[p % BS]

(* A block is a pointer block or a data block of one place in the tree, or *)
(* free, never two of these; pointer blocks above hold pointers.           *)
TreeSound ==
    LET owned == Pointers
        ptrs  == {x.ptr : x \in owned}
    IN  /\ f.sane
        /\ Cardinality(ptrs) = Cardinality(owned)
        /\ ptrs \intersect Range(f.free) = {}

(* allocate_from_free (lib.rs) allocates "from `FreeList` at `ptr`": a     *)
(* block on the free list holds the node that was written when it was      *)
(* freed, whatever was cached of it then and is written back afterwards.   *)
FreeIntact == \A b \in Range(f.free) : f.dev[b] = FreeNode

(* Without a crash, inode.blocks counts the blocks of the tree, those only *)
(* in ptr_cache included, and no block is lost: it is in the tree or free. *)
BlocksCounted ==
    ~crashes => /\ Inode.blocks = Cardinality(Owned)
                /\ Owned \union Range(f.free) = Block

(* What users wrote is found again, until they cut it off.                 *)
WrittenIsStored == \A p \in written : Content(p) \in Values

Abs == INSTANCE PlainFile WITH
    size <- Inode.size, nlink <- Inode.nlink, opened <- f.opened,
    cell <- [p \in written |-> Content(p)],
    disk <- [size |-> f.dino.size, nlink |-> f.dino.nlink, cells |-> synced]

(* Trees, ptr_cache, eviction and write-back are invisible: a file is a    *)
(* map from positions to values, a flush makes it durable, and a crash     *)
(* loses only what was written since.                                      *)
ImplementsPlainFile == Abs!Spec

(* test shrink_size (dkfs/tests/integration_test.rs): a file of size 0 has *)
(* no blocks.                                                              *)
EmptyHasNoBlocks == f.sane /\ f.opened /\ f.ino.size = 0 => f.ino.blocks = 0

(* destroy (file.rs) "Release used blocks": when the file is gone, all     *)
(* blocks are free.                                                        *)
DestroyReleases == f.sane /\ ~f.opened /\ f.dino.nlink = 0 => Range(f.free) = Block

(* clear_pointers_rec (file.rs) "returns whether to clear `ptr`": a        *)
(* pointer to a block that has been freed is cleared.                      *)
FreedIsCleared == f.sane => Owned \intersect Range(f.free) = {}

(* level_off (file.rs) "unreachable!()": no call asks for a block beyond   *)
(* the last tree.                                                          *)
LevelFound == ~f.panicked

(* test read_write (dkfs/tests/integration_test.rs): a read returns        *)
(* nothing only at the end of the file.                                    *)
NothingOnlyAtEnd == reply.len > 0 /\ reply.out = <<>> => reply.at >= Inode.size
=============================================================================
