------------------------------- MODULE Xattr --------------------------------
(***************************************************************************)
(* Extended attributes.  In memory they are a map in the DkFile; on the    *)
(* device they fill one data block, to which inode.xattr_ptr leads.  The   *)
(* block is allocated when the file is flushed, in most cases long after   *)
(* setxattr has reported success and during a call for another file that   *)
(* works off the close list.  So the close list is modelled as it is, a    *)
(* stack with duplicates that a failing call leaves half worked off.       *)
(*                                                                         *)
(* Methods are operators from state to state, as in Donkey and Handle; an  *)
(* action is a handler of mtdk.  left counts the device writes until the   *)
(* process dies, so that a crash falls between any two writes of a call.   *)
(*                                                                         *)
(* Abstractions: one directory, which never fails, holds the names; files  *)
(* have no data; a key takes one byte and a value is as long as its number *)
(* says.  The device does not fail, but its data blocks run out.           *)
(***************************************************************************)
EXTENDS Integers, SequencesExt, FiniteSetsExt

CONSTANTS
    Ino,         (* inodes of regular files                                *)
    NBlocks,     (* data blocks of the device                              *)
    Room,        (* bytes in a block                                       *)
    Keys,        (* names of attributes                                    *)
    Values,      (* their values, by length                                *)
    Buffers,     (* sizes of the buffers in which callers want a reply     *)
    ParentOpen,  (* whether the names' directory may be, or may not be,    *)
                 (* in opened_dirs when a call asks for it                 *)
    MaxLinks,    (* bound of the names of a file                           *)
    MaxHandles,  (* bound of the open handles of a file                    *)
    MaxClosing,  (* bound of the length of close_file_list                 *)
    MaxWrites,   (* bound of the device writes of a call before a crash    *)
    Nil          (* not in opened_files                                    *)

ASSUME XattrAssumption ==
    /\ {NBlocks, MaxLinks, MaxHandles, MaxClosing, MaxWrites} \subseteq Nat \ {0}
    /\ Values \union Buffers \union {Room} \subseteq Nat
    /\ ParentOpen \subseteq BOOLEAN

Block  == 1 .. NBlocks
Attrs  == UNION {[S -> Values] : S \in SUBSET Keys}
NoAttrs == [k \in {} |-> 0]

(* What the device holds in a block.                                       *)
FreeNode      == [kind |-> "free"]
AttrBlock(m)  == [kind |-> "attrs", attrs |-> m]
Torn          == [kind |-> "torn"]
BlockContent  == {FreeNode, Torn} \union {AttrBlock(m) : m \in Attrs}

(* The encoding of the map m, the empty key at its end included.           *)
Encoded(m) == 1 + MapThenSumSet(LAMBDA k : 1 + m[k], DOMAIN m)

(* An inode on the device, and one in opened_files.                        *)
OnDisk == [nlink : 0 .. MaxLinks, xattr_ptr : 0 .. NBlocks, blocks : Nat]
Opened == [nlink : 0 .. MaxLinks, xattr_ptr : 0 .. NBlocks, blocks : Nat,
           xattr : Attrs, dirty : BOOLEAN]

ASSUME NilAssumption == Nil \notin Opened

NewInode(nlink) == [nlink |-> nlink, xattr_ptr |-> 0, blocks |-> 0]
NoInode         == NewInode(0)

(***************************************************************************)
(* The state x is a record:                                                *)
(*   free, dfree  the free blocks as the super block in memory and the one *)
(*                on the device have them, the next to be allocated first  *)
(*   blk, inode   the data blocks and the inode table on the device        *)
(*   entry        how many names the directory has for an inode            *)
(*   opened       opened_files: an inode, its attributes and dirty, or Nil *)
(*   fh           the handles that the kernel holds                        *)
(*   closing      close_file_list                                          *)
(*   left         device writes until the process dies, or Lives           *)
(*   ok           the call in progress has not failed                      *)
(*   failed       auxiliary: a call has failed since the mount             *)
(*   lossy        auxiliary: a file's links no longer count its names,     *)
(*                because link or unlink failed after it had changed the   *)
(*                directory, or because a mount in which a call had failed *)
(*                ended with links that were not written; the model does   *)
(*                not follow the program any further                       *)
(***************************************************************************)
VARIABLES
    x,
    reply,    (* what the last call returned                               *)
    crashes   (* auxiliary: the process may crash in this behaviour        *)

vars == <<x, reply, crashes>>

(* Replies.                                                                *)
Ok        == [kind |-> "ok"]
Error     == [kind |-> "error"]
ENOATTR   == [kind |-> "noattr"]
ERANGE    == [kind |-> "range"]
Size(n)   == [kind |-> "size", size |-> n]
Value(v)  == [kind |-> "value", value |-> v]
Names(ks) == [kind |-> "names", names |-> ks]

-----------------------------------------------------------------------------
(***************************************************************************)
(* The device.                                                             *)
(***************************************************************************)
(* The number of writes left to a call in which the process does not die:  *)
(* counted down, it never gets to zero.                                    *)
Lives == -1

(* Device t comes after s by one write, unless the process dies before.    *)
Write(s, t) == IF s.left = 0 THEN s ELSE [t EXCEPT !.left = s.left - 1]

flush_sb(s) == Write(s, [s EXCEPT !.dfree = s.free])

write_inode(s, i) ==
    LET f == s.opened[i]
    IN  Write(s, [s EXCEPT !.inode[i] = [nlink |-> f.nlink, xattr_ptr |-> f.xattr_ptr,
                                         blocks |-> f.blocks]])

(* The node of the free list overwrites what the block held.               *)
free_db(s, b) ==
    LET n == Write(s, [s EXCEPT !.blk[b] = FreeNode])
    IN  flush_sb([n EXCEPT !.free = <<b>> \o @])

(* allocate_db for the attributes of i; Exhausted if there is none.        *)
allocate_xattr(s, i) ==
    IF s.free = <<>>
    THEN [s EXCEPT !.ok = FALSE]
    ELSE flush_sb([s EXCEPT !.free = Tail(@), !.opened[i].xattr_ptr = Head(s.free),
                            !.opened[i].blocks = @ + 1])

(* write of RefData has no length limit: what does not fit the block is    *)
(* written over the next one, and only the end of the device is checked.   *)
store_xattr(s, i) ==
    LET b == s.opened[i].xattr_ptr
        m == s.opened[i].xattr
    IN  IF Encoded(m) <= Room
        THEN Write(s, [s EXCEPT !.blk[b] = AttrBlock(m)])
        ELSE IF b = NBlocks
             THEN [s EXCEPT !.ok = FALSE]
             ELSE Write(s, [s EXCEPT !.blk[b] = Torn, !.blk[b + 1] = Torn])

(* Mutant: the pointer is cleared before its block is freed.               *)
write_xattr_null(s, i) ==
    LET f == s.opened[i]
        Freed(t) == free_db(t, t.opened[i].xattr_ptr)
        Stored(t) == IF t.ok THEN store_xattr(t, i) ELSE t
    IN  IF f.xattr = NoAttrs
        THEN IF f.xattr_ptr = 0 THEN s ELSE Freed([s EXCEPT !.opened[i].xattr_ptr = 0])
        ELSE Stored(IF f.xattr_ptr = 0 THEN allocate_xattr(s, i) ELSE s)

(* The block is freed with the last attribute and allocated with the first *)
(* one.  blocks is only counted up.                                        *)
write_xattr(s, i) ==
    LET f == s.opened[i]
        Stored(t) == IF t.ok THEN store_xattr(t, i) ELSE t
    IN  IF f.xattr = NoAttrs
        THEN IF f.xattr_ptr = 0 THEN s
             ELSE [free_db(s, f.xattr_ptr) EXCEPT !.opened[i].xattr_ptr = 0]
        ELSE Stored(IF f.xattr_ptr = 0 THEN allocate_xattr(s, i) ELSE s)

(* Mutant: the inode is written before it has the pointer.                 *)
flush_inode_first(s, i) ==
    LET Written(t) == IF t.ok THEN [t EXCEPT !.opened[i].dirty = FALSE] ELSE t
    IN  IF ~s.opened[i].dirty \/ s.opened[i].nlink = 0 THEN s
        ELSE Written(write_xattr(write_inode(s, i), i))

(* DkFileIO::flush; an error leaves the file dirty.                        *)
flush(s, i) ==
    LET Written(t) == IF t.ok THEN [write_inode(t, i) EXCEPT !.opened[i].dirty = FALSE]
                      ELSE t
    IN  IF ~s.opened[i].dirty \/ s.opened[i].nlink = 0 THEN s
        ELSE Written(write_xattr(s, i))

(* Mutant: the attributes' block stays with the inode that is no more.     *)
destroy_keep(s, i) == Write(s, [s EXCEPT !.inode[i] = NoInode])

(* destroy: free_db, then free_inode writes its node over the inode.       *)
destroy(s, i) ==
    LET b == s.opened[i].xattr_ptr
        Freed(t) == flush_sb(Write(t, [t EXCEPT !.inode[i] = NoInode]))
    IN  Freed(IF b = 0 THEN s ELSE free_db(s, b))

-----------------------------------------------------------------------------
(***************************************************************************)
(* opened_files and the close list.                                        *)
(***************************************************************************)
(* Mutant: an inode is dropped from memory though its flush failed.        *)
close_anyway(s, i) ==
    LET Gone(t) == [IF t.opened[i].nlink = 0 THEN destroy(t, i) ELSE t
                        EXCEPT !.opened[i] = Nil]
    IN  IF s.opened[i] = Nil \/ s.fh[i] > 0 THEN s ELSE Gone(flush(s, i))

(* One turn of close_files_in_list, for the inode i it has popped.         *)
close(s, i) ==
    LET Gone(t) == [IF t.opened[i].nlink = 0 THEN destroy(t, i) ELSE t
                        EXCEPT !.opened[i] = Nil]
        Flushed(t) == IF t.ok THEN Gone(t) ELSE t
    IN  IF s.opened[i] = Nil \/ s.fh[i] > 0 THEN s ELSE Flushed(flush(s, i))

(* The last inode first; the first error ends the loop, with the inode at  *)
(* fault off the list.                                                     *)
close_last(i, t) == IF t.ok THEN close([t EXCEPT !.closing = Front(@)], i) ELSE t

close_files_in_list(s) == FoldRight(close_last, s.closing, s)

(* read_inode and read_xattr; a block that holds no attributes does not    *)
(* decode.                                                                 *)
load(s, i) ==
    LET n == s.inode[i]
        c == IF n.xattr_ptr = 0 THEN AttrBlock(NoAttrs) ELSE s.blk[n.xattr_ptr]
    IN  IF c.kind = "attrs"
        THEN [s EXCEPT !.opened[i] = [nlink |-> n.nlink, xattr_ptr |-> n.xattr_ptr,
                                      blocks |-> n.blocks, xattr |-> c.attrs,
                                      dirty |-> FALSE]]
        ELSE [s EXCEPT !.ok = FALSE]

(* Donkey::open.                                                           *)
open(s, i) ==
    LET Loaded(t) == IF t.ok /\ t.opened[i] = Nil THEN load(t, i) ELSE t
    IN  Loaded(close_files_in_list(s))

(* The handle that open returned goes out of scope.                        *)
dropped(s, i) == [s EXCEPT !.closing = Append(@, i)]

(* open_dir for the directory of the names: unless it is in opened_dirs,   *)
(* its inode is opened.                                                    *)
open_dir(s, there) == IF there THEN s ELSE close_files_in_list(s)

(* Donkey::link and Donkey::unlink, the handle dropped at their end.  The  *)
(* directory was changed before, and stays changed if open fails.          *)
ChangeNlink(s, i, n) ==
    LET Changed(t) == [t EXCEPT !.opened[i].nlink = @ + n, !.opened[i].dirty = TRUE]
        Done(t) == IF t.ok THEN dropped(Changed(t), i) ELSE [t EXCEPT !.lossy = TRUE]
    IN  Done(open(s, i))

(* Mutant: a link that is not marked as a change.                          *)
link_clean(s, i) ==
    LET Done(t) == IF t.ok THEN dropped([t EXCEPT !.opened[i].nlink = @ + 1], i)
                   ELSE [t EXCEPT !.lossy = TRUE]
    IN  Done(open([s EXCEPT !.entry[i] = @ + 1], i))

link(s, i)   == ChangeNlink([s EXCEPT !.entry[i] = @ + 1], i, 1)
unlink(s, i) == ChangeNlink([s EXCEPT !.entry[i] = @ - 1], i, -1)

(* Donkey::mknod writes an inode without links.                            *)
mknod(s, i) == Write(s, [s EXCEPT !.inode[i] = NewInode(0)])

(* Handle::getattr at the end of link and mknod.                           *)
getattr(s, i) ==
    LET Done(t) == IF t.ok THEN dropped(t, i) ELSE t
    IN  Done(open(s, i))

-----------------------------------------------------------------------------
(***************************************************************************)
(* Calls.  A file is in use when the kernel can name it.                   *)
(***************************************************************************)
InUse == {i \in Ino : x.entry[i] > 0 \/ x.fh[i] > 0}

(* A process without memory of the one before.                             *)
Restarted(s) ==
    [s EXCEPT !.free = s.dfree, !.opened = [i \in Ino |-> Nil],
              !.fh = [i \in Ino |-> 0], !.closing = <<>>,
              !.left = Lives, !.ok = TRUE, !.failed = FALSE]

Init ==
    /\ x = [free |-> [b \in Block |-> b], dfree |-> [b \in Block |-> b],
            blk |-> [b \in Block |-> FreeNode],
            inode |-> [i \in Ino |-> NewInode(1)],
            entry |-> [i \in Ino |-> 1],
            opened |-> [i \in Ino |-> Nil], fh |-> [i \in Ino |-> 0], closing |-> <<>>,
            left |-> Lives, ok |-> TRUE, failed |-> FALSE,
            lossy |-> FALSE]
    /\ reply = Ok
    /\ crashes \in BOOLEAN

(* How many device writes are left to a call.                              *)
Writes == {Lives} \union IF crashes THEN 0 .. MaxWrites ELSE {}

Begin(n) == [x EXCEPT !.left = n]

(* The call that led to state s replies r, or fails, or is cut off.        *)
Ended(s, r) ==
    /\ x' = IF s.left = 0
            THEN Restarted(s)
            ELSE [s EXCEPT !.left = Lives, !.ok = TRUE, !.failed = @ \/ ~s.ok]
    /\ reply' = IF s.ok /\ s.left # 0 THEN r ELSE Error
    /\ Len(x'.closing) <= MaxClosing
    /\ UNCHANGED crashes

(* What getxattr and listxattr answer, when the data have length len, to a *)
(* buffer of the given size: one that is larger gets ERANGE.               *)
Answer(data, len, size) ==
    IF size = 0 THEN Size(len) ELSE IF size > len THEN ERANGE ELSE data

(* The map m with the value v for k, and without k.                        *)
With(m, k, v) == [h \in DOMAIN m \union {k} |-> IF h = k THEN v ELSE m[h]]
Without(m, k) == [h \in DOMAIN m \ {k} |-> m[h]]

(* Mutant: a change that no flush will write.                              *)
setxattr_clean(s, i, k, v) == [s EXCEPT !.opened[i].xattr = With(@, k, v)]

setxattr(s, i, k, v) ==
    [s EXCEPT !.opened[i].xattr = With(@, k, v), !.opened[i].dirty = TRUE]

removexattr(s, i, k) ==
    [s EXCEPT !.opened[i].xattr = Without(@, k), !.opened[i].dirty = TRUE]

Setxattr(i, k, v, n) ==
    LET Done(t) == IF t.ok THEN dropped(setxattr(t, i, k, v), i) ELSE t
    IN  Ended(Done(open(Begin(n), i)), Ok)

Removexattr(i, k, n) ==
    LET Done(t) == IF t.ok THEN dropped(removexattr(t, i, k), i) ELSE t
    IN  Ended(Done(open(Begin(n), i)), Ok)

Getxattr(i, k, size, n) ==
    LET Found(m) == IF k \in DOMAIN m THEN Answer(Value(m[k]), m[k], size) ELSE ENOATTR
        Done(t) == IF t.ok THEN Ended(dropped(t, i), Found(t.opened[i].xattr))
                   ELSE Ended(t, Error)
    IN  Done(open(Begin(n), i))

Listxattr(i, size, n) ==
    LET Found(ks) == Answer(Names(ks), 2 * Cardinality(ks), size)
        Done(t) == IF t.ok THEN Ended(dropped(t, i), Found(DOMAIN t.opened[i].xattr))
                   ELSE Ended(t, Error)
    IN  Done(open(Begin(n), i))

(* open for a user other than root clears the set-id bits, and so makes    *)
(* the file dirty; the handle is kept for the kernel.                      *)
Open(i, root, n) ==
    LET Done(t) == IF t.ok THEN [t EXCEPT !.fh[i] = @ + 1, !.opened[i].dirty = @ \/ ~root]
                   ELSE t
    IN  /\ x.fh[i] < MaxHandles
        /\ Ended(Done(open(Begin(n), i)), Ok)

(* flush and fsync; the clone of the handle goes out of scope.             *)
Flush(i, n) ==
    /\ x.fh[i] > 0
    /\ Ended(dropped(flush(Begin(n), i), i), Ok)

(* release: the handle is dropped, then apply_releases.                    *)
Release(i, n) ==
    /\ x.fh[i] > 0
    /\ Ended(close_files_in_list(dropped([Begin(n) EXCEPT !.fh[i] = @ - 1], i)), Ok)

Mknod(i, there) ==
    LET Linked(t) == IF t.ok THEN getattr(t, i) ELSE t
        Found(t)  == IF t.ok THEN Linked(link(mknod(t, i), i)) ELSE t
    IN  /\ x.inode[i] = NoInode /\ x.opened[i] = Nil /\ i \notin InUse
        /\ Ended(Found(open_dir(Begin(Lives), there)), Ok)

Link(i, there) ==
    LET Linked(t) == IF t.ok THEN getattr(t, i) ELSE t
        Found(t)  == IF t.ok THEN Linked(link(t, i)) ELSE t
    IN  /\ x.entry[i] \in 1 .. MaxLinks - 1
        /\ Ended(Found(open_dir(Begin(Lives), there)), Ok)

Unlink(i, there) ==
    LET Found(t) == IF t.ok THEN unlink(t, i) ELSE t
    IN  /\ x.entry[i] > 0
        /\ Ended(Found(open_dir(Begin(Lives), there)), Ok)

Unwritten(s) == {i \in Ino : s.opened[i] # Nil /\ s.opened[i].nlink # s.inode[i].nlink}

(* Drop of Donkey, with nothing open, and the next mount.                  *)
Unmount(n) ==
    LET Dropped(t) ==
          /\ x' = [Restarted(t) EXCEPT !.lossy = (t.failed \/ ~t.ok) /\ Unwritten(t) # {}]
          /\ reply' = IF t.ok /\ t.left # 0 THEN Ok ELSE Error
    IN  /\ \A i \in Ino : x.fh[i] = 0
        /\ Dropped(close_files_in_list(Begin(n)))
        /\ UNCHANGED crashes

AttributeStep(i, n) ==
    \/ \E k \in Keys, v \in Values : Setxattr(i, k, v, n)
    \/ \E k \in Keys, size \in Buffers : Getxattr(i, k, size, n)
    \/ \E size \in Buffers : Listxattr(i, size, n)
    \/ \E root \in BOOLEAN : Open(i, root, n)
    \/ Flush(i, n)
    \/ Release(i, n)

(* The attributes of i as users see them, and as the device holds them.    *)
Saved == [i \in Ino |->
            LET b == x.inode[i].xattr_ptr
            IN  IF b # 0 /\ x.blk[b].kind = "attrs" THEN x.blk[b].attrs ELSE NoAttrs]
Seen  == [i \in Ino |-> IF x.opened[i] = Nil THEN Saved[i] ELSE x.opened[i].xattr]

(* With crashes, no block is freed: the last attribute is not removed and  *)
(* no file either.                                                         *)
Step ==
    \/ \E i \in InUse, n \in Writes : AttributeStep(i, n)
    \/ \E i \in InUse, k \in Keys, n \in Writes :
         (crashes => DOMAIN Seen[i] # {k}) /\ Removexattr(i, k, n)
    \/ \E i \in Ino, there \in ParentOpen : ~crashes /\ Mknod(i, there)
    \/ \E i \in InUse, there \in ParentOpen : ~crashes /\ Link(i, there)
    \/ \E i \in InUse, there \in ParentOpen : ~crashes /\ Unlink(i, there)
    \/ \E n \in Writes : Unmount(n)

Next == ~x.lossy /\ Step

Spec == Init /\ [][Next]_vars

-----------------------------------------------------------------------------
(***************************************************************************)
(* Properties.                                                             *)
(***************************************************************************)
TypeOK ==
    /\ x.free \in Seq(Block) /\ x.dfree \in Seq(Block)
    /\ x.blk \in [Block -> BlockContent]
    /\ x.inode \in [Ino -> OnDisk]
    /\ x.entry \in [Ino -> 0 .. MaxLinks]
    /\ \A i \in Ino : x.opened[i] = Nil \/ x.opened[i] \in Opened
    /\ x.fh \in [Ino -> 0 .. MaxHandles]
    /\ x.closing \in Seq(Ino)
    /\ x.left = Lives /\ x.ok /\ {x.failed, x.lossy} \subseteq BOOLEAN
    /\ crashes \in BOOLEAN

(* The inode as the program sees it now.                                   *)
Inode(i) == IF x.opened[i] = Nil THEN x.inode[i] ELSE x.opened[i]
Holders  == {i \in Ino : Inode(i).xattr_ptr # 0}
Held     == {Inode(i).xattr_ptr : i \in Holders}

(* A block holds the attributes of one file or is free, never two of       *)
(* these, although flushes fail on a full disk and the process may die     *)
(* between the allocation and the inode; and without a crash none is lost. *)
BlocksOwned ==
    /\ Cardinality(Held) = Cardinality(Holders)
    /\ Held \intersect Range(x.free) = {}
    /\ IsInjective(x.free)
    /\ ~crashes => Held \union Range(x.free) = Block

(* By how much the link count of i is off.                                 *)
Surplus(i) == Inode(i).nlink - x.entry[i]

(* A link count goes wrong in two ways only, both of which the program     *)
(* reports: a call fails after it has changed the directory and leaves the *)
(* count as it was, or the mount ends after a failure, and a count that    *)
(* was not written is lost.  No other step parts the two, whichever other  *)
(* files could not be closed before it or during it.                       *)
Follows ==
    \A i \in Ino : Surplus(i)' # Surplus(i) =>
      \/ reply' = Error /\ x'.entry[i] # x.entry[i] /\ Inode(i)'.nlink = Inode(i).nlink
      \/ /\ x.failed \/ reply' = Error
         /\ x'.entry = x.entry /\ x'.opened = [j \in Ino |-> Nil]

LinksFollowNames == [][Follows]_vars

(* integration_test.rs, "assert_eq!(stat.nlink, 1);" for a file with one   *)
(* name: the link count is the number of names.                            *)
NlinkCountsNames == \A i \in Ino : Inode(i).nlink = x.entry[i]

Abs == INSTANCE Attributes WITH
    attrs <- Seen, saved <- Saved, links <- x.entry, handles <- x.fh, failed <- x.failed

(* The close list, the blocks and their delayed allocation are invisible:  *)
(* see Attributes for what users may rely on.                              *)
ImplementsAttributes == Abs!Spec

(* mtdk's message "Failed to close some files: {}. This may lead to        *)
(* filesystem corruption!" (dkfs/src/lib.rs, Drop): without it nothing is  *)
(* lost.                                                                   *)
LostOnlyWithMessage ==
    [][x'.opened = [i \in Ino |-> Nil] /\ reply' = Ok
         => \A i \in Ino : x.entry[i] > 0 => Saved'[i] = Seen[i]]_vars

(* inode.blocks counts the blocks that the file has (st_blocks).           *)
BlocksCounted == \A i \in Ino : Inode(i).blocks = IF Inode(i).xattr_ptr = 0 THEN 0 ELSE 1

(* main.rs, "if size > v.len()": a buffer that is large enough is filled.  *)
EnoughIsAnswered ==
    [][\A i \in InUse, k \in Keys, size \in Buffers, n \in Writes :
         Getxattr(i, k, size, n) /\ size > 0 /\ k \in DOMAIN Seen[i] /\ size >= Seen[i][k]
           => reply' # ERANGE]_vars
=============================================================================
