------------------------------- MODULE Donkey -------------------------------
(***************************************************************************)
(* struct Donkey of dkfs/src/lib.rs with the DkFile, DkDir and handle      *)
(* types of dkfs/src/file.rs: inodes and directories that are opened       *)
(* through a cache, counted by the handles on them (Rc::strong_count), and *)
(* written back and dropped when a "close list", filled by the drop of a   *)
(* handle, is worked off at the next open.                                 *)
(*                                                                         *)
(* The library is single-threaded, so every method is an operator from the *)
(* state before the call to the state after it; module DonkeyFuse turns    *)
(* them into steps.                                                        *)
(*                                                                         *)
(* What is abstracted: an inode is either a directory or not, of its mode  *)
(* only the set-user/group-id bits are kept (suid), times and ids are left *)
(* out; content occupies no block or one (size 0 or 1), without what the   *)
(* block of a file holds; the block tree and extended attributes are left  *)
(* out.  The free inodes are a set from which an allocation may take any,  *)
(* which is what module FreeListProofs shows the free list to implement.   *)
(***************************************************************************)
EXTENDS Integers, SequencesExt, FiniteSetsExt

CONSTANTS
    Ino,     (* inode numbers, one for each slot of the inode table        *)
    Root,    (* ROOT_INODE                                                 *)
    Blocks,  (* number of data blocks                                      *)
    Names,   (* names other than "." and ".."                              *)
    Nil      (* no inode, not in the cache                                 *)

Name == Names \union {".", ".."}

ASSUME InoAssumption    == Root \in Ino /\ IsFiniteSet(Ino)
ASSUME BlocksAssumption == Blocks \in Nat
ASSUME NamesAssumption  == Names \cap {".", ".."} = {} /\ IsFiniteSet(Names)

(* A directory's OrdMap from names to inode numbers; Nil where absent.     *)
Entries   == [Name -> Ino \union {Nil}]
NoEntries == [n \in Name |-> Nil]
Count(ents) == Cardinality({n \in Name : ents[n] # Nil})

(* A slot on the free list holds a free-list node, not an inode.           *)
FreeSlot == [kind |-> "free", nlink |-> 0, suid |-> FALSE, size |-> 0]

(* A slot of the inode table, and an inode and a directory in the caches.  *)
DiskInode == [kind : {"free", "file", "dir"}, nlink : Nat, suid : BOOLEAN, size : 0 .. 1]
DkFile == [kind : {"file", "dir"}, nlink : Nat, suid : BOOLEAN, size : 0 .. 1, dirty : BOOLEAN]
DkDir  == [ents : Entries, dirty : BOOLEAN]

ASSUME NilAssumption ==
    Nil \notin Ino /\ Nil \notin BOOLEAN /\ Nil # 0 /\ Nil \notin DkFile /\ Nil \notin DkDir

(***************************************************************************)
(* The state s of a mounted file system is a record:                       *)
(*   ifree   the free inodes                                               *)
(*   bfree   the number of free data blocks                                *)
(*   inode   the inode table on the device                                 *)
(*   data    the directory content on the device                           *)
(*   files   opened_files: a cached DkFile, or Nil                         *)
(*   dirs    opened_dirs: a cached DkDir, or Nil                           *)
(*   closeF  the inodes on close_file_list                                 *)
(*   closeD  close_dir_list, without the earlier of several occurrences of *)
(*           an inode: by the time these are popped the directory is       *)
(*           closed or has a handle, and nothing happens                   *)
(*   fh, dh  the number of DkFileHandles and DkDirHandles that exist (fh   *)
(*           without the one inside each DkDir)                            *)
(***************************************************************************)
Unmounted(s) ==
    [s EXCEPT !.files = [i \in Ino |-> Nil], !.dirs = [i \in Ino |-> Nil],
              !.closeF = {}, !.closeD = <<>>,
              !.fh = [i \in Ino |-> 0], !.dh = [i \in Ino |-> 0]]

PushOn(list, i) ==
    LET k == CHOOSE k \in DOMAIN list : list[k] = i
    IN  Append(IF i \in Range(list) THEN RemoveAt(list, k) ELSE list, i)

-----------------------------------------------------------------------------
(***************************************************************************)
(* Flushing and closing.                                                   *)
(***************************************************************************)
(* A DkFile is written when it is dirty and still linked.                  *)
Written(f) == [kind |-> f.kind, nlink |-> f.nlink, suid |-> f.suid, size |-> f.size]

FlushFile(s, i) ==
    IF s.files[i].dirty /\ s.files[i].nlink > 0
    THEN [s EXCEPT !.inode[i] = Written(s.files[i]), !.files[i].dirty = FALSE]
    ELSE s

(* Mutant: shrinking keeps the block.                                      *)
UpdateSizeOnly(s, i, size) ==
    [s EXCEPT !.files[i].size = size, !.files[i].dirty = TRUE]

(* update_size: shrinking gives the block back.                            *)
UpdateSize(s, i, size) ==
    [s EXCEPT !.bfree = @ + (IF s.files[i].size > size
                             THEN s.files[i].size - size ELSE 0),
              !.files[i].size = size,
              !.files[i].dirty = TRUE]

FreeInode(s, i) ==
    [s EXCEPT !.ifree = @ \union {i}, !.inode[i] = FreeSlot]

Destroy(s, i) == FreeInode(UpdateSize(s, i, 0), i)

(* Rc::strong_count beyond the reference in the map itself.                *)
FileRefs(s, i) == s.fh[i] + (IF s.dirs[i] # Nil THEN 1 ELSE 0)
DirRefs(s, i)  == s.dh[i]

DestroyUnlinked(s, i) == IF s.files[i].nlink = 0 THEN Destroy(s, i) ELSE s

CloseFile(i, s) ==
    IF s.files[i] = Nil \/ FileRefs(s, i) > 0
    THEN s
    ELSE [DestroyUnlinked(FlushFile(s, i), i) EXCEPT !.files[i] = Nil]

(* Closing one file does not affect another, so the order is immaterial.   *)
CloseFilesInList(s) ==
    FoldSet(CloseFile, [s EXCEPT !.closeF = {}], s.closeF)

(***************************************************************************)
(* dk_write of content that fits a block.  The block is allocated at the   *)
(* first write; without one left the write fails, having marked the file   *)
(* dirty.                                                                  *)
(***************************************************************************)
CanWrite(s, i) == s.files[i].size > 0 \/ s.bfree > 0

(* Mutant: a block is allocated for every write.                           *)
WriteNewBlock(s, i) ==
    IF CanWrite(s, i)
    THEN [s EXCEPT !.bfree = @ - 1, !.files[i].size = 1, !.files[i].dirty = TRUE]
    ELSE [s EXCEPT !.files[i].dirty = TRUE]

WriteBlock(s, i) ==
    IF CanWrite(s, i)
    THEN [s EXCEPT !.bfree = @ - (1 - s.files[i].size),
                   !.files[i].size = 1,
                   !.files[i].dirty = TRUE]
    ELSE [s EXCEPT !.files[i].dirty = TRUE]

(***************************************************************************)
(* DkDir::flush writes all entries through a BufWriter.  The entries only  *)
(* reach dk_write when the writer is dropped, which ignores errors, so the *)
(* flag is cleared whether or not they were written.                       *)
(***************************************************************************)
FlushDir(s, i) ==
    IF s.dirs[i].dirty
    THEN [WriteBlock(s, i) EXCEPT
            !.data[i] = IF CanWrite(s, i) THEN s.dirs[i].ents ELSE @,
            !.dirs[i].dirty = FALSE]
    ELSE s

(* Mutant: the file handle inside the DkDir does not reach the close list. *)
CloseDirOnly(i, s) ==
    IF s.dirs[i] = Nil \/ DirRefs(s, i) > 0
    THEN s
    ELSE [FlushDir(s, i) EXCEPT !.dirs[i] = Nil]

(* Dropping the DkDir drops the file handle inside it.                     *)
CloseDir(i, s) ==
    IF s.dirs[i] = Nil \/ DirRefs(s, i) > 0
    THEN s
    ELSE [FlushDir(s, i) EXCEPT !.dirs[i] = Nil, !.closeF = @ \union {i}]

CloseDirsInList(s) ==
    FoldRight(CloseDir, s.closeD, [s EXCEPT !.closeD = <<>>])

-----------------------------------------------------------------------------
(***************************************************************************)
(* Handles.                                                                *)
(***************************************************************************)
DropFileHandle(s, i) == [s EXCEPT !.fh[i] = @ - 1, !.closeF = @ \union {i}]
DropDirHandle(s, i)  == [s EXCEPT !.dh[i] = @ - 1, !.closeD = PushOn(@, i)]

CloneFile(s, i) == [s EXCEPT !.fh[i] = @ + 1]
CloneDir(s, i)  == [s EXCEPT !.dh[i] = @ + 1]

(* Donkey::open; the new handle is counted in fh.                          *)
Cached(n) ==
    [kind |-> n.kind, nlink |-> n.nlink, suid |-> n.suid, size |-> n.size, dirty |-> FALSE]

LoadFile(s, i) ==
    IF s.files[i] # Nil THEN s ELSE [s EXCEPT !.files[i] = Cached(s.inode[i])]

Open(s, i) == CloneFile(LoadFile(CloseFilesInList(s), i), i)

(***************************************************************************)
(* Donkey::open_dir; the new handle is counted in dh, and the file handle  *)
(* that moves into the DkDir no longer in fh.  read_fully takes a size of  *)
(* zero for a directory without content.                                   *)
(***************************************************************************)
ReadFully(s, i) ==
    [s EXCEPT !.fh[i] = @ - 1,
              !.dirs[i] = [ents  |-> IF s.files[i].size = 0 THEN NoEntries
                                     ELSE s.data[i],
                           dirty |-> FALSE]]

LoadDir(s, i) == IF s.dirs[i] # Nil THEN s ELSE ReadFully(Open(s, i), i)

OpenDir(s, i) == CloneDir(LoadDir(CloseDirsInList(s), i), i)

-----------------------------------------------------------------------------
(***************************************************************************)
(* Links and nodes.  p is the inode of the DkDirHandle passed as parent,   *)
(* which link and unlink drop when they return.                            *)
(***************************************************************************)
SetEntry(s, p, name, i) ==
    [s EXCEPT !.dirs[p].ents[name] = i, !.dirs[p].dirty = TRUE]

(* Mutant: the change of nlink does not mark the inode dirty.              *)
AddNlinkClean(s, i, n) == [s EXCEPT !.files[i].nlink = @ + n]

AddNlink(s, i, n) ==
    [s EXCEPT !.files[i].nlink = @ + n, !.files[i].dirty = TRUE]

(* nlink changes through a handle opened and dropped for it.               *)
ChangeNlink(s, i, n) == DropFileHandle(AddNlink(Open(s, i), i, n), i)

Link(s, i, p, name) ==
    DropDirHandle(ChangeNlink(SetEntry(s, p, name, i), i, 1), p)

(* Mutant: a directory counts twice.                                       *)
UnlinkTwice(s, p, name) ==
    LET i == s.dirs[p].ents[name]
        n == IF s.inode[i].kind = "dir" THEN 2 ELSE 1
    IN  DropDirHandle(IF i = Nil THEN s
                      ELSE ChangeNlink(SetEntry(s, p, name, Nil), i, -n), p)

Unlink(s, p, name) ==
    LET i == s.dirs[p].ents[name]
    IN  DropDirHandle(IF i = Nil THEN s
                      ELSE ChangeNlink(SetEntry(s, p, name, Nil), i, -1), p)

(***************************************************************************)
(* Donkey::mknod with the free inode i, written with nlink 0, and          *)
(* Donkey::mkdir, which also links "." and ".." .  Both fail with          *)
(* Exhausted when no inode is free.                                        *)
(***************************************************************************)
Exhausted(s) == s.ifree = {}

Mknod(s, i, kind) ==
    [s EXCEPT !.ifree = @ \ {i}, !.inode[i] = [FreeSlot EXCEPT !.kind = kind]]

Mkdir(s, i, parent) ==
    LET dir == CloneDir(OpenDir(Mknod(s, i, "dir"), i), i)
    IN  Link(Link(dir, i, i, "."), parent, i, "..")

(***************************************************************************)
(* format: every slot is free, then create_root makes the first one the    *)
(* root and closes what it opened.                                         *)
(***************************************************************************)
Blank ==
    Unmounted([ifree |-> Ino, bfree |-> Blocks,
               inode |-> [i \in Ino |-> FreeSlot],
               data  |-> [i \in Ino |-> NoEntries],
               files |-> Nil, dirs |-> Nil, closeF |-> {}, closeD |-> <<>>,
               fh |-> Nil, dh |-> Nil])

(* Mutant: the files are closed before the directories that hold them.     *)
ReleaseFilesFirst(s) == CloseDirsInList(CloseFilesInList(s))

ApplyReleases(s) == CloseFilesInList(CloseDirsInList(s))

Format == ApplyReleases(Mkdir(Blank, Root, Root))

(* The mount ends: Drop for Donkey, then the memory is gone.               *)
Unmount(s) == Unmounted(ApplyReleases(s))
=============================================================================
