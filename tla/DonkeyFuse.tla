----------------------------- MODULE DonkeyFuse -----------------------------
(***************************************************************************)
(* The mounted file system: mtdk/src/main.rs.  The fuse session calls the  *)
(* handlers of DonkeyFuse one after the other, on one thread, in any order *)
(* the users of the mount bring about; each handler is one step.           *)
(*                                                                         *)
(* file_fh and dir_fh hold one handle per open file description; between   *)
(* two steps they hold all handles there are, so dk.fh and dk.dh count     *)
(* them.                                                                   *)
(*                                                                         *)
(* The guards are what the kernel's VFS layer and fuse.ko (external) check *)
(* before they call: directories are live, names to create are absent,     *)
(* names to remove are present, unlink is for files and rmdir for          *)
(* directories, rename does not move a directory below itself and does     *)
(* nothing when both names are links to the same inode, and inode numbers  *)
(* come from a live link or an open handle.                                *)
(***************************************************************************)
EXTENDS Handle

CONSTANTS
    MaxHandles,  (* bound: open handles of each kind per inode             *)
    DataSyncs    (* the values of datasync with which fsyncdir is called   *)

ASSUME MaxHandlesAssumption == MaxHandles \in Nat
ASSUME DataSyncsAssumption == DataSyncs \subseteq BOOLEAN

VARIABLES
    dk,       (* the file system, see module Donkey                        *)
    panicked  (* a handler panicked, which ends the mount                  *)

vars == <<dk, panicked>>

-----------------------------------------------------------------------------
(***************************************************************************)
(* What users see: the cached inode or directory, else the one on the      *)
(* device.                                                                 *)
(***************************************************************************)
Inode(s, i) == IF s.files[i] # Nil THEN s.files[i] ELSE s.inode[i]

Ents(s, i) == IF s.dirs[i] # Nil THEN s.dirs[i].ents
              ELSE IF Inode(s, i).size = 0 THEN NoEntries
              ELSE s.data[i]

InUse(s, i) == /\ Inode(s, i).kind # "free"
               /\ Inode(s, i).nlink + s.fh[i] + s.dh[i] > 0

IsDir(i) == Inode(dk, i).kind = "dir"
At(p, n) == Ents(dk, p)[n]

Used   == {i \in Ino : InUse(dk, i)}
Linked == {i \in Used : Inode(dk, i).nlink > 0}
Files  == {i \in Used : ~IsDir(i)}

(* The directories that have a name; the others rmdir has removed.         *)
Dirs   == {i \in Used : /\ IsDir(i)
                        /\ i = Root \/ \E p \in Used, n \in Names : IsDir(p) /\ At(p, n) = i}

(* The nodes below i, i included; for the kernel's ancestor check.         *)
Below(i) ==
    LET Closed(S) == \A d \in S, n \in Names :
                         IsDir(d) /\ At(d, n) # Nil => At(d, n) \in S
    IN  {j \in Ino : \A S \in SUBSET Ino : i \in S /\ Closed(S) => j \in S}

-----------------------------------------------------------------------------
(***************************************************************************)
(* The handlers.                                                           *)
(***************************************************************************)
Init == dk = Format /\ panicked = FALSE

Run(s) == ~panicked /\ dk' = s /\ UNCHANGED panicked

Allocatable(s) == IF Exhausted(s) THEN {Nil} ELSE s.ifree

FuseLookup(p, n) == Run(lookup(dk, p, n))

FuseGetattr(i) == Run(getattr(dk, i))

(* chmod; only fchmod-like calls may pass the file handle.                 *)
FuseChmod(i, given, suid) ==
    /\ given => dk.fh[i] > 0
    /\ Run(setattr(dk, i, given, suid, Nil))

FuseTruncate(i, given) ==
    /\ given => dk.fh[i] > 0
    /\ Run(setattr(dk, i, given, Nil, 0))

FuseReadlink(i) == Run(DropFileHandle(open(getattr(dk, i), i), i))

FuseMknod(p, n) ==
    /\ At(p, n) = Nil
    /\ \E i \in Allocatable(opendir(dk, p)) : Run(mknod(dk, p, n, i))

(* mkdir allocates before it works off the lists.                          *)
FuseMkdir(p, n) ==
    /\ At(p, n) = Nil
    /\ \E i \in Allocatable(dk) : Run(mkdir(dk, p, n, i))

FuseSymlink(p, n) ==
    /\ At(p, n) = Nil
    /\ \E i \in Allocatable(opendir(dk, p)) : Run(symlink(dk, p, n, i))

FuseLink(i, p, n) == At(p, n) = Nil /\ Run(link(dk, i, p, n))

FuseUnlink(p, n) == At(p, n) # Nil /\ ~IsDir(At(p, n)) /\ Run(unlink(dk, p, n))

FuseRmdir(p, n) == At(p, n) # Nil /\ IsDir(At(p, n)) /\ Run(rmdir(dk, p, n).s)

FuseRename(p, n, q, m) ==
    LET i == At(p, n)
        j == At(q, m)
    IN  /\ i # Nil /\ i # j
        /\ j # Nil => (IsDir(i) <=> IsDir(j)) /\ p \notin Below(j)
        /\ q \notin Below(i)
        /\ Run(rename(dk, p, n, q, m))

(* A user other than root loses the set-id bits of the file.               *)
FuseOpen(i, root) ==
    /\ dk.fh[i] < MaxHandles
    /\ Run(IF root THEN open(dk, i) ELSE clear_set_bits(open(dk, i), i))

FuseRead(i) == dk.fh[i] > 0 /\ Run(read(dk, i))

FuseWrite(i) == dk.fh[i] > 0 /\ Run(write(dk, i))

(* flush, and fsync with datasync = false.                                 *)
FuseFlush(i) == dk.fh[i] > 0 /\ Run(flush(dk, i))

FuseRelease(i) ==
    dk.fh[i] > 0 /\ Run(apply_releases(DropFileHandle(dk, i)))

FuseOpendir(i) == dk.dh[i] < MaxHandles /\ Run(opendir(dk, i))

FuseReleasedir(i) ==
    dk.dh[i] > 0 /\ Run(apply_releases(DropDirHandle(dk, i)))

FuseFsyncdir(i, datasync) ==
    /\ ~panicked
    /\ dk.dh[i] > 0
    /\ dk' = IF datasync THEN fsyncdir(dk, i) ELSE FlushDir(dk, i)
    /\ panicked' = ~datasync

(* umount, which the kernel refuses while files are open, and mtdk again.  *)
Remount ==
    /\ \A i \in Ino : dk.fh[i] = 0 /\ dk.dh[i] = 0
    /\ Run(Unmount(dk))

(* Calls that change the tree.                                             *)
NameStep ==
    \E p \in Dirs, n \in Names :
        \/ FuseLookup(p, n)
        \/ FuseMknod(p, n)
        \/ FuseMkdir(p, n)
        \/ FuseSymlink(p, n)
        \/ \E i \in Files \cap Linked : FuseLink(i, p, n)
        \/ FuseUnlink(p, n)
        \/ FuseRmdir(p, n)
        \/ \E q \in Dirs, m \in Names : FuseRename(p, n, q, m)

(* Calls that change an inode or its content.                              *)
InodeStep ==
    \/ \E i \in Used, suid \in BOOLEAN : FuseChmod(i, FALSE, suid)
    \/ \E i \in Files :
         \/ \E suid \in BOOLEAN : FuseChmod(i, TRUE, suid)
         \/ \E given \in BOOLEAN : FuseTruncate(i, given)
         \/ FuseWrite(i)

(* Calls that open, close, synchronise or read.                            *)
HandleStep ==
    \/ \E i \in Used : FuseGetattr(i)
    \/ \E i \in Files :
         \/ FuseReadlink(i)
         \/ \E root \in BOOLEAN : i \in Linked /\ FuseOpen(i, root)
         \/ FuseRead(i)
         \/ FuseFlush(i)
         \/ FuseRelease(i)
    \/ \E i \in Dirs : FuseOpendir(i)
    \/ \E i \in Used :
         \/ FuseReleasedir(i)
         \/ \E datasync \in DataSyncs : FuseFsyncdir(i, datasync)
    \/ Remount

Next == NameStep \/ InodeStep \/ HandleStep

Spec == Init /\ [][Next]_vars

-----------------------------------------------------------------------------
(***************************************************************************)
(* Properties.                                                             *)
(***************************************************************************)
(* No link count wraps below zero, no block is freed twice, and no slot of *)
(* the inode table that is on the free list is ever opened as an inode.    *)
TypeOK ==
    /\ dk.ifree \subseteq Ino
    /\ dk.bfree \in 0 .. Blocks
    /\ \A i \in Ino :
         /\ dk.inode[i] \in DiskInode
         /\ dk.data[i] \in Entries
         /\ dk.files[i] = Nil \/ dk.files[i] \in DkFile
         /\ dk.dirs[i] = Nil \/ dk.dirs[i] \in DkDir
         /\ dk.fh[i] \in 0 .. MaxHandles
         /\ dk.dh[i] \in 0 .. MaxHandles
    /\ dk.closeF \subseteq Ino
    /\ dk.closeD \in Seq(Ino)
    /\ panicked \in BOOLEAN

Allocated == Ino \ dk.ifree

(* The link count of every inode is the number of directory entries that   *)
(* lead to it, across the inode and directory caches and the device; and   *)
(* no entry leads to a free inode.                                         *)
NlinkCountsEntries ==
    \A i \in Ino :
        LET refs == Cardinality({x \in Allocated \X Name :
                       /\ Inode(dk, x[1]).kind = "dir"
                       /\ Ents(dk, x[1])[x[2]] = i})
        IN  refs = IF i \in Allocated THEN Inode(dk, i).nlink ELSE 0

(* Whatever the cache holds without a handle is on its close list, so that *)
(* no dirty inode or directory is left behind unwritten.                   *)
NothingStranded ==
    \A i \in Ino :
        /\ dk.dirs[i] # Nil => dk.dh[i] > 0 \/ i \in Range(dk.closeD)
        /\ dk.files[i] # Nil => FileRefs(dk, i) > 0 \/ i \in dk.closeF

(* An inode that nobody can reach any more is waiting to be reclaimed.     *)
NoLeak == \A i \in Allocated \ Used : dk.files[i] # Nil

(* Every block is free or holds the content of an allocated inode.         *)
BlocksAccounted ==
    dk.bfree + Cardinality({i \in Allocated : Inode(dk, i).size = 1}) = Blocks

(* Once a handle is released, nothing unreachable is kept: the inodes and  *)
(* blocks of unlinked files and directories are free again.                *)
ReleaseReclaims ==
    [][(\E i \in Ino : dk'.fh[i] < dk.fh[i] \/ dk'.dh[i] < dk.dh[i]) =>
         \A j \in Ino : j \in dk'.ifree \/ InUse(dk', j)]_vars

(* An inode as users see it: content of directories shows as entries only. *)
Nodes == [kind : {"file", "dir"}, nlink : Nat, suid : BOOLEAN, size : 0 .. 1, ents : Entries]

ASSUME NodeAssumption == Nil \notin Nodes

View == [i \in Ino |->
           IF InUse(dk, i)
           THEN [kind |-> Inode(dk, i).kind, nlink |-> Inode(dk, i).nlink,
                 suid |-> Inode(dk, i).suid,
                 size |-> IF Inode(dk, i).kind = "dir" THEN 0 ELSE Inode(dk, i).size,
                 ents |-> IF Inode(dk, i).kind = "dir" THEN Ents(dk, i) ELSE NoEntries]
           ELSE Nil]

Abs == INSTANCE FileSystem WITH
    fs <- View, fh <- dk.fh, dh <- dk.dh, Absent <- Nil

(* Cache, close lists, write-back and remounting are invisible: every step *)
(* is a step of the plain file system or changes nothing users can see.    *)
ImplementsFileSystem == Abs!Spec

(* test rmdir (dkfs/tests/integration_test.rs): a directory's nlink is 2   *)
(* plus the number of its subdirectories.                                  *)
DirLinks ==
    \A d \in Dirs :
        Inode(dk, d).nlink = 2 + Cardinality({n \in Names : At(d, n) \in Dirs})

(* read_fully (file.rs): a directory of size 0 is just created, that is,   *)
(* it has not been written and closed yet.                                 *)
SizeZeroIsJustCreated ==
    \A i \in Linked : Inode(dk, i).kind = "dir" /\ Inode(dk, i).size = 0 =>
        dk.dirs[i] # Nil

(* test symlink (dkfs/tests/integration_test.rs): "assert_eq!(             *)
(* homura_link.as_bytes(), read.as_slice());", a link reads as the target  *)
(* it was made for; so if there is a link after the call, it has a target. *)
SymlinkHasTarget ==
    [][\A p \in Dirs, n \in Names :
         FuseSymlink(p, n) /\ At(p, n)' # Nil => Inode(dk', At(p, n)').size = 1]_vars

(* fsync (ops.rs): "only metadata needs synchronizing", which fsyncdir     *)
(* with datasync = false asks for; it comes back instead of panicking.     *)
NeverPanics == ~panicked
=============================================================================
