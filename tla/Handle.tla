------------------------------- MODULE Handle -------------------------------
(***************************************************************************)
(* struct Handle of dkfs/src/ops.rs: the operations of the library, each   *)
(* a composition of Donkey's methods with the handles they hold meanwhile. *)
(* A call that fails returns the state its early return leaves behind.     *)
(* Names never exceed MAX_NAMELEN and, as the kernel sees to it, exist or  *)
(* do not exist as the operation requires.                                 *)
(***************************************************************************)
EXTENDS Donkey

getattr(s, i) == DropFileHandle(Open(s, i), i)

opendir(s, i) == OpenDir(s, i)

apply_releases(s) == ApplyReleases(s)

Entry(s, parent, name) == s.dirs[parent].ents[name]

(* The directory stays in the cache, where Entry finds the result.         *)
lookup(s, parent, name) ==
    LET Found(t) == IF Entry(t, parent, name) = Nil THEN t
                    ELSE getattr(t, Entry(t, parent, name))
    IN  DropDirHandle(Found(opendir(s, parent)), parent)

(* Mutant: the new node is not linked.                                     *)
mknod_unlinked(s, parent, name, i) ==
    LET t == opendir(s, parent)
    IN  DropDirHandle(IF i = Nil THEN t ELSE Mknod(t, i, "file"), parent)

(* mknod, mkdir and symlink take the free inode i that the allocator finds *)
(* once the lists the call works off are closed, or Nil if there is none.  *)
mknod(s, parent, name, i) ==
    LET Linked(t) == IF i = Nil THEN DropDirHandle(t, parent)
                     ELSE getattr(Link(Mknod(t, i, "file"), i, parent, name), i)
    IN  Linked(opendir(s, parent))

link(s, i, parent, name) ==
    getattr(Link(opendir(s, parent), i, parent, name), i)

(* The new directory is complete before the parent is opened.              *)
mkdir(s, parent, name, i) ==
    IF i = Nil THEN s
    ELSE getattr(Link(opendir(Mkdir(s, i, parent), parent), i, parent, name), i)

open(s, i) == Open(s, i)

(* A call on an existing handle works on a clone of it.                    *)
flush(s, i) == DropFileHandle(FlushFile(CloneFile(s, i), i), i)

(* The attributes that setattr assigns: Nil where it was given None.       *)
SetAttrs(s, i, suid, size) ==
    LET t == [s EXCEPT !.files[i].suid = IF suid = Nil THEN @ ELSE suid]
    IN  IF size = Nil THEN t ELSE UpdateSize(t, i, size)

(* Mutant: setattr does not mark the inode dirty.                          *)
setattr_clean(s, i, given, suid, size) ==
    LET t == IF given THEN CloneFile(s, i) ELSE open(s, i)
    IN  DropFileHandle(getattr(SetAttrs(t, i, suid, size), i), i)

(* setattr works on the handle it was given or on one of its own.          *)
setattr(s, i, given, suid, size) ==
    LET t == IF given THEN CloneFile(s, i) ELSE open(s, i)
        u == SetAttrs([t EXCEPT !.files[i].dirty = TRUE], i, suid, size)
    IN  DropFileHandle(getattr(u, i), i)

write(s, i) == DropFileHandle(WriteBlock(CloneFile(s, i), i), i)

read(s, i) == DropFileHandle(CloneFile(s, i), i)

(* With datasync = true, when fsync only drops the clone of the file       *)
(* handle it is given; otherwise fsync borrows the Donkey that fsyncdir    *)
(* has borrowed already, and panics.                                       *)
fsyncdir(s, i) ==
    LET Fsync(t) == DropFileHandle(CloneFile(t, i), i)
    IN  DropDirHandle(Fsync(FlushDir(CloneDir(s, i), i)), i)

unlink(s, parent, name) == Unlink(opendir(s, parent), parent, name)

(* Fails if the name is not found or the directory not empty.  The handle  *)
(* on the directory lives until the end of the call.                       *)
rmdir(s, parent, name) ==
    LET Empty(t, i)   == Count(t.dirs[i].ents) = 2
        Removed(t, i) == unlink(unlink(unlink(t, i, "."), i, ".."), parent, name)
        Opened(t, i)  == [s  |-> DropDirHandle(IF Empty(t, i) THEN Removed(t, i) ELSE t, i),
                          ok |-> Empty(t, i)]
        Found(t, i)   == IF i = Nil THEN [s |-> t, ok |-> FALSE]
                         ELSE Opened(opendir(t, i), i)
        Looked(t)     == Found(t, Entry(t, parent, name))
    IN  Looked(lookup(s, parent, name))

(* What rename does with the node at the new name.                         *)
MakeRoom(s, parent, name) ==
    LET Found(t, j) == IF j = Nil THEN [s |-> t, ok |-> TRUE]
                       ELSE IF t.files[j].kind = "dir" THEN rmdir(t, parent, name)
                       ELSE [s |-> unlink(t, parent, name), ok |-> TRUE]
        Looked(t)   == Found(t, Entry(t, parent, name))
    IN  Looked(lookup(s, parent, name))

(* Mutant: the old name stays.                                             *)
rename_as_link(s, old_parent, name, new_parent, new_name) ==
    LET Move(r, i) == IF ~r.ok THEN r.s
                      ELSE Link(opendir(r.s, new_parent), i, new_parent, new_name)
        Looked(t)  == Move(MakeRoom(t, new_parent, new_name), Entry(t, old_parent, name))
    IN  Looked(lookup(s, old_parent, name))

(* The node gets its new name before it loses the old one.                 *)
rename(s, old_parent, name, new_parent, new_name) ==
    LET Linked(t, i) == Link(opendir(t, new_parent), i, new_parent, new_name)
        Move(r, i)   == IF r.ok THEN unlink(Linked(r.s, i), old_parent, name)
                        ELSE r.s
        Found(t, i)  == IF i = Nil THEN t
                        ELSE Move(MakeRoom(t, new_parent, new_name), i)
        Looked(t)    == Found(t, Entry(t, old_parent, name))
    IN  Looked(lookup(s, old_parent, name))

(* mknod, then the target is written through a second handle.              *)
symlink(s, parent, name, i) ==
    LET Target(t) == IF CanWrite(t, i) THEN getattr(write(t, i), i) ELSE write(t, i)
        Made(t)   == IF i = Nil THEN t
                     ELSE DropFileHandle(Target(open(t, i)), i)
    IN  Made(mknod(s, parent, name, i))

(* Mutant: clear_set_bits does not mark the inode dirty.                   *)
clear_set_bits_clean(s, i) == [s EXCEPT !.files[i].suid = FALSE]

(* clear_set_bits keeps the handle it was given.                           *)
clear_set_bits(s, i) ==
    [s EXCEPT !.files[i].suid = FALSE, !.files[i].dirty = TRUE]
=============================================================================
