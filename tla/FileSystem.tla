----------------------------- MODULE FileSystem -----------------------------
(***************************************************************************)
(* What users of a mounted Donkey file system rely on: inodes with link    *)
(* counts and directories, changed at once by every call, with no cache,   *)
(* no close list and no device.  An inode exists while it has a link or a  *)
(* handle.  DonkeyFuse is shown to implement this module.                  *)
(*                                                                         *)
(* rename is what ops.rs makes it: the moved directory keeps its ".." .    *)
(***************************************************************************)
EXTENDS Naturals

CONSTANTS Ino, Root, Names, Absent

Name == Names \union {".", ".."}

VARIABLES
    fs,  (* fs[i]: the inode i, or Absent                                  *)
    fh,  (* number of open file handles per inode                          *)
    dh   (* number of open directory handles per inode                     *)

vars == <<fs, fh, dh>>

Node(kind, nlink) ==
    [kind |-> kind, nlink |-> nlink, suid |-> FALSE, size |-> 0,
     ents |-> [n \in Name |-> Absent]]

(* Inodes that lost their last link and their last handle disappear.       *)
Live(f, g, h) ==
    [i \in Ino |-> IF f[i] # Absent /\ f[i].nlink + g[i] + h[i] = 0
                   THEN Absent ELSE f[i]]

WithName(f, p, n, i) == [f EXCEPT ![p].ents[n] = i, ![i].nlink = @ + 1]
WithoutName(f, p, n) ==
    [f EXCEPT ![p].ents[n] = Absent, ![f[p].ents[n]].nlink = @ - 1]
WithoutDir(f, p, n) ==
    LET i == f[p].ents[n]
    IN  WithoutName(WithoutName(WithoutName(f, i, "."), i, ".."), p, n)

Files == {i \in Ino : fs[i] # Absent /\ fs[i].kind = "file"}
Dirs  == {i \in Ino : fs[i] # Absent /\ fs[i].kind = "dir"}

(* The tree after a call that opens or releases no handle.                 *)
Becomes(f) == fs' = Live(f, fh, dh)

(* A node gets the free inode i and a name that does not exist.            *)
New(p, n, i) == fs[i] = Absent /\ fs[p].ents[n] = Absent

Mknod(p, n, i) ==
    /\ New(p, n, i)
    /\ Becomes(WithName([fs EXCEPT ![i] = Node("file", 0)], p, n, i))

(* The target is content like a write's, of one block.  The call that      *)
(* fails because there is none leaves the name behind all the same, with   *)
(* an empty file: that is size 0 (see DonkeyFuse!SymlinkHasTarget).        *)
Symlink(p, n, i) ==
    /\ New(p, n, i)
    /\ \E size \in 0 .. 1 :
         Becomes(WithName([fs EXCEPT ![i] = [Node("file", 0) EXCEPT !.size = size]],
                          p, n, i))

Mkdir(p, n, i) ==
    /\ New(p, n, i)
    /\ LET f == WithName([fs EXCEPT ![i] = Node("dir", 0)], i, ".", i)
       IN  Becomes(WithName(WithName(f, i, "..", p), p, n, i))

Link(i, p, n) == fs[p].ents[n] = Absent /\ Becomes(WithName(fs, p, n, i))

Unlink(p, n) == fs[p].ents[n] \in Files /\ Becomes(WithoutName(fs, p, n))

(* Only "." and ".." may be left.                                          *)
Empty(f, i) == \A n \in Name : f[i].ents[n] # Absent <=> n \in {".", ".."}

Rmdir(p, n) ==
    /\ fs[p].ents[n] \in Dirs
    /\ Empty(fs, fs[p].ents[n])
    /\ Becomes(WithoutDir(fs, p, n))

Rename(p, n, q, m) ==
    LET i == fs[p].ents[n]
        j == fs[q].ents[m]
        f == IF j = Absent THEN fs
             ELSE IF fs[j].kind = "dir" THEN WithoutDir(fs, q, m)
             ELSE WithoutName(fs, q, m)
    IN  /\ i # Absent
        /\ j # Absent /\ fs[j].kind = "dir" => Empty(fs, j)
        /\ Becomes(WithoutName(WithName(f, q, m, i), p, n))

Chmod(i, suid)    == Becomes([fs EXCEPT ![i].suid = suid])
SetSize(i, size)  == Becomes([fs EXCEPT ![i].size = size])

(* Opening clears the set-id bits unless root opens.                       *)
Open(i, suid) ==
    /\ fh' = [fh EXCEPT ![i] = @ + 1]
    /\ UNCHANGED dh
    /\ suid \in {FALSE, fs[i].suid}
    /\ fs' = [fs EXCEPT ![i].suid = suid]

Release(i) ==
    /\ fh[i] > 0
    /\ fh' = [fh EXCEPT ![i] = @ - 1]
    /\ fs' = Live(fs, fh', dh)
    /\ UNCHANGED dh

Opendir(i) ==
    /\ dh' = [dh EXCEPT ![i] = @ + 1]
    /\ UNCHANGED <<fs, fh>>

Releasedir(i) ==
    /\ dh[i] > 0
    /\ dh' = [dh EXCEPT ![i] = @ - 1]
    /\ fs' = Live(fs, fh, dh')
    /\ UNCHANGED fh

Init ==
    /\ fs = [i \in Ino |-> IF i = Root
               THEN [Node("dir", 2) EXCEPT !.ents["."] = Root, !.ents[".."] = Root]
               ELSE Absent]
    /\ fh = [i \in Ino |-> 0]
    /\ dh = [i \in Ino |-> 0]

(* Calls that only read.                                                   *)
Look == UNCHANGED vars

(* Calls that change the tree or an inode.                                 *)
Change ==
    \/ \E p \in Dirs, n \in Names :
         \/ \E i \in Ino : Mknod(p, n, i) \/ Symlink(p, n, i) \/ Mkdir(p, n, i)
         \/ \E i \in Files : Link(i, p, n)
         \/ Unlink(p, n)
         \/ Rmdir(p, n)
         \/ \E q \in Dirs, m \in Names : Rename(p, n, q, m)
    \/ \E i \in Files, size \in 0 .. 1 : SetSize(i, size)
    \/ \E i \in Files \union Dirs, suid \in BOOLEAN : Chmod(i, suid)

(* Calls that open or release a handle.                                    *)
Handles ==
    \/ \E i \in Files : Release(i) \/ \E suid \in BOOLEAN : Open(i, suid)
    \/ \E i \in Dirs : Opendir(i) \/ Releasedir(i)

Next ==
    \/ Look
    \/ UNCHANGED <<fh, dh>> /\ Change
    \/ Handles

Spec == Init /\ [][Next]_vars
=============================================================================
