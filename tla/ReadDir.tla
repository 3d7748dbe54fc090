------------------------------ MODULE ReadDir -------------------------------
(***************************************************************************)
(* Listing a directory: Handle::readdir (dkfs/src/ops.rs) and the handler  *)
(* readdir (mtdk/src/main.rs), while other calls change the directory.  A  *)
(* DkDirHandle keeps the entries that the directory had when it was        *)
(* opened; readdir goes through them from an offset on and asks for the    *)
(* attributes of each inode, which may be gone by then.                    *)
(*                                                                         *)
(* One user lists the root directory, through the mount or with the        *)
(* library; the others make the calls of module DonkeyFuse.                *)
(***************************************************************************)
EXTENDS DonkeyFuse

CONSTANTS
    NameOrder,  (* the names in the order of an OrdMap                     *)
    Room        (* entries that fit a reply, or a page                     *)

ASSUME NameOrderAssumption ==
    /\ NameOrder \in Seq(Name)
    /\ Range(NameOrder) = Name /\ Len(NameOrder) = Cardinality(Name)
ASSUME RoomAssumption == Room \in Nat \ {0}

(***************************************************************************)
(* status of the listing: "closed"; "open" while it goes on; "done" after  *)
(* an empty reply; "failed" after an error.  snap is the handle's copy of  *)
(* the entries, offset where to go on, and names what was listed so far.   *)
(***************************************************************************)
VARIABLE list

rvars == <<dk, panicked, list>>

NoList == [status |-> "closed", snap |-> <<>>, offset |-> 0, names |-> <<>>]

InitList == Init /\ list = NoList

Snapshot(ents) ==
    LET Take(snap, n) == IF ents[n] = Nil THEN snap
                         ELSE Append(snap, [name |-> n, ino |-> ents[n]])
    IN  FoldLeft(Take, <<>>, NameOrder)

StartListing ==
    /\ ~panicked /\ list.status = "closed" /\ dk.dh[Root] < MaxHandles
    /\ dk' = opendir(dk, Root)
    /\ list' = [NoList EXCEPT !.status = "open", !.snap = Snapshot(dk'.dirs[Root].ents)]
    /\ UNCHANGED panicked

(* Mutant: the entry at the offset is skipped as well.                     *)
readdir_after(snap, offset) == SubSeq(snap, 2 * offset + 2, Len(snap))

(* Handle::readdir skips the offset twice.                                 *)
readdir(snap, offset) == SubSeq(snap, 2 * offset + 1, Len(snap))

-----------------------------------------------------------------------------
(***************************************************************************)
(* The handler.  getattr first works off the close list; the slot of an    *)
(* inode that is free then decodes as a node of the free list, whose first *)
(* number is taken for the inode number: too small, and the error is       *)
(* Corrupted, or large enough, and the mode has no file type, on which     *)
(* dk2fuse::file_type panics.                                              *)
(***************************************************************************)
Gone(s, i) == s.files[i] = Nil /\ i \in s.ifree

(* Mutant: the reply is taken for full with its last place free.           *)
AddEarly(r, entry) ==
    LET t == CloseFilesInList(r.s)
    IN  IF r.end # "" THEN r
        ELSE IF Gone(t, entry.ino) THEN [r EXCEPT !.s = t, !.end = "gone"]
        ELSE IF Len(r.names) + 1 = Room THEN [r EXCEPT !.s = getattr(t, entry.ino), !.end = "full"]
        ELSE [r EXCEPT !.s = getattr(t, entry.ino), !.names = Append(@, entry.name)]

(* One entry is added to the reply; end says why the loop was left.        *)
Add(r, entry) ==
    LET t == CloseFilesInList(r.s)
    IN  IF r.end # "" THEN r
        ELSE IF Gone(t, entry.ino) THEN [r EXCEPT !.s = t, !.end = "gone"]
        ELSE IF Len(r.names) = Room THEN [r EXCEPT !.s = getattr(t, entry.ino), !.end = "full"]
        ELSE [r EXCEPT !.s = getattr(t, entry.ino), !.names = Append(@, entry.name)]

(* The kernel goes on after the last entry, until there is none.           *)
Listed(names) ==
    [list EXCEPT !.names = @ \o names, !.offset = @ + Len(names),
                 !.status = IF names = <<>> THEN "done" ELSE @]

Failed == [list EXCEPT !.status = "failed"]

(* A full reply is never sent, and the fuse crate answers a dropped reply  *)
(* with EIO (external).                                                    *)
FuseReaddir ==
    /\ ~panicked /\ list.status = "open"
    /\ LET r == FoldLeft(Add, [s |-> CloneDir(dk, Root), names |-> <<>>, end |-> ""],
                         readdir(list.snap, list.offset))
       IN  /\ dk' = DropDirHandle(r.s, Root)
           /\ list' = IF r.end = "" THEN Listed(r.names) ELSE Failed
           /\ panicked' \in {FALSE, r.end = "gone"}

(* A user of the library takes Room entries of the iterator at a time.     *)
LibraryReaddir ==
    /\ ~panicked /\ list.status = "open"
    /\ list' = LET rest == readdir(list.snap, list.offset)
                   page == SubSeq(rest, 1, Min({Room, Len(rest)}))
               IN  Listed([k \in DOMAIN page |-> page[k].name])
    /\ dk' = DropDirHandle(CloneDir(dk, Root), Root)
    /\ UNCHANGED panicked

EndListing ==
    /\ ~panicked /\ list.status # "closed"
    /\ dk' = apply_releases(DropDirHandle(dk, Root))
    /\ list' = NoList
    /\ UNCHANGED panicked

Others ==
    /\ \/ NameStep
       \/ \E i \in Files : i \in Linked /\ FuseOpen(i, TRUE)
       \/ \E i \in Files : FuseRelease(i)
    /\ UNCHANGED list

ReadDirSpec ==
    InitList /\ [][StartListing \/ FuseReaddir \/ EndListing \/ Others]_rvars

LibrarySpec ==
    InitList /\ [][StartListing \/ LibraryReaddir \/ EndListing \/ Others]_rvars

-----------------------------------------------------------------------------
(***************************************************************************)
(* Properties.                                                             *)
(***************************************************************************)
(* test traverse_big_dir (dkfs/tests/integration_test.rs),                 *)
(* "assert_eq!(names, names_read)": a complete listing is the directory as *)
(* it was opened, each name once, whatever happened meanwhile.             *)
ListingComplete ==
    list.status = "done" => list.names = [k \in DOMAIN list.snap |-> list.snap[k].name]

(* A listing that fits one reply fails only when an inode in it has been   *)
(* reclaimed: one that is unlinked and still open, or whose number has a   *)
(* new inode, is listed.                                                   *)
FailsOnlyIfReclaimed ==
    [][list'.status = "failed" /\ list.status = "open" /\ Len(list.snap) <= Room =>
         \E k \in DOMAIN list.snap : Gone(dk', list.snap[k].ino)]_rvars

(* test traverse_big_dir (dkfs/tests/integration_test.rs): a directory is  *)
(* listed, however big; so a listing never ends with an error.             *)
ListingNeverFails == list.status # "failed"
=============================================================================
