---------------------------- MODULE MCDonkeyFuse ----------------------------
(* Model-checking instances of DonkeyFuse.                                 *)
EXTENDS DonkeyFuse

(* Without the calls that change an inode.                                 *)
NamesSpec == Init /\ [][NameStep \/ HandleStep]_vars

(* Without subdirectories: only files compete for the blocks.              *)
FilesSpec ==
    Init /\ [][Next /\ \A i \in Ino \ {Root} : dk'.inode[i].kind # "dir"]_vars

(***************************************************************************)
(* Two states are the same when they differ only in what no step reads:    *)
(* entries of a close list for what is not cached or has a handle (the     *)
(* drop of that handle adds another entry), and what the device holds of   *)
(* an inode or a directory whose cached version is dirty, or of no         *)
(* directory.  No property depends on these either.                        *)
(***************************************************************************)
Observed ==
    LET s == dk
    IN  <<[s EXCEPT
            !.closeF = {i \in @ : s.files[i] # Nil /\ FileRefs(s, i) = 0},
            !.closeD = SelectSeq(@, LAMBDA i : s.dirs[i] # Nil /\ DirRefs(s, i) = 0),
            !.inode  = [i \in Ino |-> IF s.files[i] # Nil /\ s.files[i].dirty
                                      THEN FreeSlot ELSE s.inode[i]],
            !.data   = [i \in Ino |->
                          IF \/ s.dirs[i] # Nil /\ s.dirs[i].dirty
                             \/ Inode(s, i).kind # "dir"
                             \/ Inode(s, i).size = 0
                          THEN NoEntries ELSE s.data[i]]],
          panicked>>
=============================================================================
