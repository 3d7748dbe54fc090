------------------------------ MODULE MCXattr ------------------------------
(* Model-checking instances of Xattr.                                      *)
EXTENDS Xattr

(* Inodes and keys are only told apart by what is stored for them.         *)
Symmetry == Permutations(Ino) \union Permutations(Keys)

(* The last reply and inode.blocks, which grows whenever the attributes'   *)
(* block is allocated anew, feed back into no step.                        *)
Uncounted(n) == IF n = Nil THEN Nil ELSE [n EXCEPT !.blocks = 0]
Observed ==
    <<[x EXCEPT !.opened = [i \in Ino |-> Uncounted(x.opened[i])],
                !.inode = [i \in Ino |-> Uncounted(x.inode[i])]],
      crashes>>
=============================================================================
