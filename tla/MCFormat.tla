----------------------------- MODULE MCFormat -------------------------------
(* Model-checking instances of Format.                                     *)
EXTENDS Format

(* Around the lengths at which the inode table needs another block or the  *)
(* device has room for one, and lengths that are no multiple of a block.   *)
SomeLens   == {k * 4096 + r : k \in 0 .. 20, r \in {0, 4095}}
SomeRatios == {1, 128, 255, 256, 300, 512, 1024, 4096, 16384, 65536}

FewLens   == {8192, 16384}
FewRatios == {256, 4096}
=============================================================================
