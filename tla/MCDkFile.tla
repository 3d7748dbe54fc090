------------------------------ MODULE MCDkFile ------------------------------
(* Model-checking instances of DkFile.                                     *)
EXTENDS DkFile
=============================================================================
