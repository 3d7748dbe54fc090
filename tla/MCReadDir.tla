----------------------------- MODULE MCReadDir ------------------------------
(* Model-checking instances of ReadDir.                                    *)
EXTENDS ReadDir, MCDonkeyFuse

CONSTANTS a, b

OneName  == <<".", "..", a>>
TwoNames == <<".", "..", a, b>>

(* As in MCDonkeyFuse.                                                     *)
Seen == <<Observed, list>>
=============================================================================
