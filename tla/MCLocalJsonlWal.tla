--------------------------- MODULE MCLocalJsonlWal ---------------------------
(* Instances of LocalJsonlWal for TLC.                                     *)
EXTENDS LocalJsonlWal

CONSTANTS e1, e2
=============================================================================
