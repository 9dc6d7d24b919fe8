--------------------------- MODULE MCRelayPipeline ---------------------------
(* RelayPipeline on small instances.                                        *)
EXTENDS RelayPipeline, TLC

CONSTANTS r1, r2, c1, c2
=============================================================================
