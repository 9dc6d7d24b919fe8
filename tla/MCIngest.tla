------------------------------ MODULE MCIngest ------------------------------
(***************************************************************************)
(* The two ends of the ingest path on small instances.  A run looks at one *)
(* of two scopes: the segment files of one log through crashes and failing *)
(* calls, or the sidecars that relay the records of two logs.              *)
(***************************************************************************)
EXTENDS MCLocalJsonlWal, MCRelayPipeline

VARIABLE scope
mcVars == <<vars, pipelineVars, scope>>

MCInit == Init /\ PipelineInit /\ scope \in {"wal", "pipeline"}

(* A log that has used up its writes rests. *)
WalScope == scope = "wal" /\ (Next \/ UNCHANGED vars) /\ UNCHANGED pipelineVars
PipelineScope == scope = "pipeline" /\ PipelineNext /\ UNCHANGED vars

MCNext == (WalScope \/ PipelineScope) /\ UNCHANGED scope

(* Where the sidecars are looked at, somebody keeps calling each of them.  *)
Fairness ==
    /\ \A r \in Runs : WF_pipelineVars(scope = "pipeline" /\ RelayPass(r))
    /\ \A c \in Consumers : WF_pipelineVars(scope = "pipeline" /\ Poll(c))

MCSpec == MCInit /\ [][MCNext]_mcVars /\ Fairness
=============================================================================
