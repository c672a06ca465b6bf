----------------------------- MODULE MCXMonitor -----------------------------
(* A table of three tasks and a free slot. *)
EXTENDS XMonitor

MCResults == {X_SUCCESSFUL_TASK, -1}
=============================================================================
