------------------------------ MODULE MCXSync -------------------------------
(* XSync on small instances: see the MCXSync_*.cfg files for the bounds. *)
EXTENDS XSync
=============================================================================
