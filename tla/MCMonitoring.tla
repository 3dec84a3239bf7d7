---------------------------- MODULE MCMonitoring ----------------------------
(* Two schema versions and a short history. *)
EXTENDS Monitoring
=============================================================================
