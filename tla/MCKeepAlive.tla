---------------------------- MODULE MCKeepAlive ----------------------------
(* Instances of KeepAlive for TLC: one client, whose neighbours in the     *)
(* registry are the time that passes between the steps of the walk.        *)
EXTENDS KeepAlive
=============================================================================
