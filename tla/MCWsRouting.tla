---------------------------- MODULE MCWsRouting ----------------------------
(* Instances of WsRouting for TLC.                                         *)
EXTENDS WsRouting, TLC

AddressSymmetry == Permutations(Addresses)
=============================================================================
