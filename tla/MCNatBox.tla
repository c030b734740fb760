------------------------------ MODULE MCNatBox ------------------------------
(* Small instances of NatBox for TLC: the constants are given in the cfg files. *)
EXTENDS NatBox
=============================================================================
