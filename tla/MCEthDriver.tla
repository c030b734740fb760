---------------------------- MODULE MCEthDriver ----------------------------
(* Small instances of EthDriver for TLC: the constants are in the cfg files. *)
EXTENDS EthDriver
=============================================================================
