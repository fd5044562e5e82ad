----------------------------- MODULE MCEthDriver ----------------------------
(* EthDriver for TLC; its constants are numbers, given in the .cfg files.  *)
EXTENDS EthDriver
=============================================================================
