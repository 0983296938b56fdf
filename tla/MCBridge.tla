------------------------------- MODULE MCBridge -------------------------------
(* Instances of BridgeSystem for TLC; the .cfg files give the constants.     *)
EXTENDS BridgeSystem

=============================================================================
