------------------------------ MODULE MCWallet ------------------------------
(* The instance of Wallet for TLC.                                         *)
EXTENDS Wallet
=============================================================================
