----------------------------- MODULE MCBidding ------------------------------
(* The instances of Bidding for TLC.                                       *)
EXTENDS Bidding
=============================================================================
