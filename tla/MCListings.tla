------------------------------ MODULE MCListings ------------------------------
(* The instance of Listings for TLC.                                       *)
EXTENDS Listings
=============================================================================
