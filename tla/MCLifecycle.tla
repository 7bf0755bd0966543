---------------------------- MODULE MCLifecycle -----------------------------
(* Small instances of AuctionLifecycle for TLC.                            *)
EXTENDS AuctionLifecycle
=============================================================================
