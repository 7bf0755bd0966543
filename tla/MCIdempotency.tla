---------------------------- MODULE MCIdempotency ----------------------------
(* The wallet behind the interceptor, with one key that several requests   *)
(* carry.                                                                  *)
EXTENDS Idempotency
=============================================================================
