-------------------------------- MODULE MCAuth --------------------------------
(* One-time codes and sessions: one phone and one user, two requests at a  *)
(* time, two codes and three seconds; the limits are two failed attempts   *)
(* and two codes per window.                                               *)
(*                                                                         *)
(* The two have no variable in common and every property is about one of   *)
(* them, so their interleavings show nothing that behaviours in which one  *)
(* of them moves do not show.                                              *)
EXTENDS Otp, Sessions, TLC

VARIABLE moving   \* the module that moves

AuthInit == OtpInit /\ SessionInit /\ moving \in {"Otp", "Sessions"}

AuthNext ==
    \/ moving = "Otp" /\ OtpNext /\ UNCHANGED <<sessionVars, moving>>
    \/ moving = "Sessions" /\ SessionNext /\ UNCHANGED <<otpVars, moving>>

AuthSpec == AuthInit /\ [][AuthNext]_<<otpVars, sessionVars, moving>>

Symmetry == Permutations(Requests) \cup Permutations(Codes)
=============================================================================
