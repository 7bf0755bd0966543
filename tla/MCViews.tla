------------------------------- MODULE MCViews -------------------------------
(* One vehicle, viewed by two requests at a time and flushed by two crons. *)
(* With it deleted and its counter flushed nothing is left to do.          *)
EXTENDS Views
=============================================================================
