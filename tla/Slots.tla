-------------------------------- MODULE Slots --------------------------------
(* What modules of request handlers have in common that share no state.    *)
CONSTANTS
    Requests,   \* slots for requests in flight
    None        \* nothing: an empty column, a key that is not there
=============================================================================
