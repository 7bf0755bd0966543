---------------------------- MODULE MCListingsChat ----------------------------
(* A vehicle and what users write to each other about it or nothing: two   *)
(* requests at a time; two images, uploaded one or two at once; one key    *)
(* and at most two rooms and two messages.  Once the vehicle is deleted    *)
(* there is nothing left to do.                                            *)
(*                                                                         *)
(* As in MCAuth, the two modules have no variable in common and every      *)
(* property is about one of them: one of them moves in a behaviour.        *)
EXTENDS Listings, Chat, TLC

VARIABLE moving   \* the module that moves

ListingChatInit == ListingInit /\ ChatInit /\ moving \in {"Listings", "Chat"}

ListingChatNext ==
    \/ moving = "Listings" /\ ListingNext /\ UNCHANGED <<chatVars, moving>>
    \/ moving = "Chat" /\ ChatNext /\ UNCHANGED <<listingVars, moving>>

ListingChatSpec ==
    ListingChatInit /\ [][ListingChatNext]_<<listingVars, chatVars, moving>>

MCTalks == {t \in Users \X Users : t[1] # t[2]}

Symmetry ==
    Permutations(Images) \cup Permutations(Requests) \cup Permutations(Users)
        \cup Permutations(Rooms) \cup Permutations(Messages)
=============================================================================
