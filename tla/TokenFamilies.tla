---------------------------- MODULE TokenFamilies ----------------------------
(***************************************************************************)
(* What the rotation of refresh tokens promises: a sign-in founds a family *)
(* of tokens, and each further member is given in exchange for one that is *)
(* taken back, once for each, to the same user and signed later than it.   *)
(* A token that was taken back or revoked stays so.  No requests, no Redis *)
(* and no accounts: module Sessions is shown to implement this.            *)
(***************************************************************************)
EXTENDS Integers

CONSTANTS Users, Tokens, NoToken, None

VARIABLES
    token,    \* the status of each token and the one it was exchanged for
    pledged   \* the tokens taken back for which another one is due

familyVars == <<token, pledged>>

Init ==
    /\ token = [t \in Tokens |-> NoToken]
    /\ pledged = {}

Add(h, t) ==
    /\ token[h] = NoToken
    /\ token' = [token EXCEPT ![h] = [status |-> "live", from |-> t]]

Found(h) ==
    /\ Add(h, None)
    /\ UNCHANGED pledged

(* Whoever is first takes the token back, and may claim its heir.          *)
Take(t) ==
    /\ token[t].status = "live"
    /\ token' = [token EXCEPT ![t] = [@ EXCEPT !.status = "revoked"]]
    /\ pledged' = pledged \cup {t}

Give(t, h) ==
    /\ t \in pledged
    /\ h[1] = t[1] /\ h[2] > t[2]
    /\ Add(h, t)
    /\ pledged' = pledged \ {t}

(* The heir is never given: the user has to sign in again.                 *)
Forfeit(t) ==
    /\ pledged' = pledged \ {t}
    /\ UNCHANGED token

(* Tokens of one user are revoked, without heirs.                          *)
Revoke(S) ==
    /\ token' = [t \in Tokens |->
                   IF t \in S /\ token[t].status = "live"
                   THEN [token[t] EXCEPT !.status = "revoked"] ELSE token[t]]
    /\ UNCHANGED pledged

Next ==
    \/ \E t \in Tokens : Found(t) \/ Take(t) \/ Forfeit(t) \/ \E h \in Tokens : Give(t, h)
    \/ \E u \in Users : \E S \in SUBSET {t \in Tokens : t[1] = u} : Revoke(S)

Spec == Init /\ [][Next]_familyVars
=============================================================================
