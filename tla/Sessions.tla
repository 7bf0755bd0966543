------------------------------- MODULE Sessions -------------------------------
(***************************************************************************)
(* AuthService (src/src/modules/auth/auth.service.ts): sign-up, the two    *)
(* ways to sign in, the rotation of refresh tokens, logout and the reset   *)
(* of a password.  What the one-time codes do is in module Otp; here a     *)
(* code is accepted or not.                                                *)
(*                                                                         *)
(* A refresh token is a JWT of the user and the second it is signed in, so *)
(* that is what identifies it here: two tokens signed for a user in the    *)
(* same second are the same string, and the second row with it violates    *)
(* @unique (schema.prisma:134).  Revocation is kept in two places, the row *)
(* and the Redis key blacklist:<token>.                                    *)
(***************************************************************************)
EXTENDS Slots, Integers

CONSTANTS
    Users,
    LastSecond     \* bound: the clock stops there

ASSUME SessionsAssumption ==
    /\ None \notin Users \cup Requests \cup (Users \X (0 .. LastSecond))
    /\ Requests \cap (Users \X (0 .. LastSecond)) = {}
    /\ LastSecond \in Nat

VARIABLES
    call,         \* what each request in flight is doing
    now,          \* the clock, in seconds
    account,      \* the rows of users
    token,        \* the rows of refresh_tokens
    blacklist     \* the keys blacklist:<token>, of access and refresh tokens

stores == <<now, account, token, blacklist>>
sessionVars == <<call, stores>>

-----------------------------------------------------------------------------
Tokens == Users \X (0 .. LastSecond)

(* from: the token given in exchange, or None after a sign-in.             *)
NoToken == [status |-> "none", from |-> None]

NoAccount == [exists |-> FALSE, verified |-> FALSE, active |-> FALSE, password |-> FALSE]

(* "token" is the refresh token a request is about; "goal" is what comes   *)
(* after a code is accepted.                                               *)
NewCall(pc, u, goal, t) == [pc |-> pc, user |-> u, goal |-> goal, token |-> t]

Idle == NewCall("idle", None, "none", None)

SessionInit ==
    /\ call = [r \in Requests |-> Idle]
    /\ now = 0
    /\ account = [u \in Users |-> NoAccount]
    /\ token = [t \in Tokens |-> NoToken]
    /\ blacklist = {}

Access(t) == <<"access", t>>
Refresh(t) == <<"refresh", t>>

Start(r, pc, u, goal, t) ==
    /\ call[r] = Idle
    /\ call' = [call EXCEPT ![r] = NewCall(pc, u, goal, t)]
    /\ UNCHANGED stores

Goto(r, pc) == call' = [call EXCEPT ![r].pc = pc]

End(r) == call' = [call EXCEPT ![r] = Idle]

(* JwtStrategy.validate, of the access token signed together with t.       *)
Authenticated(t) ==
    /\ token[t].status # "none"
    /\ Access(t) \notin blacklist
    /\ account[t[1]].active /\ account[t[1]].verified

-----------------------------------------------------------------------------
(* Requests arrive.  Sending a code (generateOtp) ends each of the first   *)
(* three and changes nothing that is kept here.                            *)

Register(r, u) == ~account[u].exists /\ Start(r, "createUser", u, "none", None)

Login(r, u) ==
    /\ account[u].exists /\ account[u].verified /\ account[u].active
    /\ Start(r, IF account[u].password THEN "issue" ELSE "sendCode", u, "none", None)

RequestPasswordReset(r, u) ==
    account[u].exists /\ Start(r, "sendCode", u, "none", None)

(* A code is only sent to a phone that has an account.                     *)
VerifyOtpAndSignIn(r, u) == account[u].exists /\ Start(r, "verifyCode", u, "markVerified", None)

ResetPassword(r, u) == account[u].exists /\ Start(r, "verifyCode", u, "writePassword", None)

RefreshToken(r, t) ==
    /\ token[t].status # "none" /\ Refresh(t) \notin blacklist
    /\ Start(r, "revoke", t[1], "none", t)

Logout(r, t) == Authenticated(t) /\ Start(r, "blacklistAccess", t[1], "none", t)

SetPassword(r, t) == Authenticated(t) /\ Start(r, "setPassword", t[1], "none", t)

-----------------------------------------------------------------------------
(* Their steps.                                                            *)

SendCode(r) ==
    /\ call[r].pc = "sendCode"
    /\ End(r)
    /\ UNCHANGED stores

VerifyCode(r) ==
    /\ call[r].pc = "verifyCode"
    /\ Goto(r, call[r].goal) \/ End(r)
    /\ UNCHANGED stores

(* The create fails on users.phone when another request was faster.        *)
CreateUser(r) ==
    LET u == call[r].user IN
    /\ call[r].pc = "createUser"
    /\ \/ /\ account[u].exists
          /\ End(r)
          /\ UNCHANGED account
       \/ /\ ~account[u].exists
          /\ account' = [account EXCEPT ![u].exists = TRUE, ![u].active = TRUE]
          /\ Goto(r, "sendCode")
    /\ UNCHANGED <<now, token, blacklist>>

MarkVerified(r) ==
    LET u == call[r].user IN
    /\ call[r].pc = "markVerified"
    /\ account' = [account EXCEPT ![u].verified = TRUE]
    /\ Goto(r, "issue")
    /\ UNCHANGED <<now, token, blacklist>>

(* Slip: upsert instead of create, with revokedAt null.                    *)
IssueUpsert(r) ==
    /\ call[r].pc = "issue"
    /\ token' = [token EXCEPT ![<<call[r].user, now>>] =
                    [status |-> "live", from |-> call[r].token]]
    /\ End(r)
    /\ UNCHANGED <<now, account, blacklist>>

(* generateTokens: the clock is read, the tokens are signed and the row is *)
(* created; when the token exists the request fails with it.               *)
Issue(r) ==
    LET t == <<call[r].user, now>> IN
    /\ call[r].pc = "issue"
    /\ \/ /\ token[t].status = "none"
          /\ token' = [token EXCEPT ![t] = [status |-> "live", from |-> call[r].token]]
       \/ /\ token[t].status # "none"
          /\ UNCHANGED token
    /\ End(r)
    /\ UNCHANGED <<now, account, blacklist>>

(* Slip: findUnique, a look at revokedAt, and an update afterwards.        *)
RevokeAnyway(r) ==
    /\ call[r].pc = "revoke"
    /\ token' = [token EXCEPT ![call[r].token].status = "revoked"]
    /\ Goto(r, "blacklistOld")
    /\ UNCHANGED <<now, account, blacklist>>

(* updateMany WHERE revokedAt IS NULL; only the first request goes on.     *)
Revoke(r) ==
    LET t == call[r].token IN
    /\ call[r].pc = "revoke"
    /\ \/ /\ token[t].status = "live"
          /\ token' = [token EXCEPT ![t].status = "revoked"]
          /\ Goto(r, "blacklistOld")
       \/ /\ token[t].status = "revoked"
          /\ End(r)
          /\ UNCHANGED token
    /\ UNCHANGED <<now, account, blacklist>>

BlacklistOld(r) ==
    /\ call[r].pc = "blacklistOld"
    /\ blacklist' = blacklist \cup {Refresh(call[r].token)}
    /\ Goto(r, "issue")
    /\ UNCHANGED <<now, account, token>>

(* Slip: logout enters both tokens before it looks for the row.            *)
BlacklistBoth(r) ==
    /\ call[r].pc = "blacklistAccess"
    /\ \E t \in Tokens :
          /\ blacklist' = blacklist \cup {Access(call[r].token), Refresh(t)}
          /\ call' = [call EXCEPT ![r].pc = "revokeLogout", ![r].token = t]
    /\ UNCHANGED <<now, account, token>>

(* The refresh token comes with the request and may be any.                *)
BlacklistAccess(r) ==
    /\ call[r].pc = "blacklistAccess"
    /\ blacklist' = blacklist \cup {Access(call[r].token)}
    /\ \E t \in Tokens :
          call' = [call EXCEPT ![r] = NewCall("revokeLogout", call[r].user, call[r].goal, t)]
    /\ UNCHANGED <<now, account, token>>

(* Here the row is updated whether it was revoked before or not.           *)
RevokeLogout(r) ==
    LET t == call[r].token IN
    /\ call[r].pc = "revokeLogout"
    /\ \/ /\ token[t].status # "none"
          /\ token' = [token EXCEPT ![t].status = "revoked"]
          /\ Goto(r, "blacklistRefresh")
       \/ /\ token[t].status = "none"
          /\ End(r)
          /\ UNCHANGED token
    /\ UNCHANGED <<now, account, blacklist>>

BlacklistRefresh(r) ==
    /\ call[r].pc = "blacklistRefresh"
    /\ blacklist' = blacklist \cup {Refresh(call[r].token)}
    /\ End(r)
    /\ UNCHANGED <<now, account, token>>

WritePassword(r) ==
    /\ call[r].pc \in {"writePassword", "setPassword"}
    /\ account' = [account EXCEPT ![call[r].user].password = TRUE]
    /\ IF call[r].pc = "writePassword" THEN Goto(r, "revokeAll") ELSE End(r)
    /\ UNCHANGED <<now, token, blacklist>>

RevokeAll(r) ==
    /\ call[r].pc = "revokeAll"
    /\ token' = [t \in Tokens |-> IF t[1] = call[r].user /\ token[t].status = "live"
                                  THEN [token[t] EXCEPT !.status = "revoked"] ELSE token[t]]
    /\ End(r)
    /\ UNCHANGED <<now, account, blacklist>>

-----------------------------------------------------------------------------
(* An await throws or the instance crashes: what was done stays done.      *)
Fail(r) ==
    /\ call[r] # Idle
    /\ End(r)
    /\ UNCHANGED stores

(* Slip: an update that does not need the row to be there.                 *)
SetActiveUnseen(u, active) ==
    /\ account[u].active # active
    /\ account' = [account EXCEPT ![u].active = active]
    /\ UNCHANGED <<call, now, token, blacklist>>

(* AdminService.deactivateUser and activateUser, and deactivateAccount of  *)
(* UsersService: one update each.                                          *)
SetActive(u, active) ==
    /\ account[u].exists /\ account[u].active # active
    /\ account' = [account EXCEPT ![u].active = active]
    /\ UNCHANGED <<call, now, token, blacklist>>

Tick ==
    /\ now < LastSecond
    /\ now' = now + 1
    /\ UNCHANGED <<call, account, token, blacklist>>

Arrive(r) ==
    \/ \E u \in Users : \/ Register(r, u) \/ Login(r, u) \/ RequestPasswordReset(r, u)
                        \/ VerifyOtpAndSignIn(r, u) \/ ResetPassword(r, u)
    \/ \E t \in Tokens : RefreshToken(r, t) \/ Logout(r, t) \/ SetPassword(r, t)

Proceed(r) ==
    \/ SendCode(r) \/ VerifyCode(r) \/ CreateUser(r) \/ MarkVerified(r) \/ Issue(r)
    \/ Revoke(r) \/ BlacklistOld(r)
    \/ BlacklistAccess(r) \/ RevokeLogout(r) \/ BlacklistRefresh(r)
    \/ WritePassword(r) \/ RevokeAll(r)

SessionNext ==
    \/ \E r \in Requests : Arrive(r) \/ Proceed(r) \/ Fail(r)
    \/ \E u \in Users, active \in BOOLEAN : SetActive(u, active)
    \/ Tick

SessionSpec == SessionInit /\ [][SessionNext]_sessionVars

-----------------------------------------------------------------------------
Pc == {"idle", "sendCode", "verifyCode", "createUser", "markVerified", "issue", "revoke",
       "blacklistOld", "blacklistAccess", "revokeLogout", "blacklistRefresh",
       "writePassword", "setPassword", "revokeAll"}

SessionCall == [pc : Pc, user : Users \cup {None}, token : Tokens \cup {None},
                goal : {"none", "markVerified", "writePassword"}]

AccountRow == [exists : BOOLEAN, verified : BOOLEAN, active : BOOLEAN, password : BOOLEAN]

TokenRow == [status : {"none", "live", "revoked"}, from : Tokens \cup {None}]

SessionTypeOK ==
    /\ call \in [Requests -> SessionCall]
    /\ now \in 0 .. LastSecond
    /\ account \in [Users -> AccountRow]
    /\ \A u \in Users : ~account[u].exists => account[u] = NoAccount
    /\ token \in [Tokens -> TokenRow]
    /\ blacklist \in SUBSET ({"access", "refresh"} \X Tokens)

(* The request that has taken token t in exchange and not given one yet.   *)
Exchanges(r, t) == call[r].pc \in {"blacklistOld", "issue"} /\ call[r].token = t

Heirs(t) == {h \in Tokens : token[h].from = t} \cup {r \in Requests : Exchanges(r, t)}

(* A refresh token is exchanged once: however many requests present it, it *)
(* has one heir at most, counting the one being issued, and is not live    *)
(* itself then ("only the first request will match",                       *)
(* auth.service.ts:175-185).                                               *)
OneHeir ==
    \A t \in Tokens :
        /\ \A h, k \in Heirs(t) : h = k
        /\ Heirs(t) # {} => token[t].status = "revoked"

(* The quick refusal never refuses what the table still calls valid: a     *)
(* token is entered in Redis after its row was revoked                     *)
(* (auth.service.ts:177-196, :210-224).                                    *)
BlacklistedIsRevoked ==
    \A t \in Tokens : Refresh(t) \in blacklist => token[t].status = "revoked"

(* No token comes back, neither by a later refresh nor by one that is      *)
(* signed in the same second (auth.service.ts:177, :215, :272, :297).      *)
RevokedForGood ==
    [][\A t \in Tokens : token[t].status = "revoked" => token'[t].status = "revoked"]_sessionVars

Families == INSTANCE TokenFamilies WITH
    pledged <- {t \in Tokens : \E r \in Requests : Exchanges(r, t)}

(* However requests overlap and fail, refresh tokens are families in which *)
(* each member has one successor at most, of the same user and signed in a *)
(* later second, and no member that was revoked comes back                 *)
(* (auth.service.ts:171-200, :210-224, :272, :297).                        *)
RotationKeepsFamilies == Families!Spec

-----------------------------------------------------------------------------
(* What the steps rely on, for the proofs: what a request at a given step  *)
(* has been through already, and what it carries.                          *)
SignInPc == {"sendCode", "verifyCode", "createUser", "markVerified", "writePassword",
             "revokeAll"}

Justified(c) ==
    /\ c.pc # "idle" => c.user \in Users
    /\ c.pc \in SignInPc => c.token = None
    /\ c.pc = "verifyCode" => c.goal # "none"
    /\ c.pc \in {"verifyCode", "markVerified", "writePassword", "setPassword"} =>
          account[c.user].exists
    /\ c.pc \in {"revoke", "blacklistOld", "blacklistAccess", "revokeLogout",
                  "blacklistRefresh", "setPassword"} => c.token \in Tokens
    /\ c.pc = "revoke" => token[c.token].status # "none"
    /\ c.pc \in {"blacklistOld", "blacklistRefresh"} => token[c.token].status = "revoked"

(* The inductive invariant.                                                *)
SessionInv ==
    /\ SessionTypeOK
    /\ \A r \in Requests : Justified(call[r])
    /\ \A t \in Tokens : token[t].status = "none" => token[t] = NoToken
    /\ OneHeir
    /\ BlacklistedIsRevoked

(* A request exchanges a token of its own user for a later one: there are  *)
(* no tokens of seconds still to come.                                     *)
FamilyInv ==
    /\ \A t \in Tokens : token[t].status # "none" => t[2] <= now
    /\ \A r \in Requests : \A t \in Tokens :
          call[r].token = t /\ call[r].pc \in {"revoke", "blacklistOld", "issue"} =>
             t[1] = call[r].user
=============================================================================
