--------------------------- MODULE SessionsProofs ---------------------------
(***************************************************************************)
(* The refresh tokens are exchanged once, refused only when they are       *)
(* revoked and never come back, whatever the number of users, of requests  *)
(* in flight and of seconds: proofs of the properties of Sessions.  A step *)
(* that changes no row is judged by what the request says of itself when   *)
(* it is done (CallKeepsInv); a step that changes rows of tokens by what   *)
(* it does to the heirs of every token (HeirsKept).                        *)
(***************************************************************************)
EXTENDS Sessions, TLAPS

-----------------------------------------------------------------------------
(* Calls.                                                                  *)

(* The state an ended or a new request is in.                              *)
LEMMA NewCallIsTyped ==
    ASSUME NEW pc \in Pc, NEW u \in Users \cup {None}, NEW t \in Tokens \cup {None},
           NEW goal \in {"none", "markVerified", "writePassword"}
    PROVE  NewCall(pc, u, goal, t) \in SessionCall
BY DEF NewCall, SessionCall

LEMMA IdleIsTyped == Idle \in SessionCall
BY NewCallIsTyped DEF Idle, Pc

LEMMA IdleIsJustified == Justified(Idle)
BY DEF Justified, Idle, NewCall, SignInPc

(* A step to another pc leaves the rest of the call alone.                 *)
LEMMA GotoIsNewCall ==
    ASSUME SessionTypeOK, NEW r \in Requests, NEW pc \in Pc, Goto(r, pc)
    PROVE  call' = [call EXCEPT ![r] =
                      NewCall(pc, call[r].user, call[r].goal, call[r].token)]
<1>1. [call[r] EXCEPT !.pc = pc] = NewCall(pc, call[r].user, call[r].goal, call[r].token)
  BY DEF SessionTypeOK, SessionCall, NewCall
<1> QED  BY <1>1 DEF Goto

LEMMA CallFields ==
    ASSUME SessionTypeOK, NEW r \in Requests
    PROVE  /\ call[r] \in SessionCall           /\ call[r].pc \in Pc
           /\ call[r].user \in Users \cup {None}
           /\ call[r].goal \in {"none", "markVerified", "writePassword"}
           /\ call[r].token \in Tokens \cup {None}
BY DEF SessionTypeOK, SessionCall

(* Only the call of the request that takes the step changes.               *)
LEMMA CallChange ==
    ASSUME SessionTypeOK, NEW r \in Requests, NEW c \in SessionCall,
           call' = [call EXCEPT ![r] = c]
    PROVE  /\ call' \in [Requests -> SessionCall]
           /\ call'[r] = c
           /\ \A q \in Requests \ {r} : call'[q] = call[q]
BY DEF SessionTypeOK

-----------------------------------------------------------------------------
(* Heirs.                                                                  *)

(* A step that gives no token an heir and revives none keeps OneHeir.      *)
LEMMA HeirsKept ==
    ASSUME OneHeir,
           \A t \in Tokens : Heirs(t)' \subseteq Heirs(t),
           \A t \in Tokens : token[t].status = "revoked" => token'[t].status = "revoked"
    PROVE  OneHeir'
BY DEF OneHeir

(* A step of request r after which r exchanges nothing it did not exchange *)
(* before, and that leaves the origin of every token alone, gives no token *)
(* an heir.                                                                *)
LEMMA NoNewHeir ==
    ASSUME SessionTypeOK, NEW r \in Requests, NEW c \in SessionCall,
           call' = [call EXCEPT ![r] = c],
           \A t \in Tokens : token'[t].from = token[t].from,
           c.pc \in {"blacklistOld", "issue"} /\ c.token \in Tokens => Exchanges(r, c.token)
    PROVE  \A t \in Tokens : Heirs(t)' \subseteq Heirs(t)
<1> SUFFICES ASSUME NEW t \in Tokens, NEW h \in Heirs(t)'
             PROVE  h \in Heirs(t)
  OBVIOUS
<1>1. CASE h \in Tokens /\ token'[h].from = t
  BY <1>1 DEF Heirs
<1>2. CASE h \in Requests /\ Exchanges(h, t)'
  BY <1>2, CallChange DEF Heirs, Exchanges
<1> QED  BY <1>1, <1>2 DEF Heirs

-----------------------------------------------------------------------------
(* What a step does to the call of r, when the rows stay as they are.      *)
LEMMA CallKeepsInv ==
    ASSUME SessionInv, NEW r \in Requests, NEW c \in SessionCall, Justified(c),
           call' = [call EXCEPT ![r] = c], UNCHANGED stores,
           c.pc \in {"blacklistOld", "issue"} /\ c.token \in Tokens => Exchanges(r, c.token)
    PROVE  SessionInv'
<1> USE DEF SessionInv, stores
<1>1. SessionTypeOK'
  BY CallChange DEF SessionTypeOK, Tokens
<1>2. \A q \in Requests : Justified(call[q])'
  BY CallChange DEF Justified, Tokens
<1>3. OneHeir'
  BY NoNewHeir, HeirsKept, Zenon
<1>4. BlacklistedIsRevoked'
  BY DEF BlacklistedIsRevoked
<1> QED  BY <1>1, <1>2, <1>3, <1>4

LEMMA EndKeepsInv ==
    ASSUME SessionInv, NEW r \in Requests, End(r), UNCHANGED stores
    PROVE  SessionInv'
<1>1. ~(Idle.pc \in {"blacklistOld", "issue"})
  BY DEF Idle, NewCall
<1> QED  BY <1>1, IdleIsTyped, IdleIsJustified, CallKeepsInv DEF End

(* A request arrives: it has no token to exchange.                         *)
LEMMA StartKeepsInv ==
    ASSUME SessionInv, NEW r \in Requests, NEW pc \in Pc, NEW u \in Users,
           NEW goal \in {"none", "markVerified", "writePassword"},
           NEW t \in Tokens \cup {None},
           Start(r, pc, u, goal, t), Justified(NewCall(pc, u, goal, t)),
           pc # "blacklistOld", pc = "issue" => t = None
    PROVE  SessionInv'
<1>1. NewCall(pc, u, goal, t) \in SessionCall
  BY NewCallIsTyped
<1>2. NewCall(pc, u, goal, t).pc = pc /\ NewCall(pc, u, goal, t).token = t
  BY DEF NewCall
<1>3. call' = [call EXCEPT ![r] = NewCall(pc, u, goal, t)] /\ UNCHANGED stores
  BY DEF Start
<1>4. None \notin Tokens
  BY SessionsAssumption DEF Tokens
<1> QED  BY <1>1, <1>2, <1>3, <1>4, CallKeepsInv

-----------------------------------------------------------------------------
(* Requests arrive.                                                        *)

LEMMA ArriveKeepsInv ==
    ASSUME SessionInv, NEW r \in Requests, Arrive(r)
    PROVE  SessionInv'
<1> USE DEF Justified, NewCall, Pc, SignInPc
<1>1. ASSUME NEW u \in Users, Register(r, u) PROVE SessionInv'
  BY <1>1, StartKeepsInv DEF Register
<1>2. ASSUME NEW u \in Users, Login(r, u) PROVE SessionInv'
  <2>1. CASE account[u].password
    BY <1>2, <2>1, StartKeepsInv DEF Login
  <2>2. CASE ~account[u].password
    BY <1>2, <2>2, StartKeepsInv DEF Login
  <2> QED  BY <2>1, <2>2
<1>3. ASSUME NEW u \in Users, RequestPasswordReset(r, u) PROVE SessionInv'
  BY <1>3, StartKeepsInv DEF RequestPasswordReset
<1>4. ASSUME NEW u \in Users, VerifyOtpAndSignIn(r, u) PROVE SessionInv'
  BY <1>4, StartKeepsInv DEF VerifyOtpAndSignIn
<1>5. ASSUME NEW u \in Users, ResetPassword(r, u) PROVE SessionInv'
  BY <1>5, StartKeepsInv DEF ResetPassword
<1>6. ASSUME NEW t \in Tokens, RefreshToken(r, t) PROVE SessionInv'
  <2>1. t[1] \in Users
    BY DEF Tokens
  <2> QED  BY <1>6, <2>1, StartKeepsInv DEF RefreshToken
<1>7. ASSUME NEW t \in Tokens, Logout(r, t) PROVE SessionInv'
  <2>1. t[1] \in Users
    BY DEF Tokens
  <2> QED  BY <1>7, <2>1, StartKeepsInv DEF Logout
<1>8. ASSUME NEW t \in Tokens, SetPassword(r, t) PROVE SessionInv'
  <2>1. t[1] \in Users
    BY DEF Tokens
  <2>2. account[t[1]].exists
    BY <1>8, <2>1 DEF SetPassword, Authenticated, SessionInv, SessionTypeOK, NoAccount
  <2> QED  BY <1>8, <2>1, <2>2, StartKeepsInv DEF SetPassword
<1> QED  BY <1>1, <1>2, <1>3, <1>4, <1>5, <1>6, <1>7, <1>8 DEF Arrive

-----------------------------------------------------------------------------
(* Steps that change no row of a token.                                    *)

LEMMA SendCodeKeepsInv ==
    ASSUME SessionInv, NEW r \in Requests, SendCode(r)
    PROVE  SessionInv'
BY EndKeepsInv DEF SendCode

LEMMA FailKeepsInv ==
    ASSUME SessionInv, NEW r \in Requests, Fail(r)
    PROVE  SessionInv'
BY EndKeepsInv DEF Fail

LEMMA VerifyCodeKeepsInv ==
    ASSUME SessionInv, NEW r \in Requests, VerifyCode(r)
    PROVE  SessionInv'
<1>1. CASE End(r)
  BY <1>1, EndKeepsInv DEF VerifyCode
<1>2. CASE Goto(r, call[r].goal)
  <2> DEFINE c == NewCall(call[r].goal, call[r].user, call[r].goal, call[r].token)
  <2>1. /\ call[r].goal \in {"markVerified", "writePassword"} /\ call[r].token = None
        /\ call[r].user \in Users /\ account[call[r].user].exists
        /\ UNCHANGED stores
    BY CallFields DEF VerifyCode, SessionInv, Justified, SignInPc
  <2>2. c \in SessionCall /\ call' = [call EXCEPT ![r] = c]
    BY <1>2, <2>1, GotoIsNewCall, NewCallIsTyped DEF Pc, SessionInv
  <2>3. Justified(c)
    BY <2>1 DEF Justified, NewCall, SignInPc
  <2>4. ~(c.pc \in {"blacklistOld", "issue"})
    BY <2>1 DEF NewCall
  <2> HIDE DEF c
  <2> QED  BY <2>1, <2>2, <2>3, <2>4, CallKeepsInv
<1> QED  BY <1>1, <1>2 DEF VerifyCode

(* A step that writes a row of users and removes none.                     *)
LEMMA AccountStepKeepsInv ==
    ASSUME SessionInv, NEW r \in Requests, NEW c \in SessionCall, Justified(c),
           call' = [call EXCEPT ![r] = c], UNCHANGED <<now, token, blacklist>>,
           account' \in [Users -> AccountRow],
           \A u \in Users : account[u].exists => account'[u].exists,
           \A u \in Users : ~account'[u].exists => account'[u] = NoAccount,
           c.pc \in {"blacklistOld", "issue"} /\ c.token \in Tokens => Exchanges(r, c.token)
    PROVE  SessionInv'
<1> USE DEF SessionInv
<1>1. SessionTypeOK'
  BY CallChange DEF SessionTypeOK, Tokens
<1>2. \A q \in Requests : Justified(call[q])'
  BY CallChange DEF Justified, Tokens, SignInPc
<1>3. OneHeir'
  BY NoNewHeir, HeirsKept, Zenon
<1>4. BlacklistedIsRevoked'
  BY DEF BlacklistedIsRevoked
<1> QED  BY <1>1, <1>2, <1>3, <1>4

LEMMA CreateUserKeepsInv ==
    ASSUME SessionInv, NEW r \in Requests, CreateUser(r)
    PROVE  SessionInv'
<1> DEFINE u == call[r].user
<1>1. CASE account[u].exists /\ End(r) /\ UNCHANGED account
  BY <1>1, EndKeepsInv DEF CreateUser, stores
<1>2. CASE /\ account' = [account EXCEPT ![u].exists = TRUE, ![u].active = TRUE]
           /\ Goto(r, "sendCode")
  <2> DEFINE c == NewCall("sendCode", u, call[r].goal, call[r].token)
  <2>1. u \in Users /\ call[r].token = None
    BY DEF CreateUser, SessionInv, Justified, SignInPc
  <2>2. c \in SessionCall /\ call' = [call EXCEPT ![r] = c]
    BY <1>2, CallFields, GotoIsNewCall, NewCallIsTyped DEF Pc, SessionInv
  <2>3. Justified(c) /\ ~(c.pc \in {"blacklistOld", "issue"})
    BY <2>1 DEF Justified, NewCall, SignInPc
  <2>4. /\ account' \in [Users -> AccountRow]
        /\ account'[u].exists /\ \A v \in Users \ {u} : account'[v] = account[v]
    <3>1. account \in [Users -> AccountRow] /\ account[u] \in AccountRow
      BY <2>1 DEF SessionInv, SessionTypeOK
    <3>2. account' = [account EXCEPT ![u] = [account[u] EXCEPT !.exists = TRUE,
                                                              !.active = TRUE]]
      BY <1>2, <2>1, <3>1
    <3>3. [account[u] EXCEPT !.exists = TRUE, !.active = TRUE] \in AccountRow
      BY <3>1 DEF AccountRow
    <3>4. [account[u] EXCEPT !.exists = TRUE, !.active = TRUE].exists
      BY <3>1 DEF AccountRow
    <3> QED  BY <2>1, <3>1, <3>2, <3>3, <3>4
  <2>5. \A v \in Users : ~account'[v].exists => account'[v] = NoAccount
    BY <2>4 DEF SessionInv, SessionTypeOK
  <2>6. \A v \in Users : account[v].exists => account'[v].exists
    BY <2>4
  <2>7. UNCHANGED <<now, token, blacklist>>
    BY DEF CreateUser
  <2> HIDE DEF c, u
  <2> QED  BY <2>2, <2>3, <2>4, <2>5, <2>6, <2>7, AccountStepKeepsInv
<1> QED  BY <1>1, <1>2 DEF CreateUser

LEMMA MarkVerifiedKeepsInv ==
    ASSUME SessionInv, NEW r \in Requests, MarkVerified(r)
    PROVE  SessionInv'
<1> DEFINE u == call[r].user
           c == NewCall("issue", u, call[r].goal, call[r].token)
<1>1. u \in Users /\ call[r].token = None /\ account[u].exists
  BY DEF MarkVerified, SessionInv, Justified, SignInPc
<1>2. c \in SessionCall /\ call' = [call EXCEPT ![r] = c]
  BY CallFields, GotoIsNewCall, NewCallIsTyped DEF Pc, SessionInv, MarkVerified
<1>3. Justified(c) /\ c.token = None
  BY <1>1 DEF Justified, NewCall, SignInPc
<1>4. /\ account' \in [Users -> AccountRow]
      /\ account'[u].exists /\ \A v \in Users \ {u} : account'[v] = account[v]
  <2>1. account \in [Users -> AccountRow] /\ account[u] \in AccountRow
    BY <1>1 DEF SessionInv, SessionTypeOK
  <2>2. account' = [account EXCEPT ![u] = [account[u] EXCEPT !.verified = TRUE]]
    BY <1>1, <2>1 DEF MarkVerified
  <2>3. [account[u] EXCEPT !.verified = TRUE] \in AccountRow
    BY <2>1 DEF AccountRow
  <2>4. [account[u] EXCEPT !.verified = TRUE].exists
    BY <1>1, <2>1 DEF AccountRow
  <2> QED  BY <1>1, <2>1, <2>2, <2>3, <2>4
<1>5. \A v \in Users : ~account'[v].exists => account'[v] = NoAccount
  BY <1>4 DEF SessionInv, SessionTypeOK
<1>6. \A v \in Users : account[v].exists => account'[v].exists
  BY <1>4
<1>7. UNCHANGED <<now, token, blacklist>> /\ None \notin Tokens
  BY SessionsAssumption DEF MarkVerified, Tokens
<1> HIDE DEF c, u
<1> QED  BY <1>2, <1>3, <1>4, <1>5, <1>6, <1>7, AccountStepKeepsInv

LEMMA WritePasswordKeepsInv ==
    ASSUME SessionInv, NEW r \in Requests, WritePassword(r)
    PROVE  SessionInv'
<1> DEFINE u == call[r].user
           c == IF call[r].pc = "writePassword"
                THEN NewCall("revokeAll", u, call[r].goal, call[r].token) ELSE Idle
<1>1. u \in Users /\ account[u].exists /\ (call[r].pc = "writePassword" => call[r].token = None)
  BY DEF WritePassword, SessionInv, Justified, SignInPc
<1>2. c \in SessionCall /\ call' = [call EXCEPT ![r] = c]
  BY CallFields, GotoIsNewCall, NewCallIsTyped, IdleIsTyped
     DEF Pc, SessionInv, WritePassword, End
<1>3. Justified(c) /\ ~(c.pc \in {"blacklistOld", "issue"})
  BY <1>1, IdleIsJustified DEF Justified, NewCall, SignInPc, Idle
<1>4. /\ account' \in [Users -> AccountRow]
      /\ account'[u].exists /\ \A v \in Users \ {u} : account'[v] = account[v]
  <2>1. account \in [Users -> AccountRow] /\ account[u] \in AccountRow
    BY <1>1 DEF SessionInv, SessionTypeOK
  <2>2. account' = [account EXCEPT ![u] = [account[u] EXCEPT !.password = TRUE]]
    BY <1>1, <2>1 DEF WritePassword
  <2>3. [account[u] EXCEPT !.password = TRUE] \in AccountRow
    BY <2>1 DEF AccountRow
  <2>4. [account[u] EXCEPT !.password = TRUE].exists
    BY <1>1, <2>1 DEF AccountRow
  <2> QED  BY <1>1, <2>1, <2>2, <2>3, <2>4
<1>5. \A v \in Users : ~account'[v].exists => account'[v] = NoAccount
  BY <1>4 DEF SessionInv, SessionTypeOK
<1>6. \A v \in Users : account[v].exists => account'[v].exists
  BY <1>4
<1>7. UNCHANGED <<now, token, blacklist>>
  BY DEF WritePassword
<1> HIDE DEF c, u
<1> QED  BY <1>2, <1>3, <1>4, <1>5, <1>6, <1>7, AccountStepKeepsInv

LEMMA SetActiveKeepsInv ==
    ASSUME SessionInv, NEW u \in Users, NEW active \in BOOLEAN, SetActive(u, active)
    PROVE  SessionInv'
<1> USE DEF SessionInv, SetActive
<1>1. /\ account' \in [Users -> AccountRow]
      /\ \A v \in Users : account[v].exists => account'[v].exists
      /\ \A v \in Users \ {u} : account'[v] = account[v]
      /\ account'[u].exists
  <2>1. account \in [Users -> AccountRow] /\ account[u] \in AccountRow
    BY DEF SessionTypeOK
  <2>2. account' = [account EXCEPT ![u] = [account[u] EXCEPT !.active = active]]
    BY <2>1
  <2>3. [account[u] EXCEPT !.active = active] \in AccountRow
    BY <2>1 DEF AccountRow
  <2>4. [account[u] EXCEPT !.active = active].exists
    BY <2>1 DEF AccountRow
  <2> QED  BY <2>1, <2>2, <2>3, <2>4
<1>2. SessionTypeOK'
  BY <1>1 DEF SessionTypeOK, Tokens
<1>3. \A q \in Requests : Justified(call[q])'
  BY <1>1 DEF Justified, Tokens, SignInPc
<1>4. OneHeir' /\ BlacklistedIsRevoked'
  BY DEF OneHeir, Heirs, Exchanges, BlacklistedIsRevoked
<1> QED  BY <1>2, <1>3, <1>4

LEMMA TickKeepsInv ==
    ASSUME SessionInv, Tick
    PROVE  SessionInv'
<1> USE DEF SessionInv, Tick
<1>1. SessionTypeOK'
  BY SessionsAssumption DEF SessionTypeOK, Tokens
<1>2. \A q \in Requests : Justified(call[q])'
  BY DEF Justified, Tokens
<1>3. OneHeir' /\ BlacklistedIsRevoked'
  BY DEF OneHeir, Heirs, Exchanges, BlacklistedIsRevoked
<1> QED  BY <1>1, <1>2, <1>3

-----------------------------------------------------------------------------
(* Steps that change rows of tokens or keys of the blacklist.              *)

(* No row of a token is lost or revived.                                   *)
TokensAdvance ==
    /\ token' \in [Tokens -> TokenRow]
    /\ \A t \in Tokens :
          /\ token[t].status # "none" => token'[t].status # "none"
          /\ token[t].status = "revoked" => token'[t].status = "revoked"
          /\ token'[t].status = "none" => token'[t] = NoToken

(* The call is over, or about a token that is revoked now.                 *)
LEMMA TokenStepKeepsInv ==
    ASSUME SessionInv, NEW r \in Requests, NEW c \in SessionCall,
           call' = [call EXCEPT ![r] = c], UNCHANGED <<now, account, blacklist>>,
           TokensAdvance, OneHeir',
           \/ c.pc = "idle"
           \/ /\ c.pc \in {"blacklistOld", "blacklistRefresh"} /\ c.user \in Users
              /\ c.token \in Tokens /\ token'[c.token].status = "revoked"
    PROVE  SessionInv'
<1> USE DEF SessionInv, TokensAdvance
<1>1. SessionTypeOK'
  BY CallChange DEF SessionTypeOK, Tokens
<1>2. ASSUME NEW q \in Requests PROVE Justified(call[q])'
  <2>1. CASE q = r
    BY <2>1, CallChange DEF Justified, Tokens, SignInPc
  <2>2. CASE q # r
    BY <2>2, CallChange, CallFields DEF Justified, Tokens, SignInPc
  <2> QED  BY <2>1, <2>2
<1>3. BlacklistedIsRevoked'
  BY DEF BlacklistedIsRevoked, Tokens
<1>4. \A t \in Tokens' : token'[t].status = "none" => token'[t] = NoToken
  BY DEF Tokens
<1> QED  BY <1>1, <1>2, <1>3, <1>4

(* Rows of tokens are revoked, and by whom they were issued stays.         *)
LEMMA RevokingAdvances ==
    ASSUME SessionInv, NEW S \in SUBSET Tokens,
           \A t \in S : token[t].status # "none",
           token' = [t \in Tokens |-> IF t \in S THEN [token[t] EXCEPT !.status = "revoked"]
                                      ELSE token[t]]
    PROVE  /\ TokensAdvance
           /\ \A t \in Tokens : token'[t].from = token[t].from
           /\ \A t \in S : token'[t].status = "revoked"
<1>1. \A t \in Tokens : token[t] \in TokenRow
  BY DEF SessionInv, SessionTypeOK
<1>2. \A t \in Tokens : [token[t] EXCEPT !.status = "revoked"] \in TokenRow
  BY <1>1 DEF TokenRow
<1>3. \A t \in Tokens : token'[t].from = token[t].from
  BY <1>1 DEF TokenRow
<1>4. \A t \in S : token'[t].status = "revoked"
  BY <1>1 DEF TokenRow
<1>5. \A t \in Tokens \ S : token'[t] = token[t]
  OBVIOUS
<1>6. token' \in [Tokens -> TokenRow]
  BY <1>1, <1>2
<1>7. \A t \in Tokens : token'[t].status = "none" => token'[t] = NoToken
  BY <1>4, <1>5 DEF SessionInv
<1> QED  BY <1>3, <1>4, <1>5, <1>6, <1>7 DEF TokensAdvance

(* The update of one row by its id.                                        *)
LEMMA RevokeOneAdvances ==
    ASSUME SessionInv, NEW t \in Tokens, token[t].status # "none",
           token' = [token EXCEPT ![t].status = "revoked"]
    PROVE  /\ TokensAdvance
           /\ \A s \in Tokens : token'[s].from = token[s].from
           /\ token'[t].status = "revoked"
<1>1. token' = [s \in Tokens |-> IF s \in {t} THEN [token[s] EXCEPT !.status = "revoked"]
                                 ELSE token[s]]
  BY DEF SessionInv, SessionTypeOK
<1> QED  BY <1>1, RevokingAdvances

(* Logout revokes and exchanges nothing.                                   *)
LEMMA RevokeLogoutKeepsInv ==
    ASSUME SessionInv, NEW r \in Requests, RevokeLogout(r)
    PROVE  SessionInv'
<1> DEFINE t == call[r].token
<1>1. CASE token[t].status = "none" /\ End(r) /\ UNCHANGED token
  BY <1>1, EndKeepsInv DEF RevokeLogout, stores
<1>2. CASE /\ token[t].status # "none"
           /\ token' = [token EXCEPT ![t].status = "revoked"]
           /\ Goto(r, "blacklistRefresh")
  <2> DEFINE c == NewCall("blacklistRefresh", call[r].user, call[r].goal, t)
  <2>1. call[r].user \in Users /\ t \in Tokens /\ UNCHANGED <<now, account, blacklist>>
    BY DEF RevokeLogout, SessionInv, Justified
  <2>2. c \in SessionCall /\ call' = [call EXCEPT ![r] = c]
    BY <1>2, CallFields, GotoIsNewCall, NewCallIsTyped DEF Pc, SessionInv
  <2>3. c.pc = "blacklistRefresh" /\ c.user = call[r].user /\ c.token = t
    BY DEF NewCall
  <2>4. TokensAdvance /\ token'[t].status = "revoked"
    BY <1>2, <2>1, RevokeOneAdvances
  <2>5. OneHeir'
    BY <1>2, <2>1, <2>2, <2>3, <2>4, RevokeOneAdvances, NoNewHeir, HeirsKept
       DEF SessionInv, TokensAdvance
  <2> HIDE DEF c, t
  <2> QED  BY <2>1, <2>2, <2>3, <2>4, <2>5, TokenStepKeepsInv
<1> QED  BY <1>1, <1>2 DEF RevokeLogout

(* Only live rows are revoked.                                             *)
LEMMA RevokeAllKeepsInv ==
    ASSUME SessionInv, NEW r \in Requests, RevokeAll(r)
    PROVE  SessionInv'
<1> DEFINE S == {t \in Tokens : t[1] = call[r].user /\ token[t].status = "live"}
<1>1. token' = [t \in Tokens |-> IF t \in S THEN [token[t] EXCEPT !.status = "revoked"]
                                 ELSE token[t]]
  BY DEF RevokeAll
<1>2. TokensAdvance /\ \A t \in Tokens : token'[t].from = token[t].from
  <2>1. S \in SUBSET Tokens /\ \A t \in S : token[t].status # "none"
    OBVIOUS
  <2> HIDE DEF S
  <2> QED  BY <1>1, <2>1, RevokingAdvances
<1>3. call' = [call EXCEPT ![r] = Idle] /\ Idle.pc = "idle" /\ UNCHANGED <<now, account, blacklist>>
  BY DEF RevokeAll, End, Idle, NewCall
<1>4. OneHeir'
  BY <1>2, <1>3, IdleIsTyped, NoNewHeir, HeirsKept DEF SessionInv, TokensAdvance
<1> QED  BY <1>2, <1>3, <1>4, IdleIsTyped, TokenStepKeepsInv

(* A refresh: the live token is revoked and the request is its only heir,  *)
(* since a live token has none.                                            *)
LEMMA RevokeKeepsInv ==
    ASSUME SessionInv, NEW r \in Requests, Revoke(r)
    PROVE  SessionInv'
<1> DEFINE t == call[r].token
<1>1. CASE End(r) /\ UNCHANGED token
  BY <1>1, EndKeepsInv DEF Revoke, stores
<1>2. CASE /\ token[t].status = "live"
           /\ token' = [token EXCEPT ![t].status = "revoked"]
           /\ Goto(r, "blacklistOld")
  <2> DEFINE c == NewCall("blacklistOld", call[r].user, call[r].goal, t)
  <2>1. call[r].user \in Users /\ t \in Tokens /\ UNCHANGED <<now, account, blacklist>>
    BY DEF Revoke, SessionInv, Justified
  <2>2. c \in SessionCall /\ call' = [call EXCEPT ![r] = c]
    BY <1>2, CallFields, GotoIsNewCall, NewCallIsTyped DEF Pc, SessionInv
  <2>3. c.pc = "blacklistOld" /\ c.user = call[r].user /\ c.token = t
    BY DEF NewCall
  <2>4. /\ TokensAdvance /\ token'[t].status = "revoked"
        /\ \A s \in Tokens : token'[s].from = token[s].from
    BY <1>2, <2>1, RevokeOneAdvances
  <2>5. Heirs(t) = {}
    BY <1>2, <2>1 DEF SessionInv, OneHeir
  <2>6. \A q \in Requests, s \in Tokens :
           Exchanges(q, s)' => Exchanges(q, s) \/ (q = r /\ s = t)
    BY <2>2, <2>3, CallChange DEF Exchanges, SessionInv
  <2>7. \A s \in Tokens : Heirs(s)' \subseteq Heirs(s) \cup {h \in {r} : s = t}
    BY <2>4, <2>6 DEF Heirs, Tokens
  <2>8. OneHeir'
    <3> SUFFICES ASSUME NEW s \in Tokens
                 PROVE  /\ \A h, k \in Heirs(s)' : h = k
                        /\ Heirs(s)' # {} => token'[s].status = "revoked"
      BY DEF OneHeir, Tokens
    <3>1. CASE s = t
      BY <2>4, <2>5, <2>7, <3>1
    <3>2. CASE s # t
      BY <2>4, <2>7, <3>2 DEF SessionInv, OneHeir, TokensAdvance
    <3> QED  BY <3>1, <3>2
  <2> HIDE DEF c, t
  <2> QED  BY <2>1, <2>2, <2>3, <2>4, <2>8, TokenStepKeepsInv
<1> QED  BY <1>1, <1>2 DEF Revoke

(* The new token takes the request's place as the heir of the one that was *)
(* given for it; nothing descends from a token that was signed just now.   *)
LEMMA IssueKeepsInv ==
    ASSUME SessionInv, NEW r \in Requests, Issue(r)
    PROVE  SessionInv'
<1> DEFINE t == <<call[r].user, now>>
<1> PICK old \in Tokens \cup {None} : old = call[r].token
  BY CallFields DEF SessionInv
<1>1. CASE token[t].status # "none" /\ UNCHANGED token
  BY <1>1, EndKeepsInv DEF Issue, stores
<1>2. CASE /\ token[t].status = "none"
           /\ token' = [token EXCEPT ![t] = [status |-> "live", from |-> old]]
  <2>1. /\ t \in Tokens /\ old \in Tokens \cup {None} /\ None \notin Tokens
        /\ UNCHANGED <<now, account, blacklist>>
    BY CallFields, SessionsAssumption DEF Issue, SessionInv, SessionTypeOK, Justified, Tokens
  <2>2. Idle \in SessionCall /\ call' = [call EXCEPT ![r] = Idle] /\ Idle.pc = "idle"
    BY IdleIsTyped DEF Issue, End, Idle, NewCall
  <2>3. token[t] = NoToken
    BY <1>2, <2>1 DEF SessionInv
  <2>4. /\ token' \in [Tokens -> TokenRow] /\ token'[t].status = "live"
        /\ token'[t].from = old /\ \A s \in Tokens \ {t} : token'[s] = token[s]
    BY <1>2, <2>1 DEF SessionInv, SessionTypeOK, TokenRow
  <2>5. TokensAdvance
    BY <1>2, <2>1, <2>3, <2>4 DEF TokensAdvance, SessionInv
  <2>6. old \in Tokens => r \in Heirs(old)
    BY DEF Heirs, Exchanges, Issue
  <2>7. \A q \in Requests, s \in Tokens : Exchanges(q, s)' => Exchanges(q, s) /\ q # r
    BY <2>2, CallChange DEF Exchanges, SessionInv
  <2>8. \A s \in Tokens : s # old => Heirs(s)' \subseteq Heirs(s)
    BY <2>1, <2>4, <2>7 DEF Heirs, Tokens
  <2>9. old \in Tokens => \A h \in Heirs(old)' : h = <<call[r].user, now>>
    <3> SUFFICES ASSUME old \in Tokens, NEW h \in Heirs(old)', h # <<call[r].user, now>>
                 PROVE  FALSE
      OBVIOUS
    <3>1. (\A k \in Heirs(old) : k = r) /\ r \notin Tokens
      BY <2>6, SessionsAssumption DEF SessionInv, OneHeir, Tokens
    <3>2. CASE h \in Tokens /\ token'[h].from = old
      BY <2>4, <3>1, <3>2 DEF Heirs
    <3>3. CASE h \in Requests /\ Exchanges(h, old)'
      <4>1. h \in Heirs(old) /\ h # r
        BY <2>7, <3>3 DEF Heirs
      <4> QED  BY <3>1, <4>1
    <3> QED  BY <3>2, <3>3 DEF Heirs, Tokens
  <2>10. OneHeir'
    <3> SUFFICES ASSUME NEW s \in Tokens
                 PROVE  /\ \A h, k \in Heirs(s)' : h = k
                        /\ Heirs(s)' # {} => token'[s].status = "revoked"
      BY DEF OneHeir, Tokens
    <3>1. CASE s = old
      BY <2>5, <2>6, <2>9, <3>1 DEF SessionInv, OneHeir, TokensAdvance
    <3>2. CASE s # old
      BY <2>5, <2>8, <3>2 DEF SessionInv, OneHeir, TokensAdvance
    <3> QED  BY <3>1, <3>2
  <2> HIDE DEF t
  <2> QED  BY <2>1, <2>2, <2>5, <2>10, TokenStepKeepsInv
<1> QED  BY <1>1, <1>2 DEF Issue

(* A key is added to the blacklist and no row changes; a refresh token that *)
(* is added is revoked.                                                    *)
LEMMA BlacklistStepKeepsInv ==
    ASSUME SessionInv, NEW r \in Requests, NEW c \in SessionCall, Justified(c),
           call' = [call EXCEPT ![r] = c], UNCHANGED <<now, account, token>>,
           NEW key \in {"access", "refresh"} \X Tokens, blacklist' = blacklist \cup {key},
           \A t \in Tokens : key = Refresh(t) => token[t].status = "revoked",
           c.pc \in {"blacklistOld", "issue"} /\ c.token \in Tokens => Exchanges(r, c.token)
    PROVE  SessionInv'
<1> USE DEF SessionInv
<1>1. SessionTypeOK'
  BY CallChange DEF SessionTypeOK, Tokens
<1>2. \A q \in Requests : Justified(call[q])'
  BY CallChange DEF Justified, Tokens
<1>3. OneHeir'
  BY NoNewHeir, HeirsKept, Zenon
<1>4. BlacklistedIsRevoked'
  BY DEF BlacklistedIsRevoked, Refresh, Tokens
<1> QED  BY <1>1, <1>2, <1>3, <1>4

(* The exchange goes on: the call is still about the token it revoked.     *)
LEMMA BlacklistOldKeepsInv ==
    ASSUME SessionInv, NEW r \in Requests, BlacklistOld(r)
    PROVE  SessionInv'
<1> DEFINE c == NewCall("issue", call[r].user, call[r].goal, call[r].token)
<1> PICK t \in Tokens : t = call[r].token
  BY DEF BlacklistOld, SessionInv, Justified
<1>1. call[r].user \in Users /\ token[t].status = "revoked"
  BY DEF BlacklistOld, SessionInv, Justified
<1>2. c \in SessionCall /\ call' = [call EXCEPT ![r] = c]
  BY CallFields, GotoIsNewCall, NewCallIsTyped DEF BlacklistOld, Pc, SessionInv
<1>3. Justified(c) /\ c.token = t
  BY <1>1 DEF Justified, NewCall, SignInPc
<1>4. Exchanges(r, t)
  BY DEF Exchanges, BlacklistOld
<1>5. Refresh(t) \in {"access", "refresh"} \X Tokens
  BY DEF Refresh
<1>6. \A s \in Tokens : Refresh(t) = Refresh(s) => token[s].status = "revoked"
  BY <1>1 DEF Refresh
<1>7. blacklist' = blacklist \cup {Refresh(t)} /\ UNCHANGED <<now, account, token>>
  BY DEF BlacklistOld
<1> HIDE DEF c
<1> QED  BY <1>2, <1>3, <1>4, <1>5, <1>6, <1>7, BlacklistStepKeepsInv

(* An access token is no refresh token.                                    *)
LEMMA BlacklistAccessKeepsInv ==
    ASSUME SessionInv, NEW r \in Requests, BlacklistAccess(r)
    PROVE  SessionInv'
<1> PICK s \in Tokens :
       call' = [call EXCEPT ![r] = NewCall("revokeLogout", call[r].user, call[r].goal, s)]
  BY DEF BlacklistAccess
<1> DEFINE c == NewCall("revokeLogout", call[r].user, call[r].goal, s)
<1> PICK t \in Tokens : t = call[r].token
  BY DEF BlacklistAccess, SessionInv, Justified
<1>1. call[r].user \in Users
  BY DEF BlacklistAccess, SessionInv, Justified
<1>2. c \in SessionCall /\ call' = [call EXCEPT ![r] = c]
  BY CallFields, NewCallIsTyped DEF Pc, SessionInv
<1>3. Justified(c) /\ ~(c.pc \in {"blacklistOld", "issue"})
  BY <1>1 DEF Justified, NewCall, SignInPc
<1>4. Access(t) \in {"access", "refresh"} \X Tokens /\ \A u \in Tokens : Access(t) # Refresh(u)
  BY DEF Access, Refresh
<1>5. blacklist' = blacklist \cup {Access(t)} /\ UNCHANGED <<now, account, token>>
  BY DEF BlacklistAccess
<1> HIDE DEF c
<1> QED  BY <1>2, <1>3, <1>4, <1>5, BlacklistStepKeepsInv

LEMMA BlacklistRefreshKeepsInv ==
    ASSUME SessionInv, NEW r \in Requests, BlacklistRefresh(r)
    PROVE  SessionInv'
<1> PICK t \in Tokens : t = call[r].token
  BY DEF BlacklistRefresh, SessionInv, Justified
<1>1. token[t].status = "revoked"
  BY DEF BlacklistRefresh, SessionInv, Justified
<1>2. Idle \in SessionCall /\ call' = [call EXCEPT ![r] = Idle] /\ Idle.pc = "idle"
  BY IdleIsTyped DEF BlacklistRefresh, End, Idle, NewCall
<1>3. Refresh(t) \in {"access", "refresh"} \X Tokens
  BY DEF Refresh
<1>4. \A s \in Tokens : Refresh(t) = Refresh(s) => token[s].status = "revoked"
  BY <1>1 DEF Refresh
<1>5. blacklist' = blacklist \cup {Refresh(t)} /\ UNCHANGED <<now, account, token>>
  BY DEF BlacklistRefresh
<1> QED  BY <1>2, <1>3, <1>4, <1>5, IdleIsJustified, BlacklistStepKeepsInv

-----------------------------------------------------------------------------
(* The theorems.                                                           *)

LEMMA SessionInitHolds == SessionInit => SessionInv
<1> SUFFICES ASSUME SessionInit PROVE SessionInv
  OBVIOUS
<1>1. SessionTypeOK
  BY SessionsAssumption, IdleIsTyped
     DEF SessionInit, SessionTypeOK, NoAccount, NoToken, AccountRow, TokenRow
<1>2. \A r \in Requests : Justified(call[r])
  BY IdleIsJustified DEF SessionInit
<1>3. \A t \in Tokens : Heirs(t) = {}
  BY SessionsAssumption DEF SessionInit, Heirs, Exchanges, NoToken, Idle, NewCall, Tokens
<1>4. OneHeir /\ BlacklistedIsRevoked
  BY <1>3 DEF SessionInit, OneHeir, BlacklistedIsRevoked
<1>5. \A t \in Tokens : token[t].status = "none" => token[t] = NoToken
  BY DEF SessionInit
<1> QED  BY <1>1, <1>2, <1>4, <1>5 DEF SessionInv

LEMMA ProceedKeepsInv ==
    ASSUME SessionInv, NEW r \in Requests, Proceed(r)
    PROVE  SessionInv'
BY SendCodeKeepsInv, VerifyCodeKeepsInv, CreateUserKeepsInv, MarkVerifiedKeepsInv,
   IssueKeepsInv, RevokeKeepsInv, BlacklistOldKeepsInv, BlacklistAccessKeepsInv,
   RevokeLogoutKeepsInv, BlacklistRefreshKeepsInv, WritePasswordKeepsInv,
   RevokeAllKeepsInv, Zenon DEF Proceed

(* What every step of every request may rely on holds in every state.      *)
THEOREM SessionInvariant == SessionSpec => []SessionInv
<1>1. SessionInv /\ UNCHANGED sessionVars => SessionInv'
  BY DEF sessionVars, stores, SessionInv, SessionTypeOK, Justified, OneHeir, Heirs, Exchanges,
         BlacklistedIsRevoked, Tokens, SessionCall, TokenRow
<1>2. SessionInv /\ [SessionNext]_sessionVars => SessionInv'
  BY <1>1, ArriveKeepsInv, ProceedKeepsInv, FailKeepsInv, SetActiveKeepsInv, TickKeepsInv,
     Zenon DEF SessionNext
<1> QED  BY SessionInitHolds, <1>2, PTL DEF SessionSpec

(* The rows, the keys and the calls have the types the code gives them.    *)
THEOREM SessionTypeCorrect == SessionSpec => []SessionTypeOK
<1>1. SessionInv => SessionTypeOK
  BY DEF SessionInv
<1> QED  BY <1>1, SessionInvariant, PTL

(* However many requests present a refresh token, one of them gets the     *)
(* token that follows it (auth.service.ts:175-185).                        *)
THEOREM TokensHaveOneHeir == SessionSpec => []OneHeir
<1>1. SessionInv => OneHeir
  BY DEF SessionInv
<1> QED  BY <1>1, SessionInvariant, PTL

(* Redis refuses no refresh token that the table calls valid               *)
(* (auth.service.ts:177-196, :210-224).                                    *)
THEOREM BlacklistIsSound == SessionSpec => []BlacklistedIsRevoked
<1>1. SessionInv => BlacklistedIsRevoked
  BY DEF SessionInv
<1> QED  BY <1>1, SessionInvariant, PTL

(* A row of refresh_tokens that is written was not revoked before or is    *)
(* revoked now.                                                            *)
LEMMA StepRevivesNoToken ==
    ASSUME SessionInv, SessionNext, NEW t \in Tokens, token[t].status = "revoked"
    PROVE  token'[t].status = "revoked"
<1>1. ASSUME NEW r \in Requests, Issue(r) PROVE token'[t].status = "revoked"
  BY <1>1 DEF Issue, SessionInv, SessionTypeOK
<1>2. ASSUME NEW r \in Requests, Revoke(r) \/ RevokeLogout(r)
      PROVE  token'[t].status = "revoked"
  <2>1. token[t] \in TokenRow
    BY DEF SessionInv, SessionTypeOK
  <2> QED  BY <1>2, <2>1 DEF Revoke, RevokeLogout, SessionInv, SessionTypeOK, TokenRow
<1>3. ASSUME NEW r \in Requests, RevokeAll(r) PROVE token'[t].status = "revoked"
  BY <1>3 DEF RevokeAll
<1>4. ASSUME NEW r \in Requests,
             Arrive(r) \/ Fail(r) \/ SendCode(r) \/ VerifyCode(r) \/ CreateUser(r)
               \/ MarkVerified(r) \/ BlacklistOld(r) \/ BlacklistAccess(r)
               \/ BlacklistRefresh(r) \/ WritePassword(r)
      PROVE  UNCHANGED token
  BY <1>4, Zenon
     DEF Arrive, Register, Login, RequestPasswordReset, VerifyOtpAndSignIn, ResetPassword, RefreshToken,
         Logout, SetPassword, Start, Fail, SendCode, VerifyCode, CreateUser, MarkVerified,
         BlacklistOld, BlacklistAccess, BlacklistRefresh, WritePassword, stores
<1>5. ASSUME NEW u \in Users, NEW active \in BOOLEAN, SetActive(u, active)
      PROVE  UNCHANGED token
  BY <1>5 DEF SetActive
<1>6. Tick => UNCHANGED token
  BY DEF Tick
<1> QED  BY <1>1, <1>2, <1>3, <1>4, <1>5, <1>6 DEF SessionNext, Proceed

(* A revoked token never comes back (auth.service.ts:177, :215, :272,      *)
(* :297).                                                                  *)
THEOREM RevocationIsFinal == SessionSpec => RevokedForGood
<1>1. SessionInv /\ [SessionNext]_sessionVars =>
         [\A t \in Tokens : token[t].status = "revoked" => token'[t].status = "revoked"]_sessionVars
  BY StepRevivesNoToken
<1> QED  BY <1>1, SessionInvariant, PTL DEF SessionSpec, RevokedForGood

-----------------------------------------------------------------------------
(* The rotation of tokens implements TokenFamilies.  A token is pledged    *)
(* while a request exchanges it; OneHeir makes that request the only one,  *)
(* so that what the request does next is the end of the pledge.            *)

Pledged == {t \in Tokens : \E r \in Requests : Exchanges(r, t)}

(* A call that is about to exchange or exchanges a token does so for the   *)
(* user of the token.                                                      *)
Carries(c) ==
    \A t \in Tokens :
        c.token = t /\ c.pc \in {"revoke", "blacklistOld", "issue"} => t[1] = c.user

(* Request r goes on with call c, and takes no token in exchange.          *)
MovesOn(r, c) ==
    /\ c \in SessionCall
    /\ call' = [call EXCEPT ![r] = c]
    /\ c.pc \in {"blacklistOld", "issue"} /\ c.token \in Tokens => Exchanges(r, c.token)
    /\ Carries(c)

LEMMA EndMovesOn ==
    ASSUME NEW r \in Requests, End(r)
    PROVE  MovesOn(r, Idle)
<1>1. Idle.pc = "idle"
  BY DEF Idle, NewCall
<1> QED  BY <1>1, IdleIsTyped DEF End, MovesOn, Carries

LEMMA GotoMovesOn ==
    ASSUME SessionTypeOK, FamilyInv, NEW r \in Requests, NEW pc \in Pc, Goto(r, pc),
           \/ pc \notin {"revoke", "blacklistOld", "issue"}
           \/ pc = "issue" /\ call[r].pc = "blacklistOld"
           \/ call[r].token = None
    PROVE  \E c \in SessionCall : MovesOn(r, c)
<1> DEFINE c == NewCall(pc, call[r].user, call[r].goal, call[r].token)
<1>1. c \in SessionCall /\ call' = [call EXCEPT ![r] = c]
  BY CallFields, GotoIsNewCall, NewCallIsTyped
<1>2. c.pc = pc /\ c.user = call[r].user /\ c.token = call[r].token
  BY DEF NewCall
<1>3. None \notin Tokens
  BY SessionsAssumption DEF Tokens
<1>4. c.pc \in {"blacklistOld", "issue"} /\ c.token \in Tokens => Exchanges(r, c.token)
  BY <1>2, <1>3 DEF Exchanges
<1>5. Carries(c)
  BY <1>2, <1>3 DEF Carries, FamilyInv
<1> QED  BY <1>1, <1>4, <1>5 DEF MovesOn

(* A request arrives with no token, or with one of its own user.           *)
LEMMA StartMovesOn ==
    ASSUME NEW r \in Requests, NEW pc \in Pc, NEW u \in Users,
           NEW goal \in {"none", "markVerified", "writePassword"},
           NEW t \in Tokens \cup {None}, Start(r, pc, u, goal, t),
           pc # "blacklistOld", pc = "issue" => t = None,
           t \in Tokens => t[1] = u
    PROVE  \E c \in SessionCall : MovesOn(r, c)
<1> DEFINE c == NewCall(pc, u, goal, t)
<1>1. c \in SessionCall /\ call' = [call EXCEPT ![r] = c]
  BY NewCallIsTyped DEF Start
<1>2. c.pc = pc /\ c.user = u /\ c.token = t
  BY DEF NewCall
<1>3. None \notin Tokens
  BY SessionsAssumption DEF Tokens
<1> QED  BY <1>1, <1>2, <1>3 DEF MovesOn, Carries

LEMMA ArriveMovesOn ==
    ASSUME NEW r \in Requests, Arrive(r)
    PROVE  /\ \E c \in SessionCall : MovesOn(r, c)
           /\ UNCHANGED stores
<1> USE DEF Pc
<1>1. None \notin Tokens /\ \A t \in Tokens : t[1] \in Users
  BY SessionsAssumption DEF Tokens
<1>2. ASSUME NEW u \in Users,
             \/ Register(r, u) \/ Login(r, u) \/ RequestPasswordReset(r, u)
             \/ VerifyOtpAndSignIn(r, u) \/ ResetPassword(r, u)
      PROVE  \E c \in SessionCall : MovesOn(r, c)
  <2>1. \E pc \in Pc \ {"blacklistOld"}, goal \in {"none", "markVerified", "writePassword"} :
           Start(r, pc, u, goal, None)
    BY <1>2 DEF Register, Login, RequestPasswordReset, VerifyOtpAndSignIn, ResetPassword
  <2> QED  BY <1>1, <2>1, StartMovesOn
<1>3. ASSUME NEW t \in Tokens, RefreshToken(r, t) \/ Logout(r, t) \/ SetPassword(r, t)
      PROVE  \E c \in SessionCall : MovesOn(r, c)
  <2>1. \E pc \in Pc \ {"blacklistOld", "issue"} : Start(r, pc, t[1], "none", t)
    BY <1>3 DEF RefreshToken, Logout, SetPassword
  <2> QED  BY <1>1, <2>1, StartMovesOn
<1>4. UNCHANGED stores
  BY Zenon DEF Arrive, Register, Login, RequestPasswordReset, VerifyOtpAndSignIn, ResetPassword,
               RefreshToken, Logout, SetPassword, Start
<1> QED  BY <1>2, <1>3, <1>4 DEF Arrive

(* The steps of a request that write no row of a token.                    *)
LEMMA OtherStepsMoveOn ==
    ASSUME SessionInv, FamilyInv, NEW r \in Requests,
           \/ Fail(r) \/ SendCode(r) \/ VerifyCode(r) \/ CreateUser(r) \/ MarkVerified(r)
           \/ BlacklistOld(r) \/ BlacklistAccess(r) \/ BlacklistRefresh(r) \/ WritePassword(r)
    PROVE  /\ \E c \in SessionCall : MovesOn(r, c)
           /\ UNCHANGED <<now, token>>
<1> USE DEF Pc
<1> DEFINE GoesOn == \E c \in SessionCall : MovesOn(r, c)
<1>1. ASSUME End(r) PROVE GoesOn
  BY <1>1, EndMovesOn, IdleIsTyped
<1>2. ASSUME VerifyCode(r) /\ Goto(r, call[r].goal) PROVE GoesOn
  <2>1. call[r].goal \in {"markVerified", "writePassword"}
    BY <1>2, CallFields DEF VerifyCode, SessionInv, Justified
  <2> QED  BY <1>2, <2>1, GotoMovesOn DEF SessionInv
<1>3. ASSUME CreateUser(r) /\ Goto(r, "sendCode") PROVE GoesOn
  BY <1>3, GotoMovesOn DEF SessionInv
<1>4. ASSUME MarkVerified(r) PROVE GoesOn
  <2>1. call[r].token = None
    BY <1>4 DEF MarkVerified, SessionInv, Justified, SignInPc
  <2> QED  BY <1>4, <2>1, GotoMovesOn DEF SessionInv, MarkVerified
<1>5. ASSUME BlacklistOld(r) PROVE GoesOn
  BY <1>5, GotoMovesOn DEF SessionInv, BlacklistOld
<1>6. ASSUME WritePassword(r) /\ Goto(r, "revokeAll") PROVE GoesOn
  BY <1>6, GotoMovesOn DEF SessionInv
<1>7. ASSUME BlacklistAccess(r) PROVE GoesOn
  <2> PICK s \in Tokens :
         call' = [call EXCEPT ![r] = NewCall("revokeLogout", call[r].user, call[r].goal, s)]
    BY <1>7 DEF BlacklistAccess
  <2> DEFINE c == NewCall("revokeLogout", call[r].user, call[r].goal, s)
  <2>1. c \in SessionCall /\ c.pc = "revokeLogout"
    BY CallFields, NewCallIsTyped DEF SessionInv, NewCall
  <2> HIDE DEF c
  <2>2. MovesOn(r, c)
    BY <2>1 DEF MovesOn, Carries, c
  <2> QED  BY <2>1, <2>2, <1>7 DEF BlacklistAccess
<1>8. \/ End(r) \/ (VerifyCode(r) /\ Goto(r, call[r].goal))
      \/ (CreateUser(r) /\ Goto(r, "sendCode")) \/ MarkVerified(r) \/ BlacklistOld(r)
      \/ BlacklistAccess(r) \/ (WritePassword(r) /\ Goto(r, "revokeAll"))
  BY DEF Fail, SendCode, VerifyCode, CreateUser, BlacklistRefresh, WritePassword
<1>9. UNCHANGED <<now, token>>
  BY Zenon DEF Fail, SendCode, VerifyCode, CreateUser, MarkVerified, BlacklistOld,
               BlacklistAccess, BlacklistRefresh, WritePassword, stores
<1>10. GoesOn
  BY <1>1, <1>2, <1>3, <1>4, <1>5, <1>6, <1>7, <1>8, Zenon
<1> QED  BY <1>9, <1>10

-----------------------------------------------------------------------------
(* FamilyInv is inductive.                                                 *)

LEMMA FamilyInvKept ==
    ASSUME SessionInv, FamilyInv, NEW r \in Requests, NEW c \in SessionCall,
           call' = [call EXCEPT ![r] = c], Carries(c), UNCHANGED now,
           \A t \in Tokens : token'[t].status # "none" => t[2] <= now
    PROVE  FamilyInv'
<1>1. ASSUME NEW q \in Requests, NEW t \in Tokens, call'[q].token = t,
             call'[q].pc \in {"revoke", "blacklistOld", "issue"}
      PROVE  t[1] = call'[q].user
  <2>1. CASE q = r
    BY <1>1, <2>1, CallChange DEF SessionInv, Carries
  <2>2. CASE q # r
    BY <1>1, <2>2, CallChange DEF SessionInv, FamilyInv
  <2> QED  BY <2>1, <2>2
<1> QED  BY <1>1 DEF FamilyInv, Tokens

-----------------------------------------------------------------------------
(* What a step does to the pledged tokens.                                 *)

LEMMA OnlyOneExchanges ==
    ASSUME SessionInv, NEW q \in Requests, NEW r \in Requests, NEW t \in Tokens,
           Exchanges(q, t), Exchanges(r, t)
    PROVE  q = r
BY DEF SessionInv, OneHeir, Heirs

LEMMA PledgedAfter ==
    ASSUME SessionInv, NEW r \in Requests, NEW c \in SessionCall,
           call' = [call EXCEPT ![r] = c]
    PROVE  \A t \in Tokens :
              t \in Pledged' <=> \/ t \in Pledged /\ ~Exchanges(r, t)
                                 \/ c.pc \in {"blacklistOld", "issue"} /\ c.token = t
<1> SUFFICES ASSUME NEW t \in Tokens
             PROVE  t \in Pledged' <=> \/ t \in Pledged /\ ~Exchanges(r, t)
                                       \/ c.pc \in {"blacklistOld", "issue"} /\ c.token = t
  OBVIOUS
<1>1. call'[r] = c /\ \A q \in Requests \ {r} : call'[q] = call[q]
  BY CallChange DEF SessionInv
<1>2. \A q \in Requests \ {r} : Exchanges(q, t)' <=> Exchanges(q, t)
  BY <1>1 DEF Exchanges
<1>3. Exchanges(r, t)' <=> c.pc \in {"blacklistOld", "issue"} /\ c.token = t
  BY <1>1 DEF Exchanges
<1>4. t \in Pledged' <=> \E q \in Requests : Exchanges(q, t)'
  BY DEF Pledged, Tokens
<1>5. t \in Pledged /\ ~Exchanges(r, t) <=> \E q \in Requests \ {r} : Exchanges(q, t)
  BY OnlyOneExchanges DEF Pledged
<1> QED  BY <1>2, <1>3, <1>4, <1>5

(* A request that exchanges nothing, before and after.                     *)
LEMMA PledgedKept ==
    ASSUME SessionInv, NEW r \in Requests, NEW c \in SessionCall,
           call' = [call EXCEPT ![r] = c],
           \A t \in Tokens : ~Exchanges(r, t), c.pc \notin {"blacklistOld", "issue"}
    PROVE  Pledged' = Pledged
<1>1. \A t \in Tokens : t \in Pledged' <=> t \in Pledged
  BY PledgedAfter
<1>2. Pledged \subseteq Tokens /\ Pledged' \subseteq Tokens
  BY DEF Pledged, Tokens
<1> QED  BY <1>1, <1>2

(* A request that is done with the token it exchanged.                     *)
LEMMA PledgeEnds ==
    ASSUME SessionInv, NEW r \in Requests, NEW c \in SessionCall,
           call' = [call EXCEPT ![r] = c], c.pc \notin {"blacklistOld", "issue"},
           NEW t \in Tokens, Exchanges(r, t)
    PROVE  Pledged' = Pledged \ {t}
<1>1. \A s \in Tokens : Exchanges(r, s) <=> s = t
  BY DEF Exchanges
<1>2. \A s \in Tokens : s \in Pledged' <=> s \in Pledged \ {t}
  BY <1>1, PledgedAfter
<1>3. Pledged \subseteq Tokens /\ Pledged' \subseteq Tokens
  BY DEF Pledged, Tokens
<1> QED  BY <1>2, <1>3

(* A request that goes on without taking a token ends a pledge or leaves   *)
(* the pledges alone.                                                      *)
LEMMA MovingOnForfeits ==
    ASSUME SessionInv, NEW r \in Requests, NEW c \in SessionCall, MovesOn(r, c)
    PROVE  Pledged' = Pledged \/ \E t \in Tokens : Pledged' = Pledged \ {t}
<1>1. call' = [call EXCEPT ![r] = c]
  BY DEF MovesOn
<1>2. Pledged \subseteq Tokens /\ Pledged' \subseteq Tokens
  BY DEF Pledged, Tokens
<1>3. CASE c.pc \in {"blacklistOld", "issue"} /\ c.token \in Tokens
  <2>1. \A s \in Tokens : Exchanges(r, s) <=> s = c.token
    BY <1>3 DEF MovesOn, Exchanges
  <2>2. c.token \in Pledged
    BY <1>3, <2>1 DEF Pledged
  <2>3. \A s \in Tokens : s \in Pledged' <=> s \in Pledged
    BY <1>1, <1>3, <2>1, <2>2, PledgedAfter
  <2> QED  BY <1>2, <2>3
<1>4. CASE ~(c.pc \in {"blacklistOld", "issue"} /\ c.token \in Tokens)
  <2>1. \A s \in Tokens : s \in Pledged' <=> s \in Pledged /\ ~Exchanges(r, s)
    BY <1>1, <1>4, PledgedAfter
  <2>2. CASE \E t \in Tokens : Exchanges(r, t)
    <3> PICK t \in Tokens : Exchanges(r, t)
      BY <2>2
    <3>1. \A s \in Tokens : Exchanges(r, s) <=> s = t
      BY DEF Exchanges
    <3>2. Pledged' = Pledged \ {t}
      BY <1>2, <2>1, <3>1
    <3> QED  BY <3>2
  <2>3. CASE \A t \in Tokens : ~Exchanges(r, t)
    <3>1. Pledged' = Pledged
      BY <1>2, <2>1, <2>3
    <3> QED  BY <3>1
  <2> QED  BY <2>2, <2>3
<1> QED  BY <1>3, <1>4

-----------------------------------------------------------------------------
(* Each step is one of TokenFamilies.                                      *)

(* What a step comes to: FamilyInv goes on to hold, and the tokens and     *)
(* pledges make a step of TokenFamilies or stay.                           *)
FamilyStep == FamilyInv' /\ [Families!Next]_<<token, Pledged>>

(* A token is pledged or not in the sense of the INSTANCE.                 *)
LEMMA FamilyActions ==
    /\ \A t \in Tokens : Families!Found(t) \/ Families!Take(t) \/ Families!Forfeit(t)
                           => Families!Next
    /\ \A t, h \in Tokens : Families!Give(t, h) => Families!Next
    /\ \A u \in Users : \A S \in SUBSET {t \in Tokens : t[1] = u} :
          Families!Revoke(S) => Families!Next
BY DEF Families!Next

LEMMA ForfeitStep ==
    ASSUME SessionInv, FamilyInv, NEW r \in Requests, NEW c \in SessionCall, MovesOn(r, c),
           UNCHANGED <<now, token>>
    PROVE  FamilyStep
<1>1. FamilyInv'
  BY FamilyInvKept DEF MovesOn, FamilyInv
<1>2. CASE Pledged' = Pledged
  BY <1>1, <1>2 DEF FamilyStep
<1>3. ASSUME NEW t \in Tokens, Pledged' = Pledged \ {t} PROVE FamilyStep
  <2>1. Families!Forfeit(t)
    BY <1>3 DEF Families!Forfeit, Pledged
  <2> QED  BY <1>1, <2>1, FamilyActions DEF FamilyStep
<1> QED  BY <1>2, <1>3, MovingOnForfeits

(* A sign-in founds a family; a refresh gives the one heir of the token it *)
(* took, in a later second, since the token is not of this one.            *)
LEMMA IssueStep ==
    ASSUME SessionInv, FamilyInv, NEW r \in Requests, Issue(r)
    PROVE  FamilyStep
<1> DEFINE h == <<call[r].user, now>>
<1> PICK old \in Tokens \cup {None} : old = call[r].token
  BY CallFields DEF SessionInv
<1>1. CASE token[h].status # "none" /\ UNCHANGED token
  BY <1>1, EndMovesOn, IdleIsTyped, ForfeitStep DEF Issue
<1>2. CASE /\ token[h].status = "none"
           /\ token' = [token EXCEPT ![h] = [status |-> "live", from |-> old]]
  <2>1. /\ h \in Tokens /\ None \notin Tokens /\ now \in Int
        /\ call[r].user \in Users
    BY CallFields, SessionsAssumption DEF Issue, SessionInv, SessionTypeOK, Justified, Tokens
  <2>2. /\ call' = [call EXCEPT ![r] = Idle] /\ Idle \in SessionCall /\ Idle.pc = "idle"
        /\ UNCHANGED now /\ MovesOn(r, Idle)
    BY IdleIsTyped, EndMovesOn DEF Issue, End, Idle, NewCall
  <2>3. token[h] = NoToken
    BY <1>2, <2>1 DEF SessionInv
  <2>4. FamilyInv'
    <3>1. \A t \in Tokens : token'[t].status # "none" => t[2] <= now
      <4>1. \A t \in Tokens : t # h => token'[t] = token[t]
        BY <1>2, <2>1 DEF SessionInv, SessionTypeOK
      <4> QED  BY <2>1, <4>1 DEF FamilyInv
    <3> QED  BY <2>2, <3>1, FamilyInvKept DEF MovesOn
  <2>5. CASE old = None
    <3>1. Pledged' = Pledged
      BY <2>1, <2>2, <2>5, PledgedKept DEF Exchanges
    <3>2. Families!Found(h)
      BY <1>2, <2>3, <2>5, <3>1 DEF Families!Found, Families!Add, Pledged
    <3> HIDE DEF h
    <3> QED  BY <2>1, <2>4, <3>2, FamilyActions DEF FamilyStep
  <2>6. CASE old \in Tokens
    <3>1. Exchanges(r, old)
      BY <2>6 DEF Exchanges, Issue
    <3>2. Pledged' = Pledged \ {old} /\ old \in Pledged
      BY <2>2, <2>6, <3>1, PledgeEnds DEF Pledged
    <3>3. old[1] = h[1]
      BY <2>6 DEF Issue, FamilyInv
    <3>4. token[old].status = "revoked"
      BY <2>6, <3>1 DEF SessionInv, OneHeir, Heirs
    <3>5. old # h /\ old[2] <= now /\ old[2] \in Int
      BY <1>2, <2>6, <3>4 DEF FamilyInv, Tokens
    <3>6. old = <<old[1], old[2]>> /\ h[2] = now
      BY <2>6 DEF Tokens
    <3>7. h[2] > old[2]
      BY <2>1, <3>3, <3>5, <3>6
    <3>8. Families!Give(old, h)
      <4>1. Families!Add(h, old)
        BY <1>2, <2>3 DEF Families!Add
      <4> HIDE DEF h
      <4> QED  BY <3>2, <3>3, <3>7, <4>1 DEF Families!Give, Pledged
    <3> HIDE DEF h
    <3> QED  BY <2>1, <2>4, <2>6, <3>8, FamilyActions DEF FamilyStep
  <2> QED  BY <2>5, <2>6
<1> QED  BY <1>1, <1>2 DEF Issue

(* Whoever finds the token live takes it and owes its heir.                *)
LEMMA RevokeStep ==
    ASSUME SessionInv, FamilyInv, NEW r \in Requests, Revoke(r)
    PROVE  FamilyStep
<1> DEFINE t == call[r].token
<1>1. CASE End(r) /\ UNCHANGED token
  BY <1>1, EndMovesOn, IdleIsTyped, ForfeitStep DEF Revoke
<1>2. CASE /\ token[t].status = "live"
           /\ token' = [token EXCEPT ![t].status = "revoked"]
           /\ Goto(r, "blacklistOld")
  <2> DEFINE c == NewCall("blacklistOld", call[r].user, call[r].goal, t)
  <2>1. t \in Tokens /\ UNCHANGED now
    BY DEF Revoke, SessionInv, Justified
  <2>2. c \in SessionCall /\ call' = [call EXCEPT ![r] = c]
    BY <1>2, CallFields, GotoIsNewCall, NewCallIsTyped DEF Pc, SessionInv
  <2>3. c.pc = "blacklistOld" /\ c.user = call[r].user /\ c.token = t
    BY DEF NewCall
  <2>4. Carries(c)
    BY <2>1, <2>3 DEF Carries, FamilyInv, Revoke
  <2>5. \A s \in Tokens : token'[s].status # "none" => token[s].status # "none"
    BY <1>2, <2>1 DEF SessionInv, SessionTypeOK
  <2> HIDE DEF c, t
  <2>6. FamilyInv'
    BY <2>1, <2>2, <2>4, <2>5, FamilyInvKept DEF FamilyInv
  <2>7. \A s \in Tokens : ~Exchanges(r, s)
    BY DEF Exchanges, Revoke
  <2>8. \A s \in Tokens : s \in Pledged' <=> s \in Pledged \/ s = t
    BY <2>2, <2>3, <2>7, PledgedAfter
  <2>9. Pledged' = Pledged \cup {t}
    BY <2>1, <2>8 DEF Pledged, Tokens
  <2>10. token' = [token EXCEPT ![t] = [token[t] EXCEPT !.status = "revoked"]]
    BY <1>2, <2>1 DEF SessionInv, SessionTypeOK, t
  <2>11. Families!Take(t)
    BY <1>2, <2>9, <2>10 DEF Families!Take, Pledged, t
  <2> QED  BY <2>1, <2>6, <2>11, FamilyActions DEF FamilyStep
<1> QED  BY <1>1, <1>2 DEF Revoke

(* Tokens of a user are revoked by a request that exchanges none.          *)
LEMMA RevokingStep ==
    ASSUME SessionInv, FamilyInv, NEW r \in Requests, NEW c \in SessionCall, MovesOn(r, c),
           UNCHANGED now, c.pc \notin {"blacklistOld", "issue"},
           call[r].pc \notin {"blacklistOld", "issue"},
           NEW u \in Users, NEW S \in SUBSET {t \in Tokens : t[1] = u},
           token' = [t \in Tokens |-> IF t \in S /\ token[t].status = "live"
                                      THEN [token[t] EXCEPT !.status = "revoked"]
                                      ELSE token[t]]
    PROVE  FamilyStep
<1>1. Pledged' = Pledged
  BY PledgedKept DEF MovesOn, Exchanges
<1>2. \A t \in Tokens : token'[t].status # "none" => token[t].status # "none"
  OBVIOUS
<1>3. FamilyInv'
  BY <1>2, FamilyInvKept DEF MovesOn, FamilyInv
<1>4. Families!Revoke(S)
  BY <1>1 DEF Families!Revoke, Pledged
<1> QED  BY <1>3, <1>4, FamilyActions DEF FamilyStep

LEMMA RevokeLogoutStep ==
    ASSUME SessionInv, FamilyInv, NEW r \in Requests, RevokeLogout(r)
    PROVE  FamilyStep
<1> DEFINE t == call[r].token
<1>1. CASE End(r) /\ UNCHANGED token
  BY <1>1, EndMovesOn, IdleIsTyped, ForfeitStep DEF RevokeLogout
<1>2. CASE /\ token[t].status # "none"
           /\ token' = [token EXCEPT ![t].status = "revoked"]
           /\ Goto(r, "blacklistRefresh")
  <2> DEFINE c == NewCall("blacklistRefresh", call[r].user, call[r].goal, t)
  <2>1. t \in Tokens /\ UNCHANGED now /\ call[r].pc = "revokeLogout"
    BY DEF RevokeLogout, SessionInv, Justified
  <2>2. c \in SessionCall /\ call' = [call EXCEPT ![r] = c]
    BY <1>2, CallFields, GotoIsNewCall, NewCallIsTyped DEF Pc, SessionInv
  <2>3. c.pc = "blacklistRefresh"
    BY DEF NewCall
  <2> HIDE DEF c, t
  <2>4. MovesOn(r, c)
    BY <2>2, <2>3 DEF MovesOn, Carries
  <2>5. token[t] \in TokenRow /\ token \in [Tokens -> TokenRow]
    BY <2>1 DEF SessionInv, SessionTypeOK
  <2>6. token[t].status \in {"live", "revoked"}
    BY <1>2, <2>5 DEF TokenRow, t
  <2>7. token[t].status = "revoked" => [token[t] EXCEPT !.status = "revoked"] = token[t]
    BY <2>5 DEF TokenRow
  <2>8. token' = [s \in Tokens |-> IF s = t THEN [token[t] EXCEPT !.status = "revoked"]
                                   ELSE token[s]]
    BY <1>2, <2>1, <2>5 DEF t
  <2>9. token' = [s \in Tokens |-> IF s \in {t} /\ token[s].status = "live"
                                   THEN [token[s] EXCEPT !.status = "revoked"]
                                   ELSE token[s]]
    BY <2>1, <2>6, <2>7, <2>8
  <2>10. t[1] \in Users /\ {t} \in SUBSET {s \in Tokens : s[1] = t[1]}
    BY <2>1 DEF Tokens
  <2> QED  BY <2>1, <2>2, <2>3, <2>4, <2>9, <2>10, RevokingStep
<1> QED  BY <1>1, <1>2 DEF RevokeLogout

LEMMA RevokeAllStep ==
    ASSUME SessionInv, FamilyInv, NEW r \in Requests, RevokeAll(r)
    PROVE  FamilyStep
<1> DEFINE u == call[r].user
           S == {t \in Tokens : t[1] = u}
<1>1. u \in Users /\ call[r].pc = "revokeAll" /\ UNCHANGED now
  BY DEF RevokeAll, SessionInv, Justified
<1>2. Idle \in SessionCall /\ MovesOn(r, Idle) /\ Idle.pc = "idle"
  BY EndMovesOn, IdleIsTyped DEF RevokeAll, Idle, NewCall
<1>3. token' = [t \in Tokens |-> IF t \in S /\ token[t].status = "live"
                                 THEN [token[t] EXCEPT !.status = "revoked"]
                                 ELSE token[t]]
  BY DEF RevokeAll
<1>4. S \in SUBSET {t \in Tokens : t[1] = u}
  OBVIOUS
<1> HIDE DEF u, S
<1> QED  BY <1>1, <1>2, <1>3, <1>4, RevokingStep

LEMMA EveryStepIsFamilyStep ==
    ASSUME SessionInv, FamilyInv, SessionNext
    PROVE  FamilyStep
<1>1. ASSUME NEW r \in Requests,
             \/ Fail(r) \/ SendCode(r) \/ VerifyCode(r) \/ CreateUser(r) \/ MarkVerified(r)
             \/ BlacklistOld(r) \/ BlacklistAccess(r) \/ BlacklistRefresh(r)
             \/ WritePassword(r)
      PROVE  FamilyStep
  BY <1>1, OtherStepsMoveOn, ForfeitStep, Zenon
<1>2. ASSUME NEW r \in Requests, Arrive(r) PROVE FamilyStep
  BY <1>2, ArriveMovesOn, ForfeitStep DEF stores
<1>3. ASSUME NEW r \in Requests, Proceed(r) \/ Fail(r) PROVE FamilyStep
  BY <1>1, <1>3, IssueStep, RevokeStep, RevokeLogoutStep, RevokeAllStep, Zenon DEF Proceed
<1>4. ASSUME UNCHANGED <<call, token>>, now' = now \/ Tick PROVE FamilyStep
  <2>1. UNCHANGED <<token, Pledged>>
    BY <1>4 DEF Pledged, Exchanges, Tokens
  <2>2. now \in Int /\ now' >= now
    BY <1>4, SessionsAssumption DEF SessionInv, SessionTypeOK, Tick
  <2>3. \A t \in Tokens : t[2] \in Int
    BY SessionsAssumption DEF Tokens
  <2>4. FamilyInv'
    <3>1. \A t \in Tokens : t[2] <= now => t[2] <= now'
      BY <1>4, <2>2, <2>3, SessionsAssumption DEF Tick
    <3> QED  BY <1>4, <3>1 DEF FamilyInv, Tokens
  <2> QED  BY <2>1, <2>4 DEF FamilyStep
<1>5. ASSUME NEW u \in Users, NEW active \in BOOLEAN, SetActive(u, active) PROVE FamilyStep
  BY <1>4, <1>5 DEF SetActive
<1>6. Tick => FamilyStep
  BY <1>4 DEF Tick
<1> QED  BY <1>2, <1>3, <1>5, <1>6 DEF SessionNext

(* However requests overlap and fail, refresh tokens are families in which *)
(* each member has one successor at most, of the same user and of a later  *)
(* second, and no revoked member comes back (auth.service.ts:171-200,      *)
(* :210-224, :272, :297).                                                  *)
THEOREM TokensAreFamilies == SessionSpec => RotationKeepsFamilies
<1>1. SessionInit => FamilyInv /\ Families!Init
  <2> SUFFICES ASSUME SessionInit PROVE FamilyInv /\ Families!Init
    OBVIOUS
  <2>1. \A r \in Requests : call[r].pc = "idle"
    BY DEF SessionInit, Idle, NewCall
  <2>2. \A t \in Tokens : token[t].status = "none"
    BY DEF SessionInit, NoToken
  <2>3. FamilyInv
    BY <2>1, <2>2 DEF FamilyInv
  <2>4. Families!Init
    BY <2>1 DEF SessionInit, Families!Init, Exchanges
  <2> QED  BY <2>3, <2>4
<1>2. SessionInv /\ FamilyInv /\ [SessionNext]_sessionVars =>
         FamilyInv' /\ [Families!Next]_(Families!familyVars)
  <2>1. UNCHANGED sessionVars => UNCHANGED <<call, now, token, Pledged>>
    BY DEF sessionVars, stores, Pledged, Exchanges, Tokens
  <2>2. FamilyInv /\ UNCHANGED <<call, now, token, Pledged>> =>
           FamilyInv' /\ UNCHANGED <<token, Pledged>>
    BY DEF FamilyInv, Tokens
  <2> QED  BY EveryStepIsFamilyStep, <2>1, <2>2
           DEF FamilyStep, Families!familyVars, Pledged
<1> QED  BY SessionInvariant, <1>1, <1>2, PTL
         DEF SessionSpec, RotationKeepsFamilies, Families!Spec
=============================================================================
