--------------------------------- MODULE Otp ---------------------------------
(***************************************************************************)
(* OtpService (src/src/modules/auth/otp.service.ts): one-time codes are    *)
(* rows of otp_codes and, for a quick look-up, the Redis key otp:<phone>   *)
(* with the newest one; two more keys per phone count the codes asked for  *)
(* and the failed attempts, a third one is the lockout.  Every await is a  *)
(* step: nothing ties the keys to each other or to the rows.               *)
(***************************************************************************)
EXTENDS Slots, Integers

CONSTANTS
    Phones,          \* the numbers of the users, one each
    Codes,           \* the codes that can be drawn; a drawn code is not drawn again
    MaxOtpAttempts,  \* MAX_OTP_ATTEMPTS
    MaxOtpRequests   \* MAX_OTP_REQUESTS_PER_WINDOW

ASSUME OtpAssumption ==
    /\ None \notin Phones \cup Codes \cup Requests
    /\ MaxOtpAttempts \in Nat \ {0, 1}
    /\ MaxOtpRequests \in Nat \ {0}

VARIABLES
    codeRow,    \* the rows of otp_codes, by phone and code
    otpKey,     \* otp:<phone>
    attempts,   \* otp:attempts:<phone>: its count and whether it expires
    asked,      \* otp:requests:<phone>: the same
    locked,     \* the phones with a key otp:locked:<phone>
    otpCall        \* what each request in flight is doing

otpKeys == <<otpKey, attempts, asked, locked>>
otpVars == <<codeRow, otpKeys, otpCall>>

-----------------------------------------------------------------------------
NoCounter == [count |-> 0, expires |-> FALSE]

(* "cached" tells which of its two ways verifyOtp took.                    *)
NewOtpCall(pc, u, code) == [pc |-> pc, user |-> u, code |-> code, cached |-> FALSE]

OtpIdle == NewOtpCall("idle", None, None)

OtpGoto(r, pc) == otpCall' = [otpCall EXCEPT ![r].pc = pc]

OtpEnd(r) == otpCall' = [otpCall EXCEPT ![r] = OtpIdle]

OtpInit ==
    /\ codeRow = [u \in Phones |-> [c \in Codes |-> "none"]]
    /\ otpKey = [u \in Phones |-> None]
    /\ attempts = [u \in Phones |-> NoCounter]
    /\ asked = [u \in Phones |-> NoCounter]
    /\ locked = {}
    /\ otpCall = [r \in Requests |-> OtpIdle]

(* INCR: a key that does not exist is made, without an expiry.  Nothing    *)
(* tells counts above the limit from each other: they are kept as limit.   *)
Incr(counter, u, limit) ==
    counter' = [counter EXCEPT ![u].count = IF @ < limit THEN @ + 1 ELSE limit]

(* Slip: SET ... EX, which makes the key again.                            *)
ExpireAnyway(counter, u) == counter' = [counter EXCEPT ![u].expires = TRUE]

(* EXPIRE: nothing happens to a key that is gone.                          *)
Expire(counter, u) == counter' = [counter EXCEPT ![u].expires = counter[u].count > 0]

Del(counter, u) == counter' = [counter EXCEPT ![u] = NoCounter]

-----------------------------------------------------------------------------
(* generateOtp, for register, login or requestPasswordReset.               *)

GenerateOtp(r, u) ==
    /\ otpCall[r] = OtpIdle
    /\ otpCall' = [otpCall EXCEPT ![r] = NewOtpCall("countRequest", u, None)]
    /\ UNCHANGED <<codeRow, otpKeys>>

CountRequest(r) ==
    LET u == otpCall[r].user
        count == asked[u].count + 1
    IN
    /\ otpCall[r].pc = "countRequest"
    /\ Incr(asked, u, MaxOtpRequests + 1)
    /\ \/ count = 1 /\ OtpGoto(r, "expireRequests")
       \/ count \in 2 .. MaxOtpRequests /\ OtpGoto(r, "createCode")
       \/ count > MaxOtpRequests /\ OtpEnd(r)
    /\ UNCHANGED <<codeRow, otpKey, attempts, locked>>

ExpireRequests(r) ==
    /\ otpCall[r].pc = "expireRequests"
    /\ Expire(asked, otpCall[r].user)
    /\ OtpGoto(r, "createCode")
    /\ UNCHANGED <<codeRow, otpKey, attempts, locked>>

CreateCode(r) ==
    LET u == otpCall[r].user IN
    /\ otpCall[r].pc = "createCode"
    /\ \E c \in Codes :
          /\ \A v \in Phones : codeRow[v][c] = "none"
          /\ codeRow' = [codeRow EXCEPT ![u][c] = "unused"]
          /\ otpCall' = [otpCall EXCEPT ![r] = NewOtpCall("cacheCode", u, c)]
    /\ UNCHANGED otpKeys

CacheCode(r) ==
    /\ otpCall[r].pc = "cacheCode"
    /\ otpKey' = [otpKey EXCEPT ![otpCall[r].user] = otpCall[r].code]
    /\ OtpEnd(r)
    /\ UNCHANGED <<codeRow, attempts, asked, locked>>

-----------------------------------------------------------------------------
(* verifyOtp, of a code that was sent or of a wrong one (None).            *)

VerifyOtp(r, u, c) ==
    /\ otpCall[r] = OtpIdle
    /\ c # None => /\ codeRow[u][c] # "none"
                   /\ \A q \in Requests : otpCall[q].pc = "cacheCode" => otpCall[q].code # c
    /\ otpCall' = [otpCall EXCEPT ![r] = NewOtpCall("checkLock", u, c)]
    /\ UNCHANGED <<codeRow, otpKeys>>

CheckLock(r) ==
    /\ otpCall[r].pc = "checkLock"
    /\ IF otpCall[r].user \in locked THEN OtpEnd(r) ELSE OtpGoto(r, "readKey")
    /\ UNCHANGED <<codeRow, otpKeys>>

ReadKey(r) ==
    LET u == otpCall[r].user
        c == otpCall[r].code
    IN
    /\ otpCall[r].pc = "readKey"
    /\ otpCall' = [otpCall EXCEPT ![r] = IF c # None /\ otpKey[u] = c
                                      THEN [NewOtpCall("dropKey", u, c) EXCEPT !.cached = TRUE]
                                      ELSE NewOtpCall("findRow", u, c)]
    /\ UNCHANGED <<codeRow, otpKeys>>

(* Slip: the key stays after a hit.                                        *)
DropKeyNever(r) ==
    /\ otpCall[r].pc = "dropKey"
    /\ OtpGoto(r, "dropAttempts")
    /\ UNCHANGED <<codeRow, otpKeys>>

(* Both ways end with the two DELs; the first one has the row still to     *)
(* mark.  The key is deleted whatever code it holds by now.                *)
DropKey(r) ==
    /\ otpCall[r].pc = "dropKey"
    /\ otpKey' = [otpKey EXCEPT ![otpCall[r].user] = None]
    /\ OtpGoto(r, "dropAttempts")
    /\ UNCHANGED <<codeRow, attempts, asked, locked>>

DropAttempts(r) ==
    /\ otpCall[r].pc = "dropAttempts"
    /\ Del(attempts, otpCall[r].user)
    /\ OtpGoto(r, IF otpCall[r].cached THEN "markUsed" ELSE "accepted")
    /\ UNCHANGED <<codeRow, otpKey, asked, locked>>

(* Slip: a code found by the quick look-up is not marked.                  *)
MarkUsedNever(r) ==
    /\ otpCall[r].pc = "markUsed"
    /\ OtpGoto(r, "accepted")
    /\ UNCHANGED <<codeRow, otpKeys>>

(* updateMany WHERE isUsed = false AND expiresAt >= now                    *)
MarkUsed(r) ==
    LET u == otpCall[r].user
        c == otpCall[r].code
    IN
    /\ otpCall[r].pc = "markUsed"
    /\ codeRow' = [codeRow EXCEPT ![u][c] = IF @ = "unused" THEN "used" ELSE @]
    /\ OtpGoto(r, "accepted")
    /\ UNCHANGED otpKeys

FindRow(r) ==
    LET found == otpCall[r].code # None /\ codeRow[otpCall[r].user][otpCall[r].code] = "unused" IN
    /\ otpCall[r].pc = "findRow"
    /\ OtpGoto(r, IF found THEN "useRow" ELSE "countFailure")
    /\ UNCHANGED <<codeRow, otpKeys>>

(* update WHERE id: whatever has become of the row since.                  *)
UseRow(r) ==
    /\ otpCall[r].pc = "useRow"
    /\ codeRow' = [codeRow EXCEPT ![otpCall[r].user][otpCall[r].code] = "used"]
    /\ OtpGoto(r, "dropKey")
    /\ UNCHANGED otpKeys

CountFailure(r) ==
    LET u == otpCall[r].user
        count == attempts[u].count + 1
    IN
    /\ otpCall[r].pc = "countFailure"
    /\ Incr(attempts, u, MaxOtpAttempts)
    /\ \/ count = 1 /\ OtpGoto(r, "expireAttempts")
       \/ count \in 2 .. MaxOtpAttempts - 1 /\ OtpEnd(r)
       \/ count >= MaxOtpAttempts /\ OtpGoto(r, "lock")
    /\ UNCHANGED <<codeRow, otpKey, asked, locked>>

ExpireAttempts(r) ==
    /\ otpCall[r].pc = "expireAttempts"
    /\ Expire(attempts, otpCall[r].user)
    /\ OtpEnd(r)
    /\ UNCHANGED <<codeRow, otpKey, asked, locked>>

Lock(r) ==
    /\ otpCall[r].pc = "lock"
    /\ locked' = locked \cup {otpCall[r].user}
    /\ OtpGoto(r, "forgetAttempts")
    /\ UNCHANGED <<codeRow, otpKey, attempts, asked>>

ForgetAttempts(r) ==
    /\ otpCall[r].pc = "forgetAttempts"
    /\ Del(attempts, otpCall[r].user)
    /\ OtpGoto(r, "forgetKey")
    /\ UNCHANGED <<codeRow, otpKey, asked, locked>>

ForgetKey(r) ==
    /\ otpCall[r].pc = "forgetKey"
    /\ otpKey' = [otpKey EXCEPT ![otpCall[r].user] = None]
    /\ OtpEnd(r)
    /\ UNCHANGED <<codeRow, attempts, asked, locked>>

(* verifyOtp returned true and its caller goes on (see Sessions).          *)
Accept(r) ==
    /\ otpCall[r].pc = "accepted"
    /\ OtpEnd(r)
    /\ UNCHANGED <<codeRow, otpKeys>>

(* An await throws or the instance crashes: what was done stays done.      *)
OtpFail(r) ==
    /\ otpCall[r] # OtpIdle
    /\ OtpEnd(r)
    /\ UNCHANGED <<codeRow, otpKeys>>

OtpProceed(r) ==
    \/ CountRequest(r) \/ ExpireRequests(r) \/ CreateCode(r) \/ CacheCode(r)
    \/ CheckLock(r) \/ ReadKey(r) \/ DropKey(r) \/ DropAttempts(r) \/ MarkUsed(r)
    \/ FindRow(r) \/ UseRow(r)
    \/ CountFailure(r) \/ ExpireAttempts(r) \/ Lock(r) \/ ForgetAttempts(r) \/ ForgetKey(r)
    \/ Accept(r)

-----------------------------------------------------------------------------
(* Time passes: a key or a row is not valid any longer.  Key and row of a  *)
(* code expire at two moments, computed from two readings of the clock.    *)

RowExpires(u, c) ==
    /\ codeRow[u][c] = "unused"
    /\ codeRow' = [codeRow EXCEPT ![u][c] = "expired"]
    /\ UNCHANGED <<otpKeys, otpCall>>

KeyExpires(u) ==
    /\ otpKey[u] # None
    /\ otpKey' = [otpKey EXCEPT ![u] = None]
    /\ UNCHANGED <<codeRow, attempts, asked, locked, otpCall>>

LockExpires(u) ==
    /\ u \in locked
    /\ locked' = locked \ {u}
    /\ UNCHANGED <<codeRow, otpKey, attempts, asked, otpCall>>

AttemptsExpire(u) ==
    /\ attempts[u].expires
    /\ Del(attempts, u)
    /\ UNCHANGED <<codeRow, otpKey, asked, locked, otpCall>>

RequestsExpire(u) ==
    /\ asked[u].expires
    /\ Del(asked, u)
    /\ UNCHANGED <<codeRow, otpKey, attempts, locked, otpCall>>

TimePasses(u) ==
    \/ \E c \in Codes : RowExpires(u, c)
    \/ KeyExpires(u) \/ LockExpires(u) \/ AttemptsExpire(u) \/ RequestsExpire(u)

OtpArrive(r) ==
    \E u \in Phones : \/ GenerateOtp(r, u)
                      \/ \E c \in Codes \cup {None} : VerifyOtp(r, u, c)

OtpNext ==
    \/ \E r \in Requests : OtpArrive(r) \/ OtpProceed(r) \/ OtpFail(r)
    \/ \E u \in Phones : TimePasses(u)

OtpSpec == OtpInit /\ [][OtpNext]_otpVars


-----------------------------------------------------------------------------
OtpPc == {"idle", "countRequest", "expireRequests", "createCode", "cacheCode", "checkLock",
          "readKey", "dropKey", "dropAttempts", "markUsed", "findRow", "useRow", "countFailure",
          "expireAttempts", "lock", "forgetAttempts", "forgetKey", "accepted"}

OtpCall == [pc : OtpPc, user : Phones \cup {None}, code : Codes \cup {None}, cached : BOOLEAN]

Counter(limit) == [count : 0 .. limit, expires : BOOLEAN]

OtpTypeOK ==
    /\ codeRow \in [Phones -> [Codes -> {"none", "unused", "used", "expired"}]]
    /\ otpKey \in [Phones -> Codes \cup {None}]
    /\ attempts \in [Phones -> Counter(MaxOtpAttempts)]
    /\ asked \in [Phones -> Counter(MaxOtpRequests + 1)]
    /\ \A u \in Phones : /\ attempts[u].expires => attempts[u].count > 0
                         /\ asked[u].expires => asked[u].count > 0
    /\ locked \in SUBSET Phones
    /\ otpCall \in [Requests -> OtpCall]

(* The quick look-up never serves a code whose row is used: the key goes   *)
(* before the row is marked, and no code is cached twice, so a request     *)
(* that comes later is refused (otp.service.ts:76-116).                    *)
CachedCodeIsUnused ==
    \A u \in Phones, c \in Codes : otpKey[u] = c => codeRow[u][c] # "used"

(* Once the caller goes on, the code is spent in both places, whichever of *)
(* the two ways it was found on, and whatever requests did in between.     *)
AcceptedIsSpent ==
    \A r \in Requests : otpCall[r].pc = "accepted" =>
        /\ codeRow[otpCall[r].user][otpCall[r].code] # "unused"
        /\ otpKey[otpCall[r].user] # otpCall[r].code

-----------------------------------------------------------------------------
(* What the steps rely on, for the proofs.                                 *)

(* The steps of verifyOtp after it has found the code.                     *)
FoundPc == {"dropKey", "dropAttempts", "markUsed", "useRow", "accepted"}

(* The steps at which the code can not be in the key (any more).           *)
KeyIsGone(c) ==
    \/ c.pc \in {"findRow", "useRow", "dropAttempts", "markUsed", "accepted"}
    \/ c.pc = "dropKey" /\ ~c.cached

OtpJustified(c) ==
    /\ c.pc # "idle" => c.user \in Phones
    /\ c.code # None => /\ c.user \in Phones
                        /\ codeRow[c.user][c.code] # "none"
                        /\ KeyIsGone(c) => otpKey[c.user] # c.code
    /\ c.pc \in FoundPc \cup {"cacheCode"} => c.code # None
    /\ c.pc = "cacheCode" => /\ codeRow[c.user][c.code] # "used"
                             /\ otpKey[c.user] # c.code
    /\ c.pc \in {"dropKey", "dropAttempts"} /\ ~c.cached =>
          codeRow[c.user][c.code] = "used"
    /\ c.pc = "accepted" => codeRow[c.user][c.code] # "unused"

(* Nobody else knows a code that is still to be cached (and to be sent).   *)
UnsentIsUnknown ==
    \A r \in Requests, q \in Requests :
        otpCall[r].pc = "cacheCode" /\ q # r => otpCall[q].code # otpCall[r].code

(* The inductive invariant.                                                *)
OtpInv ==
    /\ OtpTypeOK
    /\ \A r \in Requests : OtpJustified(otpCall[r])
    /\ UnsentIsUnknown
    /\ \A u \in Phones, c \in Codes : otpKey[u] = c => codeRow[u][c] # "none"
    /\ CachedCodeIsUnused
=============================================================================
