------------------------------ MODULE OtpProofs ------------------------------
(***************************************************************************)
(* A one-time code is spent in both places before it is accepted and the   *)
(* key never serves a spent one, whatever the number of phones, of codes,  *)
(* of requests in flight and the limits: proofs of the properties of Otp.  *)
(* Every step is looked at for the request that takes it, which must keep  *)
(* its promises, and for the others: a row only grows older (RowsAge), and *)
(* a code enters the key only once.                                        *)
(***************************************************************************)
EXTENDS Otp, TLAPS

-----------------------------------------------------------------------------
(* Calls.                                                                  *)

LEMMA CallFields ==
    ASSUME OtpTypeOK, NEW r \in Requests
    PROVE  /\ otpCall[r] \in OtpCall               /\ otpCall[r].pc \in OtpPc
           /\ otpCall[r].user \in Phones \cup {None}
           /\ otpCall[r].code \in Codes \cup {None}
           /\ otpCall[r].cached \in BOOLEAN
BY DEF OtpTypeOK, OtpCall

LEMMA NewCallIsTyped ==
    ASSUME NEW pc \in OtpPc, NEW u \in Phones \cup {None}, NEW c \in Codes \cup {None}
    PROVE  NewOtpCall(pc, u, c) \in OtpCall
BY DEF NewOtpCall, OtpCall

LEMMA IdleIsTyped == OtpIdle \in OtpCall
BY NewCallIsTyped DEF OtpIdle, OtpPc

LEMMA IdleIsJustified == OtpJustified(OtpIdle)
BY DEF OtpJustified, OtpIdle, NewOtpCall, KeyIsGone, FoundPc

(* Only the call of the request that takes the step changes.               *)
LEMMA CallChange ==
    ASSUME OtpTypeOK, NEW r \in Requests, NEW c \in OtpCall,
           otpCall' = [otpCall EXCEPT ![r] = c]
    PROVE  /\ otpCall' \in [Requests -> OtpCall]
           /\ otpCall'[r] = c
           /\ \A q \in Requests \ {r} : otpCall'[q] = otpCall[q]
BY DEF OtpTypeOK

(* A step to another pc leaves the rest of the call alone.                 *)
LEMMA GotoIsTyped ==
    ASSUME OtpTypeOK, NEW r \in Requests, NEW pc \in OtpPc, OtpGoto(r, pc)
    PROVE  \E c \in OtpCall : /\ otpCall' = [otpCall EXCEPT ![r] = c]
                              /\ c.pc = pc /\ c.user = otpCall[r].user
                              /\ c.code = otpCall[r].code /\ c.cached = otpCall[r].cached
<1> DEFINE c == [otpCall[r] EXCEPT !.pc = pc]
<1>1. c \in OtpCall /\ c.pc = pc /\ c.user = otpCall[r].user /\ c.code = otpCall[r].code
      /\ c.cached = otpCall[r].cached
  BY CallFields DEF OtpCall
<1>2. otpCall' = [otpCall EXCEPT ![r] = c]
  BY DEF OtpGoto
<1> QED  BY <1>1, <1>2

-----------------------------------------------------------------------------
(* Counters.                                                               *)

(* A counter is there when it expires.                                     *)
Counters ==
    /\ attempts \in [Phones -> Counter(MaxOtpAttempts)]
    /\ asked \in [Phones -> Counter(MaxOtpRequests + 1)]
    /\ \A u \in Phones : /\ attempts[u].expires => attempts[u].count > 0
                         /\ asked[u].expires => asked[u].count > 0

LEMMA IncrCounts ==
    ASSUME NEW limit \in Nat \ {0}, NEW counter \in [Phones -> Counter(limit)], NEW u \in Phones
    PROVE  LET new == [counter EXCEPT ![u].count = IF @ < limit THEN @ + 1 ELSE limit] IN
           /\ new \in [Phones -> Counter(limit)]
           /\ new[u].count > 0
           /\ \A v \in Phones \ {u} : new[v] = counter[v]
<1> DEFINE n == IF counter[u].count < limit THEN counter[u].count + 1 ELSE limit
           row == [counter[u] EXCEPT !.count = n]
<1>1. counter[u] \in Counter(limit) /\ counter[u].count \in 0 .. limit
  BY DEF Counter
<1>2. n \in 0 .. limit /\ n > 0
  BY <1>1
<1> HIDE DEF n
<1>3. row \in Counter(limit) /\ row.count = n
  BY <1>1, <1>2 DEF Counter
<1>4. [counter EXCEPT ![u].count = IF @ < limit THEN @ + 1 ELSE limit] = [counter EXCEPT ![u] = row]
  BY DEF n
<1> HIDE DEF row
<1> QED  BY <1>2, <1>3, <1>4

LEMMA ExpireCounts ==
    ASSUME NEW limit \in Nat, NEW counter \in [Phones -> Counter(limit)], NEW u \in Phones
    PROVE  LET new == [counter EXCEPT ![u].expires = counter[u].count > 0] IN
           /\ new \in [Phones -> Counter(limit)]
           /\ new[u].expires => new[u].count > 0
           /\ \A v \in Phones \ {u} : new[v] = counter[v]
<1> DEFINE some == counter[u].count > 0
           row == [counter[u] EXCEPT !.expires = some]
<1>1. counter[u] \in Counter(limit) /\ some \in BOOLEAN
  OBVIOUS
<1>2. row \in Counter(limit)
  <2> HIDE DEF some
  <2> QED  BY <1>1 DEF Counter
<1>3. row.count = counter[u].count /\ row.expires = (counter[u].count > 0)
  BY <1>1 DEF Counter
<1>4. [counter EXCEPT ![u].expires = counter[u].count > 0] = [counter EXCEPT ![u] = row]
  OBVIOUS
<1> HIDE DEF row
<1> QED  BY <1>2, <1>3, <1>4

LEMMA DelCounts ==
    ASSUME NEW limit \in Nat, NEW counter \in [Phones -> Counter(limit)], NEW u \in Phones
    PROVE  LET new == [counter EXCEPT ![u] = NoCounter] IN
           /\ new \in [Phones -> Counter(limit)]
           /\ ~new[u].expires
           /\ \A v \in Phones \ {u} : new[v] = counter[v]
<1>1. NoCounter \in Counter(limit) /\ ~NoCounter.expires
  BY DEF NoCounter, Counter
<1> QED  BY <1>1

LEMMA CountersChange ==
    ASSUME Counters, NEW u \in Phones
    PROVE  /\ Incr(attempts, u, MaxOtpAttempts) /\ UNCHANGED asked => Counters'
           /\ Incr(asked, u, MaxOtpRequests + 1) /\ UNCHANGED attempts => Counters'
           /\ Expire(attempts, u) /\ UNCHANGED asked => Counters'
           /\ Expire(asked, u) /\ UNCHANGED attempts => Counters'
           /\ Del(attempts, u) /\ UNCHANGED asked => Counters'
           /\ Del(asked, u) /\ UNCHANGED attempts => Counters'
<1>1. MaxOtpAttempts \in Nat \ {0} /\ MaxOtpRequests + 1 \in Nat \ {0}
  BY OtpAssumption
<1>2. Incr(attempts, u, MaxOtpAttempts) /\ UNCHANGED asked => Counters'
  BY <1>1, IncrCounts DEF Counters, Incr
<1>3. Incr(asked, u, MaxOtpRequests + 1) /\ UNCHANGED attempts => Counters'
  BY <1>1, IncrCounts DEF Counters, Incr
<1>4. Expire(attempts, u) /\ UNCHANGED asked => Counters'
  BY <1>1, ExpireCounts DEF Counters, Expire
<1>5. Expire(asked, u) /\ UNCHANGED attempts => Counters'
  BY <1>1, ExpireCounts DEF Counters, Expire
<1>6. Del(attempts, u) /\ UNCHANGED asked => Counters'
  BY <1>1, DelCounts DEF Counters, Del
<1>7. Del(asked, u) /\ UNCHANGED attempts => Counters'
  BY <1>1, DelCounts DEF Counters, Del
<1> QED  BY <1>2, <1>3, <1>4, <1>5, <1>6, <1>7

LEMMA CountersAreTyped == OtpTypeOK => Counters
BY DEF OtpTypeOK, Counters

-----------------------------------------------------------------------------
(* The others.                                                             *)

(* A row is made once, is used or expires, and stays.                      *)
RowsAge ==
    /\ codeRow' \in [Phones -> [Codes -> {"none", "unused", "used", "expired"}]]
    /\ \A u \in Phones, c \in Codes :
          /\ codeRow[u][c] # "none" => codeRow'[u][c] # "none"
          /\ codeRow[u][c] \notin {"none", "unused"} => codeRow'[u][c] # "unused"
          /\ codeRow[u][c] = "used" => codeRow'[u][c] = "used"

(* What a request relies on outlives the steps of the others, unless they  *)
(* use or cache its code.                                                  *)
LEMMA JustifiedStays ==
    ASSUME OtpTypeOK, NEW q \in Requests, OtpJustified(otpCall[q]), otpCall'[q] = otpCall[q], RowsAge,
           otpCall[q].code # None /\ otpCall[q].user \in Phones =>
              /\ otpKey'[otpCall[q].user] = otpCall[q].code => otpKey[otpCall[q].user] = otpCall[q].code
              /\ otpCall[q].pc = "cacheCode" /\ codeRow'[otpCall[q].user][otpCall[q].code] = "used" =>
                    codeRow[otpCall[q].user][otpCall[q].code] = "used"
    PROVE  OtpJustified(otpCall[q])'
<1>1. otpCall[q].code \in Codes \cup {None}
  BY CallFields
<1>2. CASE otpCall[q].code = None
  BY <1>2 DEF OtpJustified, FoundPc
<1>3. CASE otpCall[q].code \in Codes
  <2>1. otpCall[q].code # None /\ otpCall[q].user \in Phones
    BY <1>3, OtpAssumption DEF OtpJustified
  <2> QED  BY <1>3, <2>1 DEF OtpJustified, RowsAge, KeyIsGone, FoundPc
<1> QED  BY <1>1, <1>2, <1>3

(* No row and no otp:<phone> is written, and r is left with call c.        *)
LEMMA QuietStepKeepsInv ==
    ASSUME OtpInv, NEW r \in Requests, NEW c \in OtpCall, OtpJustified(c),
           otpCall' = [otpCall EXCEPT ![r] = c], UNCHANGED <<codeRow, otpKey>>,
           Counters', locked' \in SUBSET Phones,
           c.pc # "cacheCode",
           c.code # None => \A q \in Requests \ {r} : otpCall[q].pc = "cacheCode" => otpCall[q].code # c.code
    PROVE  OtpInv'
<1> USE DEF OtpInv
<1>1. OtpTypeOK'
  BY CallChange DEF OtpTypeOK, Counters
<1>2. ASSUME NEW q \in Requests PROVE OtpJustified(otpCall[q])'
  <2>1. CASE q = r
    BY <2>1, CallChange DEF OtpJustified, KeyIsGone
  <2>2. CASE q # r
    <3>1. RowsAge
      BY DEF RowsAge, OtpTypeOK
    <3> QED  BY <2>2, <3>1, CallChange, JustifiedStays
  <2> QED  BY <2>1, <2>2
<1>3. UnsentIsUnknown'
  <2> SUFFICES ASSUME NEW s \in Requests, NEW q \in Requests, otpCall'[s].pc = "cacheCode", q # s
               PROVE  otpCall'[q].code # otpCall'[s].code
    BY DEF UnsentIsUnknown
  <2>1. s # r /\ otpCall'[s] = otpCall[s] /\ otpCall[s].code # None
    BY CallChange DEF OtpJustified
  <2>2. CASE q = r
    BY <2>1, <2>2, CallChange
  <2>3. CASE q # r
    BY <2>1, <2>3, CallChange DEF UnsentIsUnknown
  <2> QED  BY <2>2, <2>3
<1>4. CachedCodeIsUnused' /\ \A u \in Phones, d \in Codes : otpKey'[u] = d => codeRow'[u][d] # "none"
  BY DEF CachedCodeIsUnused
<1> QED  BY <1>1, <1>2, <1>3, <1>4

LEMMA EndKeepsInv ==
    ASSUME OtpInv, NEW r \in Requests, OtpEnd(r), UNCHANGED <<codeRow, otpKey>>,
           Counters', locked' \in SUBSET Phones
    PROVE  OtpInv'
<1>1. OtpIdle.pc # "cacheCode" /\ OtpIdle.code = None
  BY DEF OtpIdle, NewOtpCall
<1> QED  BY <1>1, IdleIsTyped, IdleIsJustified, QuietStepKeepsInv DEF OtpEnd

(* The request goes on with the code it has.                               *)
LEMMA GotoKeepsInv ==
    ASSUME OtpInv, NEW r \in Requests, NEW pc \in OtpPc, OtpGoto(r, pc), UNCHANGED <<codeRow, otpKey>>,
           Counters', locked' \in SUBSET Phones, pc # "cacheCode",
           otpCall[r].user \in Phones,
           pc \in FoundPc => otpCall[r].code # None,
           otpCall[r].code # None /\ (\/ pc \in {"findRow", "useRow", "dropAttempts", "markUsed",
                                                 "accepted"}
                                      \/ pc = "dropKey" /\ ~otpCall[r].cached) =>
              otpKey[otpCall[r].user] # otpCall[r].code,
           pc \in {"dropKey", "dropAttempts"} /\ ~otpCall[r].cached =>
              codeRow[otpCall[r].user][otpCall[r].code] = "used",
           pc = "accepted" => codeRow[otpCall[r].user][otpCall[r].code] # "unused"
    PROVE  OtpInv'
<1> PICK c \in OtpCall : /\ otpCall' = [otpCall EXCEPT ![r] = c]
                         /\ c.pc = pc /\ c.user = otpCall[r].user
                         /\ c.code = otpCall[r].code /\ c.cached = otpCall[r].cached
  BY GotoIsTyped DEF OtpInv
<1>1. OtpJustified(c)
  BY DEF OtpJustified, KeyIsGone, FoundPc, OtpInv
<1>2. c.code # None => \A q \in Requests \ {r} : otpCall[q].pc = "cacheCode" => otpCall[q].code # c.code
  BY DEF OtpInv, UnsentIsUnknown
<1> QED  BY <1>1, <1>2, QuietStepKeepsInv

-----------------------------------------------------------------------------
(* The steps that write neither a row nor otp:<phone>.                     *)

LEMMA GenerateOtpKeepsInv ==
    ASSUME OtpInv, NEW r \in Requests, NEW u \in Phones, GenerateOtp(r, u)
    PROVE  OtpInv'
<1> DEFINE c == NewOtpCall("countRequest", u, None)
<1>1. c \in OtpCall /\ OtpJustified(c) /\ c.pc # "cacheCode" /\ c.code = None
  BY NewCallIsTyped DEF OtpPc, OtpJustified, NewOtpCall, KeyIsGone, FoundPc
<1>2. Counters' /\ locked' \in SUBSET Phones
  BY CountersAreTyped DEF GenerateOtp, otpKeys, OtpInv, OtpTypeOK, Counters
<1>3. otpCall' = [otpCall EXCEPT ![r] = c] /\ UNCHANGED <<codeRow, otpKey>>
  BY DEF GenerateOtp, otpKeys
<1> HIDE DEF c
<1> QED  BY <1>1, <1>2, <1>3, QuietStepKeepsInv

LEMMA VerifyOtpKeepsInv ==
    ASSUME OtpInv, NEW r \in Requests, NEW u \in Phones, NEW c \in Codes \cup {None},
           VerifyOtp(r, u, c)
    PROVE  OtpInv'
<1> DEFINE new == NewOtpCall("checkLock", u, c)
<1>1. new \in OtpCall /\ new.pc # "cacheCode" /\ new.code = c
  BY NewCallIsTyped DEF OtpPc, NewOtpCall
<1>2. OtpJustified(new)
  BY DEF OtpJustified, NewOtpCall, KeyIsGone, FoundPc, VerifyOtp
<1>3. Counters' /\ locked' \in SUBSET Phones
  BY CountersAreTyped DEF VerifyOtp, otpKeys, OtpInv, OtpTypeOK, Counters
<1>4. otpCall' = [otpCall EXCEPT ![r] = new] /\ UNCHANGED <<codeRow, otpKey>>
  BY DEF VerifyOtp, otpKeys
<1>5. c # None => \A q \in Requests \ {r} : otpCall[q].pc = "cacheCode" => otpCall[q].code # c
  BY DEF VerifyOtp
<1> HIDE DEF new
<1> QED  BY <1>1, <1>2, <1>3, <1>4, <1>5, QuietStepKeepsInv

LEMMA ReadKeyKeepsInv ==
    ASSUME OtpInv, NEW r \in Requests, ReadKey(r)
    PROVE  OtpInv'
<1> DEFINE u == otpCall[r].user
           c == otpCall[r].code
           new == IF c # None /\ otpKey[u] = c
                  THEN [NewOtpCall("dropKey", u, c) EXCEPT !.cached = TRUE]
                  ELSE NewOtpCall("findRow", u, c)
<1>1. u \in Phones /\ c \in Codes \cup {None} /\ (c # None => codeRow[u][c] # "none")
  BY CallFields DEF ReadKey, OtpInv, OtpJustified
<1>2. new \in OtpCall /\ new.pc # "cacheCode" /\ new.code = c
  BY <1>1 DEF OtpPc, NewOtpCall, OtpCall
<1>3. OtpJustified(new)
  BY <1>1 DEF OtpJustified, NewOtpCall, KeyIsGone, FoundPc
<1>4. Counters' /\ locked' \in SUBSET Phones
  BY CountersAreTyped DEF ReadKey, otpKeys, OtpInv, OtpTypeOK, Counters
<1>5. otpCall' = [otpCall EXCEPT ![r] = new] /\ UNCHANGED <<codeRow, otpKey>>
  BY DEF ReadKey, otpKeys
<1>6. c # None => \A q \in Requests \ {r} : otpCall[q].pc = "cacheCode" => otpCall[q].code # c
  BY DEF OtpInv, UnsentIsUnknown
<1> HIDE DEF new, c
<1> QED  BY <1>2, <1>3, <1>4, <1>5, <1>6, QuietStepKeepsInv

(* The steps that only look.                                               *)
LEMMA LookKeepsInv ==
    ASSUME OtpInv, NEW r \in Requests,
           CheckLock(r) \/ FindRow(r) \/ Accept(r) \/ OtpFail(r)
    PROVE  OtpInv'
<1>1. Counters' /\ locked' \in SUBSET Phones /\ UNCHANGED <<codeRow, otpKey>>
  BY CountersAreTyped
     DEF CheckLock, FindRow, Accept, OtpFail, otpKeys, OtpInv, OtpTypeOK, Counters
<1>2. otpCall[r].pc # "idle" => otpCall[r].user \in Phones
  BY DEF OtpInv, OtpJustified
<1>3. CASE CheckLock(r)
  <2>1. CASE OtpEnd(r)
    BY <1>1, <2>1, EndKeepsInv
  <2>2. CASE OtpGoto(r, "readKey")
    BY <1>1, <1>2, <1>3, <2>2, GotoKeepsInv DEF CheckLock, OtpPc, FoundPc
  <2> QED  BY <1>3, <2>1, <2>2 DEF CheckLock
<1>4. CASE FindRow(r)
  <2>1. otpCall[r].code # None => otpKey[otpCall[r].user] # otpCall[r].code
    BY <1>4 DEF FindRow, OtpInv, OtpJustified, KeyIsGone
  <2>2. CASE OtpGoto(r, "useRow") /\ otpCall[r].code # None
    BY <1>1, <1>2, <1>4, <2>1, <2>2, GotoKeepsInv DEF FindRow, OtpPc, FoundPc
  <2>3. CASE OtpGoto(r, "countFailure")
    BY <1>1, <1>2, <1>4, <2>1, <2>3, GotoKeepsInv DEF FindRow, OtpPc, FoundPc
  <2> QED  BY <1>4, <2>2, <2>3 DEF FindRow
<1>5. CASE Accept(r) \/ OtpFail(r)
  BY <1>1, <1>5, EndKeepsInv DEF Accept, OtpFail
<1> QED  BY <1>3, <1>4, <1>5

(* The steps that count requests.                                          *)
LEMMA AskingKeepsInv ==
    ASSUME OtpInv, NEW r \in Requests, CountRequest(r) \/ ExpireRequests(r)
    PROVE  OtpInv'
<1>1. otpCall[r].user \in Phones
  BY DEF OtpInv, OtpJustified, CountRequest, ExpireRequests
<1>2. locked' \in SUBSET Phones /\ UNCHANGED <<codeRow, otpKey, attempts>>
  BY DEF CountRequest, ExpireRequests, OtpInv, OtpTypeOK
<1>3. Counters'
  BY <1>1, <1>2, CountersAreTyped, CountersChange DEF CountRequest, ExpireRequests, OtpInv
<1>4. CASE OtpGoto(r, "expireRequests")
  BY <1>1, <1>2, <1>3, <1>4, GotoKeepsInv DEF OtpPc, FoundPc
<1>5. CASE OtpGoto(r, "createCode")
  BY <1>1, <1>2, <1>3, <1>5, GotoKeepsInv DEF OtpPc, FoundPc
<1>6. CASE OtpEnd(r)
  BY <1>2, <1>3, <1>6, EndKeepsInv
<1> QED  BY <1>4, <1>5, <1>6 DEF CountRequest, ExpireRequests

(* The steps that count failures.                                          *)
LEMMA FailingKeepsInv ==
    ASSUME OtpInv, NEW r \in Requests, CountFailure(r) \/ ExpireAttempts(r) \/ ForgetAttempts(r)
    PROVE  OtpInv'
<1>1. otpCall[r].user \in Phones
  BY DEF OtpInv, OtpJustified, CountFailure, ExpireAttempts, ForgetAttempts
<1>2. locked' \in SUBSET Phones /\ UNCHANGED <<codeRow, otpKey, asked>>
  BY DEF CountFailure, ExpireAttempts, ForgetAttempts, OtpInv, OtpTypeOK
<1>3. Counters'
  BY <1>1, <1>2, CountersAreTyped, CountersChange
     DEF CountFailure, ExpireAttempts, ForgetAttempts, OtpInv
<1>4. CASE OtpGoto(r, "expireAttempts")
  BY <1>1, <1>2, <1>3, <1>4, GotoKeepsInv DEF OtpPc, FoundPc
<1>5. CASE OtpGoto(r, "lock")
  BY <1>1, <1>2, <1>3, <1>5, GotoKeepsInv DEF OtpPc, FoundPc
<1>6. CASE OtpGoto(r, "forgetKey")
  BY <1>1, <1>2, <1>3, <1>6, GotoKeepsInv DEF OtpPc, FoundPc
<1>7. CASE OtpEnd(r)
  BY <1>2, <1>3, <1>7, EndKeepsInv
<1> QED  BY <1>4, <1>5, <1>6, <1>7 DEF CountFailure, ExpireAttempts, ForgetAttempts

LEMMA LockKeepsInv ==
    ASSUME OtpInv, NEW r \in Requests, Lock(r)
    PROVE  OtpInv'
<1>1. otpCall[r].user \in Phones
  BY DEF OtpInv, OtpJustified, Lock
<1>2. locked' \in SUBSET Phones /\ UNCHANGED <<codeRow, otpKey, attempts, asked>>
  BY <1>1 DEF Lock, OtpInv, OtpTypeOK
<1>3. Counters'
  BY <1>2, CountersAreTyped DEF Counters, OtpInv
<1> QED  BY <1>1, <1>2, <1>3, GotoKeepsInv DEF Lock, OtpPc, FoundPc

(* The counter goes; what was said of key and row still holds.             *)
LEMMA DropAttemptsKeepsInv ==
    ASSUME OtpInv, NEW r \in Requests, DropAttempts(r)
    PROVE  OtpInv'
<1>1. /\ otpCall[r].user \in Phones /\ otpCall[r].code # None
      /\ otpKey[otpCall[r].user] # otpCall[r].code
      /\ ~otpCall[r].cached => codeRow[otpCall[r].user][otpCall[r].code] = "used"
  BY DEF OtpInv, OtpJustified, DropAttempts, KeyIsGone, FoundPc
<1>2. locked' \in SUBSET Phones /\ UNCHANGED <<codeRow, otpKey, asked>>
  BY DEF DropAttempts, OtpInv, OtpTypeOK
<1>3. Counters'
  BY <1>1, <1>2, CountersAreTyped, CountersChange DEF DropAttempts, OtpInv
<1>4. CASE otpCall[r].cached
  BY <1>1, <1>2, <1>3, <1>4, GotoKeepsInv DEF DropAttempts, OtpPc, FoundPc
<1>5. CASE ~otpCall[r].cached
  BY <1>1, <1>2, <1>3, <1>5, GotoKeepsInv DEF DropAttempts, OtpPc, FoundPc
<1> QED  BY <1>4, <1>5

-----------------------------------------------------------------------------
(* The steps that write otp:<phone>.                                       *)

(* The key is deleted.                                                     *)
KeyDropped(u) == otpKey' = [otpKey EXCEPT ![u] = None] /\ UNCHANGED <<codeRow, attempts, asked, locked>>

LEMMA KeyDroppedFacts ==
    ASSUME OtpInv, NEW u \in Phones, KeyDropped(u)
    PROVE  /\ otpKey' \in [Phones -> Codes \cup {None}]
           /\ otpKey'[u] = None
           /\ \A v \in Phones, c \in Codes : otpKey'[v] = c => otpKey[v] = c
           /\ RowsAge /\ CachedCodeIsUnused'
           /\ \A v \in Phones, c \in Codes : otpKey'[v] = c => codeRow'[v][c] # "none"
           /\ Counters' /\ locked' \in SUBSET Phones
<1>1. otpKey' \in [Phones -> Codes \cup {None}] /\ otpKey'[u] = None
  BY DEF OtpInv, OtpTypeOK, KeyDropped
<1>2. \A v \in Phones, c \in Codes : otpKey'[v] = c => otpKey[v] = c
  BY OtpAssumption DEF OtpInv, OtpTypeOK, KeyDropped
<1>3. RowsAge
  BY DEF OtpInv, OtpTypeOK, KeyDropped, RowsAge
<1>4. CachedCodeIsUnused' /\ \A v \in Phones, c \in Codes : otpKey'[v] = c => codeRow'[v][c] # "none"
  BY <1>2 DEF OtpInv, CachedCodeIsUnused, KeyDropped
<1>5. Counters' /\ locked' \in SUBSET Phones
  BY DEF OtpInv, OtpTypeOK, KeyDropped, Counters
<1> QED  BY <1>1, <1>2, <1>3, <1>4, <1>5

(* Time has deleted it.                                                    *)
LEMMA KeyExpiresKeepsInv ==
    ASSUME OtpInv, NEW u \in Phones, KeyExpires(u)
    PROVE  OtpInv'
<1>1. KeyDropped(u) /\ UNCHANGED otpCall
  BY DEF KeyExpires, KeyDropped
<1>2. OtpTypeOK'
  BY <1>1, KeyDroppedFacts DEF OtpInv, OtpTypeOK, Counters, RowsAge
<1>3. ASSUME NEW q \in Requests PROVE OtpJustified(otpCall[q])'
  <2>1. otpCall[q].code \in Codes \cup {None}
    BY CallFields DEF OtpInv
  <2> QED  BY <1>1, <2>1, KeyDroppedFacts, JustifiedStays DEF OtpInv, KeyDropped
<1>4. UnsentIsUnknown'
  BY <1>1 DEF OtpInv, UnsentIsUnknown
<1> QED  BY <1>1, <1>2, <1>3, <1>4, KeyDroppedFacts DEF OtpInv

(* Request r has deleted it and goes on as c.                              *)
LEMMA DropStepKeepsInv ==
    ASSUME OtpInv, NEW r \in Requests, NEW u \in Phones, KeyDropped(u),
           NEW c \in OtpCall, otpCall' = [otpCall EXCEPT ![r] = c],
           c.code \in {otpCall[r].code, None},
           c.pc = "idle" \/ (c.pc = "dropAttempts" /\ c.user = u /\ OtpJustified([c EXCEPT !.pc = "dropKey"])),
           c.pc = "idle" => c = OtpIdle
    PROVE  OtpInv'
<1>1. OtpTypeOK'
  BY CallChange, KeyDroppedFacts DEF OtpInv, OtpTypeOK, Counters, RowsAge
<1>2. ASSUME NEW q \in Requests PROVE OtpJustified(otpCall[q])'
  <2>1. CASE q # r
    <3>1. otpCall[q].code \in Codes \cup {None}
      BY CallFields DEF OtpInv
    <3> QED  BY <2>1, <3>1, CallChange, KeyDroppedFacts, JustifiedStays DEF OtpInv, KeyDropped
  <2>2. CASE q = r /\ c.pc = "idle"
    <3>1. otpCall'[q] = OtpIdle
      BY <2>2, CallChange DEF OtpInv
    <3> QED  BY <3>1 DEF OtpJustified, OtpIdle, NewOtpCall, KeyIsGone, FoundPc
  <2>3. CASE q = r /\ c.pc = "dropAttempts"
    <3>1. otpCall'[q] = c /\ c.user = u /\ UNCHANGED codeRow
      BY <2>3, CallChange DEF OtpInv, KeyDropped
    <3>2. /\ c.code # None /\ codeRow[u][c.code] # "none"
          /\ ~c.cached => codeRow[u][c.code] = "used"
      BY <2>3, <3>1 DEF OtpJustified, FoundPc, OtpCall
    <3> QED  BY <2>3, <3>1, <3>2, KeyDroppedFacts DEF OtpJustified, KeyIsGone, FoundPc
  <2> QED  BY <2>1, <2>2, <2>3
<1>3. UnsentIsUnknown'
  <2> SUFFICES ASSUME NEW s \in Requests, NEW q \in Requests, otpCall'[s].pc = "cacheCode", q # s
               PROVE  otpCall'[q].code # otpCall'[s].code
    BY DEF UnsentIsUnknown
  <2>1. s # r /\ otpCall'[s] = otpCall[s] /\ otpCall[s].code # None
    BY CallChange DEF OtpJustified, OtpInv
  <2> QED  BY <2>1, CallChange DEF UnsentIsUnknown, OtpInv
<1> QED  BY <1>1, <1>2, <1>3, KeyDroppedFacts DEF OtpInv

LEMMA ForgetKeyKeepsInv ==
    ASSUME OtpInv, NEW r \in Requests, ForgetKey(r)
    PROVE  OtpInv'
<1>1. otpCall[r].user \in Phones
  BY DEF OtpInv, OtpJustified, ForgetKey
<1>2. KeyDropped(otpCall[r].user)
  BY DEF ForgetKey, KeyDropped
<1>3. otpCall' = [otpCall EXCEPT ![r] = OtpIdle] /\ OtpIdle.pc = "idle" /\ OtpIdle.code = None
  BY DEF ForgetKey, OtpEnd, OtpIdle, NewOtpCall
<1> PICK u \in Phones : u = otpCall[r].user
  BY <1>1
<1> QED  BY <1>2, <1>3, IdleIsTyped, DropStepKeepsInv

LEMMA DropKeyKeepsInv ==
    ASSUME OtpInv, NEW r \in Requests, DropKey(r)
    PROVE  OtpInv'
<1>1. otpCall[r].user \in Phones
  BY DEF OtpInv, OtpJustified, DropKey
<1> PICK u \in Phones : u = otpCall[r].user
  BY <1>1
<1>2. KeyDropped(u)
  BY DEF DropKey, KeyDropped
<1> PICK c \in OtpCall : /\ otpCall' = [otpCall EXCEPT ![r] = c]
                         /\ c.pc = "dropAttempts" /\ c.user = otpCall[r].user
                         /\ c.code = otpCall[r].code /\ c.cached = otpCall[r].cached
  BY GotoIsTyped DEF OtpInv, DropKey, OtpPc
<1>3. otpCall[r] = [c EXCEPT !.pc = "dropKey"]
  BY CallFields DEF DropKey, OtpCall, OtpInv
<1>4. OtpJustified([c EXCEPT !.pc = "dropKey"])
  BY <1>3 DEF OtpInv
<1> QED  BY <1>2, <1>4, DropStepKeepsInv

(* The code enters the key: no request knows it yet, so none has looked    *)
(* for it there in vain.                                                   *)
LEMMA CacheCodeKeepsInv ==
    ASSUME OtpInv, NEW r \in Requests, CacheCode(r)
    PROVE  OtpInv'
<1> PICK u \in Phones : u = otpCall[r].user
  BY DEF OtpInv, OtpJustified, CacheCode
<1> PICK c \in Codes : c = otpCall[r].code
  BY CallFields DEF OtpInv, OtpJustified, CacheCode
<1>1. /\ otpKey' = [otpKey EXCEPT ![u] = c]
      /\ otpCall' = [otpCall EXCEPT ![r] = OtpIdle] /\ OtpIdle.pc = "idle" /\ OtpIdle.code = None
      /\ UNCHANGED <<codeRow, attempts, asked, locked>>
      /\ otpCall[r].pc = "cacheCode"
  BY DEF CacheCode, OtpEnd, OtpIdle, NewOtpCall
<1>2. c # None /\ codeRow[u][c] \notin {"none", "used"}
  BY <1>1 DEF OtpInv, OtpJustified
<1>3. OtpTypeOK'
  BY <1>1, CallChange, IdleIsTyped DEF OtpInv, OtpTypeOK
<1>4. RowsAge
  BY <1>1 DEF OtpInv, OtpTypeOK, RowsAge
<1>5. ASSUME NEW q \in Requests PROVE OtpJustified(otpCall[q])'
  <2>1. CASE q # r
    <3>1. otpCall[q].code # c
      BY <1>1, <2>1 DEF OtpInv, UnsentIsUnknown
    <3>2. otpCall[q].user \in Phones /\ otpKey'[otpCall[q].user] = otpCall[q].code =>
             otpKey[otpCall[q].user] = otpCall[q].code
      BY <1>1, <3>1 DEF OtpInv, OtpTypeOK
    <3>3. otpCall'[q] = otpCall[q]
      BY <1>1, <2>1, CallChange, IdleIsTyped DEF OtpInv
    <3> QED  BY <1>1, <1>4, <3>2, <3>3, JustifiedStays DEF OtpInv
  <2>2. CASE q = r
    <3>1. otpCall'[q] = OtpIdle
      BY <1>1, <2>2, CallChange, IdleIsTyped DEF OtpInv
    <3> QED  BY <3>1 DEF OtpJustified, OtpIdle, NewOtpCall, KeyIsGone, FoundPc
  <2> QED  BY <2>1, <2>2
<1>6. UnsentIsUnknown'
  <2> SUFFICES ASSUME NEW s \in Requests, NEW q \in Requests, otpCall'[s].pc = "cacheCode", q # s
               PROVE  otpCall'[q].code # otpCall'[s].code
    BY DEF UnsentIsUnknown
  <2>1. s # r /\ otpCall'[s] = otpCall[s] /\ otpCall[s].code # None
    BY <1>1, CallChange, IdleIsTyped DEF OtpJustified, OtpInv
  <2> QED  BY <1>1, <2>1, CallChange, IdleIsTyped DEF UnsentIsUnknown, OtpInv
<1>7. CachedCodeIsUnused' /\ \A v \in Phones, d \in Codes : otpKey'[v] = d => codeRow'[v][d] # "none"
  BY <1>1, <1>2 DEF OtpInv, OtpTypeOK, CachedCodeIsUnused
<1> QED  BY <1>3, <1>5, <1>6, <1>7 DEF OtpInv

-----------------------------------------------------------------------------
(* The steps that write a row.                                             *)

RowSet(u, c, x) == codeRow' = [codeRow EXCEPT ![u][c] = x]

(* One row gets status x, as rows age.                                     *)
LEMMA RowWritten ==
    ASSUME OtpInv, NEW u \in Phones, NEW c \in Codes,
           NEW x \in {"unused", "used", "expired"},
           RowSet(u, c, x),
           codeRow[u][c] \notin {"none", "unused"} => x # "unused",
           codeRow[u][c] = "used" => x = "used"
    PROVE  /\ RowsAge /\ codeRow'[u][c] = x
           /\ \A v \in Phones, d \in Codes : <<v, d>> # <<u, c>> => codeRow'[v][d] = codeRow[v][d]
<1>1. codeRow'[u][c] = x
  BY DEF OtpInv, OtpTypeOK, RowSet
<1>2. \A v \in Phones, d \in Codes : <<v, d>> # <<u, c>> => codeRow'[v][d] = codeRow[v][d]
  BY DEF OtpInv, OtpTypeOK, RowSet
<1>3. codeRow' \in [Phones -> [Codes -> {"none", "unused", "used", "expired"}]]
  BY DEF OtpInv, OtpTypeOK, RowSet
<1> QED  BY <1>1, <1>2, <1>3 DEF RowsAge

(* The row of a code the key does not hold is used, or its row expires.    *)
LEMMA RowStepKeepsInv ==
    ASSUME OtpInv, RowsAge, UNCHANGED <<otpKey, attempts, asked, locked>>,
           NEW u \in Phones, NEW c \in Codes,
           \A v \in Phones, d \in Codes : <<v, d>> # <<u, c>> => codeRow'[v][d] = codeRow[v][d],
           codeRow'[u][c] = "used" =>
              /\ otpKey[u] # c
              /\ \A q \in Requests : otpCall[q].pc = "cacheCode" => otpCall[q].code # c,
           otpCall' \in [Requests -> OtpCall],
           \A q \in Requests : \/ otpCall'[q] = otpCall[q]
                               \/ /\ OtpJustified(otpCall[q])' /\ otpCall'[q].pc # "cacheCode"
                                  /\ otpCall'[q].code = otpCall[q].code
    PROVE  OtpInv'
<1>1. OtpTypeOK'
  BY DEF OtpInv, OtpTypeOK, RowsAge
<1>2. ASSUME NEW q \in Requests PROVE OtpJustified(otpCall[q])'
  <2>1. CASE otpCall'[q] = otpCall[q]
    <3>1. otpCall[q].code # None => otpCall[q].code \in Codes
      BY CallFields DEF OtpInv
    <3> QED  BY <2>1, <3>1, JustifiedStays DEF OtpInv
  <2> QED  BY <2>1
<1>3. UnsentIsUnknown'
  BY DEF OtpInv, UnsentIsUnknown
<1>4. CachedCodeIsUnused' /\ \A v \in Phones, d \in Codes : otpKey'[v] = d => codeRow'[v][d] # "none"
  BY DEF OtpInv, CachedCodeIsUnused, RowsAge
<1> QED  BY <1>1, <1>2, <1>3, <1>4 DEF OtpInv

LEMMA RowExpiresKeepsInv ==
    ASSUME OtpInv, NEW u \in Phones, NEW c \in Codes, RowExpires(u, c)
    PROVE  OtpInv'
<1>1. RowSet(u, c, "expired") /\ codeRow[u][c] = "unused"
      /\ UNCHANGED <<otpKey, attempts, asked, locked>> /\ UNCHANGED otpCall
  BY DEF RowExpires, otpKeys, RowSet
<1>2. /\ RowsAge /\ codeRow'[u][c] = "expired"
      /\ \A v \in Phones, d \in Codes : <<v, d>> # <<u, c>> => codeRow'[v][d] = codeRow[v][d]
  BY <1>1, RowWritten
<1>3. otpCall' \in [Requests -> OtpCall]
  BY <1>1 DEF OtpInv, OtpTypeOK
<1> QED  BY <1>1, <1>2, <1>3, RowStepKeepsInv

(* A code found in its row, or in the key that is gone since, is used.     *)
LEMMA UseKeepsInv ==
    ASSUME OtpInv, NEW r \in Requests, UseRow(r) \/ MarkUsed(r)
    PROVE  OtpInv'
<1> PICK u \in Phones : u = otpCall[r].user
  BY DEF OtpInv, OtpJustified, UseRow, MarkUsed
<1> PICK c \in Codes : c = otpCall[r].code
  BY CallFields DEF OtpInv, OtpJustified, UseRow, MarkUsed, FoundPc
<1>1. c # None /\ codeRow[u][c] # "none" /\ otpKey[u] # c
  BY OtpAssumption DEF OtpInv, OtpJustified, UseRow, MarkUsed, KeyIsGone
<1>2. UNCHANGED <<otpKey, attempts, asked, locked>>
  BY DEF UseRow, MarkUsed, otpKeys
<1>3. ASSUME NEW q \in Requests, otpCall[q].pc = "cacheCode" PROVE otpCall[q].code # c
  BY <1>3 DEF OtpInv, UnsentIsUnknown, UseRow, MarkUsed
<1>4. PICK x \in {"used", "expired"} :
         /\ RowSet(u, c, x)
         /\ codeRow[u][c] = "used" => x = "used"
         /\ UseRow(r) => x = "used"
  <2>1. CASE UseRow(r)
    BY <2>1 DEF UseRow, RowSet
  <2>2. CASE MarkUsed(r)
    <3>1. codeRow[u][c] \in {"unused", "used", "expired"}
      BY <1>1 DEF OtpInv, OtpTypeOK
    <3>2. RowSet(u, c, IF codeRow[u][c] = "unused" THEN "used" ELSE codeRow[u][c])
      BY <2>2 DEF MarkUsed, RowSet
    <3>3. UseRow(r) => FALSE
      BY <2>2 DEF UseRow, MarkUsed
    <3>4. CASE codeRow[u][c] = "unused"
      BY <3>2, <3>3, <3>4
    <3>5. CASE codeRow[u][c] # "unused"
      BY <3>1, <3>2, <3>3, <3>5
    <3> QED  BY <3>4, <3>5
  <2> QED  BY <2>1, <2>2
<1>5. /\ RowsAge /\ codeRow'[u][c] = x
      /\ \A v \in Phones, d \in Codes : <<v, d>> # <<u, c>> => codeRow'[v][d] = codeRow[v][d]
  BY <1>4, RowWritten
<1> PICK new \in OtpCall : /\ otpCall' = [otpCall EXCEPT ![r] = new]
                           /\ new.pc \in {"dropKey", "accepted"}
                           /\ (new.pc = "dropKey" => UseRow(r))
                           /\ new.user = u /\ new.code = c
  BY GotoIsTyped DEF OtpInv, UseRow, MarkUsed, OtpPc
<1>6. otpCall' \in [Requests -> OtpCall] /\ otpCall'[r] = new
      /\ \A q \in Requests \ {r} : otpCall'[q] = otpCall[q]
  BY CallChange DEF OtpInv
<1>7. OtpJustified(otpCall[r])'
  BY <1>1, <1>2, <1>4, <1>5, <1>6 DEF OtpJustified, KeyIsGone, FoundPc
<1>8. \A q \in Requests : \/ otpCall'[q] = otpCall[q]
                          \/ /\ OtpJustified(otpCall[q])' /\ otpCall'[q].pc # "cacheCode"
                             /\ otpCall'[q].code = otpCall[q].code
  BY <1>6, <1>7
<1> QED  BY <1>1, <1>2, <1>3, <1>5, <1>6, <1>8, RowStepKeepsInv

(* A new code: no key, no row and no request has it.                       *)
LEMMA CreateCodeKeepsInv ==
    ASSUME OtpInv, NEW r \in Requests, CreateCode(r)
    PROVE  OtpInv'
<1> PICK u \in Phones : u = otpCall[r].user
  BY DEF OtpInv, OtpJustified, CreateCode
<1> PICK c \in Codes : /\ \A v \in Phones : codeRow[v][c] = "none"
                       /\ RowSet(u, c, "unused")
                       /\ otpCall' = [otpCall EXCEPT ![r] = NewOtpCall("cacheCode", u, c)]
  BY DEF CreateCode, RowSet
<1> DEFINE new == NewOtpCall("cacheCode", u, c)
<1>1. new \in OtpCall /\ new.pc = "cacheCode" /\ new.user = u /\ new.code = c /\ ~new.cached
  BY NewCallIsTyped DEF NewOtpCall, OtpPc
<1>2. /\ RowsAge /\ codeRow'[u][c] = "unused"
      /\ \A v \in Phones, d \in Codes : <<v, d>> # <<u, c>> => codeRow'[v][d] = codeRow[v][d]
  BY RowWritten
<1>3. UNCHANGED <<otpKey, attempts, asked, locked>>
  BY DEF CreateCode, otpKeys
<1>4. /\ otpCall' \in [Requests -> OtpCall] /\ otpCall'[r] = new
      /\ \A q \in Requests \ {r} : otpCall'[q] = otpCall[q]
  BY <1>1, CallChange DEF OtpInv
<1>5. c # None /\ otpKey[u] # c /\ \A q \in Requests : otpCall[q].code # c
  BY OtpAssumption DEF OtpInv, OtpJustified
<1> HIDE DEF new
<1>6. OtpTypeOK'
  BY <1>2, <1>3, <1>4 DEF OtpInv, OtpTypeOK, RowsAge
<1>7. ASSUME NEW q \in Requests PROVE OtpJustified(otpCall[q])'
  <2>1. CASE q # r
    <3>1. otpCall[q].code # None => otpCall[q].code \in Codes
      BY CallFields DEF OtpInv
    <3> QED  BY <1>2, <1>3, <1>4, <1>5, <2>1, <3>1, JustifiedStays DEF OtpInv
  <2>2. CASE q = r
    BY <1>1, <1>2, <1>3, <1>4, <1>5, <2>2 DEF OtpJustified, KeyIsGone, FoundPc
  <2> QED  BY <2>1, <2>2
<1>8. UnsentIsUnknown'
  <2> SUFFICES ASSUME NEW s \in Requests, NEW q \in Requests, otpCall'[s].pc = "cacheCode", q # s
               PROVE  otpCall'[q].code # otpCall'[s].code
    BY DEF UnsentIsUnknown
  <2>1. CASE s = r
    BY <1>1, <1>4, <1>5, <2>1
  <2>2. CASE s # r /\ q = r
    BY <1>1, <1>4, <1>5, <2>2
  <2>3. CASE s # r /\ q # r
    BY <1>4, <2>3 DEF OtpInv, UnsentIsUnknown
  <2> QED  BY <2>1, <2>2, <2>3
<1>9. CachedCodeIsUnused' /\ \A v \in Phones, d \in Codes : otpKey'[v] = d => codeRow'[v][d] # "none"
  BY <1>2, <1>3, <1>5 DEF OtpInv, CachedCodeIsUnused, RowsAge
<1> QED  BY <1>6, <1>7, <1>8, <1>9 DEF OtpInv

-----------------------------------------------------------------------------
(* The theorems.                                                           *)

LEMMA OtpInitHolds == OtpInit => OtpInv
<1> SUFFICES ASSUME OtpInit PROVE OtpInv
  OBVIOUS
<1>1. NoCounter \in Counter(MaxOtpAttempts) /\ NoCounter \in Counter(MaxOtpRequests + 1)
  BY OtpAssumption DEF NoCounter, Counter
<1>2. OtpTypeOK
  BY <1>1, IdleIsTyped DEF OtpInit, OtpTypeOK, NoCounter
<1>3. \A r \in Requests : OtpJustified(otpCall[r])
  BY IdleIsJustified DEF OtpInit
<1>4. UnsentIsUnknown
  BY DEF OtpInit, UnsentIsUnknown, OtpIdle, NewOtpCall
<1>5. CachedCodeIsUnused /\ \A u \in Phones, c \in Codes : otpKey[u] = c => codeRow[u][c] # "none"
  BY OtpAssumption DEF OtpInit, CachedCodeIsUnused
<1> QED  BY <1>2, <1>3, <1>4, <1>5 DEF OtpInv

(* Time deletes a counter or a lockout.                                    *)
LEMMA CounterExpiresKeepsInv ==
    ASSUME OtpInv, NEW u \in Phones, LockExpires(u) \/ AttemptsExpire(u) \/ RequestsExpire(u)
    PROVE  OtpInv'
<1> USE DEF LockExpires, AttemptsExpire, RequestsExpire
<1>1. UNCHANGED <<codeRow, otpKey, otpCall>> /\ locked' \in SUBSET Phones
  BY DEF OtpInv, OtpTypeOK
<1>2. Counters'
  <2>1. CASE LockExpires(u)
    BY <2>1, CountersAreTyped DEF OtpInv, Counters
  <2> QED  BY <2>1, CountersAreTyped, CountersChange DEF OtpInv
<1>3. OtpTypeOK'
  BY <1>1, <1>2 DEF OtpInv, OtpTypeOK, Counters
<1>4. (\A r \in Requests : OtpJustified(otpCall[r]))' /\ UnsentIsUnknown' /\ CachedCodeIsUnused'
      /\ \A v \in Phones, c \in Codes : otpKey'[v] = c => codeRow'[v][c] # "none"
  BY <1>1 DEF OtpInv, OtpJustified, KeyIsGone, UnsentIsUnknown, CachedCodeIsUnused
<1> QED  BY <1>3, <1>4 DEF OtpInv

LEMMA ProceedKeepsInv ==
    ASSUME OtpInv, NEW r \in Requests, OtpProceed(r)
    PROVE  OtpInv'
BY AskingKeepsInv, CreateCodeKeepsInv, CacheCodeKeepsInv, LookKeepsInv, ReadKeyKeepsInv,
   DropKeyKeepsInv, DropAttemptsKeepsInv, UseKeepsInv, FailingKeepsInv, LockKeepsInv,
   ForgetKeyKeepsInv, Zenon DEF OtpProceed

(* What every step of every request may rely on holds in every state.      *)
THEOREM OtpInvariant == OtpSpec => []OtpInv
<1>1. OtpInv /\ UNCHANGED otpVars => OtpInv'
  BY DEF otpVars, otpKeys, OtpInv, OtpTypeOK, OtpJustified, KeyIsGone, UnsentIsUnknown,
         CachedCodeIsUnused
<1>2. ASSUME OtpInv, OtpNext PROVE OtpInv'
  <2>1. ASSUME NEW r \in Requests, OtpArrive(r) PROVE OtpInv'
    BY <1>2, <2>1, GenerateOtpKeepsInv, VerifyOtpKeepsInv DEF OtpArrive
  <2>2. ASSUME NEW r \in Requests, OtpProceed(r) PROVE OtpInv'
    BY <1>2, <2>2, ProceedKeepsInv
  <2>3. ASSUME NEW r \in Requests, OtpFail(r) PROVE OtpInv'
    BY <1>2, <2>3, LookKeepsInv
  <2>4. ASSUME NEW u \in Phones, TimePasses(u) PROVE OtpInv'
    BY <1>2, <2>4, RowExpiresKeepsInv, KeyExpiresKeepsInv, CounterExpiresKeepsInv DEF TimePasses
  <2> QED  BY <1>2, <2>1, <2>2, <2>3, <2>4 DEF OtpNext
<1> QED  BY OtpInitHolds, <1>1, <1>2, PTL DEF OtpSpec

(* The rows, keys, counters and calls have the types the code gives them:  *)
(* a counter that expires is there.                                        *)
THEOREM OtpTypeCorrect == OtpSpec => []OtpTypeOK
<1>1. OtpInv => OtpTypeOK
  BY DEF OtpInv
<1> QED  BY <1>1, OtpInvariant, PTL

(* The quick look-up never serves a used code (otp.service.ts:76-116).     *)
THEOREM UsedCodesAreNotCached == OtpSpec => []CachedCodeIsUnused
<1>1. OtpInv => CachedCodeIsUnused
  BY DEF OtpInv
<1> QED  BY <1>1, OtpInvariant, PTL

(* An accepted code is spent in the row and in the key                     *)
(* (otp.service.ts:76-116).                                                *)
THEOREM AcceptedCodesAreSpent == OtpSpec => []AcceptedIsSpent
<1>1. OtpInv => AcceptedIsSpent
  <2> SUFFICES ASSUME OtpInv, NEW r \in Requests, otpCall[r].pc = "accepted"
               PROVE  /\ codeRow[otpCall[r].user][otpCall[r].code] # "unused"
                      /\ otpKey[otpCall[r].user] # otpCall[r].code
    BY DEF AcceptedIsSpent
  <2> QED  BY DEF OtpInv, OtpJustified, KeyIsGone, FoundPc
<1> QED  BY <1>1, OtpInvariant, PTL
=============================================================================
