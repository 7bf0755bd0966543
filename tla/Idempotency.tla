----------------------------- MODULE Idempotency -----------------------------
(***************************************************************************)
(* IdempotencyInterceptor (src/src/common/interceptors/                    *)
(* idempotency.interceptor.ts) in front of the wallet of module Wallet: a  *)
(* top-up with the header x-idempotency-key is looked up in Redis, handled *)
(* when it is not there, and its answer stored under the key.  The client  *)
(* is answered before the store (tap does not wait for it), so a request   *)
(* occupies its slot until the answer is stored, not until it is sent.     *)
(*                                                                         *)
(* Every other request of the wallet goes on beside it, without a key.     *)
(***************************************************************************)
EXTENDS Wallet

CONSTANT Keys

ASSUME IdempotencyAssumption == None \notin Keys

VARIABLES
    web,        \* what the interceptor is doing for each request with a key
    stored,     \* the keys with an answer in idempotency:global:<key>
    paid,       \* history: the deposits committed under each key, two or more as 2
    disturbed   \* history: keys of requests that overlapped, or whose look-up
                \* or stored answer was lost

webVars == <<web, stored, paid, disturbed>>
idempotencyVars == <<walletVars, webVars>>

-----------------------------------------------------------------------------
NoWeb == [pc |-> "idle", key |-> None]

Turn(r, pc) == web' = [web EXCEPT ![r].pc = pc]

Leave(r) == web' = [web EXCEPT ![r] = NoWeb]

Disturb(S) == disturbed' = disturbed \cup S

IdempotencyInit ==
    /\ WalletInit
    /\ web = [r \in Requests |-> NoWeb]
    /\ stored = {}
    /\ paid = [k \in Keys |-> 0]
    /\ disturbed = {}

(* A request with key k arrives; user and amount matter when it is handled.*)
Receive(r, k) ==
    /\ req[r] = Idle /\ web[r] = NoWeb
    /\ web' = [web EXCEPT ![r] = [pc |-> "lookup", key |-> k]]
    /\ Disturb({q \in {k} : \E s \in Requests : web[s].key = k})
    /\ UNCHANGED <<walletVars, stored, paid>>

(* Slip: the request is looked up under one name and stored under another. *)
LookupElsewhere(r) ==
    /\ web[r].pc = "lookup"
    /\ Turn(r, "handle")
    /\ UNCHANGED <<walletVars, stored, paid, disturbed>>

(* The stored answer is sent again, or else the handler is next.           *)
Lookup(r) ==
    /\ web[r].pc = "lookup"
    /\ IF web[r].key \in stored THEN Leave(r) ELSE Turn(r, "handle")
    /\ UNCHANGED <<walletVars, stored, paid, disturbed>>

(* "Redis failure - proceed without idempotency"                           *)
LookupFails(r) ==
    /\ web[r].pc = "lookup"
    /\ Turn(r, "handle")
    /\ Disturb({web[r].key})
    /\ UNCHANGED <<walletVars, stored, paid>>

Handle(r) ==
    /\ web[r].pc = "handle"
    /\ \E u \in Users, amount \in Amounts : TopUp(r, u, amount)
    /\ Turn(r, "run")
    /\ UNCHANGED <<stored, paid, disturbed>>

(* The handler goes on; when it throws, tap's function is not called.      *)
Run(r) ==
    /\ web[r].pc = "run"
    /\ CreateWallet(r) \/ IncrementForTopUp(r) \/ Overflow(r)
    /\ IF req'[r] = Idle THEN Leave(r) ELSE UNCHANGED web
    /\ UNCHANGED <<stored, paid, disturbed>>

(* The handler commits, and its answer goes to the client and to tap.      *)
Pay(r) ==
    /\ web[r].pc = "run"
    /\ CommitTopUp(r)
    /\ Turn(r, "store")
    /\ paid' = [paid EXCEPT ![web[r].key] = IF @ = 2 THEN 2 ELSE @ + 1]
    /\ UNCHANGED <<stored, disturbed>>

Store(r) ==
    /\ web[r].pc = "store"
    /\ stored' = stored \cup {web[r].key}
    /\ Leave(r)
    /\ UNCHANGED <<walletVars, paid, disturbed>>

(* Redis refuses ("Best-effort caching"), or the instance dies.            *)
StoreFails(r) ==
    /\ web[r].pc = "store"
    /\ Leave(r)
    /\ Disturb({web[r].key})
    /\ UNCHANGED <<walletVars, stored, paid>>

(* Slip: finalize instead of tap, which is called after an error as well.  *)
GiveUpStoring(r) ==
    /\ web[r].pc = "run"
    /\ Abort(r)
    /\ Turn(r, "store")
    /\ UNCHANGED <<stored, paid, disturbed>>

(* The instance dies before the handler starts, or the handler gives up.   *)
GiveUp(r) ==
    /\ \/ web[r].pc \in {"lookup", "handle"} /\ UNCHANGED walletVars
       \/ web[r].pc = "run" /\ Abort(r)
    /\ Leave(r)
    /\ UNCHANGED <<stored, paid, disturbed>>

(* IDEMPOTENCY_TTL, 24 hours.                                              *)
KeyExpires(k) ==
    /\ k \in stored
    /\ stored' = stored \ {k}
    /\ Disturb({k})
    /\ UNCHANGED <<walletVars, web, paid>>

-----------------------------------------------------------------------------
Intercepted(r) == Lookup(r) \/ Handle(r) \/ Run(r) \/ Pay(r) \/ Store(r)

Unkeyed(r) == web[r] = NoWeb /\ UNCHANGED webVars

IdempotencyNext ==
    \/ \E r \in Requests :
          \/ \E k \in Keys : Receive(r, k)
          \/ Intercepted(r) \/ LookupFails(r) \/ StoreFails(r) \/ GiveUp(r)
          \/ Unkeyed(r) /\ (Arrive(r) \/ Proceed(r) \/ Abort(r))
    \/ \E k \in Keys : KeyExpires(k)

IdempotencySpec == IdempotencyInit /\ [][IdempotencyNext]_idempotencyVars

(* An instance that is alive carries its requests on.  PostgreSQL queues   *)
(* the waiters of a row lock, so one that is free again and again is not   *)
(* withheld from a request forever: fairness is strong.  Nothing is asked  *)
(* of Abort and GiveUp: no timeout is needed for the wallet to progress.   *)
IdempotencyFairSpec ==
    /\ IdempotencySpec
    /\ \A r \in Requests :
          SF_idempotencyVars(Intercepted(r) \/ (Unkeyed(r) /\ Proceed(r)))

-----------------------------------------------------------------------------
IdempotencyTypeOK ==
    /\ WalletTypeOK
    /\ web \in [Requests -> [pc : {"idle", "lookup", "handle", "run", "store"},
                             key : Keys \cup {None}]]
    /\ \A r \in Requests : web[r].pc = "run" => req[r].pc \in {"create", "topUp", "topUpCommit"}
    /\ stored \subseteq Keys /\ disturbed \subseteq Keys
    /\ paid \in [Keys -> 0 .. 2]

(* A key pays twice only if its requests overlapped (up to the store,      *)
(* which the client's answer does not wait for), Redis failed, or a day    *)
(* went by: a retry after the answer was stored never moves money, however *)
(* the first attempt ended (idempotency.interceptor.ts:34-54).             *)
OnlyDisturbedKeysPayTwice == \A k \in Keys : paid[k] = 2 => k \in disturbed

(* An answer is only stored for a top-up that was committed: after one     *)
(* that was refused, rolled back or cut off the client may try again       *)
(* (idempotency.interceptor.ts:46-54, wallet.service.ts:36-62).            *)
StoredMeansPaid == \A k \in stored : paid[k] > 0

(* Whatever overlaps, a request with or without a key ends: no lock is     *)
(* left behind, the locks are never waited for in a circle (a withdrawal's *)
(* comes before a wallet's), and the interceptor waits for nothing else.   *)
CallsEnd == \A r \in Requests : []<>(web[r] = NoWeb /\ req[r] = Idle)

-----------------------------------------------------------------------------
(* Why a key pays once: as long as nothing disturbs it one request at a    *)
(* time carries it, and what was paid is on its way to the store or there. *)

KeyOf(r) ==
    /\ web[r].pc = "idle" <=> web[r].key = None
    /\ web[r].pc = "store" => paid[web[r].key] > 0

PaidIsStored(k) ==
    /\ \A r, q \in Requests : web[r].key = k /\ web[q].key = k => r = q
    /\ paid[k] < 2
    /\ paid[k] = 1 => k \in stored \/ \E r \in Requests : web[r].key = k /\ web[r].pc = "store"
    /\ \A r \in Requests : web[r].key = k /\ web[r].pc \in {"handle", "run"} => paid[k] = 0

IdempotencyInv ==
    /\ IdempotencyTypeOK
    /\ \A r \in Requests : KeyOf(r)
    /\ \A k \in Keys \ disturbed : PaidIsStored(k)
    /\ StoredMeansPaid
=============================================================================
