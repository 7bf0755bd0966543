-------------------------- MODULE IdempotencyProofs --------------------------
(***************************************************************************)
(* The interceptor in front of the wallet, for any keys, users, requests   *)
(* and amounts.  Every step of it is a step of the wallet or none, so what *)
(* WalletProofs proves of the wallet holds behind the interceptor as well; *)
(* and a key that nothing disturbed pays once.                             *)
(***************************************************************************)
EXTENDS Idempotency, WalletProofs

USE IdempotencyAssumption DEF NewRequest, Finish, Goto

-----------------------------------------------------------------------------
(* The wallet behind the interceptor.                                      *)

LEMMA InterceptedIsWalletStep ==
    ASSUME [IdempotencyNext]_idempotencyVars
    PROVE  [WalletNext]_walletVars
<1>1. ASSUME NEW r \in Requests, NEW k \in Keys, Receive(r, k)
      PROVE  UNCHANGED walletVars
  BY <1>1 DEF Receive
<1>2. ASSUME NEW r \in Requests, Intercepted(r)
      PROVE  [WalletNext]_walletVars
  <2>1. CASE Lookup(r) \/ Store(r)
    BY <2>1 DEF Lookup, Store
  <2>2. CASE Handle(r)
    BY <2>2 DEF Handle, WalletNext, Arrive
  <2>3. CASE Run(r)
    BY <2>3 DEF Run, WalletNext, Proceed
  <2>4. CASE Pay(r)
    BY <2>4 DEF Pay, WalletNext, Proceed
  <2> QED  BY <1>2, <2>1, <2>2, <2>3, <2>4 DEF Intercepted
<1>3. ASSUME NEW r \in Requests, LookupFails(r) \/ StoreFails(r) \/ GiveUp(r)
      PROVE  [WalletNext]_walletVars
  BY <1>3 DEF LookupFails, StoreFails, GiveUp, WalletNext
<1>4. ASSUME NEW r \in Requests, Arrive(r) \/ Proceed(r) \/ Abort(r)
      PROVE  WalletNext
  BY <1>4 DEF WalletNext
<1>5. ASSUME NEW k \in Keys, KeyExpires(k)
      PROVE  UNCHANGED walletVars
  BY <1>5 DEF KeyExpires
<1>6. CASE UNCHANGED idempotencyVars
  BY <1>6 DEF idempotencyVars
<1> QED  BY <1>1, <1>2, <1>3, <1>4, <1>5, <1>6 DEF IdempotencyNext

(* The interceptor adds no behaviour to the wallet: with keys or without,  *)
(* its requests run as WalletService runs them                             *)
(* (idempotency.interceptor.ts:45, wallet.controller.ts:28).               *)
THEOREM InterceptorImplementsWallet == IdempotencySpec => WalletSpec
<1>1. IdempotencyInit => WalletInit
  BY DEF IdempotencyInit
<1>2. [IdempotencyNext]_idempotencyVars => [WalletNext]_walletVars
  BY InterceptedIsWalletStep
<1> QED  BY <1>1, <1>2, PTL DEF IdempotencySpec, WalletSpec

(* The balance is the sum of the ledger behind the interceptor, too.       *)
THEOREM LedgerBehindInterceptor == IdempotencySpec => []LedgerMatchesBalance
BY InterceptorImplementsWallet, LedgerCorrect, PTL

(* So are its other promises: of what withdrawals and refunds add up to,   *)
(* of what an approval completes, and of how often a withdrawal is         *)
(* settled and refunded (wallet.service.ts:66-104, :143-197).              *)
THEOREM WithdrawalsBehindInterceptor ==
    IdempotencySpec => /\ [](WithdrawnMoneyAccounted /\ CompletedByApproval)
                       /\ SettledForGood /\ RefundOnlyByRejection
BY InterceptorImplementsWallet, WithdrawalsAccounted, ApprovalsComplete,
   WithdrawalsSettledForGood, RefundsComeFromRejections, PTL

(* With the interceptor in front it is the atomic wallet still: it adds no *)
(* movement of its own (idempotency.interceptor.ts:18-55).                 *)
THEOREM AtomicBehindInterceptor == IdempotencySpec => MovementsAreAtomic
BY InterceptorImplementsWallet, WalletIsAtomic, PTL

-----------------------------------------------------------------------------
(* What the wallet's steps leave to the other requests.                    *)

LEMMA OnlyMyRequest ==
    ASSUME WalletInv, NEW r \in Requests, Arrive(r) \/ Proceed(r) \/ Abort(r)
    PROVE  \A q \in Requests \ {r} : req'[q] = req[q]
<1> USE DEF WalletInv, WalletTypeOK
<1>1. CASE Arrive(r)
  BY <1>1 DEF Arrive, GetBalance, TopUp, RequestWithdrawal, ClaimWithdrawal
<1>2. CASE Proceed(r)
  <2>1. CASE CreateWallet(r) \/ IncrementForTopUp(r) \/ CommitTopUp(r)
    BY <2>1 DEF CreateWallet, IncrementForTopUp, CommitTopUp
  <2>2. CASE DecrementForWithdrawal(r) \/ CommitWithdrawal(r)
    BY <2>2 DEF DecrementForWithdrawal, CommitWithdrawal
  <2>3. CASE MarkTransactions(r) \/ CommitApproval(r)
    BY <2>3 DEF MarkTransactions, CommitApproval
  <2>4. CASE IncrementForRefund(r) \/ CommitRejection(r) \/ Overflow(r)
    BY <2>4 DEF IncrementForRefund, CommitRejection, Overflow, Rollback
  <2> QED  BY <1>2, <2>1, <2>2, <2>3, <2>4 DEF Proceed
<1>3. CASE Abort(r)
  BY <1>3 DEF Abort, Rollback
<1> QED  BY <1>1, <1>2, <1>3

(* A top-up in its handler is at one of the steps of topUp, or over.       *)
LEMMA HandlerPc ==
    ASSUME WalletInv, NEW r \in Requests
    PROVE  /\ \A u \in Users, amount \in Amounts : TopUp(r, u, amount) =>
                 req'[r].pc \in {"create", "topUp"}
           /\ CreateWallet(r) \/ IncrementForTopUp(r) \/ Overflow(r) =>
                 req'[r] = Idle \/ req'[r].pc \in {"topUp", "topUpCommit"}
<1> USE DEF WalletInv, WalletTypeOK, Request
<1>1. \A u \in Users, amount \in Amounts : TopUp(r, u, amount) => req'[r].pc \in {"create", "topUp"}
  BY DEF TopUp
<1>2. CreateWallet(r) => req'[r] = Idle \/ req'[r].pc = "topUp"
  BY DEF CreateWallet
<1>3. IncrementForTopUp(r) => req'[r].pc = "topUpCommit"
  BY DEF IncrementForTopUp
<1>4. Overflow(r) => req'[r] = Idle
  BY DEF Overflow, Rollback
<1> QED  BY <1>1, <1>2, <1>3, <1>4

-----------------------------------------------------------------------------
(* A step that leaves the interceptor where it is.                         *)
LEMMA UnkeyedKeepsInv ==
    ASSUME WalletInv, WalletInv', IdempotencyInv, UNCHANGED webVars,
           \A r \in Requests : web[r] # NoWeb => req'[r] = req[r]
    PROVE  IdempotencyInv'
BY DEF WalletInv, IdempotencyInv, IdempotencyTypeOK, webVars, KeyOf, PaidIsStored, StoredMeansPaid,
       NoWeb

LEMMA ReceiveKeepsInv ==
    ASSUME WalletInv', IdempotencyInv, NEW r \in Requests, NEW k \in Keys, Receive(r, k)
    PROVE  IdempotencyInv'
<1> USE DEF IdempotencyInv, IdempotencyTypeOK, Receive, Disturb, NoWeb
<1>1. IdempotencyTypeOK'
  BY DEF WalletInv, walletVars
<1>2. \A q \in Requests : KeyOf(q)'
  BY DEF KeyOf
<1>3. ASSUME NEW j \in Keys \ disturbed'
      PROVE  PaidIsStored(j)'
  <2>1. PaidIsStored(j)
    BY <1>3
  <2>2. j = k => \A q \in Requests : web[q].key # j
    BY <1>3
  <2> QED  BY <2>1, <2>2 DEF PaidIsStored
<1>4. StoredMeansPaid'
  BY DEF StoredMeansPaid
<1> QED  BY <1>1, <1>2, <1>3, <1>4

LEMMA LookupKeepsInv ==
    ASSUME WalletInv, WalletInv', IdempotencyInv, NEW r \in Requests, Lookup(r)
    PROVE  IdempotencyInv'
<1> USE DEF IdempotencyInv, IdempotencyTypeOK, Lookup, Turn, Leave, NoWeb
<1>1. IdempotencyTypeOK'
  BY DEF WalletInv, walletVars
<1>2. \A q \in Requests : KeyOf(q)'
  BY DEF KeyOf
<1>3. ASSUME NEW j \in Keys \ disturbed'
      PROVE  PaidIsStored(j)'
  <2>1. PaidIsStored(j)
    BY <1>3
  <2> QED  BY <2>1 DEF PaidIsStored, KeyOf
<1>4. StoredMeansPaid'
  BY DEF StoredMeansPaid, KeyOf
<1> QED  BY <1>1, <1>2, <1>3, <1>4

LEMMA LookupFailsKeepsInv ==
    ASSUME WalletInv, WalletInv', IdempotencyInv, NEW r \in Requests, LookupFails(r)
    PROVE  IdempotencyInv'
<1> USE DEF IdempotencyInv, IdempotencyTypeOK, LookupFails, Turn, Disturb, NoWeb
<1>1. IdempotencyTypeOK'
  BY DEF WalletInv, walletVars, KeyOf
<1>2. \A q \in Requests : KeyOf(q)'
  BY DEF KeyOf
<1>3. ASSUME NEW j \in Keys \ disturbed'
      PROVE  PaidIsStored(j)'
  <2>1. PaidIsStored(j)
    BY <1>3
  <2> QED  BY <2>1 DEF PaidIsStored, KeyOf
<1>4. StoredMeansPaid'
  BY DEF StoredMeansPaid, KeyOf
<1> QED  BY <1>1, <1>2, <1>3, <1>4

LEMMA HandleKeepsInv ==
    ASSUME WalletInv, WalletInv', IdempotencyInv, NEW r \in Requests, Handle(r)
    PROVE  IdempotencyInv'
<1> USE DEF IdempotencyInv, IdempotencyTypeOK, Handle, Turn, NoWeb
<1>0. /\ \A q \in Requests \ {r} : req'[q] = req[q]
      /\ req'[r].pc \in {"create", "topUp"}
  BY OnlyMyRequest, HandlerPc DEF Arrive
<1>1. IdempotencyTypeOK'
  BY <1>0 DEF WalletInv
<1>2. \A q \in Requests : KeyOf(q)'
  BY DEF KeyOf
<1>3. ASSUME NEW j \in Keys \ disturbed'
      PROVE  PaidIsStored(j)'
  <2>1. PaidIsStored(j)
    BY <1>3
  <2> QED  BY <2>1 DEF PaidIsStored, KeyOf
<1>4. StoredMeansPaid'
  BY DEF StoredMeansPaid, KeyOf
<1> QED  BY <1>1, <1>2, <1>3, <1>4

LEMMA RunKeepsInv ==
    ASSUME WalletInv, WalletInv', IdempotencyInv, NEW r \in Requests, Run(r)
    PROVE  IdempotencyInv'
<1> USE DEF IdempotencyInv, IdempotencyTypeOK, Run, Leave, NoWeb
<1>0. /\ \A q \in Requests \ {r} : req'[q] = req[q]
      /\ req'[r] = Idle \/ req'[r].pc \in {"topUp", "topUpCommit"}
  BY OnlyMyRequest, HandlerPc DEF Proceed
<1>1. IdempotencyTypeOK'
  BY <1>0 DEF WalletInv
<1>2. \A q \in Requests : KeyOf(q)'
  BY DEF KeyOf
<1>3. ASSUME NEW j \in Keys \ disturbed'
      PROVE  PaidIsStored(j)'
  <2>1. PaidIsStored(j)
    BY <1>3
  <2> QED  BY <2>1 DEF PaidIsStored, KeyOf
<1>4. StoredMeansPaid'
  BY DEF StoredMeansPaid, KeyOf
<1> QED  BY <1>1, <1>2, <1>3, <1>4

LEMMA PayKeepsInv ==
    ASSUME WalletInv, WalletInv', IdempotencyInv, NEW r \in Requests, Pay(r)
    PROVE  IdempotencyInv'
<1> USE DEF IdempotencyInv, IdempotencyTypeOK, Pay, Turn, NoWeb
<1>0. \A q \in Requests \ {r} : req'[q] = req[q]
  BY OnlyMyRequest DEF Proceed
<1>1. IdempotencyTypeOK'
  BY <1>0 DEF WalletInv, KeyOf
<1>2. \A q \in Requests : KeyOf(q)'
  BY DEF KeyOf
<1>3. ASSUME NEW j \in Keys \ disturbed'
      PROVE  PaidIsStored(j)'
  <2>1. PaidIsStored(j)
    BY <1>3
  <2> QED  BY <2>1 DEF PaidIsStored, KeyOf
<1>4. StoredMeansPaid'
  BY DEF StoredMeansPaid, KeyOf
<1> QED  BY <1>1, <1>2, <1>3, <1>4

LEMMA StoreKeepsInv ==
    ASSUME WalletInv, WalletInv', IdempotencyInv, NEW r \in Requests, Store(r)
    PROVE  IdempotencyInv'
<1> USE DEF IdempotencyInv, IdempotencyTypeOK, Store, Leave, NoWeb
<1>1. IdempotencyTypeOK'
  BY DEF WalletInv, walletVars, KeyOf
<1>2. \A q \in Requests : KeyOf(q)'
  BY DEF KeyOf
<1>3. ASSUME NEW j \in Keys \ disturbed'
      PROVE  PaidIsStored(j)'
  <2>1. PaidIsStored(j)
    BY <1>3
  <2> QED  BY <2>1 DEF PaidIsStored, KeyOf
<1>4. StoredMeansPaid'
  BY DEF StoredMeansPaid, KeyOf
<1> QED  BY <1>1, <1>2, <1>3, <1>4

LEMMA StoreFailsKeepsInv ==
    ASSUME WalletInv, WalletInv', IdempotencyInv, NEW r \in Requests, StoreFails(r)
    PROVE  IdempotencyInv'
<1> USE DEF IdempotencyInv, IdempotencyTypeOK, StoreFails, Leave, Disturb, NoWeb
<1>1. IdempotencyTypeOK'
  BY DEF WalletInv, walletVars, KeyOf
<1>2. \A q \in Requests : KeyOf(q)'
  BY DEF KeyOf
<1>3. ASSUME NEW j \in Keys \ disturbed'
      PROVE  PaidIsStored(j)'
  <2>1. PaidIsStored(j)
    BY <1>3
  <2> QED  BY <2>1 DEF PaidIsStored, KeyOf
<1>4. StoredMeansPaid'
  BY DEF StoredMeansPaid, KeyOf
<1> QED  BY <1>1, <1>2, <1>3, <1>4

LEMMA GiveUpKeepsInv ==
    ASSUME WalletInv, WalletInv', IdempotencyInv, NEW r \in Requests, GiveUp(r)
    PROVE  IdempotencyInv'
<1> USE DEF IdempotencyInv, IdempotencyTypeOK, GiveUp, Leave, NoWeb
<1>0. \A q \in Requests \ {r} : req'[q] = req[q]
  BY OnlyMyRequest DEF walletVars
<1>1. IdempotencyTypeOK'
  BY <1>0 DEF WalletInv
<1>2. \A q \in Requests : KeyOf(q)'
  BY DEF KeyOf
<1>3. ASSUME NEW j \in Keys \ disturbed'
      PROVE  PaidIsStored(j)'
  <2>1. PaidIsStored(j)
    BY <1>3
  <2> QED  BY <2>1 DEF PaidIsStored, KeyOf
<1>4. StoredMeansPaid'
  BY DEF StoredMeansPaid, KeyOf
<1> QED  BY <1>1, <1>2, <1>3, <1>4

LEMMA KeyExpiresKeepsInv ==
    ASSUME WalletInv', IdempotencyInv, NEW k \in Keys, KeyExpires(k)
    PROVE  IdempotencyInv'
<1> USE DEF IdempotencyInv, IdempotencyTypeOK, KeyExpires, Disturb
<1>1. IdempotencyTypeOK' /\ StoredMeansPaid'
  BY DEF WalletInv, walletVars, StoredMeansPaid
<1>2. \A q \in Requests : KeyOf(q)'
  BY DEF KeyOf
<1>3. ASSUME NEW j \in Keys \ disturbed'
      PROVE  PaidIsStored(j)'
  BY <1>3 DEF PaidIsStored
<1> QED  BY <1>1, <1>2, <1>3

-----------------------------------------------------------------------------
LEMMA IdempotencyNextInv ==
    ASSUME WalletInv, WalletInv', IdempotencyInv, [IdempotencyNext]_idempotencyVars
    PROVE  IdempotencyInv'
<1>1. ASSUME NEW r \in Requests, NEW k \in Keys, Receive(r, k)
      PROVE  IdempotencyInv'
  BY <1>1, ReceiveKeepsInv
<1>2. ASSUME NEW r \in Requests, Intercepted(r)
      PROVE  IdempotencyInv'
  BY <1>2, LookupKeepsInv, HandleKeepsInv, RunKeepsInv, PayKeepsInv, StoreKeepsInv
     DEF Intercepted
<1>3. ASSUME NEW r \in Requests, LookupFails(r) \/ StoreFails(r) \/ GiveUp(r)
      PROVE  IdempotencyInv'
  BY <1>3, LookupFailsKeepsInv, StoreFailsKeepsInv, GiveUpKeepsInv
<1>4. ASSUME NEW r \in Requests, Unkeyed(r), Arrive(r) \/ Proceed(r) \/ Abort(r)
      PROVE  IdempotencyInv'
  <2>1. \A q \in Requests \ {r} : req'[q] = req[q]
    BY <1>4, OnlyMyRequest
  <2> QED  BY <1>4, <2>1, UnkeyedKeepsInv DEF Unkeyed
<1>5. ASSUME NEW k \in Keys, KeyExpires(k)
      PROVE  IdempotencyInv'
  BY <1>5, KeyExpiresKeepsInv
<1>6. CASE UNCHANGED idempotencyVars
  BY <1>6, UnkeyedKeepsInv DEF idempotencyVars, walletVars
<1> QED  BY <1>1, <1>2, <1>3, <1>4, <1>5, <1>6 DEF IdempotencyNext

(* The inductive invariant of the interceptor, beside the wallet's.        *)
THEOREM IdempotencyInvariant == IdempotencySpec => []IdempotencyInv
<1>1. IdempotencyInit => WalletInv /\ IdempotencyInv
  <2> SUFFICES ASSUME IdempotencyInit
               PROVE  WalletInv /\ IdempotencyInv
    OBVIOUS
  <2>1. WalletInv
    BY WalletInitInv DEF IdempotencyInit
  <2> QED  BY <2>1 DEF WalletInv, IdempotencyInit, IdempotencyInv, IdempotencyTypeOK, NoWeb,
             KeyOf, PaidIsStored, StoredMeansPaid
<1>2. WalletInv /\ IdempotencyInv /\ [IdempotencyNext]_idempotencyVars
        => WalletInv' /\ IdempotencyInv'
  BY InterceptedIsWalletStep, WalletNextInv, IdempotencyNextInv
<1> QED  BY <1>1, <1>2, PTL DEF IdempotencySpec

(* The wallet's types, and where a request with a key may stand.           *)
THEOREM IdempotencyTypeCorrect == IdempotencySpec => []IdempotencyTypeOK
<1>1. IdempotencyInv => IdempotencyTypeOK
  BY DEF IdempotencyInv
<1> QED  BY <1>1, IdempotencyInvariant, PTL

(* A key pays twice only if its requests overlapped, Redis failed or the   *)
(* answer expired (idempotency.interceptor.ts:34-54).                      *)
THEOREM RetriesPayOnce == IdempotencySpec => []OnlyDisturbedKeysPayTwice
<1>1. IdempotencyInv => OnlyDisturbedKeysPayTwice
  BY DEF IdempotencyInv, OnlyDisturbedKeysPayTwice, PaidIsStored
<1> QED  BY <1>1, IdempotencyInvariant, PTL

(* Only the answer of a committed top-up is replayed                       *)
(* (idempotency.interceptor.ts:46-54).                                     *)
THEOREM OnlyPaidIsStored == IdempotencySpec => []StoredMeansPaid
<1>1. IdempotencyInv => StoredMeansPaid
  BY DEF IdempotencyInv
<1> QED  BY <1>1, IdempotencyInvariant, PTL
=============================================================================
