------------------------------- MODULE Wallet -------------------------------
(***************************************************************************)
(* WalletService (src/src/modules/wallet/wallet.service.ts): the balance   *)
(* of every user, the ledger of its movements and the withdrawals an admin *)
(* settles.                                                                *)
(*                                                                         *)
(* The service keeps no state of its own: requests of any API instance     *)
(* meet in PostgreSQL.  Prisma opens every $transaction at PostgreSQL's    *)
(* default level, READ COMMITTED, so                                       *)
(*   - a SELECT reads what is committed when it runs and takes no lock;    *)
(*   - an UPDATE waits for the row's lock, works on the row as committed   *)
(*     at that moment, and keeps the lock until its transaction ends;      *)
(*   - what a transaction wrote is visible to others when it commits.      *)
(* A request is split where another one can come in between: at every      *)
(* await.  The UPDATE step takes the row's lock and remembers the balance  *)
(* the statement returned; the commit step publishes all the writes.       *)
(***************************************************************************)
EXTENDS Integers, FiniteSets, Functions

CONSTANTS
    Users,        \* owners of wallets (Wallet.userId is unique)
    Requests,     \* requests that can be in flight at a time
    Withdrawals,  \* identifiers withdrawal rows are given
    Amounts,      \* amounts of top-ups and withdrawals, DTO @Min(1)
    MaxBalance,   \* largest absolute value a Decimal(12, 2) column holds
    None          \* no user, request or withdrawal

ASSUME WalletAssumption ==
    /\ Amounts \subseteq Nat \ {0}
    /\ MaxBalance \in Nat
    /\ None \notin Users \cup Requests \cup Withdrawals

VARIABLES
    wallets,         \* the users that have a row in table wallets
    balance,         \* wallets.balance of each user
    ledger,          \* per user and type, the sum of transactions.amount
    rowBalance,      \* transactions.balance of the user's newest row
    withdrawal,      \* table withdrawals, with the status of its transaction
    walletLock,      \* the request whose transaction holds the wallet row
    withdrawalLock,  \* the request whose transaction holds the withdrawal row
    req              \* what each request in flight knows and where it stands

walletVars == <<wallets, balance, ledger, rowBalance, withdrawal, walletLock,
                withdrawalLock, req>>

-----------------------------------------------------------------------------
TransactionType == {"DEPOSIT", "WITHDRAWAL", "REFUND", "BID_HOLD", "BID_RELEASE"}

Balances == -MaxBalance .. MaxBalance

NoWithdrawal == [status |-> "NONE", user |-> None, amount |-> 0, txn |-> "NONE"]

(* What a request carries from step to step: "after" is the balance an     *)
(* UPDATE ... RETURNING gave, "settles" the withdrawals whose transaction  *)
(* rows an approval has marked.  A slot no request is using is Idle.       *)
NewRequest(pc, u, amount, w) ==
    [pc |-> pc, user |-> u, amount |-> amount, after |-> 0, withdrawal |-> w,
     settles |-> {}]

Idle == NewRequest("idle", None, 0, None)

WalletInit ==
    /\ wallets = {}
    /\ balance = [u \in Users |-> 0]
    /\ ledger = [u \in Users |-> [t \in TransactionType |-> 0]]
    /\ rowBalance = [u \in Users |-> 0]
    /\ withdrawal = [w \in Withdrawals |-> NoWithdrawal]
    /\ walletLock = [u \in Users |-> None]
    /\ withdrawalLock = [w \in Withdrawals |-> None]
    /\ req = [r \in Requests |-> Idle]

-----------------------------------------------------------------------------
(* What the statements of a transaction do.                                *)

(* Variants of the definition that follows them, each with one slip, are   *)
(* marked "Slip": no definition uses one; they show that a property would  *)
(* notice.  Slip: an update computed from an earlier read takes no lock.   *)
LockWalletNever(r, u, change) ==
    balance[u] + change \in Balances /\ UNCHANGED walletLock

(* Slip: a column that cannot overflow.                                    *)
LockWalletUnbounded(r, u, change) ==
    walletLock[u] = None /\ walletLock' = [walletLock EXCEPT ![u] = r]

(* UPDATE wallets SET balance = balance + change: request r takes the row, *)
(* waiting for whoever has it, and the statement returns the new balance.  *)
LockWallet(r, u, change) ==
    /\ walletLock[u] = None
    /\ balance[u] + change \in Balances
    /\ walletLock' = [walletLock EXCEPT ![u] = r]

(* COMMIT of a movement: the balance the UPDATE wrote, and the ledger row  *)
(* written beside it, whose column "balance" holds what the code computed. *)
CommitMovement(u, type, change, after, recorded) ==
    /\ balance' = [balance EXCEPT ![u] = after]
    /\ ledger' = [ledger EXCEPT ![u][type] = @ + change]
    /\ rowBalance' = [rowBalance EXCEPT ![u] = recorded]
    /\ UNCHANGED wallets

Goto(r, pc) == req' = [req EXCEPT ![r].pc = pc]

Finish(r) == req' = [req EXCEPT ![r] = Idle]

UnlockWallets(r) ==
    walletLock' = [u \in Users |-> IF walletLock[u] = r THEN None ELSE walletLock[u]]

UnlockWithdrawals(r) ==
    withdrawalLock' = [w \in Withdrawals |->
                         IF withdrawalLock[w] = r THEN None ELSE withdrawalLock[w]]

-----------------------------------------------------------------------------
(* getOrCreateWallet: find the wallet; when there is none, create it.      *)

(* getBalance, getTransactions and getWithdrawals of a user without wallet *)
(* (they change nothing when there is one).                                *)
GetBalance(r, u) ==
    /\ req[r] = Idle
    /\ u \notin wallets
    /\ req' = [req EXCEPT ![r] = NewRequest("create", u, 0, None)]
    /\ UNCHANGED <<wallets, balance, ledger, rowBalance, withdrawal, walletLock, withdrawalLock>>

(* The create of a wallet that meanwhile exists violates the unique        *)
(* constraint and fails the request; amount 0 stands for a plain read.     *)
CreateWallet(r) ==
    LET u == req[r].user IN
    /\ req[r].pc = "create"
    /\ wallets' = wallets \cup {u}
    /\ \/ (u \in wallets \/ req[r].amount = 0) /\ Finish(r)
       \/ u \notin wallets /\ req[r].amount # 0 /\ Goto(r, "topUp")
    /\ UNCHANGED <<balance, ledger, rowBalance, withdrawal, walletLock, withdrawalLock>>

-----------------------------------------------------------------------------
(* topUp                                                                   *)

TopUp(r, u, amount) ==
    /\ req[r] = Idle
    /\ LET pc == IF u \in wallets THEN "topUp" ELSE "create"
       IN req' = [req EXCEPT ![r] = NewRequest(pc, u, amount, None)]
    /\ UNCHANGED <<wallets, balance, ledger, rowBalance, withdrawal, walletLock, withdrawalLock>>

IncrementForTopUp(r) ==
    LET u == req[r].user IN
    /\ req[r].pc = "topUp"
    /\ LockWallet(r, u, req[r].amount)
    /\ req' = [req EXCEPT ![r].pc = "topUpCommit",
                          ![r].after = balance[u] + req[r].amount]
    /\ UNCHANGED <<wallets, balance, ledger, rowBalance, withdrawal, withdrawalLock>>

CommitTopUp(r) ==
    /\ req[r].pc = "topUpCommit"
    /\ CommitMovement(req[r].user, "DEPOSIT", req[r].amount, req[r].after, req[r].after)
    /\ UnlockWallets(r)
    /\ Finish(r)
    /\ UNCHANGED <<withdrawal, withdrawalLock>>

-----------------------------------------------------------------------------
(* requestWithdrawal                                                       *)

(* The balance is read without a lock and compared with the amount.  The   *)
(* row to be created will have the fresh identifier w; there being only    *)
(* Withdrawals of them bounds the number of withdrawals.                   *)
RequestWithdrawal(r, u, amount, w) ==
    /\ req[r] = Idle
    /\ withdrawal[w] = NoWithdrawal
    /\ \A q \in Requests : req[q].withdrawal # w
    /\ u \in wallets
    /\ balance[u] >= amount
    /\ req' = [req EXCEPT ![r] = NewRequest("withdraw", u, amount, w)]
    /\ UNCHANGED <<wallets, balance, ledger, rowBalance, withdrawal, walletLock, withdrawalLock>>

DecrementForWithdrawal(r) ==
    LET u == req[r].user IN
    /\ req[r].pc = "withdraw"
    /\ LockWallet(r, u, -req[r].amount)
    /\ req' = [req EXCEPT ![r].pc = "withdrawCommit",
                          ![r].after = balance[u] - req[r].amount]
    /\ UNCHANGED <<wallets, balance, ledger, rowBalance, withdrawal, withdrawalLock>>

CommitWithdrawal(r) ==
    /\ req[r].pc = "withdrawCommit"
    /\ CommitMovement(req[r].user, "WITHDRAWAL", -req[r].amount, req[r].after, req[r].after)
    /\ withdrawal' = [withdrawal EXCEPT ![req[r].withdrawal] =
                        [status |-> "PENDING", user |-> req[r].user,
                         amount |-> req[r].amount, txn |-> "PENDING"]]
    /\ UnlockWallets(r)
    /\ Finish(r)
    /\ UNCHANGED withdrawalLock

-----------------------------------------------------------------------------
(* processWithdrawal                                                       *)

(* Slip: the status is read first and written by an unconditional update.  *)
ClaimAnyWithdrawal(r, w, verdict) ==
    /\ req[r] = Idle
    /\ withdrawal[w].status # "NONE"
    /\ withdrawalLock[w] = None
    /\ withdrawalLock' = [withdrawalLock EXCEPT ![w] = r]
    /\ req' = [req EXCEPT ![r] = NewRequest(verdict, withdrawal[w].user,
                                          withdrawal[w].amount, w)]
    /\ UNCHANGED <<wallets, balance, ledger, rowBalance, withdrawal, walletLock>>

(* updateMany ... WHERE status = PENDING: the row's lock is taken and its  *)
(* status looked at in one statement; a row no longer PENDING fails the    *)
(* request.                                                                *)
ClaimWithdrawal(r, w, verdict) ==
    /\ req[r] = Idle
    /\ withdrawalLock[w] = None
    /\ withdrawal[w].status = "PENDING"
    /\ withdrawalLock' = [withdrawalLock EXCEPT ![w] = r]
    /\ req' = [req EXCEPT ![r] = NewRequest(verdict, withdrawal[w].user,
                                          withdrawal[w].amount, w)]
    /\ UNCHANGED <<wallets, balance, ledger, rowBalance, withdrawal, walletLock>>

(* Slip: the update forgets whose wallet it is about.                      *)
MarkAllTransactions(r) ==
    /\ req[r].pc = "approve"
    /\ req' = [req EXCEPT ![r].pc = "approveCommit",
                          ![r].settles = {w \in Withdrawals : withdrawal[w].txn = "PENDING"}]
    /\ UNCHANGED <<wallets, balance, ledger, rowBalance, withdrawal, walletLock, withdrawalLock>>

(* Approval marks every PENDING withdrawal transaction of the wallet.  The *)
(* locks on these rows are left out: two approvals that mark the same row  *)
(* write the same value.                                                   *)
MarkTransactions(r) ==
    /\ req[r].pc = "approve"
    /\ req' = [req EXCEPT ![r].pc = "approveCommit",
                          ![r].settles = {w \in Withdrawals :
                              /\ withdrawal[w].user = req[r].user
                              /\ withdrawal[w].txn = "PENDING"}]
    /\ UNCHANGED <<wallets, balance, ledger, rowBalance, withdrawal, walletLock, withdrawalLock>>

CommitApproval(r) ==
    /\ req[r].pc = "approveCommit"
    /\ withdrawal' = [w \in Withdrawals |->
            [status |-> IF w = req[r].withdrawal THEN "APPROVED" ELSE withdrawal[w].status,
             user |-> withdrawal[w].user, amount |-> withdrawal[w].amount,
             txn |-> IF w \in req[r].settles THEN "COMPLETED" ELSE withdrawal[w].txn]]
    /\ UnlockWithdrawals(r)
    /\ Finish(r)
    /\ UNCHANGED <<wallets, balance, ledger, rowBalance, walletLock>>

IncrementForRefund(r) ==
    LET u == req[r].user IN
    /\ req[r].pc = "reject"
    /\ LockWallet(r, u, req[r].amount)
    /\ req' = [req EXCEPT ![r].pc = "rejectCommit",
                          ![r].after = balance[u] + req[r].amount]
    /\ UNCHANGED <<wallets, balance, ledger, rowBalance, withdrawal, withdrawalLock>>

CommitRejection(r) ==
    /\ req[r].pc = "rejectCommit"
    /\ CommitMovement(req[r].user, "REFUND", req[r].amount, req[r].after, req[r].after)
    /\ withdrawal' = [withdrawal EXCEPT ![req[r].withdrawal].status = "REJECTED"]
    /\ UnlockWallets(r)
    /\ UnlockWithdrawals(r)
    /\ Finish(r)

-----------------------------------------------------------------------------
(* Slip: a connection returned to the pool with its transaction open.      *)
RollbackWithoutUnlock(r) ==
    /\ Finish(r)
    /\ UNCHANGED <<wallets, balance, ledger, rowBalance, withdrawal, walletLock, withdrawalLock>>

(* The transaction of r is rolled back.                                    *)
Rollback(r) ==
    /\ UnlockWallets(r)
    /\ UnlockWithdrawals(r)
    /\ Finish(r)
    /\ UNCHANGED <<wallets, balance, ledger, rowBalance, withdrawal>>

(* The UPDATE of a balance the column cannot hold fails.                   *)
Overflow(r) ==
    LET u == req[r].user
        change == IF req[r].pc = "withdraw" THEN -req[r].amount ELSE req[r].amount
    IN /\ req[r].pc \in {"topUp", "withdraw", "reject"}
       /\ walletLock[u] = None
       /\ balance[u] + change \notin Balances
       /\ Rollback(r)

(* The instance crashed, or Prisma's five second limit passed.             *)
Abort(r) ==
    /\ req[r] # Idle
    /\ Rollback(r)

(* A request arrives.                                                      *)
Arrive(r) ==
    \/ \E u \in Users : GetBalance(r, u)
    \/ \E u \in Users, amount \in Amounts : TopUp(r, u, amount)
    \/ \E u \in Users, amount \in Amounts, w \in Withdrawals :
          RequestWithdrawal(r, u, amount, w)
    \/ \E w \in Withdrawals, verdict \in {"approve", "reject"} :
          ClaimWithdrawal(r, w, verdict)

(* A request in flight takes its next step.                                *)
Proceed(r) ==
    \/ CreateWallet(r)
    \/ IncrementForTopUp(r)
    \/ CommitTopUp(r)
    \/ DecrementForWithdrawal(r)
    \/ CommitWithdrawal(r)
    \/ MarkTransactions(r)
    \/ CommitApproval(r)
    \/ IncrementForRefund(r)
    \/ CommitRejection(r)
    \/ Overflow(r)

WalletNext == \E r \in Requests : Arrive(r) \/ Proceed(r) \/ Abort(r)

WalletSpec == WalletInit /\ [][WalletNext]_walletVars

-----------------------------------------------------------------------------
WalletPc == {"idle", "create", "topUp", "topUpCommit", "withdraw",
             "withdrawCommit", "approve", "approveCommit", "reject", "rejectCommit"}

WithdrawalRow == [status : {"NONE", "PENDING", "APPROVED", "REJECTED"},
                  user : Users \cup {None}, amount : Nat,
                  txn : {"NONE", "PENDING", "COMPLETED"}]

Request == [pc : WalletPc, user : Users \cup {None}, amount : Nat, after : Balances,
            withdrawal : Withdrawals \cup {None}, settles : SUBSET Withdrawals]

WalletTypeOK ==
    /\ wallets \in SUBSET Users
    /\ balance \in [Users -> Balances]
    /\ ledger \in [Users -> [TransactionType -> Int]]
    /\ rowBalance \in [Users -> Balances]
    /\ withdrawal \in [Withdrawals -> WithdrawalRow]
    /\ walletLock \in [Users -> Requests \cup {None}]
    /\ withdrawalLock \in [Withdrawals -> Requests \cup {None}]
    /\ req \in [Requests -> Request]

-----------------------------------------------------------------------------
LedgerTotal(u) == ledger[u]["DEPOSIT"] + ledger[u]["WITHDRAWAL"] + ledger[u]["REFUND"]
                     + ledger[u]["BID_HOLD"] + ledger[u]["BID_RELEASE"]

(* The balance column is the sum of the wallet's ledger rows: no movement  *)
(* of two overlapping requests is lost or written to one of the two only   *)
(* (update and transaction.create in one $transaction, wallet.service.ts   *)
(* :36-57, :66-104, :143-197).                                             *)
LedgerMatchesBalance == \A u \in Users : balance[u] = LedgerTotal(u)

OfUser(u, statuses) == {w \in Withdrawals : /\ withdrawal[w].user = u
                                            /\ withdrawal[w].status \in statuses}

(* The money that left a wallet for good or is on its way out is that of   *)
(* the withdrawals pending or approved: what the ledger says was withdrawn *)
(* and not refunded is their sum, so a rejected withdrawal is refunded     *)
(* once and an approved one never (wallet.service.ts:83-101, :177-196).    *)
WithdrawnMoneyAccounted ==
    \A u \in Users :
        -(ledger[u]["WITHDRAWAL"] + ledger[u]["REFUND"])
            = SumFunctionOnSet([w \in Withdrawals |-> withdrawal[w].amount],
                               OfUser(u, {"PENDING", "APPROVED"}))

(* A withdrawal is settled once: after APPROVED or REJECTED neither its    *)
(* status, nor its owner or amount, changes, whatever admins do at the     *)
(* same time ("prevents double-processing", wallet.service.ts:144).        *)
SettledForGood ==
    [][\A w \in Withdrawals : withdrawal[w].status \in {"APPROVED", "REJECTED"} =>
            /\ withdrawal'[w].status = withdrawal[w].status
            /\ withdrawal'[w].user = withdrawal[w].user
            /\ withdrawal'[w].amount = withdrawal[w].amount]_walletVars

(* Money is refunded by the very step that turns a withdrawal from PENDING *)
(* to REJECTED, exactly its amount and to its owner, and by no other step  *)
(* (wallet.service.ts:145-196).                                            *)
RefundOnlyByRejection ==
    [][\A u \in Users : ledger'[u]["REFUND"] # ledger[u]["REFUND"] =>
         \E w \in Withdrawals :
            /\ withdrawal[w].status = "PENDING" /\ withdrawal'[w].status = "REJECTED"
            /\ withdrawal[w].user = u
            /\ ledger'[u]["REFUND"] = ledger[u]["REFUND"] + withdrawal[w].amount]_walletVars

(* What the check "Insufficient balance" is for (wallet.service.ts:65-75,  *)
(* "to prevent race conditions").                                          *)
NonNegativeBalance == \A u \in Users : balance[u] >= 0

(* The transaction rows of a user's withdrawals are completed by the       *)
(* approval of one of them: that one's in any case, never another user's,  *)
(* and none before an approval (wallet.service.ts:168-176).                *)
CompletedByApproval ==
    \A w \in Withdrawals :
        /\ withdrawal[w].status = "APPROVED" => withdrawal[w].txn = "COMPLETED"
        /\ withdrawal[w].txn = "COMPLETED" => OfUser(withdrawal[w].user, {"APPROVED"}) # {}

Atomic == INSTANCE AtomicWallet WITH
    funds <- balance,
    posted <- ledger,
    shown <- rowBalance,
    payouts <- [w \in Withdrawals |-> [status |-> withdrawal[w].status,
                                       user |-> withdrawal[w].user,
                                       amount |-> withdrawal[w].amount]]

(* The requests of the wallet, with their locks, reads and failures, are   *)
(* an atomic wallet: each movement takes effect in one step, with its row, *)
(* the balance the row shows and the withdrawal it belongs to              *)
(* (wallet.service.ts:36-57, :66-104, :143-197).                           *)
MovementsAreAtomic == Atomic!Spec

-----------------------------------------------------------------------------
(* Why the invariants hold: what a request in flight may rely on, from the *)
(* statement that took a row to the commit.                                *)

MovesMoney(r) == req[r].pc \in {"topUpCommit", "withdrawCommit", "rejectCommit"}
AsksForMoney(r) == req[r].pc \in {"withdraw", "withdrawCommit"}
Settles(r) == req[r].pc \in {"approve", "approveCommit", "reject", "rejectCommit"}

Change(r) == IF req[r].pc = "withdrawCommit" THEN -req[r].amount ELSE req[r].amount

(* Between the UPDATE and the COMMIT nobody else moves the wallet's money, *)
(* so the balance to be committed is still the committed one, changed.     *)
WalletRowIsMine(r) ==
    MovesMoney(r) => /\ walletLock[req[r].user] = r
                     /\ req[r].after = balance[req[r].user] + Change(r)

(* The identifier of a withdrawal about to be created is nobody else's.    *)
FreshWithdrawal(r) ==
    AsksForMoney(r) => /\ req[r].withdrawal \in Withdrawals
                       /\ withdrawal[req[r].withdrawal] = NoWithdrawal
                       /\ \A q \in Requests \ {r} : req[q].withdrawal # req[r].withdrawal

(* A claimed withdrawal stays PENDING until the request that claimed it    *)
(* settles it.                                                             *)
ClaimIsMine(r) ==
    Settles(r) => /\ req[r].withdrawal \in Withdrawals
                  /\ withdrawalLock[req[r].withdrawal] = r
                  /\ withdrawal[req[r].withdrawal].status = "PENDING"
                  /\ withdrawal[req[r].withdrawal].user = req[r].user
                  /\ withdrawal[req[r].withdrawal].amount = req[r].amount
                  /\ \A w \in req[r].settles : withdrawal[w].txn # "NONE"

RequestInv ==
    \A r \in Requests :
        /\ req[r].pc # "idle" => req[r].user \in Users
        /\ WalletRowIsMine(r)
        /\ FreshWithdrawal(r)
        /\ ClaimIsMine(r)

PendingHasOwner ==
    \A w \in Withdrawals : withdrawal[w].status = "PENDING" => withdrawal[w].user \in Users

(* What is added to or taken from a wallet was validated when the request  *)
(* came in; a wallet may be created with or without a top-up to follow.    *)
AmountsAreAsked ==
    \A r \in Requests :
        /\ req[r].pc = "create" => req[r].amount \in Amounts \cup {0}
        /\ req[r].pc \in {"topUp", "topUpCommit", "withdraw", "withdrawCommit"} =>
              req[r].amount \in Amounts

WalletInv == WalletTypeOK /\ LedgerMatchesBalance /\ RequestInv /\ PendingHasOwner

(* What an approval has marked is of its own user, and the row of the      *)
(* withdrawal it approves is marked, now or before.                        *)
MarksAreMine(r) ==
    req[r].pc = "approveCommit" =>
        /\ \A w \in req[r].settles : withdrawal[w].user = req[r].user
        /\ \/ req[r].withdrawal \in req[r].settles
           \/ withdrawal[req[r].withdrawal].txn = "COMPLETED"

PendingHasTransaction ==
    \A w \in Withdrawals : withdrawal[w].status = "PENDING" => withdrawal[w].txn # "NONE"

ApprovalInv ==
    CompletedByApproval /\ PendingHasTransaction /\ \A r \in Requests : MarksAreMine(r)

(* There is a sum of the amounts withdrawn: rows so far are finitely many. *)
AccountsInv ==
    /\ WithdrawnMoneyAccounted
    /\ IsFiniteSet({w \in Withdrawals : withdrawal[w].status # "NONE"})
=============================================================================
