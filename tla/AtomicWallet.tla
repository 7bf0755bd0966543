---------------------------- MODULE AtomicWallet ----------------------------
(***************************************************************************)
(* What the wallet promises, in one step per movement: money is deposited, *)
(* withdrawn and refunded together with the row of the ledger that says so *)
(* and the balance that row shows, a withdrawal is settled once, and only  *)
(* its rejection refunds it.  No locks, no requests in flight and no       *)
(* transactions: module Wallet is shown to implement this.                 *)
(***************************************************************************)
EXTENDS Integers

CONSTANTS Users, Withdrawals, Amounts, MaxBalance, TransactionType, None

VARIABLES
    funds,    \* the balance of each user
    posted,   \* per user and type, the sum of the movements
    shown,    \* the balance the user's newest movement shows
    payouts   \* the withdrawals asked for

atomicVars == <<funds, posted, shown, payouts>>

NoPayout == [status |-> "NONE", user |-> None, amount |-> 0]

Init ==
    /\ funds = [u \in Users |-> 0]
    /\ posted = [u \in Users |-> [t \in TransactionType |-> 0]]
    /\ shown = [u \in Users |-> 0]
    /\ payouts = [w \in Withdrawals |-> NoPayout]

Post(u, type, change) ==
    /\ funds[u] + change \in -MaxBalance .. MaxBalance
    /\ funds' = [funds EXCEPT ![u] = @ + change]
    /\ posted' = [posted EXCEPT ![u][type] = @ + change]
    /\ shown' = [shown EXCEPT ![u] = funds'[u]]

Settle(w, status) ==
    /\ payouts[w].status = "PENDING"
    /\ payouts' = [payouts EXCEPT ![w] = [@ EXCEPT !.status = status]]

PayIn(u, amount) ==
    /\ Post(u, "DEPOSIT", amount)
    /\ UNCHANGED payouts

(* Not that there is money enough: the service looks, but may be overtaken.*)
Withdraw(u, amount, w) ==
    /\ payouts[w] = NoPayout
    /\ Post(u, "WITHDRAWAL", -amount)
    /\ payouts' = [payouts EXCEPT ![w] = [status |-> "PENDING", user |-> u, amount |-> amount]]

Approve(w) ==
    /\ Settle(w, "APPROVED")
    /\ UNCHANGED <<funds, posted, shown>>

Reject(w) ==
    /\ Settle(w, "REJECTED")
    /\ Post(payouts[w].user, "REFUND", payouts[w].amount)

Next ==
    \/ \E u \in Users, amount \in Amounts :
          PayIn(u, amount) \/ \E w \in Withdrawals : Withdraw(u, amount, w)
    \/ \E w \in Withdrawals : Approve(w) \/ Reject(w)

Spec == Init /\ [][Next]_atomicVars
=============================================================================
