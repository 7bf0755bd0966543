---------------------------- MODULE WalletProofs ----------------------------
(***************************************************************************)
(* The wallet's balance, ledger and withdrawals are right whatever the     *)
(* number of users, requests and withdrawals and the size of the amounts:  *)
(* proofs of the properties of Wallet.  The inductive invariant WalletInv  *)
(* says what a request may rely on while it holds a row; every step of a   *)
(* request r is looked at for r itself, whose promises it must keep, and   *)
(* for the others, whose rows it cannot touch.                             *)
(***************************************************************************)
EXTENDS Wallet, FiniteSetTheorems, WellFoundedInduction, TLAPS

USE DEF NoWithdrawal, NewRequest, Finish, Goto, LockWallet,
        UnlockWallets, UnlockWithdrawals

-----------------------------------------------------------------------------
(* Sums of the community modules, over a finite set: they exist, and do   *)
(* not depend on the order in which elements are taken off.                *)

(* Among sets of elements of a finite set there is a smallest one.         *)
LEMMA SmallestOf ==
    ASSUME NEW S, IsFiniteSet(S), NEW F \in SUBSET (SUBSET S), F # {}
    PROVE  \E T \in F : \A U \in F : U \subseteq T => U = T
<1>1. IsWellFoundedOn(StrictSubsetOrdering(S), FiniteSubsetsOf(S))
  BY FS_StrictSubsetOrderingWellFounded
<1>2. F \subseteq FiniteSubsetsOf(S)
  BY FS_Subset DEF FiniteSubsetsOf
<1>3. PICK T \in F : \A U \in F : <<U, T>> \notin StrictSubsetOrdering(S)
  BY <1>1, <1>2, WFMin
<1>4. SUFFICES ASSUME NEW U \in F, U \subseteq T, U # T
               PROVE  FALSE
  OBVIOUS
<1> QED  BY <1>3, <1>4 DEF StrictSubsetOrdering

(* g adds up f over every subset of S, as the community modules do: it     *)
(* takes an element off and goes on with the rest.                         *)
Any(T) == CHOOSE x \in T : TRUE

AddsUp(g, f, S) ==
    g = [T \in SUBSET S |-> IF T = {} THEN 0 ELSE f[Any(T)] + g[T \ {Any(T)}]]

LEMMA AnyIsElement ==
    ASSUME NEW T, T # {}
    PROVE  /\ Any(T) \in T
           /\ T \ {Any(T)} \subseteq T
           /\ T \ {Any(T)} # T
BY DEF Any

LEMMA SumIsAddedUp ==
    ASSUME NEW f, NEW S
    PROVE  SumFunctionOnSet(f, S) = (CHOOSE g : AddsUp(g, f, S))[S]
BY Zenon DEF SumFunctionOnSet, FoldFunctionOnSet, MapThenFoldSet, AddsUp, Any

(* What adds up over S adds up over its subsets in the same way ...        *)
LEMMA SameSums ==
    ASSUME NEW f, NEW S, NEW T, IsFiniteSet(S), T \subseteq S,
           NEW g, AddsUp(g, f, S), NEW h, AddsUp(h, f, T)
    PROVE  \A U \in SUBSET T : g[U] = h[U]
<1> SUFFICES ASSUME {U \in SUBSET T : g[U] # h[U]} # {}
             PROVE  FALSE
  OBVIOUS
<1> DEFINE F == {U \in SUBSET T : g[U] # h[U]}
<1>1. PICK U \in F : \A V \in F : V \subseteq U => V = U
  <2>1. IsFiniteSet(T)
    BY FS_Subset
  <2>2. F \in SUBSET (SUBSET T) /\ F # {}
    OBVIOUS
  <2> HIDE DEF F
  <2> QED  BY <2>1, <2>2, SmallestOf
<1>2. g[U] = IF U = {} THEN 0 ELSE f[Any(U)] + g[U \ {Any(U)}]
  BY DEF AddsUp
<1>3. h[U] = IF U = {} THEN 0 ELSE f[Any(U)] + h[U \ {Any(U)}]
  BY DEF AddsUp
<1>4. CASE U = {}
  BY <1>2, <1>3, <1>4
<1>5. CASE U # {}
  <2>1. g[U \ {Any(U)}] = h[U \ {Any(U)}]
    BY <1>1, <1>5, AnyIsElement
  <2> QED  BY <1>2, <1>3, <1>5, <2>1
<1> QED  BY <1>4, <1>5

(* ... and something does.                                                 *)
LEMMA SumsExist ==
    ASSUME NEW f, NEW S, IsFiniteSet(S)
    PROVE  \E g : AddsUp(g, f, S)
<1> SUFFICES ASSUME {T \in SUBSET S : ~\E g : AddsUp(g, f, T)} # {}
             PROVE  FALSE
  OBVIOUS
<1> DEFINE F == {T \in SUBSET S : ~\E g : AddsUp(g, f, T)}
<1>1. PICK T \in F : \A U \in F : U \subseteq T => U = T
  <2>1. F \in SUBSET (SUBSET S) /\ F # {}
    OBVIOUS
  <2> HIDE DEF F
  <2> QED  BY <2>1, SmallestOf
<1> DEFINE Of(U) == CHOOSE g : AddsUp(g, f, U)
           before == [U \in SUBSET T |-> Of(U)[U]]
           g == [U \in SUBSET T |->
                   IF U = {} THEN 0 ELSE f[Any(U)] + before[U \ {Any(U)}]]
<1>2. \A U \in SUBSET T : U # T => AddsUp(Of(U), f, U)
  BY <1>1
<1>3. \A U \in SUBSET T : IsFiniteSet(U)
  BY FS_Subset
<1>4. \A U \in SUBSET T : U # T => before[U] = g[U]
  <2> SUFFICES ASSUME NEW U \in SUBSET T, U # T
               PROVE  before[U] = g[U]
    OBVIOUS
  <2>1. AddsUp(Of(U), f, U)
    BY <1>2
  <2> HIDE DEF Of
  <2>2. Of(U)[U] = IF U = {} THEN 0 ELSE f[Any(U)] + Of(U)[U \ {Any(U)}]
    BY <2>1 DEF AddsUp
  <2>3. CASE U = {}
    BY <2>2, <2>3
  <2>4. CASE U # {}
    <3> DEFINE V == U \ {Any(U)}
    <3>1. V \in SUBSET T /\ V # T /\ V \subseteq U
      BY <2>4, AnyIsElement
    <3>2. AddsUp(Of(V), f, V)
      BY <1>2, <3>1
    <3>3. IsFiniteSet(U) /\ V \in SUBSET V
      BY <1>3
    <3>4. Of(U)[V] = Of(V)[V]
      <4> HIDE DEF V
      <4> QED  BY <2>1, <3>1, <3>2, <3>3, SameSums
    <3> QED  BY <2>2, <2>4, <3>1, <3>4
  <2> QED  BY <2>3, <2>4
<1>5. g = [U \in SUBSET T |-> IF U = {} THEN 0 ELSE f[Any(U)] + g[U \ {Any(U)}]]
  <2>1. \A U \in SUBSET T : U # {} => before[U \ {Any(U)}] = g[U \ {Any(U)}]
    <3> SUFFICES ASSUME NEW U \in SUBSET T, U # {}
                 PROVE  before[U \ {Any(U)}] = g[U \ {Any(U)}]
      OBVIOUS
    <3>1. U \ {Any(U)} \in SUBSET T /\ U \ {Any(U)} # T
      BY AnyIsElement
    <3> HIDE DEF before, g
    <3> QED  BY <1>4, <3>1
  <2>2. \A U \in SUBSET T : g[U] = IF U = {} THEN 0 ELSE f[Any(U)] + g[U \ {Any(U)}]
    <3> SUFFICES ASSUME NEW U \in SUBSET T
                 PROVE  g[U] = IF U = {} THEN 0 ELSE f[Any(U)] + g[U \ {Any(U)}]
      OBVIOUS
    <3>1. g[U] = IF U = {} THEN 0 ELSE f[Any(U)] + before[U \ {Any(U)}]
      OBVIOUS
    <3> HIDE DEF before, g
    <3> QED  BY <2>1, <3>1
  <2>3. g = [U \in SUBSET T |-> g[U]]
    OBVIOUS
  <2> HIDE DEF before, g
  <2> QED  BY <2>2, <2>3
<1>6. AddsUp(g, f, T)
  <2> HIDE DEF g
  <2> QED  BY <1>5 DEF AddsUp
<1>7. \E x : AddsUp(x, f, T)
  <2> HIDE DEF g
  <2> QED  BY <1>6
<1> QED  BY <1>1, <1>7

LEMMA SumEquation ==
    ASSUME NEW f, NEW S, IsFiniteSet(S)
    PROVE  SumFunctionOnSet(f, S) =
               IF S = {} THEN 0 ELSE f[Any(S)] + SumFunctionOnSet(f, S \ {Any(S)})
<1> DEFINE Of(T) == CHOOSE g : AddsUp(g, f, T)
<1>1. \A T \in SUBSET S : AddsUp(Of(T), f, T)
  <2> SUFFICES ASSUME NEW T \in SUBSET S
               PROVE  AddsUp(Of(T), f, T)
    OBVIOUS
  <2>1. \E g : AddsUp(g, f, T)
    BY FS_Subset, SumsExist
  <2> QED  BY <2>1, Zenon
<1>2. \A T : SumFunctionOnSet(f, T) = Of(T)[T]
  BY SumIsAddedUp
<1> HIDE DEF Of
<1>3. S \in SUBSET S
  OBVIOUS
<1>4. AddsUp(Of(S), f, S)
  BY <1>1, <1>3
<1>5. Of(S)[S] = IF S = {} THEN 0 ELSE f[Any(S)] + Of(S)[S \ {Any(S)}]
  BY <1>4 DEF AddsUp
<1>6. CASE S = {}
  BY <1>2, <1>5, <1>6
<1>7. CASE S # {}
  <2> DEFINE T == S \ {Any(S)}
  <2>1. T \subseteq S
    OBVIOUS
  <2>2. AddsUp(Of(T), f, T)
    BY <1>1, <2>1
  <2>3. Of(S)[T] = Of(T)[T]
    <3> HIDE DEF T
    <3> QED  BY <1>4, <2>1, <2>2, SameSums
  <2> QED  BY <1>2, <1>5, <1>7, <2>3
<1> QED  BY <1>6, <1>7

LEMMA SumIsInt ==
    ASSUME NEW S, IsFiniteSet(S), NEW f, \A x \in S : f[x] \in Int
    PROVE  SumFunctionOnSet(f, S) \in Int
<1> DEFINE Wrong == {T \in SUBSET S : SumFunctionOnSet(f, T) \notin Int}
<1> SUFFICES ASSUME Wrong # {}
             PROVE  FALSE
  OBVIOUS
<1>1. PICK T \in Wrong : \A U \in Wrong : U \subseteq T => U = T
  <2>1. Wrong \in SUBSET (SUBSET S)
    OBVIOUS
  <2> HIDE DEF Wrong
  <2> QED  BY <2>1, SmallestOf
<1>2. SumFunctionOnSet(f, T) =
          IF T = {} THEN 0 ELSE f[Any(T)] + SumFunctionOnSet(f, T \ {Any(T)})
  BY FS_Subset, SumEquation
<1>3. CASE T = {}
  BY <1>2, <1>3
<1>4. CASE T # {}
  <2>1. SumFunctionOnSet(f, T \ {Any(T)}) \in Int /\ f[Any(T)] \in Int
    BY <1>1, <1>4, AnyIsElement
  <2> QED  BY <1>2, <1>4, <2>1
<1> QED  BY <1>3, <1>4

(* Whatever element is taken off first, the sum is the same.               *)
LEMMA SumTakesAny ==
    ASSUME NEW S, IsFiniteSet(S), NEW f, \A x \in S : f[x] \in Int, NEW x \in S
    PROVE  SumFunctionOnSet(f, S) = f[x] + SumFunctionOnSet(f, S \ {x})
<1> DEFINE Sum(T) == SumFunctionOnSet(f, T)
           Wrong == {T \in SUBSET S : \E y \in T : Sum(T) # f[y] + Sum(T \ {y})}
<1> SUFFICES ASSUME Wrong # {}
             PROVE  FALSE
  OBVIOUS
<1>1. PICK T \in Wrong : \A U \in Wrong : U \subseteq T => U = T
  <2>1. Wrong \in SUBSET (SUBSET S)
    OBVIOUS
  <2> HIDE DEF Wrong
  <2> QED  BY <2>1, SmallestOf
<1>2. PICK y \in T : Sum(T) # f[y] + Sum(T \ {y})
  BY <1>1
<1>3. \A U \in SUBSET S : IsFiniteSet(U)
  BY FS_Subset
<1>4. Sum(T) = f[Any(T)] + Sum(T \ {Any(T)})
  BY <1>3, SumEquation
<1> DEFINE z == Any(T)
<1>5. z \in T /\ z # y
  BY <1>2, <1>4, AnyIsElement
<1>6. \A U \in SUBSET S : Sum(U) \in Int
  <2> SUFFICES ASSUME NEW U \in SUBSET S
               PROVE  Sum(U) \in Int
    OBVIOUS
  <2> QED  BY <1>3, SumIsInt
<1> HIDE DEF Sum, z
<1>7. \A U \in SUBSET T : U # T => \A a \in U : Sum(U) = f[a] + Sum(U \ {a})
  BY <1>1
<1>8. T \ {z} \in SUBSET T /\ T \ {z} # T /\ y \in T \ {z}
  BY <1>5
<1>9. T \ {y} \in SUBSET T /\ T \ {y} # T /\ z \in T \ {y}
  BY <1>5
<1>10. (T \ {y}) \ {z} = (T \ {z}) \ {y}
  OBVIOUS
<1>11. PICK rest \in Int : rest = Sum((T \ {z}) \ {y})
  BY <1>6
<1>12. PICK a \in Int, b \in Int : a = f[y] /\ b = f[z]
  BY <1>1, <1>5
<1>13. Sum(T \ {z}) = a + rest
  BY <1>7, <1>8, <1>11, <1>12
<1>14. Sum(T \ {y}) = b + rest
  BY <1>7, <1>9, <1>10, <1>11, <1>12
<1>15. Sum(T) = b + (a + rest)
  BY <1>4, <1>12, <1>13 DEF z
<1>16. Sum(T) # a + (b + rest)
  BY <1>2, <1>12, <1>14
<1> QED  BY <1>15, <1>16

LEMMA SumOfMore ==
    ASSUME NEW S, IsFiniteSet(S), NEW x, x \notin S, NEW f, \A y \in S \cup {x} : f[y] \in Int
    PROVE  SumFunctionOnSet(f, S \cup {x}) = f[x] + SumFunctionOnSet(f, S)
<1>1. IsFiniteSet(S \cup {x})
  BY FS_AddElement
<1>2. (S \cup {x}) \ {x} = S
  OBVIOUS
<1>3. SumFunctionOnSet(f, S \cup {x}) = f[x] + SumFunctionOnSet(f, (S \cup {x}) \ {x})
  BY <1>1, SumTakesAny
<1> QED  BY <1>2, <1>3

(* A sum depends on what is added up only.                                 *)
LEMMA SumOfSame ==
    ASSUME NEW S, IsFiniteSet(S), NEW f, NEW g, \A x \in S : f[x] = g[x]
    PROVE  SumFunctionOnSet(f, S) = SumFunctionOnSet(g, S)
<1> DEFINE Wrong == {T \in SUBSET S : SumFunctionOnSet(f, T) # SumFunctionOnSet(g, T)}
<1> SUFFICES ASSUME Wrong # {}
             PROVE  FALSE
  OBVIOUS
<1>1. PICK T \in Wrong : \A U \in Wrong : U \subseteq T => U = T
  <2>1. Wrong \in SUBSET (SUBSET S)
    OBVIOUS
  <2> HIDE DEF Wrong
  <2> QED  BY <2>1, SmallestOf
<1>2. IsFiniteSet(T)
  BY FS_Subset
<1>3. SumFunctionOnSet(f, T) =
          IF T = {} THEN 0 ELSE f[Any(T)] + SumFunctionOnSet(f, T \ {Any(T)})
  BY <1>2, SumEquation
<1>4. SumFunctionOnSet(g, T) =
          IF T = {} THEN 0 ELSE g[Any(T)] + SumFunctionOnSet(g, T \ {Any(T)})
  BY <1>2, SumEquation
<1>5. CASE T = {}
  BY <1>1, <1>3, <1>4, <1>5
<1>6. CASE T # {}
  <2>1. SumFunctionOnSet(f, T \ {Any(T)}) = SumFunctionOnSet(g, T \ {Any(T)})
    BY <1>1, <1>6, AnyIsElement
  <2>2. f[Any(T)] = g[Any(T)]
    BY <1>6, AnyIsElement
  <2> QED  BY <1>1, <1>3, <1>4, <1>6, <2>1, <2>2
<1> QED  BY <1>5, <1>6
-----------------------------------------------------------------------------
(* The types of what a step writes.                                        *)

LEMMA RequestFields ==
    ASSUME WalletTypeOK, NEW r \in Requests
    PROVE  /\ req[r].pc \in WalletPc           /\ req[r].user \in Users \cup {None}
           /\ req[r].amount \in Nat            /\ req[r].after \in Balances
           /\ req[r].withdrawal \in Withdrawals \cup {None}
           /\ req[r].settles \in SUBSET Withdrawals
BY DEF WalletTypeOK, Request

LEMMA IdleIsRequest ==
    ASSUME WalletTypeOK, NEW r \in Requests
    PROVE  /\ Idle \in Request
           /\ [req EXCEPT ![r] = Idle] \in [Requests -> Request]
<1>1. Idle \in Request
  BY WalletAssumption DEF Idle, Request, WalletPc, Balances
<1> QED  BY <1>1 DEF WalletTypeOK

LEMMA StepIsRequest ==
    ASSUME WalletTypeOK, NEW r \in Requests, NEW pc \in WalletPc
    PROVE  [req EXCEPT ![r].pc = pc] \in [Requests -> Request]
BY DEF WalletTypeOK, Request

LEMMA UpdateIsRequest ==
    ASSUME WalletTypeOK, NEW r \in Requests, NEW pc \in WalletPc, NEW after \in Balances
    PROVE  [req EXCEPT ![r].pc = pc, ![r].after = after] \in [Requests -> Request]
BY DEF WalletTypeOK, Request

LEMMA MarkIsRequest ==
    ASSUME WalletTypeOK, NEW r \in Requests, NEW pc \in WalletPc,
           NEW settles \in SUBSET Withdrawals
    PROVE  [req EXCEPT ![r].pc = pc, ![r].settles = settles] \in [Requests -> Request]
<1>1. [req[r] EXCEPT !.pc = pc, !.settles = settles] \in Request
  BY DEF WalletTypeOK, Request
<1> QED  BY <1>1 DEF WalletTypeOK

LEMMA MovementIsTyped ==
    ASSUME WalletTypeOK, NEW u \in Users, NEW type \in TransactionType, NEW change \in Int,
           NEW after \in Balances, NEW recorded \in Balances,
           CommitMovement(u, type, change, after, recorded)
    PROVE  /\ balance' \in [Users -> Balances]
           /\ ledger' \in [Users -> [TransactionType -> Int]]
           /\ rowBalance' \in [Users -> Balances]
BY DEF WalletTypeOK, CommitMovement

LEMMA RowChangeIsTyped ==
    ASSUME WalletTypeOK, NEW w, NEW u \in Users, NEW amount \in Nat
    PROVE  /\ [withdrawal EXCEPT ![w].status = "REJECTED"] \in [Withdrawals -> WithdrawalRow]
           /\ [withdrawal EXCEPT ![w] = [status |-> "PENDING", user |-> u, amount |-> amount,
                                         txn |-> "PENDING"]] \in [Withdrawals -> WithdrawalRow]
BY DEF WalletTypeOK, WithdrawalRow

LEMMA UnlockingIsTyped ==
    ASSUME WalletTypeOK, NEW r
    PROVE  /\ UnlockWallets(r) => walletLock' \in [Users -> Requests \cup {None}]
           /\ UnlockWithdrawals(r) => withdrawalLock' \in [Withdrawals -> Requests \cup {None}]
BY DEF WalletTypeOK

-----------------------------------------------------------------------------
(* Every action keeps the invariant.                                       *)

LEMMA GetBalanceKeepsInv ==
    ASSUME WalletInv, NEW r \in Requests, NEW u \in Users, GetBalance(r, u)
    PROVE  WalletInv'
<1> USE WalletAssumption DEF WalletInv, WalletTypeOK
<1>1. WalletTypeOK'
  <2>1. req' \in [Requests -> Request]
    BY IdleIsRequest DEF GetBalance, Request, WalletPc, Idle, Balances
  <2> QED  BY <2>1 DEF GetBalance, RequestInv, WalletRowIsMine, MovesMoney,
              TransactionType, PendingHasOwner
<1> USE DEF GetBalance, Request, WithdrawalRow, Idle
<1>2. LedgerMatchesBalance'
  BY DEF LedgerMatchesBalance, LedgerTotal, RequestInv, WalletRowIsMine, MovesMoney,
     Change, TransactionType, CommitMovement, Balances
<1>3. RequestInv'
  <2> SUFFICES ASSUME NEW q \in Requests
               PROVE  /\ (req[q].pc # "idle" => req[q].user \in Users)'
                      /\ WalletRowIsMine(q)'
                      /\ FreshWithdrawal(q)'
                      /\ ClaimIsMine(q)'
    BY DEF RequestInv
  <2>1. (req[q].pc # "idle" => req[q].user \in Users)'
    BY DEF RequestInv, PendingHasOwner
  <2>2. WalletRowIsMine(q)'
    BY DEF RequestInv, WalletRowIsMine, MovesMoney, Change, CommitMovement, Balances
  <2>3. FreshWithdrawal(q)'
    BY DEF RequestInv, FreshWithdrawal, AsksForMoney, MovesMoney, ClaimIsMine, Settles
  <2>4. ClaimIsMine(q)'
    BY DEF RequestInv, ClaimIsMine, Settles, FreshWithdrawal, AsksForMoney
  <2> QED  BY <2>1, <2>2, <2>3, <2>4
<1>4. PendingHasOwner'
  BY DEF PendingHasOwner, RequestInv, ClaimIsMine, Settles, MovesMoney
<1> QED  BY <1>1, <1>2, <1>3, <1>4

LEMMA CreateWalletKeepsInv ==
    ASSUME WalletInv, NEW r \in Requests, CreateWallet(r)
    PROVE  WalletInv'
<1> USE WalletAssumption DEF WalletInv, WalletTypeOK
<1>1. WalletTypeOK'
  <2>1. req' \in [Requests -> Request]
    <3>1. Finish(r) \/ Goto(r, "topUp")
      BY DEF CreateWallet
    <3>2. CASE Finish(r)
      BY <3>2, IdleIsRequest
    <3>3. CASE Goto(r, "topUp")
      BY <3>3, StepIsRequest DEF WalletPc
    <3> QED  BY <3>1, <3>2, <3>3
  <2> QED  BY <2>1 DEF CreateWallet, RequestInv, WalletRowIsMine, MovesMoney,
              TransactionType, PendingHasOwner
<1> USE DEF CreateWallet, Request, WithdrawalRow, Idle
<1>2. LedgerMatchesBalance'
  BY DEF LedgerMatchesBalance, LedgerTotal, RequestInv, WalletRowIsMine, MovesMoney,
     Change, TransactionType, CommitMovement, Balances
<1>3. RequestInv'
  <2> SUFFICES ASSUME NEW q \in Requests
               PROVE  /\ (req[q].pc # "idle" => req[q].user \in Users)'
                      /\ WalletRowIsMine(q)'
                      /\ FreshWithdrawal(q)'
                      /\ ClaimIsMine(q)'
    BY DEF RequestInv
  <2>1. \/ req'[q] = req[q]
        \/ q = r /\ req'[q] = Idle
        \/ q = r /\ req[q].pc = "create" /\ req'[q] = [req[q] EXCEPT !.pc = "topUp"]
    OBVIOUS
  <2>2. \A p \in Requests : req'[p].withdrawal \in {None, req[p].withdrawal}
    OBVIOUS
  <2> HIDE DEF CreateWallet
  <2>3. UNCHANGED <<balance, withdrawal, walletLock, withdrawalLock>>
    BY DEF CreateWallet
  <2>4. (req[q].pc # "idle" => req[q].user \in Users)'
    BY <2>1, <2>3 DEF RequestInv, PendingHasOwner, CreateWallet
  <2>5. WalletRowIsMine(q)'
    BY <2>1, <2>3 DEF RequestInv, WalletRowIsMine, MovesMoney, Change
  <2>6. FreshWithdrawal(q)'
    BY <2>1, <2>3, <2>2 DEF RequestInv, FreshWithdrawal, AsksForMoney
  <2>7. ClaimIsMine(q)'
    BY <2>1, <2>3 DEF RequestInv, ClaimIsMine, Settles
  <2> QED  BY <2>4, <2>5, <2>6, <2>7
<1>4. PendingHasOwner'
  BY DEF PendingHasOwner, RequestInv, ClaimIsMine, Settles, MovesMoney
<1> QED  BY <1>1, <1>2, <1>3, <1>4

LEMMA TopUpKeepsInv ==
    ASSUME WalletInv, NEW r \in Requests, NEW u \in Users, NEW amount \in Amounts,
           TopUp(r, u, amount)
    PROVE  WalletInv'
<1> USE WalletAssumption DEF WalletInv, WalletTypeOK
<1>1. WalletTypeOK'
  <2>1. req' \in [Requests -> Request]
    BY IdleIsRequest DEF TopUp, Request, WalletPc, Idle, Balances
  <2> QED  BY <2>1 DEF TopUp, RequestInv, WalletRowIsMine, MovesMoney, TransactionType,
              PendingHasOwner
<1> USE DEF TopUp, Request, WithdrawalRow, Idle
<1>2. LedgerMatchesBalance'
  BY DEF LedgerMatchesBalance, LedgerTotal, RequestInv, WalletRowIsMine, MovesMoney,
     Change, TransactionType, CommitMovement, Balances
<1>3. RequestInv'
  <2> SUFFICES ASSUME NEW q \in Requests
               PROVE  /\ (req[q].pc # "idle" => req[q].user \in Users)'
                      /\ WalletRowIsMine(q)'
                      /\ FreshWithdrawal(q)'
                      /\ ClaimIsMine(q)'
    BY DEF RequestInv
  <2>1. (req[q].pc # "idle" => req[q].user \in Users)'
    BY DEF RequestInv, PendingHasOwner
  <2>2. WalletRowIsMine(q)'
    BY DEF RequestInv, WalletRowIsMine, MovesMoney, Change, CommitMovement, Balances
  <2>3. FreshWithdrawal(q)'
    BY DEF RequestInv, FreshWithdrawal, AsksForMoney, MovesMoney, ClaimIsMine, Settles
  <2>4. ClaimIsMine(q)'
    BY DEF RequestInv, ClaimIsMine, Settles, FreshWithdrawal, AsksForMoney
  <2> QED  BY <2>1, <2>2, <2>3, <2>4
<1>4. PendingHasOwner'
  BY DEF PendingHasOwner, RequestInv, ClaimIsMine, Settles, MovesMoney
<1> QED  BY <1>1, <1>2, <1>3, <1>4

LEMMA IncrementForTopUpKeepsInv ==
    ASSUME WalletInv, NEW r \in Requests, IncrementForTopUp(r)
    PROVE  WalletInv'
<1> USE WalletAssumption DEF WalletInv, WalletTypeOK
<1>1. WalletTypeOK'
  <2>1. req' \in [Requests -> Request]
    BY UpdateIsRequest DEF IncrementForTopUp, WalletPc
  <2> QED  BY <2>1 DEF IncrementForTopUp, RequestInv, WalletRowIsMine, MovesMoney,
              TransactionType, PendingHasOwner
<1> USE DEF IncrementForTopUp, Request, WithdrawalRow, Idle
<1>2. LedgerMatchesBalance'
  BY DEF LedgerMatchesBalance, LedgerTotal, RequestInv, WalletRowIsMine, MovesMoney,
     Change, TransactionType, CommitMovement, Balances
<1>3. RequestInv'
  <2> SUFFICES ASSUME NEW q \in Requests
               PROVE  /\ (req[q].pc # "idle" => req[q].user \in Users)'
                      /\ WalletRowIsMine(q)'
                      /\ FreshWithdrawal(q)'
                      /\ ClaimIsMine(q)'
    BY DEF RequestInv
  <2>1. (req[q].pc # "idle" => req[q].user \in Users)'
    BY DEF RequestInv, PendingHasOwner
  <2>2. WalletRowIsMine(q)'
    BY DEF RequestInv, WalletRowIsMine, MovesMoney, Change, CommitMovement, Balances
  <2>3. FreshWithdrawal(q)'
    BY DEF RequestInv, FreshWithdrawal, AsksForMoney, MovesMoney, ClaimIsMine, Settles
  <2>4. ClaimIsMine(q)'
    BY DEF RequestInv, ClaimIsMine, Settles, FreshWithdrawal, AsksForMoney
  <2> QED  BY <2>1, <2>2, <2>3, <2>4
<1>4. PendingHasOwner'
  BY DEF PendingHasOwner, RequestInv, ClaimIsMine, Settles, MovesMoney
<1> QED  BY <1>1, <1>2, <1>3, <1>4

LEMMA CommitTopUpKeepsInv ==
    ASSUME WalletInv, NEW r \in Requests, CommitTopUp(r)
    PROVE  WalletInv'
<1> USE WalletAssumption DEF WalletInv, WalletTypeOK
<1>1. WalletTypeOK'
  <2>1. req' \in [Requests -> Request]
    BY IdleIsRequest DEF CommitTopUp
  <2>2. /\ balance' \in [Users -> Balances]
        /\ ledger' \in [Users -> [TransactionType -> Int]]
        /\ rowBalance' \in [Users -> Balances]
    <3>1. /\ req[r].user \in Users /\ "DEPOSIT" \in TransactionType
          /\ req[r].amount \in Int /\ req[r].after \in Balances
      BY RequestFields DEF CommitTopUp, RequestInv, TransactionType
    <3>2. CommitMovement(req[r].user, "DEPOSIT", req[r].amount, req[r].after, req[r].after)
      BY DEF CommitTopUp
    <3> QED  BY <3>1, <3>2, MovementIsTyped
  <2>3. walletLock' \in [Users -> Requests \cup {None}]
    BY UnlockingIsTyped DEF CommitTopUp
  <2>4. withdrawalLock' \in [Withdrawals -> Requests \cup {None}]
    BY UnlockingIsTyped DEF CommitTopUp
  <2> QED  BY <2>1, <2>2, <2>3, <2>4 DEF CommitTopUp, CommitMovement
<1> USE DEF CommitTopUp, Request, WithdrawalRow, Idle
<1>2. LedgerMatchesBalance'
  BY DEF LedgerMatchesBalance, LedgerTotal, RequestInv, WalletRowIsMine, MovesMoney,
     Change, TransactionType, CommitMovement, Balances
<1>3. RequestInv'
  <2> SUFFICES ASSUME NEW q \in Requests
               PROVE  /\ (req[q].pc # "idle" => req[q].user \in Users)'
                      /\ WalletRowIsMine(q)'
                      /\ FreshWithdrawal(q)'
                      /\ ClaimIsMine(q)'
    BY DEF RequestInv
  <2>1. (req[q].pc # "idle" => req[q].user \in Users)'
    BY DEF RequestInv, PendingHasOwner
  <2>2. WalletRowIsMine(q)'
    BY DEF RequestInv, WalletRowIsMine, MovesMoney, Change, CommitMovement, Balances
  <2>3. FreshWithdrawal(q)'
    BY DEF RequestInv, FreshWithdrawal, AsksForMoney, MovesMoney, ClaimIsMine, Settles
  <2>4. ClaimIsMine(q)'
    BY DEF RequestInv, ClaimIsMine, Settles, FreshWithdrawal, AsksForMoney
  <2> QED  BY <2>1, <2>2, <2>3, <2>4
<1>4. PendingHasOwner'
  BY DEF PendingHasOwner, RequestInv, ClaimIsMine, Settles, MovesMoney
<1> QED  BY <1>1, <1>2, <1>3, <1>4

LEMMA RequestWithdrawalKeepsInv ==
    ASSUME WalletInv, NEW r \in Requests, NEW u \in Users, NEW amount \in Amounts,
           NEW w \in Withdrawals, RequestWithdrawal(r, u, amount, w)
    PROVE  WalletInv'
<1> USE WalletAssumption DEF WalletInv, WalletTypeOK
<1>1. WalletTypeOK'
  <2>1. req' \in [Requests -> Request]
    BY IdleIsRequest DEF RequestWithdrawal, Request, WalletPc, Idle, Balances
  <2> QED  BY <2>1 DEF RequestWithdrawal, RequestInv, WalletRowIsMine, MovesMoney,
              TransactionType, PendingHasOwner
<1> USE DEF RequestWithdrawal, Request, WithdrawalRow, Idle
<1>2. LedgerMatchesBalance'
  BY DEF LedgerMatchesBalance, LedgerTotal, RequestInv, WalletRowIsMine, MovesMoney,
     Change, TransactionType, CommitMovement, Balances
<1>3. RequestInv'
  <2> SUFFICES ASSUME NEW q \in Requests
               PROVE  /\ (req[q].pc # "idle" => req[q].user \in Users)'
                      /\ WalletRowIsMine(q)'
                      /\ FreshWithdrawal(q)'
                      /\ ClaimIsMine(q)'
    BY DEF RequestInv
  <2>1. (req[q].pc # "idle" => req[q].user \in Users)'
    BY DEF RequestInv, PendingHasOwner
  <2>2. WalletRowIsMine(q)'
    BY DEF RequestInv, WalletRowIsMine, MovesMoney, Change, CommitMovement, Balances
  <2>3. FreshWithdrawal(q)'
    BY DEF RequestInv, FreshWithdrawal, AsksForMoney, MovesMoney, ClaimIsMine, Settles
  <2>4. ClaimIsMine(q)'
    BY DEF RequestInv, ClaimIsMine, Settles, FreshWithdrawal, AsksForMoney
  <2> QED  BY <2>1, <2>2, <2>3, <2>4
<1>4. PendingHasOwner'
  BY DEF PendingHasOwner, RequestInv, ClaimIsMine, Settles, MovesMoney
<1> QED  BY <1>1, <1>2, <1>3, <1>4

LEMMA DecrementForWithdrawalKeepsInv ==
    ASSUME WalletInv, NEW r \in Requests, DecrementForWithdrawal(r)
    PROVE  WalletInv'
<1> USE WalletAssumption DEF WalletInv, WalletTypeOK
<1>1. WalletTypeOK'
  <2>1. req' \in [Requests -> Request]
    BY UpdateIsRequest DEF DecrementForWithdrawal, WalletPc
  <2> QED  BY <2>1 DEF DecrementForWithdrawal, RequestInv, WalletRowIsMine, MovesMoney,
              TransactionType, PendingHasOwner
<1> USE DEF DecrementForWithdrawal, Request, WithdrawalRow, Idle
<1>2. LedgerMatchesBalance'
  BY DEF LedgerMatchesBalance, LedgerTotal, RequestInv, WalletRowIsMine, MovesMoney,
     Change, TransactionType, CommitMovement, Balances
<1>3. RequestInv'
  <2> SUFFICES ASSUME NEW q \in Requests
               PROVE  /\ (req[q].pc # "idle" => req[q].user \in Users)'
                      /\ WalletRowIsMine(q)'
                      /\ FreshWithdrawal(q)'
                      /\ ClaimIsMine(q)'
    BY DEF RequestInv
  <2>1. (req[q].pc # "idle" => req[q].user \in Users)'
    BY DEF RequestInv, PendingHasOwner
  <2>2. WalletRowIsMine(q)'
    BY DEF RequestInv, WalletRowIsMine, MovesMoney, Change, CommitMovement, Balances
  <2>3. FreshWithdrawal(q)'
    BY DEF RequestInv, FreshWithdrawal, AsksForMoney, MovesMoney, ClaimIsMine, Settles
  <2>4. ClaimIsMine(q)'
    BY DEF RequestInv, ClaimIsMine, Settles, FreshWithdrawal, AsksForMoney
  <2> QED  BY <2>1, <2>2, <2>3, <2>4
<1>4. PendingHasOwner'
  BY DEF PendingHasOwner, RequestInv, ClaimIsMine, Settles, MovesMoney
<1> QED  BY <1>1, <1>2, <1>3, <1>4

LEMMA CommitWithdrawalKeepsInv ==
    ASSUME WalletInv, NEW r \in Requests, CommitWithdrawal(r)
    PROVE  WalletInv'
<1> USE WalletAssumption DEF WalletInv, WalletTypeOK
<1>1. WalletTypeOK'
  <2>1. req' \in [Requests -> Request]
    BY IdleIsRequest DEF CommitWithdrawal
  <2>2. /\ balance' \in [Users -> Balances]
        /\ ledger' \in [Users -> [TransactionType -> Int]]
        /\ rowBalance' \in [Users -> Balances]
    <3>1. /\ req[r].user \in Users /\ "WITHDRAWAL" \in TransactionType
          /\ -req[r].amount \in Int /\ req[r].after \in Balances
      BY RequestFields DEF CommitWithdrawal, RequestInv, TransactionType
    <3>2. CommitMovement(req[r].user, "WITHDRAWAL", -req[r].amount, req[r].after, req[r].after)
      BY DEF CommitWithdrawal
    <3> QED  BY <3>1, <3>2, MovementIsTyped
  <2>3. withdrawal' \in [Withdrawals -> WithdrawalRow]
    BY RowChangeIsTyped, RequestFields DEF CommitWithdrawal, RequestInv
  <2>4. walletLock' \in [Users -> Requests \cup {None}]
    BY UnlockingIsTyped DEF CommitWithdrawal
  <2>5. withdrawalLock' \in [Withdrawals -> Requests \cup {None}]
    BY UnlockingIsTyped DEF CommitWithdrawal
  <2> QED  BY <2>1, <2>2, <2>3, <2>4, <2>5 DEF CommitWithdrawal, CommitMovement
<1> USE DEF CommitWithdrawal, Request, WithdrawalRow, Idle
<1>2. LedgerMatchesBalance'
  BY DEF LedgerMatchesBalance, LedgerTotal, RequestInv, WalletRowIsMine, MovesMoney,
     Change, TransactionType, CommitMovement, Balances
<1>3. RequestInv'
  <2> SUFFICES ASSUME NEW q \in Requests
               PROVE  /\ (req[q].pc # "idle" => req[q].user \in Users)'
                      /\ WalletRowIsMine(q)'
                      /\ FreshWithdrawal(q)'
                      /\ ClaimIsMine(q)'
    BY DEF RequestInv
  <2>1. (req[q].pc # "idle" => req[q].user \in Users)'
    BY DEF RequestInv, PendingHasOwner
  <2>2. WalletRowIsMine(q)'
    BY DEF RequestInv, WalletRowIsMine, MovesMoney, Change, CommitMovement, Balances
  <2>3. FreshWithdrawal(q)'
    BY DEF RequestInv, FreshWithdrawal, AsksForMoney, MovesMoney, ClaimIsMine, Settles
  <2>4. ClaimIsMine(q)'
    BY DEF RequestInv, ClaimIsMine, Settles, FreshWithdrawal, AsksForMoney
  <2> QED  BY <2>1, <2>2, <2>3, <2>4
<1>4. PendingHasOwner'
  BY DEF PendingHasOwner, RequestInv, ClaimIsMine, Settles, MovesMoney
<1> QED  BY <1>1, <1>2, <1>3, <1>4

LEMMA ClaimWithdrawalKeepsInv ==
    ASSUME WalletInv, NEW r \in Requests, NEW w \in Withdrawals,
           NEW verdict \in {"approve", "reject"}, ClaimWithdrawal(r, w, verdict)
    PROVE  WalletInv'
<1> USE WalletAssumption DEF WalletInv, WalletTypeOK
<1>1. WalletTypeOK'
  <2>1. req' \in [Requests -> Request]
    <3>1. /\ verdict \in WalletPc /\ withdrawal[w].user \in Users \cup {None}
          /\ withdrawal[w].amount \in Nat
      BY DEF WithdrawalRow, WalletPc
    <3>2. NewRequest(verdict, withdrawal[w].user, withdrawal[w].amount, w) \in Request
      BY <3>1 DEF Request, Balances
    <3> QED  BY <3>2 DEF ClaimWithdrawal
  <2> QED  BY <2>1 DEF ClaimWithdrawal, RequestInv, WalletRowIsMine, MovesMoney,
              TransactionType, PendingHasOwner
<1> USE DEF ClaimWithdrawal, Request, WithdrawalRow, Idle
<1>2. LedgerMatchesBalance'
  BY DEF LedgerMatchesBalance, LedgerTotal, RequestInv, WalletRowIsMine, MovesMoney,
     Change, TransactionType, CommitMovement, Balances
<1>3. RequestInv'
  <2> SUFFICES ASSUME NEW q \in Requests
               PROVE  /\ (req[q].pc # "idle" => req[q].user \in Users)'
                      /\ WalletRowIsMine(q)'
                      /\ FreshWithdrawal(q)'
                      /\ ClaimIsMine(q)'
    BY DEF RequestInv
  <2>1. (req[q].pc # "idle" => req[q].user \in Users)'
    BY DEF RequestInv, PendingHasOwner
  <2>2. WalletRowIsMine(q)'
    BY DEF RequestInv, WalletRowIsMine, MovesMoney, Change, CommitMovement, Balances
  <2>3. FreshWithdrawal(q)'
    BY DEF RequestInv, FreshWithdrawal, AsksForMoney, MovesMoney, ClaimIsMine, Settles
  <2>4. ClaimIsMine(q)'
    BY DEF RequestInv, ClaimIsMine, Settles, FreshWithdrawal, AsksForMoney
  <2> QED  BY <2>1, <2>2, <2>3, <2>4
<1>4. PendingHasOwner'
  BY DEF PendingHasOwner, RequestInv, ClaimIsMine, Settles, MovesMoney
<1> QED  BY <1>1, <1>2, <1>3, <1>4

LEMMA MarkTransactionsKeepsInv ==
    ASSUME WalletInv, NEW r \in Requests, MarkTransactions(r)
    PROVE  WalletInv'
<1> USE WalletAssumption DEF WalletInv, WalletTypeOK
<1>1. WalletTypeOK'
  <2>1. req' \in [Requests -> Request]
    BY MarkIsRequest DEF MarkTransactions, WalletPc
  <2> QED  BY <2>1 DEF MarkTransactions, RequestInv, WalletRowIsMine, MovesMoney,
              TransactionType, PendingHasOwner
<1> USE DEF MarkTransactions, Request, WithdrawalRow, Idle
<1>2. LedgerMatchesBalance'
  BY DEF LedgerMatchesBalance, LedgerTotal, RequestInv, WalletRowIsMine, MovesMoney,
     Change, TransactionType, CommitMovement, Balances
<1>3. RequestInv'
  <2> SUFFICES ASSUME NEW q \in Requests
               PROVE  /\ (req[q].pc # "idle" => req[q].user \in Users)'
                      /\ WalletRowIsMine(q)'
                      /\ FreshWithdrawal(q)'
                      /\ ClaimIsMine(q)'
    BY DEF RequestInv
  <2>1. (req[q].pc # "idle" => req[q].user \in Users)'
    BY DEF RequestInv, PendingHasOwner
  <2>2. WalletRowIsMine(q)'
    BY DEF RequestInv, WalletRowIsMine, MovesMoney, Change, CommitMovement, Balances
  <2>3. FreshWithdrawal(q)'
    BY DEF RequestInv, FreshWithdrawal, AsksForMoney, MovesMoney, ClaimIsMine, Settles
  <2>4. ClaimIsMine(q)'
    BY DEF RequestInv, ClaimIsMine, Settles, FreshWithdrawal, AsksForMoney
  <2> QED  BY <2>1, <2>2, <2>3, <2>4
<1>4. PendingHasOwner'
  BY DEF PendingHasOwner, RequestInv, ClaimIsMine, Settles, MovesMoney
<1> QED  BY <1>1, <1>2, <1>3, <1>4

LEMMA CommitApprovalKeepsInv ==
    ASSUME WalletInv, NEW r \in Requests, CommitApproval(r)
    PROVE  WalletInv'
<1> USE WalletAssumption DEF WalletInv, WalletTypeOK
<1>1. WalletTypeOK'
  <2>1. req' \in [Requests -> Request]
    BY IdleIsRequest DEF CommitApproval
  <2>2. withdrawal' \in [Withdrawals -> WithdrawalRow]
    BY DEF CommitApproval, WithdrawalRow
  <2> QED  BY <2>1, <2>2, UnlockingIsTyped DEF CommitApproval
<1> USE DEF CommitApproval, Request, WithdrawalRow, Idle
<1>2. LedgerMatchesBalance'
  BY DEF LedgerMatchesBalance, LedgerTotal, RequestInv, WalletRowIsMine, MovesMoney,
     Change, TransactionType, CommitMovement, Balances
<1>3. RequestInv'
  <2> SUFFICES ASSUME NEW q \in Requests
               PROVE  /\ (req[q].pc # "idle" => req[q].user \in Users)'
                      /\ WalletRowIsMine(q)'
                      /\ FreshWithdrawal(q)'
                      /\ ClaimIsMine(q)'
    BY DEF RequestInv
  <2>1. (req[q].pc # "idle" => req[q].user \in Users)'
    BY DEF RequestInv, PendingHasOwner
  <2>2. WalletRowIsMine(q)'
    BY DEF RequestInv, WalletRowIsMine, MovesMoney, Change, CommitMovement, Balances
  <2>3. FreshWithdrawal(q)'
    BY DEF RequestInv, FreshWithdrawal, AsksForMoney, MovesMoney, ClaimIsMine, Settles
  <2>4. ClaimIsMine(q)'
    BY DEF RequestInv, ClaimIsMine, Settles, FreshWithdrawal, AsksForMoney
  <2> QED  BY <2>1, <2>2, <2>3, <2>4
<1>4. PendingHasOwner'
  BY DEF PendingHasOwner, RequestInv, ClaimIsMine, Settles, MovesMoney
<1> QED  BY <1>1, <1>2, <1>3, <1>4

LEMMA IncrementForRefundKeepsInv ==
    ASSUME WalletInv, NEW r \in Requests, IncrementForRefund(r)
    PROVE  WalletInv'
<1> USE WalletAssumption DEF WalletInv, WalletTypeOK
<1>1. WalletTypeOK'
  <2>1. req' \in [Requests -> Request]
    BY UpdateIsRequest DEF IncrementForRefund, WalletPc
  <2> QED  BY <2>1 DEF IncrementForRefund, RequestInv, WalletRowIsMine, MovesMoney,
              TransactionType, PendingHasOwner
<1> USE DEF IncrementForRefund, Request, WithdrawalRow, Idle
<1>2. LedgerMatchesBalance'
  BY DEF LedgerMatchesBalance, LedgerTotal, RequestInv, WalletRowIsMine, MovesMoney,
     Change, TransactionType, CommitMovement, Balances
<1>3. RequestInv'
  <2> SUFFICES ASSUME NEW q \in Requests
               PROVE  /\ (req[q].pc # "idle" => req[q].user \in Users)'
                      /\ WalletRowIsMine(q)'
                      /\ FreshWithdrawal(q)'
                      /\ ClaimIsMine(q)'
    BY DEF RequestInv
  <2>1. (req[q].pc # "idle" => req[q].user \in Users)'
    BY DEF RequestInv, PendingHasOwner
  <2>2. WalletRowIsMine(q)'
    BY DEF RequestInv, WalletRowIsMine, MovesMoney, Change, CommitMovement, Balances
  <2>3. FreshWithdrawal(q)'
    BY DEF RequestInv, FreshWithdrawal, AsksForMoney, MovesMoney, ClaimIsMine, Settles
  <2>4. ClaimIsMine(q)'
    BY DEF RequestInv, ClaimIsMine, Settles, FreshWithdrawal, AsksForMoney
  <2> QED  BY <2>1, <2>2, <2>3, <2>4
<1>4. PendingHasOwner'
  BY DEF PendingHasOwner, RequestInv, ClaimIsMine, Settles, MovesMoney
<1> QED  BY <1>1, <1>2, <1>3, <1>4

LEMMA CommitRejectionKeepsInv ==
    ASSUME WalletInv, NEW r \in Requests, CommitRejection(r)
    PROVE  WalletInv'
<1> USE WalletAssumption DEF WalletInv, WalletTypeOK
<1>1. WalletTypeOK'
  <2>1. req' \in [Requests -> Request]
    BY IdleIsRequest DEF CommitRejection
  <2>2. /\ balance' \in [Users -> Balances]
        /\ ledger' \in [Users -> [TransactionType -> Int]]
        /\ rowBalance' \in [Users -> Balances]
    <3>1. /\ req[r].user \in Users /\ "REFUND" \in TransactionType
          /\ req[r].amount \in Int /\ req[r].after \in Balances
      BY RequestFields DEF CommitRejection, RequestInv, TransactionType
    <3>2. CommitMovement(req[r].user, "REFUND", req[r].amount, req[r].after, req[r].after)
      BY DEF CommitRejection
    <3> QED  BY <3>1, <3>2, MovementIsTyped
  <2>3. withdrawal' \in [Withdrawals -> WithdrawalRow]
    BY RowChangeIsTyped, RequestFields DEF CommitRejection, RequestInv
  <2>4. walletLock' \in [Users -> Requests \cup {None}]
    BY UnlockingIsTyped DEF CommitRejection
  <2>5. withdrawalLock' \in [Withdrawals -> Requests \cup {None}]
    BY UnlockingIsTyped DEF CommitRejection
  <2> QED  BY <2>1, <2>2, <2>3, <2>4, <2>5 DEF CommitRejection, CommitMovement
<1> USE DEF CommitRejection, Request, WithdrawalRow, Idle
<1>2. LedgerMatchesBalance'
  <2>1. /\ req[r].user \in Users /\ req[r].after = balance[req[r].user] + req[r].amount
    BY DEF RequestInv, WalletRowIsMine, MovesMoney, Change
  <2>2. ASSUME NEW u \in Users PROVE (balance[u] = LedgerTotal(u))'
    BY <2>1 DEF LedgerMatchesBalance, LedgerTotal, TransactionType, CommitMovement, Balances
  <2> QED  BY <2>2 DEF LedgerMatchesBalance
<1>3. RequestInv'
  <2> SUFFICES ASSUME NEW q \in Requests
               PROVE  /\ (req[q].pc # "idle" => req[q].user \in Users)'
                      /\ WalletRowIsMine(q)'
                      /\ FreshWithdrawal(q)'
                      /\ ClaimIsMine(q)'
    BY DEF RequestInv
  <2>1. (req[q].pc # "idle" => req[q].user \in Users)'
    BY DEF RequestInv, PendingHasOwner
  <2>2. WalletRowIsMine(q)'
    BY DEF RequestInv, WalletRowIsMine, MovesMoney, Change, CommitMovement, Balances
  <2>3. FreshWithdrawal(q)'
    BY DEF RequestInv, FreshWithdrawal, AsksForMoney, MovesMoney, ClaimIsMine, Settles
  <2>4. ClaimIsMine(q)'
    BY DEF RequestInv, ClaimIsMine, Settles, FreshWithdrawal, AsksForMoney
  <2> QED  BY <2>1, <2>2, <2>3, <2>4
<1>4. PendingHasOwner'
  BY DEF PendingHasOwner, RequestInv, ClaimIsMine, Settles, MovesMoney
<1> QED  BY <1>1, <1>2, <1>3, <1>4

LEMMA RollbackKeepsInv ==
    ASSUME WalletInv, NEW r \in Requests, Rollback(r)
    PROVE  WalletInv'
<1> USE WalletAssumption DEF WalletInv, WalletTypeOK
<1>1. WalletTypeOK'
  <2>1. req' \in [Requests -> Request]
    BY IdleIsRequest DEF Rollback
  <2> QED  BY <2>1 DEF Rollback, RequestInv, WalletRowIsMine, MovesMoney, TransactionType,
              PendingHasOwner
<1> USE DEF Rollback, Request, WithdrawalRow, Idle
<1>2. LedgerMatchesBalance'
  BY DEF LedgerMatchesBalance, LedgerTotal
<1>3. RequestInv'
  <2> SUFFICES ASSUME NEW q \in Requests
               PROVE  /\ (req[q].pc # "idle" => req[q].user \in Users)'
                      /\ WalletRowIsMine(q)'
                      /\ FreshWithdrawal(q)'
                      /\ ClaimIsMine(q)'
    BY DEF RequestInv
  <2>1. (req[q].pc # "idle" => req[q].user \in Users)'
    BY DEF RequestInv, PendingHasOwner
  <2>2. WalletRowIsMine(q)'
    BY DEF RequestInv, WalletRowIsMine, MovesMoney, Change, CommitMovement, Balances
  <2>3. FreshWithdrawal(q)'
    BY DEF RequestInv, FreshWithdrawal, AsksForMoney, MovesMoney, ClaimIsMine, Settles
  <2>4. ClaimIsMine(q)'
    BY DEF RequestInv, ClaimIsMine, Settles, FreshWithdrawal, AsksForMoney
  <2> QED  BY <2>1, <2>2, <2>3, <2>4
<1>4. PendingHasOwner'
  BY DEF PendingHasOwner, RequestInv, ClaimIsMine, Settles, MovesMoney
<1> QED  BY <1>1, <1>2, <1>3, <1>4

-----------------------------------------------------------------------------
LEMMA WalletInitInv ==
    WalletInit => WalletInv
<1> SUFFICES ASSUME WalletInit
             PROVE  WalletInv
  OBVIOUS
<1> USE WalletAssumption DEF WalletInit
<1>1. Idle \in Request /\ 0 \in Balances
  BY DEF Idle, Request, WalletPc, Balances
<1>2. WalletTypeOK
  BY <1>1 DEF WalletTypeOK, WithdrawalRow
<1>3. LedgerMatchesBalance
  BY DEF LedgerMatchesBalance, LedgerTotal, TransactionType
<1>4. RequestInv /\ PendingHasOwner
  BY DEF RequestInv, PendingHasOwner, Idle, WalletRowIsMine, FreshWithdrawal, ClaimIsMine,
         MovesMoney, AsksForMoney, Settles
<1> QED  BY <1>2, <1>3, <1>4 DEF WalletInv

LEMMA WalletStutterInv ==
    ASSUME WalletInv, UNCHANGED walletVars
    PROVE  WalletInv'
BY DEF walletVars, WalletInv, WalletTypeOK, LedgerMatchesBalance, LedgerTotal, RequestInv,
       PendingHasOwner, WalletRowIsMine, FreshWithdrawal, ClaimIsMine, MovesMoney,
       AsksForMoney, Settles, Change

(* Whatever request takes whatever step, the wallet's invariant is kept.   *)
THEOREM WalletNextInv ==
    ASSUME WalletInv, [WalletNext]_walletVars
    PROVE  WalletInv'
<1>1. ASSUME NEW r \in Requests, Arrive(r)
      PROVE  WalletInv'
  BY <1>1, GetBalanceKeepsInv, TopUpKeepsInv, RequestWithdrawalKeepsInv,
     ClaimWithdrawalKeepsInv DEF Arrive
<1>2. ASSUME NEW r \in Requests, Proceed(r)
      PROVE  WalletInv'
  <2>1. CASE CreateWallet(r)            BY <2>1, CreateWalletKeepsInv
  <2>2. CASE IncrementForTopUp(r)       BY <2>2, IncrementForTopUpKeepsInv
  <2>3. CASE CommitTopUp(r)             BY <2>3, CommitTopUpKeepsInv
  <2>4. CASE DecrementForWithdrawal(r)  BY <2>4, DecrementForWithdrawalKeepsInv
  <2>5. CASE CommitWithdrawal(r)        BY <2>5, CommitWithdrawalKeepsInv
  <2>6. CASE MarkTransactions(r)        BY <2>6, MarkTransactionsKeepsInv
  <2>7. CASE CommitApproval(r)          BY <2>7, CommitApprovalKeepsInv
  <2>8. CASE IncrementForRefund(r)      BY <2>8, IncrementForRefundKeepsInv
  <2>9. CASE CommitRejection(r)         BY <2>9, CommitRejectionKeepsInv
  <2>10. CASE Overflow(r)               BY <2>10, RollbackKeepsInv DEF Overflow
  <2> QED  BY <1>2, <2>1, <2>2, <2>3, <2>4, <2>5, <2>6, <2>7, <2>8, <2>9, <2>10 DEF Proceed
<1>3. ASSUME NEW r \in Requests, Abort(r)
      PROVE  WalletInv'
  BY <1>3, RollbackKeepsInv DEF Abort
<1>4. CASE UNCHANGED walletVars
  BY <1>4, WalletStutterInv
<1> QED  BY <1>1, <1>2, <1>3, <1>4 DEF WalletNext

(* The inductive invariant holds in every reachable state.                 *)
THEOREM WalletInvariant == WalletSpec => []WalletInv
<1>1. WalletInv /\ [WalletNext]_walletVars => WalletInv'
  BY WalletNextInv
<1> QED  BY <1>1, WalletInitInv, PTL DEF WalletSpec

(* Every variable keeps its type; in particular no balance leaves what its *)
(* column holds (schema.prisma:290).                                       *)
THEOREM WalletTypeCorrect == WalletSpec => []WalletTypeOK
<1>1. WalletInv => WalletTypeOK
  BY DEF WalletInv
<1> QED  BY <1>1, WalletInvariant, PTL

(* The balance is the sum of the ledger rows, for any number of users,     *)
(* concurrent requests and withdrawals (wallet.service.ts:36-57, :66-104,  *)
(* :143-197).                                                              *)
THEOREM LedgerCorrect == WalletSpec => []LedgerMatchesBalance
<1>1. WalletInv => LedgerMatchesBalance
  BY DEF WalletInv
<1> QED  BY <1>1, WalletInvariant, PTL

(* What a step of the wallet may do to a settled withdrawal: nothing.      *)
LEMMA SettledStep ==
    ASSUME WalletInv, [WalletNext]_walletVars, NEW w \in Withdrawals,
           withdrawal[w].status \in {"APPROVED", "REJECTED"}
    PROVE  /\ withdrawal'[w].status = withdrawal[w].status
           /\ withdrawal'[w].user = withdrawal[w].user
           /\ withdrawal'[w].amount = withdrawal[w].amount
<1> USE DEF WalletInv, WalletTypeOK, RequestInv
<1>1. ASSUME NEW r \in Requests, CommitWithdrawal(r)
      PROVE  withdrawal'[w] = withdrawal[w]
  BY <1>1 DEF CommitWithdrawal, FreshWithdrawal, AsksForMoney
<1>2. ASSUME NEW r \in Requests, CommitApproval(r)
      PROVE  /\ withdrawal'[w].status = withdrawal[w].status
             /\ withdrawal'[w].user = withdrawal[w].user
             /\ withdrawal'[w].amount = withdrawal[w].amount
  BY <1>2 DEF CommitApproval, ClaimIsMine, Settles
<1>3. ASSUME NEW r \in Requests, CommitRejection(r)
      PROVE  withdrawal'[w] = withdrawal[w]
  BY <1>3 DEF CommitRejection, ClaimIsMine, Settles
<1>4. \/ withdrawal' = withdrawal
      \/ \E r \in Requests : CommitWithdrawal(r) \/ CommitApproval(r) \/ CommitRejection(r)
  BY DEF walletVars, WalletNext, Arrive, Proceed, Abort, Rollback, Overflow, GetBalance,
         TopUp, RequestWithdrawal, ClaimWithdrawal, CreateWallet, IncrementForTopUp,
         CommitTopUp, DecrementForWithdrawal, MarkTransactions, IncrementForRefund
<1> QED  BY <1>1, <1>2, <1>3, <1>4

(* A withdrawal is settled once, however many admins work on it and        *)
(* however often (wallet.service.ts:144-157).                              *)
THEOREM WithdrawalsSettledForGood == WalletSpec => SettledForGood
<1>1. WalletInv /\ [WalletNext]_walletVars =>
        [\A w \in Withdrawals : withdrawal[w].status \in {"APPROVED", "REJECTED"} =>
            /\ withdrawal'[w].status = withdrawal[w].status
            /\ withdrawal'[w].user = withdrawal[w].user
            /\ withdrawal'[w].amount = withdrawal[w].amount]_walletVars
  BY SettledStep
<1> QED  BY <1>1, WalletInvariant, PTL DEF WalletSpec, SettledForGood

(* What a step of the wallet may do to the refunds of a user.              *)
LEMMA RefundStep ==
    ASSUME WalletInv, [WalletNext]_walletVars, NEW u \in Users,
           ledger'[u]["REFUND"] # ledger[u]["REFUND"]
    PROVE  \E w \in Withdrawals :
              /\ withdrawal[w].status = "PENDING" /\ withdrawal'[w].status = "REJECTED"
              /\ withdrawal[w].user = u
              /\ ledger'[u]["REFUND"] = ledger[u]["REFUND"] + withdrawal[w].amount
<1> USE DEF WalletInv, WalletTypeOK, RequestInv, TransactionType, CommitMovement
<1>1. ASSUME NEW r \in Requests, CommitTopUp(r) \/ CommitWithdrawal(r)
      PROVE  FALSE
  BY <1>1 DEF CommitTopUp, CommitWithdrawal
<1>2. ASSUME NEW r \in Requests, CommitRejection(r)
      PROVE  \E w \in Withdrawals :
              /\ withdrawal[w].status = "PENDING" /\ withdrawal'[w].status = "REJECTED"
              /\ withdrawal[w].user = u
              /\ ledger'[u]["REFUND"] = ledger[u]["REFUND"] + withdrawal[w].amount
  <2>1. /\ req[r].withdrawal \in Withdrawals
        /\ withdrawal[req[r].withdrawal].status = "PENDING"
        /\ withdrawal[req[r].withdrawal].user = req[r].user
        /\ withdrawal[req[r].withdrawal].amount = req[r].amount
    BY <1>2 DEF CommitRejection, ClaimIsMine, Settles
  <2>2. withdrawal'[req[r].withdrawal].status = "REJECTED"
    BY <1>2, <2>1 DEF CommitRejection, WithdrawalRow
  <2>3. u = req[r].user /\ ledger'[u]["REFUND"] = ledger[u]["REFUND"] + req[r].amount
    BY <1>2 DEF CommitRejection
  <2> QED  BY <2>1, <2>2, <2>3
<1>3. \/ ledger' = ledger
      \/ \E r \in Requests : CommitTopUp(r) \/ CommitWithdrawal(r) \/ CommitRejection(r)
  BY DEF walletVars, WalletNext, Arrive, Proceed, Abort, Rollback, Overflow, GetBalance,
         TopUp, RequestWithdrawal, ClaimWithdrawal, CreateWallet, IncrementForTopUp,
         CommitApproval, DecrementForWithdrawal, MarkTransactions, IncrementForRefund
<1> QED  BY <1>1, <1>2, <1>3

(* Money is refunded by the rejection of a withdrawal and by nothing else, *)
(* once and in full (wallet.service.ts:177-196).                           *)
THEOREM RefundsComeFromRejections == WalletSpec => RefundOnlyByRejection
<1>1. WalletInv /\ [WalletNext]_walletVars =>
        [\A u \in Users : ledger'[u]["REFUND"] # ledger[u]["REFUND"] =>
           \E w \in Withdrawals :
              /\ withdrawal[w].status = "PENDING" /\ withdrawal'[w].status = "REJECTED"
              /\ withdrawal[w].user = u
              /\ ledger'[u]["REFUND"] = ledger[u]["REFUND"] + withdrawal[w].amount]_walletVars
  BY RefundStep
<1> QED  BY <1>1, WalletInvariant, PTL DEF WalletSpec, RefundOnlyByRejection

(* What a step does to the marks of approvals and to what they completed.  *)
LEMMA ApprovalStep ==
    ASSUME WalletInv, ApprovalInv, [WalletNext]_walletVars
    PROVE  ApprovalInv'
<1> USE DEF WalletInv, WalletTypeOK, RequestInv, Request, WithdrawalRow
<1>1. ASSUME NEW r \in Requests, CommitWithdrawal(r)
      PROVE  ApprovalInv'
  <2> DEFINE w == req[r].withdrawal
  <2>1. /\ w \in Withdrawals /\ withdrawal[w] = NoWithdrawal
        /\ withdrawal' = [withdrawal EXCEPT ![w] =
                            [status |-> "PENDING", user |-> req[r].user,
                             amount |-> req[r].amount, txn |-> "PENDING"]]
        /\ req' = [req EXCEPT ![r] = Idle]
    BY <1>1 DEF CommitWithdrawal, FreshWithdrawal, AsksForMoney
  <2>2. CompletedByApproval' /\ PendingHasTransaction'
    BY <2>1 DEF ApprovalInv, CompletedByApproval, PendingHasTransaction, OfUser
  <2>3. ASSUME NEW q \in Requests
        PROVE  MarksAreMine(q)'
    <3>1. CASE q = r
      BY <2>1, <3>1 DEF MarksAreMine, Idle
    <3>2. CASE q # r
      BY <2>1, <3>2 DEF ApprovalInv, MarksAreMine, ClaimIsMine, Settles
    <3> QED  BY <3>1, <3>2
  <2> QED  BY <2>2, <2>3 DEF ApprovalInv
<1>2. ASSUME NEW r \in Requests, CommitApproval(r)
      PROVE  ApprovalInv'
  <2> DEFINE w == req[r].withdrawal
  <2>1. /\ w \in Withdrawals /\ withdrawal[w].user = req[r].user
        /\ \A x \in req[r].settles : withdrawal[x].user = req[r].user
        /\ w \in req[r].settles \/ withdrawal[w].txn = "COMPLETED"
        /\ req[r].settles \in SUBSET Withdrawals
    BY <1>2 DEF CommitApproval, ClaimIsMine, Settles, ApprovalInv, MarksAreMine
  <2>2. /\ \A x \in Withdrawals :
             /\ withdrawal'[x].user = withdrawal[x].user
             /\ withdrawal'[x].status = IF x = w THEN "APPROVED" ELSE withdrawal[x].status
             /\ withdrawal'[x].txn = IF x \in req[r].settles THEN "COMPLETED" ELSE withdrawal[x].txn
        /\ req' = [req EXCEPT ![r] = Idle]
    BY <1>2 DEF CommitApproval
  <2>3. CompletedByApproval' /\ PendingHasTransaction'
    <3> SUFFICES ASSUME NEW x \in Withdrawals
                 PROVE  /\ withdrawal'[x].status = "PENDING" => withdrawal'[x].txn # "NONE"
                        /\ withdrawal'[x].status = "APPROVED" => withdrawal'[x].txn = "COMPLETED"
                        /\ withdrawal'[x].txn = "COMPLETED" =>
                             \E v \in Withdrawals : /\ withdrawal'[v].user = withdrawal'[x].user
                                                   /\ withdrawal'[v].status = "APPROVED"
      BY DEF CompletedByApproval, PendingHasTransaction, OfUser
    <3>1. /\ withdrawal[x].status = "PENDING" => withdrawal[x].txn # "NONE"
          /\ withdrawal[x].status = "APPROVED" => withdrawal[x].txn = "COMPLETED"
          /\ withdrawal[x].txn = "COMPLETED" =>
               \E v \in Withdrawals : /\ withdrawal[v].user = withdrawal[x].user
                                     /\ withdrawal[v].status = "APPROVED"
      BY DEF ApprovalInv, CompletedByApproval, PendingHasTransaction, OfUser
    <3>2. CASE x \in req[r].settles
      BY <2>1, <2>2, <3>2
    <3>3. CASE x \notin req[r].settles
      BY <2>1, <2>2, <3>1, <3>3
    <3> QED  BY <3>2, <3>3
  <2>4. ASSUME NEW q \in Requests
        PROVE  MarksAreMine(q)'
    <3>1. CASE q = r
      BY <2>2, <3>1 DEF MarksAreMine, Idle
    <3>2. CASE q # r
      BY <2>2, <3>2 DEF ApprovalInv, MarksAreMine, ClaimIsMine, Settles
    <3> QED  BY <3>1, <3>2
  <2> QED  BY <2>3, <2>4 DEF ApprovalInv
<1>3. ASSUME NEW r \in Requests, CommitRejection(r)
      PROVE  ApprovalInv'
  <2> DEFINE w == req[r].withdrawal
  <2>1. /\ w \in Withdrawals /\ withdrawal[w].status = "PENDING"
        /\ withdrawal' = [withdrawal EXCEPT ![w].status = "REJECTED"]
        /\ req' = [req EXCEPT ![r] = Idle]
    BY <1>3 DEF CommitRejection, ClaimIsMine, Settles
  <2>2. CompletedByApproval' /\ PendingHasTransaction'
    BY <2>1 DEF ApprovalInv, CompletedByApproval, PendingHasTransaction, OfUser
  <2>3. ASSUME NEW q \in Requests
        PROVE  MarksAreMine(q)'
    <3>1. CASE q = r
      BY <2>1, <3>1 DEF MarksAreMine, Idle
    <3>2. CASE q # r
      BY <2>1, <3>2 DEF ApprovalInv, MarksAreMine, ClaimIsMine, Settles
    <3> QED  BY <3>1, <3>2
  <2> QED  BY <2>2, <2>3 DEF ApprovalInv
<1>4. ASSUME NEW r \in Requests, MarkTransactions(r)
      PROVE  ApprovalInv'
  <2>1. /\ withdrawal' = withdrawal
        /\ \A q \in Requests \ {r} : req'[q] = req[q]
        /\ req'[r].withdrawal = req[r].withdrawal /\ req'[r].user = req[r].user
        /\ req'[r].settles = {w \in Withdrawals : /\ withdrawal[w].user = req[r].user
                                                  /\ withdrawal[w].txn = "PENDING"}
    BY <1>4 DEF MarkTransactions
  <2>2. /\ req[r].withdrawal \in Withdrawals
        /\ withdrawal[req[r].withdrawal].user = req[r].user
        /\ withdrawal[req[r].withdrawal].status = "PENDING"
    BY <1>4 DEF MarkTransactions, ClaimIsMine, Settles
  <2>3. MarksAreMine(r)'
    BY <2>1, <2>2 DEF MarksAreMine, ApprovalInv, PendingHasTransaction
  <2>4. ASSUME NEW q \in Requests \ {r}
        PROVE  MarksAreMine(q)'
    BY <2>1 DEF MarksAreMine, ApprovalInv
  <2> QED  BY <2>1, <2>3, <2>4 DEF ApprovalInv, CompletedByApproval, PendingHasTransaction, OfUser
<1>5. ASSUME withdrawal' = withdrawal,
             \A q \in Requests : req'[q].pc = "approveCommit" => req'[q] = req[q]
      PROVE  ApprovalInv'
  BY <1>5 DEF ApprovalInv, CompletedByApproval, PendingHasTransaction, MarksAreMine, OfUser
<1>6. ASSUME NEW r \in Requests,
             Arrive(r) \/ CreateWallet(r) \/ IncrementForTopUp(r) \/ CommitTopUp(r)
             \/ DecrementForWithdrawal(r) \/ IncrementForRefund(r) \/ Overflow(r) \/ Abort(r)
      PROVE  /\ withdrawal' = withdrawal
             /\ \A q \in Requests : req'[q].pc = "approveCommit" => req'[q] = req[q]
  BY <1>6 DEF Arrive, GetBalance, TopUp, RequestWithdrawal, ClaimWithdrawal, CreateWallet,
     IncrementForTopUp, CommitTopUp, DecrementForWithdrawal, IncrementForRefund, Overflow,
     Abort, Rollback, Idle
<1>7. CASE UNCHANGED walletVars
  BY <1>5, <1>7 DEF walletVars
<1> QED  BY <1>1, <1>2, <1>3, <1>4, <1>5, <1>6, <1>7 DEF WalletNext, Proceed

(* The rows of withdrawals are completed by an approval of their own       *)
(* user's, for any number of withdrawals and approvals at once             *)
(* (wallet.service.ts:168-176).                                            *)
THEOREM ApprovalsComplete == WalletSpec => []CompletedByApproval
<1>1. WalletInit => ApprovalInv
  BY DEF WalletInit, ApprovalInv, CompletedByApproval, PendingHasTransaction, MarksAreMine, Idle
<1>2. WalletInv /\ ApprovalInv /\ [WalletNext]_walletVars => ApprovalInv'
  BY ApprovalStep
<1>3. ApprovalInv => CompletedByApproval
  BY DEF ApprovalInv
<1> QED  BY <1>1, <1>2, <1>3, WalletInvariant, PTL DEF WalletSpec

-----------------------------------------------------------------------------
(* The sum of what was withdrawn.                                          *)

LEMMA OutstandingAreFinite ==
    ASSUME AccountsInv, NEW u
    PROVE  /\ IsFiniteSet(OfUser(u, {"PENDING", "APPROVED"}))
           /\ OfUser(u, {"PENDING", "APPROVED"}) \subseteq Withdrawals
<1>1. OfUser(u, {"PENDING", "APPROVED"}) \subseteq {w \in Withdrawals : withdrawal[w].status # "NONE"}
  BY DEF OfUser
<1> QED  BY <1>1, FS_Subset DEF AccountsInv, OfUser

(* A step that changes neither what is outstanding nor the ledger's rows   *)
(* of withdrawals and refunds of user u.                                   *)
LEMMA AccountKept ==
    ASSUME AccountsInv, NEW u \in Users,
           ledger'[u]["WITHDRAWAL"] = ledger[u]["WITHDRAWAL"],
           ledger'[u]["REFUND"] = ledger[u]["REFUND"],
           OfUser(u, {"PENDING", "APPROVED"})' = OfUser(u, {"PENDING", "APPROVED"}),
           \A w \in OfUser(u, {"PENDING", "APPROVED"}) : withdrawal'[w].amount = withdrawal[w].amount
    PROVE  -(ledger'[u]["WITHDRAWAL"] + ledger'[u]["REFUND"])
              = SumFunctionOnSet([w \in Withdrawals |-> withdrawal'[w].amount],
                                 OfUser(u, {"PENDING", "APPROVED"})')
<1> PICK S : S = OfUser(u, {"PENDING", "APPROVED"})
  OBVIOUS
<1>1. IsFiniteSet(S) /\ S \subseteq Withdrawals
  BY OutstandingAreFinite
<1> PICK f, g : /\ f = [w \in Withdrawals |-> withdrawal[w].amount]
                /\ g = [w \in Withdrawals |-> withdrawal'[w].amount]
  OBVIOUS
<1>2. \A w \in S : f[w] = g[w]
  BY <1>1
<1>3. SumFunctionOnSet(f, S) = SumFunctionOnSet(g, S)
  BY <1>1, <1>2, SumOfSame
<1>4. -(ledger[u]["WITHDRAWAL"] + ledger[u]["REFUND"]) = SumFunctionOnSet(f, S)
  BY DEF AccountsInv, WithdrawnMoneyAccounted
<1> QED  BY <1>3, <1>4

LEMMA WithdrawalIsAccounted ==
    ASSUME WalletInv, AccountsInv, NEW r \in Requests, CommitWithdrawal(r)
    PROVE  AccountsInv'
<1> PICK w, owner, amount : /\ w = req[r].withdrawal
                            /\ owner = req[r].user
                            /\ amount = req[r].amount
  OBVIOUS
<1>1. /\ w \in Withdrawals /\ withdrawal[w] = NoWithdrawal
      /\ owner \in Users /\ amount \in Nat
  BY RequestFields DEF CommitWithdrawal, WalletInv, RequestInv, FreshWithdrawal, AsksForMoney
<1>2. withdrawal' = [withdrawal EXCEPT ![w] = [status |-> "PENDING", user |-> owner,
                                               amount |-> amount, txn |-> "PENDING"]]
  BY DEF CommitWithdrawal
<1>3. \A u \in Users :
         /\ ledger'[u]["REFUND"] = ledger[u]["REFUND"]
         /\ ledger'[u]["WITHDRAWAL"] =
               IF u = owner THEN ledger[u]["WITHDRAWAL"] - amount ELSE ledger[u]["WITHDRAWAL"]
         /\ ledger[u]["REFUND"] \in Int /\ ledger[u]["WITHDRAWAL"] \in Int
  BY <1>1 DEF CommitWithdrawal, CommitMovement, WalletInv, WalletTypeOK, TransactionType
<1>4. \A u \in Users : OfUser(u, {"PENDING", "APPROVED"})' =
         OfUser(u, {"PENDING", "APPROVED"}) \cup (IF u = owner THEN {w} ELSE {})
  BY <1>1, <1>2 DEF OfUser, WalletInv, WalletTypeOK
<1>5. w \notin OfUser(owner, {"PENDING", "APPROVED"})
  BY <1>1 DEF OfUser
<1>6. /\ withdrawal'[w].amount = amount
      /\ \A x \in Withdrawals \ {w} : withdrawal'[x] = withdrawal[x]
  BY <1>1, <1>2 DEF WalletInv, WalletTypeOK
<1>7. ASSUME NEW u \in Users
      PROVE  -(ledger'[u]["WITHDRAWAL"] + ledger'[u]["REFUND"])
                = SumFunctionOnSet([x \in Withdrawals |-> withdrawal'[x].amount],
                                   OfUser(u, {"PENDING", "APPROVED"})')
  <2>1. CASE u # owner
    <3>1. OfUser(u, {"PENDING", "APPROVED"})' = OfUser(u, {"PENDING", "APPROVED"})
      BY <1>4, <2>1
    <3>2. \A x \in OfUser(u, {"PENDING", "APPROVED"}) : withdrawal'[x].amount = withdrawal[x].amount
      BY <1>1, <1>6 DEF OfUser
    <3>3. ledger'[u]["WITHDRAWAL"] = ledger[u]["WITHDRAWAL"] /\ ledger'[u]["REFUND"] = ledger[u]["REFUND"]
      BY <1>3, <2>1
    <3> QED  BY <3>1, <3>2, <3>3, AccountKept
  <2>2. CASE u = owner
    <3> PICK S : S = OfUser(u, {"PENDING", "APPROVED"})
      OBVIOUS
    <3>1. IsFiniteSet(S) /\ S \subseteq Withdrawals /\ w \notin S
      BY <1>5, <2>2, OutstandingAreFinite
    <3> PICK f, g : /\ f = [x \in Withdrawals |-> withdrawal[x].amount]
                    /\ g = [x \in Withdrawals |-> withdrawal'[x].amount]
      OBVIOUS
    <3>2. \A x \in S : f[x] = g[x] /\ f[x] \in Int
      BY <1>6, <3>1 DEF WalletInv, WalletTypeOK, WithdrawalRow
    <3>3. g[w] = amount
      BY <1>1, <1>6
    <3>4. SumFunctionOnSet(f, S) = SumFunctionOnSet(g, S) /\ SumFunctionOnSet(f, S) \in Int
      BY <3>1, <3>2, SumOfSame, SumIsInt
    <3>5. SumFunctionOnSet(g, S \cup {w}) = g[w] + SumFunctionOnSet(g, S)
      <4>1. \A x \in S \cup {w} : g[x] \in Int
        <5>1. g[w] \in Int
          BY <1>1, <3>3
        <5>2. \A x \in S : g[x] \in Int
          BY <3>2
        <5> QED  BY <5>1, <5>2
      <4> QED  BY <3>1, <4>1, SumOfMore
    <3>6. -(ledger[u]["WITHDRAWAL"] + ledger[u]["REFUND"]) = SumFunctionOnSet(f, S)
      BY DEF AccountsInv, WithdrawnMoneyAccounted
    <3>7. -(ledger'[u]["WITHDRAWAL"] + ledger'[u]["REFUND"]) = SumFunctionOnSet(g, S \cup {w})
      <4> PICK sum \in Int : sum = SumFunctionOnSet(g, S)
        BY <3>4
      <4>1. SumFunctionOnSet(g, S \cup {w}) = amount + sum
        BY <3>3, <3>5
      <4>2. -(ledger[u]["WITHDRAWAL"] + ledger[u]["REFUND"]) = sum
        BY <3>4, <3>6
      <4> QED  BY <1>1, <1>3, <2>2, <4>1, <4>2
    <3> QED  BY <1>4, <2>2, <3>7
  <2> QED  BY <2>1, <2>2
<1>8. IsFiniteSet({x \in Withdrawals : withdrawal'[x].status # "NONE"})
  <2>1. {x \in Withdrawals : withdrawal'[x].status # "NONE"}
           \subseteq {x \in Withdrawals : withdrawal[x].status # "NONE"} \cup {w}
    BY <1>6
  <2>2. IsFiniteSet({x \in Withdrawals : withdrawal[x].status # "NONE"} \cup {w})
    BY FS_AddElement DEF AccountsInv
  <2> QED  BY <2>1, <2>2, FS_Subset
<1> QED  BY <1>7, <1>8 DEF AccountsInv, WithdrawnMoneyAccounted

LEMMA RejectionIsAccounted ==
    ASSUME WalletInv, AccountsInv, NEW r \in Requests, CommitRejection(r)
    PROVE  AccountsInv'
<1> PICK w, owner, amount : /\ w = req[r].withdrawal
                            /\ owner = req[r].user
                            /\ amount = req[r].amount
  OBVIOUS
<1>1. /\ w \in Withdrawals /\ withdrawal[w].status = "PENDING"
      /\ withdrawal[w].user = owner /\ withdrawal[w].amount = amount
      /\ owner \in Users /\ amount \in Nat
  BY RequestFields DEF CommitRejection, WalletInv, RequestInv, ClaimIsMine, Settles
<1>2. withdrawal' = [withdrawal EXCEPT ![w].status = "REJECTED"]
  BY DEF CommitRejection
<1>3. \A u \in Users :
         /\ ledger'[u]["WITHDRAWAL"] = ledger[u]["WITHDRAWAL"]
         /\ ledger'[u]["REFUND"] =
               IF u = owner THEN ledger[u]["REFUND"] + amount ELSE ledger[u]["REFUND"]
         /\ ledger[u]["REFUND"] \in Int /\ ledger[u]["WITHDRAWAL"] \in Int
  BY <1>1 DEF CommitRejection, CommitMovement, WalletInv, WalletTypeOK, TransactionType
<1>4. /\ withdrawal'[w].status = "REJECTED"
      /\ \A x \in Withdrawals : /\ withdrawal'[x].user = withdrawal[x].user
                                /\ withdrawal'[x].amount = withdrawal[x].amount
                                /\ x # w => withdrawal'[x].status = withdrawal[x].status
  BY <1>1, <1>2 DEF WalletInv, WalletTypeOK, WithdrawalRow
<1>5. \A u \in Users : OfUser(u, {"PENDING", "APPROVED"})' =
         OfUser(u, {"PENDING", "APPROVED"}) \ (IF u = owner THEN {w} ELSE {})
  BY <1>1, <1>4 DEF OfUser
<1>6. w \in OfUser(owner, {"PENDING", "APPROVED"})
  BY <1>1 DEF OfUser
<1>7. ASSUME NEW u \in Users
      PROVE  -(ledger'[u]["WITHDRAWAL"] + ledger'[u]["REFUND"])
                = SumFunctionOnSet([x \in Withdrawals |-> withdrawal'[x].amount],
                                   OfUser(u, {"PENDING", "APPROVED"})')
  <2>1. CASE u # owner
    <3>1. OfUser(u, {"PENDING", "APPROVED"})' = OfUser(u, {"PENDING", "APPROVED"})
      BY <1>5, <2>1
    <3>2. \A x \in OfUser(u, {"PENDING", "APPROVED"}) : withdrawal'[x].amount = withdrawal[x].amount
      BY <1>4 DEF OfUser
    <3>3. ledger'[u]["WITHDRAWAL"] = ledger[u]["WITHDRAWAL"] /\ ledger'[u]["REFUND"] = ledger[u]["REFUND"]
      BY <1>3, <2>1
    <3> QED  BY <3>1, <3>2, <3>3, AccountKept
  <2>2. CASE u = owner
    <3> PICK S : S = OfUser(u, {"PENDING", "APPROVED"})
      OBVIOUS
    <3>1. IsFiniteSet(S) /\ S \subseteq Withdrawals /\ w \in S
      BY <1>6, <2>2, OutstandingAreFinite
    <3> PICK f : f = [x \in Withdrawals |-> withdrawal[x].amount]
      OBVIOUS
    <3>2. [x \in Withdrawals |-> withdrawal'[x].amount] = f
      BY <1>4
    <3>3. \A x \in Withdrawals : f[x] \in Int
      BY DEF WalletInv, WalletTypeOK, WithdrawalRow
    <3>4. f[w] = amount
      BY <1>1
    <3>5. SumFunctionOnSet(f, S) = f[w] + SumFunctionOnSet(f, S \ {w})
      BY <3>1, <3>3, SumTakesAny
    <3>6. IsFiniteSet(S \ {w})
      BY <3>1, FS_RemoveElement
    <3>7. PICK rest \in Int : rest = SumFunctionOnSet(f, S \ {w})
      BY <3>1, <3>3, <3>6, SumIsInt
    <3>8. -(ledger[u]["WITHDRAWAL"] + ledger[u]["REFUND"]) = amount + rest
      BY <3>4, <3>5, <3>7 DEF AccountsInv, WithdrawnMoneyAccounted
    <3>9. -(ledger'[u]["WITHDRAWAL"] + ledger'[u]["REFUND"]) = rest
      <4> PICK a \in Int, b \in Int : a = ledger[u]["WITHDRAWAL"] /\ b = ledger[u]["REFUND"]
        BY <1>3
      <4>1. ledger'[u]["WITHDRAWAL"] = a /\ ledger'[u]["REFUND"] = b + amount
        BY <1>3, <2>2
      <4>2. -(a + b) = amount + rest
        BY <3>8
      <4>3. -(a + (b + amount)) = rest
        BY <1>1, <4>2
      <4> QED  BY <4>1, <4>3
    <3> QED  BY <1>5, <2>2, <3>2, <3>7, <3>9
  <2> QED  BY <2>1, <2>2
<1>8. {x \in Withdrawals : withdrawal'[x].status # "NONE"}
         = {x \in Withdrawals : withdrawal[x].status # "NONE"}
  BY <1>1, <1>4
<1> QED  BY <1>7, <1>8 DEF AccountsInv, WithdrawnMoneyAccounted

(* A step that moves no money by withdrawals and settles none but by an    *)
(* approval.                                                               *)
LEMMA AccountsKept ==
    ASSUME AccountsInv,
           \A u \in Users : /\ ledger'[u]["WITHDRAWAL"] = ledger[u]["WITHDRAWAL"]
                            /\ ledger'[u]["REFUND"] = ledger[u]["REFUND"],
           \A w \in Withdrawals :
              /\ withdrawal'[w].user = withdrawal[w].user
              /\ withdrawal'[w].amount = withdrawal[w].amount
              /\ \/ withdrawal'[w].status = withdrawal[w].status
                 \/ withdrawal[w].status = "PENDING" /\ withdrawal'[w].status = "APPROVED"
    PROVE  AccountsInv'
<1>1. \A u \in Users : OfUser(u, {"PENDING", "APPROVED"})' = OfUser(u, {"PENDING", "APPROVED"})
  BY DEF OfUser
<1>2. \A u \in Users : \A w \in OfUser(u, {"PENDING", "APPROVED"}) :
         withdrawal'[w].amount = withdrawal[w].amount
  BY DEF OfUser
<1>3. ASSUME NEW u \in Users
      PROVE  -(ledger'[u]["WITHDRAWAL"] + ledger'[u]["REFUND"])
                = SumFunctionOnSet([w \in Withdrawals |-> withdrawal'[w].amount],
                                   OfUser(u, {"PENDING", "APPROVED"})')
  BY <1>1, <1>2, AccountKept
<1>4. {w \in Withdrawals : withdrawal'[w].status # "NONE"}
         = {w \in Withdrawals : withdrawal[w].status # "NONE"}
  OBVIOUS
<1> QED  BY <1>3, <1>4 DEF AccountsInv, WithdrawnMoneyAccounted

(* What a step of the wallet does to the sums.                             *)
LEMMA AccountsStep ==
    ASSUME WalletInv, AccountsInv, [WalletNext]_walletVars
    PROVE  AccountsInv'
<1>2. ASSUME NEW r \in Requests, CommitTopUp(r)
      PROVE  AccountsInv'
  <2>1. \A u \in Users : /\ ledger'[u]["WITHDRAWAL"] = ledger[u]["WITHDRAWAL"]
                         /\ ledger'[u]["REFUND"] = ledger[u]["REFUND"]
    BY <1>2 DEF CommitTopUp, CommitMovement, WalletInv, WalletTypeOK, TransactionType
  <2> QED  BY <1>2, <2>1, AccountsKept DEF CommitTopUp
<1>3. ASSUME NEW r \in Requests, CommitApproval(r)
      PROVE  AccountsInv'
  <2>1. withdrawal[req[r].withdrawal].status = "PENDING"
    BY <1>3 DEF CommitApproval, WalletInv, RequestInv, ClaimIsMine, Settles
  <2>2. \A w \in Withdrawals :
           /\ withdrawal'[w].user = withdrawal[w].user
           /\ withdrawal'[w].amount = withdrawal[w].amount
           /\ \/ withdrawal'[w].status = withdrawal[w].status
              \/ withdrawal[w].status = "PENDING" /\ withdrawal'[w].status = "APPROVED"
    BY <1>3, <2>1 DEF CommitApproval
  <2> QED  BY <1>3, <2>2, AccountsKept DEF CommitApproval
<1>4. ASSUME ledger' = ledger, withdrawal' = withdrawal
      PROVE  AccountsInv'
  BY <1>4, AccountsKept
<1>5. \/ ledger' = ledger /\ withdrawal' = withdrawal
      \/ \E r \in Requests : CommitTopUp(r) \/ CommitWithdrawal(r) \/ CommitApproval(r)
                             \/ CommitRejection(r)
  BY DEF walletVars, WalletNext, Arrive, Proceed, Abort, Rollback, Overflow, GetBalance,
         TopUp, RequestWithdrawal, ClaimWithdrawal, CreateWallet, IncrementForTopUp,
         DecrementForWithdrawal, MarkTransactions, IncrementForRefund
<1> QED  BY <1>2, <1>3, <1>4, <1>5, WithdrawalIsAccounted, RejectionIsAccounted

LEMMA AccountsStart ==
    ASSUME \A w \in Withdrawals : withdrawal[w] = NoWithdrawal,
           \A u \in Users : ledger[u]["WITHDRAWAL"] = 0 /\ ledger[u]["REFUND"] = 0
    PROVE  AccountsInv
<1>1. \A u \in Users : OfUser(u, {"PENDING", "APPROVED"}) = {}
  BY DEF OfUser
<1>2. \A f : SumFunctionOnSet(f, {}) = 0
  BY FS_EmptySet, SumEquation
<1>3. \A u \in Users : -(ledger[u]["WITHDRAWAL"] + ledger[u]["REFUND"]) = 0
  <2>1. -0 = 0
    <3>1. \A a \in Int : -a = 0 - a
      OBVIOUS
    <3>2. 0 - 0 = 0 /\ 0 \in Int
      OBVIOUS
    <3> QED  BY <3>1, <3>2, Zenon
  <2>2. \A u \in Users : ledger[u]["WITHDRAWAL"] + ledger[u]["REFUND"] = 0
    OBVIOUS
  <2> QED  BY <2>1, <2>2, Zenon
<1>4. {w \in Withdrawals : withdrawal[w].status # "NONE"} = {}
  OBVIOUS
<1>5. WithdrawnMoneyAccounted
  BY <1>1, <1>2, <1>3 DEF WithdrawnMoneyAccounted
<1> QED  BY <1>4, <1>5, FS_EmptySet DEF AccountsInv

(* Money that left a wallet is that of the withdrawals pending or          *)
(* approved, to the cent: a rejected one was given back once, an approved  *)
(* one never (wallet.service.ts:83-101, :177-196).                         *)
THEOREM WithdrawalsAccounted == WalletSpec => []WithdrawnMoneyAccounted
<1>1. WalletInit => AccountsInv
  BY AccountsStart DEF WalletInit, TransactionType
<1>2. WalletInv /\ AccountsInv /\ [WalletNext]_walletVars => AccountsInv'
  BY AccountsStep
<1>3. AccountsInv => WithdrawnMoneyAccounted
  BY DEF AccountsInv
<1> QED  BY <1>1, <1>2, <1>3, WalletInvariant, PTL DEF WalletSpec

-----------------------------------------------------------------------------
(* The atomic wallet.  A request takes effect in the step of its COMMIT,   *)
(* by which the balance it changes is the one it found at its UPDATE.      *)

Payouts == [w \in Withdrawals |-> [status |-> withdrawal[w].status,
                                   user |-> withdrawal[w].user,
                                   amount |-> withdrawal[w].amount]]

(* What is added to or taken from a wallet are amounts asked for.          *)
LEMMA AmountsStep ==
    ASSUME WalletTypeOK, AmountsAreAsked, [WalletNext]_walletVars
    PROVE  AmountsAreAsked'
<1> USE DEF WalletTypeOK, AmountsAreAsked
<1> SUFFICES ASSUME NEW q \in Requests
             PROVE  /\ req'[q].pc = "create" => req'[q].amount \in Amounts \cup {0}
                    /\ req'[q].pc \in {"topUp", "topUpCommit", "withdraw", "withdrawCommit"} =>
                          req'[q].amount \in Amounts
  OBVIOUS
<1>1. CASE req'[q] = req[q]
  BY <1>1
<1>2. ASSUME NEW r \in Requests, Arrive(r)
      PROVE  req'[q] = req[q] \/
                /\ req'[q].pc \in {"create", "topUp", "withdraw", "approve", "reject"}
                /\ req'[q].pc = "create" => req'[q].amount \in Amounts \cup {0}
                /\ req'[q].pc \in {"topUp", "withdraw"} => req'[q].amount \in Amounts
  BY <1>2 DEF Arrive, GetBalance, TopUp, RequestWithdrawal, ClaimWithdrawal
<1>3. ASSUME NEW r \in Requests, CreateWallet(r)
      PROVE  req'[q] = req[q] \/ req'[q] = Idle \/
                /\ req'[q].pc = "topUp" /\ req'[q].amount = req[q].amount
                /\ req[q].pc = "create" /\ req[q].amount # 0
  BY <1>3 DEF CreateWallet, Request
<1>4. ASSUME NEW r \in Requests, IncrementForTopUp(r) \/ DecrementForWithdrawal(r)
      PROVE  req'[q] = req[q] \/
                /\ req'[q].pc \in {"topUpCommit", "withdrawCommit"}
                /\ req[q].pc \in {"topUp", "withdraw"} /\ req'[q].amount = req[q].amount
  BY <1>4 DEF IncrementForTopUp, DecrementForWithdrawal, Request
<1>5. ASSUME NEW r \in Requests, MarkTransactions(r) \/ IncrementForRefund(r)
      PROVE  req'[q] = req[q] \/ req'[q].pc \in {"approveCommit", "rejectCommit"}
  BY <1>5 DEF MarkTransactions, IncrementForRefund, Request
<1>6. ASSUME NEW r \in Requests, \/ CommitTopUp(r) \/ CommitWithdrawal(r) \/ CommitApproval(r)
                                 \/ CommitRejection(r) \/ Overflow(r) \/ Abort(r)
      PROVE  req'[q] = req[q] \/ req'[q] = Idle
  BY <1>6 DEF CommitTopUp, CommitWithdrawal, CommitApproval, CommitRejection, Overflow, Abort,
     Rollback
<1>7. Idle.pc = "idle"
  BY DEF Idle
<1>8. CASE UNCHANGED walletVars
  BY <1>8 DEF walletVars
<1> QED  BY <1>1, <1>2, <1>3, <1>4, <1>5, <1>6, <1>7, <1>8 DEF WalletNext, Proceed

LEMMA AmountsStart == WalletInit => AmountsAreAsked
BY DEF WalletInit, AmountsAreAsked, Idle

LEMMA MovementIsPost ==
    ASSUME WalletTypeOK, NEW u \in Users, NEW type, NEW change \in Int,
           NEW after \in Balances, after = balance[u] + change,
           CommitMovement(u, type, change, after, after)
    PROVE  Atomic!Post(u, type, change)
<1>1. balance[u] + change \in -MaxBalance .. MaxBalance
  BY DEF Balances
<1>2. balance' = [balance EXCEPT ![u] = @ + change]
  BY DEF CommitMovement
<1>3. balance'[u] = after
  BY DEF CommitMovement, WalletTypeOK
<1>4. rowBalance' = [rowBalance EXCEPT ![u] = balance'[u]]
  BY <1>3 DEF CommitMovement
<1>5. ledger' = [ledger EXCEPT ![u][type] = @ + change]
  BY DEF CommitMovement
<1> QED  BY <1>1, <1>2, <1>4, <1>5 DEF Atomic!Post

LEMMA TopUpIsDeposit ==
    ASSUME WalletInv, AmountsAreAsked, NEW r \in Requests, CommitTopUp(r)
    PROVE  \E u \in Users, amount \in Amounts : Atomic!PayIn(u, amount)
<1> PICK u, amount : u = req[r].user /\ amount = req[r].amount
  OBVIOUS
<1>1. req[r].pc = "topUpCommit"
  BY DEF CommitTopUp
<1>2. u \in Users /\ amount \in Amounts
  BY <1>1 DEF WalletInv, RequestInv, AmountsAreAsked
<1>3. amount \in Int /\ req[r].after \in Balances
  BY RequestFields DEF WalletInv
<1>4. req[r].after = balance[u] + amount
  BY <1>1 DEF WalletInv, RequestInv, WalletRowIsMine, MovesMoney, Change
<1>5. Atomic!Post(u, "DEPOSIT", amount)
  BY <1>2, <1>3, <1>4, MovementIsPost DEF CommitTopUp, WalletInv
<1>6. UNCHANGED Payouts
  BY DEF CommitTopUp, Payouts
<1> QED  BY <1>2, <1>5, <1>6 DEF Atomic!PayIn, Payouts

LEMMA WithdrawalIsWithdraw ==
    ASSUME WalletInv, AmountsAreAsked, NEW r \in Requests, CommitWithdrawal(r)
    PROVE  \E u \in Users, amount \in Amounts, w \in Withdrawals : Atomic!Withdraw(u, amount, w)
<1> PICK u, amount, w : u = req[r].user /\ amount = req[r].amount /\ w = req[r].withdrawal
  OBVIOUS
<1>1. req[r].pc = "withdrawCommit"
  BY DEF CommitWithdrawal
<1>2. u \in Users /\ amount \in Amounts
  BY <1>1 DEF WalletInv, RequestInv, AmountsAreAsked
<1>3. w \in Withdrawals /\ withdrawal[w] = NoWithdrawal
  BY <1>1 DEF WalletInv, RequestInv, FreshWithdrawal, AsksForMoney
<1>4. amount \in Int /\ -amount \in Int /\ req[r].after \in Balances
  BY RequestFields DEF WalletInv
<1>5. req[r].after = balance[u] + (-amount)
  BY <1>1 DEF WalletInv, RequestInv, WalletRowIsMine, MovesMoney, Change
<1>6. Atomic!Post(u, "WITHDRAWAL", -amount)
  BY <1>2, <1>4, <1>5, MovementIsPost DEF CommitWithdrawal, WalletInv
<1>7. Payouts[w] = Atomic!NoPayout
  BY <1>3 DEF Payouts, Atomic!NoPayout
<1>8. Payouts' = [Payouts EXCEPT ![w] = [status |-> "PENDING", user |-> u, amount |-> amount]]
  <2>1. \A x \in Withdrawals :
          withdrawal'[x] = IF x = w THEN [status |-> "PENDING", user |-> u, amount |-> amount,
                                          txn |-> "PENDING"]
                           ELSE withdrawal[x]
    <3>1. withdrawal' = [withdrawal EXCEPT ![w] = [status |-> "PENDING", user |-> u,
                                                   amount |-> amount, txn |-> "PENDING"]]
      BY DEF CommitWithdrawal
    <3>2. withdrawal \in [Withdrawals -> WithdrawalRow]
      BY DEF WalletInv, WalletTypeOK
    <3> QED  BY ONLY <3>1, <3>2
  <2>2. \A x \in Withdrawals :
          /\ withdrawal'[x].status = IF x = w THEN "PENDING" ELSE withdrawal[x].status
          /\ withdrawal'[x].user = IF x = w THEN u ELSE withdrawal[x].user
          /\ withdrawal'[x].amount = IF x = w THEN amount ELSE withdrawal[x].amount
    BY <2>1
  <2>3. Payouts' = [x \in Withdrawals |->
                      IF x = w THEN [status |-> "PENDING", user |-> u, amount |-> amount]
                      ELSE Payouts[x]]
    BY <2>2 DEF Payouts
  <2> QED  BY <1>3, <2>3 DEF Payouts
<1>9. Atomic!Withdraw(u, amount, w)
  BY <1>6, <1>7, <1>8 DEF Atomic!Withdraw, Payouts
<1> QED  BY <1>2, <1>3, <1>9

LEMMA ApprovalIsApprove ==
    ASSUME WalletInv, NEW r \in Requests, CommitApproval(r)
    PROVE  \E w \in Withdrawals : Atomic!Approve(w)
<1> PICK w : w = req[r].withdrawal
  OBVIOUS
<1>1. w \in Withdrawals /\ withdrawal[w].status = "PENDING"
  BY DEF CommitApproval, WalletInv, RequestInv, ClaimIsMine, Settles
<1>2. Payouts[w].status = "PENDING"
  BY <1>1 DEF Payouts
<1>3. Payouts' = [Payouts EXCEPT ![w] = [@ EXCEPT !.status = "APPROVED"]]
  <2>1. \A x \in Withdrawals :
          /\ withdrawal'[x].status = IF x = w THEN "APPROVED" ELSE withdrawal[x].status
          /\ withdrawal'[x].user = withdrawal[x].user
          /\ withdrawal'[x].amount = withdrawal[x].amount
    BY DEF CommitApproval
  <2> QED  BY <1>1, <2>1 DEF Payouts
<1>4. UNCHANGED <<balance, ledger, rowBalance>>
  BY DEF CommitApproval
<1> QED  BY <1>1, <1>2, <1>3, <1>4 DEF Atomic!Approve, Atomic!Settle, Payouts

LEMMA RejectionIsReject ==
    ASSUME WalletInv, NEW r \in Requests, CommitRejection(r)
    PROVE  \E w \in Withdrawals : Atomic!Reject(w)
<1> PICK u, amount, w : u = req[r].user /\ amount = req[r].amount /\ w = req[r].withdrawal
  OBVIOUS
<1>1. req[r].pc = "rejectCommit"
  BY DEF CommitRejection
<1>2. /\ u \in Users /\ w \in Withdrawals /\ withdrawal[w].status = "PENDING"
      /\ withdrawal[w].user = u /\ withdrawal[w].amount = amount
  BY <1>1 DEF WalletInv, RequestInv, ClaimIsMine, Settles
<1>3. amount \in Int /\ req[r].after \in Balances
  BY RequestFields DEF WalletInv
<1>4. req[r].after = balance[u] + amount
  BY <1>1 DEF WalletInv, RequestInv, WalletRowIsMine, MovesMoney, Change
<1>5. Atomic!Post(u, "REFUND", amount)
  BY <1>2, <1>3, <1>4, MovementIsPost DEF CommitRejection, WalletInv
<1>6. Payouts[w].status = "PENDING" /\ Payouts[w].user = u /\ Payouts[w].amount = amount
  BY <1>2 DEF Payouts
<1>7. Payouts' = [Payouts EXCEPT ![w] = [@ EXCEPT !.status = "REJECTED"]]
  <2>1. \A x \in Withdrawals :
          /\ withdrawal'[x].status = IF x = w THEN "REJECTED" ELSE withdrawal[x].status
          /\ withdrawal'[x].user = withdrawal[x].user
          /\ withdrawal'[x].amount = withdrawal[x].amount
    BY DEF CommitRejection, WalletInv, WalletTypeOK, WithdrawalRow
  <2> QED  BY <1>2, <2>1 DEF Payouts
<1>8. Atomic!Settle(w, "REJECTED")
  BY <1>6, <1>7 DEF Atomic!Settle, Payouts
<1>9. Atomic!Reject(w)
  BY <1>5, <1>6, <1>8 DEF Atomic!Reject, Payouts
<1> QED  BY <1>2, <1>9

LEMMA MovementStep ==
    ASSUME WalletInv, AmountsAreAsked, [WalletNext]_walletVars
    PROVE  Atomic!Next \/ UNCHANGED <<balance, ledger, rowBalance, Payouts>>
<1>1. ASSUME NEW r \in Requests, CommitTopUp(r)
      PROVE  Atomic!Next
  BY <1>1, TopUpIsDeposit DEF Atomic!Next
<1>2. ASSUME NEW r \in Requests, CommitWithdrawal(r)
      PROVE  Atomic!Next
  BY <1>2, WithdrawalIsWithdraw DEF Atomic!Next
<1>3. ASSUME NEW r \in Requests, CommitApproval(r)
      PROVE  Atomic!Next
  BY <1>3, ApprovalIsApprove DEF Atomic!Next
<1>4. ASSUME NEW r \in Requests, CommitRejection(r)
      PROVE  Atomic!Next
  BY <1>4, RejectionIsReject DEF Atomic!Next
<1>5. CASE UNCHANGED <<balance, ledger, rowBalance, withdrawal>>
  BY <1>5 DEF Payouts
<1>6. \/ UNCHANGED <<balance, ledger, rowBalance, withdrawal>>
      \/ \E r \in Requests : \/ CommitTopUp(r) \/ CommitWithdrawal(r)
                             \/ CommitApproval(r) \/ CommitRejection(r)
  <2>1. ASSUME NEW r \in Requests, Arrive(r)
        PROVE  UNCHANGED <<balance, ledger, rowBalance, withdrawal>>
    BY <2>1 DEF Arrive, GetBalance, TopUp, RequestWithdrawal, ClaimWithdrawal
  <2>2. ASSUME NEW r \in Requests,
               \/ CreateWallet(r) \/ IncrementForTopUp(r) \/ DecrementForWithdrawal(r)
               \/ MarkTransactions(r) \/ IncrementForRefund(r) \/ Overflow(r) \/ Abort(r)
        PROVE  UNCHANGED <<balance, ledger, rowBalance, withdrawal>>
    BY <2>2 DEF CreateWallet, IncrementForTopUp, DecrementForWithdrawal, MarkTransactions,
       IncrementForRefund, Overflow, Abort, Rollback
  <2>3. CASE UNCHANGED walletVars
    BY <2>3 DEF walletVars
  <2> QED  BY <2>1, <2>2, <2>3 DEF WalletNext, Proceed
<1> QED  BY <1>1, <1>2, <1>3, <1>4, <1>5, <1>6

(* Top-ups, withdrawals, approvals and rejections, however many overlap    *)
(* and wherever they fail, are an atomic wallet: what one of them does to  *)
(* the balance, the ledger and the withdrawal, and what its ledger row     *)
(* shows, happens in one step, which follows the one before                *)
(* (wallet.service.ts:36-57, :66-104, :143-197).                           *)
THEOREM WalletIsAtomic == WalletSpec => MovementsAreAtomic
<1>1. WalletInit => Atomic!Init
  BY DEF WalletInit, Atomic!Init, Atomic!NoPayout
<1>2. WalletInv /\ AmountsAreAsked /\ [WalletNext]_walletVars => [Atomic!Next]_(Atomic!atomicVars)
  BY MovementStep DEF Payouts, Atomic!atomicVars
<1>3. WalletInv /\ AmountsAreAsked /\ [WalletNext]_walletVars => AmountsAreAsked'
  BY AmountsStep DEF WalletInv
<1> QED  BY <1>1, <1>2, <1>3, AmountsStart, WalletInvariant, PTL
         DEF WalletSpec, MovementsAreAtomic, Atomic!Spec
=============================================================================
