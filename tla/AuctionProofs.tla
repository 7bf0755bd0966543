---------------------------- MODULE AuctionProofs ----------------------------
(***************************************************************************)
(* Theorems about auctions.service.ts and the jobs of auctions, for any    *)
(* auctions, users, requests, handlers, amounts and column width.          *)
(*                                                                         *)
(* Part one is about module Bidding.  The inductive invariant BiddingInv   *)
(* joins WalletInv, what a bid in flight may rely on (BidInv) and what the *)
(* table of bids looks like (BookInv).  The wallet's own steps keep        *)
(* WalletInv by WalletNextInv of module WalletProofs, and keep off the     *)
(* rows a bid has locked.                                                  *)
(*                                                                         *)
(* Part two is about module AuctionLifecycle.  The handlers' steps keep    *)
(* BiddingInv, since they write the row of an auction only while no bid    *)
(* has it; the bids' and the wallet's steps keep what the handlers rely    *)
(* on, since what they may do to an auction is little (BidEffects).        *)
(***************************************************************************)
EXTENDS AuctionLifecycle, WalletProofs, FiniteSetTheorems

(***************************************************************************)
(* Part one: bidding.                                                      *)
(***************************************************************************)

-----------------------------------------------------------------------------
(* The top bid of an auction.                                              *)

(* The highest of the bids, and the price that goes with it.               *)
LEMMA TopBidFacts ==
    ASSUME AuctionTypeOK, PriceIsTopBid, NEW a \in Auctions
    PROVE  /\ bids[a] = {} => TopBid(a) = NoTop /\ auction[a].price = StartingPrice
           /\ bids[a] # {} => /\ TopBid(a) \in bids[a]
                              /\ TopBid(a).bidder \in Users
                              /\ TopBid(a).amount = auction[a].price
                              /\ \A c \in bids[a] : c.amount <= TopBid(a).amount
<1>1. CASE bids[a] = {}
  BY <1>1 DEF TopBid, PriceIsTopBid
<1>2. CASE bids[a] # {}
  <2>1. PICK b \in bids[a] : /\ b.amount = auction[a].price
                             /\ \A c \in bids[a] : c.amount <= b.amount
    BY <1>2 DEF PriceIsTopBid
  <2>2. TopBid(a) = Highest(bids[a])
    BY <1>2 DEF TopBid
  <2>3. /\ TopBid(a) \in bids[a]
        /\ \A c \in bids[a] : c.amount <= TopBid(a).amount
    BY <2>1, <2>2 DEF Highest
  <2>4. \A c \in bids[a] : c.bidder \in Users /\ c.amount \in Nat
    BY DEF AuctionTypeOK, BidRow
  <2> QED  BY <1>2, <2>1, <2>3, <2>4
<1> QED  BY <1>1, <1>2

(* A bid above all the others is the highest.                              *)
LEMMA NewHighest ==
    ASSUME NEW rows \in SUBSET BidRow, NEW b \in BidRow,
           \A c \in rows : c.amount < b.amount
    PROVE  Highest(rows \cup {b}) = b
<1>1. \A c \in rows \cup {b} : c.amount <= b.amount
  BY DEF BidRow
<1>2. \A c \in rows \cup {b} : (\A d \in rows \cup {b} : d.amount <= c.amount) => c = b
  BY DEF BidRow
<1> QED  BY <1>1, <1>2 DEF Highest

-----------------------------------------------------------------------------
(* What is known of a bid in flight.                                       *)

LEMMA BidFields ==
    ASSUME AuctionTypeOK, NEW r \in Requests
    PROVE  /\ bid[r].pc \in BidPc               /\ bid[r].auction \in Auctions \cup {None}
           /\ bid[r].user \in Users \cup {None} /\ bid[r].amount \in Nat
           /\ bid[r].seen \in Balances          /\ bid[r].after \in Balances
           /\ bid[r].prev \in TopType           /\ bid[r].prev.bidder \in Users \cup {None}
           /\ bid[r].prev.amount \in Nat        /\ bid[r].prevSeen \in Balances
           /\ bid[r].prevAfter \in Balances
BY DEF AuctionTypeOK, Bid, TopType

LEMMA NoBidIsBid == NoBid \in Bid /\ NoBid.pc = "idle"
BY WalletAssumption DEF NoBid, NewBid, NoTop, Bid, BidPc, TopType, Balances

(* Where a bid goes from its current step.                                 *)
LEMMA NewBidIsBid ==
    ASSUME NEW a \in Auctions, NEW u \in Users, NEW amount \in BidAmounts
    PROVE  NewBid(a, u, amount) \in Bid
BY WalletAssumption, BiddingAssumption DEF NewBid, NoTop, Bid, BidPc, TopType, Balances

-----------------------------------------------------------------------------
(* How the steps of a bid appear to the wallet.                            *)

(* A row is taken that was free.                                           *)
LEMMA LockKeepsWalletInv ==
    ASSUME WalletInv, NEW r \in Requests, NEW u \in Users, NEW change, LockWallet(r, u, change),
           UNCHANGED <<wallets, balance, ledger, rowBalance, withdrawal, withdrawalLock, req>>
    PROVE  WalletInv'
<1>1. WalletTypeOK'
  BY DEF WalletInv, WalletTypeOK, LockWallet
<1>2. LedgerMatchesBalance'
  BY DEF WalletInv, LedgerMatchesBalance, LedgerTotal
<1>3. RequestInv'
  <2> SUFFICES ASSUME NEW q \in Requests
               PROVE  /\ (req[q].pc # "idle" => req[q].user \in Users)'
                      /\ WalletRowIsMine(q)' /\ FreshWithdrawal(q)' /\ ClaimIsMine(q)'
    BY DEF RequestInv
  <2>1. MovesMoney(q) => walletLock[req[q].user] = q /\ req[q].user \in Users /\ req[q].user # u
    BY WalletAssumption DEF WalletInv, RequestInv, WalletRowIsMine, MovesMoney, LockWallet
  <2>2. WalletRowIsMine(q)'
    BY <2>1 DEF WalletInv, RequestInv, WalletRowIsMine, MovesMoney, Change, LockWallet,
       WalletTypeOK
  <2> QED  BY <2>2 DEF WalletInv, RequestInv, FreshWithdrawal, AsksForMoney, ClaimIsMine,
              Settles
<1>4. PendingHasOwner'
  BY DEF WalletInv, PendingHasOwner
<1> QED  BY <1>1, <1>2, <1>3, <1>4 DEF WalletInv

(* Rows are freed by a bid: none of a request of the wallet.               *)
LEMMA UnlockKeepsWalletInv ==
    ASSUME WalletInv, NEW r \in Requests, req[r] = Idle, UnlockWallets(r),
           UNCHANGED <<wallets, balance, ledger, rowBalance, withdrawal, withdrawalLock, req>>
    PROVE  WalletInv'
<1>1. WalletTypeOK'
  BY DEF WalletInv, WalletTypeOK, UnlockWallets
<1>2. LedgerMatchesBalance'
  BY DEF WalletInv, LedgerMatchesBalance, LedgerTotal
<1>3. RequestInv'
  <2> SUFFICES ASSUME NEW q \in Requests
               PROVE  /\ (req[q].pc # "idle" => req[q].user \in Users)'
                      /\ WalletRowIsMine(q)' /\ FreshWithdrawal(q)' /\ ClaimIsMine(q)'
    BY DEF RequestInv
  <2>1. MovesMoney(q) => q # r /\ walletLock[req[q].user] = q /\ req[q].user \in Users
    BY DEF WalletInv, RequestInv, WalletRowIsMine, MovesMoney, Idle, NewRequest
  <2>2. WalletRowIsMine(q)'
    BY <2>1 DEF WalletInv, RequestInv, WalletRowIsMine, MovesMoney, Change, UnlockWallets
  <2> QED  BY <2>2 DEF WalletInv, RequestInv, FreshWithdrawal, AsksForMoney, ClaimIsMine,
              Settles
<1>4. PendingHasOwner'
  BY DEF WalletInv, PendingHasOwner
<1> QED  BY <1>1, <1>2, <1>3, <1>4 DEF WalletInv

-----------------------------------------------------------------------------
(* A step respects a request if it leaves alone the rows the request has   *)
(* locked.  A bid in flight then stays as it was.                          *)

RespectsRowsOf(q) ==
    /\ bid'[q] = bid[q]
    /\ bid[q] # NoBid => req'[q] = req[q]
    /\ \A u \in Users : walletLock[u] = q => walletLock'[u] = q /\ balance'[u] = balance[u]
    /\ \A a \in Auctions : bids[a] \subseteq bids'[a]
    /\ \A a \in Auctions : auctionLock[a] = q =>
          auctionLock'[a] = q /\ auction'[a] = auction[a] /\ bids'[a] = bids[a]

LEMMA RespectedBidKeepsInv ==
    ASSUME AuctionTypeOK, PriceIsTopBid, NEW q \in Requests, BidInvOf(q), RespectsRowsOf(q)
    PROVE  BidInvOf(q)'
<1>1. AuctionRowIsMine(q)'
  BY DEF BidInvOf, AuctionRowIsMine, Decides, RespectsRowsOf
<1>2. BidderRowIsMine(q)'
  <2>1. HasHeld(q) => bid[q].user \in Users
    BY DEF BidInvOf, AuctionRowIsMine, Decides, HasHeld
  <2> QED  BY <2>1 DEF BidInvOf, BidderRowIsMine, HasHeld, RespectsRowsOf
<1>3. Decides(q) => TopBid(bid[q].auction)' = TopBid(bid[q].auction)
  BY DEF BidInvOf, AuctionRowIsMine, RespectsRowsOf, TopBid
<1>4. PreviousIsTop(q)'
  BY <1>3 DEF BidInvOf, PreviousIsTop, Decides, RespectsRowsOf
<1>5. PreviousRowIsMine(q)'
  <2>1. ASSUME bid[q].pc = "commit", bid[q].prev # NoTop
        PROVE  bid[q].prev.bidder \in Users
    <3>1. bid[q].auction \in Auctions /\ bid[q].prev = TopBid(bid[q].auction)
      BY <2>1 DEF BidInvOf, PreviousIsTop, AuctionRowIsMine, Decides
    <3> QED  BY <2>1, <3>1, TopBidFacts
  <2> QED  BY <2>1 DEF BidInvOf, PreviousRowIsMine, RespectsRowsOf
<1>6. FundsWereSeen(q)'
  BY DEF BidInvOf, FundsWereSeen, RespectsRowsOf
<1>7. EventIsCommitted(q)'
  BY DEF BidInvOf, EventIsCommitted, RespectsRowsOf
<1>8. OneRole(q)'
  BY DEF BidInvOf, OneRole, RespectsRowsOf
<1> QED  BY <1>1, <1>2, <1>4, <1>5, <1>6, <1>7, <1>8 DEF BidInvOf

(* A request without a bid has nothing to rely on.                         *)
LEMMA NoBidKeepsInv ==
    ASSUME NEW q, bid'[q] = NoBid
    PROVE  BidInvOf(q)'
BY NoBidIsBid DEF BidInvOf, AuctionRowIsMine, Decides, BidderRowIsMine, HasHeld,
   PreviousRowIsMine,
   PreviousIsTop, FundsWereSeen, EventIsCommitted, OneRole

LEMMA BookStutters ==
    ASSUME BookInv, UNCHANGED <<auction, bids, held, announced>>
    PROVE  BookInv'
BY DEF BookInv, PriceIsTopBid, BidsClimb, TopBidIsFunded, TopBid, AnnouncedAreCommitted,
   BiddersMayBid

-----------------------------------------------------------------------------
(* The steps of the wallet.                                                *)

(* They respect every other request.                                       *)
LEMMA WalletStepRespects ==
    ASSUME WalletInv, NEW r \in Requests, WalletStep(r), NEW q \in Requests, q # r
    PROVE  RespectsRowsOf(q)
<1>1. req'[q] = req[q]
  BY DEF WalletInv, WalletTypeOK, WalletStep, Arrive, Proceed, Abort, GetBalance, TopUp,
     RequestWithdrawal, ClaimWithdrawal, CreateWallet, IncrementForTopUp, CommitTopUp,
     DecrementForWithdrawal, CommitWithdrawal, MarkTransactions, CommitApproval,
     IncrementForRefund, CommitRejection, Overflow, Rollback, Finish, Goto
<1>2. ASSUME NEW u \in Users, walletLock[u] = q
      PROVE  walletLock'[u] = q /\ balance'[u] = balance[u]
  <2>1. UNCHANGED <<walletLock, balance>> => walletLock'[u] = q /\ balance'[u] = balance[u]
    BY <1>2
  <2>2. UnlockWallets(r) => walletLock'[u] = q
    BY <1>2 DEF UnlockWallets
  <2>3. ASSUME NEW v \in Users, NEW change, LockWallet(r, v, change), balance' = balance
        PROVE  walletLock'[u] = q /\ balance'[u] = balance[u]
    BY <1>2, <2>3, WalletAssumption DEF LockWallet, WalletInv, WalletTypeOK
  <2>4. ASSUME NEW type, NEW change, NEW after, NEW recorded, MovesMoney(r),
               CommitMovement(req[r].user, type, change, after, recorded)
        PROVE  balance'[u] = balance[u]
    <3>1. walletLock[req[r].user] = r
      BY <2>4 DEF WalletInv, RequestInv, WalletRowIsMine
    <3> QED  BY <1>2, <2>4, <3>1 DEF CommitMovement, WalletInv, WalletTypeOK
  <2>5. MovesMoney(r) \/ req[r].pc \in {"topUp", "withdraw", "reject"} => req[r].user \in Users
    BY DEF WalletInv, RequestInv, MovesMoney
  <2>6. CASE Arrive(r)
    BY <2>1, <2>6 DEF Arrive, GetBalance, TopUp, RequestWithdrawal, ClaimWithdrawal
  <2>7. CASE IncrementForTopUp(r) \/ DecrementForWithdrawal(r) \/ IncrementForRefund(r)
    BY <2>3, <2>5, <2>7 DEF IncrementForTopUp, DecrementForWithdrawal, IncrementForRefund
  <2>8. CASE CommitTopUp(r) \/ CommitWithdrawal(r) \/ CommitRejection(r)
    BY <2>2, <2>4, <2>8 DEF CommitTopUp, CommitWithdrawal, CommitRejection, MovesMoney
  <2>9. CASE CreateWallet(r) \/ MarkTransactions(r) \/ CommitApproval(r)
    BY <2>1, <2>9 DEF CreateWallet, MarkTransactions, CommitApproval
  <2>10. CASE Overflow(r) \/ Abort(r)
    BY <2>2, <2>10 DEF Overflow, Abort, Rollback
  <2> QED  BY <2>6, <2>7, <2>8, <2>9, <2>10 DEF WalletStep, Proceed
<1> QED  BY <1>1, <1>2 DEF RespectsRowsOf, WalletStep, auctionVars

LEMMA WalletStepKeepsInv ==
    ASSUME BiddingInv, NEW r \in Requests, WalletStep(r)
    PROVE  BiddingInv'
<1>1. WalletInv'
  BY WalletNextInv DEF BiddingInv, WalletStep, WalletNext
<1>2. AuctionTypeOK'
  BY DEF BiddingInv, WalletStep, auctionVars, AuctionTypeOK
<1>3. BidInv'
  <2>1. ASSUME NEW q \in Requests
        PROVE  BidInvOf(q)'
    <3>1. CASE q = r
      BY <3>1, NoBidKeepsInv DEF WalletStep, auctionVars
    <3>2. CASE q # r
      BY <3>2, WalletStepRespects, RespectedBidKeepsInv DEF BiddingInv, BidInv, BookInv
    <3> QED  BY <3>1, <3>2
  <2> QED  BY <2>1 DEF BidInv
<1>4. BookInv'
  BY BookStutters DEF BiddingInv, WalletStep, auctionVars
<1> QED  BY <1>1, <1>2, <1>3, <1>4 DEF BiddingInv

-----------------------------------------------------------------------------
(* The steps of a bid, before its commit.                                  *)

LEMMA LockAuctionKeepsInv ==
    ASSUME BiddingInv, NEW r \in Requests, NEW a \in Auctions, NEW u \in Users,
           NEW amount \in BidAmounts, LockAuction(r, a, u, amount)
    PROVE  BiddingInv'
<1>1. WalletInv'
  BY WalletStutterInv DEF BiddingInv, LockAuction
<1>2. AuctionTypeOK'
  BY NewBidIsBid DEF BiddingInv, LockAuction, AuctionTypeOK
<1>3. BidInv'
  <2>1. ASSUME NEW q \in Requests, q # r
        PROVE  BidInvOf(q)'
    <3>1. RespectsRowsOf(q)
      BY <2>1, WalletAssumption DEF LockAuction, RespectsRowsOf, walletVars, BiddingInv,
         AuctionTypeOK
    <3> QED  BY <3>1, RespectedBidKeepsInv DEF BiddingInv, BidInv, BookInv
  <2>2. BidInvOf(r)'
    <3>1. bid'[r] = NewBid(a, u, amount)
      BY DEF LockAuction, BiddingInv, AuctionTypeOK
    <3>2. AuctionRowIsMine(r)'
      BY <3>1 DEF AuctionRowIsMine, NewBid, LockAuction, MayBid, BiddingInv, AuctionTypeOK
    <3>3. OneRole(r)'
      BY DEF OneRole, LockAuction, walletVars
    <3> QED  BY <3>1, <3>2, <3>3 DEF BidInvOf, NewBid, BidderRowIsMine, HasHeld,
             PreviousRowIsMine, PreviousIsTop, FundsWereSeen, EventIsCommitted
  <2> QED  BY <2>1, <2>2 DEF BidInv
<1>4. BookInv'
  BY BookStutters DEF BiddingInv, LockAuction
<1> QED  BY <1>1, <1>2, <1>3, <1>4 DEF BiddingInv

(* A step of r's bid that only changes what r knows respects the others.   *)
LEMMA PrivateStepRespects ==
    ASSUME BiddingInv, NEW r \in Requests, NEW new, bid' = [bid EXCEPT ![r] = new],
           UNCHANGED <<balance, req, auction, bids, auctionLock>>,
           NEW q \in Requests, q # r,
           \A u \in Users : walletLock[u] = q => walletLock'[u] = q
    PROVE  BidInvOf(q)'
<1>1. RespectsRowsOf(q)
  BY DEF RespectsRowsOf, BiddingInv, AuctionTypeOK
<1> QED  BY <1>1, RespectedBidKeepsInv DEF BiddingInv, BidInv, BookInv

LEMMA CheckFundsKeepsInv ==
    ASSUME BiddingInv, NEW r \in Requests, CheckFunds(r)
    PROVE  BiddingInv'
<1> DEFINE new == [bid[r] EXCEPT !.pc = "hold", !.seen = balance[bid[r].user]]
<1>1. bid[r].user \in Users /\ bid' = [bid EXCEPT ![r] = new] /\ new \in Bid
  <2>1. bid[r].user \in Users
    BY DEF BiddingInv, BidInv, BidInvOf, AuctionRowIsMine, Decides, CheckFunds
  <2>2. balance[bid[r].user] \in Balances
    BY <2>1 DEF BiddingInv, WalletInv, WalletTypeOK
  <2> QED  BY <2>1, <2>2 DEF CheckFunds, BiddingInv, AuctionTypeOK, Bid, BidPc
<1>2. WalletInv'
  BY WalletStutterInv DEF BiddingInv, CheckFunds
<1>3. AuctionTypeOK'
  BY <1>1 DEF BiddingInv, CheckFunds, AuctionTypeOK
<1>4. BidInv'
  <2>1. ASSUME NEW q \in Requests, q # r
        PROVE  BidInvOf(q)'
    BY <1>1, <2>1, PrivateStepRespects DEF CheckFunds, walletVars
  <2>2. BidInvOf(r)'
    <3>1. /\ bid'[r].pc = "hold" /\ bid'[r].seen = balance[bid[r].user]
          /\ bid'[r].auction = bid[r].auction /\ bid'[r].user = bid[r].user
          /\ bid'[r].amount = bid[r].amount /\ bid'[r].prev = bid[r].prev
      BY <1>1 DEF BiddingInv, AuctionTypeOK, Bid
    <3>2. AuctionRowIsMine(r)'
      BY <3>1 DEF BiddingInv, BidInv, BidInvOf, AuctionRowIsMine, Decides, CheckFunds
    <3>3. PreviousIsTop(r)' /\ FundsWereSeen(r)'
      BY <3>1 DEF BiddingInv, BidInv, BidInvOf, PreviousIsTop, FundsWereSeen, CheckFunds
    <3>4. OneRole(r)'
      BY NoBidIsBid DEF BiddingInv, BidInv, BidInvOf, OneRole, CheckFunds, walletVars
    <3> QED  BY <3>1, <3>2, <3>3, <3>4 DEF BidInvOf, BidderRowIsMine, HasHeld,
             PreviousRowIsMine, EventIsCommitted
  <2> QED  BY <2>1, <2>2 DEF BidInv
<1>5. BookInv'
  BY BookStutters DEF BiddingInv, CheckFunds
<1> QED  BY <1>2, <1>3, <1>4, <1>5 DEF BiddingInv

LEMMA HoldFundsKeepsInv ==
    ASSUME BiddingInv, NEW r \in Requests, HoldFunds(r)
    PROVE  BiddingInv'
<1> DEFINE new == [bid[r] EXCEPT !.pc = "findPrevious",
                                 !.after = balance[bid[r].user] - bid[r].amount]
<1>1. bid[r].user \in Users /\ bid' = [bid EXCEPT ![r] = new] /\ new \in Bid
  <2>1. bid[r].user \in Users
    BY DEF BiddingInv, BidInv, BidInvOf, AuctionRowIsMine, Decides, HoldFunds
  <2>2. balance[bid[r].user] - bid[r].amount \in Balances
    BY <2>1, BidFields DEF BiddingInv, WalletInv, WalletTypeOK, HoldFunds, LockWallet,
       Balances
  <2> QED  BY <2>1, <2>2 DEF HoldFunds, BiddingInv, AuctionTypeOK, Bid, BidPc
<1>2. LockWallet(r, bid[r].user, -bid[r].amount)
  BY DEF HoldFunds
<1>3. WalletInv'
  BY <1>1, <1>2, LockKeepsWalletInv DEF BiddingInv, HoldFunds
<1>4. AuctionTypeOK'
  BY <1>1 DEF BiddingInv, HoldFunds, AuctionTypeOK
<1>5. BidInv'
  <2>1. ASSUME NEW q \in Requests, q # r
        PROVE  BidInvOf(q)'
    <3>1. \A u \in Users : walletLock[u] = q => walletLock'[u] = q
      BY <1>1, <1>2, WalletAssumption DEF LockWallet, BiddingInv, WalletInv, WalletTypeOK
    <3> QED  BY <1>1, <2>1, <3>1, PrivateStepRespects DEF HoldFunds
  <2>2. BidInvOf(r)'
    <3>1. /\ bid'[r].pc = "findPrevious" /\ bid'[r].after = balance[bid[r].user] - bid[r].amount
          /\ bid'[r].seen = bid[r].seen
          /\ bid'[r].auction = bid[r].auction /\ bid'[r].user = bid[r].user
          /\ bid'[r].amount = bid[r].amount /\ bid'[r].prev = bid[r].prev
      BY <1>1 DEF BiddingInv, AuctionTypeOK, Bid
    <3>2. AuctionRowIsMine(r)'
      BY <3>1 DEF BiddingInv, BidInv, BidInvOf, AuctionRowIsMine, Decides, HoldFunds
    <3>3. BidderRowIsMine(r)'
      BY <1>1, <1>2, <3>1 DEF BiddingInv, BidInv, BidInvOf, BidderRowIsMine, FundsWereSeen,
         HoldFunds, LockWallet, WalletInv, WalletTypeOK
    <3>4. PreviousIsTop(r)'
      BY <3>1 DEF BiddingInv, BidInv, BidInvOf, PreviousIsTop, HoldFunds
    <3>5. OneRole(r)'
      BY NoBidIsBid DEF BiddingInv, BidInv, BidInvOf, OneRole, HoldFunds
    <3> QED  BY <3>1, <3>2, <3>3, <3>4, <3>5 DEF BidInvOf, PreviousRowIsMine, FundsWereSeen,
             EventIsCommitted
  <2> QED  BY <2>1, <2>2 DEF BidInv
<1>6. BookInv'
  BY BookStutters DEF BiddingInv, HoldFunds
<1> QED  BY <1>3, <1>4, <1>5, <1>6 DEF BiddingInv

LEMMA FindPreviousKeepsInv ==
    ASSUME BiddingInv, NEW r \in Requests, FindPrevious(r)
    PROVE  BiddingInv'
<1> DEFINE top == TopBid(bid[r].auction)
           first == [bid[r] EXCEPT !.pc = "commit"]
           second == [bid[r] EXCEPT !.pc = "release", !.prev = top,
                                    !.prevSeen = balance[top.bidder]]
<1>0. bid[r].auction \in Auctions /\ bid[r].user \in Users
  BY DEF BiddingInv, BidInv, BidInvOf, AuctionRowIsMine, Decides, FindPrevious
<1>1. PICK new \in {first, second} :
        /\ bid' = [bid EXCEPT ![r] = new] /\ new \in Bid
        /\ new = first => top.bidder \in {None, bid[r].user}
        /\ new = second => top.bidder \notin {None, bid[r].user}
  <2>1. first \in Bid /\ first.pc = "commit"
    BY DEF BiddingInv, AuctionTypeOK, Bid, BidPc
  <2>2. CASE top.bidder \in {None, bid[r].user}
    <3>1. bid' = [bid EXCEPT ![r] = first]
      BY <2>2 DEF FindPrevious
    <3>2. second.pc = "release"
      BY DEF BiddingInv, AuctionTypeOK, Bid
    <3> QED  BY <2>1, <2>2, <3>1, <3>2
  <2>3. CASE top.bidder \notin {None, bid[r].user}
    <3>1. bid' = [bid EXCEPT ![r] = second]
      BY <2>3 DEF FindPrevious
    <3>2. top \in TopType /\ top.bidder \in Users
      <4>1. bids[bid[r].auction] # {}
        BY <1>0, <2>3, TopBidFacts DEF NoTop, BiddingInv, BookInv
      <4>2. top \in bids[bid[r].auction] /\ top.bidder \in Users
        BY <1>0, <4>1, TopBidFacts DEF BiddingInv, BookInv
      <4> QED  BY <1>0, <4>2 DEF BiddingInv, AuctionTypeOK, BidRow, TopType
    <3>3. balance[top.bidder] \in Balances
      BY <3>2 DEF BiddingInv, WalletInv, WalletTypeOK
    <3>4. second \in Bid /\ second.pc = "release"
      BY <3>2, <3>3 DEF BiddingInv, AuctionTypeOK, Bid, BidPc
    <3> QED  BY <2>1, <2>3, <3>1, <3>4
  <2> QED  BY <2>2, <2>3
<1>2. WalletInv'
  BY WalletStutterInv DEF BiddingInv, FindPrevious
<1>3. AuctionTypeOK'
  BY <1>1 DEF BiddingInv, FindPrevious, AuctionTypeOK
<1>4. BidInv'
  <2>1. ASSUME NEW q \in Requests, q # r
        PROVE  BidInvOf(q)'
    BY <1>1, <2>1, PrivateStepRespects DEF FindPrevious, walletVars
  <2>2. BidInvOf(r)'
    <3>1. /\ bid'[r].pc \in {"commit", "release"}
          /\ bid'[r].pc = "commit" => bid'[r].prev = bid[r].prev /\ top.bidder \in {None, bid[r].user}
          /\ bid'[r].pc = "release" => bid'[r].prev = top /\ top.bidder \notin {None, bid[r].user}
          /\ bid'[r].after = bid[r].after /\ bid'[r].seen = bid[r].seen
          /\ bid'[r].auction = bid[r].auction /\ bid'[r].user = bid[r].user
          /\ bid'[r].amount = bid[r].amount
      BY <1>1 DEF BiddingInv, AuctionTypeOK, Bid
    <3>2. AuctionRowIsMine(r)'
      BY <3>1 DEF BiddingInv, BidInv, BidInvOf, AuctionRowIsMine, Decides, FindPrevious
    <3>3. BidderRowIsMine(r)'
      BY <3>1 DEF BiddingInv, BidInv, BidInvOf, BidderRowIsMine, HasHeld, FindPrevious,
         walletVars
    <3>4. bid[r].prev = NoTop
      BY DEF BiddingInv, BidInv, BidInvOf, PreviousIsTop, FindPrevious
    <3>5. TopBid(bid[r].auction)' = top
      BY <3>1 DEF FindPrevious, TopBid
    <3>6. PreviousIsTop(r)' /\ PreviousRowIsMine(r)'
      BY <3>1, <3>4, <3>5 DEF PreviousIsTop, PreviousRowIsMine
    <3>7. OneRole(r)'
      BY NoBidIsBid DEF BiddingInv, BidInv, BidInvOf, OneRole, FindPrevious, walletVars
    <3> QED  BY <3>1, <3>2, <3>3, <3>6, <3>7 DEF BidInvOf, FundsWereSeen, EventIsCommitted
  <2> QED  BY <2>1, <2>2 DEF BidInv
<1>5. BookInv'
  BY BookStutters DEF BiddingInv, FindPrevious
<1> QED  BY <1>2, <1>3, <1>4, <1>5 DEF BiddingInv

LEMMA ReleasePreviousKeepsInv ==
    ASSUME BiddingInv, NEW r \in Requests, ReleasePrevious(r)
    PROVE  BiddingInv'
<1> DEFINE top == bid[r].prev
           new == [bid[r] EXCEPT !.pc = "commit", !.prevAfter = balance[top.bidder] + top.amount]
<1>1. /\ bid[r].auction \in Auctions /\ bid[r].user \in Users
      /\ top = TopBid(bid[r].auction) /\ top.bidder \notin {None, bid[r].user}
  BY DEF BiddingInv, BidInv, BidInvOf, AuctionRowIsMine, Decides, PreviousIsTop,
     ReleasePrevious
<1>2. top.bidder \in Users /\ top.amount \in Nat
  BY <1>1, BidFields DEF BiddingInv
<1>3. bid' = [bid EXCEPT ![r] = new] /\ new \in Bid
  <2>1. balance[top.bidder] + top.amount \in Balances
    BY <1>2 DEF ReleasePrevious, LockWallet
  <2> QED  BY <2>1 DEF ReleasePrevious, BiddingInv, AuctionTypeOK, Bid, BidPc
<1>4. LockWallet(r, top.bidder, top.amount)
  BY DEF ReleasePrevious
<1>5. WalletInv'
  BY <1>2, <1>4, LockKeepsWalletInv DEF BiddingInv, ReleasePrevious
<1>6. AuctionTypeOK'
  BY <1>3 DEF BiddingInv, ReleasePrevious, AuctionTypeOK
<1>7. BidInv'
  <2>1. ASSUME NEW q \in Requests, q # r
        PROVE  BidInvOf(q)'
    <3>1. \A u \in Users : walletLock[u] = q => walletLock'[u] = q
      BY <1>2, <1>4, WalletAssumption DEF LockWallet, BiddingInv, WalletInv, WalletTypeOK
    <3> QED  BY <1>3, <2>1, <3>1, PrivateStepRespects DEF ReleasePrevious
  <2>2. BidInvOf(r)'
    <3>1. /\ bid'[r].pc = "commit" /\ bid'[r].prevAfter = balance[top.bidder] + top.amount
          /\ bid'[r].seen = bid[r].seen /\ bid'[r].after = bid[r].after
          /\ bid'[r].auction = bid[r].auction /\ bid'[r].user = bid[r].user
          /\ bid'[r].amount = bid[r].amount /\ bid'[r].prev = top
          /\ bid'[r].prevSeen = bid[r].prevSeen
      BY <1>3 DEF BiddingInv, AuctionTypeOK, Bid
    <3>2. AuctionRowIsMine(r)'
      BY <3>1 DEF BiddingInv, BidInv, BidInvOf, AuctionRowIsMine, Decides, ReleasePrevious
    <3>3. BidderRowIsMine(r)'
      BY <1>1, <1>2, <1>4, <3>1 DEF BiddingInv, BidInv, BidInvOf, BidderRowIsMine, HasHeld,
         ReleasePrevious, LockWallet, WalletInv, WalletTypeOK
    <3>4. PreviousRowIsMine(r)'
      BY <1>2, <1>4, <3>1 DEF PreviousRowIsMine, BiddingInv, WalletInv, WalletTypeOK,
         ReleasePrevious, LockWallet
    <3>5. TopBid(bid[r].auction)' = top
      BY <1>1, <3>1 DEF ReleasePrevious, TopBid
    <3>6. PreviousIsTop(r)'
      BY <1>1, <3>1, <3>5 DEF PreviousIsTop
    <3>7. OneRole(r)'
      BY NoBidIsBid DEF BiddingInv, BidInv, BidInvOf, OneRole, ReleasePrevious
    <3> QED  BY <3>1, <3>2, <3>3, <3>4, <3>6, <3>7 DEF BidInvOf, FundsWereSeen,
                EventIsCommitted
  <2> QED  BY <2>1, <2>2 DEF BidInv
<1>8. BookInv'
  BY BookStutters DEF BiddingInv, ReleasePrevious
<1> QED  BY <1>5, <1>6, <1>7, <1>8 DEF BiddingInv

LEMMA RollbackBidKeepsInv ==
    ASSUME BiddingInv, NEW r \in Requests, bid[r] # NoBid, RollbackBid(r)
    PROVE  BiddingInv'
<1>1. WalletInv'
  <2>1. req[r] = Idle
    BY DEF BiddingInv, BidInv, BidInvOf, OneRole
  <2> QED  BY <2>1, UnlockKeepsWalletInv DEF BiddingInv, RollbackBid
<1>2. AuctionTypeOK'
  BY NoBidIsBid DEF BiddingInv, RollbackBid, AuctionTypeOK, UnlockAuctions
<1>3. BidInv'
  <2>1. ASSUME NEW q \in Requests, q # r
        PROVE  BidInvOf(q)'
    <3>1. RespectsRowsOf(q)
      BY <2>1 DEF RespectsRowsOf, RollbackBid, UnlockWallets, UnlockAuctions, BiddingInv,
         AuctionTypeOK
    <3> QED  BY <3>1, RespectedBidKeepsInv DEF BiddingInv, BidInv, BookInv
  <2>2. BidInvOf(r)'
    BY NoBidKeepsInv DEF RollbackBid, BiddingInv, AuctionTypeOK
  <2> QED  BY <2>1, <2>2 DEF BidInv
<1>4. BookInv'
  BY BookStutters DEF BiddingInv, RollbackBid
<1> QED  BY <1>1, <1>2, <1>3, <1>4 DEF BiddingInv

-----------------------------------------------------------------------------
(* The commit of a bid.                                                    *)

(* What the bid may rely on when it commits: the locks it holds, and the   *)
(* new bid's place above the earlier ones.                                 *)
LEMMA CommitFacts ==
    ASSUME BiddingInv, NEW r \in Requests, bid[r].pc = "commit"
    PROVE  /\ bid[r].auction \in Auctions /\ auctionLock[bid[r].auction] = r
           /\ bid[r].user \in Users \ {Seller} /\ bid[r].amount \in BidAmounts
           /\ walletLock[bid[r].user] = r
           /\ bid[r].after = balance[bid[r].user] - bid[r].amount
           /\ bid[r].after \in Balances
           /\ bid[r].seen - bid[r].amount \in Balances
           /\ bid[r].prev = NoTop \/
                /\ bid[r].prev = TopBid(bid[r].auction)
                /\ bid[r].prev.bidder \in Users \ {bid[r].user}
                /\ walletLock[bid[r].prev.bidder] = r
                /\ bid[r].prevAfter = balance[bid[r].prev.bidder] + bid[r].prev.amount
                /\ bid[r].prevAfter \in Balances
                /\ bid[r].prevSeen + bid[r].prev.amount \in Balances
           /\ bid[r].amount >= StartingPrice + BidIncrement
           /\ \A c \in bids[bid[r].auction] : c.amount + BidIncrement <= bid[r].amount
           /\ req[r] = Idle
<1>1. /\ bid[r].auction \in Auctions /\ auctionLock[bid[r].auction] = r
      /\ bid[r].user \in Users \ {Seller} /\ bid[r].amount \in BidAmounts
      /\ bid[r].amount >= auction[bid[r].auction].price + BidIncrement
  BY DEF BiddingInv, BidInv, BidInvOf, AuctionRowIsMine, Decides
<1>2. /\ walletLock[bid[r].user] = r /\ bid[r].after = balance[bid[r].user] - bid[r].amount
      /\ bid[r].seen >= bid[r].amount
  BY DEF BiddingInv, BidInv, BidInvOf, BidderRowIsMine, HasHeld
<1>3. bid[r].seen - bid[r].amount \in Balances
  BY <1>2, BidFields, WalletAssumption DEF BiddingInv, Balances
<1>4. bid[r].prev = NoTop \/
        /\ bid[r].prev = TopBid(bid[r].auction)
        /\ bid[r].prev.bidder \in Users \ {bid[r].user}
        /\ walletLock[bid[r].prev.bidder] = r
        /\ bid[r].prevAfter = balance[bid[r].prev.bidder] + bid[r].prev.amount
        /\ bid[r].prevSeen + bid[r].prev.amount \in Balances
  BY BidFields DEF BiddingInv, BidInv, BidInvOf, PreviousIsTop, PreviousRowIsMine
<1>5. \A c \in bids[bid[r].auction] : c.amount + BidIncrement <= bid[r].amount
  <2> SUFFICES ASSUME NEW c \in bids[bid[r].auction]
               PROVE  c.amount + BidIncrement <= bid[r].amount
    OBVIOUS
  <2>1. c.amount <= auction[bid[r].auction].price
    BY <1>1, TopBidFacts DEF BiddingInv, BookInv
  <2>2. /\ c.amount \in Nat /\ auction[bid[r].auction].price \in Nat
        /\ bid[r].amount \in Nat /\ BidIncrement \in Nat
    BY <1>1, BiddingAssumption, BidFields DEF BiddingInv, AuctionTypeOK, AuctionRow, BidRow
  <2> QED  BY <1>1, <2>1, <2>2
<1>6. bid[r].amount >= StartingPrice + BidIncrement
  <2>1. auction[bid[r].auction].price >= StartingPrice
    <3>1. CASE bids[bid[r].auction] = {}
      BY <1>1, <3>1, TopBidFacts, BiddingAssumption DEF BiddingInv, BookInv
    <3>2. CASE bids[bid[r].auction] # {}
      <4>1. PICK c \in bids[bid[r].auction] : c.amount = auction[bid[r].auction].price
        BY <1>1, <3>2 DEF BiddingInv, BookInv, PriceIsTopBid
      <4>2. c.amount >= StartingPrice + BidIncrement /\ c.amount \in Nat
        BY <1>1 DEF BiddingInv, BookInv, BidsClimb, AuctionTypeOK, BidRow
      <4> QED  BY <4>1, <4>2, BiddingAssumption
    <3> QED  BY <3>1, <3>2
  <2>2. /\ auction[bid[r].auction].price \in Nat /\ bid[r].amount \in Nat
        /\ BidIncrement \in Nat /\ StartingPrice \in Nat
    BY <1>1, BiddingAssumption, BidFields DEF BiddingInv, AuctionTypeOK, AuctionRow
  <2> QED  BY <1>1, <2>1, <2>2
<1>7. req[r] = Idle
  BY NoBidIsBid DEF BiddingInv, BidInv, BidInvOf, OneRole
<1> QED  BY <1>1, <1>2, <1>3, <1>4, <1>5, <1>6, <1>7, BidFields DEF BiddingInv

(* The commit moves the money of the two wallets the bid has locked.       *)
LEMMA CommitBidKeepsWalletInv ==
    ASSUME BiddingInv, NEW r \in Requests, CommitBid(r)
    PROVE  WalletInv'
<1> DEFINE u == bid[r].user
           p == bid[r].prev.bidder
<1>1. bid[r].pc = "commit"
  BY DEF CommitBid
<1>2. \A x \in Users :
        /\ balance'[x] = IF x = u THEN bid[r].after ELSE IF x = p THEN bid[r].prevAfter
                         ELSE balance[x]
        /\ ledger'[x] = IF x = u THEN [ledger[x] EXCEPT !["BID_HOLD"] = @ - bid[r].amount]
                        ELSE IF x = p
                             THEN [ledger[x] EXCEPT !["BID_RELEASE"] = @ + bid[r].prev.amount]
                             ELSE ledger[x]
  BY DEF CommitBid
<1>3. p \in Users => /\ p # u /\ walletLock[p] = r
                     /\ bid[r].prevAfter = balance[p] + bid[r].prev.amount
                     /\ bid[r].prevAfter \in Balances
                     /\ bid[r].prevSeen + bid[r].prev.amount \in Balances
  BY <1>1, CommitFacts, WalletAssumption DEF NoTop
<1>4. WalletTypeOK'
  <2>1. balance' \in [Users -> Balances]
    BY <1>1, <1>3, CommitFacts DEF CommitBid, BiddingInv, WalletInv, WalletTypeOK
  <2>2. rowBalance' \in [Users -> Balances]
    BY <1>1, <1>3, CommitFacts DEF CommitBid, BiddingInv, WalletInv, WalletTypeOK
  <2>3. ledger' \in [Users -> [TransactionType -> Int]]
    BY BidFields DEF CommitBid, BiddingInv, WalletInv, WalletTypeOK, TransactionType
  <2>4. walletLock' \in [Users -> Requests \cup {None}]
    BY UnlockingIsTyped DEF CommitBid, BiddingInv, WalletInv
  <2> QED  BY <2>1, <2>2, <2>3, <2>4 DEF CommitBid, BiddingInv, WalletInv, WalletTypeOK
<1>5. LedgerMatchesBalance'
  <2> SUFFICES ASSUME NEW x \in Users
               PROVE  balance'[x] = LedgerTotal(x)'
    BY DEF LedgerMatchesBalance
  <2>1. /\ balance[x] = LedgerTotal(x) /\ balance[x] \in Int
        /\ ledger[x] \in [TransactionType -> Int]
        /\ bid[r].amount \in Int /\ bid[r].prev.amount \in Int
    BY BidFields DEF BiddingInv, WalletInv, LedgerMatchesBalance, WalletTypeOK, Balances
  <2>2. CASE x = u
    <3>1. balance'[x] = balance[x] - bid[r].amount
      BY <1>1, <1>2, <2>2, CommitFacts
    <3>2. ledger'[x] = [ledger[x] EXCEPT !["BID_HOLD"] = @ - bid[r].amount]
      BY <1>2, <2>2
    <3>3. \A t \in TransactionType :
            ledger'[x][t] = IF t = "BID_HOLD" THEN ledger[x][t] - bid[r].amount ELSE ledger[x][t]
      BY <2>1, <3>2
    <3>4. \A t \in TransactionType : ledger[x][t] \in Int
      BY <2>1
    <3> QED  BY <2>1, <3>1, <3>3, <3>4 DEF LedgerTotal, TransactionType
  <2>3. CASE x # u /\ x = p
    <3>1. balance'[x] = balance[x] + bid[r].prev.amount
      BY <1>2, <1>3, <2>3
    <3>2. ledger'[x] = [ledger[x] EXCEPT !["BID_RELEASE"] = @ + bid[r].prev.amount]
      BY <1>2, <2>3
    <3>3. \A t \in TransactionType :
            ledger'[x][t] = IF t = "BID_RELEASE" THEN ledger[x][t] + bid[r].prev.amount ELSE ledger[x][t]
      BY <2>1, <3>2
    <3>4. \A t \in TransactionType : ledger[x][t] \in Int
      BY <2>1
    <3> QED  BY <2>1, <3>1, <3>3, <3>4 DEF LedgerTotal, TransactionType
  <2>4. CASE x # u /\ x # p
    BY <1>2, <2>1, <2>4 DEF LedgerTotal
  <2> QED  BY <2>2, <2>3, <2>4
<1>6. RequestInv'
  <2> SUFFICES ASSUME NEW q \in Requests
               PROVE  /\ (req[q].pc # "idle" => req[q].user \in Users)'
                      /\ WalletRowIsMine(q)' /\ FreshWithdrawal(q)' /\ ClaimIsMine(q)'
    BY DEF RequestInv
  <2>1. MovesMoney(q) => q # r /\ walletLock[req[q].user] = q /\ req[q].user \in Users
    BY <1>1, CommitFacts DEF BiddingInv, WalletInv, RequestInv, WalletRowIsMine, MovesMoney,
       Idle, NewRequest
  <2>2. MovesMoney(q) => req[q].user # u /\ req[q].user # p
    BY <1>1, <1>3, <2>1, CommitFacts
  <2>3. MovesMoney(q) => /\ walletLock'[req[q].user] = q
                         /\ balance'[req[q].user] = balance[req[q].user]
    BY <1>2, <2>1, <2>2 DEF CommitBid, UnlockWallets
  <2>4. WalletRowIsMine(q)'
    BY <2>3 DEF BiddingInv, WalletInv, RequestInv, WalletRowIsMine, MovesMoney, Change,
       CommitBid
  <2> QED  BY <2>4 DEF BiddingInv, WalletInv, RequestInv, FreshWithdrawal, AsksForMoney,
           ClaimIsMine, Settles, CommitBid
<1>7. PendingHasOwner'
  BY DEF BiddingInv, WalletInv, PendingHasOwner, CommitBid
<1> QED  BY <1>4, <1>5, <1>6, <1>7 DEF WalletInv

(* After the commit the new bid is on top.                                 *)
LEMMA CommitBidKeepsBook ==
    ASSUME BiddingInv, NEW r \in Requests, CommitBid(r)
    PROVE  BookInv'
<1> DEFINE a == bid[r].auction
           b == [bidder |-> bid[r].user, amount |-> bid[r].amount]
<1>1. bid[r].pc = "commit"
  BY DEF CommitBid
<1>2. /\ a \in Auctions /\ b \in BidRow /\ b.bidder # Seller /\ b.amount \in BidAmounts
      /\ b.amount >= StartingPrice + BidIncrement
      /\ \A c \in bids[a] : c.amount + BidIncrement <= b.amount
  BY <1>1, CommitFacts, BidFields DEF BiddingInv, BidRow
<1>3. \A c \in bids[a] : c.amount \in Nat /\ c.amount < b.amount
  <2>1. \A c \in bids[a] : c.amount \in Nat
    BY <1>2 DEF BiddingInv, AuctionTypeOK, BidRow
  <2>2. b.amount \in Nat
    BY <1>2 DEF BidRow
  <2> QED  BY <1>2, <2>1, <2>2, BiddingAssumption
<1>4. /\ bids' = [bids EXCEPT ![a] = @ \cup {b}]
      /\ auction' = [auction EXCEPT ![a].price = b.amount, ![a].totalBids = @ + 1]
      /\ announced' = announced
  BY DEF CommitBid
<1>5. \A x \in Auctions \ {a} : bids'[x] = bids[x] /\ auction'[x] = auction[x]
  BY <1>4 DEF BiddingInv, AuctionTypeOK
<1>6. /\ bids'[a] = bids[a] \cup {b} /\ auction'[a].price = b.amount
      /\ auction'[a].totalBids = auction[a].totalBids + 1
  BY <1>2, <1>4 DEF BiddingInv, AuctionTypeOK, AuctionRow
<1>7. b \notin bids[a]
  BY <1>2, <1>3 DEF BidRow
<1>8. BiddersMayBid'
  <2>1. IsFiniteSet(bids[a] \cup {b})
    BY <1>2, FS_AddElement DEF BiddingInv, BookInv, BiddersMayBid
  <2> QED  BY <1>2, <1>5, <1>6, <2>1 DEF BiddingInv, BookInv, BiddersMayBid
<1>9. PriceIsTopBid'
  <2>1. Cardinality(bids[a] \cup {b}) = Cardinality(bids[a]) + 1
    BY <1>2, <1>7, FS_AddElement DEF BiddingInv, BookInv, BiddersMayBid
  <2>2. auction'[a].totalBids = Cardinality(bids'[a])
    BY <1>2, <1>6, <2>1 DEF BiddingInv, BookInv, PriceIsTopBid
  <2>3. \A c \in bids'[a] : c.amount <= b.amount
    BY <1>2, <1>3, <1>6 DEF BidRow
  <2>4. b \in bids'[a] /\ b.amount = auction'[a].price
    BY <1>6
  <2> QED  BY <1>5, <2>2, <2>3, <2>4 DEF BiddingInv, BookInv, PriceIsTopBid
<1>10. BidsClimb'
  <2> SUFFICES ASSUME NEW x \in Auctions, NEW c \in bids'[x], NEW d \in bids'[x]
               PROVE  /\ c.amount >= StartingPrice + BidIncrement
                      /\ c.amount < d.amount => c.amount + BidIncrement <= d.amount
                      /\ c.amount = d.amount => c = d
    BY DEF BidsClimb
  <2>1. CASE x # a \/ (c # b /\ d # b)
    BY <1>5, <1>6, <2>1 DEF BiddingInv, BookInv, BidsClimb
  <2>2. CASE x = a /\ c = b
    BY <1>2, <1>3, <1>6, <2>2 DEF BidRow
  <2>3. CASE x = a /\ c # b /\ d = b
    BY <1>2, <1>3, <1>6, <2>3 DEF BiddingInv, BookInv, BidsClimb
  <2> QED  BY <2>1, <2>2, <2>3
<1>11. TopBidIsFunded'
  <2> SUFFICES ASSUME NEW x \in Auctions, NEW u \in Users
               PROVE  held'[x][u] >= (IF TopBid(x).bidder = u THEN TopBid(x).amount ELSE 0)'
    BY DEF TopBidIsFunded
  <2>1. held[x][u] >= IF TopBid(x).bidder = u THEN TopBid(x).amount ELSE 0
    BY DEF BiddingInv, BookInv, TopBidIsFunded
  <2>2. held[x][u] \in Int /\ bid[r].amount \in Nat /\ bid[r].prev.amount \in Nat
    BY BidFields DEF BiddingInv, AuctionTypeOK
  <2>3. CASE x # a
    <3>1. held'[x] = held[x]
      BY <1>2, <2>3 DEF CommitBid, BiddingInv, AuctionTypeOK
    <3> QED  BY <1>5, <2>1, <2>3, <3>1 DEF TopBid
  <2>4. CASE x = a
    <3>1. TopBid(x)' = b
      <4>1. Highest(bids[x] \cup {b}) = b
        BY <1>2, <1>3, <2>4, NewHighest DEF BiddingInv, AuctionTypeOK
      <4>2. bids'[x] # {} /\ bids'[x] = bids[x] \cup {b}
        BY <1>6, <2>4
      <4> QED  BY <4>1, <4>2 DEF TopBid
    <3>2. held'[x][u] = IF u = bid[r].user THEN held[x][u] + bid[r].amount
                        ELSE IF u = bid[r].prev.bidder THEN held[x][u] - bid[r].prev.amount
                        ELSE held[x][u]
      BY <1>2, <2>4 DEF CommitBid, BiddingInv, AuctionTypeOK
    <3>3. bid[r].prev.bidder \in Users => bid[r].prev = TopBid(x)
      BY <1>1, <2>4, CommitFacts, WalletAssumption DEF NoTop
    <3>4. TopBid(x).amount \in Nat
      <4>1. CASE bids[x] = {}
        BY <4>1 DEF TopBid, NoTop
      <4>2. CASE bids[x] # {}
        BY <1>3, <2>4, <4>2, TopBidFacts DEF BiddingInv, BookInv
      <4> QED  BY <4>1, <4>2
    <3>5. held[x][u] >= 0
      BY <2>1, <2>2, <3>4
    <3>6. CASE u = bid[r].user
      <4>1. held'[x][u] = held[x][u] + bid[r].amount
        BY <3>2, <3>6
      <4> QED  BY <2>2, <3>1, <3>5, <3>6, <4>1
    <3>7. CASE u # bid[r].user /\ u = bid[r].prev.bidder
      <4>1. held'[x][u] = held[x][u] - bid[r].prev.amount
        BY <3>2, <3>7
      <4>2. held[x][u] >= bid[r].prev.amount
        BY <2>1, <3>3, <3>7
      <4> QED  BY <2>2, <3>1, <3>7, <4>1, <4>2
    <3>8. CASE u # bid[r].user /\ u # bid[r].prev.bidder
      BY <2>2, <3>1, <3>2, <3>5, <3>8
    <3> QED  BY <3>6, <3>7, <3>8
  <2> QED  BY <2>3, <2>4
<1>12. AnnouncedAreCommitted'
  BY <1>4, <1>5, <1>6 DEF BiddingInv, BookInv, AnnouncedAreCommitted
<1> QED  BY <1>8, <1>9, <1>10, <1>11, <1>12 DEF BookInv

LEMMA CommitBidKeepsInv ==
    ASSUME BiddingInv, NEW r \in Requests, CommitBid(r)
    PROVE  BiddingInv'
<1> DEFINE a == bid[r].auction
           b == [bidder |-> bid[r].user, amount |-> bid[r].amount]
<1>1. bid[r].pc = "commit" /\ bid' = [bid EXCEPT ![r].pc = "publish"]
  BY DEF CommitBid
<1>2. a \in Auctions /\ b \in BidRow
  BY <1>1, CommitFacts, BidFields DEF BiddingInv, BidRow
<1>3. AuctionTypeOK'
  <2>1. bid' \in [Requests -> Bid]
    <3>1. [bid[r] EXCEPT !.pc = "publish"] \in Bid
      BY DEF BiddingInv, AuctionTypeOK, Bid, BidPc
    <3> QED  BY <1>1, <3>1 DEF BiddingInv, AuctionTypeOK
  <2>2. bids' \in [Auctions -> SUBSET BidRow]
    BY <1>2 DEF CommitBid, BiddingInv, AuctionTypeOK
  <2>3. auction' \in [Auctions -> AuctionRow]
    <3>1. auction[a] \in AuctionRow /\ bid[r].amount \in Nat
      BY <1>2, BidFields DEF BiddingInv, AuctionTypeOK
    <3>2. [auction[a] EXCEPT !.price = bid[r].amount, !.totalBids = @ + 1] \in AuctionRow
      <4>1. \A row \in AuctionRow : \A price, n \in Nat :
              [row EXCEPT !.price = price, !.totalBids = n] \in AuctionRow
        BY DEF AuctionRow
      <4>2. auction[a].totalBids + 1 \in Nat
        BY <3>1 DEF AuctionRow
      <4> QED  BY <3>1, <4>1, <4>2
    <3>3. auction' = [auction EXCEPT
                        ![a] = [auction[a] EXCEPT !.price = bid[r].amount, !.totalBids = @ + 1]]
      BY DEF CommitBid
    <3> QED  BY <3>2, <3>3 DEF BiddingInv, AuctionTypeOK
  <2>4. held' \in [Auctions -> [Users -> Int]]
    <3>1. bid[r].amount \in Nat /\ bid[r].prev.amount \in Nat
      BY BidFields DEF BiddingInv
    <3>2. held[a] \in [Users -> Int]
      BY <1>2 DEF BiddingInv, AuctionTypeOK
    <3> DEFINE mine == [x \in Users |->
                          IF x = bid[r].user THEN held[a][bid[r].user] + bid[r].amount
                          ELSE IF x = bid[r].prev.bidder
                               THEN held[a][bid[r].prev.bidder] - bid[r].prev.amount
                          ELSE held[a][x]]
    <3>3. mine \in [Users -> Int]
      BY <3>1, <3>2
    <3>4. held' = [held EXCEPT ![a] = mine]
      BY DEF CommitBid
    <3> QED  BY <3>3, <3>4 DEF BiddingInv, AuctionTypeOK
  <2>5. auctionLock' \in [Auctions -> Requests \cup {None}]
    BY DEF CommitBid, UnlockAuctions, BiddingInv, AuctionTypeOK
  <2> QED  BY <2>1, <2>2, <2>3, <2>4, <2>5 DEF CommitBid, BiddingInv, AuctionTypeOK
<1>4. BidInv'
  <2>1. ASSUME NEW q \in Requests, q # r
        PROVE  BidInvOf(q)'
    <3>1. bid'[q] = bid[q] /\ req' = req
      BY <2>1 DEF CommitBid, BiddingInv, AuctionTypeOK
    <3>2. ASSUME NEW u \in Users, walletLock[u] = q
          PROVE  walletLock'[u] = q /\ balance'[u] = balance[u]
      <4>1. u # bid[r].user /\ u # bid[r].prev.bidder
        BY <1>1, <2>1, <3>2, CommitFacts, WalletAssumption DEF NoTop
      <4> QED  BY <2>1, <3>2, <4>1 DEF CommitBid, UnlockWallets
    <3>3. ASSUME NEW x \in Auctions
          PROVE  /\ bids[x] \subseteq bids'[x]
                 /\ auctionLock[x] = q => /\ auctionLock'[x] = q /\ auction'[x] = auction[x]
                                          /\ bids'[x] = bids[x]
      <4>1. auctionLock[x] = q => x # a
        BY <1>1, <2>1, CommitFacts
      <4> QED  BY <1>2, <2>1, <4>1 DEF CommitBid, UnlockAuctions, BiddingInv, AuctionTypeOK
    <3>4. RespectsRowsOf(q)
      BY <3>1, <3>2, <3>3 DEF RespectsRowsOf
    <3> QED  BY <3>4, RespectedBidKeepsInv DEF BiddingInv, BidInv, BookInv
  <2>2. BidInvOf(r)'
    <3>1. /\ bid'[r].pc = "publish" /\ bid'[r].auction = a
          /\ bid'[r].user = bid[r].user /\ bid'[r].amount = bid[r].amount
      BY <1>1 DEF BiddingInv, AuctionTypeOK, Bid
    <3>2. EventIsCommitted(r)'
      BY <1>2, <3>1 DEF EventIsCommitted, CommitBid, BiddingInv, AuctionTypeOK
    <3>3. OneRole(r)'
      BY <1>1, CommitFacts DEF OneRole, CommitBid
    <3> QED  BY <3>1, <3>2, <3>3 DEF BidInvOf, AuctionRowIsMine, Decides, BidderRowIsMine,
             HasHeld, PreviousRowIsMine, PreviousIsTop, FundsWereSeen
  <2> QED  BY <2>1, <2>2 DEF BidInv
<1> QED  BY <1>3, <1>4, CommitBidKeepsWalletInv, CommitBidKeepsBook DEF BiddingInv

LEMMA PublishBidKeepsInv ==
    ASSUME BiddingInv, NEW r \in Requests, PublishBid(r)
    PROVE  BiddingInv'
<1> DEFINE a == bid[r].auction
           b == [bidder |-> bid[r].user, amount |-> bid[r].amount]
<1>1. a \in Auctions /\ b \in bids[a]
  BY DEF PublishBid, BiddingInv, BidInv, BidInvOf, EventIsCommitted
<1>2. announced' \in {announced, [announced EXCEPT ![a] = @ \cup {b}]}
  BY DEF PublishBid
<1>3. WalletInv'
  BY WalletStutterInv DEF BiddingInv, PublishBid
<1>4. AuctionTypeOK'
  <2>1. b \in BidRow
    BY <1>1 DEF BiddingInv, AuctionTypeOK
  <2>2. announced' \in [Auctions -> SUBSET BidRow]
    BY <1>2, <2>1 DEF BiddingInv, AuctionTypeOK
  <2> QED  BY <2>2, NoBidIsBid DEF PublishBid, BiddingInv, AuctionTypeOK
<1>5. BidInv'
  <2>1. ASSUME NEW q \in Requests, q # r
        PROVE  BidInvOf(q)'
    BY <2>1, PrivateStepRespects DEF PublishBid, walletVars
  <2>2. BidInvOf(r)'
    BY NoBidKeepsInv DEF PublishBid, BiddingInv, AuctionTypeOK
  <2> QED  BY <2>1, <2>2 DEF BidInv
<1>6. BookInv'
  <2>1. PriceIsTopBid' /\ BidsClimb' /\ TopBidIsFunded' /\ BiddersMayBid'
    BY DEF PublishBid, BiddingInv, BookInv, PriceIsTopBid, BidsClimb, TopBidIsFunded,
       TopBid,
       BiddersMayBid
  <2>2. AnnouncedAreCommitted'
    BY <1>1, <1>2 DEF PublishBid, BiddingInv, BookInv, AnnouncedAreCommitted, AuctionTypeOK
  <2> QED  BY <2>1, <2>2 DEF BookInv
<1> QED  BY <1>3, <1>4, <1>5, <1>6 DEF BiddingInv

-----------------------------------------------------------------------------
(* Whatever the auctions' status is at first.                              *)
LEMMA InitWithInv ==
    ASSUME NEW status \in AuctionStatus, InitWith(NewAuction(status))
    PROVE  BiddingInv
<1> USE WalletAssumption, BiddingAssumption DEF InitWith
<1>1. Idle \in Request /\ 0 \in Balances /\ Deposit \in Balances
  BY DEF Idle, NewRequest, Request, WalletPc, Balances
<1>2. WalletTypeOK
  BY <1>1 DEF WalletTypeOK, WithdrawalRow, NoWithdrawal, TransactionType, Balances
<1>3. LedgerMatchesBalance
  BY DEF LedgerMatchesBalance, LedgerTotal, TransactionType
<1>4. RequestInv /\ PendingHasOwner
  BY DEF RequestInv, PendingHasOwner, Idle, NewRequest, WalletRowIsMine, FreshWithdrawal,
         ClaimIsMine, MovesMoney, AsksForMoney, Settles, NoWithdrawal
<1>5. AuctionTypeOK
  BY NoBidIsBid DEF AuctionTypeOK, AuctionRow, AuctionStatus, NewAuction
<1>6. BidInv
  BY NoBidIsBid DEF BidInv, BidInvOf, AuctionRowIsMine, Decides, BidderRowIsMine, HasHeld,
     PreviousRowIsMine, PreviousIsTop, FundsWereSeen, EventIsCommitted, OneRole
<1>7. BookInv
  BY FS_EmptySet DEF BookInv, PriceIsTopBid, BidsClimb, TopBidIsFunded, TopBid, NoTop,
     AnnouncedAreCommitted, BiddersMayBid, NewAuction
<1> QED  BY <1>2, <1>3, <1>4, <1>5, <1>6, <1>7 DEF BiddingInv, WalletInv

LEMMA BiddingInitInv ==
    BiddingInit => BiddingInv
BY InitWithInv DEF BiddingInit, AuctionStatus

LEMMA BiddingStutterInv ==
    ASSUME BiddingInv, UNCHANGED biddingVars
    PROVE  BiddingInv'
<1>1. WalletInv' /\ BookInv'
  BY WalletStutterInv, BookStutters DEF BiddingInv, biddingVars, auctionVars
<1>2. AuctionTypeOK'
  BY DEF BiddingInv, AuctionTypeOK, biddingVars, auctionVars
<1>3. ASSUME NEW q \in Requests
      PROVE  BidInvOf(q)'
  <2>1. RespectsRowsOf(q)
    BY DEF RespectsRowsOf, biddingVars, walletVars, auctionVars
  <2> QED  BY <2>1, RespectedBidKeepsInv DEF BiddingInv, BidInv, BookInv
<1> QED  BY <1>1, <1>2, <1>3 DEF BiddingInv, BidInv

(* Whichever bid or request of a wallet takes whatever step, the invariant *)
(* is kept.                                                                *)
LEMMA BiddingNextInv ==
    ASSUME BiddingInv, [BiddingNext]_biddingVars
    PROVE  BiddingInv'
<1>1. ASSUME NEW r \in Requests, BidStep(r)
      PROVE  BiddingInv'
  <2>1. CASE \E a \in Auctions, u \in Users, amount \in BidAmounts : LockAuction(r, a, u, amount)
    BY <2>1, LockAuctionKeepsInv
  <2>2. CASE CheckFunds(r)
    BY <2>2, CheckFundsKeepsInv
  <2>3. CASE HoldFunds(r)
    BY <2>3, HoldFundsKeepsInv
  <2>4. CASE FindPrevious(r)
    BY <2>4, FindPreviousKeepsInv
  <2>5. CASE ReleasePrevious(r)
    BY <2>5, ReleasePreviousKeepsInv
  <2>6. CASE CommitBid(r)
    BY <2>6, CommitBidKeepsInv
  <2>7. CASE PublishBid(r)
    BY <2>7, PublishBidKeepsInv
  <2>8. CASE RefuseBid(r) \/ OverflowBid(r) \/ AbortBid(r)
    <3>1. bid[r] # NoBid /\ RollbackBid(r)
      BY <2>8, NoBidIsBid DEF RefuseBid, OverflowBid, AbortBid
    <3> QED  BY <3>1, RollbackBidKeepsInv
  <2> QED  BY <1>1, <2>1, <2>2, <2>3, <2>4, <2>5, <2>6, <2>7, <2>8 DEF BidStep, ProceedBid
<1>2. ASSUME NEW r \in Requests, WalletStep(r)
      PROVE  BiddingInv'
  BY <1>2, WalletStepKeepsInv
<1> QED  BY <1>1, <1>2, BiddingStutterInv DEF BiddingNext

(* The inductive invariant: the wallet's books, the rows each bid in       *)
(* flight has locked, and the table of bids (placeBid,                     *)
(* auctions.service.ts:146-275).                                           *)
THEOREM BiddingInvariant == BiddingSpec => []BiddingInv
<1>1. BiddingInv /\ [BiddingNext]_biddingVars => BiddingInv'
  BY BiddingNextInv
<1> QED  BY <1>1, BiddingInitInv, PTL DEF BiddingSpec

(* Every variable keeps its type; no balance leaves its column, although   *)
(* bids on several auctions and the wallet's requests move the same        *)
(* wallets.                                                                *)
THEOREM BiddingTypeCorrect == BiddingSpec => []BiddingTypeOK
<1>1. BiddingInv => BiddingTypeOK
  BY DEF BiddingInv, WalletInv, BiddingTypeOK
<1> QED  BY <1>1, BiddingInvariant, PTL

(* Holds and releases of bids keep the balance equal to the sum of the     *)
(* ledger rows (auctions.service.ts:192-233).                              *)
THEOREM BidsKeepTheLedger == BiddingSpec => []LedgerMatchesBalance
<1>1. BiddingInv => LedgerMatchesBalance
  BY DEF BiddingInv, WalletInv
<1> QED  BY <1>1, BiddingInvariant, PTL

(* The price shown is the highest bid and the counter counts the bids, for *)
(* any number of bidders at once (auctions.service.ts:236-252).            *)
THEOREM PriceIsAlwaysTopBid == BiddingSpec => []PriceIsTopBid
<1>1. BiddingInv => PriceIsTopBid
  BY DEF BiddingInv, BookInv
<1> QED  BY <1>1, BiddingInvariant, PTL

(* Two bids on one auction never lie closer than the increment             *)
(* (auctions.service.ts:171-179).                                          *)
THEOREM BidsAlwaysClimb == BiddingSpec => []BidsClimb
<1>1. BiddingInv => BidsClimb
  BY DEF BiddingInv, BookInv
<1> QED  BY <1>1, BiddingInvariant, PTL

(* The standing bid is covered by money held from its bidder, and nothing  *)
(* is released that was not held (auctions.service.ts:188-233).            *)
THEOREM TopBidAlwaysFunded == BiddingSpec => []TopBidIsFunded
<1>1. BiddingInv => TopBidIsFunded
  BY DEF BiddingInv, BookInv
<1> QED  BY <1>1, BiddingInvariant, PTL

(* No bid is announced that was rolled back (auctions.service.ts:255-272). *)
THEOREM OnlyCommittedAnnounced == BiddingSpec => []AnnouncedAreCommitted
<1>1. BiddingInv => AnnouncedAreCommitted
  BY DEF BiddingInv, BookInv
<1> QED  BY <1>1, BiddingInvariant, PTL

-----------------------------------------------------------------------------
(* The sum of what is held.                                                *)

(* A new bid on top releases the one that was, if another user made it,    *)
(* and nothing else.                                                       *)
LEMMA CommitReleasesTop ==
    ASSUME BiddingInv, NEW r \in Requests, CommitBid(r),
           NEW a, a = bid[r].auction,
           NEW b, b = [bidder |-> bid[r].user, amount |-> bid[r].amount],
           NEW c \in bids[a]
    PROVE  Released(a, c)' <=> Released(a, c) \/ (c = TopBid(a) /\ c.bidder # b.bidder)
<1>1. bid[r].pc = "commit"
  BY DEF CommitBid
<1>2. /\ a \in Auctions /\ b \in BidRow
      /\ \A d \in bids[a] : d \in BidRow /\ d.amount + BidIncrement <= b.amount
  BY <1>1, CommitFacts, BidFields DEF BiddingInv, AuctionTypeOK, BidRow
<1>3. b.amount \in Nat /\ \A d \in bids[a] : d.amount \in Nat /\ d.amount < b.amount
  BY <1>2, BiddingAssumption DEF BidRow
<1>4. bids'[a] = bids[a] \cup {b}
  BY <1>2 DEF CommitBid, BiddingInv, AuctionTypeOK
<1>5. TopBid(a) \in bids[a] /\ \A d \in bids[a] : d.amount <= TopBid(a).amount
  BY <1>2, TopBidFacts DEF BiddingInv, BookInv
<1>6. \A d, e \in bids[a] : d.amount = e.amount => d = e
  BY <1>2 DEF BiddingInv, BookInv, BidsClimb
<1> PICK rows : rows = bids[a]
  OBVIOUS
<1> PICK top : top = TopBid(a)
  OBVIOUS
<1>7. Released(a, c) <=> \E d \in rows : /\ d.amount > c.amount /\ d.bidder # c.bidder
                                         /\ \A e \in rows : e.amount > c.amount => e.amount >= d.amount
  BY DEF Released
<1>8. Released(a, c)' <=>
         \E d \in rows \cup {b} :
            /\ d.amount > c.amount /\ d.bidder # c.bidder
            /\ \A e \in rows \cup {b} : e.amount > c.amount => e.amount >= d.amount
  BY <1>4 DEF Released
<1>9. CASE c = top
  <2>1. \A d \in rows : ~(d.amount > c.amount)
    BY <1>3, <1>5, <1>9
  <2>2. b.amount > c.amount /\ c.amount \in Nat
    BY <1>3
  <2>3. Released(a, c)' <=> b.bidder # c.bidder
    BY <1>3, <1>8, <2>1, <2>2
  <2> QED  BY <1>7, <1>9, <2>1, <2>3
<1>10. CASE c # top
  <2>1. top \in rows /\ top.amount > c.amount /\ top.amount < b.amount
    BY <1>3, <1>5, <1>6, <1>10
  <2>2. ASSUME Released(a, c)
        PROVE  Released(a, c)'
    <3>1. PICK d \in rows : /\ d.amount > c.amount /\ d.bidder # c.bidder
                            /\ \A e \in rows : e.amount > c.amount => e.amount >= d.amount
      BY <1>7, <2>2
    <3>2. b.amount >= d.amount
      BY <1>3
    <3> QED  BY <1>8, <3>1, <3>2
  <2>3. ASSUME Released(a, c)'
        PROVE  Released(a, c)
    <3>1. PICK d \in rows \cup {b} :
             /\ d.amount > c.amount /\ d.bidder # c.bidder
             /\ \A e \in rows \cup {b} : e.amount > c.amount => e.amount >= d.amount
      BY <1>8, <2>3
    <3>2. d # b
      BY <1>3, <2>1, <3>1
    <3> QED  BY <1>7, <3>1, <3>2
  <2> QED  BY <1>10, <2>2, <2>3
<1> QED  BY <1>9, <1>10

(* So the bids held are the ones before, with the new one and without the  *)
(* one that is released.                                                   *)
LEMMA CommitChangesHeld ==
    ASSUME BiddingInv, NEW r \in Requests, CommitBid(r),
           NEW a, a = bid[r].auction,
           NEW b, b = [bidder |-> bid[r].user, amount |-> bid[r].amount],
           NEW u \in Users
    PROVE  /\ u = b.bidder => HeldBids(a, u)' = HeldBids(a, u) \cup {b} /\ b \notin HeldBids(a, u)
           /\ u # b.bidder /\ u = bid[r].prev.bidder =>
                 /\ HeldBids(a, u)' = HeldBids(a, u) \ {bid[r].prev}
                 /\ bid[r].prev \in HeldBids(a, u)
           /\ u # b.bidder /\ u # bid[r].prev.bidder => HeldBids(a, u)' = HeldBids(a, u)
<1>1. bid[r].pc = "commit"
  BY DEF CommitBid
<1>2. /\ a \in Auctions /\ b \in BidRow
      /\ \A d \in bids[a] : d \in BidRow /\ d.amount + BidIncrement <= b.amount
  BY <1>1, CommitFacts, BidFields DEF BiddingInv, AuctionTypeOK, BidRow
<1>3. b.amount \in Nat /\ \A d \in bids[a] : d.amount \in Nat /\ d.amount < b.amount
  BY <1>2, BiddingAssumption DEF BidRow
<1>4. bids'[a] = bids[a] \cup {b} /\ b \notin bids[a]
  BY <1>2, <1>3 DEF CommitBid, BiddingInv, AuctionTypeOK
<1> PICK top, prev : top = TopBid(a) /\ prev = bid[r].prev
  OBVIOUS
<1>5. prev = IF top.bidder \in {None, b.bidder} THEN NoTop ELSE top
  BY <1>1 DEF BiddingInv, BidInv, BidInvOf, PreviousIsTop
<1>6. /\ bids[a] # {} => top \in bids[a] /\ top.bidder \in Users
      /\ bids[a] = {} => top = NoTop
      /\ \A d \in bids[a] : d.amount <= top.amount
  BY <1>2, TopBidFacts DEF BiddingInv, BookInv
<1>7. None \notin Users /\ u # None
  BY WalletAssumption
<1>8. ~Released(a, b)'
  <2>1. \A d \in bids[a] \cup {b} : ~(d.amount > b.amount)
    BY <1>3
  <2> QED  BY <1>4, <2>1 DEF Released
<1>9. \A c \in bids[a] : Released(a, c)' <=> Released(a, c) \/ (c = top /\ c.bidder # b.bidder)
  BY CommitReleasesTop
<1>10. top \in bids[a] => ~Released(a, top)
  <2> SUFFICES ASSUME top \in bids[a], Released(a, top)
               PROVE  FALSE
    OBVIOUS
  <2>1. PICK d \in bids[a] : d.amount > top.amount
    BY DEF Released
  <2> QED  BY <1>3, <1>6, <2>1
<1>11. HeldBids(a, u)' = {c \in bids[a] \cup {b} : c.bidder = u /\ ~Released(a, c)'}
  BY <1>4 DEF HeldBids
<1>12. HeldBids(a, u) = {c \in bids[a] : c.bidder = u /\ ~Released(a, c)}
  BY DEF HeldBids
<1>13. CASE u = b.bidder
  <2>1. \A c \in bids[a] : c.bidder = u => (Released(a, c)' <=> Released(a, c))
    BY <1>9, <1>13
  <2>2. HeldBids(a, u)' = HeldBids(a, u) \cup {b}
    BY <1>8, <1>11, <1>12, <1>13, <2>1
  <2> QED  BY <1>4, <1>12, <1>13, <2>2
<1>14. CASE u # b.bidder /\ u = prev.bidder
  <2>1. prev = top /\ top \in bids[a] /\ top.bidder = u
    BY <1>5, <1>6, <1>7, <1>14 DEF NoTop
  <2>2. \A c \in bids[a] : c.bidder = u => (Released(a, c)' <=> Released(a, c) \/ c = top)
    BY <1>9, <1>14
  <2>3. HeldBids(a, u)' = HeldBids(a, u) \ {top}
    BY <1>11, <1>12, <1>14, <2>2
  <2> QED  BY <1>10, <1>12, <1>14, <2>1, <2>3
<1>15. CASE u # b.bidder /\ u # prev.bidder
  <2>1. bids[a] # {} => top.bidder # u
    BY <1>5, <1>6, <1>7, <1>15 DEF NoTop
  <2>2. \A c \in bids[a] : c.bidder = u => (Released(a, c)' <=> Released(a, c))
    BY <1>9, <2>1
  <2>3. HeldBids(a, u)' = HeldBids(a, u)
    BY <1>11, <1>12, <1>15, <2>2
  <2> QED  BY <1>15, <2>3
<1> QED  BY <1>13, <1>14, <1>15

LEMMA HoldsByHeldBids ==
    HoldsAreExact <=> \A a \in Auctions, u \in Users :
                         held[a][u] = SumFunctionOnSet([b \in bids[a] |-> b.amount], HeldBids(a, u))
BY DEF HoldsAreExact, HeldFor

LEMMA CommitKeepsHolds ==
    ASSUME BiddingInv, HoldsAreExact, NEW r \in Requests, CommitBid(r)
    PROVE  HoldsAreExact'
<1> PICK a, b, prev : /\ a = bid[r].auction
                      /\ b = [bidder |-> bid[r].user, amount |-> bid[r].amount]
                      /\ prev = bid[r].prev
  OBVIOUS
<1>1. /\ a \in Auctions /\ b \in BidRow /\ b.amount \in Nat /\ b.bidder \in Users
      /\ prev.amount \in Nat
      /\ \A x \in Auctions : bids[x] \in SUBSET BidRow /\ IsFiniteSet(bids[x])
  BY CommitFacts, BidFields DEF CommitBid, BiddingInv, AuctionTypeOK, BidRow, BookInv, BiddersMayBid
<1>2. \A x \in Auctions \ {a} : bids'[x] = bids[x] /\ held'[x] = held[x]
  BY <1>1 DEF CommitBid, BiddingInv, AuctionTypeOK
<1>3. bids'[a] = bids[a] \cup {b}
  BY <1>1 DEF CommitBid, BiddingInv, AuctionTypeOK
<1>4. \A u \in Users : held'[a][u] = IF u = b.bidder THEN held[a][u] + b.amount
                                     ELSE IF u = prev.bidder THEN held[a][u] - prev.amount
                                     ELSE held[a][u]
  BY <1>1 DEF CommitBid, BiddingInv, AuctionTypeOK
<1>5. \A x \in Auctions, u \in Users :
         held[x][u] = SumFunctionOnSet([c \in bids[x] |-> c.amount], HeldBids(x, u))
  BY HoldsByHeldBids
<1>6. ASSUME NEW x \in Auctions, NEW u \in Users
      PROVE  held'[x][u] = SumFunctionOnSet([c \in bids'[x] |-> c.amount], HeldBids(x, u)')
  <2>1. CASE x # a
    <3>1. HeldBids(x, u)' = HeldBids(x, u)
      BY <1>2, <2>1 DEF HeldBids, Released
    <3> QED  BY <1>2, <1>5, <2>1, <3>1
  <2>2. CASE x = a
    <3> PICK f, g, S, T : /\ f = [c \in bids[a] |-> c.amount]
                          /\ g = [c \in bids'[a] |-> c.amount]
                          /\ S = HeldBids(a, u) /\ T = HeldBids(a, u)'
      OBVIOUS
    <3>1. S \subseteq bids[a] /\ IsFiniteSet(S)
      <4>1. S \subseteq bids[a]
        BY DEF HeldBids
      <4> QED  BY <1>1, <4>1, FS_Subset
    <3>2. \A c \in S : f[c] = g[c] /\ f[c] \in Int
      BY <1>1, <1>3, <3>1 DEF BidRow
    <3>3. g[b] = b.amount
      BY <1>3
    <3>4. SumFunctionOnSet(f, S) = SumFunctionOnSet(g, S)
      <4>1. IsFiniteSet(S) /\ \A c \in S : f[c] = g[c]
        BY <3>1, <3>2
      <4> QED  BY ONLY <4>1, SumOfSame
    <3>5. PICK sum \in Int : sum = SumFunctionOnSet(g, S)
      BY <3>1, <3>2, <3>4, SumIsInt
    <3>6. held[a][u] = sum
      BY <1>1, <1>5, <3>4, <3>5
    <3>7. CASE u = b.bidder
      <4>1. T = S \cup {b} /\ b \notin S
        <5>1. HeldBids(a, u)' = HeldBids(a, u) \cup {b} /\ b \notin HeldBids(a, u)
          <6>1. a = bid[r].auction /\ b = [bidder |-> bid[r].user, amount |-> bid[r].amount]
            OBVIOUS
          <6> QED  BY ONLY BiddingInv, CommitBid(r), r \in Requests, u \in Users, <3>7, <6>1,
                       CommitChangesHeld
        <5> QED  BY <5>1, Zenon
      <4>2. \A c \in S \cup {b} : g[c] \in Int
        <5>1. g[b] \in Int
          BY <1>1, <3>3
        <5>2. \A c \in S : g[c] \in Int
          BY <3>2
        <5> QED  BY <5>1, <5>2
      <4>3. SumFunctionOnSet(g, T) = b.amount + sum
        <5>1. SumFunctionOnSet(g, S \cup {b}) = g[b] + SumFunctionOnSet(g, S)
          BY ONLY <3>1, <4>1, <4>2, SumOfMore
        <5> QED  BY <3>3, <3>5, <4>1, <5>1
      <4>4. held'[a][u] = sum + b.amount
        BY <1>4, <3>6, <3>7
      <4>5. b.amount + sum = sum + b.amount
        BY <1>1
      <4> QED  BY <2>2, <4>3, <4>4, <4>5
    <3>8. CASE u # b.bidder /\ u = prev.bidder
      <4>1. T = S \ {prev} /\ prev \in S
        <5>1. u # b.bidder /\ u = bid[r].prev.bidder
          BY <3>8
        <5>2. HeldBids(a, u)' = HeldBids(a, u) \ {bid[r].prev} /\ bid[r].prev \in HeldBids(a, u)
          <6>1. a = bid[r].auction /\ b = [bidder |-> bid[r].user, amount |-> bid[r].amount]
            OBVIOUS
          <6> QED  BY ONLY BiddingInv, CommitBid(r), r \in Requests, u \in Users, <5>1, <6>1,
                       CommitChangesHeld
        <5>3. HeldBids(a, u)' = HeldBids(a, u) \ {prev} /\ prev \in HeldBids(a, u)
          BY <5>2
        <5> QED  BY <5>3, Zenon
      <4>2. SumFunctionOnSet(g, S) = g[prev] + SumFunctionOnSet(g, T)
        <5>1. \A c \in S : g[c] \in Int
          BY <3>2
        <5>2. SumFunctionOnSet(g, S) = g[prev] + SumFunctionOnSet(g, S \ {prev})
          BY ONLY <3>1, <4>1, <5>1, SumTakesAny
        <5> QED  BY <4>1, <5>2
      <4>3. g[prev] = prev.amount
        BY <1>3, <3>1, <4>1
      <4>4. IsFiniteSet(T) /\ \A c \in T : g[c] \in Int
        <5>1. IsFiniteSet(S \ {prev})
          BY ONLY <3>1, FS_RemoveElement
        <5>2. \A c \in S \ {prev} : g[c] \in Int
          BY <3>2
        <5> QED  BY <4>1, <5>1, <5>2
      <4>5. PICK rest \in Int : rest = SumFunctionOnSet(g, T)
        BY <4>4, SumIsInt
      <4>6. held'[a][u] = sum - prev.amount
        BY <1>4, <3>6, <3>8
      <4>7. sum = prev.amount + rest
        BY <3>5, <4>2, <4>3, <4>5
      <4>8. sum - prev.amount = rest
        BY <1>1, <4>7
      <4> QED  BY <2>2, <4>5, <4>6, <4>8
    <3>9. CASE u # b.bidder /\ u # prev.bidder
      <4>1. T = S
        BY <3>9, CommitChangesHeld
      <4>2. held'[a][u] = sum
        BY <1>4, <3>6, <3>9
      <4> QED  BY <2>2, <3>5, <4>1, <4>2
    <3> QED  BY <3>7, <3>8, <3>9
  <2> QED  BY <2>1, <2>2
<1> QED  BY <1>6 DEF HoldsAreExact, HeldFor

LEMMA HoldsStutter ==
    ASSUME HoldsAreExact, UNCHANGED <<bids, held>>
    PROVE  HoldsAreExact'
<1>1. \A a \in Auctions, u \in Users : HeldBids(a, u)' = HeldBids(a, u)
  BY DEF HeldBids, Released
<1>2. \A a \in Auctions, u \in Users :
         held'[a][u] = SumFunctionOnSet([b \in bids'[a] |-> b.amount], HeldBids(a, u)')
  BY <1>1, HoldsByHeldBids
<1> QED  BY <1>2 DEF HoldsAreExact, HeldFor

(* What a step of bidding or of the wallet does to the sums.               *)
LEMMA HoldsStep ==
    ASSUME BiddingInv, HoldsAreExact, [BiddingNext]_biddingVars
    PROVE  HoldsAreExact'
<1>1. \/ UNCHANGED <<bids, held>>
      \/ \E r \in Requests : CommitBid(r)
  BY DEF BiddingNext, BidStep, ProceedBid, WalletStep, LockAuction, CheckFunds, HoldFunds,
         FindPrevious, ReleasePrevious, PublishBid, RefuseBid, OverflowBid, AbortBid,
         RollbackBid, biddingVars, auctionVars
<1> QED  BY <1>1, CommitKeepsHolds, HoldsStutter

LEMMA HoldsInit ==
    ASSUME \A a \in Auctions : bids[a] = {}, \A a \in Auctions, u \in Users : held[a][u] = 0
    PROVE  HoldsAreExact
<1>1. \A a \in Auctions, u \in Users : HeldBids(a, u) = {}
  BY DEF HeldBids
<1>2. \A f : SumFunctionOnSet(f, {}) = 0
  BY FS_EmptySet, SumEquation
<1> QED  BY <1>1, <1>2, HoldsByHeldBids

(* What the ledger shows as held for an auction is, bidder by bidder, the  *)
(* sum of the bids no other bidder has answered, for any number of bids    *)
(* and bidders (auctions.service.ts:192-233).                              *)
THEOREM HoldsAlwaysExact == BiddingSpec => []HoldsAreExact
<1>1. BiddingInit => HoldsAreExact
  BY HoldsInit DEF BiddingInit, InitWith
<1>2. BiddingInv /\ HoldsAreExact /\ [BiddingNext]_biddingVars => HoldsAreExact'
  BY HoldsStep
<1> QED  BY <1>1, <1>2, BiddingInvariant, PTL DEF BiddingSpec

-----------------------------------------------------------------------------
(* What the wallet promises of withdrawals, with bids around them.         *)

LEMMA BidsLeaveWithdrawals ==
    ASSUME BiddingInv, NEW r \in Requests, BidStep(r)
    PROVE  /\ withdrawal' = withdrawal /\ req' = req
           /\ \A u \in Users : /\ ledger'[u]["WITHDRAWAL"] = ledger[u]["WITHDRAWAL"]
                               /\ ledger'[u]["REFUND"] = ledger[u]["REFUND"]
<1>1. CASE CommitBid(r)
  <2>1. \A u \in Users : ledger[u] \in [TransactionType -> Int]
    BY DEF BiddingInv, WalletInv, WalletTypeOK
  <2> QED  BY <1>1, <2>1 DEF CommitBid, TransactionType
<1>2. CASE ~CommitBid(r)
  BY <1>2 DEF BidStep, ProceedBid, LockAuction, CheckFunds, HoldFunds, FindPrevious,
     ReleasePrevious, PublishBid, RefuseBid, OverflowBid, AbortBid, RollbackBid, walletVars
<1> QED  BY <1>1, <1>2

LEMMA WalletStepIsNext ==
    ASSUME NEW r \in Requests, WalletStep(r)
    PROVE  WalletNext
BY DEF WalletStep, WalletNext

LEMMA BiddingKeepsAccounts ==
    ASSUME BiddingInv, AccountsInv, ApprovalInv, [BiddingNext]_biddingVars
    PROVE  AccountsInv' /\ ApprovalInv'
<1>1. ASSUME NEW r \in Requests, WalletStep(r)
      PROVE  AccountsInv' /\ ApprovalInv'
  BY <1>1, WalletStepIsNext, AccountsStep, ApprovalStep DEF BiddingInv
<1>2. ASSUME withdrawal' = withdrawal, req' = req,
             \A u \in Users : /\ ledger'[u]["WITHDRAWAL"] = ledger[u]["WITHDRAWAL"]
                              /\ ledger'[u]["REFUND"] = ledger[u]["REFUND"]
      PROVE  AccountsInv' /\ ApprovalInv'
  <2>1. AccountsInv'
    BY <1>2, AccountsKept
  <2>2. ApprovalInv'
    BY <1>2 DEF ApprovalInv, CompletedByApproval, PendingHasTransaction, MarksAreMine, OfUser
  <2> QED  BY <2>1, <2>2
<1>3. CASE UNCHANGED biddingVars
  BY <1>2, <1>3 DEF biddingVars, walletVars
<1> QED  BY <1>1, <1>2, <1>3, BidsLeaveWithdrawals DEF BiddingNext

LEMMA AccountsStartWithDeposits ==
    ASSUME NEW row, InitWith(row)
    PROVE  AccountsInv /\ ApprovalInv
<1>1. AccountsInv
  BY AccountsStart DEF InitWith, TransactionType
<1>2. ApprovalInv
  BY DEF InitWith, ApprovalInv, CompletedByApproval, PendingHasTransaction, MarksAreMine, Idle,
     NewRequest, NoWithdrawal
<1> QED  BY <1>1, <1>2

(* Holds and releases of bids do not touch what withdrawals and refunds    *)
(* add up to, nor what an approval completes (wallet.service.ts:83-101,    *)
(* :168-196, auctions.service.ts:192-233).                                 *)
THEOREM BidsKeepWithdrawalsAccounted ==
    BiddingSpec => [](WithdrawnMoneyAccounted /\ CompletedByApproval)
<1>1. BiddingInit => AccountsInv /\ ApprovalInv
  BY AccountsStartWithDeposits DEF BiddingInit
<1>2. BiddingInv /\ AccountsInv /\ ApprovalInv /\ [BiddingNext]_biddingVars
         => AccountsInv' /\ ApprovalInv'
  BY BiddingKeepsAccounts
<1>3. AccountsInv /\ ApprovalInv => WithdrawnMoneyAccounted /\ CompletedByApproval
  BY DEF AccountsInv, ApprovalInv
<1> QED  BY <1>1, <1>2, <1>3, BiddingInvariant, PTL DEF BiddingSpec

(* A withdrawal is settled once and refunded only by its rejection also    *)
(* while bids move the same wallets (wallet.service.ts:144-196).           *)
THEOREM BidsSettleNoWithdrawal == BiddingSpec => SettledForGood /\ RefundOnlyByRejection
<1>1. ASSUME BiddingInv, [BiddingNext]_biddingVars
      PROVE  /\ [\A w \in Withdrawals : withdrawal[w].status \in {"APPROVED", "REJECTED"} =>
                    /\ withdrawal'[w].status = withdrawal[w].status
                    /\ withdrawal'[w].user = withdrawal[w].user
                    /\ withdrawal'[w].amount = withdrawal[w].amount]_walletVars
             /\ [\A u \in Users : ledger'[u]["REFUND"] # ledger[u]["REFUND"] =>
                   \E w \in Withdrawals :
                      /\ withdrawal[w].status = "PENDING" /\ withdrawal'[w].status = "REJECTED"
                      /\ withdrawal[w].user = u
                      /\ ledger'[u]["REFUND"] = ledger[u]["REFUND"] + withdrawal[w].amount]_walletVars
  <2>1. CASE \E r \in Requests : WalletStep(r)
    BY <1>1, <2>1, WalletStepIsNext, SettledStep, RefundStep DEF BiddingInv
  <2>2. CASE \E r \in Requests : BidStep(r)
    BY <1>1, <2>2, BidsLeaveWithdrawals
  <2>3. CASE UNCHANGED biddingVars
    BY <2>3 DEF biddingVars
  <2> QED  BY <1>1, <2>1, <2>2, <2>3 DEF BiddingNext
<1> QED  BY <1>1, BiddingInvariant, PTL DEF BiddingSpec, SettledForGood, RefundOnlyByRejection

-----------------------------------------------------------------------------
(* All the money: what is held on the auctions together is what the ledger *)
(* says of holds and releases, so every cent of a balance is accounted for *)
(* by the tables of top-ups, withdrawals and bids.                         *)

HeldInAll(u) == SumFunctionOnSet([a \in Auctions |-> held[a][u]], BidOn)

HoldsAddUp ==
    /\ IsFiniteSet(BidOn)
    /\ \A u \in Users : ledger[u]["BID_HOLD"] + ledger[u]["BID_RELEASE"] + HeldInAll(u) = 0

(* An element that counts for nothing may be in a sum or not.              *)
LEMMA SumSetAside ==
    ASSUME NEW S, IsFiniteSet(S), NEW x, NEW f, \A y \in S \cup {x} : f[y] \in Int,
           x \notin S => f[x] = 0
    PROVE  SumFunctionOnSet(f, S) = f[x] + SumFunctionOnSet(f, S \ {x})
<1>1. CASE x \in S
  <2>1. \A y \in S : f[y] \in Int
    OBVIOUS
  <2> QED  BY ONLY IsFiniteSet(S), <1>1, <2>1, SumTakesAny
<1>2. CASE x \notin S
  <2>1. S \ {x} = S
    BY <1>2
  <2>2. PICK sum \in Int : sum = SumFunctionOnSet(f, S)
    <3>1. \A y \in S : f[y] \in Int
      OBVIOUS
    <3> QED  BY ONLY IsFiniteSet(S), <3>1, SumIsInt
  <2>3. f[x] = 0 /\ 0 + sum = sum
    BY <1>2
  <2>4. SumFunctionOnSet(f, S \ {x}) = sum
    BY <2>1, <2>2
  <2> QED  BY <2>2, <2>3, <2>4, Zenon
<1> QED  BY <1>1, <1>2

(* A bid adds to the ledger what it adds to the holds of its auction, and  *)
(* takes off what it releases there.                                       *)
LEMMA CommitAddsUp ==
    ASSUME BiddingInv, HoldsAreExact, HoldsAddUp, NEW r \in Requests, CommitBid(r)
    PROVE  HoldsAddUp'
<1> PICK a, b, prev : /\ a = bid[r].auction
                      /\ b = [bidder |-> bid[r].user, amount |-> bid[r].amount]
                      /\ prev = bid[r].prev
  OBVIOUS
<1>1. a \in Auctions /\ b.amount \in Int /\ prev.amount \in Int
  BY CommitFacts, BidFields DEF CommitBid, BiddingInv
<1>2. \A x \in Auctions \ {a} : bids'[x] = bids[x] /\ held'[x] = held[x]
  BY <1>1 DEF CommitBid, BiddingInv, AuctionTypeOK
<1>3. bids'[a] = bids[a] \cup {b}
  BY <1>1 DEF CommitBid, BiddingInv, AuctionTypeOK
<1>4. \A u \in Users : held'[a][u] = IF u = b.bidder THEN held[a][u] + b.amount
                                     ELSE IF u = prev.bidder THEN held[a][u] - prev.amount
                                     ELSE held[a][u]
  BY <1>1 DEF CommitBid, BiddingInv, AuctionTypeOK
<1>5. \A u \in Users :
        /\ ledger'[u]["BID_HOLD"] = IF u = b.bidder THEN ledger[u]["BID_HOLD"] - b.amount
                                    ELSE ledger[u]["BID_HOLD"]
        /\ ledger'[u]["BID_RELEASE"] = IF u # b.bidder /\ u = prev.bidder
                                       THEN ledger[u]["BID_RELEASE"] + prev.amount
                                       ELSE ledger[u]["BID_RELEASE"]
  <2>1. \A u \in Users : ledger[u] \in [TransactionType -> Int]
    BY DEF BiddingInv, WalletInv, WalletTypeOK
  <2> QED  BY <2>1 DEF CommitBid, TransactionType
<1>6. BidOn' = BidOn \cup {a}
  BY <1>1, <1>2, <1>3 DEF BidOn
<1> PICK S, T, rest : S = BidOn /\ T = BidOn' /\ rest = S \ {a}
  OBVIOUS
<1>7. T \ {a} = rest /\ a \in T /\ rest \subseteq S /\ S \subseteq Auctions /\ T \subseteq Auctions
  BY <1>1, <1>6 DEF BidOn
<1>8. IsFiniteSet(S) /\ IsFiniteSet(T) /\ IsFiniteSet(rest)
  <2>1. IsFiniteSet(S)
    BY DEF HoldsAddUp
  <2> QED  BY <1>6, <2>1, FS_AddElement, FS_RemoveElement
<1>9. ASSUME NEW u \in Users
      PROVE  ledger'[u]["BID_HOLD"] + ledger'[u]["BID_RELEASE"] + HeldInAll(u)' = 0
  <2> PICK f, g : f = [x \in Auctions |-> held[x][u]] /\ g = [x \in Auctions |-> held'[x][u]]
    OBVIOUS
  <2>1. \A x \in Auctions : f[x] \in Int /\ f[x] = held[x][u] /\ g[x] = held'[x][u]
    BY DEF BiddingInv, AuctionTypeOK
  <2>2. \A x \in rest : f[x] = g[x]
    BY <1>2, <1>7, <2>1
  <2>3. a \notin S => f[a] = 0
    <3>1. SUFFICES ASSUME a \notin S
                   PROVE  held[a][u] = 0
      BY <1>1, <2>1
    <3>2. HeldBids(a, u) = {}
      BY <1>1, <3>1 DEF BidOn, HeldBids
    <3>3. \A h : SumFunctionOnSet(h, {}) = 0
      BY FS_EmptySet, SumEquation
    <3> QED  BY <1>1, <3>2, <3>3, HoldsByHeldBids
  <2>4. g[a] \in Int
    BY <1>1, <1>4, <2>1
  <2>5. SumFunctionOnSet(f, S) = f[a] + SumFunctionOnSet(f, rest)
    <3>1. \A x \in S \cup {a} : f[x] \in Int
      BY <1>1, <1>7, <2>1
    <3>2. SumFunctionOnSet(f, S) = f[a] + SumFunctionOnSet(f, S \ {a})
      BY ONLY <1>8, <2>3, <3>1, SumSetAside
    <3> QED  BY <3>2
  <2>6. SumFunctionOnSet(g, T) = g[a] + SumFunctionOnSet(g, rest)
    <3>1. \A x \in T : g[x] \in Int
      BY <1>7, <2>1, <2>2, <2>4
    <3>2. SumFunctionOnSet(g, T) = g[a] + SumFunctionOnSet(g, T \ {a})
      BY ONLY <1>7, <1>8, <3>1, SumTakesAny
    <3> QED  BY <1>7, <3>2
  <2>7. SumFunctionOnSet(f, rest) = SumFunctionOnSet(g, rest)
    BY ONLY <1>8, <2>2, SumOfSame
  <2>8. PICK sum \in Int : sum = SumFunctionOnSet(f, rest)
    <3>1. \A x \in rest : f[x] \in Int
      BY <1>7, <2>1
    <3> QED  BY ONLY <1>8, <3>1, SumIsInt
  <2>9. HeldInAll(u) = f[a] + sum /\ HeldInAll(u)' = g[a] + sum
    BY <2>5, <2>6, <2>7, <2>8 DEF HeldInAll
  <2>10. PICK hold \in Int, release \in Int, before \in Int :
            /\ hold = ledger[u]["BID_HOLD"] /\ release = ledger[u]["BID_RELEASE"]
            /\ before = f[a]
    <3>1. ledger[u]["BID_HOLD"] \in Int /\ ledger[u]["BID_RELEASE"] \in Int
      BY DEF BiddingInv, WalletInv, WalletTypeOK, TransactionType
    <3>2. f[a] \in Int
      BY <1>1, <2>1
    <3> QED  BY ONLY <3>1, <3>2
  <2>11. hold + release + (before + sum) = 0
    BY <2>9, <2>10 DEF HoldsAddUp
  <2>12. PICK more \in Int, less \in Int : more = b.amount /\ less = prev.amount
    BY <1>1
  <2>13. CASE u = b.bidder
    <3>1. /\ ledger'[u]["BID_HOLD"] = hold - more /\ ledger'[u]["BID_RELEASE"] = release
          /\ g[a] = before + more
      BY <1>1, <1>4, <1>5, <2>1, <2>10, <2>12, <2>13
    <3>2. HeldInAll(u)' = (before + more) + sum
      BY <2>9, <3>1
    <3>3. (hold - more) + release + ((before + more) + sum) = 0
      BY <2>11
    <3> QED  BY <3>1, <3>2, <3>3
  <2>14. CASE u # b.bidder /\ u = prev.bidder
    <3>1. /\ ledger'[u]["BID_HOLD"] = hold /\ ledger'[u]["BID_RELEASE"] = release + less
          /\ g[a] = before - less
      BY <1>1, <1>4, <1>5, <2>1, <2>10, <2>12, <2>14
    <3>2. HeldInAll(u)' = (before - less) + sum
      BY <2>9, <3>1
    <3>3. hold + (release + less) + ((before - less) + sum) = 0
      BY <2>11
    <3> QED  BY <3>1, <3>2, <3>3
  <2>15. CASE u # b.bidder /\ u # prev.bidder
    <3>1. /\ ledger'[u]["BID_HOLD"] = hold /\ ledger'[u]["BID_RELEASE"] = release
          /\ g[a] = before
      BY <1>1, <1>4, <1>5, <2>1, <2>10, <2>15
    <3>2. HeldInAll(u)' = before + sum
      BY <2>9, <3>1
    <3> QED  BY <2>11, <3>1, <3>2
  <2> QED  BY <2>13, <2>14, <2>15
<1> QED  BY <1>8, <1>9 DEF HoldsAddUp

LEMMA AddsUpStutter ==
    ASSUME HoldsAddUp, UNCHANGED <<bids, held>>,
           \A u \in Users : /\ ledger'[u]["BID_HOLD"] = ledger[u]["BID_HOLD"]
                            /\ ledger'[u]["BID_RELEASE"] = ledger[u]["BID_RELEASE"]
    PROVE  HoldsAddUp'
<1>1. BidOn' = BidOn
  BY DEF BidOn
<1>2. \A u \in Users : HeldInAll(u)' = HeldInAll(u)
  BY <1>1 DEF HeldInAll
<1> QED  BY <1>1, <1>2 DEF HoldsAddUp

(* A request of the wallet writes no hold and no release.                  *)
LEMMA WalletLeavesHolds ==
    ASSUME WalletInv, NEW r \in Requests, Arrive(r) \/ Proceed(r) \/ Abort(r), NEW u \in Users
    PROVE  /\ ledger'[u]["BID_HOLD"] = ledger[u]["BID_HOLD"]
           /\ ledger'[u]["BID_RELEASE"] = ledger[u]["BID_RELEASE"]
<1>1. CASE CommitTopUp(r) \/ CommitWithdrawal(r) \/ CommitRejection(r)
  <2>1. \A v \in Users : ledger[v] \in [TransactionType -> Int]
    BY DEF WalletInv, WalletTypeOK
  <2>2. PICK v, change : \E type \in {"DEPOSIT", "WITHDRAWAL", "REFUND"} :
           ledger' = [ledger EXCEPT ![v][type] = @ + change]
    <3>1. ASSUME NEW v, NEW type \in {"DEPOSIT", "WITHDRAWAL", "REFUND"}, NEW change,
                 NEW after, NEW recorded, CommitMovement(v, type, change, after, recorded)
          PROVE  \E x, c : \E t \in {"DEPOSIT", "WITHDRAWAL", "REFUND"} :
                    ledger' = [ledger EXCEPT ![x][t] = @ + c]
      BY <3>1 DEF CommitMovement
    <3>2. \E v, change, after, recorded : \E type \in {"DEPOSIT", "WITHDRAWAL", "REFUND"} :
             CommitMovement(v, type, change, after, recorded)
      BY <1>1 DEF CommitTopUp, CommitWithdrawal, CommitRejection
    <3> QED  BY <3>1, <3>2
  <2>3. ledger \in [Users -> [TransactionType -> Int]]
    BY DEF WalletInv, WalletTypeOK
  <2> QED  BY ONLY <2>2, <2>3, u \in Users DEF TransactionType
<1>2. CASE ~(CommitTopUp(r) \/ CommitWithdrawal(r) \/ CommitRejection(r))
  BY <1>2 DEF Arrive, GetBalance, TopUp, RequestWithdrawal, ClaimWithdrawal, Proceed,
     CreateWallet, IncrementForTopUp, DecrementForWithdrawal, MarkTransactions,
     CommitApproval, IncrementForRefund, Overflow, Abort, Rollback
<1> QED  BY <1>1, <1>2

LEMMA AddsUpStep ==
    ASSUME BiddingInv, HoldsAreExact, HoldsAddUp, [BiddingNext]_biddingVars
    PROVE  HoldsAddUp'
<1>1. ASSUME NEW r \in Requests, BidStep(r), ~CommitBid(r)
      PROVE  HoldsAddUp'
  <2>1. UNCHANGED <<bids, held, ledger>>
    BY <1>1 DEF BidStep, ProceedBid, LockAuction, CheckFunds, HoldFunds, FindPrevious,
       ReleasePrevious, PublishBid, RefuseBid, OverflowBid, AbortBid, RollbackBid, walletVars
  <2> QED  BY <2>1, AddsUpStutter
<1>2. ASSUME NEW r \in Requests, WalletStep(r)
      PROVE  HoldsAddUp'
  <2>1. UNCHANGED <<bids, held>> /\ (Arrive(r) \/ Proceed(r) \/ Abort(r))
    BY <1>2 DEF WalletStep, auctionVars
  <2> QED  BY <2>1, WalletLeavesHolds, AddsUpStutter DEF BiddingInv
<1>3. CASE UNCHANGED biddingVars
  BY <1>3, AddsUpStutter DEF biddingVars, auctionVars, walletVars
<1> QED  BY <1>1, <1>2, <1>3, CommitAddsUp DEF BiddingNext

LEMMA NothingHeldAtFirst ==
    ASSUME NEW row, InitWith(row)
    PROVE  HoldsAreExact /\ HoldsAddUp
<1>1. HoldsAreExact
  BY HoldsInit DEF InitWith
<1>2. BidOn = {}
  BY DEF InitWith, BidOn
<1>3. \A u \in Users : HeldInAll(u) = 0
  BY <1>2, FS_EmptySet, SumEquation DEF HeldInAll
<1>4. \A u \in Users : ledger[u]["BID_HOLD"] = 0 /\ ledger[u]["BID_RELEASE"] = 0
  BY DEF InitWith, TransactionType
<1>5. 0 + 0 + 0 = 0
  OBVIOUS
<1> QED  BY <1>1, <1>2, <1>3, <1>4, <1>5, FS_EmptySet DEF HoldsAddUp

(* Together with the sum of the ledger and that of the withdrawals.        *)
LEMMA CentsAddUp ==
    ASSUME BiddingInv, WithdrawnMoneyAccounted, HoldsAreExact, HoldsAddUp
    PROVE  EveryCentIsSomewhere
<1> SUFFICES ASSUME NEW u \in Users
             PROVE  balance[u] = ledger[u]["DEPOSIT"]
                        - SumFunctionOnSet([w \in Withdrawals |-> withdrawal[w].amount],
                                           OfUser(u, {"PENDING", "APPROVED"}))
                        - SumFunctionOnSet([a \in Auctions |-> HeldFor(a, u)], BidOn)
  BY DEF EveryCentIsSomewhere
<1>1. PICK d \in Int, w \in Int, f \in Int, h \in Int, l \in Int :
         /\ d = ledger[u]["DEPOSIT"] /\ w = ledger[u]["WITHDRAWAL"] /\ f = ledger[u]["REFUND"]
         /\ h = ledger[u]["BID_HOLD"] /\ l = ledger[u]["BID_RELEASE"]
  BY DEF BiddingInv, WalletInv, WalletTypeOK, TransactionType
<1>2. balance[u] = d + w + f + h + l
  BY <1>1 DEF BiddingInv, WalletInv, LedgerMatchesBalance, LedgerTotal
<1>3. PICK out : out = SumFunctionOnSet([x \in Withdrawals |-> withdrawal[x].amount],
                                        OfUser(u, {"PENDING", "APPROVED"}))
  OBVIOUS
<1>4. -(w + f) = out
  BY <1>1, <1>3 DEF WithdrawnMoneyAccounted
<1> PICK kept, due : /\ kept = [a \in Auctions |-> held[a][u]]
                     /\ due = [a \in Auctions |-> HeldFor(a, u)]
  OBVIOUS
<1>5. IsFiniteSet(BidOn) /\ \A a \in BidOn : kept[a] = due[a] /\ kept[a] \in Int
  <2>1. IsFiniteSet(BidOn) /\ BidOn \subseteq Auctions
    BY DEF HoldsAddUp, BidOn
  <2>2. \A a \in Auctions : kept[a] = due[a]
    BY DEF HoldsAreExact
  <2>3. \A a \in Auctions : kept[a] \in Int
    BY DEF BiddingInv, AuctionTypeOK
  <2> QED  BY <2>1, <2>2, <2>3
<1>6. SumFunctionOnSet(kept, BidOn) = SumFunctionOnSet(due, BidOn)
  BY ONLY <1>5, SumOfSame
<1>7. PICK sum \in Int : sum = SumFunctionOnSet(kept, BidOn)
  <2>1. \A a \in BidOn : kept[a] \in Int
    BY <1>5
  <2> QED  BY ONLY <1>5, <2>1, SumIsInt
<1>8. h + l + sum = 0
  BY <1>1, <1>7 DEF HoldsAddUp, HeldInAll
<1>9. d + w + f + h + l = d - (-(w + f)) - sum
  BY <1>8
<1> QED  BY <1>1, <1>2, <1>3, <1>4, <1>6, <1>7, <1>9

MoneyInv == AccountsInv /\ ApprovalInv /\ HoldsAreExact /\ HoldsAddUp

LEMMA MoneyStep ==
    ASSUME BiddingInv, MoneyInv, [BiddingNext]_biddingVars
    PROVE  MoneyInv'
<1>1. AccountsInv' /\ ApprovalInv'
  BY BiddingKeepsAccounts DEF MoneyInv
<1>2. HoldsAreExact' /\ HoldsAddUp'
  BY HoldsStep, AddsUpStep DEF MoneyInv
<1> QED  BY <1>1, <1>2 DEF MoneyInv

LEMMA MoneyAtFirst ==
    ASSUME NEW row, InitWith(row)
    PROVE  MoneyInv
BY AccountsStartWithDeposits, NothingHeldAtFirst DEF MoneyInv

LEMMA MoneyIsSomewhere ==
    ASSUME BiddingInv, MoneyInv
    PROVE  EveryCentIsSomewhere
BY CentsAddUp DEF MoneyInv, AccountsInv

(* A balance is what was topped up, less the withdrawals pending or        *)
(* approved, less the bids nobody answered, whatever bids on however many  *)
(* auctions and requests of the wallet overlap (auctions.service.ts        *)
(* :192-233, wallet.service.ts:36-57, :83-101, :177-196).                  *)
THEOREM NoCentIsLost == BiddingSpec => []EveryCentIsSomewhere
<1>1. BiddingInit => MoneyInv
  BY MoneyAtFirst DEF BiddingInit
<1>2. BiddingInv /\ MoneyInv /\ [BiddingNext]_biddingVars => MoneyInv'
  BY MoneyStep
<1>3. BiddingInv /\ MoneyInv => EveryCentIsSomewhere
  BY MoneyIsSomewhere
<1> QED  BY <1>1, <1>2, <1>3, BiddingInvariant, PTL DEF BiddingSpec

-----------------------------------------------------------------------------
(* The atomic auction.  What it sees of an auction are the top bid, the    *)
(* counter and the announcements, and of the wallets their balances.       *)

Shown == <<[a \in Auctions |-> TopBid(a)], [a \in Auctions |-> auction[a].totalBids], announced,
           balance>>

LEMMA ShownStutters ==
    ASSUME UNCHANGED <<auction, bids, announced, balance>>
    PROVE  UNCHANGED Shown
BY DEF Shown, TopBid

(* A request of the wallet moves the money of one user.                    *)
LEMMA WalletMovesOne ==
    ASSUME WalletInv, NEW r \in Requests, Arrive(r) \/ Proceed(r) \/ Abort(r),
           balance' # balance
    PROVE  \E u \in Users : balance' = [balance EXCEPT ![u] = balance'[u]]
<1> PICK u : u = req[r].user
  OBVIOUS
<1>1. \/ CommitTopUp(r)
      \/ CommitWithdrawal(r)
      \/ CommitRejection(r)
  BY DEF Arrive, GetBalance, TopUp, RequestWithdrawal, ClaimWithdrawal, Proceed, CreateWallet,
     IncrementForTopUp, DecrementForWithdrawal, MarkTransactions, CommitApproval,
     IncrementForRefund, Overflow, Abort, Rollback
<1>2. u \in Users
  BY <1>1 DEF CommitTopUp, CommitWithdrawal, CommitRejection, WalletInv, RequestInv
<1>3. PICK after : balance' = [balance EXCEPT ![u] = after]
  BY <1>1 DEF CommitTopUp, CommitWithdrawal, CommitRejection, CommitMovement
<1>4. balance'[u] = after
  BY <1>2, <1>3 DEF WalletInv, WalletTypeOK
<1> QED  BY <1>2, <1>3, <1>4

LEMMA WalletStepIsMove ==
    ASSUME WalletInv, NEW r \in Requests, WalletStep(r)
    PROVE  English!Next \/ UNCHANGED Shown
<1>1. UNCHANGED <<auction, bids, announced>>
  BY DEF WalletStep, auctionVars
<1>2. CASE balance' = balance
  BY <1>1, <1>2, ShownStutters
<1>3. CASE balance' # balance
  <2>1. PICK u \in Users : balance' = [balance EXCEPT ![u] = balance'[u]]
    BY <1>3, WalletMovesOne DEF WalletStep
  <2>2. UNCHANGED <<[x \in Auctions |-> TopBid(x)], [x \in Auctions |-> auction[x].totalBids],
                    announced>>
    BY <1>1 DEF TopBid
  <2>3. English!Move(u)
    BY <2>1, <2>2 DEF English!Move
  <2> QED  BY <2>3 DEF English!Next
<1> QED  BY <1>2, <1>3

(* The balances the commit writes are the committed ones, less what is     *)
(* bid and, for the other bidder who was on top, with the hold back.       *)
LEMMA CommitMovesFunds ==
    ASSUME BiddingInv, NEW r \in Requests, CommitBid(r)
    PROVE  balance' = English!FundsAfter(bid[r].auction, bid[r].user, bid[r].amount)
<1> PICK a, u, amount, prev : /\ a = bid[r].auction /\ u = bid[r].user
                              /\ amount = bid[r].amount /\ prev = bid[r].prev
  OBVIOUS
<1>1. bid[r].pc = "commit"
  BY DEF CommitBid
<1>2. /\ a \in Auctions /\ u \in Users /\ bid[r].after = balance[u] - amount
      /\ prev # NoTop => bid[r].prevAfter = balance[prev.bidder] + prev.amount
  BY <1>1, CommitFacts
<1>3. prev = IF TopBid(a).bidder \in {None, u} THEN NoTop ELSE TopBid(a)
  BY <1>1 DEF BiddingInv, BidInv, BidInvOf, PreviousIsTop
<1>4. NoTop.bidder = None /\ None \notin Users
  BY WalletAssumption DEF NoTop
<1>5. balance' = [x \in Users |-> IF x = u THEN bid[r].after
                                  ELSE IF x = prev.bidder THEN bid[r].prevAfter
                                  ELSE balance[x]]
  BY DEF CommitBid
<1>6. [x \in Auctions |-> TopBid(x)][a] = TopBid(a)
  BY <1>2
<1>7. ASSUME NEW x \in Users
      PROVE  (IF x = u THEN bid[r].after
              ELSE IF x = prev.bidder THEN bid[r].prevAfter ELSE balance[x])
             = CASE x = u                           -> balance[x] - amount
                 [] x # u /\ x = TopBid(a).bidder   -> balance[x] + TopBid(a).amount
                 [] OTHER                           -> balance[x]
  <2>1. CASE x = u
    BY <2>1, <1>2
  <2>2. CASE x # u /\ x = TopBid(a).bidder
    <3>1. prev = TopBid(a) /\ prev # NoTop
      BY <2>2, <1>3, <1>4
    <3> QED  BY <2>2, <3>1, <1>2
  <2>3. CASE x # u /\ x # TopBid(a).bidder
    <3>1. x # prev.bidder
      BY <2>3, <1>3, <1>4
    <3> QED  BY <2>3, <3>1
  <2> QED  BY <2>1, <2>2, <2>3
<1>8. balance' = [x \in Users |->
                    CASE x = u                           -> balance[x] - amount
                      [] x # u /\ x = TopBid(a).bidder   -> balance[x] + TopBid(a).amount
                      [] OTHER                           -> balance[x]]
  BY <1>5, <1>7
<1> QED  BY <1>6, <1>8 DEF English!FundsAfter

(* The commit is the offer, against the price that stands at that moment.  *)
LEMMA CommitIsOffer ==
    ASSUME BiddingInv, NEW r \in Requests, CommitBid(r)
    PROVE  \E a \in Auctions, u \in Users \ {Seller}, amount \in BidAmounts :
              English!Offer(a, u, amount)
<1> DEFINE a == bid[r].auction
           b == [bidder |-> bid[r].user, amount |-> bid[r].amount]
<1>1. bid[r].pc = "commit"
  BY DEF CommitBid
<1>2. /\ a \in Auctions /\ b \in BidRow /\ bid[r].amount \in Nat
      /\ bid[r].amount >= StartingPrice + BidIncrement
      /\ \A c \in bids[a] : c \in BidRow /\ c.amount + BidIncrement <= bid[r].amount
  BY <1>1, CommitFacts, BidFields DEF BiddingInv, AuctionTypeOK, BidRow
<1>3. bid[r].amount >= English!Price(a) + BidIncrement
  <2>1. bids[a] = {} => TopBid(a) = NoTop
    BY DEF TopBid
  <2>2. bids[a] # {} => TopBid(a) \in bids[a] /\ TopBid(a) # NoTop
    BY <1>2, TopBidFacts, WalletAssumption DEF BiddingInv, BookInv, NoTop
  <2> QED  BY <1>2, <2>1, <2>2 DEF English!Price
<1>4. \A x \in Auctions :
        /\ bids'[x] = IF x = a THEN bids[x] \cup {b} ELSE bids[x]
        /\ auction'[x].totalBids = IF x = a THEN auction[x].totalBids + 1 ELSE auction[x].totalBids
  BY <1>2 DEF CommitBid, BiddingInv, AuctionTypeOK, AuctionRow
<1>5. ASSUME NEW x \in Auctions
      PROVE  TopBid(x)' = IF x = a THEN b ELSE TopBid(x)
  <2>1. CASE x # a
    BY <1>4, <2>1 DEF TopBid
  <2>2. CASE x = a
    <3>1. bids[x] \in SUBSET BidRow /\ \A c \in bids[x] : c.amount < b.amount
      BY <1>2, <2>2, BiddingAssumption DEF BiddingInv, AuctionTypeOK, BidRow
    <3>2. Highest(bids[x] \cup {b}) = b
      BY <1>2, <3>1, NewHighest
    <3>3. bids'[x] = bids[x] \cup {b}
      BY <1>4, <2>2
    <3>4. TopBid(x)' = b
      BY <3>2, <3>3 DEF TopBid
    <3> QED  BY <2>2, <3>4
  <2> QED  BY <2>1, <2>2
<1>6. [x \in Auctions |-> TopBid(x)]' = [[x \in Auctions |-> TopBid(x)] EXCEPT ![a] = b]
  BY <1>2, <1>5
<1>7. [x \in Auctions |-> auction[x].totalBids]' =
        [[x \in Auctions |-> auction[x].totalBids] EXCEPT ![a] = @ + 1]
  <2> DEFINE offers == [x \in Auctions |-> auction[x].totalBids]
  <2>1. [offers EXCEPT ![a] = @ + 1] =
          [x \in Auctions |-> IF x = a THEN offers[a] + 1 ELSE offers[x]]
    OBVIOUS
  <2>2. offers[a] = auction[a].totalBids
    BY <1>2
  <2> QED  BY <1>2, <1>4, <2>1, <2>2
<1>8. announced' = announced
  BY DEF CommitBid
<1>9. bid[r].user \in Users \ {Seller} /\ bid[r].amount \in BidAmounts
  BY <1>1, CommitFacts
<1>10. balance' = English!FundsAfter(a, bid[r].user, bid[r].amount)
  BY CommitMovesFunds
<1> QED  BY <1>2, <1>3, <1>6, <1>7, <1>8, <1>9, <1>10 DEF English!Offer

(* What is published tells of a bid that is in the table.                  *)
LEMMA PublishIsAnnounce ==
    ASSUME BiddingInv, NEW r \in Requests, PublishBid(r), announced' # announced
    PROVE  \E a \in Auctions, u \in Users \ {Seller}, amount \in BidAmounts :
              English!Announce(a, u, amount)
<1> DEFINE a == bid[r].auction
           b == [bidder |-> bid[r].user, amount |-> bid[r].amount]
<1>1. a \in Auctions /\ b \in bids[a]
  BY DEF PublishBid, BiddingInv, BidInv, BidInvOf, EventIsCommitted
<1>2. bid[r].user \in Users \ {Seller} /\ bid[r].amount \in BidAmounts
  BY <1>1 DEF BiddingInv, BookInv, BiddersMayBid, AuctionTypeOK, BidRow
<1>3. /\ TopBid(a) \in bids[a] /\ TopBid(a) # NoTop
      /\ b.amount <= TopBid(a).amount
  BY <1>1, TopBidFacts, WalletAssumption DEF BiddingInv, BookInv, NoTop
<1>4. b.amount = TopBid(a).amount => b = TopBid(a)
  BY <1>1, <1>3 DEF BiddingInv, BookInv, BidsClimb
<1>5. announced' = [announced EXCEPT ![a] = @ \cup {b}]
  BY DEF PublishBid
<1>6. UNCHANGED <<[x \in Auctions |-> TopBid(x)], [x \in Auctions |-> auction[x].totalBids],
                  balance>>
  BY DEF PublishBid, TopBid, walletVars
<1>7. English!Announce(a, bid[r].user, bid[r].amount)
  BY <1>1, <1>3, <1>4, <1>5, <1>6 DEF English!Announce
<1> QED  BY <1>1, <1>2, <1>7

LEMMA StepIsAtomic ==
    ASSUME BiddingInv, [BiddingNext]_biddingVars
    PROVE  [English!Next]_Shown
<1>1. ASSUME NEW r \in Requests, CommitBid(r)
      PROVE  English!Next
  BY <1>1, CommitIsOffer DEF English!Next
<1>2. ASSUME NEW r \in Requests, PublishBid(r)
      PROVE  English!Next \/ UNCHANGED Shown
  <2>1. CASE announced' = announced
    BY <1>2, <2>1, ShownStutters DEF PublishBid, walletVars
  <2>2. CASE announced' # announced
    BY <1>2, <2>2, PublishIsAnnounce DEF English!Next
  <2> QED  BY <2>1, <2>2
<1>3. ASSUME NEW r \in Requests, BidStep(r), ~CommitBid(r), ~PublishBid(r)
      PROVE  UNCHANGED Shown
  BY <1>3, ShownStutters DEF BidStep, ProceedBid, LockAuction, CheckFunds, HoldFunds,
     FindPrevious,
     ReleasePrevious, RefuseBid, OverflowBid, AbortBid, RollbackBid, walletVars
<1>4. ASSUME NEW r \in Requests, WalletStep(r)
      PROVE  English!Next \/ UNCHANGED Shown
  BY <1>4, WalletStepIsMove DEF BiddingInv
<1>5. ASSUME UNCHANGED biddingVars
      PROVE  UNCHANGED Shown
  BY <1>5, ShownStutters DEF biddingVars, auctionVars, walletVars
<1> QED  BY <1>1, <1>2, <1>3, <1>4, <1>5 DEF BiddingNext

(* placeBid, whatever locks, reads and failures it is made of and however  *)
(* many run at once, is an auction whose bids take effect one after the    *)
(* other in one step each, with their money, and in which no step moves    *)
(* the money of anybody but the bidder and the one topped, or of the one   *)
(* user a request of the wallet is about (auctions.service.ts:146-275).    *)
THEOREM BiddingIsAtomic == BiddingSpec => BidsAreAtomic
<1>1. BiddingInit => English!Init
  BY DEF BiddingInit, InitWith, NewAuction, TopBid, English!Init
<1>2. BiddingInv /\ [BiddingNext]_biddingVars => [English!Next]_(English!auctionVars)
  BY StepIsAtomic DEF Shown, English!auctionVars
<1> QED  BY <1>1, <1>2, BiddingInvariant, PTL DEF BiddingSpec, BidsAreAtomic, English!Spec

(***************************************************************************)
(* Part two: the life of an auction around its bids.                       *)
(***************************************************************************)

-----------------------------------------------------------------------------
(* Types of tasks and jobs.                                                *)

LEMMA NoneIsNobody == None \notin Users /\ None \notin Requests /\ None \notin Auctions
                      /\ None \notin Handlers
BY WalletAssumption, BiddingAssumption, LifecycleAssumption

LEMMA TaskFields ==
    ASSUME LifecycleTypeOK, NEW h \in Handlers
    PROVE  /\ task[h] \in TaskRow       /\ task[h].pc \in TaskPc
           /\ task[h].auction \in Auctions \cup {None}
           /\ task[h].winner \in Users \cup {None}
BY DEF LifecycleTypeOK, TaskRow

LEMMA TaskIsTyped ==
    ASSUME NEW pc \in TaskPc, NEW a \in Auctions
    PROVE  /\ Task(pc, a) \in TaskRow /\ Task(pc, a).pc = pc /\ Task(pc, a).auction = a
           /\ NoTask \in TaskRow /\ NoTask.pc = "idle"
BY DEF Task, NoTask, TaskRow, TaskPc

LEMMA NoTaskIsTyped == NoTask \in TaskRow /\ NoTask.pc = "idle"
BY DEF NoTask, TaskRow, TaskPc

(* Only the task of the handler that takes the step changes.               *)
LEMMA TaskChange ==
    ASSUME LifecycleTypeOK, NEW h \in Handlers, NEW t \in TaskRow, Become(h, t)
    PROVE  /\ task' \in [Handlers -> TaskRow]
           /\ task'[h] = t
           /\ \A g \in Handlers \ {h} : task'[g] = task[g]
BY DEF LifecycleTypeOK, Become

JobSet(a, k, v) == job' = [job EXCEPT ![a][k] = v]

JobsOK == /\ job \in [Auctions -> [{"start", "end"} -> JobRow]]
          /\ JobsAreBounded

(* The one job that is written.                                            *)
LEMMA JobChange ==
    ASSUME JobsOK, NEW a \in Auctions, NEW k \in {"start", "end"}, NEW v \in JobRow,
           JobSet(a, k, v)
    PROVE  /\ job' \in [Auctions -> [{"start", "end"} -> JobRow]]
           /\ job'[a][k] = v
           /\ \A b \in Auctions, j \in {"start", "end"} :
                 <<b, j>> # <<a, k>> => job'[b][j] = job[b][j]
<1>1. job' \in [Auctions -> [{"start", "end"} -> JobRow]]
  BY DEF JobSet, JobsOK
<1>2. job'[a][k] = v
  BY DEF JobSet, JobsOK
<1>3. \A b \in Auctions, j \in {"start", "end"} : <<b, j>> # <<a, k>> => job'[b][j] = job[b][j]
  BY DEF JobSet, JobsOK
<1> QED  BY <1>1, <1>2, <1>3

LEMMA JobFields ==
    ASSUME JobsOK, NEW a \in Auctions, NEW k \in {"start", "end"}
    PROVE  /\ job[a][k] \in JobRow
           /\ job[a][k].state \in {"none", "queued", "running", "done", "failed"}
           /\ job[a][k].runs \in 0 .. 2 /\ job[a][k].owner \in Handlers \cup {None}
<1>1. job[a][k] \in JobRow
  BY DEF JobsOK
<1> QED  BY <1>1 DEF JobRow

(* A job that has been queued stays known, and a job nobody queued yet     *)
(* stays unknown.                                                          *)
JobsGoOn(a, k) ==
    /\ JobsOK'
    /\ \A b \in Auctions, j \in {"start", "end"} :
          /\ <<b, j>> # <<a, k>> => job'[b][j] = job[b][j]
          /\ job[b][j].state = "none" <=> job'[b][j].state = "none"

LEMMA TakeIsTyped ==
    ASSUME JobsOK, NEW h \in Handlers, NEW a \in Auctions, NEW k \in {"start", "end"},
           job[a][k].state = "queued", Take(h, a, k)
    PROVE  JobsGoOn(a, k)
<1> DEFINE v == [state |-> "running", runs |-> job[a][k].runs + 1, owner |-> h]
<1>1. job[a][k].runs \in 0 .. 1
  BY JobFields DEF JobsOK, JobsAreBounded
<1>2. v \in JobRow /\ v.state = "running"
  BY <1>1 DEF JobRow
<1>3. JobSet(a, k, v)
  BY DEF Take, JobSet
<1> HIDE DEF v
<1>4. /\ job' \in [Auctions -> [{"start", "end"} -> JobRow]]
      /\ job'[a][k] = v
      /\ \A b \in Auctions, j \in {"start", "end"} :
            <<b, j>> # <<a, k>> => job'[b][j] = job[b][j]
  BY <1>2, <1>3, JobChange
<1>5. JobsAreBounded'
  BY <1>2, <1>4 DEF JobsOK, JobsAreBounded
<1>6. \A b \in Auctions, j \in {"start", "end"} :
          job[b][j].state = "none" <=> job'[b][j].state = "none"
  BY <1>2, <1>4
<1> QED  BY <1>4, <1>5, <1>6 DEF JobsGoOn, JobsOK

LEMMA LeaveIsTyped ==
    ASSUME JobsOK, NEW h \in Handlers, NEW a \in Auctions, NEW k \in {"start", "end"},
           NEW state \in {"queued", "done", "failed"},
           state = "queued" => job[a][k].runs < 2, Leave(h, a, k, state)
    PROVE  JobsGoOn(a, k)
<1>1. CASE job[a][k].owner = h
  <2> DEFINE v == [state |-> state, runs |-> job[a][k].runs, owner |-> None]
  <2>1. job[a][k].state # "none" /\ job[a][k].runs \in 0 .. 2
    BY <1>1, JobFields, NoneIsNobody DEF JobsOK, JobsAreBounded
  <2>2. v \in JobRow /\ v.state # "none" /\ (v.state = "queued" => v.runs < 2)
    BY <2>1 DEF JobRow
  <2>3. JobSet(a, k, v)
    BY <1>1 DEF Leave, JobSet
  <2> HIDE DEF v
  <2>4. /\ job' \in [Auctions -> [{"start", "end"} -> JobRow]]
        /\ job'[a][k] = v
        /\ \A b \in Auctions, j \in {"start", "end"} :
              <<b, j>> # <<a, k>> => job'[b][j] = job[b][j]
    BY <2>2, <2>3, JobChange
  <2>5. JobsAreBounded'
    BY <2>2, <2>4 DEF JobsOK, JobsAreBounded
  <2>6. \A b \in Auctions, j \in {"start", "end"} :
            job[b][j].state = "none" <=> job'[b][j].state = "none"
    BY <2>1, <2>2, <2>4
  <2> QED  BY <2>4, <2>5, <2>6 DEF JobsGoOn, JobsOK
<1>2. CASE job[a][k].owner # h
  BY <1>2 DEF Leave, JobsGoOn, JobsOK, JobsAreBounded
<1> QED  BY <1>1, <1>2

-----------------------------------------------------------------------------
(* What the handlers do to the bids.                                       *)

(* A row that no bid has is written, or one is made; price and number of   *)
(* bids stay.                                                              *)
LEMMA RowChangeKeepsBids ==
    ASSUME BiddingInv, NEW a \in Auctions, NEW row \in AuctionRow,
           row.price = auction[a].price, row.totalBids = auction[a].totalBids,
           auctionLock[a] = None,
           auction' = [auction EXCEPT ![a] = row],
           UNCHANGED <<walletVars, bids, held, over, auctionLock, bid, announced>>
    PROVE  BiddingInv'
<1>1. WalletInv'
  BY WalletStutterInv DEF BiddingInv
<1>2. AuctionTypeOK'
  BY DEF BiddingInv, AuctionTypeOK
<1>3. ASSUME NEW q \in Requests PROVE BidInvOf(q)'
  <2>1. RespectsRowsOf(q)
    BY NoneIsNobody DEF RespectsRowsOf, walletVars, BiddingInv, AuctionTypeOK
  <2> QED  BY <2>1, RespectedBidKeepsInv DEF BiddingInv, BidInv, BookInv
<1>4. \A x \in Auctions : /\ auction'[x].price = auction[x].price
                          /\ auction'[x].totalBids = auction[x].totalBids
  BY DEF BiddingInv, AuctionTypeOK
<1>5. PriceIsTopBid'
  BY <1>4 DEF BiddingInv, BookInv, PriceIsTopBid
<1>6. BidsClimb' /\ TopBidIsFunded' /\ BiddersMayBid' /\ AnnouncedAreCommitted'
  BY DEF BiddingInv, BookInv, BidsClimb, TopBidIsFunded, TopBid, BiddersMayBid,
     AnnouncedAreCommitted
<1> QED  BY <1>1, <1>2, <1>3, <1>5, <1>6 DEF BiddingInv, BidInv, BookInv

(* Time passes for an auction.                                             *)
LEMMA EndTimeKeepsBids ==
    ASSUME BiddingInv, NEW a \in Auctions, EndTimePasses(a)
    PROVE  BiddingInv'
<1> USE DEF EndTimePasses
<1>1. WalletInv' /\ BookInv'
  BY WalletStutterInv, BookStutters DEF BiddingInv
<1>2. AuctionTypeOK'
  BY DEF BiddingInv, AuctionTypeOK
<1>3. ASSUME NEW q \in Requests PROVE BidInvOf(q)'
  <2>1. RespectsRowsOf(q)
    BY DEF RespectsRowsOf, walletVars
  <2> QED  BY <2>1, RespectedBidKeepsInv DEF BiddingInv, BidInv, BookInv
<1> QED  BY <1>1, <1>2, <1>3 DEF BiddingInv, BidInv

-----------------------------------------------------------------------------
(* What the bids do to an auction.                                         *)

(* A bid that enters the table had the auction's row until then and lies   *)
(* above all the others.                                                   *)
BidEnters(r, a) ==
    /\ auctionLock[a] = r /\ auctionLock'[a] = None
    /\ \E b \in BidRow : /\ bids'[a] = bids[a] \cup {b}
                         /\ \A c \in bids[a] : c.amount < b.amount

TouchesAuctions(r) ==
    /\ over' = over
    /\ \A a \in Auctions :
          /\ auction'[a].status = auction[a].status
          /\ auction'[a].winner = auction[a].winner
          /\ \/ auctionLock'[a] \in {auctionLock[a], None}
             \/ a \notin over /\ auction[a].status = "ACTIVE"
          /\ bids'[a] = bids[a] \/ BidEnters(r, a)

LEMMA CommitEffects ==
    ASSUME BiddingInv, NEW r \in Requests, CommitBid(r)
    PROVE  TouchesAuctions(r)
<1> DEFINE a == bid[r].auction
           b == [bidder |-> bid[r].user, amount |-> bid[r].amount]
<1>1. bid[r].pc = "commit" /\ over' = over
  BY DEF CommitBid
<1>2. /\ a \in Auctions /\ auctionLock[a] = r /\ bid[r].user \in Users /\ bid[r].amount \in Nat
      /\ \A c \in bids[a] : c \in BidRow /\ c.amount + BidIncrement <= bid[r].amount
  BY <1>1, CommitFacts, BidFields DEF BiddingInv, AuctionTypeOK, BidRow
<1>3. b \in BidRow /\ \A c \in bids[a] : c.amount < b.amount
  BY <1>2, BiddingAssumption DEF BidRow
<1>4. bids' = [bids EXCEPT ![a] = bids[a] \cup {b}]
  BY DEF CommitBid
<1>5. \A x \in Auctions : /\ auction'[x].status = auction[x].status
                          /\ auction'[x].winner = auction[x].winner
  BY <1>2 DEF CommitBid, BiddingInv, AuctionTypeOK, AuctionRow
<1>6. \A x \in Auctions : auctionLock'[x] = IF auctionLock[x] = r THEN None ELSE auctionLock[x]
  BY DEF CommitBid, UnlockAuctions
<1>7. \A x \in Auctions : bids'[x] = bids[x] \/ BidEnters(r, x)
  BY <1>2, <1>3, <1>4, <1>6 DEF BidEnters, BiddingInv, AuctionTypeOK
<1> QED  BY <1>1, <1>5, <1>6, <1>7 DEF TouchesAuctions

LEMMA BidEffects ==
    ASSUME BiddingInv, NEW r \in Requests, BidStep(r) \/ WalletStep(r)
    PROVE  TouchesAuctions(r)
<1>1. CASE CommitBid(r)
  BY <1>1, CommitEffects
<1>2. ASSUME NEW a \in Auctions, NEW u \in Users, NEW amount \in BidAmounts,
             LockAuction(r, a, u, amount)
      PROVE  TouchesAuctions(r)
  BY <1>2 DEF LockAuction, MayBid, TouchesAuctions, BiddingInv, AuctionTypeOK
<1>3. CASE RefuseBid(r) \/ OverflowBid(r) \/ AbortBid(r)
  BY <1>3 DEF RefuseBid, OverflowBid, AbortBid, RollbackBid, UnlockAuctions, TouchesAuctions
<1>4. CASE CheckFunds(r) \/ HoldFunds(r) \/ FindPrevious(r) \/ ReleasePrevious(r)
           \/ PublishBid(r) \/ WalletStep(r)
  BY <1>4 DEF CheckFunds, HoldFunds, FindPrevious, ReleasePrevious, PublishBid, WalletStep,
     auctionVars, TouchesAuctions
<1> QED  BY <1>1, <1>2, <1>3, <1>4 DEF BidStep, ProceedBid

-----------------------------------------------------------------------------
(* What was read as the winner.                                            *)

(* The top bidder of an auction that is over, while it is read.            *)
LEMMA TopIsDecided ==
    ASSUME BiddingInv, NEW a \in Auctions, a \in over
    PROVE  TopBid(a).bidder \in Users \cup {None} /\ DecidedOn(a, TopBid(a).bidder)
<1>1. \A b \in bids[a] : b.bidder \in Users /\ b.amount \in Nat
  BY DEF BiddingInv, AuctionTypeOK, BidRow
<1>2. CASE bids[a] = {}
  BY <1>2 DEF TopBid, NoTop, DecidedOn
<1>3. CASE bids[a] # {}
  <2>1. /\ TopBid(a) \in bids[a] /\ TopBid(a).bidder \in Users
        /\ \A c \in bids[a] : c.amount <= TopBid(a).amount
    BY <1>3, TopBidFacts DEF BiddingInv, BookInv
  <2>2. TopBid(a) \in Best(a, TopBid(a).bidder)
    BY <2>1 DEF Best
  <2>3. {b \in bids[a] : b.amount > TopBid(a).amount} = {}
    BY <1>1, <2>1
  <2>4. TopBid(a).bidder # None
    BY <2>1, NoneIsNobody
  <2> QED  BY <2>1, <2>2, <2>3, <2>4 DEF DecidedOn
<1> QED  BY <1>2, <1>3

(* Time and the handlers' steps.                                           *)
LEMMA DecidedStutters ==
    ASSUME NEW a \in Auctions, NEW w, DecidedOn(a, w), UNCHANGED <<bids, auctionLock>>,
           over \subseteq over'
    PROVE  DecidedOn(a, w)'
BY DEF DecidedOn, Best

(* A bid that enters the table after the end time is the only one that     *)
(* does: it was in its transaction by then, and no other gets the row.     *)
LEMMA DecidedStays ==
    ASSUME BiddingInv, NEW r \in Requests, TouchesAuctions(r),
           NEW a \in Auctions, NEW w \in Users \cup {None}, DecidedOn(a, w)
    PROVE  DecidedOn(a, w)'
<1> DEFINE Witnesses == IF w = None THEN {NoTop} ELSE Best(a, w)
<1>1. a \in over /\ over' = over /\ auctionLock'[a] \in {auctionLock[a], None}
  BY DEF DecidedOn, TouchesAuctions
<1>2. CASE bids'[a] = bids[a]
  <2>1. Best(a, w)' = Best(a, w)
    BY <1>2 DEF Best
  <2> QED  BY <1>1, <1>2, <2>1 DEF DecidedOn
<1>3. CASE BidEnters(r, a)
  <2>1. PICK b \in BidRow : /\ bids'[a] = bids[a] \cup {b}
                            /\ \A c \in bids[a] : c.amount < b.amount
    BY <1>3 DEF BidEnters
  <2>2. auctionLock[a] # None /\ auctionLock'[a] = None
    BY <1>3, NoneIsNobody DEF BidEnters
  <2>3. PICK best \in Witnesses : {c \in bids[a] : c.amount > best.amount} = {}
    BY <2>2 DEF DecidedOn
  <2>4. b.amount \in Nat /\ b.bidder \in Users /\ \A c \in bids[a] : c.amount \in Nat
    BY DEF BidRow, BiddingInv, AuctionTypeOK
  <2>5. best.amount \in Nat
    BY <2>3, <2>4 DEF Best, NoTop
  <2>6. CASE w # None /\ b.bidder = w
    <3>1. b \in Best(a, w)'
      BY <2>1, <2>4, <2>6 DEF Best
    <3>2. {c \in bids'[a] : c.amount > b.amount} = {}
      BY <2>1, <2>4
    <3> QED  BY <1>1, <2>6, <3>1, <3>2 DEF DecidedOn
  <2>7. CASE w = None \/ b.bidder # w
    <3>1. best \in IF w = None THEN {NoTop} ELSE Best(a, w)'
      BY <2>1, <2>3, <2>7 DEF Best
    <3>2. {c \in bids'[a] : c.amount > best.amount} \subseteq {b}
      BY <2>1, <2>3
    <3>3. LET missed == {c \in bids'[a] : c.amount > best.amount} IN
          missed = {} \/ (auctionLock'[a] = None /\ \E c \in missed : missed = {c})
      BY <2>2, <3>2
    <3> QED  BY <1>1, <3>1, <3>3 DEF DecidedOn
  <2> QED  BY <2>6, <2>7
<1> QED  BY <1>2, <1>3 DEF TouchesAuctions

-----------------------------------------------------------------------------
(* The steps of bids and wallets.                                          *)

LEMMA BidStepKeepsInv ==
    ASSUME LifecycleInv, NEW r \in Requests, BidStep(r) \/ WalletStep(r), UNCHANGED lifecycleVars
    PROVE  LifecycleInv'
<1> USE DEF LifecycleInv, lifecycleVars
<1>1. BiddingInv'
  BY BiddingNextInv DEF BiddingNext
<1>2. TouchesAuctions(r)
  BY BidEffects
<1>3. LifecycleTypeOK'
  BY <1>1, <1>2 DEF LifecycleTypeOK, BiddingInv, WalletInv, BiddingTypeOK, TouchesAuctions
<1>4. LockedIsActive'
  BY <1>2 DEF LockedIsActive, TouchesAuctions
<1>5. JobsAreBounded' /\ CreationIsAlone'
  BY <1>2 DEF JobsAreBounded, CreationIsAlone, Creating, TouchesAuctions, TasksAreJustified
<1>6. UnbornIsEmpty'
  <2> SUFFICES ASSUME NEW a \in Auctions, auction'[a].status = "NONE"
               PROVE  bids'[a] = {} /\ job'[a]["end"].state = "none"
    BY DEF UnbornIsEmpty
  <2>1. auction[a].status = "NONE" /\ auctionLock[a] = None
    BY <1>2 DEF TouchesAuctions, LockedIsActive
  <2> QED  BY <1>2, <2>1, NoneIsNobody DEF TouchesAuctions, BidEnters, UnbornIsEmpty
<1>7. TasksAreJustified'
  <2> SUFFICES ASSUME NEW h \in Handlers, task[h].pc = "settle"
               PROVE  /\ DecidedOn(task[h].auction, task[h].winner)'
                      /\ job[task[h].auction]["end"].state # "none"
    BY DEF TasksAreJustified
  <2>1. PICK a \in Auctions : a = task[h].auction
    BY DEF TasksAreJustified
  <2>2. PICK w \in Users \cup {None} : w = task[h].winner
    BY TaskFields
  <2>3. DecidedOn(a, w)'
    BY <1>2, <2>1, <2>2, DecidedStays DEF TasksAreJustified
  <2>4. task'[h].auction = a /\ task'[h].winner = w
    BY <2>1, <2>2
  <2> QED  BY <2>3, <2>4 DEF TasksAreJustified
<1>8. EndedIsDecided'
  <2> SUFFICES ASSUME NEW a \in Auctions, auction'[a].status = "ENDED"
               PROVE  DecidedOn(a, auction[a].winner)'
    BY DEF EndedIsDecided
  <2>1. PICK w \in Users \cup {None} : w = auction[a].winner
    BY DEF BiddingInv, AuctionTypeOK, AuctionRow
  <2>2. DecidedOn(a, w)' /\ auction'[a].winner = w
    BY <1>2, <2>1, DecidedStays DEF EndedIsDecided, TouchesAuctions
  <2> QED  BY <2>2
<1>9. SoldMeansWon'
  BY <1>2 DEF SoldMeansWon, TouchesAuctions
<1> QED  BY <1>1, <1>3, <1>4, <1>5, <1>6, <1>7, <1>8, <1>9

-----------------------------------------------------------------------------
(* The steps of handlers that write no row of an auction.                  *)

EndJobsStay ==
    \A b \in Auctions : job[b]["end"].state = "none" <=> job'[b]["end"].state = "none"

LEMMA GoOnStays ==
    ASSUME NEW a \in Auctions, NEW k \in {"start", "end"}, JobsGoOn(a, k)
    PROVE  JobsOK' /\ EndJobsStay
BY DEF JobsGoOn, EndJobsStay

(* The handler h is left with task t and may have set the status of        *)
(* vehicles whose auction has not ended.                                   *)
LEMMA HandlerStepKeepsInv ==
    ASSUME LifecycleInv, NEW h \in Handlers, NEW t \in TaskRow, Become(h, t),
           UNCHANGED <<biddingVars, started>>, JobsOK',
           vehicle' \in [Auctions -> VehicleStatus], edited' \in SUBSET Auctions,
           \A b \in Auctions : auction[b].status = "ENDED" =>
              vehicle'[b] = vehicle[b] /\ (b \in edited <=> b \in edited'),
           \A b \in Auctions :
              \/ job[b]["end"].state = "none" <=> job'[b]["end"].state = "none"
              \/ /\ Creating(h) /\ b = task[h].auction /\ t = NoTask
                 /\ job'[b]["end"].state # "none",
           t.pc # "idle" => t.auction \in Auctions,
           t.pc = "settle" => /\ DecidedOn(t.auction, t.winner)
                              /\ job'[t.auction]["end"].state # "none",
           t.pc \in {"vehicle", "queueStart", "queueEnd"} =>
              Creating(h) /\ t.auction = task[h].auction
    PROVE  LifecycleInv'
<1> USE DEF LifecycleInv
<1>1. BiddingInv'
  BY BiddingStutterInv
<1>2. /\ task' \in [Handlers -> TaskRow] /\ task'[h] = t
      /\ \A g \in Handlers \ {h} : task'[g] = task[g]
  BY TaskChange
<1>3. LifecycleTypeOK'
  BY <1>1, <1>2 DEF LifecycleTypeOK, BiddingInv, WalletInv, BiddingTypeOK, JobsOK, biddingVars,
     auctionVars
<1>4. UNCHANGED <<auction, bids, over, auctionLock>>
  BY DEF biddingVars, auctionVars
<1>5. LockedIsActive' /\ JobsAreBounded' /\ SoldMeansWon'
  BY <1>4 DEF LockedIsActive, JobsOK, SoldMeansWon
<1>6. EndedIsDecided'
  BY <1>4, DecidedStutters DEF EndedIsDecided, DecidedOn, Best
<1>7. UnbornIsEmpty'
  BY <1>4 DEF UnbornIsEmpty, CreationIsAlone
<1>8. CreationIsAlone'
  <2> SUFFICES ASSUME NEW g \in Handlers, Creating(g)'
               PROVE  /\ auction'[task'[g].auction].status \notin {"NONE", "ENDED"}
                      /\ job'[task'[g].auction]["end"].state = "none"
                      /\ \A f \in Handlers : Creating(f)' /\ task'[f].auction = task'[g].auction
                            => f = g
    BY DEF CreationIsAlone
  <2>1. \A f \in Handlers : Creating(f)' => Creating(f) /\ task'[f].auction = task[f].auction
    BY <1>2 DEF Creating
  <2>2. t # NoTask \/ g # h
    BY <1>2, NoTaskIsTyped DEF Creating
  <2>3. Creating(g) /\ task'[g].auction = task[g].auction /\ task[g].auction \in Auctions
    BY <2>1 DEF TasksAreJustified, Creating
  <2>4. job'[task[g].auction]["end"].state = "none"
    BY <2>2, <2>3 DEF CreationIsAlone
  <2> QED  BY <1>4, <2>1, <2>3, <2>4 DEF CreationIsAlone
<1>9. TasksAreJustified'
  <2> SUFFICES ASSUME NEW g \in Handlers
               PROVE  /\ task'[g].pc # "idle" => task'[g].auction \in Auctions
                      /\ task'[g].pc = "settle" =>
                            /\ DecidedOn(task[g].auction, task[g].winner)'
                            /\ job'[task'[g].auction]["end"].state # "none"
    BY DEF TasksAreJustified
  <2>1. CASE g = h
    BY <1>2, <1>4, <2>1 DEF DecidedOn, Best
  <2>2. CASE g # h
    BY <1>2, <1>4, <2>2 DEF TasksAreJustified, DecidedOn, Best
  <2> QED  BY <2>1, <2>2
<1> QED  BY <1>1, <1>3, <1>5, <1>6, <1>7, <1>8, <1>9

(* The handler h is left with task t.                                      *)
LEMMA TaskStepKeepsInv ==
    ASSUME LifecycleInv, NEW h \in Handlers, NEW t \in TaskRow, Become(h, t),
           UNCHANGED <<biddingVars, started, vehicle, edited>>, JobsOK',
           \A b \in Auctions :
              \/ job[b]["end"].state = "none" <=> job'[b]["end"].state = "none"
              \/ /\ Creating(h) /\ b = task[h].auction /\ t = NoTask
                 /\ job'[b]["end"].state # "none",
           t.pc # "idle" => t.auction \in Auctions,
           t.pc = "settle" => /\ DecidedOn(t.auction, t.winner)
                              /\ job'[t.auction]["end"].state # "none",
           t.pc \in {"vehicle", "queueStart", "queueEnd"} =>
              Creating(h) /\ t.auction = task[h].auction
    PROVE  LifecycleInv'
<1>1. vehicle' \in [Auctions -> VehicleStatus] /\ edited' \in SUBSET Auctions
  BY DEF LifecycleInv, LifecycleTypeOK
<1> QED  BY <1>1, HandlerStepKeepsInv

LEMMA JobsAreOK == LifecycleInv => JobsOK
BY DEF LifecycleInv, LifecycleTypeOK, JobsOK

(* A handler gives up, or is done, and the job is left as it is or goes on. *)
LEMMA IdleStepKeepsInv ==
    ASSUME LifecycleInv, NEW h \in Handlers, Become(h, NoTask),
           UNCHANGED <<biddingVars, started, vehicle, edited>>, JobsOK', EndJobsStay
    PROVE  LifecycleInv'
BY NoTaskIsTyped, TaskStepKeepsInv DEF EndJobsStay

(* Create and cancel have read the auction.                                *)
LEMMA ArriveKeepsInv ==
    ASSUME LifecycleInv, NEW h \in Handlers, NEW a \in Auctions,
           CreateAuction(h, a) \/ CancelAuction(h, a)
    PROVE  LifecycleInv'
<1>1. PICK t \in {Task("insert", a), Task("cancel", a)} : Become(h, t)
  BY DEF CreateAuction, CancelAuction
<1>2. t \in TaskRow /\ t.pc \in {"insert", "cancel"} /\ t.auction = a
  BY TaskIsTyped DEF TaskPc
<1>3. UNCHANGED <<biddingVars, started, vehicle, edited>> /\ UNCHANGED job
  BY DEF CreateAuction, CancelAuction
<1>4. JobsOK'
  BY <1>3, JobsAreOK DEF JobsOK, JobsAreBounded
<1> QED  BY <1>1, <1>2, <1>3, <1>4, TaskStepKeepsInv

(* The start job is queued, or not.                                        *)
LEMMA QueueStartKeepsInv ==
    ASSUME LifecycleInv, NEW h \in Handlers, QueueStart(h)
    PROVE  LifecycleInv'
<1> PICK a \in Auctions : a = task[h].auction
  BY DEF LifecycleInv, TasksAreJustified, QueueStart
<1>1. Task("queueEnd", a) \in TaskRow /\ Task("queueEnd", a).pc = "queueEnd"
      /\ Task("queueEnd", a).auction = a
  BY TaskIsTyped DEF TaskPc
<1>2. UNCHANGED <<biddingVars, started, vehicle, edited>> /\ Become(h, Task("queueEnd", a))
      /\ Creating(h)
  BY DEF QueueStart, Creating
<1>3. JobsOK' /\ EndJobsStay
  <2>1. CASE UNCHANGED job
    BY <2>1, JobsAreOK DEF JobsOK, JobsAreBounded, EndJobsStay
  <2>2. CASE JobSet(a, "start", Queued)
    <3>1. Queued \in JobRow /\ Queued.runs = 0 /\ Queued.state = "queued"
      BY DEF Queued, NoJob, JobRow
    <3> QED  BY <2>2, <3>1, JobsAreOK, JobChange DEF JobsOK, JobsAreBounded, EndJobsStay
  <2> QED  BY <2>1, <2>2 DEF QueueStart, JobSet
<1> QED  BY <1>1, <1>2, <1>3, TaskStepKeepsInv DEF EndJobsStay

(* The end job is queued, and the auction is all there.                    *)
LEMMA QueueEndKeepsInv ==
    ASSUME LifecycleInv, NEW h \in Handlers, QueueEnd(h)
    PROVE  LifecycleInv'
<1> PICK a \in Auctions : a = task[h].auction
  BY DEF LifecycleInv, TasksAreJustified, QueueEnd
<1>1. UNCHANGED <<biddingVars, started, vehicle, edited>> /\ Become(h, NoTask)
      /\ Creating(h) /\ JobSet(a, "end", Queued)
  BY DEF QueueEnd, Creating, JobSet
<1>2. Queued \in JobRow /\ Queued.runs = 0 /\ Queued.state = "queued"
  BY DEF Queued, NoJob, JobRow
<1>3. JobsOK' /\ \A b \in Auctions :
         \/ b # a /\ job'[b]["end"] = job[b]["end"]
         \/ b = a /\ job'[b]["end"].state # "none"
  BY <1>1, <1>2, JobsAreOK, JobChange DEF JobsOK, JobsAreBounded
<1> QED  BY <1>1, <1>3, NoTaskIsTyped, TaskStepKeepsInv

(* A worker takes a job that is due; of the end job it reads the winner.   *)
LEMMA TakeJobKeepsInv ==
    ASSUME LifecycleInv, NEW h \in Handlers, NEW a \in Auctions, TakeJob(h, a)
    PROVE  LifecycleInv'
<1>1. UNCHANGED <<biddingVars, started, vehicle, edited>>
  BY DEF TakeJob, TakeStartJob, TakeEndJob
<1>2. CASE TakeStartJob(h, a)
  <2>1. Task("activate", a) \in TaskRow /\ Task("activate", a).pc = "activate"
        /\ Task("activate", a).auction = a
    BY TaskIsTyped DEF TaskPc
  <2>2. JobsOK' /\ EndJobsStay /\ Become(h, Task("activate", a))
    BY <1>2, JobsAreOK, TakeIsTyped, GoOnStays DEF TakeStartJob
  <2> QED  BY <1>1, <2>1, <2>2, TaskStepKeepsInv DEF EndJobsStay
<1>3. CASE TakeEndJob(h, a) /\ auction[a].status = "ACTIVE"
  <2> DEFINE t == [Task("settle", a) EXCEPT !.winner = TopBid(a).bidder]
  <2>1. /\ a \in over /\ job[a]["end"].state = "queued" /\ Take(h, a, "end") /\ Become(h, t)
    BY <1>3 DEF TakeEndJob
  <2>2. TopBid(a).bidder \in Users \cup {None} /\ DecidedOn(a, TopBid(a).bidder)
    BY <2>1, TopIsDecided DEF LifecycleInv
  <2>3. t \in TaskRow /\ t.pc = "settle" /\ t.auction = a /\ t.winner = TopBid(a).bidder
    BY <2>2 DEF Task, NoTask, TaskRow, TaskPc
  <2>4. JobsOK' /\ EndJobsStay
    BY <2>1, JobsAreOK, TakeIsTyped, GoOnStays
  <2>5. job'[a]["end"].state # "none"
    BY <2>1, <2>4 DEF EndJobsStay
  <2> HIDE DEF t
  <2> QED  BY <1>1, <2>1, <2>2, <2>3, <2>4, <2>5, TaskStepKeepsInv DEF EndJobsStay
<1>4. CASE TakeEndJob(h, a) /\ UNCHANGED task
           /\ job' = [job EXCEPT ![a]["end"] = [@ EXCEPT !.state = "done"]]
  <2> DEFINE v == [job[a]["end"] EXCEPT !.state = "done"]
  <2>1. v \in JobRow /\ v.state = "done" /\ job[a]["end"].state = "queued"
    BY <1>4, JobsAreOK, JobFields DEF JobRow, TakeEndJob
  <2>2. JobSet(a, "end", v)
    BY <1>4 DEF JobSet
  <2> HIDE DEF v
  <2>3. JobsOK' /\ EndJobsStay
    BY <2>1, <2>2, JobsAreOK, JobChange DEF JobsOK, JobsAreBounded, EndJobsStay
  <2>4. task[h] = NoTask /\ Become(h, NoTask)
    BY <1>4 DEF TakeEndJob, Become, LifecycleInv, LifecycleTypeOK
  <2> QED  BY <1>1, <2>3, <2>4, IdleStepKeepsInv
<1> QED  BY <1>2, <1>3, <1>4 DEF TakeJob, TakeEndJob

LEMMA PublishEndKeepsInv ==
    ASSUME LifecycleInv, NEW h \in Handlers, PublishEnd(h)
    PROVE  LifecycleInv'
<1> PICK a \in Auctions : a = task[h].auction
  BY DEF LifecycleInv, TasksAreJustified, PublishEnd
<1>1. Leave(h, a, "end", "done") /\ Become(h, NoTask)
      /\ UNCHANGED <<biddingVars, started, vehicle, edited>>
  BY DEF PublishEnd
<1>2. JobsOK' /\ EndJobsStay
  BY <1>1, JobsAreOK, LeaveIsTyped, GoOnStays
<1> QED  BY <1>1, <1>2, IdleStepKeepsInv

LEMMA FailTaskKeepsInv ==
    ASSUME LifecycleInv, NEW h \in Handlers, FailTask(h)
    PROVE  LifecycleInv'
<1>1. Become(h, NoTask) /\ UNCHANGED <<biddingVars, started, vehicle, edited>>
  BY DEF FailTask
<1>2. CASE UNCHANGED job
  BY <1>1, <1>2, JobsAreOK, IdleStepKeepsInv DEF JobsOK, JobsAreBounded, EndJobsStay
<1>3. CASE /\ task[h].pc \in {"activate", "settle"}
           /\ Leave(h, task[h].auction, JobOf(h), "failed")
  <2> PICK a \in Auctions : a = task[h].auction
    BY <1>3 DEF LifecycleInv, TasksAreJustified
  <2>1. JobsOK' /\ EndJobsStay
    BY <1>3, JobsAreOK, LeaveIsTyped, GoOnStays DEF JobOf
  <2> QED  BY <1>1, <2>1, IdleStepKeepsInv
<1> QED  BY <1>2, <1>3 DEF FailTask

(* The job goes back to the queue; its worker may go on all the same.      *)
LEMMA StallJobKeepsInv ==
    ASSUME LifecycleInv, NEW h \in Handlers, StallJob(h)
    PROVE  LifecycleInv'
<1> PICK a \in Auctions : a = task[h].auction
  BY DEF LifecycleInv, TasksAreJustified, StallJob
<1> PICK k \in {"start", "end"} : k = JobOf(h)
  BY DEF JobOf
<1>1. /\ UNCHANGED <<biddingVars, started, vehicle, edited>>
      /\ Leave(h, a, k, IF job[a][k].runs < 2 THEN "queued" ELSE "failed")
      /\ task[h].pc \in {"activate", "settle", "publish"}
  BY DEF StallJob
<1>2. JobsOK' /\ EndJobsStay
  <2>1. CASE job[a][k].runs < 2
    BY <1>1, <2>1, JobsAreOK, LeaveIsTyped, GoOnStays
  <2>2. CASE ~(job[a][k].runs < 2)
    BY <1>1, <2>2, JobsAreOK, LeaveIsTyped, GoOnStays
  <2> QED  BY <2>1, <2>2
<1>3. CASE Become(h, NoTask)
  BY <1>1, <1>2, <1>3, IdleStepKeepsInv
<1>4. CASE UNCHANGED task
  <2>1. task[h] \in TaskRow /\ Become(h, task[h])
    BY <1>4 DEF Become, LifecycleInv, LifecycleTypeOK
  <2>2. task[h].pc = "settle" => /\ DecidedOn(task[h].auction, task[h].winner)
                                 /\ job'[task[h].auction]["end"].state # "none"
    BY <1>2 DEF LifecycleInv, TasksAreJustified, EndJobsStay
  <2> QED  BY <1>1, <1>2, <2>1, <2>2, TaskStepKeepsInv DEF EndJobsStay
<1> QED  BY <1>3, <1>4 DEF StallJob

-----------------------------------------------------------------------------
(* The steps that write the row of an auction.                             *)

(* The handler h writes row a, which no bid has, perhaps the status of its *)
(* vehicle, and is left with task t.                                       *)
LEMMA RowStepKeepsInv ==
    ASSUME LifecycleInv, NEW h \in Handlers, NEW t \in TaskRow, Become(h, t),
           NEW a \in Auctions, NEW row \in AuctionRow,
           row.price = auction[a].price, row.totalBids = auction[a].totalBids,
           auctionLock[a] = None,
           auction' = [auction EXCEPT ![a] = row],
           UNCHANGED <<walletVars, bids, held, over, auctionLock, bid, announced, started>>,
           JobsOK', EndJobsStay,
           vehicle' \in [Auctions -> VehicleStatus], edited' \in SUBSET Auctions,
           \A b \in Auctions \ {a} : vehicle'[b] = vehicle[b] /\ (b \in edited <=> b \in edited'),
           t.pc # "idle" => t.auction = a /\ t.pc # "settle",
           t.pc \in {"vehicle", "queueStart", "queueEnd"} => auction[a].status = "NONE",
           row.status \notin {"NONE", "ENDED"}
              \/ /\ row.status = "ENDED" /\ DecidedOn(a, row.winner)
                 /\ job[a]["end"].state # "none"
                 /\ a \in edited' \/ (vehicle'[a] = "SOLD" <=> row.winner # None)
    PROVE  LifecycleInv'
<1> USE DEF LifecycleInv
<1>1. BiddingInv'
  BY RowChangeKeepsBids
<1>2. /\ task' \in [Handlers -> TaskRow] /\ task'[h] = t
      /\ \A g \in Handlers \ {h} : task'[g] = task[g]
  BY TaskChange
<1>3. auction'[a] = row /\ \A b \in Auctions \ {a} : auction'[b] = auction[b]
  BY DEF BiddingInv, AuctionTypeOK
<1>4. LifecycleTypeOK'
  BY <1>1, <1>2 DEF LifecycleTypeOK, BiddingInv, WalletInv, BiddingTypeOK, JobsOK
<1>5. LockedIsActive' /\ JobsAreBounded'
  BY <1>3 DEF LockedIsActive, JobsOK
<1>6. UnbornIsEmpty'
  BY <1>3 DEF UnbornIsEmpty, EndJobsStay
<1>7. CreationIsAlone'
  <2> SUFFICES ASSUME NEW g \in Handlers, Creating(g)'
               PROVE  /\ auction'[task'[g].auction].status \notin {"NONE", "ENDED"}
                      /\ job'[task'[g].auction]["end"].state = "none"
                      /\ \A f \in Handlers : Creating(f)' /\ task'[f].auction = task'[g].auction
                            => f = g
    BY DEF CreationIsAlone
  <2>1. \A f \in Handlers \ {h} : Creating(f)' => Creating(f) /\ task'[f].auction = task[f].auction
    BY <1>2 DEF Creating
  <2>2. Creating(h)' => task'[h].auction = a /\ auction[a].status = "NONE"
    BY <1>2 DEF Creating
  <2>3. \A f \in Handlers : Creating(f) => /\ auction[task[f].auction].status # "NONE"
                                           /\ task[f].auction \in Auctions
    BY DEF CreationIsAlone, TasksAreJustified, Creating
  <2>4. CASE g = h
    <3>1. task'[g].auction = a /\ auction[a].status = "NONE"
      BY <2>2, <2>4
    <3>2. job'[a]["end"].state = "none" /\ row.status \notin {"NONE", "ENDED"}
      BY <3>1 DEF UnbornIsEmpty, EndJobsStay
    <3> QED  BY <1>3, <2>1, <2>3, <2>4, <3>1, <3>2
  <2>5. CASE g # h
    <3>1. Creating(g) /\ task'[g].auction = task[g].auction /\ task[g].auction \in Auctions
      BY <2>1, <2>3, <2>5
    <3>2. job[task[g].auction]["end"].state = "none"
      BY <3>1 DEF CreationIsAlone
    <3>3. auction'[task[g].auction].status \notin {"NONE", "ENDED"}
      BY <1>3, <3>1, <3>2 DEF CreationIsAlone
    <3> QED  BY <2>1, <2>2, <2>3, <3>1, <3>2, <3>3 DEF CreationIsAlone, EndJobsStay
  <2> QED  BY <2>4, <2>5
<1>8. TasksAreJustified'
  <2> SUFFICES ASSUME NEW g \in Handlers
               PROVE  /\ task'[g].pc # "idle" => task'[g].auction \in Auctions
                      /\ task'[g].pc = "settle" =>
                            /\ DecidedOn(task[g].auction, task[g].winner)'
                            /\ job'[task'[g].auction]["end"].state # "none"
    BY DEF TasksAreJustified
  <2>1. CASE g = h
    BY <1>2, <2>1
  <2>2. CASE g # h
    BY <1>2, <2>2 DEF TasksAreJustified, DecidedOn, Best, EndJobsStay
  <2> QED  BY <2>1, <2>2
<1>9. EndedIsDecided'
  <2> SUFFICES ASSUME NEW b \in Auctions, auction'[b].status = "ENDED"
               PROVE  DecidedOn(b, auction[b].winner)'
    BY DEF EndedIsDecided
  <2>1. PICK w : w = auction'[b].winner /\ DecidedOn(b, w)
    BY <1>3 DEF EndedIsDecided
  <2>2. DecidedOn(b, w)'
    BY <2>1, DecidedStutters
  <2> QED  BY <2>1, <2>2
<1>10. SoldMeansWon'
  BY <1>3 DEF SoldMeansWon
<1> QED  BY <1>1, <1>4, <1>5, <1>6, <1>7, <1>8, <1>9, <1>10

(* auction.create.                                                         *)
LEMMA InsertKeepsInv ==
    ASSUME LifecycleInv, NEW h \in Handlers, InsertAuction(h)
    PROVE  LifecycleInv'
<1> PICK a \in Auctions : a = task[h].auction
  BY DEF LifecycleInv, TasksAreJustified, InsertAuction
<1>1. UNCHANGED <<walletVars, bids, held, over, auctionLock, bid, announced, started, vehicle,
                  job, edited>>
  BY DEF InsertAuction
<1>2. JobsOK' /\ EndJobsStay
  BY <1>1, JobsAreOK DEF JobsOK, JobsAreBounded, EndJobsStay
<1>3. CASE UNCHANGED auction /\ Become(h, NoTask)
  BY <1>1, <1>2, <1>3, IdleStepKeepsInv DEF biddingVars, auctionVars
<1>4. CASE /\ auction[a].status = "NONE" /\ Become(h, Task("vehicle", a))
           /\ auction' = [auction EXCEPT ![a] =
                NewAuction(IF a \in started THEN "ACTIVE" ELSE "SCHEDULED")]
  <2> DEFINE row == NewAuction(IF a \in started THEN "ACTIVE" ELSE "SCHEDULED")
  <2>1. /\ row \in AuctionRow /\ row.status \in {"ACTIVE", "SCHEDULED"}
        /\ row.price = StartingPrice /\ row.totalBids = 0
    BY BiddingAssumption DEF NewAuction, AuctionRow, AuctionStatus
  <2>2. bids[a] = {} /\ auctionLock[a] = None
    BY <1>4 DEF LifecycleInv, UnbornIsEmpty, LockedIsActive
  <2>3. auction[a].price = StartingPrice /\ auction[a].totalBids = 0
    BY <2>2, FS_EmptySet DEF LifecycleInv, BiddingInv, BookInv, PriceIsTopBid
  <2>4. Task("vehicle", a) \in TaskRow /\ Task("vehicle", a).pc = "vehicle"
        /\ Task("vehicle", a).auction = a
    BY TaskIsTyped DEF TaskPc
  <2>5. auction' = [auction EXCEPT ![a] = row]
    BY <1>4
  <2>6. vehicle' \in [Auctions -> VehicleStatus] /\ edited' \in SUBSET Auctions
    BY <1>1 DEF LifecycleInv, LifecycleTypeOK
  <2> HIDE DEF row
  <2> QED  BY <1>1, <1>2, <1>4, <2>1, <2>2, <2>3, <2>4, <2>5, <2>6, RowStepKeepsInv
<1> QED  BY <1>3, <1>4 DEF InsertAuction

(* The start job.                                                          *)
LEMMA ActivateKeepsInv ==
    ASSUME LifecycleInv, NEW h \in Handlers, ActivateAuction(h)
    PROVE  LifecycleInv'
<1> PICK a \in Auctions : a = task[h].auction
  BY DEF LifecycleInv, TasksAreJustified, ActivateAuction
<1> DEFINE row == [auction[a] EXCEPT !.status = "ACTIVE"]
<1>1. /\ auctionLock[a] = None /\ Leave(h, a, "start", "done") /\ Become(h, NoTask)
      /\ UNCHANGED <<walletVars, bids, held, over, auctionLock, bid, announced, started, vehicle,
                     edited>>
      /\ auction' = [auction EXCEPT ![a] = row]
  BY DEF ActivateAuction
<1>2. /\ row \in AuctionRow /\ row.status = "ACTIVE"
      /\ row.price = auction[a].price /\ row.totalBids = auction[a].totalBids
  BY DEF LifecycleInv, BiddingInv, AuctionTypeOK, AuctionRow, AuctionStatus
<1>3. JobsOK' /\ EndJobsStay
  BY <1>1, JobsAreOK, LeaveIsTyped, GoOnStays
<1>4. vehicle' \in [Auctions -> VehicleStatus] /\ edited' \in SUBSET Auctions
  BY <1>1 DEF LifecycleInv, LifecycleTypeOK
<1> HIDE DEF row
<1> QED  BY <1>1, <1>2, <1>3, <1>4, NoTaskIsTyped, RowStepKeepsInv

(* The auction's own write of the vehicle's status.                        *)
LEMMA VehicleChange ==
    ASSUME LifecycleTypeOK, NEW a \in Auctions, NEW status \in VehicleStatus,
           SetVehicle(a, status)
    PROVE  /\ vehicle' \in [Auctions -> VehicleStatus] /\ edited' \in SUBSET Auctions
           /\ vehicle'[a] = status
           /\ \A b \in Auctions \ {a} : /\ vehicle'[b] = vehicle[b]
                                        /\ b \in edited <=> b \in edited'
BY DEF LifecycleTypeOK, SetVehicle

(* The transaction of endAuction writes what was decided.                  *)
LEMMA SettleKeepsInv ==
    ASSUME LifecycleInv, NEW h \in Handlers, SettleAuction(h)
    PROVE  LifecycleInv'
<1> PICK a \in Auctions : a = task[h].auction
  BY DEF LifecycleInv, TasksAreJustified, SettleAuction
<1> PICK w \in Users \cup {None} : w = task[h].winner
  BY TaskFields DEF LifecycleInv
<1> PICK status \in VehicleStatus : status = IF w = None THEN "PUBLISHED" ELSE "SOLD"
  BY DEF VehicleStatus
<1> DEFINE row == [auction[a] EXCEPT !.status = "ENDED", !.winner = w]
<1>1. /\ auctionLock[a] = None /\ Become(h, Task("publish", a)) /\ SetVehicle(a, status)
      /\ UNCHANGED <<walletVars, bids, held, over, auctionLock, bid, announced, started, job>>
      /\ task[h].pc = "settle"
  BY DEF SettleAuction
<1>2. auction' = [auction EXCEPT ![a] = row]
  BY DEF SettleAuction, LifecycleInv, BiddingInv, AuctionTypeOK
<1>3. /\ row \in AuctionRow /\ row.status = "ENDED" /\ row.winner = w
      /\ row.price = auction[a].price /\ row.totalBids = auction[a].totalBids
  <2>1. auction[a] \in AuctionRow
    BY DEF LifecycleInv, BiddingInv, AuctionTypeOK
  <2> DEFINE half == [auction[a] EXCEPT !.status = "ENDED"]
  <2>2. /\ half \in AuctionRow /\ half.status = "ENDED"
        /\ half.price = auction[a].price /\ half.totalBids = auction[a].totalBids
    BY <2>1 DEF AuctionRow, AuctionStatus
  <2>3. row = [half EXCEPT !.winner = w]
    OBVIOUS
  <2> HIDE DEF half, row
  <2> QED  BY <2>2, <2>3 DEF AuctionRow
<1>4. DecidedOn(a, w) /\ job[a]["end"].state # "none"
  BY <1>1 DEF LifecycleInv, TasksAreJustified
<1>5. JobsOK' /\ EndJobsStay
  BY <1>1, JobsAreOK DEF JobsOK, JobsAreBounded, EndJobsStay
<1>6. /\ vehicle' \in [Auctions -> VehicleStatus] /\ edited' \in SUBSET Auctions
      /\ vehicle'[a] = status
      /\ \A b \in Auctions \ {a} : vehicle'[b] = vehicle[b] /\ (b \in edited <=> b \in edited')
  BY <1>1, VehicleChange DEF LifecycleInv
<1>7. Task("publish", a) \in TaskRow /\ Task("publish", a).pc = "publish"
      /\ Task("publish", a).auction = a
  BY TaskIsTyped DEF TaskPc
<1>8. vehicle'[a] = "SOLD" <=> row.winner # None
  BY <1>3, <1>6
<1> HIDE DEF row
<1> QED  BY <1>1, <1>2, <1>3, <1>4, <1>5, <1>6, <1>7, <1>8, RowStepKeepsInv

(* The transaction of cancelAuction.                                       *)
LEMMA CommitCancelKeepsInv ==
    ASSUME LifecycleInv, NEW h \in Handlers, CommitCancel(h)
    PROVE  LifecycleInv'
<1> PICK a \in Auctions : a = task[h].auction
  BY DEF LifecycleInv, TasksAreJustified, CommitCancel
<1> DEFINE row == [auction[a] EXCEPT !.status = "CANCELLED"]
<1>1. /\ auctionLock[a] = None /\ Become(h, NoTask) /\ SetVehicle(a, "PUBLISHED")
      /\ UNCHANGED <<walletVars, bids, held, over, auctionLock, bid, announced, started, job>>
      /\ auction' = [auction EXCEPT ![a] = row]
  BY DEF CommitCancel
<1>2. /\ row \in AuctionRow /\ row.status = "CANCELLED"
      /\ row.price = auction[a].price /\ row.totalBids = auction[a].totalBids
  BY DEF LifecycleInv, BiddingInv, AuctionTypeOK, AuctionRow, AuctionStatus
<1>3. JobsOK' /\ EndJobsStay
  BY <1>1, JobsAreOK DEF JobsOK, JobsAreBounded, EndJobsStay
<1>4. /\ vehicle' \in [Auctions -> VehicleStatus] /\ edited' \in SUBSET Auctions
      /\ \A b \in Auctions \ {a} : vehicle'[b] = vehicle[b] /\ (b \in edited <=> b \in edited')
  BY <1>1, VehicleChange DEF LifecycleInv, VehicleStatus
<1> HIDE DEF row
<1> QED  BY <1>1, <1>2, <1>3, <1>4, NoTaskIsTyped, RowStepKeepsInv

-----------------------------------------------------------------------------
(* The steps that leave the auction's row and the jobs alone.              *)

(* Time, the sellers and the admins: no task and no job is touched.        *)
LEMMA OutsideStepKeepsInv ==
    ASSUME LifecycleInv, BiddingInv', UNCHANGED <<auction, bids, auctionLock, job, task>>,
           over \subseteq over', started' \in SUBSET Auctions, over' \subseteq started',
           vehicle' \in [Auctions -> VehicleStatus], edited' \in SUBSET Auctions,
           \A b \in Auctions \ edited' : b \notin edited /\ vehicle'[b] = vehicle[b]
    PROVE  LifecycleInv'
<1> USE DEF LifecycleInv
<1>1. LifecycleTypeOK'
  BY DEF LifecycleTypeOK, BiddingInv, WalletInv, BiddingTypeOK
<1>2. LockedIsActive' /\ JobsAreBounded' /\ UnbornIsEmpty' /\ CreationIsAlone'
  BY DEF LockedIsActive, JobsAreBounded, UnbornIsEmpty, CreationIsAlone, Creating
<1>3. TasksAreJustified'
  <2> SUFFICES ASSUME NEW h \in Handlers, task[h].pc = "settle"
               PROVE  DecidedOn(task[h].auction, task[h].winner)'
    BY DEF TasksAreJustified
  <2>1. PICK a, w : /\ a \in Auctions /\ a = task[h].auction /\ w = task[h].winner
                    /\ DecidedOn(a, w)
    BY DEF TasksAreJustified
  <2>2. DecidedOn(a, w)'
    BY <2>1, DecidedStutters
  <2> QED  BY <2>1, <2>2
<1>4. EndedIsDecided'
  <2> SUFFICES ASSUME NEW a \in Auctions, auction[a].status = "ENDED"
               PROVE  DecidedOn(a, auction[a].winner)'
    BY DEF EndedIsDecided
  <2>1. PICK w : w = auction[a].winner /\ DecidedOn(a, w)
    BY DEF EndedIsDecided
  <2>2. DecidedOn(a, w)'
    BY <2>1, DecidedStutters
  <2> QED  BY <2>1, <2>2
<1>5. SoldMeansWon'
  BY DEF SoldMeansWon
<1> QED  BY <1>1, <1>2, <1>3, <1>4, <1>5

LEMMA TimeAndEditsKeepInv ==
    ASSUME LifecycleInv, NEW a \in Auctions,
           StartTimePasses(a) \/ EndTimePasses(a) \/ EditVehicle(a)
    PROVE  LifecycleInv'
<1>1. CASE StartTimePasses(a)
  <2>1. BiddingInv'
    BY <1>1, BiddingStutterInv DEF StartTimePasses, LifecycleInv
  <2> QED  BY <1>1, <2>1, OutsideStepKeepsInv
           DEF StartTimePasses, LifecycleInv, LifecycleTypeOK, biddingVars, auctionVars
<1>2. CASE EndTimePasses(a)
  <2>1. BiddingInv'
    BY <1>2, EndTimeKeepsBids DEF LifecycleInv
  <2> QED  BY <1>2, <2>1, OutsideStepKeepsInv
           DEF EndTimePasses, LifecycleInv, LifecycleTypeOK, lifecycleVars
<1>3. CASE EditVehicle(a)
  <2>1. BiddingInv'
    BY <1>3, BiddingStutterInv DEF EditVehicle, LifecycleInv
  <2>2. PICK status \in VehicleStatus : vehicle' = [vehicle EXCEPT ![a] = status]
    BY <1>3, LifecycleAssumption DEF EditVehicle
  <2>3. /\ vehicle' \in [Auctions -> VehicleStatus]
        /\ \A b \in Auctions \ {a} : vehicle'[b] = vehicle[b]
    BY <2>2 DEF LifecycleInv, LifecycleTypeOK
  <2> QED  BY <1>3, <2>1, <2>3, OutsideStepKeepsInv
           DEF EditVehicle, LifecycleInv, LifecycleTypeOK, biddingVars, auctionVars
<1> QED  BY <1>1, <1>2, <1>3

(* The vehicle of an auction that is being created is not the one of an    *)
(* ended auction.                                                          *)
LEMMA MarkVehicleKeepsInv ==
    ASSUME LifecycleInv, NEW h \in Handlers, MarkVehicle(h)
    PROVE  LifecycleInv'
<1> PICK a \in Auctions : a = task[h].auction
  BY DEF LifecycleInv, TasksAreJustified, MarkVehicle
<1> DEFINE t == Task("queueStart", a)
<1>1. UNCHANGED <<biddingVars, started, job>> /\ Become(h, t) /\ SetVehicle(a, "IN_AUCTION")
      /\ Creating(h)
  BY DEF MarkVehicle, Creating
<1>2. t \in TaskRow /\ t.pc = "queueStart" /\ t.auction = a
  BY TaskIsTyped DEF TaskPc
<1> HIDE DEF t
<1>3. auction[a].status \notin {"NONE", "ENDED"}
  BY <1>1 DEF LifecycleInv, CreationIsAlone
<1>4. /\ vehicle' \in [Auctions -> VehicleStatus] /\ edited' \in SUBSET Auctions
      /\ \A b \in Auctions \ {a} : vehicle'[b] = vehicle[b] /\ (b \in edited <=> b \in edited')
  BY <1>1, VehicleChange DEF LifecycleInv, VehicleStatus
<1>5. JobsOK' /\ EndJobsStay
  BY <1>1, JobsAreOK DEF JobsOK, JobsAreBounded, EndJobsStay
<1> QED  BY <1>1, <1>2, <1>3, <1>4, <1>5, HandlerStepKeepsInv DEF EndJobsStay

-----------------------------------------------------------------------------
(* The invariant.                                                          *)

LEMMA LifecycleInitInv ==
    ASSUME LifecycleInit
    PROVE  LifecycleInv
<1> USE DEF LifecycleInit
<1>1. BiddingInv
  BY InitWithInv DEF AuctionStatus
<1>2. /\ \A a \in Auctions : /\ auction[a].status = "NONE" /\ bids[a] = {}
                             /\ auctionLock[a] = None
      /\ over = {}
  BY DEF InitWith, NewAuction
<1>3. NoTask \in TaskRow /\ NoTask.pc = "idle" /\ NoJob \in JobRow /\ NoJob.state = "none"
      /\ NoJob.owner = None
  BY NoTaskIsTyped DEF NoJob, JobRow
<1>4. LifecycleTypeOK
  BY <1>1, <1>2, <1>3 DEF LifecycleTypeOK, BiddingInv, WalletInv, BiddingTypeOK, VehicleStatus
<1>5. LockedIsActive /\ EndedIsDecided /\ SoldMeansWon
  BY <1>2 DEF LockedIsActive, EndedIsDecided, SoldMeansWon
<1>6. JobsAreBounded /\ UnbornIsEmpty
  BY <1>2, <1>3 DEF JobsAreBounded, UnbornIsEmpty
<1>7. CreationIsAlone /\ TasksAreJustified
  BY <1>3 DEF CreationIsAlone, Creating, TasksAreJustified
<1> QED  BY <1>1, <1>4, <1>5, <1>6, <1>7 DEF LifecycleInv

LEMMA TaskOfHandlerKeepsInv ==
    ASSUME LifecycleInv, NEW h \in Handlers, TaskStep(h)
    PROVE  LifecycleInv'
<1>1. CASE \E a \in Auctions : CreateAuction(h, a) \/ CancelAuction(h, a)
  BY <1>1, ArriveKeepsInv
<1>2. CASE \E a \in Auctions : TakeJob(h, a)
  BY <1>2, TakeJobKeepsInv
<1>3. CASE InsertAuction(h)
  BY <1>3, InsertKeepsInv
<1>4. CASE MarkVehicle(h)
  BY <1>4, MarkVehicleKeepsInv
<1>5. CASE QueueStart(h)
  BY <1>5, QueueStartKeepsInv
<1>6. CASE QueueEnd(h)
  BY <1>6, QueueEndKeepsInv
<1>7. CASE ActivateAuction(h)
  BY <1>7, ActivateKeepsInv
<1>8. CASE SettleAuction(h)
  BY <1>8, SettleKeepsInv
<1>9. CASE PublishEnd(h)
  BY <1>9, PublishEndKeepsInv
<1>10. CASE CommitCancel(h)
  BY <1>10, CommitCancelKeepsInv
<1>11. CASE StallJob(h)
  BY <1>11, StallJobKeepsInv
<1>12. CASE FailTask(h)
  BY <1>12, FailTaskKeepsInv
<1> QED  BY <1>1, <1>2, <1>3, <1>4, <1>5, <1>6, <1>7, <1>8, <1>9, <1>10, <1>11, <1>12
         DEF TaskStep, ProceedTask

LEMMA LifecycleNextInv ==
    ASSUME LifecycleInv, [LifecycleNext]_allVars
    PROVE  LifecycleInv'
<1>1. CASE \E a \in Auctions : StartTimePasses(a) \/ EndTimePasses(a) \/ EditVehicle(a)
  BY <1>1, TimeAndEditsKeepInv
<1>2. CASE \E h \in Handlers : TaskStep(h)
  BY <1>2, TaskOfHandlerKeepsInv
<1>3. CASE \E r \in Requests : (BidStep(r) \/ WalletStep(r)) /\ UNCHANGED lifecycleVars
  BY <1>3, BidStepKeepsInv
<1>4. CASE UNCHANGED allVars
  <2>1. BiddingInv'
    BY <1>4, BiddingStutterInv DEF allVars, LifecycleInv
  <2> QED  BY <1>4, <2>1, OutsideStepKeepsInv
           DEF allVars, lifecycleVars, biddingVars, auctionVars, LifecycleInv, LifecycleTypeOK
<1> QED  BY <1>1, <1>2, <1>3, <1>4 DEF LifecycleNext

(* The inductive invariant: the books of the bids, the jobs, creations     *)
(* that are alone on their auction, and a winner that was the top bidder   *)
(* when it was read (auctions.service.ts:39-123, :283-363).                *)
THEOREM LifecycleInvariant == LifecycleSpec => []LifecycleInv
<1>1. LifecycleInv /\ [LifecycleNext]_allVars => LifecycleInv'
  BY LifecycleNextInv
<1> QED  BY <1>1, LifecycleInitInv, PTL DEF LifecycleSpec

(* Every variable keeps its type; a job is taken twice at most.            *)
THEOREM LifecycleTypeCorrect == LifecycleSpec => []LifecycleTypeOK
<1>1. LifecycleInv => LifecycleTypeOK
  BY DEF LifecycleInv
<1> QED  BY <1>1, LifecycleInvariant, PTL

(* All that is proved of the bids on an ACTIVE auction holds of auctions   *)
(* that are created, started, ended and cancelled around them: the price   *)
(* is the top bid, the bids climb, the top bid is paid for and no balance  *)
(* is lost (auctions.service.ts:146-275).                                  *)
THEOREM BooksHoldThroughTheLifecycle ==
    LifecycleSpec => [](LedgerMatchesBalance /\ PriceIsTopBid /\ BidsClimb /\ TopBidIsFunded
                        /\ AnnouncedAreCommitted)
<1>1. LifecycleInv => LedgerMatchesBalance /\ PriceIsTopBid /\ BidsClimb /\ TopBidIsFunded
                      /\ AnnouncedAreCommitted
  BY DEF LifecycleInv, BiddingInv, WalletInv, BookInv
<1> QED  BY <1>1, LifecycleInvariant, PTL

(* The vehicle of an ended auction is SOLD exactly when there is a winner, *)
(* unless its status was set by other hands since                          *)
(* (auctions.service.ts:304-316).                                          *)
THEOREM SoldIsAlwaysWon == LifecycleSpec => []SoldMeansWon
<1>1. LifecycleInv => SoldMeansWon
  BY DEF LifecycleInv
<1> QED  BY <1>1, LifecycleInvariant, PTL

LEMMA DecidedMissesOne ==
    ASSUME LifecycleInv
    PROVE  AtMostOneBidMissed
<1> SUFFICES ASSUME NEW a \in Auctions, auction[a].status = "ENDED"
             PROVE  IF auction[a].winner = None THEN Cardinality(bids[a]) <= 1
                    ELSE \E best \in Best(a, auction[a].winner) :
                            Cardinality({b \in bids[a] : b.amount > best.amount}) <= 1
  BY DEF AtMostOneBidMissed
<1> PICK w : w = auction[a].winner
  OBVIOUS
<1>1. \A S : S = {} \/ (\E b \in S : S = {b}) => Cardinality(S) <= 1
  <2> SUFFICES ASSUME NEW S, S = {} \/ (\E b \in S : S = {b})
               PROVE  Cardinality(S) <= 1
    OBVIOUS
  <2>1. CASE S = {}
    BY <2>1, FS_EmptySet
  <2>2. CASE \E b \in S : S = {b}
    <3>1. PICK b : S = {b}
      BY <2>2
    <3>2. Cardinality({b}) = 1
      BY FS_Singleton
    <3> QED  BY <3>1, <3>2
  <2> QED  BY <2>1, <2>2
<1>2. PICK best \in IF w = None THEN {NoTop} ELSE Best(a, w) :
          LET missed == {b \in bids[a] : b.amount > best.amount} IN
          missed = {} \/ \E b \in missed : missed = {b}
  BY DEF LifecycleInv, EndedIsDecided, DecidedOn
<1>3. CASE w = None
  <2>1. \A b \in bids[a] : b.amount > 0
    BY BiddingAssumption
       DEF LifecycleInv, BiddingInv, BookInv, BidsClimb, AuctionTypeOK, BidRow
  <2>2. {b \in bids[a] : b.amount > best.amount} = bids[a]
    BY <1>2, <1>3, <2>1 DEF NoTop
  <2>3. Cardinality(bids[a]) <= 1
    BY <1>1, <1>2, <2>2
  <2> QED  BY <1>3, <2>3
<1>4. CASE w # None
  <2>1. Cardinality({b \in bids[a] : b.amount > best.amount}) <= 1
    BY <1>1, <1>2
  <2> QED  BY <1>2, <1>4, <2>1
<1> QED  BY <1>3, <1>4

(* endAuction misses one bid at most, the one that had the auction's row   *)
(* when the top bid was read, however many bidders and workers there are   *)
(* (auctions.service.ts:163, :293-302).                                    *)
THEOREM AtMostOneBidIsMissed == LifecycleSpec => []AtMostOneBidMissed
<1>1. LifecycleInv => AtMostOneBidMissed
  BY DecidedMissesOne
<1> QED  BY <1>1, LifecycleInvariant, PTL

(* Whoever is not a bid leaves the bids alone, and whoever is neither that *)
(* nor a request of the wallet the wallets.                                *)
LEMMA HandlersLeaveBids ==
    ASSUME \/ \E a \in Auctions : StartTimePasses(a) \/ EndTimePasses(a) \/ EditVehicle(a)
           \/ \E h \in Handlers : TaskStep(h)
           \/ UNCHANGED allVars
    PROVE  UNCHANGED <<bids, held, announced, walletVars>>
BY DEF StartTimePasses, EndTimePasses, EditVehicle, TaskStep, CreateAuction, CancelAuction,
   TakeJob, TakeStartJob, TakeEndJob, ProceedTask, InsertAuction, MarkVehicle, QueueStart,
   QueueEnd, ActivateAuction, SettleAuction, PublishEnd, CommitCancel, StallJob, FailTask,
   biddingVars, auctionVars, walletVars, allVars

LEMMA MoneyStutters ==
    ASSUME MoneyInv, UNCHANGED <<bids, held, walletVars>>
    PROVE  MoneyInv'
<1>1. AccountsInv'
  BY AccountsKept DEF MoneyInv, walletVars
<1>2. ApprovalInv'
  BY DEF MoneyInv, walletVars, ApprovalInv, CompletedByApproval, PendingHasTransaction,
     MarksAreMine, OfUser
<1>3. HoldsAreExact' /\ HoldsAddUp'
  BY HoldsStutter, AddsUpStutter DEF MoneyInv, walletVars
<1> QED  BY <1>1, <1>2, <1>3 DEF MoneyInv

(* The money adds up through the whole life of an auction: what is still   *)
(* held once it has ended or was cancelled is the bids nobody answered,    *)
(* and they, the withdrawals and the balance make up what was topped up    *)
(* (auctions.service.ts:192-233, :281-363).                                *)
THEOREM NoCentIsLostInTheLifecycle ==
    LifecycleSpec => [](/\ EveryCentIsSomewhere /\ HoldsAreExact
                        /\ WithdrawnMoneyAccounted /\ CompletedByApproval)
<1>1. LifecycleInit => MoneyInv
  BY MoneyAtFirst DEF LifecycleInit
<1>2. ASSUME LifecycleInv, MoneyInv, [LifecycleNext]_allVars
      PROVE  MoneyInv'
  <2>1. CASE \E r \in Requests : BidStep(r) \/ WalletStep(r)
    BY <1>2, <2>1, MoneyStep DEF LifecycleInv, BiddingNext
  <2>2. CASE UNCHANGED <<bids, held, announced, walletVars>>
    BY <1>2, <2>2, MoneyStutters
  <2> QED  BY <2>1, <2>2, <1>2, HandlersLeaveBids DEF LifecycleNext
<1>3. LifecycleInv /\ MoneyInv =>
         /\ EveryCentIsSomewhere /\ HoldsAreExact
         /\ WithdrawnMoneyAccounted /\ CompletedByApproval
  BY MoneyIsSomewhere DEF LifecycleInv, MoneyInv, AccountsInv, ApprovalInv
<1> QED  BY <1>1, <1>2, <1>3, LifecycleInvariant, PTL DEF LifecycleSpec

(* No bid is recorded on an auction that has not started, has ended or was *)
(* cancelled (auctions.service.ts:151-161, :304-309).                      *)
THEOREM BidsAlwaysWhileActive == LifecycleSpec => BidsOnlyWhileActive
<1>1. ASSUME LifecycleInv, [LifecycleNext]_allVars
      PROVE  \A a \in Auctions : bids'[a] # bids[a] =>
                auction[a].status = "ACTIVE" /\ auction'[a].status = "ACTIVE"
  <2>1. CASE \E r \in Requests : BidStep(r) \/ WalletStep(r)
    <3>1. PICK r \in Requests : TouchesAuctions(r)
      BY <1>1, <2>1, BidEffects DEF LifecycleInv
    <3>2. \A a \in Auctions : BidEnters(r, a) => auction[a].status = "ACTIVE"
      BY <1>1, NoneIsNobody DEF BidEnters, LifecycleInv, LockedIsActive
    <3> QED  BY <3>1, <3>2 DEF TouchesAuctions
  <2>2. CASE UNCHANGED <<bids, announced>>
    BY <2>2
  <2> QED  BY <1>1, <2>1, <2>2, HandlersLeaveBids DEF LifecycleNext
<1> QED  BY <1>1, LifecycleInvariant, PTL DEF LifecycleSpec, BidsOnlyWhileActive

-----------------------------------------------------------------------------
(* The auction with all that happens to it implements the atomic auction.  *)

LEMMA HandlersKeepCount ==
    ASSUME LifecycleInv, NEW h \in Handlers, TaskStep(h), NEW b \in Auctions
    PROVE  auction'[b].totalBids = auction[b].totalBids
<1>1. CASE InsertAuction(h)
  <2> PICK a \in Auctions : a = task[h].auction
    BY <1>1 DEF LifecycleInv, TasksAreJustified, InsertAuction
  <2>1. auction[a].status = "NONE" => auction[a].totalBids = 0
    BY FS_EmptySet DEF LifecycleInv, UnbornIsEmpty, BiddingInv, BookInv, PriceIsTopBid
  <2> QED  BY <1>1, <2>1 DEF InsertAuction, NewAuction, LifecycleInv, BiddingInv, AuctionTypeOK
<1>2. CASE ActivateAuction(h) \/ SettleAuction(h) \/ CommitCancel(h)
  BY <1>2 DEF ActivateAuction, SettleAuction, CommitCancel, LifecycleInv, BiddingInv,
     AuctionTypeOK, AuctionRow
<1>3. CASE UNCHANGED biddingVars
  BY <1>3 DEF biddingVars, auctionVars
<1> QED  BY <1>1, <1>2, <1>3 DEF TaskStep, CreateAuction, CancelAuction, TakeJob, TakeStartJob,
         TakeEndJob, ProceedTask, MarkVehicle, QueueStart, QueueEnd, PublishEnd, StallJob, FailTask

LEMMA LifecycleStepIsAtomic ==
    ASSUME LifecycleInv, [LifecycleNext]_allVars
    PROVE  [English!Next]_Shown
<1>1. CASE \E r \in Requests : BidStep(r) \/ WalletStep(r)
  BY <1>1, StepIsAtomic DEF LifecycleInv, BiddingNext
<1>2. CASE \E h \in Handlers : TaskStep(h)
  <2>1. UNCHANGED <<bids, announced, balance>>
    BY <1>2, HandlersLeaveBids DEF walletVars
  <2>2. \A b \in Auctions : auction'[b].totalBids = auction[b].totalBids
    BY <1>2, HandlersKeepCount
  <2> QED  BY <2>1, <2>2 DEF Shown, TopBid
<1>3. CASE \/ \E a \in Auctions : StartTimePasses(a) \/ EndTimePasses(a) \/ EditVehicle(a)
           \/ UNCHANGED allVars
  <2>1. UNCHANGED <<auction, bids, announced, balance>>
    BY <1>3 DEF StartTimePasses, EndTimePasses, EditVehicle, allVars, biddingVars, auctionVars,
       walletVars
  <2> QED  BY <2>1, ShownStutters
<1> QED  BY <1>1, <1>2, <1>3 DEF LifecycleNext

(* Seen from outside, creating, starting, ending and cancelling auctions   *)
(* around the bids adds nothing to the atomic auction: its bids still take *)
(* effect one after the other (auctions.service.ts:39-363).                *)
THEOREM LifecycleIsAtomic == LifecycleSpec => BidsAreAtomic
<1>1. LifecycleInit => English!Init
  BY DEF LifecycleInit, InitWith, NewAuction, TopBid, English!Init
<1>2. LifecycleInv /\ [LifecycleNext]_allVars => [English!Next]_(English!auctionVars)
  BY LifecycleStepIsAtomic DEF Shown, English!auctionVars
<1> QED  BY <1>1, <1>2, LifecycleInvariant, PTL DEF LifecycleSpec, BidsAreAtomic, English!Spec
=============================================================================
