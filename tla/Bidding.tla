------------------------------- MODULE Bidding -------------------------------
(***************************************************************************)
(* AuctionsService.placeBid (src/src/modules/auctions/auctions.service.ts  *)
(* :146-275) over the wallets of module Wallet: one $transaction locks the *)
(* auction's row with SELECT ... FOR UPDATE, holds the bidder's money,     *)
(* gives the previous top bidder's back and records the bid; the event for *)
(* the auction's room is published after the commit.                       *)
(*                                                                         *)
(* The transaction runs at READ COMMITTED: the row lock of the auction     *)
(* puts the bids on one auction in order, but the wallets are also moved   *)
(* by bids on other auctions and by the wallet's own requests.             *)
(***************************************************************************)
EXTENDS Wallet

CONSTANTS
    Auctions,       \* the auctions there are
    Seller,         \* who offers all of them and may not bid
    StartingPrice,  \* DTO @Min(0)
    BidIncrement,   \* DTO @Min(1)
    BidAmounts,     \* amounts bidders offer, DTO @Min(0)
    Deposit         \* what every bidder's wallet holds at first

ASSUME BiddingAssumption ==
    /\ Seller \in Users
    /\ None \notin Auctions
    /\ StartingPrice \in Nat
    /\ BidIncrement \in Nat \ {0}
    /\ BidAmounts \subseteq Nat
    /\ Deposit \in 0 .. MaxBalance

VARIABLES
    auction,      \* status, current price, number of bids, winner: table auctions
    bids,         \* the rows of table bids, by auction
    held,         \* BID_HOLD less BID_RELEASE rows of a user that refer to an auction
    over,         \* the auctions whose end time has passed (see AuctionLifecycle)
    auctionLock,  \* the request whose transaction holds the auction row
    bid,          \* what each placeBid in flight knows and where it stands
    announced     \* the bids published on auction:<id>:bids

auctionVars == <<auction, bids, held, over, auctionLock, bid, announced>>
biddingVars == <<walletVars, auctionVars>>

-----------------------------------------------------------------------------
(* "NONE": the auction has no row yet.                                     *)
AuctionStatus == {"NONE", "SCHEDULED", "ACTIVE", "ENDED", "CANCELLED"}

BidRow == [bidder : Users, amount : Nat]

NoTop == [bidder |-> None, amount |-> 0]

(* bid.findFirst with orderBy amount desc, of a non-empty set of rows.     *)
Highest(rows) == CHOOSE b \in rows : \A c \in rows : c.amount <= b.amount

TopBid(a) == IF bids[a] = {} THEN NoTop ELSE Highest(bids[a])

(* placeBid's variables: "seen" is the bidder's balance as checked, "prev" *)
(* the top bid to release and "prevSeen" its bidder's balance as read;     *)
(* "after" and "prevAfter" are what the two UPDATEs of balances wrote.     *)
NewBid(a, u, amount) ==
    [pc |-> "checkFunds", auction |-> a, user |-> u, amount |-> amount, seen |-> 0,
     after |-> 0, prev |-> NoTop, prevSeen |-> 0, prevAfter |-> 0]

NoBid == [NewBid(None, None, 0) EXCEPT !.pc = "idle"]

(* Every wallet holds a deposit topped up before, and each auction's row   *)
(* is "row".                                                               *)
InitWith(row) ==
    /\ wallets = Users
    /\ balance = [u \in Users |-> Deposit]
    /\ ledger = [u \in Users |-> [t \in TransactionType |->
                                    IF t = "DEPOSIT" THEN Deposit ELSE 0]]
    /\ rowBalance = [u \in Users |-> Deposit]
    /\ withdrawal = [w \in Withdrawals |-> NoWithdrawal]
    /\ walletLock = [u \in Users |-> None]
    /\ withdrawalLock = [w \in Withdrawals |-> None]
    /\ req = [r \in Requests |-> Idle]
    /\ auction = [a \in Auctions |-> row]
    /\ bids = [a \in Auctions |-> {}]
    /\ held = [a \in Auctions |-> [u \in Users |-> 0]]
    /\ over = {}
    /\ auctionLock = [a \in Auctions |-> None]
    /\ bid = [r \in Requests |-> NoBid]
    /\ announced = [a \in Auctions |-> {}]

NewAuction(status) == [status |-> status, price |-> StartingPrice, totalBids |-> 0,
                       winner |-> None]

BiddingInit == InitWith(NewAuction("ACTIVE"))

-----------------------------------------------------------------------------
UnlockAuctions(r) ==
    auctionLock' = [a \in Auctions |-> IF auctionLock[a] = r THEN None ELSE auctionLock[a]]

(* Slip: a raise of the price by anything is enough.                       *)
MayBidAnyRaise(a, u, amount) ==
    auction[a].status = "ACTIVE" /\ a \notin over /\ u # Seller /\ amount >= auction[a].price

(* Slip: the end time is not looked at.                                    *)
MayBidAfterEnd(a, u, amount) ==
    auction[a].status = "ACTIVE" /\ u # Seller /\ amount >= auction[a].price + BidIncrement

(* What placeBid asks of the auction as it reads it.                       *)
MayBid(a, u, amount) ==
    /\ auction[a].status = "ACTIVE"
    /\ a \notin over
    /\ u # Seller
    /\ amount >= auction[a].price + BidIncrement

(* Slip: a plain SELECT, without FOR UPDATE.                               *)
LockAuctionNever(r, a, u, amount) ==
    /\ req[r] = Idle /\ bid[r] = NoBid
    /\ MayBid(a, u, amount)
    /\ bid' = [bid EXCEPT ![r] = NewBid(a, u, amount)]
    /\ UNCHANGED <<walletVars, auction, bids, held, over, auctionLock, announced>>

(* SELECT ... FOR UPDATE and the checks that follow it; a bid that fails   *)
(* one of them changes nothing.                                            *)
LockAuction(r, a, u, amount) ==
    /\ req[r] = Idle /\ bid[r] = NoBid
    /\ auctionLock[a] = None
    /\ MayBid(a, u, amount)
    /\ auctionLock' = [auctionLock EXCEPT ![a] = r]
    /\ bid' = [bid EXCEPT ![r] = NewBid(a, u, amount)]
    /\ UNCHANGED <<walletVars, auction, bids, held, over, announced>>

(* Slip: the event is published from inside the transaction.               *)
CheckFundsAndPublish(r) ==
    LET u == bid[r].user
        event == [bidder |-> u, amount |-> bid[r].amount]
    IN
    /\ bid[r].pc = "checkFunds"
    /\ u \in wallets
    /\ balance[u] >= bid[r].amount
    /\ bid' = [bid EXCEPT ![r].pc = "hold", ![r].seen = balance[u]]
    /\ announced' = [announced EXCEPT ![bid[r].auction] = @ \cup {event}]
    /\ UNCHANGED <<walletVars, auction, bids, held, over, auctionLock>>

(* The bidder's wallet is read, without a lock.                            *)
CheckFunds(r) ==
    LET u == bid[r].user IN
    /\ bid[r].pc = "checkFunds"
    /\ u \in wallets
    /\ balance[u] >= bid[r].amount
    /\ bid' = [bid EXCEPT ![r].pc = "hold", ![r].seen = balance[u]]
    /\ UNCHANGED <<walletVars, auction, bids, held, over, auctionLock, announced>>

HoldFunds(r) ==
    LET u == bid[r].user IN
    /\ bid[r].pc = "hold"
    /\ LockWallet(r, u, -bid[r].amount)
    /\ bid' = [bid EXCEPT ![r].pc = "findPrevious",
                          ![r].after = balance[u] - bid[r].amount]
    /\ UNCHANGED <<wallets, balance, ledger, rowBalance, withdrawal, withdrawalLock, req,
                   auction, bids, held, over, auctionLock, announced>>

(* The top bid so far; only when another user made it is its bidder's      *)
(* wallet read, again without a lock.                                      *)
FindPrevious(r) ==
    LET top == TopBid(bid[r].auction) IN
    /\ bid[r].pc = "findPrevious"
    /\ \/ /\ top.bidder \in {None, bid[r].user}
          /\ bid' = [bid EXCEPT ![r].pc = "commit"]
       \/ /\ top.bidder \notin {None, bid[r].user}
          /\ bid' = [bid EXCEPT ![r].pc = "release", ![r].prev = top,
                                ![r].prevSeen = balance[top.bidder]]
    /\ UNCHANGED <<walletVars, auction, bids, held, over, auctionLock, announced>>

ReleasePrevious(r) ==
    LET top == bid[r].prev IN
    /\ bid[r].pc = "release"
    /\ LockWallet(r, top.bidder, top.amount)
    /\ bid[r].prevSeen + top.amount \in Balances
    /\ bid' = [bid EXCEPT ![r].pc = "commit",
                          ![r].prevAfter = balance[top.bidder] + top.amount]
    /\ UNCHANGED <<wallets, balance, ledger, rowBalance, withdrawal, withdrawalLock, req,
                   auction, bids, held, over, auctionLock, announced>>

(* What the COMMIT makes visible in one go.  The column "balance" of the   *)
(* two ledger rows is computed from the balances as read, not from what    *)
(* the UPDATEs returned.                                                   *)
CommitBid(r) ==
    LET a == bid[r].auction
        u == bid[r].user
        p == bid[r].prev.bidder
        ForBoth(f, mine, theirs) ==
            [x \in Users |-> IF x = u THEN mine ELSE IF x = p THEN theirs ELSE f[x]]
    IN
    /\ bid[r].pc = "commit"
    /\ balance' = ForBoth(balance, bid[r].after, bid[r].prevAfter)
    /\ ledger' = [x \in Users |->
            IF x = u THEN [ledger[x] EXCEPT !["BID_HOLD"] = @ - bid[r].amount]
            ELSE IF x = p THEN [ledger[x] EXCEPT !["BID_RELEASE"] = @ + bid[r].prev.amount]
            ELSE ledger[x]]
    /\ rowBalance' = ForBoth(rowBalance, bid[r].seen - bid[r].amount,
                             bid[r].prevSeen + bid[r].prev.amount)
    /\ held' = [held EXCEPT ![a] = ForBoth(@, held[a][u] + bid[r].amount,
                                           held[a][p] - bid[r].prev.amount)]
    /\ bids' = [bids EXCEPT ![a] = @ \cup {[bidder |-> u, amount |-> bid[r].amount]}]
    /\ auction' = [auction EXCEPT ![a].price = bid[r].amount, ![a].totalBids = @ + 1]
    /\ UnlockWallets(r)
    /\ UnlockAuctions(r)
    /\ bid' = [bid EXCEPT ![r].pc = "publish"]
    /\ UNCHANGED <<wallets, withdrawal, withdrawalLock, req, over, announced>>

(* redisService.publish; its failure is logged and the bid stands.         *)
PublishBid(r) ==
    LET a == bid[r].auction
        event == [bidder |-> bid[r].user, amount |-> bid[r].amount]
    IN
    /\ bid[r].pc = "publish"
    /\ \/ announced' = [announced EXCEPT ![a] = @ \cup {event}]
       \/ UNCHANGED announced
    /\ bid' = [bid EXCEPT ![r] = NoBid]
    /\ UNCHANGED <<walletVars, auction, bids, held, over, auctionLock>>

RollbackBid(r) ==
    /\ UnlockWallets(r)
    /\ UnlockAuctions(r)
    /\ bid' = [bid EXCEPT ![r] = NoBid]
    /\ UNCHANGED <<wallets, balance, ledger, rowBalance, withdrawal, withdrawalLock, req,
                   auction, bids, held, over, announced>>

(* "Insufficient wallet balance to place this bid".                        *)
RefuseBid(r) ==
    /\ bid[r].pc = "checkFunds"
    /\ bid[r].user \notin wallets \/ balance[bid[r].user] < bid[r].amount
    /\ RollbackBid(r)

(* A statement fails: one of the values it writes does not fit its column. *)
OverflowBid(r) ==
    LET holds == bid[r].pc = "hold"
        u == IF holds THEN bid[r].user ELSE bid[r].prev.bidder
        written == IF holds THEN {balance[u] - bid[r].amount}
                   ELSE {balance[u] + bid[r].prev.amount, bid[r].prevSeen + bid[r].prev.amount}
    IN
    /\ bid[r].pc \in {"hold", "release"}
    /\ walletLock[u] = None
    /\ ~(written \subseteq Balances)
    /\ RollbackBid(r)

(* The instance crashed, Prisma's time limit passed, or PostgreSQL broke a *)
(* circle of waiting transactions; after the commit only the event is      *)
(* lost.                                                                   *)
AbortBid(r) ==
    /\ bid[r] # NoBid
    /\ RollbackBid(r)

ProceedBid(r) ==
    \/ CheckFunds(r)
    \/ HoldFunds(r)
    \/ FindPrevious(r)
    \/ ReleasePrevious(r)
    \/ CommitBid(r)
    \/ PublishBid(r)
    \/ RefuseBid(r)
    \/ OverflowBid(r)

BidStep(r) ==
    \/ \E a \in Auctions, u \in Users, amount \in BidAmounts : LockAuction(r, a, u, amount)
    \/ ProceedBid(r)
    \/ AbortBid(r)

(* Requests of the wallet use the same slots and leave the auctions alone. *)
WalletStep(r) ==
    /\ bid[r] = NoBid
    /\ Arrive(r) \/ Proceed(r) \/ Abort(r)
    /\ UNCHANGED auctionVars

BiddingNext == \E r \in Requests : BidStep(r) \/ WalletStep(r)

BiddingSpec == BiddingInit /\ [][BiddingNext]_biddingVars

(* The request whose transaction holds the row r's next statement updates. *)
(* A bid waits for an auction's row, and a request of the wallet for a     *)
(* wallet's, before anything another one could wait for is its own.        *)
Blocker(r) ==
    CASE bid[r].pc = "hold"    -> walletLock[bid[r].user]
      [] bid[r].pc = "release" -> walletLock[bid[r].prev.bidder]
      [] OTHER                 -> None

(* PostgreSQL looks for circles of waiting transactions and fails one.     *)
Deadlocked(r) == \E S \in SUBSET Requests : r \in S /\ S = {Blocker(q) : q \in S}

(* Requests go on, and a free row is given to whoever waits for it; of     *)
(* AbortBid only that a bid in a circle of waiting transactions is rolled  *)
(* back in the end, unless another one of the circle is.                   *)
BiddingFairSpec ==
    /\ BiddingSpec
    /\ \A r \in Requests :
          /\ SF_biddingVars(ProceedBid(r) \/ (WalletStep(r) /\ Proceed(r)))
          /\ WF_biddingVars(Deadlocked(r) /\ AbortBid(r))

-----------------------------------------------------------------------------
BidPc == {"idle", "checkFunds", "hold", "findPrevious", "release", "commit", "publish"}

TopType == [bidder : Users \cup {None}, amount : Nat]

Bid == [pc : BidPc, auction : Auctions \cup {None}, user : Users \cup {None}, amount : Nat,
        seen : Balances, after : Balances, prev : TopType, prevSeen : Balances,
        prevAfter : Balances]

AuctionRow == [status : AuctionStatus, price : Nat, totalBids : Nat,
               winner : Users \cup {None}]

AuctionTypeOK ==
    /\ auction \in [Auctions -> AuctionRow]
    /\ bids \in [Auctions -> SUBSET BidRow]
    /\ held \in [Auctions -> [Users -> Int]]
    /\ over \in SUBSET Auctions
    /\ auctionLock \in [Auctions -> Requests \cup {None}]
    /\ bid \in [Requests -> Bid]
    /\ announced \in [Auctions -> SUBSET BidRow]

BiddingTypeOK == WalletTypeOK /\ AuctionTypeOK

(* The price shown is the highest bid recorded (the starting price before  *)
(* there is one), and the counter counts the rows: bid.create and the      *)
(* update of the auction's row are one transaction under the row's lock    *)
(* (auctions.service.ts:151, :236-252).                                    *)
PriceIsTopBid ==
    \A a \in Auctions :
        /\ bids[a] = {} => auction[a].price = StartingPrice
        /\ bids[a] # {} => \E b \in bids[a] :
              /\ b.amount = auction[a].price
              /\ \A c \in bids[a] : c.amount <= b.amount
        /\ auction[a].totalBids = Cardinality(bids[a])

(* The bids of an auction climb by the increment at least, from above the  *)
(* starting price (auctions.service.ts:171-179).                           *)
BidsClimb ==
    \A a \in Auctions : \A b, c \in bids[a] :
        /\ b.amount >= StartingPrice + BidIncrement
        /\ b.amount < c.amount => b.amount + BidIncrement <= c.amount
        /\ b.amount = c.amount => b = c

(* The standing bid is paid for: its amount at least is held from the      *)
(* bidder's wallet for this auction; and no hold is released twice or for  *)
(* more than it was (auctions.service.ts:188-233).                         *)
TopBidIsFunded ==
    \A a \in Auctions, u \in Users :
        held[a][u] >= IF TopBid(a).bidder = u THEN TopBid(a).amount ELSE 0

(* The next bid above b on the same auction, if any, was made by another.  *)
Released(a, b) ==
    \E c \in bids[a] : /\ c.amount > b.amount
                       /\ c.bidder # b.bidder
                       /\ \A d \in bids[a] : d.amount > b.amount => d.amount >= c.amount

HeldBids(a, u) == {b \in bids[a] : b.bidder = u /\ ~Released(a, b)}

HeldFor(a, u) == SumFunctionOnSet([b \in bids[a] |-> b.amount], HeldBids(a, u))

(* Exactly the bids that were not followed by another user's bid are held: *)
(* the ledger of holds and releases of an auction adds up to them.  This   *)
(* includes a user's bids topped by the user's own, which stay held        *)
(* (auctions.service.ts:211).                                              *)
HoldsAreExact == \A a \in Auctions, u \in Users : held[a][u] = HeldFor(a, u)

BidOn == {a \in Auctions : bids[a] # {}}

(* No cent is lost between the tables: a balance is what was topped up,    *)
(* less the withdrawals pending or approved, less the unanswered bids on   *)
(* all auctions.  Requests on different auctions and of the wallet write   *)
(* the three tables and the balance in different orders                    *)
(* (auctions.service.ts:192-233, wallet.service.ts:36-57, :83-101).        *)
EveryCentIsSomewhere ==
    \A u \in Users :
        balance[u] = ledger[u]["DEPOSIT"]
            - SumFunctionOnSet([w \in Withdrawals |-> withdrawal[w].amount],
                               OfUser(u, {"PENDING", "APPROVED"}))
            - SumFunctionOnSet([a \in Auctions |-> HeldFor(a, u)], BidOn)

(* What is announced to the room of an auction was committed: the event is *)
(* published after the transaction (auctions.service.ts:255-272).          *)
AnnouncedAreCommitted == \A a \in Auctions : announced[a] \subseteq bids[a]

(* A bid that got the auction's row ends, without Prisma's time limit,     *)
(* also when bids on several auctions release each other's bidders: their  *)
(* transactions may wait for each other in a circle, and the database      *)
(* rolls one of them back (auctions.service.ts:189, :219).                 *)
BidsEnd == \A r \in Requests : []<>(bid[r] = NoBid)

English == INSTANCE EnglishAuction WITH
    Owners <- Users,
    Bidders <- Users \ {Seller},
    Amounts <- BidAmounts,
    top <- [a \in Auctions |-> TopBid(a)],
    offers <- [a \in Auctions |-> auction[a].totalBids],
    funds <- balance

(* placeBid, with its locks, reads and failures, is the atomic auction:    *)
(* each bid takes effect in one step, at its commit, against the price     *)
(* that stands at that moment, and with it the money of its bidder and of  *)
(* the one it tops, as the balances stand at that moment                   *)
(* (auctions.service.ts:151-252).                                          *)
BidsAreAtomic == English!Spec

(* "E[Bid Lost] --> F[Transaction: BID_RELEASE" (ARCHITECTURE.md:187):     *)
(* nothing but the standing bid is held.                                   *)
OnlyTopBidIsHeld ==
    \A a \in Auctions, u \in Users :
        held[a][u] = IF TopBid(a).bidder = u THEN TopBid(a).amount ELSE 0

(* "Every wallet operation records both the transaction and the resulting  *)
(* balance" (ARCHITECTURE.md:181).                                         *)
NewestRowShowsBalance == \A u \in Users : rowBalance[u] = balance[u]

-----------------------------------------------------------------------------
(* Why the invariants hold: what a bid may rely on between the statement   *)
(* that took a row and the commit.                                         *)

Decides(r) == bid[r].pc \in {"checkFunds", "hold", "findPrevious", "release", "commit"}
HasHeld(r) == bid[r].pc \in {"findPrevious", "release", "commit"}

(* Nobody else touches the auction, so the bid that was high enough when   *)
(* its row was taken still is.                                             *)
AuctionRowIsMine(r) ==
    Decides(r) => /\ bid[r].auction \in Auctions
                  /\ bid[r].user \in Users \ {Seller}
                  /\ bid[r].amount \in BidAmounts
                  /\ auctionLock[bid[r].auction] = r
                  /\ bid[r].amount >= auction[bid[r].auction].price + BidIncrement

(* The two wallets' rows are kept from their UPDATE to the COMMIT.         *)
BidderRowIsMine(r) ==
    HasHeld(r) => /\ walletLock[bid[r].user] = r
                  /\ bid[r].after = balance[bid[r].user] - bid[r].amount
                  /\ bid[r].seen >= bid[r].amount

PreviousRowIsMine(r) ==
    bid[r].pc = "commit" /\ bid[r].prev # NoTop =>
        /\ walletLock[bid[r].prev.bidder] = r
        /\ bid[r].prevAfter = balance[bid[r].prev.bidder] + bid[r].prev.amount
        /\ bid[r].prevSeen + bid[r].prev.amount \in Balances

(* What will be released is the top bid, made by another user.             *)
PreviousIsTop(r) ==
    LET top == TopBid(bid[r].auction) IN
    /\ bid[r].pc \in {"checkFunds", "hold", "findPrevious"} => bid[r].prev = NoTop
    /\ bid[r].pc = "release" => bid[r].prev = top /\ top.bidder \notin {None, bid[r].user}
    /\ bid[r].pc = "commit" =>
          bid[r].prev = IF top.bidder \in {None, bid[r].user} THEN NoTop ELSE top

FundsWereSeen(r) == bid[r].pc = "hold" => bid[r].seen >= bid[r].amount

EventIsCommitted(r) ==
    bid[r].pc = "publish" =>
        /\ bid[r].auction \in Auctions
        /\ [bidder |-> bid[r].user, amount |-> bid[r].amount] \in bids[bid[r].auction]

(* A slot serves one request at a time.                                    *)
OneRole(r) == bid[r] # NoBid => req[r] = Idle

BidInvOf(r) ==
    /\ AuctionRowIsMine(r)
    /\ BidderRowIsMine(r)
    /\ PreviousRowIsMine(r)
    /\ PreviousIsTop(r)
    /\ FundsWereSeen(r)
    /\ EventIsCommitted(r)
    /\ OneRole(r)

BidInv == \A r \in Requests : BidInvOf(r)

BiddersMayBid ==
    \A a \in Auctions :
        /\ IsFiniteSet(bids[a])
        /\ \A b \in bids[a] : b.bidder # Seller /\ b.amount \in BidAmounts

BookInv == PriceIsTopBid /\ BidsClimb /\ TopBidIsFunded /\ AnnouncedAreCommitted /\ BiddersMayBid

BiddingInv == WalletInv /\ AuctionTypeOK /\ BidInv /\ BookInv
=============================================================================
