SPECIFICATION BiddingFairSpec
CONSTANTS
    Users = {seller, u1, u2}
    Requests = {r1, r2}
    Withdrawals = {}
    Amounts = {3}
    MaxBalance = 3
    Auctions = {a1, a2}
    Seller = seller
    StartingPrice = 0
    BidIncrement = 1
    BidAmounts = {1, 2}
    Deposit = 3
    None = None
INVARIANTS
    BiddingTypeOK
    PriceIsTopBid
    BidsClimb
    EveryCentIsSomewhere
    HoldsAreExact
PROPERTIES
    BidsAreAtomic
    BidsEnd
