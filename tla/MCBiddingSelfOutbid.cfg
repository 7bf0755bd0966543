SPECIFICATION BiddingSpec
CONSTANTS
    Users = {seller, u1, u2}
    Requests = {r1}
    Withdrawals = {}
    Amounts = {}
    MaxBalance = 3
    Auctions = {a1}
    Seller = seller
    StartingPrice = 0
    BidIncrement = 1
    BidAmounts = {1, 2}
    Deposit = 3
    None = None
INVARIANT OnlyTopBidIsHeld
CHECK_DEADLOCK FALSE
