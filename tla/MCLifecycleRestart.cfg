SPECIFICATION LifecycleSpec
CONSTANTS
    Users = {seller, u1, u2}
    Requests = {r1}
    Withdrawals = {}
    Amounts = {}
    MaxBalance = 3
    Auctions = {a1}
    Seller = seller
    StartingPrice = 0
    BidIncrement = 1
    BidAmounts = {1, 2}
    Deposit = 3
    Handlers = {h1, h2}
    Edits = {"PUBLISHED"}
    None = None
PROPERTY StartsFromScheduled
CHECK_DEADLOCK FALSE
