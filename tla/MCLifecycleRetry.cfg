SPECIFICATION LifecycleFairSpec
CONSTANTS
    Users = {seller, u1}
    Requests = {}
    Withdrawals = {}
    Amounts = {}
    MaxBalance = 1
    Auctions = {a1}
    Seller = seller
    StartingPrice = 0
    BidIncrement = 1
    BidAmounts = {1}
    Deposit = 1
    Handlers = {h1}
    Edits = {}
    None = None
PROPERTY FailedJobIsRetried
CHECK_DEADLOCK FALSE
