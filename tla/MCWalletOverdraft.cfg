SPECIFICATION WalletSpec
CONSTANTS
    Users = {u1}
    Requests = {r1, r2}
    Withdrawals = {w1, w2}
    Amounts = {1}
    MaxBalance = 2
    None = None
INVARIANT NonNegativeBalance
