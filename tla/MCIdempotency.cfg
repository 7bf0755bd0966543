SPECIFICATION IdempotencyFairSpec
CONSTANTS
    Users = {u1, u2}
    Requests = {r1, r2}
    Withdrawals = {w1, w2}
    Amounts = {1}
    MaxBalance = 1
    Keys = {k1}
    None = None
INVARIANTS
    IdempotencyTypeOK
    LedgerMatchesBalance
    WithdrawnMoneyAccounted
    CompletedByApproval
    OnlyDisturbedKeysPayTwice
    StoredMeansPaid
PROPERTIES
    SettledForGood
    MovementsAreAtomic
    CallsEnd
