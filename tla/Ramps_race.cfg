\* Two bank transfers of one deposit that await a rate at the same time.
SPECIFICATION Spec
CONSTANTS
    d1 = d1  d2 = d2  w1 = w1  qb = qb  qs = qs
    None = None
    Scale = 1
    Deposits = {d1}
    Withdrawals = {}
    Mixes <- MCAlone
    Claimable = {d1}
    Callbacks = {}
    Buys = {qb}
    Sells = {qs}
    Asked <- MCAsked
    SpreadBps = 0
    QuoteExpires = 0
    Rates = {2, 3}
    Lira = {2}
    Tokens = {1, 2}
    Treasury = 1
    RateLock = 0
    MaxAttempts = 2
    MaxTime = 1
    MaxRequests = 2
    MaxPayments = 0
    MaxSends = 3
    MaxFaults = 0
INVARIANTS
    DepositProcessedOnce
CHECK_DEADLOCK FALSE
