\* A deposit funded with or without a firm quote, and a withdrawal with two
\* payments, through one lost answer, refusal or restart.
SPECIFICATION FairSpec
CONSTANTS
    d1 = d1  d2 = d2  w1 = w1  qb = qb  qs = qs
    None = None
    Scale = 1
    Deposits = {d1, d2}
    Withdrawals = {w1}
    Mixes <- MCMixes
    Claimable = {d1}
    Callbacks = {d1, w1}
    Buys = {qb}
    Sells = {qs}
    Asked <- MCAsked
    SpreadBps = 0
    QuoteExpires = 0
    Rates = {2, 3}
    Lira = {2}
    Tokens = {1, 2}
    Treasury = 1
    RateLock = 0
    MaxAttempts = 2
    MaxTime = 1
    MaxRequests = 1
    MaxPayments = 2
    MaxSends = 3
    MaxFaults = 1
INVARIANTS
    RampsTypeOK
    RetriesAreSafe
    PaymentsCounted
    QuotesSingleUse
PROPERTIES
    FundedEnds
CHECK_DEADLOCK FALSE
