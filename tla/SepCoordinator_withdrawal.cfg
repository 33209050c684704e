\* A withdrawal, two payments of right or wrong amounts, and answers from
\* older ledgers.
SPECIFICATION SystemSpec
CONSTANTS
    i1 = i1  i2 = i2  alice = alice  sp = sp  sa = sa  q1 = q1  q2 = q2  b1 = b1
    e1 = e1  e2 = e2
    Provider = Provider  Vault = Vault  Zero = Zero  None = None
    Ids = {i1}
    Accounts = {Provider, alice}
    Customers = {alice}
    Subjects = {sp, sa}
    SubjectOf <- MCSubjectOf
    Quotes = {q1}
    Banks = {Zero, b1}
    Events = {e1}
    Ops <- MCOps
    Terms <- Withdrawals
    MaxProofAge = 2
    PolicyValidUntil = 3
    MaxOrderLifetime = 2
    MaxAmount = 1
    I128Max = 100
    InitialBalance <- MCInitialBalance
    ClassicAmounts = {1, 2}
    Freezable = {}
    ClawbackEnabled = FALSE
    MaxTime = 2
    MaxSurplus = 0
    Memos = {i1, None}
    ProofTimes = {0}
    TxLifetime = 1
    StaleReads = TRUE
    MaxActions = 6
    MaxPayments = 2
    MaxFaults = 0
CHECK_DEADLOCK FALSE
INVARIANTS
    SystemTypeOK
    PayoutRequested
    BankOnObligation
    SweepsArePaid
PROPERTIES
    CopyFollowsOrder
