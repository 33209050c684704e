\* A withdrawal whose payment and payout must come through one lost call,
\* crash or failed transaction.
SPECIFICATION FairSystem
CONSTANTS
    i1 = i1  i2 = i2  alice = alice  sp = sp  sa = sa  q1 = q1  q2 = q2  b1 = b1
    e1 = e1  e2 = e2
    Provider = Provider  Vault = Vault  Zero = Zero  None = None
    Ids = {i1}
    Accounts = {Provider, alice}
    Customers = {alice}
    Subjects = {sp, sa}
    SubjectOf <- MCSubjectOf
    Quotes = {q1}
    Banks = {Zero, b1}
    Events = {e1}
    Ops <- MCOps
    Terms <- Withdrawals
    MaxProofAge = 1
    PolicyValidUntil = 2
    MaxOrderLifetime = 2
    MaxAmount = 1
    I128Max = 100
    InitialBalance <- OneToken
    ClassicAmounts = {1}
    Freezable = {}
    ClawbackEnabled = FALSE
    MaxTime = 2
    MaxSurplus = 0
    Memos = {i1}
    ProofTimes = {0}
    TxLifetime = 1
    StaleReads = FALSE
    MaxActions = 10
    MaxPayments = 1
    MaxFaults = 1
CHECK_DEADLOCK FALSE
PROPERTIES
    PayoutCompletes
    PaymentSwept
