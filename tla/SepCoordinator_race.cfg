\* A deposit cancelled while its bank transfer is asked for.
SPECIFICATION SystemSpec
CONSTANTS
    i1 = i1  i2 = i2  alice = alice  sp = sp  sa = sa  q1 = q1  q2 = q2  b1 = b1
    e1 = e1  e2 = e2
    Provider = Provider  Vault = Vault  Zero = Zero  None = None
    Ids = {i1}
    Accounts = {Provider, alice}
    Customers = {alice}
    Subjects = {sp, sa}
    SubjectOf <- MCSubjectOf
    Quotes = {q1}
    Banks = {Zero, b1}
    Events = {e1}
    Ops <- MCOps
    Terms <- Deposits
    MaxProofAge = 2
    PolicyValidUntil = 3
    MaxOrderLifetime = 2
    MaxAmount = 1
    I128Max = 100
    InitialBalance <- MCInitialBalance
    ClassicAmounts = {1}
    Freezable = {}
    ClawbackEnabled = FALSE
    MaxTime = 2
    MaxSurplus = 0
    Memos = {}
    ProofTimes = {0}
    TxLifetime = 1
    StaleReads = FALSE
    MaxActions = 6
    MaxPayments = 0
    MaxFaults = 0
CHECK_DEADLOCK FALSE
PROPERTIES
    CancelledBeforeBank
