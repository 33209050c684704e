\* One order in either direction, with POST and GET requests at the same time.
SPECIFICATION FairSystem
CONSTANTS
    alice = alice  i1 = i1  e1 = e1  b1 = b1  qd = qd  qw = qw
    Provider = Provider  Vault = Vault  Zero = Zero  None = None
    Ids = {i1}
    Customers = {alice}
    Terms <- MCTerms
    Events = {e1}
    Banks = {Zero, b1}
    MaxProofAge = 1
    PolicyValidUntil = 2
    MaxOrderLifetime = 2
    MaxAmount = 1
    InitialBalance <- MCBalance
    MaxTime = 2
    Quotes = {qd, qw}
    Offer <- MCOffer
    QuoteExpires = 2
    EventOf <- MCEventOf
    TxLifetime = 1
    Skews <- MCSkews
    MaxActions = 7
    MaxProofs = 1
    MaxFaults = 1
INVARIANTS
    CoordinatorTypeOK
    OrdersLawful
    JournalSound
    CreditBacked
PROPERTIES
    GateImplementsEscrow
    PayoutDischarged
CHECK_DEADLOCK FALSE
