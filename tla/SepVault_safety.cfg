\* Two orders of any direction, a clock past every deadline, no clawback.
SPECIFICATION Spec
CONSTANTS
    i1 = i1  i2 = i2  alice = alice   sp = sp  sa = sa  
    q1 = q1  b1 = b1  e1 = e1  e2 = e2  op1 = op1  op2 = op2
    Provider = Provider  Vault = Vault  Zero = Zero  None = None
    Ids = {i1, i2}
    Accounts = {Provider, alice}
    Subjects = {sp, sa}
    SubjectOf <- MCSubjectOf
    Quotes = {q1}
    Banks = {Zero, b1}
    Events = {Zero, e1, e2}
    Ops = {Zero, op1, op2}
    Terms <- MCTerms
    MaxProofAge = 2
    PolicyValidUntil = 3
    MaxOrderLifetime = 3
    MaxAmount = 2
    I128Max = 100
    InitialBalance <- ProviderOnly
    ClassicAmounts = {}
    Freezable = {}
    ClawbackEnabled = FALSE
    MaxTime = 3
    MaxSurplus = 1
SYMMETRY MCSymmetry
INVARIANTS
    ReserveExact
    Solvent
    CustodyAttributed
    ObligationBacked
    Timeline
    EligibleValue
    ExitOpen
PROPERTIES
    TokensFollowOrders
