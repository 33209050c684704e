\* The asset's issuer claws tokens back out of the vault, and the orders are seen
\* as those of the abstract escrow.
SPECIFICATION Spec
CONSTANTS
    i1 = i1  i2 = i2  alice = alice  sp = sp  sa = sa
    q1 = q1  b1 = b1  e1 = e1  e2 = e2  op1 = op1  op2 = op2
    Provider = Provider  Vault = Vault  Zero = Zero  None = None
    Ids = {i1, i2}
    Accounts = {Provider, alice}
    Subjects = {sp, sa}
    SubjectOf <- MCSubjectOf
    Quotes = {q1}
    Banks = {Zero, b1}
    Events = {Zero, e1, e2}
    Ops = {Zero, op1, op2}
    Terms <- MCTerms
    MaxProofAge = 2
    PolicyValidUntil = 2
    MaxOrderLifetime = 2
    MaxAmount = 2
    I128Max = 100
    InitialBalance <- MCInitialBalance
    ClassicAmounts = {1}
    Freezable = {}
    ClawbackEnabled = TRUE
    MaxTime = 2
    MaxSurplus = 0
SYMMETRY MCSymmetry
PROPERTIES
    ShortfallFreezes
    ImplementsEscrow
