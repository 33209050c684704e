\* Two orders whose promised payouts the operators must be able to finish.
SPECIFICATION FairSpec
CONSTANTS
    i1 = i1  i2 = i2   alice = alice   sp = sp  sa = sa  
    q1 = q1  b1 = b1  e1 = e1  e2 = e2  op1 = op1  op2 = op2
    Provider = Provider  Vault = Vault  Zero = Zero  None = None
    Ids = {i1, i2}
    Accounts = {Provider, alice}
    Subjects = {sp, sa}
    SubjectOf <- MCSubjectOf
    Quotes = {q1}
    Banks = {Zero, b1}
    Events = {e1, e2}
    Ops = {op1, op2}
    Terms <- MCTerms
    MaxProofAge = 1
    PolicyValidUntil = 2
    MaxOrderLifetime = 3
    MaxAmount = 2
    I128Max = 100
    InitialBalance <- MCInitialBalance
    ClassicAmounts = {}
    Freezable = {alice}
    ClawbackEnabled = FALSE
    MaxTime = 2
    MaxSurplus = 0
PROPERTIES
    ObligationDischarged
