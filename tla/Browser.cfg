\* A browser with one of the two pages open, through lost answers, refusals,
\* expiries, hidden pages and a wallet whose account is switched.
SPECIFICATION BrowserSpec
CONSTANTS
    t1 = t1  t2 = t2  q1 = q1  x = x  y = y  a1 = a1  a2 = a2
    None = None
    Tabs = {t1, t2}
    Quotes = {q1}
    Dests = {x, y}
    Named = q1
    Plans <- MCPlans
    Wallets = {a1, a2}
    Scripts <- MCScripts
    NoPlan <- MCNoPlan
    NoScript <- MCNoScript
    MaxPolls = 1
    MaxLinks = 2
INVARIANTS
    OneLivePayment
    ProofsCurrent
    AcceptanceTrue
    LinkOpensOnce
    ReservationKept
    PreparedCurrent
PROPERTIES
    StagesForward
CHECK_DEADLOCK FALSE
