---------------------------- MODULE BrowserProofs ----------------------------
(***************************************************************************)
(* The properties of the older vault's page in a browser that may have     *)
(* either page open, for all plans and scripts.                            *)
(***************************************************************************)
EXTENDS Browser, TLAPS

\* The browser runs each page by its own specification.
LEMMA BrowserRunsGate == BrowserSpec => Gate!Spec
<1>1. BrowserInit => Gate!Init
  BY DEF BrowserInit
<1>2. [BrowserNext]_<<vars, gateVars>> => [Gate!Next]_(Gate!vars)
  BY DEF BrowserNext, gateVars, Gate!vars
<1> QED
  BY <1>1, <1>2, PTL DEF BrowserSpec, Gate!Spec

LEMMA BrowserRunsHosted == BrowserSpec => Spec
<1>1. BrowserInit => Init
  BY DEF BrowserInit
<1>2. [BrowserNext]_<<vars, gateVars>> => [Next]_vars
  BY DEF BrowserNext
<1> QED
  BY <1>1, <1>2, PTL DEF BrowserSpec, Spec

\* What is proved of each page holds in the browser.
THEOREM BrowserRunsThePages == BrowserSpec => Spec /\ Gate!Spec
  BY BrowserRunsHosted, BrowserRunsGate, PTL

\* createOrder: no reservation made in a session is forgotten by its page.
THEOREM BrowserReservationKept == BrowserSpec => []ReservationKept
<1>1. Gate!Spec => []Gate!ReservationKept
  BY Gate!GateReservationKept, BrowserAssumption
<1> QED
  BY <1>1, BrowserRunsGate, PTL DEF ReservationKept

\* requestProof and acceptOrder: what is offered for signature belongs to the
\* order shown and to the last phone request.
THEOREM BrowserPreparedCurrent == BrowserSpec => []PreparedCurrent
<1>1. Gate!Spec => []Gate!PreparedCurrent
  BY Gate!GatePreparedCurrent, BrowserAssumption
<1> QED
  BY <1>1, BrowserRunsGate, PTL DEF PreparedCurrent

\* run and checkAutomatically: the order shown never goes back.
THEOREM BrowserStagesForward == BrowserSpec => StagesForward
<1>1. Gate!Spec => Gate!StagesForward
  BY Gate!GateStagesForward, BrowserAssumption
<1> QED
  BY <1>1, BrowserRunsGate, PTL DEF StagesForward

=============================================================================
