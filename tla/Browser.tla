------------------------------ MODULE Browser ------------------------------
(***************************************************************************)
(* A browser with one of the anchor's two pages open: the hosted page of   *)
(* HostedExchange, or the page of the older vault (GateFlow, taken with    *)
(* its theorems).  The pages share nothing but a browser; the one that is  *)
(* not open has a plan or script in which nothing is pressed and nothing   *)
(* fails.                                                                  *)
(***************************************************************************)
EXTENDS HostedExchange

CONSTANTS
    Wallets, Scripts,   \* of GateFlow, with the bank destinations Dests
    NoPlan, NoScript    \* the plan and the script of a page that is not open

VARIABLES flow, task, glance, callbacks, freighter, desk, inflight, seen, script
gateVars == <<flow, task, glance, callbacks, freighter, desk, inflight, seen, script>>

Gate == INSTANCE GateFlowProofs WITH Beneficiaries <- Dests

\* The scripts are ones that GateFlow can start from.
ASSUME BrowserAssumption == Gate!GateAssumption

BrowserInit == Init /\ Gate!Init /\ (plan = NoPlan) # (script = NoScript)
BrowserNext == \/ Next /\ UNCHANGED gateVars
               \/ Gate!Next /\ UNCHANGED vars
BrowserSpec == BrowserInit /\ [][BrowserNext]_<<vars, gateVars>>

\* The properties of GateFlow, as this module names them: no reservation made in
\* a session is forgotten by its page (createOrder).
ReservationKept == Gate!ReservationKept
\* What is offered for signature belongs to the order shown and to the last phone
\* request (requestProof, acceptOrder).
PreparedCurrent == Gate!PreparedCurrent
\* The order shown never goes back (run, checkAutomatically).
StagesForward == Gate!StagesForward

=============================================================================
