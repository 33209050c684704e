----------------------------- MODULE MCBrowser -----------------------------
(* A small instance of Browser.  Each plan and each script says where the     *)
(* customer starts, which buttons are pressed and how many faults happen.     *)
EXTENDS Browser

CONSTANTS t1, t2, q1, x, y, a1, a2

-----------------------------------------------------------------------------
\* The hosted page.

Stage(accepted, eligible, stage) ==
    [accepted |-> accepted, eligible |-> eligible, stage |-> stage]
Does(first, second) == [t \in {t1, t2} |-> IF t = t1 THEN first ELSE second]
Plan(session, before, first, second, m, n) ==
    [session |-> session, order |-> before, does |-> Does(first, second), presses |-> m,
     faults |-> n]

MCNoPlan == Plan(FALSE, Stage(<<q1, x>>, FALSE, "completed"), {}, {}, 0, 0)
MCPlans ==
    {MCNoPlan,
     \* the wallet begins the order and opens it in two tabs
     Plan(FALSE, Stage(None, FALSE, "none"), {"launch"}, {"launch"}, 2, 1),
     \* two tabs accept the quote, each with a destination
     Plan(TRUE, Stage(None, FALSE, "open"), {"accept"}, {"accept"}, 1, 1),
     \* a tab asks for another quote, or accepts
     Plan(TRUE, Stage(None, FALSE, "open"), {"quote", "change", "accept"}, {}, 2, 2),
     \* a tab proves eligibility
     Plan(TRUE, Stage(<<q1, x>>, FALSE, "open"), {"prove", "cancel"}, {}, 2, 2),
     \* a tab proves eligibility again, or takes its tokens back
     Plan(TRUE, Stage(<<q1, x>>, FALSE, "paid"), {"prove", "refund", "bank"}, {}, 2, 2),
     \* a tab pays
     Plan(TRUE, Stage(<<q1, x>>, TRUE, "open"), {"pay"}, {}, 2, 2)}

-----------------------------------------------------------------------------
\* The page of the older vault.

Before(direction, step) ==
    [quote |-> 1, wallet |-> None, beneficiary |-> None, direction |-> direction,
     step |-> step, pending |-> {}, proofs |-> {}, session |-> 0]
Script(orders, does, m, n) ==
    [account |-> a1, orders |-> orders, does |-> does, presses |-> m, faults |-> n]

MCNoScript == Script(<<Before("deposit", 5)>>, {}, 0, 0)
MCScripts ==
    {MCNoScript,
     \* a customer connects, and reserves what was quoted
     Script(<<>>, {"connect", "quote", "reserve", "edit", "withdrawal", "access", "refresh"},
            5, 2),
     \* a customer connects and disconnects
     Script(<<>>, {"connect", "disconnect", "access", "setup"}, 3, 3),
     \* a customer with two orders proves eligibility for them
     Script(<<Before("deposit", 2), [Before("withdrawal", 3) EXCEPT !.quote = 2]>>,
            {"prove", "cancel", "sign", "refresh", "disconnect"}, 4, 2),
     \* a withdrawal and a deposit are completed
     Script(<<Before("withdrawal", 3)>>, {"authorize", "bank", "settle"}, 3, 2),
     Script(<<Before("deposit", 3)>>, {"bank", "settle", "refresh"}, 3, 2)}

=============================================================================
