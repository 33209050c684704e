---------------------------- MODULE MCAnchorGate ----------------------------
(* A small instance of AnchorGate: one order in either direction.  Customers *)
(* and the provider hold just enough for it.                                 *)
EXTENDS AnchorGate

CONSTANTS alice, i1, e1, b1, qd, qw

MCOffer ==
    [q \in {qd, qw} |->
        [direction |-> IF q = qd THEN "deposit" ELSE "withdrawal",
         recipient |-> alice, bank |-> IF q = qd THEN Zero ELSE b1,
         amount |-> 1]]
MCTerms ==
    [direction : {"deposit", "withdrawal"}, recipient : {alice},
     bank : {Zero, b1}, amount : {1}, deadline : 1..PolicyValidUntil]
MCBalance == [a \in {alice, Provider} |-> 1]
MCEventOf == [id \in {i1} |-> e1]
MCSkews == {-1, 1}

=============================================================================
