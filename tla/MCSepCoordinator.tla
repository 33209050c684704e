-------------------------- MODULE MCSepCoordinator --------------------------
(***************************************************************************)
(* Small instances of SepCoordinator: a customer, whose orders exchange    *)
(* one token, and short lives of policies, grants and transactions.        *)
(***************************************************************************)
EXTENDS SepCoordinator, TLC

CONSTANTS i1, i2, alice, sp, sa, q1, q2, b1, e1, e2

MCSubjectOf == Provider :> sp @@ alice :> sa
MCInitialBalance == Provider :> 2 @@ alice :> 2
OneToken == Provider :> 0 @@ alice :> 1

Deposits == [recipient : {alice}, refundTo : {alice}, subject : {sa},
             direction : {"deposit"}, quote : Quotes, bank : {Zero},
             amount : {1}, deadline : 1..PolicyValidUntil]
Withdrawals == [recipient : {alice}, refundTo : {alice}, subject : {sa},
                direction : {"withdrawal"}, quote : Quotes, bank : {b1},
                amount : {1}, deadline : 1..PolicyValidUntil]
Exchanges == Deposits \cup Withdrawals
MCOps == 1..MaxPayments

MCSymmetry == Permutations({i1, i2}) \cup Permutations({q1, q2})

=============================================================================
