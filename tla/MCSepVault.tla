----------------------------- MODULE MCSepVault -----------------------------
(***************************************************************************)
(* Small instances of SepVault: a provider and a customer, amounts of   *)
(* one or two tokens, and a clock that passes every deadline, the policy's *)
(* end and a grant's age.                                                  *)
(***************************************************************************)
EXTENDS SepVault, TLC

CONSTANTS i1, i2, alice, sp, sa, q1, b1, e1, e2, op1, op2

MCSubjectOf == Provider :> sp @@ alice :> sa
MCInitialBalance == Provider :> 3 @@ alice :> 1
ProviderOnly == Provider :> 3 @@ alice :> 0

Deposit(who, amount, deadline) ==
    [recipient |-> who, refundTo |-> who, subject |-> MCSubjectOf[who],
     direction |-> "deposit", quote |-> q1, bank |-> Zero,
     amount |-> amount, deadline |-> deadline]
Withdrawal(who, amount, deadline) ==
    [Deposit(who, amount, deadline) EXCEPT
        !.direction = "withdrawal", !.bank = b1]

\* Terms the contract accepts, and one that names another subject's grant.
\* The withdrawal may be promised until the policy ends.
MCTerms ==
    {Deposit(alice, 2, 2), Withdrawal(alice, 1, PolicyValidUntil),
     [Withdrawal(alice, 1, 2) EXCEPT !.subject = sp]}

MCSymmetry ==
    Permutations({i1, i2}) \cup Permutations({e1, e2}) \cup Permutations({op1, op2})

=============================================================================
