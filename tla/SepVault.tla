------------------------------ MODULE SepVault ------------------------------
(***************************************************************************)
(* The sep-anchor Soroban contract (contracts/sep-anchor/src/lib.rs): the  *)
(* vault that reserves tokens for deposits, takes withdrawals into custody *)
(* and releases each order's tokens once.                                  *)
(*                                                                         *)
(* One contract call is one action: Soroban rolls the whole transaction    *)
(* back when the call returns an error or a nested call traps, so a call   *)
(* that fails is a stuttering step, and so is the replay of a call that    *)
(* already took effect (it returns the stored order).                      *)
(*                                                                         *)
(* Abstractions.  A hash is a value of a set (Zero is the all-zero hash);  *)
(* the pair <<quote_hash, try_minor>>, which terms and receipts carry and  *)
(* compare together, is one value of Quotes.  Storage lifetimes (touch)    *)
(* keep entries alive and change no value.                                 *)
(***************************************************************************)
EXTENDS Integers, FiniteSets, FiniteSetsExt

CONSTANTS
    Ids,                \* order ids
    Accounts,           \* classic accounts: the provider and the customers
    Provider,           \* the custody account, one of Accounts
    Vault,              \* the contract's own address
    Subjects,           \* eligibility subjects
    SubjectOf,          \* [Accounts -> Subjects], the subject hash
    Quotes, Banks,      \* quotes; hashes of bank destinations
    Events, Ops,        \* bank event ids; classic payment operation ids
    Terms,              \* the order terms a caller may submit
    Zero,               \* the all-zero hash
    None,               \* an absent Option
    MaxProofAge, PolicyValidUntil, MaxOrderLifetime, MaxAmount,
    I128Max,            \* the largest i128
    InitialBalance,     \* [Accounts -> Nat]
    ClassicAmounts,     \* what customers pay the provider, {} for no payments
    Freezable,          \* accounts whose trustline may stop taking transfers
    ClawbackEnabled,    \* the asset's issuer may claw tokens back
    MaxTime,            \* bound on the ledger clock
    MaxSurplus          \* bound on the tokens sent to the vault unasked

TermsType ==
    [recipient : Accounts, refundTo : Accounts, subject : Subjects,
     direction : {"deposit", "withdrawal"}, quote : Quotes, bank : Banks,
     amount : Int, deadline : Nat]

\* The values validate_config accepts, and the shape of the other constants.
ASSUME ConfigAssumption ==
    /\ Provider \in Accounts
    /\ Vault \notin Accounts
    /\ SubjectOf \in [Accounts -> Subjects]
    /\ Terms \subseteq TermsType
    /\ Zero \in Banks
    /\ MaxProofAge \in Nat \ {0}
    /\ PolicyValidUntil \in Nat \ {0}
    /\ MaxOrderLifetime \in Nat \ {0}
    /\ MaxAmount \in Nat \ {0}
    /\ I128Max \in Nat
    /\ InitialBalance \in [Accounts -> Nat]
    /\ ClassicAmounts \subseteq Nat
    /\ Freezable \subseteq Accounts
    /\ ClawbackEnabled \in BOOLEAN
    /\ MaxTime \in Nat
    /\ MaxSurplus \in Nat

Option(S) == S \cup {None}
ReceiptType ==
    [event : Events, quote : Quotes, bank : Banks, receivedAt : Nat]
FundingType == [op : Ops, recordedAt : Nat]
OrderType ==
    [terms : Terms, createdAt : Nat, receipt : Option(ReceiptType),
     escrowed : BOOLEAN, payout : Option(Nat), funding : Option(FundingType),
     settledAt : Option(Nat), refundedAt : Option(Nat),
     cancelledAt : Option(Nat)]
GrantType == [proofTime : Nat, validUntil : Nat]

\* None is no value that an Option can hold.
ASSUME NoneAssumption ==
    /\ None \notin Nat
    /\ None \notin Ids
    /\ None \notin ReceiptType
    /\ None \notin FundingType
    /\ None \notin OrderType
    /\ None \notin GrantType

VARIABLES
    now,         \* ledger timestamp
    orders,      \* Key::Order
    grants,      \* Key::Eligibility
    receiptOf,   \* Key::Receipt: the order a bank event was used for
    fundingOf,   \* Key::Funding: the order a payment operation was used for
    reserved,    \* Key::TotalReserved
    balance,     \* the asset contract's balances
    verifierOk,  \* the pinned verifier still has the pinned code and profile
    blocked      \* accounts the asset contract refuses to move tokens for

vars == <<now, orders, grants, receiptOf, fundingOf, reserved, balance,
          verifierOk, blocked>>

-----------------------------------------------------------------------------
\* Readings of an order.

Exists(id)      == orders[id] # None
IsDeposit(o)    == o.terms.direction = "deposit"
IsWithdrawal(o) == o.terms.direction = "withdrawal"
Amount(id)      == orders[id].terms.amount
Authorized(o)    == o.payout # None

Terminal(o) ==
    \/ o.settledAt # None
    \/ o.refundedAt # None
    \/ o.cancelledAt # None

\* The tokens of a nonterminal order are in custody and nothing outside has
\* been promised or received for them yet.
\* Slips: the promise to the bank or its receipt is forgotten; a deadline is
\* looked at.
Untouched_ForgetsPayout(o) ==
    ~Terminal(o) /\ o.escrowed /\ o.receipt = None
Untouched_ForgetsReceipt(o) == ~Terminal(o) /\ o.escrowed /\ ~Authorized(o)
Untouched_BeforeDeadline(o) ==
    /\ ~Terminal(o) /\ o.escrowed /\ ~Authorized(o) /\ o.receipt = None
    /\ now < o.terms.deadline

Untouched(o) ==
    ~Terminal(o) /\ o.escrowed /\ ~Authorized(o) /\ o.receipt = None

Current == now < PolicyValidUntil

\* active_eligibility: the subject's grant may carry a new obligation now.
\* Slip: a grant is looked for and its expiry is not.
ActiveEligibility_AnyGrant(s) ==
    Current /\ verifierOk /\ grants[s] # None

ActiveEligibility(s) ==
    /\ Current
    /\ verifierOk
    /\ grants[s] # None
    /\ now < grants[s].validUntil

\* Slip: evidence is taken again.
Unused_Unchecked(index, key) == key # Zero

\* The evidence `key` is a real hash and was used for no order yet.
Unused(index, key) == key # Zero /\ index[key] = None

-----------------------------------------------------------------------------
\* Token movements.

Covered == balance[Vault] >= reserved

Move(from, to, amount) ==
    [balance EXCEPT ![from] = @ - amount, ![to] = @ + amount]

\* Slips: the custody account is overdrawn; only the books are changed.
Reserve_Overdraws(amount) ==
    /\ balance' = Move(Provider, Vault, amount)
    /\ reserved' = reserved + amount
Reserve_OnlyBooks(amount) ==
    /\ reserved' = reserved + amount
    /\ UNCHANGED balance

\* reserve_from: take `amount` from the provider into the vault.
Reserve(amount) ==
    /\ reserved + amount <= I128Max
    /\ Provider \notin blocked
    /\ balance[Provider] >= amount
    /\ balance[Vault] + amount >= reserved + amount
    /\ balance' = Move(Provider, Vault, amount)
    /\ reserved' = reserved + amount

\* Slips: the total, the escrow flag or the check of the vault is forgotten.
Release_KeepsTotal(id, o, to) ==
    /\ Covered /\ to \notin blocked
    /\ orders' = [orders EXCEPT ![id] = [o EXCEPT !.escrowed = FALSE]]
    /\ balance' = Move(Vault, to, Amount(id))
    /\ UNCHANGED reserved
Release_KeepsEscrow(id, o, to) ==
    /\ reserved >= Amount(id) /\ Covered /\ to \notin blocked
    /\ orders' = [orders EXCEPT ![id] = o]
    /\ reserved' = reserved - Amount(id)
    /\ balance' = Move(Vault, to, Amount(id))
Release_Unchecked(id, o, to) ==
    /\ reserved >= Amount(id) /\ balance[Vault] >= Amount(id)
    /\ to \notin blocked
    /\ orders' = [orders EXCEPT ![id] = [o EXCEPT !.escrowed = FALSE]]
    /\ reserved' = reserved - Amount(id)
    /\ balance' = Move(Vault, to, Amount(id))

\* release: save `o` as the order's last state and give its tokens to `to`.
Release(id, o, to) ==
    /\ reserved >= Amount(id)
    /\ Covered
    /\ to \notin blocked
    /\ orders' = [orders EXCEPT ![id] = [o EXCEPT !.escrowed = FALSE]]
    /\ reserved' = reserved - Amount(id)
    /\ balance' = Move(Vault, to, Amount(id))

-----------------------------------------------------------------------------
\* Contract calls.

\* Slip: the terms may name any subject that holds a grant.
ValidTerms_AnySubject(id, t) ==
    /\ 0 < t.amount /\ t.amount <= MaxAmount
    /\ now < t.deadline /\ t.deadline <= PolicyValidUntil

ValidTerms(id, t) ==
    /\ id # Zero
    /\ t.quote # Zero
    /\ t.refundTo = t.recipient
    /\ t.subject = SubjectOf[t.recipient]
    /\ 0 < t.amount /\ t.amount <= MaxAmount
    /\ now < t.deadline
    /\ t.deadline <= PolicyValidUntil
    /\ t.deadline - now <= MaxOrderLifetime
    /\ t.direction = "deposit" <=> t.bank = Zero

NewOrder(t) ==
    [terms |-> t, createdAt |-> now, receipt |-> None,
     escrowed |-> t.direction = "deposit", payout |-> None, funding |-> None,
     settledAt |-> None, refundedAt |-> None, cancelledAt |-> None]

\* create_order by the provider; a deposit is reserved at once.
CreateOrder(id, t) ==
    /\ ~Exists(id)
    /\ Current
    /\ verifierOk
    /\ ValidTerms(id, t)
    /\ IF t.direction = "deposit"
       THEN Reserve(t.amount)
       ELSE UNCHANGED <<reserved, balance>>
    /\ orders' = [orders EXCEPT ![id] = NewOrder(t)]
    /\ UNCHANGED <<now, grants, receiptOf, fundingOf, verifierOk, blocked>>

GrantFor(proofTime) ==
    LET expires == proofTime + MaxProofAge IN
    [proofTime |-> proofTime,
     validUntil |-> IF expires <= PolicyValidUntil THEN expires
                                                   ELSE PolicyValidUntil]

\* Slip: any other proof replaces the grant on record, older ones too.
Fresher_AnyOther(s, proofTime) ==
    grants[s] # None => grants[s].proofTime # proofTime

Fresher(s, proofTime) ==
    grants[s] # None => grants[s].proofTime < proofTime

\* Slip: the age is checked and the future is not.
Recent_OrFuture(proofTime) == now - proofTime < MaxProofAge

Recent(proofTime) == proofTime <= now /\ now - proofTime < MaxProofAge

\* submit_eligibility by anyone: a proof, generated at proofTime for the
\* challenge of subject s, that the verifier accepts.  An older proof than
\* the one on record changes nothing.
SubmitEligibility(s, proofTime) ==
    /\ Current
    /\ verifierOk
    /\ Recent(proofTime)
    /\ Fresher(s, proofTime)
    /\ grants' = [grants EXCEPT ![s] = GrantFor(proofTime)]
    /\ UNCHANGED <<now, orders, receiptOf, fundingOf, reserved, balance,
                   verifierOk, blocked>>

\* fund_withdrawal by provider and notary: sweep the customer's payment `op`
\* from the custody account into the vault.  It looks at no deadline.
FundWithdrawal(id, op) ==
    /\ Exists(id)
    /\ IsWithdrawal(orders[id])
    /\ orders[id].funding = None
    /\ ~Terminal(orders[id])
    /\ ~orders[id].escrowed
    /\ ~Authorized(orders[id])
    /\ Unused(fundingOf, op)
    /\ Reserve(Amount(id))
    /\ orders' = [orders EXCEPT
                    ![id].escrowed = TRUE,
                    ![id].funding = [op |-> op, recordedAt |-> now]]
    /\ fundingOf' = [fundingOf EXCEPT ![op] = id]
    /\ UNCHANGED <<now, grants, receiptOf, verifierOk, blocked>>

\* authorize_payout by the notary: the one-way promise to pay the bank leg.
AuthorizePayout(id) ==
    /\ Exists(id)
    /\ IsWithdrawal(orders[id])
    /\ Untouched(orders[id])
    /\ ActiveEligibility(orders[id].terms.subject)
    /\ now < orders[id].terms.deadline
    /\ reserved >= Amount(id)
    /\ Covered
    /\ orders' = [orders EXCEPT ![id].payout = now]
    /\ UNCHANGED <<now, grants, receiptOf, fundingOf, reserved, balance,
                   verifierOk, blocked>>

\* The receipt of a deposit needs a grant on record, even an expired one; that
\* of a withdrawal needs the promise.
ReceiptReady(o) ==
    IF IsDeposit(o)
    THEN grants[o.terms.subject] # None
    ELSE Authorized(o)

\* Slip: the bank leg of a withdrawal may predate its promise.
EarliestReceipt_Created(o) == o.createdAt

\* The earliest instant a bank event of the order can carry.
EarliestReceipt(o) ==
    IF IsDeposit(o) THEN o.createdAt ELSE o.payout

\* record_receipt by the notary, who looks at no deadline.
RecordReceipt(id, r) ==
    /\ Exists(id)
    /\ orders[id].receipt = None
    /\ ~Terminal(orders[id])
    /\ orders[id].escrowed
    /\ ReceiptReady(orders[id])
    /\ r.quote = orders[id].terms.quote
    /\ r.bank = orders[id].terms.bank
    /\ EarliestReceipt(orders[id]) <= r.receivedAt
    /\ r.receivedAt <= now
    /\ Unused(receiptOf, r.event)
    /\ receiptOf' = [receiptOf EXCEPT ![r.event] = id]
    /\ orders' = [orders EXCEPT ![id].receipt = r]
    /\ UNCHANGED <<now, grants, fundingOf, reserved, balance, verifierOk,
                   blocked>>

\* Slip: the customer is paid in either direction.
Beneficiary_Customer(o) == o.terms.recipient

\* Who receives the tokens when the order settles.
Beneficiary(o) ==
    IF IsDeposit(o) THEN o.terms.recipient ELSE Provider

\* Slip: both directions must settle before the deadline.
SettleReady_BeforeDeadline(o) ==
    /\ now < o.terms.deadline
    /\ IsDeposit(o) => ActiveEligibility(o.terms.subject)
    /\ IsWithdrawal(o) => Authorized(o)

\* A deposit still needs eligibility and its deadline, a withdrawal only the
\* obligation made while both held.
SettleReady(o) ==
    IF IsDeposit(o)
    THEN /\ ActiveEligibility(o.terms.subject)
         /\ now < o.terms.deadline
    ELSE Authorized(o)

\* settle by anyone.
Settle(id) ==
    /\ Exists(id)
    /\ ~Terminal(orders[id])
    /\ orders[id].receipt # None
    /\ orders[id].escrowed
    /\ SettleReady(orders[id])
    /\ receiptOf[orders[id].receipt.event] = id
    /\ Release(id, [orders[id] EXCEPT !.settledAt = now], Beneficiary(orders[id]))
    /\ UNCHANGED <<now, grants, receiptOf, fundingOf, verifierOk, blocked>>

\* refund by provider and notary, before any payout obligation.
Refund(id) ==
    /\ Exists(id)
    /\ IsWithdrawal(orders[id])
    /\ Untouched(orders[id])
    /\ Release(id, [orders[id] EXCEPT !.refundedAt = now],
               orders[id].terms.refundTo)
    /\ UNCHANGED <<now, grants, receiptOf, fundingOf, verifierOk, blocked>>

\* cancel by provider and notary, before any bank receipt.
Cancel(id) ==
    /\ Exists(id)
    /\ IsDeposit(orders[id])
    /\ Untouched(orders[id])
    /\ Release(id, [orders[id] EXCEPT !.cancelledAt = now], Provider)
    /\ UNCHANGED <<now, grants, receiptOf, fundingOf, verifierOk, blocked>>

-----------------------------------------------------------------------------
\* The world around the contract.

Tick ==
    /\ now < MaxTime
    /\ now' = now + 1
    /\ UNCHANGED <<orders, grants, receiptOf, fundingOf, reserved, balance,
                   verifierOk, blocked>>

\* The verifier contract answers another profile, or its own again.
VerifierChange ==
    /\ verifierOk' = ~verifierOk
    /\ UNCHANGED <<now, orders, grants, receiptOf, fundingOf, reserved,
                   balance, blocked>>

\* An account's trustline disappears, fills up or is restored.
TrustlineChange(a) ==
    /\ blocked' = IF a \in blocked THEN blocked \ {a} ELSE blocked \cup {a}
    /\ UNCHANGED <<now, orders, grants, receiptOf, fundingOf, reserved,
                   balance, verifierOk>>

\* A customer pays the custody account, outside the contract.
Pay(a, amount) ==
    /\ a # Provider
    /\ blocked \cap {a, Provider} = {}
    /\ balance[a] >= amount
    /\ balance' = Move(a, Provider, amount)
    /\ UNCHANGED <<now, orders, grants, receiptOf, fundingOf, reserved,
                   verifierOk, blocked>>

\* Anyone may send tokens straight to the vault's address.
Donate(a) ==
    /\ a \notin blocked
    /\ balance[a] > 0
    /\ balance[Vault] - reserved < MaxSurplus
    /\ balance' = Move(a, Vault, 1)
    /\ UNCHANGED <<now, orders, grants, receiptOf, fundingOf, reserved,
                   verifierOk, blocked>>

\* The issuer of a clawback asset takes a token out of the vault.
Clawback ==
    /\ ClawbackEnabled
    /\ balance[Vault] > 0
    /\ balance' = [balance EXCEPT ![Vault] = @ - 1]
    /\ UNCHANGED <<now, orders, grants, receiptOf, fundingOf, reserved,
                   verifierOk, blocked>>

-----------------------------------------------------------------------------

Init ==
    /\ now = 0
    /\ orders = [id \in Ids |-> None]
    /\ grants = [s \in Subjects |-> None]
    /\ receiptOf = [e \in Events |-> None]
    /\ fundingOf = [op \in Ops |-> None]
    /\ reserved = 0
    /\ balance = [a \in Accounts \cup {Vault} |->
                    IF a = Vault THEN 0 ELSE InitialBalance[a]]
    /\ verifierOk = TRUE
    /\ blocked = {}

\* The receipts a notary may try to record.
Receipts ==
    [event : Events, quote : Quotes, bank : Banks, receivedAt : 0..MaxTime]

Call(id) ==
    \/ \E t \in Terms : CreateOrder(id, t)
    \/ \E op \in Ops : FundWithdrawal(id, op)
    \/ AuthorizePayout(id)
    \/ \E r \in Receipts : RecordReceipt(id, r)
    \/ Settle(id)
    \/ Refund(id)
    \/ Cancel(id)

Next ==
    \/ \E id \in Ids : Call(id)
    \/ \E s \in Subjects, proofTime \in 0..MaxTime :
          SubmitEligibility(s, proofTime)
    \/ Tick
    \/ VerifierChange
    \/ \E a \in Freezable : TrustlineChange(a)
    \/ \E a \in Accounts, amount \in ClassicAmounts : Pay(a, amount)
    \/ \E a \in Accounts : Donate(a)
    \/ Clawback

Spec == Init /\ [][Next]_vars

-----------------------------------------------------------------------------
\* Properties.

\* Every storage entry holds a value of its type.  In particular the reserve
\* and the balances never become negative (release subtracts both).
TypeOK ==
    /\ now \in Nat
    /\ orders \in [Ids -> Option(OrderType)]
    /\ grants \in [Subjects -> Option(GrantType)]
    /\ receiptOf \in [Events -> Option(Ids)]
    /\ fundingOf \in [Ops -> Option(Ids)]
    /\ reserved \in Nat
    /\ balance \in [Accounts \cup {Vault} -> Nat]
    /\ verifierOk \in BOOLEAN
    /\ blocked \in SUBSET Accounts

Escrowed == {id \in Ids : Exists(id) /\ orders[id].escrowed}

\* TotalReserved, which every call adjusts by hand, is the sum of the amounts
\* of the escrowed orders: no order's tokens are counted twice or forgotten.
ReserveExact == reserved = MapThenSumSet(Amount, Escrowed)

\* Unless the issuer claws tokens back, the vault holds what it reserves.
Solvent == ~ClawbackEnabled => Covered

\* An order pays only the account whose subject it names, never more than the
\* policy's maximum nor past the policy's end, and a withdrawal comes into
\* custody (and so can end) only by an attributed payment.
Attributed(o) ==
    /\ o.terms.subject = SubjectOf[o.terms.recipient]
    /\ o.terms.refundTo = o.terms.recipient
    /\ 0 < o.terms.amount
    /\ o.terms.amount <= MaxAmount
    /\ o.terms.deadline <= PolicyValidUntil
    /\ IsWithdrawal(o) /\ (o.escrowed \/ Terminal(o)) => o.funding # None
CustodyAttributed == \A id \in Ids : Exists(id) => Attributed(orders[id])

\* An order ends at most once, and is in custody no more once it ended:
\* settle, refund and cancel exclude one another in every order of calls.
EndsOnce(o) ==
    /\ o.settledAt = None \/ o.refundedAt = None
    /\ o.settledAt = None \/ o.cancelledAt = None
    /\ o.refundedAt = None \/ o.cancelledAt = None
    /\ Terminal(o) => ~o.escrowed
    /\ IsDeposit(o) => o.refundedAt = None
    /\ IsWithdrawal(o) => o.cancelledAt = None
OneOutcome == \A id \in Ids : Exists(id) => EndsOnce(orders[id])

\* Once the notary may pay the bank leg, the order's tokens stay in custody
\* until they settle to the provider: no refund wins the race afterwards.
Backed(o) ==
    Authorized(o) => /\ o.refundedAt = None
                     /\ o.cancelledAt = None
                     /\ o.escrowed \/ o.settledAt # None
ObligationBacked == \A id \in Ids : Exists(id) => Backed(orders[id])

\* A bank event and a payment operation each serve one order, and the index
\* that says so agrees with the orders in both directions.
HasReceipt(id, e) ==
    Exists(id) /\ orders[id].receipt # None /\ orders[id].receipt.event = e
HasFunding(id, op) ==
    Exists(id) /\ orders[id].funding # None /\ orders[id].funding.op = op
EvidenceUnique ==
    /\ \A e \in Events, id \in Ids : receiptOf[e] = id <=> HasReceipt(id, e)
    /\ \A op \in Ops, id \in Ids : fundingOf[op] = id <=> HasFunding(id, op)

\* The facts an order records happened in the order the exchange needs:
\* a withdrawal is funded, then promised before its deadline, then received
\* by the bank, then settled; a deposit is received, then settled in time.
FundedInTime(o) ==
    o.funding # None =>
        o.createdAt <= o.funding.recordedAt /\ o.funding.recordedAt <= now
PromisedInTime(o) ==
    Authorized(o) =>
        /\ o.funding # None
        /\ o.funding.recordedAt <= o.payout
        /\ o.payout <= now
        /\ o.payout < o.terms.deadline
ReceivedInTime(o) ==
    o.receipt # None =>
        /\ IsDeposit(o) => o.createdAt <= o.receipt.receivedAt
        /\ IsWithdrawal(o) => Authorized(o) /\ o.payout <= o.receipt.receivedAt
        /\ o.receipt.receivedAt <= now
SettledInTime(o) ==
    o.settledAt # None =>
        /\ o.receipt # None
        /\ o.receipt.receivedAt <= o.settledAt
        /\ o.settledAt <= now
        /\ IsDeposit(o) => o.settledAt < o.terms.deadline
Timeline ==
    \A id \in Ids : Exists(id) =>
        /\ orders[id].createdAt <= now
        /\ orders[id].createdAt < orders[id].terms.deadline
        /\ FundedInTime(orders[id])
        /\ PromisedInTime(orders[id])
        /\ ReceivedInTime(orders[id])
        /\ SettledInTime(orders[id])

\* The grant on record for an account's own subject covers an instant; later
\* proofs may only extend it.
CoveredByGrant(account, at) ==
    /\ grants[SubjectOf[account]] # None
    /\ at < grants[SubjectOf[account]].validUntil

\* Value leaves to a bank account or to a customer only for an account whose
\* own subject was eligible at that instant.
PaysEligible(o) ==
    /\ Authorized(o) => CoveredByGrant(o.terms.recipient, o.payout)
    /\ IsDeposit(o) /\ o.settledAt # None =>
          CoveredByGrant(o.terms.recipient, o.settledAt)
EligibleValue == \A id \in Ids : Exists(id) => PaysEligible(orders[id])

\* A grant is worth what its own proof is worth: it was made in the past and
\* ends with its age or with the policy, however late it was relayed.
GrantsFromProofs ==
    \A s \in Subjects : grants[s] # None =>
        /\ grants[s].proofTime <= now
        /\ grants[s] = GrantFor(grants[s].proofTime)

\* Who receives the tokens of an order that just ended.
Rightful(o) ==
    IF o.cancelledAt # None \/ (IsWithdrawal(o) /\ o.settledAt # None)
    THEN Provider
    ELSE o.terms.recipient

\* Without clawback, the vault's balance falls only by the exact amount of one
\* order in custody, which that step ends, paid to the party its outcome
\* names; the step changes no other order.
TokensFollowOrders ==
    [][(~ClawbackEnabled /\ balance'[Vault] < balance[Vault]) =>
         \E id \in Ids :
            /\ Exists(id) /\ orders[id].escrowed /\ ~Terminal(orders[id])
            /\ orders' = [orders EXCEPT ![id] = orders'[id]]
            /\ Terminal(orders'[id]) /\ ~orders'[id].escrowed
            /\ balance' = Move(Vault, Rightful(orders'[id]), Amount(id))
            /\ reserved' = reserved - Amount(id)]_vars

\* A grant never disappears and is never replaced by a shorter one, whatever
\* order proofs arrive in (a relayed old proof rolls nothing back).
GrantsOnlyImprove ==
    [][\A s \in Subjects : grants[s] # None =>
         /\ grants'[s] # None
         /\ grants'[s].proofTime >= grants[s].proofTime
         /\ grants'[s].validUntil >= grants[s].validUntil]_vars

\* While the vault is short of its reserve, no order is promised or paid out
\* of another order's tokens.
ShortfallFreezes ==
    [][~Covered => \A id \in Ids : Exists(id) =>
         /\ orders'[id].escrowed = orders[id].escrowed
         /\ orders'[id].payout = orders[id].payout]_vars

\* Where an order stands for the escrow it is part of.
Standing(id) ==
    IF ~Exists(id) THEN "none"
    ELSE IF orders[id].settledAt # None THEN "paid"
    ELSE IF Terminal(orders[id]) THEN "returned"
    ELSE IF ~orders[id].escrowed THEN "open"
    ELSE IF Untouched(orders[id]) THEN "held"
    ELSE "owed"

E == INSTANCE Escrow WITH
        Orders <- Ids,
        Sizes <- 1..MaxAmount,
        phase <- [id \in Ids |-> Standing(id)],
        size <- [id \in Ids |-> IF Exists(id) THEN Amount(id) ELSE 0],
        pot <- reserved

\* The contract implements the escrow: TotalReserved is the pot, tokens enter
\* and leave it once for each order, and nothing returns once the other leg
\* of the exchange is owed.
ImplementsEscrow == E!EscrowSpec

\* A deposit whose bank leg is paid and that can no longer settle: the one
\* state the documentation leaves to the operators.
Stranded(id) ==
    /\ IsDeposit(orders[id])
    /\ orders[id].receipt # None
    /\ ~SettleReady(orders[id])

FreeEvents == {e \in Events \ {Zero} : receiptOf[e] = None}

\* The notary records the bank event of a payout it was told to make.
RecordPayoutReceipt(id) ==
    Exists(id) /\ IsWithdrawal(orders[id]) /\ \E r \in Receipts : RecordReceipt(id, r)

\* Custody always has an exit: while the vault is covered and trustlines are
\* open, some call moves every escrowed order towards its release, after any
\* expiry and with any verifier, but for a stranded deposit.
ExitOpen ==
    (Covered /\ blocked = {} /\ FreeEvents # {}) =>
        \A id \in Escrowed :
            \/ Stranded(id)
            \/ ENABLED Settle(id)
            \/ ENABLED Refund(id)
            \/ ENABLED Cancel(id)
            \/ ENABLED RecordPayoutReceipt(id)

\* The operators: the notary records the receipts of its payouts, and anyone
\* (the coordinator's loop) retries settle.
FairSpec ==
    /\ Spec
    /\ \A id \in Ids : /\ WF_vars(RecordPayoutReceipt(id))
                       /\ SF_vars(Settle(id))

\* Every promised payout ends settled, whatever expires meanwhile.
ObligationDischarged ==
    \A id \in Ids :
        (Exists(id) /\ Authorized(orders[id]))
            ~> (Exists(id) /\ orders[id].settledAt # None)

=============================================================================
