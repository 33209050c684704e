----------------------------- MODULE GateVault -----------------------------
(***************************************************************************)
(* The anchor-gate Soroban contract (contracts/anchor-gate/src/lib.rs): an *)
(* order's tokens enter the vault when a deposit is created or a           *)
(* withdrawal is proved, and leave it only by settlement.  Each order      *)
(* carries the eligibility of its own proof.                               *)
(*                                                                         *)
(* One contract call is one action; a call that fails, or that repeats one *)
(* that took effect, changes nothing.  A hash is a value of a set; the     *)
(* quote hash and the amount in lira are compared together and are one     *)
(* value; of an eligibility only its end is kept, which is all the         *)
(* contract reads of it.  The issuer takes no tokens back and storage      *)
(* entries stay alive.                                                     *)
(***************************************************************************)
EXTENDS Integers, FiniteSets

CONSTANTS
    Ids,                \* order ids
    Customers,          \* the accounts that log in
    Provider, Vault,    \* the custody account; the contract's own address
    Terms,              \* the order terms the provider may submit
    Events, Banks,      \* bank event ids; hashes of bank destinations
    Zero, None,         \* the all-zero hash; an absent option
    MaxProofAge, PolicyValidUntil, MaxOrderLifetime, MaxAmount,
    InitialBalance,     \* [Customers \cup {Provider} -> Nat]
    MaxTime             \* bound on the ledger clock

Accounts == Customers \cup {Provider, Vault}

TermsType ==
    [direction : {"deposit", "withdrawal"}, recipient : Customers,
     bank : Banks, amount : Int, deadline : Nat]

ASSUME GateAssumption ==
    /\ Provider \notin Customers
    /\ Vault \notin Customers \cup {Provider}
    /\ Terms \subseteq TermsType
    /\ MaxProofAge \in Nat \ {0}
    /\ PolicyValidUntil \in Nat \ {0}
    /\ MaxOrderLifetime \in Nat \ {0}
    /\ MaxAmount \in Nat \ {0}
    /\ InitialBalance \in [Customers \cup {Provider} -> Nat]
    /\ MaxTime \in Nat

ReceiptType == [event : Events, bank : Banks, receivedAt : Nat]
Option(S) == S \cup {None}
OrderType ==
    [terms : Terms, createdAt : Nat, eligibleUntil : Option(Nat),
     receipt : Option(ReceiptType), escrowed : BOOLEAN,
     payout : Option(Nat), settled : BOOLEAN]

ASSUME AbsentAssumption ==
    None \notin Nat \cup Ids \cup ReceiptType \cup OrderType

VARIABLES
    now,         \* ledger timestamp
    orders,      \* Key::Order
    receiptOf,   \* Key::Receipt: the order a bank event was used for
    reserved,    \* Key::TotalReserved
    balance,     \* the asset contract's balances
    verifierOk,  \* the pinned verifier still has the pinned code and profile
    blocked      \* customers whose trustline takes no transfer

gateVars == <<now, orders, receiptOf, reserved, balance, verifierOk, blocked>>

Exists(id)    == orders[id] # None
Amount(id)    == orders[id].terms.amount
IsDeposit(o)  == o.terms.direction = "deposit"
Authorized(o) == o.payout # None
Current       == now < PolicyValidUntil
Covered       == balance[Vault] >= reserved

\* The proof on the order is good for a new obligation now.
Eligible(o) ==
    o.eligibleUntil # None /\ Current /\ verifierOk /\ now < o.eligibleUntil

Move(from, to, amount) ==
    [balance EXCEPT ![from] = @ - amount, ![to] = @ + amount]

\* reserve_from
Reserve(source, amount) ==
    /\ source \notin blocked
    /\ balance[source] >= amount
    /\ balance[Vault] + amount >= reserved + amount
    /\ balance' = Move(source, Vault, amount)
    /\ reserved' = reserved + amount

-----------------------------------------------------------------------------

ValidTerms(t) ==
    /\ 0 < t.amount /\ t.amount <= MaxAmount
    /\ now < t.deadline
    /\ t.deadline <= PolicyValidUntil
    /\ t.deadline - now <= MaxOrderLifetime
    /\ t.direction = "deposit" <=> t.bank = Zero

\* Slip: a withdrawal counts as escrowed from the start.
NewOrder_Held(t) ==
    [terms |-> t, createdAt |-> now, eligibleUntil |-> None,
     receipt |-> None, escrowed |-> TRUE, payout |-> None, settled |-> FALSE]

NewOrder(t) ==
    [terms |-> t, createdAt |-> now, eligibleUntil |-> None,
     receipt |-> None, escrowed |-> t.direction = "deposit",
     payout |-> None, settled |-> FALSE]

\* create_order by the provider.
CreateOrder(id, t) ==
    /\ ~Exists(id)
    /\ Current
    /\ ValidTerms(t)
    /\ IF t.direction = "deposit"
       THEN Reserve(Provider, t.amount)
       ELSE UNCHANGED <<reserved, balance>>
    /\ orders' = [orders EXCEPT ![id] = NewOrder(t)]
    /\ UNCHANGED <<now, receiptOf, verifierOk, blocked>>

\* check_eligibility: until when a proof made at proofTime serves the order.
Least(a, b) == IF a <= b THEN a ELSE b
EligibleUntil(o, proofTime) ==
    Least(proofTime + MaxProofAge, Least(o.terms.deadline, PolicyValidUntil))

\* Slip: every proof debits its maker.
Debited_Always(o) == TRUE

\* The proof takes the customer's tokens, the first time.
Debited(o) == ~IsDeposit(o) /\ ~o.escrowed

Provable(o) == ~o.settled /\ ~Authorized(o) /\ now < o.terms.deadline

\* prove_order by the recipient, with a proof made for this very order that
\* the verifier accepts.  A later call may bring an older proof.
ProveOrder(id, proofTime) ==
    /\ Exists(id)
    /\ Current
    /\ verifierOk
    /\ Provable(orders[id])
    /\ orders[id].createdAt <= proofTime
    /\ proofTime <= now
    /\ now - proofTime < MaxProofAge
    /\ IF Debited(orders[id])
       THEN Reserve(orders[id].terms.recipient, Amount(id))
       ELSE UNCHANGED <<reserved, balance>>
    /\ orders' = [orders EXCEPT
                    ![id].escrowed = TRUE,
                    ![id].eligibleUntil = EligibleUntil(orders[id], proofTime)]
    /\ UNCHANGED <<now, receiptOf, verifierOk, blocked>>

\* The earliest instant of the bank's event, and None where none may be yet.
EarliestReceipt(o) == IF IsDeposit(o) THEN o.createdAt ELSE o.payout

\* record_receipt by the notary, who looks at no deadline.
RecordReceipt(id, r) ==
    /\ Exists(id)
    /\ orders[id].receipt = None
    /\ ~orders[id].settled
    /\ orders[id].escrowed
    /\ orders[id].eligibleUntil # None
    /\ EarliestReceipt(orders[id]) # None
    /\ EarliestReceipt(orders[id]) <= r.receivedAt
    /\ r.receivedAt <= now
    /\ r.bank = orders[id].terms.bank
    /\ receiptOf[r.event] = None
    /\ receiptOf' = [receiptOf EXCEPT ![r.event] = id]
    /\ orders' = [orders EXCEPT ![id].receipt = r]
    /\ UNCHANGED <<now, reserved, balance, verifierOk, blocked>>

\* authorize_payout by the notary: the promise to pay the bank leg.
AuthorizePayout(id) ==
    /\ Exists(id)
    /\ ~IsDeposit(orders[id])
    /\ ~Authorized(orders[id])
    /\ ~orders[id].settled
    /\ orders[id].escrowed
    /\ orders[id].receipt = None
    /\ Eligible(orders[id])
    /\ now < orders[id].terms.deadline
    /\ reserved >= Amount(id)
    /\ Covered
    /\ orders' = [orders EXCEPT ![id].payout = now]
    /\ UNCHANGED <<now, receiptOf, reserved, balance, verifierOk, blocked>>

\* Slip: a withdrawal, too, settles only while its proof holds.
SettleReady_Eligible(o) == Eligible(o) /\ now < o.terms.deadline

SettleReady(o) ==
    IF IsDeposit(o)
    THEN Eligible(o) /\ now < o.terms.deadline
    ELSE Authorized(o)

Beneficiary(o) == IF IsDeposit(o) THEN o.terms.recipient ELSE Provider

\* settle by anyone.
Settle(id) ==
    /\ Exists(id)
    /\ ~orders[id].settled
    /\ orders[id].eligibleUntil # None
    /\ orders[id].receipt # None
    /\ orders[id].escrowed
    /\ SettleReady(orders[id])
    /\ receiptOf[orders[id].receipt.event] = id
    /\ reserved >= Amount(id)
    /\ Covered
    /\ Beneficiary(orders[id]) \notin blocked
    /\ orders' = [orders EXCEPT ![id].settled = TRUE, ![id].escrowed = FALSE]
    /\ reserved' = reserved - Amount(id)
    /\ balance' = Move(Vault, Beneficiary(orders[id]), Amount(id))
    /\ UNCHANGED <<now, receiptOf, verifierOk, blocked>>

-----------------------------------------------------------------------------
\* The world around the contract.

Tick ==
    /\ now < MaxTime
    /\ now' = now + 1
    /\ UNCHANGED <<orders, receiptOf, reserved, balance, verifierOk, blocked>>

VerifierChange ==
    /\ verifierOk' = ~verifierOk
    /\ UNCHANGED <<now, orders, receiptOf, reserved, balance, blocked>>

TrustlineChange(a) ==
    /\ blocked' = IF a \in blocked THEN blocked \ {a} ELSE blocked \cup {a}
    /\ UNCHANGED <<now, orders, receiptOf, reserved, balance, verifierOk>>

GateInit ==
    /\ now = 0
    /\ orders = [id \in Ids |-> None]
    /\ receiptOf = [e \in Events |-> None]
    /\ reserved = 0
    /\ balance = [a \in Accounts |-> IF a = Vault THEN 0 ELSE InitialBalance[a]]
    /\ verifierOk = TRUE
    /\ blocked = {}

\* The receipts a notary may try to record.
Receipts == [event : Events, bank : Banks, receivedAt : 0..MaxTime]

GateCall(id) ==
    \/ \E t \in Terms : CreateOrder(id, t)
    \/ \E proofTime \in 0..MaxTime : ProveOrder(id, proofTime)
    \/ \E r \in Receipts : RecordReceipt(id, r)
    \/ AuthorizePayout(id)
    \/ Settle(id)

World == Tick \/ VerifierChange \/ \E a \in Customers : TrustlineChange(a)

GateNext == World \/ \E id \in Ids : GateCall(id)

GateSpec == GateInit /\ [][GateNext]_gateVars

-----------------------------------------------------------------------------
\* Properties.

\* Every storage entry holds a value of its type.
GateTypeOK ==
    /\ now \in Nat
    /\ orders \in [Ids -> Option(OrderType)]
    /\ receiptOf \in [Events -> Option(Ids)]
    /\ reserved \in Nat
    /\ balance \in [Accounts -> Nat]
    /\ verifierOk \in BOOLEAN
    /\ blocked \in SUBSET Customers

\* The vault holds what it reserves.
GateSolvent == Covered

\* An order's custody, promise and outcome agree: the bank is promised a
\* payout only in time and for proved tokens in custody, which stay there
\* until they settle; a receipt needs an eligibility and, for a withdrawal,
\* the earlier promise; what settled is in custody no more.
Lawful(o) ==
    /\ o.settled => o.receipt # None /\ ~o.escrowed
    /\ IsDeposit(o) => (o.escrowed \/ o.settled) /\ ~Authorized(o)
    /\ Authorized(o) =>
          /\ o.payout < o.eligibleUntil
          /\ o.payout < o.terms.deadline
          /\ o.escrowed \/ o.settled
    /\ o.escrowed /\ ~IsDeposit(o) => o.eligibleUntil # None
    /\ o.receipt # None =>
          /\ o.eligibleUntil # None
          /\ ~IsDeposit(o) => Authorized(o) /\ o.payout <= o.receipt.receivedAt
    /\ o.eligibleUntil # None => o.eligibleUntil <= o.terms.deadline
OrdersLawful == \A id \in Ids : Exists(id) => Lawful(orders[id])

\* A bank event serves one order, and the index agrees with the orders.
EventsServeOne ==
    \A e \in Events, id \in Ids :
        receiptOf[e] = id <=>
            /\ Exists(id)
            /\ orders[id].receipt # None
            /\ orders[id].receipt.event = e

\* Where an order stands for the escrow it is part of.
Standing(id) ==
    IF ~Exists(id) THEN "none"
    ELSE IF orders[id].settled THEN "paid"
    ELSE IF ~orders[id].escrowed THEN "open"
    ELSE IF ~Authorized(orders[id]) /\ orders[id].receipt = None THEN "held"
    ELSE "owed"

E == INSTANCE Escrow WITH
        Orders <- Ids,
        Sizes <- 1..MaxAmount,
        phase <- [id \in Ids |-> Standing(id)],
        size <- [id \in Ids |-> IF Exists(id) THEN Amount(id) ELSE 0],
        pot <- reserved

\* The contract implements the abstract escrow, and returns nothing.
GateImplementsEscrow == E!EscrowSpec

=============================================================================
