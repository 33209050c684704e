--------------------------- MODULE SepCoordinator ---------------------------
(***************************************************************************)
(* The SEP coordinator (src/sep-anchor.ts) driving the sep-anchor contract *)
(* (module SepVault) over the Stellar network: it journals every signed    *)
(* transaction before it is sent, finds out what became of it, copies the  *)
(* confirmed order, attributes incoming payments and asks the simulated    *)
(* bank for transfers.                                                     *)
(*                                                                         *)
(* One request handler runs at a time (`locked`), but it awaits the        *)
(* network at every step, and the contract, the clock and the customers    *)
(* go on meanwhile.  `handler` is that program: one action for what it     *)
(* does between two awaits.  An error or a restart drops it; the SQLite    *)
(* tables (intents, actions, bankEvents, payments, consumed) stay.         *)
(*                                                                         *)
(* Abstractions.  A transaction's envelope and hash are its place in the   *)
(* journal; a ledger number is a place in an order's history (`past`); the *)
(* operator's clock is the ledger's; the deployment's configuration does   *)
(* not change; an operation id is a place in the payment feed.  Grants and *)
(* trustlines are read as they are, only orders from older ledgers.        *)
(***************************************************************************)
EXTENDS SepVault, Sequences

CONSTANTS
    Customers,       \* the accounts that log in
    Memos,           \* the orders that payments name, and None
    ProofTimes,      \* the instants at which proofs are generated
    TxLifetime,      \* how long a prepared transaction may be included
    StaleReads,      \* the RPC server may answer from an older ledger
    MaxActions,      \* bound on the journal
    MaxPayments,     \* bound on the payment feed
    MaxFaults        \* bound on crashes, lost calls, failed transactions,
                     \* and changes of the verifier and of trustlines

ASSUME NetworkAssumption ==
    /\ Customers \subseteq Accounts
    /\ Memos \subseteq Ids \cup {None}
    /\ ProofTimes \subseteq Nat
    /\ TxLifetime \in Nat \ {0}
    /\ StaleReads \in BOOLEAN
    /\ MaxActions \in Nat
    /\ MaxPayments \in Nat
    /\ MaxFaults \in Nat
    /\ 1..MaxPayments \subseteq Ops

\* A row of the table of intents.  None is neither a row nor its terms.
IntentType ==
    [account : Customers, direction : {"deposit", "withdrawal"},
     terms : Option(Terms), chain : Option(OrderType), seen : Nat,
     requested : BOOLEAN, recovery : BOOLEAN]

ASSUME IntentAssumption == None \notin IntentType /\ None \notin Terms

VARIABLES
    net,         \* what the network did with each transaction of the journal,
                 \* and in which ledger
    past,        \* the states an order had, by the ledger they were written in
    feed,        \* the payments into the custody account
    intents,     \* table sep_anchor_intents
    actions,     \* table sep_anchor_actions, the journal
    bankEvents,  \* table sep_anchor_bank_events
    payments,    \* table sep_anchor_payments; its length is the feed's cursor
    consumed,    \* quotes.consumed_by
    handler,     \* the request that holds the lock
    faults

contract == vars
database == <<intents, actions, bankEvents, payments, consumed>>
network  == <<net, past, feed>>
system   == <<contract, network, database, handler, faults>>

Open(status) == status \in {"prepared", "pending"}

\* What the coordinator may ask of the contract.
Kinds == {"eligibility", "create", "fund", "authorize", "receipt", "settle",
          "refund", "cancel"}

OwnActions(id) == {n \in DOMAIN actions : actions[n].intent = id}
Unresolved     == {n \in DOMAIN actions : Open(actions[n].status)}

-----------------------------------------------------------------------------
\* The network.

\* The contract call of a journaled transaction takes effect.
Takes(a) ==
    \/ a.kind = "create" /\ CreateOrder(a.intent, a.arg)
    \/ a.kind = "fund" /\ FundWithdrawal(a.intent, a.arg)
    \/ a.kind = "authorize" /\ AuthorizePayout(a.intent)
    \/ a.kind = "receipt" /\ RecordReceipt(a.intent, a.arg)
    \/ a.kind = "settle" /\ Settle(a.intent)
    \/ a.kind = "refund" /\ Refund(a.intent)
    \/ a.kind = "cancel" /\ Cancel(a.intent)
    \/ a.kind = "eligibility" /\ SubmitEligibility(a.arg.subject, a.arg.proofTime)

\* The call finds its effect already there and succeeds without another.
Replays(a) ==
    IF a.kind = "eligibility"
    THEN /\ Current /\ verifierOk
         /\ Recent(a.arg.proofTime)
         /\ ~Fresher(a.arg.subject, a.arg.proofTime)
    ELSE /\ Exists(a.intent)
         /\ LET o == orders[a.intent] IN
            \/ a.kind = "create" /\ o.terms = a.arg
            \/ a.kind = "fund" /\ o.funding # None /\ o.funding.op = a.arg
            \/ a.kind = "authorize" /\ Authorized(o)
            \/ a.kind = "receipt" /\ o.receipt = a.arg
            \/ a.kind = "settle" /\ o.settledAt # None
            \/ a.kind = "refund" /\ o.refundedAt # None
            \/ a.kind = "cancel" /\ o.cancelledAt # None

Accepts(a) == Replays(a) \/ ENABLED Takes(a)

Recorded ==
    past' = [id \in Ids |-> IF orders'[id] = orders[id] THEN past[id]
                            ELSE Append(past[id], orders'[id])]

Fault == faults < MaxFaults /\ faults' = faults + 1

\* What happens to transaction n, once it is included with this status.
Executes(n, status) ==
    \/ status = "success" /\ Takes(actions[n]) /\ UNCHANGED faults
    \/ status = "success" /\ Replays(actions[n]) /\ UNCHANGED <<contract, faults>>
    \/ /\ status = "failed"
       /\ IF Accepts(actions[n]) THEN Fault ELSE UNCHANGED faults
       /\ UNCHANGED contract

\* A transaction that was sent is included before it expires, and succeeds or
\* fails; a transaction may also fail for reasons of its own (fees, sequence).
Include(n) ==
    /\ net[n].status = "sent"
    /\ now <= actions[n].expires
    /\ \E status \in {"success", "failed"} :
          /\ Executes(n, status)
          /\ Recorded
          /\ net' = [net EXCEPT ![n] =
                [status |-> status, ledger |-> Len(past'[actions[n].intent])]]
    /\ UNCHANGED <<feed, database, handler>>

\* A customer, or anyone, pays the custody account; the memo may name an order.
PayIn(memo, a, amount) ==
    /\ Len(feed) < MaxPayments
    /\ Pay(a, amount)
    /\ feed' = Append(feed, [memo |-> memo, from |-> a, amount |-> amount,
                             at |-> now])
    /\ UNCHANGED <<net, past, database, handler, faults>>

\* Anyone may settle an order that is ready.
OutsideSettle(id) ==
    /\ Settle(id)
    /\ Recorded
    /\ UNCHANGED <<net, feed, database, handler, faults>>

\* The clock, the verifier and the trustlines change on their own.
Environment ==
    /\ \/ Tick /\ UNCHANGED faults
       \/ Fault /\ VerifierChange
       \/ Fault /\ \E a \in Freezable : TrustlineChange(a)
    /\ UNCHANGED <<network, database, handler>>

-----------------------------------------------------------------------------
\* Reading what the coordinator knows.

Row   == intents[handler.id]
Known == Row.chain

\* eligibility: the grant the contract has for the intent's account.
Granted(id) ==
    LET g == grants[SubjectOf[intents[id].account]] IN
    g # None /\ now < g.validUntil

\* recipientReady, for an order that is not closed.
RecipientReady(o) == IsDeposit(o) => o.terms.recipient \notin blocked

Accepted(id) ==
    {k \in DOMAIN payments : payments[k].accepted /\ payments[k].intent = id}

\* The oldest ledger an answer about the order may come from (checkChain).
\* Slips: the ledgers of the coordinator's own transactions, or those of its
\* earlier reads, are not counted.
Floor_OwnReads(id) == intents[id].seen

Floor_OwnActions(id) ==
    Max({0} \cup
        {actions[n].ledger : n \in {m \in OwnActions(id) :
                                        actions[m].status = "success"}})

Floor(id) ==
    Max({intents[id].seen} \cup
        {actions[n].ledger : n \in {m \in OwnActions(id) :
                                        actions[m].status = "success"}})

Included(n) == net[n].status \in {"success", "failed"}

\* What gateway.transaction answers about transaction n.
\* Slips: a transaction is given up in the last ledger that may include it;
\* the network's own word for a transaction it has not included is taken.
Answer_Unmapped(n) ==
    IF Included(n) \/ now <= actions[n].expires THEN net[n].status ELSE "failed"

Answer_GivesUpEarly(n) ==
    IF Included(n) THEN net[n].status
    ELSE IF now >= actions[n].expires THEN "failed"
    ELSE "pending"

Answer(n) ==
    IF Included(n) THEN net[n].status
    ELSE IF now > actions[n].expires THEN "failed"
    ELSE "pending"

\* The journal entry n after the network answered `status`.
Resolved(n, status) ==
    [actions EXCEPT ![n].status = status,
                    ![n].ledger = IF Open(status) THEN 0
                                  ELSE net[n].ledger]

-----------------------------------------------------------------------------
\* A handler: `todo` are the journal entries still to reconcile, `doing` the
\* call to make afterwards, `stage` the place in `advance` to go on from.

Idle == handler = None

\* advance starts by reconciling the order's own transactions.
Advance(id, op) ==
    [id |-> id, op |-> op, at |-> "reconcile", stage |-> 0,
     todo |-> OwnActions(id) \cap Unresolved, doing |-> None,
     replay |-> TRUE, granted |-> FALSE]

\* perform starts by reconciling every transaction of the journal.
Perform(h, kind, arg) ==
    [h EXCEPT !.at = "reconcile", !.todo = Unresolved, !.replay = TRUE,
              !.doing = [kind |-> kind, arg |-> arg]]

Reconciling == ~Idle /\ handler.at = "reconcile" /\ handler.todo # {}
First == Min(handler.todo)

\* reconcileAction, up to its first await: ask what became of a transaction,
\* and send it again unless the answer, or the caller, says not to.
Query ==
    /\ Reconciling
    /\ IF Answer(First) = "pending" /\ handler.replay
       THEN /\ handler' = [handler EXCEPT !.at = "send"]
            /\ UNCHANGED actions
       ELSE /\ actions' = Resolved(First, Answer(First))
            /\ handler' = [handler EXCEPT !.todo = @ \ {First}]
    /\ UNCHANGED <<contract, network, intents, bankEvents, payments, consumed,
                   faults>>

\* gateway.submit sends; the call may be lost on its way.
Send ==
    /\ ~Idle /\ handler.at = "send"
    /\ handler' = [handler EXCEPT !.at = "sent"]
    /\ \/ /\ net' = [net EXCEPT ![First].status = IF @ = "unsent" THEN "sent" ELSE @]
          /\ UNCHANGED faults
       \/ Fault /\ UNCHANGED net
    /\ UNCHANGED <<contract, past, feed, database>>

\* gateway.submit asks at once for the outcome; no answer counts as pending.
Sent ==
    /\ ~Idle /\ handler.at = "sent"
    /\ \/ /\ actions' = Resolved(First, IF Included(First) THEN net[First].status
                                                         ELSE "pending")
          /\ UNCHANGED faults
       \/ Included(First) /\ Fault /\ actions' = Resolved(First, "pending")
    /\ handler' = [handler EXCEPT !.at = "reconcile", !.todo = @ \ {First}]
    /\ UNCHANGED <<contract, network, intents, bankEvents, payments, consumed>>

SameKey(a, doing) ==
    a.kind = doing.kind /\ (a.kind = "eligibility" => a.arg = doing.arg)

\* The last journal entry for the call to make did succeed.
Done ==
    LET same == {n \in OwnActions(handler.id) : SameKey(actions[n], handler.doing)}
    IN  same # {} /\ actions[Max(same)].status = "success"

\* Slip: only the order's own open transactions hold up another.
InFlight_OwnOnly == OwnActions(handler.id) \cap Unresolved # {}

InFlight == Unresolved # {}

Expiry(doing) ==
    IF doing.kind = "create" THEN Min({now + TxLifetime, doing.arg.deadline})
                             ELSE now + TxLifetime

\* perform, once everything is reconciled: nothing if the call succeeded
\* before or if a transaction is still open; else simulate, sign and journal
\* a new one before sending it.  A rejected simulation is an error.
Prepare ==
    /\ ~Idle /\ handler.at = "reconcile"
    /\ handler.todo = {}
    /\ handler.doing # None
    /\ LET a == [intent |-> handler.id, kind |-> handler.doing.kind,
                 arg |-> handler.doing.arg, expires |-> Expiry(handler.doing),
                 status |-> "prepared", ledger |-> 0]
       IN  IF Done \/ InFlight
           THEN /\ handler' = [handler EXCEPT !.doing = None]
                /\ UNCHANGED <<actions, net>>
           ELSE IF ~Accepts(a) \/ Len(actions) = MaxActions
           THEN /\ handler' = None
                /\ UNCHANGED <<actions, net>>
           ELSE /\ actions' = Append(actions, a)
                /\ net' = Append(net, [status |-> "unsent", ledger |-> 0])
                /\ handler' = [handler EXCEPT !.at = "send", !.doing = None,
                                              !.todo = {Len(actions')}]
    /\ UNCHANGED <<contract, past, feed, intents, bankEvents, payments,
                   consumed, faults>>

Reconciled ==
    ~Idle /\ handler.at = "reconcile" /\ handler.todo = {} /\ handler.doing = None

\* submitProof goes on with advance.
ProofDone ==
    /\ Reconciled
    /\ handler.op = "proof"
    /\ handler' = Advance(handler.id, "advance")
    /\ UNCHANGED <<contract, network, database, faults>>

\* sync: copy the confirmed order, read k ledgers into its history.  An answer
\* older than one already relied upon, or no order where there was one, is an
\* error.  After a refund's call this is the end of the request.
Sync(k) ==
    /\ Reconciled
    /\ handler.op # "proof"
    /\ LET id == handler.id
           known == past[id][k] # None
           refused == IF known THEN k < Floor(id) ELSE intents[id].chain # None
       IN  /\ intents' = IF known /\ ~refused
                         THEN [intents EXCEPT ![id].chain = past[id][k],
                                              ![id].seen = k]
                         ELSE intents
           /\ handler' = IF refused \/ handler.op = "closing" THEN None
                         ELSE [handler EXCEPT !.at = "decide"]
    /\ UNCHANGED <<contract, network, actions, bankEvents, payments, consumed,
                   faults>>

SyncSome ==
    \E k \in (IF StaleReads THEN DOMAIN past[handler.id]
                            ELSE {Len(past[handler.id])}) : Sync(k)

-----------------------------------------------------------------------------
\* advance, after the order was read.

Closed(id) == intents[id].chain # None /\ Terminal(intents[id].chain)

Deciding(op) == ~Idle /\ handler.at = "decide" /\ handler.op \in op

\* The end of advance: a bank request goes on, any other request is over.
Finished == IF handler.op = "bank" THEN [handler EXCEPT !.at = "ask"] ELSE None

\* Nothing to do for an order that is closed, waits for an operator or has no
\* terms; else the eligibility is read, once, for all that follows.
Begun ==
    /\ Deciding({"advance", "bank"})
    /\ handler.stage = 0
    /\ handler' =
         IF Closed(handler.id) \/ Row.recovery \/ Row.terms = None
         THEN Finished
         ELSE [handler EXCEPT !.stage = 1, !.granted = Granted(handler.id)]
    /\ UNCHANGED <<contract, network, database, faults>>

BeforeDeadline == now < Row.terms.deadline

\* A deposit needs its grant, its deadline and a recipient that can receive.
DepositReady == handler.granted /\ BeforeDeadline /\ RecipientReady(Known)

ToCreate == Known = None /\ handler.granted /\ BeforeDeadline

\* Slip: the payment is no longer swept after the deadline it was made before.
ToFund_BeforeDeadline ==
    /\ Known # None
    /\ IsWithdrawal(Known)
    /\ ~Known.escrowed
    /\ Accepted(handler.id) # {}
    /\ BeforeDeadline

ToFund ==
    /\ Known # None
    /\ IsWithdrawal(Known)
    /\ ~Known.escrowed
    /\ Known.funding = None
    /\ Accepted(handler.id) # {}

ToAuthorize ==
    /\ Row.requested
    /\ Known # None
    /\ Known.escrowed
    /\ IsWithdrawal(Known)
    /\ Known.payout = None
    /\ handler.granted
    /\ BeforeDeadline

\* Slip: the bank pays a withdrawal as soon as the customer asks.
ToPayBank_OnRequest ==
    /\ Row.requested
    /\ Known # None
    /\ bankEvents[handler.id] = None
    /\ IsDeposit(Known) => DepositReady

ToPayBank ==
    /\ Row.requested
    /\ Known # None
    /\ bankEvents[handler.id] = None
    /\ IF IsWithdrawal(Known) THEN Authorized(Known) ELSE DepositReady
    /\ EarliestReceipt(Known) <= now

ToRecord ==
    /\ Known # None
    /\ bankEvents[handler.id] # None
    /\ Known.receipt = None

ToSettle ==
    /\ Known # None
    /\ Known.receipt # None
    /\ Known.escrowed
    /\ IF IsWithdrawal(Known) THEN Authorized(Known) ELSE DepositReady

\* The stages of advance in their order, and whether each has work to do.
Due(stage) ==
    \/ stage = 1 /\ ToCreate
    \/ stage = 2 /\ ToFund
    \/ stage = 3 /\ ToAuthorize
    \/ stage = 4 /\ ToPayBank
    \/ stage = 5 /\ ToRecord
    \/ stage = 6 /\ ToSettle

StageKind == <<"create", "fund", "authorize", "bank", "receipt", "settle">>

StageArg(stage) ==
    IF stage = 1 THEN Row.terms
    ELSE IF stage = 2 THEN Min(Accepted(handler.id))
    ELSE IF stage = 5 THEN bankEvents[handler.id]
    ELSE None

Next6(stage) == {s \in stage..6 : Due(s)}

\* The first stage with work to do: a contract call, or the bank's transfer.
Work ==
    /\ Deciding({"advance", "bank"})
    /\ handler.stage > 0
    /\ IF Next6(handler.stage) = {}
       THEN handler' = Finished /\ UNCHANGED bankEvents
       ELSE LET s == Min(Next6(handler.stage))
                h == [handler EXCEPT !.stage = s + 1]
            IN  IF s = 4
                THEN /\ handler' = h
                     /\ \E e \in Events \ {Zero} :
                          /\ \A id \in Ids : bankEvents[id] # None => bankEvents[id].event # e
                          /\ bankEvents' = [bankEvents EXCEPT ![handler.id] =
                               [event |-> e, quote |-> Known.terms.quote,
                                bank |-> Known.terms.bank, receivedAt |-> now]]
                ELSE /\ handler' = Perform(h, StageKind[s], StageArg(s))
                     /\ UNCHANGED bankEvents
    /\ UNCHANGED <<contract, network, intents, actions, payments, consumed,
                   faults>>

-----------------------------------------------------------------------------
\* Requests.

NewRow(a, direction) ==
    [account |-> a, direction |-> direction, terms |-> None, chain |-> None,
     seen |-> 0, requested |-> FALSE, recovery |-> FALSE]

\* begin: a new intent without terms.
Begin(id, a, direction) ==
    /\ Idle
    /\ intents[id] = None
    /\ Current
    /\ intents' = [intents EXCEPT ![id] = NewRow(a, direction)]
    /\ UNCHANGED <<contract, network, actions, bankEvents, payments, consumed,
                   handler, faults>>

\* accept: terms and quote are fixed together, then the order advances.
\* Slip: the quote is not looked up as unconsumed.
Unconsumed_Ignored(q) == TRUE

Unconsumed(q) == consumed[q] = None

Accept(id, t) ==
    /\ Idle
    /\ intents[id] # None
    /\ intents[id].terms = None
    /\ t.recipient = intents[id].account
    /\ t.refundTo = intents[id].account
    /\ t.subject = SubjectOf[intents[id].account]
    /\ t.direction = intents[id].direction
    /\ t.direction = "deposit" <=> t.bank = Zero
    /\ 0 < t.amount /\ t.amount <= MaxAmount
    /\ t.deadline = Min({now + MaxOrderLifetime, PolicyValidUntil})
    /\ now < t.deadline
    /\ Unconsumed(t.quote)
    /\ consumed' = [consumed EXCEPT ![t.quote] = id]
    /\ intents' = [intents EXCEPT ![id].terms = t]
    /\ handler' = Advance(id, "advance")
    /\ UNCHANGED <<contract, network, actions, bankEvents, payments, faults>>

\* get, find, list and each order of tick.
Get(id) ==
    /\ Idle
    /\ intents[id] # None
    /\ intents[id].terms # None \/ OwnActions(id) # {}
    /\ handler' = Advance(id, "advance")
    /\ UNCHANGED <<contract, network, database, faults>>

\* submitProof of a proof generated at proofTime.
SubmitProof(id, proofTime) ==
    /\ Idle
    /\ intents[id] # None
    /\ ~Closed(id)
    /\ proofTime <= now
    /\ handler' = Perform(Advance(id, "proof"), "eligibility",
                          [subject |-> SubjectOf[intents[id].account],
                           proofTime |-> proofTime])
    /\ UNCHANGED <<contract, network, database, faults>>

\* simulateBank: advance, then ask for the bank's transfer, then advance.
SimulateBank(id) ==
    /\ Idle
    /\ intents[id] # None
    /\ intents[id].terms # None
    /\ handler' = Advance(id, "bank")
    /\ UNCHANGED <<contract, network, database, faults>>

BankAllowed ==
    /\ bankEvents[handler.id] = None
    /\ ~Row.recovery
    /\ Known # None
    /\ ~Terminal(Known)
    /\ Known.escrowed
    /\ Known.payout = None => Granted(handler.id) /\ BeforeDeadline
    /\ RecipientReady(Known)

Ask ==
    /\ ~Idle /\ handler.at = "ask"
    /\ IF BankAllowed
       THEN /\ intents' = [intents EXCEPT ![handler.id].requested = TRUE]
            /\ handler' = Advance(handler.id, "advance")
       ELSE handler' = None /\ UNCHANGED intents
    /\ UNCHANGED <<contract, network, actions, bankEvents, payments, consumed,
                   faults>>

\* refund: reconcile without sending anything again, read the order, then give
\* the tokens back unless the other leg is asked for or may still be.
RequestRefund(id) ==
    /\ Idle
    /\ intents[id] # None
    /\ intents[id].terms # None
    /\ handler' = [Advance(id, "refund") EXCEPT !.replay = FALSE]
    /\ UNCHANGED <<contract, network, database, faults>>

\* Slip: a transaction of the order may still be open.
RefundAllowed_InFlight ==
    /\ ~Row.recovery
    /\ bankEvents[handler.id] = None
    /\ Known # None
    /\ Untouched(Known)

RefundAllowed ==
    /\ ~Row.recovery
    /\ bankEvents[handler.id] = None
    /\ Known # None
    /\ Untouched(Known)
    /\ OwnActions(handler.id) \cap Unresolved = {}

GiveBack ==
    /\ Deciding({"refund"})
    /\ IF RefundAllowed
       THEN /\ intents' = [intents EXCEPT ![handler.id].requested = FALSE]
            /\ handler' = Perform([handler EXCEPT !.op = "closing"],
                            IF IsWithdrawal(Known) THEN "refund" ELSE "cancel",
                            None)
       ELSE handler' = None /\ UNCHANGED intents
    /\ UNCHANGED <<contract, network, actions, bankEvents, payments, consumed,
                   faults>>

-----------------------------------------------------------------------------
\* Payments.

\* The intent a payment's memo names.
Named(p) == IF p.memo # None /\ intents[p.memo] # None THEN p.memo ELSE None

\* The payment is the one the confirmed withdrawal waits for.
\* Slip: a second exact payment is taken as well.
Matches_Again(p, id) ==
    /\ id # None
    /\ intents[id].direction = "withdrawal"
    /\ intents[id].chain # None
    /\ p.from = intents[id].account
    /\ p.amount = intents[id].terms.amount
    /\ intents[id].chain.createdAt <= p.at
    /\ p.at < intents[id].terms.deadline
    /\ ~Closed(id)

Matches(p, id) ==
    /\ id # None
    /\ intents[id].direction = "withdrawal"
    /\ intents[id].chain # None
    /\ p.from = intents[id].account
    /\ p.amount = intents[id].terms.amount
    /\ intents[id].chain.createdAt <= p.at
    /\ p.at < intents[id].terms.deadline
    /\ ~Closed(id)
    /\ Accepted(id) = {}
    /\ intents[id].chain.funding = None

\* The exact payment of the order is known: another changes nothing.
Canonical(id) ==
    \/ Accepted(id) # {}
    \/ intents[id].chain # None /\ (intents[id].chain.funding # None \/ Closed(id))

\* ingest, one payment of the page: a verdict on it and the cursor after it
\* are saved together.  The owner's own wrong payment stops the order.
Ingest ==
    /\ Idle
    /\ Len(payments) < Len(feed)
    /\ LET p == feed[Len(payments) + 1]
           id == Named(p)
       IN  /\ payments' = Append(payments, [intent |-> id, accepted |-> Matches(p, id)])
           /\ intents' =
                IF /\ id # None
                   /\ ~Matches(p, id)
                   /\ ~Canonical(id)
                   /\ p.from = intents[id].account
                THEN [intents EXCEPT ![id].recovery = TRUE]
                ELSE intents
    /\ UNCHANGED <<contract, network, actions, bankEvents, consumed, handler,
                   faults>>

-----------------------------------------------------------------------------

\* An answer that never comes, or a restart of the process.
Drop ==
    /\ ~Idle
    /\ Fault
    /\ handler' = None
    /\ UNCHANGED <<contract, network, database>>

SystemInit ==
    /\ Init
    /\ net = <<>>
    /\ past = [id \in Ids |-> <<None>>]
    /\ feed = <<>>
    /\ intents = [id \in Ids |-> None]
    /\ actions = <<>>
    /\ bankEvents = [id \in Ids |-> None]
    /\ payments = <<>>
    /\ consumed = [q \in Quotes |-> None]
    /\ handler = None
    /\ faults = 0

Handling ==
    \/ Query \/ Send \/ Sent \/ Prepare \/ ProofDone
    \/ (Reconciled /\ SyncSome)
    \/ Begun \/ Work \/ Ask \/ GiveBack

Request(id) ==
    \/ \E a \in Customers, d \in {"deposit", "withdrawal"} : Begin(id, a, d)
    \/ \E t \in Terms : Accept(id, t)
    \/ Get(id)
    \/ \E proofTime \in ProofTimes : SubmitProof(id, proofTime)
    \/ SimulateBank(id)
    \/ RequestRefund(id)

SystemNext ==
    \/ Handling
    \/ \E id \in Ids : Request(id)
    \/ Ingest
    \/ Drop
    \/ \E n \in DOMAIN actions : Include(n)
    \/ \E memo \in Memos, a \in Accounts, amount \in ClassicAmounts :
          PayIn(memo, a, amount)
    \/ \E id \in Ids : OutsideSettle(id)
    \/ Environment

SystemSpec == SystemInit /\ [][SystemNext]_system

-----------------------------------------------------------------------------
\* Properties.

\* The tables and the network hold values of their types.
SystemTypeOK ==
    /\ TypeOK
    /\ DOMAIN net = DOMAIN actions
    /\ intents \in [Ids -> Option(IntentType)]
    /\ \A n \in DOMAIN actions :
          /\ actions[n].intent \in Ids
          /\ actions[n].kind \in Kinds
          /\ actions[n].status \in {"prepared", "pending", "success", "failed"}
          /\ actions[n].expires \in Nat
          /\ net[n].status \in {"unsent", "sent", "success", "failed"}
    /\ bankEvents \in [Ids -> Option(ReceiptType)]
    /\ consumed \in [Quotes -> Option(Ids)]
    /\ Len(payments) <= Len(feed)
    /\ faults \in 0..MaxFaults

\* At most one transaction of the whole journal is open, so no call is made
\* while another may still take effect.
OneInFlight == \A m, n \in Unresolved : m = n

\* What the journal says of a transaction is what happened to it, for good: a
\* transaction given up can never be included afterwards.
VerdictsFinal ==
    \A n \in DOMAIN actions :
        /\ actions[n].status = "success" => net[n].status = "success"
        /\ actions[n].status = "failed" =>
              \/ net[n].status = "failed"
              \/ net[n].status # "success" /\ now > actions[n].expires

\* A payout is authorized only while the customer's request for it stands: a
\* refund never clears the request of an authorization that can take effect.
PayoutRequested ==
    \A id \in Ids :
        Exists(id) /\ Authorized(orders[id]) => intents[id].requested

\* The bank pays a withdrawal only on a promise of the contract that binds its
\* tokens, and the contract records no receipt but that of the one transfer.
BankOnObligation ==
    \A id \in Ids :
        /\ bankEvents[id] # None =>
              /\ Exists(id)
              /\ IsWithdrawal(orders[id]) =>
                    /\ Authorized(orders[id])
                    /\ orders[id].refundedAt = None
        /\ Exists(id) /\ orders[id].receipt # None =>
              orders[id].receipt = bankEvents[id]

\* Tokens are swept into the vault only for the one payment of the customer,
\* exact and in time, that was accepted for the order.
SweepsArePaid ==
    \A id \in Ids :
        /\ Cardinality(Accepted(id)) <= 1
        /\ Exists(id) /\ orders[id].funding # None =>
              LET k == orders[id].funding.op IN
              /\ k \in Accepted(id)
              /\ feed[k].memo = id
              /\ feed[k].from = orders[id].terms.recipient
              /\ feed[k].amount = orders[id].terms.amount
              /\ feed[k].at < orders[id].terms.deadline

\* A firm quote fixes the terms of one intent.
QuoteServesOne ==
    \A q \in Quotes :
        Cardinality({id \in Ids : /\ intents[id] # None
                                 /\ intents[id].terms # None
                                 /\ intents[id].terms.quote = q}) <= 1

\* The copy of an order only moves forward through the states the order had,
\* however stale the answers are.
CopyFollowsOrder ==
    [][\A id \in Ids : intents[id] # None =>
         /\ intents'[id].seen >= intents[id].seen
         /\ intents'[id].seen > 0 =>
              intents'[id].chain = past'[id][intents'[id].seen]]_system

\* The bank is asked for nothing once the journal knows the order was given
\* back.
NoTransferAfterGivingBack ==
    [][\A id \in Ids : bankEvents'[id] # bankEvents[id] =>
         \A n \in OwnActions(id) :
            actions[n].kind \in {"refund", "cancel"} =>
                actions[n].status # "success"]_system

\* An order is given back only while the bank was asked for nothing.  The
\* message to the customer (src/sep-anchor.ts:594): "Exact escrow may be
\* refunded or the unused deposit reservation cancelled before any bank
\* obligation."
CancelledBeforeBank ==
    [][\A id \in Ids :
         (Exists(id) /\ orders'[id].cancelledAt # orders[id].cancelledAt)
             => bankEvents[id] = None]_system

\* The loop of server.ts calls tick again and again, a request that awaits
\* goes on, and the network includes what it is sent.
FairSystem ==
    /\ SystemSpec
    /\ WF_system(Handling)
    /\ WF_system(\E n \in DOMAIN actions : Include(n))
    /\ SF_system(Ingest)
    /\ \A id \in Ids : SF_system(Get(id))

\* A promised payout is paid and settles, through lost calls and restarts.
PayoutCompletes ==
    \A id \in Ids :
        (Exists(id) /\ Authorized(orders[id])) ~>
            (Exists(id) /\ orders[id].settledAt # None)

\* An accepted payment is swept into the vault, unless an operator must look
\* at another payment of that customer.
PaymentSwept ==
    \A id \in Ids :
        (Accepted(id) # {}) ~>
            \/ Exists(id) /\ orders[id].funding # None
            \/ intents[id] # None /\ intents[id].recovery

=============================================================================
