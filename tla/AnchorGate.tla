----------------------------- MODULE AnchorGate -----------------------------
(***************************************************************************)
(* The older coordinator (src/anchor-gate.ts behind routes/anchor-gate.ts  *)
(* and anchor-gate-rpc.ts) driving the anchor-gate contract (GateVault).   *)
(*                                                                         *)
(* POST requests queue for one lock; GET requests do not, and reconcile    *)
(* the same journal: they may write a status they learned long ago over    *)
(* one written since.  A request is a record in `requests`; one action is  *)
(* what it does between two awaits.  The server's clock is off the         *)
(* ledger's by `skew`.                                                     *)
(*                                                                         *)
(* Abstractions.  An envelope and its hash are its place in the journal;   *)
(* the pinned configuration does not change; the sanctions precheck passes *)
(* or the request is dropped; the unread copy chain_json is left out.      *)
(***************************************************************************)
EXTENDS GateVault, Sequences

CONSTANTS
    Quotes,          \* the firm quotes on record
    Offer,           \* [Quotes -> an order's direction, recipient, bank, amount]
    QuoteExpires,    \* when the quotes expire
    EventOf,         \* [Ids -> Events], the hash that names an order's bank event
    TxLifetime,      \* how long a prepared transaction may be included
    Skews,           \* how far the server's clock may be ahead of the ledger's
    MaxActions,      \* bound on the journal
    MaxProofs,       \* bound on prepared proofs
    MaxFaults        \* bound on disturbances: GET requests, crashes, lost
                     \* calls, failed transactions, and changes of the
                     \* verifier and of trustlines

\* The terms of an order for a quote.
TermsOf(q, deadline) ==
    [direction |-> Offer[q].direction, bank |-> Offer[q].bank,
     recipient |-> Offer[q].recipient, amount |-> Offer[q].amount,
     deadline |-> deadline]

RowType == [quote : Quotes, terms : Terms, receipt : Option(ReceiptType)]

\* An order's terms are the provider's to submit; the server's clock is behind
\* the ledger's by less than an order lives (time 0 is not the beginning).
ASSUME CoordinatorAssumption ==
    /\ \A q \in Quotes, d \in 1..PolicyValidUntil : TermsOf(q, d) \in Terms
    /\ EventOf \in [Ids -> Events]
    /\ TxLifetime \in Nat
    /\ \A s \in Skews : s \in Int /\ 0 < s + MaxOrderLifetime
    /\ None \notin Quotes \cup RowType

VARIABLES
    rows,       \* table anchor_gate_orders
    actions,    \* table anchor_gate_actions_v2, the journal
    credits,    \* table anchor_gate_bank_credits: when an order was credited
    consumed,   \* quotes.consumed_by
    net,        \* what the network did with each transaction of the journal
    requests, skew, faults

database == <<rows, actions, credits, consumed>>
system == <<gateVars, database, net, requests, skew, faults>>

\* The server's clock; at the last instant of the model the clocks agree, for
\* no later one follows in which a receipt from the future could be recorded.
clock == Least(now + skew, MaxTime)

Open(n)     == actions[n].status \in {"prepared", "pending"}
Own(id)     == {n \in DOMAIN actions : actions[n].order = id}
OpenOwn(id) == {n \in Own(id) : Open(n)}
First(S)    == CHOOSE n \in S : \A m \in S : n <= m
Last(S)     == CHOOSE n \in S : \A m \in S : n >= m
\* The table's partial unique index: another open action of an order's kind.
Clashes(id, kind, n) == \E m \in OpenOwn(id) \ {n} : actions[m].kind = kind
Fault       == faults < MaxFaults /\ faults' = faults + 1

-----------------------------------------------------------------------------
\* The network.

Takes(a) ==
    \/ a.kind = "create" /\ CreateOrder(a.order, a.arg)
    \/ a.kind = "prove" /\ ProveOrder(a.order, a.arg)
    \/ a.kind = "receipt" /\ RecordReceipt(a.order, a.arg)
    \/ a.kind = "authorize" /\ AuthorizePayout(a.order)
    \/ a.kind = "settle" /\ Settle(a.order)

\* The call finds its effect already there and succeeds without another.
Replays(a) ==
    /\ Exists(a.order)
    /\ LET o == orders[a.order] IN
       \/ a.kind = "create" /\ o.terms = a.arg
       \/ a.kind = "receipt" /\ o.receipt = a.arg
       \/ a.kind = "authorize" /\ Authorized(o)
       \/ a.kind = "settle" /\ o.settled

Accepts(a) == Replays(a) \/ ENABLED Takes(a)

\* A transaction that was sent is included before it expires.
Include(n) ==
    /\ net[n] = "sent"
    /\ now <= actions[n].expires
    /\ \/ /\ Takes(actions[n])
          /\ net' = [net EXCEPT ![n] = "success"]
          /\ UNCHANGED faults
       \/ /\ Replays(actions[n])
          /\ net' = [net EXCEPT ![n] = "success"]
          /\ UNCHANGED <<gateVars, faults>>
       \/ /\ IF Accepts(actions[n]) THEN Fault ELSE UNCHANGED faults
          /\ net' = [net EXCEPT ![n] = "failed"]
          /\ UNCHANGED gateVars
    /\ UNCHANGED <<database, requests, skew>>

\* A recipient may send a signed proof without the server.
CustomerSends(n) ==
    /\ actions[n].kind = "prove"
    /\ net[n] = "unsent"
    /\ net' = [net EXCEPT ![n] = "sent"]
    /\ UNCHANGED <<gateVars, database, requests, skew, faults>>

\* Slip: the RPC server's own word is written into the journal.
Answer_Raw(n) ==
    IF net[n] \in {"success", "failed"} THEN net[n] ELSE "not_found"

\* Slip: an unknown transaction is given up although it may yet be included.
Answer_GivesUp(n) == IF net[n] \in {"success", "failed"} THEN net[n] ELSE "failed"

\* transaction: what the RPC server tells of a journaled transaction, given
\* its time bounds; the history is long enough.
Answer(n) ==
    IF net[n] \in {"success", "failed"} THEN net[n]
    ELSE IF now > actions[n].expires THEN "failed" ELSE "pending"

-----------------------------------------------------------------------------
\* A request.  `pc` is the await it is at, `todo` the open actions it has yet
\* to ask about, `answer` what the network just said, `seen` the order it read
\* and `n` the journal entry it works on.

Mutations == {"create", "prepare", "submit", "bank", "authorize", "settle"}

Request(op, id, arg) ==
    [op |-> op, id |-> id, arg |-> arg, pc |-> "reconcile",
     todo |-> OpenOwn(id), answer |-> None, seen |-> None, n |-> 0]

\* pendingMutation: one POST request at a time.
Turn(op) == op \in Mutations => \A r \in requests : r.op \notin Mutations

Start(r) ==
    /\ Turn(r.op)
    /\ IF r.op \in Mutations THEN UNCHANGED faults ELSE Fault
    /\ requests' = requests \cup {r}
    /\ UNCHANGED <<gateVars, database, net, skew>>

Becomes(r, s) == requests' = (requests \ {r}) \cup {s}
Ends(r)       == requests' = requests \ {r}

\* get and proofRequest; without an open action they only read.
Get(id) == OpenOwn(id) # {} /\ Start(Request("get", id, None))

\* prepareProof with a proof made at proofTime for the order's challenge
PrepareProof(id, proofTime) ==
    /\ rows[id] # None /\ proofTime <= now
    /\ Start(Request("prepare", id, proofTime))

\* submitProof of a prepared action, signed by the recipient
SubmitProof(id, n) ==
    /\ n \in Own(id) /\ actions[n].kind = "prove"
    /\ Start(Request("submit", id, n))

SimulateBank(id) == rows[id] # None /\ Start(Request("bank", id, None))
Authorize(id)    == rows[id] # None /\ Start(Request("authorize", id, None))
RequestSettle(id) == rows[id] # None /\ Start(Request("settle", id, None))

\* create for the quote: an order that has the same idempotency key is looked
\* up and reconciled, a new one first reads the configuration and its clock.
Create(id, quote) ==
    IF rows[id] # None
    THEN rows[id].quote = quote /\ Start(Request("create", id, quote))
    ELSE Start([Request("create", id, quote)
                    EXCEPT !.pc = "reserve", !.seen = now])

\* The transaction of create: fix the terms by the quote, and consume it.
Reserves(r) ==
    LET ledgerTime == r.seen
        start    == Least(clock, ledgerTime)
        deadline == Least(start + MaxOrderLifetime, PolicyValidUntil)
        terms    == TermsOf(r.arg, deadline)
    IN /\ r.pc = "reserve"
       /\ IF /\ rows[r.id] = None
             /\ consumed[r.arg] = None
             /\ clock < deadline
             /\ clock < QuoteExpires
             /\ terms.amount <= MaxAmount
          THEN /\ rows' = [rows EXCEPT ![r.id] =
                             [quote |-> r.arg, terms |-> terms, receipt |-> None]]
               /\ consumed' = [consumed EXCEPT ![r.arg] = r.id]
               /\ Becomes(r, Request("create", r.id, r.arg))
          ELSE Ends(r) /\ UNCHANGED <<rows, consumed>>
       /\ UNCHANGED <<gateVars, actions, credits, net, skew, faults>>

\* reconcile asks about each action that was open when it began, one by one.
Asks(r) ==
    /\ r.pc = "reconcile" /\ r.todo # {} /\ r.answer = None
    /\ Becomes(r, [r EXCEPT !.answer = Answer(First(r.todo))])
    /\ UNCHANGED <<gateVars, database, net, skew, faults>>

\* A status is written whatever the action's status is by now; the index
\* refuses to reopen an action beside another open one.
Refused(n, status) ==
    status = "pending" /\ Clashes(actions[n].order, actions[n].kind, n)
Written(n, status) ==
    actions' = IF Refused(n, status) THEN actions
               ELSE [actions EXCEPT ![n].status = status]

\* reconcile writes what it learned.  A GET request ends with the last action:
\* it replies with the order as it is.
Notes(r) ==
    LET n    == First(r.todo)
        rest == r.todo \ {n}
    IN
    /\ r.pc = "reconcile" /\ r.answer # None
    /\ Written(n, r.answer)
    /\ IF Refused(n, r.answer) \/ (r.op = "get" /\ rest = {}) THEN Ends(r)
       ELSE Becomes(r, [r EXCEPT !.todo = rest, !.answer = None])
    /\ UNCHANGED <<gateVars, rows, credits, consumed, net, skew, faults>>

\* chainOrder reads the order.
Looks(r) ==
    /\ r.pc = "reconcile" /\ r.todo = {}
    /\ Becomes(r, [r EXCEPT !.seen = orders[r.id], !.pc = "decide"])
    /\ UNCHANGED <<gateVars, database, net, skew, faults>>

-----------------------------------------------------------------------------
\* What each request decides about the order it saw, by the server's clock.

Live(o)     == o # None /\ ~o.settled /\ clock < o.terms.deadline
CanProve(o) == Live(o) /\ (IsDeposit(o) \/ ~Authorized(o))
SeenEligible(o) == o.eligibleUntil # None /\ clock < o.eligibleUntil

\* Slip: lira are sent for escrowed tokens that nothing was promised for.
BankReady_Unpromised(o) ==
    /\ o # None
    /\ IF IsDeposit(o) THEN Live(o) /\ SeenEligible(o) ELSE o.escrowed
    /\ o.createdAt <= clock

\* simulateBank may take or send lira for an order without a saved receipt.
BankReady(o) ==
    /\ o # None
    /\ IF IsDeposit(o)
       THEN Live(o) /\ SeenEligible(o) /\ o.createdAt <= clock
       ELSE o.payout # None /\ o.escrowed /\ o.payout <= clock

\* The operator's call for which the request goes on, if any.
Wants(r, kind) ==
    LET o == r.seen IN
    \/ r.op = "create" /\ kind = "create" /\ o = None
    \/ /\ r.op = "bank" /\ kind = "receipt"
       /\ o # None => o.receipt = None /\ ~o.settled
       /\ rows[r.id].receipt # None \/ BankReady(o)
    \/ /\ r.op = "authorize" /\ kind = "authorize"
       /\ Live(o) /\ ~IsDeposit(o) /\ ~Authorized(o)
       /\ o.escrowed /\ SeenEligible(o)
    \/ /\ r.op = "settle" /\ kind = "settle"
       /\ o # None /\ ~o.settled /\ o.receipt # None
       /\ IF IsDeposit(o) THEN Live(o) /\ SeenEligible(o)
          ELSE Authorized(o) /\ o.escrowed
    \/ /\ r.op = "prepare" /\ kind = "prove"
       /\ CanProve(o) /\ \A n \in OpenOwn(r.id) : actions[n].kind # "prove"

\* The tables of the simulated bank, written together.
SaveReceipt(r, kind) ==
    IF kind = "receipt" /\ rows[r.id].receipt = None
    THEN /\ rows' = [rows EXCEPT ![r.id].receipt =
                       [event |-> EventOf[r.id], bank |-> r.seen.terms.bank,
                        receivedAt |-> clock]]
         /\ credits' = IF IsDeposit(r.seen) \/ credits[r.id] # None THEN credits
                       ELSE [credits EXCEPT ![r.id] = clock]
    ELSE UNCHANGED <<rows, credits>>

\* operatorAction: an open action of the kind is sent again, else one is made.
Decides(r) ==
    /\ r.pc = "decide"
    /\ r.op # "submit"
    /\ \/ \E kind \in {"create", "prove", "receipt", "authorize", "settle"} :
             LET again == {n \in OpenOwn(r.id) : actions[n].kind = kind} IN
             /\ Wants(r, kind)
             /\ SaveReceipt(r, kind)
             /\ IF again = {} \/ kind = "prove"
                THEN Becomes(r, [r EXCEPT !.pc = kind, !.seen = None])
                ELSE Becomes(r, [r EXCEPT !.pc = "send", !.seen = None,
                                          !.n = Last(again)])
       \/ /\ \A kind \in {"create", "prove", "receipt", "authorize", "settle"} :
                ~Wants(r, kind)
          /\ Ends(r)
          /\ UNCHANGED <<rows, credits>>
    /\ UNCHANGED <<gateVars, actions, consumed, net, skew, faults>>

\* submitProof looks at the action again after it reconciled.
Submits(r) ==
    /\ r.pc = "decide"
    /\ r.op = "submit"
    /\ IF /\ actions[r.arg].status # "success"
          /\ CanProve(r.seen)
          /\ clock < actions[r.arg].expires
       THEN Becomes(r, [r EXCEPT !.pc = "send", !.seen = None, !.n = r.arg])
       ELSE Ends(r)
    /\ UNCHANGED <<gateVars, database, net, skew, faults>>

\* prepare: build and simulate the call, and journal it before it is sent; a
\* prepared proof goes to the recipient instead.
CallOf(r) ==
    LET arg == CASE r.pc = "create" -> rows[r.id].terms
                 [] r.pc = "prove" -> r.arg
                 [] r.pc = "receipt" -> rows[r.id].receipt
                 [] OTHER -> None
        limit == clock + TxLifetime
        expires == IF r.pc \in {"create", "prove"}
                   THEN Least(limit, rows[r.id].terms.deadline) ELSE limit
    IN [order |-> r.id, kind |-> r.pc, arg |-> arg, expires |-> expires,
        status |-> "prepared"]

Prepares(r) ==
    LET a == CallOf(r) IN
    /\ r.pc \in {"create", "prove", "receipt", "authorize", "settle"}
    /\ IF /\ Accepts(a)
          /\ a.kind = "prove" => clock < a.expires
          /\ ~Clashes(a.order, a.kind, 0)
       THEN /\ Len(actions) < MaxActions
            /\ a.kind = "prove" =>
                  Cardinality({n \in Own(r.id) : actions[n].kind = "prove"})
                      < MaxProofs
            /\ actions' = Append(actions, a)
            /\ net' = Append(net, "unsent")
            /\ IF a.kind = "prove" THEN Ends(r)
               ELSE Becomes(r, [r EXCEPT !.pc = "send", !.n = Len(actions) + 1])
       ELSE Ends(r) /\ UNCHANGED <<actions, net>>
    /\ UNCHANGED <<gateVars, rows, credits, consumed, skew, faults>>

\* submit: the envelope is sent, even again, and asked about at once; a call
\* that fails counts as pending.
Sends(r) ==
    /\ r.pc = "send"
    /\ \/ /\ net' = [net EXCEPT ![r.n] = IF @ = "unsent" THEN "sent" ELSE @]
          /\ UNCHANGED faults
       \/ net[r.n] = "unsent" /\ Fault /\ UNCHANGED net
    /\ \E answer \in {"pending"} \cup ({net[r.n]} \cap {"success", "failed"}) :
          Becomes(r, [r EXCEPT !.pc = "sent", !.answer = answer])
    /\ UNCHANGED <<gateVars, database, skew>>

\* The status is written; the order is read once more for the reply.
Sent(r) ==
    /\ r.pc = "sent"
    /\ Written(r.n, r.answer)
    /\ Ends(r)
    /\ UNCHANGED <<gateVars, rows, credits, consumed, net, skew, faults>>

\* An await fails, or the process restarts and forgets every request.
Drop ==
    /\ requests # {}
    /\ \/ \E r \in requests : Ends(r)
       \/ requests' = {}
    /\ Fault
    /\ UNCHANGED <<gateVars, database, net, skew>>

Handle(r) ==
    \/ Reserves(r) \/ Asks(r) \/ Notes(r) \/ Looks(r)
    \/ Decides(r) \/ Submits(r) \/ Prepares(r) \/ Sends(r) \/ Sent(r)

-----------------------------------------------------------------------------

Outside ==
    /\ \/ Tick /\ UNCHANGED faults
       \/ VerifierChange /\ Fault
       \/ (\E a \in Customers : TrustlineChange(a)) /\ Fault
       \/ (\E id \in Ids : Settle(id)) /\ UNCHANGED faults
    /\ UNCHANGED <<database, net, requests, skew>>

SystemInit ==
    /\ GateInit
    /\ rows = [id \in Ids |-> None]
    /\ actions = <<>>
    /\ credits = [id \in Ids |-> None]
    /\ consumed = [q \in Quotes |-> None]
    /\ net = <<>>
    /\ requests = {}
    /\ skew \in Skews
    /\ faults = 0

Requested ==
    \E id \in Ids :
        \/ \E q \in Quotes : Create(id, q)
        \/ Get(id)
        \/ \E proofTime \in 0..MaxTime : PrepareProof(id, proofTime)
        \/ \E n \in DOMAIN actions : SubmitProof(id, n)
        \/ SimulateBank(id)
        \/ Authorize(id)
        \/ RequestSettle(id)

SystemNext ==
    \/ Requested
    \/ \E r \in requests : Handle(r)
    \/ Drop
    \/ \E n \in DOMAIN net : Include(n) \/ CustomerSends(n)
    \/ Outside

SystemSpec == SystemInit /\ [][SystemNext]_system

-----------------------------------------------------------------------------
\* Properties.

\* The contract's storage and the coordinator's tables hold values of their
\* types, and the journal agrees with the network on how many entries it has.
CoordinatorTypeOK ==
    /\ GateTypeOK
    /\ rows \in [Ids -> Option(RowType)]
    /\ credits \in [Ids -> Option(Nat)]
    /\ consumed \in [Quotes -> Option(Ids)]
    /\ DOMAIN net = DOMAIN actions
    /\ \A n \in DOMAIN actions :
         /\ actions[n].status \in {"prepared", "pending", "success", "failed"}
         /\ net[n] \in {"unsent", "sent", "success", "failed"}

\* A final status in the journal tells what the network did, or will never
\* do, although requests write what they learned long ago over each other;
\* and no second transaction of an order's kind is made while the first may
\* still take effect.
MayTakeEffect(n) == net[n] \in {"unsent", "sent"} /\ now <= actions[n].expires
JournalSound ==
    /\ \A n \in DOMAIN actions :
         /\ actions[n].status = "success" => net[n] = "success"
         /\ actions[n].status = "failed" =>
              net[n] # "success" /\ ~MayTakeEffect(n)
    /\ \A m, n \in DOMAIN actions :
         (/\ m # n
          /\ actions[m].order = actions[n].order
          /\ actions[m].kind = actions[n].kind)
             => ~(MayTakeEffect(m) /\ MayTakeEffect(n))

\* The bank's books and the contract agree: lira are credited to a customer
\* only on a promise of the contract that stands, later than the promise, and
\* the contract knows no bank event but the one the server saved.
CreditBacked ==
    \A id \in Ids :
        /\ credits[id] # None =>
              /\ Exists(id) /\ Authorized(orders[id])
              /\ orders[id].escrowed \/ orders[id].settled
              /\ orders[id].payout <= credits[id]
              /\ rows[id].receipt.receivedAt = credits[id]
        /\ Exists(id) /\ orders[id].receipt # None =>
              rows[id].receipt = orders[id].receipt

\* A customer who keeps asking, a server that answers, a network that goes on.
\* (Ticks and inclusions are finitely many, so one condition serves both.)
Ledger ==
    \/ Tick /\ UNCHANGED <<database, net, requests, skew, faults>>
    \/ \E n \in DOMAIN net : Include(n)
FairSystem ==
    /\ SystemSpec
    /\ WF_system(Ledger)
    /\ WF_system(\E r \in requests : r.op \in Mutations /\ Handle(r))
    /\ \A id \in Ids : SF_system(SimulateBank(id)) /\ SF_system(RequestSettle(id))

\* A promised payout is received and settled, although proof, order and
\* policy expire, and calls, answers and requests are lost meanwhile.
PayoutDischarged ==
    \A id \in Ids :
        (Exists(id) /\ Authorized(orders[id])) ~> (Exists(id) /\ orders[id].settled)

=============================================================================
