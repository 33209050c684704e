--------------------------- MODULE AnchorGateProofs ---------------------------
(***************************************************************************)
(* The anchor-gate contract, what it guarantees and promises, and that it  *)
(* implements the escrow; the contract under its coordinator, where what   *)
(* is proved of it alone holds as well; and the coordinator's journal and  *)
(* the bank's books, which tell the truth about the network and the        *)
(* contract; for every set of orders, offers, requests and bounds.         *)
(***************************************************************************)
EXTENDS AnchorGate, Sums

-----------------------------------------------------------------------------
\* The contract.

\* Amounts are in the contract's range once an order exists.
Priced == \A id \in Ids : Exists(id) => Amount(id) \in 1..MaxAmount

\* The inductive invariant: that an order settles at most what is reserved
\* rests on its amount, and the index of events on the orders' custody.
GateInv == GateTypeOK /\ Priced /\ OrdersLawful /\ EventsServeOne /\ GateSolvent

LEMMA GatePresent ==
  ASSUME GateTypeOK, NEW id \in Ids, Exists(id)
  PROVE  orders[id] \in OrderType
  BY DEF GateTypeOK, Exists, Option

LEMMA GateTerms ==
  ASSUME GateTypeOK, NEW id \in Ids, Exists(id)
  PROVE  /\ orders[id].terms \in TermsType
         /\ orders[id].terms.recipient \in Accounts \ {Vault}
<1>1. orders[id].terms \in TermsType
  BY GatePresent, GateAssumption DEF OrderType
<1> QED
  BY <1>1, GateAssumption DEF TermsType, Accounts

LEMMA GateReserves ==
  ASSUME GateTypeOK, NEW amount \in Nat, NEW a \in Accounts \ {Vault},
         Reserve(a, amount)
  PROVE  /\ reserved' \in Nat
         /\ balance' \in [Accounts -> Nat]
         /\ balance'[Vault] >= reserved'
<1>1. Vault \in Accounts
  BY DEF Accounts
<1> QED
  BY <1>1 DEF GateTypeOK, Reserve, Move

-----------------------------------------------------------------------------
\* One call: the types, the order it writes, and the index of events.

\* The index of events stays right where receipts stay.
LEMMA IndexKept ==
  ASSUME EventsServeOne, receiptOf' = receiptOf, NEW id \in Ids,
         Exists(id), Exists(id)', orders'[id].receipt = orders[id].receipt,
         \A other \in Ids \ {id} : orders'[other] = orders[other]
  PROVE  EventsServeOne'
<1> SUFFICES ASSUME NEW e \in Events, NEW j \in Ids
             PROVE  receiptOf'[e] = j <=> /\ Exists(j)'
                                          /\ orders'[j].receipt # None
                                          /\ orders'[j].receipt.event = e
  BY DEF EventsServeOne, Exists
<1>1. receiptOf[e] = j <=> /\ Exists(j)
                           /\ orders[j].receipt # None
                           /\ orders[j].receipt.event = e
  BY DEF EventsServeOne
<1>2. CASE j = id
  BY <1>1, <1>2
<1>3. CASE j # id
  BY <1>1, <1>3 DEF Exists
<1> QED
  BY <1>2, <1>3

LEMMA CreateKeeps ==
  ASSUME GateInv, NEW id \in Ids, NEW t \in Terms, CreateOrder(id, t)
  PROVE  /\ GateTypeOK'
         /\ Lawful(orders[id])'
         /\ Amount(id)' \in 1..MaxAmount
         /\ EventsServeOne'
         /\ GateSolvent'
<1>1. /\ GateTypeOK /\ t \in TermsType /\ t.amount \in 1..MaxAmount
      /\ orders'[id] = NewOrder(t)
      /\ \A other \in Ids \ {id} : orders'[other] = orders[other]
  BY GateAssumption
  DEF GateInv, CreateOrder, ValidTerms, TermsType, GateTypeOK
<1>2. NewOrder(t) \in OrderType
  BY <1>1 DEF NewOrder, OrderType, Option, GateTypeOK
<1>3. Provider \in Accounts \ {Vault}
  BY GateAssumption DEF Accounts
<1>4. /\ reserved' \in Nat /\ balance' \in [Accounts -> Nat]
      /\ balance'[Vault] >= reserved'
  <2>1. CASE t.direction = "deposit"
    BY <1>1, <1>3, <2>1, GateReserves DEF CreateOrder
  <2>2. CASE t.direction # "deposit"
    BY <1>1, <2>2 DEF CreateOrder, GateInv, GateSolvent, Covered, GateTypeOK
  <2> QED
    BY <2>1, <2>2
<1>5. GateTypeOK'
  BY <1>1, <1>2, <1>4 DEF CreateOrder, GateTypeOK, Option
<1>6. Lawful(NewOrder(t))
  BY DEF NewOrder, Lawful, IsDeposit, Authorized
<1>7. EventsServeOne'
  <2>1. ~Exists(id) /\ receiptOf' = receiptOf /\ NewOrder(t).receipt = None
    BY DEF CreateOrder, NewOrder
  <2> QED
    BY <1>1, <2>1 DEF GateInv, EventsServeOne, Exists
<1>8. Amount(id)' = t.amount
  BY <1>1 DEF Amount, NewOrder
<1> QED
  BY <1>1, <1>4, <1>5, <1>6, <1>7, <1>8 DEF GateSolvent, Covered, Lawful, IsDeposit, Authorized

\* Until when a proof serves is a time, not past the order's deadline.
LEMMA EligibleUntilTyped ==
  ASSUME NEW o \in OrderType, NEW proofTime \in Nat
  PROVE  /\ EligibleUntil(o, proofTime) \in Nat
         /\ EligibleUntil(o, proofTime) <= o.terms.deadline
<1>1. o.terms.deadline \in Nat
  BY GateAssumption DEF OrderType, TermsType
<1> QED
  BY <1>1, GateAssumption DEF EligibleUntil, Least

LEMMA ProveKeeps ==
  ASSUME GateInv, NEW id \in Ids, NEW proofTime \in 0..MaxTime,
         ProveOrder(id, proofTime)
  PROVE  /\ GateTypeOK'
         /\ Lawful(orders[id])'
         /\ Amount(id)' \in 1..MaxAmount
         /\ EventsServeOne'
         /\ GateSolvent'
<1> DEFINE until == EligibleUntil(orders[id], proofTime)
           o == [orders[id] EXCEPT !.escrowed = TRUE, !.eligibleUntil = until]
<1>1. /\ GateTypeOK /\ Exists(id) /\ orders[id] \in OrderType
      /\ orders[id].terms \in TermsType
      /\ orders[id].terms.recipient \in Accounts \ {Vault}
      /\ Lawful(orders[id]) /\ Amount(id) \in 1..MaxAmount
  BY GatePresent, GateTerms DEF GateInv, ProveOrder, OrdersLawful, Priced
<1>2. until \in Nat /\ until <= orders[id].terms.deadline /\ until # None
  BY <1>1, EligibleUntilTyped, GateAssumption, AbsentAssumption
<1>3. /\ orders'[id] = o
      /\ \A other \in Ids \ {id} : orders'[other] = orders[other]
  BY <1>1 DEF ProveOrder, GateTypeOK
<1>4. o \in OrderType
  BY <1>1, <1>2 DEF OrderType, Option
<1>5. /\ o.terms = orders[id].terms /\ o.receipt = orders[id].receipt
      /\ o.payout = orders[id].payout /\ o.settled = orders[id].settled
      /\ o.escrowed /\ o.eligibleUntil = until
  BY <1>1 DEF OrderType
<1>6. /\ reserved' \in Nat /\ balance' \in [Accounts -> Nat]
      /\ balance'[Vault] >= reserved'
  <2>1. CASE Debited(orders[id])
    BY <1>1, <2>1, GateReserves, GateAssumption DEF ProveOrder
  <2>2. CASE ~Debited(orders[id])
    BY <1>1, <2>2 DEF ProveOrder, GateInv, GateSolvent, Covered, GateTypeOK
  <2> QED
    BY <2>1, <2>2
<1>7. GateTypeOK'
  <2>1. orders' \in [Ids -> Option(OrderType)]
    BY <1>1, <1>4 DEF ProveOrder, GateTypeOK, Option
  <2> QED
    BY <1>1, <1>6, <2>1 DEF ProveOrder, GateTypeOK
<1>8. Lawful(o)
  <2>1. ~orders[id].settled /\ orders[id].payout = None
    BY DEF ProveOrder, Provable, Authorized
  <2> QED
    BY <1>1, <1>2, <1>5, <2>1 DEF Lawful, IsDeposit, Authorized
<1>9. EventsServeOne'
  <2>1. Exists(id)'
    BY <1>3, <1>4, AbsentAssumption DEF Exists
  <2> QED
    BY <1>1, <1>3, <1>5, <2>1, IndexKept DEF GateInv, ProveOrder
<1> QED
  BY <1>1, <1>3, <1>5, <1>6, <1>7, <1>8, <1>9
  DEF GateSolvent, Covered, Lawful, IsDeposit, Authorized, Amount

LEMMA ReceiveKeeps ==
  ASSUME GateInv, NEW id \in Ids, NEW r \in Receipts, RecordReceipt(id, r)
  PROVE  /\ GateTypeOK'
         /\ Lawful(orders[id])'
         /\ Amount(id)' \in 1..MaxAmount
         /\ EventsServeOne'
         /\ GateSolvent'
<1> DEFINE o == [orders[id] EXCEPT !.receipt = r]
<1>1. /\ GateTypeOK /\ Exists(id) /\ orders[id] \in OrderType
      /\ Lawful(orders[id]) /\ Amount(id) \in 1..MaxAmount
  BY GatePresent DEF GateInv, RecordReceipt, OrdersLawful, Priced
<1>2. r \in ReceiptType /\ r # None
  BY GateAssumption, AbsentAssumption DEF Receipts, ReceiptType
<1>3. /\ orders'[id] = o
      /\ \A other \in Ids \ {id} : orders'[other] = orders[other]
  BY <1>1 DEF RecordReceipt, GateTypeOK
<1>4. /\ o \in OrderType
      /\ o.terms = orders[id].terms /\ o.eligibleUntil = orders[id].eligibleUntil
      /\ o.payout = orders[id].payout /\ o.settled = orders[id].settled
      /\ o.escrowed = orders[id].escrowed /\ o.receipt = r
  BY <1>1, <1>2 DEF OrderType, Option
<1>5. GateTypeOK'
  <2>1. /\ orders' \in [Ids -> Option(OrderType)]
        /\ receiptOf' \in [Events -> Option(Ids)]
    BY <1>1, <1>2, <1>4 DEF RecordReceipt, GateTypeOK, Option, ReceiptType
  <2> QED
    BY <1>1, <2>1 DEF RecordReceipt, GateTypeOK
<1>6. Lawful(o)
  <2>1. /\ orders[id].eligibleUntil # None /\ ~orders[id].settled
        /\ ~IsDeposit(orders[id]) =>
              Authorized(orders[id]) /\ orders[id].payout <= r.receivedAt
    BY DEF RecordReceipt, EarliestReceipt, Authorized
  <2> QED
    BY <1>1, <1>2, <1>4, <2>1 DEF Lawful, IsDeposit, Authorized
<1>7. EventsServeOne'
  <2>1. SUFFICES ASSUME NEW e \in Events, NEW j \in Ids
                 PROVE  receiptOf'[e] = j <=> /\ Exists(j)'
                                              /\ orders'[j].receipt # None
                                              /\ orders'[j].receipt.event = e
    BY DEF EventsServeOne, Exists
  <2>2. /\ receiptOf[e] = j <=> /\ Exists(j)
                                /\ orders[j].receipt # None
                                /\ orders[j].receipt.event = e
        /\ orders[id].receipt = None /\ receiptOf[r.event] = None
        /\ r.event \in Events /\ None \notin Ids
    BY <1>2, AbsentAssumption DEF GateInv, EventsServeOne, RecordReceipt, ReceiptType
  <2>3. receiptOf' = [receiptOf EXCEPT ![r.event] = id] /\ Exists(id)'
    BY <1>3, <1>4, AbsentAssumption DEF RecordReceipt, Exists
  <2>4. CASE j = id
    BY <1>1, <1>2, <1>3, <1>4, <2>2, <2>3, <2>4 DEF GateTypeOK
  <2>5. CASE j # id
    BY <1>1, <1>3, <2>2, <2>3, <2>5 DEF GateTypeOK, Exists
  <2> QED
    BY <2>4, <2>5
<1> QED
  BY <1>1, <1>3, <1>4, <1>5, <1>6, <1>7
  DEF RecordReceipt, GateInv, GateSolvent, Covered, Lawful, IsDeposit, Authorized, Amount

LEMMA PromiseKeeps ==
  ASSUME GateInv, NEW id \in Ids, AuthorizePayout(id)
  PROVE  /\ GateTypeOK'
         /\ Lawful(orders[id])'
         /\ Amount(id)' \in 1..MaxAmount
         /\ EventsServeOne'
         /\ GateSolvent'
<1> DEFINE o == [orders[id] EXCEPT !.payout = now]
<1>1. /\ GateTypeOK /\ Exists(id) /\ orders[id] \in OrderType
      /\ Lawful(orders[id]) /\ Amount(id) \in 1..MaxAmount
      /\ now \in Nat /\ now # None
  BY GatePresent, AbsentAssumption
  DEF GateInv, AuthorizePayout, OrdersLawful, Priced, GateTypeOK
<1>2. /\ orders'[id] = o
      /\ \A other \in Ids \ {id} : orders'[other] = orders[other]
  BY <1>1 DEF AuthorizePayout, GateTypeOK
<1>3. /\ o \in OrderType
      /\ o.terms = orders[id].terms /\ o.eligibleUntil = orders[id].eligibleUntil
      /\ o.receipt = orders[id].receipt /\ o.settled = orders[id].settled
      /\ o.escrowed = orders[id].escrowed /\ o.payout = now
  BY <1>1 DEF OrderType, Option
<1>4. GateTypeOK'
  <2>1. orders' \in [Ids -> Option(OrderType)]
    BY <1>1, <1>3 DEF AuthorizePayout, GateTypeOK, Option
  <2> QED
    BY <1>1, <2>1 DEF AuthorizePayout, GateTypeOK
<1>5. Lawful(o)
  <2>1. /\ orders[id].eligibleUntil # None /\ now < orders[id].eligibleUntil
        /\ now < orders[id].terms.deadline
        /\ orders[id].escrowed /\ ~orders[id].settled /\ orders[id].receipt = None
        /\ ~IsDeposit(orders[id])
    BY DEF AuthorizePayout, Eligible
  <2> QED
    BY <1>1, <1>3, <2>1 DEF Lawful, IsDeposit, Authorized
<1>6. EventsServeOne'
  <2>1. Exists(id)'
    BY <1>2, <1>3, AbsentAssumption DEF Exists
  <2> QED
    BY <1>1, <1>2, <1>3, <2>1, IndexKept DEF GateInv, AuthorizePayout
<1> QED
  BY <1>1, <1>2, <1>3, <1>4, <1>5, <1>6
  DEF AuthorizePayout, GateInv, GateSolvent, Covered, Lawful, IsDeposit, Authorized, Amount

LEMMA SettleKeeps ==
  ASSUME GateInv, NEW id \in Ids, Settle(id)
  PROVE  /\ GateTypeOK'
         /\ Lawful(orders[id])'
         /\ Amount(id)' \in 1..MaxAmount
         /\ EventsServeOne'
         /\ GateSolvent'
<1> DEFINE o == [orders[id] EXCEPT !.settled = TRUE, !.escrowed = FALSE]
<1>1. /\ GateTypeOK /\ Exists(id) /\ orders[id] \in OrderType
      /\ Lawful(orders[id]) /\ Amount(id) \in 1..MaxAmount
      /\ orders[id].terms.recipient \in Accounts \ {Vault}
  BY GatePresent, GateTerms DEF GateInv, Settle, OrdersLawful, Priced
<1>2. /\ orders'[id] = o
      /\ \A other \in Ids \ {id} : orders'[other] = orders[other]
  BY <1>1 DEF Settle, GateTypeOK
<1>3. /\ o \in OrderType
      /\ o.terms = orders[id].terms /\ o.eligibleUntil = orders[id].eligibleUntil
      /\ o.receipt = orders[id].receipt /\ o.payout = orders[id].payout
      /\ o.settled /\ ~o.escrowed
  BY <1>1 DEF OrderType
<1>4. /\ Beneficiary(orders[id]) \in Accounts \ {Vault}
      /\ Vault \in Accounts
  BY <1>1, GateAssumption DEF Beneficiary, Accounts
<1>5. /\ reserved' \in Nat /\ balance' \in [Accounts -> Nat]
      /\ balance'[Vault] >= reserved'
  BY <1>1, <1>4, GateAssumption DEF Settle, Move, Covered, GateTypeOK
<1>6. GateTypeOK'
  <2>1. orders' \in [Ids -> Option(OrderType)]
    BY <1>1, <1>3 DEF Settle, GateTypeOK, Option
  <2> QED
    BY <1>1, <1>5, <2>1 DEF Settle, GateTypeOK
<1>7. Lawful(o)
  BY <1>1, <1>3 DEF Settle, SettleReady, Lawful, IsDeposit, Authorized
<1>8. EventsServeOne'
  <2>1. Exists(id)'
    BY <1>2, <1>3, AbsentAssumption DEF Exists
  <2> QED
    BY <1>1, <1>2, <1>3, <2>1, IndexKept DEF GateInv, Settle
<1> QED
  BY <1>1, <1>2, <1>3, <1>5, <1>6, <1>7, <1>8
  DEF GateSolvent, Covered, Lawful, IsDeposit, Authorized, Amount

-----------------------------------------------------------------------------
\* The invariant is inductive.

LEMMA GateInitInv == GateInit => GateInv
<1> SUFFICES ASSUME GateInit PROVE GateInv
  OBVIOUS
<1>1. GateTypeOK
  BY GateAssumption DEF GateInit, GateTypeOK, Option, Accounts
<1>2. Priced /\ OrdersLawful /\ EventsServeOne
  BY AbsentAssumption DEF GateInit, Priced, OrdersLawful, EventsServeOne, Exists
<1>3. GateSolvent
  BY GateAssumption DEF GateInit, GateSolvent, Covered, Accounts
<1> QED
  BY <1>1, <1>2, <1>3 DEF GateInv

LEMMA CallWritesOne ==
  ASSUME GateTypeOK, NEW id \in Ids, GateCall(id)
  PROVE  \A other \in Ids \ {id} : orders'[other] = orders[other]
  BY DEF GateCall, CreateOrder, ProveOrder, RecordReceipt, AuthorizePayout, Settle, GateTypeOK

LEMMA CallKeepsInv ==
  ASSUME GateInv, NEW id \in Ids, GateCall(id)
  PROVE  GateInv'
<1>1. /\ GateTypeOK'
      /\ Lawful(orders[id])'
      /\ Amount(id)' \in 1..MaxAmount
      /\ EventsServeOne'
      /\ GateSolvent'
  BY CreateKeeps, ProveKeeps, ReceiveKeeps, PromiseKeeps, SettleKeeps DEF GateCall
<1>2. \A other \in Ids \ {id} : orders'[other] = orders[other]
  BY CallWritesOne DEF GateInv
<1>3. OrdersLawful'
  <2> SUFFICES ASSUME NEW j \in Ids, Exists(j)' PROVE Lawful(orders[j])'
    BY DEF OrdersLawful, Exists
  <2>1. CASE j = id
    BY <1>1, <2>1
  <2>2. CASE j # id
    BY <1>2, <2>2 DEF GateInv, OrdersLawful, Exists, Lawful, IsDeposit, Authorized
  <2> QED
    BY <2>1, <2>2
<1>4. Priced'
  <2> SUFFICES ASSUME NEW j \in Ids, Exists(j)' PROVE Amount(j)' \in 1..MaxAmount
    BY DEF Priced, Exists, Amount
  <2>1. CASE j = id
    BY <1>1, <2>1
  <2>2. CASE j # id
    BY <1>2, <2>2 DEF GateInv, Priced, Exists, Amount
  <2> QED
    BY <2>1, <2>2
<1> QED
  BY <1>1, <1>3, <1>4 DEF GateInv

LEMMA WorldKeepsInv ==
  ASSUME GateInv, World \/ UNCHANGED gateVars
  PROVE  GateInv'
<1>1. UNCHANGED <<orders, receiptOf, reserved, balance>>
  BY DEF World, Tick, VerifierChange, TrustlineChange, gateVars
<1>2. GateTypeOK
  BY DEF GateInv
<1>3. now' \in Nat
  BY <1>2 DEF GateTypeOK, World, Tick, VerifierChange, TrustlineChange, gateVars
<1>4. verifierOk' \in BOOLEAN
  <2>1. CASE verifierOk' = verifierOk
    BY <1>2, <2>1 DEF GateTypeOK
  <2>2. CASE VerifierChange
    BY <2>2, Zenon DEF VerifierChange
  <2> QED
    BY <2>1, <2>2 DEF World, Tick, TrustlineChange, gateVars
<1>5. blocked' \in SUBSET Customers
  <2>1. CASE blocked' = blocked
    BY <1>2, <2>1 DEF GateTypeOK
  <2>2. ASSUME NEW a \in Customers, TrustlineChange(a)
        PROVE  blocked' \in SUBSET Customers
    <3>1. blocked \ {a} \in SUBSET Customers /\ blocked \cup {a} \in SUBSET Customers
      BY <1>2 DEF GateTypeOK
    <3> QED
      BY <2>2, <3>1 DEF TrustlineChange
  <2> QED
    BY <2>1, <2>2 DEF World, Tick, VerifierChange, gateVars
<1>6. GateTypeOK'
  BY <1>1, <1>2, <1>3, <1>4, <1>5 DEF GateTypeOK
<1> QED
  BY <1>1, <1>6
  DEF GateInv, Priced, OrdersLawful, EventsServeOne, GateSolvent, Covered,
      Exists, Amount, Lawful, IsDeposit, Authorized

LEMMA GateNextInv == GateInv /\ [GateNext]_gateVars => GateInv'
  BY CallKeepsInv, WorldKeepsInv DEF GateNext

LEMMA GateSpecInv == GateSpec => []GateInv
  BY GateInitInv, GateNextInv, PTL DEF GateSpec

\* Every storage entry keeps its type, whatever orders, terms and policy.
THEOREM GateTypeCorrect == GateSpec => []GateTypeOK
  BY GateSpecInv, PTL DEF GateInv

\* The vault holds what it reserves.
THEOREM GateStaysSolvent == GateSpec => []GateSolvent
  BY GateSpecInv, PTL DEF GateInv

\* An order's custody, promise and outcome agree.
THEOREM GateOrdersLawful == GateSpec => []OrdersLawful
  BY GateSpecInv, PTL DEF GateInv

\* A bank event serves one order.
THEOREM GateEventsServeOne == GateSpec => []EventsServeOne
  BY GateSpecInv, PTL DEF GateInv

-----------------------------------------------------------------------------
\* The contract implements the escrow, and never takes the escrow's way back.

Phase == [id \in Ids |-> Standing(id)]
Size  == [id \in Ids |-> IF Exists(id) THEN Amount(id) ELSE 0]
escrowVars == <<Phase, Size, reserved>>

\* A call moves its own order's phase, and keeps the sizes of orders' terms.
LEMMA OneStandingMoves ==
  ASSUME NEW id \in Ids,
         \A other \in Ids \ {id} : orders'[other] = orders[other]
  PROVE  /\ Phase' = [Phase EXCEPT ![id] = Standing(id)']
         /\ (Exists(id) /\ Exists(id)' /\ orders'[id].terms = orders[id].terms)
              => Size' = Size
<1>1. \A other \in Ids \ {id} : Standing(other)' = Standing(other)
  BY DEF Standing, Exists, Authorized
<1>2. Phase' = [Phase EXCEPT ![id] = Standing(id)']
  BY <1>1 DEF Phase
<1>3. ASSUME Exists(id), Exists(id)', orders'[id].terms = orders[id].terms
      PROVE  Size' = Size
  BY <1>3 DEF Size, Exists, Amount
<1> QED
  BY <1>2, <1>3

\* What a call that rewrites one field of an existing order leaves of it.
LEMMA Rewritten ==
  ASSUME GateTypeOK, NEW id \in Ids, Exists(id), NEW o \in OrderType,
         o.terms = orders[id].terms, orders' = [orders EXCEPT ![id] = o]
  PROVE  /\ orders'[id] = o /\ Exists(id)'
         /\ Phase' = [Phase EXCEPT ![id] = Standing(id)']
         /\ Phase[id] = Standing(id)
         /\ Size' = Size /\ Size[id] = Amount(id)
<1>1. /\ orders'[id] = o
      /\ \A other \in Ids \ {id} : orders'[other] = orders[other]
  BY DEF GateTypeOK
<1>2. Exists(id)'
  BY <1>1, AbsentAssumption DEF Exists
<1> QED
  BY <1>1, <1>2, OneStandingMoves DEF Phase, Size

LEMMA CreateOpens ==
  ASSUME GateInv, NEW id \in Ids, NEW t \in Terms, CreateOrder(id, t)
  PROVE  E!Open(id, t.amount) \/ E!OpenHeld(id, t.amount)
<1>1. /\ GateTypeOK /\ GateTypeOK' /\ ~Exists(id)
      /\ orders'[id] = NewOrder(t)
      /\ \A other \in Ids \ {id} : orders'[other] = orders[other]
  BY CreateKeeps, CallWritesOne DEF GateInv, CreateOrder, GateTypeOK, GateCall
<1>2. /\ Exists(id)' /\ ~orders'[id].settled
      /\ ~Authorized(orders'[id]) /\ orders'[id].receipt = None
      /\ orders'[id].escrowed = (t.direction = "deposit")
      /\ Amount(id)' = t.amount
  <2>1. Exists(id)'
    <3>1. NewOrder(t) \in OrderType
      BY <1>1 DEF NewOrder, OrderType, Option, GateTypeOK
    <3> QED
      BY <1>1, <3>1, AbsentAssumption DEF Exists
  <2> QED
    BY <1>1, <2>1 DEF NewOrder, Authorized, Amount
<1>3. Phase' = [Phase EXCEPT ![id] = Standing(id)'] /\ Phase[id] = "none"
  BY <1>1, OneStandingMoves DEF Phase, Standing
<1>4. Size' = [Size EXCEPT ![id] = t.amount]
  BY <1>1, <1>2 DEF Size, Exists, Amount
<1>5. CASE t.direction = "deposit"
  <2>1. Standing(id)' = "held"
    BY <1>2, <1>5 DEF Standing
  <2> QED
    BY <1>3, <1>4, <1>5, <2>1
    DEF E!OpenHeld, E!Step, Phase, Size, CreateOrder, Reserve
<1>6. CASE t.direction # "deposit"
  <2>1. Standing(id)' = "open"
    BY <1>2, <1>6 DEF Standing
  <2> QED
    BY <1>3, <1>4, <1>6, <2>1 DEF E!Open, E!Step, Phase, Size, CreateOrder
<1> QED
  BY <1>5, <1>6

\* The first proof of a withdrawal takes its tokens into custody; any other
\* proof only renews the eligibility.
LEMMA ProveHolds ==
  ASSUME GateInv, NEW id \in Ids, NEW proofTime \in 0..MaxTime,
         ProveOrder(id, proofTime)
  PROVE  E!Hold(id) \/ UNCHANGED escrowVars
<1> DEFINE until == EligibleUntil(orders[id], proofTime)
           o == [orders[id] EXCEPT !.escrowed = TRUE, !.eligibleUntil = until]
<1>1. /\ GateTypeOK /\ Exists(id) /\ orders[id] \in OrderType
      /\ Lawful(orders[id]) /\ ~orders[id].settled /\ ~Authorized(orders[id])
  BY GatePresent DEF GateInv, ProveOrder, Provable, OrdersLawful
<1>2. until \in Nat
  BY <1>1, EligibleUntilTyped, GateAssumption
<1>3. o \in OrderType /\ o.terms = orders[id].terms
  BY <1>1, <1>2 DEF OrderType, Option
<1>4. orders' = [orders EXCEPT ![id] = o]
  BY <1>1 DEF ProveOrder, GateTypeOK
<1>5. /\ orders'[id] = o
      /\ Exists(id)'
      /\ Phase' = [Phase EXCEPT ![id] = Standing(id)']
      /\ Phase[id] = Standing(id)
      /\ Size' = Size /\ Size[id] = Amount(id)
  <2> HIDE DEF o
  <2> QED
    BY <1>1, <1>3, <1>4, Rewritten
<1>6. /\ ~o.settled /\ o.escrowed /\ ~Authorized(o)
      /\ o.receipt = orders[id].receipt
  BY <1>1 DEF OrderType, Authorized
<1>7. CASE Debited(orders[id])
  <2>1. orders[id].receipt = None
    BY <1>1, <1>7 DEF Lawful, Debited
  <2>2. Standing(id) = "open"
    BY <1>1, <1>7 DEF Standing, Debited
  <2>3. Standing(id)' = "held"
    BY <1>5, <1>6, <2>1 DEF Standing
  <2> QED
    BY <1>5, <1>7, <2>2, <2>3
    DEF E!Hold, E!Step, Phase, Size, ProveOrder, Reserve
<1>8. CASE ~Debited(orders[id])
  <2>1. orders[id].escrowed
    BY <1>1, <1>8 DEF Lawful, Debited
  <2>2. Standing(id)' = Standing(id)
    BY <1>1, <1>5, <1>6, <2>1 DEF Standing
  <2> QED
    BY <1>5, <1>8, <2>2 DEF escrowVars, Phase, ProveOrder
<1> QED
  BY <1>7, <1>8

\* The customer's lira make the tokens of a deposit owed; a withdrawal's were
\* owed since the promise.
LEMMA ReceiveOwes ==
  ASSUME GateInv, NEW id \in Ids, NEW r \in Receipts, RecordReceipt(id, r)
  PROVE  E!Owe(id) \/ UNCHANGED escrowVars
<1> DEFINE o == [orders[id] EXCEPT !.receipt = r]
<1>1. /\ GateTypeOK /\ Exists(id) /\ orders[id] \in OrderType
      /\ ~orders[id].settled /\ orders[id].escrowed /\ orders[id].receipt = None
  BY GatePresent DEF GateInv, RecordReceipt
<1>2. r \in ReceiptType /\ r # None
  BY GateAssumption, AbsentAssumption DEF Receipts, ReceiptType
<1>3. o \in OrderType /\ o.terms = orders[id].terms
  BY <1>1, <1>2 DEF OrderType, Option
<1>4. orders' = [orders EXCEPT ![id] = o]
  BY <1>1 DEF RecordReceipt, GateTypeOK
<1>5. /\ orders'[id] = o
      /\ Exists(id)'
      /\ Phase' = [Phase EXCEPT ![id] = Standing(id)']
      /\ Phase[id] = Standing(id)
      /\ Size' = Size /\ Size[id] = Amount(id)
  <2> HIDE DEF o
  <2> QED
    BY <1>1, <1>3, <1>4, Rewritten
<1>6. ~o.settled /\ o.escrowed /\ o.receipt # None
  BY <1>1, <1>2 DEF OrderType
<1>7. Standing(id)' = "owed"
  BY <1>5, <1>6 DEF Standing
<1>8. CASE Authorized(orders[id])
  <2>1. Standing(id) = "owed"
    BY <1>1, <1>8 DEF Standing
  <2>2. Phase' = Phase
    BY <1>5, <1>7, <2>1 DEF Phase
  <2> QED
    BY <1>5, <2>2 DEF escrowVars, RecordReceipt
<1>9. CASE ~Authorized(orders[id])
  <2>1. Standing(id) = "held"
    BY <1>1, <1>9 DEF Standing
  <2> QED
    BY <1>5, <1>7, <2>1 DEF E!Owe, E!Step, Phase, Size, RecordReceipt
<1> QED
  BY <1>8, <1>9

LEMMA PromiseOwes ==
  ASSUME GateInv, NEW id \in Ids, AuthorizePayout(id)
  PROVE  E!Owe(id)
<1> DEFINE o == [orders[id] EXCEPT !.payout = now]
<1>1. /\ GateTypeOK /\ Exists(id) /\ orders[id] \in OrderType
      /\ ~orders[id].settled /\ orders[id].escrowed /\ orders[id].receipt = None
      /\ ~Authorized(orders[id]) /\ now \in Nat /\ now # None
  BY GatePresent, AbsentAssumption DEF GateInv, GateTypeOK, AuthorizePayout
<1>2. o \in OrderType /\ o.terms = orders[id].terms
  BY <1>1 DEF OrderType, Option
<1>3. orders' = [orders EXCEPT ![id] = o]
  BY <1>1 DEF AuthorizePayout, GateTypeOK
<1>4. /\ orders'[id] = o
      /\ Exists(id)'
      /\ Phase' = [Phase EXCEPT ![id] = Standing(id)']
      /\ Phase[id] = Standing(id)
      /\ Size' = Size /\ Size[id] = Amount(id)
  <2> HIDE DEF o
  <2> QED
    BY <1>1, <1>2, <1>3, Rewritten
<1>5. ~o.settled /\ o.escrowed /\ Authorized(o)
  BY <1>1 DEF OrderType, Authorized
<1>6. Standing(id) = "held" /\ Standing(id)' = "owed"
  BY <1>1, <1>4, <1>5 DEF Standing
<1> QED
  BY <1>4, <1>6 DEF E!Owe, E!Step, Phase, Size, AuthorizePayout

LEMMA SettleCompletes ==
  ASSUME GateInv, NEW id \in Ids, Settle(id)
  PROVE  E!Complete(id)
<1> DEFINE o == [orders[id] EXCEPT !.settled = TRUE, !.escrowed = FALSE]
<1>1. /\ GateTypeOK /\ Exists(id) /\ orders[id] \in OrderType
      /\ ~orders[id].settled /\ orders[id].escrowed /\ orders[id].receipt # None
  BY GatePresent DEF GateInv, Settle
<1>2. o \in OrderType /\ o.terms = orders[id].terms
  BY <1>1 DEF OrderType, Option
<1>3. orders' = [orders EXCEPT ![id] = o]
  BY <1>1 DEF Settle, GateTypeOK
<1>4. /\ orders'[id] = o
      /\ Exists(id)'
      /\ Phase' = [Phase EXCEPT ![id] = Standing(id)']
      /\ Phase[id] = Standing(id)
      /\ Size' = Size /\ Size[id] = Amount(id)
  <2> HIDE DEF o
  <2> QED
    BY <1>1, <1>2, <1>3, Rewritten
<1>5. o.settled
  BY <1>1 DEF OrderType
<1>6. Standing(id) = "owed" /\ Standing(id)' = "paid"
  BY <1>1, <1>4, <1>5 DEF Standing
<1> QED
  BY <1>4, <1>6 DEF E!Complete, E!Step, Phase, Size, Settle

LEMMA GateStepsEscrow == GateInv /\ [GateNext]_gateVars => [E!EscrowNext]_escrowVars
<1> SUFFICES ASSUME GateInv, [GateNext]_gateVars
             PROVE  [E!EscrowNext]_escrowVars
  OBVIOUS
<1>1. ASSUME NEW id \in Ids, GateCall(id)
      PROVE  E!EscrowNext \/ UNCHANGED escrowVars
  <2>1. ASSUME NEW t \in Terms, CreateOrder(id, t) PROVE E!EscrowNext
    <3>1. t.amount \in 1..MaxAmount
      BY <2>1, GateAssumption DEF CreateOrder, ValidTerms, TermsType
    <3> QED
      BY <2>1, <3>1, CreateOpens DEF E!EscrowNext
  <2> QED
    BY <1>1, <2>1, ProveHolds, ReceiveOwes, PromiseOwes, SettleCompletes
    DEF GateCall, E!EscrowNext
<1>2. World \/ UNCHANGED gateVars => UNCHANGED <<orders, reserved>>
  BY DEF World, Tick, VerifierChange, TrustlineChange, gateVars
<1>3. CASE UNCHANGED <<orders, reserved>>
  BY <1>3 DEF escrowVars, Phase, Size, Standing, Exists, Amount, Authorized
<1> QED
  BY <1>1, <1>2, <1>3 DEF GateNext

\* The anchor-gate contract implements the escrow, whatever the orders, their
\* terms, the policy and the clock.
THEOREM GateIsAnEscrow == GateSpec => GateImplementsEscrow
<1>1. GateInit => E!EscrowInit
  BY DEF GateInit, E!EscrowInit, Standing, Exists
<1> QED
  BY <1>1, GateStepsEscrow, GateSpecInv, PTL
  DEF GateSpec, GateImplementsEscrow, E!EscrowSpec, E!evars, escrowVars,
      Phase, Size

-----------------------------------------------------------------------------
\* The total that create_order, prove_order and settle adjust by hand is the
\* sum of the amounts in custody: it is so of every escrow, step by step.

InPot == {id \in Ids : Phase[id] \in {"held", "owed"}}
Books == IsFiniteSet(InPot) /\ reserved = Total(Size, InPot)

\* The sizes of orders in custody are amounts.
LEMMA SizesTyped ==
  ASSUME GateInv
  PROVE  \A id \in InPot : id \in Ids /\ Exists(id) /\ Size[id] \in 1..MaxAmount
  BY DEF InPot, Phase, Standing, GateInv, Priced, Size

LEMMA PhaseMoves ==
  ASSUME NEW id \in Ids, NEW from, NEW to, E!Step(id, from, to)
  PROVE  /\ id \in InPot <=> from \in {"held", "owed"}
         /\ to \in {"held", "owed"} => InPot' = InPot \cup {id}
         /\ to \notin {"held", "owed"} => InPot' = InPot \ {id}
<1>1. Phase[id] = from /\ Phase' = [Phase EXCEPT ![id] = to]
  BY DEF E!Step, Phase
<1>2. Phase'[id] = to /\ \A x \in Ids \ {id} : Phase'[x] = Phase[x]
  BY <1>1 DEF Phase
<1> QED
  BY <1>1, <1>2 DEF InPot

LEMMA SamePotKeepsBooks ==
  ASSUME GateInv, Books, InPot' = InPot, reserved' = reserved,
         \A x \in InPot : Size'[x] = Size[x]
  PROVE  Books'
<1>1. PICK S, f, g : S = InPot /\ f = Size /\ g = Size'
  OBVIOUS
<1>2. IsFiniteSet(S) /\ \A x \in S : f[x] = g[x]
  BY <1>1 DEF Books
<1>3. Total(f, S) = Total(g, S)
  BY <1>2, TotalSame
<1> QED
  BY <1>1, <1>3 DEF Books

LEMMA TakingInKeepsBooks ==
  ASSUME GateInv, Books, NEW id \in Ids, id \notin InPot,
         InPot' = InPot \cup {id},
         \A x \in InPot : Size'[x] = Size[x],
         Size'[id] \in Nat, reserved' = reserved + Size'[id]
  PROVE  Books'
<1>1. PICK S, f, g : S = InPot /\ f = Size /\ g = Size'
  OBVIOUS
<1>2. /\ IsFiniteSet(S) /\ id \notin S
      /\ \A x \in S : f[x] \in Int /\ g[x] = f[x]
      /\ g[id] \in Int
  BY <1>1, SizesTyped, GateAssumption DEF Books
<1>3. PICK T : T = S \cup {id}
  OBVIOUS
<1>4. IsFiniteSet(T) /\ Total(g, T) = Total(f, S) + g[id]
  BY <1>2, <1>3, TotalTakesIn
<1> QED
  <2>1. InPot' = T
    BY <1>1, <1>3
  <2>2. reserved' = Total(f, S) + g[id]
    BY <1>1 DEF Books
  <2> QED
    BY <1>1, <1>4, <2>1, <2>2 DEF Books

LEMMA LettingOutKeepsBooks ==
  ASSUME GateInv, Books, NEW id \in Ids, id \in InPot,
         InPot' = InPot \ {id},
         \A x \in InPot' : Size'[x] = Size[x],
         reserved' = reserved - Size[id]
  PROVE  Books'
<1>1. PICK S, f, g : S = InPot /\ f = Size /\ g = Size'
  OBVIOUS
<1>2. /\ IsFiniteSet(S) /\ id \in S
      /\ \A x \in S : f[x] \in Int
  BY <1>1, SizesTyped, GateAssumption DEF Books
<1>3. PICK T : T = InPot'
  OBVIOUS
<1>4. IsFiniteSet(T) /\ Total(g, T) = Total(f, S) - f[id]
  <2>1. IsFiniteSet(S) /\ S = T \cup {id} /\ id \notin T
    BY <1>1, <1>2, <1>3
  <2>2. \A x \in S : f[x] \in Int
    BY <1>2
  <2>3. \A x \in T : g[x] = f[x]
    BY <1>1, <1>3
  <2> QED
    BY <2>1, <2>2, <2>3, TotalLetsOut
<1> QED
  <2>1. InPot' = T
    BY <1>1, <1>3
  <2>2. reserved' = Total(f, S) - f[id]
    BY <1>1 DEF Books
  <2> QED
    BY <1>1, <1>4, <2>1, <2>2 DEF Books

LEMMA EscrowStepKeepsBooks ==
  ASSUME GateInv, Books, NEW id \in Ids,
         \/ \E n \in 1..MaxAmount : E!Open(id, n) \/ E!OpenHeld(id, n)
         \/ E!Hold(id) \/ E!Owe(id) \/ E!Return(id) \/ E!Complete(id)
  PROVE  Books'
<1>1. id \in InPot => id \in Ids
  OBVIOUS
<1>2. ASSUME NEW n \in 1..MaxAmount, E!Open(id, n) PROVE Books'
  <2>1. id \notin InPot /\ InPot' = InPot \ {id}
    BY <1>2, PhaseMoves DEF E!Open
  <2>2. \A x \in Ids \ {id} : Size'[x] = Size[x]
    BY <1>2 DEF E!Open, Size
  <2>3. InPot \subseteq Ids \ {id}
    BY <2>1 DEF InPot
  <2>4. InPot' = InPot /\ reserved' = reserved
    BY <1>2, <2>1 DEF E!Open
  <2> QED
    BY <2>2, <2>3, <2>4, SamePotKeepsBooks
<1>3. ASSUME NEW n \in 1..MaxAmount, E!OpenHeld(id, n) PROVE Books'
  <2>1. id \notin InPot /\ InPot' = InPot \cup {id}
    BY <1>3, PhaseMoves DEF E!OpenHeld
  <2>2. /\ Size'[id] = n
        /\ \A x \in Ids \ {id} : Size'[x] = Size[x]
    BY <1>3 DEF E!OpenHeld, Size
  <2>3. InPot \subseteq Ids \ {id}
    BY <2>1 DEF InPot
  <2>4. n \in Nat /\ reserved' = reserved + n
    BY <1>3, GateAssumption DEF E!OpenHeld
  <2> QED
    BY <2>1, <2>2, <2>3, <2>4, TakingInKeepsBooks
<1>4. CASE E!Hold(id)
  <2>1. id \notin InPot /\ InPot' = InPot \cup {id}
    BY <1>4, PhaseMoves DEF E!Hold
  <2>2. Size' = Size /\ reserved' = reserved + Size[id] /\ Phase[id] = "open"
    BY <1>4 DEF E!Hold, E!Step, Size, Phase
  <2>3. Size[id] \in Nat
    BY <2>2, GateAssumption DEF Phase, Standing, GateInv, Priced, Size
  <2> QED
    BY <2>1, <2>2, <2>3, TakingInKeepsBooks
<1>5. CASE E!Owe(id)
  <2>1. id \in InPot /\ InPot' = InPot \cup {id}
    BY <1>5, PhaseMoves DEF E!Owe
  <2>2. Size' = Size /\ reserved' = reserved /\ InPot' = InPot
    BY <1>5, <2>1 DEF E!Owe, Size
  <2> QED
    BY <2>2, SamePotKeepsBooks
<1>6. CASE E!Return(id) \/ E!Complete(id)
  <2>1. id \in InPot /\ InPot' = InPot \ {id}
    BY <1>6, PhaseMoves DEF E!Return, E!Complete
  <2>2. Size' = Size /\ reserved' = reserved - Size[id]
    BY <1>6 DEF E!Return, E!Complete, Size
  <2> QED
    BY <2>1, <2>2, LettingOutKeepsBooks
<1> QED
  BY <1>2, <1>3, <1>4, <1>5, <1>6

LEMMA GateInitBooks == GateInit => Books
<1> SUFFICES ASSUME GateInit PROVE Books
  OBVIOUS
<1>1. InPot = {}
  BY DEF GateInit, InPot, Phase, Standing, Exists
<1> QED
  BY <1>1, FS_EmptySet, TotalStep DEF GateInit, Books

LEMMA GateNextBooks == GateInv /\ Books /\ [GateNext]_gateVars => Books'
<1> SUFFICES ASSUME GateInv, Books, [GateNext]_gateVars PROVE Books'
  OBVIOUS
<1>1. CASE UNCHANGED escrowVars
  <2>1. InPot' = InPot /\ Size' = Size /\ reserved' = reserved
    BY <1>1 DEF escrowVars, InPot
  <2> QED
    BY <2>1, SamePotKeepsBooks
<1>2. CASE E!EscrowNext
  BY <1>2, EscrowStepKeepsBooks DEF E!EscrowNext
<1> QED
  BY <1>1, <1>2, GateStepsEscrow

\* The orders whose tokens the vault holds.
Custody == {id \in Ids : Exists(id) /\ orders[id].escrowed}
ReserveExact == IsFiniteSet(Custody) /\ reserved = Total(Size, Custody)

LEMMA CustodyIsPot == GateInv => Custody = InPot
<1> SUFFICES ASSUME GateInv, NEW id \in Ids PROVE id \in Custody <=> id \in InPot
  BY DEF Custody, InPot
<1>1. Exists(id) => (orders[id].escrowed => ~orders[id].settled)
  BY GatePresent DEF GateInv, OrdersLawful, Lawful, OrderType
<1> QED
  BY <1>1 DEF Custody, InPot, Phase, Standing

LEMMA GateSpecBooks == GateSpec => []Books
  BY GateInitBooks, GateNextBooks, GateSpecInv, PTL DEF GateSpec

\* The total that create_order, prove_order and settle keep by hand
\* (contracts/anchor-gate/src/lib.rs) is the sum of the amounts of the orders
\* whose tokens the vault holds, however many orders there are.
THEOREM GateReserveExact == GateSpec => []ReserveExact
<1>1. GateInv /\ Books => ReserveExact
  BY CustodyIsPot DEF Books, ReserveExact
<1> QED
  BY <1>1, GateSpecBooks, GateSpecInv, PTL

-----------------------------------------------------------------------------
\* A promise of the contract can be kept.  Whether a step exists (ENABLED) is
\* no matter for this prover; what is proved is that the guards of the call
\* hold, and that they are all the call asks for.

MaySettle(id) ==
    /\ Exists(id) /\ ~orders[id].settled /\ orders[id].escrowed
    /\ orders[id].eligibleUntil # None /\ orders[id].receipt # None
    /\ SettleReady(orders[id])
    /\ receiptOf[orders[id].receipt.event] = id
    /\ reserved >= Amount(id) /\ Covered
    /\ Beneficiary(orders[id]) \notin blocked

MayReceive(id, r) ==
    /\ Exists(id) /\ ~orders[id].settled /\ orders[id].escrowed
    /\ orders[id].eligibleUntil # None /\ orders[id].receipt = None
    /\ EarliestReceipt(orders[id]) # None
    /\ EarliestReceipt(orders[id]) <= r.receivedAt /\ r.receivedAt <= now
    /\ r.bank = orders[id].terms.bank
    /\ receiptOf[r.event] = None

LEMMA GuardsSuffice ==
  ASSUME NEW id \in Ids
  PROVE  /\ (/\ MaySettle(id)
             /\ orders' = [orders EXCEPT ![id].settled = TRUE, ![id].escrowed = FALSE]
             /\ reserved' = reserved - Amount(id)
             /\ balance' = Move(Vault, Beneficiary(orders[id]), Amount(id))
             /\ UNCHANGED <<now, receiptOf, verifierOk, blocked>>)
               => Settle(id)
         /\ \A r \in Receipts :
               (/\ MayReceive(id, r)
                /\ receiptOf' = [receiptOf EXCEPT ![r.event] = id]
                /\ orders' = [orders EXCEPT ![id].receipt = r]
                /\ UNCHANGED <<now, reserved, balance, verifierOk, blocked>>)
                 => RecordReceipt(id, r)
  BY DEF MaySettle, MayReceive, Settle, RecordReceipt

\* The bank's transfer for a promised payout, made at a given instant.
TransferAt(id, e, t) ==
    [event |-> e, bank |-> orders[id].terms.bank, receivedAt |-> t]

\* A promised payout needs nobody's leave: neither the customer's trustline,
\* nor the verifier, nor any deadline keeps a transfer made since the promise
\* from being recorded, nor a recorded one from settling.  A deposit whose lira
\* came settles while its proof holds and the customer takes the tokens.
PromisesStand ==
    \A id \in Ids :
        Exists(id) /\ ~orders[id].settled =>
            /\ Authorized(orders[id]) /\ orders[id].receipt = None =>
                 /\ orders[id].payout <= now
                 /\ \A e \in Events, t \in orders[id].payout..now :
                      receiptOf[e] = None =>
                         /\ TransferAt(id, e, t) \in Receipts
                         /\ MayReceive(id, TransferAt(id, e, t))
            /\ Authorized(orders[id]) /\ orders[id].receipt # None =>
                 MaySettle(id)
            /\ (/\ IsDeposit(orders[id]) /\ orders[id].receipt # None
                /\ Eligible(orders[id]) /\ now < orders[id].terms.deadline
                /\ orders[id].terms.recipient \notin blocked)
                 => MaySettle(id)

PromisesPast ==
    /\ now <= MaxTime
    /\ \A id \in Ids :
         Exists(id) /\ Authorized(orders[id]) => orders[id].payout <= now

\* A call that writes an order leaves its promise, or makes it now.
LEMMA CallPromisesNow ==
  ASSUME GateInv, NEW id \in Ids, GateCall(id), Exists(id)'
  PROVE  orders'[id].payout \in {None, now} \/
         (Exists(id) /\ orders'[id].payout = orders[id].payout)
<1>1. GateTypeOK /\ (Exists(id) => orders[id] \in OrderType)
  BY GatePresent DEF GateInv
<1>2. ASSUME NEW t \in Terms, CreateOrder(id, t) PROVE orders'[id].payout = None
  BY <1>1, <1>2 DEF CreateOrder, NewOrder, GateTypeOK
<1>3. CASE AuthorizePayout(id)
  BY <1>1, <1>3 DEF AuthorizePayout, GateTypeOK, OrderType
<1>4. ASSUME NEW p \in 0..MaxTime, ProveOrder(id, p)
      PROVE  Exists(id) /\ orders'[id].payout = orders[id].payout
  BY <1>1, <1>4 DEF ProveOrder, GateTypeOK, OrderType
<1>5. ASSUME NEW r \in Receipts, RecordReceipt(id, r)
      PROVE  Exists(id) /\ orders'[id].payout = orders[id].payout
  BY <1>1, <1>5 DEF RecordReceipt, GateTypeOK, OrderType
<1>6. CASE Settle(id)
  BY <1>1, <1>6 DEF Settle, GateTypeOK, OrderType
<1> QED
  BY <1>2, <1>3, <1>4, <1>5, <1>6 DEF GateCall

LEMMA CallHasNoTime ==
  ASSUME NEW id \in Ids, GateCall(id)
  PROVE  now' = now
  BY DEF GateCall, CreateOrder, ProveOrder, RecordReceipt, AuthorizePayout, Settle

LEMMA NextPromisesPast ==
  GateInv /\ PromisesPast /\ [GateNext]_gateVars => PromisesPast'
<1> SUFFICES ASSUME GateInv, PromisesPast, [GateNext]_gateVars
             PROVE  PromisesPast'
  OBVIOUS
<1>1. /\ now \in Nat /\ now <= MaxTime /\ MaxTime \in Nat /\ GateTypeOK
      /\ \A id \in Ids : Exists(id) /\ orders[id].payout # None =>
            orders[id].payout \in Nat /\ orders[id].payout <= now
  BY GatePresent, GateAssumption
  DEF GateInv, GateTypeOK, PromisesPast, Authorized, OrderType, Option
<1>2. ASSUME NEW id \in Ids, GateCall(id) PROVE PromisesPast'
  <2>1. now' = now
    BY <1>2, CallHasNoTime
  <2> SUFFICES ASSUME NEW j \in Ids, Exists(j)', orders'[j].payout # None
               PROVE  orders'[j].payout <= now
    BY <1>1, <2>1 DEF PromisesPast, Exists, Authorized
  <2>2. CASE j = id
    BY <1>1, <1>2, <2>2, CallPromisesNow
  <2>3. CASE j # id
    BY <1>1, <1>2, <2>3, CallWritesOne DEF Exists
  <2> QED
    BY <2>2, <2>3
<1>3. CASE World \/ UNCHANGED gateVars
  <2>1. orders' = orders /\ now' \in Nat /\ now <= now' /\ now' <= MaxTime
    BY <1>1, <1>3 DEF World, Tick, VerifierChange, TrustlineChange, gateVars
  <2> SUFFICES ASSUME NEW j \in Ids, Exists(j), orders[j].payout # None
               PROVE  orders[j].payout <= now'
    BY <2>1 DEF PromisesPast, Exists, Authorized
  <2> QED
    BY <1>1, <2>1
<1> QED
  BY <1>2, <1>3 DEF GateNext

\* No order in custody is larger than the reserve: settling never underflows.
LEMMA ReserveHoldsEach ==
  ASSUME GateInv, Books, NEW id \in InPot
  PROVE  reserved >= Size[id]
<1>1. PICK S, f : S = InPot /\ f = Size
  OBVIOUS
<1>2. IsFiniteSet(S) /\ id \in S /\ \A x \in S : f[x] \in Nat
  BY <1>1, SizesTyped, GateAssumption DEF Books
<1>3. \A x \in S : f[x] \in Int
  BY <1>2
<1>4. Total(f, S) = f[id] + Total(f, S \ {id})
  BY <1>2, <1>3, TotalTakesOut
<1>5. Total(f, S \ {id}) \in Nat
  <2>1. PICK T : T = S \ {id}
    OBVIOUS
  <2>2. IsFiniteSet(T) /\ \A x \in T : f[x] \in Nat
    BY <1>2, <2>1, FS_Subset
  <2> QED
    BY <2>1, <2>2, TotalNat
<1>6. f[id] \in Nat
  BY <1>2
<1> QED
  BY <1>1, <1>4, <1>5, <1>6 DEF Books

LEMMA ReceivedMaySettle ==
  ASSUME GateInv, Books, NEW id \in Ids, Exists(id), ~orders[id].settled,
         orders[id].escrowed, orders[id].receipt # None,
         SettleReady(orders[id]), Beneficiary(orders[id]) \notin blocked
  PROVE  MaySettle(id)
<1>1. /\ orders[id] \in OrderType /\ Lawful(orders[id])
  BY GatePresent DEF GateInv, OrdersLawful
<1>2. orders[id].eligibleUntil # None
  BY <1>1 DEF Lawful
<1>3. receiptOf[orders[id].receipt.event] = id
  <2>1. orders[id].receipt.event \in Events
    BY <1>1 DEF OrderType, Option, ReceiptType
  <2> QED
    BY <2>1 DEF GateInv, EventsServeOne
<1>4. reserved >= Amount(id)
  <2>1. id \in InPot /\ Size[id] = Amount(id)
    BY CustodyIsPot DEF Custody, Size
  <2> QED
    BY <2>1, ReserveHoldsEach
<1>5. Covered
  BY DEF GateInv, GateSolvent
<1> QED
  BY <1>2, <1>3, <1>4, <1>5 DEF MaySettle

LEMMA PromisesMayBeKept == GateInv /\ Books /\ PromisesPast => PromisesStand
<1> SUFFICES ASSUME GateInv, Books, PromisesPast,
                    NEW id \in Ids, Exists(id), ~orders[id].settled
             PROVE  /\ Authorized(orders[id]) /\ orders[id].receipt = None =>
                         /\ orders[id].payout <= now
                         /\ \A e \in Events, t \in orders[id].payout..now :
                              receiptOf[e] = None =>
                                 /\ TransferAt(id, e, t) \in Receipts
                                 /\ MayReceive(id, TransferAt(id, e, t))
                    /\ Authorized(orders[id]) /\ orders[id].receipt # None =>
                         MaySettle(id)
                    /\ (/\ IsDeposit(orders[id]) /\ orders[id].receipt # None
                        /\ Eligible(orders[id]) /\ now < orders[id].terms.deadline
                        /\ orders[id].terms.recipient \notin blocked)
                         => MaySettle(id)
  BY DEF PromisesStand
<1>1. /\ GateTypeOK /\ orders[id] \in OrderType /\ Lawful(orders[id])
      /\ orders[id].terms \in TermsType
  BY GatePresent, GateTerms DEF GateInv, OrdersLawful
<1>2. ASSUME Authorized(orders[id])
      PROVE  /\ ~IsDeposit(orders[id]) /\ orders[id].escrowed
             /\ orders[id].payout \in Nat /\ orders[id].payout <= now
             /\ Provider \notin blocked
  <2>1. Provider \notin blocked
    BY <1>1, GateAssumption DEF GateTypeOK
  <2>2. orders[id].payout \in Nat
    BY <1>1, <1>2 DEF OrderType, Option, Authorized
  <2> QED
    BY <1>1, <1>2, <2>1, <2>2 DEF Lawful, PromisesPast
<1>3. ASSUME Authorized(orders[id]), orders[id].receipt = None,
             NEW e \in Events, NEW t \in orders[id].payout..now, receiptOf[e] = None
      PROVE  TransferAt(id, e, t) \in Receipts /\ MayReceive(id, TransferAt(id, e, t))
  <2>1. t \in 0..MaxTime
    BY <1>1, <1>2, <1>3, GateAssumption DEF PromisesPast, GateTypeOK
  <2>2. TransferAt(id, e, t) \in Receipts
    BY <1>1, <2>1 DEF TransferAt, Receipts, TermsType
  <2>3. orders[id].eligibleUntil # None
    BY <1>1, <1>2, <1>3 DEF Lawful
  <2> QED
    BY <1>2, <1>3, <2>2, <2>3
    DEF MayReceive, TransferAt, EarliestReceipt, Authorized
<1>4. ASSUME Authorized(orders[id]), orders[id].receipt # None
      PROVE  MaySettle(id)
  <2>1. SettleReady(orders[id]) /\ Beneficiary(orders[id]) = Provider
    BY <1>2, <1>4 DEF SettleReady, Beneficiary
  <2> QED
    BY <1>2, <1>4, <2>1, ReceivedMaySettle
<1>5. ASSUME IsDeposit(orders[id]), orders[id].receipt # None,
             Eligible(orders[id]), now < orders[id].terms.deadline,
             orders[id].terms.recipient \notin blocked
      PROVE  MaySettle(id)
  <2>1. SettleReady(orders[id]) /\ orders[id].escrowed
        /\ Beneficiary(orders[id]) = orders[id].terms.recipient
    BY <1>1, <1>5 DEF SettleReady, Beneficiary, Lawful
  <2> QED
    BY <1>5, <2>1, ReceivedMaySettle
<1>6. Authorized(orders[id]) /\ orders[id].receipt = None =>
        \A e \in Events, t \in orders[id].payout..now :
           receiptOf[e] = None =>
              /\ TransferAt(id, e, t) \in Receipts
              /\ MayReceive(id, TransferAt(id, e, t))
  BY <1>3, Zenon
<1>7. Authorized(orders[id]) => orders[id].payout <= now
  BY <1>2
<1> QED
  BY <1>4, <1>5, <1>6, <1>7

LEMMA GatePromisesPast == GateSpec => []PromisesPast
<1>1. GateInit => PromisesPast
  BY GateAssumption DEF GateInit, PromisesPast, Exists
<1> QED
  BY <1>1, NextPromisesPast, GateSpecInv, PTL DEF GateSpec

\* Once authorize_payout answered, the exchange can be completed for ever:
\* expiry, verifier, policy and trustlines leave its receipt recordable and
\* its settlement open.
THEOREM GatePromisesStand == GateSpec => []PromisesStand
  BY GatePromisesPast, PromisesMayBeKept, GateSpecBooks, GateSpecInv, PTL

-----------------------------------------------------------------------------
\* The contract under its coordinator.

Kinds    == {"create", "prove", "receipt", "authorize", "settle"}
Statuses == {"prepared", "pending", "success", "failed"}
Answers  == Statuses \ {"prepared"}
Fates    == {"unsent", "sent", "success", "failed"}

\* Rows hold receipts that a notary may record.
SavedRow == [quote : Quotes, terms : Terms, receipt : Option(Receipts)]

\* A journal entry calls the contract with an argument of the right kind.
ActionType ==
    [order : Ids, kind : Kinds, status : Statuses, expires : Int,
     arg : Terms \cup 0..MaxTime \cup Receipts \cup {None}]
Fits(a) ==
    /\ a.kind = "create" => a.arg \in Terms
    /\ a.kind = "prove" => a.arg \in 0..MaxTime
    /\ a.kind = "receipt" => a.arg \in Receipts

TablesOK ==
    /\ rows \in [Ids -> Option(SavedRow)]
    /\ credits \in [Ids -> Option(Nat)]
    /\ consumed \in [Quotes -> Option(Ids)]
    /\ skew \in Skews
JournalOK ==
    /\ actions \in Seq(ActionType)
    /\ \A n \in 1..Len(actions) : Fits(actions[n])
    /\ net \in Seq(Fates)
    /\ Len(net) = Len(actions)

\* A request works on an order that has its row, and carries what its place
\* asks for.
Fields == {"op", "id", "arg", "pc", "todo", "answer", "seen", "n"}
Working == {"create", "prepare", "bank", "authorize", "settle"}
RequestOK(r, table) ==
    /\ DOMAIN r = Fields
    /\ r.id \in Ids
    /\ r.op = "create" => r.arg \in Quotes
    /\ r.op = "prepare" => r.arg \in 0..MaxTime
    /\ r.op \in Working /\ r.pc # "reserve" => table[r.id] \in SavedRow
    /\ r.pc = "reserve" => r.op = "create" /\ r.seen \in Nat
    /\ r.pc = "reconcile" => r.answer \in Answers \cup {None}
    /\ r.pc = "decide" => r.seen \in Option(OrderType)
    /\ r.pc \in Kinds =>
         /\ table[r.id] \in SavedRow
         /\ r.pc = "prove" => r.arg \in 0..MaxTime
         /\ r.pc = "receipt" => table[r.id].receipt \in Receipts
    /\ r.pc = "sent" => r.answer \in Answers
RequestsOK == \A r \in requests : RequestOK(r, rows)

SystemInv == GateInv /\ TablesOK /\ JournalOK /\ RequestsOK

-----------------------------------------------------------------------------

LEMMA NoneIsNoRow == None \notin SavedRow
<1>1. Receipts \subseteq ReceiptType
  BY GateAssumption DEF Receipts, ReceiptType
<1> QED
  BY <1>1, CoordinatorAssumption DEF SavedRow, RowType, Option

\* The server's clock is an instant, and not past the model's last.
LEMMA ClockTyped ==
  ASSUME GateTypeOK, TablesOK
  PROVE  /\ clock \in Int
         /\ clock <= MaxTime
         /\ 0 < clock + MaxOrderLifetime
  BY GateAssumption, CoordinatorAssumption
  DEF GateTypeOK, TablesOK, clock, Least

\* What the contract is called with is what it may be called with.
LEMMA TakesIsACall ==
  ASSUME NEW a \in ActionType, Fits(a), Takes(a)
  PROVE  GateNext
<1>1. a.order \in Ids
  BY DEF ActionType
<1>2. GateCall(a.order)
  <2>1. CASE a.kind = "create" /\ CreateOrder(a.order, a.arg)
    BY <2>1 DEF Fits, GateCall
  <2>2. CASE a.kind = "prove" /\ ProveOrder(a.order, a.arg)
    BY <2>2 DEF Fits, GateCall
  <2>3. CASE a.kind = "receipt" /\ RecordReceipt(a.order, a.arg)
    BY <2>3 DEF Fits, GateCall
  <2>4. CASE a.kind = "authorize" /\ AuthorizePayout(a.order)
    BY <2>4 DEF GateCall
  <2>5. CASE a.kind = "settle" /\ Settle(a.order)
    BY <2>5 DEF GateCall
  <2> QED
    BY <2>1, <2>2, <2>3, <2>4, <2>5 DEF Takes
<1> QED
  BY <1>1, <1>2 DEF GateNext

\* Every step of the system is a step of the contract's world or no step of it.
LEMMA SystemStepsGate ==
  ASSUME SystemInv, [SystemNext]_system
  PROVE  [GateNext]_gateVars
<1>1. CASE UNCHANGED system
  BY <1>1 DEF system
<1>2. CASE Requested
  <2>1. ASSUME NEW r, Start(r) PROVE UNCHANGED gateVars
    BY <2>1 DEF Start
  <2> QED
    BY <1>2, <2>1
    DEF Requested, Create, Get, PrepareProof, SubmitProof, SimulateBank,
        Authorize, RequestSettle
<1>3. ASSUME NEW r \in requests, Handle(r) PROVE UNCHANGED gateVars
  BY <1>3
  DEF Handle, Reserves, Asks, Notes, Looks, Decides, Submits, Prepares, Sends,
      Sent
<1>4. CASE Drop
  BY <1>4 DEF Drop
<1>5. ASSUME NEW n \in DOMAIN net, Include(n) PROVE [GateNext]_gateVars
  <2>1. actions[n] \in ActionType /\ Fits(actions[n])
    BY DEF SystemInv, JournalOK
  <2>2. CASE Takes(actions[n])
    BY <2>1, <2>2, TakesIsACall
  <2> QED
    BY <1>5, <2>2 DEF Include
<1>6. ASSUME NEW n \in DOMAIN net, CustomerSends(n) PROVE UNCHANGED gateVars
  BY <1>6 DEF CustomerSends
<1>7. CASE Outside
  BY <1>7 DEF Outside, GateNext, World, GateCall
<1> QED
  BY <1>1, <1>2, <1>3, <1>4, <1>5, <1>6, <1>7 DEF SystemNext

-----------------------------------------------------------------------------
\* Requests.

\* Rows are never lost, nor are the receipts in them.
RowsGrow ==
    \A id \in Ids : rows[id] \in SavedRow =>
        /\ rows'[id] \in SavedRow
        /\ rows[id].receipt \in Receipts => rows'[id].receipt \in Receipts

\* Requests go on where their next place finds what it asks for.
LEMMA RequestsGoOn ==
  ASSUME RequestsOK, RowsGrow, NEW s, RequestOK(s, rows'),
         requests' \subseteq requests \cup {s}
  PROVE  RequestsOK'
  BY DEF RequestsOK, RequestOK, RowsGrow

LEMMA RequestsEnd ==
  ASSUME RequestsOK, RowsGrow, requests' \subseteq requests
  PROVE  RequestsOK'
  BY DEF RequestsOK, RequestOK, RowsGrow

LEMMA RowsKept ==
  ASSUME rows' = rows PROVE RowsGrow
  BY DEF RowsGrow

LEMMA NewRequestOK ==
  ASSUME NEW op, NEW id \in Ids, NEW arg,
         op = "create" => arg \in Quotes,
         op = "prepare" => arg \in 0..MaxTime,
         op \in Working => rows[id] \in SavedRow
  PROVE  RequestOK(Request(op, id, arg), rows)
  BY DEF RequestOK, Request, Fields, Kinds

LEMMA RequestedKeeps ==
  ASSUME SystemInv, Requested
  PROVE  TablesOK' /\ JournalOK' /\ RequestsOK'
<1>1. PICK r : Start(r) /\ RequestOK(r, rows)
  <2>1. \A id \in Ids : rows[id] # None => rows[id] \in SavedRow
    BY DEF SystemInv, TablesOK, Option
  <2>2. ASSUME NEW id \in Ids, NEW q \in Quotes, Create(id, q)
        PROVE  \E r : Start(r) /\ RequestOK(r, rows)
    <3> DEFINE fresh == [Request("create", id, q)
                            EXCEPT !.pc = "reserve", !.seen = now]
    <3>1. CASE rows[id] # None
      BY <2>1, <2>2, <3>1, NewRequestOK DEF Create
    <3>2. CASE rows[id] = None
      <4>1. /\ DOMAIN fresh = Fields /\ fresh.id = id /\ fresh.op = "create"
            /\ fresh.arg = q /\ fresh.pc = "reserve" /\ fresh.seen = now
        BY DEF Request, Fields
      <4>2. RequestOK(fresh, rows)
        BY <4>1 DEF RequestOK, Kinds, SystemInv, GateInv, GateTypeOK
      <4> QED
        BY <2>2, <3>2, <4>2 DEF Create
    <3> QED
      BY <3>1, <3>2
  <2>3. ASSUME NEW id \in Ids, Get(id)
        PROVE  \E r : Start(r) /\ RequestOK(r, rows)
    BY <2>3, NewRequestOK DEF Get, Working
  <2>4. ASSUME NEW id \in Ids, NEW proofTime \in 0..MaxTime,
               PrepareProof(id, proofTime)
        PROVE  \E r : Start(r) /\ RequestOK(r, rows)
    BY <2>1, <2>4, NewRequestOK DEF PrepareProof
  <2>5. ASSUME NEW id \in Ids, NEW n, SubmitProof(id, n)
        PROVE  \E r : Start(r) /\ RequestOK(r, rows)
    BY <2>5, NewRequestOK DEF SubmitProof, Working
  <2>6. ASSUME NEW id \in Ids,
               SimulateBank(id) \/ Authorize(id) \/ RequestSettle(id)
        PROVE  \E r : Start(r) /\ RequestOK(r, rows)
    BY <2>1, <2>6, NewRequestOK DEF SimulateBank, Authorize, RequestSettle
  <2> QED
    BY <2>2, <2>3, <2>4, <2>5, <2>6 DEF Requested
<1>2. /\ requests' \subseteq requests \cup {r}
      /\ UNCHANGED <<database, net, skew>>
  BY <1>1 DEF Start
<1>3. RequestsOK'
  BY <1>1, <1>2, RowsKept, RequestsGoOn DEF SystemInv, database
<1>4. TablesOK' /\ JournalOK'
  BY <1>2 DEF SystemInv, TablesOK, JournalOK, database
<1> QED
  BY <1>3, <1>4

\* A new row is typed, and no row is written over.
LEMMA ReservesKeeps ==
  ASSUME SystemInv, NEW r \in requests, Reserves(r)
  PROVE  TablesOK' /\ JournalOK' /\ RequestsOK' /\ RowsGrow
<1> DEFINE start    == Least(clock, r.seen)
           deadline == Least(start + MaxOrderLifetime, PolicyValidUntil)
           row      == [quote |-> r.arg, terms |-> TermsOf(r.arg, deadline),
                        receipt |-> None]
<1>1. /\ RequestOK(r, rows) /\ r.pc = "reserve"
      /\ r.id \in Ids /\ r.arg \in Quotes /\ r.seen \in Nat
  BY DEF SystemInv, RequestsOK, RequestOK, Reserves
<1>2. JournalOK' /\ skew' = skew /\ credits' = credits
  BY DEF SystemInv, JournalOK, Reserves
<1>3. CASE Ends(r) /\ UNCHANGED <<rows, consumed>>
  BY <1>2, <1>3, RowsKept, RequestsEnd DEF Ends, SystemInv, TablesOK
<1>4. CASE /\ rows[r.id] = None
           /\ rows' = [rows EXCEPT ![r.id] = row]
           /\ consumed' = [consumed EXCEPT ![r.arg] = r.id]
           /\ Becomes(r, Request("create", r.id, r.arg))
  <2>1. deadline \in 1..PolicyValidUntil
    BY <1>1, ClockTyped, GateAssumption DEF SystemInv, GateInv, Least
  <2>2. row \in SavedRow
    <3> HIDE DEF deadline
    <3>1. TermsOf(r.arg, deadline) \in Terms
      BY <1>1, <2>1, CoordinatorAssumption
    <3> QED
      BY <1>1, <3>1 DEF SavedRow, Option
  <2> HIDE DEF row
  <2>3. None \notin SavedRow
    BY NoneIsNoRow
  <2>4. TablesOK' /\ RowsGrow
    BY <1>1, <1>2, <1>4, <2>2, <2>3
    DEF SystemInv, TablesOK, Option, RowsGrow
  <2>5. rows'[r.id] = row
    BY <1>1, <1>4 DEF SystemInv, TablesOK
  <2>6. RequestOK(Request("create", r.id, r.arg), rows')
    BY <1>1, <2>2, <2>5 DEF RequestOK, Request, Fields, Kinds
  <2> QED
    BY <1>2, <1>4, <2>4, <2>6, RequestsGoOn DEF SystemInv, Becomes
<1> QED
  BY <1>1, <1>3, <1>4 DEF Reserves

\* What the network is said to have done is a status.
LEMMA AnswerIsStatus ==
  ASSUME NEW n PROVE Answer(n) \in Answers
  BY DEF Answer, Answers, Statuses

LEMMA AsksKeeps ==
  ASSUME SystemInv, NEW r \in requests, Asks(r)
  PROVE  TablesOK' /\ JournalOK' /\ RequestsOK' /\ RowsGrow
<1> DEFINE answer == Answer(First(r.todo))
           s == [r EXCEPT !.answer = answer]
<1>1. /\ RequestOK(r, rows) /\ r.pc = "reconcile"
      /\ requests' \subseteq requests \cup {s}
      /\ UNCHANGED <<database, net, skew>>
  BY DEF SystemInv, RequestsOK, Asks, Becomes
<1>2. answer \in Answers
  BY AnswerIsStatus
<1> HIDE DEF answer
<1>3. RequestOK(s, rows')
  BY <1>1, <1>2 DEF RequestOK, Fields, Kinds, database
<1> HIDE DEF s
<1>4. RequestsOK'
  BY <1>1, <1>3, RowsKept, RequestsGoOn DEF SystemInv, database
<1> QED
  BY <1>1, <1>4, RowsKept DEF SystemInv, TablesOK, JournalOK, database

\* The journal keeps its form when a status is written.
LEMMA WrittenKeeps ==
  ASSUME JournalOK, NEW n, NEW status \in Answers, Written(n, status),
         net' = net
  PROVE  JournalOK'
<1>1. CASE actions' = actions
  BY <1>1 DEF JournalOK
<1>2. CASE actions' = [actions EXCEPT ![n].status = status]
  <2>1. CASE n \notin 1..Len(actions)
    <3>1. actions' = actions
      BY <1>2, <2>1 DEF JournalOK
    <3> QED
      BY <1>1, <3>1
  <2>2. CASE n \in 1..Len(actions)
    <3> DEFINE a == [actions[n] EXCEPT !.status = status]
    <3>1. actions[n] \in ActionType /\ Fits(actions[n])
      BY <2>2 DEF JournalOK
    <3>2. a \in ActionType /\ Fits(a)
      BY <3>1 DEF ActionType, Fits, Answers
    <3>3. actions' = [actions EXCEPT ![n] = a]
      BY <1>2, <2>2 DEF JournalOK
    <3> HIDE DEF a
    <3> QED
      BY <2>2, <3>2, <3>3 DEF JournalOK
  <2> QED
    BY <2>1, <2>2
<1> QED
  BY <1>1, <1>2 DEF Written

LEMMA NotesKeeps ==
  ASSUME SystemInv, NEW r \in requests, Notes(r)
  PROVE  TablesOK' /\ JournalOK' /\ RequestsOK' /\ RowsGrow
<1> DEFINE rest == r.todo \ {First(r.todo)}
           s == [r EXCEPT !.todo = rest, !.answer = None]
<1>1. /\ RequestOK(r, rows) /\ r.pc = "reconcile" /\ r.answer \in Answers
      /\ Written(First(r.todo), r.answer)
      /\ requests' \subseteq requests \cup {s}
      /\ UNCHANGED <<rows, credits, consumed, net, skew>>
  BY DEF SystemInv, RequestsOK, RequestOK, Notes, Becomes, Ends
<1> HIDE DEF rest
<1>2. RequestOK(s, rows')
  BY <1>1 DEF RequestOK, Fields, Kinds
<1> HIDE DEF s
<1>3. RequestsOK' /\ JournalOK'
  BY <1>1, <1>2, RowsKept, RequestsGoOn, WrittenKeeps DEF SystemInv
<1> QED
  BY <1>1, <1>3, RowsKept DEF SystemInv, TablesOK

LEMMA LooksKeeps ==
  ASSUME SystemInv, NEW r \in requests, Looks(r)
  PROVE  TablesOK' /\ JournalOK' /\ RequestsOK' /\ RowsGrow
<1> DEFINE s == [r EXCEPT !.seen = orders[r.id], !.pc = "decide"]
<1>1. /\ RequestOK(r, rows) /\ r.pc = "reconcile"
      /\ requests' \subseteq requests \cup {s}
      /\ UNCHANGED <<database, net, skew>>
  BY DEF SystemInv, RequestsOK, Looks, Becomes
<1>2. orders[r.id] \in Option(OrderType)
  BY <1>1 DEF RequestOK, SystemInv, GateInv, GateTypeOK
<1>3. RequestOK(s, rows')
  BY <1>1, <1>2 DEF RequestOK, Fields, Kinds, database
<1> HIDE DEF s
<1>4. RequestsOK'
  BY <1>1, <1>3, RowsKept, RequestsGoOn DEF SystemInv, database
<1> QED
  BY <1>1, <1>4, RowsKept DEF SystemInv, TablesOK, JournalOK, database

\* The bank's books are typed: a receipt is dated by a clock that is neither
\* before the order nor past the model's end.
LEMMA BankDates ==
  ASSUME SystemInv, NEW o \in OrderType, BankReady(o)
  PROVE  clock \in 0..MaxTime /\ o.terms.bank \in Banks
<1>1. clock \in Int /\ clock <= MaxTime
  BY ClockTyped DEF SystemInv, GateInv
<1>2. o.createdAt \in Nat /\ o.payout \in Option(Nat) /\ o.terms \in TermsType
  BY GateAssumption DEF OrderType
<1> HIDE DEF clock
<1> QED
  BY <1>1, <1>2, GateAssumption DEF BankReady, Option, TermsType

LEMMA SaveReceiptKeeps ==
  ASSUME SystemInv, NEW r \in requests, r.pc = "decide", NEW kind,
         Wants(r, kind), SaveReceipt(r, kind), UNCHANGED <<consumed, skew>>
  PROVE  /\ TablesOK' /\ RowsGrow
         /\ kind = "receipt" => rows'[r.id].receipt \in Receipts
<1>1. RequestOK(r, rows) /\ r.id \in Ids
  BY DEF SystemInv, RequestsOK, RequestOK
<1>2. CASE UNCHANGED <<rows, credits>>
           /\ ~(kind = "receipt" /\ rows[r.id].receipt = None)
  <2>1. kind = "receipt" => rows[r.id] \in SavedRow
    BY <1>1 DEF Wants, RequestOK, Working
  <2> QED
    BY <1>2, <2>1, RowsKept DEF SystemInv, TablesOK, SavedRow, Option
<1>3. CASE kind = "receipt" /\ rows[r.id].receipt = None
  <2> DEFINE receipt == [event |-> EventOf[r.id], bank |-> r.seen.terms.bank,
                         receivedAt |-> clock]
             row == [rows[r.id] EXCEPT !.receipt = receipt]
  <2>1. r.op = "bank" /\ BankReady(r.seen)
    BY <1>3 DEF Wants
  <2>2. r.seen \in OrderType
    BY <1>1, <2>1 DEF RequestOK, Option, BankReady
  <2>3. clock \in 0..MaxTime /\ r.seen.terms.bank \in Banks
    BY <2>1, <2>2, BankDates
  <2>4. rows[r.id] \in SavedRow
    BY <1>1, <2>1 DEF RequestOK, Working
  <2>5. receipt \in Receipts
    BY <1>1, <2>3, CoordinatorAssumption DEF Receipts
  <2> HIDE DEF receipt
  <2>6. row \in SavedRow /\ row.receipt = receipt
    BY <2>4, <2>5 DEF SavedRow, Option
  <2>7. rows' = [rows EXCEPT ![r.id] = row]
    BY <1>1, <1>3 DEF SaveReceipt, SystemInv, TablesOK, receipt
  <2> HIDE DEF row
  <2>8. credits' \in [Ids -> Option(Nat)]
    BY <1>1, <1>3, <2>3, GateAssumption
    DEF SaveReceipt, SystemInv, TablesOK, Option
  <2>9. rows' \in [Ids -> Option(SavedRow)] /\ rows'[r.id] = row
    BY <1>1, <2>6, <2>7 DEF SystemInv, TablesOK, Option
  <2>10. RowsGrow
    BY <2>5, <2>6, <2>7, <2>9 DEF RowsGrow, SystemInv, TablesOK
  <2> QED
    BY <2>5, <2>6, <2>8, <2>9, <2>10 DEF SystemInv, TablesOK
<1> QED
  BY <1>2, <1>3 DEF SaveReceipt

LEMMA DecidesKeeps ==
  ASSUME SystemInv, NEW r \in requests, Decides(r)
  PROVE  TablesOK' /\ JournalOK' /\ RequestsOK' /\ RowsGrow
<1>1. /\ RequestOK(r, rows) /\ r.pc = "decide"
      /\ UNCHANGED <<actions, consumed, net, skew>>
  BY DEF SystemInv, RequestsOK, Decides
<1>2. JournalOK'
  BY <1>1 DEF SystemInv, JournalOK
<1>3. CASE Ends(r) /\ UNCHANGED <<rows, credits>>
  BY <1>1, <1>2, <1>3, RowsKept, RequestsEnd DEF SystemInv, TablesOK, Ends
<1>4. ASSUME NEW kind \in Kinds, Wants(r, kind), SaveReceipt(r, kind),
             NEW n,
             \/ Becomes(r, [r EXCEPT !.pc = kind, !.seen = None])
             \/ Becomes(r, [r EXCEPT !.pc = "send", !.seen = None, !.n = n])
      PROVE  TablesOK' /\ RequestsOK' /\ RowsGrow
  <2>1. /\ TablesOK' /\ RowsGrow
        /\ kind = "receipt" => rows'[r.id].receipt \in Receipts
    BY <1>1, <1>4, SaveReceiptKeeps
  <2>2. /\ r.id \in Ids /\ r.op \in Working
        /\ kind = "prove" => r.op = "prepare"
    BY <1>1, <1>4 DEF Wants, Working, RequestOK
  <2>3. rows'[r.id] \in SavedRow
    BY <1>1, <2>1, <2>2 DEF RequestOK, RowsGrow
  <2>4. RequestOK([r EXCEPT !.pc = kind, !.seen = None], rows')
    BY <1>1, <1>4, <2>1, <2>2, <2>3 DEF RequestOK, Fields, Kinds
  <2>5. RequestOK([r EXCEPT !.pc = "send", !.seen = None, !.n = n], rows')
    BY <1>1, <2>2, <2>3 DEF RequestOK, Fields, Kinds
  <2>6. RequestsOK'
    <3>1. CASE Becomes(r, [r EXCEPT !.pc = kind, !.seen = None])
      BY <2>1, <2>4, <3>1, RequestsGoOn DEF Becomes, SystemInv
    <3>2. CASE Becomes(r, [r EXCEPT !.pc = "send", !.seen = None, !.n = n])
      BY <2>1, <2>5, <3>2, RequestsGoOn DEF Becomes, SystemInv
    <3> QED
      BY <1>4, <3>1, <3>2
  <2> QED
    BY <2>1, <2>6
<1> QED
  BY <1>2, <1>3, <1>4 DEF Decides, Kinds

LEMMA SubmitsKeeps ==
  ASSUME SystemInv, NEW r \in requests, Submits(r)
  PROVE  TablesOK' /\ JournalOK' /\ RequestsOK' /\ RowsGrow
<1> DEFINE s == [r EXCEPT !.pc = "send", !.seen = None, !.n = r.arg]
<1>1. /\ RequestOK(r, rows) /\ r.pc = "decide"
      /\ requests' \subseteq requests \cup {s}
      /\ UNCHANGED <<database, net, skew>>
  BY DEF SystemInv, RequestsOK, Submits, Becomes, Ends
<1>2. RequestOK(s, rows')
  BY <1>1 DEF RequestOK, Fields, Kinds, database
<1> HIDE DEF s
<1>3. RequestsOK'
  BY <1>1, <1>2, RowsKept, RequestsGoOn DEF SystemInv, database
<1> QED
  BY <1>1, <1>3, RowsKept DEF SystemInv, TablesOK, JournalOK, database

\* What is journaled calls the contract as it may be called.
LEMMA CallTyped ==
  ASSUME SystemInv, NEW r \in requests, r.pc \in Kinds
  PROVE  CallOf(r) \in ActionType /\ Fits(CallOf(r))
<1>1. /\ RequestOK(r, rows) /\ r.id \in Ids /\ rows[r.id] \in SavedRow
      /\ r.pc = "prove" => r.arg \in 0..MaxTime
      /\ r.pc = "receipt" => rows[r.id].receipt \in Receipts
  BY DEF SystemInv, RequestsOK, RequestOK
<1>2. rows[r.id].terms \in Terms /\ rows[r.id].terms.deadline \in Nat
  BY <1>1, GateAssumption DEF SavedRow, TermsType
<1>3. CallOf(r).expires \in Int
  <2>1. clock \in Int
    BY ClockTyped DEF SystemInv, GateInv
  <2> HIDE DEF clock
  <2> QED
    BY <1>2, <2>1, CoordinatorAssumption DEF CallOf, Least
<1> DEFINE a == CallOf(r)
<1>4. a = [order |-> r.id, kind |-> r.pc, arg |-> a.arg, expires |-> a.expires,
           status |-> "prepared"]
  BY DEF CallOf
<1>5. /\ r.pc = "create" => a.arg = rows[r.id].terms
      /\ r.pc = "prove" => a.arg = r.arg
      /\ r.pc = "receipt" => a.arg = rows[r.id].receipt
      /\ r.pc \in {"authorize", "settle"} => a.arg = None
  BY DEF CallOf
<1>6. a.arg \in Terms \cup 0..MaxTime \cup Receipts \cup {None}
  BY <1>1, <1>2, <1>5 DEF Kinds
<1>7. /\ a.order = r.id /\ a.kind = r.pc /\ a.status = "prepared"
  BY <1>4
<1> HIDE DEF a
<1>8. a \in ActionType
  BY <1>1, <1>3, <1>4, <1>6 DEF ActionType, Statuses, a
<1>9. Fits(a)
  BY <1>1, <1>2, <1>5, <1>7 DEF Fits
<1> QED
  BY <1>8, <1>9 DEF a

LEMMA PreparesKeeps ==
  ASSUME SystemInv, NEW r \in requests, Prepares(r)
  PROVE  TablesOK' /\ JournalOK' /\ RequestsOK' /\ RowsGrow
<1> DEFINE s == [r EXCEPT !.pc = "send", !.n = Len(actions) + 1]
<1>1. /\ RequestOK(r, rows) /\ r.pc \in Kinds
      /\ requests' \subseteq requests \cup {s}
      /\ UNCHANGED <<rows, credits, consumed, skew>>
  BY DEF SystemInv, RequestsOK, Prepares, Becomes, Ends, Kinds
<1>2. RequestOK(s, rows')
  BY <1>1 DEF RequestOK, Fields, Kinds
<1> HIDE DEF s
<1>3. RequestsOK' /\ RowsGrow
  BY <1>1, <1>2, RowsKept, RequestsGoOn DEF SystemInv
<1>4. JournalOK'
  <2>1. CASE UNCHANGED <<actions, net>>
    BY <2>1 DEF SystemInv, JournalOK
  <2>2. CASE actions' = Append(actions, CallOf(r)) /\ net' = Append(net, "unsent")
    <3>1. CallOf(r) \in ActionType /\ Fits(CallOf(r))
      BY <1>1, CallTyped
    <3>2. /\ actions \in Seq(ActionType) /\ net \in Seq(Fates)
          /\ Len(net) = Len(actions)
          /\ \A n \in 1..Len(actions) : Fits(actions[n])
      BY DEF SystemInv, JournalOK
    <3>3. actions' \in Seq(ActionType) /\ net' \in Seq(Fates)
      BY <2>2, <3>1, <3>2 DEF Fates
    <3>4. /\ Len(actions') = Len(actions) + 1 /\ Len(net') = Len(actions')
          /\ \A n \in 1..Len(actions') :
                actions'[n] = IF n = Len(actions) + 1 THEN CallOf(r) ELSE actions[n]
      BY <2>2, <3>1, <3>2 DEF Fates
    <3>5. \A n \in 1..Len(actions') : Fits(actions'[n])
      BY <3>1, <3>2, <3>4
    <3> QED
      BY <3>3, <3>4, <3>5 DEF JournalOK
  <2> QED
    BY <2>1, <2>2 DEF Prepares
<1> QED
  BY <1>1, <1>3, <1>4 DEF SystemInv, TablesOK

\* A transaction's fate changes.
LEMMA FateKeeps ==
  ASSUME JournalOK, NEW n \in DOMAIN net, NEW fate \in Fates,
         net' = [net EXCEPT ![n] = fate], actions' = actions
  PROVE  JournalOK'
  BY DEF JournalOK

LEMMA SendsKeeps ==
  ASSUME SystemInv, NEW r \in requests, Sends(r)
  PROVE  TablesOK' /\ JournalOK' /\ RequestsOK' /\ RowsGrow
<1>1. /\ RequestOK(r, rows) /\ r.pc = "send"
      /\ UNCHANGED <<database, skew>>
  BY DEF SystemInv, RequestsOK, Sends
<1>2. PICK answer \in Answers : Becomes(r, [r EXCEPT !.pc = "sent", !.answer = answer])
  BY DEF Sends, Answers, Statuses
<1> DEFINE s == [r EXCEPT !.pc = "sent", !.answer = answer]
<1>3. RequestOK(s, rows')
  BY <1>1 DEF RequestOK, Fields, Kinds, database
<1>4. requests' \subseteq requests \cup {s}
  BY <1>2 DEF Becomes
<1> HIDE DEF s
<1>5. RequestsOK' /\ RowsGrow
  BY <1>1, <1>3, <1>4, RowsKept, RequestsGoOn DEF SystemInv, database
<1>6. JournalOK'
  <2> DEFINE fate == IF net[r.n] = "unsent" THEN "sent" ELSE net[r.n]
  <2>1. CASE net' = net
    BY <1>1, <2>1 DEF SystemInv, JournalOK, database
  <2>2. CASE net' = [net EXCEPT ![r.n] = fate] /\ r.n \in DOMAIN net
    <3>1. fate \in Fates
      BY <2>2 DEF SystemInv, JournalOK, Fates
    <3> HIDE DEF fate
    <3> QED
      BY <1>1, <2>2, <3>1, FateKeeps DEF SystemInv, database
  <2>3. CASE net' = [net EXCEPT ![r.n] = fate] /\ r.n \notin DOMAIN net
    <3>1. net' = net
      BY <2>3 DEF SystemInv, JournalOK
    <3> QED
      BY <2>1, <3>1
  <2> QED
    BY <2>1, <2>2, <2>3 DEF Sends
<1> QED
  BY <1>1, <1>5, <1>6 DEF SystemInv, TablesOK, database

LEMMA SentKeeps ==
  ASSUME SystemInv, NEW r \in requests, Sent(r)
  PROVE  TablesOK' /\ JournalOK' /\ RequestsOK' /\ RowsGrow
<1>1. /\ RequestOK(r, rows) /\ r.answer \in Answers
      /\ Written(r.n, r.answer) /\ requests' \subseteq requests
      /\ UNCHANGED <<rows, credits, consumed, net, skew>>
  BY DEF SystemInv, RequestsOK, RequestOK, Sent, Ends
<1> QED
  BY <1>1, RowsKept, RequestsEnd, WrittenKeeps DEF SystemInv, TablesOK

LEMMA HandleKeeps ==
  ASSUME SystemInv, NEW r \in requests, Handle(r)
  PROVE  TablesOK' /\ JournalOK' /\ RequestsOK' /\ RowsGrow
  BY ReservesKeeps, AsksKeeps, NotesKeeps, LooksKeeps, DecidesKeeps,
     SubmitsKeeps, PreparesKeeps, SendsKeeps, SentKeeps
  DEF Handle

\* Everything else leaves the tables alone, and starts no request.
LEMMA OthersKeep ==
  ASSUME SystemInv,
         \/ Drop \/ Outside \/ UNCHANGED system
         \/ \E n \in DOMAIN net : Include(n) \/ CustomerSends(n)
  PROVE  TablesOK' /\ JournalOK' /\ RequestsOK' /\ RowsGrow
<1>1. UNCHANGED <<database, skew>> /\ requests' \subseteq requests
  BY DEF Drop, Ends, Outside, system, Include, CustomerSends
<1>2. RequestsOK' /\ RowsGrow /\ TablesOK'
  BY <1>1, RowsKept, RequestsEnd DEF SystemInv, TablesOK, database
<1>3. JournalOK'
  <2>1. ASSUME NEW n \in DOMAIN net, Include(n) \/ CustomerSends(n)
        PROVE  JournalOK'
    <3>1. \E fate \in Fates : net' = [net EXCEPT ![n] = fate]
      BY <2>1 DEF Include, CustomerSends, Fates
    <3> QED
      BY <1>1, <3>1, FateKeeps DEF SystemInv, database
  <2>2. CASE net' = net
    BY <1>1, <2>2 DEF SystemInv, JournalOK, database
  <2> QED
    BY <2>1, <2>2 DEF Drop, Outside, system
<1> QED
  BY <1>2, <1>3

-----------------------------------------------------------------------------

LEMMA SystemInitInv == SystemInit => SystemInv
<1> SUFFICES ASSUME SystemInit PROVE SystemInv
  OBVIOUS
<1>1. GateInv
  BY GateInitInv DEF SystemInit
<1> QED
  BY <1>1 DEF SystemInit, SystemInv, TablesOK, JournalOK, RequestsOK, Option

LEMMA SystemNextInv == SystemInv /\ [SystemNext]_system => SystemInv'
<1> SUFFICES ASSUME SystemInv, [SystemNext]_system PROVE SystemInv'
  OBVIOUS
<1>1. GateInv'
  BY SystemStepsGate, GateNextInv DEF SystemInv
<1>2. TablesOK' /\ JournalOK' /\ RequestsOK'
  BY RequestedKeeps, HandleKeeps, OthersKeep DEF SystemNext
<1> QED
  BY <1>1, <1>2 DEF SystemInv

LEMMA SystemSpecInv == SystemSpec => []SystemInv
  BY SystemInitInv, SystemNextInv, PTL DEF SystemSpec

\* The contract under the coordinator behaves as the contract alone may:
\* whatever requests, clocks, faults and the network do, the coordinator's
\* calls are calls of GateSpec, so what is proved of the contract holds here.
THEOREM CoordinatorDrivesGate == SystemSpec => GateSpec
<1>1. SystemInit => GateInit
  BY DEF SystemInit
<1> QED
  BY <1>1, SystemStepsGate, SystemSpecInv, PTL DEF SystemSpec, GateSpec

\* An order's custody, promise and outcome agree under the coordinator too.
THEOREM SystemOrdersLawful == SystemSpec => []OrdersLawful
  BY CoordinatorDrivesGate, GateOrdersLawful, PTL

\* Under the coordinator, too, the contract implements the escrow.
THEOREM SystemIsAnEscrow == SystemSpec => GateImplementsEscrow
  BY CoordinatorDrivesGate, GateIsAnEscrow, PTL

\* The tables keep their types, and the journal agrees with the network on
\* its entries, through crashes and dropped requests.
THEOREM SystemTypeCorrect == SystemSpec => []CoordinatorTypeOK
<1>1. SystemInv => CoordinatorTypeOK
  <2> SUFFICES ASSUME SystemInv PROVE CoordinatorTypeOK
    OBVIOUS
  <2>1. rows \in [Ids -> Option(RowType)]
    <3>1. Receipts \subseteq ReceiptType
      BY GateAssumption DEF Receipts, ReceiptType
    <3>2. SavedRow \subseteq RowType
      BY <3>1 DEF SavedRow, RowType, Option
    <3> QED
      BY <3>2 DEF SystemInv, TablesOK, Option
  <2>2. /\ DOMAIN net = DOMAIN actions
        /\ \A n \in DOMAIN actions : actions[n].status \in Statuses /\ net[n] \in Fates
    <3>1. /\ actions \in Seq(ActionType) /\ net \in Seq(Fates)
          /\ Len(net) = Len(actions)
      BY DEF SystemInv, JournalOK
    <3>2. DOMAIN actions = 1..Len(actions) /\ DOMAIN net = 1..Len(actions)
      BY <3>1
    <3>3. \A n \in 1..Len(actions) : actions[n] \in ActionType /\ net[n] \in Fates
      BY <3>1
    <3> QED
      BY <3>2, <3>3 DEF ActionType
  <2>3. \A n \in DOMAIN actions :
          /\ actions[n].status \in {"prepared", "pending", "success", "failed"}
          /\ net[n] \in {"unsent", "sent", "success", "failed"}
    BY <2>2 DEF Statuses, Fates
  <2>4. GateTypeOK /\ TablesOK
    BY DEF SystemInv, GateInv
  <2> QED
    BY <2>1, <2>2, <2>3, <2>4 DEF CoordinatorTypeOK, TablesOK
<1> QED
  BY <1>1, SystemSpecInv, PTL

-----------------------------------------------------------------------------
\* Least and greatest numbers of a set.

LEMMA FirstIsThere ==
  ASSUME NEW S \in SUBSET Nat, S # {}
  PROVE  First(S) \in S
  BY LeastExists DEF First

LEMMA LastIsThere ==
  ASSUME NEW S \in SUBSET Nat, S # {},
         NEW bound \in Nat, \A n \in S : n <= bound
  PROVE  Last(S) \in S
<1> DEFINE Above == {m \in Nat : \A n \in S : n <= m}
<1>1. PICK m \in Above : \A y \in Above : m <= y
  <2>1. Above \in SUBSET Nat /\ bound \in Above
    OBVIOUS
  <2> HIDE DEF Above
  <2> QED
    BY <2>1, LeastExists
<1>2. m \in Nat /\ \A n \in S : n <= m
  OBVIOUS
<1>3. m \in S
  <2> SUFFICES ASSUME m \notin S PROVE FALSE
    OBVIOUS
  <2>1. PICK n \in S : n \in Nat
    OBVIOUS
  <2>2. m - 1 \in Nat /\ \A k \in S : k <= m - 1
    BY <1>2, <2>1
  <2>3. m - 1 \in Above
    BY <2>2
  <2> HIDE DEF Above
  <2> QED
    BY <1>1, <1>2, <2>3
<1> QED
  BY <1>2, <1>3 DEF Last

-----------------------------------------------------------------------------
\* What a status says of a transaction, if it is final.
Told(status, n) ==
    /\ status = "success" => net[n] = "success"
    /\ status = "failed" => net[n] # "success" /\ ~MayTakeEffect(n)

Alike(m, n) ==
    m # n /\ actions[m].order = actions[n].order /\ actions[m].kind = actions[n].kind

\* The inductive invariant: what is written is true, one action of an order's
\* kind is open, and what a request has yet to write is true, too.
WrittenTrue == \A n \in DOMAIN actions : Told(actions[n].status, n)
OneOpen ==
    \A m, n \in DOMAIN actions : Alike(m, n) => ~(Open(m) /\ Open(n))
RequestTrue(r) ==
    /\ r.pc = "reconcile" =>
         /\ r.todo \subseteq DOMAIN actions
         /\ r.answer # None => r.todo # {} /\ Told(r.answer, First(r.todo))
    /\ r.op = "submit" => r.arg \in DOMAIN actions
    /\ r.pc \in {"send", "sent"} => r.n \in DOMAIN actions
    /\ r.pc = "sent" => Told(r.answer, r.n)
RequestsTrue == \A r \in requests : RequestTrue(r)
JournalInv == WrittenTrue /\ OneOpen /\ RequestsTrue

\* It is what the property says.
LEMMA JournalInvSound ==
  ASSUME SystemInv, JournalInv PROVE JournalSound
<1>1. \A n \in DOMAIN actions :
        /\ actions[n].status \in Statuses
        /\ MayTakeEffect(n) => Open(n)
  <2> SUFFICES ASSUME NEW n \in DOMAIN actions
               PROVE  /\ actions[n].status \in Statuses
                      /\ MayTakeEffect(n) => Open(n)
    OBVIOUS
  <2>1. actions[n] \in ActionType
    BY DEF SystemInv, JournalOK
  <2>2. Told(actions[n].status, n)
    BY DEF JournalInv, WrittenTrue
  <2> QED
    BY <2>1, <2>2 DEF ActionType, Statuses, Told, MayTakeEffect, Open
<1> QED
  BY <1>1 DEF JournalInv, WrittenTrue, OneOpen, Alike, Told, JournalSound

-----------------------------------------------------------------------------
\* What no step undoes.

Lasting(n) ==
    /\ n \in DOMAIN actions'
    /\ actions'[n].order = actions[n].order
    /\ actions'[n].kind = actions[n].kind
    /\ actions'[n].arg = actions[n].arg
    /\ actions'[n].expires = actions[n].expires
    /\ \/ net'[n] = net[n]
       \/ net[n] = "unsent" /\ net'[n] = "sent"
       \/ /\ net[n] = "sent" /\ now <= actions[n].expires
          /\ net'[n] \in {"success", "failed"}
JournalGrows == \A n \in DOMAIN actions : Lasting(n)

\* Time does not go back.
LEMMA TimeGoesOn ==
  ASSUME GateTypeOK, [GateNext]_gateVars
  PROVE  now' \in Nat /\ now \in Nat /\ now <= now'
<1>1. now' = now \/ now' = now + 1
  BY DEF GateNext, gateVars, World, Tick, VerifierChange, TrustlineChange,
         GateCall, CreateOrder, ProveOrder, RecordReceipt, AuthorizePayout, Settle
<1> QED
  BY <1>1 DEF GateTypeOK

\* A status that was written stays true.
LEMMA ToldStays ==
  ASSUME SystemInv, [SystemNext]_system, JournalGrows,
         NEW n \in DOMAIN actions, NEW status, Told(status, n)
  PROVE  Told(status, n)'
<1>1. now' \in Nat /\ now \in Nat /\ now <= now'
  BY SystemStepsGate, TimeGoesOn DEF SystemInv, GateInv
<1>2. actions[n].expires \in Int
  <2>1. actions[n] \in ActionType
    BY DEF SystemInv, JournalOK
  <2> QED
    BY <2>1 DEF ActionType
<1>3. Lasting(n)
  BY DEF JournalGrows
<1> QED
  BY <1>1, <1>2, <1>3 DEF Lasting, Told, MayTakeEffect

LEMMA WriteLasts ==
  ASSUME JournalOK, NEW n, NEW status, Written(n, status), net' = net
  PROVE  JournalGrows
<1> SUFFICES ASSUME NEW m \in DOMAIN actions PROVE Lasting(m)
  BY DEF JournalGrows
<1>1. actions[m] \in ActionType
  BY DEF JournalOK
<1> QED
  BY <1>1 DEF JournalOK, Written, Lasting, ActionType

LEMMA SystemJournalGrows ==
  ASSUME SystemInv, [SystemNext]_system
  PROVE  JournalGrows
<1>1. JournalOK /\ RequestsOK
  BY DEF SystemInv
<1>2. CASE UNCHANGED <<actions, net>>
  BY <1>2 DEF JournalGrows, Lasting
<1>3. Requested \/ Drop \/ Outside \/ UNCHANGED system => UNCHANGED <<actions, net>>
  BY DEF Requested, Create, Get, PrepareProof, SubmitProof, SimulateBank,
         Authorize, RequestSettle, Start, Drop, Outside, system, database
<1>4. ASSUME NEW n \in DOMAIN net, CustomerSends(n) \/ Include(n)
      PROVE  JournalGrows
  BY <1>1, <1>4
  DEF CustomerSends, Include, JournalGrows, Lasting, database, JournalOK
<1>5. ASSUME NEW r \in requests, Reserves(r) \/ Asks(r) \/ Looks(r)
                                   \/ Decides(r) \/ Submits(r)
      PROVE  UNCHANGED <<actions, net>>
  BY <1>5 DEF Reserves, Asks, Looks, Decides, Submits, database
<1>6. ASSUME NEW r \in requests, Notes(r) \/ Sent(r)
      PROVE  JournalGrows
  BY <1>1, <1>6, WriteLasts DEF Notes, Sent
<1>7. ASSUME NEW r \in requests, Prepares(r)
      PROVE  JournalGrows
  <2>1. CASE actions' = Append(actions, CallOf(r)) /\ net' = Append(net, "unsent")
    <3> SUFFICES ASSUME NEW n \in DOMAIN actions PROVE Lasting(n)
      BY DEF JournalGrows
    <3>1. /\ actions \in Seq(ActionType) /\ net \in Seq(Fates)
          /\ Len(net) = Len(actions) /\ n \in 1..Len(actions)
      BY <1>1 DEF JournalOK
    <3>2. n \in DOMAIN actions' /\ actions'[n] = actions[n] /\ net'[n] = net[n]
      BY <2>1, <3>1
    <3> QED
      BY <3>2 DEF Lasting
  <2> QED
    BY <1>2, <1>7, <2>1 DEF Prepares
<1>8. ASSUME NEW r \in requests, Sends(r)
      PROVE  JournalGrows
  BY <1>1, <1>8 DEF Sends, JournalGrows, Lasting, database, JournalOK
<1> QED
  BY <1>2, <1>3, <1>4, <1>5, <1>6, <1>7, <1>8 DEF SystemNext, Handle

-----------------------------------------------------------------------------
\* The journal stays true.

LEMMA UntouchedJournalTrue ==
  ASSUME SystemInv, [SystemNext]_system, WrittenTrue, OneOpen, actions' = actions
  PROVE  WrittenTrue' /\ OneOpen'
<1>1. WrittenTrue'
  <2> SUFFICES ASSUME NEW n \in DOMAIN actions PROVE Told(actions[n].status, n)'
    BY DEF WrittenTrue
  <2> DEFINE status == actions[n].status
  <2>1. PICK v : v = actions[n].status
    OBVIOUS
  <2>2. Told(v, n)'
    BY <2>1, SystemJournalGrows, ToldStays DEF WrittenTrue
  <2> QED
    BY <2>1, <2>2 DEF Told
<1> QED
  BY <1>1 DEF OneOpen, Alike, Open

\* A true status is written over a status.
LEMMA WrittenJournalTrue ==
  ASSUME SystemInv, [SystemNext]_system, WrittenTrue, OneOpen,
         NEW n \in DOMAIN actions, NEW status \in Answers, Told(status, n),
         Written(n, status), net' = net
  PROVE  WrittenTrue' /\ OneOpen'
<1>1. actions \in Seq(ActionType)
  BY DEF SystemInv, JournalOK
<1>2. CASE actions' = actions
  BY <1>2, UntouchedJournalTrue
<1>3. CASE ~Refused(n, status) /\ actions' = [actions EXCEPT ![n].status = status]
  <2>1. DOMAIN actions' = DOMAIN actions
    BY <1>3
  <2>2. \A m \in DOMAIN actions :
          /\ actions'[m].status = IF m = n THEN status ELSE actions[m].status
          /\ actions'[m].order = actions[m].order
          /\ actions'[m].kind = actions[m].kind
    BY <1>1, <1>3 DEF ActionType
  <2>3. WrittenTrue'
    <3> SUFFICES ASSUME NEW m \in DOMAIN actions PROVE Told(actions[m].status, m)'
      BY <2>1 DEF WrittenTrue
    <3>1. PICK v : v = IF m = n THEN status ELSE actions[m].status
      OBVIOUS
    <3>2. Told(v, m)
      BY <3>1 DEF WrittenTrue
    <3>3. Told(v, m)'
      BY <3>2, SystemJournalGrows, ToldStays
    <3> QED
      BY <2>2, <3>1, <3>3 DEF Told
  <2>4. OneOpen'
    <3> SUFFICES ASSUME NEW m \in DOMAIN actions, NEW k \in DOMAIN actions,
                        Alike(m, k)', Open(m)', Open(k)'
                 PROVE  FALSE
      BY <2>1 DEF OneOpen
    <3>1. Alike(m, k) /\ ~(Open(m) /\ Open(k))
      BY <2>2 DEF Alike, OneOpen
    <3>2. status = "pending"
      BY <2>2, <3>1 DEF Open, Answers, Statuses
    <3>3. \A j \in DOMAIN actions : Alike(j, n) => ~Open(j)
      BY <1>3, <3>2 DEF Refused, Clashes, OpenOwn, Own, Alike
    <3>4. CASE m = n
      BY <2>2, <3>1, <3>3, <3>4 DEF Alike, Open
    <3>5. CASE k = n
      BY <2>2, <3>1, <3>3, <3>5 DEF Alike, Open
    <3>6. CASE m # n /\ k # n
      BY <2>2, <3>1, <3>6 DEF Open
    <3> QED
      BY <3>4, <3>5, <3>6
  <2> QED
    BY <2>3, <2>4
<1> QED
  BY <1>2, <1>3 DEF Written

\* A new entry stands beside no other open one of its kind.
LEMMA AppendedJournalTrue ==
  ASSUME SystemInv, [SystemNext]_system, WrittenTrue, OneOpen,
         NEW r \in requests, r.pc \in Kinds,
         ~Clashes(CallOf(r).order, CallOf(r).kind, 0),
         actions' = Append(actions, CallOf(r)), net' = Append(net, "unsent")
  PROVE  WrittenTrue' /\ OneOpen'
<1>1. CallOf(r) \in ActionType /\ CallOf(r).status = "prepared"
  BY CallTyped DEF CallOf
<1>2. actions \in Seq(ActionType) /\ net \in Seq(Fates) /\ Len(net) = Len(actions)
  BY DEF SystemInv, JournalOK
<1> DEFINE new == Len(actions) + 1
<1>3. /\ DOMAIN actions' = DOMAIN actions \cup {new}
      /\ new \notin DOMAIN actions /\ new # 0 /\ 0 \notin DOMAIN actions
      /\ actions'[new] = CallOf(r)
      /\ \A n \in DOMAIN actions : actions'[n] = actions[n]
  BY <1>1, <1>2
<1> HIDE DEF new
<1>4. WrittenTrue'
  <2> SUFFICES ASSUME NEW n \in DOMAIN actions' PROVE Told(actions[n].status, n)'
    BY DEF WrittenTrue
  <2>1. CASE n = new
    BY <1>1, <1>3, <2>1 DEF Told
  <2>2. CASE n \in DOMAIN actions
    <3>1. PICK v : v = actions[n].status
      OBVIOUS
    <3>2. Told(v, n)'
      BY <2>2, <3>1, SystemJournalGrows, ToldStays DEF WrittenTrue
    <3> QED
      BY <1>3, <2>2, <3>1, <3>2 DEF Told
  <2> QED
    BY <1>3, <2>1, <2>2
<1>5. OneOpen'
  <2> SUFFICES ASSUME NEW m \in DOMAIN actions', NEW k \in DOMAIN actions',
                      Alike(m, k)', Open(m)', Open(k)'
               PROVE  FALSE
    BY DEF OneOpen
  <2>1. \A j \in DOMAIN actions :
          (/\ actions[j].order = CallOf(r).order
           /\ actions[j].kind = CallOf(r).kind) => ~Open(j)
    BY <1>3 DEF Clashes, OpenOwn, Own
  <2>2. CASE m = new
    BY <1>3, <2>1, <2>2 DEF Alike, Open
  <2>3. CASE k = new
    BY <1>3, <2>1, <2>3 DEF Alike, Open
  <2>4. CASE m # new /\ k # new
    BY <1>3, <2>4 DEF OneOpen, Alike, Open
  <2> QED
    BY <2>2, <2>3, <2>4
<1> QED
  BY <1>4, <1>5

-----------------------------------------------------------------------------
\* What requests have yet to write stays true.

LEMMA RequestStaysTrue ==
  ASSUME SystemInv, [SystemNext]_system, NEW r, RequestTrue(r)
  PROVE  RequestTrue(r)'
<1>1. JournalGrows
  BY SystemJournalGrows
<1>2. \A n \in DOMAIN actions : n \in DOMAIN actions'
  BY <1>1 DEF JournalGrows, Lasting
<1>3. ASSUME r.pc = "reconcile"
      PROVE  /\ r.todo \subseteq DOMAIN actions'
             /\ r.answer # None => r.todo # {} /\ Told(r.answer, First(r.todo))'
  <2>1. r.todo \subseteq DOMAIN actions
    BY <1>3 DEF RequestTrue
  <2>2. ASSUME r.answer # None
        PROVE  r.todo # {} /\ Told(r.answer, First(r.todo))'
    <3>1. r.todo # {} /\ Told(r.answer, First(r.todo))
      BY <1>3, <2>2 DEF RequestTrue
    <3>2. DOMAIN actions \subseteq Nat
      BY DEF SystemInv, JournalOK
    <3>3. First(r.todo) \in DOMAIN actions
      BY <2>1, <3>1, <3>2, FirstIsThere
    <3>4. PICK n \in DOMAIN actions : n = First(r.todo)
      BY <3>3
    <3>5. PICK a : a = r.answer
      OBVIOUS
    <3>6. Told(a, n)'
      BY <1>1, <3>1, <3>4, <3>5, ToldStays
    <3> QED
      BY <3>1, <3>4, <3>5, <3>6
  <2> QED
    BY <1>2, <2>1, <2>2
<1>4. r.op = "submit" => r.arg \in DOMAIN actions'
  BY <1>2 DEF RequestTrue
<1>5. r.pc \in {"send", "sent"} => r.n \in DOMAIN actions'
  BY <1>2 DEF RequestTrue
<1>6. ASSUME r.pc = "sent" PROVE Told(r.answer, r.n)'
  <2>1. r.n \in DOMAIN actions /\ Told(r.answer, r.n)
    BY <1>6 DEF RequestTrue
  <2>2. PICK a : a = r.answer
    OBVIOUS
  <2>3. Told(a, r.n)'
    BY <1>1, <2>1, <2>2, ToldStays
  <2> QED
    BY <2>2, <2>3
<1> QED
  BY <1>3, <1>4, <1>5, <1>6 DEF RequestTrue

LEMMA RequestsStayTrue ==
  ASSUME SystemInv, [SystemNext]_system, RequestsTrue,
         NEW s, RequestTrue(s)', requests' \subseteq requests \cup {s}
  PROVE  RequestsTrue'
  BY RequestStaysTrue DEF RequestsTrue

LEMMA EndedStayTrue ==
  ASSUME SystemInv, [SystemNext]_system, RequestsTrue, requests' \subseteq requests
  PROVE  RequestsTrue'
  BY RequestStaysTrue DEF RequestsTrue

LEMMA JournalNumbers ==
  ASSUME SystemInv
  PROVE  /\ DOMAIN actions \subseteq Nat
         /\ DOMAIN net = DOMAIN actions
         /\ \A n \in DOMAIN actions : n <= Len(actions)
         /\ Len(actions) \in Nat
  BY DEF SystemInv, JournalOK

LEMMA RequestedTrue ==
  ASSUME SystemInv, RequestsTrue, Requested
  PROVE  RequestsTrue'
<1> DEFINE Fresh(s) == /\ s.pc \in {"reconcile", "reserve"} /\ s.answer = None
                       /\ s.todo \subseteq DOMAIN actions
                       /\ s.op = "submit" => s.arg \in DOMAIN actions
<1>1. PICK s : Start(s) /\ Fresh(s)
  <2>1. ASSUME NEW op, NEW id, NEW arg, op = "submit" => arg \in DOMAIN actions
        PROVE  Fresh(Request(op, id, arg))
    BY <2>1 DEF Request, OpenOwn, Own
  <2>2. ASSUME NEW id, NEW arg
        PROVE  Fresh([Request("create", id, arg) EXCEPT !.pc = "reserve", !.seen = now])
    BY DEF Request, OpenOwn, Own
  <2> HIDE DEF Fresh
  <2>3. ASSUME NEW id \in Ids, NEW q \in Quotes, Create(id, q)
        PROVE  \E s : Start(s) /\ Fresh(s)
    BY <2>1, <2>2, <2>3 DEF Create
  <2>4. ASSUME NEW id \in Ids, NEW n \in DOMAIN actions, SubmitProof(id, n)
        PROVE  \E s : Start(s) /\ Fresh(s)
    BY <2>1, <2>4 DEF SubmitProof
  <2> QED
    BY <2>1, <2>3, <2>4
    DEF Requested, Get, PrepareProof, SimulateBank, Authorize, RequestSettle
<1>2. RequestTrue(s)' /\ requests' \subseteq requests \cup {s}
  BY <1>1 DEF RequestTrue, Start, database
<1> QED
  BY <1>2, RequestsStayTrue DEF SystemNext

LEMMA AnswerTold ==
  ASSUME SystemInv, NEW n \in DOMAIN actions
  PROVE  Told(Answer(n), n)
<1>1. actions[n].expires \in Int /\ now \in Nat
  <2>1. actions[n] \in ActionType
    BY DEF SystemInv, JournalOK
  <2> QED
    BY <2>1 DEF ActionType, SystemInv, GateInv, GateTypeOK
<1> QED
  BY <1>1 DEF Told, Answer, MayTakeEffect

\* One request's step, one lemma for each of its places.

LEMMA AsksTrue ==
  ASSUME SystemInv, JournalInv, NEW r \in requests, Asks(r)
  PROVE  JournalInv'
<1>1. SystemNext /\ WrittenTrue /\ OneOpen /\ RequestsTrue /\ RequestTrue(r)
  BY DEF SystemNext, Handle, JournalInv, RequestsTrue
<1>2. /\ r.todo # {} /\ r.todo \subseteq DOMAIN actions
      /\ UNCHANGED <<now, actions, net>>
  BY <1>1 DEF Asks, RequestTrue, database, gateVars
<1>3. PICK n \in DOMAIN actions : n = First(r.todo)
  BY <1>2, JournalNumbers, FirstIsThere
<1>4. PICK answer : answer = Answer(n) /\ Told(answer, n)
  BY AnswerTold
<1>5. PICK s : s = [r EXCEPT !.answer = answer]
  OBVIOUS
<1>6. requests' \subseteq requests \cup {s}
  BY <1>3, <1>4, <1>5 DEF Asks, Becomes
<1>7. DOMAIN r = Fields
  BY DEF SystemInv, RequestsOK, RequestOK
<1>8. /\ s.pc = "reconcile" /\ s.answer = answer /\ s.todo = r.todo
      /\ s.op = r.op /\ s.arg = r.arg
  BY <1>5, <1>7 DEF Fields, Asks
<1>9. RequestTrue(s)'
  <2>1. Told(answer, n)'
    BY <1>2, <1>4 DEF Told, MayTakeEffect
  <2> QED
    BY <1>1, <1>2, <1>3, <1>8, <2>1 DEF RequestTrue
<1>10. RequestsTrue'
  BY <1>1, <1>6, <1>9, RequestsStayTrue
<1> QED
  BY <1>1, <1>2, <1>10, UntouchedJournalTrue DEF JournalInv

LEMMA NotesTrue ==
  ASSUME SystemInv, JournalInv, NEW r \in requests, Notes(r)
  PROVE  JournalInv'
<1>1. SystemNext /\ WrittenTrue /\ OneOpen /\ RequestsTrue /\ RequestTrue(r)
  BY DEF SystemNext, Handle, JournalInv, RequestsTrue
<1>2. /\ r.pc = "reconcile" /\ r.answer # None /\ net' = net
      /\ Written(First(r.todo), r.answer)
  BY DEF Notes
<1>3. /\ RequestOK(r, rows) /\ DOMAIN r = Fields
      /\ r.todo # {} /\ r.todo \subseteq DOMAIN actions
  BY <1>1, <1>2 DEF SystemInv, RequestsOK, RequestOK, RequestTrue
<1>4. First(r.todo) \in DOMAIN actions
  BY <1>3, JournalNumbers, FirstIsThere
<1>5. Told(r.answer, First(r.todo)) /\ r.answer \in Answers
  BY <1>1, <1>2, <1>3 DEF RequestTrue, RequestOK
<1>6. WrittenTrue' /\ OneOpen'
  BY <1>1, <1>2, <1>4, <1>5, WrittenJournalTrue
<1>7. PICK s : s = [r EXCEPT !.todo = r.todo \ {First(r.todo)}, !.answer = None]
  OBVIOUS
<1>8. requests' \subseteq requests \cup {s}
  BY <1>7 DEF Notes, Becomes, Ends
<1>9. /\ s.pc = "reconcile" /\ s.answer = None /\ s.todo \subseteq r.todo
      /\ s.op = r.op /\ s.arg = r.arg
  BY <1>2, <1>3, <1>7 DEF Fields
<1>10. DOMAIN actions \subseteq DOMAIN actions'
  BY <1>1, SystemJournalGrows DEF JournalGrows, Lasting
<1>11. RequestTrue(s)'
  BY <1>1, <1>3, <1>9, <1>10 DEF RequestTrue
<1> QED
  BY <1>1, <1>6, <1>8, <1>11, RequestsStayTrue DEF JournalInv

\* Places at which a request knows no answer, and points at nothing.
LEMMA QuietTrue ==
  ASSUME SystemInv, JournalInv, [SystemNext]_system, actions' = actions,
         NEW r \in requests, NEW s, requests' \subseteq requests \cup {s},
         s.pc \notin {"reconcile", "send", "sent"},
         s.op = "submit" => r.op = "submit" /\ s.arg = r.arg
  PROVE  JournalInv'
<1>1. RequestTrue(s)'
  BY DEF RequestTrue, JournalInv, RequestsTrue
<1>2. RequestsTrue'
  BY <1>1, RequestsStayTrue DEF JournalInv
<1> QED
  BY <1>2, UntouchedJournalTrue DEF JournalInv

LEMMA LooksTrue ==
  ASSUME SystemInv, JournalInv, NEW r \in requests, Looks(r)
  PROVE  JournalInv'
<1>1. PICK s : s = [r EXCEPT !.seen = orders[r.id], !.pc = "decide"]
  OBVIOUS
<1>2. DOMAIN r = Fields
  BY DEF SystemInv, RequestsOK, RequestOK
<1>3. s.pc = "decide" /\ s.op = r.op /\ s.arg = r.arg
  BY <1>1, <1>2 DEF Fields
<1>4. requests' \subseteq requests \cup {s} /\ actions' = actions
  BY <1>1 DEF Looks, Becomes, database
<1>5. SystemNext
  BY DEF SystemNext, Handle
<1> QED
  BY <1>3, <1>4, <1>5, QuietTrue

LEMMA ReservesTrue ==
  ASSUME SystemInv, JournalInv, NEW r \in requests, Reserves(r)
  PROVE  JournalInv'
<1>1. PICK s : s = Request("create", r.id, r.arg)
  OBVIOUS
<1>2. /\ s.pc = "reconcile" /\ s.op = "create" /\ s.answer = None
      /\ s.todo \subseteq DOMAIN actions
  BY <1>1 DEF Request, OpenOwn, Own
<1>3. requests' \subseteq requests \cup {s} /\ actions' = actions
  BY <1>1 DEF Reserves, Becomes, Ends
<1>4. SystemNext
  BY DEF SystemNext, Handle
<1>5. RequestTrue(s)'
  BY <1>2, <1>3 DEF RequestTrue
<1> QED
  BY <1>3, <1>4, <1>5, RequestsStayTrue, UntouchedJournalTrue DEF JournalInv

\* A request about to send points at a journal entry.
LEMMA SendingTrue ==
  ASSUME SystemInv, JournalInv, [SystemNext]_system, actions' = actions,
         NEW r \in requests, NEW s, requests' \subseteq requests \cup {s},
         s.pc = "send", s.n \in DOMAIN actions, s.op = r.op, s.arg = r.arg
  PROVE  JournalInv'
<1>1. RequestTrue(s)'
  BY DEF RequestTrue, JournalInv, RequestsTrue
<1>2. RequestsTrue'
  BY <1>1, RequestsStayTrue DEF JournalInv
<1> QED
  BY <1>2, UntouchedJournalTrue DEF JournalInv

LEMMA DecidesTrue ==
  ASSUME SystemInv, JournalInv, NEW r \in requests, Decides(r)
  PROVE  JournalInv'
<1>1. /\ DOMAIN r = Fields /\ actions' = actions /\ SystemNext
  BY DEF SystemInv, RequestsOK, RequestOK, Decides, SystemNext, Handle
<1>2. CASE Ends(r)
  BY <1>1, <1>2, EndedStayTrue, UntouchedJournalTrue DEF JournalInv, Ends
<1>3. ASSUME NEW kind \in Kinds,
             Becomes(r, [r EXCEPT !.pc = kind, !.seen = None])
      PROVE  JournalInv'
  <2>1. PICK s : s = [r EXCEPT !.pc = kind, !.seen = None]
    OBVIOUS
  <2>2. s.pc = kind /\ s.op = r.op /\ s.arg = r.arg
    BY <1>1, <2>1 DEF Fields
  <2>3. requests' \subseteq requests \cup {s}
    BY <1>3, <2>1 DEF Becomes
  <2> QED
    BY <1>1, <1>3, <2>2, <2>3, QuietTrue DEF Kinds
<1>4. ASSUME NEW kind \in Kinds,
             {n \in OpenOwn(r.id) : actions[n].kind = kind} # {},
             Becomes(r, [r EXCEPT !.pc = "send", !.seen = None,
                !.n = Last({n \in OpenOwn(r.id) : actions[n].kind = kind})])
      PROVE  JournalInv'
  <2>1. PICK again : again = {n \in OpenOwn(r.id) : actions[n].kind = kind}
    OBVIOUS
  <2>2. again # {} /\ again \subseteq DOMAIN actions
    BY <1>4, <2>1 DEF OpenOwn, Own
  <2>3. Last(again) \in DOMAIN actions
    BY <2>2, JournalNumbers, LastIsThere
  <2>4. PICK s : s = [r EXCEPT !.pc = "send", !.seen = None, !.n = Last(again)]
    OBVIOUS
  <2>5. s.pc = "send" /\ s.n = Last(again) /\ s.op = r.op /\ s.arg = r.arg
    BY <1>1, <2>4 DEF Fields
  <2>6. requests' \subseteq requests \cup {s}
    BY <1>4, <2>1, <2>4 DEF Becomes
  <2> QED
    BY <1>1, <2>3, <2>5, <2>6, SendingTrue
<1> QED
  BY <1>2, <1>3, <1>4 DEF Decides, Kinds

LEMMA SubmitsTrue ==
  ASSUME SystemInv, JournalInv, NEW r \in requests, Submits(r)
  PROVE  JournalInv'
<1>1. /\ DOMAIN r = Fields /\ actions' = actions /\ SystemNext
  BY DEF SystemInv, RequestsOK, RequestOK, Submits, SystemNext, Handle, database
<1>2. PICK s : s = [r EXCEPT !.pc = "send", !.seen = None, !.n = r.arg]
  OBVIOUS
<1>3. s.pc = "send" /\ s.n = r.arg /\ s.op = r.op /\ s.arg = r.arg
  BY <1>1, <1>2 DEF Fields
<1>4. r.arg \in DOMAIN actions
  BY DEF Submits, JournalInv, RequestsTrue, RequestTrue
<1>5. requests' \subseteq requests \cup {s}
  BY <1>2 DEF Submits, Becomes, Ends
<1> QED
  BY <1>1, <1>3, <1>4, <1>5, SendingTrue

LEMMA PreparesTrue ==
  ASSUME SystemInv, JournalInv, NEW r \in requests, Prepares(r)
  PROVE  JournalInv'
<1>1. /\ DOMAIN r = Fields /\ SystemNext /\ r.pc \in Kinds
      /\ WrittenTrue /\ OneOpen /\ RequestsTrue /\ RequestTrue(r)
  BY DEF SystemInv, RequestsOK, RequestOK, Prepares, SystemNext, Handle, Kinds,
         JournalInv, RequestsTrue
<1>2. CASE Ends(r) /\ UNCHANGED <<actions, net>>
  BY <1>1, <1>2, EndedStayTrue, UntouchedJournalTrue DEF JournalInv, Ends
<1>3. CASE /\ ~Clashes(CallOf(r).order, CallOf(r).kind, 0)
           /\ actions' = Append(actions, CallOf(r))
           /\ net' = Append(net, "unsent")
           /\ \/ Ends(r)
              \/ Becomes(r, [r EXCEPT !.pc = "send", !.n = Len(actions) + 1])
  <2>1. WrittenTrue' /\ OneOpen'
    BY <1>1, <1>3, AppendedJournalTrue
  <2>2. CASE Ends(r)
    BY <1>1, <2>1, <2>2, EndedStayTrue DEF JournalInv, Ends
  <2>3. CASE Becomes(r, [r EXCEPT !.pc = "send", !.n = Len(actions) + 1])
    <3>1. PICK s : s = [r EXCEPT !.pc = "send", !.n = Len(actions) + 1]
      OBVIOUS
    <3>2. s.pc = "send" /\ s.n = Len(actions) + 1 /\ s.op = r.op /\ s.arg = r.arg
      BY <1>1, <3>1 DEF Fields
    <3>3. Len(actions) + 1 \in DOMAIN actions'
      <4>1. actions \in Seq(ActionType) /\ CallOf(r) \in ActionType
        BY <1>1, CallTyped DEF SystemInv, JournalOK
      <4> QED
        BY <1>3, <4>1
    <3>4. DOMAIN actions \subseteq DOMAIN actions'
      BY <1>1, SystemJournalGrows DEF JournalGrows, Lasting
    <3>5. RequestTrue(s)'
      BY <1>1, <3>2, <3>3, <3>4 DEF RequestTrue
    <3>6. requests' \subseteq requests \cup {s}
      BY <2>3, <3>1 DEF Becomes
    <3> QED
      BY <1>1, <2>1, <3>5, <3>6, RequestsStayTrue DEF JournalInv
  <2> QED
    BY <1>3, <2>2, <2>3
<1> QED
  BY <1>2, <1>3 DEF Prepares

LEMMA SendsTrue ==
  ASSUME SystemInv, JournalInv, NEW r \in requests, Sends(r)
  PROVE  JournalInv'
<1>1. /\ DOMAIN r = Fields /\ SystemNext /\ actions' = actions
      /\ RequestsTrue /\ RequestTrue(r) /\ r.n \in DOMAIN actions
  BY DEF SystemInv, RequestsOK, RequestOK, Sends, SystemNext, Handle, database,
         JournalInv, RequestsTrue, RequestTrue
<1>2. PICK answer \in {"pending"} \cup ({net[r.n]} \cap {"success", "failed"}) :
        Becomes(r, [r EXCEPT !.pc = "sent", !.answer = answer])
  BY DEF Sends
<1>3. answer \in {"success", "failed"} => net'[r.n] = answer
  BY <1>1, <1>2, JournalNumbers DEF Sends
<1>4. PICK s : s = [r EXCEPT !.pc = "sent", !.answer = answer]
  OBVIOUS
<1>5. s.pc = "sent" /\ s.n = r.n /\ s.answer = answer /\ s.op = r.op /\ s.arg = r.arg
  BY <1>1, <1>4 DEF Fields
<1>6. Told(answer, r.n)'
  BY <1>3 DEF Told, MayTakeEffect
<1>7. RequestTrue(s)'
  BY <1>1, <1>5, <1>6 DEF RequestTrue
<1>8. requests' \subseteq requests \cup {s}
  BY <1>2, <1>4 DEF Becomes
<1> QED
  BY <1>1, <1>7, <1>8, RequestsStayTrue, UntouchedJournalTrue DEF JournalInv

LEMMA SentTrue ==
  ASSUME SystemInv, JournalInv, NEW r \in requests, Sent(r)
  PROVE  JournalInv'
<1>1. SystemNext /\ WrittenTrue /\ OneOpen /\ RequestsTrue
  BY DEF SystemNext, Handle, JournalInv
<1>2. /\ r.n \in DOMAIN actions /\ Told(r.answer, r.n) /\ r.answer \in Answers
      /\ Written(r.n, r.answer) /\ net' = net /\ requests' \subseteq requests
  BY <1>1 DEF SystemInv, RequestsOK, RequestOK, RequestsTrue, RequestTrue, Sent, Ends
<1> QED
  BY <1>1, <1>2, WrittenJournalTrue, EndedStayTrue DEF JournalInv

-----------------------------------------------------------------------------

LEMMA JournalNextInv ==
  ASSUME SystemInv, JournalInv, [SystemNext]_system
  PROVE  JournalInv'
<1>1. ASSUME actions' = actions, requests' \subseteq requests
      PROVE  JournalInv'
  BY <1>1, EndedStayTrue, UntouchedJournalTrue DEF JournalInv
<1>2. CASE Requested
  <2>1. actions' = actions
    BY <1>2 DEF Requested, Create, Get, PrepareProof, SubmitProof, SimulateBank,
                Authorize, RequestSettle, Start, database
  <2> QED
    BY <1>2, <2>1, RequestedTrue, UntouchedJournalTrue DEF JournalInv
<1>3. CASE Drop \/ Outside \/ UNCHANGED system
  BY <1>1, <1>3 DEF Drop, Ends, Outside, system, database
<1>4. ASSUME NEW n \in DOMAIN net, Include(n) \/ CustomerSends(n)
      PROVE  JournalInv'
  BY <1>1, <1>4 DEF Include, CustomerSends, database
<1>5. ASSUME NEW r \in requests, Handle(r)
      PROVE  JournalInv'
  BY <1>5, ReservesTrue, AsksTrue, NotesTrue, LooksTrue, DecidesTrue,
     SubmitsTrue, PreparesTrue, SendsTrue, SentTrue
  DEF Handle
<1> QED
  BY <1>2, <1>3, <1>4, <1>5 DEF SystemNext

\* The journal tells what the network did, although requests write what they
\* learned long ago over each other, and no second transaction of an order's
\* kind is made while the first may still take effect: for every set of orders
\* and quotes, every lifetime of a transaction and any number of requests.
THEOREM JournalStaysSound == SystemSpec => []JournalSound
<1>1. SystemInit => JournalInv
  BY DEF SystemInit, JournalInv, WrittenTrue, OneOpen, RequestsTrue
<1>2. SystemInv /\ JournalInv /\ [SystemNext]_system => JournalInv'
  BY JournalNextInv
<1>3. SystemInv /\ JournalInv => JournalSound
  BY JournalInvSound
<1> QED
  BY <1>1, <1>2, <1>3, SystemSpecInv, PTL DEF SystemSpec

-----------------------------------------------------------------------------
\* The simulated bank's books.

\* The inductive invariant.  What a request saw of an order's promise is still
\* so; a credit has its receipt and its promise; a receipt that the contract
\* knows, or that is under way to it, is the one that the row holds.
SeenStands(r) ==
    r.pc = "decide" /\ r.seen # None =>
        /\ Exists(r.id)
        /\ orders[r.id].terms = r.seen.terms
        /\ r.seen.payout # None => orders[r.id].payout = r.seen.payout
CreditStands(id) ==
    credits[id] # None =>
        /\ rows[id] \in SavedRow
        /\ rows[id].receipt \in Receipts
        /\ rows[id].receipt.receivedAt = credits[id]
        /\ Exists(id) /\ orders[id].payout # None
        /\ orders[id].payout <= credits[id]
Holds(id, receipt) == rows[id] \in SavedRow /\ rows[id].receipt = receipt
ReceiptStands(id) ==
    Exists(id) /\ orders[id].receipt # None => Holds(id, orders[id].receipt)
CallStands(n) ==
    actions[n].kind = "receipt" => Holds(actions[n].order, actions[n].arg)
\* A saved receipt names the order's own event and bank.
ReceiptFits(id) ==
    rows[id] \in SavedRow /\ rows[id].receipt # None =>
        /\ Exists(id)
        /\ rows[id].receipt.event = EventOf[id]
        /\ rows[id].receipt.bank = orders[id].terms.bank
BankInv ==
    /\ \A r \in requests : SeenStands(r)
    /\ \A id \in Ids : CreditStands(id) /\ ReceiptStands(id)
    /\ \A n \in DOMAIN actions : CallStands(n)
    /\ \A id \in Ids : ReceiptFits(id)

LEMMA BankInvBacks ==
  ASSUME SystemInv, BankInv PROVE CreditBacked
<1> SUFFICES ASSUME NEW id \in Ids
             PROVE  /\ credits[id] # None =>
                         /\ Exists(id) /\ Authorized(orders[id])
                         /\ orders[id].escrowed \/ orders[id].settled
                         /\ orders[id].payout <= credits[id]
                         /\ rows[id].receipt.receivedAt = credits[id]
                    /\ Exists(id) /\ orders[id].receipt # None =>
                         rows[id].receipt = orders[id].receipt
  BY DEF CreditBacked
<1>1. CreditStands(id) /\ ReceiptStands(id)
  BY DEF BankInv
<1>2. Exists(id) => Lawful(orders[id])
  BY DEF SystemInv, GateInv, OrdersLawful
<1> QED
  BY <1>1, <1>2 DEF CreditStands, ReceiptStands, Holds, Lawful, Authorized

-----------------------------------------------------------------------------
\* What no step undoes.

OrdersLast ==
    \A id \in Ids : Exists(id) =>
        /\ Exists(id)'
        /\ orders'[id].terms = orders[id].terms
        /\ orders[id].payout # None => orders'[id].payout = orders[id].payout
RowsLast ==
    \A id \in Ids : rows[id] \in SavedRow =>
        /\ rows'[id] \in SavedRow
        /\ rows[id].receipt # None => rows'[id].receipt = rows[id].receipt

\* An order stays, and so do its terms and the promise of its payout.
LEMMA CallKeepsPromise ==
  ASSUME GateInv, NEW id \in Ids, GateCall(id)
  PROVE  OrdersLast
<1>1. \A other \in Ids \ {id} : orders'[other] = orders[other]
  BY CallWritesOne DEF GateInv
<1>2. ASSUME Exists(id)
      PROVE  /\ Exists(id)'
             /\ orders'[id].terms = orders[id].terms
             /\ orders[id].payout # None => orders'[id].payout = orders[id].payout
  <2>1. orders[id] \in OrderType /\ orders' \in [Ids -> Option(OrderType)]
    BY <1>2, GatePresent, CallKeepsInv DEF GateInv, GateTypeOK
  <2>2. ASSUME NEW t \in Terms, CreateOrder(id, t) PROVE FALSE
    BY <1>2, <2>2 DEF CreateOrder
  <2>3. ASSUME NEW o, orders' = [orders EXCEPT ![id] = o], o \in OrderType,
               o.terms = orders[id].terms,
               orders[id].payout # None => o.payout = orders[id].payout
        PROVE  /\ Exists(id)'
               /\ orders'[id].terms = orders[id].terms
               /\ orders[id].payout # None => orders'[id].payout = orders[id].payout
    BY <2>3, AbsentAssumption DEF GateInv, GateTypeOK, Exists
  <2>4. ASSUME NEW proofTime \in 0..MaxTime, ProveOrder(id, proofTime)
        PROVE  /\ Exists(id)'
               /\ orders'[id].terms = orders[id].terms
               /\ orders[id].payout # None => orders'[id].payout = orders[id].payout
    <3> DEFINE until == EligibleUntil(orders[id], proofTime)
               o == [orders[id] EXCEPT !.escrowed = TRUE, !.eligibleUntil = until]
    <3>1. until \in Nat
      BY <2>1, EligibleUntilTyped, GateAssumption
    <3>2. o \in OrderType /\ o.terms = orders[id].terms
          /\ o.payout = orders[id].payout
      BY <2>1, <3>1 DEF OrderType, Option
    <3>3. orders' = [orders EXCEPT ![id] = o]
      BY <2>4 DEF ProveOrder, GateInv, GateTypeOK
    <3> HIDE DEF o
    <3> QED
      BY <2>3, <3>2, <3>3
  <2>5. ASSUME NEW r \in Receipts, RecordReceipt(id, r)
        PROVE  /\ Exists(id)'
               /\ orders'[id].terms = orders[id].terms
               /\ orders[id].payout # None => orders'[id].payout = orders[id].payout
    <3> DEFINE o == [orders[id] EXCEPT !.receipt = r]
    <3>1. r \in ReceiptType
      BY GateAssumption DEF Receipts, ReceiptType
    <3>2. o \in OrderType /\ o.terms = orders[id].terms
          /\ o.payout = orders[id].payout
      BY <2>1, <3>1 DEF OrderType, Option
    <3>3. orders' = [orders EXCEPT ![id] = o]
      BY <2>5 DEF RecordReceipt, GateInv, GateTypeOK
    <3> HIDE DEF o
    <3> QED
      BY <2>3, <3>2, <3>3
  <2>6. CASE AuthorizePayout(id)
    <3> DEFINE o == [orders[id] EXCEPT !.payout = now]
    <3>1. o \in OrderType /\ o.terms = orders[id].terms
          /\ orders[id].payout = None
      BY <2>1, <2>6
      DEF OrderType, Option, AuthorizePayout, Authorized, GateInv, GateTypeOK
    <3>2. orders' = [orders EXCEPT ![id] = o]
      BY <2>6 DEF AuthorizePayout, GateInv, GateTypeOK
    <3> HIDE DEF o
    <3> QED
      BY <2>3, <3>1, <3>2
  <2>7. CASE Settle(id)
    <3> DEFINE o == [orders[id] EXCEPT !.settled = TRUE, !.escrowed = FALSE]
    <3>1. o \in OrderType /\ o.terms = orders[id].terms
          /\ o.payout = orders[id].payout
      BY <2>1 DEF OrderType
    <3>2. orders' = [orders EXCEPT ![id] = o]
      BY <2>7 DEF Settle, GateInv, GateTypeOK
    <3> HIDE DEF o
    <3> QED
      BY <2>3, <3>1, <3>2
  <2> QED
    BY <2>2, <2>4, <2>5, <2>6, <2>7 DEF GateCall
<1> QED
  BY <1>1, <1>2 DEF OrdersLast, Exists

LEMMA OrdersStay ==
  ASSUME SystemInv, [SystemNext]_system
  PROVE  OrdersLast
<1>1. [GateNext]_gateVars /\ GateInv
  BY SystemStepsGate DEF SystemInv
<1>2. CASE orders' = orders
  BY <1>2 DEF OrdersLast, Exists
<1>3. World \/ UNCHANGED gateVars => orders' = orders
  BY DEF World, Tick, VerifierChange, TrustlineChange, gateVars
<1> QED
  BY <1>1, <1>2, <1>3, CallKeepsPromise DEF GateNext

\* A receipt comes into the contract from the journal.
LEMMA ReceiptsAreJournaled ==
  ASSUME SystemInv, [SystemNext]_system, NEW id \in Ids,
         Exists(id)', orders'[id].receipt # None
  PROVE  \/ Exists(id) /\ orders'[id].receipt = orders[id].receipt
         \/ \E n \in DOMAIN actions :
              /\ actions[n].kind = "receipt" /\ actions[n].order = id
              /\ actions[n].arg = orders'[id].receipt
<1>1. GateTypeOK /\ Exists(id)' /\ (Exists(id) => orders[id] \in OrderType)
  BY GatePresent DEF SystemInv, GateInv
<1>2. ASSUME orders' = orders
      PROVE  Exists(id) /\ orders'[id].receipt = orders[id].receipt
  BY <1>1, <1>2 DEF Exists
<1>3. ASSUME NEW j \in Ids,
             \/ \E t \in Terms : CreateOrder(j, t)
             \/ \E proofTime \in 0..MaxTime : ProveOrder(j, proofTime)
             \/ AuthorizePayout(j)
             \/ Settle(j)
      PROVE  Exists(id) /\ orders'[id].receipt = orders[id].receipt
  <2>1. CASE j # id
    <3>1. GateCall(j)
      BY <1>3 DEF GateCall
    <3>2. orders'[id] = orders[id]
      BY <1>1, <2>1, <3>1, CallWritesOne
    <3> QED
      BY <1>1, <3>2 DEF Exists
  <2>2. CASE j = id
    <3>1. ASSUME NEW t \in Terms, CreateOrder(id, t) PROVE FALSE
      <4>1. orders'[id].receipt = None
        BY <1>1, <3>1 DEF CreateOrder, NewOrder, GateTypeOK
      <4> QED
        BY <4>1
    <3>2. ASSUME NEW proofTime \in 0..MaxTime, ProveOrder(id, proofTime)
          PROVE  Exists(id) /\ orders'[id].receipt = orders[id].receipt
      <4>1. Exists(id) /\ orders[id] \in OrderType
        BY <1>1, <3>2 DEF ProveOrder
      <4>2. orders'[id] = [orders[id] EXCEPT !.escrowed = TRUE,
                             !.eligibleUntil = EligibleUntil(orders[id], proofTime)]
        BY <1>1, <3>2 DEF ProveOrder, GateTypeOK
      <4> QED
        BY <4>1, <4>2 DEF OrderType
    <3>3. CASE AuthorizePayout(id)
      <4>1. Exists(id) /\ orders[id] \in OrderType
        BY <1>1, <3>3 DEF AuthorizePayout
      <4>2. orders'[id] = [orders[id] EXCEPT !.payout = now]
        BY <1>1, <3>3 DEF AuthorizePayout, GateTypeOK
      <4> QED
        BY <4>1, <4>2 DEF OrderType
    <3>4. CASE Settle(id)
      <4>1. Exists(id) /\ orders[id] \in OrderType
        BY <1>1, <3>4 DEF Settle
      <4>2. orders'[id] = [orders[id] EXCEPT !.settled = TRUE, !.escrowed = FALSE]
        BY <1>1, <3>4 DEF Settle, GateTypeOK
      <4> QED
        BY <4>1, <4>2 DEF OrderType
    <3> QED
      BY <1>3, <2>2, <3>1, <3>2, <3>3, <3>4
  <2> QED
    BY <2>1, <2>2
<1>4. ASSUME NEW n \in DOMAIN actions, actions[n].kind = "receipt",
             RecordReceipt(actions[n].order, actions[n].arg)
      PROVE  \/ Exists(id) /\ orders'[id].receipt = orders[id].receipt
             \/ actions[n].order = id /\ actions[n].arg = orders'[id].receipt
  <2>1. actions[n] \in ActionType
    BY DEF SystemInv, JournalOK
  <2>2. actions[n].order \in Ids
    BY <2>1 DEF ActionType
  <2>3. CASE actions[n].order = id
    <3>1. Exists(id) /\ orders[id] \in OrderType
      BY <1>1, <1>4, <2>3 DEF RecordReceipt
    <3>2. orders'[id] = [orders[id] EXCEPT !.receipt = actions[n].arg]
      BY <1>1, <1>4, <2>3 DEF RecordReceipt, GateTypeOK
    <3> QED
      BY <2>3, <3>1, <3>2 DEF OrderType
  <2>4. CASE actions[n].order # id
    BY <1>1, <1>4, <2>2, <2>4 DEF RecordReceipt, GateTypeOK, Exists
  <2> QED
    BY <2>3, <2>4
<1>5. ASSUME NEW n \in DOMAIN net, Include(n)
      PROVE  \/ orders' = orders
             \/ Takes(actions[n])
  BY <1>5 DEF Include, gateVars
<1>6. ASSUME NEW n \in DOMAIN net, Takes(actions[n])
      PROVE  \/ Exists(id) /\ orders'[id].receipt = orders[id].receipt
             \/ \E m \in DOMAIN actions :
                  /\ actions[m].kind = "receipt" /\ actions[m].order = id
                  /\ actions[m].arg = orders'[id].receipt
  <2>1. n \in DOMAIN actions /\ actions[n].order \in Ids /\ Fits(actions[n])
    <3>1. n \in DOMAIN actions
      BY JournalNumbers
    <3>2. actions[n] \in ActionType /\ Fits(actions[n])
      BY <3>1 DEF SystemInv, JournalOK
    <3> QED
      BY <3>1, <3>2 DEF ActionType
  <2> QED
    BY <1>3, <1>4, <1>6, <2>1 DEF Takes, Fits
<1>7. CASE Outside
  <2>1. Tick \/ VerifierChange \/ (\E a \in Customers : TrustlineChange(a))
          => orders' = orders
    BY DEF Tick, VerifierChange, TrustlineChange
  <2> QED
    BY <1>2, <1>3, <1>7, <2>1 DEF Outside
<1>8. Requested \/ Drop \/ UNCHANGED system => orders' = orders
  BY DEF Requested, Create, Get, PrepareProof, SubmitProof, SimulateBank,
         Authorize, RequestSettle, Start, Drop, system, gateVars
<1>9. ASSUME NEW r \in requests, Handle(r) PROVE orders' = orders
  BY <1>9
  DEF Handle, Reserves, Asks, Notes, Looks, Decides, Submits, Prepares, Sends,
      Sent, gateVars
<1>10. ASSUME NEW n \in DOMAIN net, CustomerSends(n) PROVE orders' = orders
  BY <1>10 DEF CustomerSends, gateVars
<1> QED
  BY <1>2, <1>5, <1>6, <1>7, <1>8, <1>9, <1>10 DEF SystemNext

\* A row stays, and so does the receipt in it.
LEMMA RowsStay ==
  ASSUME SystemInv, [SystemNext]_system
  PROVE  RowsLast
<1>1. CASE rows' = rows
  BY <1>1 DEF RowsLast
<1>2. Requested \/ Drop \/ Outside \/ UNCHANGED system => rows' = rows
  BY DEF Requested, Create, Get, PrepareProof, SubmitProof, SimulateBank,
         Authorize, RequestSettle, Start, Drop, Outside, system, database
<1>3. ASSUME NEW n \in DOMAIN net, Include(n) \/ CustomerSends(n)
      PROVE  rows' = rows
  BY <1>3 DEF Include, CustomerSends, database
<1>4. ASSUME NEW r \in requests, Asks(r) \/ Notes(r) \/ Looks(r) \/ Submits(r)
                                   \/ Prepares(r) \/ Sends(r) \/ Sent(r)
      PROVE  rows' = rows
  BY <1>4 DEF Asks, Notes, Looks, Submits, Prepares, Sends, Sent, database
<1>5. ASSUME NEW r \in requests, Reserves(r)
      PROVE  RowsLast
  <2>1. RowsGrow /\ r.id \in Ids
    BY <1>5, ReservesKeeps DEF SystemInv, RequestsOK, RequestOK
  <2>2. rows' = rows \/ (rows[r.id] = None /\ \E row : rows' = [rows EXCEPT ![r.id] = row])
    BY <1>5 DEF Reserves
  <2>3. None \notin SavedRow
    BY NoneIsNoRow
  <2> QED
    BY <2>1, <2>2, <2>3 DEF RowsLast, RowsGrow, SystemInv, TablesOK
<1>6. ASSUME NEW r \in requests, Decides(r)
      PROVE  RowsLast
  <2>1. RowsGrow /\ r.id \in Ids /\ r.pc = "decide"
    BY <1>6, DecidesKeeps DEF SystemInv, RequestsOK, RequestOK, Decides
  <2>2. ASSUME NEW kind, SaveReceipt(r, kind)
        PROVE  RowsLast
    <3>1. CASE rows' = rows
      BY <1>1, <3>1
    <3>2. CASE /\ rows[r.id].receipt = None
               /\ \E receipt : rows' = [rows EXCEPT ![r.id].receipt = receipt]
      BY <2>1, <3>2 DEF RowsLast, RowsGrow, SystemInv, TablesOK
    <3> QED
      BY <2>2, <3>1, <3>2 DEF SaveReceipt
  <2> QED
    BY <1>1, <1>6, <2>2 DEF Decides
<1> QED
  BY <1>1, <1>2, <1>3, <1>4, <1>5, <1>6 DEF SystemNext, Handle

-----------------------------------------------------------------------------
\* The invariant's parts, through any step.

LEMMA ReceiptsTyped ==
  ASSUME SystemInv
  PROVE  /\ None \notin Receipts
         /\ \A n \in DOMAIN actions :
              /\ actions[n].order \in Ids
              /\ actions[n].kind = "receipt" => actions[n].arg \in Receipts
<1>1. Receipts \subseteq ReceiptType
  BY GateAssumption DEF Receipts, ReceiptType
<1>2. ASSUME NEW n \in DOMAIN actions
      PROVE  actions[n] \in ActionType /\ Fits(actions[n])
  BY DEF SystemInv, JournalOK
<1> QED
  BY <1>1, <1>2, AbsentAssumption DEF ActionType, Fits

LEMMA ReceiptsStand ==
  ASSUME SystemInv, [SystemNext]_system, BankInv, NEW id \in Ids
  PROVE  ReceiptStands(id)'
<1> SUFFICES ASSUME Exists(id)', orders'[id].receipt # None
             PROVE  Holds(id, orders[id].receipt)'
  BY DEF ReceiptStands
<1>1. RowsLast
  BY RowsStay
<1>2. Holds(id, orders'[id].receipt)
  <2>1. CASE Exists(id) /\ orders'[id].receipt = orders[id].receipt
    BY <2>1 DEF BankInv, ReceiptStands
  <2>2. ASSUME NEW n \in DOMAIN actions,
               actions[n].kind = "receipt", actions[n].order = id,
               actions[n].arg = orders'[id].receipt
        PROVE  Holds(id, orders'[id].receipt)
    BY <2>2 DEF BankInv, CallStands
  <2> QED
    BY <2>1, <2>2, ReceiptsAreJournaled
<1> QED
  BY <1>1, <1>2 DEF Holds, RowsLast

LEMMA CallsStand ==
  ASSUME SystemInv, [SystemNext]_system, BankInv, NEW n \in DOMAIN actions
  PROVE  CallStands(n)'
<1>1. RowsLast /\ Lasting(n)
  BY RowsStay, SystemJournalGrows DEF JournalGrows
<1>2. CallStands(n)
  BY DEF BankInv
<1> QED
  BY <1>1, <1>2, ReceiptsTyped DEF CallStands, Holds, RowsLast, Lasting

\* The only new entries are prepared from a row.
LEMMA NewCallsStand ==
  ASSUME SystemInv, [SystemNext]_system, BankInv
  PROVE  \A n \in DOMAIN actions' : CallStands(n)'
<1>1. CASE DOMAIN actions' = DOMAIN actions
  BY <1>1, CallsStand
<1>2. ASSUME NEW r \in requests, Prepares(r), ~UNCHANGED actions
      PROVE  \A n \in DOMAIN actions' : CallStands(n)'
  <2>1. /\ actions' = Append(actions, CallOf(r)) /\ r.pc \in Kinds /\ rows' = rows
        /\ actions \in Seq(ActionType) /\ CallOf(r) \in ActionType
    BY <1>2, CallTyped DEF Prepares, Kinds, SystemInv, JournalOK
  <2>2. PICK new : /\ DOMAIN actions' = DOMAIN actions \cup {new}
                   /\ actions'[new] = CallOf(r)
    <3> DEFINE last == Len(actions) + 1
    <3>1. DOMAIN actions' = DOMAIN actions \cup {last} /\ actions'[last] = CallOf(r)
      BY <2>1
    <3> QED
      BY <3>1
  <2>3. r.pc = "receipt" => rows[r.id] \in SavedRow
    BY <2>1 DEF SystemInv, RequestsOK, RequestOK
  <2>4. /\ CallOf(r).kind = r.pc /\ CallOf(r).order = r.id
        /\ r.pc = "receipt" => CallOf(r).arg = rows[r.id].receipt
    BY DEF CallOf
  <2>5. CallStands(new)'
    BY <2>1, <2>2, <2>3, <2>4 DEF CallStands, Holds
  <2> QED
    BY <2>2, <2>5, CallsStand
<1>3. ASSUME NEW r \in requests, Notes(r) \/ Sent(r)
      PROVE  DOMAIN actions' = DOMAIN actions
  BY <1>3 DEF Notes, Sent, Written
<1>4. ASSUME NEW r \in requests, Reserves(r) \/ Asks(r) \/ Looks(r) \/ Decides(r)
                                   \/ Submits(r) \/ Sends(r)
      PROVE  actions' = actions
  BY <1>4 DEF Reserves, Asks, Looks, Decides, Submits, Sends, database
<1>5. Requested \/ Drop \/ Outside \/ UNCHANGED system => actions' = actions
  BY DEF Requested, Create, Get, PrepareProof, SubmitProof, SimulateBank,
         Authorize, RequestSettle, Start, Drop, Outside, system, database
<1>6. ASSUME NEW n \in DOMAIN net, Include(n) \/ CustomerSends(n)
      PROVE  actions' = actions
  BY <1>6 DEF Include, CustomerSends, database
<1> QED
  BY <1>1, <1>2, <1>3, <1>4, <1>5, <1>6 DEF SystemNext, Handle

\* What was seen of an order's promise stands.
LEMMA SeenStays ==
  ASSUME SystemInv, [SystemNext]_system, NEW r, r.id \in Ids, SeenStands(r)
  PROVE  SeenStands(r)'
  BY OrdersStay DEF SeenStands, OrdersLast

LEMMA SeenStand ==
  ASSUME SystemInv, [SystemNext]_system, BankInv, NEW r \in requests'
  PROVE  SeenStands(r)'
<1>1. CASE r \in requests
  <2>1. r.id \in Ids /\ SeenStands(r)
    BY <1>1 DEF SystemInv, RequestsOK, RequestOK, BankInv
  <2> QED
    BY <2>1, SeenStays
<1>2. CASE r.pc # "decide"
  BY <1>2 DEF SeenStands
<1>3. ASSUME NEW q \in requests, Looks(q), r \notin requests
      PROVE  SeenStands(r)'
  <2>1. DOMAIN q = Fields /\ q.id \in Ids
    BY DEF SystemInv, RequestsOK, RequestOK
  <2>2. r = [q EXCEPT !.seen = orders[q.id], !.pc = "decide"] /\ orders' = orders
    BY <1>3 DEF Looks, Becomes, gateVars
  <2>3. r.seen = orders[q.id] /\ r.id = q.id
    BY <2>1, <2>2 DEF Fields
  <2> QED
    BY <2>2, <2>3 DEF SeenStands, Exists
<1>4. ASSUME NEW q \in requests, Handle(q), ~Looks(q), r \notin requests
      PROVE  r.pc # "decide"
  <2>1. DOMAIN q = Fields
    BY DEF SystemInv, RequestsOK, RequestOK
  <2>2. Reserves(q) => r.pc = "reconcile"
    BY <1>4 DEF Reserves, Becomes, Ends, Request
  <2>3. Asks(q) => r.pc = "reconcile"
    BY <1>4, <2>1 DEF Asks, Becomes, Fields
  <2>4. Notes(q) => r.pc = "reconcile"
    BY <1>4, <2>1 DEF Notes, Becomes, Ends, Fields
  <2>5. Decides(q) => r.pc \in Kinds \cup {"send"}
    BY <1>4, <2>1 DEF Decides, Becomes, Ends, Fields, Kinds
  <2>6. Submits(q) \/ Prepares(q) => r.pc = "send"
    <3>1. ASSUME NEW n, r = [q EXCEPT !.pc = "send", !.seen = None, !.n = n]
                        \/ r = [q EXCEPT !.pc = "send", !.n = n]
          PROVE  r.pc = "send"
      BY <2>1, <3>1 DEF Fields
    <3>2. Prepares(q) => r = [q EXCEPT !.pc = "send", !.n = Len(actions) + 1]
      BY <1>4 DEF Prepares, Becomes, Ends
    <3>3. Submits(q) => r = [q EXCEPT !.pc = "send", !.seen = None, !.n = q.arg]
      BY <1>4 DEF Submits, Becomes, Ends
    <3> QED
      BY <3>1, <3>2, <3>3
  <2>7. Sends(q) => r.pc = "sent"
    BY <1>4, <2>1 DEF Sends, Becomes, Fields
  <2>8. ~Sent(q)
    BY <1>4 DEF Sent, Ends
  <2> QED
    BY <1>4, <2>2, <2>3, <2>4, <2>5, <2>6, <2>7, <2>8 DEF Handle, Kinds
<1>5. ASSUME Requested, r \notin requests
      PROVE  r.pc # "decide"
  <2> DEFINE Fresh(s) == s.pc \in {"reconcile", "reserve"}
  <2>1. \A op, id, arg : Fresh(Request(op, id, arg))
    BY DEF Request
  <2>2. \A id, arg : Fresh([Request("create", id, arg)
                               EXCEPT !.pc = "reserve", !.seen = now])
    BY DEF Request
  <2> HIDE DEF Fresh
  <2>3. ASSUME NEW id \in Ids, NEW q \in Quotes, Create(id, q)
        PROVE  \E s : Start(s) /\ Fresh(s)
    BY <2>1, <2>2, <2>3 DEF Create
  <2>4. PICK s : Start(s) /\ Fresh(s)
    BY <1>5, <2>1, <2>3
    DEF Requested, Get, PrepareProof, SubmitProof, SimulateBank, Authorize,
        RequestSettle
  <2> QED
    BY <1>5, <2>4 DEF Start, Fresh
<1>6. Drop \/ Outside \/ UNCHANGED system => r \in requests
  BY DEF Drop, Ends, Outside, system
<1>7. ASSUME NEW n \in DOMAIN net, Include(n) \/ CustomerSends(n)
      PROVE  r \in requests
  BY <1>7 DEF Include, CustomerSends
<1> QED
  BY <1>1, <1>2, <1>3, <1>4, <1>5, <1>6, <1>7 DEF SystemNext

\* A credit stands: the step that makes one dates the receipt alike, on a
\* promise that it saw and that is kept.
LEMMA CreditsStand ==
  ASSUME SystemInv, [SystemNext]_system, BankInv, NEW id \in Ids
  PROVE  CreditStands(id)'
<1>1. OrdersLast /\ RowsLast /\ CreditStands(id)
  BY OrdersStay, RowsStay DEF BankInv
<1>2. CASE credits'[id] = credits[id]
  BY <1>1, <1>2, ReceiptsTyped DEF CreditStands, OrdersLast, RowsLast
<1>3. ASSUME NEW r \in requests, Decides(r), credits'[id] # credits[id]
      PROVE  CreditStands(id)'
  <2>1. PICK kind \in Kinds : Wants(r, kind) /\ SaveReceipt(r, kind)
    BY <1>3 DEF Decides, Kinds
  <2>2. /\ RequestOK(r, rows) /\ r.id \in Ids /\ r.pc = "decide"
        /\ UNCHANGED <<orders, consumed, skew>> /\ SeenStands(r)
    BY <1>3 DEF SystemInv, RequestsOK, RequestOK, Decides, gateVars, BankInv
  <2>3. /\ kind = "receipt" /\ rows[r.id].receipt = None /\ ~IsDeposit(r.seen)
        /\ credits' = [credits EXCEPT ![r.id] = clock]
    BY <1>3, <2>1 DEF SaveReceipt
  <2>4. id = r.id /\ credits'[id] = clock
    BY <1>3, <2>2, <2>3 DEF SystemInv, TablesOK
  <2>5. BankReady(r.seen) /\ r.op = "bank"
    BY <2>1, <2>3 DEF Wants
  <2>6. /\ TablesOK' /\ RowsGrow /\ rows'[id].receipt \in Receipts
        /\ rows[id] \in SavedRow
    BY <2>1, <2>2, <2>3, <2>4, <2>5, SaveReceiptKeeps DEF RequestOK, Working
  <2>7. rows'[id] \in SavedRow /\ rows'[id].receipt.receivedAt = clock
    <3>1. PICK receipt : receipt.receivedAt = clock
                         /\ rows' = [rows EXCEPT ![r.id].receipt = receipt]
      BY <2>1, <2>3 DEF SaveReceipt
    <3>2. rows'[id].receipt = receipt
      BY <2>2, <2>4, <2>6, <3>1 DEF SystemInv, TablesOK, SavedRow
    <3> QED
      BY <2>6, <3>1, <3>2 DEF RowsGrow
  <2>8. /\ Exists(id) /\ orders[id].payout # None
        /\ orders[id].payout <= clock
    BY <2>2, <2>3, <2>4, <2>5 DEF SeenStands, BankReady
  <2> HIDE DEF clock
  <2> QED
    BY <2>2, <2>4, <2>6, <2>7, <2>8 DEF CreditStands, Exists
<1>4. ASSUME NEW r \in requests, Handle(r), ~Decides(r)
      PROVE  credits' = credits
  BY <1>4
  DEF Handle, Reserves, Asks, Notes, Looks, Submits, Prepares, Sends, Sent,
      database
<1>5. Requested \/ Drop \/ Outside \/ UNCHANGED system => credits' = credits
  BY DEF Requested, Create, Get, PrepareProof, SubmitProof, SimulateBank,
         Authorize, RequestSettle, Start, Drop, Outside, system, database
<1>6. ASSUME NEW n \in DOMAIN net, Include(n) \/ CustomerSends(n)
      PROVE  credits' = credits
  BY <1>6 DEF Include, CustomerSends, database
<1> QED
  BY <1>2, <1>3, <1>4, <1>5, <1>6 DEF SystemNext

\* A receipt is saved under the order's own name, for the bank of the terms
\* that the request saw, which do not change.
LEMMA ReceiptsFit ==
  ASSUME SystemInv, [SystemNext]_system, BankInv, NEW id \in Ids
  PROVE  ReceiptFits(id)'
<1>1. OrdersLast /\ RowsLast /\ ReceiptFits(id)
  BY OrdersStay, RowsStay DEF BankInv
<1>2. CASE rows'[id] = rows[id]
  BY <1>1, <1>2 DEF ReceiptFits, OrdersLast
<1>3. ASSUME NEW r \in requests, Reserves(r), rows'[id] # rows[id]
      PROVE  ReceiptFits(id)'
  <2>1. PICK row : rows' = [rows EXCEPT ![r.id] = row] /\ row.receipt = None
    BY <1>3 DEF Reserves
  <2>2. rows'[id].receipt = None
    BY <1>3, <2>1 DEF SystemInv, TablesOK
  <2> QED
    BY <2>2 DEF ReceiptFits
<1>4. ASSUME NEW r \in requests, Decides(r), rows'[id] # rows[id]
      PROVE  ReceiptFits(id)'
  <2>1. PICK kind \in Kinds : Wants(r, kind) /\ SaveReceipt(r, kind)
    BY <1>4 DEF Decides, Kinds
  <2>2. /\ RequestOK(r, rows) /\ r.id \in Ids /\ r.pc = "decide"
        /\ orders' = orders /\ SeenStands(r)
    BY <1>4 DEF SystemInv, RequestsOK, RequestOK, Decides, gateVars, BankInv
  <2>3. /\ kind = "receipt" /\ rows[r.id].receipt = None
        /\ \E t : rows' = [rows EXCEPT ![r.id].receipt =
                             [event |-> EventOf[r.id], bank |-> r.seen.terms.bank,
                              receivedAt |-> t]]
    BY <1>4, <2>1 DEF SaveReceipt
  <2>4. PICK receipt : /\ rows' = [rows EXCEPT ![r.id].receipt = receipt]
                       /\ receipt.event = EventOf[r.id]
                       /\ receipt.bank = r.seen.terms.bank
    <3>1. PICK t : rows' = [rows EXCEPT ![r.id].receipt =
                             [event |-> EventOf[r.id], bank |-> r.seen.terms.bank,
                              receivedAt |-> t]]
      BY <2>3
    <3> DEFINE receipt == [event |-> EventOf[r.id], bank |-> r.seen.terms.bank,
                           receivedAt |-> t]
    <3>2. receipt.event = EventOf[r.id] /\ receipt.bank = r.seen.terms.bank
      OBVIOUS
    <3>3. rows' = [rows EXCEPT ![r.id].receipt = receipt]
      BY <3>1
    <3> HIDE DEF receipt
    <3> QED
      BY <3>2, <3>3
  <2>5. id = r.id /\ BankReady(r.seen) /\ rows[id] \in SavedRow
    BY <1>4, <2>1, <2>2, <2>3, <2>4
    DEF SystemInv, TablesOK, Wants, RequestOK, Working
  <2>6. rows'[id].receipt = receipt
    BY <2>2, <2>4, <2>5 DEF SystemInv, TablesOK, SavedRow
  <2>7. Exists(id) /\ orders[id].terms = r.seen.terms
    BY <2>2, <2>5 DEF SeenStands, BankReady
  <2> QED
    BY <2>2, <2>4, <2>5, <2>6, <2>7 DEF ReceiptFits, Exists
<1>5. ASSUME NEW r \in requests, Handle(r), ~Reserves(r), ~Decides(r)
      PROVE  rows' = rows
  BY <1>5
  DEF Handle, Asks, Notes, Looks, Submits, Prepares, Sends, Sent, database
<1>6. Requested \/ Drop \/ Outside \/ UNCHANGED system => rows' = rows
  BY DEF Requested, Create, Get, PrepareProof, SubmitProof, SimulateBank,
         Authorize, RequestSettle, Start, Drop, Outside, system, database
<1>7. ASSUME NEW n \in DOMAIN net, Include(n) \/ CustomerSends(n)
      PROVE  rows' = rows
  BY <1>7 DEF Include, CustomerSends, database
<1> QED
  BY <1>2, <1>3, <1>4, <1>5, <1>6, <1>7 DEF SystemNext

-----------------------------------------------------------------------------

LEMMA BankInit == SystemInit => BankInv
<1> SUFFICES ASSUME SystemInit PROVE BankInv
  OBVIOUS
<1>1. \A id \in Ids : rows[id] = None /\ credits[id] = None /\ ~Exists(id)
  BY DEF SystemInit, GateInit, Exists
<1>2. None \notin SavedRow
  BY NoneIsNoRow
<1>3. requests = {} /\ DOMAIN actions = {}
  BY DEF SystemInit
<1> QED
  BY <1>1, <1>2, <1>3 DEF BankInv, CreditStands, ReceiptStands, ReceiptFits

LEMMA BankNext ==
  ASSUME SystemInv, BankInv, [SystemNext]_system
  PROVE  BankInv'
<1>1. \A r \in requests' : SeenStands(r)'
  BY SeenStand
<1>2. \A id \in Ids : CreditStands(id)' /\ ReceiptStands(id)'
  BY CreditsStand, ReceiptsStand
<1>3. \A n \in DOMAIN actions' : CallStands(n)'
  BY NewCallsStand
<1>4. \A id \in Ids : ReceiptFits(id)'
  BY ReceiptsFit
<1> QED
  BY <1>1, <1>2, <1>3, <1>4 DEF BankInv

LEMMA SystemSpecBank == SystemSpec => []BankInv
  BY BankInit, BankNext, SystemSpecInv, PTL DEF SystemSpec

\* Lira are credited only on a promise that stands and is older than the
\* credit, and the contract knows no bank event but the one the server saved,
\* whatever requests see and write late: for every set of orders, offers and
\* requests.
THEOREM CreditsStayBacked == SystemSpec => []CreditBacked
<1>1. SystemInv /\ BankInv => CreditBacked
  BY BankInvBacks
<1> QED
  BY <1>1, SystemSpecBank, SystemSpecInv, PTL

-----------------------------------------------------------------------------
\* What the bank credited is redeemed.

\* An order's event is the SHA-256 of the contract and of the order's id
\* (src/anchor-gate.ts:752): no two orders share one.
EventsApart == \A i, j \in Ids : EventOf[i] = EventOf[j] => i = j

\* However late the server comes, the receipt it saved when it credited the
\* customer is one the contract records, from the ledger on that has reached its
\* time (the server's clock may be ahead), and once it is recorded nothing but
\* the call itself is missing for the order to settle.
CreditsRedeemable ==
    \A id \in Ids :
        credits[id] # None /\ ~orders[id].settled /\ credits[id] <= now =>
            IF orders[id].receipt = None THEN MayReceive(id, rows[id].receipt)
                                         ELSE MaySettle(id)

LEMMA CreditsAreRedeemable ==
  ASSUME EventsApart, SystemInv, BankInv, PromisesStand, PromisesPast
  PROVE  CreditsRedeemable
<1> SUFFICES ASSUME NEW id \in Ids, credits[id] # None, ~orders[id].settled,
                    credits[id] <= now
             PROVE  IF orders[id].receipt = None
                    THEN MayReceive(id, rows[id].receipt) ELSE MaySettle(id)
  BY DEF CreditsRedeemable
<1>1. /\ GateInv /\ CreditStands(id) /\ ReceiptFits(id)
      /\ \A j \in Ids : ReceiptStands(j) /\ ReceiptFits(j)
  BY DEF SystemInv, BankInv
<1>2. /\ rows[id] \in SavedRow /\ rows[id].receipt \in Receipts
      /\ rows[id].receipt.receivedAt = credits[id]
      /\ Exists(id) /\ Authorized(orders[id]) /\ orders[id].payout <= credits[id]
  BY <1>1 DEF CreditStands, Authorized
<1>3. /\ rows[id].receipt.event = EventOf[id]
      /\ rows[id].receipt.bank = orders[id].terms.bank
      /\ rows[id].receipt.event \in Events
  BY <1>1, <1>2, ReceiptsTyped DEF ReceiptFits, Receipts
<1>4. CASE orders[id].receipt # None
  BY <1>2, <1>4 DEF PromisesStand
<1>5. CASE orders[id].receipt = None
  <2>1. receiptOf[EventOf[id]] = None
    <3> SUFFICES ASSUME receiptOf[EventOf[id]] # None PROVE FALSE
      OBVIOUS
    <3>1. PICK j \in Ids : receiptOf[EventOf[id]] = j
      BY <1>1, <1>3 DEF GateInv, GateTypeOK, Option
    <3>2. /\ Exists(j) /\ orders[j].receipt # None
          /\ orders[j].receipt.event = EventOf[id]
      BY <1>1, <1>3, <3>1 DEF GateInv, EventsServeOne
    <3>3. EventOf[j] = EventOf[id]
      BY <1>1, <3>2 DEF ReceiptStands, Holds, ReceiptFits
    <3> QED
      BY <1>5, <3>2, <3>3 DEF EventsApart
  <2>2. /\ orders[id] \in OrderType /\ Lawful(orders[id])
    BY <1>1, <1>2, GatePresent DEF GateInv, OrdersLawful
  <2>3. /\ ~IsDeposit(orders[id]) /\ orders[id].escrowed
        /\ orders[id].eligibleUntil # None
    BY <1>2, <2>2 DEF Lawful
  <2> QED
    BY <1>2, <1>3, <1>5, <2>1, <2>3 DEF MayReceive, EarliestReceipt, Authorized
<1> QED
  BY <1>4, <1>5

\* Lira that the bank credited are never lost to the provider: the contract
\* takes the saved receipt and settles the order, whatever expired meanwhile,
\* for every set of orders and any number of requests, faults and restarts.
THEOREM CreditsStayRedeemable ==
  EventsApart => (SystemSpec => []CreditsRedeemable)
<1> SUFFICES ASSUME EventsApart PROVE SystemSpec => []CreditsRedeemable
  OBVIOUS
<1>1. SystemInv /\ BankInv /\ PromisesStand /\ PromisesPast => CreditsRedeemable
  BY CreditsAreRedeemable
<1> QED
  BY <1>1, SystemSpecBank, SystemSpecInv, CoordinatorDrivesGate,
     GatePromisesStand, GatePromisesPast, PTL

=============================================================================
