--------------------------- MODULE SepVaultProofs ---------------------------
(***************************************************************************)
(* What SepVault guarantees for every set of orders and every policy, and  *)
(* that it implements the escrow.                                          *)
(***************************************************************************)
EXTENDS SepVault, Sums

\* The initial contract has typed storage.
LEMMA InitTypeOK == Init => TypeOK
  BY ConfigAssumption, NoneAssumption
  DEF Init, TypeOK, Option

\* Only an option that is present has fields.
LEMMA PresentOrder ==
  ASSUME TypeOK, NEW id \in Ids, Exists(id)
  PROVE  orders[id] \in OrderType
  BY DEF TypeOK, Exists, Option

LEMMA TermsTyped ==
  ASSUME NEW t \in Terms
  PROVE  t \in TermsType
  BY ConfigAssumption

LEMMA AmountTyped ==
  ASSUME TypeOK, CustodyAttributed, NEW id \in Ids, Exists(id)
  PROVE  Amount(id) \in Nat \ {0}
<1>1. orders[id].terms \in TermsType
  BY PresentOrder, TermsTyped DEF OrderType
<1> QED
  BY <1>1 DEF CustodyAttributed, Attributed, Amount, TermsType

LEMMA ReserveTypeOK ==
  ASSUME TypeOK, NEW amount \in Nat, Reserve(amount)
  PROVE  /\ reserved' \in Nat
         /\ balance' \in [Accounts \cup {Vault} -> Nat]
  BY ConfigAssumption DEF TypeOK, Reserve, Move

LEMMA CreateOrderTypeOK ==
  ASSUME TypeOK, NEW id \in Ids, NEW t \in Terms, CreateOrder(id, t)
  PROVE  TypeOK'
<1>1. /\ t \in TermsType
      /\ t.amount \in Nat
  BY TermsTyped DEF CreateOrder, ValidTerms, TermsType
<1>2. /\ reserved' \in Nat
      /\ balance' \in [Accounts \cup {Vault} -> Nat]
  BY <1>1, ReserveTypeOK DEF CreateOrder, TypeOK
<1>3. NewOrder(t) \in OrderType
  BY <1>1 DEF NewOrder, OrderType, Option, TypeOK
<1>4. orders' \in [Ids -> Option(OrderType)]
  BY <1>3 DEF CreateOrder, TypeOK, Option
<1> QED
  BY <1>2, <1>4 DEF CreateOrder, TypeOK

LEMMA FundWithdrawalTypeOK ==
  ASSUME TypeOK, CustodyAttributed, NEW id \in Ids, NEW op \in Ops,
         FundWithdrawal(id, op)
  PROVE  TypeOK'
<1>1. Amount(id) \in Nat
  BY AmountTyped DEF FundWithdrawal
<1>2. /\ reserved' \in Nat
      /\ balance' \in [Accounts \cup {Vault} -> Nat]
  BY <1>1, ReserveTypeOK DEF FundWithdrawal
<1>3. orders[id] \in OrderType
  BY PresentOrder DEF FundWithdrawal
<1>4. [op |-> op, recordedAt |-> now] \in FundingType
  BY DEF FundingType, TypeOK
<1>5. orders'[id] \in OrderType
  BY <1>3, <1>4 DEF FundWithdrawal, OrderType, Option, TypeOK
<1>6. orders' \in [Ids -> Option(OrderType)]
  BY <1>5 DEF FundWithdrawal, TypeOK, Option
<1> QED
  BY <1>2, <1>6 DEF FundWithdrawal, TypeOK, Option

LEMMA AuthorizePayoutTypeOK ==
  ASSUME TypeOK, NEW id \in Ids, AuthorizePayout(id)
  PROVE  TypeOK'
<1>1. orders[id] \in OrderType
  BY PresentOrder DEF AuthorizePayout
<1>2. orders'[id] \in OrderType
  BY <1>1 DEF AuthorizePayout, OrderType, Option, TypeOK
<1>3. orders' \in [Ids -> Option(OrderType)]
  BY <1>2 DEF AuthorizePayout, TypeOK, Option
<1> QED
  BY <1>3 DEF AuthorizePayout, TypeOK

LEMMA RecordReceiptTypeOK ==
  ASSUME TypeOK, NEW id \in Ids, NEW r \in Receipts, RecordReceipt(id, r)
  PROVE  TypeOK'
<1>1. orders[id] \in OrderType
  BY PresentOrder DEF RecordReceipt
<1>2. r \in ReceiptType
  BY ConfigAssumption DEF Receipts, ReceiptType
<1>3. orders'[id] \in OrderType
  BY <1>1, <1>2 DEF RecordReceipt, OrderType, Option, TypeOK
<1>4. orders' \in [Ids -> Option(OrderType)]
  BY <1>3 DEF RecordReceipt, TypeOK, Option
<1>5. receiptOf' \in [Events -> Option(Ids)]
  BY DEF RecordReceipt, TypeOK, Option
<1> QED
  BY <1>4, <1>5 DEF RecordReceipt, TypeOK

\* Releasing an order moves typed amounts; `o` is the order's last state.
LEMMA ReleaseTypeOK ==
  ASSUME TypeOK, CustodyAttributed, NEW id \in Ids, Exists(id),
         NEW o \in OrderType, NEW to \in Accounts, Release(id, o, to)
  PROVE  /\ reserved' \in Nat
         /\ balance' \in [Accounts \cup {Vault} -> Nat]
         /\ orders' \in [Ids -> Option(OrderType)]
<1>1. Amount(id) \in Nat
  BY AmountTyped
<1>2. reserved' \in Nat
  BY <1>1 DEF Release, TypeOK
<1>3. balance' \in [Accounts \cup {Vault} -> Nat]
  BY <1>1, ConfigAssumption DEF Release, TypeOK, Move, Covered
<1>4. [o EXCEPT !.escrowed = FALSE] \in OrderType
  BY DEF OrderType
<1>5. orders' \in [Ids -> Option(OrderType)]
  BY <1>4 DEF Release, TypeOK, Option
<1> QED
  BY <1>2, <1>3, <1>5

LEMMA SettleTypeOK ==
  ASSUME TypeOK, CustodyAttributed, NEW id \in Ids, Settle(id)
  PROVE  TypeOK'
<1>1. Exists(id) /\ orders[id] \in OrderType
  BY PresentOrder DEF Settle
<1>2. [orders[id] EXCEPT !.settledAt = now] \in OrderType
  BY <1>1 DEF OrderType, Option, TypeOK
<1>3. Beneficiary(orders[id]) \in Accounts
  BY <1>1, TermsTyped, ConfigAssumption DEF Beneficiary, OrderType, TermsType
<1> QED
  BY <1>1, <1>2, <1>3, ReleaseTypeOK DEF Settle, TypeOK

LEMMA RefundTypeOK ==
  ASSUME TypeOK, CustodyAttributed, NEW id \in Ids, Refund(id)
  PROVE  TypeOK'
<1>1. Exists(id) /\ orders[id] \in OrderType
  BY PresentOrder DEF Refund
<1>2. [orders[id] EXCEPT !.refundedAt = now] \in OrderType
  BY <1>1 DEF OrderType, Option, TypeOK
<1>3. orders[id].terms.refundTo \in Accounts
  BY <1>1, TermsTyped DEF OrderType, TermsType
<1> QED
  BY <1>1, <1>2, <1>3, ReleaseTypeOK DEF Refund, TypeOK

LEMMA CancelTypeOK ==
  ASSUME TypeOK, CustodyAttributed, NEW id \in Ids, Cancel(id)
  PROVE  TypeOK'
<1>1. Exists(id) /\ orders[id] \in OrderType
  BY PresentOrder DEF Cancel
<1>2. [orders[id] EXCEPT !.cancelledAt = now] \in OrderType
  BY <1>1 DEF OrderType, Option, TypeOK
<1> QED
  BY <1>1, <1>2, ConfigAssumption, ReleaseTypeOK DEF Cancel, TypeOK

LEMMA SubmitEligibilityTypeOK ==
  ASSUME TypeOK, NEW s \in Subjects, NEW proofTime \in 0..MaxTime,
         SubmitEligibility(s, proofTime)
  PROVE  TypeOK'
<1>1. GrantFor(proofTime) \in GrantType
  BY ConfigAssumption DEF GrantFor, GrantType
<1>2. grants' \in [Subjects -> Option(GrantType)]
  BY <1>1 DEF SubmitEligibility, TypeOK, Option
<1> QED
  BY <1>2 DEF SubmitEligibility, TypeOK

\* What the world around the contract may do.
World ==
    \/ Tick
    \/ VerifierChange
    \/ \E a \in Freezable : TrustlineChange(a)
    \/ \E a \in Accounts, amount \in ClassicAmounts : Pay(a, amount)
    \/ \E a \in Accounts : Donate(a)
    \/ Clawback

LEMMA WorldTypeOK ==
  ASSUME TypeOK, World
  PROVE  TypeOK'
<1>1. CASE Tick
  BY <1>1, ConfigAssumption DEF Tick, TypeOK
<1>2. CASE VerifierChange
  BY <1>2 DEF VerifierChange, TypeOK
<1>3. ASSUME NEW a \in Freezable, TrustlineChange(a)
      PROVE  TypeOK'
  BY <1>3, ConfigAssumption DEF TrustlineChange, TypeOK
<1>4. ASSUME NEW a \in Accounts, Donate(a)
      PROVE  TypeOK'
  <2>1. balance' \in [Accounts \cup {Vault} -> Nat]
    BY <1>4, ConfigAssumption DEF Donate, Move, TypeOK
  <2> QED
    BY <1>4, <2>1 DEF Donate, TypeOK
<1>5. CASE Clawback
  <2>1. balance' \in [Accounts \cup {Vault} -> Nat]
    BY <1>5, ConfigAssumption DEF Clawback, TypeOK
  <2> QED
    BY <1>5, <2>1 DEF Clawback, TypeOK
<1>6. ASSUME NEW a \in Accounts, NEW amount \in ClassicAmounts, Pay(a, amount)
      PROVE  TypeOK'
  <2>1. balance' \in [Accounts \cup {Vault} -> Nat]
    BY <1>6, ConfigAssumption DEF Pay, Move, TypeOK
  <2> QED
    BY <1>6, <2>1 DEF Pay, TypeOK
<1> QED
  BY <1>1, <1>2, <1>3, <1>4, <1>5, <1>6 DEF World

-----------------------------------------------------------------------------
\* The invariants that speak of one order at a time.

OrderSound(o) ==
    /\ Attributed(o)
    /\ EndsOnce(o)
    /\ Backed(o)
    /\ o.createdAt <= now
    /\ o.createdAt < o.terms.deadline
    /\ FundedInTime(o)
    /\ PromisedInTime(o)
    /\ ReceivedInTime(o)
    /\ SettledInTime(o)
    /\ PaysEligible(o)

OrdersSound == \A id \in Ids : Exists(id) => OrderSound(orders[id])

LEMMA OrdersSoundParts ==
  OrdersSound <=> /\ CustodyAttributed
                  /\ OneOutcome
                  /\ ObligationBacked
                  /\ Timeline
                  /\ EligibleValue
  BY DEF OrdersSound, OrderSound, CustodyAttributed, OneOutcome,
         ObligationBacked, Timeline, EligibleValue

\* No call shortens a grant or loses it.
GrantsExtend ==
    \A s \in Subjects : grants[s] # None =>
        /\ grants'[s] # None
        /\ grants'[s].proofTime >= grants[s].proofTime
        /\ grants'[s].validUntil >= grants[s].validUntil

LEMMA SameGrantsExtend ==
  ASSUME TypeOK, UNCHANGED grants
  PROVE  GrantsExtend
  BY DEF GrantsExtend, TypeOK, Option, GrantType

LEMMA SubmitExtendsGrants ==
  ASSUME TypeOK, NEW s \in Subjects, NEW proofTime \in 0..MaxTime,
         SubmitEligibility(s, proofTime),
         GrantsFromProofs
  PROVE  GrantsExtend
<1>1. GrantFor(proofTime) # None
  BY ConfigAssumption, NoneAssumption DEF GrantFor, GrantType
<1> QED
  BY <1>1, ConfigAssumption
  DEF GrantsExtend, GrantsFromProofs, SubmitEligibility, TypeOK, Option, GrantType, GrantFor, Fresher

\* An order nobody touches stays sound while time passes and grants grow.
LEMMA SoundStays ==
  ASSUME TypeOK, NEW id \in Ids, Exists(id), OrderSound(orders[id]),
         orders'[id] = orders[id], TypeOK', now <= now', GrantsExtend
  PROVE  OrderSound(orders[id])'
<1>1. orders[id] \in OrderType /\ orders[id].terms \in TermsType
  BY PresentOrder, TermsTyped DEF OrderType
<1>2. SubjectOf[orders[id].terms.recipient] \in Subjects
  BY <1>1, ConfigAssumption DEF TermsType
<1>3. PaysEligible(orders[id])'
  BY <1>1, <1>2, NoneAssumption
  DEF OrderSound, PaysEligible, CoveredByGrant, GrantsExtend, Authorized,
      IsDeposit, OrderType, Option, TypeOK, GrantType
<1>4. /\ FundedInTime(orders[id])'
      /\ PromisedInTime(orders[id])'
      /\ ReceivedInTime(orders[id])'
      /\ SettledInTime(orders[id])'
  BY <1>1, NoneAssumption
  DEF OrderSound, FundedInTime, PromisedInTime, ReceivedInTime, SettledInTime,
      EarliestReceipt, Authorized, IsDeposit, IsWithdrawal, OrderType, Option,
      TypeOK, ReceiptType, FundingType, TermsType
<1> QED
  BY <1>1, <1>3, <1>4
  DEF OrderSound, Attributed, EndsOnce, Backed, Terminal, Authorized,
      IsDeposit, IsWithdrawal, OrderType, TypeOK

-----------------------------------------------------------------------------
\* Each call leaves the order it names sound.

LEMMA CreateOrderSound ==
  ASSUME TypeOK, NEW id \in Ids, NEW t \in Terms, CreateOrder(id, t)
  PROVE  OrderSound(orders[id])'
<1>1. t \in TermsType
  BY TermsTyped
<1>2. orders'[id] = NewOrder(t) /\ now' = now
  BY DEF CreateOrder, TypeOK
<1>3. /\ ~Terminal(NewOrder(t))
      /\ ~Authorized(NewOrder(t))
      /\ NewOrder(t).terms = t
      /\ NewOrder(t).createdAt = now
      /\ NewOrder(t).receipt = None
      /\ NewOrder(t).funding = None
      /\ NewOrder(t).escrowed <=> t.direction = "deposit"
  BY DEF NewOrder, Terminal, Authorized
<1>4. Attributed(orders[id])'
  BY <1>1, <1>2, <1>3
  DEF CreateOrder, ValidTerms, Attributed, IsWithdrawal, TermsType, Terminal
<1>5. EndsOnce(orders[id])' /\ Backed(orders[id])'
  BY <1>2, <1>3 DEF EndsOnce, Backed, Terminal, Authorized
<1>6. PaysEligible(orders[id])'
  BY <1>2, <1>3 DEF PaysEligible, Terminal, Authorized
<1> QED
  BY <1>1, <1>2, <1>3, <1>4, <1>5, <1>6
  DEF CreateOrder, ValidTerms, OrderSound, FundedInTime, PromisedInTime,
      ReceivedInTime, SettledInTime, Terminal, Authorized, TermsType, TypeOK

LEMMA FundWithdrawalSound ==
  ASSUME TypeOK, OrdersSound, NEW id \in Ids, NEW op \in Ops,
         FundWithdrawal(id, op)
  PROVE  OrderSound(orders[id])'
<1>1. /\ orders[id] \in OrderType
      /\ orders[id].terms \in TermsType
      /\ OrderSound(orders[id])
  BY PresentOrder, TermsTyped DEF FundWithdrawal, OrderType, OrdersSound
<1>2. /\ orders'[id] = [orders[id] EXCEPT
                          !.escrowed = TRUE,
                          !.funding = [op |-> op, recordedAt |-> now]]
      /\ now' = now
  BY DEF FundWithdrawal, TypeOK
<1>3. [op |-> op, recordedAt |-> now] # None
  BY NoneAssumption DEF FundingType, TypeOK
<1> QED
  BY <1>1, <1>2, <1>3
  DEF FundWithdrawal, OrderSound, Attributed, EndsOnce, Backed, FundedInTime,
      PromisedInTime, ReceivedInTime, SettledInTime, EarliestReceipt,
      PaysEligible, Terminal, Authorized, IsDeposit, IsWithdrawal, OrderType,
      TermsType, TypeOK

LEMMA AuthorizePayoutSound ==
  ASSUME TypeOK, OrdersSound, NEW id \in Ids, AuthorizePayout(id)
  PROVE  OrderSound(orders[id])'
<1>1. /\ orders[id] \in OrderType
      /\ orders[id].terms \in TermsType
      /\ OrderSound(orders[id])
  BY PresentOrder, TermsTyped DEF AuthorizePayout, OrderType, OrdersSound
<1>2. /\ orders'[id] = [orders[id] EXCEPT !.payout = now]
      /\ now' = now
      /\ UNCHANGED grants
  BY DEF AuthorizePayout, TypeOK
<1>3. CoveredByGrant(orders[id].terms.recipient, now)'
  BY <1>1, <1>2
  DEF AuthorizePayout, ActiveEligibility, CoveredByGrant, OrderSound, Attributed
<1>4. orders[id].funding # None /\ orders[id].funding.recordedAt <= now
  BY <1>1 DEF AuthorizePayout, Untouched, OrderSound, Attributed, FundedInTime
<1>5. PaysEligible(orders[id])'
  BY <1>1, <1>2, <1>3 DEF AuthorizePayout, PaysEligible, IsDeposit,
      IsWithdrawal, OrderType
<1> QED
  BY <1>1, <1>2, <1>4, <1>5
  DEF AuthorizePayout, Untouched, OrderSound, Attributed, EndsOnce, Backed,
      FundedInTime, PromisedInTime, ReceivedInTime, SettledInTime, Terminal,
      Authorized, IsDeposit, IsWithdrawal, OrderType, TermsType, TypeOK

LEMMA RecordReceiptSound ==
  ASSUME TypeOK, OrdersSound, NEW id \in Ids, NEW r \in Receipts,
         RecordReceipt(id, r)
  PROVE  OrderSound(orders[id])'
<1>1. /\ orders[id] \in OrderType
      /\ orders[id].terms \in TermsType
      /\ OrderSound(orders[id])
  BY PresentOrder, TermsTyped DEF RecordReceipt, OrderType, OrdersSound
<1>2. /\ orders'[id] = [orders[id] EXCEPT !.receipt = r]
      /\ now' = now
      /\ UNCHANGED grants
  BY DEF RecordReceipt, TypeOK
<1>3. orders'[id].receipt.receivedAt = r.receivedAt
  BY <1>1, <1>2 DEF OrderType
<1> QED
  BY <1>1, <1>2, <1>3
  DEF RecordReceipt, ReceiptReady, OrderSound, Attributed, EndsOnce, Backed,
      FundedInTime, PromisedInTime, ReceivedInTime, SettledInTime,
      EarliestReceipt, PaysEligible, CoveredByGrant, Terminal, Authorized,
      IsDeposit, IsWithdrawal, OrderType, TermsType, TypeOK

LEMMA SettleSound ==
  ASSUME TypeOK, OrdersSound, NEW id \in Ids, Settle(id)
  PROVE  OrderSound(orders[id])'
<1>1. /\ orders[id] \in OrderType
      /\ orders[id].terms \in TermsType
      /\ OrderSound(orders[id])
  BY PresentOrder, TermsTyped DEF Settle, OrderType, OrdersSound
<1>2. /\ orders'[id] = [orders[id] EXCEPT !.settledAt = now,
                                          !.escrowed = FALSE]
      /\ now' = now
      /\ UNCHANGED grants
  BY <1>1 DEF Settle, Release, TypeOK, OrderType
<1>3. IsDeposit(orders[id]) => CoveredByGrant(orders[id].terms.recipient, now)'
  BY <1>1, <1>2
  DEF Settle, SettleReady, ActiveEligibility, CoveredByGrant, OrderSound,
      Attributed
<1>4. PaysEligible(orders[id])'
  BY <1>1, <1>2, <1>3
  DEF OrderSound, PaysEligible, CoveredByGrant, Authorized, IsDeposit, OrderType
<1>5. now # None
  BY NoneAssumption DEF TypeOK
<1> QED
  BY <1>1, <1>2, <1>4, <1>5
  DEF Settle, SettleReady, OrderSound, Attributed, EndsOnce, Backed,
      FundedInTime, PromisedInTime, ReceivedInTime, SettledInTime,
      EarliestReceipt, Terminal, Authorized, IsDeposit, IsWithdrawal,
      OrderType, TermsType, TypeOK

LEMMA RefundSound ==
  ASSUME TypeOK, OrdersSound, NEW id \in Ids, Refund(id)
  PROVE  OrderSound(orders[id])'
<1>1. /\ orders[id] \in OrderType
      /\ orders[id].terms \in TermsType
      /\ OrderSound(orders[id])
  BY PresentOrder, TermsTyped DEF Refund, OrderType, OrdersSound
<1>2. /\ orders'[id] = [orders[id] EXCEPT !.refundedAt = now,
                                          !.escrowed = FALSE]
      /\ now' = now
      /\ UNCHANGED grants
  BY <1>1 DEF Refund, Release, TypeOK, OrderType
<1> QED
  BY <1>1, <1>2
  DEF Refund, Untouched, OrderSound, Attributed, EndsOnce, Backed,
      FundedInTime, PromisedInTime, ReceivedInTime, SettledInTime,
      EarliestReceipt, PaysEligible, CoveredByGrant, Terminal, Authorized,
      IsDeposit, IsWithdrawal, OrderType, TermsType, TypeOK

LEMMA CancelSound ==
  ASSUME TypeOK, OrdersSound, NEW id \in Ids, Cancel(id)
  PROVE  OrderSound(orders[id])'
<1>1. /\ orders[id] \in OrderType
      /\ orders[id].terms \in TermsType
      /\ OrderSound(orders[id])
  BY PresentOrder, TermsTyped DEF Cancel, OrderType, OrdersSound
<1>2. /\ orders'[id] = [orders[id] EXCEPT !.cancelledAt = now,
                                          !.escrowed = FALSE]
      /\ now' = now
      /\ UNCHANGED grants
  BY <1>1 DEF Cancel, Release, TypeOK, OrderType
<1> QED
  BY <1>1, <1>2
  DEF Cancel, Untouched, OrderSound, Attributed, EndsOnce, Backed,
      FundedInTime, PromisedInTime, ReceivedInTime, SettledInTime,
      EarliestReceipt, PaysEligible, CoveredByGrant, Terminal, Authorized,
      IsDeposit, IsWithdrawal, OrderType, TermsType, TypeOK

-----------------------------------------------------------------------------
\* The inductive invariant.  The properties are not inductive one by one:
\* releases stay typed because amounts are positive (CustodyAttributed), a
\* promise is funded because escrow is attributed, and grants only grow
\* because each is the function of its proof's time (GrantsFromProofs).

IInv ==
    /\ TypeOK
    /\ OrdersSound
    /\ EvidenceUnique
    /\ Solvent
    /\ GrantsFromProofs

LEMMA InitIInv == Init => IInv
<1> SUFFICES ASSUME Init PROVE IInv
  OBVIOUS
<1>1. TypeOK
  BY InitTypeOK
<1>2. OrdersSound
  BY DEF Init, OrdersSound, Exists
<1>3. EvidenceUnique
  BY NoneAssumption DEF Init, EvidenceUnique, HasReceipt, HasFunding, Exists
<1>4. Solvent
  <2>1. balance[Vault] = 0 /\ reserved = 0
    BY ConfigAssumption DEF Init
  <2> QED
    BY <2>1 DEF Solvent, Covered
<1>5. GrantsFromProofs
  BY DEF Init, GrantsFromProofs
<1> QED
  BY <1>1, <1>2, <1>3, <1>4, <1>5 DEF IInv

LEMMA CallTypeOK ==
  ASSUME IInv, NEW id \in Ids, Call(id)
  PROVE  TypeOK'
<1> TypeOK /\ CustodyAttributed
  BY OrdersSoundParts DEF IInv
<1>1. ASSUME NEW t \in Terms, CreateOrder(id, t) PROVE TypeOK'
  BY <1>1, CreateOrderTypeOK
<1>2. ASSUME NEW op \in Ops, FundWithdrawal(id, op) PROVE TypeOK'
  BY <1>2, FundWithdrawalTypeOK
<1>3. CASE AuthorizePayout(id)
  BY <1>3, AuthorizePayoutTypeOK
<1>4. ASSUME NEW r \in Receipts, RecordReceipt(id, r) PROVE TypeOK'
  BY <1>4, RecordReceiptTypeOK
<1>5. CASE Settle(id)
  BY <1>5, SettleTypeOK
<1>6. CASE Refund(id)
  BY <1>6, RefundTypeOK
<1>7. CASE Cancel(id)
  BY <1>7, CancelTypeOK
<1> QED
  BY <1>1, <1>2, <1>3, <1>4, <1>5, <1>6, <1>7 DEF Call

\* A call writes one order, and neither the clock nor a grant.
LEMMA CallWritesOneOrder ==
  ASSUME TypeOK, NEW id \in Ids, Call(id)
  PROVE  /\ \A other \in Ids \ {id} : orders'[other] = orders[other]
         /\ now' = now
         /\ UNCHANGED grants
  BY DEF Call, CreateOrder, FundWithdrawal, AuthorizePayout, RecordReceipt,
         Settle, Refund, Cancel, Release, TypeOK

LEMMA CallOrdersSound ==
  ASSUME IInv, NEW id \in Ids, Call(id)
  PROVE  OrdersSound'
<1>1. TypeOK /\ TypeOK' /\ OrdersSound
  BY CallTypeOK DEF IInv
<1>2. OrderSound(orders[id])'
  BY <1>1, CreateOrderSound, FundWithdrawalSound, AuthorizePayoutSound,
     RecordReceiptSound, SettleSound, RefundSound, CancelSound DEF Call
<1>3. ASSUME NEW other \in Ids, other # id, Exists(other)'
      PROVE  OrderSound(orders[other])'
  <2>1. orders'[other] = orders[other] /\ now <= now' /\ UNCHANGED grants
    BY <1>1, <1>3, CallWritesOneOrder DEF TypeOK
  <2>2. Exists(other) /\ OrderSound(orders[other])
    BY <1>1, <1>3, <2>1 DEF Exists, OrdersSound
  <2> QED
    BY <1>1, <2>1, <2>2, SameGrantsExtend, SoundStays
<1>4. ASSUME NEW j \in Ids, Exists(j)'
      PROVE  OrderSound(orders[j])'
  BY <1>2, <1>3, <1>4
<1> QED
  BY <1>4 DEF OrdersSound

\* Evidence stays unique when the order written keeps its evidence...
LEMMA EvidenceKept ==
  ASSUME EvidenceUnique, NEW id \in Ids,
         UNCHANGED <<receiptOf, fundingOf>>,
         \A other \in Ids \ {id} : orders'[other] = orders[other],
         \A e \in Events : HasReceipt(id, e)' <=> HasReceipt(id, e),
         \A op \in Ops : HasFunding(id, op)' <=> HasFunding(id, op)
  PROVE  EvidenceUnique'
<1>1. ASSUME NEW e \in Events, NEW other \in Ids
      PROVE  (receiptOf[e] = other <=> HasReceipt(other, e))'
  <2>1. CASE other = id
    BY <2>1 DEF EvidenceUnique
  <2>2. CASE other # id
    BY <2>2 DEF EvidenceUnique, HasReceipt, Exists
  <2> QED
    BY <2>1, <2>2
<1>2. ASSUME NEW op \in Ops, NEW other \in Ids
      PROVE  (fundingOf[op] = other <=> HasFunding(other, op))'
  <2>1. CASE other = id
    BY <2>1 DEF EvidenceUnique
  <2>2. CASE other # id
    BY <2>2 DEF EvidenceUnique, HasFunding, Exists
  <2> QED
    BY <2>1, <2>2
<1> QED
  BY <1>1, <1>2 DEF EvidenceUnique

\* ... or takes a key that no order has.
LEMMA CreateOrderEvidence ==
  ASSUME IInv, NEW id \in Ids, NEW t \in Terms, CreateOrder(id, t)
  PROVE  EvidenceUnique'
<1>1. orders'[id] = NewOrder(t) /\ ~Exists(id)
  BY DEF CreateOrder, IInv, TypeOK
<1>2. Call(id)
  BY DEF Call
<1>3. /\ \A e \in Events : ~HasReceipt(id, e)' /\ ~HasReceipt(id, e)
      /\ \A op \in Ops : ~HasFunding(id, op)' /\ ~HasFunding(id, op)
  BY <1>1 DEF HasReceipt, HasFunding, NewOrder
<1> QED
  BY <1>2, <1>3, CallWritesOneOrder, EvidenceKept DEF CreateOrder, IInv

LEMMA FundWithdrawalEvidence ==
  ASSUME IInv, NEW id \in Ids, NEW op \in Ops, FundWithdrawal(id, op)
  PROVE  EvidenceUnique'
<1>1. /\ TypeOK /\ EvidenceUnique
      /\ orders[id] \in OrderType
      /\ Exists(id) /\ orders[id].funding = None /\ fundingOf[op] = None
  BY PresentOrder DEF FundWithdrawal, Unused, IInv
<1>2. /\ orders'[id].funding = [op |-> op, recordedAt |-> now]
      /\ orders'[id].receipt = orders[id].receipt
      /\ orders'[id] \in OrderType
  BY <1>1 DEF FundWithdrawal, TypeOK, OrderType, FundingType, Option
<1>3. /\ orders'[id].funding # None
      /\ orders'[id].funding.op = op
      /\ Exists(id)'
  BY <1>1, <1>2, NoneAssumption DEF FundingType, TypeOK, Exists
<1>4. /\ \A other \in Ids \ {id} : orders'[other] = orders[other]
      /\ fundingOf' = [fundingOf EXCEPT ![op] = id]
      /\ UNCHANGED receiptOf
  BY <1>1 DEF FundWithdrawal, TypeOK
<1>5. ASSUME NEW e \in Events, NEW other \in Ids
      PROVE  (receiptOf[e] = other <=> HasReceipt(other, e))'
  <2>1. CASE other = id
    BY <1>1, <1>2, <1>3, <1>4, <2>1 DEF EvidenceUnique, HasReceipt
  <2>2. CASE other # id
    BY <1>1, <1>4, <2>2 DEF EvidenceUnique, HasReceipt, Exists
  <2> QED
    BY <2>1, <2>2
<1>6. ASSUME NEW other \in Ids
      PROVE  (fundingOf[op] = other <=> HasFunding(other, op))'
  <2>1. fundingOf'[op] = id
    BY <1>1, <1>4 DEF TypeOK
  <2>2. CASE other = id
    BY <1>3, <2>1, <2>2 DEF HasFunding
  <2>3. CASE other # id
    <3>1. fundingOf[op] # other
      BY <1>1, NoneAssumption
    <3>2. ~HasFunding(other, op)
      BY <1>1, <3>1 DEF EvidenceUnique
    <3> QED
      BY <1>4, <2>1, <2>3, <3>2 DEF HasFunding, Exists
  <2> QED
    BY <2>2, <2>3
<1>7. ASSUME NEW op2 \in Ops, op2 # op, NEW other \in Ids
      PROVE  (fundingOf[op2] = other <=> HasFunding(other, op2))'
  <2>1. fundingOf'[op2] = fundingOf[op2]
    BY <1>1, <1>4, <1>7 DEF TypeOK
  <2>2. CASE other = id
    <3>1. ~HasFunding(id, op2)
      BY <1>1 DEF HasFunding
    <3>2. fundingOf[op2] # id
      BY <1>1, <3>1 DEF EvidenceUnique
    <3> QED
      BY <1>3, <1>7, <2>1, <2>2, <3>2 DEF HasFunding
  <2>3. CASE other # id
    BY <1>1, <1>4, <2>1, <2>3 DEF EvidenceUnique, HasFunding, Exists
  <2> QED
    BY <2>2, <2>3
<1> QED
  BY <1>5, <1>6, <1>7 DEF EvidenceUnique

LEMMA RecordReceiptEvidence ==
  ASSUME IInv, NEW id \in Ids, NEW r \in Receipts, RecordReceipt(id, r)
  PROVE  EvidenceUnique'
<1>1. /\ TypeOK /\ EvidenceUnique
      /\ orders[id] \in OrderType
      /\ r \in ReceiptType
      /\ Exists(id) /\ orders[id].receipt = None
      /\ receiptOf[r.event] = None
  BY PresentOrder, ConfigAssumption
  DEF RecordReceipt, Unused, IInv, Receipts, ReceiptType
<1>2. /\ orders'[id].receipt = r
      /\ orders'[id].funding = orders[id].funding
      /\ orders'[id] \in OrderType
  BY <1>1 DEF RecordReceipt, TypeOK, OrderType, Option
<1>3. /\ orders'[id].receipt # None
      /\ r.event \in Events
      /\ Exists(id)'
  BY <1>1, <1>2, NoneAssumption DEF ReceiptType, Exists
<1>4. /\ \A other \in Ids \ {id} : orders'[other] = orders[other]
      /\ receiptOf' = [receiptOf EXCEPT ![r.event] = id]
      /\ UNCHANGED fundingOf
  BY <1>1 DEF RecordReceipt, TypeOK
<1>5. ASSUME NEW op \in Ops, NEW other \in Ids
      PROVE  (fundingOf[op] = other <=> HasFunding(other, op))'
  <2>1. CASE other = id
    BY <1>1, <1>2, <1>3, <1>4, <2>1 DEF EvidenceUnique, HasFunding
  <2>2. CASE other # id
    BY <1>1, <1>4, <2>2 DEF EvidenceUnique, HasFunding, Exists
  <2> QED
    BY <2>1, <2>2
<1>6. ASSUME NEW other \in Ids
      PROVE  (receiptOf[r.event] = other <=> HasReceipt(other, r.event))'
  <2>1. receiptOf'[r.event] = id
    BY <1>1, <1>3, <1>4 DEF TypeOK
  <2>2. CASE other = id
    BY <1>2, <1>3, <2>1, <2>2 DEF HasReceipt
  <2>3. CASE other # id
    <3>1. receiptOf[r.event] # other
      BY <1>1, NoneAssumption
    <3>2. ~HasReceipt(other, r.event)
      BY <1>1, <1>3, <3>1 DEF EvidenceUnique
    <3> QED
      BY <1>4, <2>1, <2>3, <3>2 DEF HasReceipt, Exists
  <2> QED
    BY <2>2, <2>3
<1>7. ASSUME NEW e \in Events, e # r.event, NEW other \in Ids
      PROVE  (receiptOf[e] = other <=> HasReceipt(other, e))'
  <2>1. receiptOf'[e] = receiptOf[e]
    BY <1>1, <1>3, <1>4, <1>7 DEF TypeOK
  <2>2. CASE other = id
    <3>1. ~HasReceipt(id, e)
      BY <1>1 DEF HasReceipt
    <3>2. receiptOf[e] # id
      BY <1>1, <3>1 DEF EvidenceUnique
    <3> QED
      BY <1>2, <1>3, <1>7, <2>1, <2>2, <3>2 DEF HasReceipt
  <2>3. CASE other # id
    BY <1>1, <1>4, <2>1, <2>3 DEF EvidenceUnique, HasReceipt, Exists
  <2> QED
    BY <2>2, <2>3
<1> QED
  BY <1>5, <1>6, <1>7 DEF EvidenceUnique

LEMMA AuthorizePayoutEvidence ==
  ASSUME IInv, NEW id \in Ids, AuthorizePayout(id)
  PROVE  EvidenceUnique'
<1>1. /\ TypeOK /\ EvidenceUnique
      /\ orders[id] \in OrderType
      /\ Exists(id)
      /\ orders'[id] = [orders[id] EXCEPT !.payout = now]
  BY PresentOrder DEF AuthorizePayout, IInv, TypeOK
<1>2. orders'[id] \in OrderType
  BY <1>1 DEF TypeOK, OrderType, Option
<1>3. /\ Exists(id)'
      /\ orders'[id].receipt = orders[id].receipt
      /\ orders'[id].funding = orders[id].funding
  BY <1>1, <1>2, NoneAssumption DEF OrderType, Exists
<1>4. Call(id)
  BY DEF Call
<1>5. /\ \A e \in Events : HasReceipt(id, e)' <=> HasReceipt(id, e)
      /\ \A op \in Ops : HasFunding(id, op)' <=> HasFunding(id, op)
  BY <1>1, <1>3 DEF HasReceipt, HasFunding
<1> QED
  BY <1>1, <1>4, <1>5, CallWritesOneOrder, EvidenceKept DEF AuthorizePayout

LEMMA ReleaseEvidence ==
  ASSUME IInv, NEW id \in Ids, Settle(id) \/ Refund(id) \/ Cancel(id)
  PROVE  EvidenceUnique'
<1>1. /\ TypeOK /\ EvidenceUnique
      /\ orders[id] \in OrderType
      /\ Exists(id)
      /\ UNCHANGED <<receiptOf, fundingOf>>
  BY PresentOrder DEF Settle, Refund, Cancel, IInv
<1>2. PICK o \in {[orders[id] EXCEPT !.settledAt = now],
                  [orders[id] EXCEPT !.refundedAt = now],
                  [orders[id] EXCEPT !.cancelledAt = now]} :
         orders' = [orders EXCEPT ![id] = [o EXCEPT !.escrowed = FALSE]]
  BY DEF Settle, Refund, Cancel, Release
<1>3. /\ o \in OrderType
      /\ o.receipt = orders[id].receipt
      /\ o.funding = orders[id].funding
  BY <1>1, <1>2 DEF OrderType, Option, TypeOK
<1>4. /\ [o EXCEPT !.escrowed = FALSE] \in OrderType
      /\ orders'[id] = [o EXCEPT !.escrowed = FALSE]
  BY <1>1, <1>2, <1>3 DEF OrderType, TypeOK
<1>5. /\ Exists(id)'
      /\ orders'[id].receipt = orders[id].receipt
      /\ orders'[id].funding = orders[id].funding
  BY <1>3, <1>4, NoneAssumption DEF OrderType, Exists
<1>6. Call(id)
  BY DEF Call
<1>7. /\ \A e \in Events : HasReceipt(id, e)' <=> HasReceipt(id, e)
      /\ \A op \in Ops : HasFunding(id, op)' <=> HasFunding(id, op)
  BY <1>1, <1>5 DEF HasReceipt, HasFunding
<1> QED
  BY <1>1, <1>6, <1>7, CallWritesOneOrder, EvidenceKept

LEMMA CallEvidenceUnique ==
  ASSUME IInv, NEW id \in Ids, Call(id)
  PROVE  EvidenceUnique'
  BY CreateOrderEvidence, FundWithdrawalEvidence, RecordReceiptEvidence,
     AuthorizePayoutEvidence, ReleaseEvidence DEF Call

\* Tokens: every call moves the balance and the total by the same amount.
LEMMA CallSolvent ==
  ASSUME IInv, NEW id \in Ids, Call(id)
  PROVE  Solvent'
<1> SUFFICES ASSUME ~ClawbackEnabled PROVE Covered'
  BY DEF Solvent
<1>1. /\ TypeOK /\ Covered
      /\ Exists(id) => Amount(id) \in Nat \ {0}
  BY AmountTyped, OrdersSoundParts DEF IInv, Solvent
<1>2. /\ Provider \in Accounts /\ Vault \notin Accounts
      /\ balance[Vault] \in Nat /\ reserved \in Nat
  BY <1>1, ConfigAssumption DEF TypeOK
<1>3. ASSUME NEW amount \in Nat, Reserve(amount)
      PROVE  Covered'
  BY <1>1, <1>2, <1>3 DEF Covered, Reserve, Move, TypeOK
<1>4. ASSUME NEW o, NEW to \in Accounts, Exists(id), Release(id, o, to)
      PROVE  Covered'
  <2>1. balance'[Vault] = balance[Vault] - Amount(id)
    BY <1>1, <1>2, <1>4 DEF Release, Move, TypeOK
  <2> QED
    BY <1>1, <1>2, <1>4, <2>1 DEF Covered, Release
<1>5. ASSUME NEW t \in Terms, CreateOrder(id, t) PROVE Covered'
  <2>1. t.amount \in Nat
    BY <1>5, TermsTyped DEF CreateOrder, ValidTerms, TermsType
  <2> QED
    BY <1>1, <1>3, <1>5, <2>1 DEF CreateOrder, Covered
<1>6. ASSUME NEW op \in Ops, FundWithdrawal(id, op) PROVE Covered'
  BY <1>1, <1>3, <1>6 DEF FundWithdrawal
<1>7. CASE AuthorizePayout(id)
  BY <1>1, <1>7 DEF AuthorizePayout, Covered
<1>8. ASSUME NEW r \in Receipts, RecordReceipt(id, r) PROVE Covered'
  BY <1>1, <1>8 DEF RecordReceipt, Covered
<1>9. Exists(id) => orders[id].terms \in TermsType
  BY <1>1, PresentOrder, TermsTyped DEF OrderType
<1>10. CASE Settle(id)
  <2>1. Exists(id) /\ Beneficiary(orders[id]) \in Accounts
    BY <1>2, <1>9, <1>10 DEF Settle, Beneficiary, TermsType
  <2> QED
    BY <1>4, <1>10, <2>1 DEF Settle
<1>11. CASE Refund(id)
  <2>1. Exists(id) /\ orders[id].terms.refundTo \in Accounts
    BY <1>9, <1>11 DEF Refund, TermsType
  <2> QED
    BY <1>4, <1>11, <2>1 DEF Refund
<1>12. CASE Cancel(id)
  BY <1>2, <1>4, <1>12 DEF Cancel
<1> QED
  BY <1>5, <1>6, <1>7, <1>8, <1>10, <1>11, <1>12 DEF Call

LEMMA CallIInv ==
  ASSUME IInv, NEW id \in Ids, Call(id)
  PROVE  IInv'
<1>1. GrantsFromProofs'
  BY CallWritesOneOrder DEF IInv, GrantsFromProofs, GrantFor
<1> QED
  BY <1>1, CallTypeOK, CallOrdersSound, CallEvidenceUnique, CallSolvent DEF IInv

\* Steps that write no order.
LEMMA OrdersUntouched ==
  ASSUME IInv, TypeOK', UNCHANGED orders, now <= now', GrantsExtend
  PROVE  OrdersSound'
<1>1. ASSUME NEW id \in Ids, Exists(id)' PROVE OrderSound(orders[id])'
  BY <1>1, SoundStays DEF IInv, OrdersSound, Exists
<1> QED
  BY <1>1 DEF OrdersSound

LEMMA SubmitEligibilityIInv ==
  ASSUME IInv, NEW s \in Subjects, NEW proofTime \in 0..MaxTime,
         SubmitEligibility(s, proofTime)
  PROVE  IInv'
<1>1. TypeOK /\ TypeOK' /\ now <= now'
  <2>1. TypeOK /\ TypeOK'
    BY SubmitEligibilityTypeOK DEF IInv
  <2> QED
    BY <2>1 DEF TypeOK, SubmitEligibility
<1>2. OrdersSound'
  <2>1. GrantsExtend
    BY <1>1, SubmitExtendsGrants DEF IInv
  <2>2. UNCHANGED orders
    BY DEF SubmitEligibility
  <2> QED
    BY <1>1, <2>1, <2>2, OrdersUntouched
<1>3. EvidenceUnique' /\ Solvent'
  BY DEF IInv, SubmitEligibility, EvidenceUnique, HasReceipt, HasFunding,
         Exists, Solvent, Covered
<1>4. GrantsFromProofs'
  BY <1>1 DEF IInv, SubmitEligibility, GrantsFromProofs, GrantFor, Recent, TypeOK
<1> QED
  BY <1>1, <1>2, <1>3, <1>4 DEF IInv

LEMMA WorldIInv ==
  ASSUME IInv, World
  PROVE  IInv'
<1>1. TypeOK /\ TypeOK'
  BY WorldTypeOK DEF IInv
<1>2. /\ now <= now'
      /\ UNCHANGED <<orders, grants, receiptOf, fundingOf, reserved>>
  BY <1>1 DEF World, Tick, VerifierChange, TrustlineChange, Pay, Donate, Clawback, TypeOK
<1>3. OrdersSound'
  BY <1>1, <1>2, SameGrantsExtend, OrdersUntouched
<1>4. EvidenceUnique'
  BY <1>2 DEF IInv, EvidenceUnique, HasReceipt, HasFunding, Exists
<1>5. GrantsFromProofs'
  BY <1>1, <1>2 DEF IInv, GrantsFromProofs, GrantFor, TypeOK, Option, GrantType
<1>6. Solvent'
  <2> SUFFICES ASSUME ~ClawbackEnabled PROVE Covered'
    BY DEF Solvent
  <2>1. Covered /\ balance[Vault] \in Nat /\ reserved \in Nat
    BY <1>1 DEF IInv, Solvent, TypeOK
  <2>2. balance'[Vault] >= balance[Vault]
    BY <1>1, <2>1, ConfigAssumption
    DEF World, Tick, VerifierChange, TrustlineChange, Pay, Donate, Clawback, Move, TypeOK
  <2> QED
    BY <1>1, <1>2, <2>1, <2>2 DEF Covered, TypeOK
<1> QED
  BY <1>1, <1>3, <1>4, <1>5, <1>6 DEF IInv

LEMMA NextIInv == IInv /\ [Next]_vars => IInv'
<1> SUFFICES ASSUME IInv, [Next]_vars PROVE IInv'
  OBVIOUS
<1>1. ASSUME NEW id \in Ids, Call(id) PROVE IInv'
  BY <1>1, CallIInv
<1>2. ASSUME NEW s \in Subjects, NEW proofTime \in 0..MaxTime,
             SubmitEligibility(s, proofTime)
      PROVE  IInv'
  BY <1>2, SubmitEligibilityIInv
<1>3. CASE World
  BY <1>3, WorldIInv
<1>4. CASE UNCHANGED vars
  BY <1>4
  DEF vars, IInv, TypeOK, OrdersSound, OrderSound, Attributed, EndsOnce,
      Backed, FundedInTime, PromisedInTime, ReceivedInTime, SettledInTime,
      EarliestReceipt, PaysEligible, CoveredByGrant, EvidenceUnique,
      HasReceipt, HasFunding, Exists, Solvent, Covered, GrantsFromProofs,
      GrantFor, Terminal, Authorized, IsDeposit, IsWithdrawal
<1> QED
  BY <1>1, <1>2, <1>3, <1>4 DEF Next, World

LEMMA SpecIInv == Spec => []IInv
  BY InitIInv, NextIInv, PTL DEF Spec

-----------------------------------------------------------------------------
\* The theorems.

\* Storage is typed in every reachable state; the reserve never underflows.
THEOREM TypeCorrect == Spec => []TypeOK
<1>1. IInv => TypeOK
  BY DEF IInv
<1> QED
  BY <1>1, SpecIInv, PTL

\* Without clawback the vault always holds the whole reserve.
THEOREM AlwaysSolvent == Spec => []Solvent
<1>1. IInv => Solvent
  BY DEF IInv
<1> QED
  BY <1>1, SpecIInv, PTL

\* No interleaving of settle, refund and cancel ends an order twice.
THEOREM EndsAtMostOnce == Spec => []OneOutcome
<1>1. IInv => OneOutcome
  BY OrdersSoundParts DEF IInv
<1> QED
  BY <1>1, SpecIInv, PTL

\* A promised payout stays backed by custody until it settles.
THEOREM PromiseBacked == Spec => []ObligationBacked
<1>1. IInv => ObligationBacked
  BY OrdersSoundParts DEF IInv
<1> QED
  BY <1>1, SpecIInv, PTL

\* No bank event and no payment operation serves two orders.
THEOREM EvidenceServesOnce == Spec => []EvidenceUnique
<1>1. IInv => EvidenceUnique
  BY DEF IInv
<1> QED
  BY <1>1, SpecIInv, PTL

\* An order's recorded facts are in the order the exchange needs.
THEOREM FactsInOrder == Spec => []Timeline
<1>1. IInv => Timeline
  BY OrdersSoundParts DEF IInv
<1> QED
  BY <1>1, SpecIInv, PTL

\* Nothing is promised or paid out but to an account eligible at that instant.
THEOREM PaidWhileEligible == Spec => []EligibleValue
<1>1. IInv => EligibleValue
  BY OrdersSoundParts DEF IInv
<1> QED
  BY <1>1, SpecIInv, PTL

\* Custody is attributed and pays the account whose subject the order names.
THEOREM CustodyIsAttributed == Spec => []CustodyAttributed
<1>1. IInv => CustodyAttributed
  BY OrdersSoundParts DEF IInv
<1> QED
  BY <1>1, SpecIInv, PTL

\* No order in which proofs arrive rolls a grant back.
THEOREM GrantsNeverRollBack == Spec => GrantsOnlyImprove
<1>1. IInv /\ [Next]_vars => [GrantsExtend]_vars
  <2> SUFFICES ASSUME IInv, Next PROVE GrantsExtend
    OBVIOUS
  <2>1. TypeOK /\ GrantsFromProofs
    BY DEF IInv
  <2>2. ASSUME NEW id \in Ids, Call(id) PROVE GrantsExtend
    BY <2>1, <2>2, CallWritesOneOrder, SameGrantsExtend
  <2>3. CASE World
    BY <2>1, <2>3, SameGrantsExtend
    DEF World, Tick, VerifierChange, TrustlineChange, Pay, Donate, Clawback
  <2> QED
    BY <2>1, <2>2, <2>3, SubmitExtendsGrants DEF Next, World
<1> QED
  BY <1>1, SpecIInv, PTL DEF Spec, GrantsOnlyImprove, GrantsExtend

\* A grant on record is always the one its own proof is worth.
THEOREM GrantsAreProved == Spec => []GrantsFromProofs
<1>1. IInv => GrantsFromProofs
  BY DEF IInv
<1> QED
  BY <1>1, SpecIInv, PTL

-----------------------------------------------------------------------------
\* The contract implements the escrow.

Phase == [id \in Ids |-> Standing(id)]
Size  == [id \in Ids |-> IF Exists(id) THEN Amount(id) ELSE 0]

\* Where an order stands is read off the order alone.
LEMMA StandingKept ==
  ASSUME NEW id \in Ids, orders'[id] = orders[id]
  PROVE  Standing(id)' = Standing(id)
  BY DEF Standing, Exists, Untouched, Terminal, Authorized

\* The phases, one at a time.
LEMMA Standings ==
  ASSUME TypeOK, NEW id \in Ids, Exists(id)
  PROVE  /\ ~Terminal(orders[id]) /\ ~orders[id].escrowed
               => Standing(id) = "open"
         /\ Untouched(orders[id]) => Standing(id) = "held"
         /\ (/\ ~Terminal(orders[id])
             /\ orders[id].escrowed
             /\ Authorized(orders[id]) \/ orders[id].receipt # None)
               => Standing(id) = "owed"
         /\ orders[id].settledAt # None => Standing(id) = "paid"
         /\ Terminal(orders[id]) /\ orders[id].settledAt = None
               => Standing(id) = "returned"
<1>1. orders[id].escrowed \in BOOLEAN
  BY PresentOrder DEF OrderType
<1> QED
  BY <1>1 DEF Standing, Untouched, Terminal, Authorized

\* A call that rewrites one existing order and keeps its terms moves that
\* order's phase and nothing else.
LEMMA OnePhaseMoves ==
  ASSUME NEW id \in Ids, Exists(id), Exists(id)',
         orders'[id].terms = orders[id].terms,
         \A other \in Ids \ {id} : orders'[other] = orders[other]
  PROVE  /\ Phase' = [Phase EXCEPT ![id] = Standing(id)']
         /\ Size' = Size
<1>1. \A other \in Ids \ {id} : Standing(other)' = Standing(other)
  BY StandingKept
<1>2. Phase' = [Phase EXCEPT ![id] = Standing(id)']
  BY <1>1 DEF Phase
<1>3. Size' = Size
  BY DEF Size, Exists, Amount
<1> QED
  BY <1>2, <1>3

\* A call that rewrites an existing order.
Rewrites(id) ==
    \/ \E op \in Ops : FundWithdrawal(id, op)
    \/ AuthorizePayout(id)
    \/ \E r \in Receipts : RecordReceipt(id, r)
    \/ Settle(id)
    \/ Refund(id)
    \/ Cancel(id)

LEMMA RewritesKeepTerms ==
  ASSUME IInv, NEW id \in Ids, Rewrites(id)
  PROVE  /\ Exists(id) /\ Exists(id)'
         /\ orders[id] \in OrderType
         /\ orders'[id].terms = orders[id].terms
<1>1. TypeOK /\ TypeOK' /\ Call(id) /\ Exists(id)
  BY CallTypeOK
  DEF IInv, Rewrites, Call, FundWithdrawal, AuthorizePayout, RecordReceipt,
      Settle, Refund, Cancel
<1>2. orders[id] \in OrderType
  BY <1>1, PresentOrder
<1>3. \E o \in OrderType : o.terms = orders[id].terms /\ orders'[id] = o
  <2>1. ASSUME NEW op \in Ops, FundWithdrawal(id, op)
        PROVE  \E o \in OrderType : o.terms = orders[id].terms /\ orders'[id] = o
    <3>1. [op |-> op, recordedAt |-> now] \in FundingType
      BY <1>1 DEF FundingType, TypeOK
    <3> DEFINE o == [orders[id] EXCEPT !.escrowed = TRUE,
                         !.funding = [op |-> op, recordedAt |-> now]]
    <3>2. o \in OrderType /\ o.terms = orders[id].terms
      BY <1>2, <3>1 DEF OrderType, Option
    <3>3. orders'[id] = o
      BY <1>1, <2>1 DEF FundWithdrawal, TypeOK
    <3> QED
      BY <3>2, <3>3
  <2>2. CASE AuthorizePayout(id)
    BY <1>1, <1>2, <2>2 DEF AuthorizePayout, OrderType, Option, TypeOK
  <2>3. ASSUME NEW r \in Receipts, RecordReceipt(id, r)
        PROVE  \E o \in OrderType : o.terms = orders[id].terms /\ orders'[id] = o
    <3>1. r \in ReceiptType
      BY ConfigAssumption DEF Receipts, ReceiptType
    <3> QED
      BY <1>1, <1>2, <2>3, <3>1 DEF RecordReceipt, OrderType, Option, TypeOK
  <2>4. CASE Settle(id)
    BY <1>1, <1>2, <2>4 DEF Settle, Release, OrderType, Option, TypeOK
  <2>5. CASE Refund(id)
    BY <1>1, <1>2, <2>5 DEF Refund, Release, OrderType, Option, TypeOK
  <2>6. CASE Cancel(id)
    BY <1>1, <1>2, <2>6 DEF Cancel, Release, OrderType, Option, TypeOK
  <2> QED
    BY <2>1, <2>2, <2>3, <2>4, <2>5, <2>6 DEF Rewrites
<1>4. Exists(id)' /\ orders'[id].terms = orders[id].terms
  BY <1>3, NoneAssumption DEF Exists
<1> QED
  BY <1>1, <1>2, <1>4

LEMMA RewritesMoveOnePhase ==
  ASSUME IInv, NEW id \in Ids, Rewrites(id)
  PROVE  /\ Exists(id) /\ Exists(id)'
         /\ Phase' = [Phase EXCEPT ![id] = Standing(id)']
         /\ Size' = Size
<1>1. TypeOK /\ Call(id)
  BY DEF IInv, Rewrites, Call
<1> QED
  BY <1>1, RewritesKeepTerms, CallWritesOneOrder, OnePhaseMoves

\* Each call takes its order one step through the escrow's phases.
LEMMA CreateOpens ==
  ASSUME IInv, NEW id \in Ids, NEW t \in Terms, CreateOrder(id, t)
  PROVE  E!EscrowNext
<1>1. /\ TypeOK /\ t \in TermsType
      /\ orders'[id] = NewOrder(t)
      /\ \A other \in Ids \ {id} : orders'[other] = orders[other]
      /\ ~Exists(id)
  BY TermsTyped DEF IInv, CreateOrder, TypeOK
<1>2. NewOrder(t) \in OrderType
  BY <1>1 DEF NewOrder, OrderType, Option, TypeOK
<1>3. TypeOK' /\ Exists(id)'
  BY <1>1, <1>2, CreateOrderTypeOK, NoneAssumption DEF Exists
<1>4. t.amount \in 1..MaxAmount
  BY <1>1, ConfigAssumption DEF CreateOrder, ValidTerms, TermsType
<1>5. /\ Phase[id] = "none" /\ Size[id] = 0
      /\ Size' = [Size EXCEPT ![id] = t.amount]
  <2>1. Phase[id] = "none" /\ Size[id] = 0
    BY <1>1 DEF Phase, Size, Standing
  <2>2. Amount(id)' = t.amount
    BY <1>1 DEF Amount, NewOrder
  <2> QED
    BY <1>1, <1>3, <2>1, <2>2 DEF Size, Exists, Amount
<1>6. Phase' = [Phase EXCEPT ![id] = Standing(id)']
  BY <1>1, StandingKept DEF Phase
<1>7. /\ ~Terminal(orders'[id]) /\ ~Authorized(orders'[id])
      /\ orders'[id].settledAt = None /\ orders'[id].receipt = None
      /\ orders'[id].escrowed <=> t.direction = "deposit"
  <2>1. /\ ~Terminal(NewOrder(t)) /\ ~Authorized(NewOrder(t))
        /\ NewOrder(t).settledAt = None /\ NewOrder(t).receipt = None
        /\ NewOrder(t).escrowed <=> t.direction = "deposit"
    BY DEF NewOrder, Terminal, Authorized
  <2> QED
    BY <1>1, <2>1
<1>8. CASE t.direction = "deposit"
  <2>1. Standing(id)' = "held"
    BY <1>3, <1>7, <1>8 DEF Standing, Untouched
  <2>2. E!OpenHeld(id, t.amount)
    BY <1>5, <1>6, <1>8, <2>1
    DEF E!OpenHeld, E!Step, Phase, Size, CreateOrder, Reserve
  <2> QED
    BY <1>4, <2>2 DEF E!EscrowNext
<1>9. CASE t.direction # "deposit"
  <2>1. Standing(id)' = "open"
    BY <1>3, <1>7, <1>9 DEF Standing
  <2>2. E!Open(id, t.amount)
    BY <1>5, <1>6, <1>9, <2>1
    DEF E!Open, E!Step, Phase, Size, CreateOrder
  <2> QED
    BY <1>4, <2>2 DEF E!EscrowNext
<1> QED
  BY <1>8, <1>9

LEMMA RewritesStep ==
  ASSUME IInv, NEW id \in Ids, Rewrites(id)
  PROVE  [E!EscrowNext]_<<Phase, Size, reserved>>
<1>1. /\ Exists(id) /\ Exists(id)'
      /\ Phase' = [Phase EXCEPT ![id] = Standing(id)']
      /\ Size' = Size /\ Size[id] = Amount(id) /\ Phase[id] = Standing(id)
  BY RewritesMoveOnePhase DEF Size, Phase
<1>2. TypeOK /\ TypeOK' /\ orders[id] \in OrderType /\ orders'[id] \in OrderType
  <2>1. TypeOK /\ TypeOK'
    BY CallTypeOK DEF IInv, Rewrites, Call
  <2> QED
    BY <1>1, <2>1, PresentOrder DEF TypeOK, Exists, Option
<1>3. ASSUME NEW op \in Ops, FundWithdrawal(id, op) PROVE E!Hold(id)
  <2>1. Standing(id) = "open"
    BY <1>1, <1>2, <1>3, Standings DEF FundWithdrawal
  <2>2. OrderSound(orders[id])
    BY <1>1 DEF IInv, OrdersSound
  <2>3. /\ orders[id].receipt = None
        /\ ~Terminal(orders[id]) /\ ~Authorized(orders[id])
    BY <1>3, <2>2 DEF FundWithdrawal, OrderSound, ReceivedInTime
  <2>4. /\ orders'[id].receipt = None /\ orders'[id].escrowed
        /\ ~Terminal(orders'[id]) /\ ~Authorized(orders'[id])
    BY <1>2, <1>3, <2>3
    DEF FundWithdrawal, Terminal, Authorized, OrderType, TypeOK
  <2>5. Standing(id)' = "held"
    BY <1>1, <2>4 DEF Standing, Untouched, Terminal
  <2> QED
    BY <1>1, <1>3, <2>1, <2>5
    DEF E!Hold, E!Step, Phase, Size, FundWithdrawal, Reserve
<1>4. CASE AuthorizePayout(id)
  <2>1. Standing(id) = "held"
    BY <1>1, <1>2, <1>4, Standings DEF AuthorizePayout
  <2>2. Standing(id)' = "owed"
    BY <1>1, <1>2, <1>4, NoneAssumption
    DEF AuthorizePayout, Standing, Untouched, Terminal, Authorized, OrderType,
        TypeOK
  <2>3. E!Owe(id)
    BY <1>1, <1>4, <2>1, <2>2
    DEF E!Owe, E!Step, Phase, Size, AuthorizePayout
  <2> QED
    BY <2>3 DEF E!EscrowNext
<1>5. ASSUME NEW r \in Receipts, RecordReceipt(id, r)
      PROVE  E!Owe(id) \/ UNCHANGED <<Phase, Size, reserved>>
  <2>1. r # None
    BY NoneAssumption, ConfigAssumption DEF Receipts, ReceiptType
  <2>2. Standing(id)' = "owed"
    BY <1>1, <1>2, <1>5, <2>1
    DEF RecordReceipt, Standing, Untouched, Terminal, Authorized, OrderType,
        TypeOK
  <2>3. CASE Authorized(orders[id])
    <3>1. Standing(id) = "owed"
      BY <1>1, <1>2, <1>5, <2>3, Standings DEF RecordReceipt
    <3> QED
      BY <1>1, <1>5, <2>2, <3>1 DEF Phase, Size, RecordReceipt
  <2>4. CASE ~Authorized(orders[id])
    <3>1. Standing(id) = "held"
      BY <1>1, <1>2, <1>5, <2>4, Standings DEF RecordReceipt, Untouched
    <3> QED
      BY <1>1, <1>5, <2>2, <3>1
      DEF E!Owe, E!Step, Phase, Size, RecordReceipt
  <2> QED
    BY <2>3, <2>4
<1>6. CASE Settle(id)
  <2>1. Standing(id) = "owed"
    BY <1>1, <1>2, <1>6, Standings DEF Settle
  <2>2. Standing(id)' = "paid"
    BY <1>1, <1>2, <1>6, NoneAssumption
    DEF Settle, Release, Standing, OrderType, TypeOK
  <2>3. E!Complete(id)
    BY <1>1, <1>6, <2>1, <2>2
    DEF E!Complete, E!Step, Phase, Size, Settle, Release
  <2> QED
    BY <2>3 DEF E!EscrowNext
<1>7. CASE Refund(id) \/ Cancel(id)
  <2>1. Standing(id) = "held"
    BY <1>1, <1>2, <1>7, Standings DEF Refund, Cancel
  <2>2. Terminal(orders'[id]) /\ orders'[id].settledAt = None
    <3>1. now # None /\ orders[id].settledAt = None
      BY <1>2, <1>7, NoneAssumption
      DEF TypeOK, Refund, Cancel, Untouched, Terminal
    <3>2. CASE Refund(id)
      BY <1>2, <3>1, <3>2 DEF Refund, Release, Terminal, OrderType, TypeOK
    <3>3. CASE Cancel(id)
      BY <1>2, <3>1, <3>3 DEF Cancel, Release, Terminal, OrderType, TypeOK
    <3> QED
      BY <1>7, <3>2, <3>3
  <2>4. Standing(id)' = "returned"
    BY <1>1, <2>2 DEF Standing
  <2>3. E!Return(id)
    BY <1>1, <1>7, <2>1, <2>4
    DEF E!Return, E!Step, Phase, Size, Refund, Cancel, Release
  <2> QED
    BY <2>3 DEF E!EscrowNext
<1> QED
  BY <1>3, <1>4, <1>5, <1>6, <1>7 DEF Rewrites, E!EscrowNext

\* The contract implements the escrow, whatever the orders, policy and clock.
THEOREM VaultImplementsEscrow == Spec => ImplementsEscrow
<1>1. Init => E!EscrowInit
  BY DEF Init, E!EscrowInit, Standing, Exists
<1>2. IInv /\ [Next]_vars => [E!EscrowNext]_<<Phase, Size, reserved>>
  <2> SUFFICES ASSUME IInv, [Next]_vars
               PROVE  [E!EscrowNext]_<<Phase, Size, reserved>>
    OBVIOUS
  <2>1. ASSUME NEW id \in Ids, NEW t \in Terms, CreateOrder(id, t)
        PROVE  E!EscrowNext
    BY <2>1, CreateOpens
  <2>2. ASSUME NEW id \in Ids, Rewrites(id)
        PROVE  [E!EscrowNext]_<<Phase, Size, reserved>>
    BY <2>2, RewritesStep
  <2>3. CASE UNCHANGED <<orders, reserved>>
    BY <2>3, StandingKept DEF Phase, Size, Exists, Amount
  <2>4. (World \/ UNCHANGED vars \/ \E s \in Subjects, p \in 0..MaxTime :
            SubmitEligibility(s, p)) => UNCHANGED <<orders, reserved>>
    BY DEF World, vars, SubmitEligibility, Tick, VerifierChange,
           TrustlineChange, Pay, Donate, Clawback
  <2> QED
    BY <2>1, <2>2, <2>3, <2>4 DEF Next, Call, Rewrites, World
<1> QED
  BY <1>1, <1>2, SpecIInv, PTL
  DEF Spec, ImplementsEscrow, E!EscrowSpec, E!evars, Phase, Size

-----------------------------------------------------------------------------
\* Where the vault's tokens go.

PaysOut(id) ==
    /\ Exists(id) /\ orders[id].escrowed /\ ~Terminal(orders[id])
    /\ orders' = [orders EXCEPT ![id] = orders'[id]]
    /\ Terminal(orders'[id]) /\ ~orders'[id].escrowed
    /\ balance' = Move(Vault, Rightful(orders'[id]), Amount(id))
    /\ reserved' = reserved - Amount(id)

LEMMA EndingPaysOut ==
  ASSUME IInv, NEW id \in Ids, Settle(id) \/ Refund(id) \/ Cancel(id)
  PROVE  PaysOut(id)
<1>1. /\ TypeOK /\ Exists(id) /\ orders[id] \in OrderType
      /\ OrderSound(orders[id])
      /\ orders[id].terms \in TermsType
      /\ now # None
  BY PresentOrder, TermsTyped, NoneAssumption
  DEF IInv, OrdersSound, OrderType, TypeOK, Settle, Refund, Cancel
<1>2. CASE Settle(id)
  <2>1. /\ orders'[id] = [orders[id] EXCEPT !.settledAt = now, !.escrowed = FALSE]
        /\ ~Terminal(orders[id])
    BY <1>1, <1>2 DEF Settle, Release, OrderType, TypeOK
  <2>2. Rightful(orders'[id]) = Beneficiary(orders[id])
    BY <1>1, <2>1
    DEF Rightful, Beneficiary, IsDeposit, IsWithdrawal, Terminal, OrderType,
        TermsType
  <2>3. /\ orders'[id].terms = orders[id].terms
        /\ Terminal(orders'[id]) /\ ~orders'[id].escrowed
    BY <1>1, <2>1 DEF Terminal, OrderType
  <2> QED
    BY <1>1, <1>2, <2>1, <2>2, <2>3 DEF PaysOut, Settle, Release, TypeOK
<1>3. CASE Refund(id)
  <2>1. /\ orders'[id] = [orders[id] EXCEPT !.refundedAt = now, !.escrowed = FALSE]
        /\ ~Terminal(orders[id])
    BY <1>1, <1>3 DEF Refund, Release, Untouched, OrderType, TypeOK
  <2>2. Rightful(orders'[id]) = orders[id].terms.refundTo
    BY <1>1, <2>1
    DEF Rightful, OrderSound, Attributed, IsWithdrawal, Terminal, OrderType
  <2>3. Terminal(orders'[id]) /\ ~orders'[id].escrowed
    BY <1>1, <2>1 DEF Terminal, OrderType
  <2> QED
    BY <1>1, <1>3, <2>1, <2>2, <2>3
    DEF PaysOut, Refund, Release, Untouched, TypeOK
<1>4. CASE Cancel(id)
  <2>1. /\ orders'[id] = [orders[id] EXCEPT !.cancelledAt = now, !.escrowed = FALSE]
        /\ ~Terminal(orders[id])
    BY <1>1, <1>4 DEF Cancel, Release, Untouched, OrderType, TypeOK
  <2>2. Rightful(orders'[id]) = Provider
    BY <1>1, <2>1 DEF Rightful, OrderType
  <2>3. Terminal(orders'[id]) /\ ~orders'[id].escrowed
    BY <1>1, <2>1 DEF Terminal, OrderType
  <2> QED
    BY <1>1, <1>4, <2>1, <2>2, <2>3
    DEF PaysOut, Cancel, Release, Untouched, TypeOK
<1> QED
  BY <1>2, <1>3, <1>4

\* Nothing else takes tokens out of the vault of an asset without clawback.
LEMMA OtherStepsKeepVault ==
  ASSUME IInv, ~ClawbackEnabled, Next, balance'[Vault] < balance[Vault]
  PROVE  \E id \in Ids : Settle(id) \/ Refund(id) \/ Cancel(id)
<1>1. /\ TypeOK /\ Provider \in Accounts /\ Vault \notin Accounts
      /\ balance \in [Accounts \cup {Vault} -> Nat]
      /\ CustodyAttributed
  BY ConfigAssumption, OrdersSoundParts DEF IInv, TypeOK
<1>2. ASSUME NEW amount \in Nat, Reserve(amount)
      PROVE  balance'[Vault] >= balance[Vault]
  BY <1>1, <1>2 DEF Reserve, Move
<1>3. ASSUME NEW id \in Ids, NEW t \in Terms, CreateOrder(id, t)
      PROVE  balance'[Vault] >= balance[Vault]
  <2>1. t.amount \in Nat
    BY <1>3, TermsTyped DEF CreateOrder, ValidTerms, TermsType
  <2> QED
    BY <1>1, <1>2, <1>3, <2>1 DEF CreateOrder
<1>4. ASSUME NEW id \in Ids, NEW op \in Ops, FundWithdrawal(id, op)
      PROVE  balance'[Vault] >= balance[Vault]
  <2>1. Amount(id) \in Nat
    BY <1>1, <1>4, AmountTyped DEF FundWithdrawal
  <2> QED
    BY <1>2, <1>4, <2>1 DEF FundWithdrawal
<1>5. ASSUME NEW id \in Ids,
             AuthorizePayout(id) \/ \E r \in Receipts : RecordReceipt(id, r)
      PROVE  balance' = balance
  BY <1>5 DEF AuthorizePayout, RecordReceipt
<1>6. ASSUME World \/ \E s \in Subjects, p \in 0..MaxTime :
                        SubmitEligibility(s, p)
      PROVE  balance'[Vault] >= balance[Vault]
  BY <1>1, <1>6, ConfigAssumption
  DEF World, SubmitEligibility, Tick, VerifierChange, TrustlineChange, Pay,
      Donate, Clawback, Move
<1>7. ~(balance'[Vault] >= balance[Vault]) /\ balance' # balance
  <2>1. TypeOK'
    BY NextIInv DEF IInv
  <2> QED
    BY <1>1, <2>1 DEF TypeOK
<1>8. PICK id \in Ids : Call(id)
  BY <1>6, <1>7 DEF Next, World
<1> QED
  BY <1>3, <1>4, <1>5, <1>7, <1>8 DEF Call

\* The vault pays out exactly the orders it ends, to their rightful parties.
THEOREM VaultPaysOrders == Spec => TokensFollowOrders
<1>1. IInv /\ [Next]_vars =>
        [(~ClawbackEnabled /\ balance'[Vault] < balance[Vault])
            => \E id \in Ids : PaysOut(id)]_vars
  BY EndingPaysOut, OtherStepsKeepVault
<1> QED
  BY <1>1, SpecIInv, PTL DEF Spec, TokensFollowOrders, PaysOut

-----------------------------------------------------------------------------
\* What happens once the issuer has clawed tokens back.

KeepsCustody(id) ==
    Exists(id) => /\ orders'[id].escrowed = orders[id].escrowed
                  /\ orders'[id].payout = orders[id].payout

LEMMA UncoveredCallKeepsCustody ==
  ASSUME IInv, ~Covered, NEW id \in Ids, Call(id)
  PROVE  KeepsCustody(id)
<1>1. /\ TypeOK /\ CustodyAttributed
      /\ balance[Vault] \in Nat /\ reserved \in Nat
  BY OrdersSoundParts, ConfigAssumption DEF IInv, TypeOK
<1>2. ASSUME NEW t \in Terms, CreateOrder(id, t) PROVE KeepsCustody(id)
  BY <1>2 DEF CreateOrder, KeepsCustody
<1>3. ASSUME NEW op \in Ops, FundWithdrawal(id, op) PROVE FALSE
  <2>1. Amount(id) \in Nat
    BY <1>1, <1>3, AmountTyped DEF FundWithdrawal
  <2> QED
    BY <1>1, <1>3, <2>1 DEF FundWithdrawal, Reserve, Covered
<1>4. ~AuthorizePayout(id) /\ ~Settle(id) /\ ~Refund(id) /\ ~Cancel(id)
  BY DEF AuthorizePayout, Settle, Refund, Cancel, Release
<1>5. ASSUME NEW r \in Receipts, RecordReceipt(id, r) PROVE KeepsCustody(id)
  <2>1. orders[id] \in OrderType
    BY <1>1, <1>5, PresentOrder DEF RecordReceipt
  <2>2. orders'[id] = [orders[id] EXCEPT !.receipt = r]
    BY <1>1, <1>5 DEF RecordReceipt, TypeOK
  <2> QED
    BY <2>1, <2>2 DEF KeepsCustody, OrderType
<1> QED
  BY <1>2, <1>3, <1>4, <1>5 DEF Call

\* A vault short of its reserve promises and releases nothing.
THEOREM ShortVaultFreezes == Spec => ShortfallFreezes
<1>1. IInv /\ [Next]_vars =>
        [~Covered => \A id \in Ids : KeepsCustody(id)]_vars
  <2> SUFFICES ASSUME IInv, Next, ~Covered, NEW id \in Ids
               PROVE  KeepsCustody(id)
    OBVIOUS
  <2>1. ASSUME NEW other \in Ids, Call(other), other # id
        PROVE  orders'[id] = orders[id]
    BY <2>1, CallWritesOneOrder DEF IInv
  <2>2. (World \/ \E s \in Subjects, p \in 0..MaxTime :
            SubmitEligibility(s, p)) => UNCHANGED orders
    BY DEF World, SubmitEligibility, Tick, VerifierChange, TrustlineChange,
           Pay, Donate, Clawback
  <2> QED
    BY <2>1, <2>2, UncoveredCallKeepsCustody DEF Next, World, KeepsCustody
<1> QED
  BY <1>1, SpecIInv, PTL DEF Spec, ShortfallFreezes, KeepsCustody

-----------------------------------------------------------------------------
\* The total that every call adjusts by hand is the sum over the orders in
\* custody.  The sum is the fold of Sums over the sizes; there are finitely
\* many orders in custody because a call takes at most one in.

Books == IsFiniteSet(Escrowed) /\ reserved = Total(Size, Escrowed)

\* The fold of the property adds the same numbers as Total.
LEMMA FoldOfAmounts ==
  ASSUME IsFiniteSet(Escrowed)
  PROVE  MapThenSumSet(Amount, Escrowed) = Total(Size, Escrowed)
<1>1. PICK S : S = Escrowed
  OBVIOUS
<1>2. IsFiniteSet(S) /\ \A x \in S : x \in Ids /\ Size[x] = Amount(x)
  BY <1>1 DEF Escrowed, Size
<1> DEFINE AddsUp(g) ==
      g = [s \in SUBSET S |->
             IF s = {} THEN 0
             ELSE Amount(Chosen(s)) + g[s \ {Chosen(s)}]]
<1>3. ASSUME NEW g PROVE AddsUp(g) <=> Adds(g, Size, S)
  <2>1. \A s \in SUBSET S : s # {} => Amount(Chosen(s)) = Size[Chosen(s)]
    BY <1>2, ChosenIn
  <2>2. [s \in SUBSET S |-> IF s = {} THEN 0
                            ELSE Amount(Chosen(s)) + g[s \ {Chosen(s)}]]
          = [s \in SUBSET S |-> IF s = {} THEN 0
                                ELSE Size[Chosen(s)] + g[s \ {Chosen(s)}]]
    BY <2>1
  <2> QED
    BY <2>2, Zenon DEF Adds
<1>4. PICK g : Adds(g, Size, S)
  BY <1>2, AddsExists
<1>5. PICK h : h = CHOOSE k : AddsUp(k)
  OBVIOUS
<1>6. AddsUp(h) /\ Adds(h, Size, S)
  <2>1. AddsUp(g)
    BY <1>3, <1>4
  <2> HIDE DEF AddsUp
  <2>2. AddsUp(h)
    BY <1>5, <2>1
  <2> QED
    BY <1>3, <2>2
<1>7. MapThenSumSet(Amount, S) = h[S]
  BY <1>5 DEF MapThenSumSet, MapThenFoldSet, Chosen
<1>8. Total(Size, S) = h[S]
  <2>1. PICK k : k = CHOOSE j : Adds(j, Size, S)
    OBVIOUS
  <2>2. Adds(k, Size, S)
    <3> HIDE DEF AddsUp
    <3> QED
      BY <1>4, <2>1
  <2>3. h[S] = k[S]
    <3>1. Adds(h, Size, S) /\ IsFiniteSet(S)
      BY <1>2, <1>6
    <3>2. \A u \in SUBSET S : u \subseteq S => h[u] = k[u]
      <4> HIDE DEF AddsUp
      <4> QED
        BY <2>2, <3>1, AddsAgree
    <3> QED
      BY <3>2
  <2>4. Total(Size, S) = k[S]
    BY <2>1, Zenon DEF Total
  <2> QED
    BY <2>3, <2>4
<1> QED
  BY <1>1, <1>7, <1>8

\* A call that leaves every other order alone.
LEMMA OthersKeepBooks ==
  ASSUME IInv, NEW id \in Ids, Call(id)
  PROVE  /\ \A x \in Ids \ {id} : Size'[x] = Size[x]
         /\ Escrowed' \ {id} = Escrowed \ {id}
<1>1. \A x \in Ids \ {id} : orders'[x] = orders[x]
  BY CallWritesOneOrder DEF IInv
<1> QED
  BY <1>1 DEF Size, Escrowed, Exists, Amount

LEMMA SizesTyped ==
  ASSUME IInv
  PROVE  \A x \in Ids : Size[x] \in Nat
<1>1. \A x \in Ids : Exists(x) => Amount(x) \in Nat
  BY AmountTyped, OrdersSoundParts DEF IInv
<1> QED
  BY <1>1 DEF Size

\* The books balance when an order comes into custody,
LEMMA TakingInKeepsBooks ==
  ASSUME IInv, IInv', Books, NEW id \in Ids, Call(id),
         id \notin Escrowed, id \in Escrowed', reserved' = reserved + Size'[id]
  PROVE  Books'
<1>1. PICK S : S = Escrowed
  OBVIOUS
<1>2. PICK f : f = Size
  OBVIOUS
<1>3. PICK g : g = Size'
  OBVIOUS
<1>4. PICK T : T = Escrowed'
  OBVIOUS
<1>5. /\ IsFiniteSet(S) /\ S \subseteq Ids /\ id \notin S /\ T = S \cup {id}
      /\ \A x \in S : g[x] = f[x]
      /\ \A x \in Ids : f[x] \in Nat /\ g[x] \in Nat
      /\ reserved = Total(f, S) /\ reserved' = reserved + g[id]
  <2>1. S \subseteq Ids
    BY <1>1 DEF Escrowed
  <2>2. \A x \in Ids : f[x] \in Nat
    BY <1>2, SizesTyped
  <2>3. \A x \in Ids : g[x] \in Nat
    <3>1. \A x \in Ids : Exists(x)' => Amount(x)' \in Nat
      <4>1. ASSUME NEW x \in Ids, Exists(x)' PROVE Amount(x)' \in Nat
        <5>1. OrderSound(orders[x])' /\ orders'[x] \in Option(OrderType)
          BY <4>1 DEF IInv, OrdersSound, TypeOK
        <5>2. orders'[x] \in OrderType
          BY <4>1, <5>1 DEF Exists, Option
        <5>3. orders'[x].terms \in TermsType
          BY <5>2, TermsTyped DEF OrderType
        <5> QED
          BY <5>1, <5>3 DEF OrderSound, Attributed, Amount, TermsType
      <4> QED
        BY <4>1
    <3> QED
      BY <1>3, <3>1 DEF Size
  <2> QED
    BY <1>1, <1>2, <1>3, <1>4, <2>1, <2>2, <2>3, OthersKeepBooks DEF Books
<1>6. IsFiniteSet(T) /\ Total(g, T) = Total(f, S) + g[id]
  <2>1. /\ \A x \in S : f[x] \in Int /\ g[x] = f[x]
        /\ g[id] \in Int
    BY <1>5
  <2> QED
    BY <1>5, <2>1, TotalTakesIn
<1> QED
  BY <1>3, <1>4, <1>5, <1>6 DEF Books

\* when it leaves it,
LEMMA LettingOutKeepsBooks ==
  ASSUME IInv, Books, NEW id \in Ids, Call(id),
         id \in Escrowed, id \notin Escrowed', reserved' = reserved - Size[id]
  PROVE  Books'
<1>1. PICK S : S = Escrowed
  OBVIOUS
<1>2. PICK f : f = Size
  OBVIOUS
<1>3. PICK g : g = Size'
  OBVIOUS
<1>4. PICK T : T = Escrowed'
  OBVIOUS
<1>5. /\ IsFiniteSet(S) /\ S \subseteq Ids /\ id \in S /\ T = S \ {id}
      /\ \A x \in T : g[x] = f[x]
      /\ \A x \in Ids : f[x] \in Nat
      /\ reserved = Total(f, S) /\ reserved' = reserved - f[id]
  <2>1. S \subseteq Ids
    BY <1>1 DEF Escrowed
  <2>2. \A x \in Ids : f[x] \in Nat
    BY <1>2, SizesTyped
  <2> QED
    BY <1>1, <1>2, <1>3, <1>4, <2>1, <2>2, OthersKeepBooks DEF Books
<1>6. IsFiniteSet(T) /\ Total(g, T) = Total(f, S) - f[id]
  <2>1. /\ S = T \cup {id} /\ id \notin T
        /\ \A x \in S : f[x] \in Int
        /\ \A x \in T : g[x] = f[x]
    BY <1>5
  <2> QED
    BY <1>5, <2>1, TotalLetsOut
<1> QED
  BY <1>3, <1>4, <1>5, <1>6 DEF Books

\* and when no size in custody changes.
LEMMA SameCustodyKeepsBooks ==
  ASSUME Books, Escrowed' = Escrowed, reserved' = reserved,
         \A x \in Escrowed : Size'[x] = Size[x]
  PROVE  Books'
<1>1. PICK S : S = Escrowed
  OBVIOUS
<1>2. PICK f : f = Size
  OBVIOUS
<1>3. PICK g : g = Size'
  OBVIOUS
<1>4. IsFiniteSet(S) /\ reserved = Total(f, S) /\ \A x \in S : g[x] = f[x]
  BY <1>1, <1>2, <1>3 DEF Books
<1>5. Total(g, S) = Total(f, S)
  BY <1>4, TotalSame
<1>6. Escrowed' = S
  BY <1>1
<1> QED
  BY <1>3, <1>4, <1>5, <1>6 DEF Books

LEMMA CreateOrderBooks ==
  ASSUME IInv, IInv', Books, NEW id \in Ids, NEW t \in Terms, CreateOrder(id, t)
  PROVE  Books'
<1>1. /\ ~Exists(id) /\ Call(id)
      /\ orders'[id] = NewOrder(t)
      /\ NewOrder(t).terms = t
      /\ NewOrder(t).escrowed <=> t.direction = "deposit"
  BY DEF IInv, TypeOK, CreateOrder, Call, NewOrder
<1>2. NewOrder(t) # None
  <2>1. NewOrder(t) \in OrderType
    BY TermsTyped DEF NewOrder, OrderType, Option, IInv, TypeOK
  <2> QED
    BY <2>1, NoneAssumption
<1>3. /\ id \notin Escrowed
      /\ Exists(id)' /\ Size'[id] = t.amount
      /\ id \in Escrowed' <=> t.direction = "deposit"
  BY <1>1, <1>2 DEF Escrowed, Exists, Size, Amount
<1>4. CASE t.direction = "deposit"
  BY <1>1, <1>3, <1>4, TakingInKeepsBooks DEF CreateOrder, Reserve
<1>5. CASE t.direction # "deposit"
  <2>1. Escrowed' = Escrowed /\ \A x \in Escrowed : Size'[x] = Size[x]
    <3>1. \A x \in Escrowed : x \in Ids /\ x # id
      BY <1>3 DEF Escrowed
    <3>2. id \notin Escrowed'
      BY <1>3, <1>5
    <3> QED
      BY <1>1, <1>3, <3>1, <3>2, OthersKeepBooks
  <2> QED
    BY <1>5, <2>1, SameCustodyKeepsBooks DEF CreateOrder
<1> QED
  BY <1>4, <1>5

LEMMA RewritesBooks ==
  ASSUME IInv, IInv', Books, NEW id \in Ids, Rewrites(id)
  PROVE  Books'
<1>1. /\ Call(id) /\ Exists(id) /\ Exists(id)'
      /\ Size' = Size /\ Size[id] = Amount(id)
      /\ TypeOK /\ orders[id] \in OrderType
  BY RewritesMoveOnePhase, PresentOrder DEF Rewrites, Call, Size, IInv
<1>2. id \in Escrowed <=> orders[id].escrowed
  BY <1>1 DEF Escrowed
<1>3. id \in Escrowed' <=> orders'[id].escrowed
  BY <1>1 DEF Escrowed
<1>4. ASSUME NEW op \in Ops, FundWithdrawal(id, op) PROVE Books'
  <2>1. id \notin Escrowed /\ id \in Escrowed'
    BY <1>1, <1>2, <1>3, <1>4 DEF FundWithdrawal, TypeOK, OrderType
  <2> QED
    BY <1>1, <1>4, <2>1, TakingInKeepsBooks DEF FundWithdrawal, Reserve
<1>5. ASSUME AuthorizePayout(id) \/ \E r \in Receipts : RecordReceipt(id, r)
      PROVE  Books'
  <2>1. orders'[id].escrowed = orders[id].escrowed /\ reserved' = reserved
    BY <1>1, <1>5 DEF AuthorizePayout, RecordReceipt, TypeOK, OrderType
  <2>2. Escrowed' = Escrowed
    BY <1>1, <1>2, <1>3, <2>1, OthersKeepBooks
  <2> QED
    BY <1>1, <2>1, <2>2, SameCustodyKeepsBooks
<1>6. CASE Settle(id) \/ Refund(id) \/ Cancel(id)
  <2>1. PaysOut(id)
    BY <1>6, EndingPaysOut
  <2> QED
    BY <1>1, <1>2, <1>3, <2>1, LettingOutKeepsBooks DEF PaysOut
<1> QED
  BY <1>4, <1>5, <1>6 DEF Rewrites

LEMMA NextBooks == IInv /\ IInv' /\ Books /\ [Next]_vars => Books'
<1> SUFFICES ASSUME IInv, IInv', Books, [Next]_vars PROVE Books'
  OBVIOUS
<1>1. ASSUME NEW id \in Ids, Call(id) PROVE Books'
  BY <1>1, CreateOrderBooks, RewritesBooks DEF Call, Rewrites
<1>2. CASE UNCHANGED <<orders, reserved>>
  <2>1. Escrowed' = Escrowed /\ Size' = Size
    BY <1>2 DEF Escrowed, Size, Exists, Amount
  <2> QED
    BY <1>2, <2>1, SameCustodyKeepsBooks
<1>3. (World \/ UNCHANGED vars \/ \E s \in Subjects, p \in 0..MaxTime :
          SubmitEligibility(s, p)) => UNCHANGED <<orders, reserved>>
  BY DEF World, vars, SubmitEligibility, Tick, VerifierChange,
         TrustlineChange, Pay, Donate, Clawback
<1> QED
  BY <1>1, <1>2, <1>3 DEF Next, World

LEMMA InitBooks == Init => Books
<1> SUFFICES ASSUME Init PROVE Books
  OBVIOUS
<1>1. Escrowed = {}
  BY DEF Init, Escrowed, Exists
<1> QED
  BY <1>1, FS_EmptySet, TotalStep DEF Init, Books

LEMMA SpecBooks == Spec => []Books
  BY InitBooks, NextBooks, SpecIInv, PTL DEF Spec

\* TotalReserved is the sum of the amounts in custody, whatever the orders.
THEOREM VaultReserveExact == Spec => []ReserveExact
<1>1. Books => ReserveExact
  BY FoldOfAmounts DEF Books, ReserveExact
<1> QED
  BY <1>1, SpecBooks, PTL

-----------------------------------------------------------------------------
\* The exits of custody.  Whether a step exists (ENABLED) is no matter for
\* this prover; what is proved is that the guards of an exit hold, and that
\* each guard is all its call asks for.

Releases(id, to) == reserved >= Amount(id) /\ Covered /\ to \notin blocked

MaySettle(id) ==
    /\ Exists(id) /\ ~Terminal(orders[id]) /\ orders[id].escrowed
    /\ orders[id].receipt # None
    /\ SettleReady(orders[id])
    /\ receiptOf[orders[id].receipt.event] = id
    /\ Releases(id, Beneficiary(orders[id]))

MayReturn(id) ==
    /\ Exists(id) /\ Untouched(orders[id])
    /\ Releases(id, IF IsDeposit(orders[id]) THEN Provider
                                             ELSE orders[id].terms.refundTo)

MayReceive(id, r) ==
    /\ Exists(id) /\ IsWithdrawal(orders[id]) /\ orders[id].receipt = None
    /\ ~Terminal(orders[id]) /\ orders[id].escrowed
    /\ ReceiptReady(orders[id])
    /\ r.quote = orders[id].terms.quote /\ r.bank = orders[id].terms.bank
    /\ EarliestReceipt(orders[id]) <= r.receivedAt /\ r.receivedAt <= now
    /\ Unused(receiptOf, r.event)

\* What a release changes beside the order itself.
LetsGo(id, to) ==
    /\ reserved' = reserved - Amount(id)
    /\ balance' = Move(Vault, to, Amount(id))
    /\ UNCHANGED <<now, grants, receiptOf, fundingOf, verifierOk, blocked>>

\* The guards ask for everything the calls ask for.
LEMMA GuardsSuffice ==
  ASSUME NEW id \in Ids
  PROVE  /\ (/\ MaySettle(id) /\ LetsGo(id, Beneficiary(orders[id]))
             /\ orders' = [orders EXCEPT ![id] =
                   [[orders[id] EXCEPT !.settledAt = now] EXCEPT !.escrowed = FALSE]])
               => Settle(id)
         /\ (/\ MayReturn(id) /\ IsWithdrawal(orders[id])
             /\ LetsGo(id, orders[id].terms.refundTo)
             /\ orders' = [orders EXCEPT ![id] =
                   [[orders[id] EXCEPT !.refundedAt = now] EXCEPT !.escrowed = FALSE]])
               => Refund(id)
         /\ (/\ MayReturn(id) /\ IsDeposit(orders[id])
             /\ LetsGo(id, Provider)
             /\ orders' = [orders EXCEPT ![id] =
                   [[orders[id] EXCEPT !.cancelledAt = now] EXCEPT !.escrowed = FALSE]])
               => Cancel(id)
         /\ \A r \in Receipts :
               (/\ MayReceive(id, r)
                /\ receiptOf' = [receiptOf EXCEPT ![r.event] = id]
                /\ orders' = [orders EXCEPT ![id].receipt = r]
                /\ UNCHANGED <<now, grants, fundingOf, reserved, balance,
                               verifierOk, blocked>>)
                 => RecordPayoutReceipt(id)
<1>1. IsWithdrawal(orders[id]) => ~IsDeposit(orders[id])
  BY DEF IsWithdrawal, IsDeposit
<1> QED
  BY <1>1
  DEF MaySettle, MayReturn, MayReceive, Releases, LetsGo, Settle, Refund,
      Cancel, Release, RecordPayoutReceipt, RecordReceipt

\* No order in custody is larger than the reserve: a release never underflows.
LEMMA ReserveHoldsEach ==
  ASSUME IInv, Books, NEW id \in Escrowed
  PROVE  reserved >= Amount(id)
<1>1. PICK S : S = Escrowed
  OBVIOUS
<1>2. PICK f : f = Size
  OBVIOUS
<1>3. /\ IsFiniteSet(S) /\ id \in S /\ reserved = Total(f, S)
      /\ \A x \in S : f[x] \in Nat
      /\ f[id] = Amount(id)
  BY <1>1, <1>2, SizesTyped DEF Books, Escrowed, Size
<1>4. Total(f, S) = f[id] + Total(f, S \ {id})
  <2>1. \A x \in S : f[x] \in Int
    BY <1>3
  <2> QED
    BY <1>3, <2>1, TotalTakesOut
<1>5. Total(f, S \ {id}) \in Nat
  BY <1>3, FS_Subset, TotalNat
<1> QED
  BY <1>3, <1>4, <1>5

\* Some exit's guard holds for every order in custody, but for a deposit whose
\* bank leg is paid and that can no longer settle.
ExitGuarded ==
    (Covered /\ blocked = {} /\ FreeEvents # {}) =>
        \A id \in Escrowed :
            \/ Stranded(id)
            \/ MaySettle(id)
            \/ MayReturn(id)
            \/ \E r \in Receipts : MayReceive(id, r)

\* Only withdrawals are promised a payout.
PromisesToWithdraw ==
    \A id \in Ids :
        Exists(id) /\ Authorized(orders[id]) => IsWithdrawal(orders[id])

LEMMA NextPromises ==
  IInv /\ PromisesToWithdraw /\ [Next]_vars => PromisesToWithdraw'
<1> SUFFICES ASSUME IInv, PromisesToWithdraw, [Next]_vars, NEW id \in Ids,
                    Exists(id)', Authorized(orders'[id])
             PROVE  IsWithdrawal(orders'[id])
  BY DEF PromisesToWithdraw, Exists, Authorized, IsWithdrawal
<1>1. CASE orders'[id] = orders[id]
  BY <1>1 DEF PromisesToWithdraw, Exists
<1>2. ASSUME NEW t \in Terms, CreateOrder(id, t) PROVE FALSE
  <2>1. orders'[id] = NewOrder(t)
    BY <1>2 DEF CreateOrder, IInv, TypeOK
  <2> QED
    BY <2>1 DEF NewOrder, Authorized
<1>3. CASE Rewrites(id)
  <2>1. /\ Exists(id) /\ orders[id] \in OrderType /\ TypeOK
        /\ orders'[id].terms = orders[id].terms
    BY <1>3, RewritesKeepTerms DEF IInv
  <2>2. CASE AuthorizePayout(id)
    BY <2>1, <2>2 DEF AuthorizePayout, IsWithdrawal
  <2>3. ASSUME ~AuthorizePayout(id)
        PROVE  orders'[id].payout = orders[id].payout
    <3>1. CASE \E op \in Ops : FundWithdrawal(id, op)
      BY <2>1, <3>1 DEF FundWithdrawal, OrderType, TypeOK
    <3>2. CASE \E r \in Receipts : RecordReceipt(id, r)
      BY <2>1, <3>2 DEF RecordReceipt, OrderType, TypeOK
    <3>3. CASE Settle(id)
      BY <2>1, <3>3 DEF Settle, Release, OrderType, TypeOK
    <3>4. CASE Refund(id)
      BY <2>1, <3>4 DEF Refund, Release, OrderType, TypeOK
    <3>5. CASE Cancel(id)
      BY <2>1, <3>5 DEF Cancel, Release, OrderType, TypeOK
    <3> QED
      BY <1>3, <2>3, <3>1, <3>2, <3>3, <3>4, <3>5 DEF Rewrites
  <2> QED
    BY <2>1, <2>2, <2>3 DEF PromisesToWithdraw, Authorized, IsWithdrawal
<1>4. ASSUME NEW other \in Ids, Call(other), other # id
      PROVE  orders'[id] = orders[id]
  BY <1>4, CallWritesOneOrder DEF IInv
<1>5. (World \/ UNCHANGED vars \/ \E s \in Subjects, p \in 0..MaxTime :
          SubmitEligibility(s, p)) => UNCHANGED orders
  BY DEF World, vars, SubmitEligibility, Tick, VerifierChange,
         TrustlineChange, Pay, Donate, Clawback
<1> QED
  BY <1>1, <1>2, <1>3, <1>4, <1>5 DEF Next, World, Call, Rewrites

LEMMA ExitFound ==
  ASSUME IInv, Books, PromisesToWithdraw, now <= MaxTime,
         Covered, blocked = {}, FreeEvents # {}, NEW id \in Escrowed
  PROVE  \/ Stranded(id)
         \/ MaySettle(id)
         \/ MayReturn(id)
         \/ \E r \in Receipts : MayReceive(id, r)
<1>1. /\ id \in Ids /\ Exists(id) /\ orders[id].escrowed
      /\ TypeOK /\ orders[id] \in OrderType
      /\ orders[id].terms \in TermsType
      /\ OrderSound(orders[id])
      /\ ~Terminal(orders[id])
  BY PresentOrder, TermsTyped
  DEF Escrowed, IInv, OrdersSound, OrderSound, EndsOnce, OrderType
<1>2. \A to : Releases(id, to)
  BY ReserveHoldsEach DEF Releases
<1>3. IsDeposit(orders[id]) <=> ~IsWithdrawal(orders[id])
  BY <1>1 DEF TermsType, IsDeposit, IsWithdrawal
<1>4. CASE Untouched(orders[id])
  BY <1>1, <1>2, <1>4 DEF MayReturn
<1>5. CASE orders[id].receipt # None
  <2>1. orders[id].receipt \in ReceiptType
    BY <1>1, <1>5 DEF OrderType, Option
  <2>2. receiptOf[orders[id].receipt.event] = id
    BY <1>1, <1>5, <2>1 DEF IInv, EvidenceUnique, HasReceipt, ReceiptType
  <2>3. IsWithdrawal(orders[id]) => SettleReady(orders[id])
    BY <1>1, <1>3, <1>5 DEF OrderSound, ReceivedInTime, SettleReady
  <2> QED
    BY <1>1, <1>2, <1>3, <1>5, <2>2, <2>3 DEF MaySettle, Stranded
<1>6. CASE orders[id].receipt = None /\ Authorized(orders[id])
  <2>1. IsWithdrawal(orders[id])
    BY <1>1, <1>6 DEF PromisesToWithdraw
  <2>2. PICK e \in Events \ {Zero} : receiptOf[e] = None
    BY DEF FreeEvents
  <2>3. orders[id].payout \in Nat /\ orders[id].payout <= now
    BY <1>1, <1>6 DEF OrderSound, PromisedInTime, Authorized, OrderType, Option
  <2> DEFINE r == [event |-> e, quote |-> orders[id].terms.quote,
                   bank |-> orders[id].terms.bank,
                   receivedAt |-> orders[id].payout]
  <2>4. r \in Receipts
    <3>1. orders[id].payout \in 0..MaxTime
      BY <1>1, <2>3, ConfigAssumption DEF TypeOK
    <3> QED
      BY <1>1, <3>1 DEF Receipts, TermsType
  <2>5. MayReceive(id, r)
    BY <1>1, <1>3, <1>6, <2>1, <2>2, <2>3
    DEF MayReceive, ReceiptReady, EarliestReceipt, Unused
  <2> QED
    BY <2>4, <2>5
<1> QED
  BY <1>1, <1>4, <1>5, <1>6 DEF Untouched

\* Custody never loses its exits: expiry, eligibility, verifier and policy
\* leave every order in custody a call whose guard holds.
THEOREM CustodyKeepsExits == Spec => []ExitGuarded
<1>1. Init => now <= MaxTime
  BY ConfigAssumption DEF Init
<1>2. IInv /\ now <= MaxTime /\ [Next]_vars => (now <= MaxTime)'
  <2> SUFFICES ASSUME IInv, now <= MaxTime, [Next]_vars PROVE now' <= MaxTime
    OBVIOUS
  <2>1. CASE Tick
    BY <2>1, ConfigAssumption DEF Tick, IInv, TypeOK
  <2>2. ~Tick => now' = now
    BY CallWritesOneOrder
    DEF Next, vars, IInv, SubmitEligibility, VerifierChange, TrustlineChange,
        Pay, Donate, Clawback
  <2> QED
    BY <2>1, <2>2
<1>3. IInv /\ Books /\ PromisesToWithdraw /\ now <= MaxTime => ExitGuarded
  BY ExitFound DEF ExitGuarded
<1>4. Init => PromisesToWithdraw
  BY DEF Init, PromisesToWithdraw, Exists
<1> QED
  BY <1>1, <1>2, <1>3, <1>4, NextPromises, SpecIInv, SpecBooks, PTL DEF Spec

=============================================================================
