------------------------- MODULE SepCoordinatorProofs -------------------------
(***************************************************************************)
(* The SEP coordinator over its contract: what is proved of the contract   *)
(* alone holds in the composition; the journal of transactions and the     *)
(* quotes are kept; the copies, requests, bank transfers and payments      *)
(* agree with the contract's orders, however stale the answers are; and    *)
(* requests end, wait for nobody and leave their payments to be completed. *)
(* All of it holds for every set of orders, customers and bounds.          *)
(***************************************************************************)
EXTENDS SepCoordinator, SepVaultProofs

Statuses == {"prepared", "pending", "success", "failed"}
Answers  == Statuses \ {"prepared"}
Fates    == {"unsent", "sent", "success", "failed"}

\* A journal entry calls the contract with an argument of the right kind.
ProofArg == [subject : Subjects, proofTime : 0..MaxTime]
ArgType  == Terms \cup Ops \cup Receipts \cup ProofArg \cup {None}
Fits(call) ==
    /\ call.kind \in Kinds
    /\ call.kind = "create" => call.arg \in Terms
    /\ call.kind = "fund" => call.arg \in Ops
    /\ call.kind = "receipt" => call.arg \in Receipts
    /\ call.kind = "eligibility" => call.arg \in ProofArg
ActionType ==
    [intent : Ids, kind : Kinds, arg : ArgType, expires : Nat,
     status : Statuses, ledger : Nat]
JournalOK ==
    /\ actions \in Seq(ActionType)
    /\ \A n \in 1..Len(actions) : Fits(actions[n])
    /\ net \in Seq([status : Fates, ledger : Nat])
    /\ Len(net) = Len(actions)

PaymentType == [memo : Memos, from : Accounts, amount : ClassicAmounts, at : Nat]
HistoryOK ==
    /\ past \in [Ids -> Seq(Option(OrderType))]
    /\ \A id \in Ids : past[id] # <<>>
    /\ feed \in Seq(PaymentType)
    /\ Len(feed) <= MaxPayments

TablesOK ==
    /\ intents \in [Ids -> Option(IntentType)]
    /\ bankEvents \in [Ids -> Option(Receipts)]
    /\ consumed \in [Quotes -> Option(Ids)]
    /\ payments \in Seq([intent : Option(Ids), accepted : BOOLEAN])
    /\ Len(payments) <= Len(feed)
    /\ faults \in 0..MaxFaults

\* A handler works on an intent that has its row, on transactions that are
\* open, and carries a call that may be made.
Fields == {"id", "op", "at", "stage", "todo", "doing", "replay", "granted"}
HandlerOK(h) ==
    /\ DOMAIN h = Fields
    /\ h.id \in Ids
    /\ intents[h.id] \in IntentType
    /\ h.stage \in 0..7
    /\ h.stage > 0 => intents[h.id].terms \in Terms
    /\ h.todo \subseteq Unresolved
    /\ h.at \in {"send", "sent"} => h.todo # {}
    /\ h.doing # None => h.doing.arg \in ArgType /\ Fits(h.doing)

\* What the coordinator and the network keep, beside the contract.
CoordinatorInv ==
    /\ JournalOK
    /\ HistoryOK
    /\ TablesOK
    /\ handler # None => HandlerOK(handler)

SystemInv == IInv /\ now <= MaxTime /\ CoordinatorInv

-----------------------------------------------------------------------------
\* Least and greatest numbers of a set.

LEMMA MinIsLeast ==
  ASSUME NEW S \in SUBSET Nat, S # {}
  PROVE  Min(S) \in S /\ \A y \in S : Min(S) <= y
  BY LeastExists DEF Min

LEMMA MinOfTwo ==
  ASSUME NEW x \in Nat, NEW y \in Nat
  PROVE  Min({x, y}) \in {x, y}
<1>1. {x, y} \in SUBSET Nat /\ {x, y} # {}
  OBVIOUS
<1> QED
  BY <1>1, MinIsLeast

-----------------------------------------------------------------------------
\* The contract's part of the system.

\* What the contract is called with is what it may be called with.
LEMMA TakesIsACall ==
  ASSUME NEW a \in ActionType, Fits(a), Takes(a)
  PROVE  Next
<1>1. a.intent \in Ids
  BY DEF ActionType
<1>2. CASE a.kind = "eligibility" /\ SubmitEligibility(a.arg.subject, a.arg.proofTime)
  <2>1. a.arg.subject \in Subjects /\ a.arg.proofTime \in 0..MaxTime
    BY <1>2 DEF Fits, ProofArg
  <2> QED
    BY <1>2, <2>1 DEF Next
<1>3. CASE a.kind # "eligibility"
  <2>1. Call(a.intent)
    BY <1>3 DEF Takes, Call, Fits
  <2> QED
    BY <1>1, <2>1 DEF Next
<1> QED
  BY <1>2, <1>3 DEF Takes

\* Every step of the system is a step of the contract's world or no step of it.
LEMMA SystemStepsVault ==
  ASSUME SystemInv, [SystemNext]_system
  PROVE  [Next]_vars
<1>1. CASE UNCHANGED system
  BY <1>1 DEF system, contract
<1>2. CASE Handling
  BY <1>2
  DEF Handling, Query, Send, Sent, Prepare, ProofDone, SyncSome, Sync, Begun,
      Work, Ask, GiveBack, contract
<1>3. ASSUME NEW id \in Ids, Request(id) PROVE UNCHANGED vars
  BY <1>3
  DEF Request, Begin, Accept, Get, SubmitProof, SimulateBank, RequestRefund,
      contract
<1>4. CASE Ingest \/ Drop
  BY <1>4 DEF Ingest, Drop, contract
<1>5. ASSUME NEW n \in DOMAIN actions, Include(n) PROVE [Next]_vars
  <2>1. actions[n] \in ActionType /\ Fits(actions[n])
    BY DEF SystemInv, CoordinatorInv, JournalOK
  <2>2. CASE Takes(actions[n])
    BY <2>1, <2>2, TakesIsACall
  <2> QED
    BY <1>5, <2>2 DEF Include, Executes, contract
<1>6. ASSUME NEW memo \in Memos, NEW a \in Accounts, NEW amount \in ClassicAmounts,
             PayIn(memo, a, amount)
      PROVE  Next
  BY <1>6 DEF PayIn, Next
<1>7. ASSUME NEW id \in Ids, OutsideSettle(id) PROVE Next
  BY <1>7 DEF OutsideSettle, Next, Call
<1>8. CASE Environment
  BY <1>8 DEF Environment, Next
<1> QED
  BY <1>1, <1>2, <1>3, <1>4, <1>5, <1>6, <1>7, <1>8 DEF SystemNext

LEMMA VaultKept ==
  ASSUME SystemInv, [SystemNext]_system
  PROVE  IInv' /\ now' <= MaxTime
<1>1. [Next]_vars
  BY SystemStepsVault
<1>2. IInv'
  BY <1>1, NextIInv DEF SystemInv
<1>3. now' = now \/ (now < MaxTime /\ now' = now + 1)
  BY <1>1
  DEF Next, vars, Tick, VerifierChange, TrustlineChange, Pay, Donate, Clawback,
      SubmitEligibility, Call, CreateOrder, FundWithdrawal, AuthorizePayout,
      RecordReceipt, Settle, Refund, Cancel
<1> QED
  BY <1>2, <1>3, ConfigAssumption DEF SystemInv, IInv, TypeOK

-----------------------------------------------------------------------------
\* The journal.

LEMMA EntryTyped ==
  ASSUME JournalOK, NEW n \in DOMAIN actions
  PROVE  /\ n \in Nat \ {0}
         /\ actions[n] \in ActionType /\ Fits(actions[n])
         /\ net[n] \in [status : Fates, ledger : Nat]
         /\ n \in DOMAIN net
<1>1. n \in 1..Len(actions) /\ n \in 1..Len(net) /\ DOMAIN net = 1..Len(net)
  BY DEF JournalOK
<1>2. actions[n] \in ActionType
  BY <1>1 DEF JournalOK
<1>3. net[n] \in [status : Fates, ledger : Nat]
  <2> DEFINE Fate == [status : Fates, ledger : Nat]
  <2>1. net \in Seq(Fate)
    BY DEF JournalOK
  <2> HIDE DEF Fate
  <2>2. net[n] \in Fate
    BY <1>1, <2>1
  <2> QED
    BY <2>2 DEF Fate
<1> QED
  BY <1>1, <1>2, <1>3 DEF JournalOK

\* The transaction a handler looks at is an open one.
LEMMA FirstIsOpen ==
  ASSUME CoordinatorInv, ~Idle, handler.todo # {}
  PROVE  First \in handler.todo /\ First \in Unresolved /\ First \in DOMAIN actions
<1>1. handler.todo \subseteq Unresolved
  BY DEF CoordinatorInv, HandlerOK, Idle
<1>2. Unresolved \subseteq DOMAIN actions /\ DOMAIN actions \subseteq Nat
  BY DEF Unresolved, CoordinatorInv, JournalOK
<1> QED
  BY <1>1, <1>2, MinIsLeast DEF First

\* What a status written for one transaction leaves of the journal.
LEMMA ResolvedKeeps ==
  ASSUME JournalOK, NEW n \in DOMAIN actions, NEW status \in Answers,
         actions' = Resolved(n, status), net' = net
  PROVE  /\ JournalOK'
         /\ DOMAIN actions' = DOMAIN actions
         /\ \A m \in DOMAIN actions : m # n => actions'[m] = actions[m]
         /\ actions'[n].status = status
         /\ \A m \in DOMAIN actions :
              /\ actions'[m].intent = actions[m].intent
              /\ actions'[m].kind = actions[m].kind
              /\ actions'[m].arg = actions[m].arg
              /\ actions'[m].expires = actions[m].expires
<1> DEFINE ledger == IF Open(status) THEN 0 ELSE net[n].ledger
           entry == [actions[n] EXCEPT !.status = status, !.ledger = ledger]
<1>1. actions[n] \in ActionType /\ Fits(actions[n]) /\ ledger \in Nat
  BY EntryTyped
<1>2. /\ entry \in ActionType
      /\ entry.status = status
      /\ entry.intent = actions[n].intent /\ entry.kind = actions[n].kind
      /\ entry.arg = actions[n].arg /\ entry.expires = actions[n].expires
  BY <1>1 DEF ActionType, Answers
<1>3. Fits(entry)
  BY <1>1, <1>2 DEF Fits
<1>4. actions' = [actions EXCEPT ![n] = entry]
  BY <1>1 DEF Resolved, ActionType
<1> HIDE DEF entry, ledger
<1>5. /\ actions \in Seq(ActionType)
      /\ actions' \in Seq(ActionType)
      /\ Len(actions') = Len(actions)
      /\ DOMAIN actions' = DOMAIN actions
      /\ \A m \in DOMAIN actions :
           actions'[m] = IF m = n THEN entry ELSE actions[m]
  BY <1>2, <1>4 DEF JournalOK
<1>6. \A m \in 1..Len(actions') : Fits(actions'[m])
  BY <1>3, <1>5 DEF JournalOK
<1>7. JournalOK'
  BY <1>5, <1>6 DEF JournalOK, Fits
<1> QED
  BY <1>2, <1>5, <1>7

\* Fewer transactions are open afterwards, if that one was.
LEMMA ResolvedCloses ==
  ASSUME JournalOK, NEW n \in Unresolved, NEW status \in Answers,
         actions' = Resolved(n, status), net' = net
  PROVE  /\ Unresolved' \subseteq Unresolved
         /\ Unresolved \ {n} \subseteq Unresolved'
<1>1. n \in DOMAIN actions
  BY DEF Unresolved
<1> QED
  BY <1>1, ResolvedKeeps DEF Unresolved

\* What a handler's step to another place keeps.
LEMMA HandlerMoves ==
  ASSUME CoordinatorInv, ~Idle,
         UNCHANGED intents,
         NEW h, DOMAIN h = Fields, h.id = handler.id, h.stage = handler.stage,
         h.doing = handler.doing \/ h.doing = None,
         h.todo \subseteq Unresolved', h.at \in {"send", "sent"} => h.todo # {},
         handler' = h
  PROVE  HandlerOK(handler)'
  BY DEF CoordinatorInv, HandlerOK, Idle, Fits

LEMMA Answering ==
  ASSUME JournalOK, NEW n \in DOMAIN actions
  PROVE  Answer(n) \in Answers
  BY EntryTyped DEF Answer, Included, Answers, Statuses

LEMMA QueryKeeps ==
  ASSUME CoordinatorInv, Query
  PROVE  CoordinatorInv'
<1>1. First \in handler.todo /\ First \in Unresolved /\ First \in DOMAIN actions
  BY FirstIsOpen DEF Query, Reconciling
<1>2. ~Idle /\ DOMAIN handler = Fields /\ handler.todo \subseteq Unresolved
  BY DEF Query, Reconciling, Idle, CoordinatorInv, HandlerOK
<1>3. HistoryOK' /\ TablesOK'
  BY DEF Query, network, CoordinatorInv, HistoryOK, TablesOK
<1>4. CASE actions' = actions /\ handler' = [handler EXCEPT !.at = "send"]
  <2>1. HandlerOK(handler)'
    <3>1. PICK h : h = [handler EXCEPT !.at = "send"]
      OBVIOUS
    <3>2. /\ DOMAIN h = Fields /\ h.id = handler.id /\ h.stage = handler.stage
          /\ h.doing = handler.doing /\ h.todo = handler.todo
      BY <1>2, <3>1 DEF Fields
    <3>3. h.todo \subseteq Unresolved' /\ h.todo # {} /\ UNCHANGED intents
      BY <1>1, <1>2, <1>4, <3>2 DEF Unresolved, Query
    <3> QED
      BY <1>2, <1>4, <3>1, <3>2, <3>3, HandlerMoves
  <2> QED
    BY <1>3, <1>4, <2>1 DEF CoordinatorInv, JournalOK, Query, network
<1>5. CASE /\ actions' = Resolved(First, Answer(First))
           /\ handler' = [handler EXCEPT !.todo = @ \ {First}]
           /\ handler.at = "reconcile"
  <2>1. JournalOK' /\ Unresolved \ {First} \subseteq Unresolved'
    BY <1>1, <1>5, ResolvedKeeps, ResolvedCloses, Answering
    DEF CoordinatorInv, Query, network
  <2>2. HandlerOK(handler)'
    <3>1. PICK h : h = [handler EXCEPT !.todo = @ \ {First}]
      OBVIOUS
    <3>2. /\ DOMAIN h = Fields /\ h.id = handler.id /\ h.stage = handler.stage
          /\ h.doing = handler.doing /\ h.todo = handler.todo \ {First}
          /\ h.at = "reconcile"
      BY <1>2, <1>5, <3>1 DEF Fields
    <3>3. h.todo \subseteq Unresolved' /\ UNCHANGED intents
      BY <1>1, <1>2, <1>5, <2>1, <3>2 DEF Query
    <3> QED
      BY <1>2, <1>5, <3>1, <3>2, <3>3, HandlerMoves
  <2> QED
    BY <1>3, <2>1, <2>2 DEF CoordinatorInv
<1> QED
  BY <1>4, <1>5 DEF Query, Reconciling

LEMMA SendKeeps ==
  ASSUME CoordinatorInv, Send
  PROVE  CoordinatorInv'
<1>1. ~Idle /\ DOMAIN handler = Fields /\ handler.todo \subseteq Unresolved /\ handler.todo # {}
  BY DEF Send, Idle, CoordinatorInv, HandlerOK
<1>2. HistoryOK' /\ TablesOK'
  BY NetworkAssumption DEF Send, Fault, database, CoordinatorInv, HistoryOK, TablesOK
<1>3. JournalOK'
  <2>1. CASE UNCHANGED net
    BY <2>1 DEF Send, database, CoordinatorInv, JournalOK, Fits
  <2>2. CASE net' = [net EXCEPT ![First].status = IF @ = "unsent" THEN "sent" ELSE @]
    <3>1. First \in DOMAIN actions
      BY <1>1, FirstIsOpen
    <3>2. First \in 1..Len(net) /\ net[First] \in [status : Fates, ledger : Nat]
      BY <3>1, EntryTyped DEF CoordinatorInv, JournalOK
    <3>3. [net[First] EXCEPT !.status = IF @ = "unsent" THEN "sent" ELSE @]
            \in [status : Fates, ledger : Nat]
      BY <3>2 DEF Fates
    <3>4. net' \in Seq([status : Fates, ledger : Nat]) /\ Len(net') = Len(net)
      BY <2>2, <3>2, <3>3 DEF CoordinatorInv, JournalOK
    <3> QED
      BY <3>4 DEF Send, database, CoordinatorInv, JournalOK, Fits
  <2> QED
    BY <2>1, <2>2 DEF Send
<1>4. HandlerOK(handler)'
  <2>1. PICK h : h = [handler EXCEPT !.at = "sent"]
    OBVIOUS
  <2>2. /\ DOMAIN h = Fields /\ h.id = handler.id /\ h.stage = handler.stage
        /\ h.doing = handler.doing /\ h.todo = handler.todo
    BY <1>1, <2>1 DEF Fields
  <2>3. h.todo \subseteq Unresolved' /\ h.todo # {} /\ UNCHANGED intents
    BY <1>1, <2>2 DEF Send, database, Unresolved
  <2>4. handler' = h
    BY <2>1 DEF Send
  <2> QED
    BY <1>1, <2>2, <2>3, <2>4, HandlerMoves
<1> QED
  BY <1>2, <1>3, <1>4 DEF CoordinatorInv

LEMMA SentKeeps ==
  ASSUME CoordinatorInv, Sent
  PROVE  CoordinatorInv'
<1>1. ~Idle /\ DOMAIN handler = Fields /\ handler.todo \subseteq Unresolved /\ handler.todo # {}
  BY DEF Sent, Idle, CoordinatorInv, HandlerOK
<1>2. First \in Unresolved /\ First \in DOMAIN actions
  BY <1>1, FirstIsOpen
<1>3. HistoryOK' /\ TablesOK'
  BY NetworkAssumption DEF Sent, Fault, network, CoordinatorInv, HistoryOK, TablesOK
<1>4. PICK status \in Answers : actions' = Resolved(First, status)
  BY <1>2, EntryTyped DEF Sent, Included, Answers, Statuses
<1>5. JournalOK' /\ Unresolved \ {First} \subseteq Unresolved'
  BY <1>2, <1>4, ResolvedKeeps, ResolvedCloses DEF CoordinatorInv, Sent, network
<1>6. HandlerOK(handler)'
  <2>1. PICK h : h = [handler EXCEPT !.at = "reconcile", !.todo = @ \ {First}]
    OBVIOUS
  <2>2. /\ DOMAIN h = Fields /\ h.id = handler.id /\ h.stage = handler.stage
        /\ h.doing = handler.doing /\ h.todo = handler.todo \ {First}
        /\ h.at = "reconcile"
    BY <1>1, <2>1 DEF Fields
  <2>3. h.todo \subseteq Unresolved' /\ UNCHANGED intents
    BY <1>1, <1>5, <2>2 DEF Sent
  <2>4. handler' = h
    BY <2>1 DEF Sent
  <2> QED
    BY <1>1, <2>2, <2>3, <2>4, HandlerMoves
<1> QED
  BY <1>3, <1>5, <1>6 DEF CoordinatorInv

\* A handler begins: its transactions are the open ones of its order.
LEMMA HandlerBegins ==
  ASSUME NEW id \in Ids, NEW op, handler' = Advance(id, op),
         actions' = actions, intents'[id] \in IntentType
  PROVE  HandlerOK(handler)'
<1>1. PICK h : h = Advance(id, op)
  OBVIOUS
<1>2. /\ DOMAIN h = Fields /\ h.id = id /\ h.stage = 0 /\ h.doing = None
      /\ h.todo \subseteq Unresolved /\ h.at = "reconcile"
  BY <1>1 DEF Advance, Fields
<1>3. handler' = h /\ Unresolved' = Unresolved
  BY <1>1 DEF Unresolved
<1> QED
  BY <1>2, <1>3 DEF HandlerOK

\* A handler sets out to make a call.
LEMMA HandlerPerforms ==
  ASSUME NEW h, DOMAIN h = Fields, h.id \in Ids, h.stage \in 0..7,
         NEW kind, NEW arg \in ArgType, Fits([kind |-> kind, arg |-> arg]),
         handler' = Perform(h, kind, arg),
         actions' = actions, intents'[h.id] \in IntentType,
         h.stage > 0 => intents'[h.id].terms \in Terms
  PROVE  HandlerOK(handler)'
<1>1. PICK g : g = Perform(h, kind, arg)
  OBVIOUS
<1>2. /\ DOMAIN g = Fields /\ g.id = h.id /\ g.stage = h.stage
      /\ g.doing = [kind |-> kind, arg |-> arg]
      /\ g.todo = Unresolved /\ g.at = "reconcile"
  BY <1>1 DEF Perform, Fields
<1>3. handler' = g /\ Unresolved' = Unresolved
  BY <1>1 DEF Unresolved
<1> QED
  BY <1>2, <1>3 DEF HandlerOK, Fits

\* The journal grows by a transaction that nobody has sent.
LEMMA JournalAppended ==
  ASSUME JournalOK, NEW a \in ActionType, Fits(a), a.status = "prepared",
         actions' = Append(actions, a),
         net' = Append(net, [status |-> "unsent", ledger |-> 0])
  PROVE  /\ JournalOK'
         /\ DOMAIN actions' = DOMAIN actions \cup {Len(actions')}
         /\ Len(actions') \notin DOMAIN actions
         /\ actions'[Len(actions')] = a
         /\ net'[Len(actions')].status = "unsent"
         /\ \A n \in DOMAIN actions : actions'[n] = actions[n] /\ net'[n] = net[n]
         /\ Unresolved' = Unresolved \cup {Len(actions')}
<1> DEFINE new == Len(actions) + 1
           Fate == [status : Fates, ledger : Nat]
           fate == [status |-> "unsent", ledger |-> 0]
<1>1. fate \in Fate /\ fate.status = "unsent"
  BY DEF Fates
<1>2. net \in Seq(Fate) /\ actions \in Seq(ActionType) /\ Len(net) = Len(actions)
  BY DEF JournalOK
<1> HIDE DEF Fate, fate
<1>3. /\ actions' \in Seq(ActionType) /\ net' \in Seq(Fate)
      /\ Len(actions') = new /\ Len(net') = new
      /\ actions'[new] = a /\ net'[new] = fate
      /\ \A n \in 1..Len(actions) : actions'[n] = actions[n] /\ net'[n] = net[n]
  BY <1>1, <1>2 DEF fate
<1>4. /\ DOMAIN actions' = DOMAIN actions \cup {new}
      /\ new \notin DOMAIN actions
      /\ DOMAIN actions = 1..Len(actions)
      /\ 1..Len(actions') = DOMAIN actions'
  BY <1>2, <1>3
<1> HIDE DEF new
<1>5. \A n \in 1..Len(actions') : Fits(actions'[n])
  BY <1>3, <1>4 DEF JournalOK
<1>6. JournalOK'
  BY <1>3, <1>5 DEF JournalOK, Fits, Fate
<1>7. Unresolved' = Unresolved \cup {new}
  <2>1. \A n \in DOMAIN actions' :
           Open(actions'[n].status) <=> n = new \/ Open(actions[n].status)
    BY <1>3, <1>4 DEF Open
  <2> QED
    BY <1>4, <2>1 DEF Unresolved
<1> QED
  BY <1>1, <1>3, <1>4, <1>6, <1>7

\* What a handler journals is a call that may be made.
LEMMA ExpiryTyped ==
  ASSUME CoordinatorInv, now \in Nat, ~Idle, handler.doing # None
  PROVE  Expiry(handler.doing) \in Nat
<1>1. now + TxLifetime \in Nat
  BY NetworkAssumption
<1>2. CASE handler.doing.kind = "create"
  <2>1. handler.doing.arg \in TermsType
    BY <1>2, ConfigAssumption DEF CoordinatorInv, HandlerOK, Fits, Idle
  <2>2. handler.doing.arg.deadline \in Nat
    BY <2>1 DEF TermsType
  <2> QED
    BY <1>1, <1>2, <2>2, MinOfTwo DEF Expiry
<1> QED
  BY <1>1, <1>2 DEF Expiry

LEMMA PrepareKeeps ==
  ASSUME CoordinatorInv, now \in Nat, Prepare
  PROVE  CoordinatorInv'
<1>1. /\ ~Idle /\ handler.doing # None /\ HandlerOK(handler)
  BY DEF Prepare, Idle, CoordinatorInv
<1>2. HistoryOK' /\ TablesOK'
  BY DEF Prepare, CoordinatorInv, HistoryOK, TablesOK
<1> DEFINE a == [intent |-> handler.id, kind |-> handler.doing.kind,
                 arg |-> handler.doing.arg, expires |-> Expiry(handler.doing),
                 status |-> "prepared", ledger |-> 0]
<1>3. CASE UNCHANGED <<actions, net>> /\ handler' = [handler EXCEPT !.doing = None]
  <2>1. PICK h : h = [handler EXCEPT !.doing = None]
    OBVIOUS
  <2>2. /\ DOMAIN h = Fields /\ h.id = handler.id /\ h.stage = handler.stage
        /\ h.doing = None /\ h.todo = handler.todo /\ h.at = handler.at
    BY <1>1, <2>1 DEF Fields, HandlerOK
  <2>3. UNCHANGED intents /\ Unresolved' = Unresolved
    BY <1>3 DEF Prepare, Unresolved
  <2>4. HandlerOK(handler)'
    BY <1>1, <1>3, <2>1, <2>2, <2>3, HandlerMoves DEF HandlerOK
  <2> QED
    BY <1>2, <1>3, <2>4 DEF CoordinatorInv, JournalOK, Fits
<1>4. CASE UNCHANGED <<actions, net>> /\ handler' = None
  BY <1>2, <1>4 DEF CoordinatorInv, JournalOK, Fits
<1>5. CASE /\ actions' = Append(actions, a)
           /\ net' = Append(net, [status |-> "unsent", ledger |-> 0])
           /\ handler' = [handler EXCEPT !.at = "send", !.doing = None,
                                         !.todo = {Len(actions')}]
  <2>1. a \in ActionType /\ Fits(a) /\ a.status = "prepared"
    BY <1>1, ExpiryTyped DEF HandlerOK, Fits, ActionType, Statuses
  <2> HIDE DEF a
  <2>2. JournalOK' /\ Unresolved' = Unresolved \cup {Len(actions')}
    BY <1>5, <2>1, JournalAppended DEF CoordinatorInv
  <2>3. PICK h : h = [handler EXCEPT !.at = "send", !.doing = None,
                                     !.todo = {Len(actions')}]
    OBVIOUS
  <2>4. /\ DOMAIN h = Fields /\ h.id = handler.id /\ h.stage = handler.stage
        /\ h.doing = None /\ h.todo = {Len(actions')}
    BY <1>1, <2>3 DEF Fields, HandlerOK
  <2>5. UNCHANGED intents
    BY DEF Prepare
  <2>6. HandlerOK(handler)'
    BY <1>1, <1>5, <2>2, <2>3, <2>4, <2>5, HandlerMoves
  <2> QED
    BY <1>2, <2>2, <2>6 DEF CoordinatorInv
<1> QED
  BY <1>3, <1>4, <1>5 DEF Prepare

\* The row of a handler's order, and the copy in it.
LEMMA RowTyped ==
  ASSUME CoordinatorInv, ~Idle
  PROVE  /\ HandlerOK(handler)
         /\ handler.id \in Ids /\ Row \in IntentType
         /\ Row.account \in Accounts
         /\ Known # None => Known \in OrderType
<1>1. HandlerOK(handler)
  BY DEF CoordinatorInv, Idle
<1>2. handler.id \in Ids /\ Row \in IntentType
  BY <1>1 DEF HandlerOK, Row
<1> QED
  BY <1>1, <1>2, NetworkAssumption DEF IntentType, Known, Option

\* Rewriting a field of an intent's row.
LEMMA RowsKeep ==
  ASSUME CoordinatorInv, NEW id \in Ids, intents[id] \in IntentType,
         NEW row \in IntentType, intents' = [intents EXCEPT ![id] = row],
         UNCHANGED <<bankEvents, consumed, payments, feed, faults>>
  PROVE  TablesOK' /\ intents'[id] = row
  BY DEF CoordinatorInv, TablesOK, Option

LEMMA ProofDoneKeeps ==
  ASSUME CoordinatorInv, ProofDone
  PROVE  CoordinatorInv'
<1>1. HandlerOK(handler)'
  BY RowTyped, HandlerBegins DEF ProofDone, Reconciled, database, Row
<1> QED
  BY <1>1
  DEF ProofDone, network, database, CoordinatorInv, JournalOK, HistoryOK,
      TablesOK, Fits

LEMMA SyncKeeps ==
  ASSUME CoordinatorInv, Reconciled, SyncSome
  PROVE  CoordinatorInv'
<1>1. PICK k \in DOMAIN past[handler.id] : Sync(k)
  <2>1. past[handler.id] \in Seq(Option(OrderType)) /\ past[handler.id] # <<>>
    BY RowTyped DEF Reconciled, CoordinatorInv, HistoryOK
  <2>2. Len(past[handler.id]) \in DOMAIN past[handler.id]
    BY <2>1
  <2> QED
    BY <2>2 DEF SyncSome
<1>2. HandlerOK(handler) /\ handler.id \in Ids /\ Row \in IntentType
  BY RowTyped DEF Reconciled
<1>3. past[handler.id][k] # None => past[handler.id][k] \in OrderType /\ k \in Nat
  <2>1. past[handler.id] \in Seq(Option(OrderType))
    BY <1>2 DEF CoordinatorInv, HistoryOK
  <2> DEFINE o == past[handler.id][k]
  <2>2. o \in Option(OrderType) /\ k \in Nat
    BY <2>1
  <2> QED
    BY <2>2 DEF Option
<1>4. /\ TablesOK' /\ intents'[handler.id] \in IntentType
      /\ intents'[handler.id].terms = Row.terms
  <2>1. CASE intents' = intents
    BY <1>1, <1>2, <2>1 DEF Sync, network, CoordinatorInv, TablesOK, Row
  <2>2. CASE /\ intents' = [intents EXCEPT ![handler.id].chain = past[handler.id][k],
                                           ![handler.id].seen = k]
             /\ past[handler.id][k] # None
    <3>1. PICK row : row = [Row EXCEPT !.chain = past[handler.id][k], !.seen = k]
      OBVIOUS
    <3>2. row \in IntentType /\ row.terms = Row.terms
      BY <1>2, <1>3, <2>2, <3>1 DEF IntentType, Option
    <3>3. intents' = [intents EXCEPT ![handler.id] = row]
      BY <1>2, <2>2, <3>1 DEF Row, CoordinatorInv, TablesOK
    <3> QED
      BY <1>1, <1>2, <3>2, <3>3, RowsKeep DEF Sync, network, Row
  <2> QED
    BY <1>1, <2>1, <2>2 DEF Sync
<1>5. ASSUME handler' = [handler EXCEPT !.at = "decide"]
      PROVE  HandlerOK(handler)'
  <2>1. Unresolved' = Unresolved
    BY <1>1 DEF Sync, Unresolved
  <2>2. PICK h : h = [handler EXCEPT !.at = "decide"]
    OBVIOUS
  <2>3. /\ DOMAIN h = Fields /\ h.id = handler.id /\ h.stage = handler.stage
        /\ h.todo = handler.todo /\ h.doing = handler.doing /\ h.at = "decide"
    BY <1>2, <2>2 DEF Fields, HandlerOK
  <2> QED
    BY <1>2, <1>4, <1>5, <2>1, <2>2, <2>3 DEF HandlerOK, Fits, Row
<1>6. handler' = None \/ handler' = [handler EXCEPT !.at = "decide"]
  BY <1>1 DEF Sync
<1> QED
  BY <1>1, <1>4, <1>5, <1>6
  DEF Sync, network, CoordinatorInv, JournalOK, HistoryOK, Fits

LEMMA FinishedKeeps ==
  ASSUME CoordinatorInv, ~Idle, handler' = Finished, UNCHANGED <<actions, intents>>
  PROVE  handler' # None => HandlerOK(handler)'
<1>1. CASE handler' = [handler EXCEPT !.at = "ask"]
  <2>1. PICK h : h = [handler EXCEPT !.at = "ask"]
    OBVIOUS
  <2>2. /\ DOMAIN h = Fields /\ h.id = handler.id /\ h.stage = handler.stage
        /\ h.doing = handler.doing /\ h.todo = handler.todo /\ h.at = "ask"
    BY RowTyped, <2>1 DEF Fields, HandlerOK
  <2>3. Unresolved' = Unresolved /\ handler.todo \subseteq Unresolved
    BY RowTyped DEF Unresolved, HandlerOK
  <2> QED
    BY <1>1, <2>1, <2>2, <2>3, HandlerMoves
<1> QED
  BY <1>1 DEF Finished

LEMMA BegunKeeps ==
  ASSUME CoordinatorInv, Begun
  PROVE  CoordinatorInv'
<1>1. HandlerOK(handler) /\ Row \in IntentType /\ ~Idle
  BY RowTyped DEF Begun, Deciding
<1>2. handler' # None => HandlerOK(handler)'
  <2>1. CASE handler' = Finished
    BY <1>1, <2>1, FinishedKeeps DEF Begun, database
  <2>2. CASE /\ handler' = [handler EXCEPT !.stage = 1, !.granted = Granted(handler.id)]
             /\ Row.terms # None
    <3>1. PICK h : h = [handler EXCEPT !.stage = 1, !.granted = Granted(handler.id)]
      OBVIOUS
    <3>2. /\ DOMAIN h = Fields /\ h.id = handler.id /\ h.stage = 1
          /\ h.doing = handler.doing /\ h.todo = handler.todo /\ h.at = handler.at
      BY <1>1, <3>1 DEF Fields, HandlerOK
    <3>3. Row.terms \in Terms
      BY <1>1, <2>2 DEF IntentType, Option
    <3>4. UNCHANGED intents /\ Unresolved' = Unresolved
      BY DEF Begun, database, Unresolved
    <3> QED
      BY <1>1, <2>2, <3>1, <3>2, <3>3, <3>4 DEF HandlerOK, Fits, Row
  <2> QED
    BY <2>1, <2>2 DEF Begun
<1> QED
  BY <1>2
  DEF Begun, network, database, CoordinatorInv, JournalOK, HistoryOK, TablesOK, Fits

\* The arguments of the calls that advance makes.
LEMMA StageArgTyped ==
  ASSUME CoordinatorInv, ~Idle, handler.stage > 0,
         NEW s \in {1, 2, 3, 5, 6}, Due(s)
  PROVE  /\ StageArg(s) \in ArgType
         /\ Fits([kind |-> StageKind[s], arg |-> StageArg(s)])
<1>1. HandlerOK(handler) /\ handler.id \in Ids
  BY RowTyped
<1>2. CASE s = 1
  <2>1. Row.terms \in Terms
    BY <1>1 DEF HandlerOK, Row
  <2> QED
    BY <1>2, <2>1 DEF StageArg, StageKind, Fits, Kinds, ArgType
<1>3. CASE s = 2
  <2>1. Accepted(handler.id) # {}
    BY <1>3 DEF Due, ToFund
  <2>2. Accepted(handler.id) \subseteq 1..MaxPayments
    BY NetworkAssumption DEF Accepted, CoordinatorInv, TablesOK, HistoryOK
  <2>3. Accepted(handler.id) \subseteq Nat /\ Accepted(handler.id) \subseteq Ops
    BY <2>2, NetworkAssumption
  <2>4. Min(Accepted(handler.id)) \in Ops
    BY <2>1, <2>3, MinIsLeast
  <2> QED
    BY <1>3, <2>4 DEF StageArg, StageKind, Fits, Kinds, ArgType
<1>4. CASE s = 5
  <2>1. bankEvents[handler.id] \in Receipts
    BY <1>1, <1>4 DEF Due, ToRecord, CoordinatorInv, TablesOK, Option
  <2> QED
    BY <1>4, <2>1 DEF StageArg, StageKind, Fits, Kinds, ArgType
<1>5. CASE s \in {3, 6}
  BY <1>5 DEF StageArg, StageKind, Fits, Kinds, ArgType
<1> QED
  BY <1>2, <1>3, <1>4, <1>5

LEMMA WorkKeeps ==
  ASSUME CoordinatorInv, now \in 0..MaxTime, Work
  PROVE  CoordinatorInv'
<1>1. /\ HandlerOK(handler) /\ ~Idle /\ handler.id \in Ids /\ Row \in IntentType
      /\ handler.stage \in 1..7 /\ Row.terms \in Terms
      /\ Known # None => Known \in OrderType
  BY RowTyped DEF Work, Deciding, HandlerOK, Row
<1>2. UNCHANGED <<intents, actions>>
  BY DEF Work
<1>3. CASE handler' = Finished /\ UNCHANGED bankEvents
  <2>1. handler' # None => HandlerOK(handler)'
    BY <1>1, <1>2, <1>3, FinishedKeeps
  <2> QED
    BY <1>3, <2>1
    DEF Work, network, CoordinatorInv, JournalOK, HistoryOK, TablesOK, Fits
<1>4. CASE Next6(handler.stage) # {}
  <2>1. PICK s : s = Min(Next6(handler.stage))
    OBVIOUS
  <2>2. s \in 1..6 /\ Due(s)
    <3>1. Next6(handler.stage) \in SUBSET Nat
      BY <1>1 DEF Next6
    <3>2. s \in Next6(handler.stage)
      BY <1>4, <2>1, <3>1, MinIsLeast
    <3> QED
      BY <1>1, <3>2 DEF Next6
  <2>3. PICK h : h = [handler EXCEPT !.stage = s + 1]
    OBVIOUS
  <2>4. /\ DOMAIN h = Fields /\ h.id = handler.id /\ h.stage = s + 1
        /\ h.doing = handler.doing /\ h.todo = handler.todo /\ h.at = handler.at
    BY <1>1, <2>3 DEF Fields, HandlerOK
  <2>5. CASE s = 4
    <3>1. handler' = h
      BY <1>4, <2>1, <2>3, <2>5 DEF Work
    <3>2. PICK e \in Events :
             bankEvents' = [bankEvents EXCEPT ![handler.id] =
               [event |-> e, quote |-> Known.terms.quote,
                bank |-> Known.terms.bank, receivedAt |-> now]]
      BY <1>4, <2>1, <2>5 DEF Work
    <3>3. Known.terms \in TermsType
      BY <1>1, <2>2, <2>5, ConfigAssumption DEF Due, ToPayBank, OrderType
    <3>4. [event |-> e, quote |-> Known.terms.quote,
           bank |-> Known.terms.bank, receivedAt |-> now] \in Receipts
      BY <3>3 DEF Receipts, TermsType
    <3>5. bankEvents' \in [Ids -> Option(Receipts)]
      BY <3>2, <3>4 DEF CoordinatorInv, TablesOK, Option
    <3>6. HandlerOK(handler)'
      BY <1>1, <1>2, <2>2, <2>4, <3>1 DEF HandlerOK, Fits, Row, Unresolved
    <3> QED
      BY <3>5, <3>6
      DEF Work, network, CoordinatorInv, JournalOK, HistoryOK, TablesOK, Fits
  <2>6. CASE s # 4
    <3>1. handler' = Perform(h, StageKind[s], StageArg(s)) /\ UNCHANGED bankEvents
      BY <1>4, <2>1, <2>3, <2>6 DEF Work
    <3>2. /\ StageArg(s) \in ArgType
          /\ Fits([kind |-> StageKind[s], arg |-> StageArg(s)])
      BY <1>1, <2>2, <2>6, StageArgTyped
    <3>3. PICK kind, arg : kind = StageKind[s] /\ arg = StageArg(s)
      OBVIOUS
    <3>4. HandlerOK(handler)'
      BY <1>1, <1>2, <2>2, <2>4, <3>1, <3>2, <3>3, HandlerPerforms DEF Row, HandlerOK
    <3> QED
      BY <3>1, <3>4
      DEF Work, network, CoordinatorInv, JournalOK, HistoryOK, TablesOK, Fits
  <2> QED
    BY <2>5, <2>6
<1> QED
  BY <1>3, <1>4 DEF Work

LEMMA AskKeeps ==
  ASSUME CoordinatorInv, Ask
  PROVE  CoordinatorInv'
<1>1. HandlerOK(handler) /\ handler.id \in Ids /\ Row \in IntentType
  BY RowTyped DEF Ask
<1>2. CASE /\ intents' = [intents EXCEPT ![handler.id].requested = TRUE]
           /\ handler' = Advance(handler.id, "advance")
  <2>1. PICK row : row = [Row EXCEPT !.requested = TRUE]
    OBVIOUS
  <2>2. row \in IntentType
    BY <1>1, <2>1 DEF IntentType
  <2>3. intents' = [intents EXCEPT ![handler.id] = row]
    BY <1>1, <1>2, <2>1 DEF Row, CoordinatorInv, TablesOK
  <2>4. TablesOK' /\ intents'[handler.id] \in IntentType
    BY <1>1, <2>2, <2>3, RowsKeep DEF Ask, network, Row
  <2>5. HandlerOK(handler)'
    BY <1>1, <1>2, <2>4, HandlerBegins DEF Ask
  <2> QED
    BY <2>4, <2>5 DEF Ask, network, CoordinatorInv, JournalOK, HistoryOK, Fits
<1>3. CASE handler' = None /\ UNCHANGED intents
  BY <1>3 DEF Ask, network, CoordinatorInv, JournalOK, HistoryOK, TablesOK, Fits
<1> QED
  BY <1>2, <1>3 DEF Ask

LEMMA GiveBackKeeps ==
  ASSUME CoordinatorInv, GiveBack
  PROVE  CoordinatorInv'
<1>1. HandlerOK(handler) /\ handler.id \in Ids /\ Row \in IntentType
  BY RowTyped DEF GiveBack, Deciding
<1>2. ASSUME intents' = [intents EXCEPT ![handler.id].requested = FALSE],
             NEW kind \in {"refund", "cancel"},
             handler' = Perform([handler EXCEPT !.op = "closing"], kind, None)
      PROVE  CoordinatorInv'
  <2>1. PICK row : row = [Row EXCEPT !.requested = FALSE]
    OBVIOUS
  <2>2. row \in IntentType /\ row.terms = Row.terms
    BY <1>1, <2>1 DEF IntentType
  <2>3. intents' = [intents EXCEPT ![handler.id] = row]
    BY <1>1, <1>2, <2>1 DEF Row, CoordinatorInv, TablesOK
  <2>4. TablesOK' /\ intents'[handler.id] = row
    BY <1>1, <2>2, <2>3, RowsKeep DEF GiveBack, network, Row
  <2>5. PICK h : h = [handler EXCEPT !.op = "closing"]
    OBVIOUS
  <2>6. DOMAIN h = Fields /\ h.id = handler.id /\ h.stage = handler.stage
    BY <1>1, <2>5 DEF Fields, HandlerOK
  <2>7. None \in ArgType /\ Fits([kind |-> kind, arg |-> None])
    BY DEF ArgType, Fits, Kinds
  <2>8. HandlerOK(handler)'
    BY <1>1, <1>2, <2>2, <2>4, <2>5, <2>6, <2>7, HandlerPerforms
    DEF GiveBack, HandlerOK, Row
  <2> QED
    BY <2>4, <2>8 DEF GiveBack, network, CoordinatorInv, JournalOK, HistoryOK, Fits
<1>3. CASE handler' = None /\ UNCHANGED intents
  BY <1>3 DEF GiveBack, network, CoordinatorInv, JournalOK, HistoryOK, TablesOK, Fits
<1>4. RefundAllowed => \E kind \in {"refund", "cancel"} :
          handler' = Perform([handler EXCEPT !.op = "closing"], kind, None)
  BY DEF GiveBack
<1> QED
  BY <1>2, <1>3, <1>4 DEF GiveBack

\* An intent is there once its row is.
LEMMA IntentTyped ==
  ASSUME CoordinatorInv, NEW id \in Ids, intents[id] # None
  PROVE  intents[id] \in IntentType /\ intents[id].account \in Accounts
<1>1. intents[id] \in IntentType
  BY DEF CoordinatorInv, TablesOK, Option
<1> QED
  BY <1>1, NetworkAssumption DEF IntentType

LEMMA BeginKeeps ==
  ASSUME CoordinatorInv, NEW id \in Ids, NEW a \in Customers,
         NEW d \in {"deposit", "withdrawal"}, Begin(id, a, d)
  PROVE  CoordinatorInv'
<1>1. NewRow(a, d) \in IntentType
  BY DEF NewRow, IntentType, Option
<1>2. TablesOK'
  BY <1>1 DEF Begin, network, CoordinatorInv, TablesOK, Option
<1> QED
  BY <1>2 DEF Begin, Idle, network, CoordinatorInv, JournalOK, HistoryOK, Fits

LEMMA AcceptKeeps ==
  ASSUME CoordinatorInv, NEW id \in Ids, NEW t \in Terms, Accept(id, t)
  PROVE  CoordinatorInv'
<1>1. intents[id] \in IntentType
  BY IntentTyped DEF Accept
<1>2. PICK row : row = [intents[id] EXCEPT !.terms = t]
  OBVIOUS
<1>3. row \in IntentType
  BY <1>1, <1>2 DEF IntentType, Option
<1>4. intents' \in [Ids -> Option(IntentType)] /\ intents'[id] = row
  BY <1>2, <1>3 DEF Accept, CoordinatorInv, TablesOK, Option
<1>5. consumed' \in [Quotes -> Option(Ids)]
  BY DEF Accept, CoordinatorInv, TablesOK, Option
<1>6. HandlerOK(handler)'
  BY <1>3, <1>4, HandlerBegins DEF Accept
<1> QED
  BY <1>4, <1>5, <1>6
  DEF Accept, network, CoordinatorInv, JournalOK, HistoryOK, TablesOK, Fits

\* The other requests only start a handler.
LEMMA RequestKeeps ==
  ASSUME CoordinatorInv, now \in 0..MaxTime, NEW id \in Ids, Request(id)
  PROVE  CoordinatorInv'
<1>1. ASSUME UNCHANGED <<contract, network, database, faults>>,
             handler' # None => HandlerOK(handler)'
      PROVE  CoordinatorInv'
  BY <1>1 DEF network, database, CoordinatorInv, JournalOK, HistoryOK, TablesOK, Fits
<1>2. CASE Get(id) \/ SimulateBank(id)
  <2>1. intents[id] \in IntentType /\ UNCHANGED <<actions, intents>>
    BY <1>2, IntentTyped DEF Get, SimulateBank, database
  <2>2. PICK op : handler' = Advance(id, op)
    BY <1>2 DEF Get, SimulateBank
  <2>3. HandlerOK(handler)'
    BY <2>1, <2>2, HandlerBegins
  <2> QED
    BY <1>1, <1>2, <2>3 DEF Get, SimulateBank
<1>3. CASE RequestRefund(id)
  <2>1. intents[id] \in IntentType /\ UNCHANGED <<actions, intents>>
    BY <1>3, IntentTyped DEF RequestRefund, database
  <2>2. PICK h : h = [Advance(id, "refund") EXCEPT !.replay = FALSE]
    OBVIOUS
  <2>3. /\ DOMAIN h = Fields /\ h.id = id /\ h.stage = 0 /\ h.doing = None
        /\ h.todo \subseteq Unresolved /\ h.at = "reconcile"
    BY <2>2 DEF Advance, Fields
  <2>4. handler' = h /\ Unresolved' = Unresolved
    BY <1>3, <2>1, <2>2 DEF RequestRefund, Unresolved
  <2>5. HandlerOK(handler)'
    BY <2>1, <2>3, <2>4 DEF HandlerOK
  <2> QED
    BY <1>1, <1>3, <2>5 DEF RequestRefund
<1>4. ASSUME NEW proofTime \in ProofTimes, SubmitProof(id, proofTime)
      PROVE  CoordinatorInv'
  <2>1. /\ intents[id] \in IntentType /\ UNCHANGED <<actions, intents>>
        /\ intents[id].account \in Accounts
    BY <1>4, IntentTyped DEF SubmitProof, database
  <2>2. PICK arg : arg = [subject |-> SubjectOf[intents[id].account],
                          proofTime |-> proofTime]
    OBVIOUS
  <2>3. arg \in ProofArg
    BY <1>4, <2>1, <2>2, NetworkAssumption, ConfigAssumption DEF SubmitProof, ProofArg
  <2>4. arg \in ArgType /\ Fits([kind |-> "eligibility", arg |-> arg])
    BY <2>3 DEF ArgType, Fits, Kinds
  <2>5. PICK h : h = Advance(id, "proof")
    OBVIOUS
  <2>6. DOMAIN h = Fields /\ h.id = id /\ h.stage = 0
    BY <2>5 DEF Advance, Fields
  <2>7. HandlerOK(handler)'
    BY <1>4, <2>1, <2>2, <2>4, <2>5, <2>6, HandlerPerforms DEF SubmitProof
  <2> QED
    BY <1>1, <1>4, <2>7 DEF SubmitProof
<1> QED
  BY <1>2, <1>3, <1>4, BeginKeeps, AcceptKeeps DEF Request

LEMMA IngestKeeps ==
  ASSUME CoordinatorInv, Ingest
  PROVE  CoordinatorInv'
<1>1. PICK p : p = feed[Len(payments) + 1]
  OBVIOUS
<1>2. p.memo \in Memos
  <2>1. Len(payments) + 1 \in 1..Len(feed) /\ feed \in Seq(PaymentType)
    BY DEF Ingest, CoordinatorInv, TablesOK, HistoryOK
  <2>2. p \in PaymentType
    BY <1>1, <2>1
  <2> QED
    BY <2>2 DEF PaymentType
<1>3. PICK id : id = Named(p)
  OBVIOUS
<1>4. id \in Option(Ids) /\ (id # None => id \in Ids /\ intents[id] # None)
  BY <1>2, <1>3, NetworkAssumption DEF Named, Option
<1>5. PICK verdict \in BOOLEAN : verdict = Matches(p, id)
  BY Zenon DEF Matches
<1>6. payments' = Append(payments, [intent |-> id, accepted |-> verdict])
  BY <1>1, <1>3, <1>5 DEF Ingest
<1>7. /\ payments' \in Seq([intent : Option(Ids), accepted : BOOLEAN])
      /\ Len(payments') = Len(payments) + 1
  <2> DEFINE Judged == [intent : Option(Ids), accepted : BOOLEAN]
             judged == [intent |-> id, accepted |-> verdict]
  <2>1. payments \in Seq(Judged) /\ judged \in Judged
    BY <1>4, <1>5 DEF CoordinatorInv, TablesOK
  <2> HIDE DEF Judged, judged
  <2>2. payments' \in Seq(Judged) /\ Len(payments') = Len(payments) + 1
    BY <1>6, <2>1 DEF judged
  <2> QED
    BY <2>2 DEF Judged
<1>8. intents' \in [Ids -> Option(IntentType)]
  <2>1. CASE intents' = intents
    BY <2>1 DEF CoordinatorInv, TablesOK
  <2>2. CASE id # None /\ intents' = [intents EXCEPT ![id].recovery = TRUE]
    <3>1. intents[id] \in IntentType
      BY <1>4, <2>2, IntentTyped
    <3>2. [intents[id] EXCEPT !.recovery = TRUE] \in IntentType
      BY <3>1 DEF IntentType
    <3> QED
      BY <1>4, <2>2, <3>2 DEF CoordinatorInv, TablesOK, Option
  <2> QED
    BY <1>1, <1>3, <2>1, <2>2 DEF Ingest
<1>9. TablesOK'
  <2>1. /\ Len(payments) \in Nat /\ Len(feed) \in Nat /\ Len(payments) < Len(feed)
        /\ UNCHANGED <<bankEvents, consumed, feed, faults>>
    BY DEF Ingest, network, CoordinatorInv, TablesOK, HistoryOK
  <2> QED
    BY <1>7, <1>8, <2>1 DEF CoordinatorInv, TablesOK
<1> QED
  BY <1>9 DEF Ingest, Idle, network, CoordinatorInv, JournalOK, HistoryOK, Fits

LEMMA DropKeeps ==
  ASSUME CoordinatorInv, Drop
  PROVE  CoordinatorInv'
<1>1. TablesOK'
  BY NetworkAssumption DEF Drop, Fault, network, database, CoordinatorInv, TablesOK
<1> QED
  BY <1>1 DEF Drop, network, database, CoordinatorInv, JournalOK, HistoryOK, Fits

\* The states of orders are remembered in the ledgers they were written in.
LEMMA RecordedKeeps ==
  ASSUME HistoryOK, TypeOK', Recorded, UNCHANGED feed
  PROVE  HistoryOK' /\ \A id \in Ids : Len(past'[id]) \in Nat
<1>1. ASSUME NEW id \in Ids
      PROVE  past'[id] \in Seq(Option(OrderType)) /\ past'[id] # <<>>
  <2> DEFINE O == Option(OrderType)
  <2>1. past[id] \in Seq(O) /\ past[id] # <<>> /\ orders'[id] \in O
    BY DEF HistoryOK, TypeOK
  <2>2. past'[id] = past[id] \/ past'[id] = Append(past[id], orders'[id])
    BY DEF Recorded
  <2> HIDE DEF O
  <2>3. past'[id] \in Seq(O) /\ past'[id] # <<>>
    BY <2>1, <2>2
  <2> QED
    BY <2>3 DEF O
<1>2. past' \in [Ids -> Seq(Option(OrderType))]
  BY <1>1 DEF Recorded
<1>3. \A id \in Ids : Len(past'[id]) \in Nat
  BY <1>1
<1> QED
  BY <1>1, <1>2, <1>3 DEF HistoryOK

\* What happens outside handlers writes no table.
LEMMA HandlerUntouched ==
  ASSUME CoordinatorInv, UNCHANGED <<database, handler>>
  PROVE  handler' # None => HandlerOK(handler)'
  BY DEF database, CoordinatorInv, HandlerOK, Unresolved, Fits

LEMMA FaultTyped ==
  ASSUME TablesOK, Fault
  PROVE  faults' \in 0..MaxFaults
  BY NetworkAssumption DEF TablesOK, Fault

LEMMA IncludeKeeps ==
  ASSUME CoordinatorInv, TypeOK', NEW n \in DOMAIN actions, Include(n)
  PROVE  CoordinatorInv'
<1>1. /\ actions[n].intent \in Ids /\ n \in 1..Len(net)
      /\ UNCHANGED <<feed, database, handler>> /\ Recorded
  <2>1. actions[n] \in ActionType /\ n \in DOMAIN net
    BY EntryTyped DEF CoordinatorInv
  <2> QED
    BY <2>1 DEF Include, ActionType, CoordinatorInv, JournalOK
<1>2. HistoryOK' /\ Len(past'[actions[n].intent]) \in Nat
  BY <1>1, RecordedKeeps DEF CoordinatorInv
<1>3. JournalOK'
  <2> DEFINE Fate == [status : Fates, ledger : Nat]
  <2>1. PICK status \in {"success", "failed"} :
          net' = [net EXCEPT ![n] =
                    [status |-> status, ledger |-> Len(past'[actions[n].intent])]]
    BY DEF Include
  <2>2. PICK fate : fate = [status |-> status, ledger |-> Len(past'[actions[n].intent])]
    OBVIOUS
  <2>3. fate \in Fate /\ net \in Seq(Fate)
    BY <1>2, <2>2 DEF Fates, CoordinatorInv, JournalOK
  <2>4. net' = [net EXCEPT ![n] = fate]
    BY <2>1, <2>2
  <2> HIDE DEF Fate
  <2>5. net' \in Seq(Fate) /\ Len(net') = Len(net)
    BY <1>1, <2>3, <2>4
  <2> QED
    BY <1>1, <2>5 DEF Fate, database, CoordinatorInv, JournalOK, Fits
<1>4. TablesOK'
  <2>1. faults' \in 0..MaxFaults
    BY FaultTyped DEF Include, Executes, CoordinatorInv, TablesOK
  <2> QED
    BY <1>1, <2>1 DEF database, CoordinatorInv, TablesOK
<1> QED
  BY <1>1, <1>2, <1>3, <1>4, HandlerUntouched DEF CoordinatorInv

LEMMA PayInKeeps ==
  ASSUME CoordinatorInv, now \in Nat, NEW memo \in Memos, NEW a \in Accounts,
         NEW amount \in ClassicAmounts, PayIn(memo, a, amount)
  PROVE  CoordinatorInv'
<1>1. UNCHANGED <<net, past, database, handler, faults>>
  BY DEF PayIn
<1>2. PICK p \in PaymentType : feed' = Append(feed, p)
  BY DEF PayIn, PaymentType
<1>3. /\ feed' \in Seq(PaymentType) /\ Len(feed') = Len(feed) + 1
      /\ Len(feed) \in Nat
  BY <1>2 DEF CoordinatorInv, HistoryOK
<1>4. HistoryOK'
  BY <1>1, <1>3, NetworkAssumption DEF PayIn, CoordinatorInv, HistoryOK
<1>5. TablesOK'
  BY <1>1, <1>3 DEF database, CoordinatorInv, TablesOK
<1> QED
  BY <1>1, <1>4, <1>5, HandlerUntouched DEF database, CoordinatorInv, JournalOK, Fits

LEMMA OutsideSettleKeeps ==
  ASSUME CoordinatorInv, TypeOK', NEW id \in Ids, OutsideSettle(id)
  PROVE  CoordinatorInv'
<1>1. UNCHANGED <<net, feed, database, handler, faults>> /\ Recorded
  BY DEF OutsideSettle
<1>2. HistoryOK'
  BY <1>1, RecordedKeeps DEF CoordinatorInv
<1> QED
  BY <1>1, <1>2, HandlerUntouched DEF database, CoordinatorInv, JournalOK, TablesOK, Fits

LEMMA EnvironmentKeeps ==
  ASSUME CoordinatorInv, Environment
  PROVE  CoordinatorInv'
<1>1. UNCHANGED <<network, database, handler>>
  BY DEF Environment
<1>2. faults' \in 0..MaxFaults
  BY FaultTyped DEF Environment, CoordinatorInv, TablesOK
<1> QED
  BY <1>1, <1>2, HandlerUntouched
  DEF network, database, CoordinatorInv, JournalOK, HistoryOK, TablesOK, Fits

-----------------------------------------------------------------------------
\* The invariant of the composition.

LEMMA SystemInitInv == SystemInit => SystemInv
<1> SUFFICES ASSUME SystemInit PROVE SystemInv
  OBVIOUS
<1>1. IInv /\ now <= MaxTime
  BY InitIInv, ConfigAssumption DEF SystemInit, Init
<1>2. JournalOK /\ TablesOK
  BY NetworkAssumption DEF SystemInit, JournalOK, TablesOK, Option
<1>3. HistoryOK
  BY NetworkAssumption DEF SystemInit, HistoryOK, Option
<1> QED
  BY <1>1, <1>2, <1>3 DEF SystemInit, SystemInv, CoordinatorInv

LEMMA SystemNextInv == SystemInv /\ [SystemNext]_system => SystemInv'
<1> SUFFICES ASSUME SystemInv, [SystemNext]_system PROVE SystemInv'
  OBVIOUS
<1>1. IInv' /\ now' <= MaxTime
  BY VaultKept
<1>2. CoordinatorInv /\ now \in 0..MaxTime /\ now \in Nat /\ TypeOK'
  BY <1>1, ConfigAssumption DEF SystemInv, IInv, TypeOK
<1>3. CASE Handling
  BY <1>2, <1>3, QueryKeeps, SendKeeps, SentKeeps, PrepareKeeps, ProofDoneKeeps,
     SyncKeeps, BegunKeeps, WorkKeeps, AskKeeps, GiveBackKeeps, <1>1
  DEF Handling, SystemInv
<1>4. ASSUME NEW id \in Ids, Request(id) \/ OutsideSettle(id)
      PROVE  CoordinatorInv'
  BY <1>2, <1>4, RequestKeeps, OutsideSettleKeeps
<1>5. CASE Ingest \/ Drop \/ Environment
  BY <1>1, <1>2, <1>5, IngestKeeps, DropKeeps, EnvironmentKeeps DEF SystemInv
<1>6. ASSUME NEW n \in DOMAIN actions, Include(n)
      PROVE  CoordinatorInv'
  BY <1>2, <1>6, IncludeKeeps
<1>7. ASSUME NEW memo \in Memos, NEW a \in Accounts, NEW amount \in ClassicAmounts,
             PayIn(memo, a, amount)
      PROVE  CoordinatorInv'
  BY <1>2, <1>7, PayInKeeps
<1>8. CASE UNCHANGED system
  <2>1. UNCHANGED <<network, database, handler, faults>>
    BY <1>8 DEF system
  <2> QED
    BY <1>1, <1>2, <2>1, HandlerUntouched
    DEF SystemInv, network, database, CoordinatorInv, JournalOK, HistoryOK,
        TablesOK, Fits
<1> QED
  BY <1>1, <1>3, <1>4, <1>5, <1>6, <1>7, <1>8 DEF SystemNext, SystemInv

LEMMA SystemSpecInv == SystemSpec => []SystemInv
  BY SystemInitInv, SystemNextInv, PTL DEF SystemSpec

\* The coordinator and its network only do to the contract what the contract
\* allows: what is proved of Spec holds of the whole system.
THEOREM SystemRunsVault == SystemSpec => Spec
<1>1. SystemInit => Init
  BY DEF SystemInit
<1>2. SystemInv /\ [SystemNext]_system => [Next]_vars
  BY SystemStepsVault
<1> QED
  BY <1>1, <1>2, SystemSpecInv, PTL DEF SystemSpec, Spec

\* Under the coordinator, too, the contract is the escrow it implements.
THEOREM SystemKeepsEscrow == SystemSpec => ImplementsEscrow
  BY SystemRunsVault, VaultImplementsEscrow, PTL

\* The tables, the journal and the network's memory hold what they should.
THEOREM SystemTypeCorrect == SystemSpec => []SystemTypeOK
<1>1. SystemInv => SystemTypeOK
  <2> SUFFICES ASSUME SystemInv PROVE SystemTypeOK
    OBVIOUS
  <2>1. TypeOK /\ CoordinatorInv
    BY DEF SystemInv, IInv
  <2>2. DOMAIN net = DOMAIN actions
    BY <2>1 DEF CoordinatorInv, JournalOK
  <2>3. \A n \in DOMAIN actions :
          /\ actions[n].intent \in Ids
          /\ actions[n].kind \in Kinds
          /\ actions[n].status \in {"prepared", "pending", "success", "failed"}
          /\ actions[n].expires \in Nat
          /\ net[n].status \in {"unsent", "sent", "success", "failed"}
    <3> SUFFICES ASSUME NEW n \in DOMAIN actions
                 PROVE  /\ actions[n].intent \in Ids
                        /\ actions[n].kind \in Kinds
                        /\ actions[n].status \in {"prepared", "pending", "success", "failed"}
                        /\ actions[n].expires \in Nat
                        /\ net[n].status \in {"unsent", "sent", "success", "failed"}
      OBVIOUS
    <3>1. actions[n] \in ActionType /\ net[n] \in [status : Fates, ledger : Nat]
      BY <2>1, EntryTyped DEF CoordinatorInv
    <3> QED
      BY <3>1 DEF ActionType, Statuses, Fates
  <2>4. Receipts \subseteq ReceiptType
    BY ConfigAssumption DEF Receipts, ReceiptType
  <2>5. bankEvents \in [Ids -> Option(ReceiptType)]
    BY <2>1, <2>4 DEF CoordinatorInv, TablesOK, Option
  <2> QED
    BY <2>1, <2>2, <2>3, <2>5 DEF SystemTypeOK, CoordinatorInv, TablesOK
<1> QED
  BY <1>1, SystemSpecInv, PTL

-----------------------------------------------------------------------------
\* The journal.

\* Only these steps write the journal or change a transaction's fate.
LEMMA JournalUntouched ==
  ASSUME [SystemNext]_system, ~Query, ~Send, ~Sent, ~Prepare,
         ~\E n \in DOMAIN actions : Include(n)
  PROVE  UNCHANGED <<actions, net>>
<1>1. CASE Handling
  BY <1>1
  DEF Handling, ProofDone, SyncSome, Sync, Begun, Work, Ask, GiveBack, database,
      network
<1>2. ASSUME NEW id \in Ids, Request(id) \/ OutsideSettle(id)
      PROVE  UNCHANGED <<actions, net>>
  BY <1>2
  DEF Request, Begin, Accept, Get, SubmitProof, SimulateBank, RequestRefund,
      OutsideSettle, database, network
<1>3. CASE Ingest \/ Drop \/ Environment \/ UNCHANGED system
  BY <1>3 DEF Ingest, Drop, Environment, system, database, network
<1>4. ASSUME NEW memo \in Memos, NEW a \in Accounts,
             NEW amount \in ClassicAmounts, PayIn(memo, a, amount)
      PROVE  UNCHANGED <<actions, net>>
  BY <1>4 DEF PayIn, database
<1> QED
  BY <1>1, <1>2, <1>3, <1>4 DEF SystemNext

\* A step that appends no entry opens none.
LEMMA OnlyPrepareOpens ==
  ASSUME SystemInv, [SystemNext]_system, ~Prepare
  PROVE  Unresolved' \subseteq Unresolved
<1>1. CoordinatorInv
  BY DEF SystemInv
<1>2. CASE Query
  <2>1. First \in Unresolved /\ First \in DOMAIN actions
    BY <1>1, <1>2, FirstIsOpen DEF Query, Reconciling
  <2>2. CASE actions' = actions
    BY <2>2 DEF Unresolved
  <2>3. CASE actions' = Resolved(First, Answer(First))
    BY <1>1, <1>2, <2>1, <2>3, ResolvedCloses, Answering
    DEF CoordinatorInv, Query, network
  <2> QED
    BY <1>2, <2>2, <2>3 DEF Query
<1>3. CASE Sent
  <2>1. /\ First \in Unresolved /\ First \in DOMAIN actions
    <3>1. ~Idle /\ handler.todo # {}
      BY <1>1, <1>3 DEF Sent, Idle, CoordinatorInv, HandlerOK
    <3> QED
      BY <1>1, <3>1, FirstIsOpen
  <2>2. PICK status \in Answers : actions' = Resolved(First, status)
    BY <1>1, <1>3, <2>1, EntryTyped
    DEF CoordinatorInv, Sent, Included, Answers, Statuses
  <2> QED
    BY <1>1, <1>3, <2>1, <2>2, ResolvedCloses DEF CoordinatorInv, Sent, network
<1>4. CASE ~Query /\ ~Sent
  <2>1. actions' = actions
    BY <1>4, JournalUntouched DEF Send, Include, database
  <2> QED
    BY <2>1 DEF Unresolved
<1> QED
  BY <1>2, <1>3, <1>4

\* The entry that a handler journals.
Entry == [intent |-> handler.id, kind |-> handler.doing.kind,
          arg |-> handler.doing.arg, expires |-> Expiry(handler.doing),
          status |-> "prepared", ledger |-> 0]

Journals ==
    /\ ~InFlight
    /\ actions' = Append(actions, Entry)
    /\ net' = Append(net, [status |-> "unsent", ledger |-> 0])

LEMMA PrepareJournals ==
  ASSUME SystemInv, Prepare
  PROVE  \/ UNCHANGED <<actions, net>>
         \/ /\ Journals
            /\ Entry \in ActionType /\ Fits(Entry) /\ Entry.status = "prepared"
            /\ JournalOK
<1>1. CoordinatorInv /\ now \in Nat
  BY DEF SystemInv, IInv, TypeOK
<1>2. ~Idle /\ handler.doing # None /\ HandlerOK(handler)
  BY <1>1 DEF Prepare, Idle, CoordinatorInv
<1>3. Entry \in ActionType /\ Fits(Entry) /\ Entry.status = "prepared"
  BY <1>1, <1>2, ExpiryTyped DEF Entry, HandlerOK, Fits, ActionType, Statuses
<1> QED
  BY <1>1, <1>3 DEF Prepare, Journals, Entry, CoordinatorInv

LEMMA OneInFlightKept == SystemInv /\ OneInFlight /\ [SystemNext]_system => OneInFlight'
<1> SUFFICES ASSUME SystemInv, OneInFlight, [SystemNext]_system PROVE OneInFlight'
  OBVIOUS
<1>1. CASE ~Prepare
  BY <1>1, OnlyPrepareOpens DEF OneInFlight
<1>2. CASE Prepare /\ actions' = actions
  BY <1>2 DEF OneInFlight, Unresolved
<1>3. CASE /\ Journals /\ JournalOK
           /\ Entry \in ActionType /\ Fits(Entry) /\ Entry.status = "prepared"
  <2>1. PICK a : a = Entry
    OBVIOUS
  <2>2. Unresolved' = Unresolved \cup {Len(actions')}
    BY <1>3, <2>1, JournalAppended DEF Journals
  <2>3. Unresolved = {}
    BY <1>3 DEF Journals, InFlight
  <2> QED
    BY <2>2, <2>3 DEF OneInFlight
<1> QED
  BY <1>1, <1>2, <1>3, PrepareJournals

\* However calls are lost and handlers dropped, no call is made while another
\* may still take effect.
THEOREM OneCallAtATime == SystemSpec => []OneInFlight
<1>1. SystemInit => OneInFlight
  BY DEF SystemInit, OneInFlight, Unresolved
<1> QED
  BY <1>1, OneInFlightKept, SystemSpecInv, PTL DEF SystemSpec

\* What a status says of a transaction, if it is final.
Told(status, n) ==
    /\ status = "success" => net[n].status = "success"
    /\ status = "failed" =>
          \/ net[n].status = "failed"
          \/ net[n].status # "success" /\ now > actions[n].expires

\* What no step undoes.
Lasting(n) ==
    /\ n \in DOMAIN actions'
    /\ actions'[n].intent = actions[n].intent
    /\ actions'[n].kind = actions[n].kind
    /\ actions'[n].arg = actions[n].arg
    /\ actions'[n].expires = actions[n].expires
    /\ \/ net'[n] = net[n]
       \/ net[n].status = "unsent" /\ net'[n].status = "sent"
       \/ /\ net[n].status = "sent" /\ now <= actions[n].expires
          /\ net'[n].status \in {"success", "failed"}
JournalGrows == \A n \in DOMAIN actions : Lasting(n)

LEMMA TimeGoesOn ==
  ASSUME SystemInv, [SystemNext]_system
  PROVE  now \in Nat /\ now' \in Nat /\ now <= now'
<1>1. now' = now \/ now' = now + 1
  BY SystemStepsVault
  DEF Next, vars, Tick, VerifierChange, TrustlineChange, Pay, Donate, Clawback,
      SubmitEligibility, Call, CreateOrder, FundWithdrawal, AuthorizePayout,
      RecordReceipt, Settle, Refund, Cancel
<1> QED
  BY <1>1 DEF SystemInv, IInv, TypeOK

LEMMA SystemJournalGrows ==
  ASSUME SystemInv, [SystemNext]_system
  PROVE  JournalGrows
<1> USE DEF JournalGrows
<1>1. CoordinatorInv /\ JournalOK
  BY DEF SystemInv, CoordinatorInv
<1>2. CASE UNCHANGED <<actions, net>>
  BY <1>2 DEF Lasting
<1>3. ASSUME NEW n \in DOMAIN actions, NEW status \in Answers,
             actions' = Resolved(n, status), net' = net
      PROVE  JournalGrows
  BY <1>1, <1>3, ResolvedKeeps DEF Lasting
<1>4. CASE Query
  <2>1. First \in DOMAIN actions
    BY <1>1, <1>4, FirstIsOpen DEF Query, Reconciling
  <2>2. Answer(First) \in Answers
    BY <1>1, <2>1, Answering
  <2> QED
    BY <1>2, <1>3, <1>4, <2>1, <2>2 DEF Query, network
<1>5. CASE Sent
  <2>1. First \in DOMAIN actions
    <3>1. ~Idle /\ handler.todo # {}
      BY <1>1, <1>5 DEF Sent, Idle, CoordinatorInv, HandlerOK
    <3> QED
      BY <1>1, <3>1, FirstIsOpen
  <2>2. PICK status \in Answers : actions' = Resolved(First, status)
    BY <1>1, <1>5, <2>1, EntryTyped DEF Sent, Included, Answers, Statuses
  <2> QED
    BY <1>3, <1>5, <2>1, <2>2 DEF Sent, network
<1>6. CASE Prepare
  <2>1. CASE /\ Journals
             /\ Entry \in ActionType /\ Fits(Entry) /\ Entry.status = "prepared"
    <3>1. PICK a : a = Entry
      OBVIOUS
    <3>2. /\ DOMAIN actions \subseteq DOMAIN actions'
          /\ \A n \in DOMAIN actions : actions'[n] = actions[n] /\ net'[n] = net[n]
      BY <1>1, <2>1, <3>1, JournalAppended DEF Journals
    <3> QED
      BY <3>2 DEF Lasting
  <2> QED
    BY <1>2, <1>6, <2>1, PrepareJournals
<1>7. CASE Send
  <2>1. First \in DOMAIN actions /\ actions' = actions
    <3>1. ~Idle /\ handler.todo # {}
      BY <1>1, <1>7 DEF Send, Idle, CoordinatorInv, HandlerOK
    <3> QED
      BY <1>1, <1>7, <3>1, FirstIsOpen DEF Send, database
  <2>2. CASE net' = [net EXCEPT ![First].status = IF @ = "unsent" THEN "sent" ELSE @]
    <3> SUFFICES ASSUME NEW n \in DOMAIN actions PROVE Lasting(n)
      OBVIOUS
    <3>1. n \in DOMAIN net /\ net[n] \in [status : Fates, ledger : Nat]
      BY <1>1, EntryTyped
    <3>2. CASE n = First /\ net[n].status = "unsent"
      BY <2>1, <2>2, <3>1, <3>2 DEF Lasting
    <3>3. CASE n # First \/ net[n].status # "unsent"
      <4>1. net'[n] = net[n]
        BY <2>2, <3>1, <3>3
      <4> QED
        BY <2>1, <4>1 DEF Lasting
    <3> QED
      BY <3>2, <3>3
  <2> QED
    BY <1>2, <1>7, <2>1, <2>2 DEF Send
<1>8. ASSUME NEW m \in DOMAIN actions, Include(m) PROVE JournalGrows
  <2> SUFFICES ASSUME NEW n \in DOMAIN actions PROVE Lasting(n)
    OBVIOUS
  <2>1. n \in DOMAIN net /\ actions' = actions
    BY <1>1, <1>8, EntryTyped DEF Include, database
  <2>2. CASE n # m
    <3>1. net'[n] = net[n]
      BY <1>8, <2>1, <2>2 DEF Include
    <3> QED
      BY <2>1, <3>1 DEF Lasting
  <2>3. CASE n = m
    BY <1>8, <2>1, <2>3 DEF Include, Lasting
  <2> QED
    BY <2>2, <2>3
<1> QED
  BY <1>2, <1>4, <1>5, <1>6, <1>7, <1>8, JournalUntouched

\* A true verdict stays true: what expired is not included any more.
LEMMA ToldStays ==
  ASSUME SystemInv, [SystemNext]_system, NEW n \in DOMAIN actions,
         NEW status, Told(status, n)
  PROVE  Told(status, n)'
<1>1. now \in Nat /\ now' \in Nat /\ now <= now'
  BY TimeGoesOn
<1>2. actions[n].expires \in Nat
  <2>1. actions[n] \in ActionType
    BY EntryTyped DEF SystemInv, CoordinatorInv
  <2> QED
    BY <2>1 DEF ActionType
<1>3. Lasting(n)
  BY SystemJournalGrows DEF JournalGrows
<1> QED
  BY <1>1, <1>2, <1>3 DEF Lasting, Told

\* A verdict that is true is written over a status.
LEMMA TrueVerdict ==
  ASSUME SystemInv, [SystemNext]_system, VerdictsFinal,
         NEW n \in DOMAIN actions, NEW status \in Answers, Told(status, n),
         actions' = Resolved(n, status), net' = net
  PROVE  VerdictsFinal'
<1>1. /\ DOMAIN actions' = DOMAIN actions
      /\ actions'[n].status = status
      /\ \A m \in DOMAIN actions : m # n => actions'[m] = actions[m]
  BY ResolvedKeeps DEF SystemInv, CoordinatorInv
<1> SUFFICES ASSUME NEW m \in DOMAIN actions
             PROVE  Told(actions[m].status, m)'
  BY <1>1 DEF VerdictsFinal, Told
<1>2. PICK v : v = actions'[m].status
  OBVIOUS
<1>3. Told(v, m)
  BY <1>1, <1>2 DEF VerdictsFinal, Told
<1>4. Told(v, m)'
  BY <1>3, ToldStays
<1> QED
  BY <1>2, <1>4 DEF Told

LEMMA VerdictsKept == SystemInv /\ VerdictsFinal /\ [SystemNext]_system => VerdictsFinal'
<1> SUFFICES ASSUME SystemInv, VerdictsFinal, [SystemNext]_system
             PROVE  VerdictsFinal'
  OBVIOUS
<1>1. CoordinatorInv /\ JournalOK
  BY DEF SystemInv, CoordinatorInv
<1>2. CASE actions' = actions
  <2> SUFFICES ASSUME NEW m \in DOMAIN actions
               PROVE  Told(actions[m].status, m)'
    BY <1>2 DEF VerdictsFinal, Told
  <2>1. PICK v : v = actions[m].status
    OBVIOUS
  <2>2. Told(v, m)'
    BY <2>1, ToldStays DEF VerdictsFinal, Told
  <2> QED
    BY <1>2, <2>1, <2>2 DEF Told
<1>3. CASE Query
  <2>1. First \in DOMAIN actions
    BY <1>1, <1>3, FirstIsOpen DEF Query, Reconciling
  <2>2. PICK status : status = Answer(First)
    OBVIOUS
  <2>3. status \in Answers /\ Told(status, First)
    <3>1. net[First] \in [status : Fates, ledger : Nat]
      BY <1>1, <2>1, EntryTyped
    <3>2. net[First].status \in Fates
      BY <3>1
    <3> QED
      BY <2>2, <3>2 DEF Answer, Included, Told, Answers, Statuses, Fates
  <2> QED
    BY <1>2, <1>3, <2>1, <2>2, <2>3, TrueVerdict DEF Query, network
<1>4. CASE Sent
  <2>1. First \in DOMAIN actions
    <3>1. ~Idle /\ handler.todo # {}
      BY <1>1, <1>4 DEF Sent, Idle, CoordinatorInv, HandlerOK
    <3> QED
      BY <1>1, <3>1, FirstIsOpen
  <2>2. PICK status \in Answers : Told(status, First) /\ actions' = Resolved(First, status)
    BY <1>1, <1>4, <2>1, EntryTyped DEF Sent, Included, Answers, Statuses, Told
  <2> QED
    BY <1>4, <2>1, <2>2, TrueVerdict DEF Sent, network
<1>5. CASE Prepare
  <2>1. CASE /\ Journals
             /\ Entry \in ActionType /\ Fits(Entry) /\ Entry.status = "prepared"
    <3>1. PICK a : a = Entry
      OBVIOUS
    <3>2. /\ DOMAIN actions' = DOMAIN actions \cup {Len(actions')}
          /\ actions'[Len(actions')].status = "prepared"
          /\ \A n \in DOMAIN actions : actions'[n] = actions[n]
      BY <1>1, <2>1, <3>1, JournalAppended DEF Journals
    <3> SUFFICES ASSUME NEW m \in DOMAIN actions
                 PROVE  Told(actions[m].status, m)'
      BY <3>2 DEF VerdictsFinal, Told
    <3>3. PICK v : v = actions[m].status
      OBVIOUS
    <3>4. Told(v, m)'
      BY <3>3, ToldStays DEF VerdictsFinal, Told
    <3> QED
      BY <3>2, <3>3, <3>4 DEF Told
  <2> QED
    BY <1>2, <1>5, <2>1, PrepareJournals
<1>6. CASE ~Query /\ ~Sent /\ ~Prepare
  <2>1. actions' = actions
    BY <1>6, JournalUntouched DEF Send, Include, database
  <2> QED
    BY <1>2, <2>1
<1> QED
  BY <1>3, <1>4, <1>5, <1>6

\* What the journal says of a transaction is what happened to it, for good.
THEOREM VerdictsStayTrue == SystemSpec => []VerdictsFinal
<1>1. SystemInit => VerdictsFinal
  BY DEF SystemInit, VerdictsFinal
<1> QED
  BY <1>1, VerdictsKept, SystemSpecInv, PTL DEF SystemSpec

-----------------------------------------------------------------------------
\* Quotes.

\* Terms that were accepted hold their quote.
QuotesHeld ==
    \A id \in Ids :
        (intents[id] # None /\ intents[id].terms # None)
            => consumed[intents[id].terms.quote] = id

LEMMA QuotesHeldKept == SystemInv /\ QuotesHeld /\ [SystemNext]_system => QuotesHeld'
<1> SUFFICES ASSUME SystemInv, QuotesHeld, [SystemNext]_system PROVE QuotesHeld'
  OBVIOUS
<1>1. TablesOK /\ CoordinatorInv
  BY DEF SystemInv, CoordinatorInv
<1>2. ASSUME UNCHANGED consumed,
             \A id \in Ids : intents'[id] # None /\ intents'[id].terms # None =>
                intents[id] # None /\ intents'[id].terms = intents[id].terms
      PROVE  QuotesHeld'
  BY <1>2 DEF QuotesHeld
<1>3. ASSUME NEW id \in Ids, NEW t \in Terms, Accept(id, t) PROVE QuotesHeld'
  <2>1. t.quote \in Quotes /\ consumed[t.quote] = None /\ None \notin Ids
    BY <1>3, ConfigAssumption, NoneAssumption DEF Accept, Unconsumed, TermsType
  <2>2. /\ consumed' = [consumed EXCEPT ![t.quote] = id]
        /\ consumed \in [Quotes -> Option(Ids)]
    BY <1>1, <1>3 DEF Accept, TablesOK
  <2>3. intents[id] \in IntentType /\ intents \in [Ids -> Option(IntentType)]
    BY <1>1, <1>3, IntentTyped DEF Accept, TablesOK
  <2>4. intents'[id].terms = t /\ \A j \in Ids \ {id} : intents'[j] = intents[j]
    BY <1>3, <2>3 DEF Accept, IntentType
  <2> SUFFICES ASSUME NEW j \in Ids, intents'[j] # None, intents'[j].terms # None
               PROVE  consumed'[intents'[j].terms.quote] = j
    BY DEF QuotesHeld
  <2>5. CASE j = id
    BY <2>1, <2>2, <2>4, <2>5
  <2>6. CASE j # id
    <3>1. /\ intents'[j] = intents[j]
          /\ consumed[intents[j].terms.quote] = j
      BY <2>4, <2>6 DEF QuotesHeld
    <3>2. intents[j].terms.quote # t.quote
      BY <2>1, <3>1
    <3> QED
      BY <2>2, <3>1, <3>2
  <2> QED
    BY <2>5, <2>6
<1>4. ASSUME NEW id \in Ids, intents[id] \in IntentType, UNCHANGED consumed,
             NEW row, row.terms = intents[id].terms,
             intents' = [intents EXCEPT ![id] = row]
      PROVE  QuotesHeld'
  <2>1. intents[id] # None
    BY <1>4, IntentAssumption
  <2>2. \A j \in Ids : intents'[j] = IF j = id THEN row ELSE intents[j]
    BY <1>1, <1>4 DEF TablesOK
  <2> QED
    BY <1>2, <1>4, <2>1, <2>2
<1>5. CASE intents' = intents /\ consumed' = consumed
  BY <1>2, <1>5
<1>6. ASSUME ~Idle, UNCHANGED consumed,
             \/ \E k : intents' = [intents EXCEPT
                         ![handler.id].chain = past[handler.id][k],
                         ![handler.id].seen = k]
             \/ \E b \in BOOLEAN :
                   intents' = [intents EXCEPT ![handler.id].requested = b]
      PROVE  QuotesHeld'
  <2>1. handler.id \in Ids /\ Row \in IntentType /\ intents \in [Ids -> Option(IntentType)]
    BY <1>1, <1>6, RowTyped DEF TablesOK
  <2>2. CASE \E b \in BOOLEAN :
                intents' = [intents EXCEPT ![handler.id].requested = b]
    <3>1. PICK b : intents' = [intents EXCEPT ![handler.id].requested = b]
      BY <2>2
    <3>2. PICK row : row = [Row EXCEPT !.requested = b]
      OBVIOUS
    <3>3. /\ row.terms = intents[handler.id].terms
          /\ intents' = [intents EXCEPT ![handler.id] = row]
      BY <2>1, <3>1, <3>2 DEF Row, IntentType
    <3>4. PICK id \in Ids : id = handler.id
      BY <2>1
    <3> QED
      BY <1>4, <1>6, <2>1, <3>3, <3>4 DEF Row
  <2>3. CASE \E k : intents' = [intents EXCEPT
                         ![handler.id].chain = past[handler.id][k],
                         ![handler.id].seen = k]
    <3>1. PICK k : intents' = [intents EXCEPT
                         ![handler.id].chain = past[handler.id][k],
                         ![handler.id].seen = k]
      BY <2>3
    <3>2. PICK row : row = [Row EXCEPT !.chain = past[handler.id][k], !.seen = k]
      OBVIOUS
    <3>3. /\ row.terms = intents[handler.id].terms
          /\ intents' = [intents EXCEPT ![handler.id] = row]
      BY <2>1, <3>1, <3>2 DEF Row, IntentType
    <3>4. PICK id \in Ids : id = handler.id
      BY <2>1
    <3> QED
      BY <1>4, <1>6, <2>1, <3>3, <3>4 DEF Row
  <2> QED
    BY <1>6, <2>2, <2>3
<1>7. CASE Handling
  BY <1>5, <1>6, <1>7
  DEF Handling, Query, Send, Sent, Prepare, ProofDone, SyncSome, Sync,
      Reconciled, Begun, Work, Ask, GiveBack, Deciding, database
<1>8. ASSUME NEW id \in Ids, NEW a \in Customers,
             NEW d \in {"deposit", "withdrawal"}, Begin(id, a, d)
      PROVE  QuotesHeld'
  <2>1. intents'[id] = NewRow(a, d) /\ \A j \in Ids \ {id} : intents'[j] = intents[j]
    BY <1>1, <1>8 DEF Begin, TablesOK
  <2>2. intents'[id].terms = None /\ UNCHANGED consumed
    BY <1>8, <2>1 DEF NewRow, Begin
  <2> QED
    BY <2>1, <2>2 DEF QuotesHeld
<1>9. ASSUME NEW id \in Ids, Request(id) PROVE QuotesHeld'
  BY <1>3, <1>5, <1>8, <1>9
  DEF Request, Get, SubmitProof, SimulateBank, RequestRefund, database
<1>10. CASE Ingest
  <2>1. CASE \E id \in Ids : /\ intents[id] # None
                             /\ intents' = [intents EXCEPT ![id].recovery = TRUE]
    <3>1. PICK id \in Ids : /\ intents[id] # None
                            /\ intents' = [intents EXCEPT ![id].recovery = TRUE]
      BY <2>1
    <3>2. PICK row : row = [intents[id] EXCEPT !.recovery = TRUE]
      OBVIOUS
    <3>3. intents[id] \in IntentType /\ intents \in [Ids -> Option(IntentType)]
      BY <1>1, <3>1, IntentTyped DEF TablesOK
    <3>4. /\ row.terms = intents[id].terms
          /\ intents' = [intents EXCEPT ![id] = row]
      BY <3>1, <3>2, <3>3 DEF IntentType
    <3> QED
      BY <1>4, <1>10, <3>3, <3>4 DEF Ingest
  <2>2. intents' = intents \/ \E id \in Ids :
           intents[id] # None /\ intents' = [intents EXCEPT ![id].recovery = TRUE]
    <3> DEFINE p == feed[Len(payments) + 1]
    <3>1. p.memo \in Memos
      <4>1. Len(payments) + 1 \in 1..Len(feed) /\ feed \in Seq(PaymentType)
        BY <1>1, <1>10 DEF Ingest, CoordinatorInv, TablesOK, HistoryOK
      <4>2. p \in PaymentType
        BY <4>1
      <4> QED
        BY <4>2 DEF PaymentType
    <3>2. Named(p) # None => Named(p) \in Ids /\ intents[Named(p)] # None
      BY <3>1, NetworkAssumption DEF Named
    <3> QED
      BY <1>10, <3>2 DEF Ingest
  <2> QED
    BY <1>5, <1>10, <2>1, <2>2 DEF Ingest
<1>11. CASE Drop \/ Environment \/ UNCHANGED system
  BY <1>5, <1>11 DEF Drop, Environment, system, database
<1>12. ASSUME NEW n \in DOMAIN actions, Include(n) PROVE QuotesHeld'
  BY <1>5, <1>12 DEF Include, database
<1>13. ASSUME NEW memo \in Memos, NEW a \in Accounts, NEW amount \in ClassicAmounts,
              PayIn(memo, a, amount)
       PROVE  QuotesHeld'
  BY <1>5, <1>13 DEF PayIn, database
<1>14. ASSUME NEW id \in Ids, OutsideSettle(id) PROVE QuotesHeld'
  BY <1>5, <1>14 DEF OutsideSettle, database
<1> QED
  BY <1>7, <1>9, <1>10, <1>11, <1>12, <1>13, <1>14 DEF SystemNext

\* A firm quote fixes the terms of one intent, whoever asks for it meanwhile.
THEOREM QuotesServeOne == SystemSpec => []QuoteServesOne
<1>1. SystemInit => QuotesHeld
  BY DEF SystemInit, QuotesHeld
<1>2. QuotesHeld => QuoteServesOne
  <2> SUFFICES ASSUME QuotesHeld, NEW q \in Quotes
               PROVE  Cardinality({id \in Ids : /\ intents[id] # None
                                               /\ intents[id].terms # None
                                               /\ intents[id].terms.quote = q}) <= 1
    BY DEF QuoteServesOne
  <2> DEFINE served == {id \in Ids : /\ intents[id] # None
                                     /\ intents[id].terms # None
                                     /\ intents[id].terms.quote = q}
  <2>1. served \subseteq {consumed[q]}
    BY DEF QuotesHeld
  <2>2. IsFiniteSet({consumed[q]}) /\ Cardinality({consumed[q]}) = 1
    BY FS_Singleton
  <2>3. Cardinality(served) <= Cardinality({consumed[q]})
    BY <2>1, <2>2, FS_Subset
  <2> QED
    BY <2>2, <2>3
<1> QED
  BY <1>1, <1>2, QuotesHeldKept, SystemSpecInv, PTL DEF SystemSpec

-----------------------------------------------------------------------------
\* What no step undoes.

\* An order b is a later state of the order a.
Later(a, b) ==
    a # None =>
      /\ b # None
      /\ b.terms = a.terms
      /\ Authorized(a) => Authorized(b) /\ b.payout = a.payout
      /\ a.receipt # None => b.receipt = a.receipt
      /\ a.funding # None => b.funding = a.funding
      /\ a.settledAt # None => b.settledAt # None
      /\ a.refundedAt # None => b.refundedAt # None
      /\ a.cancelledAt # None => b.cancelledAt # None

LEMMA LaterTransitive ==
  ASSUME NEW a, NEW b, NEW c, Later(a, b), Later(b, c)
  PROVE  Later(a, c)
  BY DEF Later, Authorized

\* A call on an order that is there rewrites it to a later state of it.
LEMMA CallAdvances ==
  ASSUME IInv, NEW id \in Ids, Exists(id), Call(id)
  PROVE  Later(orders[id], orders'[id])
<1>1. orders[id] \in OrderType /\ now \in Nat /\ None \notin Nat
  BY PresentOrder, NoneAssumption DEF IInv, TypeOK
<1>2. TypeOK' /\ orders'[id] \in Option(OrderType)
  BY CallTypeOK DEF TypeOK
<1>3. ASSUME NEW o \in OrderType, orders' = [orders EXCEPT ![id] = o],
             o.terms = orders[id].terms,
             Authorized(orders[id]) => o.payout = orders[id].payout,
             orders[id].receipt # None => o.receipt = orders[id].receipt,
             orders[id].funding # None => o.funding = orders[id].funding,
             orders[id].settledAt # None => o.settledAt # None,
             orders[id].refundedAt # None => o.refundedAt # None,
             orders[id].cancelledAt # None => o.cancelledAt # None
      PROVE  Later(orders[id], orders'[id])
  <2>1. orders'[id] = o /\ o # None
    BY <1>3, NoneAssumption DEF IInv, TypeOK
  <2> QED
    BY <1>3, <2>1 DEF Later, Authorized
<1>4. ASSUME NEW op \in Ops, FundWithdrawal(id, op)
      PROVE  Later(orders[id], orders'[id])
  <2>1. PICK o : o = [orders[id] EXCEPT !.escrowed = TRUE,
                                        !.funding = [op |-> op, recordedAt |-> now]]
    OBVIOUS
  <2>2. o \in OrderType
    BY <1>1, <2>1 DEF OrderType, Option, FundingType
  <2>3. orders' = [orders EXCEPT ![id] = o]
    BY <1>1, <1>4, <2>1 DEF FundWithdrawal, OrderType, IInv, TypeOK
  <2> QED
    BY <1>1, <1>3, <1>4, <2>1, <2>2, <2>3 DEF FundWithdrawal, OrderType, Authorized
<1>5. ASSUME AuthorizePayout(id)
      PROVE  Later(orders[id], orders'[id])
  <2>1. PICK o : o = [orders[id] EXCEPT !.payout = now]
    OBVIOUS
  <2>2. o \in OrderType /\ o.payout = now
    BY <1>1, <2>1 DEF OrderType, Option
  <2>3. orders' = [orders EXCEPT ![id] = o]
    BY <1>1, <1>5, <2>1 DEF AuthorizePayout, OrderType, IInv, TypeOK
  <2> QED
    BY <1>1, <1>3, <1>5, <2>1, <2>2, <2>3
    DEF AuthorizePayout, Untouched, OrderType, Authorized
<1>6. ASSUME NEW r \in Receipts, RecordReceipt(id, r)
      PROVE  Later(orders[id], orders'[id])
  <2>1. PICK o : o = [orders[id] EXCEPT !.receipt = r]
    OBVIOUS
  <2>2. r \in ReceiptType
    BY ConfigAssumption DEF Receipts, ReceiptType
  <2>3. o \in OrderType
    BY <1>1, <2>1, <2>2 DEF OrderType, Option
  <2>4. orders' = [orders EXCEPT ![id] = o]
    BY <1>1, <1>6, <2>1 DEF RecordReceipt, OrderType, IInv, TypeOK
  <2> QED
    BY <1>1, <1>3, <1>6, <2>1, <2>3, <2>4 DEF RecordReceipt, OrderType, Authorized
<1>7. ASSUME Settle(id) \/ Refund(id) \/ Cancel(id)
      PROVE  Later(orders[id], orders'[id])
  <2>1. PICK field \in {"settledAt", "refundedAt", "cancelledAt"} :
          orders' = [orders EXCEPT ![id] =
             [[orders[id] EXCEPT ![field] = now] EXCEPT !.escrowed = FALSE]]
    BY <1>7 DEF Settle, Refund, Cancel, Release
  <2>2. PICK o : o = [[orders[id] EXCEPT ![field] = now] EXCEPT !.escrowed = FALSE]
    OBVIOUS
  <2>3. o \in OrderType
    BY <1>1, <2>2 DEF OrderType, Option
  <2> QED
    BY <1>1, <1>3, <2>1, <2>2, <2>3 DEF OrderType, Authorized
<1>8. \A t \in Terms : ~CreateOrder(id, t)
  BY DEF CreateOrder
<1> QED
  BY <1>4, <1>5, <1>6, <1>7, <1>8 DEF Call

LEMMA OrdersAdvance ==
  ASSUME IInv, [Next]_vars, NEW id \in Ids
  PROVE  Later(orders[id], orders'[id])
<1>1. ASSUME NEW other \in Ids, Call(other)
      PROVE  Later(orders[id], orders'[id])
  <2>1. CASE other # id
    BY <1>1, <2>1, CallWritesOneOrder DEF Later, IInv
  <2>2. CASE other = id /\ Exists(id)
    BY <1>1, <2>2, CallAdvances
  <2>3. CASE ~Exists(id)
    BY <2>3 DEF Later, Exists
  <2> QED
    BY <2>1, <2>2, <2>3
<1>2. CASE UNCHANGED orders
  BY <1>2 DEF Later
<1>3. UNCHANGED orders \/ \E other \in Ids : Call(other)
  BY DEF Next, vars, SubmitEligibility, Tick, VerifierChange, TrustlineChange,
         Pay, Donate, Clawback
<1> QED
  BY <1>1, <1>2, <1>3

-----------------------------------------------------------------------------
\* The ledgers' memory of the orders.

\* Every step leaves an order and its history alone or adds its new state.
HistoryGrows ==
    \A id \in Ids :
        \/ past'[id] = past[id] /\ orders'[id] = orders[id]
        \/ past'[id] = Append(past[id], orders'[id])

LEMMA RecordedGrows ==
  ASSUME Recorded PROVE HistoryGrows
  BY DEF Recorded, HistoryGrows

LEMMA SystemHistoryGrows ==
  ASSUME SystemInv, [SystemNext]_system
  PROVE  HistoryGrows
<1>1. CASE UNCHANGED <<past, orders>>
  BY <1>1 DEF HistoryGrows
<1>2. CASE Handling
  BY <1>1, <1>2
  DEF Handling, Query, Send, Sent, Prepare, ProofDone, SyncSome, Sync, Begun,
      Work, Ask, GiveBack, contract, vars, network
<1>3. ASSUME NEW id \in Ids, Request(id) PROVE HistoryGrows
  BY <1>1, <1>3
  DEF Request, Begin, Accept, Get, SubmitProof, SimulateBank, RequestRefund,
      contract, vars, network
<1>4. CASE Ingest \/ Drop \/ Environment \/ UNCHANGED system
  BY <1>1, <1>4
  DEF Ingest, Drop, Environment, system, contract, vars, network, Tick,
      VerifierChange, TrustlineChange
<1>5. ASSUME NEW n \in DOMAIN actions, Include(n) PROVE HistoryGrows
  BY <1>5, RecordedGrows DEF Include
<1>6. ASSUME NEW memo \in Memos, NEW a \in Accounts, NEW amount \in ClassicAmounts,
             PayIn(memo, a, amount)
      PROVE  HistoryGrows
  BY <1>1, <1>6 DEF PayIn, Pay
<1>7. ASSUME NEW id \in Ids, OutsideSettle(id) PROVE HistoryGrows
  BY <1>7, RecordedGrows DEF OutsideSettle
<1> QED
  BY <1>2, <1>3, <1>4, <1>5, <1>6, <1>7 DEF SystemNext

\* The last state remembered is the order, and later ledgers hold later states.
Remembered(id) ==
    /\ past[id][Len(past[id])] = orders[id]
    /\ \A j, k \in 1..Len(past[id]) : j <= k => Later(past[id][j], past[id][k])

LEMMA HistoryTyped ==
  ASSUME SystemInv, NEW id \in Ids
  PROVE  /\ past[id] \in Seq(Option(OrderType))
         /\ Len(past[id]) \in Nat \ {0}
         /\ DOMAIN past[id] = 1..Len(past[id])
         /\ \A k \in 1..Len(past[id]) :
              past[id][k] # None => past[id][k] \in OrderType
<1>1. past[id] \in Seq(Option(OrderType)) /\ past[id] # <<>>
  BY DEF SystemInv, CoordinatorInv, HistoryOK
<1>2. \A k \in 1..Len(past[id]) : past[id][k] \in Option(OrderType)
  <2> DEFINE O == Option(OrderType)
  <2>1. past[id] \in Seq(O)
    BY <1>1
  <2> HIDE DEF O
  <2>2. \A k \in 1..Len(past[id]) : past[id][k] \in O
    BY <2>1
  <2> QED
    BY <2>2 DEF O
<1> QED
  BY <1>1, <1>2 DEF Option

\* Ledgers stay what they were.
LEMMA PastLasts ==
  ASSUME SystemInv, [SystemNext]_system, NEW id \in Ids
  PROVE  /\ Len(past[id]) <= Len(past'[id])
         /\ Len(past'[id]) \in Nat
         /\ \A k \in 1..Len(past[id]) :
              k \in 1..Len(past'[id]) /\ past'[id][k] = past[id][k]
  BY SystemHistoryGrows, HistoryTyped DEF HistoryGrows

LEMMA RememberedKept ==
  ASSUME SystemInv, [SystemNext]_system, NEW id \in Ids, Remembered(id)
  PROVE  Remembered(id)'
<1>1. /\ past[id] \in Seq(Option(OrderType)) /\ Len(past[id]) \in Nat \ {0}
  BY HistoryTyped
<1>2. CASE past'[id] = past[id] /\ orders'[id] = orders[id]
  BY <1>2 DEF Remembered
<1>3. CASE past'[id] = Append(past[id], orders'[id])
  <2>1. PICK new : new = Len(past[id]) + 1
    OBVIOUS
  <2>2. /\ Len(past'[id]) = new /\ past'[id][new] = orders'[id]
        /\ \A k \in 1..Len(past[id]) : past'[id][k] = past[id][k]
    BY <1>1, <1>3, <2>1
  <2>3. Later(orders[id], orders'[id])
    BY SystemStepsVault, OrdersAdvance DEF SystemInv
  <2>4. \A k \in 1..Len(past[id]) : Later(past[id][k], orders'[id])
    <3> SUFFICES ASSUME NEW k \in 1..Len(past[id])
                 PROVE  Later(past[id][k], orders'[id])
      OBVIOUS
    <3>1. Later(past[id][k], orders[id])
      BY <1>1 DEF Remembered
    <3>2. PICK a, b, c : a = past[id][k] /\ b = orders[id] /\ c = orders'[id]
      OBVIOUS
    <3> QED
      BY <2>3, <3>1, <3>2, LaterTransitive
  <2>5. Later(orders'[id], orders'[id])
    BY DEF Later
  <2>6. ASSUME NEW j \in 1..new, NEW k \in 1..new, j <= k
        PROVE  Later(past'[id][j], past'[id][k])
    <3>1. CASE k = new /\ j = new
      BY <2>2, <2>5, <3>1
    <3>2. CASE k = new /\ j # new
      <4>1. j \in 1..Len(past[id])
        BY <1>1, <2>1, <3>2
      <4> QED
        BY <2>2, <2>4, <3>2, <4>1
    <3>3. CASE k # new
      <4>1. j \in 1..Len(past[id]) /\ k \in 1..Len(past[id])
        BY <1>1, <2>1, <2>6, <3>3
      <4> QED
        BY <2>2, <2>6, <4>1 DEF Remembered
    <3> QED
      BY <3>1, <3>2, <3>3
  <2> QED
    BY <2>2, <2>6 DEF Remembered, Later, Authorized
<1> QED
  BY <1>2, <1>3, SystemHistoryGrows DEF HistoryGrows

-----------------------------------------------------------------------------
\* What transactions did.

\* The order o shows that the call a took effect.
Shows(o, a) ==
    a.kind # "eligibility" =>
      /\ o # None
      /\ a.kind = "create" => o.terms = a.arg
      /\ a.kind = "fund" => o.funding # None /\ o.funding.op = a.arg
      /\ a.kind = "authorize" => Authorized(o)
      /\ a.kind = "receipt" => o.receipt # None /\ o.receipt = a.arg
      /\ a.kind = "settle" => o.settledAt # None
      /\ a.kind = "refund" => o.refundedAt # None
      /\ a.kind = "cancel" => o.cancelledAt # None

LEMMA LaterShows ==
  ASSUME NEW a, NEW b, NEW call, Later(a, b), Shows(a, call)
  PROVE  Shows(b, call)
  BY DEF Later, Shows

\* The network's verdict names the ledger of the effect.
VerdictShown(n) ==
    LET id == actions[n].intent IN
    /\ Included(n) => net[n].ledger \in 1..Len(past[id])
    /\ net[n].status = "success" => Shows(past[id][net[n].ledger], actions[n])
    /\ actions[n].status = "success" => actions[n].ledger = net[n].ledger
VerdictsShown == \A n \in DOMAIN actions : VerdictShown(n)

\* A call that takes effect, or finds its effect there, shows in the order.
LEMMA TakesShows ==
  ASSUME IInv, NEW a \in ActionType, Fits(a), Takes(a)
  PROVE  Shows(orders'[a.intent], a)
<1>1. a.intent \in Ids /\ None \notin Nat /\ now \in Nat
  BY NoneAssumption DEF ActionType, IInv, TypeOK
<1>2. orders' \in [Ids -> Option(OrderType)]
  <2>1. Next
    BY TakesIsACall
  <2> QED
    BY <2>1, NextIInv DEF IInv, TypeOK
<1>3. PICK id \in Ids : id = a.intent
  BY <1>1
<1>4. orders \in [Ids -> Option(OrderType)] /\ Receipts \subseteq ReceiptType
  BY ConfigAssumption DEF IInv, TypeOK, Receipts, ReceiptType
<1>5. ASSUME a.kind = "create", CreateOrder(id, a.arg)
      PROVE  Shows(orders'[id], a)
  <2>1. orders'[id] = NewOrder(a.arg) /\ NewOrder(a.arg) \in OrderType
    BY <1>4, <1>5, <1>1 DEF CreateOrder, NewOrder, OrderType, Option, Fits
  <2> QED
    BY <1>5, <2>1, NoneAssumption DEF Shows, NewOrder
<1>7. ASSUME a.kind # "create", a.kind # "eligibility", Call(id), Exists(id)
      PROVE  orders'[id] # None
  BY <1>7, CallAdvances DEF Later, Exists
<1>8. ASSUME a.kind = "fund", FundWithdrawal(id, a.arg)
      PROVE  Shows(orders'[id], a)
  <2>1. orders'[id] # None /\ orders[id] \in OrderType
    BY <1>7, <1>8, PresentOrder DEF Fits, Call, FundWithdrawal, IInv
  <2>2. orders'[id].funding = [op |-> a.arg, recordedAt |-> now]
    BY <1>4, <1>8, <2>1 DEF FundWithdrawal, OrderType
  <2>3. [op |-> a.arg, recordedAt |-> now] \in FundingType
    BY <1>1, <1>8 DEF Fits, FundingType
  <2> QED
    BY <1>8, <2>1, <2>2, <2>3, NoneAssumption DEF Shows
<1>9. ASSUME a.kind = "receipt", RecordReceipt(id, a.arg)
      PROVE  Shows(orders'[id], a)
  <2>1. orders'[id] # None /\ orders[id] \in OrderType
    BY <1>7, <1>9, PresentOrder DEF Fits, Call, RecordReceipt, IInv
  <2>2. orders'[id].receipt = a.arg
    BY <1>4, <1>9, <2>1 DEF RecordReceipt, OrderType
  <2> QED
    BY <1>4, <1>9, <2>1, <2>2, NoneAssumption DEF Shows, Fits
<1>10. ASSUME a.kind = "authorize", AuthorizePayout(id)
      PROVE  Shows(orders'[id], a)
  <2>1. orders'[id] # None /\ orders[id] \in OrderType
    BY <1>7, <1>10, PresentOrder DEF Call, AuthorizePayout, IInv
  <2>2. orders'[id].payout = now
    BY <1>4, <1>10, <2>1 DEF AuthorizePayout, OrderType
  <2> QED
    BY <1>1, <1>10, <2>1, <2>2 DEF Shows, Authorized
<1>11. ASSUME \/ a.kind = "settle" /\ Settle(id)
              \/ a.kind = "refund" /\ Refund(id)
              \/ a.kind = "cancel" /\ Cancel(id)
       PROVE  Shows(orders'[id], a)
  <2>1. orders'[id] # None /\ orders[id] \in OrderType
    BY <1>7, <1>11, PresentOrder DEF Call, Settle, Refund, Cancel, IInv
  <2>2. PICK field \in {"settledAt", "refundedAt", "cancelledAt"} :
          /\ orders' = [orders EXCEPT ![id] =
               [[orders[id] EXCEPT ![field] = now] EXCEPT !.escrowed = FALSE]]
          /\ a.kind = "settle" => field = "settledAt"
          /\ a.kind = "refund" => field = "refundedAt"
          /\ a.kind = "cancel" => field = "cancelledAt"
    BY <1>11 DEF Settle, Refund, Cancel, Release
  <2>3. orders'[id] = [[orders[id] EXCEPT ![field] = now] EXCEPT !.escrowed = FALSE]
    BY <1>4, <2>2
  <2>4. orders'[id][field] = now
    BY <2>1, <2>3 DEF OrderType
  <2>5. /\ a.kind = "settle" => orders'[id].settledAt = now
        /\ a.kind = "refund" => orders'[id].refundedAt = now
        /\ a.kind = "cancel" => orders'[id].cancelledAt = now
    BY <2>2, <2>4
  <2> QED
    BY <1>1, <1>11, <2>1, <2>5 DEF Shows
<1>12. CASE a.kind = "eligibility"
  BY <1>12 DEF Shows
<1> QED
  BY <1>3, <1>5, <1>8, <1>9, <1>10, <1>11, <1>12 DEF Takes

LEMMA ReplaysShows ==
  ASSUME NEW a \in ActionType, Fits(a), Replays(a)
  PROVE  Shows(orders[a.intent], a)
<1>1. a.kind = "receipt" => a.arg # None
  <2>1. Receipts \subseteq ReceiptType
    BY ConfigAssumption DEF Receipts, ReceiptType
  <2> QED
    BY <2>1, NoneAssumption DEF Fits
<1> QED
  BY <1>1 DEF Replays, Shows, Exists


\* How a step may write the journal.
LEMMA JournalSteps ==
  ASSUME SystemInv, [SystemNext]_system
  PROVE  \/ actions' = actions
         \/ /\ Query \/ Sent
            /\ net' = net
            /\ \E n \in Unresolved, status \in Answers : actions' = Resolved(n, status)
         \/ /\ Prepare /\ Journals
            /\ Entry \in ActionType /\ Fits(Entry) /\ Entry.status = "prepared"
<1>1. CoordinatorInv /\ JournalOK
  BY DEF SystemInv, CoordinatorInv
<1>2. CASE Query
  <2>1. First \in Unresolved /\ First \in DOMAIN actions
    BY <1>1, <1>2, FirstIsOpen DEF Query, Reconciling
  <2>2. Answer(First) \in Answers
    BY <1>1, <2>1, Answering
  <2> QED
    BY <1>2, <2>1, <2>2 DEF Query, network
<1>3. CASE Sent
  <2>1. First \in Unresolved /\ First \in DOMAIN actions
    <3>1. ~Idle /\ handler.todo # {}
      BY <1>1, <1>3 DEF Sent, Idle, CoordinatorInv, HandlerOK
    <3> QED
      BY <1>1, <3>1, FirstIsOpen
  <2>2. PICK status \in Answers : actions' = Resolved(First, status)
    BY <1>1, <1>3, <2>1, EntryTyped DEF Sent, Included, Answers, Statuses
  <2> QED
    BY <1>3, <2>1, <2>2 DEF Sent, network
<1>4. CASE Prepare
  BY <1>4, PrepareJournals
<1>5. CASE ~Query /\ ~Sent /\ ~Prepare
  BY <1>5, JournalUntouched DEF Send, Include, database
<1> QED
  BY <1>2, <1>3, <1>4, <1>5

\* A new entry is the last one, unsent; an old one keeps its call.
LEMMA EntriesKept ==
  ASSUME SystemInv, [SystemNext]_system, NEW n \in DOMAIN actions'
  PROVE  \/ /\ n \in DOMAIN actions
            /\ actions'[n].intent = actions[n].intent
            /\ actions'[n].kind = actions[n].kind
            /\ actions'[n].arg = actions[n].arg
         \/ /\ Prepare /\ Journals
            /\ n \notin DOMAIN actions
            /\ actions'[n] = Entry
            /\ Entry \in ActionType /\ Entry.status = "prepared"
            /\ net'[n].status = "unsent"
<1>1. JournalOK
  BY DEF SystemInv, CoordinatorInv
<1>2. CASE n \in DOMAIN actions
  BY <1>2, SystemJournalGrows DEF JournalGrows, Lasting
<1>3. CASE n \notin DOMAIN actions
  <2>1. ASSUME NEW m \in Unresolved, NEW status \in Answers,
               actions' = Resolved(m, status), net' = net
        PROVE  FALSE
    <3>1. m \in DOMAIN actions
      BY DEF Unresolved
    <3> QED
      BY <1>1, <1>3, <2>1, <3>1, ResolvedKeeps
  <2>2. /\ Prepare /\ Journals
        /\ Entry \in ActionType /\ Fits(Entry) /\ Entry.status = "prepared"
    BY <1>3, <2>1, JournalSteps
  <2>3. PICK a : a = Entry
    OBVIOUS
  <2> QED
    BY <1>1, <1>3, <2>2, <2>3, JournalAppended DEF Journals
<1> QED
  BY <1>2, <1>3

\* A status written as success carries the network's ledger.
LEMMA LedgerWritten ==
  ASSUME SystemInv, [SystemNext]_system, VerdictsFinal, VerdictsShown,
         NEW n \in DOMAIN actions, actions'[n].status = "success"
  PROVE  /\ actions'[n].ledger = net[n].ledger
         /\ net'[n] = net[n] /\ net[n].status = "success"
<1>1. JournalOK /\ actions[n] \in ActionType
  BY EntryTyped DEF SystemInv, CoordinatorInv
<1>2. CASE actions'[n] = actions[n]
  <2>1. net[n].status = "success" /\ actions[n].ledger = net[n].ledger
    BY <1>2 DEF VerdictsFinal, VerdictsShown, VerdictShown
  <2> QED
    BY <1>2, <2>1, SystemJournalGrows DEF JournalGrows, Lasting
<1>3. ASSUME NEW m \in Unresolved, NEW status \in Answers,
             actions' = Resolved(m, status), net' = net, actions'[n] # actions[n]
      PROVE  /\ actions'[n].ledger = net[n].ledger
             /\ net'[n] = net[n] /\ net[n].status = "success"
  <2>1. m \in DOMAIN actions /\ m = n
    BY <1>1, <1>3, ResolvedKeeps DEF Unresolved
  <2>2. status = "success" /\ actions'[n].ledger = net[n].ledger
    BY <1>1, <1>3, <2>1 DEF Resolved, Open, ActionType
  <2>3. VerdictsFinal'
    BY VerdictsKept
  <2>4. n \in DOMAIN actions'
    BY SystemJournalGrows DEF JournalGrows, Lasting
  <2> QED
    BY <1>3, <2>2, <2>3, <2>4 DEF VerdictsFinal
<1>4. CASE /\ Journals
           /\ Entry \in ActionType /\ Fits(Entry) /\ Entry.status = "prepared"
  <2>1. PICK a : a = Entry
    OBVIOUS
  <2>2. actions'[n] = actions[n]
    BY <1>1, <1>4, <2>1, JournalAppended DEF Journals
  <2> QED
    BY <1>2, <2>2
<1> QED
  BY <1>2, <1>3, <1>4, JournalSteps

LEMMA VerdictsShownKept ==
  ASSUME SystemInv, [SystemNext]_system, VerdictsFinal, VerdictsShown,
         \A id \in Ids : Remembered(id)
  PROVE  VerdictsShown'
<1>1. CoordinatorInv /\ JournalOK /\ IInv
  BY DEF SystemInv, CoordinatorInv
<1> SUFFICES ASSUME NEW n \in DOMAIN actions' PROVE VerdictShown(n)'
  BY DEF VerdictsShown
<1>2. CASE n \notin DOMAIN actions
  <2>1. /\ actions'[n].status = "prepared"
        /\ net'[n].status = "unsent"
    BY <1>2, EntriesKept
  <2> QED
    BY <2>1 DEF VerdictShown, Included
<1>3. CASE n \in DOMAIN actions
  <2>1. /\ actions[n] \in ActionType /\ Fits(actions[n])
        /\ net[n] \in [status : Fates, ledger : Nat]
    BY <1>1, <1>3, EntryTyped
  <2>2. PICK id \in Ids : id = actions[n].intent
    BY <2>1 DEF ActionType
  <2>3. /\ actions'[n].intent = id
        /\ actions'[n].kind = actions[n].kind /\ actions'[n].arg = actions[n].arg
    BY <1>3, <2>2, EntriesKept
  <2>4. actions'[n].status = "success" => actions'[n].ledger = net'[n].ledger
    BY <1>3, LedgerWritten
  <2>5. VerdictShown(n)
    BY <1>3 DEF VerdictsShown
  <2>6. CASE net'[n] = net[n]
    <3>1. Included(n) => /\ net[n].ledger \in 1..Len(past'[id])
                         /\ past'[id][net[n].ledger] = past[id][net[n].ledger]
      BY <2>2, <2>5, PastLasts DEF VerdictShown
    <3>2. ASSUME net[n].status = "success"
          PROVE  Shows(past'[id][net[n].ledger], actions'[n])
      <4>1. Shows(past[id][net[n].ledger], actions[n])
        BY <2>2, <2>5, <3>2 DEF VerdictShown
      <4>2. past'[id][net[n].ledger] = past[id][net[n].ledger]
        BY <3>1, <3>2 DEF Included
      <4> QED
        BY <2>3, <4>1, <4>2 DEF Shows
    <3> QED
      BY <2>3, <2>4, <2>6, <3>1, <3>2 DEF VerdictShown, Included, Shows, Authorized
  <2>7. CASE net'[n].status = "sent"
    BY <2>4, <2>7 DEF VerdictShown, Included
  <2>8. CASE net[n].status = "sent" /\ net'[n].status \in {"success", "failed"}
    <3>1. Include(n)
      <4>1. ASSUME NEW m \in DOMAIN actions, Include(m) PROVE m = n
        <5>1. n \in DOMAIN net
          BY <1>1, <1>3, EntryTyped
        <5> QED
          BY <2>8, <4>1, <5>1 DEF Include
      <4>2. CASE Send
        <5>1. n \in DOMAIN net
          BY <1>1, <1>3, EntryTyped
        <5>2. net'[n].status \in {net[n].status, "sent"}
          BY <2>1, <4>2, <5>1 DEF Send
        <5> QED
          BY <2>8, <5>2
      <4>3. CASE net' = net
        BY <2>8, <4>3
      <4>4. CASE Prepare
        <5>1. CASE /\ Journals /\ Entry \in ActionType /\ Fits(Entry)
                   /\ Entry.status = "prepared"
          <6>1. PICK a : a = Entry
            OBVIOUS
          <6>2. net'[n] = net[n]
            BY <1>1, <1>3, <5>1, <6>1, JournalAppended DEF Journals
          <6> QED
            BY <2>8, <6>2
        <5> QED
          BY <4>3, <4>4, <5>1, PrepareJournals
      <4>5. Query \/ Sent => net' = net
        BY DEF Query, Sent, network
      <4> QED
        BY <4>1, <4>2, <4>3, <4>4, <4>5, JournalUntouched
    <3>2. actions' = actions /\ n \in DOMAIN net
      BY <1>1, <1>3, <3>1, EntryTyped DEF Include, database
    <3>3. PICK status \in {"success", "failed"} :
            /\ Executes(n, status) /\ Recorded
            /\ net'[n] = [status |-> status, ledger |-> Len(past'[id])]
      BY <2>2, <3>1, <3>2 DEF Include
    <3>4. /\ Len(past'[id]) \in 1..Len(past'[id])
          /\ past'[id][Len(past'[id])] = orders'[id]
      <4>1. Len(past[id]) \in Nat \ {0} /\ past[id] \in Seq(Option(OrderType))
        BY HistoryTyped
      <4>2. CASE past'[id] = Append(past[id], orders'[id])
        BY <4>1, <4>2
      <4>3. CASE past'[id] = past[id] /\ orders'[id] = orders[id]
        BY <4>1, <4>3 DEF Remembered
      <4> QED
        BY <4>2, <4>3, SystemHistoryGrows DEF HistoryGrows
    <3>5. ASSUME status = "success" PROVE Shows(orders'[id], actions[n])
      <4>1. CASE Takes(actions[n])
        BY <1>1, <2>1, <2>2, <4>1, TakesShows
      <4>2. CASE Replays(actions[n]) /\ orders' = orders
        BY <2>1, <2>2, <4>2, ReplaysShows
      <4> QED
        BY <3>3, <3>5, <4>1, <4>2 DEF Executes, contract, vars
    <3> QED
      BY <2>2, <2>4, <3>2, <3>3, <3>4, <3>5 DEF VerdictShown, Included
  <2>9. Lasting(n)
    BY <1>3, SystemJournalGrows DEF JournalGrows
  <2> QED
    BY <2>6, <2>7, <2>8, <2>9 DEF Lasting
<1> QED
  BY <1>2, <1>3


-----------------------------------------------------------------------------
\* The copies of orders.

\* A step adds a row, copies a ledger into it, or leaves the copy alone.
Copies(k) ==
    LET id == handler.id IN
    /\ ~Idle
    /\ k \in DOMAIN past[id]
    /\ past[id][k] # None
    /\ ~(k < Floor(id))
    /\ intents' = [intents EXCEPT ![id].chain = past[id][k], ![id].seen = k]
    /\ past' = past

RowStep(id) ==
    \/ intents'[id] = intents[id]
    \/ /\ intents[id] = None
       /\ \E a \in Customers, d \in {"deposit", "withdrawal"} : intents'[id] = NewRow(a, d)
    \/ /\ intents[id] # None
       /\ intents[id].terms = None
       /\ \E t \in Terms :
            /\ intents'[id] = [intents[id] EXCEPT !.terms = t]
            /\ t.recipient = intents[id].account
            /\ t.direction = intents[id].direction
    \/ /\ intents[id] # None
       /\ Ingest /\ ~Canonical(id)
       /\ intents'[id] = [intents[id] EXCEPT !.recovery = TRUE]
    \/ /\ Ask /\ handler.id = id /\ BankAllowed
       /\ intents'[id] = [intents[id] EXCEPT !.requested = TRUE]
    \/ /\ GiveBack /\ handler.id = id /\ RefundAllowed
       /\ intents'[id] = [intents[id] EXCEPT !.requested = FALSE]
    \/ /\ handler.id = id
       /\ \E k \in DOMAIN past[id] :
            /\ Copies(k)
            /\ intents'[id] = [intents[id] EXCEPT !.chain = past[id][k], !.seen = k]

LEMMA RowSteps ==
  ASSUME SystemInv, [SystemNext]_system, NEW id \in Ids
  PROVE  RowStep(id)
<1>1. CoordinatorInv /\ intents \in [Ids -> Option(IntentType)]
  BY DEF SystemInv, CoordinatorInv, TablesOK
<1>2. CASE UNCHANGED intents
  BY <1>2 DEF RowStep
<1>3. CASE Handling
  <2>1. CASE Reconciled /\ SyncSome
    <3>1. ~Idle /\ handler.id \in Ids
      BY <1>1, <2>1, RowTyped DEF Reconciled
    <3>2. PICK k \in DOMAIN past[handler.id] : Sync(k)
      BY <2>1, <3>1, HistoryTyped DEF SyncSome
    <3>3. CASE /\ past[handler.id][k] # None
               /\ ~(k < Floor(handler.id))
               /\ intents' = [intents EXCEPT ![handler.id].chain = past[handler.id][k],
                                             ![handler.id].seen = k]
      <4>1. CASE handler.id # id
        BY <1>1, <3>3, <4>1 DEF RowStep
      <4>2. CASE handler.id = id
        <5>1. Copies(k)
          BY <3>1, <3>2, <3>3 DEF Sync, network, Copies
        <5>2. intents'[id] = [intents[id] EXCEPT !.chain = past[id][k], !.seen = k]
          BY <1>1, <3>3, <4>2
        <5> QED
          BY <3>2, <4>2, <5>1, <5>2 DEF RowStep
      <4> QED
        BY <4>1, <4>2
    <3> QED
      BY <1>2, <3>2, <3>3 DEF Sync
  <2>2. CASE Ask
    <3>1. CASE handler.id # id
      BY <1>1, <2>2, <3>1 DEF Ask, RowStep
    <3>2. CASE handler.id = id
      BY <1>1, <2>2, <3>2 DEF Ask, RowStep
    <3> QED
      BY <3>1, <3>2
  <2>3. CASE GiveBack
    <3>1. CASE handler.id # id
      BY <1>1, <2>3, <3>1 DEF GiveBack, RowStep
    <3>2. CASE handler.id = id
      BY <1>1, <2>3, <3>2 DEF GiveBack, RowStep
    <3> QED
      BY <3>1, <3>2
  <2> QED
    BY <1>2, <1>3, <2>1, <2>2, <2>3
    DEF Handling, Query, Send, Sent, Prepare, ProofDone, Begun, Work, database
<1>4. ASSUME NEW other \in Ids, Request(other) PROVE RowStep(id)
  <2>1. ASSUME NEW a \in Customers, NEW d \in {"deposit", "withdrawal"},
               Begin(other, a, d)
        PROVE  RowStep(id)
    BY <1>1, <2>1 DEF Begin, RowStep
  <2>2. ASSUME NEW t \in Terms, Accept(other, t) PROVE RowStep(id)
    BY <1>1, <2>2 DEF Accept, RowStep
  <2> QED
    BY <1>2, <1>4, <2>1, <2>2
    DEF Request, Get, SubmitProof, SimulateBank, RequestRefund, database
<1>5. CASE Ingest
  <2>1. PICK p : p = feed[Len(payments) + 1]
    OBVIOUS
  <2>2. \/ UNCHANGED intents
        \/ /\ Named(p) # None
           /\ ~Canonical(Named(p))
           /\ intents' = [intents EXCEPT ![Named(p)].recovery = TRUE]
    BY <1>5, <2>1 DEF Ingest
  <2>3. Named(p) = id => Named(p) = None \/ intents[id] # None
    BY DEF Named
  <2> QED
    BY <1>1, <1>2, <1>5, <2>2, <2>3 DEF RowStep
<1> QED
  BY <1>2, <1>3, <1>4, <1>5
  DEF SystemNext, Drop, Include, PayIn, OutsideSettle, Environment, system, database

\* A row that has seen a ledger copies the order of that ledger.
CopyTrue(id) ==
    intents[id] # None =>
      IF intents[id].seen = 0 THEN intents[id].chain = None
      ELSE /\ intents[id].seen \in 1..Len(past[id])
           /\ intents[id].chain = past[id][intents[id].seen]

OrdersKnown == \A id \in Ids : Remembered(id) /\ CopyTrue(id)

LEMMA GreatestExists ==
  ASSUME NEW S \in SUBSET Nat, S # {}, NEW bound \in Nat, \A y \in S : y <= bound
  PROVE  Max(S) \in S /\ \A y \in S : y <= Max(S)
<1> DEFINE Above == {m \in Nat : \A y \in S : y <= m}
<1>1. PICK m \in Above : \A y \in Above : m <= y
  <2>1. Above \in SUBSET Nat /\ bound \in Above
    OBVIOUS
  <2> HIDE DEF Above
  <2> QED
    BY <2>1, LeastExists
<1>2. m \in Nat /\ \A y \in S : y <= m
  OBVIOUS
<1>3. m \in S
  <2> SUFFICES ASSUME m \notin S PROVE FALSE
    OBVIOUS
  <2>1. PICK y \in S : y \in Nat
    OBVIOUS
  <2>2. m - 1 \in Nat /\ \A x \in S : x <= m - 1
    BY <1>2, <2>1
  <2>3. m - 1 \in Above
    BY <2>2
  <2> HIDE DEF Above
  <2> QED
    BY <1>1, <1>2, <2>3
<1>4. \E x \in S : \A y \in S : x >= y
  BY <1>2, <1>3
<1> QED
  BY <1>4 DEF Max

\* A row has seen no ledger that is not there.
LEMMA RowHistory ==
  ASSUME SystemInv, OrdersKnown, NEW id \in Ids, intents[id] # None
  PROVE  /\ intents[id] \in IntentType
         /\ intents[id].seen \in Nat
         /\ intents[id].seen <= Len(past[id])
<1>1. intents[id] \in IntentType
  BY IntentTyped DEF SystemInv
<1>2. Len(past[id]) \in Nat
  BY HistoryTyped
<1> QED
  BY <1>1, <1>2 DEF IntentType, OrdersKnown, CopyTrue

\* No answer is accepted that is older than what the coordinator relied upon.
LEMMA FloorIsHigh ==
  ASSUME SystemInv, OrdersKnown, VerdictsFinal, VerdictsShown,
         NEW id \in Ids, intents[id] # None
  PROVE  /\ Floor(id) \in Nat
         /\ intents[id].seen <= Floor(id)
         /\ \A n \in OwnActions(id) :
              actions[n].status = "success" => actions[n].ledger <= Floor(id)
<1> DEFINE Won == {m \in OwnActions(id) : actions[m].status = "success"}
           Ledgers == {intents[id].seen} \cup {actions[n].ledger : n \in Won}
<1>1. intents[id].seen \in Nat /\ intents[id].seen <= Len(past[id]) /\ Len(past[id]) \in Nat
  BY RowHistory, HistoryTyped
<1>2. \A n \in Won : actions[n].ledger \in 1..Len(past[id])
  BY DEF OwnActions, VerdictsFinal, VerdictsShown, VerdictShown, Included
<1>3. /\ Ledgers \in SUBSET Nat /\ Ledgers # {}
      /\ \A y \in Ledgers : y <= Len(past[id])
  BY <1>1, <1>2
<1>4. Max(Ledgers) \in Ledgers /\ \A y \in Ledgers : y <= Max(Ledgers)
  <2> HIDE DEF Ledgers
  <2> QED
    BY <1>1, <1>3, GreatestExists
<1>5. Floor(id) = Max(Ledgers)
  BY DEF Floor
<1> HIDE DEF Ledgers
<1>6. Floor(id) \in Nat
  BY <1>3, <1>4, <1>5
<1> QED
  BY <1>4, <1>5, <1>6 DEF Ledgers

\* A copy advances to a ledger it had not seen, or stays.
LEMMA CopyForward ==
  ASSUME SystemInv, [SystemNext]_system, OrdersKnown, VerdictsFinal,
         VerdictsShown, NEW id \in Ids
  PROVE  /\ CopyTrue(id)'
         /\ intents[id] # None =>
              intents'[id] # None /\ intents'[id].seen >= intents[id].seen
<1>1. CopyTrue(id)
  BY DEF OrdersKnown
<1>2. RowStep(id)
  BY RowSteps
<1>3. /\ Len(past[id]) <= Len(past'[id])
      /\ Len(past[id]) \in Nat /\ Len(past'[id]) \in Nat
      /\ \A k \in 1..Len(past[id]) :
           k \in 1..Len(past'[id]) /\ past'[id][k] = past[id][k]
  BY PastLasts, HistoryTyped
<1>4. None \notin IntentType /\ (intents[id] # None => intents[id] \in IntentType)
  BY IntentAssumption, RowHistory
<1>5. intents'[id] # None => intents'[id] \in IntentType
  <2>1. SystemInv'
    BY SystemNextInv
  <2> QED
    BY <2>1 DEF SystemInv, CoordinatorInv, TablesOK, Option
<1>6. intents[id] # None => intents[id].seen \in Nat
  BY RowHistory
<1>7. ASSUME intents'[id] # None, intents[id] # None,
             intents'[id].seen = intents[id].seen,
             intents'[id].chain = intents[id].chain
      PROVE  CopyTrue(id)'
  BY <1>1, <1>3, <1>7 DEF CopyTrue
<1>8. CASE intents'[id] = intents[id]
  BY <1>6, <1>7, <1>8 DEF CopyTrue
<1>9. ASSUME intents[id] = None,
             NEW a \in Customers, NEW d \in {"deposit", "withdrawal"},
             intents'[id] = NewRow(a, d)
      PROVE  CopyTrue(id)'
  BY <1>9 DEF CopyTrue, NewRow
<1>10. ASSUME NEW row \in IntentType, intents[id] # None, intents'[id] = row,
              row.seen = intents[id].seen, row.chain = intents[id].chain
       PROVE  /\ CopyTrue(id)'
              /\ intents'[id] # None /\ intents'[id].seen >= intents[id].seen
  BY <1>4, <1>6, <1>7, <1>10
<1>11. ASSUME intents[id] # None, NEW t \in Terms,
              intents'[id] = [intents[id] EXCEPT !.terms = t]
       PROVE  /\ CopyTrue(id)'
              /\ intents'[id] # None /\ intents'[id].seen >= intents[id].seen
  <2>1. PICK row : row = [intents[id] EXCEPT !.terms = t]
    OBVIOUS
  <2>2. row \in IntentType /\ row.seen = intents[id].seen /\ row.chain = intents[id].chain
    BY <1>4, <1>11, <2>1 DEF IntentType, Option
  <2> QED
    BY <1>10, <1>11, <2>1, <2>2
<1>12. ASSUME intents[id] # None, NEW b \in BOOLEAN,
              \/ intents'[id] = [intents[id] EXCEPT !.requested = b]
              \/ intents'[id] = [intents[id] EXCEPT !.recovery = b]
       PROVE  /\ CopyTrue(id)'
              /\ intents'[id] # None /\ intents'[id].seen >= intents[id].seen
  <2>1. PICK row : row = intents'[id]
    OBVIOUS
  <2>2. row \in IntentType /\ row.seen = intents[id].seen /\ row.chain = intents[id].chain
    BY <1>4, <1>12, <2>1 DEF IntentType
  <2> QED
    BY <1>10, <1>12, <2>1, <2>2
<1>13. ASSUME NEW k \in DOMAIN past[id], Copies(k), handler.id = id,
              intents'[id] = [intents[id] EXCEPT !.chain = past[id][k], !.seen = k]
       PROVE  /\ CopyTrue(id)'
              /\ intents'[id] # None /\ intents'[id].seen >= intents[id].seen
  <2>1. intents[id] \in IntentType /\ intents[id] # None
    BY <1>4, <1>13, RowTyped DEF Copies, Row, SystemInv
  <2>2. k \in 1..Len(past[id]) /\ past' = past
    BY <1>13, HistoryTyped DEF Copies
  <2>3. intents'[id].seen = k /\ intents'[id].chain = past[id][k]
    BY <1>13, <2>1 DEF IntentType
  <2>4. intents'[id] \in IntentType
    <3>1. past[id][k] \in Option(OrderType) /\ k \in Nat
      BY <2>2, HistoryTyped DEF Option
    <3> QED
      BY <1>13, <2>1, <3>1 DEF IntentType
  <2>5. k >= intents[id].seen
    BY <1>6, <1>13, <2>1, <2>2, <1>3, FloorIsHigh DEF Copies
  <2> QED
    BY <1>3, <1>4, <2>2, <2>3, <2>4, <2>5 DEF CopyTrue
<1>14. CASE intents[id] = None
  <2>1. handler.id # id \/ Idle
    BY <1>4, <1>14, RowTyped DEF Row, SystemInv
  <2> QED
    BY <1>2, <1>8, <1>9, <1>14, <2>1 DEF RowStep, Copies, Ask, GiveBack, Deciding
<1>15. CASE intents[id] # None /\ intents'[id] # intents[id]
  <2>1. \/ \E t \in Terms : intents'[id] = [intents[id] EXCEPT !.terms = t]
        \/ \E b \in BOOLEAN :
              \/ intents'[id] = [intents[id] EXCEPT !.requested = b]
              \/ intents'[id] = [intents[id] EXCEPT !.recovery = b]
        \/ /\ handler.id = id
           /\ \E k \in DOMAIN past[id] :
                /\ Copies(k)
                /\ intents'[id] = [intents[id] EXCEPT !.chain = past[id][k], !.seen = k]
    BY <1>2, <1>15 DEF RowStep
  <2> QED
    BY <1>15, <2>1, <1>11, <1>12, <1>13
<1>16. CASE intents[id] # None /\ intents'[id] = intents[id]
  BY <1>6, <1>8, <1>16
<1> QED
  BY <1>14, <1>15, <1>16

\* What the coordinator knows of the network and of orders.
KnowledgeInv == VerdictsFinal /\ VerdictsShown /\ OrdersKnown

LEMMA KnowledgeInit == SystemInit => KnowledgeInv
<1> SUFFICES ASSUME SystemInit PROVE KnowledgeInv
  OBVIOUS
<1>1. DOMAIN actions = {}
  BY DEF SystemInit
<1>2. \A id \in Ids : past[id] = <<None>> /\ orders[id] = None /\ intents[id] = None
  BY DEF SystemInit, Init
<1>3. ASSUME NEW id \in Ids PROVE Remembered(id)
  BY <1>2 DEF Remembered, Later
<1> QED
  BY <1>1, <1>2, <1>3
  DEF KnowledgeInv, VerdictsFinal, VerdictsShown, OrdersKnown, CopyTrue

LEMMA KnowledgeKept ==
  SystemInv /\ KnowledgeInv /\ [SystemNext]_system => KnowledgeInv'
<1> SUFFICES ASSUME SystemInv, KnowledgeInv, [SystemNext]_system PROVE KnowledgeInv'
  OBVIOUS
<1>1. VerdictsFinal /\ VerdictsShown /\ OrdersKnown
  BY DEF KnowledgeInv
<1>2. VerdictsFinal' /\ VerdictsShown'
  BY <1>1, VerdictsKept, VerdictsShownKept DEF OrdersKnown
<1>3. ASSUME NEW id \in Ids PROVE (Remembered(id) /\ CopyTrue(id))'
  BY <1>1, RememberedKept, CopyForward DEF OrdersKnown
<1> QED
  BY <1>2, <1>3 DEF KnowledgeInv, OrdersKnown

LEMMA KnowledgeSpec == SystemSpec => []KnowledgeInv
  BY KnowledgeInit, KnowledgeKept, SystemSpecInv, PTL DEF SystemSpec

\* However stale the answers and whatever is lost, the copy of an order goes
\* forward through the states the order had.
THEOREM CopiesMoveForward == SystemSpec => CopyFollowsOrder
<1>1. SystemInv /\ KnowledgeInv /\ [SystemNext]_system =>
        [\A id \in Ids : intents[id] # None =>
           /\ intents'[id].seen >= intents[id].seen
           /\ intents'[id].seen > 0 =>
                intents'[id].chain = past'[id][intents'[id].seen]]_system
  <2> SUFFICES ASSUME SystemInv, KnowledgeInv, [SystemNext]_system,
                      NEW id \in Ids, intents[id] # None
               PROVE  /\ intents'[id].seen >= intents[id].seen
                      /\ intents'[id].seen > 0 =>
                           intents'[id].chain = past'[id][intents'[id].seen]
    OBVIOUS
  <2>1. /\ CopyTrue(id)' /\ intents'[id] # None
        /\ intents'[id].seen >= intents[id].seen
    BY CopyForward DEF KnowledgeInv
  <2> QED
    BY <2>1 DEF CopyTrue
<1> QED
  BY <1>1, SystemSpecInv, KnowledgeSpec, PTL DEF SystemSpec, CopyFollowsOrder

-----------------------------------------------------------------------------
\* Where calls come from.

\* An order that was copied is there, in a later state.
LEMMA CopyIsEarlier ==
  ASSUME SystemInv, OrdersKnown, NEW id \in Ids, intents[id] # None,
         intents[id].chain # None
  PROVE  intents[id].chain \in OrderType /\ Later(intents[id].chain, orders[id])
<1>1. intents[id].seen \in Nat /\ intents[id] \in IntentType
  BY RowHistory
<1>2. /\ intents[id].seen \in 1..Len(past[id])
      /\ intents[id].chain = past[id][intents[id].seen]
  BY <1>1 DEF OrdersKnown, CopyTrue
<1>3. Len(past[id]) \in Nat \ {0} /\ intents[id].seen <= Len(past[id])
  BY <1>2, HistoryTyped
<1> QED
  BY <1>1, <1>2, <1>3 DEF OrdersKnown, Remembered, IntentType, Option

\* A step of a handler keeps its call, drops it or sets out to make another.
LEMMA DoingSteps ==
  ASSUME SystemInv, [SystemNext]_system, handler' # None, handler'.doing # None
  PROVE  \/ ~Idle /\ handler'.id = handler.id /\ handler'.doing = handler.doing
         \/ /\ Work /\ handler'.id = handler.id
            /\ UNCHANGED <<intents, bankEvents>>
            /\ \E s \in {1, 2, 3, 5, 6} :
                 /\ Due(s)
                 /\ handler'.doing = [kind |-> StageKind[s], arg |-> StageArg(s)]
         \/ handler'.doing.kind \in {"refund", "cancel", "eligibility"}
<1>1. CoordinatorInv
  BY DEF SystemInv
<1>2. ~Idle => DOMAIN handler = Fields
  BY <1>1, RowTyped DEF HandlerOK
<1>3. CASE UNCHANGED handler
  BY <1>3 DEF Idle
<1>4. ASSUME NEW id, NEW op, handler' = Advance(id, op) PROVE FALSE
  BY <1>4 DEF Advance
<1>5. CASE Query \/ Send \/ Sent \/ (Reconciled /\ SyncSome) \/ Begun
  <2>1. ~Idle
    BY <1>5 DEF Query, Send, Sent, Reconciling, Reconciled, Begun, Deciding
  <2>2. CASE Query
    BY <1>2, <2>1, <2>2 DEF Query, Fields
  <2>3. CASE Send \/ Sent
    BY <1>2, <2>1, <2>3 DEF Send, Sent, Fields
  <2>4. CASE SyncSome
    BY <1>2, <2>1, <2>4 DEF SyncSome, Sync, Fields
  <2>5. CASE Begun
    BY <1>2, <2>1, <2>5 DEF Begun, Finished, Fields
  <2> QED
    BY <1>5, <2>1, <2>2, <2>3, <2>4, <2>5
<1>6. CASE Prepare
  <2>1. ~Idle
    BY <1>6 DEF Prepare
  <2> QED
    BY <1>2, <1>6, <2>1 DEF Prepare, Fields
<1>7. CASE ProofDone \/ Ask
  BY <1>4, <1>7 DEF ProofDone, Ask
<1>8. CASE Work
  <2>1. ~Idle /\ handler.stage \in 1..7
    BY <1>1, <1>8, RowTyped DEF Work, Deciding, HandlerOK
  <2>2. CASE handler' = Finished
    BY <1>2, <2>1, <2>2 DEF Finished, Fields
  <2>3. CASE Next6(handler.stage) # {}
    <3>1. PICK s : s = Min(Next6(handler.stage))
      OBVIOUS
    <3>2. s \in 1..6 /\ Due(s)
      <4>1. Next6(handler.stage) \in SUBSET Nat
        BY <2>1 DEF Next6
      <4>2. s \in Next6(handler.stage)
        BY <2>3, <3>1, <4>1, MinIsLeast
      <4> QED
        BY <2>1, <4>2 DEF Next6
    <3>3. PICK h : h = [handler EXCEPT !.stage = s + 1]
      OBVIOUS
    <3>4. DOMAIN h = Fields /\ h.id = handler.id /\ h.doing = handler.doing
      BY <1>2, <2>1, <3>3 DEF Fields
    <3>5. CASE s = 4
      BY <1>8, <2>1, <2>3, <3>1, <3>3, <3>4, <3>5 DEF Work
    <3>6. CASE s # 4
      <4>1. /\ handler' = Perform(h, StageKind[s], StageArg(s))
            /\ UNCHANGED <<intents, bankEvents>>
        BY <1>8, <2>3, <3>1, <3>3, <3>6 DEF Work
      <4>2. /\ handler'.id = handler.id
            /\ handler'.doing = [kind |-> StageKind[s], arg |-> StageArg(s)]
        BY <3>4, <4>1 DEF Perform, Fields
      <4>3. s \in {1, 2, 3, 5, 6}
        BY <3>2, <3>6
      <4> QED
        BY <1>8, <3>2, <4>1, <4>2, <4>3
    <3> QED
      BY <3>5, <3>6
  <2> QED
    BY <1>8, <2>2, <2>3 DEF Work
<1>9. CASE GiveBack
  <2>1. ~Idle /\ DOMAIN handler = Fields
    BY <1>2, <1>9 DEF GiveBack, Deciding
  <2>2. PICK h : h = [handler EXCEPT !.op = "closing"]
    OBVIOUS
  <2>3. PICK kind \in {"refund", "cancel"} : handler' = Perform(h, kind, None)
    BY <1>9, <2>2 DEF GiveBack
  <2>4. handler'.doing.kind = kind
    BY <2>1, <2>2, <2>3 DEF Perform, Fields
  <2> QED
    BY <2>4
<1>10. ASSUME NEW id \in Ids, Request(id)
       PROVE  handler' = handler \/ handler'.doing.kind = "eligibility"
  <2>1. ASSUME NEW proofTime, SubmitProof(id, proofTime)
        PROVE  handler'.doing.kind = "eligibility"
    BY <2>1 DEF SubmitProof, Perform, Advance
  <2>2. ~RequestRefund(id)
    BY DEF RequestRefund, Advance
  <2> QED
    BY <1>4, <1>10, <2>1, <2>2 DEF Request, Begin, Accept, Get, SimulateBank
<1>11. CASE Handling
  BY <1>5, <1>6, <1>7, <1>8, <1>9, <1>11 DEF Handling
<1>12. ASSUME NEW id \in Ids, Request(id)
       PROVE  \/ ~Idle /\ handler'.id = handler.id /\ handler'.doing = handler.doing
              \/ handler'.doing.kind \in {"refund", "cancel", "eligibility"}
  BY <1>10, <1>12 DEF Idle
<1>13. ~Drop
  BY DEF Drop
<1> QED
  BY <1>3, <1>11, <1>12, <1>13
  DEF SystemNext, Ingest, Include, PayIn, OutsideSettle, Environment, system, database

\* What a call writes into an order that is there.
Writes(a, o, p) ==
    /\ p.terms = o.terms
    /\ p.createdAt = o.createdAt
    /\ p.receipt = IF a.kind = "receipt" THEN a.arg ELSE o.receipt
    /\ p.funding = IF a.kind = "fund" THEN [op |-> a.arg, recordedAt |-> now]
                                      ELSE o.funding
    /\ a.kind # "authorize" => p.payout = o.payout

LEMMA CallWrites ==
  ASSUME TypeOK, NEW id \in Ids, Exists(id), NEW a,
         \/ a.kind = "fund" /\ FundWithdrawal(id, a.arg)
         \/ a.kind = "authorize" /\ AuthorizePayout(id)
         \/ a.kind = "receipt" /\ RecordReceipt(id, a.arg)
         \/ a.kind = "settle" /\ Settle(id)
         \/ a.kind = "refund" /\ Refund(id)
         \/ a.kind = "cancel" /\ Cancel(id)
  PROVE  Writes(a, orders[id], orders'[id])
<1>1. orders[id] \in OrderType /\ orders \in [Ids -> Option(OrderType)]
  BY PresentOrder DEF TypeOK
<1>2. CASE a.kind = "fund" /\ FundWithdrawal(id, a.arg)
  BY <1>1, <1>2 DEF FundWithdrawal, OrderType, Writes
<1>3. CASE a.kind = "authorize" /\ AuthorizePayout(id)
  BY <1>1, <1>3 DEF AuthorizePayout, OrderType, Writes
<1>4. CASE a.kind = "receipt" /\ RecordReceipt(id, a.arg)
  BY <1>1, <1>4 DEF RecordReceipt, OrderType, Writes
<1>5. CASE \/ a.kind = "settle" /\ Settle(id)
           \/ a.kind = "refund" /\ Refund(id)
           \/ a.kind = "cancel" /\ Cancel(id)
  <2>1. PICK field \in {"settledAt", "refundedAt", "cancelledAt"} :
          orders' = [orders EXCEPT ![id] =
             [[orders[id] EXCEPT ![field] = now] EXCEPT !.escrowed = FALSE]]
    BY <1>5 DEF Settle, Refund, Cancel, Release
  <2>2. orders'[id] = [[orders[id] EXCEPT ![field] = now] EXCEPT !.escrowed = FALSE]
    BY <1>1, <2>1
  <2> QED
    BY <1>1, <1>5, <2>2 DEF OrderType, Writes
<1> QED
  BY <1>2, <1>3, <1>4, <1>5

\* An order changes when a transaction of its own takes effect or anyone
\* settles it.
OrderWritten(id) ==
    \/ orders'[id] = orders[id]
    \/ \E n \in DOMAIN actions :
         /\ actions[n].intent = id
         /\ Include(n) /\ net'[n].status = "success"
         /\ \/ /\ actions[n].kind = "create"
               /\ orders[id] = None
               /\ orders'[id] = NewOrder(actions[n].arg)
            \/ /\ Exists(id)
               /\ Writes(actions[n], orders[id], orders'[id])
    \/ /\ Exists(id)
       /\ Writes([kind |-> "settle"], orders[id], orders'[id])

LEMMA OrdersWritten ==
  ASSUME SystemInv, [SystemNext]_system, NEW id \in Ids
  PROVE  OrderWritten(id)
<1>1. TypeOK /\ orders \in [Ids -> Option(OrderType)] /\ JournalOK
  BY DEF SystemInv, CoordinatorInv, IInv, TypeOK
<1>2. CASE UNCHANGED orders
  BY <1>2 DEF OrderWritten
<1>3. ASSUME NEW n \in DOMAIN actions, Include(n), Takes(actions[n]),
             net'[n].status = "success"
      PROVE  OrderWritten(id)
  <2>1. actions[n] \in ActionType /\ Fits(actions[n])
    BY <1>1, EntryTyped
  <2>2. PICK a, own : a = actions[n] /\ own = a.intent
    OBVIOUS
  <2>3. CASE a.kind = "eligibility"
    BY <1>2, <1>3, <2>2, <2>3 DEF Takes, SubmitEligibility
  <2>4. CASE own # id /\ a.kind # "eligibility"
    <3>1. own \in Ids /\ Call(own)
      BY <1>3, <2>1, <2>2, <2>4 DEF ActionType, Takes, Call, Fits
    <3> QED
      BY <1>1, <2>4, <3>1, CallWritesOneOrder DEF OrderWritten
  <2>5. CASE own = id /\ a.kind = "create"
    <3>1. /\ ~Exists(id)
          /\ orders' = [orders EXCEPT ![id] = NewOrder(a.arg)]
      BY <1>3, <2>2, <2>5 DEF Takes, CreateOrder
    <3> QED
      BY <1>1, <1>3, <2>2, <2>5, <3>1 DEF OrderWritten, Exists
  <2>6. CASE own = id /\ a.kind \notin {"eligibility", "create"}
    <3>1. Exists(id)
      BY <1>3, <2>2, <2>6
      DEF Takes, FundWithdrawal, AuthorizePayout, RecordReceipt, Settle, Refund, Cancel
    <3>2. Writes(a, orders[id], orders'[id])
      BY <1>1, <1>3, <2>2, <2>6, <3>1, CallWrites DEF Takes
    <3> QED
      BY <1>3, <2>2, <2>6, <3>1, <3>2 DEF OrderWritten
  <2> QED
    BY <2>3, <2>4, <2>5, <2>6
<1>4. ASSUME NEW n \in DOMAIN actions, Include(n) PROVE OrderWritten(id)
  <2>1. n \in DOMAIN net
    BY <1>1, EntryTyped
  <2>2. PICK status \in {"success", "failed"} :
          Executes(n, status) /\ net'[n].status = status
    BY <1>4, <2>1 DEF Include
  <2> QED
    BY <1>2, <1>3, <1>4, <2>2 DEF Executes, contract, vars
<1>5. ASSUME NEW other \in Ids, OutsideSettle(other) PROVE OrderWritten(id)
  <2>1. CASE other # id
    <3>1. Call(other)
      BY <1>5 DEF OutsideSettle, Call
    <3> QED
      BY <1>1, <2>1, <3>1, CallWritesOneOrder DEF OrderWritten
  <2>2. CASE other = id
    <3>1. Settle(id) /\ Exists(id)
      BY <1>5, <2>2 DEF OutsideSettle, Settle
    <3>2. PICK a : a = [kind |-> "settle"]
      OBVIOUS
    <3>3. Writes(a, orders[id], orders'[id])
      BY <1>1, <3>1, <3>2, CallWrites
    <3> QED
      BY <3>1, <3>2, <3>3 DEF OrderWritten
  <2> QED
    BY <2>1, <2>2
<1>6. CASE Handling
  BY <1>2, <1>6
  DEF Handling, Query, Send, Sent, Prepare, ProofDone, SyncSome, Sync, Begun,
      Work, Ask, GiveBack, contract, vars
<1>7. ASSUME NEW other \in Ids, Request(other) PROVE UNCHANGED orders
  BY <1>7
  DEF Request, Begin, Accept, Get, SubmitProof, SimulateBank, RequestRefund,
      contract, vars
<1> QED
  BY <1>2, <1>4, <1>5, <1>6, <1>7
  DEF SystemNext, Ingest, Drop, PayIn, Pay, Environment, Tick, VerifierChange,
      TrustlineChange, system, contract, vars

-----------------------------------------------------------------------------
\* The bank's transfers.

\* The bank was asked for the transfer that this receipt shows.
Transferred(id, r) == bankEvents[id] # None /\ r = bankEvents[id]

BankTrue(id) ==
    /\ bankEvents[id] # None =>
          Exists(id) /\ (IsWithdrawal(orders[id]) => Authorized(orders[id]))
    /\ Exists(id) /\ orders[id].receipt # None => Transferred(id, orders[id].receipt)
    /\ \A n \in DOMAIN actions :
          actions[n].intent = id /\ actions[n].kind = "receipt" =>
              Transferred(id, actions[n].arg)
    /\ handler # None /\ handler.doing # None /\ handler.id = id =>
          (handler.doing.kind = "receipt" => Transferred(id, handler.doing.arg))
BankInv == \A id \in Ids : BankTrue(id)

\* The bank is asked once per order, for an order that the copy shows.
LEMMA BankSteps ==
  ASSUME SystemInv, [SystemNext]_system, NEW id \in Ids,
         bankEvents'[id] # bankEvents[id]
  PROVE  /\ Work /\ handler.id = id /\ bankEvents[id] = None
         /\ intents[id] # None
         /\ intents[id].chain # None
         /\ IsWithdrawal(intents[id].chain) => Authorized(intents[id].chain)
         /\ EarliestReceipt(intents[id].chain) <= now
         /\ bankEvents'[id].quote = intents[id].chain.terms.quote
         /\ bankEvents'[id].bank = intents[id].chain.terms.bank
         /\ bankEvents'[id].receivedAt = now
         /\ bankEvents'[id].event \in Events \ {Zero}
         /\ \A j \in Ids : bankEvents[j] # None =>
               bankEvents[j].event # bankEvents'[id].event
         /\ UNCHANGED <<orders, actions, now>>
         /\ handler'.id = id /\ handler'.doing = handler.doing
<1>1. CoordinatorInv /\ bankEvents \in [Ids -> Option(Receipts)]
  BY DEF SystemInv, CoordinatorInv, TablesOK
<1>2. Work /\ ~UNCHANGED bankEvents
  BY DEF SystemNext, Handling, Query, Send, Sent, Prepare, ProofDone, SyncSome,
         Sync, Begun, Ask, GiveBack, Request, Begin, Accept, Get, SubmitProof,
         SimulateBank, RequestRefund, Ingest, Drop, Include, PayIn,
         OutsideSettle, Environment, system, database
<1>3. /\ ~Idle /\ DOMAIN handler = Fields /\ handler.id \in Ids
      /\ handler.stage \in 1..7 /\ Row \in IntentType
  BY <1>1, <1>2, RowTyped DEF Work, Deciding, HandlerOK
<1>4. Min(Next6(handler.stage)) = 4 /\ Next6(handler.stage) # {}
  BY <1>2 DEF Work
<1>5. Due(4)
  <2>1. Next6(handler.stage) \in SUBSET Nat
    BY <1>3 DEF Next6
  <2>2. 4 \in Next6(handler.stage)
    BY <1>4, <2>1, MinIsLeast
  <2> QED
    BY <2>2 DEF Next6
<1>6. ToPayBank
  BY <1>5 DEF Due
<1>7. /\ handler' = [handler EXCEPT !.stage = 4 + 1]
      /\ \E e \in Events \ {Zero} :
            /\ \A j \in Ids : bankEvents[j] # None => bankEvents[j].event # e
            /\ bankEvents' = [bankEvents EXCEPT ![handler.id] =
                  [event |-> e, quote |-> Known.terms.quote,
                   bank |-> Known.terms.bank, receivedAt |-> now]]
  BY <1>2, <1>4 DEF Work
<1>8. handler.id = id
  BY <1>1, <1>7
<1>9. handler'.id = id /\ handler'.doing = handler.doing
  BY <1>3, <1>7, <1>8 DEF Fields
<1>10. Known = intents[id].chain
  BY <1>8, <1>6, IntentAssumption DEF ToPayBank, Known, Row
<1>11. PICK e \in Events \ {Zero} :
         /\ \A j \in Ids : bankEvents[j] # None => bankEvents[j].event # e
         /\ bankEvents'[id] =
               [event |-> e, quote |-> intents[id].chain.terms.quote,
                bank |-> intents[id].chain.terms.bank, receivedAt |-> now]
  BY <1>1, <1>7, <1>8, <1>10
<1> QED
  BY <1>2, <1>3, <1>6, <1>8, <1>9, <1>10, <1>11, IntentAssumption
  DEF ToPayBank, Known, Row, Work, contract, vars

LEMMA BankTrueKept ==
  ASSUME SystemInv, [SystemNext]_system, OrdersKnown, NEW id \in Ids, BankTrue(id)
  PROVE  BankTrue(id)'
<1>1. Later(orders[id], orders'[id])
  BY SystemStepsVault, OrdersAdvance DEF SystemInv
<1>2. \A r : Transferred(id, r) => Transferred(id, r)'
  BY BankSteps DEF Transferred
<1>3. bankEvents'[id] # None =>
        Exists(id)' /\ (IsWithdrawal(orders'[id]) => Authorized(orders'[id]))
  <2>1. CASE bankEvents'[id] = bankEvents[id]
    BY <1>1, <2>1 DEF BankTrue, Later, Exists, IsWithdrawal
  <2>2. CASE bankEvents'[id] # bankEvents[id]
    <3>1. Later(intents[id].chain, orders[id])
      BY <2>2, BankSteps, CopyIsEarlier
    <3> QED
      BY <2>2, <3>1, BankSteps DEF Later, Exists, IsWithdrawal
  <2> QED
    BY <2>1, <2>2
<1>4. ASSUME Exists(id)', orders'[id].receipt # None
      PROVE  Transferred(id, orders[id].receipt)'
  <2>1. PICK r : r = orders'[id].receipt
    OBVIOUS
  <2>2. Transferred(id, r)
    <3>1. CASE orders'[id] = orders[id]
      BY <1>4, <2>1, <3>1 DEF BankTrue, Exists
    <3>2. ASSUME NEW t, orders'[id] = NewOrder(t) PROVE FALSE
      BY <1>4, <3>2 DEF NewOrder
    <3>3. ASSUME NEW n \in DOMAIN actions, actions[n].intent = id, Exists(id),
                 Writes(actions[n], orders[id], orders'[id])
          PROVE  Transferred(id, r)
      BY <1>4, <2>1, <3>3 DEF BankTrue, Writes
    <3>4. CASE Exists(id) /\ Writes([kind |-> "settle"], orders[id], orders'[id])
      BY <1>4, <2>1, <3>4 DEF BankTrue, Writes
    <3> QED
      BY <3>1, <3>2, <3>3, <3>4, OrdersWritten DEF OrderWritten
  <2> QED
    BY <1>2, <2>1, <2>2 DEF Transferred
<1>5. ASSUME NEW n \in DOMAIN actions', actions'[n].intent = id,
             actions'[n].kind = "receipt"
      PROVE  Transferred(id, actions[n].arg)'
  <2>1. PICK r : r = actions'[n].arg
    OBVIOUS
  <2>2. Transferred(id, r)
    <3>1. CASE /\ n \in DOMAIN actions
               /\ actions'[n].intent = actions[n].intent
               /\ actions'[n].kind = actions[n].kind
               /\ actions'[n].arg = actions[n].arg
      BY <1>5, <2>1, <3>1 DEF BankTrue
    <3>2. CASE Prepare /\ actions'[n] = Entry
      BY <1>5, <2>1, <3>2 DEF BankTrue, Entry, Prepare, Idle
    <3> QED
      BY <3>1, <3>2, EntriesKept
  <2> QED
    BY <1>2, <2>1, <2>2 DEF Transferred
<1>6. ASSUME handler' # None, handler'.doing # None, handler'.id = id,
             handler'.doing.kind = "receipt"
      PROVE  Transferred(id, handler.doing.arg)'
  <2>1. PICK r : r = handler'.doing.arg
    OBVIOUS
  <2>2. Transferred(id, r)
    <3>1. CASE ~Idle /\ handler'.id = handler.id /\ handler'.doing = handler.doing
      BY <1>6, <2>1, <3>1 DEF BankTrue, Idle
    <3>2. ASSUME NEW s \in {1, 2, 3, 5, 6}, Due(s), handler'.id = handler.id,
                 handler'.doing = [kind |-> StageKind[s], arg |-> StageArg(s)]
          PROVE  Transferred(id, r)
      <4>1. s = 5
        BY <1>6, <3>2 DEF StageKind
      <4>2. bankEvents[id] # None
        BY <1>6, <3>2, <4>1 DEF Due, ToRecord
      <4> QED
        BY <1>6, <2>1, <3>2, <4>1, <4>2 DEF StageArg, Transferred
    <3> QED
      BY <1>6, <3>1, <3>2, DoingSteps
  <2> QED
    BY <1>2, <2>1, <2>2 DEF Transferred
<1> QED
  BY <1>3, <1>4, <1>5, <1>6 DEF BankTrue, Transferred, Exists, IsWithdrawal, Authorized

\* The bank pays a withdrawal only on the contract's promise, and the contract
\* records no other receipt than that of the one transfer.
THEOREM BankNeedsPromise == SystemSpec => []BankOnObligation
<1>1. SystemInit => BankInv
  BY DEF SystemInit, Init, BankInv, BankTrue, Exists
<1>2. SystemInv /\ KnowledgeInv /\ BankInv /\ [SystemNext]_system => BankInv'
  <2> SUFFICES ASSUME SystemInv, KnowledgeInv, BankInv, [SystemNext]_system,
                      NEW id \in Ids
               PROVE  BankTrue(id)'
    BY DEF BankInv
  <2> QED
    BY BankTrueKept DEF BankInv, KnowledgeInv
<1>3. SystemInv /\ BankInv => BankOnObligation
  <2> SUFFICES ASSUME SystemInv, BankInv, NEW id \in Ids
               PROVE  /\ bankEvents[id] # None =>
                           /\ Exists(id)
                           /\ IsWithdrawal(orders[id]) =>
                                /\ Authorized(orders[id])
                                /\ orders[id].refundedAt = None
                      /\ Exists(id) /\ orders[id].receipt # None =>
                           orders[id].receipt = bankEvents[id]
    BY DEF BankOnObligation
  <2>1. BankTrue(id)
    BY DEF BankInv
  <2>2. Exists(id) => Backed(orders[id])
    BY DEF SystemInv, IInv, OrdersSound, OrderSound
  <2> QED
    BY <2>1, <2>2 DEF BankTrue, Backed, Transferred
<1> QED
  BY <1>1, <1>2, <1>3, SystemSpecInv, KnowledgeSpec, PTL DEF SystemSpec

-----------------------------------------------------------------------------
\* The bank's transfers are redeemed.  A transfer is made of what a copy of
\* the order says, and the copy may be old; a promise and the terms it is
\* made for do not change, so the receipt fits the order as it is.

BankFits(id) ==
    bankEvents[id] # None =>
      /\ Exists(id)
      /\ bankEvents[id].quote = orders[id].terms.quote
      /\ bankEvents[id].bank = orders[id].terms.bank
      /\ bankEvents[id].event # Zero
      /\ bankEvents[id].receivedAt <= now
      /\ IsWithdrawal(orders[id]) =>
            /\ Authorized(orders[id])
            /\ orders[id].payout <= bankEvents[id].receivedAt
TransfersApart ==
    \A i, j \in Ids :
        bankEvents[i] # None /\ bankEvents[j] # None
          /\ bankEvents[i].event = bankEvents[j].event => i = j
TransferInv == TransfersApart /\ \A id \in Ids : BankFits(id)

LEMMA TransfersApartKept ==
  SystemInv /\ TransfersApart /\ [SystemNext]_system => TransfersApart'
<1> SUFFICES ASSUME SystemInv, TransfersApart, [SystemNext]_system,
                    NEW i \in Ids, NEW j \in Ids,
                    bankEvents'[i] # None, bankEvents'[j] # None,
                    bankEvents'[i].event = bankEvents'[j].event, i # j
             PROVE  FALSE
  BY DEF TransfersApart
<1>1. CASE bankEvents'[i] = bankEvents[i] /\ bankEvents'[j] = bankEvents[j]
  BY <1>1 DEF TransfersApart
<1>2. CASE bankEvents'[i] # bankEvents[i]
  <2>1. bankEvents'[j] = bankEvents[j]
    BY <1>2, BankSteps
  <2> QED
    BY <1>2, <2>1, BankSteps
<1>3. CASE bankEvents'[j] # bankEvents[j]
  <2>1. bankEvents'[i] = bankEvents[i]
    BY <1>3, BankSteps
  <2> QED
    BY <1>3, <2>1, BankSteps
<1> QED
  BY <1>1, <1>2, <1>3

LEMMA BankFitsKept ==
  ASSUME SystemInv, [SystemNext]_system, OrdersKnown, NEW id \in Ids, BankFits(id)
  PROVE  BankFits(id)'
<1>1. Later(orders[id], orders'[id])
  BY SystemStepsVault, OrdersAdvance DEF SystemInv
<1>2. now \in Nat /\ now' \in Nat /\ now <= now'
  BY TimeGoesOn
<1>3. CASE bankEvents'[id] = bankEvents[id] /\ bankEvents[id] # None
  <2>1. bankEvents[id].receivedAt \in Nat
    BY <1>3 DEF SystemInv, CoordinatorInv, TablesOK, Option, Receipts
  <2>2. orders'[id].terms = orders[id].terms /\ Exists(id)'
    BY <1>1, <1>3 DEF BankFits, Later, Exists
  <2>3. bankEvents'[id].receivedAt <= now'
    BY <1>2, <1>3, <2>1 DEF BankFits
  <2> QED
    BY <1>1, <1>3, <2>2, <2>3 DEF BankFits, Later, Exists, IsWithdrawal, Authorized
<1>4. CASE bankEvents'[id] # bankEvents[id]
  <2>1. PICK o : o = intents[id].chain
    OBVIOUS
  <2>2. /\ o # None /\ o.terms = orders[id].terms /\ Exists(id)
        /\ Authorized(o) => orders[id].payout = o.payout /\ Authorized(orders[id])
    BY <1>4, <2>1, BankSteps, CopyIsEarlier DEF Later, Exists
  <2>3. /\ IsWithdrawal(o) => Authorized(o)
        /\ EarliestReceipt(o) <= now
        /\ bankEvents'[id].quote = o.terms.quote
        /\ bankEvents'[id].bank = o.terms.bank
        /\ bankEvents'[id].receivedAt = now
        /\ bankEvents'[id].event # Zero
        /\ UNCHANGED <<orders, now>>
    BY <1>4, <2>1, BankSteps
  <2>4. IsWithdrawal(orders[id]) =>
          Authorized(orders[id]) /\ orders[id].payout <= now
    BY <2>2, <2>3 DEF IsWithdrawal, IsDeposit, EarliestReceipt
  <2> QED
    BY <1>2, <2>2, <2>3, <2>4 DEF BankFits, Exists, IsWithdrawal, Authorized
<1>5. CASE bankEvents'[id] = None
  BY <1>5 DEF BankFits
<1> QED
  BY <1>3, <1>4, <1>5

\* What the bank paid out for a withdrawal is never lost to the provider: the
\* contract takes its receipt, and then settles the order.
TransferRecordable ==
    \A id \in Ids : bankEvents[id] # None /\ IsWithdrawal(orders[id]) =>
        \/ orders[id].settledAt # None
        \/ orders[id].receipt = None /\ MayReceive(id, bankEvents[id])
        \/ /\ orders[id].receipt = bankEvents[id]
           /\ Covered /\ Provider \notin blocked => MaySettle(id)

LEMMA TransferIsRecordable ==
  ASSUME SystemInv, Books, BankInv, TransferInv, NEW id \in Ids,
         bankEvents[id] # None, IsWithdrawal(orders[id]),
         orders[id].settledAt = None
  PROVE  \/ orders[id].receipt = None /\ MayReceive(id, bankEvents[id])
         \/ /\ orders[id].receipt = bankEvents[id]
            /\ Covered /\ Provider \notin blocked => MaySettle(id)
<1>1. /\ IInv /\ TypeOK /\ BankTrue(id) /\ BankFits(id) /\ TransfersApart
      /\ bankEvents[id] \in Receipts
  BY DEF SystemInv, IInv, BankInv, TransferInv, CoordinatorInv, TablesOK, Option
<1>2. /\ Exists(id) /\ Authorized(orders[id])
      /\ orders[id] \in OrderType /\ OrderSound(orders[id])
  BY <1>1, PresentOrder DEF BankFits, IInv, OrdersSound
<1>3. ~IsDeposit(orders[id])
  BY DEF IsDeposit, IsWithdrawal
<1>4. ~Terminal(orders[id]) /\ orders[id].escrowed
  BY <1>2, <1>3 DEF OrderSound, Backed, EndsOnce, Terminal, Attributed
<1>5. CASE orders[id].receipt = None
  <2>1. PICK r : r = bankEvents[id]
    OBVIOUS
  <2>2. r.event \in Events /\ r.event # Zero
    BY <1>1, <2>1 DEF BankFits, Receipts
  <2>3. receiptOf[r.event] = None
    <3> SUFFICES ASSUME receiptOf[r.event] # None PROVE FALSE
      OBVIOUS
    <3>1. PICK j \in Ids : receiptOf[r.event] = j
      BY <1>1, <2>2 DEF TypeOK, Option
    <3>2. HasReceipt(j, r.event)
      BY <1>1, <2>2, <3>1 DEF IInv, EvidenceUnique
    <3>3. BankTrue(j)
      BY DEF BankInv
    <3>4. bankEvents[j] # None /\ bankEvents[j].event = r.event
      BY <3>2, <3>3 DEF HasReceipt, BankTrue, Transferred
    <3>5. j = id
      BY <1>1, <2>1, <3>4 DEF TransfersApart
    <3> QED
      BY <1>5, <3>2, <3>5 DEF HasReceipt
  <2> QED
    BY <1>1, <1>2, <1>3, <1>4, <1>5, <2>1, <2>2, <2>3
    DEF BankFits, MayReceive, ReceiptReady, EarliestReceipt, Unused
<1>6. CASE orders[id].receipt # None
  <2>1. PICK r : r = orders[id].receipt
    OBVIOUS
  <2>2. r = bankEvents[id] /\ r.event \in Events
    BY <1>1, <1>2, <1>6, <2>1 DEF BankTrue, Transferred, Receipts
  <2>3. receiptOf[r.event] = id
    BY <1>1, <1>2, <1>6, <2>1, <2>2 DEF IInv, EvidenceUnique, HasReceipt
  <2>4. reserved >= Amount(id)
    BY <1>1, <1>2, <1>4, ReserveHoldsEach DEF Escrowed
  <2> QED
    BY <1>2, <1>3, <1>4, <1>6, <2>1, <2>2, <2>3, <2>4
    DEF MaySettle, SettleReady, Releases, Beneficiary
<1> QED
  BY <1>5, <1>6

\* The bank's transfer for a withdrawal, made on a copy of the order however
\* old, has a receipt the contract accepts, and a received transfer settles as
\* soon as the vault is whole and the provider can take the tokens: no expiry,
\* eligibility, verifier or other order's evidence stands in the way.
THEOREM TransfersStayRecordable == SystemSpec => []TransferRecordable
<1>1. SystemInit => BankInv /\ TransferInv
  BY DEF SystemInit, Init, BankInv, BankTrue, Exists, TransferInv,
         TransfersApart, BankFits
<1>2. SystemInv /\ KnowledgeInv /\ BankInv /\ TransferInv /\ [SystemNext]_system
        => BankInv' /\ TransferInv'
  <2> SUFFICES ASSUME SystemInv, KnowledgeInv, BankInv, TransferInv,
                      [SystemNext]_system
               PROVE  BankInv' /\ TransferInv'
    OBVIOUS
  <2>1. ASSUME NEW id \in Ids PROVE BankTrue(id)' /\ BankFits(id)'
    BY BankTrueKept, BankFitsKept DEF BankInv, TransferInv, KnowledgeInv
  <2> QED
    BY <2>1, TransfersApartKept DEF BankInv, TransferInv
<1>3. SystemInv /\ Books /\ BankInv /\ TransferInv => TransferRecordable
  BY TransferIsRecordable DEF TransferRecordable
<1> QED
  BY <1>1, <1>2, <1>3, SystemRunsVault, SpecBooks, SystemSpecInv, KnowledgeSpec,
     PTL DEF SystemSpec

-----------------------------------------------------------------------------
\* Requests for payouts.

\* A handler that decides has read the order after all its transactions.
CopyFresh ==
    ~Idle /\ handler.at = "decide" /\ Row.chain # None =>
        \A n \in OwnActions(handler.id) :
            actions[n].status = "success" => actions[n].ledger <= Row.seen

\* Only reading the order leads to a decision, or deciding on.
LEMMA DecideSteps ==
  ASSUME SystemInv, [SystemNext]_system, handler' # None, handler'.at = "decide"
  PROVE  /\ ~Idle /\ handler'.id = handler.id /\ actions' = actions
         /\ \/ handler.at = "decide" /\ UNCHANGED intents
            \/ \E k \in DOMAIN past[handler.id] : Sync(k)
<1>1. CoordinatorInv
  BY DEF SystemInv
<1>2. ~Idle => DOMAIN handler = Fields
  BY <1>1, RowTyped DEF HandlerOK
<1>3. ASSUME NEW id, NEW op, handler' = Advance(id, op) PROVE FALSE
  BY <1>3 DEF Advance
<1>4. CASE Query \/ Send \/ Sent \/ Prepare
  <2>1. ~Idle
    BY <1>4 DEF Query, Send, Sent, Prepare, Reconciling
  <2>2. handler'.at \in {"send", "sent", "reconcile"}
    <3>1. CASE Query
      BY <1>2, <2>1, <3>1 DEF Query, Reconciling, Fields
    <3>2. CASE Send \/ Sent
      BY <1>2, <2>1, <3>2 DEF Send, Sent, Fields
    <3>3. CASE Prepare
      BY <1>2, <2>1, <3>3 DEF Prepare, Fields
    <3> QED
      BY <1>4, <3>1, <3>2, <3>3
  <2> QED
    BY <2>2
<1>5. CASE ProofDone \/ Ask
  BY <1>3, <1>5 DEF ProofDone, Ask
<1>6. CASE Reconciled /\ SyncSome
  <2>1. ~Idle /\ handler.id \in Ids
    BY <1>1, <1>6, RowTyped DEF Reconciled
  <2>2. PICK k \in DOMAIN past[handler.id] : Sync(k)
    BY <1>6, <2>1, HistoryTyped DEF SyncSome
  <2> QED
    BY <1>2, <2>1, <2>2 DEF Sync, Fields
<1>7. CASE Begun \/ Work
  <2>1. ~Idle /\ handler.at = "decide" /\ UNCHANGED <<intents, actions>>
    BY <1>7 DEF Begun, Work, Deciding, database
  <2>2. handler'.id = handler.id
    <3>1. CASE Begun
      BY <1>2, <2>1, <3>1 DEF Begun, Finished, Fields
    <3>2. CASE Work
      <4>1. PICK s : s = Min(Next6(handler.stage))
        OBVIOUS
      <4>2. PICK h : h = [handler EXCEPT !.stage = s + 1]
        OBVIOUS
      <4>3. DOMAIN h = Fields /\ h.id = handler.id
        BY <1>2, <2>1, <4>2 DEF Fields
      <4>4. \/ handler' = Finished \/ handler' = h
            \/ \E kind, arg : handler' = Perform(h, kind, arg)
        BY <3>2, <4>1, <4>2 DEF Work
      <4> QED
        BY <1>2, <2>1, <4>3, <4>4 DEF Finished, Perform, Fields
    <3> QED
      BY <1>7, <3>1, <3>2
  <2> QED
    BY <2>1, <2>2
<1>8. CASE GiveBack
  <2>1. ~Idle
    BY <1>8 DEF GiveBack, Deciding
  <2>2. PICK h : h = [handler EXCEPT !.op = "closing"]
    OBVIOUS
  <2>3. \E kind : handler' = Perform(h, kind, None)
    BY <1>8, <2>2 DEF GiveBack
  <2> QED
    BY <1>2, <2>1, <2>2, <2>3 DEF Perform, Fields
<1>9. ASSUME NEW id \in Ids, Request(id) PROVE FALSE
  <2>1. ~RequestRefund(id)
    BY DEF RequestRefund, Advance
  <2>2. ASSUME NEW proofTime, SubmitProof(id, proofTime) PROVE FALSE
    BY <2>2 DEF SubmitProof, Perform, Advance
  <2> QED
    BY <1>3, <1>9, <2>1, <2>2
    DEF Request, Begin, Accept, Get, SimulateBank, Idle
<1>10. CASE Handling
  BY <1>4, <1>5, <1>6, <1>7, <1>8, <1>10 DEF Handling
<1> QED
  BY <1>9, <1>10
  DEF SystemNext, Ingest, Drop, Include, PayIn, OutsideSettle, Environment,
      system, database, Idle

LEMMA CopyFreshKept ==
  ASSUME SystemInv, KnowledgeInv, CopyFresh, [SystemNext]_system
  PROVE  CopyFresh'
<1> SUFFICES ASSUME handler' # None, handler'.at = "decide",
                    intents'[handler'.id].chain # None,
                    NEW n \in DOMAIN actions',
                    actions'[n].intent = handler'.id,
                    actions'[n].status = "success"
             PROVE  actions'[n].ledger <= intents'[handler'.id].seen
  BY DEF CopyFresh, Idle, Row, OwnActions
<1>1. ~Idle /\ handler'.id = handler.id /\ actions' = actions
  BY DecideSteps
<1>2. n \in OwnActions(handler.id) /\ actions[n].status = "success"
  BY <1>1 DEF OwnActions
<1>3. CASE handler.at = "decide" /\ UNCHANGED intents
  BY <1>1, <1>2, <1>3 DEF CopyFresh, Row
<1>4. ASSUME NEW k \in DOMAIN past[handler.id], Sync(k)
      PROVE  actions'[n].ledger <= intents'[handler'.id].seen
  <2>1. handler.id \in Ids /\ Row \in IntentType
    BY <1>1, RowTyped DEF SystemInv
  <2>2. PICK id \in Ids : id = handler.id
    BY <2>1
  <2>3. /\ intents[id] # None /\ intents[id] \in IntentType
        /\ intents \in [Ids -> Option(IntentType)]
    BY <2>1, <2>2, IntentAssumption DEF Row, SystemInv, CoordinatorInv, TablesOK
  <2>4. Floor(id) \in Nat /\ actions[n].ledger <= Floor(id) /\ k \in Nat
    BY <1>2, <2>2, <2>3, FloorIsHigh, HistoryTyped DEF KnowledgeInv
  <2>5. past[id][k] # None /\ ~(k < Floor(id)) /\ intents'[id].seen = k
    <3>1. CASE past[id][k] = None
      BY <1>1, <1>4, <2>2, <2>3, <3>1 DEF Sync
    <3>2. CASE k < Floor(id) /\ past[id][k] # None
      BY <1>4, <2>2, <3>2 DEF Sync
    <3>3. CASE past[id][k] # None /\ ~(k < Floor(id))
      BY <1>4, <2>2, <2>3, <3>3 DEF Sync, IntentType
    <3> QED
      BY <3>1, <3>2, <3>3
  <2>6. actions[n].ledger \in Nat
    <3>1. actions[n] \in ActionType
      BY <1>1, EntryTyped DEF SystemInv, CoordinatorInv
    <3> QED
      BY <3>1 DEF ActionType
  <2> QED
    BY <1>1, <2>2, <2>4, <2>5, <2>6
<1> QED
  BY <1>3, <1>4, DecideSteps

\* A step leaves open only what was open or what it journals.
LEMMA OpenBefore ==
  ASSUME SystemInv, [SystemNext]_system, NEW n \in DOMAIN actions,
         n \in Unresolved'
  PROVE  n \in Unresolved
<1>1. JournalOK
  BY DEF SystemInv, CoordinatorInv
<1>2. CASE ~Prepare
  BY <1>2, OnlyPrepareOpens
<1>3. CASE Prepare
  <2>1. CASE actions' = actions
    BY <2>1 DEF Unresolved
  <2>2. CASE /\ Journals
             /\ Entry \in ActionType /\ Fits(Entry) /\ Entry.status = "prepared"
    <3>1. PICK a : a = Entry
      OBVIOUS
    <3>2. actions'[n] = actions[n]
      BY <1>1, <2>2, <3>1, JournalAppended DEF Journals
    <3> QED
      BY <3>2 DEF Unresolved
  <2> QED
    BY <1>3, <2>1, <2>2, PrepareJournals
<1> QED
  BY <1>2, <1>3

LEMMA GivesBack ==
  ASSUME CoordinatorInv, GiveBack, handler' # None
  PROVE  handler'.doing.kind \in {"refund", "cancel"}
<1>1. ~Idle /\ DOMAIN handler = Fields
  BY RowTyped DEF GiveBack, Deciding, HandlerOK
<1>2. PICK h : h = [handler EXCEPT !.op = "closing"]
  OBVIOUS
<1>3. PICK kind \in {"refund", "cancel"} : handler' = Perform(h, kind, None)
  BY <1>2 DEF GiveBack
<1>4. DOMAIN h = Fields
  BY <1>1, <1>2
<1> QED
  BY <1>3, <1>4 DEF Perform, Fields

Requested(id) == intents[id] # None /\ intents[id].requested

\* Only giving the tokens back clears a request.
LEMMA RequestedKept ==
  ASSUME SystemInv, [SystemNext]_system, NEW id \in Ids, Requested(id),
         ~(GiveBack /\ handler.id = id /\ RefundAllowed)
  PROVE  Requested(id)'
<1>1. intents[id] \in IntentType /\ None \notin IntentType
  BY IntentTyped, IntentAssumption DEF SystemInv, Requested
<1>2. intents'[id] # None
  <2>1. SystemInv'
    BY SystemNextInv
  <2>2. RowStep(id)
    BY RowSteps
  <2>3. CASE intents'[id] = intents[id]
    BY <1>1, <2>3
  <2>4. CASE \E t \in Terms : intents'[id] = [intents[id] EXCEPT !.terms = t]
    <3>1. PICK t \in Terms : intents'[id] = [intents[id] EXCEPT !.terms = t]
      BY <2>4
    <3>2. [intents[id] EXCEPT !.terms = t] \in IntentType
      BY <1>1 DEF IntentType, Option
    <3> QED
      BY <1>1, <3>1, <3>2
  <2>5. CASE \E b \in BOOLEAN :
               \/ intents'[id] = [intents[id] EXCEPT !.requested = b]
               \/ intents'[id] = [intents[id] EXCEPT !.recovery = b]
    <3>1. intents'[id] \in IntentType
      BY <1>1, <2>5 DEF IntentType
    <3> QED
      BY <1>1, <3>1
  <2>6. CASE \E k \in DOMAIN past[id] :
               intents'[id] = [intents[id] EXCEPT !.chain = past[id][k], !.seen = k]
    <3>1. PICK k \in DOMAIN past[id] :
               intents'[id] = [intents[id] EXCEPT !.chain = past[id][k], !.seen = k]
      BY <2>6
    <3>2. k \in Nat /\ past[id][k] \in Option(OrderType)
      BY <3>1, HistoryTyped DEF Option
    <3>3. intents'[id] \in IntentType
      BY <1>1, <3>1, <3>2 DEF IntentType
    <3> QED
      BY <1>1, <3>3
  <2> QED
    BY <1>1, <2>2, <2>3, <2>4, <2>5, <2>6 DEF RowStep, Requested
<1>3. intents'[id].requested
  <2>1. RowStep(id)
    BY RowSteps
  <2> QED
    BY <1>1, <2>1 DEF RowStep, Requested, IntentType
<1> QED
  BY <1>2, <1>3 DEF Requested

Promises(n) == actions[n].kind = "authorize"

PayoutTrue(id) ==
    /\ Exists(id) /\ Authorized(orders[id]) =>
          /\ Requested(id)
          /\ \E n \in OwnActions(id) : Promises(n) /\ net[n].status = "success"
    /\ \A n \in OwnActions(id) : Promises(n) /\ n \in Unresolved => Requested(id)
    /\ ~Idle /\ handler.id = id /\ handler.doing # None =>
          (handler.doing.kind = "authorize" => Requested(id))
PayoutInv == CopyFresh /\ \A id \in Ids : PayoutTrue(id)

\* What is given back was never promised: had it been, the transaction that
\* promised it would be known, and the copy would show it.
LEMMA GivenBackUnpromised ==
  ASSUME SystemInv, KnowledgeInv, PayoutInv, GiveBack, RefundAllowed
  PROVE  /\ ~(Exists(handler.id) /\ Authorized(orders[handler.id]))
         /\ OwnActions(handler.id) \cap Unresolved = {}
<1>1. OwnActions(handler.id) \cap Unresolved = {}
  BY DEF RefundAllowed
<1>2. ~Idle /\ handler.at = "decide" /\ handler.id \in Ids /\ Row \in IntentType
  BY RowTyped DEF GiveBack, Deciding, SystemInv
<1>3. PICK id \in Ids : id = handler.id
  BY <1>2
<1>4. /\ intents[id] # None /\ intents[id].chain # None
      /\ ~Authorized(intents[id].chain)
  BY <1>2, <1>3, IntentAssumption DEF RefundAllowed, Known, Row, Untouched
<1> SUFFICES ASSUME Exists(id), Authorized(orders[id]) PROVE FALSE
  BY <1>1, <1>3
<1>5. PICK n \in OwnActions(id) : Promises(n) /\ net[n].status = "success"
  BY DEF PayoutInv, PayoutTrue
<1>6. n \in DOMAIN actions /\ actions[n].intent = id /\ n \notin Unresolved
  BY <1>1, <1>3 DEF OwnActions
<1>7. actions[n].status = "success"
  <2>1. actions[n] \in ActionType
    BY <1>6, EntryTyped DEF SystemInv, CoordinatorInv
  <2>2. actions[n].status \in Statuses
    BY <2>1 DEF ActionType
  <2>3. actions[n].status # "failed"
    BY <1>5, <1>6 DEF KnowledgeInv, VerdictsFinal
  <2> QED
    BY <1>6, <2>2, <2>3 DEF Unresolved, Open, Statuses
<1>8. PICK j, k : j = actions[n].ledger /\ k = intents[id].seen
  OBVIOUS
<1>9. j \in 1..Len(past[id]) /\ Shows(past[id][j], actions[n])
  BY <1>5, <1>6, <1>7, <1>8
  DEF KnowledgeInv, VerdictsShown, VerdictShown, Included
<1>10. k \in 1..Len(past[id]) /\ intents[id].chain = past[id][k]
  BY <1>4, <1>8, RowHistory DEF KnowledgeInv, OrdersKnown, CopyTrue
<1>11. j <= k
  BY <1>2, <1>3, <1>4, <1>5, <1>7, <1>8 DEF PayoutInv, CopyFresh, Row
<1>12. Later(past[id][j], past[id][k])
  BY <1>9, <1>10, <1>11 DEF KnowledgeInv, OrdersKnown, Remembered
<1>13. Shows(past[id][k], actions[n])
  <2>1. PICK a, b, c : a = past[id][j] /\ b = past[id][k] /\ c = actions[n]
    OBVIOUS
  <2> QED
    BY <1>9, <1>12, <2>1, LaterShows
<1> QED
  BY <1>4, <1>5, <1>10, <1>13 DEF Shows, Promises

LEMMA PayoutTrueKept ==
  ASSUME SystemInv, KnowledgeInv, PayoutInv, [SystemNext]_system, NEW id \in Ids
  PROVE  PayoutTrue(id)'
<1>1. PayoutTrue(id)
  BY DEF PayoutInv
<1>2. CASE GiveBack /\ handler.id = id /\ RefundAllowed
  <2>1. /\ ~(Exists(id) /\ Authorized(orders[id]))
        /\ OwnActions(id) \cap Unresolved = {}
    BY <1>2, GivenBackUnpromised
  <2>2. UNCHANGED <<orders, actions>>
    BY <1>2 DEF GiveBack, contract, vars
  <2>3. handler' = None \/ handler'.doing.kind \in {"refund", "cancel"}
    BY <1>2, GivesBack DEF SystemInv
  <2> QED
    BY <2>1, <2>2, <2>3
    DEF PayoutTrue, Exists, Authorized, OwnActions, Unresolved, Idle
<1>3. CASE ~(GiveBack /\ handler.id = id /\ RefundAllowed)
  <2>1. Requested(id) => Requested(id)'
    BY <1>3, RequestedKept
  <2>2. ASSUME Exists(id)', Authorized(orders'[id])
        PROVE  /\ Requested(id)'
               /\ (\E n \in OwnActions(id) : Promises(n) /\ net[n].status = "success")'
    <3>1. CASE Exists(id) /\ Authorized(orders[id])
      <4>1. PICK n \in OwnActions(id) : Promises(n) /\ net[n].status = "success"
        BY <1>1, <3>1 DEF PayoutTrue
      <4>2. n \in DOMAIN actions /\ Lasting(n)
        BY <4>1, SystemJournalGrows DEF OwnActions, JournalGrows
      <4>3. n \in OwnActions(id)' /\ Promises(n)' /\ net'[n].status = "success"
        BY <4>1, <4>2 DEF Lasting, OwnActions, Promises
      <4> QED
        BY <1>1, <2>1, <3>1, <4>3 DEF PayoutTrue
    <3>2. CASE ~(Exists(id) /\ Authorized(orders[id]))
      <4>1. PICK n \in DOMAIN actions :
               /\ actions[n].intent = id /\ Include(n) /\ net'[n].status = "success"
               /\ Promises(n)
        <5>1. orders'[id] # orders[id]
          BY <2>2, <3>2 DEF Exists
        <5>2. \A t : orders'[id] # NewOrder(t)
          BY <2>2 DEF NewOrder, Authorized
        <5>3. ~(Exists(id) /\ Writes([kind |-> "settle"], orders[id], orders'[id]))
          BY <2>2, <3>2 DEF Writes, Authorized
        <5> QED
          BY <2>2, <3>2, <5>1, <5>2, <5>3, OrdersWritten
          DEF OrderWritten, Writes, Authorized, Promises
      <4>2. n \in Unresolved
        <5>1. actions[n] \in ActionType /\ now \in Nat
          BY EntryTyped DEF SystemInv, CoordinatorInv, IInv, TypeOK
        <5>2. /\ actions[n].status \in Statuses /\ actions[n].expires \in Nat
              /\ net[n].status = "sent" /\ now <= actions[n].expires
          BY <4>1, <5>1 DEF ActionType, Include
        <5>3. actions[n].status \notin {"success", "failed"}
          BY <5>1, <5>2 DEF KnowledgeInv, VerdictsFinal
        <5> QED
          BY <5>2, <5>3 DEF Unresolved, Open, Statuses
      <4>3. Requested(id)
        BY <1>1, <4>1, <4>2 DEF PayoutTrue, OwnActions
      <4>4. n \in OwnActions(id)' /\ Promises(n)'
        BY <4>1 DEF Include, database, OwnActions, Promises
      <4> QED
        BY <2>1, <4>1, <4>3, <4>4
    <3> QED
      BY <3>1, <3>2
  <2>3. ASSUME NEW n \in OwnActions(id)', Promises(n)', n \in Unresolved'
        PROVE  Requested(id)'
    <3>1. n \in DOMAIN actions'
      BY DEF OwnActions
    <3>2. CASE /\ n \in DOMAIN actions
               /\ actions'[n].intent = actions[n].intent
               /\ actions'[n].kind = actions[n].kind
      <4>1. n \in Unresolved /\ n \in OwnActions(id) /\ Promises(n)
        BY <2>3, <3>2, OpenBefore DEF OwnActions, Promises
      <4> QED
        BY <1>1, <2>1, <4>1 DEF PayoutTrue
    <3>3. CASE Prepare /\ actions'[n] = Entry
      <4>1. ~Idle /\ handler.doing # None
        BY <3>3 DEF Prepare
      <4>2. handler.id = id /\ handler.doing.kind = "authorize"
        BY <2>3, <3>3 DEF Entry, OwnActions, Promises
      <4> QED
        BY <1>1, <2>1, <4>1, <4>2 DEF PayoutTrue
    <3> QED
      BY <3>1, <3>2, <3>3, EntriesKept
  <2>4. ASSUME handler' # None, handler'.id = id, handler'.doing # None,
               handler'.doing.kind = "authorize"
        PROVE  Requested(id)'
    <3>1. CASE ~Idle /\ handler'.id = handler.id /\ handler'.doing = handler.doing
      BY <1>1, <2>1, <2>4, <3>1 DEF PayoutTrue
    <3>2. ASSUME Work, NEW s \in {1, 2, 3, 5, 6}, Due(s), handler'.id = handler.id,
                 handler'.doing = [kind |-> StageKind[s], arg |-> StageArg(s)]
          PROVE  Requested(id)
      <4>1. s = 3
        BY <2>4, <3>2 DEF StageKind
      <4>2. Row.requested /\ Row \in IntentType
        BY <3>2, <4>1, RowTyped DEF Due, ToAuthorize, Work, Deciding, SystemInv
      <4> QED
        BY <2>4, <3>2, <4>2, IntentAssumption DEF Row, Requested
    <3> QED
      BY <2>1, <2>4, <3>1, <3>2, DoingSteps
  <2> QED
    BY <2>2, <2>3, <2>4 DEF PayoutTrue, Idle
<1> QED
  BY <1>2, <1>3

\* No payout is promised without the customer's standing request, however a
\* refund and an authorization overlap.
THEOREM PayoutsStayRequested == SystemSpec => []PayoutRequested
<1>1. SystemInit => PayoutInv
  BY DEF SystemInit, Init, PayoutInv, PayoutTrue, CopyFresh, Exists, Idle, OwnActions
<1>2. SystemInv /\ KnowledgeInv /\ PayoutInv /\ [SystemNext]_system => PayoutInv'
  BY CopyFreshKept, PayoutTrueKept DEF PayoutInv
<1>3. PayoutInv => PayoutRequested
  BY DEF PayoutInv, PayoutTrue, PayoutRequested, Requested
<1> QED
  BY <1>1, <1>2, <1>3, SystemSpecInv, KnowledgeSpec, PTL DEF SystemSpec

-----------------------------------------------------------------------------
\* Payments.

\* The row of an intent keeps its account and direction and, once they are
\* fixed, its terms.
RowStays(id) ==
    /\ intents'[id] # None
    /\ intents'[id].account = intents[id].account
    /\ intents'[id].direction = intents[id].direction
    /\ intents[id].terms # None => intents'[id].terms = intents[id].terms
    /\ \/ intents'[id].terms = intents[id].terms
       \/ /\ intents'[id].terms.recipient = intents[id].account
          /\ intents'[id].terms.direction = intents[id].direction

LEMMA RowLasts ==
  ASSUME SystemInv, [SystemNext]_system, NEW id \in Ids, intents[id] # None
  PROVE  RowStays(id)
<1>1. intents[id] \in IntentType /\ None \notin IntentType
  BY IntentTyped, IntentAssumption DEF SystemInv
<1>2. ASSUME intents'[id] \in IntentType,
             intents'[id].account = intents[id].account,
             intents'[id].direction = intents[id].direction,
             \/ intents'[id].terms = intents[id].terms
             \/ /\ intents[id].terms = None
                /\ intents'[id].terms.recipient = intents[id].account
                /\ intents'[id].terms.direction = intents[id].direction
      PROVE  RowStays(id)
  BY <1>1, <1>2 DEF RowStays
<1>3. CASE intents'[id] = intents[id]
  BY <1>1, <1>2, <1>3
<1>4. ASSUME NEW t \in Terms, intents'[id] = [intents[id] EXCEPT !.terms = t],
             intents[id].terms = None, t.recipient = intents[id].account,
             t.direction = intents[id].direction
      PROVE  RowStays(id)
  BY <1>1, <1>2, <1>4 DEF IntentType, Option
<1>5. ASSUME NEW b \in BOOLEAN,
             \/ intents'[id] = [intents[id] EXCEPT !.requested = b]
             \/ intents'[id] = [intents[id] EXCEPT !.recovery = b]
      PROVE  RowStays(id)
  BY <1>1, <1>2, <1>5 DEF IntentType
<1>6. ASSUME NEW k \in DOMAIN past[id],
             intents'[id] = [intents[id] EXCEPT !.chain = past[id][k], !.seen = k]
      PROVE  RowStays(id)
  <2>1. k \in Nat /\ past[id][k] \in Option(OrderType)
    BY <1>6, HistoryTyped DEF Option
  <2> QED
    BY <1>1, <1>2, <1>6, <2>1 DEF IntentType
<1>7. RowStep(id)
  BY RowSteps
<1> QED
  BY <1>3, <1>4, <1>5, <1>6, <1>7 DEF RowStep

\* The row of an intent fixed these terms.
HasTerms(id, t) == intents[id] # None /\ intents[id].terms = t /\ t # None

LEMMA FixedStay ==
  ASSUME SystemInv, [SystemNext]_system, NEW id \in Ids, NEW t, HasTerms(id, t)
  PROVE  HasTerms(id, t)'
  BY RowLasts DEF HasTerms, RowStays

\* An order has the terms of its row, and they name the row's account and
\* direction.
TermsTrue(id) ==
    /\ intents[id] # None /\ intents[id].terms # None =>
          /\ intents[id].terms.recipient = intents[id].account
          /\ intents[id].terms.direction = intents[id].direction
    /\ Exists(id) => HasTerms(id, orders[id].terms)
    /\ \A n \in OwnActions(id) :
          actions[n].kind = "create" => HasTerms(id, actions[n].arg)
    /\ ~Idle /\ handler.id = id /\ handler.doing # None =>
          (handler.doing.kind = "create" => HasTerms(id, handler.doing.arg))

LEMMA TermsTrueKept ==
  ASSUME SystemInv, [SystemNext]_system, NEW id \in Ids, TermsTrue(id)
  PROVE  TermsTrue(id)'
<1>1. \A t : HasTerms(id, t) => HasTerms(id, t)'
  BY FixedStay
<1>2. ASSUME intents'[id] # None, intents'[id].terms # None
      PROVE  /\ intents'[id].terms.recipient = intents'[id].account
             /\ intents'[id].terms.direction = intents'[id].direction
  <2>1. CASE intents[id] # None
    BY <1>2, <2>1, RowLasts DEF RowStays, TermsTrue
  <2>2. CASE intents[id] = None
    <3>1. CASE \E a \in Customers, d \in {"deposit", "withdrawal"} :
                 intents'[id] = NewRow(a, d)
      BY <1>2, <3>1 DEF NewRow
    <3>2. ~(~Idle /\ handler.id = id)
      BY <2>2, RowTyped, IntentAssumption DEF Row, SystemInv
    <3> QED
      BY <1>2, <2>2, <3>1, <3>2, RowSteps
      DEF RowStep, Ask, GiveBack, Deciding, Copies
  <2> QED
    BY <2>1, <2>2
<1>3. ASSUME Exists(id)' PROVE HasTerms(id, orders[id].terms)'
  <2>1. PICK t : t = orders'[id].terms
    OBVIOUS
  <2>2. HasTerms(id, t)
    <3>1. CASE orders'[id] = orders[id]
      BY <1>3, <2>1, <3>1 DEF TermsTrue, Exists
    <3>2. ASSUME NEW n \in DOMAIN actions, actions[n].intent = id,
                 actions[n].kind = "create", orders'[id] = NewOrder(actions[n].arg)
          PROVE  HasTerms(id, t)
      BY <2>1, <3>2 DEF TermsTrue, OwnActions, NewOrder
    <3>3. ASSUME Exists(id), orders'[id].terms = orders[id].terms
          PROVE  HasTerms(id, t)
      BY <2>1, <3>3 DEF TermsTrue
    <3> QED
      BY <3>1, <3>2, <3>3, OrdersWritten DEF OrderWritten, Writes
  <2> QED
    BY <1>1, <2>1, <2>2 DEF HasTerms
<1>4. ASSUME NEW n \in OwnActions(id)', actions'[n].kind = "create"
      PROVE  HasTerms(id, actions[n].arg)'
  <2>1. PICK t : t = actions'[n].arg
    OBVIOUS
  <2>2. HasTerms(id, t)
    <3>1. CASE /\ n \in DOMAIN actions
               /\ actions'[n].intent = actions[n].intent
               /\ actions'[n].kind = actions[n].kind
               /\ actions'[n].arg = actions[n].arg
      BY <1>4, <2>1, <3>1 DEF TermsTrue, OwnActions
    <3>2. CASE Prepare /\ actions'[n] = Entry
      BY <1>4, <2>1, <3>2 DEF TermsTrue, Entry, Prepare, OwnActions
    <3> QED
      BY <3>1, <3>2, EntriesKept DEF OwnActions
  <2> QED
    BY <1>1, <2>1, <2>2 DEF HasTerms
<1>5. ASSUME handler' # None, handler'.doing # None, handler'.id = id,
             handler'.doing.kind = "create"
      PROVE  HasTerms(id, handler.doing.arg)'
  <2>1. PICK t : t = handler'.doing.arg
    OBVIOUS
  <2>2. HasTerms(id, t)
    <3>1. CASE ~Idle /\ handler'.id = handler.id /\ handler'.doing = handler.doing
      BY <1>5, <2>1, <3>1 DEF TermsTrue
    <3>2. ASSUME Work, NEW s \in {1, 2, 3, 5, 6}, Due(s), handler'.id = handler.id,
                 handler'.doing = [kind |-> StageKind[s], arg |-> StageArg(s)]
          PROVE  HasTerms(id, t)
      <4>1. s = 1 /\ t = Row.terms
        BY <1>5, <2>1, <3>2 DEF StageKind, StageArg
      <4>2. Row \in IntentType /\ Row.terms \in Terms
        BY <3>2, RowTyped DEF Work, Deciding, SystemInv, HandlerOK, Row
      <4> QED
        BY <1>5, <3>2, <4>1, <4>2, IntentAssumption DEF Row, HasTerms
    <3> QED
      BY <1>5, <3>1, <3>2, DoingSteps
  <2> QED
    BY <1>1, <2>1, <2>2 DEF HasTerms
<1> QED
  BY <1>2, <1>3, <1>4, <1>5 DEF TermsTrue, Idle

\* A judged payment keeps its verdict; a new one is judged by the order's copy.
PaymentsGrow ==
    \/ UNCHANGED payments
    \/ /\ Ingest
       /\ LET p == feed[Len(payments) + 1] IN
          payments' = Append(payments, [intent |-> Named(p), accepted |-> Matches(p, Named(p))])

LEMMA PaymentsSteps ==
  ASSUME [SystemNext]_system
  PROVE  PaymentsGrow
<1>1. CASE Handling
  BY <1>1
  DEF Handling, Query, Send, Sent, Prepare, ProofDone, SyncSome, Sync, Begun,
      Work, Ask, GiveBack, database, PaymentsGrow
<1>2. ASSUME NEW id \in Ids, Request(id) PROVE PaymentsGrow
  BY <1>2
  DEF Request, Begin, Accept, Get, SubmitProof, SimulateBank, RequestRefund,
      database, PaymentsGrow
<1>3. CASE Ingest
  BY <1>3 DEF Ingest, PaymentsGrow
<1> QED
  BY <1>1, <1>2, <1>3
  DEF SystemNext, Drop, Include, PayIn, OutsideSettle, Environment, system,
      database, PaymentsGrow

\* Payments that reached the feed stay in it.
LEMMA FeedLasts ==
  ASSUME SystemInv, [SystemNext]_system
  PROVE  \A k \in DOMAIN payments : feed'[k] = feed[k]
<1>1. /\ feed \in Seq(PaymentType)
      /\ DOMAIN payments = 1..Len(payments) /\ Len(payments) <= Len(feed)
      /\ Len(payments) \in Nat
  BY DEF SystemInv, CoordinatorInv, HistoryOK, TablesOK
<1>2. CASE feed' = feed
  BY <1>2
<1>3. ASSUME NEW p, feed' = Append(feed, p)
      PROVE  \A k \in DOMAIN payments : feed'[k] = feed[k]
  <2>1. Len(feed) \in Nat
    BY <1>1
  <2>2. DOMAIN payments \subseteq 1..Len(feed)
    BY <1>1, <2>1
  <2>3. \A k \in 1..Len(feed) : feed'[k] = feed[k]
    <3> DEFINE S == {feed[k] : k \in 1..Len(feed)} \cup {p}
    <3>1. feed \in Seq(S) /\ p \in S
      BY <1>1
    <3> HIDE DEF S
    <3> QED
      BY <1>3, <3>1
  <2> QED
    BY <2>2, <2>3
<1>4. CASE Handling
  BY <1>2, <1>4
  DEF Handling, Query, Send, Sent, Prepare, ProofDone, SyncSome, Sync, Begun,
      Work, Ask, GiveBack, network
<1>5. ASSUME NEW id \in Ids, Request(id) PROVE feed' = feed
  BY <1>5
  DEF Request, Begin, Accept, Get, SubmitProof, SimulateBank, RequestRefund,
      network
<1>6. ASSUME NEW memo \in Memos, NEW a \in Accounts, NEW amount \in ClassicAmounts,
             PayIn(memo, a, amount)
      PROVE  \E p : feed' = Append(feed, p)
  BY <1>6 DEF PayIn
<1> QED
  BY <1>2, <1>3, <1>4, <1>5, <1>6
  DEF SystemNext, Ingest, Drop, Include, OutsideSettle, Environment, system, network

\* Payment k is what the order's terms ask its customer for.
PaysFor(id, k) ==
    /\ intents[id] # None
    /\ intents[id].terms # None
    /\ feed[k].memo = id
    /\ feed[k].from = intents[id].account
    /\ feed[k].amount = intents[id].terms.amount
    /\ feed[k].at < intents[id].terms.deadline

SweepTrue(id) ==
    /\ \A k \in Accepted(id) :
          PaysFor(id, k) /\ Exists(id) /\ IsWithdrawal(orders[id])
    /\ \A j, k \in Accepted(id) : j = k
    /\ Exists(id) /\ orders[id].funding # None => orders[id].funding.op \in Accepted(id)
    /\ \A n \in OwnActions(id) :
          actions[n].kind = "fund" => actions[n].arg \in Accepted(id)
    /\ ~Idle /\ handler.id = id /\ handler.doing # None =>
          (handler.doing.kind = "fund" => handler.doing.arg \in Accepted(id))

LEMMA AcceptedSteps ==
  ASSUME SystemInv, [SystemNext]_system, NEW id \in Ids
  PROVE  /\ \A k \in Accepted(id) : k \in DOMAIN payments /\ k \in Nat
         /\ \A k \in Accepted(id) : k \in Accepted(id)'
         /\ \A k \in Accepted(id)' :
              \/ k \in Accepted(id)
              \/ /\ Ingest /\ k = Len(payments) + 1
                 /\ Named(feed[k]) = id /\ Matches(feed[k], id)
<1> DEFINE new == Len(payments) + 1
           p == feed[new]
           judged == [intent |-> Named(p), accepted |-> Matches(p, Named(p))]
<1>1. /\ DOMAIN payments = 1..Len(payments) /\ Len(payments) \in Nat
      /\ payments \in Seq([intent : Option(Ids), accepted : BOOLEAN])
  BY DEF SystemInv, CoordinatorInv, TablesOK
<1>2. CASE payments' = payments
  BY <1>1, <1>2 DEF Accepted
<1>3. CASE Ingest /\ payments' = Append(payments, judged)
  <2> DEFINE S == [intent : Option(Ids), accepted : BOOLEAN] \cup {judged}
  <2>1. payments \in Seq(S) /\ judged \in S
    <3>1. \A k \in 1..Len(payments) : payments[k] \in S
      <4> DEFINE T == [intent : Option(Ids), accepted : BOOLEAN]
      <4>1. payments \in Seq(T)
        BY <1>1
      <4> HIDE DEF T
      <4>2. \A k \in 1..Len(payments) : payments[k] \in T
        BY <4>1
      <4> QED
        BY <4>2 DEF T
    <3> HIDE DEF S
    <3>2. payments \in Seq(S)
      BY <1>1, <3>1
    <3> QED
      BY <3>2 DEF S
  <2> HIDE DEF S
  <2>2. /\ DOMAIN payments' = 1..new
        /\ payments'[new] = judged
        /\ \A k \in 1..Len(payments) : payments'[k] = payments[k]
    BY <1>1, <1>3, <2>1
  <2>3. judged.intent = Named(p) /\ judged.accepted = Matches(p, Named(p))
    OBVIOUS
  <2> HIDE DEF judged, new, p
  <2>4. ASSUME NEW k \in Accepted(id)'
        PROVE  \/ k \in Accepted(id)
               \/ k = new /\ judged.accepted /\ judged.intent = id
    <3>1. k \in 1..new /\ payments'[k].accepted /\ payments'[k].intent = id
      BY <2>2 DEF Accepted
    <3>2. k = new \/ k \in 1..Len(payments)
      BY <1>1, <3>1 DEF new
    <3> QED
      BY <1>1, <2>2, <3>1, <3>2 DEF Accepted
  <2>5. \A k \in Accepted(id) : k \in Accepted(id)'
    BY <1>1, <2>2 DEF Accepted, new
  <2> QED
    BY <1>1, <1>3, <2>3, <2>4, <2>5 DEF new, p, Accepted
<1> QED
  BY <1>2, <1>3, PaymentsSteps DEF PaymentsGrow

LEMMA SweepTrueKept ==
  ASSUME SystemInv, [SystemNext]_system, OrdersKnown, NEW id \in Ids,
         TermsTrue(id), SweepTrue(id)
  PROVE  SweepTrue(id)'
<1>1. /\ \A k : k \in Accepted(id) => k \in Accepted(id)'
      /\ Later(orders[id], orders'[id])
  BY AcceptedSteps, SystemStepsVault, OrdersAdvance DEF SystemInv
<1>2. ASSUME NEW k \in Accepted(id)
      PROVE  PaysFor(id, k)' /\ Exists(id)' /\ IsWithdrawal(orders'[id])
  <2>1. PaysFor(id, k) /\ Exists(id) /\ IsWithdrawal(orders[id]) /\ k \in DOMAIN payments
    BY AcceptedSteps DEF SweepTrue
  <2>2. RowStays(id) /\ feed'[k] = feed[k]
    BY <2>1, RowLasts, FeedLasts DEF PaysFor
  <2>3. Exists(id)' /\ IsWithdrawal(orders'[id])
    BY <1>1, <2>1 DEF Later, Exists, IsWithdrawal
  <2> QED
    BY <2>1, <2>2, <2>3 DEF PaysFor, RowStays
<1>3. ASSUME NEW k \in Accepted(id)', k \notin Accepted(id)
      PROVE  /\ PaysFor(id, k)' /\ Exists(id)' /\ IsWithdrawal(orders'[id])
             /\ Accepted(id) = {}
  <2>1. Ingest /\ Named(feed[k]) = id /\ Matches(feed[k], id)
    BY <1>3, AcceptedSteps
  <2>2. /\ feed[k].memo = id /\ intents[id] # None /\ intents[id].chain # None
        /\ feed[k].from = intents[id].account
        /\ feed[k].amount = intents[id].terms.amount
        /\ feed[k].at < intents[id].terms.deadline
        /\ intents[id].direction = "withdrawal"
        /\ Accepted(id) = {}
    BY <2>1, NoneAssumption DEF Named, Matches
  <2>3. /\ intents[id].terms # None
        /\ Exists(id) /\ orders[id].terms.direction = "withdrawal"
    BY <2>2, CopyIsEarlier DEF TermsTrue, HasTerms, Later, Exists
  <2>4. RowStays(id) /\ feed' = feed
    BY <2>1, <2>2, RowLasts DEF Ingest, network
  <2>5. Exists(id)' /\ IsWithdrawal(orders'[id])
    BY <1>1, <2>3 DEF Later, Exists, IsWithdrawal
  <2> QED
    BY <2>2, <2>3, <2>4, <2>5 DEF PaysFor, RowStays
<1>4. ASSUME NEW j \in Accepted(id)', NEW k \in Accepted(id)' PROVE j = k
  <2>1. CASE j \in Accepted(id) /\ k \in Accepted(id)
    BY <2>1 DEF SweepTrue
  <2>2. CASE j \notin Accepted(id) \/ k \notin Accepted(id)
    <3>1. j \notin Accepted(id) /\ k \notin Accepted(id)
      BY <1>3, <2>2
    <3> QED
      BY <3>1, AcceptedSteps
  <2> QED
    BY <2>1, <2>2
<1>5. ASSUME Exists(id)', orders'[id].funding # None
      PROVE  orders'[id].funding.op \in Accepted(id)'
  <2>1. CASE orders'[id] = orders[id]
    BY <1>1, <1>5, <2>1 DEF SweepTrue, Exists
  <2>2. \A t : orders'[id] # NewOrder(t)
    BY <1>5 DEF NewOrder
  <2>3. ASSUME NEW n \in DOMAIN actions, actions[n].intent = id, Exists(id),
               Writes(actions[n], orders[id], orders'[id])
        PROVE  orders'[id].funding.op \in Accepted(id)'
    <3>1. CASE actions[n].kind = "fund"
      BY <1>1, <2>3, <3>1 DEF SweepTrue, OwnActions, Writes
    <3>2. CASE actions[n].kind # "fund"
      BY <1>1, <1>5, <2>3, <3>2 DEF SweepTrue, Writes
    <3> QED
      BY <3>1, <3>2
  <2>4. CASE Exists(id) /\ Writes([kind |-> "settle"], orders[id], orders'[id])
    BY <1>1, <1>5, <2>4 DEF SweepTrue, Writes
  <2> QED
    BY <2>1, <2>2, <2>3, <2>4, OrdersWritten DEF OrderWritten
<1>6. ASSUME NEW n \in OwnActions(id)', actions'[n].kind = "fund"
      PROVE  actions'[n].arg \in Accepted(id)'
  <2>1. CASE /\ n \in DOMAIN actions
             /\ actions'[n].intent = actions[n].intent
             /\ actions'[n].kind = actions[n].kind
             /\ actions'[n].arg = actions[n].arg
    BY <1>1, <1>6, <2>1 DEF SweepTrue, OwnActions
  <2>2. CASE Prepare /\ actions'[n] = Entry
    BY <1>1, <1>6, <2>2 DEF SweepTrue, Entry, Prepare, OwnActions
  <2> QED
    BY <2>1, <2>2, EntriesKept DEF OwnActions
<1>7. ASSUME handler' # None, handler'.doing # None, handler'.id = id,
             handler'.doing.kind = "fund"
      PROVE  handler'.doing.arg \in Accepted(id)'
  <2>1. CASE ~Idle /\ handler'.id = handler.id /\ handler'.doing = handler.doing
    BY <1>1, <1>7, <2>1 DEF SweepTrue
  <2>2. ASSUME Work, NEW s \in {1, 2, 3, 5, 6}, Due(s), handler'.id = handler.id,
               handler'.doing = [kind |-> StageKind[s], arg |-> StageArg(s)]
        PROVE  handler'.doing.arg \in Accepted(id)'
    <3>1. s = 2 /\ handler'.doing.arg = Min(Accepted(id))
      BY <1>7, <2>2 DEF StageKind, StageArg
    <3>2. Accepted(id) # {} /\ Accepted(id) \in SUBSET Nat
      BY <1>7, <2>2, <3>1, AcceptedSteps DEF Due, ToFund
    <3>3. Min(Accepted(id)) \in Accepted(id)
      BY <3>2, MinIsLeast
    <3> QED
      BY <1>1, <3>1, <3>3
  <2> QED
    BY <1>7, <2>1, <2>2, DoingSteps
<1> QED
  BY <1>2, <1>3, <1>4, <1>5, <1>6, <1>7 DEF SweepTrue, Idle, Exists, IsWithdrawal

SweepInv == \A id \in Ids : TermsTrue(id) /\ SweepTrue(id)

LEMMA SweepSpecInv == SystemSpec => []SweepInv
<1>1. SystemInit => SweepInv
  <2> SUFFICES ASSUME SystemInit, NEW id \in Ids PROVE TermsTrue(id) /\ SweepTrue(id)
    BY DEF SweepInv
  <2>1. /\ intents[id] = None /\ ~Exists(id) /\ OwnActions(id) = {} /\ Idle
        /\ Accepted(id) = {}
    BY DEF SystemInit, Init, Exists, OwnActions, Idle, Accepted
  <2> QED
    BY <2>1 DEF TermsTrue, SweepTrue
<1>2. SystemInv /\ KnowledgeInv /\ SweepInv /\ [SystemNext]_system => SweepInv'
  <2> SUFFICES ASSUME SystemInv, KnowledgeInv, SweepInv, [SystemNext]_system,
                      NEW id \in Ids
               PROVE  (TermsTrue(id) /\ SweepTrue(id))'
    BY DEF SweepInv
  <2> QED
    BY TermsTrueKept, SweepTrueKept DEF SweepInv, KnowledgeInv
<1> QED
  BY <1>1, <1>2, SystemSpecInv, KnowledgeSpec, PTL DEF SystemSpec

\* Tokens are swept only for the one exact payment that the order's customer
\* made in time, however often payments are read and sweeps are retried.
THEOREM SweepsPaid == SystemSpec => []SweepsArePaid
<1>1. SweepInv => SweepsArePaid
  <2> SUFFICES ASSUME SweepInv, NEW id \in Ids
               PROVE  /\ Cardinality(Accepted(id)) <= 1
                      /\ Exists(id) /\ orders[id].funding # None =>
                           LET k == orders[id].funding.op IN
                           /\ k \in Accepted(id)
                           /\ feed[k].memo = id
                           /\ feed[k].from = orders[id].terms.recipient
                           /\ feed[k].amount = orders[id].terms.amount
                           /\ feed[k].at < orders[id].terms.deadline
    BY DEF SweepsArePaid
  <2>1. TermsTrue(id) /\ SweepTrue(id)
    BY DEF SweepInv
  <2>2. Cardinality(Accepted(id)) <= 1
    <3>1. CASE Accepted(id) = {}
      BY <3>1, FS_EmptySet
    <3>2. CASE Accepted(id) # {}
      <4>1. PICK k : Accepted(id) = {k}
        BY <2>1, <3>2 DEF SweepTrue
      <4>2. Cardinality({k}) = 1
        BY FS_Singleton
      <4> QED
        BY <4>1, <4>2
    <3> QED
      BY <3>1, <3>2
  <2>3. ASSUME Exists(id), orders[id].funding # None,
               NEW k, k = orders[id].funding.op
        PROVE  /\ k \in Accepted(id)
               /\ feed[k].memo = id
               /\ feed[k].from = orders[id].terms.recipient
               /\ feed[k].amount = orders[id].terms.amount
               /\ feed[k].at < orders[id].terms.deadline
    BY <2>1, <2>3 DEF TermsTrue, SweepTrue, PaysFor, HasTerms
  <2> QED
    BY <2>2, <2>3
<1> QED
  BY <1>1, SweepSpecInv, PTL

\* An accepted payment waits for nothing but tokens: until it is swept, its
\* order is there, and every guard of fund_withdrawal holds that does not
\* speak of balances.  The id of a payment is a hash (src/sep-anchor.ts:449),
\* and no hash is all zero.
ZeroIsNoPayment == Zero \notin Ops

MayFund(id, op) ==
    /\ Exists(id) /\ IsWithdrawal(orders[id])
    /\ orders[id].funding = None
    /\ ~Terminal(orders[id]) /\ ~orders[id].escrowed /\ ~Authorized(orders[id])
    /\ Unused(fundingOf, op)
PaymentSweepable ==
    \A id \in Ids : \A op \in Accepted(id) :
        /\ Exists(id)
        /\ IF orders[id].funding = None THEN MayFund(id, op)
                                        ELSE orders[id].funding.op = op

\* What MayFund leaves out is what Reserve asks for.
LEMMA FundGuards ==
  ASSUME NEW id \in Ids, NEW op \in Ops, MayFund(id, op), Reserve(Amount(id)),
         orders' = [orders EXCEPT
                      ![id].escrowed = TRUE,
                      ![id].funding = [op |-> op, recordedAt |-> now]],
         fundingOf' = [fundingOf EXCEPT ![op] = id],
         UNCHANGED <<now, grants, receiptOf, verifierOk, blocked>>
  PROVE  FundWithdrawal(id, op)
  BY DEF MayFund, FundWithdrawal

LEMMA PaymentIsSweepable ==
  ASSUME SystemInv, SweepInv, ZeroIsNoPayment, NEW id \in Ids, NEW op \in Accepted(id)
  PROVE  /\ Exists(id)
         /\ IF orders[id].funding = None THEN MayFund(id, op)
                                         ELSE orders[id].funding.op = op
<1>1. IInv /\ TypeOK /\ SweepTrue(id) /\ Exists(id) /\ IsWithdrawal(orders[id])
  BY DEF SystemInv, IInv, SweepInv, SweepTrue
<1>2. orders[id] \in OrderType /\ OrderSound(orders[id])
  BY <1>1, PresentOrder DEF IInv, OrdersSound
<1>3. CASE orders[id].funding # None
  BY <1>1, <1>3 DEF SweepTrue
<1>4. CASE orders[id].funding = None
  <2>1. ~Terminal(orders[id]) /\ ~orders[id].escrowed /\ ~Authorized(orders[id])
    BY <1>1, <1>2, <1>4 DEF OrderSound, Attributed, PromisedInTime, OrderType
  <2>2. op \in Ops
    <3>1. op \in 1..Len(payments) /\ Len(payments) \in Nat
      BY DEF Accepted, SystemInv, CoordinatorInv, TablesOK
    <3>2. Len(feed) \in Nat /\ Len(payments) <= Len(feed) /\ Len(feed) <= MaxPayments
      BY DEF SystemInv, CoordinatorInv, TablesOK, HistoryOK
    <3>3. op \in 1..MaxPayments
      BY <3>1, <3>2, NetworkAssumption
    <3> QED
      BY <3>3, NetworkAssumption
  <2>3. fundingOf[op] = None
    <3> SUFFICES ASSUME fundingOf[op] # None PROVE FALSE
      OBVIOUS
    <3>1. PICK j \in Ids : fundingOf[op] = j
      BY <1>1, <2>2 DEF TypeOK, Option
    <3>2. Exists(j) /\ orders[j].funding # None /\ orders[j].funding.op = op
      BY <1>1, <2>2, <3>1 DEF IInv, EvidenceUnique, HasFunding
    <3>3. op \in Accepted(j)
      BY <3>2 DEF SweepInv, SweepTrue
    <3>4. j = id
      BY <3>3 DEF Accepted
    <3> QED
      BY <1>4, <3>2, <3>4
  <2> QED
    BY <1>1, <1>4, <2>1, <2>2, <2>3 DEF MayFund, Unused, ZeroIsNoPayment
<1> QED
  BY <1>1, <1>3, <1>4

\* A payment once accepted can be swept whatever expired since, and however
\* often its handler was lost: only the custody account's tokens, its trustline
\* and a shortfall of the vault can hold it up.
THEOREM PaymentsStaySweepable ==
  ZeroIsNoPayment => (SystemSpec => []PaymentSweepable)
<1> SUFFICES ASSUME ZeroIsNoPayment PROVE SystemSpec => []PaymentSweepable
  OBVIOUS
<1>1. SystemInv /\ SweepInv => PaymentSweepable
  BY PaymentIsSweepable DEF PaymentSweepable
<1> QED
  BY <1>1, SystemSpecInv, SweepSpecInv, PTL

-----------------------------------------------------------------------------
\* Giving tokens back, and the bank.

\* A handler at a stage of `advance`: how it got there.
Reconciles == handler.at \notin {"decide", "ask"}

StageStep ==
    /\ ~Idle /\ handler'.id = handler.id
    /\ \/ handler' = handler /\ UNCHANGED <<intents, actions>>
       \/ /\ handler'.stage = handler.stage /\ handler'.op = handler.op
          /\ Reconciles /\ Reconciles'
          /\ handler'.doing # None => handler'.doing = handler.doing
          /\ UNCHANGED intents
       \/ /\ handler'.stage = handler.stage /\ handler'.op = handler.op
          /\ handler'.doing = None
          /\ handler.at = "reconcile" /\ handler'.at = "decide"
          /\ \E k \in DOMAIN past[handler.id] : Sync(k)
       \/ /\ Begun /\ handler.stage = 0 /\ handler'.stage = 1
          /\ handler.at = "decide" /\ handler'.at = "decide"
          /\ handler'.op = handler.op /\ handler.op # "refund"
          /\ handler'.doing = handler.doing
          /\ ~Closed(handler.id)
       \/ /\ Work
          /\ \E s \in 1..6 :
               /\ Due(s) /\ handler'.stage = s + 1
               /\ handler'.op = handler.op /\ handler.op # "refund"
               /\ IF s = 4 THEN handler'.at = "decide" /\ handler'.doing = handler.doing
                  ELSE handler'.at = "reconcile" /\ handler'.doing.kind = StageKind[s]
       \/ /\ Begun \/ Work
          /\ handler'.at = "ask" /\ handler.at = "decide" /\ handler'.op # "refund"
          /\ handler'.doing = handler.doing
       \/ /\ GiveBack /\ handler.op = "refund" /\ handler'.op = "closing"
          /\ handler'.stage = handler.stage
          /\ handler'.at = "reconcile" /\ Known # None

\* A request starts before the first stage, with at most a proof to submit.
Starts ==
    /\ handler'.stage = 0 /\ handler'.at = "reconcile"
    /\ handler'.doing # None => handler'.doing.kind = "eligibility"

LEMMA StageSteps ==
  ASSUME SystemInv, [SystemNext]_system, handler' # None
  PROVE  StageStep \/ Starts
<1>1. CoordinatorInv
  BY DEF SystemInv
<1>2. ~Idle => DOMAIN handler = Fields /\ handler.stage \in 0..7
  BY <1>1, RowTyped DEF HandlerOK
<1>3. ASSUME NEW id, NEW op, handler' = Advance(id, op) PROVE Starts
  BY <1>3 DEF Advance, Starts
<1>4. CASE Query \/ Send \/ Sent \/ Prepare
  <2>1. ~Idle /\ UNCHANGED intents
    BY <1>4 DEF Query, Send, Sent, Prepare, Reconciling, database
  <2>2. /\ handler'.id = handler.id /\ handler'.stage = handler.stage
        /\ handler'.op = handler.op /\ Reconciles /\ Reconciles'
        /\ handler'.doing # None => handler'.doing = handler.doing
    <3>1. CASE Query
      BY <1>2, <2>1, <3>1 DEF Query, Reconciling, Fields, Reconciles
    <3>2. CASE Send \/ Sent
      BY <1>2, <2>1, <3>2 DEF Send, Sent, Fields, Reconciles
    <3>3. CASE Prepare
      BY <1>2, <2>1, <3>3 DEF Prepare, Fields, Reconciles
    <3> QED
      BY <1>4, <3>1, <3>2, <3>3
  <2> QED
    BY <2>1, <2>2 DEF StageStep
<1>5. CASE ProofDone \/ Ask
  BY <1>3, <1>5 DEF ProofDone, Ask
<1>6. CASE Reconciled /\ SyncSome
  <2>1. ~Idle /\ handler.id \in Ids
    BY <1>1, <1>6, RowTyped DEF Reconciled
  <2>2. PICK k \in DOMAIN past[handler.id] : Sync(k)
    BY <1>6, <2>1, HistoryTyped DEF SyncSome
  <2>3. handler' = [handler EXCEPT !.at = "decide"] /\ handler.doing = None
    BY <1>6, <2>2 DEF Sync, Reconciled
  <2> QED
    BY <1>2, <1>6, <2>1, <2>2, <2>3 DEF Fields, Reconciled, StageStep
<1>7. CASE Begun
  <2>1. ~Idle /\ handler.at = "decide" /\ handler.op # "refund" /\ handler.stage = 0
    BY <1>7 DEF Begun, Deciding
  <2>2. CASE handler' = Finished
    BY <1>2, <1>7, <2>1, <2>2 DEF Finished, Fields, StageStep
  <2>3. CASE ~Closed(handler.id) /\ handler' # Finished
    <3>1. handler' = [handler EXCEPT !.stage = 1, !.granted = Granted(handler.id)]
      BY <1>7, <2>3 DEF Begun
    <3> QED
      BY <1>2, <1>7, <2>1, <2>3, <3>1 DEF Fields, StageStep
  <2> QED
    BY <1>7, <2>2, <2>3 DEF Begun
<1>8. CASE Work
  <2>1. /\ ~Idle /\ handler.at = "decide" /\ handler.op # "refund"
        /\ handler.stage \in 1..7
    BY <1>2, <1>8 DEF Work, Deciding
  <2>2. CASE handler' = Finished
    BY <1>2, <1>8, <2>1, <2>2 DEF Finished, Fields, StageStep
  <2>3. CASE Next6(handler.stage) # {}
    <3>1. PICK s : s = Min(Next6(handler.stage))
      OBVIOUS
    <3>2. s \in 1..6 /\ Due(s)
      <4>1. Next6(handler.stage) \in SUBSET Nat
        BY <2>1 DEF Next6
      <4>2. s \in Next6(handler.stage)
        BY <2>3, <3>1, <4>1, MinIsLeast
      <4> QED
        BY <2>1, <4>2 DEF Next6
    <3>3. PICK h : h = [handler EXCEPT !.stage = s + 1]
      OBVIOUS
    <3>4. /\ DOMAIN h = Fields /\ h.id = handler.id /\ h.doing = handler.doing
          /\ h.stage = s + 1 /\ h.op = handler.op /\ h.at = handler.at
      BY <1>2, <2>1, <3>3 DEF Fields
    <3>5. CASE s = 4
      <4>1. handler' = h
        BY <1>8, <2>3, <3>1, <3>3, <3>5 DEF Work
      <4> QED
        BY <1>8, <2>1, <3>2, <3>4, <3>5, <4>1 DEF StageStep
    <3>6. CASE s # 4
      <4>1. handler' = Perform(h, StageKind[s], StageArg(s))
        BY <1>8, <2>3, <3>1, <3>3, <3>6 DEF Work
      <4>2. /\ handler'.id = h.id /\ handler'.stage = h.stage
            /\ handler'.op = h.op /\ handler'.at = "reconcile"
            /\ handler'.doing.kind = StageKind[s]
        BY <3>4, <4>1 DEF Perform, Fields
      <4> QED
        BY <1>8, <2>1, <3>2, <3>4, <3>6, <4>2 DEF StageStep
    <3> QED
      BY <3>5, <3>6
  <2> QED
    BY <1>8, <2>2, <2>3 DEF Work
<1>9. CASE GiveBack
  <2>1. ~Idle /\ handler.op = "refund" /\ handler.at = "decide"
    BY <1>9 DEF GiveBack, Deciding
  <2>2. PICK h : h = [handler EXCEPT !.op = "closing"]
    OBVIOUS
  <2>3. (\E kind : handler' = Perform(h, kind, None)) /\ Known # None
    BY <1>9, <2>2 DEF GiveBack, RefundAllowed
  <2>4. /\ DOMAIN h = Fields /\ h.id = handler.id /\ h.stage = handler.stage
        /\ h.op = "closing"
    BY <1>2, <2>1, <2>2 DEF Fields
  <2>5. /\ handler'.id = h.id /\ handler'.stage = h.stage
        /\ handler'.op = h.op /\ handler'.at = "reconcile"
    BY <2>3, <2>4 DEF Perform, Fields
  <2> QED
    BY <1>9, <2>1, <2>3, <2>4, <2>5 DEF StageStep
<1>10. ASSUME NEW id \in Ids, Request(id) PROVE Starts
  <2>1. ASSUME RequestRefund(id) PROVE Starts
    BY <2>1 DEF RequestRefund, Advance, Starts
  <2>2. ASSUME NEW proofTime, SubmitProof(id, proofTime) PROVE Starts
    BY <2>2 DEF SubmitProof, Perform, Advance, Starts
  <2> QED
    BY <1>3, <1>10, <2>1, <2>2
    DEF Request, Begin, Accept, Get, SimulateBank, Idle
<1>11. CASE Handling
  BY <1>4, <1>5, <1>6, <1>7, <1>8, <1>9, <1>11 DEF Handling
<1>12. CASE ~Idle /\ handler' = handler /\ UNCHANGED <<intents, actions>>
  BY <1>12 DEF StageStep
<1> QED
  BY <1>10, <1>11, <1>12
  DEF SystemNext, Ingest, Drop, Include, PayIn, OutsideSettle, Environment,
      system, database, Idle

\* A copy never disappears and never changes its terms.
LEMMA ChainStays ==
  ASSUME SystemInv, [SystemNext]_system, OrdersKnown, NEW id \in Ids,
         intents[id] # None, intents[id].chain # None,
         VerdictsFinal, VerdictsShown
  PROVE  /\ intents'[id] # None /\ intents'[id].chain # None
         /\ intents'[id].chain.terms = intents[id].chain.terms
<1>1. /\ intents[id].seen \in 1..Len(past[id])
      /\ intents[id].chain = past[id][intents[id].seen]
      /\ Len(past[id]) \in Nat
  BY RowHistory, HistoryTyped DEF OrdersKnown, CopyTrue
<1>2. /\ CopyTrue(id)' /\ intents'[id] # None
      /\ intents'[id].seen >= intents[id].seen
  BY CopyForward
<1>3. /\ intents'[id].seen \in 1..Len(past'[id])
      /\ intents'[id].chain = past'[id][intents'[id].seen]
  <2>1. SystemInv' /\ OrdersKnown'
    <3>1. \A other \in Ids : (Remembered(other) /\ CopyTrue(other))'
      BY RememberedKept, CopyForward DEF OrdersKnown
    <3> QED
      BY <3>1, SystemNextInv DEF OrdersKnown
  <2>2. intents'[id].seen # 0
    <3>1. intents'[id] \in IntentType
      BY <1>2, <2>1 DEF SystemInv, CoordinatorInv, TablesOK, Option
    <3> QED
      BY <1>1, <1>2, <3>1 DEF IntentType
  <2> QED
    BY <1>2, <2>2 DEF CopyTrue
<1>4. past'[id][intents[id].seen] = past[id][intents[id].seen]
  BY <1>1, PastLasts
<1>5. Later(past'[id][intents[id].seen], past'[id][intents'[id].seen])
  <2>1. Remembered(id)'
    BY RememberedKept DEF OrdersKnown
  <2>2. PICK j, k : j = intents[id].seen /\ k = intents'[id].seen
    OBVIOUS
  <2>3. j \in 1..Len(past'[id]) /\ k \in 1..Len(past'[id]) /\ j <= k
    BY <1>1, <1>2, <1>3, <2>2, PastLasts
  <2>4. Later(past'[id][j], past'[id][k])
    BY <2>1, <2>3 DEF Remembered, Later, Authorized
  <2> QED
    BY <2>2, <2>4
<1> QED
  BY <1>1, <1>2, <1>3, <1>4, <1>5 DEF Later

Returns(kind) == kind \in {"refund", "cancel"}
Returning(id) == {n \in OwnActions(id) : Returns(actions[n].kind)}
CopyOf(id)    == intents[id] # None /\ intents[id].chain # None

\* Tokens are given back by the order's copy; a handler that is past the first
\* stage and may yet ask the bank knows of no transaction that did so, or
\* works on a withdrawal.
NothingBack(id) == CopyOf(id) /\ IsWithdrawal(intents[id].chain)

ReturnTrue ==
    /\ \A id \in Ids : Returning(id) # {} => CopyOf(id)
    /\ ~Idle =>
         /\ handler.at \in {"decide", "ask"} => handler.doing = None
         /\ handler.op = "refund" => handler.stage = 0
         /\ handler.doing # None =>
              (Returns(handler.doing.kind) => CopyOf(handler.id) /\ handler.stage = 0)
         /\ handler.stage \in 1..4 =>
              /\ Reconciles /\ Returning(handler.id) # {} => NothingBack(handler.id)
              /\ handler.at = "decide" =>
                   \A n \in Returning(handler.id) :
                      actions[n].status = "success" => NothingBack(handler.id)

\* A transaction known to have given the tokens back shows in a fresh copy.
LEMMA FreshCopyCloses ==
  ASSUME SystemInv, KnowledgeInv, CopyFresh, ~Idle, handler.at = "decide",
         CopyOf(handler.id),
         NEW n \in Returning(handler.id), actions[n].status = "success"
  PROVE  Closed(handler.id)
<1>1. handler.id \in Ids /\ Row \in IntentType
  BY RowTyped DEF SystemInv
<1>2. PICK id \in Ids : id = handler.id
  BY <1>1
<1>3. n \in DOMAIN actions /\ actions[n].intent = id /\ Returns(actions[n].kind)
  BY <1>2 DEF Returning, OwnActions
<1>4. PICK j, k : j = actions[n].ledger /\ k = intents[id].seen
  OBVIOUS
<1>5. j \in 1..Len(past[id]) /\ Shows(past[id][j], actions[n])
  BY <1>3, <1>4 DEF KnowledgeInv, VerdictsFinal, VerdictsShown, VerdictShown, Included
<1>6. k \in 1..Len(past[id]) /\ intents[id].chain = past[id][k]
  BY <1>2, <1>4, RowHistory DEF CopyOf, KnowledgeInv, OrdersKnown, CopyTrue
<1>7. j <= k
  BY <1>2, <1>3, <1>4 DEF CopyFresh, CopyOf, Row, OwnActions
<1>8. Later(past[id][j], past[id][k])
  BY <1>5, <1>6, <1>7 DEF KnowledgeInv, OrdersKnown, Remembered
<1>9. Shows(past[id][k], actions[n])
  <2>1. PICK a, b, c : a = past[id][j] /\ b = past[id][k] /\ c = actions[n]
    OBVIOUS
  <2> QED
    BY <1>5, <1>8, <2>1, LaterShows
<1> QED
  BY <1>2, <1>3, <1>6, <1>9 DEF Shows, Returns, Closed, Terminal, CopyOf

\* Where the transactions that give back come from.
LEMMA ReturningSteps ==
  ASSUME SystemInv, [SystemNext]_system, NEW id \in Ids, NEW n \in Returning(id)'
  PROVE  \/ n \in Returning(id)
         \/ /\ Prepare /\ ~Idle /\ handler.id = id /\ handler.doing # None
            /\ Returns(handler.doing.kind)
            /\ UNCHANGED intents
<1>1. n \in DOMAIN actions' /\ actions'[n].intent = id /\ Returns(actions'[n].kind)
  BY DEF Returning, OwnActions
<1>2. CASE /\ n \in DOMAIN actions
           /\ actions'[n].intent = actions[n].intent
           /\ actions'[n].kind = actions[n].kind
  BY <1>1, <1>2 DEF Returning, OwnActions
<1>3. CASE Prepare /\ actions'[n] = Entry
  BY <1>1, <1>3 DEF Entry, Prepare
<1> QED
  BY <1>1, <1>2, <1>3, EntriesKept

LEMMA ReturnTrueKept ==
  ASSUME SystemInv, KnowledgeInv, CopyFresh, ReturnTrue, [SystemNext]_system
  PROVE  ReturnTrue'
<1>1. VerdictsFinal /\ VerdictsShown /\ OrdersKnown /\ CoordinatorInv
  BY DEF KnowledgeInv, SystemInv
<1>2. ASSUME NEW id \in Ids, CopyOf(id)
      PROVE  CopyOf(id)' /\ (NothingBack(id) => NothingBack(id)')
  BY <1>1, <1>2, ChainStays DEF CopyOf, NothingBack, IsWithdrawal
<1>3. ASSUME NEW id \in Ids, Returning(id)' # {} PROVE CopyOf(id)'
  <2>1. PICK n \in Returning(id)' : TRUE
    BY <1>3
  <2> QED
    BY <1>2, <2>1, ReturningSteps DEF ReturnTrue
<1> SUFFICES ASSUME handler' # None
             PROVE  /\ handler'.at \in {"decide", "ask"} => handler'.doing = None
                    /\ handler'.op = "refund" => handler'.stage = 0
                    /\ handler'.doing # None =>
                         (Returns(handler'.doing.kind) =>
                             CopyOf(handler.id)' /\ handler'.stage = 0)
                    /\ handler'.stage \in 1..4 =>
                         /\ Reconciles' /\ Returning(handler.id)' # {} =>
                              NothingBack(handler.id)'
                         /\ handler'.at = "decide" =>
                              \A n \in Returning(handler.id)' :
                                 actions'[n].status = "success" => NothingBack(handler.id)'
  BY <1>3 DEF ReturnTrue, Idle
<1>4. handler'.at \in {"decide", "ask"} => handler'.doing = None
  <2> SUFFICES ASSUME handler'.at \in {"decide", "ask"} PROVE handler'.doing = None
    OBVIOUS
  <2>1. StageStep /\ ~Idle
    BY StageSteps DEF Starts, StageStep
  <2>2. handler.at \in {"decide", "ask"} => handler.doing = None
    BY <2>1 DEF ReturnTrue
  <2>3. CASE handler' = handler
    BY <2>2, <2>3
  <2>4. Work \/ Begun => handler.at = "decide"
    BY DEF Work, Begun, Deciding
  <2>5. ASSUME NEW s \in 1..6,
               IF s = 4 THEN handler'.at = "decide" /\ handler'.doing = handler.doing
               ELSE handler'.at = "reconcile" /\ handler'.doing.kind = StageKind[s]
        PROVE  handler'.doing = handler.doing
    BY <2>5
  <2> QED
    BY <2>1, <2>2, <2>3, <2>4, <2>5 DEF StageStep, Reconciles
<1>5. handler'.op = "refund" => handler'.stage = 0
  BY StageSteps DEF StageStep, Starts, ReturnTrue
<1>6. ASSUME handler'.doing # None, Returns(handler'.doing.kind)
      PROVE  CopyOf(handler.id)' /\ handler'.stage = 0
  <2>1. StageStep
    BY <1>6, StageSteps DEF Starts, Returns
  <2>2. handler.id \in Ids /\ handler'.id = handler.id /\ Row \in IntentType
    BY <1>1, <2>1, RowTyped DEF StageStep
  <2>3. CASE handler'.doing = handler.doing /\ handler'.stage = handler.stage
    <3>1. CopyOf(handler.id) /\ handler.stage = 0
      BY <1>6, <2>1, <2>3 DEF ReturnTrue, StageStep
    <3> QED
      BY <1>2, <2>2, <2>3, <3>1 DEF CopyOf
  <2>4. CASE GiveBack /\ handler.op = "refund" /\ handler'.stage = handler.stage
             /\ Known # None
    <3>1. CopyOf(handler.id) /\ handler.stage = 0
      BY <2>1, <2>2, <2>4, IntentAssumption DEF ReturnTrue, StageStep, CopyOf, Known, Row
    <3> QED
      BY <1>2, <2>2, <2>4, <3>1 DEF CopyOf
  <2>5. ~(Begun /\ handler.at = "decide" /\ handler'.doing = handler.doing)
    BY <1>6, <2>1 DEF ReturnTrue, StageStep
  <2>6. ~(handler.at = "decide" /\ handler'.doing = handler.doing)
    BY <1>6, <2>1 DEF ReturnTrue, StageStep
  <2>7. ASSUME NEW s \in 1..6, s # 4, handler'.doing.kind = StageKind[s]
        PROVE  FALSE
    BY <1>6, <2>7 DEF Returns, StageKind
  <2>8. Work => handler.at = "decide"
    BY DEF Work, Deciding
  <2> QED
    BY <1>6, <2>1, <2>3, <2>4, <2>6, <2>7, <2>8 DEF StageStep
<1>7. ASSUME handler'.stage \in 1..4
      PROVE  /\ StageStep /\ ~Idle /\ handler'.id = handler.id
             /\ handler.id \in Ids /\ Row \in IntentType
  <2>1. StageStep
    BY <1>7, StageSteps DEF Starts
  <2> QED
    BY <1>1, <2>1, RowTyped DEF StageStep
<1>8. ASSUME handler'.stage \in 1..4, Reconciles', Returning(handler.id)' # {}
      PROVE  NothingBack(handler.id)'
  <2>1. PICK id \in Ids : id = handler.id /\ handler'.id = id
    BY <1>7, <1>8
  <2>2. PICK n \in Returning(id)' : TRUE
    BY <1>8, <2>1
  <2>3. CASE handler' = handler /\ UNCHANGED <<intents, actions>>
    BY <1>7, <1>8, <2>1, <2>3
    DEF ReturnTrue, Reconciles, Returning, OwnActions, NothingBack, CopyOf
  <2>4. CASE Reconciles /\ handler'.stage = handler.stage /\ UNCHANGED intents
    <3>1. n \in Returning(id)
      <4>1. SUFFICES ASSUME handler.doing # None, Returns(handler.doing.kind)
                     PROVE  FALSE
        BY <2>1, <2>2, ReturningSteps
      <4> QED
        BY <1>7, <1>8, <2>4, <4>1 DEF ReturnTrue
    <3>2. NothingBack(id)
      BY <1>7, <1>8, <2>1, <2>4, <3>1 DEF ReturnTrue
    <3> QED
      BY <2>1, <2>4, <3>2 DEF NothingBack, CopyOf
  <2>5. ASSUME Work, NEW s \in 1..6, Due(s), handler'.stage = s + 1
        PROVE  NothingBack(handler.id)'
    <3>1. UNCHANGED <<intents, actions>>
      BY <2>5 DEF Work
    <3>2. Returning(id) # {}
      BY <2>2, <3>1 DEF Returning, OwnActions
    <3>3. CopyOf(id)
      BY <3>2 DEF ReturnTrue
    <3>4. s \in 1..3
      BY <1>8, <2>5
    <3>5. Known # None
      BY <2>1, <3>3 DEF CopyOf, Known, Row
    <3>6. IsWithdrawal(Known)
      BY <2>5, <3>4, <3>5 DEF Due, ToCreate, ToFund, ToAuthorize
    <3> QED
      BY <2>1, <3>1, <3>3, <3>6 DEF NothingBack, CopyOf, Known, Row
  <2>6. ~GiveBack
    BY <1>5, <1>7, <1>8 DEF ReturnTrue, GiveBack, StageStep, Deciding, Begun, Work
  <2> QED
    BY <1>7, <1>8, <2>3, <2>4, <2>5, <2>6 DEF StageStep, Reconciles
<1>9. ASSUME handler'.stage \in 1..4, handler'.at = "decide",
             NEW n \in Returning(handler.id)', actions'[n].status = "success"
      PROVE  NothingBack(handler.id)'
  <2>1. PICK id \in Ids : id = handler.id /\ handler'.id = id
    BY <1>7, <1>9
  <2>2. UNCHANGED actions
    BY <1>9, DecideSteps
  <2>3. n \in Returning(id) /\ actions[n].status = "success"
    BY <1>9, <2>1, <2>2 DEF Returning, OwnActions
  <2>4. CASE handler' = handler
    BY <1>2, <1>7, <1>9, <2>1, <2>3, <2>4 DEF ReturnTrue, NothingBack
  <2>5. CASE handler'.stage = handler.stage /\ handler.at = "reconcile"
    <3>1. NothingBack(id)
      BY <1>7, <1>9, <2>1, <2>3, <2>5 DEF ReturnTrue, Reconciles
    <3> QED
      BY <1>2, <2>1, <3>1 DEF NothingBack
  <2>6. ~(Begun /\ handler.at = "decide" /\ ~Closed(handler.id))
    <3>1. CopyOf(id)
      BY <2>3 DEF ReturnTrue
    <3>2. CopyOf(handler.id) /\ n \in Returning(handler.id)
      BY <2>1, <2>3, <3>1
    <3>3. handler.at = "decide" => Closed(handler.id)
      BY <1>7, <1>9, <2>3, <3>2, FreshCopyCloses
    <3> QED
      BY <3>3
  <2>7. ASSUME NEW s \in 1..6, handler'.stage = s + 1,
               IF s = 4 THEN handler'.at = "decide" ELSE handler'.at = "reconcile"
        PROVE  FALSE
    BY <1>9, <2>7
  <2> QED
    BY <1>7, <1>9, <2>4, <2>5, <2>6, <2>7 DEF StageStep, Reconciles
<1>10. handler'.id = handler.id \/ handler'.stage = 0
  BY StageSteps DEF StageStep, Starts
<1> QED
  BY <1>4, <1>5, <1>6, <1>8, <1>9 DEF Idle

\* The bank's transfer is the fourth stage of `advance`.
LEMMA BankStage ==
  ASSUME SystemInv, [SystemNext]_system, NEW id \in Ids,
         bankEvents'[id] # bankEvents[id]
  PROVE  ~Idle /\ handler.at = "decide" /\ handler.stage \in 1..4
<1>1. Work /\ ~UNCHANGED bankEvents
  BY BankSteps
<1>2. ~Idle /\ handler.at = "decide" /\ handler.stage \in 1..7
  BY <1>1, RowTyped DEF Work, Deciding, HandlerOK, SystemInv
<1>3. Min(Next6(handler.stage)) = 4 /\ Next6(handler.stage) # {}
  BY <1>1 DEF Work
<1>4. Next6(handler.stage) \in SUBSET Nat
  BY <1>2 DEF Next6
<1>5. 4 \in Next6(handler.stage)
  BY <1>3, <1>4, MinIsLeast
<1> QED
  BY <1>2, <1>5 DEF Next6

\* An order that the bank has been asked for was never given back.
LEMMA BankedKeeps ==
  ASSUME SystemInv, KnowledgeInv, NEW id \in Ids, CopyOf(id),
         Authorized(intents[id].chain), NEW n \in Returning(id),
         actions[n].status = "success"
  PROVE  FALSE
<1>1. intents[id].chain \in OrderType /\ Later(intents[id].chain, orders[id])
  BY CopyIsEarlier DEF KnowledgeInv, CopyOf
<1>2. Exists(id) /\ Authorized(orders[id])
  BY <1>1 DEF CopyOf, Exists, Later
<1>3. orders[id].refundedAt = None /\ orders[id].cancelledAt = None
  BY <1>2 DEF SystemInv, IInv, OrdersSound, OrderSound, Backed
<1>4. n \in DOMAIN actions /\ actions[n].intent = id /\ Returns(actions[n].kind)
  BY DEF Returning, OwnActions
<1>5. PICK j : j = actions[n].ledger
  OBVIOUS
<1>6. j \in 1..Len(past[id]) /\ Shows(past[id][j], actions[n])
  BY <1>4, <1>5 DEF KnowledgeInv, VerdictsFinal, VerdictsShown, VerdictShown, Included
<1>7. Later(past[id][j], orders[id])
  BY <1>6, HistoryTyped DEF KnowledgeInv, OrdersKnown, Remembered
<1>8. Shows(orders[id], actions[n])
  <2>1. PICK a, b, c : a = past[id][j] /\ b = orders[id] /\ c = actions[n]
    OBVIOUS
  <2> QED
    BY <1>6, <1>7, <2>1, LaterShows
<1> QED
  BY <1>3, <1>4, <1>8 DEF Shows, Returns

\* The bank is asked for nothing once the journal knows the order was given
\* back: what a handler decides at the bank's stage, it decides of a copy read
\* after every transaction of the order was resolved.
THEOREM NothingPaidAfterGivingBack == SystemSpec => NoTransferAfterGivingBack
<1>1. SystemInit => CopyFresh /\ ReturnTrue
  BY DEF SystemInit, Init, CopyFresh, ReturnTrue, Idle, Returning, OwnActions
<1>2. SystemInv /\ KnowledgeInv /\ CopyFresh /\ ReturnTrue /\ [SystemNext]_system
        => CopyFresh' /\ ReturnTrue'
  BY CopyFreshKept, ReturnTrueKept
<1>3. SystemInv /\ KnowledgeInv /\ ReturnTrue /\ [SystemNext]_system =>
        [\A id \in Ids : bankEvents'[id] # bankEvents[id] =>
           \A n \in OwnActions(id) :
              actions[n].kind \in {"refund", "cancel"} =>
                  actions[n].status # "success"]_system
  <2> SUFFICES ASSUME SystemInv, KnowledgeInv, ReturnTrue, [SystemNext]_system,
                      NEW id \in Ids, bankEvents'[id] # bankEvents[id],
                      NEW n \in Returning(id), actions[n].status = "success"
               PROVE  FALSE
    BY DEF Returning, Returns
  <2>1. ~Idle /\ handler.at = "decide" /\ handler.stage \in 1..4
    BY BankStage
  <2>2. /\ handler.id = id
        /\ IsWithdrawal(intents[id].chain) => Authorized(intents[id].chain)
    BY BankSteps
  <2>3. NothingBack(id)
    BY <2>1, <2>2 DEF ReturnTrue
  <2> QED
    BY <2>2, <2>3, BankedKeeps DEF NothingBack
<1> QED
  BY <1>1, <1>2, <1>3, SystemSpecInv, KnowledgeSpec, PTL
  DEF SystemSpec, NoTransferAfterGivingBack

-----------------------------------------------------------------------------
\* Orders that wait for an operator.  A wrong payment freezes an order; the
\* payment that is swept comes under the same lock, and each looks whether the
\* other was first.

Frozen(id) == intents[id] # None /\ intents[id].recovery

\* No transaction to sweep a payment of a frozen order is made, planned or done.
FrozenTrue(id) ==
    Frozen(id) =>
      /\ Exists(id) => orders[id].funding = None
      /\ \A n \in OwnActions(id) : actions[n].kind # "fund"
      /\ ~Idle /\ handler.id = id =>
            /\ handler.stage = 0
            /\ handler.doing # None => handler.doing.kind # "fund"

LEMMA FreezeSteps ==
  ASSUME SystemInv, [SystemNext]_system, NEW id \in Ids, Frozen(id)'
  PROVE  \/ Frozen(id)
         \/ Ingest /\ Accepted(id) = {}
<1> SUFFICES ASSUME ~Frozen(id) PROVE Ingest /\ ~Canonical(id)
  BY DEF Canonical
<1>1. intents[id] # None => intents[id] \in IntentType
  BY IntentTyped DEF SystemInv
<1>2. intents'[id] # intents[id]
  BY DEF Frozen
<1>3. ASSUME NEW a \in Customers, NEW d \in {"deposit", "withdrawal"},
             intents'[id] = NewRow(a, d)
      PROVE  FALSE
  BY <1>3 DEF Frozen, NewRow
<1>4. ASSUME intents[id] # None,
             \/ \E t \in Terms : intents'[id] = [intents[id] EXCEPT !.terms = t]
             \/ \E b \in BOOLEAN : intents'[id] = [intents[id] EXCEPT !.requested = b]
             \/ \E k \in DOMAIN past[id] :
                  intents'[id] = [intents[id] EXCEPT !.chain = past[id][k], !.seen = k]
      PROVE  FALSE
  BY <1>1, <1>4 DEF Frozen, IntentType
<1>5. ~Idle /\ handler.id = id => intents[id] # None
  BY RowTyped, IntentAssumption DEF Row, SystemInv
<1>6. RowStep(id)
  BY RowSteps
<1> QED
  BY <1>2, <1>3, <1>4, <1>5, <1>6 DEF RowStep, Copies, Ask, GiveBack, Deciding

LEMMA FrozenTrueKept ==
  ASSUME SystemInv, [SystemNext]_system, NEW id \in Ids, SweepTrue(id),
         FrozenTrue(id)
  PROVE  FrozenTrue(id)'
<1> SUFFICES ASSUME Frozen(id)' PROVE FrozenTrue(id)'
  BY DEF FrozenTrue
<1>1. CASE Ingest /\ Accepted(id) = {}
  <2>1. UNCHANGED <<orders, actions, handler>> /\ Idle
    BY <1>1 DEF Ingest, contract, vars
  <2>2. /\ Exists(id) => orders[id].funding = None
        /\ \A n \in OwnActions(id) : actions[n].kind # "fund"
    BY <1>1 DEF SweepTrue
  <2> QED
    BY <2>1, <2>2 DEF FrozenTrue, Exists, OwnActions, Idle
<1>2. CASE Frozen(id)
  <2>1. /\ Exists(id) => orders[id].funding = None
        /\ \A n \in DOMAIN actions : actions[n].intent = id => actions[n].kind # "fund"
        /\ ~Idle /\ handler.id = id =>
              /\ handler.stage = 0
              /\ handler.doing # None => handler.doing.kind # "fund"
    BY <1>2 DEF FrozenTrue, OwnActions
  <2>2. ASSUME Exists(id)' PROVE orders'[id].funding = None
    <3>1. CASE orders'[id] = orders[id]
      BY <2>1, <2>2, <3>1 DEF Exists
    <3>2. ASSUME NEW t, orders'[id] = NewOrder(t) PROVE orders'[id].funding = None
      BY <3>2 DEF NewOrder
    <3>3. ASSUME NEW n \in DOMAIN actions, actions[n].intent = id, Exists(id),
                 Writes(actions[n], orders[id], orders'[id])
          PROVE  orders'[id].funding = None
      BY <2>1, <3>3 DEF Writes
    <3>4. CASE Exists(id) /\ Writes([kind |-> "settle"], orders[id], orders'[id])
      BY <2>1, <3>4 DEF Writes
    <3> QED
      BY <3>1, <3>2, <3>3, <3>4, OrdersWritten DEF OrderWritten
  <2>3. ASSUME NEW n \in OwnActions(id)' PROVE actions'[n].kind # "fund"
    <3>1. CASE /\ n \in DOMAIN actions
               /\ actions'[n].intent = actions[n].intent
               /\ actions'[n].kind = actions[n].kind
      BY <2>1, <2>3, <3>1 DEF OwnActions
    <3>2. CASE Prepare /\ actions'[n] = Entry
      BY <2>1, <2>3, <3>2 DEF OwnActions, Entry, Prepare, Idle
    <3> QED
      BY <2>3, <3>1, <3>2, EntriesKept DEF OwnActions
  <2>4. ASSUME handler' # None, handler'.id = id PROVE handler'.stage = 0
    <3>1. CASE Starts
      BY <3>1 DEF Starts
    <3>2. CASE StageStep
      <4>1. /\ ~Idle /\ handler.id = id /\ handler.stage = 0
            /\ Row.recovery /\ DOMAIN handler = Fields
        BY <1>2, <2>1, <2>4, <3>2, RowTyped
        DEF StageStep, Frozen, Row, SystemInv, HandlerOK
      <4>2. ~Work
        BY <4>1 DEF Work
      <4>3. Begun => handler' = Finished
        BY <4>1 DEF Begun
      <4>4. handler' = Finished => handler'.stage = handler.stage
        BY <2>4, <4>1 DEF Finished, Fields
      <4> QED
        BY <3>2, <4>1, <4>2, <4>3, <4>4 DEF StageStep
    <3> QED
      BY <2>4, <3>1, <3>2, StageSteps
  <2>5. ASSUME handler' # None, handler'.id = id, handler'.doing # None
        PROVE  handler'.doing.kind # "fund"
    <3>1. CASE ~Idle /\ handler'.id = handler.id /\ handler'.doing = handler.doing
      BY <2>1, <2>5, <3>1
    <3>2. CASE Work /\ handler'.id = handler.id
      BY <2>1, <2>5, <3>2 DEF Work, Deciding
    <3> QED
      BY <2>5, <3>1, <3>2, DoingSteps
  <2> QED
    BY <2>2, <2>3, <2>4, <2>5 DEF FrozenTrue, Idle, Exists
<1> QED
  BY <1>1, <1>2, FreezeSteps

\* No withdrawal has both its tokens in custody and a freeze: what was swept
\* goes on to its payout or is given back, and needs no operator.
SweptOrFrozen ==
    \A id \in Ids : Exists(id) /\ orders[id].funding # None =>
        intents[id] # None /\ ~intents[id].recovery

THEOREM SweptNeverFrozen == SystemSpec => []SweptOrFrozen
<1>1. SystemInit => \A id \in Ids : FrozenTrue(id)
  BY DEF SystemInit, FrozenTrue, Frozen
<1>2. SystemInv /\ SweepInv /\ (\A id \in Ids : FrozenTrue(id)) /\ [SystemNext]_system
        => (\A id \in Ids : FrozenTrue(id))'
  BY FrozenTrueKept DEF SweepInv
<1>3. SweepInv /\ (\A id \in Ids : FrozenTrue(id)) => SweptOrFrozen
  BY DEF SweepInv, TermsTrue, HasTerms, FrozenTrue, Frozen, SweptOrFrozen
<1> QED
  BY <1>1, <1>2, <1>3, SystemSpecInv, SweepSpecInv, PTL DEF SystemSpec

-----------------------------------------------------------------------------
\* The lock.  A request holds it for a bounded number of steps and can always
\* take the next one; that it does is all that fairness has to add.

\* Where a request may be with which of its kinds of work.
PlaceOK(h) ==
    /\ h.op \in {"advance", "bank", "proof", "refund", "closing"}
    /\ h.at \in {"reconcile", "send", "sent", "decide", "ask"}
    /\ h.at \in {"decide", "ask"} => h.todo = {} /\ h.doing = None
    /\ h.at = "decide" => h.op \in {"advance", "bank", "refund"}
    /\ h.at = "ask" => h.op = "bank"
    /\ h.op \in {"refund", "closing", "proof"} => h.stage = 0
    /\ h.op = "refund" => h.doing = None

\* How many steps of its own a request has left, at most: advance may run once
\* more, stage by stage, and at each stage a call is reconciled and sent.
Place(h) ==
    IF h.at = "ask" THEN 0
    ELSE IF h.at = "decide" THEN 1
    ELSE IF h.at = "sent" THEN 3
    ELSE IF h.at = "send" THEN 4
    ELSE IF h.todo = {} THEN 2 ELSE 5
StepsLeft(h) ==
    (IF h.op \in {"proof", "bank", "refund"} THEN 100 ELSE 0)
        + 10 * (7 - h.stage) + Place(h) + (IF h.doing = None THEN 0 ELSE 5)

LEMMA StepsAreCounted ==
  ASSUME NEW h, h.stage \in 0..7
  PROVE  StepsLeft(h) \in 0..180
  BY DEF StepsLeft, Place

\* What each step of a request leaves to do.
Nearer == handler' # None => PlaceOK(handler') /\ StepsLeft(handler') < StepsLeft(handler)

LEMMA QueryNearer ==
  ASSUME SystemInv, OneInFlight, Query, PlaceOK(handler)
  PROVE  Nearer
<1>1. ~Idle /\ HandlerOK(handler) /\ handler.at = "reconcile" /\ handler.todo # {}
  BY RowTyped DEF Query, Reconciling, SystemInv
<1>2. First \in handler.todo /\ handler.todo \subseteq Unresolved
  BY <1>1, FirstIsOpen DEF SystemInv, HandlerOK
<1>3. handler.todo \ {First} = {}
  BY <1>2 DEF OneInFlight
<1>4. CASE handler' = [handler EXCEPT !.at = "send"]
  <2>1. PICK h : h = [handler EXCEPT !.at = "send"]
    OBVIOUS
  <2>2. /\ h.op = handler.op /\ h.at = "send" /\ h.stage = handler.stage
        /\ h.todo = handler.todo /\ h.doing = handler.doing
    BY <1>1, <2>1 DEF HandlerOK, Fields
  <2>3. handler.stage \in 0..7
    BY <1>1 DEF HandlerOK
  <2> QED
    BY <1>1, <1>4, <2>1, <2>2, <2>3 DEF Nearer, PlaceOK, StepsLeft, Place
<1>5. CASE handler' = [handler EXCEPT !.todo = @ \ {First}]
  <2>1. PICK h : h = [handler EXCEPT !.todo = @ \ {First}]
    OBVIOUS
  <2>2. /\ h.op = handler.op /\ h.at = handler.at /\ h.stage = handler.stage
        /\ h.todo = {} /\ h.doing = handler.doing
    BY <1>1, <1>3, <2>1 DEF HandlerOK, Fields
  <2>3. handler.stage \in 0..7
    BY <1>1 DEF HandlerOK
  <2> QED
    BY <1>1, <1>5, <2>1, <2>2, <2>3 DEF Nearer, PlaceOK, StepsLeft, Place
<1> QED
  BY <1>4, <1>5 DEF Query

LEMMA SendNearer ==
  ASSUME SystemInv, OneInFlight, Send \/ Sent, PlaceOK(handler)
  PROVE  Nearer
<1>1. ~Idle /\ HandlerOK(handler) /\ handler.stage \in 0..7
  BY RowTyped DEF Send, Sent, SystemInv, HandlerOK
<1>2. CASE Send
  <2>1. PICK h : h = [handler EXCEPT !.at = "sent"]
    OBVIOUS
  <2>2. /\ h.op = handler.op /\ h.at = "sent" /\ h.stage = handler.stage
        /\ h.todo = handler.todo /\ h.doing = handler.doing
    BY <1>1, <2>1 DEF HandlerOK, Fields
  <2>3. handler' = h /\ handler.at = "send"
    BY <1>2, <2>1 DEF Send
  <2> QED
    BY <1>1, <2>2, <2>3 DEF Nearer, PlaceOK, StepsLeft, Place
<1>3. CASE Sent
  <2>1. First \in handler.todo /\ handler.todo \subseteq Unresolved
    BY <1>1, <1>3, FirstIsOpen DEF Sent, SystemInv, HandlerOK
  <2>2. handler.todo \ {First} = {}
    BY <2>1 DEF OneInFlight
  <2>3. PICK h : h = [handler EXCEPT !.at = "reconcile", !.todo = @ \ {First}]
    OBVIOUS
  <2>4. /\ h.op = handler.op /\ h.at = "reconcile" /\ h.stage = handler.stage
        /\ h.todo = {} /\ h.doing = handler.doing
    BY <1>1, <2>2, <2>3 DEF HandlerOK, Fields
  <2>5. handler' = h /\ handler.at = "sent"
    BY <1>3, <2>3 DEF Sent
  <2> QED
    BY <1>1, <2>4, <2>5 DEF Nearer, PlaceOK, StepsLeft, Place
<1> QED
  BY <1>2, <1>3

LEMMA PrepareNearer ==
  ASSUME SystemInv, Prepare, PlaceOK(handler)
  PROVE  Nearer
<1>1. /\ ~Idle /\ HandlerOK(handler) /\ handler.stage \in 0..7
      /\ handler.at = "reconcile" /\ handler.todo = {} /\ handler.doing # None
  BY RowTyped DEF Prepare, SystemInv, HandlerOK
<1>2. CASE handler' = [handler EXCEPT !.doing = None]
  <2>1. PICK h : h = [handler EXCEPT !.doing = None]
    OBVIOUS
  <2>2. /\ h.op = handler.op /\ h.at = handler.at /\ h.stage = handler.stage
        /\ h.todo = {} /\ h.doing = None
    BY <1>1, <2>1 DEF HandlerOK, Fields
  <2> QED
    BY <1>1, <1>2, <2>1, <2>2 DEF Nearer, PlaceOK, StepsLeft, Place
<1>3. CASE handler' = [handler EXCEPT !.at = "send", !.doing = None,
                                      !.todo = {Len(actions')}]
  <2>1. PICK h : h = [handler EXCEPT !.at = "send", !.doing = None,
                                     !.todo = {Len(actions')}]
    OBVIOUS
  <2>2. /\ h.op = handler.op /\ h.at = "send" /\ h.stage = handler.stage
        /\ h.doing = None
    BY <1>1, <2>1 DEF HandlerOK, Fields
  <2> QED
    BY <1>1, <1>3, <2>1, <2>2 DEF Nearer, PlaceOK, StepsLeft, Place
<1> QED
  BY <1>2, <1>3 DEF Prepare, Nearer

\* A request that goes on with advance has it all before it, and nothing else.
LEMMA AdvanceIsLast ==
  ASSUME NEW id
  PROVE  PlaceOK(Advance(id, "advance")) /\ StepsLeft(Advance(id, "advance")) <= 75
<1>1. PICK h : h = Advance(id, "advance")
  OBVIOUS
<1>2. h.op = "advance" /\ h.at = "reconcile" /\ h.stage = 0 /\ h.doing = None
  BY <1>1 DEF Advance
<1> QED
  BY <1>1, <1>2 DEF PlaceOK, StepsLeft, Place


LEMMA SyncNearer ==
  ASSUME SystemInv, Reconciled, SyncSome, PlaceOK(handler)
  PROVE  Nearer
<1>1. /\ ~Idle /\ HandlerOK(handler) /\ handler.stage \in 0..7
      /\ handler.at = "reconcile" /\ handler.todo = {} /\ handler.doing = None
  BY RowTyped DEF Reconciled, SystemInv, HandlerOK
<1>2. CASE handler' = [handler EXCEPT !.at = "decide"] /\ handler.op \notin {"proof", "closing"}
  <2>1. PICK h : h = [handler EXCEPT !.at = "decide"]
    OBVIOUS
  <2>2. /\ h.op = handler.op /\ h.at = "decide" /\ h.stage = handler.stage
        /\ h.todo = {} /\ h.doing = None
    BY <1>1, <2>1 DEF HandlerOK, Fields
  <2> QED
    BY <1>1, <1>2, <2>1, <2>2 DEF Nearer, PlaceOK, StepsLeft, Place
<1> QED
  BY <1>2 DEF SyncSome, Sync, Nearer

LEMMA FinishedNearer ==
  ASSUME SystemInv, Deciding({"advance", "bank"}), PlaceOK(handler), handler' = Finished
  PROVE  Nearer
<1>1. /\ ~Idle /\ HandlerOK(handler) /\ handler.stage \in 0..7
      /\ handler.at = "decide" /\ handler.todo = {} /\ handler.doing = None
  BY RowTyped DEF Deciding, SystemInv, HandlerOK, PlaceOK
<1>2. CASE handler' = [handler EXCEPT !.at = "ask"] /\ handler.op = "bank"
  <2>1. PICK h : h = [handler EXCEPT !.at = "ask"]
    OBVIOUS
  <2>2. /\ h.op = "bank" /\ h.at = "ask" /\ h.stage = handler.stage
        /\ h.todo = {} /\ h.doing = None
    BY <1>1, <1>2, <2>1 DEF HandlerOK, Fields
  <2> QED
    BY <1>1, <1>2, <2>1, <2>2 DEF Nearer, PlaceOK, StepsLeft, Place
<1> QED
  BY <1>2 DEF Finished, Nearer

\* A stage that is over makes up for all that its call still takes.
LEMMA StageNearer ==
  ASSUME PlaceOK(handler), HandlerOK(handler), handler.at = "decide",
         handler.op \in {"advance", "bank"}, NEW s \in 1..7, handler.stage < s,
         NEW h, DOMAIN h = Fields, h.op = handler.op, h.stage = s,
         \/ h.at = "decide" /\ h.todo = handler.todo /\ h.doing = handler.doing
         \/ h.at = "reconcile",
         handler' = h
  PROVE  Nearer
<1>1. handler.stage \in 0..7 /\ handler.todo = {} /\ handler.doing = None
  BY DEF HandlerOK, PlaceOK
<1> QED
  BY <1>1 DEF Nearer, PlaceOK, StepsLeft, Place

LEMMA BegunNearer ==
  ASSUME SystemInv, Begun, PlaceOK(handler)
  PROVE  Nearer
<1>1. /\ ~Idle /\ HandlerOK(handler) /\ handler.stage = 0 /\ handler.at = "decide"
      /\ handler.op \in {"advance", "bank"}
  BY RowTyped DEF Begun, Deciding, SystemInv
<1>2. CASE handler' = [handler EXCEPT !.stage = 1, !.granted = Granted(handler.id)]
  <2>1. PICK h : h = [handler EXCEPT !.stage = 1, !.granted = Granted(handler.id)]
    OBVIOUS
  <2>2. /\ DOMAIN h = Fields /\ h.op = handler.op /\ h.at = "decide" /\ h.stage = 1
        /\ h.todo = handler.todo /\ h.doing = handler.doing
    BY <1>1, <2>1 DEF HandlerOK, Fields
  <2>3. 1 \in 1..7 /\ handler.stage < 1
    BY <1>1
  <2>4. handler' = h
    BY <1>2, <2>1
  <2> QED
    BY <1>1, <2>2, <2>3, <2>4, StageNearer
<1> QED
  BY <1>2, FinishedNearer DEF Begun

\* The first stage with work to do is one of the six and not behind.
LEMMA FirstStage ==
  ASSUME HandlerOK(handler), Next6(handler.stage) # {}
  PROVE  LET s == Min(Next6(handler.stage))
         IN  s \in 1..6 /\ s >= handler.stage /\ Due(s)
<1>1. handler.stage \in 0..7 /\ Next6(handler.stage) \in SUBSET Nat
  BY DEF Next6, HandlerOK
<1>2. PICK s : s = Min(Next6(handler.stage)) /\ s \in Next6(handler.stage)
  BY <1>1, MinIsLeast
<1>3. s \in handler.stage..6 /\ Due(s)
  BY <1>2 DEF Next6
<1>4. s # 0
  BY <1>3 DEF Due
<1> QED
  BY <1>1, <1>2, <1>3, <1>4

LEMMA WorkNearer ==
  ASSUME SystemInv, Work, PlaceOK(handler)
  PROVE  Nearer
<1>1. /\ ~Idle /\ HandlerOK(handler) /\ handler.stage \in 1..7
      /\ handler.at = "decide" /\ handler.op \in {"advance", "bank"}
  BY RowTyped DEF Work, Deciding, SystemInv, HandlerOK
<1>2. CASE Next6(handler.stage) = {}
  BY <1>2, FinishedNearer DEF Work
<1>3. CASE Next6(handler.stage) # {}
  <2>1. PICK s : s = Min(Next6(handler.stage))
    OBVIOUS
  <2>2. s \in 1..6 /\ s >= handler.stage
    BY <1>1, <1>3, <2>1, FirstStage
  <2>3. PICK h : h = [handler EXCEPT !.stage = s + 1]
    OBVIOUS
  <2>4. /\ DOMAIN h = Fields /\ h.op = handler.op /\ h.at = "decide"
        /\ h.stage = s + 1 /\ h.todo = handler.todo /\ h.doing = handler.doing
    BY <1>1, <2>3 DEF HandlerOK, Fields
  <2>5. s + 1 \in 1..7 /\ handler.stage < s + 1
    BY <1>1, <2>2
  <2>6. CASE s = 4
    <3>1. handler' = h
      BY <1>3, <2>1, <2>3, <2>6 DEF Work
    <3> QED
      BY <1>1, <2>4, <2>5, <3>1, StageNearer
  <2>7. CASE s # 4
    <3>1. handler' = Perform(h, StageKind[s], StageArg(s))
      BY <1>3, <2>1, <2>3, <2>7 DEF Work
    <3>2. PICK g : g = Perform(h, StageKind[s], StageArg(s))
      OBVIOUS
    <3>3. /\ DOMAIN g = Fields /\ g.op = handler.op /\ g.at = "reconcile"
          /\ g.stage = s + 1
      BY <2>4, <3>2 DEF Perform, Fields
    <3> QED
      BY <1>1, <2>5, <3>1, <3>2, <3>3, StageNearer
  <2> QED
    BY <2>6, <2>7
<1> QED
  BY <1>2, <1>3

LEMMA GiveBackNearer ==
  ASSUME SystemInv, GiveBack, PlaceOK(handler)
  PROVE  Nearer
<1>1. /\ ~Idle /\ HandlerOK(handler) /\ handler.stage = 0 /\ handler.doing = None
      /\ handler.at = "decide" /\ handler.op = "refund"
  BY RowTyped DEF GiveBack, Deciding, SystemInv, PlaceOK
<1>2. ASSUME NEW kind, handler' = Perform([handler EXCEPT !.op = "closing"], kind, None)
      PROVE  Nearer
  <2>1. PICK h : h = [handler EXCEPT !.op = "closing"]
    OBVIOUS
  <2>2. DOMAIN h = Fields /\ h.op = "closing" /\ h.stage = 0
    BY <1>1, <2>1 DEF HandlerOK, Fields
  <2>3. PICK g : g = Perform(h, kind, None)
    OBVIOUS
  <2>4. /\ g.op = "closing" /\ g.at = "reconcile" /\ g.stage = 0
    BY <2>2, <2>3 DEF Perform, Fields
  <2> QED
    BY <1>1, <1>2, <2>1, <2>3, <2>4 DEF Nearer, PlaceOK, StepsLeft, Place
<1> QED
  BY <1>2 DEF GiveBack, Nearer

LEMMA HandlingNearer ==
  ASSUME SystemInv, OneInFlight, Handling, handler # None => PlaceOK(handler)
  PROVE  handler # None /\ Nearer
<1>1. handler # None
  BY DEF Handling, Query, Send, Sent, Prepare, ProofDone, Begun, Work, Ask,
         GiveBack, Reconciling, Reconciled, Deciding, Idle
<1>2. CASE Query \/ Send \/ Sent \/ Prepare
  BY <1>1, <1>2, QueryNearer, SendNearer, PrepareNearer
<1>3. CASE Begun \/ Work \/ GiveBack \/ (Reconciled /\ SyncSome)
  BY <1>1, <1>3, BegunNearer, WorkNearer, GiveBackNearer, SyncNearer
<1>4. CASE ProofDone \/ Ask
  <2>1. /\ handler.stage \in 0..7 /\ handler.op \in {"proof", "bank"}
        /\ handler' # None => handler' = Advance(handler.id, "advance")
    BY <1>1, <1>4, RowTyped
    DEF ProofDone, Ask, PlaceOK, SystemInv, HandlerOK, Idle
  <2>2. StepsLeft(handler) >= 100
    BY <2>1 DEF StepsLeft, Place
  <2>3. StepsLeft(Advance(handler.id, "advance")) <= 75
    BY AdvanceIsLast
  <2>4. StepsLeft(Advance(handler.id, "advance")) \in Int
    <3>1. PICK h : h = Advance(handler.id, "advance")
      OBVIOUS
    <3> QED
      BY <3>1, StepsAreCounted DEF Advance
  <2> QED
    BY <1>1, <2>1, <2>2, <2>3, <2>4, AdvanceIsLast, StepsAreCounted DEF Nearer
<1> QED
  BY <1>1, <1>2, <1>3, <1>4 DEF Handling


\* A request starts at a place of its own.
LEMMA RequestPlaced ==
  ASSUME NEW id \in Ids, Request(id)
  PROVE  handler = None /\ (handler' # None => PlaceOK(handler'))
<1>1. handler = None
  BY DEF Request, Begin, Accept, Get, SubmitProof, SimulateBank, RequestRefund, Idle
<1>2. ASSUME NEW op \in {"advance", "bank"}, handler' = Advance(id, op)
      PROVE  PlaceOK(handler')
  BY <1>2 DEF Advance, PlaceOK
<1>3. CASE RequestRefund(id)
  <2>1. PICK h : h = [Advance(id, "refund") EXCEPT !.replay = FALSE]
    OBVIOUS
  <2>2. h.op = "refund" /\ h.at = "reconcile" /\ h.stage = 0 /\ h.doing = None
    BY <2>1 DEF Advance
  <2>3. handler' = h
    BY <1>3, <2>1 DEF RequestRefund
  <2> QED
    BY <1>1, <2>2, <2>3 DEF PlaceOK
<1>4. ASSUME NEW proofTime, SubmitProof(id, proofTime) PROVE PlaceOK(handler')
  <2>1. PICK arg : handler' = Perform(Advance(id, "proof"), "eligibility", arg)
    BY <1>4 DEF SubmitProof
  <2>2. PICK g : g = Perform(Advance(id, "proof"), "eligibility", arg)
    OBVIOUS
  <2>3. g.op = "proof" /\ g.at = "reconcile" /\ g.stage = 0
    BY <2>2 DEF Perform, Advance
  <2> QED
    BY <2>1, <2>2, <2>3 DEF PlaceOK
<1>5. ASSUME NEW t, Accept(id, t) PROVE PlaceOK(handler')
  <2>1. handler' = Advance(id, "advance")
    BY <1>5 DEF Accept
  <2> QED
    BY <1>2, <2>1
<1>6. CASE Get(id) \/ SimulateBank(id)
  <2>1. handler' = Advance(id, "advance") \/ handler' = Advance(id, "bank")
    BY <1>6 DEF Get, SimulateBank
  <2> QED
    BY <1>1, <1>2, <2>1
<1>7. ASSUME NEW a, NEW direction, Begin(id, a, direction) PROVE handler' = None
  BY <1>1, <1>7 DEF Begin
<1> QED
  BY <1>1, <1>3, <1>4, <1>5, <1>6, <1>7 DEF Request

\* Only its own steps, and the end of it, move a request that holds the lock.
LEMMA OthersLeaveIt ==
  ASSUME [SystemNext]_system, ~Handling
  PROVE  \/ handler' = handler
         \/ handler' = None
         \/ \E id \in Ids : Request(id)
  BY DEF SystemNext, Ingest, Drop, Include, PayIn, OutsideSettle, Environment,
         system, database

LEMMA PlaceKept ==
  ASSUME SystemInv, OneInFlight, [SystemNext]_system, handler # None => PlaceOK(handler)
  PROVE  handler' # None => PlaceOK(handler')
<1>1. CASE Handling
  BY <1>1, HandlingNearer DEF Nearer
<1>2. CASE ~Handling
  BY <1>2, OthersLeaveIt, RequestPlaced
<1> QED
  BY <1>1, <1>2

\* The invariant of the lock.
LockInv == SystemInv /\ OneInFlight /\ (handler # None => PlaceOK(handler))

LEMMA LockSpecInv == SystemSpec => []LockInv
<1> DEFINE Placed == handler # None => PlaceOK(handler)
<1>1. SystemInit => Placed
  BY DEF SystemInit
<1>2. SystemInv /\ OneInFlight /\ Placed /\ [SystemNext]_system => Placed'
  BY PlaceKept
<1>3. SystemInv /\ OneInFlight /\ Placed => LockInv
  BY DEF LockInv
<1> HIDE DEF Placed
<1> QED
  BY <1>1, <1>2, <1>3, SystemSpecInv, OneCallAtATime, PTL DEF SystemSpec

\* What a request has left to do is at most 180 steps; each of its own steps
\* brings the end of it nearer or is the end, and no step of anything else moves
\* it but to end it.
StepsBounded == handler # None => StepsLeft(handler) \in 0..180
EachStepCounts ==
    handler # None =>
        \/ handler' = None
        \/ Handling /\ StepsLeft(handler') < StepsLeft(handler)
        \/ ~Handling /\ handler' = handler

\* However calls are lost, answers are stale and the journal stands, a request
\* releases the lock of src/sep-anchor.ts after a bounded number of its steps.
THEOREM RequestsAreShort == SystemSpec => []StepsBounded /\ [][EachStepCounts]_system
<1>1. LockInv => StepsBounded
  BY RowTyped, StepsAreCounted
  DEF LockInv, StepsBounded, SystemInv, HandlerOK, Idle
<1>2. LockInv /\ [SystemNext]_system => EachStepCounts
  <2> SUFFICES ASSUME LockInv, [SystemNext]_system, handler # None
               PROVE  EachStepCounts
    BY DEF EachStepCounts
  <2>1. CASE Handling
    BY <2>1, HandlingNearer DEF LockInv, Nearer, EachStepCounts
  <2>2. CASE ~Handling
    BY <2>2, OthersLeaveIt, RequestPlaced DEF EachStepCounts
  <2> QED
    BY <2>1, <2>2
<1> QED
  BY <1>1, <1>2, LockSpecInv, PTL DEF SystemSpec

\* No bank transfer has used this event.
FreeEvent ==
    \E e \in Events \ {Zero} :
        \A id \in Ids : bankEvents[id] # None => bankEvents[id].event # e

\* The event of a transfer is drawn anew for each: there are as many as orders.
EnoughEvents ==
    /\ IsFiniteSet(Ids)
    /\ IsFiniteSet(Events \ {Zero}) => Cardinality(Events \ {Zero}) >= Cardinality(Ids)

\* An order that has no transfer leaves an event for it.
LEMMA EventLeft ==
  ASSUME EnoughEvents, NEW id \in Ids, bankEvents[id] = None
  PROVE  FreeEvent
<1> SUFFICES ASSUME ~FreeEvent PROVE FALSE
  OBVIOUS
<1> DEFINE S == Events \ {Zero}
           T == Ids \ {id}
           user == [e \in S |-> CHOOSE other \in T :
                       bankEvents[other] # None /\ bankEvents[other].event = e]
<1>1. \A e \in S : \E other \in T :
          bankEvents[other] # None /\ bankEvents[other].event = e
  BY DEF FreeEvent
<1>2. \A e \in S : user[e] \in T /\ bankEvents[user[e]].event = e
  BY <1>1
<1> HIDE DEF user
<1>3. user \in [S -> T]
  <2>1. user = [e \in S |-> user[e]]
    BY DEF user
  <2> QED
    BY <1>2, <2>1
<1>4. user \in Injection(S, T)
  BY <1>2, <1>3 DEF Injection, IsInjective
<1>5. /\ IsFiniteSet(T) /\ Cardinality(Ids) \in Nat
      /\ Cardinality(T) = Cardinality(Ids) - 1
  BY FS_RemoveElement, FS_CardinalityType DEF EnoughEvents
<1> HIDE DEF S, T
<1>6. IsFiniteSet(S) /\ Cardinality(S) <= Cardinality(T)
  BY <1>4, <1>5, FS_Injection
<1>7. Cardinality(S) \in Nat /\ Cardinality(S) >= Cardinality(Ids)
  BY <1>6, FS_CardinalityType DEF S, EnoughEvents
<1> QED
  BY <1>5, <1>6, <1>7

\* The guard of the step that each place of a request calls for.
GoesOn ==
    \/ Reconciling
    \/ handler.at \in {"send", "sent"} /\ First \in DOMAIN net
    \/ handler.at = "reconcile" /\ handler.todo = {} /\ handler.doing # None
    \/ Reconciled /\ handler.op = "proof"
    \/ Reconciled /\ handler.op # "proof" /\ past[handler.id] # <<>>
    \/ Deciding({"advance", "bank"}) /\ handler.stage = 0
    \/ /\ Deciding({"advance", "bank"}) /\ handler.stage > 0
       /\ Next6(handler.stage) # {} =>
             /\ Min(Next6(handler.stage)) \in 1..6
             /\ Min(Next6(handler.stage)) = 4 => FreeEvent
    \/ Deciding({"refund"})
    \/ handler.at = "ask"
NeverStuck == handler # None => GoesOn

\* A request that holds the lock always has a step it may take: it waits for no
\* other request, no transaction and no customer.
THEOREM RequestsNeverWait == EnoughEvents => (SystemSpec => []NeverStuck)
<1> SUFFICES ASSUME EnoughEvents PROVE SystemSpec => []NeverStuck
  OBVIOUS
<1>1. ASSUME LockInv, handler # None PROVE GoesOn
  <2>1. /\ ~Idle /\ HandlerOK(handler) /\ handler.id \in Ids /\ PlaceOK(handler)
        /\ handler.stage \in 0..7
    BY <1>1, RowTyped DEF LockInv, SystemInv, HandlerOK, Idle
  <2>2. CASE handler.at \in {"send", "sent"}
    <3>1. First \in DOMAIN actions /\ JournalOK
      BY <1>1, <2>1, <2>2, FirstIsOpen
      DEF HandlerOK, LockInv, SystemInv, CoordinatorInv
    <3> QED
      BY <2>2, <3>1, EntryTyped DEF GoesOn
  <2>3. CASE handler.at = "reconcile"
    <3>1. past[handler.id] # <<>>
      BY <1>1, <2>1 DEF LockInv, SystemInv, CoordinatorInv, HistoryOK
    <3> QED
      BY <2>1, <2>3, <3>1 DEF GoesOn, Reconciling, Reconciled
  <2>4. CASE handler.at = "decide" /\ handler.op \in {"advance", "bank"} /\ handler.stage > 0
    <3>1. ASSUME Next6(handler.stage) # {}, Min(Next6(handler.stage)) = 4
          PROVE  FreeEvent
      <4>1. Due(4)
        BY <2>1, <3>1, FirstStage
      <4>2. bankEvents[handler.id] = None
        BY <4>1 DEF Due, ToPayBank
      <4> QED
        BY <1>1, <2>1, <4>2, EventLeft
    <3>2. Next6(handler.stage) # {} => Min(Next6(handler.stage)) \in 1..6
      BY <2>1, FirstStage
    <3> QED
      BY <2>1, <2>4, <3>1, <3>2 DEF GoesOn, Deciding
  <2>5. CASE handler.at = "decide" /\ (handler.op = "refund" \/ handler.stage = 0)
    BY <2>1, <2>5 DEF GoesOn, Deciding, PlaceOK
  <2> QED
    BY <2>1, <2>2, <2>3, <2>4, <2>5 DEF PlaceOK, GoesOn
<1>2. LockInv => NeverStuck
  BY <1>1 DEF NeverStuck
<1> QED
  BY <1>2, LockSpecInv, PTL

=============================================================================
