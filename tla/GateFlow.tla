------------------------------ MODULE GateFlow ------------------------------
(***************************************************************************)
(* The page of the older proof-gated vault: its session with the anchor    *)
(* (web/anchor-gate-flow.ts) and the rules by which its buttons, its       *)
(* automatic checks and the wallet's watcher drive it (web/anchor-gate.ts).*)
(* The anchor behind it is AnchorGate, reduced to what the page tells      *)
(* apart; reservations carry the idempotency key drawn with their quote.   *)
(*                                                                         *)
(* The page does one task at a time (`busy`), each a sequence of awaits.   *)
(* Beside it run an automatic check of the order, the callback in which a  *)
(* phone delivers a proof, and the customer, who may switch the wallet's   *)
(* account, disconnect or leave at any await.                              *)
(*                                                                         *)
(* Abstractions.  Amounts, texts, layout and the funding of accounts are   *)
(* left out; deadlines of orders, grants and prepared proofs refuse a      *)
(* request as any refusal does, and a proof may be asked for again while a *)
(* prepared one waits, which has then expired once another is submitted;   *)
(* what is prepared for signature is well formed.                          *)
(***************************************************************************)
EXTENDS Integers, Sequences, FiniteSets

CONSTANTS
    Wallets, Beneficiaries,
    Scripts,    \* bound: the account and the orders the customer starts with, which
                \* buttons are pressed and how many, and how many faults (lost answers, refusals, expiries,
                \* switched accounts) happen
    None

\* Orders as the anchor keeps and answers them, with the actions that are pending
\* and the proofs whose action succeeded.
With == Wallets \cup Beneficiaries \cup Nat \cup {None}
OrderType ==
    [quote : Nat, wallet : With, beneficiary : With,
     direction : {"deposit", "withdrawal"}, step : Nat,
     pending : SUBSET [kind : {"sign", "authorize", "bank", "settle"}, with : With],
     proofs : SUBSET With, session : Nat]
AnswerType == [is : {"order"}, id : Nat, o : OrderType]

\* None is no number and no answer; the orders of before have a key each, and were
\* not reserved in this session.
GateAssumption ==
    /\ None \notin Nat /\ None \notin AnswerType
    /\ \A s \in Scripts :
         /\ s.account \in Wallets /\ s.orders \in Seq(OrderType)
         /\ \A n \in DOMAIN s.orders : s.orders[n].session = 0
         /\ \A m, n \in DOMAIN s.orders : s.orders[m].quote = s.orders[n].quote => m = n

VARIABLES
    flow,       \* the variables of the page and of its session
    task,       \* what run() is doing, or None
    glance,     \* the automatic check under way, or None
    callbacks,  \* the phone requests made, in order
    freighter,  \* the account selected in the wallet
    desk,       \* the anchor: its quotes, its orders, whether the policy is valid
    inflight,   \* requests whose page gave up, which may still be handled
    seen,       \* history: orders whose reservation the page has shown
    script      \* what remains of the bound

vars == <<flow, task, glance, callbacks, freighter, desk, inflight, seen, script>>

Fault == script.faults > 0 /\ script' = [script EXCEPT !.faults = @ - 1]

-----------------------------------------------------------------------------
\* The anchor.

Stages(direction) ==
    IF direction = "deposit"
    THEN <<"registering", "created", "eligible", "funded", "settled">>
    ELSE <<"registering", "created", "eligible", "payout_authorized", "paid", "settled">>
Stage(o) == Stages(o.direction)[o.step]

\* The stage each operation needs.
Needs(kind, direction) ==
    CASE kind = "sign"      -> {"created", "eligible"}
                               \cup (IF direction = "deposit" THEN {"funded"} ELSE {})
      [] kind = "authorize" -> IF direction = "withdrawal" THEN {"eligible"} ELSE {}
      [] kind = "bank"      -> IF direction = "deposit" THEN {"eligible"}
                               ELSE {"payout_authorized"}
      [] kind = "settle"    -> IF direction = "deposit" THEN {"funded"} ELSE {"paid"}

\* An order as the anchor answers it.
Answer(d, n)   == [is |-> "order", id |-> n, o |-> d.orders[n]]
Says(word)     == [is |-> word]

\* POST orders: the order of this key is found before the quote is looked at.
Reserved(r) ==
    LET same == {n \in DOMAIN desk.orders : desk.orders[n].quote = r.order}
        new  == [desk EXCEPT !.orders = Append(@,
                    [quote |-> r.order, wallet |-> desk.quotes[r.order].wallet,
                     beneficiary |-> r.with, direction |-> desk.quotes[r.order].direction,
                     step |-> 1, pending |-> {}, proofs |-> {}, session |-> r.session])]
    IN
    IF same # {} THEN [desk |-> desk, reply |-> Answer(desk, CHOOSE n \in same : TRUE)]
    ELSE IF ~desk.quotes[r.order].live \/ ~desk.policy
    THEN [desk |-> desk, reply |-> Says("quote_expired")]
    ELSE [desk |-> new, reply |-> Answer(new, Len(new.orders))]

\* What was asked for is there already, and is answered again.
Done(r, o) ==
    \/ Stage(o) = "settled" /\ (r.kind = "authorize" => o.direction = "withdrawal")
    \/ r.kind = "sign" /\ r.with \in o.proofs
    \/ r.kind = "bank" /\ Stage(o) \in {"funded", "paid"}
    \/ r.kind = "authorize" /\ Stage(o) \in {"payout_authorized", "paid"}

\* Proofs whose action is pending
Signing(o) == {p.with : p \in {a \in o.pending : a.kind = "sign"}}

\* submitProof, authorizePayout, simulateBank, settle: an action that is pending
\* already is sent again, beside those of other kinds.
Advanced(r) ==
    LET o   == desk.orders[r.order]
        new == [desk EXCEPT !.orders[r.order].pending =
                    @ \cup {[kind |-> r.kind, with |-> r.with]}]
    IN
    IF Done(r, o) THEN [desk |-> desk, reply |-> Answer(desk, r.order)]
    ELSE IF /\ Stage(o) \in Needs(r.kind, o.direction)
            /\ r.kind = "sign" => Signing(o) \subseteq {r.with}
    THEN [desk |-> new, reply |-> Answer(new, r.order)]
    ELSE [desk |-> desk, reply |-> Says("refused")]

Handles(r) == IF r.kind = "reserve" THEN Reserved(r) ELSE Advanced(r)

-----------------------------------------------------------------------------
\* The session.

CancelPhone(f) == [f EXCEPT !.phoneGeneration = @ + 1, !.phone = None]

NoSession(f) ==
    [CancelPhone(f) EXCEPT !.generation = @ + 1, !.token = None, !.wallet = None,
        !.quote = None, !.order = None, !.prepared = None, !.screening = None,
        !.pending = FALSE, !.beneficiary = None, !.ready = FALSE]

ClearQuote(f) == [f EXCEPT !.quote = None, !.beneficiary = None]

\* acceptOrder: another order ends the phone request and the prepared proof, and
\* so does a confirmed proof.
Proven(f, a) == f.prepared # None /\ f.prepared.phone \in a.o.proofs
AcceptOrder(f, a) ==
    LET other == IF f.order = None \/ f.order.id # a.id
                 THEN [CancelPhone(f) EXCEPT !.prepared = None] ELSE f
        fresh == IF Proven(other, a) THEN [CancelPhone(other) EXCEPT !.prepared = None]
                 ELSE other
    IN [fresh EXCEPT !.order = a, !.direction = a.o.direction,
                     !.quote = IF @ = a.o.quote THEN @ ELSE None]

\* What tells that an answer is still wanted.
SameSession(session) == session = flow.generation
SameWallet == flow.wallet # None /\ freighter = flow.wallet
RecoveryOnly == flow.info /\ ~desk.policy

\* requireOrder: an authorized withdrawal may be completed whatever expired.
Irreversible(a) == a.o.direction = "withdrawal" /\ Stage(a.o) \in {"payout_authorized", "paid"}
RequireOrder(kind) ==
    /\ flow.order # None
    /\ desk.policy \/ (kind \in {"bank", "settle"} /\ Irreversible(flow.order))

\* What each operation requires of the session before it asks for anything.
MayQuote == desk.policy /\ ~flow.pending /\ flow.order = None
MayReserve(with) ==
    /\ flow.quote # None /\ flow.order = None
    /\ flow.pending \/ (desk.policy /\ desk.quotes[flow.quote].live)
    /\ (flow.direction = "withdrawal") = (with # None)
    /\ flow.beneficiary \in {None, with}
MayProve == RequireOrder("prove") /\ Stage(flow.order.o) \in Needs("sign", flow.order.o.direction)
MaySign  == RequireOrder("sign") /\ flow.prepared # None
MayAct(kind) == RequireOrder(kind) /\ Stage(flow.order.o) \in Needs(kind, flow.order.o.direction)
Allowed(kind, with) ==
    CASE kind = "quote"   -> MayQuote
      [] kind = "reserve" -> MayReserve(with)
      [] kind = "refresh" -> ~flow.pending
      [] kind = "access"  -> flow.token # None
      [] kind = "prove"   -> MayProve
      [] kind = "sign"    -> MaySign
      [] kind \in {"authorize", "bank", "settle"} -> MayAct(kind)
      [] OTHER -> TRUE

-----------------------------------------------------------------------------
\* The page: its buttons, as render enables them.

ExchangeReady == flow.ready /\ flow.screening \in {None, "no_match"}
Pending == flow.order # None /\ flow.order.o.pending # {}
PendingOther ==
    Pending /\ \E p \in flow.order.o.pending :
                  flow.prepared = None \/ p.kind # "sign" \/ p.with # flow.prepared.phone
Live == flow.order # None /\ desk.policy /\ Stage(flow.order.o) # "settled"

Enabled(kind) ==
    CASE kind = "connect" -> task = None /\ flow.info /\ flow.wallet = None
      [] kind = "disconnect" -> ~flow.pending /\ flow.wallet # None
      [] kind \in {"deposit", "withdrawal"} ->
            task = None /\ flow.order = None /\ ~RecoveryOnly /\ ~flow.pending
      [] kind = "quote" -> /\ task = None /\ flow.wallet # None /\ ExchangeReady
                           /\ flow.order = None /\ flow.quote = None
                           /\ ~RecoveryOnly /\ ~flow.pending
      [] kind = "edit" -> /\ task = None /\ flow.quote # None /\ flow.order = None
                          /\ ~RecoveryOnly /\ ~flow.pending
      [] kind = "reserve" ->
            /\ task = None /\ flow.wallet # None /\ flow.quote # None /\ flow.order = None
            /\ flow.pending \/ (ExchangeReady /\ ~RecoveryOnly /\ desk.quotes[flow.quote].live)
      [] kind = "access" -> task = None /\ flow.wallet # None /\ flow.screening # None
      [] kind = "setup" -> task = None /\ flow.wallet # None
      [] kind = "refresh" -> task = None /\ flow.wallet # None /\ ~flow.pending
      [] kind = "prove" -> /\ task = None /\ Live /\ ~Pending /\ flow.phone = None
                           /\ Stage(flow.order.o) \in Needs("sign", flow.order.o.direction)
      [] kind = "cancel" -> flow.phone # None
      [] kind = "sign" -> task = None /\ Live /\ ~PendingOther /\ flow.prepared # None
      [] kind \in {"authorize", "bank", "settle"} ->
            /\ task = None /\ flow.order # None /\ ~Pending
            /\ Stage(flow.order.o) \in Needs(kind, flow.order.o.direction)
            /\ Live \/ (kind # "authorize" /\ Irreversible(flow.order))

Immediate == {"disconnect", "deposit", "withdrawal", "edit", "cancel"}
Runs == {"connect", "setup", "quote", "reserve", "access", "refresh", "prove", "sign",
         "authorize", "bank", "settle"}

Run(kind, with) == [kind |-> kind, step |-> "begin", session |-> flow.generation,
                    with |-> with, order |-> None, unknown |-> FALSE, reply |-> None]

\* With what a button is pressed: a beneficiary, or the order to resume.
Choices(kind) ==
    CASE kind = "reserve" /\ flow.direction = "withdrawal" -> Beneficiaries
      [] kind = "refresh" -> DOMAIN desk.orders
      [] OTHER -> {None}

Presses(kind) ==
    /\ kind \in script.does /\ script.presses > 0
    /\ script' = [script EXCEPT !.presses = @ - 1]
    /\ ~flow.closed /\ Enabled(kind)
    /\ IF kind \in Immediate
       THEN /\ flow' = CASE kind = "disconnect" -> NoSession(flow)
                         [] kind \in {"deposit", "withdrawal"} ->
                               [ClearQuote(flow) EXCEPT !.direction = kind]
                         [] kind = "edit"   -> ClearQuote(flow)
                         [] kind = "cancel" -> CancelPhone(flow)
            /\ UNCHANGED task
       ELSE /\ \E with \in Choices(kind) : task' = Run(kind, with)
            /\ UNCHANGED flow
    /\ UNCHANGED <<glance, callbacks, freighter, desk, inflight, seen>>

-----------------------------------------------------------------------------
\* run: a task.

At(step) == task # None /\ task.step = step
Step(step) == task' = [task EXCEPT !.step = step]
Throw == task' = None /\ UNCHANGED flow

\* Slip: the task does not wait for the automatic check.
Idle_Always == TRUE
Idle == glance = None

\* It awaits the automatic check, and ends if its session did.
Begin ==
    /\ At("begin") /\ Idle
    /\ IF flow.closed \/ ~SameSession(task.session) \/ ~Allowed(task.kind, task.with)
       THEN Throw
       ELSE CASE task.kind = "connect" ->
                   /\ flow' = [NoSession(flow) EXCEPT !.generation = @ + 1]
                   /\ task' = [task EXCEPT !.step = "select", !.session = flow.generation + 2]
              [] task.kind = "initialize" -> Step("asked") /\ UNCHANGED flow
              [] task.kind \in {"setup", "quote"} \/ (task.kind = "reserve" /\ ~flow.pending) ->
                   Step("setup") /\ UNCHANGED flow
              [] task.kind = "sign" ->
                   /\ task' = [task EXCEPT !.step = "sign", !.with = flow.prepared.phone,
                                           !.order = flow.order.id]
                   /\ UNCHANGED flow
              [] OTHER -> Step("send") /\ UNCHANGED flow
    /\ UNCHANGED <<glance, callbacks, freighter, desk, inflight, seen, script>>

\* connect: the wallet names an account, the customer signs the challenge.
Selects ==
    /\ At("select")
    /\ \/ task' = [task EXCEPT !.step = "login", !.with = freighter] /\ UNCHANGED script
       \/ Fault /\ task' = None
    /\ UNCHANGED <<flow, glance, callbacks, freighter, desk, inflight, seen>>

LogsIn ==
    /\ At("login")
    /\ \/ /\ freighter = task.with /\ SameSession(task.session)
          /\ flow' = [flow EXCEPT !.token = task.with]
          /\ Step("asked") /\ UNCHANGED script
       \/ /\ freighter # task.with \/ ~SameSession(task.session)
          /\ Throw /\ UNCHANGED script
       \/ Fault /\ Throw
    /\ UNCHANGED <<glance, callbacks, freighter, desk, inflight, seen>>

\* inspectWalletSetup, and requireTrustline; then createOrder keeps to the
\* beneficiary it was first given for this quote.
Setup ==
    /\ At("setup")
    /\ IF SameSession(task.session)
       THEN /\ flow' = [flow EXCEPT !.ready = TRUE,
                          !.beneficiary = IF task.kind = "reserve" /\ Allowed("reserve", task.with)
                                          THEN task.with ELSE @]
            /\ IF task.kind \in {"connect", "setup"} THEN task' = None ELSE Step("send")
       ELSE Throw
    /\ UNCHANGED <<glance, callbacks, freighter, desk, inflight, seen, script>>
SetupFails ==
    /\ At("setup") /\ Fault
    /\ task' = None
    /\ IF task.kind = "connect" THEN UNCHANGED flow
       ELSE \E ready \in BOOLEAN : flow' = [flow EXCEPT !.ready = @ /\ ready]
    /\ UNCHANGED <<glance, callbacks, freighter, desk, inflight, seen>>

\* The wallet signs the prepared proof.
Signs ==
    /\ At("sign")
    /\ \/ SameSession(task.session) /\ SameWallet /\ desk.policy /\ Step("asked") /\ UNCHANGED script
       \/ ~(SameSession(task.session) /\ SameWallet /\ desk.policy) /\ task' = None /\ UNCHANGED script
       \/ Fault /\ task' = None
    /\ UNCHANGED <<flow, glance, callbacks, freighter, desk, inflight, seen>>

\* A request goes out with the session's token, if the wallet is still the same.
Sending == /\ At("send")
           /\ UNCHANGED <<glance, callbacks, freighter, desk, inflight, seen, script>>
Sends == SameWallet /\ SameSession(task.session) /\ Allowed(task.kind, task.with)

Withholds == Sending /\ ~Sends /\ Throw
SendsReservation ==
    /\ Sending /\ task.kind = "reserve" /\ Sends
    /\ flow' = [flow EXCEPT !.pending = TRUE]
    /\ task' = [task EXCEPT !.step = "asked", !.order = flow.quote, !.unknown = flow.pending]
SendsProofRequest ==
    /\ Sending /\ task.kind = "prove" /\ Sends
    /\ flow' = [CancelPhone(flow) EXCEPT !.prepared = None]
    /\ task' = [task EXCEPT !.step = "asked", !.order = flow.order.id,
                            !.with = flow.phoneGeneration + 1]
SendsAction ==
    /\ Sending /\ task.kind \notin {"reserve", "prove"} /\ Sends
    /\ task' = [task EXCEPT !.step = "asked",
                    !.order = IF flow.order = None THEN None ELSE flow.order.id]
    /\ UNCHANGED flow

-----------------------------------------------------------------------------
\* Requests and their answers.

Posts   == {"reserve", "sign", "authorize", "bank", "settle"}
Request == [kind |-> task.kind, order |-> task.order, with |-> task.with,
            session |-> task.session]

\* The anchor answers, or refuses; a reservation is refused for the wallet's
\* admission before anything is looked at, and screened if its key is new.
Refusals ==
    {"refused"}
    \cup (IF task.kind = "reserve" THEN {"not_admitted"} ELSE {})
    \cup (IF task.kind = "reserve" /\ \A n \in DOMAIN desk.orders : desk.orders[n].quote # task.order
          THEN {"ofac"} ELSE {})
Served ==
    /\ At("asked") /\ task.reply = None
    /\ \/ /\ task.kind \in Posts
          /\ LET h == Handles(Request) IN
                desk' = h.desk /\ task' = [task EXCEPT !.reply = h.reply]
          /\ UNCHANGED script
       \/ /\ task.kind = "quote"
          /\ desk' = [desk EXCEPT !.quotes = Append(@,
                        [wallet |-> flow.token, direction |-> flow.direction, live |-> TRUE])]
          /\ task' = [task EXCEPT !.reply = [is |-> "quote", id |-> Len(desk.quotes) + 1]]
          /\ UNCHANGED script
       \/ /\ task.kind = "refresh" /\ UNCHANGED <<desk, script>>
          /\ task' = [task EXCEPT !.reply = IF desk.orders[task.with].wallet = flow.token
                                          THEN Answer(desk, task.with) ELSE Says("refused")]
       \/ /\ task.kind \in {"initialize", "prove"} /\ UNCHANGED <<desk, script>>
          /\ task' = [task EXCEPT !.reply = Says("ok")]
       \/ /\ task.kind \in {"connect", "access"} /\ UNCHANGED desk
          /\ \/ task' = [task EXCEPT !.reply = Says("no_match")] /\ UNCHANGED script
             \/ Fault /\ task' = [task EXCEPT !.reply = Says("match")]
       \/ /\ Fault /\ UNCHANGED desk
          /\ \E word \in Refusals : task' = [task EXCEPT !.reply = Says(word)]
    /\ UNCHANGED <<flow, glance, callbacks, freighter, inflight, seen>>

ServedLate(r) ==
    /\ r \in inflight
    /\ desk' = Handles(r).desk
    /\ inflight' = inflight \ {r}
    /\ UNCHANGED <<flow, task, glance, callbacks, freighter, seen, script>>

\* What a failed request leaves.
Failing(f) ==
    CASE task.kind = "connect" /\ SameSession(task.session) -> [f EXCEPT !.token = None]
      [] task.kind = "access" /\ SameSession(task.session) /\ f.screening # None ->
            [f EXCEPT !.screening = "unavailable"]
      [] OTHER -> f

Lost ==
    /\ At("asked") /\ Fault
    /\ \/ UNCHANGED inflight
       \/ task.kind \in Posts /\ task.reply = None /\ inflight' = inflight \cup {Request}
    /\ task' = None
    /\ flow' = Failing(flow)
    /\ UNCHANGED <<glance, callbacks, freighter, desk, seen>>

\* Slip: a refused retry forgets that the outcome of the first is unknown.
StillPending_Forgets(f) == FALSE
StillPending(f) == task.unknown

\* An answer, applied unless the session is another one by then.
Replies(kinds) == At("asked") /\ task.reply # None /\ task.kind \in kinds
Ended == UNCHANGED <<glance, callbacks, freighter, desk, inflight, script>>

Refused ==
    /\ Replies(Runs \cup {"initialize"}) /\ task.reply.is = "refused"
    /\ task' = None /\ flow' = Failing(flow)
    /\ UNCHANGED seen /\ Ended

Outlived ==
    /\ Replies(Runs) /\ task.reply.is # "refused" /\ ~SameSession(task.session)
    /\ Throw
    /\ UNCHANGED seen /\ Ended

Answered(kinds) ==
    Replies(kinds) /\ task.reply.is # "refused" /\ SameSession(task.session)

Initialized ==
    /\ Answered({"initialize"})
    /\ task' = None /\ flow' = [flow EXCEPT !.info = TRUE]
    /\ UNCHANGED seen /\ Ended

\* readAccess: the wallet is still the same.
Admitted ==
    /\ Answered({"connect", "access"})
    /\ IF freighter # (IF task.kind = "connect" THEN task.with ELSE flow.wallet)
       THEN flow' = Failing(flow) /\ task' = None
       ELSE IF task.kind = "connect"
       THEN /\ flow' = [flow EXCEPT !.wallet = task.with, !.screening = task.reply.is]
            /\ task' = [task EXCEPT !.step = "setup", !.reply = None]
       ELSE /\ flow' = [flow EXCEPT !.screening = task.reply.is]
            /\ task' = None
    /\ UNCHANGED seen /\ Ended

Quoted ==
    /\ Answered({"quote"})
    /\ task' = None
    /\ flow' = [flow EXCEPT !.quote = task.reply.id, !.beneficiary = None]
    /\ UNCHANGED seen /\ Ended

\* createOrder: whether a reservation may exist is known again when its order is
\* shown, when it was refused and none was sent before, or when its quote expired.
Ordered ==
    /\ Answered({"reserve"})
    /\ task' = None
    /\ flow' = CASE task.reply.is = "ofac" ->
                       [flow EXCEPT !.pending = StillPending(flow),
                                    !.screening = IF @ = None THEN None ELSE "match"]
                 [] task.reply.is = "not_admitted" -> [flow EXCEPT !.pending = StillPending(flow)]
                 [] task.reply.is = "quote_expired" -> [ClearQuote(flow) EXCEPT !.pending = FALSE]
                 [] task.reply.is = "order" ->
                       [AcceptOrder(flow, task.reply) EXCEPT !.pending = FALSE]
    /\ seen' = IF task.reply.is = "order" THEN seen \cup {task.reply.id} ELSE seen
    /\ Ended

\* The order as orderAction, signProof and refresh have it answered.
Accepts(f) == /\ task' = None /\ flow' = AcceptOrder(f, task.reply)
              /\ UNCHANGED seen /\ Ended
Acted     == Answered({"authorize", "bank", "settle"}) /\ Accepts(flow)
Submitted == Answered({"sign"}) /\ Accepts([CancelPhone(flow) EXCEPT !.prepared = None])
Refreshed == Answered({"refresh"}) /\ Accepts(flow)

-----------------------------------------------------------------------------
\* requestProof, and the phone.

Configured ==
    /\ Answered({"prove"})
    /\ IF task.with = flow.phoneGeneration /\ desk.policy
       THEN task' = [task EXCEPT !.step = "client", !.reply = None] ELSE task' = None
    /\ UNCHANGED <<flow, seen>> /\ Ended

\* active, inside the callbacks of a phone request
Current(id) == callbacks[id].session = flow.generation
               /\ callbacks[id].generation = flow.phoneGeneration
Active(id) == Current(id) /\ desk.policy

\* The client of the phone request is made, or cancelled at once.
Client ==
    LET active == /\ SameSession(task.session) /\ task.with = flow.phoneGeneration
                  /\ desk.policy
    IN
    /\ At("client")
    /\ task' = None
    /\ \/ /\ callbacks' = Append(callbacks, [session |-> task.session, generation |-> task.with,
                                             order |-> task.order,
                                             step |-> IF active THEN "ready" ELSE "done"])
          /\ flow' = IF active THEN [flow EXCEPT !.phone = Len(callbacks) + 1] ELSE flow
          /\ UNCHANGED script
       \/ Fault /\ UNCHANGED <<callbacks, flow>>
    /\ UNCHANGED <<glance, freighter, desk, inflight, seen>>

Callback(id, step) == callbacks' = [callbacks EXCEPT ![id].step = step]

\* proof: the one proof of a request is taken while the request is active ...
ProofArrives(id) ==
    /\ callbacks[id].step = "ready" /\ Active(id)
    /\ Callback(id, "proof") /\ flow' = [flow EXCEPT !.phone = None]
    /\ UNCHANGED <<task, glance, freighter, desk, inflight, seen, script>>

\* ... prepared by the anchor ...
Prepares(id) ==
    /\ callbacks[id].step = "proof"
    /\ IF SameWallet /\ Active(id)
          /\ Signing(desk.orders[callbacks[id].order]) = {}
          /\ Stage(desk.orders[callbacks[id].order])
                \in Needs("sign", desk.orders[callbacks[id].order].direction)
       THEN \/ Callback(id, "prepared") /\ UNCHANGED script
            \/ Fault /\ Callback(id, "done")
       ELSE Callback(id, "done") /\ UNCHANGED script
    /\ UNCHANGED <<flow, task, glance, freighter, desk, inflight, seen>>

\* Slip: the request is not looked at again when the answer arrives.
Wanted_Anyway(id) == TRUE
Wanted(id) == Active(id)

\* ... and shown for signature, if the request is still active.
Prepared(id) ==
    /\ callbacks[id].step = "prepared"
    /\ Callback(id, "done")
    /\ flow' = IF Wanted(id)
               THEN [flow EXCEPT !.prepared = [phone |-> id, order |-> callbacks[id].order]]
               ELSE flow
    /\ UNCHANGED <<task, glance, freighter, desk, inflight, seen, script>>

\* rejected, by the phone or by the timer of the request
Rejected(id) ==
    /\ callbacks[id].step = "ready" /\ Current(id) /\ Fault
    /\ Callback(id, "done") /\ flow' = CancelPhone(flow)
    /\ UNCHANGED <<task, glance, freighter, desk, inflight, seen>>

\* render: no phone request outlives the policy.
Renders ==
    /\ RecoveryOnly /\ flow.phone # None
    /\ flow' = CancelPhone(flow)
    /\ UNCHANGED <<task, glance, callbacks, freighter, desk, inflight, seen, script>>

-----------------------------------------------------------------------------
\* checkAutomatically: an order that is not done is read again quietly.

Glances ==
    /\ glance = None /\ task = None /\ ~flow.closed
    /\ SameWallet /\ flow.order # None /\ ~flow.pending
    /\ Stage(flow.order.o) # "settled" \/ Pending
    /\ glance' = [order |-> flow.order.id, session |-> flow.generation, reply |-> None]
    /\ UNCHANGED <<flow, task, callbacks, freighter, desk, inflight, seen, script>>

GlanceServed ==
    /\ glance # None /\ glance.reply = None
    /\ \/ glance' = [glance EXCEPT !.reply = Answer(desk, glance.order)] /\ UNCHANGED script
       \/ Fault /\ glance' = None
    /\ UNCHANGED <<flow, task, callbacks, freighter, desk, inflight, seen>>

Glanced ==
    /\ glance # None /\ glance.reply # None
    /\ glance' = None
    /\ flow' = IF SameSession(glance.session) THEN AcceptOrder(flow, glance.reply) ELSE flow
    /\ UNCHANGED <<task, callbacks, freighter, desk, inflight, seen, script>>

-----------------------------------------------------------------------------
\* The wallet, the page and the anchor by themselves.

Switches ==
    /\ Fault /\ freighter' \in Wallets \ {freighter}
    /\ UNCHANGED <<flow, task, glance, callbacks, desk, inflight, seen>>

\* The watcher ends the session of an account that is no longer selected.
Watches ==
    /\ flow.wallet # None /\ freighter # flow.wallet
    /\ flow' = NoSession(flow)
    /\ UNCHANGED <<task, glance, callbacks, freighter, desk, inflight, seen, script>>

\* pagehide
Leaves ==
    /\ ~flow.closed /\ Fault
    /\ flow' = [NoSession(flow) EXCEPT !.closed = TRUE]
    /\ UNCHANGED <<task, glance, callbacks, freighter, desk, inflight, seen>>

\* A transaction of an order is confirmed, or fails: the contract takes it at the
\* stages its operation needs only.
Lands(o, p) == Stage(o) \in Needs(p.kind, o.direction)
Confirms(n) ==
    LET o == desk.orders[n] IN
    /\ \/ /\ o.step = 1 /\ UNCHANGED script
          /\ desk' = [desk EXCEPT !.orders[n].step = 2]
       \/ \E p \in o.pending :
             \/ /\ Lands(o, p) /\ UNCHANGED script
                /\ desk' = [desk EXCEPT !.orders[n] =
                      [o EXCEPT !.pending = @ \ {p},
                                !.proofs = IF p.kind = "sign" THEN @ \cup {p.with} ELSE @,
                                !.step = IF p.kind = "sign" /\ @ > 2 THEN @ ELSE @ + 1]]
             \/ /\ (~Lands(o, p) /\ UNCHANGED script) \/ Fault
                /\ desk' = [desk EXCEPT !.orders[n].pending = @ \ {p}]
    /\ UNCHANGED <<flow, task, glance, callbacks, freighter, inflight, seen>>

Expires ==
    /\ Fault
    /\ \/ /\ \E q \in DOMAIN desk.quotes : desk.quotes[q].live
          /\ desk' = [desk EXCEPT !.quotes = [q \in DOMAIN @ |-> [@[q] EXCEPT !.live = FALSE]]]
       \/ desk.policy /\ desk' = [desk EXCEPT !.policy = FALSE]
    /\ UNCHANGED <<flow, task, glance, callbacks, freighter, inflight, seen>>

-----------------------------------------------------------------------------

Loaded ==
    [info |-> FALSE, closed |-> FALSE, generation |-> 0, phoneGeneration |-> 0,
     token |-> None, wallet |-> None, ready |-> FALSE, screening |-> None,
     direction |-> "deposit", quote |-> None, beneficiary |-> None, pending |-> FALSE,
     order |-> None, phone |-> None, prepared |-> None]

\* A page just loaded, or one whose customer has connected and resumed the first of
\* the orders reserved before.
Init ==
    /\ script \in Scripts
    /\ freighter = script.account
    /\ desk = [quotes |-> [n \in DOMAIN script.orders |->
                              [wallet |-> freighter, direction |-> script.orders[n].direction,
                               live |-> FALSE]],
               orders |-> [n \in DOMAIN script.orders |->
                              [script.orders[n] EXCEPT !.wallet = freighter]],
               policy |-> TRUE]
    /\ IF script.orders = <<>>
       THEN flow = Loaded /\ task = [kind |-> "initialize", step |-> "begin", session |-> 0,
                                     with |-> None, order |-> None, unknown |-> FALSE,
                                     reply |-> None]
       ELSE /\ flow = [Loaded EXCEPT !.info = TRUE, !.generation = 2, !.token = freighter,
                                     !.wallet = freighter, !.ready = TRUE, !.screening = "no_match",
                                     !.direction = script.orders[1].direction,
                                     !.order = Answer(desk, 1)]
            /\ task = None
    /\ glance = None /\ callbacks = <<>> /\ inflight = {} /\ seen = {}

Next ==
    \/ \E kind \in Immediate \cup Runs : Presses(kind)
    \/ Begin \/ Selects \/ LogsIn \/ Setup \/ SetupFails \/ Signs
    \/ Withholds \/ SendsReservation \/ SendsProofRequest \/ SendsAction
    \/ Served \/ Lost \/ Refused \/ Outlived
    \/ Initialized \/ Admitted \/ Quoted \/ Ordered
    \/ Acted \/ Submitted \/ Refreshed
    \/ Configured \/ Client \/ Renders
    \/ \E id \in DOMAIN callbacks :
          ProofArrives(id) \/ Prepares(id) \/ Prepared(id) \/ Rejected(id)
    \/ Glances \/ GlanceServed \/ Glanced
    \/ Switches \/ Watches \/ Leaves \/ Expires
    \/ \E r \in inflight : ServedLate(r)
    \/ \E n \in DOMAIN desk.orders : Confirms(n)

Spec == Init /\ [][Next]_vars

-----------------------------------------------------------------------------
\* Properties.

\* An order the anchor reserved for this session was shown to the customer, or
\* the page still says that a reservation may exist, whatever answers were lost,
\* arrived late or refused a retry: it never offers to begin another one instead.
ReservationKept ==
    \A n \in DOMAIN desk.orders :
        desk.orders[n].session = flow.generation => n \in seen \/ flow.pending

\* A proof offered for signature was made for the order shown, by the last phone
\* request, in this session: none that the customer cancelled, replaced or left
\* comes back with a late answer.
PreparedCurrent ==
    flow.prepared # None =>
        /\ flow.order # None /\ flow.prepared.order = flow.order.id
        /\ flow.prepared.phone = Len(callbacks)
        /\ callbacks[flow.prepared.phone].session = flow.generation

\* The order shown never goes back to an earlier stage, although automatic checks
\* and actions read it at the same anchor and their answers carry no order.
StagesForward ==
    [][flow.order # None /\ flow'.order # None /\ flow'.order.id = flow.order.id
       => flow'.order.o.step >= flow.order.o.step]_flow

=============================================================================
