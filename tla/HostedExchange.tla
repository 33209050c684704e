--------------------------- MODULE HostedExchange ---------------------------
(***************************************************************************)
(* The hosted page of one withdrawal (web/sep-anchor.ts) in the tabs of a   *)
(* browser, the links and sessions that let it in, and the routes it calls *)
(* (src/routes/sep-anchor.ts).  The order itself is the one of             *)
(* SepCoordinator, reduced to what the page tells apart; a wallet that      *)
(* launches again resumes it.                                              *)
(*                                                                         *)
(* A page does one action at a time (`busy`), each a sequence of awaits;   *)
(* beside it run a poll of the order's state, a check of the payment's     *)
(* receipt, the phone that makes a proof, and timers.  Answers are lost,   *)
(* requests arrive late, pages are hidden and reloaded; what a tab keeps   *)
(* in sessionStorage survives.                                             *)
(*                                                                         *)
(* Abstractions.  Texts, amounts and account setup are left out, a firm    *)
(* quote named by the wallet is read with the first state, and signatures, *)
(* memos and proofs are well formed.                                       *)
(***************************************************************************)
EXTENDS Integers, Sequences, FiniteSets

CONSTANTS
    Tabs, Quotes, Dests,   \* dests: bank destinations a customer may give
    Named,                 \* the quote the wallet named when it began, or None
    Plans,                 \* bound: what was done before, what the customer
                           \* does in each tab, how many buttons of a tab are
                           \* pressed, and how many faults (lost answers,
                           \* refusals, hidden pages, expiries) happen
    None,
    MaxPolls,              \* bound on the polls of a tab
    MaxLinks               \* bound on the links issued

\* An order as the server has it and a page reads it.
OrderType ==
    [accepted : ((Quotes \cup {Named}) \X Dests) \cup {None}, eligible : BOOLEAN,
     stage : {"none", "open", "paid", "authorized", "completed", "refunded"}]

\* None is no number, no answer, no terms and no order, and a session is one for an
\* order that exists.
ASSUME HostedAssumption ==
    /\ None \notin Nat /\ None \notin {"ok", "refused"}
    /\ None \notin (Quotes \cup {Named}) \X Dests /\ None \notin OrderType
    /\ MaxLinks \in Nat
    /\ \A p \in Plans :
         /\ p.order \in OrderType /\ p.session \in BOOLEAN
         /\ p.order.stage = "none" => p.order.accepted = None /\ ~p.session

VARIABLES
    order,      \* what the server knows
    late,       \* requests whose page gave up, which may still be handled
    links,      \* one-use links, in the order of issue
    cookie,     \* whether the browser holds a valid session for the order
    place,      \* where each tab is
    page,       \* the variables of the page's script
    storage,    \* sessionStorage of each tab
    payments,   \* the transactions signed for the order
    account,    \* sequence number of the customer's account
    phones,     \* phone requests, and history of what became of them
    believed,   \* history: acceptances that a page took for accepted
    opened,     \* history: the links that gave a session
    plan, presses, polls, faults

server == <<order, late, links, cookie>>
chain  == <<payments, account>>
histories == <<believed, opened>>
bounds == <<plan, presses, polls, faults>>
vars   == <<server, place, page, storage, chain, phones, histories, bounds>>

-----------------------------------------------------------------------------
\* The server's order, and what a page reads of it.

Eligible(o)   == o.eligible
Authorized(o) == o.stage \in {"authorized", "completed"}
Ended(o)      == o.stage \in {"completed", "refunded"}
Ready(o)      == o.accepted # None /\ o.eligible /\ o.stage = "open"
CanRefund(o)  == o.stage = "paid"

Fault == faults < plan.faults /\ faults' = faults + 1

\* What the server takes, and does: quote and accept (which repeats itself for
\* the same terms), proof-request and proof, mock-bank and refund (which answer
\* for what was done before).
Takes(kind, with) ==
    CASE kind = "quote"  -> order.accepted = None
      [] kind = "accept" -> order.accepted \in {None, <<with.quote, with.dest>>}
      [] kind \in {"request", "proof"} -> ~Ended(order)
      [] kind = "bank"   -> (order.stage = "paid" /\ order.eligible) \/ Authorized(order)
      [] kind = "refund" -> CanRefund(order) \/ order.stage = "refunded"
Handled(kind, with) ==
    order' = CASE kind = "accept" -> [order EXCEPT !.accepted = <<with.quote, with.dest>>]
               [] kind = "proof"  -> [order EXCEPT !.eligible = TRUE]
               [] kind = "bank" /\ ~Authorized(order) -> [order EXCEPT !.stage = "authorized"]
               [] kind = "refund" -> [order EXCEPT !.stage = "refunded"]
               [] OTHER -> order

-----------------------------------------------------------------------------
\* The page's variables.

At(where, n) == [at |-> where, link |-> n]
Away         == At("away", None)
Signed       == At("signed", None)   \* holds a token
OnPage(t)    == place[t].at = "page"

Done(f)  == [f EXCEPT !.answer = "done", !.read = None]
Fetch(n) == [sequence |-> n, answer |-> "asked", read |-> None]
Fresh ==
    [closed |-> FALSE, started |-> FALSE, info |-> FALSE,
     busy |-> [kind |-> "start", step |-> "refresh", with |-> None, fetch |-> Fetch(1),
               reply |-> None],
     queued |-> None, poll |-> None, check |-> None,
     view |-> None, sequence |-> 1, applied |-> 0,
     quote |-> None, uncertain |-> None, source |-> None,
     epoch |-> 0, phone |-> None, received |-> FALSE, requests |-> {},
     confirmed |-> None]

\* pollingComplete
Complete(pg) == pg.view # None /\ Ended(pg.view)

\* cancelPhone
CancelPhone(pg) == [pg EXCEPT !.epoch = @ + 1, !.phone = None]

\* Slip: a queued proof is sent whatever became of its request meanwhile.
Current_Unchecked(pg, id) == ~pg.closed
Current(pg, id) == ~pg.closed /\ phones[id].epoch = pg.epoch

\* submitProof, as an action of its own
Submits(pg, id) ==
    IF Current(pg, id)
    THEN [CancelPhone(pg) EXCEPT !.source = None,
              !.busy = [kind |-> "proof", step |-> "post", with |-> id, fetch |-> None,
                        reply |-> None]]
    ELSE [pg EXCEPT !.source = None]

\* The end of an action: the proof that came meanwhile is submitted.
Finish(pg) ==
    LET idle == [pg EXCEPT !.busy = None, !.started = TRUE] IN
    IF pg.queued # None /\ ~pg.closed
    THEN Submits([idle EXCEPT !.queued = None], pg.queued) ELSE idle

\* action's catch
Throw(pg) == Finish([pg EXCEPT !.source = "action"])
NetworkError(pg) == Finish([pg EXCEPT !.source = IF Complete(pg) THEN None ELSE "action"])

Start(pg, kind, step, with) ==
    [pg EXCEPT !.source = None,
               !.busy = [kind |-> kind, step |-> step, with |-> with, fetch |-> None,
                         reply |-> None]]
Refresh(pg, step) ==
    [pg EXCEPT !.sequence = @ + 1,
               !.busy = [@ EXCEPT !.step = step, !.fetch = Fetch(pg.sequence + 1)]]

\* A page's move, with the history of phone requests: which were ended by
\* cancelPhone, how often a proof was submitted for each, and whether one was
\* submitted after that end.
Submitting(pg) == pg.busy # None /\ pg.busy.kind = "proof"
Tally(t, pg) ==
    [id \in DOMAIN phones |->
        LET r     == phones[id]
            sends == Submitting(pg) /\ pg.busy.with = id /\ r.tab = t
                        /\ ~(Submitting(page[t]) /\ page[t].busy.with = id)
        IN [r EXCEPT !.ended = @ \/ (r.tab = t /\ page[t].phone = id /\ pg.phone # id),
                     !.sent = IF sends THEN @ + 1 ELSE @,
                     !.stale = @ \/ (sends /\ r.ended)]]
Moves(t, pg) ==
    /\ page' = [page EXCEPT ![t] = pg]
    /\ phones' = Tally(t, pg)

Working(t, kind, step) ==
    /\ OnPage(t) /\ page[t].busy # None
    /\ page[t].busy.kind = kind /\ page[t].busy.step = step

-----------------------------------------------------------------------------
\* Links and sessions.

Live(n) == n \in DOMAIN links /\ links[n] = "live"

\* issue: the newest link is handed again while it is good, unless it is about
\* to expire.
Issue(n) ==
    \/ /\ Live(n) /\ \A m \in DOMAIN links : Live(m) => m <= n
       /\ UNCHANGED links
    \/ /\ n = Len(links) + 1 /\ n <= MaxLinks
       /\ links' = Append(links, "live")

\* login: whatever fails leaves the tab without a token.
Login(t) ==
    /\ place[t] \in {Away, Signed} /\ "launch" \in plan.does[t]
    /\ \/ place' = [place EXCEPT ![t] = Signed] /\ UNCHANGED faults
       \/ Fault /\ place' = [place EXCEPT ![t] = Away]
    /\ UNCHANGED <<server, page, storage, chain, phones, histories, plan, presses, polls>>

\* beginInteractive creates the order, and transaction finds it; either hands
\* the wallet a link.
Begins  == /\ order.stage = "none"
           /\ \E eligible \in BOOLEAN :
                 order' = [accepted |-> None, eligible |-> eligible, stage |-> "open"]
Resumes == order.stage # "none" /\ UNCHANGED order

\* The tab follows its link with the token given up, or the answer is lost.
Launch(t) ==
    /\ place[t] = Signed
    /\ presses[t] < plan.presses
    /\ presses' = [presses EXCEPT ![t] = @ + 1]
    /\ Begins \/ Resumes
    /\ \E n \in 1..MaxLinks :
          /\ Issue(n)
          /\ \/ /\ place' = [place EXCEPT ![t] = At("link", n)]
                /\ storage' = [storage EXCEPT ![t].launcher = TRUE]
                /\ UNCHANGED faults
             \/ Resumes /\ Fault /\ UNCHANGED <<place, storage>>
    /\ UNCHANGED <<late, cookie, page, chain, phones, histories, plan, polls>>

Loads(t) ==
    /\ place' = [place EXCEPT ![t] = At("page", None)]
    /\ page' = [page EXCEPT ![t] = Fresh]
    /\ phones' = [id \in DOMAIN phones |->
                    IF phones[id].tab = t THEN [phones[id] EXCEPT !.ended = TRUE]
                    ELSE phones[id]]

\* Slip: the link is looked up, and deleted with the session it gives.
Consumed_Later(n) == links
\* DELETE ... RETURNING
Consumed(n) == [links EXCEPT ![n] = "used"]

\* GET interactive/:id with a token: a browser that has a session keeps it and
\* the link; otherwise the link is consumed, the order awaited ...
Open(t) ==
    /\ place[t].at = "link"
    /\ \/ cookie /\ Loads(t) /\ UNCHANGED <<links, cookie>>
       \/ /\ ~cookie /\ Live(place[t].link)
          /\ links' = Consumed(place[t].link)
          /\ place' = [place EXCEPT ![t].at = "opening"]
          /\ UNCHANGED <<page, phones, cookie>>
       \/ /\ ~cookie /\ ~Live(place[t].link)
          /\ place' = [place EXCEPT ![t] = Away]
          /\ UNCHANGED <<links, page, phones, cookie>>
    /\ UNCHANGED <<order, late, storage, chain, histories, bounds>>

\* ... and a session issued, unless the await failed: then the link is gone.
Opened(t) ==
    /\ place[t].at = "opening"
    /\ \/ /\ Loads(t) /\ cookie' = TRUE
          /\ opened' = Append(opened, place[t].link)
          /\ links' = [links EXCEPT ![place[t].link] = "used"]
          /\ UNCHANGED faults
       \/ /\ Fault
          /\ place' = [place EXCEPT ![t] = Away]
          /\ UNCHANGED <<opened, links, page, phones, cookie>>
    /\ UNCHANGED <<order, late, storage, chain, believed, plan, presses, polls>>

\* A page is hidden (its script may go on), and reloaded: without a session the
\* tab is sent back to sign in.
Hide(t) ==
    /\ OnPage(t) /\ ~page[t].closed
    /\ Fault
    /\ Moves(t, [CancelPhone(page[t]) EXCEPT !.closed = TRUE])
    /\ UNCHANGED <<server, place, storage, chain, histories, plan, presses, polls>>
Reload(t) ==
    /\ OnPage(t) /\ page[t].closed
    /\ IF cookie THEN Loads(t)
       ELSE /\ place' = [place EXCEPT ![t] = Away]
            /\ UNCHANGED <<page, phones>>
    /\ UNCHANGED <<server, storage, chain, histories, bounds>>


-----------------------------------------------------------------------------
\* refresh, of the action or of the poll.

\* acceptanceAcknowledged
\* Slip: the bank destination is not compared.
Acknowledged_AnyDest(pg, a) ==
    pg.applied > a.after /\ pg.view.accepted # None /\ pg.view.accepted[1] = a.quote
Acknowledged(pg, a) ==
    pg.applied > a.after /\ pg.view.accepted = <<a.quote, a.dest>>

Learns(pg, o) ==
    LET read  == [pg EXCEPT !.view = o]
        idle  == IF (Eligible(o) \/ Authorized(o)) /\ pg.phone # None
                 THEN CancelPhone(read) ELSE read
        first == IF pg.view = None /\ o.accepted = None
                 THEN [idle EXCEPT !.quote = Named] ELSE idle
    IN CASE pg.source = "acceptance" /\ pg.uncertain # None
                /\ Acknowledged(first, pg.uncertain) ->
              [first EXCEPT !.uncertain = None, !.quote = None, !.source = None]
         [] pg.source = "status" \/ (pg.source # "acceptance" /\ Complete(first)) ->
              [first EXCEPT !.source = None]
         [] OTHER -> first

\* Its answer is applied unless that of a later refresh was; then the receipt of
\* a payment is checked, by one check for both.
FetchOf(t, who) == IF who = "poll" THEN page[t].poll
                   ELSE IF page[t].busy = None THEN None ELSE page[t].busy.fetch
WithFetch(pg, who, f) == IF who = "poll" THEN [pg EXCEPT !.poll = f]
                         ELSE [pg EXCEPT !.busy.fetch = f]
Reconciles(t, pg) ==
    IF pg.check = None /\ storage[t].payment \notin {None, pg.confirmed}
    THEN [pg EXCEPT !.check = storage[t].payment] ELSE pg

Answers(t, who) ==
    LET f == FetchOf(t, who) IN
    /\ OnPage(t) /\ f # None /\ f.answer = "asked"
    /\ \/ /\ Moves(t, WithFetch(page[t], who,
                          IF cookie THEN [f EXCEPT !.answer = "read", !.read = order]
                                 ELSE [f EXCEPT !.answer = "refused"]))
          /\ UNCHANGED faults
       \/ Fault /\ Moves(t, WithFetch(page[t], who, [f EXCEPT !.answer = "lost"]))
    /\ UNCHANGED <<server, place, storage, chain, histories, plan, presses, polls>>

Applies(t, who) ==
    LET f  == FetchOf(t, who)
        pg == page[t]
    IN
    /\ OnPage(t) /\ f # None /\ f.answer = "read"
    /\ IF f.sequence < pg.applied
       THEN /\ Moves(t, WithFetch(pg, who, Done(f)))
            /\ UNCHANGED histories
       ELSE LET new == Learns([pg EXCEPT !.applied = f.sequence], f.read)
                chk == Reconciles(t, new)
            IN /\ Moves(t, WithFetch(chk, who,
                            IF chk.check = None THEN Done(f)
                            ELSE [f EXCEPT !.answer = "checking", !.read = None]))
               /\ believed' = IF pg.uncertain # None /\ new.uncertain = None
                              THEN believed \cup {pg.uncertain} ELSE believed
               /\ UNCHANGED opened
    /\ UNCHANGED <<server, place, storage, chain, bounds>>

\* Slip: a payment whose receipt is not found counts as failed.
Failed_Unless(p) == payments[p].status # "success"
Failed(p) == payments[p].status = "failed"

\* checkPayment: only a receipt decides, and one that cannot be had says nothing.
Checked(t) ==
    LET p  == page[t].check
        pg == [page[t] EXCEPT !.check = None]
    IN
    /\ OnPage(t) /\ p # None
    /\ \/ Moves(t, pg) /\ UNCHANGED storage
       \/ /\ ~pg.closed /\ storage[t].payment = p
          /\ \/ /\ payments[p].status = "success"
                /\ Moves(t, [pg EXCEPT !.confirmed = p]) /\ UNCHANGED storage
             \/ /\ Failed(p)
                /\ Moves(t, pg)
                /\ storage' = [storage EXCEPT ![t].payment = None]
    /\ UNCHANGED <<server, place, chain, histories, bounds>>

\* A refresh awaits the check that is under way.
Awaited(t, who) ==
    LET f == FetchOf(t, who) IN
    /\ OnPage(t) /\ f # None
    /\ f.answer = "checking" /\ page[t].check = None
    /\ Moves(t, WithFetch(page[t], who, Done(f)))
    /\ UNCHANGED <<server, place, storage, chain, histories, bounds>>

-----------------------------------------------------------------------------
\* The poll, and the configuration it recovers.

Poll(t) ==
    LET pg == page[t] IN
    /\ OnPage(t) /\ pg.started /\ pg.busy = None /\ pg.poll = None
    /\ ~pg.closed /\ ~Complete(pg)
    /\ polls[t] < MaxPolls
    /\ polls' = [polls EXCEPT ![t] = @ + 1]
    /\ Moves(t, [pg EXCEPT !.sequence = @ + 1, !.poll = Fetch(pg.sequence + 1)])
    /\ UNCHANGED <<server, place, storage, chain, histories, plan, presses, faults>>

\* recoverConfiguration
Recovers(pg, found) ==
    IF pg.info \/ Complete(pg) THEN pg
    ELSE IF found THEN [pg EXCEPT !.info = TRUE,
                          !.source = IF @ = "configuration" THEN None ELSE @]
    ELSE [pg EXCEPT !.source = IF @ \in {"action", "acceptance"} THEN @ ELSE "configuration"]

Polled(t) ==
    LET pg == [page[t] EXCEPT !.poll = None]
        f  == page[t].poll
    IN
    /\ OnPage(t) /\ f # None
    /\ \/ /\ f.answer = "done"
          /\ \/ Moves(t, Recovers(pg, TRUE)) /\ UNCHANGED faults
             \/ Fault /\ ~pg.info /\ Moves(t, Recovers(pg, FALSE))
       \/ /\ f.answer \in {"lost", "refused"}
          /\ Moves(t, IF pg.source \in {None, "status"} /\ ~(f.answer = "lost" /\ Complete(pg))
                      THEN [pg EXCEPT !.source = "status"] ELSE pg)
          /\ UNCHANGED faults
    /\ UNCHANGED <<server, place, storage, chain, histories, plan, presses, polls>>

-----------------------------------------------------------------------------
\* Buttons, as render shows and enables them.

Offers(t, kind) ==
    LET pg == page[t]
        v  == pg.view
    IN /\ OnPage(t) /\ pg.busy = None /\ v # None
       /\ CASE kind = "quote"  -> v.accepted = None /\ pg.quote = None
            [] kind \in {"change", "accept"} -> v.accepted = None /\ pg.quote # None
            [] kind = "prove"  -> /\ v.accepted # None /\ ~Eligible(v)
                                  /\ ~Ended(v) /\ ~Authorized(v) /\ pg.phone = None
            [] kind = "cancel" -> pg.phone # None
            [] kind = "pay"    -> Ready(v) /\ storage[t].launcher /\ storage[t].payment = None
            [] kind = "bank"   -> Eligible(v) /\ v.stage = "paid"
            [] kind = "refund" -> CanRefund(v)

\* Presses of buttons that begin an action.
Presses(t, kind, dest) ==
    LET pg == page[t]
        started ==
            CASE kind \in {"quote", "bank", "refund"} -> Start(pg, kind, "post", None)
              [] kind = "accept" ->
                    Start(pg, kind, "post", [quote |-> pg.quote, dest |-> dest, after |-> pg.applied])
              [] kind = "prove" -> Start(pg, kind, "request", None)
              [] kind = "pay" -> IF pg.info THEN Refresh(Start(pg, kind, "refresh", None), "refresh")
                                 ELSE [pg EXCEPT !.source = "action"]
              [] kind = "change" -> [pg EXCEPT !.quote = None]
              [] kind = "cancel" -> CancelPhone(pg)
    IN
    /\ Offers(t, kind)
    /\ kind \in plan.does[t]
    /\ presses[t] < plan.presses
    /\ presses' = [presses EXCEPT ![t] = @ + 1]
    /\ Moves(t, started)
    /\ UNCHANGED <<server, place, storage, chain, histories, plan, polls, faults>>

-----------------------------------------------------------------------------
\* Actions that post a request, and read the order again.

Posted(t) == /\ OnPage(t) /\ page[t].busy # None
             /\ page[t].busy.step \in {"post", "request"}
             /\ page[t].busy.fetch = None
KindOf(b) == IF b.step = "request" THEN "request" ELSE b.kind

\* The server answers, or refuses.
Serves(t) ==
    LET b == page[t].busy IN
    /\ Posted(t) /\ b.reply = None
    /\ IF cookie /\ Takes(KindOf(b), b.with)
       THEN /\ Handled(KindOf(b), b.with)
            /\ Moves(t, [page[t] EXCEPT !.busy.reply = "ok"])
       ELSE /\ Moves(t, [page[t] EXCEPT !.busy.reply = "refused"])
            /\ UNCHANGED order
    /\ UNCHANGED <<late, links, cookie, place, storage, chain, histories, bounds>>

\* The answer arrives.
Replied(t) ==
    LET pg == page[t]
        b  == pg.busy
    IN
    /\ Posted(t) /\ b.kind # "prove" /\ b.reply # None
    /\ IF b.reply = "refused" THEN Moves(t, Throw(pg)) /\ UNCHANGED believed
       ELSE CASE b.kind = "quote" ->
                   /\ \E q \in Quotes : Moves(t, Finish([pg EXCEPT !.quote = q]))
                   /\ UNCHANGED believed
              [] b.kind = "accept" ->
                   /\ Moves(t, Refresh([pg EXCEPT !.uncertain = None, !.quote = None], "refresh"))
                   /\ believed' = believed \cup {b.with}
              [] OTHER -> Moves(t, Refresh(pg, "refresh")) /\ UNCHANGED believed
    /\ UNCHANGED <<server, place, storage, chain, opened, bounds>>

\* The answer is lost, and the request, if it did not arrive, may be late.
TimesOut(t) ==
    LET pg == page[t]
        b  == pg.busy
        uncertain ==
            IF Acknowledged(pg, b.with)
            THEN [pg EXCEPT !.uncertain = None, !.quote = None]
            ELSE [pg EXCEPT !.uncertain = b.with, !.source = "acceptance"]
    IN
    /\ Posted(t) /\ Fault
    /\ \/ UNCHANGED late
       \/ b.reply = None /\ b.step = "post" /\ late' = late \cup {[kind |-> b.kind, with |-> b.with]}
    /\ Moves(t, CASE b.kind = "accept" -> Finish(uncertain)
                  [] b.kind = "prove"  -> NetworkError(CancelPhone(pg))
                  [] OTHER -> NetworkError(pg))
    /\ believed' = IF b.kind = "accept" /\ Acknowledged(pg, b.with)
                   THEN believed \cup {b.with} ELSE believed
    /\ UNCHANGED <<order, links, cookie, place, storage, chain, opened, plan, presses, polls>>

ServedLate(r) ==
    /\ r \in late
    /\ late' = late \ {r}
    /\ IF cookie /\ Takes(r.kind, r.with) THEN Handled(r.kind, r.with) ELSE UNCHANGED order
    /\ UNCHANGED <<links, cookie, place, page, storage, chain, phones, histories, bounds>>

-----------------------------------------------------------------------------
\* prove, and the phone.

\* The configuration for a proof arrives: a phone request is made ...
Requests(t) ==
    LET pg  == CancelPhone(page[t])
        id  == Len(phones) + 1
        new == [pg EXCEPT !.received = FALSE, !.phone = id,
                          !.busy = [@ EXCEPT !.step = "client", !.with = id]]
    IN
    /\ Working(t, "prove", "request")
    /\ page[t].busy.reply # None
    /\ IF page[t].busy.reply = "refused" THEN Moves(t, Throw(pg))
       ELSE /\ page' = [page EXCEPT ![t] = new]
            /\ phones' = Append(Tally(t, new), [tab |-> t, epoch |-> new.epoch,
                                    ended |-> FALSE, sent |-> 0, stale |-> FALSE])
    /\ UNCHANGED <<server, place, storage, chain, histories, bounds>>

\* ... the client is ready, unless the request was cancelled meanwhile ...
Client(t) ==
    LET pg == page[t]
        id == pg.busy.with
    IN
    /\ Working(t, "prove", "client")
    /\ \/ /\ Moves(t, IF phones[id].epoch # pg.epoch THEN Finish(pg)
                      ELSE [pg EXCEPT !.requests = @ \cup {id}, !.busy.step = "code"])
          /\ UNCHANGED faults
       \/ Fault /\ Moves(t, Throw(CancelPhone(pg)))
    /\ UNCHANGED <<server, place, storage, chain, histories, plan, presses, polls>>

\* ... and its code is drawn, unless that fails and ends the request.
Drawn(t) ==
    /\ Working(t, "prove", "code")
    /\ \/ Moves(t, Finish(page[t])) /\ UNCHANGED faults
       \/ Fault /\ Moves(t, Throw(CancelPhone(page[t])))
    /\ UNCHANGED <<server, place, storage, chain, histories, plan, presses, polls>>

\* The phone produces a proof: it is submitted at once, or after the action.
ProofGenerated(t, id) ==
    LET pg == [page[t] EXCEPT !.received = TRUE] IN
    /\ OnPage(t) /\ id \in page[t].requests
    /\ phones[id].epoch = page[t].epoch /\ ~page[t].received
    /\ Moves(t, IF pg.busy # None THEN [pg EXCEPT !.queued = id] ELSE Submits(pg, id))
    /\ UNCHANGED <<server, place, storage, chain, histories, bounds>>

\* The phone declines, or the request expires.
PhoneEnds(t) ==
    /\ OnPage(t) /\ page[t].phone # None
    /\ Fault
    /\ Moves(t, CancelPhone(page[t]))
    /\ UNCHANGED <<server, place, storage, chain, histories, plan, presses, polls>>

-----------------------------------------------------------------------------
\* sendPayment, and what follows the refreshes of any action.

Payable(t, v) == Ready(v) /\ storage[t].payment = None
Built(t) == page[t].busy.with

\* The refresh of an action is done, or failed.
Continues(t) ==
    LET pg == page[t]
        b  == pg.busy
        f  == FetchOf(t, "action")
    IN
    /\ OnPage(t) /\ f # None
    /\ f.answer \in {"done", "lost", "refused"}
    /\ ~(b.kind = "pay" /\ b.step = "refresh2" /\ f.answer = "done")
    /\ CASE b.kind = "start" ->
              LET at == IF f.answer = "done" THEN pg ELSE [pg EXCEPT !.source = "status"] IN
              \/ Moves(t, Finish(Recovers(at, TRUE))) /\ UNCHANGED faults
              \/ Fault /\ Moves(t, Finish(Recovers(at, FALSE)))
         [] b.kind # "start" /\ f.answer = "lost" -> Moves(t, NetworkError(pg)) /\ UNCHANGED faults
         [] b.kind # "start" /\ f.answer = "refused" -> Moves(t, Throw(pg)) /\ UNCHANGED faults
         [] b.kind = "pay" /\ b.step = "refresh" /\ f.answer = "done" ->
              /\ Moves(t, IF Payable(t, pg.view)
                          THEN [pg EXCEPT !.busy = [@ EXCEPT !.step = "account", !.fetch = None]]
                          ELSE Throw(pg))
              /\ UNCHANGED faults
         [] OTHER -> Moves(t, Finish(pg)) /\ UNCHANGED faults
    /\ UNCHANGED <<server, place, storage, chain, histories, plan, presses, polls>>

\* The account's sequence number is read, and the payment built on it.
Builds(t) ==
    LET p == Len(payments) + 1 IN
    /\ Working(t, "pay", "account")
    /\ payments' = Append(payments, [tab |-> t, sequence |-> account, status |-> "built"])
    /\ Moves(t, [page[t] EXCEPT !.busy = [@ EXCEPT !.step = "sign", !.with = p]])
    /\ UNCHANGED <<server, place, storage, account, histories, bounds>>

\* The wallet signs, and the order is read again; or the customer declines.
Signs(t) ==
    /\ Working(t, "pay", "sign")
    /\ \/ Moves(t, Refresh(page[t], "refresh2")) /\ UNCHANGED faults
       \/ Fault /\ Moves(t, Throw(page[t]))
    /\ UNCHANGED <<server, place, storage, chain, histories, plan, presses, polls>>

\* The payment is recorded before it is posted, if it is still wanted in time.
Records(t) ==
    LET pg == page[t]
        f  == FetchOf(t, "action")
    IN
    /\ Working(t, "pay", "refresh2") /\ f.answer = "done"
    /\ \/ /\ Ready(pg.view)
          /\ storage' = [storage EXCEPT ![t].payment = Built(t)]
          /\ payments' = [payments EXCEPT ![Built(t)].status = "posted"]
          /\ Moves(t, [pg EXCEPT !.confirmed = None,
                                 !.busy = [@ EXCEPT !.step = "submit", !.fetch = None]])
          /\ UNCHANGED faults
       \/ /\ ~Ready(pg.view) /\ UNCHANGED faults
          /\ Moves(t, Throw(pg)) /\ UNCHANGED <<storage, payments>>
       \/ /\ Fault                              \* it took too long
          /\ Moves(t, Throw(pg)) /\ UNCHANGED <<storage, payments>>
    /\ UNCHANGED <<server, place, account, histories, plan, presses, polls>>

\* Whatever the answer, the receipt is checked ...
Submitted(t) ==
    /\ Working(t, "pay", "submit")
    /\ Moves(t, [Reconciles(t, page[t]) EXCEPT !.busy.step = "check"])
    /\ UNCHANGED <<server, place, storage, chain, histories, bounds>>

\* ... and the order read once more.
Rereads(t) ==
    /\ Working(t, "pay", "check") /\ page[t].check = None
    /\ Moves(t, Refresh(page[t], "refresh3"))
    /\ UNCHANGED <<server, place, storage, chain, histories, bounds>>

-----------------------------------------------------------------------------
\* The network and the server by themselves.

\* A payment is included in the order of the account's sequence numbers.
Include(p) ==
    /\ payments[p].status = "posted" /\ payments[p].sequence = account
    /\ \E outcome \in {"success", "failed"} :
          payments' = [payments EXCEPT ![p].status = outcome]
    /\ account' = account + 1
    /\ UNCHANGED <<server, place, page, storage, phones, histories, bounds>>

Paid == {p \in DOMAIN payments : payments[p].status = "success"}

World ==
    /\ \/ /\ order.stage = "open" /\ Paid # {}       \* ingress
          /\ order' = [order EXCEPT !.stage = "paid"]
          /\ UNCHANGED <<links, cookie, faults>>
       \/ /\ order.stage = "authorized"              \* receipt and settlement
          /\ order' = [order EXCEPT !.stage = "completed"]
          /\ UNCHANGED <<links, cookie, faults>>
       \/ /\ order.eligible /\ Fault                 \* eligibility lapses
          /\ order' = [order EXCEPT !.eligible = FALSE]
          /\ UNCHANGED <<links, cookie>>
       \/ /\ cookie /\ Fault                         \* the session expires
          /\ cookie' = FALSE
          /\ UNCHANGED <<order, links>>
       \/ /\ \E n \in DOMAIN links : Live(n)         \* a link expires
          /\ Fault
          /\ links' = [n \in DOMAIN links |-> "used"]
          /\ UNCHANGED <<order, cookie>>
    /\ UNCHANGED <<late, place, page, storage, chain, phones, histories, plan, presses, polls>>

-----------------------------------------------------------------------------

Init ==
    /\ plan \in Plans
    /\ order = plan.order
    /\ cookie = plan.session
    /\ late = {} /\ links = <<>> /\ payments = <<>> /\ account = 0 /\ phones = <<>>
    /\ place = [t \in Tabs |-> IF plan.session /\ plan.does[t] # {} THEN At("page", None) ELSE Away]
    /\ page = [t \in Tabs |-> Fresh]
    /\ storage = [t \in Tabs |-> [payment |-> None, launcher |-> plan.session]]
    /\ believed = {} /\ opened = <<>>
    /\ presses = [t \in Tabs |-> 0] /\ polls = [t \in Tabs |-> 0] /\ faults = 0

Buttons == {"quote", "change", "accept", "prove", "cancel", "pay", "bank", "refund"}

Tab(t) ==
    \/ Login(t) \/ Launch(t) \/ Open(t) \/ Opened(t) \/ Hide(t) \/ Reload(t)
    \/ Poll(t) \/ Polled(t)
    \/ \E who \in {"action", "poll"} : Answers(t, who) \/ Applies(t, who) \/ Awaited(t, who)
    \/ Checked(t)
    \/ \E kind \in Buttons, dest \in Dests : Presses(t, kind, dest)
    \/ Serves(t) \/ Replied(t) \/ TimesOut(t)
    \/ Requests(t) \/ Client(t) \/ Drawn(t) \/ PhoneEnds(t)
    \/ \E id \in DOMAIN phones : ProofGenerated(t, id)
    \/ Continues(t) \/ Builds(t) \/ Signs(t) \/ Records(t) \/ Submitted(t) \/ Rereads(t)

Next ==
    \/ \E t \in Tabs : Tab(t)
    \/ \E r \in late : ServedLate(r)
    \/ \E p \in DOMAIN payments : Include(p)
    \/ World

Spec == Init /\ [][Next]_vars

-----------------------------------------------------------------------------
\* Properties.

\* A tab pays for its order once: whatever answers were lost and however often
\* it was reloaded, it never has two payments of which each succeeded or may yet
\* succeed.
LivePayments(t) ==
    {p \in DOMAIN payments : /\ payments[p].tab = t
                             /\ \/ payments[p].status = "success"
                                \/ payments[p].status = "posted" /\ payments[p].sequence = account}
OneLivePayment == \A t \in Tabs : Cardinality(LivePayments(t)) <= 1

\* A proof is submitted at most once for each phone request, and never after
\* the request was cancelled, expired, was declined, became unnecessary or lost
\* its page, although it may wait for another action to end.
ProofsCurrent ==
    \A id \in DOMAIN phones : phones[id].sent <= 1 /\ ~phones[id].stale

\* A page takes the terms it sent for accepted only if they are, although the
\* answer to them may be lost and another tab may accept others of the same quote.
AcceptanceTrue ==
    \A a \in believed : order.accepted = <<a.quote, a.dest>>

\* A link gives at most one session, although tabs open it at the same time.
LinkOpensOnce ==
    \A i, j \in DOMAIN opened : i # j => opened[i] # opened[j]

=============================================================================
