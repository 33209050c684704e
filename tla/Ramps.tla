------------------------------- MODULE Ramps -------------------------------
(***************************************************************************)
(* The older, ungated ramps: SEP-6 deposits and withdrawals                *)
(* (src/routes/sep6.ts, src/core) with the background loops of             *)
(* src/workers.ts and the treasury account of src/stellar.ts, in the mode  *)
(* in which they are enabled.                                              *)
(*                                                                         *)
(* A deposit is funded by the simulated bank and becomes an on-ramp, which *)
(* the settling loop pays from the treasury; a withdrawal is an off-ramp   *)
(* that waits for a payment with its memo.  Three loops run side by side   *)
(* (settling, watching payments, calling wallets back), each a sequence of *)
(* awaits over the rows it read first, between them HTTP requests.         *)
(*                                                                         *)
(* Abstractions.  Texts, addresses, KYC (approved in this mode), limits    *)
(* (off by default), events and the pages of a feed are left out.  An      *)
(* account's money is one number; payout and conversion of an off-ramp     *)
(* enter and leave the customer's balance in one transaction.              *)
(***************************************************************************)
EXTENDS Money, Sequences, FiniteSets, Functions

CONSTANTS
    Deposits, Withdrawals,  \* identities of SEP-6 transactions
    Claimable,              \* deposits whose wallet takes a claimable balance
    Callbacks,              \* transactions with an on_change_callback
    Buys, Sells,            \* firm quotes on record, by side
    Asked,                  \* what each was asked for: exact, amount, mid rate
    SpreadBps,              \* the anchor's spread
    QuoteExpires,           \* when they expire
    Rates,                  \* the rates the oracle may give
    Lira,                   \* the amounts that bank transfers bring
    Tokens,                 \* the amounts that payments bring
    Treasury,               \* the treasury's tokens at first
    RateLock,               \* how long a withdrawal's rate is promised
    MaxAttempts,            \* MAX_SEND_ATTEMPTS
    None,
    MaxTime,                \* bound on the clock
    Mixes,                  \* bound on which transactions are opened together
    MaxRequests,            \* bound on bank transfers awaiting a rate at once
    MaxPayments,            \* bound on the feed
    MaxSends,               \* bound on the treasury's transactions
    MaxFaults               \* bound on lost answers, refusals and crashes

VARIABLES
    now,
    deposits,     \* table sep_transactions, deposits
    withdrawals,  \* the same for withdrawals, with their rows of offramps
    onramps,      \* table onramps
    consumed,     \* quotes.consumed_by
    balance,      \* the customer's lira
    unmatched,    \* table unmatched_deposits
    cursor,       \* the payment cursor of table kv
    told,         \* last_callback_status of each transaction
    funding,      \* bank transfers that await a rate
    settler, watcher, caller,   \* the three loops
    chain,        \* what became of each transaction of the treasury
    sequence,     \* the treasury account's sequence number
    treasury, trust, feed,      \* tokens, the customer's trustline, payments
    doubts,       \* history: on-ramps a send of which has an unknown outcome
    skipped,      \* history: payments whose handler threw
    faults

tables == <<deposits, withdrawals, onramps, consumed, balance, unmatched, cursor, told>>
loops  == <<settler, watcher, caller>>
ledger == <<chain, sequence, treasury, trust, feed>>
ghosts == <<doubts, skipped>>
vars   == <<now, tables, funding, loops, ledger, ghosts, faults>>

Transactions == Deposits \cup Withdrawals
Quotes == Buys \cup Sells

\* The quotes on record, as createSepQuote made them.
Side(q)      == IF q \in Buys THEN "buy" ELSE "sell"
QuoteRate(q) == ApplySpread(Asked[q].mid, SpreadBps, Side(q))
Quote(q)     == FirmQuote(Side(q), Asked[q].exact, Asked[q].amount, QuoteRate(q))

-----------------------------------------------------------------------------
\* Rows.

DepositType == [quote : Buys \cup {None}, onramp : Nat \cup {None}]
OnrampType ==
    [deposit : Deposits, quote : Buys \cup {None}, lira : Lira, tokens : Nat \ {0},
     status : {"pending", "completed", "failed"},
     reason : {None, "treasury_low", "awaiting_trust", "retrying"},
     attempts : 0..MaxAttempts, hash : Nat \cup {None}]
WithdrawalType ==
    [quote : Sells \cup {None}, rate : Nat \ {0}, lockedUntil : Nat,
     payment : Nat \cup {None}, paid : Nat]

\* Identities differ, and from the mark of an empty field; amounts and rates are
\* positive numbers (createSepQuote refuses a quote that rounds to nothing).
ASSUME RampsAssumption ==
    /\ Deposits \cap Withdrawals = {} /\ Buys \cap Sells = {}
    /\ None \notin Nat \cup Transactions \cup Quotes
    /\ None \notin DepositType \cup WithdrawalType \cup (Transactions \X Nat)
    /\ None \notin [deposit : Deposits, lira : Lira]
    /\ Lira \subseteq Nat /\ Tokens \subseteq Nat /\ Rates \subseteq Nat \ {0}
    /\ Treasury \in Nat /\ RateLock \in Nat /\ MaxAttempts \in Nat \ {0}
    /\ \A q \in Quotes :
         /\ Asked[q].exact \in {"sell", "buy"} /\ Asked[q].amount \in Nat
         /\ QuoteRate(q) \in Nat \ {0}
         /\ Quote(q).sold > 0 /\ Quote(q).bought > 0

-----------------------------------------------------------------------------
\* The state of a loop that has nothing to do, and the bound on faults.

Idle  == [pc |-> "idle", todo |-> <<>>]
Fault == faults < MaxFaults /\ faults' = faults + 1
Sorted(S) ==
    CHOOSE s \in [1..Cardinality(S) -> S] : \A i, j \in DOMAIN s : i < j => s[i] < s[j]

-----------------------------------------------------------------------------
\* Requests.

Opened == {d \in Deposits : deposits[d] # None}
              \cup {w \in Withdrawals : withdrawals[w] # None}
Opens(x) ==
    /\ x \notin Opened
    /\ \E mix \in Mixes : Opened \cup {x} \subseteq mix

\* Slip: a quote stays usable until it expires.
Usable_Again(q) == now <= QuoteExpires
Usable(q) == consumed[q] = None /\ now <= QuoteExpires

\* deposit: with a firm quote it is only looked at.
Deposit(d, q) ==
    /\ Opens(d)
    /\ q # None => Usable(q)
    /\ deposits' = [deposits EXCEPT ![d] =
                      [quote |-> q, onramp |-> None]]
    /\ UNCHANGED <<now, withdrawals, onramps, consumed, balance, unmatched,
                   cursor, told, funding, loops, ledger, ghosts, faults>>

\* createOnramp inside the transaction of fundSepDeposit: the lira that arrive
\* are debited for the on-ramp, and the quote is consumed.
CreatesOnramp(d, lira, rate, q) ==
    /\ onramps' = Append(onramps,
           [deposit |-> d, quote |-> q,
            lira |-> lira, tokens |-> TryToUsdc(lira, rate), status |-> "pending", reason |-> None, attempts |-> 0, hash |-> None])
    /\ deposits' = [deposits EXCEPT ![d].onramp = Len(onramps) + 1]
    /\ consumed' = IF q = None THEN consumed
                   ELSE [consumed EXCEPT ![q] = <<d, Len(onramps) + 1>>]
    /\ UNCHANGED <<withdrawals, balance, unmatched, cursor, told>>

Unfunded(d) == deposits[d] # None /\ deposits[d].onramp = None

\* fundSepDeposit: a usable quote for the amount gives the rate at once (such an
\* await lets no other request in); otherwise the rate is awaited, and nothing
\* is looked at again after the wait.
Fund(d, lira) ==
    /\ Unfunded(d)
    /\ LET q == deposits[d].quote IN
       IF q # None /\ Usable(q) /\ Quote(q).sold = lira
       THEN CreatesOnramp(d, lira, QuoteRate(q), q) /\ UNCHANGED funding
       ELSE /\ \E slot \in 1..MaxRequests :
                 /\ funding[slot] = None
                 /\ funding' = [funding EXCEPT ![slot] = [deposit |-> d, lira |-> lira]]
            /\ UNCHANGED tables
    /\ UNCHANGED <<now, loops, ledger, ghosts, faults>>

Priced(slot, rate) ==
    /\ funding[slot] # None
    /\ LET f == funding[slot] IN
       IF TryToUsdc(f.lira, rate) > 0
       THEN CreatesOnramp(f.deposit, f.lira, rate, None) ELSE UNCHANGED tables
    /\ funding' = [funding EXCEPT ![slot] = None]
    /\ UNCHANGED <<now, loops, ledger, ghosts, faults>>

\* withdraw with createOfframp: the quote is consumed at once.
Withdraw(w, q, live) ==
    /\ Opens(w)
    /\ q # None => Usable(q)
    /\ withdrawals' = [withdrawals EXCEPT ![w] =
                         [quote |-> q, rate |-> IF q = None THEN live ELSE QuoteRate(q),
                          lockedUntil |-> now + RateLock, payment |-> None, paid |-> 0]]
    /\ consumed' = IF q = None THEN consumed ELSE [consumed EXCEPT ![q] = <<w, 0>>]
    /\ UNCHANGED <<now, deposits, onramps, balance, unmatched, cursor, told,
                   funding, loops, ledger, ghosts, faults>>

-----------------------------------------------------------------------------
\* The settling loop.  `funds` is what it takes the treasury to hold.

\* Slip: an on-ramp that was put off is not looked at again.
Pending_Fresh == {n \in DOMAIN onramps : onramps[n].status = "pending"
                                           /\ onramps[n].reason = None}
Pending == {n \in DOMAIN onramps : onramps[n].status = "pending"}

\* The balance is fetched once for all pending rows.
SettleBegins ==
    /\ settler.pc = "idle"
    /\ Pending # {}
    /\ settler' = [pc |-> "row", todo |-> Sorted(Pending), funds |-> treasury]
    /\ UNCHANGED <<now, tables, funding, watcher, caller, ledger, ghosts, faults>>

Row == Head(settler.todo)
NextRow(spent) ==
    settler' = IF Len(settler.todo) = 1 THEN Idle
               ELSE [pc |-> "row", todo |-> Tail(settler.todo),
                     funds |-> settler.funds - spent]
OnlyOnramps ==
    /\ UNCHANGED <<deposits, withdrawals, consumed, unmatched, cursor, told>>
    /\ UNCHANGED <<now, funding, watcher, caller, skipped>>

Waits(reason) ==
    /\ onramps' = [onramps EXCEPT ![Row].reason = reason]
    /\ NextRow(0)
    /\ UNCHANGED <<balance, ledger, doubts, faults>> /\ OnlyOnramps

\* A failed attempt is repeated by a later tick, or gives the lira back.
Fails(retryable) ==
    LET attempts == onramps[Row].attempts + 1 IN
    /\ IF retryable /\ attempts < MaxAttempts
       THEN /\ onramps' = [onramps EXCEPT ![Row].attempts = attempts,
                                          ![Row].reason = "retrying"]
            /\ UNCHANGED balance
       ELSE /\ onramps' = [onramps EXCEPT ![Row].attempts = attempts,
                                          ![Row].reason = None,
                                          ![Row].status = "failed"]
            /\ balance' = balance + onramps[Row].lira
    /\ NextRow(0)

\* The row's guards, then sendUsdc looks at the destination, whose account may not
\* be read.
Considers ==
    LET o == onramps[Row] IN
    /\ settler.pc = "row"
    /\ \/ o.tokens > settler.funds /\ Waits("treasury_low")
       \/ /\ o.tokens <= settler.funds
          /\ Fault /\ Fails(TRUE)
          /\ UNCHANGED <<ledger, doubts>> /\ OnlyOnramps
       \/ /\ o.tokens <= settler.funds
          /\ ~trust /\ o.deposit \notin Claimable
          /\ Waits("awaiting_trust")
       \/ /\ o.tokens <= settler.funds
          /\ trust \/ o.deposit \in Claimable
          /\ settler' = [settler EXCEPT !.pc = IF trust THEN "pay" ELSE "park"]
          /\ UNCHANGED <<onramps, balance, ledger, doubts, faults>> /\ OnlyOnramps

\* submit: the account's sequence number is read and the transaction sent.  It
\* is refused before it is sent, or sent, and then the answer may be lost.
Submits ==
    LET sent == chain' = Append(chain, [onramp |-> Row, via |-> settler.pc,
                                        seq |-> sequence, status |-> "sent"])
    IN
    /\ settler.pc \in {"pay", "park"}
    /\ Len(chain) < MaxSends
    /\ \/ sent /\ settler' = [settler EXCEPT !.pc = "poll"]
          /\ UNCHANGED <<onramps, balance, doubts, faults>>
       \/ sent /\ Fault /\ Fails(TRUE) /\ doubts' = doubts \cup {Row}
       \/ Fault /\ Fails(TRUE) /\ UNCHANGED <<chain, doubts>>
    /\ UNCHANGED <<sequence, treasury, trust, feed>> /\ OnlyOnramps

\* Slip: a claimable balance whose id cannot be looked up counts as a failure.
Confirms_Throws(t) == chain[t].status = "success" /\ chain[t].via = "pay"
Confirms(t) == chain[t].status = "success"

\* Slip: the reason to wait is not cleared.
Completed_Waiting(o, t) == [o EXCEPT !.status = "completed", !.hash = t]
Completed(o, t) == [o EXCEPT !.status = "completed", !.reason = None, !.hash = t]

\* The outcome is polled for, until a time limit.
Polls ==
    LET t == Len(chain) IN
    /\ settler.pc = "poll"
    /\ \/ /\ Confirms(t)
          /\ onramps' = [onramps EXCEPT ![Row] = Completed(@, t)]
          /\ NextRow(onramps[Row].tokens)
          /\ UNCHANGED <<balance, doubts, faults>>
       \/ /\ chain[t].status = "success" /\ ~Confirms(t)
          /\ Fails(TRUE) /\ UNCHANGED <<doubts, faults>>
       \/ /\ chain[t].status = "failed"
          /\ Fails(FALSE) /\ UNCHANGED <<doubts, faults>>
       \/ /\ chain[t].status = "dead"
          /\ Fails(FALSE) /\ UNCHANGED <<doubts, faults>>
       \/ /\ chain[t].status = "sent"
          /\ Fault /\ Fails(FALSE) /\ doubts' = doubts \cup {Row}
    /\ UNCHANGED ledger /\ OnlyOnramps

-----------------------------------------------------------------------------
\* The loop that watches payments.

\* incomingUsdc: a page of payments after the cursor.  (The first run, which
\* skips the account's history, is over.)
WatchBegins ==
    /\ watcher.pc = "idle"
    /\ cursor # Len(feed)
    /\ watcher' = [pc |-> "handle", next |-> Len(feed),
                   todo |-> [i \in 1..(Len(feed) - cursor) |-> cursor + i]]
    /\ UNCHANGED <<now, tables, funding, settler, caller, ledger, ghosts, faults>>

Awaiting(w) == w # None /\ withdrawals[w] # None /\ withdrawals[w].payment = None
Credited(p) == \E w \in Withdrawals : withdrawals[w] # None /\ withdrawals[w].payment = p

\* Slip: a payment is not looked up before it is matched again.
Already_Never(p) == FALSE
\* The payment's transaction was credited before.
Already(p) == \E q \in DOMAIN feed : feed[q].tx = feed[p].tx /\ Credited(q)

\* handleIncoming
Handles(p, rate) ==
    LET w == feed[p].memo IN
    \/ Already(p) /\ UNCHANGED <<withdrawals, unmatched>>
    \/ /\ ~Already(p) /\ ~Awaiting(w)
       /\ unmatched' = Append(unmatched, p)
       /\ UNCHANGED withdrawals
    \/ /\ ~Already(p) /\ Awaiting(w)
       /\ LET at == IF withdrawals[w].lockedUntil < now THEN rate
                    ELSE withdrawals[w].rate
          IN withdrawals' = [withdrawals EXCEPT ![w].payment = p, ![w].rate = at,
                                 ![w].paid = UsdcToTry(feed[p].amount, at)]
       /\ UNCHANGED unmatched

\* A handler that throws is passed over.
Watches ==
    /\ watcher.pc = "handle"
    /\ watcher.todo # <<>>
    /\ \/ (\E rate \in Rates : Handles(Head(watcher.todo), rate))
          /\ UNCHANGED <<skipped, faults>>
       \/ /\ Fault
          /\ skipped' = skipped \cup {Head(watcher.todo)}
          /\ UNCHANGED <<withdrawals, unmatched>>
    /\ watcher' = [watcher EXCEPT !.todo = Tail(@)]
    /\ UNCHANGED <<now, deposits, onramps, consumed, balance, cursor, told,
                   funding, settler, caller, ledger, doubts>>

WatchEnds ==
    /\ watcher.pc = "handle"
    /\ watcher.todo = <<>>
    /\ cursor' = watcher.next
    /\ watcher' = Idle
    /\ UNCHANGED <<now, deposits, withdrawals, onramps, consumed, balance,
                   unmatched, told, funding, settler, caller, ledger, ghosts, faults>>

-----------------------------------------------------------------------------
\* The loop that calls wallets back.

\* sepStatusOf, for a deposit of which `n` is known as the on-ramp
SepStatusOf(x, n) ==
    IF x \in Deposits
    THEN IF n = None THEN "pending_user_transfer_start"
         ELSE LET o == onramps[n] IN
              CASE o.status = "completed" -> "completed"
                [] o.status = "failed" -> "error"
                [] o.reason = "awaiting_trust" -> "pending_trust"
                [] o.reason = "retrying" -> "pending_stellar"
                [] OTHER -> "pending_anchor"
    ELSE IF withdrawals[x].payment = None THEN "pending_user_transfer_start"
         ELSE "completed"

OnrampOf(x) == IF x \in Deposits THEN deposits[x].onramp ELSE None
CalledBack == Opened \cap Callbacks

\* sepCallbacksOnce reads the transactions, with the on-ramps they name ...
CallsBegin ==
    /\ caller.pc = "idle"
    /\ \E x \in CalledBack : SepStatusOf(x, OnrampOf(x)) # told[x]
    /\ caller' = [pc |-> "row", todo |-> {<<x, OnrampOf(x)>> : x \in CalledBack}]
    /\ UNCHANGED <<now, tables, funding, settler, watcher, ledger, ghosts, faults>>

\* ... posts the status that each has by its turn, if it is another than before ...
Calls(row) ==
    LET status == SepStatusOf(row[1], row[2]) IN
    /\ caller.pc = "row" /\ row \in caller.todo
    /\ caller' = IF status = told[row[1]] THEN [caller EXCEPT !.todo = @ \ {row}]
                 ELSE [pc |-> "post", todo |-> caller.todo \ {row},
                       about |-> row[1], status |-> status]
    /\ UNCHANGED <<now, tables, funding, settler, watcher, ledger, ghosts, faults>>

\* ... and records it whether or not the wallet answered.
Called ==
    /\ caller.pc = "post"
    /\ told' = [told EXCEPT ![caller.about] = caller.status]
    /\ caller' = [pc |-> "row", todo |-> caller.todo]
    /\ UNCHANGED <<now, deposits, withdrawals, onramps, consumed, balance, unmatched,
                   cursor, funding, settler, watcher, ledger, ghosts, faults>>

CallsEnd ==
    /\ caller.pc = "row" /\ caller.todo = {}
    /\ caller' = Idle
    /\ UNCHANGED <<now, tables, funding, settler, watcher, ledger, ghosts, faults>>

-----------------------------------------------------------------------------
\* The network, the customer, time and crashes.

\* A transaction of the treasury is included in the order of the sequence
\* numbers; another one with the same number never can be.
Include(t) ==
    LET tx == chain[t]
        o  == onramps[tx.onramp]
        ok == treasury >= o.tokens /\ (tx.via = "pay" => trust)
    IN
    /\ tx.status = "sent" /\ tx.seq = sequence
    /\ chain' = [u \in DOMAIN chain |->
                   IF u = t THEN [tx EXCEPT !.status = IF ok THEN "success" ELSE "failed"]
                   ELSE IF chain[u].status = "sent" /\ chain[u].seq = sequence
                        THEN [chain[u] EXCEPT !.status = "dead"] ELSE chain[u]]
    /\ treasury' = IF ok THEN treasury - o.tokens ELSE treasury
    /\ sequence' = sequence + 1
    /\ UNCHANGED <<now, tables, funding, loops, trust, feed, ghosts, faults>>

\* A customer pays the treasury, with a withdrawal's memo or without, in a
\* transaction of its own or in that of the payment before.  (Payments before the
\* first withdrawal are like those without its memo.)
Pay(memo, amount, same) ==
    /\ Len(feed) < MaxPayments
    /\ Opened \cap Withdrawals # {}
    /\ memo # None => memo \in Opened
    /\ same => feed # <<>>
    /\ feed' = Append(feed, [tx |-> IF same THEN feed[Len(feed)].tx ELSE Len(feed) + 1,
                             memo |-> memo, amount |-> amount])
    /\ treasury' = treasury + amount
    /\ UNCHANGED <<now, tables, funding, loops, chain, sequence, trust, ghosts, faults>>

World ==
    /\ \/ /\ now < MaxTime /\ now' = now + 1
          /\ UNCHANGED <<trust, funding, loops, doubts, faults>>
       \/ /\ trust' = ~trust /\ Fault
          /\ UNCHANGED <<now, funding, loops, doubts>>
       \/ /\ Fault                              \* the process restarts
          /\ funding' = [slot \in 1..MaxRequests |-> None]
          /\ settler' = Idle /\ watcher' = Idle /\ caller' = Idle
          /\ doubts' = IF settler.pc = "poll" THEN doubts \cup {Row} ELSE doubts
          /\ UNCHANGED <<now, trust>>
    /\ UNCHANGED <<tables, chain, sequence, treasury, feed, skipped>>

-----------------------------------------------------------------------------

Init ==
    /\ now = 0
    /\ deposits = [d \in Deposits |-> None]
    /\ withdrawals = [w \in Withdrawals |-> None]
    /\ onramps = <<>> /\ unmatched = <<>> /\ chain = <<>> /\ feed = <<>>
    /\ consumed = [q \in Quotes |-> None]
    /\ balance = 0 /\ cursor = 0 /\ sequence = 0 /\ faults = 0
    /\ told = [x \in Transactions |-> None]
    /\ funding = [slot \in 1..MaxRequests |-> None]
    /\ settler = Idle /\ watcher = Idle /\ caller = Idle
    /\ treasury = Treasury
    /\ trust \in BOOLEAN
    /\ doubts = {} /\ skipped = {}

Requested ==
    \/ \E d \in Deposits, q \in Buys \cup {None} : Deposit(d, q)
    \/ \E d \in Deposits, lira \in Lira : Fund(d, lira)
    \/ \E w \in Withdrawals, q \in Sells \cup {None}, rate \in Rates : Withdraw(w, q, rate)
Settle == SettleBegins \/ Considers \/ Submits \/ Polls
Watch  == WatchBegins \/ Watches \/ WatchEnds
Call   ==
    \/ CallsBegin
    \/ \E row \in Transactions \X (DOMAIN onramps \cup {None}) : Calls(row)
    \/ Called \/ CallsEnd

Next ==
    \/ Requested
    \/ \E slot \in 1..MaxRequests, rate \in Rates : Priced(slot, rate)
    \/ Settle \/ Watch \/ Call
    \/ \E t \in DOMAIN chain : Include(t)
    \/ \E memo \in Withdrawals \cup {None}, amount \in Tokens, same \in BOOLEAN :
          Pay(memo, amount, same)
    \/ World

Spec == Init /\ [][Next]_vars

\* The loops run on their timers, a rate always comes, as the static one if need
\* be, and the network includes what it accepted.
FairSpec ==
    /\ Spec
    /\ WF_vars(Settle) /\ WF_vars(Watch) /\ WF_vars(Call)
    /\ \A slot \in 1..MaxRequests : WF_vars(\E rate \in Rates : Priced(slot, rate))
    /\ WF_vars(\E t \in DOMAIN chain : Include(t))

-----------------------------------------------------------------------------
\* Properties.

\* Rows keep their types: a failed row used up its attempts at most, a completed
\* one names the transaction that paid it and no reason to wait, and a deposit's
\* link and a quote's consumer point at rows that exist.
RampsTypeOK ==
    /\ deposits \in [Deposits -> DepositType \cup {None}]
    /\ withdrawals \in [Withdrawals -> WithdrawalType \cup {None}]
    /\ \A n \in DOMAIN onramps :
         /\ onramps[n] \in OnrampType
         /\ onramps[n].status = "completed" <=> onramps[n].hash # None
         /\ onramps[n].status # "pending" => onramps[n].reason = None
         /\ onramps[n].status = "pending" => onramps[n].attempts < MaxAttempts
    /\ \A d \in Deposits : deposits[d] # None /\ deposits[d].onramp # None =>
         /\ deposits[d].onramp \in DOMAIN onramps
         /\ onramps[deposits[d].onramp].deposit = d
    /\ \A q \in Quotes : consumed[q] # None =>
         \/ consumed[q][1] \in Deposits /\ onramps[consumed[q][2]].quote = q
         \/ consumed[q][1] \in Withdrawals /\ withdrawals[consumed[q][1]].quote = q
    /\ cursor \in 0..Len(feed)

Paid(n) == {t \in DOMAIN chain : chain[t].onramp = n /\ chain[t].status = "success"}

\* Attempts are repeated and lira given back without paying twice: unless the
\* outcome of a send remained unknown, an on-ramp is paid at most once, not at
\* all if its lira were given back, and by the transaction it names if it is
\* completed; and lira are given back once.
RetriesAreSafe ==
    /\ \A n \in DOMAIN onramps \ doubts :
         /\ Cardinality(Paid(n)) <= 1
         /\ onramps[n].status = "failed" => Paid(n) = {}
         /\ onramps[n].status = "completed" => Paid(n) = {onramps[n].hash}
    /\ balance = FoldFunctionOnSet(+, 0, [n \in DOMAIN onramps |-> onramps[n].lira],
                                   {n \in DOMAIN onramps : onramps[n].status = "failed"})

\* The cursor passes no payment that is not accounted for, although the process
\* may stop between handling and cursor: it was credited, or listed as
\* unmatched, but never both; the exceptions are a handler that threw and a
\* second payment in one transaction.
Listed(p) == \E i \in DOMAIN unmatched : unmatched[i] = p
PaymentsCounted ==
    /\ \A p \in DOMAIN feed : ~(Credited(p) /\ Listed(p))
    /\ \A p \in 1..cursor : Already(p) \/ Listed(p) \/ p \in skipped

\* A firm quote prices one transaction, although it is only looked at when a
\* deposit is opened, and used when it is funded; and it is kept: a deposit that
\* it prices brings at least what it promised.
QuotesSingleUse ==
    /\ \A n \in DOMAIN onramps : onramps[n].quote # None =>
         onramps[n].tokens >= Quote(onramps[n].quote).bought
    /\ \A q \in Quotes :
         Cardinality({n \in DOMAIN onramps : onramps[n].quote = q})
             + Cardinality({w \in Withdrawals : withdrawals[w] # None
                                                /\ withdrawals[w].quote = q}) <= 1

\* A deposit is processed at most once.
DepositProcessedOnce ==
    \A m, n \in DOMAIN onramps : m # n => onramps[m].deposit # onramps[n].deposit

\* A funded deposit that can be paid is paid or given back in the end, and the
\* wallet is called with that, through lost answers, refusals and restarts.
Funded(d) == deposits[d] # None /\ deposits[d].onramp # None
Payable(d) ==
    LET o == onramps[deposits[d].onramp] IN
    o.status = "pending" =>
        (trust \/ d \in Claimable) /\ treasury >= o.tokens
FundedEnds ==
    \A d \in Deposits \cap Callbacks :
        <>[](Funded(d) => Payable(d))
            => (Funded(d) ~> told[d] \in {"completed", "error"})

=============================================================================
