# A verification project for the Stellar anchor with zkPassport eligibility

TLA+ models of the program in `src/`, the TLC runs that check them on small
instances, and proofs that TLAPS checks for every value of the constants.
Paths below are relative to the repository (`src/sep-anchor.ts` is a file of
it); `PROJECT.json` maps every definition to the lines it translates.

## 1. The system

The program exchanges Turkish lira at a simulated bank for a USDC-like asset
on Stellar's test network. A customer proves eligibility once, with a zkPassport
proof; the proof's verdict is stored on chain as a *grant* with an expiry. An
order then moves tokens through a custody contract, and lira through the bank:

- **deposit**: the provider's tokens are reserved in the contract, the customer
  pays lira, the bank notary records the receipt, anyone settles the tokens to
  the customer;
- **withdrawal**: the customer pays tokens to the custody account by a classic
  payment, the operators sweep them into the contract, the notary authorizes
  the bank payout (a promise without return), records its receipt, and anyone
  settles the tokens to the provider. Before the promise a refund is possible.

| Component | State | Operations | Talks to |
| --- | --- | --- | --- |
| sep-anchor contract, `contracts/sep-anchor` | orders, grants, used receipts, used payments, `TotalReserved` | create_order, submit_eligibility, fund_withdrawal, authorize_payout, record_receipt, settle, refund, cancel | asset contract, verifier contract |
| anchor-policy, `contracts/anchor-policy` | none | check of a proof's public inputs, verifier identity | both vault contracts |
| SEP coordinator, `src/sep-anchor.ts`, `src/sep-anchor-storage.ts` | SQLite tables: intents, actions (journal), bank events, payments, cursor, consumed quotes; the request lock | begin, accept, submitProof, simulateBank, refund, get/find/list, tick (ingest and advance) | RPC adapter, ingress, database |
| RPC adapter and ingress, `src/sep-anchor-rpc.ts`, `src/anchor-gate-rpc.ts`, `src/sep-anchor-ingress.ts` | none | prepare, submit, transaction, order, eligibility; payments, recipientStatus | Stellar RPC, Horizon |
| anchor-gate contract, `contracts/anchor-gate` | orders with a proof each, used receipts, `TotalReserved` | create_order, prove_order, record_receipt, authorize_payout, settle; no way back | asset contract, verifier contract |
| anchor-gate coordinator, `src/anchor-gate.ts`, `src/routes/anchor-gate.ts` | tables of orders, actions, bank credits; one lock for POST requests | create, get, proofRequest, prepareProof, submitProof, simulateBank, authorize, settle | RPC adapter, quotes |
| hosted exchange, `src/routes/sep-anchor.ts`, `web/sep-anchor.ts` | one-use links, sessions; the page's variables, sessionStorage | issue, open, the buttons of the page, poll, receipt check, phone | SEP coordinator, wallet, phone |
| page of the older vault, `web/anchor-gate.ts`, `web/anchor-gate-flow.ts` | session, reservation, order, prepared proof | connect, quote, reserve, prove, sign, authorize, bank, settle, automatic checks | anchor-gate routes, wallet, phone |
| quotes, rates, money, `src/sep-quotes.ts`, `src/rates.ts`, `src/money.ts` | quotes, rate cache | firm and indicative quotes, fixed-point conversion | database, rate oracle |
| ramps, `src/routes/sep6.ts`, `src/workers.ts`, `src/core/*`, `src/stellar.ts` | SEP-6 transactions, on-ramps, off-ramps, balances and ledger, cursor, last callbacks | deposit, withdraw, bank transfer; three loops: settle, watch payments, call back | Horizon, RPC, HTTP |
| OFAC precheck, `src/ofac-precheck.ts` | cached list, shared download | check | HTTP |
| verifier contract, `contracts/zkpassport-verifier` | verification key | verify | none |
| other routes, `src/routes/*`, `src/app.ts`; process, `src/server.ts`, `src/db.ts` | tokens, timers | HTTP; the loop that calls tick every five seconds | everything |

**What is hard.** Operators, customers and passers-by call the contract in any
order, and its clock passes deadlines between any two calls. The coordinator
handles one request at a time but awaits the network at every step: sends may be
lost or answered late, the process may crash between journal and network, the
RPC may answer from an older ledger, payments are wrong, repeated or late, and
three stores (journal, bank events, chain) must agree without a common
transaction. The older coordinator serializes only its POST requests, so that reads
reconcile the same journal beside them. The ramps run three loops side by side with
requests, each over rows it read before. The pages do one action at a time, but polls,
checks, phones and wallets run beside it, and answers come late or never. `hazards` in
`PROJECT.json` lists each of these at its line.

**What makes each component correct.** Contracts: exact books, solvency, one
outcome for an order, no way back from a promise, evidence used once, value only
for eligible accounts, an exit for all custody, every promise completed.
Coordinators: true verdicts on transactions, no second transaction while one may
take effect, no promise, bank transfer or sweep without its ground, completion
through failures. Ramps: nothing is paid twice and no payment passed over, a quote
prices one transaction, a funded deposit ends. Pages: one live payment, no
cancelled proof sent, terms taken for accepted only if they are, no reservation
forgotten, an order shown never goes back. Money: roundings favour the house and
keep firm quotes. Links: one session each.

## 2. Modules

| Module | What it is |
| --- | --- |
| `Escrow` | Abstract specification of custody: each order's tokens enter the pot once and leave it once, and nothing returns once the other leg is owed |
| `SepVault` | The sep-anchor contract, its asset, verifier and clock |
| `Sums` | Lemmas: least elements, sums over finite sets, sorted enumerations |
| `SepVaultProofs` | The contract's theorems; it implements Escrow; where tokens go; its books and exits |
| `SepCoordinator` | The SEP coordinator and the network, composed with SepVault |
| `SepCoordinatorProofs` | It drives the contract as allowed, its journal is sound; its copies, requests, transfers and sweeps agree with the orders; requests end |
| `GateVault` | The anchor-gate contract |
| `AnchorGate` | The older coordinator and the network, composed with GateVault |
| `AnchorGateProofs` | The contract's theorems; it implements Escrow; its books and promises; they carry over to the system; the journal; the bank's books |
| `Money` | The fixed-point conversions and firm quotes |
| `Ramps` | SEP-6 deposits and withdrawals with the three loops and the treasury |
| `RampsProofs` | What the roundings of Money guarantee; the ramps' invariants; settling passes end |
| `HostedExchange` | Links, sessions and the hosted page in several tabs |
| `HostedExchangeProofs` | Its invariants, for any number of tabs, links and phone requests |
| `GateFlow` | The page of the older vault and its session |
| `GateFlowProofs` | Its invariants and its action property |
| `Browser` | A browser with one of the two pages open; it takes GateFlow with its theorems |
| `BrowserProofs` | The theorems of the page of the older vault, in the browser |
| `MCSepVault`, `MCSepCoordinator`, `MCAnchorGate`, `MCRamps`, `MCBrowser` | Small instances for TLC |

**SepVault.** One action per contract call (`CreateOrder`, `SubmitEligibility`,
`FundWithdrawal`, `AuthorizePayout`, `RecordReceipt`, `Settle`, `Refund`,
`Cancel`); a call that returns an error changes nothing, as on chain, and has no
action. `orders`, `grants`, `receiptOf`, `fundingOf` and `reserved` are the
contract's storage keys, `balance` the asset contract. `Reserve` and `Release` are
the two helpers that move tokens. The world adds `Tick`, `VerifierChange`,
`TrustlineChange`, `Pay` (the customer's classic payment, which the contract does
not see), `Donate` and `Clawback`. Hashes are model values, the proof is the
instant it was made at, the operators' signatures are always at hand, and storage
lifetimes are left out because an archived entry can be restored.
`try_minor` and `nonce` are data that no property distinguishes.

**SepCoordinator.** `handler` is the one request that holds the lock of
`locked`, and each of its actions is what the code does between two awaits:
`Query`, `Send`, `Sent` (`reconcileAction` and the end of `perform`), `Prepare`
(`perform`), `Sync` (`sync` with `checkChain`), `Begun` and `Work` (`advance`,
whose six stages are `Due(1)` to `Due(6)` in the order of the code), `Ask`
(`simulateBank`), `GiveBack` (`refund`), `ProofDone` (`submitProof`). `Begin`,
`Accept`, `Get`, `SubmitProof`, `SimulateBank`, `RequestRefund` and `Ingest` start a
request; `tick` is `Ingest` and a `Get` of every order. `Drop` is an exception or
a restart: the tables stay. The network is `Include` (a sent transaction runs
its contract call from SepVault, replays it, or fails), with `feed` for Horizon's
payments, and `past` for the states an older ledger may answer with. The tables
`intents`, `actions`, `bankEvents`, `payments` and `consumed` are the database's.
The journal's entry, the transaction and its hash share one index.

**GateVault.** `CreateOrder`, `ProveOrder`, `RecordReceipt`, `AuthorizePayout`,
`Settle`, with the same conventions. An eligibility belongs to one order, and only
its end is read. There is no refund: `GateImplementsEscrow` maps the contract to an
Escrow that returns nothing.

**AnchorGate.** `requests` is a set, for GET requests run beside the one POST request
that holds the lock (`Turn`). Each request is a record that moves through
`Reserves` (the transaction of create), `Asks` and `Notes` (`reconcile`, one open
action at a time: ask the network, write what it said), `Looks` (`chainOrder`),
`Decides` (what each operation checks, and for the bank the tables it writes),
`Prepares`, `Sends` and `Sent` (`operatorAction` and `submit`). `Written` is the
guarded update with the partial unique index of the table; `Answer` is the
RPC adapter's reading of a status and a transaction's time bounds. A recipient may
send a prepared proof without the server (`CustomerSends`). `skew` is how far the
server's clock is from the ledger's.

**Money and Ramps.** `Money` translates `src/money.ts` and the two sides and exact
amounts of `src/sep-quotes.ts`. In `Ramps` the requests are `Deposit`, `Fund` and
`Priced` (`fundSepDeposit` before and after the await of a rate) and `Withdraw`.
The settling loop is `SettleBegins`, `Considers`, `Submits`, `Polls`; `Fails` is the
catch of an attempt. The watching loop is `WatchBegins`, `Watches` (`handleIncoming`)
and `WatchEnds` (the cursor). The calling loop is `CallsBegin`, `Calls`, `Called`,
`CallsEnd`. `Include` is the network with the treasury's sequence numbers: of two
transactions with one number, one is included. `doubts` and `skipped` are history
variables that name the on-ramps and payments a known weakness has touched.

**HostedExchange and GateFlow.** A page's script is a record: `busy` (`task`) is the
action that runs, with the step of its awaits; `poll`, `check`, `phones` and `glance` run
beside it. Every request has an answer, may lose it, or may be handled after
the page gave up. `sessionStorage` survives a reload, the record does not. The
server behind the page is the order of the coordinator's module, reduced to what the
page tells apart. In `GateFlow` an order has a set of pending actions, one of each
kind (`Advanced`): a request for what is done is answered by the order (`Done`), a
request for what is pending sends it again, and the contract takes each at the
stages its operation needs (`Lands`).

## 3. Runs

| Run | Question | Instance |
| --- | --- | --- |
| `vault_safety` | Do books, facts and exits hold in every interleaving? | 2 orders, 2 events, 2 operations, amounts 1 and 2, time 0..3 past all deadlines, a surplus token |
| `vault_shortfall` | What if the issuer takes tokens from the vault, and is the contract an `Escrow` all the same? | 2 orders, clawback, customers' payments, time 0..2 |
| `vault_liveness` | Is every promised payout settled? | 2 orders, time 0..2, fair operators, a customer's trustline that comes and goes |
| `coordinator_withdrawal` | Is anything promised, paid or swept without ground? | 1 order, 2 payments of amounts 1 or 2 with or without memo, stale answers, time 0..2 |
| `coordinator_deposit` | Are verdicts on transactions final through a crash or a lost answer, and is the bank left alone after a known cancellation? | 1 order, 1 fault, stale answers, trustline changes, 2 proofs |
| `coordinator_two` | Is one transaction open at a time, and a quote used once? | 2 deposits, 2 quotes, time 0..1 |
| `coordinator_liveness` | Do payment and payout come through? | 1 withdrawal, 1 fault, time 0..2 |
| `coordinator_race` | Is an order given back only while the bank was asked for nothing? **Violated** | 1 deposit |
| `gate` | Does the older coordinator keep a true journal and true bank books, and is a promise discharged? | 1 order in either direction, clocks 1 apart either way, 1 fault, time 0..2 |
| `ramps` | Is anything paid twice, passed over, or left open? | 2 deposits that share a firm quote, or a withdrawal with 2 payments; 1 fault, 2 attempts |
| `ramps_race` | Is a deposit processed at most once? **Violated** | 1 deposit, 2 bank transfers |
| `browser` | Do the pages keep what they hold true? | one page at a time: 6 plans of the hosted page in 2 tabs, 5 of the older vault's page, up to 3 faults each |

Every property has a mutant in `PROJECT.json`: a definition with a plausible slip
(the operators named `..._Something` before the definition they vary) under which
TLC finds the property violated in the same run.

**Bounds.** `MaxTime` reaches the policy's end in the vault runs, so every guard
on time is seen on both sides; the instants only matter relative to four of them
(now, grant, deadline, policy). Two orders are needed for anything to be shared
(evidence, reserve, signing account, quotes) and each property names at most two.
`MaxActions` bounds the journal: an order needs six actions, and the liveness run
allows ten, so retries never meet the bound there (a bound that bit would show as
a counterexample, for it stops the handler). In `coordinator_two` it is four,
enough for proofs and creations of both orders to overlap. In `gate` it is seven:
five calls of a withdrawal and two to spare; the journal and the orders of that
model share no account and no index across orders, so one order shows what two
would, and the theorems of section 4 hold for any number. `MaxFaults` counts
lost calls and answers, crashes, failed transactions that should have succeeded,
GET requests, and changes of verifier or trustline. In `ramps` two attempts and two payments let a retry
follow a failure, and a second payment follow a first in the same transaction;
three sends exceed what two on-ramps with one fault need. `Plans` and `Scripts` of
the browser run say where the customer starts and bound the presses of buttons
and the faults of each start: two presses of the same button, or of two buttons that
conflict, in each. `MaxPolls`, `MaxLinks`, `MaxPayments`, `MaxSurplus`, `MaxRequests`,
`MaxSends`, `MaxProofs`, `Mixes`, `MaxTime` and the amounts are the remaining bounds.
The runs disable the deadlock check only where time and journal or presses are
bounded and the system then stops.

**Fairness.** `FairSpec` of SepVault assumes that the notary records the receipts of
payouts that it made and that settlement, which anyone may call and the loop of
`src/server.ts` retries, is not starved while a trustline comes and goes.
`FairSystem` of SepCoordinator assumes that the handler that holds the lock goes on
(its awaits have timeouts), that the network includes what was sent and did not
expire, and that the loop gets its turn for each order and for the feed: requests
queue in arrival order, so strong fairness is what the queue gives. Nobody is assumed
to ask for a payout, to pay, or to send a proof. The older coordinator has no loop:
`FairSystem` of AnchorGate assumes a customer who keeps asking for the bank transfer
and the settlement (strongly fair, as the lock serves requests in turn), a server
that goes on with the request that holds the lock, and a network that goes on.
`FairSpec` of Ramps assumes that the three loops, registered with timers in
`src/workers.ts`, run on, that a rate always comes (the static one if need be), and
that the network includes what it accepted. The pages promise nothing eventually:
the customer may leave at any time.

**Findings.** `coordinator_race` shows that `simulateBank` does not look at open
transactions of the order, while `refund` does. A cancellation whose outcome is
still unknown can take effect after the bank event was saved; the receipt can then
not be recorded, and lira were asked for tokens that went back to the provider. The
status message of `src/sep-anchor.ts:594` promises cancellation "before any bank
obligation". Withdrawals are safe from the mirror image: their bank event needs the
authorization on chain (`BankOnObligation`, `PayoutRequested`).

`ramps_race` shows that `fundSepDeposit` checks that a deposit has no on-ramp yet,
awaits the rate and does not look again: two transfers that await together each
create an on-ramp. The check's message, `src/routes/sep6.ts:376`, says that a
deposit receives one transfer.

Known weaknesses that the properties name as their exceptions: an on-ramp send
whose outcome stays unknown counts as failed and is sent again (`doubts`), a payment
whose handler threw is passed over (`skipped`), a second payment operation of one
transaction counts as the same payment (`Already`).

## 4. Proofs

All safety invariants and action properties of the passing runs are theorems, but for
`ExitOpen`, whose ENABLED the prover does not reach. Each holds for every value of
the constants that meets the named assumptions.

**The sep-anchor contract.** All theorems of `SepVaultProofs` hold for every set of orders, accounts, events and operations,
every bound and every initial balance, under the assumptions `ConfigAssumption`
(sorts of the constants; the provider and the vault are two accounts; the lifetimes
are positive) and `NoneAssumption` (None is no value) of `SepVault`.

The inductive invariant is `IInv`: `TypeOK`, `OrdersSound` (what each single order
must satisfy: attribution, one outcome, backing, timeline, eligibility),
`EvidenceUnique`, `Solvent` and `GrantsFromProofs`. None of the safety invariants is
inductive alone: that a payout was made in time needs the receipt's order, that the
value went to an eligible account needs that later grants extend earlier ones
(`SubmitExtendsGrants`), and that needs `GrantsFromProofs`. `CallIInv` shows that
each call preserves it, by one lemma per call and conjunct; `WorldIInv` treats the
rest. From `IInv` follow `TypeCorrect`, `AlwaysSolvent`, `EndsAtMostOnce`,
`PromiseBacked`, `EvidenceServesOnce`, `FactsInOrder`, `PaidWhileEligible`,
`CustodyIsAttributed`, `GrantsAreProved` and the action property
`GrantsNeverRollBack`. `TypeOK`, `OneOutcome`, `EvidenceUnique`, `GrantsFromProofs`
and `GrantsOnlyImprove` are proved and in no run.

`VaultImplementsEscrow` maps each order to its phase (`Standing`) and the reserve to
the pot: every call moves one order by one phase (`OnePhaseMoves`) and the pot by
that order's amount, or stutters. `VaultPaysOrders` proves where tokens go, and
`ShortVaultFreezes` that an uncovered vault pays nothing.

`VaultReserveExact` needs `Books`: the reserve is the sum of the sizes in custody, which
are finitely many. The property's sum is a fold over a set; `FoldOfAmounts` shows that it
is `Total` of `Sums`, from which any element may be taken first (`TotalTakesOut`), so a
call that takes an order in or lets one go changes both sides by its amount.
`CustodyKeepsExits` is the part of `ExitOpen` that needs no ENABLED: every order in custody
that is not stranded has a call all of whose guards hold (`ExitGuarded`). It rests on
`ReserveHoldsEach` (a release never underflows, by `Books`) and on
`PromisesToWithdraw`; `GuardsSuffice` shows that the guards are all the calls ask for.

**The anchor-gate contract.** `AnchorGateProofs` first proves `GateTypeCorrect`,
`GateStaysSolvent`, `GateOrdersLawful` and `GateEventsServeOne` from one inductive
invariant, `GateInv` (types, solvency, `OrdersLawful`, `EventsServeOne`), under
`GateAssumption` and `AbsentAssumption` of `GateVault`, which are the counterparts of
the two above. `GateIsAnEscrow` is the refinement, again with one phase per call, and
`GateReserveExact` rests on it: a step of the escrow moves one order in or out of the pot,
and both sides of `Books` by its amount (`TotalTakesIn`, `TotalLetsOut`).
`GatePromisesStand` says what a promise of this contract is worth: of a payout, that no
expiry, policy, verifier or trustline of the customer keeps a transfer made since from being
recorded, or a recorded one from settling; of a deposit whose lira came, that it settles
while its proof holds. Like `CustodyKeepsExits` it states the guards of the calls, and
that the guards are all they ask for.

**The SEP system.** The theorems of `SepCoordinatorProofs` add `NetworkAssumption` (sorts of the constants;
transactions live for a positive time; a place in the feed is an operation) and
`IntentAssumption` (None is neither a row of the intents nor terms). They hold for
stale and fresh answers, any number of orders and any bound on faults.

- `SystemInv` joins the contract's `IInv` with `CoordinatorInv`: the types of the
  journal with each call's arguments, of the histories, of the tables, and of the
  handler at each of its places. With it `SystemRunsVault` shows that every step of
  the system is a step of the contract or leaves it alone: what is proved of the
  contract carries over, `SystemKeepsEscrow` among it.
- `OneCallAtATime` is inductive: only `Prepare` adds a transaction, and only when
  none is open. `VerdictsStayTrue` rests on the time bound: what the adapter gives up
  has expired, and nothing is included after its expiry.
- `CopiesMoveForward` needs `KnowledgeInv`. Every state an order had is later
  (`Later`: nothing it records is undone) than those before it (`Remembered`), a copy
  is the state at the ledger it was read in (`CopyTrue`), and an included call shows in
  the order from its ledger on (`VerdictsShown`). The copy then goes forward because
  `Floor` refuses an older answer.
- `BankNeedsPromise` needs `BankInv`: a copy's promise is the order's (`CopyIsEarlier`),
  and a receipt on chain, in the journal or under way is that of the transfer.
- `PayoutsStayRequested` needs `PayoutInv`: a handler that decides has read the order
  after all the transactions it knows of (`CopyFresh`), and an authorization that is
  open, or may be sent, has its request standing; a refund clears the request only with no
  transaction open and the order untouched.
- `SweepsPaid` needs `SweepInv`: the order and every creation, journaled or
  under way, have the terms of the row (`TermsTrue`), and whatever leads to a sweep names the accepted
  payment (`SweepTrue`).
- `NothingPaidAfterGivingBack` needs `ReturnTrue`: a handler that is between the first
  stage and the bank's knows of no transaction that gave the tokens back, or works on a
  withdrawal, whose promise excludes one. It rests on `CopyFresh` at the first stage.
- `TransfersStayRecordable` needs `TransferInv`: a transfer fits the terms of its order and
  is no older than its promise, and two transfers have two events. Later states keep
  payout and terms (`Later`), so it is no matter how old the copy was that the server paid on.
- `PaymentsStaySweepable` follows from `SweepInv`: until an accepted payment is swept, its
  order exists with nothing decided, and its operation is unused. Hypothesis:
  `ZeroIsNoPayment`, for the id of a payment is a hash (`src/sep-anchor.ts:449`).
- `SweptNeverFrozen` needs `FrozenTrue`: of a frozen order no sweep is on chain, in the
  journal or planned by a handler, and no handler has taken it past the first stage.
- `RequestsAreShort` and `RequestsNeverWait` are about the lock of `src/sep-anchor.ts`, under
  which one request runs at a time. `StepsLeft` counts what a request has left to do, at most
  180: 10 for each stage, its place within the stage, 5 for a transaction at hand, and 100
  for an operation that leads into the stages. Each of its steps lowers it, no other step
  touches it, and one of its steps has all its guards (`GoesOn`). Hypothesis: `EnoughEvents`,
  as many bank events as orders; the code draws 32 random bytes for each
  (`src/sep-anchor.ts:482`).

**The older system.** Its second part adds `CoordinatorAssumption` (terms made of a
quote are terms the provider may submit; the server's clock is not behind the
ledger's by more than an order lives) and the invariant `SystemInv`: `GateInv`, the
types of the tables, of the journal with its arguments, and of each request at each
of its places. With it every step of the system is a step of the contract or leaves
it alone (`SystemStepsGate`), hence `CoordinatorDrivesGate`, and what is proved of
the contract carries over: `SystemOrdersLawful`, `SystemIsAnEscrow`,
`SystemTypeCorrect`.

`JournalStaysSound` needs `JournalInv` on top: what is written is true
(`WrittenTrue`), one action of an order's kind is open (`OneOpen`), and what a
request learned and has yet to write is true as well (`RequestsTrue`), however late it
writes. The last part is what makes the property inductive: it rests on
`ToldStays`, that no step makes a final answer false, since inclusion is possible
only before the time bound and a failure is told only after it.

`CreditsStayBacked` needs `BankInv`: a promise that a request saw still stands
(`SeenStands`), for no call takes one back (`CallKeepsPromise`); a credit has its
receipt and its promise; a receipt that is on chain (`ReceiptStands`) or under way to
it (`CallStands`) is the one the row holds, for rows keep their receipts (`RowsStay`)
and receipts reach the contract only through the journal (`ReceiptsAreJournaled`).

`CreditsStayRedeemable` joins both halves: the receipt saved with a credit is recordable
however late the server comes back, and once recorded the order can settle. It needs
`EventsApart`: an order's event is the hash of contract and order id (`src/anchor-gate.ts:752`).

**Money.** Under `ScaleAssumption`, `RampsProofs` proves for every amount and rate: `WantedIsBought` (the
rounded-up conversion is the least price of what was wanted), `FirmQuotesAreKept`,
`RoundTripNeverGains`. They rest on two lemmas about quotients, `Quotient` and
`QuotientLargest`.

**The ramps.** `RampsAssumption` gives the sorts of the constants, and says that rates are
positive and that a quote promises and costs something. The inductive invariant
`RampsInv` has five parts.
- `Shape`: types; links between rows lead to rows that exist; the settling loop's queue holds
  pending rows in order, and the watching loop's the payments that follow the cursor.
- `Sends`: of the sends of an on-ramp that is not in doubt, one that was or may still be
  included is the one being polled for, or the one that completed the row. It holds because
  the treasury's sequence number is used by one included transaction only.
- `Consumers`: what a quote was consumed by is priced by it, and nothing else is. That the
  promise is kept comes from `FirmQuotesAreKept`.
- `Returns`: the balance is the sum of the lira of failed on-ramps, by `Sums`.
- `Accounts`: what lies behind the cursor, or behind the place the watching loop has
  reached, is accounted for, and nothing is both credited and listed.

From it follow `RampsRowsKeepTypes`, `RampsRetriesAreSafe`, `RampsPaymentsCounted` and
`RampsQuotesSingleUse`, with the exceptions that the properties name (`doubts`,
`skipped`). `RampsRowsForward` shows that rows end once and keep their terms.

`RampsPassesEnd` and `RampsNeverWait` are about the settling loop: `PassLeft`, at most three
steps per on-ramp, falls with each of its steps, since the queue has distinct rows; and the
transaction it polls for is decided or the next the network may include, by `Sends`.

**The hosted page.** `HostedAssumption` gives sorts, and says that plans start with an order
of its type and with a session only for an order that exists. `HostedInv` is `Types` and
- `LinksOK`: two tabs never open with the same link, and the links that gave a session
  are used up;
- `PhonesOK`: a phone request whose proof a page still awaits was neither ended nor sent
  (`Expected`), if it is of the page's epoch;
- `AcceptanceOK`: terms read of the order, applied or not, are still accepted, and a reply to
  an acceptance is about the terms that the server keeps;
- `PaymentOK`: a payment that succeeded or may still be included is the one its tab
  remembers (`Remembered`), a tab that makes one remembers none (`Forgotten`), and none was
  built on a number the account has not reached.

**The page of the older vault.** `GateAssumption` gives sorts, and says that a script's orders
have one quote each and belong to no session of it; `Browser` assumes it of its scripts, and
TLC evaluates it there. `GateInv` has the types (`Basics`) and three parts.
- `ReservationOK`. `ReservationKept` alone is not inductive: a request that the page gave up
  may make an order later. What is added: a quote makes at most one order (`Keys`); an order
  of the session that was not shown, and a late request that may still make one, are for
  the quote the page keeps as pending (`Unshown`); a first request that was refused left
  nothing behind (`First`); nothing that would replace the order or the quote runs beside a
  reservation (`Alone`).
- `PhoneOK`: the phone request that may still be answered is the last and for the order
  shown, and while one is being made nothing is offered for signature.
- `StagesOK`: an answer under way is at least as new as what is shown, and the anchor is
  at least as new as the answer.

`BrowserRunsThePages` shows that a browser runs either page by its own specification, and
`BrowserReservationKept`, `BrowserPreparedCurrent` and `BrowserStagesForward` state the
three results in the form the run checks.

**Sums.** Lemmas about least numbers, smallest subsets and sums over finite sets.
Library induction takes an operator as a parameter and is out of the provers' reach; the
proofs take a smallest counterexample instead (`SmallestExists`, by well-founded
relations), which gives what the fold over a set computes.

**Only model-checked.** `ExitOpen` (ENABLED) and all liveness (`ObligationDischarged`,
`PayoutCompletes`, `PaymentSwept`, `PayoutDischarged`, `FundedEnds`): both are
beyond the proof system. What it does reach is proved: that the guards of the next call hold
(`CustodyKeepsExits`, `GatePromisesStand`, `TransfersStayRecordable`,
`PaymentsStaySweepable`, `CreditsStayRedeemable`), and that requests and passes end and
wait for nobody (`RequestsAreShort`, `RequestsNeverWait`, `RampsPassesEnd`,
`RampsNeverWait`). That fair scheduling then takes those steps is what TLC checks.

The hypotheses `ZeroIsNoPayment`, `EnoughEvents` and `EventsApart` hold of the constants of
every run of their modules.

## 5. Not modelled

- The proof system of `contracts/zkpassport-verifier`, signatures, envelope
  inspection, storage rent, formatting and views.
- The OFAC precheck: a cached list that decides from clocks and bytes alone. The
  modules that ask it take its verdict as a choice, or a refusal as a fault.
- The rate providers and their cache: any rate of `Rates` may come.
- Partner webhooks (`src/workers.ts:367-435`): nothing at this commit starts them.
- Legacy API orders outside SEP-6, KYC decisions, limits; SEP-10, SEP-12, SEP-38,
  admin and public routes: they validate and format, and the exchange relies on
  none of their state.
- The hosted page of a deposit differs from that of a withdrawal by its texts and by
  not paying; account setup of a page is one step that fails or not; the diagnostic
  page and the bundling of the phone client are left out.
- Process start, SQLite access and deployment scripts. A transaction of the database
  is one step of a model, and what it wrote survives a crash.
- The RPC's history is assumed to outlast outages: a transaction it forgot stays
  pending for ever and blocks the journal (`src/anchor-gate-rpc.ts:423`).
