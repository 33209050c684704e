------------------------- MODULE HostedExchangeProofs -------------------------
(***************************************************************************)
(* The safety properties of HostedExchange for every number of tabs,       *)
(* quotes, destinations, links, payments and faults.                       *)
(***************************************************************************)
EXTENDS HostedExchange, SequenceTheorems, FiniteSetTheorems, TLAPS

-----------------------------------------------------------------------------
\* Links.

PlaceType == [at : {"away", "signed", "link", "opening", "page"}, link : Nat \cup {None}]
LinkTypes ==
    /\ place \in [Tabs -> PlaceType]
    /\ links \in Seq({"live", "used"})
    /\ opened \in Seq(Nat)

\* A tab that opens the page holds a link of its own, used and not yet a session.
Opening(t) == place[t].at = "opening"
Holds(t) ==
    /\ place[t].link \in DOMAIN links /\ links[place[t].link] = "used"
    /\ \A i \in DOMAIN opened : opened[i] # place[t].link
Openers == \A t \in Tabs : Opening(t) => Holds(t)
Apart ==
    \A t, u \in Tabs :
        Opening(t) /\ Opening(u) /\ place[u].link = place[t].link => u = t
Used ==
    \A i \in DOMAIN opened : opened[i] \in DOMAIN links /\ links[opened[i]] = "used"
LinksOK == LinkTypes /\ Openers /\ Apart /\ Used /\ LinkOpensOnce

-----------------------------------------------------------------------------
\* Types.

Terms   == [quote : Quotes \cup {Named}, dest : Dests, after : Nat]
Kinds   == {"start", "quote", "accept", "prove", "proof", "pay", "bank", "refund"}
Steps   == {"refresh", "post", "request", "client", "code", "account", "sign",
            "refresh2", "submit", "check", "refresh3"}
FetchType ==
    {f \in [sequence : Nat, answer : {"asked", "read", "checking", "done", "lost", "refused"},
            read : OrderType \cup {None}] :
        f.answer = "read" => f.read # None}
\* The action under way: an acceptance carries its terms, and the making of a
\* client its phone request.
ActionType ==
    {b \in [kind : Kinds, step : Steps, with : Terms \cup Nat \cup {None},
            fetch : FetchType \cup {None}, reply : {None, "ok", "refused"}] :
        /\ b.kind = "accept" => b.with \in Terms
        /\ b.step = "client" => b.with \in Nat
        /\ b.step = "request" => b.kind = "prove"}
LateType ==
    {r \in [kind : Kinds, with : Terms \cup Nat \cup {None}] :
        r.kind = "accept" => r.with \in Terms}
PageType ==
    [closed : BOOLEAN, started : BOOLEAN, info : BOOLEAN,
     busy : ActionType \cup {None}, queued : Nat \cup {None},
     poll : FetchType \cup {None}, check : Nat \cup {None},
     view : OrderType \cup {None}, sequence : Nat, applied : Nat,
     quote : Quotes \cup {Named, None}, uncertain : Terms \cup {None},
     source : {None, "action", "acceptance", "status", "configuration"},
     epoch : Nat, phone : Nat \cup {None}, received : BOOLEAN, requests : SUBSET Nat,
     confirmed : Nat \cup {None}]
PhoneType ==
    [tab : Tabs, epoch : Nat, ended : BOOLEAN, sent : Nat, stale : BOOLEAN]
PaymentType ==
    [tab : Tabs, sequence : Nat, status : {"built", "posted", "success", "failed"}]

\* What the order, the pages and their histories consist of.
Types ==
    /\ order \in OrderType
    /\ late \in SUBSET LateType
    /\ page \in [Tabs -> PageType]
    /\ storage \in [Tabs -> [payment : Nat \cup {None}, launcher : BOOLEAN]]
    /\ payments \in Seq(PaymentType)
    /\ account \in Nat
    /\ phones \in Seq(PhoneType)
    /\ believed \in SUBSET Terms

-----------------------------------------------------------------------------
\* Phone requests.

\* The phone request whose client is being made, that may bring a proof, or whose
\* proof waits for the end of the action.
Awaits(pg, id) ==
    \/ id \in pg.requests
    \/ pg.queued # None /\ id = pg.queued
    \/ pg.busy # None /\ pg.busy.kind = "prove" /\ pg.busy.step = "client" /\ id = pg.busy.with

\* One of the page's present epoch is the one it shows, and nothing was sent for it.
Untold(t, id) ==
    /\ id \in DOMAIN phones /\ phones[id].tab = t
    /\ phones[id].epoch <= page[t].epoch
    /\ phones[id].epoch = page[t].epoch =>
         page[t].phone = id /\ ~phones[id].ended /\ phones[id].sent = 0
Expected == \A t \in Tabs, id \in Nat : Awaits(page[t], id) => Untold(t, id)
PhonesOK == Expected /\ ProofsCurrent

-----------------------------------------------------------------------------
\* The acceptance.

\* What a page has read of the order, applied or not.
HasRead(pg, o) ==
    /\ o # None
    /\ \/ o = pg.view
       \/ pg.poll # None /\ o = pg.poll.read
       \/ pg.busy # None /\ pg.busy.fetch # None /\ o = pg.busy.fetch.read
TermsOf(a) == <<a.quote, a.dest>>
Accepting(pg) == pg.busy # None /\ pg.busy.kind = "accept"
Taken(pg)     == Accepting(pg) /\ pg.busy.reply = "ok"

\* Nobody sees an order that does not exist; terms read were and stay accepted.
Unbegun ==
    order.stage = "none" =>
        /\ order.accepted = None /\ late = {}
        /\ \A t \in Tabs : place[t].at \in {"away", "signed"}
Honest ==
    \A t \in Tabs :
        /\ \A o \in OrderType :
              HasRead(page[t], o) /\ o.accepted # None => order.accepted = o.accepted
        /\ Accepting(page[t]) => page[t].view # None
        /\ Taken(page[t]) => order.accepted = TermsOf(page[t].busy.with)
AcceptanceOK == Unbegun /\ Honest /\ AcceptanceTrue

-----------------------------------------------------------------------------
\* The payment.

Paying(pg)  == /\ pg.busy # None /\ pg.busy.kind = "pay"
               /\ pg.busy.step \in {"account", "sign", "refresh2"}
Signing(pg) == Paying(pg) /\ pg.busy.step # "account"

LivePayment(p) ==
    \/ payments[p].status = "success"
    \/ payments[p].status = "posted" /\ payments[p].sequence = account

\* A payment that counts is the one its tab remembers; a tab that makes one
\* remembers none; and none was built on a number the account has not reached.
Remembered ==
    \A p \in DOMAIN payments : LivePayment(p) => storage[payments[p].tab].payment = p
Forgotten ==
    \A t \in Tabs : Paying(page[t]) => storage[t].payment = None
Own ==
    \A t \in Tabs : Signing(page[t]) =>
        /\ Built(t) \in DOMAIN payments
        /\ payments[Built(t)].tab = t /\ payments[Built(t)].status = "built"
Reached == \A p \in DOMAIN payments : payments[p].sequence <= account
PaymentOK == Remembered /\ Forgotten /\ Own /\ Reached

-----------------------------------------------------------------------------
\* Links: LinkOpensOnce.

LEMMA LinksInit == Init => LinksOK
<1> SUFFICES ASSUME Init PROVE LinksOK
  OBVIOUS
<1>1. place \in [Tabs -> PlaceType] /\ \A t \in Tabs : ~Opening(t)
  BY DEF Init, At, Away, PlaceType, Opening
<1>2. links = <<>> /\ opened = <<>>
  BY DEF Init
<1>3. /\ links \in Seq({"live", "used"}) /\ opened \in Seq(Nat)
      /\ DOMAIN opened = {}
  BY <1>2, EmptySeq
<1> QED
  BY <1>1, <1>3 DEF LinksOK, LinkTypes, Openers, Apart, Used, LinkOpensOnce

\* What takes no link back, adds no session and lets no tab begin to open.
LEMMA LinksKept ==
  ASSUME LinksOK, opened' = opened, links' \in Seq({"live", "used"}),
         \A m \in DOMAIN links : links[m] = "used" => m \in DOMAIN links' /\ links'[m] = "used",
         place' \in [Tabs -> PlaceType],
         \A t \in Tabs : place'[t].at = "opening" => place'[t] = place[t]
  PROVE  LinksOK'
<1>1. \A t \in Tabs : Opening(t)' => Opening(t) /\ place'[t] = place[t]
  BY DEF Opening
<1>2. LinkTypes'
  BY DEF LinksOK, LinkTypes
<1>3. Openers'
  BY <1>1 DEF LinksOK, Openers, Holds
<1>4. Apart'
  BY <1>1 DEF LinksOK, Apart
<1>5. Used' /\ LinkOpensOnce'
  BY DEF LinksOK, Used, LinkOpensOnce
<1> QED
  BY <1>2, <1>3, <1>4, <1>5 DEF LinksOK

\* The same of a step that touches one tab's place only.
LEMMA LinksMove ==
  ASSUME LinksOK, NEW t \in Tabs, opened' = opened, links' = links,
         NEW at \in {"away", "signed", "link", "page"}, NEW n \in Nat \cup {None},
         place' = [place EXCEPT ![t] = At(at, n)]
  PROVE  LinksOK'
<1>1. place' \in [Tabs -> PlaceType]
  BY DEF LinksOK, LinkTypes, At, PlaceType
<1>2. \A u \in Tabs : place'[u].at = "opening" => place'[u] = place[u]
  BY DEF LinksOK, LinkTypes, At, PlaceType
<1> QED
  BY <1>1, <1>2, LinksKept DEF LinksOK, LinkTypes

LEMMA LinksUnchanged ==
  ASSUME LinksOK, UNCHANGED <<place, links, opened>>
  PROVE  LinksOK'
  BY LinksKept DEF LinksOK, LinkTypes

LEMMA LinksLaunch ==
  ASSUME LinksOK, NEW t \in Tabs, Launch(t)
  PROVE  LinksOK'
<1>1. PICK n \in 1..MaxLinks :
        /\ Issue(n)
        /\ place' = [place EXCEPT ![t] = At("link", n)] \/ place' = place
  BY DEF Launch
<1>2. n \in Nat
  BY <1>1, HostedAssumption
<1>3. opened' = opened
  BY DEF Launch, histories
<1>4. place' \in [Tabs -> PlaceType]
  BY <1>1, <1>2 DEF LinksOK, LinkTypes, At, PlaceType
<1>5. \A u \in Tabs : place'[u].at = "opening" => place'[u] = place[u]
  BY <1>1 DEF LinksOK, LinkTypes, At, PlaceType
<1>6. links \in Seq({"live", "used"})
  BY DEF LinksOK, LinkTypes
<1>7. /\ links' \in Seq({"live", "used"})
      /\ \A m \in DOMAIN links : m \in DOMAIN links' /\ links'[m] = links[m]
  <2>1. CASE links' = links
    BY <1>6, <2>1
  <2>2. CASE links' = Append(links, "live")
    BY <1>6, <2>2
  <2> QED
    BY <1>1, <2>1, <2>2 DEF Issue
<1> QED
  BY <1>3, <1>4, <1>5, <1>7, LinksKept

LEMMA LinksOpen ==
  ASSUME LinksOK, NEW t \in Tabs, Open(t)
  PROVE  LinksOK'
<1>1. opened' = opened
  BY DEF Open, histories
<1>2. CASE cookie /\ Loads(t) /\ UNCHANGED <<links, cookie>>
  BY <1>1, <1>2, LinksMove DEF Loads
<1>3. CASE ~cookie /\ Live(place[t].link) /\ links' = Consumed(place[t].link)
           /\ place' = [place EXCEPT ![t].at = "opening"]
  <2>1. PICK n \in Nat : n = place[t].link /\ n \in DOMAIN links /\ links[n] = "live"
    <3>1. DOMAIN links \subseteq Nat
      BY LenProperties DEF LinksOK, LinkTypes
    <3> QED
      BY <1>3, <3>1 DEF Live
  <2>2. links \in Seq({"live", "used"})
    BY DEF LinksOK, LinkTypes
  <2>3. /\ links' \in Seq({"live", "used"}) /\ DOMAIN links' = DOMAIN links
        /\ links'[n] = "used"
        /\ \A m \in DOMAIN links : links[m] = "used" => links'[m] = "used"
    BY <1>3, <2>1, <2>2, ExceptSeq DEF Consumed
  <2>4. /\ place' \in [Tabs -> PlaceType]
        /\ \A u \in Tabs : place'[u].link = place[u].link
        /\ \A u \in Tabs : u # t => place'[u] = place[u]
    BY <1>3 DEF LinksOK, LinkTypes, PlaceType
  <2>5. \A i \in DOMAIN opened : opened[i] # n
    BY <2>1 DEF LinksOK, Used
  <2>6. \A u \in Tabs : Opening(u) => place[u].link # n
    BY <2>1 DEF LinksOK, Openers, Holds
  <2>7. \A u \in Tabs : u # t /\ Opening(u)' => Opening(u)
    BY <2>4 DEF Opening
  <2>8. Openers'
    <3> SUFFICES ASSUME NEW u \in Tabs, Opening(u)' PROVE Holds(u)'
      BY DEF Openers
    <3>1. CASE u = t
      BY <1>1, <2>1, <2>3, <2>4, <2>5, <3>1 DEF Holds
    <3>2. CASE u # t
      <4>1. Holds(u)
        BY <2>7, <3>2 DEF LinksOK, Openers
      <4> QED
        BY <1>1, <2>3, <2>4, <4>1 DEF Holds
    <3> QED
      BY <3>1, <3>2
  <2>9. Apart'
    <3> SUFFICES ASSUME NEW u \in Tabs, NEW v \in Tabs, Opening(u)', Opening(v)',
                        place[v].link = place[u].link
                 PROVE  v = u
      BY <2>4 DEF Apart
    <3>1. CASE u # t /\ v # t
      BY <2>7, <3>1 DEF LinksOK, Apart
    <3>2. CASE u = t \/ v = t
      BY <2>1, <2>6, <2>7, <3>2
    <3> QED
      BY <3>1, <3>2
  <2>10. Used' /\ LinkOpensOnce'
    BY <1>1, <2>3 DEF LinksOK, Used, LinkOpensOnce
  <2> QED
    BY <1>1, <2>3, <2>4, <2>8, <2>9, <2>10 DEF LinksOK, LinkTypes
<1>4. CASE place' = [place EXCEPT ![t] = Away] /\ UNCHANGED links
  BY <1>1, <1>4, LinksMove DEF Away
<1> QED
  BY <1>2, <1>3, <1>4 DEF Open

LEMMA LinksOpened ==
  ASSUME LinksOK, NEW t \in Tabs, Opened(t)
  PROVE  LinksOK'
<1>1. CASE place' = [place EXCEPT ![t] = Away] /\ UNCHANGED <<opened, links>>
  BY <1>1, LinksMove DEF Away
<1>2. CASE /\ Loads(t) /\ opened' = Append(opened, place[t].link)
           /\ links' = [links EXCEPT ![place[t].link] = "used"]
  <2>1. Opening(t) /\ Holds(t)
    BY DEF LinksOK, Openers, Opened, Opening
  <2>2. /\ links \in Seq({"live", "used"}) /\ opened \in Seq(Nat)
        /\ DOMAIN links \subseteq Nat
    BY LenProperties DEF LinksOK, LinkTypes
  <2>3. PICK n \in Nat : n = place[t].link
    BY <2>1, <2>2 DEF Holds
  <2>4. /\ links' \in Seq({"live", "used"})
        /\ \A m \in DOMAIN links : m \in DOMAIN links' /\ links'[m] = links[m]
    BY <1>2, <2>1, <2>2, ExceptSeq DEF Holds
  <2>5. place' = [place EXCEPT ![t] = At("page", None)]
    BY <1>2 DEF Loads
  <2>6. /\ place' \in [Tabs -> PlaceType]
        /\ \A u \in Tabs : Opening(u)' => Opening(u) /\ place'[u] = place[u] /\ u # t
    <3>1. place \in [Tabs -> PlaceType]
      BY DEF LinksOK, LinkTypes
    <3>2. At("page", None) \in PlaceType /\ At("page", None).at = "page"
      BY DEF At, PlaceType
    <3> QED
      BY <2>5, <3>1, <3>2 DEF Opening
  <2>7. PICK k \in Nat : k = Len(opened) /\ DOMAIN opened = 1..k
    BY <2>2, LenProperties
  <2>8. /\ opened' \in Seq(Nat) /\ DOMAIN opened' = 1..(k + 1)
        /\ \A i \in 1..k : opened'[i] = opened[i]
        /\ opened'[k + 1] = n
    <3>1. opened' = Append(opened, n)
      BY <1>2, <2>3
    <3>2. /\ opened' \in Seq(Nat) /\ Len(opened') = k + 1
          /\ \A i \in 1..k : opened'[i] = opened[i]
          /\ opened'[k + 1] = n
      BY <2>2, <2>7, <3>1, AppendProperties
    <3>3. DOMAIN opened' = 1..Len(opened')
      BY <3>2, LenProperties
    <3> QED
      BY <3>2, <3>3
  <2>9. \A i \in DOMAIN opened' :
          \/ i \in DOMAIN opened /\ opened'[i] = opened[i]
          \/ i = k + 1 /\ opened'[i] = n
    BY <2>7, <2>8
  <2>10. Openers'
    <3> SUFFICES ASSUME NEW u \in Tabs, Opening(u)' PROVE Holds(u)'
      BY DEF Openers
    <3>1. Opening(u) /\ place'[u] = place[u] /\ u # t
      BY <2>6
    <3>2. place[u].link # n
      BY <2>1, <2>3, <3>1 DEF LinksOK, Apart
    <3>3. Holds(u)
      BY <3>1 DEF LinksOK, Openers
    <3> QED
      BY <2>4, <2>9, <3>1, <3>2, <3>3 DEF Holds
  <2>11. Apart'
    BY <2>6 DEF LinksOK, Apart
  <2>12. Used'
    BY <2>1, <2>3, <2>4, <2>9 DEF LinksOK, Used, Holds
  <2>13. LinkOpensOnce'
    <3> SUFFICES ASSUME NEW i \in DOMAIN opened', NEW j \in DOMAIN opened', i # j
                 PROVE  opened'[i] # opened'[j]
      BY DEF LinkOpensOnce
    <3>1. \A m \in DOMAIN opened : opened[m] # n
      BY <2>1, <2>3 DEF Holds
    <3> QED
      BY <2>9, <3>1 DEF LinksOK, LinkOpensOnce
  <2> QED
    BY <2>4, <2>6, <2>8, <2>10, <2>11, <2>12, <2>13 DEF LinksOK, LinkTypes
<1> QED
  BY <1>1, <1>2 DEF Opened

\* The tab of every other step stays where it was, or leaves.
LEMMA LinksTab ==
  ASSUME LinksOK, NEW t \in Tabs, Tab(t)
  PROVE  LinksOK'
<1>1. CASE Login(t)
  <2>1. \/ place' = [place EXCEPT ![t] = Signed] \/ place' = [place EXCEPT ![t] = Away]
    BY <1>1 DEF Login
  <2>2. links' = links /\ opened' = opened
    BY <1>1 DEF Login, server, histories
  <2> QED
    BY <2>1, <2>2, LinksMove DEF Signed, Away
<1>2. CASE Launch(t)
  BY <1>2, LinksLaunch
<1>3. CASE Open(t)
  BY <1>3, LinksOpen
<1>4. CASE Opened(t)
  BY <1>4, LinksOpened
<1>5. CASE Reload(t)
  <2>1. \/ place' = [place EXCEPT ![t] = At("page", None)]
        \/ place' = [place EXCEPT ![t] = Away]
    BY <1>5 DEF Reload, Loads
  <2>2. links' = links /\ opened' = opened
    BY <1>5 DEF Reload, server, histories
  <2> QED
    BY <2>1, <2>2, LinksMove DEF Away
<1>6. CASE UNCHANGED <<place, links, opened>>
  BY <1>6, LinksUnchanged
<1>7. Hide(t) \/ Poll(t) \/ Polled(t) \/ Checked(t) => UNCHANGED <<place, links, opened>>
  BY DEF Hide, Poll, Polled, Checked, server, histories
<1>8. ASSUME NEW who \in {"action", "poll"}, Answers(t, who) \/ Applies(t, who) \/ Awaited(t, who)
      PROVE  UNCHANGED <<place, links, opened>>
  BY <1>8, Zenon DEF Answers, Applies, Awaited, server, histories
<1>9. ASSUME NEW kind \in Buttons, NEW dest \in Dests, Presses(t, kind, dest)
      PROVE  UNCHANGED <<place, links, opened>>
  BY <1>9, Zenon DEF Presses, server, histories
<1>10. Serves(t) \/ Replied(t) \/ TimesOut(t) => UNCHANGED <<place, links, opened>>
  BY Zenon DEF Serves, Replied, TimesOut, server, histories
<1>11. Requests(t) \/ Client(t) \/ Drawn(t) \/ PhoneEnds(t) => UNCHANGED <<place, links, opened>>
  BY Zenon DEF Requests, Client, Drawn, PhoneEnds, server, histories
<1>12. ASSUME NEW id \in DOMAIN phones, ProofGenerated(t, id)
       PROVE  UNCHANGED <<place, links, opened>>
  BY <1>12, Zenon DEF ProofGenerated, server, histories
<1>13. Continues(t) \/ Builds(t) \/ Signs(t) \/ Records(t) \/ Submitted(t) \/ Rereads(t)
         => UNCHANGED <<place, links, opened>>
  BY Zenon DEF Continues, Builds, Signs, Records, Submitted, Rereads, server, histories
<1> QED
  BY <1>1, <1>2, <1>3, <1>4, <1>5, <1>6, <1>7, <1>8, <1>9, <1>10, <1>11, <1>12, <1>13 DEF Tab

LEMMA LinksWorld ==
  ASSUME LinksOK, World
  PROVE  LinksOK'
<1>1. place' = place /\ opened' = opened
  BY DEF World, histories
<1>2. CASE links' = links
  BY <1>1, <1>2, LinksUnchanged
<1>3. CASE links' = [n \in DOMAIN links |-> "used"]
  <2>1. links \in Seq({"live", "used"})
    BY DEF LinksOK, LinkTypes
  <2>2. DOMAIN links = 1..Len(links) /\ Len(links) \in Nat
    BY <2>1, LenProperties
  <2>3. links' \in Seq({"live", "used"}) /\ DOMAIN links' = DOMAIN links
    BY <1>3, <2>2
  <2> QED
    BY <1>1, <1>3, <2>3, LinksKept DEF LinksOK, LinkTypes
<1> QED
  BY <1>2, <1>3 DEF World

LEMMA LinksStep ==
  ASSUME LinksOK, [Next]_vars
  PROVE  LinksOK'
<1>1. CASE \E t \in Tabs : Tab(t)
  BY <1>1, LinksTab
<1>2. CASE \E r \in late : ServedLate(r)
  BY <1>2, LinksUnchanged DEF ServedLate, histories
<1>3. CASE \E p \in DOMAIN payments : Include(p)
  BY <1>3, LinksUnchanged DEF Include, server, histories
<1>4. CASE World
  BY <1>4, LinksWorld
<1>5. CASE UNCHANGED vars
  BY <1>5, LinksUnchanged DEF vars, server, histories
<1> QED
  BY <1>1, <1>2, <1>3, <1>4, <1>5 DEF Next

\* A link gives at most one session, although tabs open it at the same time
\* (the DELETE ... RETURNING behind GET interactive/:id).
THEOREM HostedLinksOpenOnce == Spec => []LinkOpensOnce
<1>1. Init => LinksOK
  BY LinksInit
<1>2. LinksOK /\ [Next]_vars => LinksOK'
  BY LinksStep
<1>3. LinksOK => LinkOpensOnce
  BY DEF LinksOK
<1> QED
  BY <1>1, <1>2, <1>3, PTL DEF Spec

-----------------------------------------------------------------------------
\* Types: what the page's helpers return is a page.

LEMMA FreshType == Fresh \in PageType /\ Fresh.requests = {} /\ Fresh.queued = None
                   /\ Fresh.poll = None /\ Fresh.view = None /\ Fresh.epoch = 0
                   /\ Fresh.busy.kind = "start" /\ Fresh.busy.fetch.read = None
<1> DEFINE b == [kind |-> "start", step |-> "refresh", with |-> None, fetch |-> Fetch(1),
                 reply |-> None]
<1>1. Fetch(1) \in FetchType /\ Fetch(1).read = None
  BY DEF Fetch, FetchType
<1>2. b \in ActionType /\ b.kind = "start" /\ b.fetch = Fetch(1)
  BY <1>1 DEF ActionType, Kinds, Steps
<1>3. Fresh.busy = b
  BY DEF Fresh
<1> HIDE DEF b
<1>4. Fresh \in PageType
  BY <1>2, <1>3 DEF Fresh, PageType, b
<1> QED
  BY <1>1, <1>2, <1>3, <1>4 DEF Fresh

LEMMA FetchTyped ==
  ASSUME NEW n \in Nat
  PROVE  Fetch(n) \in FetchType /\ Fetch(n).read = None
  BY DEF Fetch, FetchType

\* The parts of a page, and a page of which one part is replaced.
LEMMA PageParts ==
  ASSUME NEW pg \in PageType
  PROVE  /\ pg.busy \in ActionType \cup {None} /\ pg.queued \in Nat \cup {None}
         /\ pg.poll \in FetchType \cup {None} /\ pg.check \in Nat \cup {None}
         /\ pg.view \in OrderType \cup {None} /\ pg.sequence \in Nat /\ pg.applied \in Nat
         /\ pg.quote \in Quotes \cup {Named, None} /\ pg.uncertain \in Terms \cup {None}
         /\ pg.source \in {None, "action", "acceptance", "status", "configuration"}
         /\ pg.epoch \in Nat /\ pg.phone \in Nat \cup {None} /\ pg.requests \in SUBSET Nat
         /\ pg.confirmed \in Nat \cup {None}
  BY DEF PageType

LEMMA Replaced ==
  ASSUME NEW pg \in PageType
  PROVE  /\ \A v \in BOOLEAN : [pg EXCEPT !.closed = v] \in PageType
         /\ \A v \in BOOLEAN : [pg EXCEPT !.started = v] \in PageType
         /\ \A v \in BOOLEAN : [pg EXCEPT !.info = v] \in PageType
         /\ \A v \in BOOLEAN : [pg EXCEPT !.received = v] \in PageType
         /\ \A v \in ActionType \cup {None} : [pg EXCEPT !.busy = v] \in PageType
         /\ \A v \in Nat \cup {None} : [pg EXCEPT !.queued = v] \in PageType
         /\ \A v \in FetchType \cup {None} : [pg EXCEPT !.poll = v] \in PageType
         /\ \A v \in Nat \cup {None} : [pg EXCEPT !.check = v] \in PageType
         /\ \A v \in OrderType \cup {None} : [pg EXCEPT !.view = v] \in PageType
         /\ \A v \in Nat : [pg EXCEPT !.sequence = v] \in PageType
         /\ \A v \in Nat : [pg EXCEPT !.applied = v] \in PageType
         /\ \A v \in Quotes \cup {Named, None} : [pg EXCEPT !.quote = v] \in PageType
         /\ \A v \in Terms \cup {None} : [pg EXCEPT !.uncertain = v] \in PageType
         /\ \A v \in {None, "action", "acceptance", "status", "configuration"} :
               [pg EXCEPT !.source = v] \in PageType
         /\ \A v \in Nat : [pg EXCEPT !.epoch = v] \in PageType
         /\ \A v \in Nat \cup {None} : [pg EXCEPT !.phone = v] \in PageType
         /\ \A v \in SUBSET Nat : [pg EXCEPT !.requests = v] \in PageType
         /\ \A v \in Nat \cup {None} : [pg EXCEPT !.confirmed = v] \in PageType
<1>1. /\ \A v \in BOOLEAN : [pg EXCEPT !.closed = v] \in PageType
      /\ \A v \in BOOLEAN : [pg EXCEPT !.started = v] \in PageType
      /\ \A v \in BOOLEAN : [pg EXCEPT !.info = v] \in PageType
      /\ \A v \in BOOLEAN : [pg EXCEPT !.received = v] \in PageType
  BY DEF PageType
<1>2. /\ \A v \in ActionType \cup {None} : [pg EXCEPT !.busy = v] \in PageType
      /\ \A v \in Nat \cup {None} : [pg EXCEPT !.queued = v] \in PageType
      /\ \A v \in FetchType \cup {None} : [pg EXCEPT !.poll = v] \in PageType
      /\ \A v \in Nat \cup {None} : [pg EXCEPT !.check = v] \in PageType
  BY DEF PageType
<1>3. /\ \A v \in OrderType \cup {None} : [pg EXCEPT !.view = v] \in PageType
      /\ \A v \in Nat : [pg EXCEPT !.sequence = v] \in PageType
      /\ \A v \in Nat : [pg EXCEPT !.applied = v] \in PageType
      /\ \A v \in Quotes \cup {Named, None} : [pg EXCEPT !.quote = v] \in PageType
  BY DEF PageType
<1>4. /\ \A v \in Terms \cup {None} : [pg EXCEPT !.uncertain = v] \in PageType
      /\ \A v \in {None, "action", "acceptance", "status", "configuration"} :
            [pg EXCEPT !.source = v] \in PageType
      /\ \A v \in Nat : [pg EXCEPT !.epoch = v] \in PageType
      /\ \A v \in Nat \cup {None} : [pg EXCEPT !.phone = v] \in PageType
  BY DEF PageType
<1>5. /\ \A v \in SUBSET Nat : [pg EXCEPT !.requests = v] \in PageType
      /\ \A v \in Nat \cup {None} : [pg EXCEPT !.confirmed = v] \in PageType
  BY DEF PageType
<1> QED
  BY <1>1, <1>2, <1>3, <1>4, <1>5

LEMMA CancelPhoneType ==
  ASSUME NEW pg \in PageType
  PROVE  CancelPhone(pg) \in PageType
<1>1. pg.epoch + 1 \in Nat
  BY PageParts
<1>2. [pg EXCEPT !.epoch = pg.epoch + 1] \in PageType
  BY <1>1, Replaced
<1> QED
  BY <1>2, Replaced DEF CancelPhone

LEMMA SubmitsType ==
  ASSUME NEW pg \in PageType, NEW id \in Nat
  PROVE  Submits(pg, id) \in PageType
<1> DEFINE b == [kind |-> "proof", step |-> "post", with |-> id, fetch |-> None, reply |-> None]
<1>1. b \in ActionType
  BY DEF ActionType, Kinds, Steps
<1>2. CancelPhone(pg) \in PageType
  BY CancelPhoneType
<1>3. [CancelPhone(pg) EXCEPT !.source = None] \in PageType
  BY <1>2, Replaced
<1> HIDE DEF b
<1>4. [CancelPhone(pg) EXCEPT !.source = None, !.busy = b] \in PageType
  BY <1>1, <1>3, Replaced
<1>5. [pg EXCEPT !.source = None] \in PageType
  BY Replaced
<1> QED
  BY <1>4, <1>5 DEF Submits, b

LEMMA FinishType ==
  ASSUME NEW pg \in PageType
  PROVE  Finish(pg) \in PageType
<1> DEFINE idle == [pg EXCEPT !.busy = None, !.started = TRUE]
<1>1. [pg EXCEPT !.busy = None] \in PageType
  BY Replaced
<1>2. idle \in PageType
  BY <1>1, Replaced
<1>3. pg.queued \in Nat \cup {None}
  BY PageParts
<1> HIDE DEF idle
<1>4. [idle EXCEPT !.queued = None] \in PageType
  BY <1>2, Replaced
<1>5. pg.queued # None => Submits([idle EXCEPT !.queued = None], pg.queued) \in PageType
  BY <1>3, <1>4, SubmitsType
<1> QED
  BY <1>2, <1>5 DEF Finish, idle

LEMMA ThrowType ==
  ASSUME NEW pg \in PageType
  PROVE  Throw(pg) \in PageType /\ NetworkError(pg) \in PageType
<1>1. \A s \in {None, "action"} : [pg EXCEPT !.source = s] \in PageType
  BY Replaced
<1> QED
  BY <1>1, FinishType DEF Throw, NetworkError

LEMMA StartType ==
  ASSUME NEW pg \in PageType, NEW kind \in Kinds, NEW step \in Steps \ {"client"},
         NEW with \in Terms \cup Nat \cup {None}, kind = "accept" => with \in Terms,
         step = "request" => kind = "prove"
  PROVE  Start(pg, kind, step, with) \in PageType
<1> DEFINE b == [kind |-> kind, step |-> step, with |-> with, fetch |-> None, reply |-> None]
<1>1. b \in ActionType
  BY DEF ActionType
<1> HIDE DEF b
<1>2. [pg EXCEPT !.source = None] \in PageType
  BY Replaced
<1>3. [pg EXCEPT !.source = None, !.busy = b] \in PageType
  BY <1>1, <1>2, Replaced
<1> QED
  BY <1>3 DEF Start, b

LEMMA RefreshType ==
  ASSUME NEW pg \in PageType, pg.busy # None,
         NEW step \in Steps \ {"client", "request"}
  PROVE  Refresh(pg, step) \in PageType
<1>1. pg.busy \in ActionType /\ pg.sequence + 1 \in Nat
  BY PageParts
<1> DEFINE b == [pg.busy EXCEPT !.step = step, !.fetch = Fetch(pg.sequence + 1)]
<1>2. b \in ActionType
  BY <1>1, FetchTyped DEF ActionType
<1> HIDE DEF b
<1>3. [pg EXCEPT !.sequence = @ + 1] \in PageType
  BY <1>1, Replaced
<1>4. [pg EXCEPT !.sequence = @ + 1, !.busy = b] \in PageType
  BY <1>2, <1>3, Replaced
<1> QED
  BY <1>4 DEF Refresh, b

LEMMA RecoversType ==
  ASSUME NEW pg \in PageType, NEW found \in BOOLEAN
  PROVE  Recovers(pg, found) \in PageType
<1>1. \A s \in {None, "action", "acceptance", "status", "configuration"} :
        [pg EXCEPT !.source = s] \in PageType
  BY Replaced
<1>2. [pg EXCEPT !.info = TRUE] \in PageType
  BY Replaced
<1>3. pg.source \in {None, "action", "acceptance", "status", "configuration"}
  BY PageParts
<1> DEFINE q == [pg EXCEPT !.info = TRUE]
<1> HIDE DEF q
<1>4. \A s \in {None, "action", "acceptance", "status", "configuration"} :
        [q EXCEPT !.source = s] \in PageType
  BY <1>2, Replaced DEF q
<1> QED
  BY <1>1, <1>3, <1>4 DEF Recovers, q

LEMMA FetchOfType ==
  ASSUME NEW t \in Tabs, page[t] \in PageType, NEW who \in {"action", "poll"}
  PROVE  FetchOf(t, who) \in FetchType \cup {None}
  BY DEF FetchOf, PageType, ActionType

LEMMA WithFetchType ==
  ASSUME NEW pg \in PageType, NEW who \in {"action", "poll"}, who = "action" => pg.busy # None,
         NEW f \in FetchType
  PROVE  WithFetch(pg, who, f) \in PageType
<1>1. CASE who = "poll"
  BY <1>1 DEF WithFetch, PageType
<1>2. CASE who = "action"
  <2>1. pg.busy \in ActionType
    BY <1>2 DEF PageType
  <2>2. [pg.busy EXCEPT !.fetch = f] \in ActionType
    BY <2>1 DEF ActionType
  <2>3. [pg EXCEPT !.busy = [pg.busy EXCEPT !.fetch = f]] \in PageType
    BY <2>2, Replaced
  <2> QED
    BY <1>2, <2>3 DEF WithFetch
<1> QED
  BY <1>1, <1>2

LEMMA LearnsType ==
  ASSUME NEW pg \in PageType, NEW o \in OrderType
  PROVE  Learns(pg, o) \in PageType
<1> DEFINE read  == [pg EXCEPT !.view = o]
           idle  == IF (Eligible(o) \/ Authorized(o)) /\ pg.phone # None
                    THEN CancelPhone(read) ELSE read
           first == IF pg.view = None /\ o.accepted = None
                    THEN [idle EXCEPT !.quote = Named] ELSE idle
<1>1. read \in PageType
  BY DEF PageType
<1>2. idle \in PageType
  BY <1>1, CancelPhoneType
<1>3. first \in PageType
  BY <1>2 DEF PageType
<1> HIDE DEF first
<1>4. /\ [first EXCEPT !.uncertain = None, !.quote = None, !.source = None] \in PageType
      /\ [first EXCEPT !.source = None] \in PageType
  <2>1. [first EXCEPT !.uncertain = None] \in PageType
    BY <1>3, Replaced
  <2>2. [first EXCEPT !.uncertain = None, !.quote = None] \in PageType
    BY <2>1, Replaced
  <2> QED
    BY <1>3, <2>2, Replaced
<1> QED
  BY <1>3, <1>4 DEF Learns, first

LEMMA ReconcilesType ==
  ASSUME NEW t \in Tabs, storage[t].payment \in Nat \cup {None}, NEW pg \in PageType
  PROVE  Reconciles(t, pg) \in PageType
  BY DEF Reconciles, PageType

\* The history of the phone requests keeps its length and its parts.
LEMMA TallyType ==
  ASSUME NEW t \in Tabs, NEW pg, phones \in Seq(PhoneType)
  PROVE  /\ Tally(t, pg) \in Seq(PhoneType) /\ DOMAIN Tally(t, pg) = DOMAIN phones
         /\ Len(Tally(t, pg)) = Len(phones)
         /\ \A id \in DOMAIN phones :
               Tally(t, pg)[id].tab = phones[id].tab /\ Tally(t, pg)[id].epoch = phones[id].epoch
<1>1. PICK n \in Nat : n = Len(phones) /\ DOMAIN phones = 1..n
  BY LenProperties
<1>2. \A id \in 1..n : phones[id] \in PhoneType
  BY <1>1, ElementOfSeq
<1>3. DOMAIN Tally(t, pg) = 1..n
  BY <1>1 DEF Tally
<1>4. \A id \in 1..n : /\ Tally(t, pg)[id] \in PhoneType
                       /\ Tally(t, pg)[id].tab = phones[id].tab
                       /\ Tally(t, pg)[id].epoch = phones[id].epoch
  <2> SUFFICES ASSUME NEW id \in 1..n
               PROVE  /\ Tally(t, pg)[id] \in PhoneType
                      /\ Tally(t, pg)[id].tab = phones[id].tab
                      /\ Tally(t, pg)[id].epoch = phones[id].epoch
    OBVIOUS
  <2> DEFINE r == phones[id]
             sends == Submitting(pg) /\ pg.busy.with = id /\ r.tab = t
                        /\ ~(Submitting(page[t]) /\ page[t].busy.with = id)
             ends == r.tab = t /\ page[t].phone = id /\ pg.phone # id
  <2>1. r \in PhoneType
    BY <1>2
  <2>2. Tally(t, pg)[id] = [r EXCEPT !.ended = @ \/ ends, !.sent = IF sends THEN @ + 1 ELSE @,
                                     !.stale = @ \/ (sends /\ r.ended)]
    BY <1>1 DEF Tally
  <2> HIDE DEF r, sends, ends
  <2>3. /\ r.ended \in BOOLEAN /\ r.stale \in BOOLEAN /\ r.sent \in Nat
        /\ (r.ended \/ ends) \in BOOLEAN /\ (r.stale \/ (sends /\ r.ended)) \in BOOLEAN
        /\ (IF sends THEN r.sent + 1 ELSE r.sent) \in Nat
    BY <2>1 DEF PhoneType
  <2>4. [r EXCEPT !.ended = @ \/ ends, !.sent = IF sends THEN @ + 1 ELSE @,
                  !.stale = @ \/ (sends /\ r.ended)] \in PhoneType
    BY <2>1, <2>3 DEF PhoneType
  <2> QED
    BY <2>1, <2>2, <2>4 DEF PhoneType, r
<1>5. Tally(t, pg) \in Seq(PhoneType)
  <2>1. Tally(t, pg) = [id \in 1..n |-> Tally(t, pg)[id]]
    BY <1>1 DEF Tally
  <2> DEFINE g == [id \in 1..n |-> Tally(t, pg)[id]]
  <2>2. g \in [1..n -> PhoneType]
    BY <1>4
  <2> HIDE DEF g
  <2>3. g \in Seq(PhoneType)
    BY <2>2
  <2> QED
    BY <2>1, <2>3, Zenon DEF g
<1>6. Len(Tally(t, pg)) = n
  BY <1>3, <1>5, LenProperties
<1> QED
  BY <1>1, <1>3, <1>4, <1>5, <1>6

-----------------------------------------------------------------------------
\* What a move makes of a page, as far as the properties look at it.

\* It waits for no other phone request, its epoch passes when it shows another,
\* and a proof it begins to submit is one it waited for in the present epoch.
Submittable(t, pg) ==
    \/ Submitting(page[t]) /\ page[t].busy.with = pg.busy.with
    \/ /\ pg.epoch > page[t].epoch
       /\ \E id \in Nat : /\ id = pg.busy.with /\ Awaits(page[t], id)
                          /\ phones[id].epoch = page[t].epoch
Tells(t, pg) ==
    /\ \A id \in Nat : Awaits(pg, id) => Awaits(page[t], id)
    /\ \/ pg.epoch = page[t].epoch /\ pg.phone = page[t].phone
       \/ pg.epoch > page[t].epoch
    /\ Submitting(pg) => Submittable(t, pg)

\* What it has read of the order it had read before, or is the order.
Reads(t, pg) ==
    /\ \A o \in OrderType : HasRead(pg, o) => HasRead(page[t], o) \/ o = order
    /\ page[t].view # None => pg.view # None
    /\ Accepting(pg) => Accepting(page[t]) \/ pg.view # None
    /\ Taken(pg) => Taken(page[t]) /\ pg.busy.with = page[t].busy.with

\* A payment is begun only when none is remembered, and keeps its transaction.
Pays(t, pg) ==
    /\ Paying(pg) => Paying(page[t]) \/ storage[t].payment = None
    /\ Signing(pg) => Signing(page[t]) /\ pg.busy.with = page[t].busy.with

Becomes(t, pg) == pg \in PageType /\ Tells(t, pg) /\ Reads(t, pg) /\ Pays(t, pg)

\* Pages alike in what these look at.
Alike(pg, q) ==
    /\ q.busy = pg.busy /\ q.queued \in {pg.queued, None} /\ q.poll = pg.poll
    /\ q.view = pg.view /\ q.epoch = pg.epoch /\ q.phone = pg.phone
    /\ q.requests = pg.requests

LEMMA BecomesItself ==
  ASSUME NEW t \in Tabs, page[t] \in PageType
  PROVE  Becomes(t, page[t])
<1>1. Tells(t, page[t])
  BY DEF Tells, Submittable
<1>2. Reads(t, page[t]) /\ Pays(t, page[t])
  BY DEF Reads, Pays
<1> QED
  BY <1>1, <1>2 DEF Becomes

LEMMA BecomesAlike ==
  ASSUME NEW t \in Tabs, NEW pg, Becomes(t, pg), NEW q \in PageType, Alike(pg, q)
  PROVE  Becomes(t, q)
<1>1. Tells(t, q)
  <2>1. \A id \in Nat : Awaits(q, id) => Awaits(pg, id)
    BY DEF Awaits, Alike
  <2> QED
    BY <2>1 DEF Becomes, Tells, Submittable, Submitting, Alike
<1>2. Reads(t, q)
  BY DEF Becomes, Reads, HasRead, Accepting, Taken, Alike
<1>3. Pays(t, q)
  BY DEF Becomes, Pays, Paying, Signing, Alike
<1> QED
  BY <1>1, <1>2, <1>3 DEF Becomes

LEMMA CancelPhoneParts ==
  ASSUME NEW pg \in PageType
  PROVE  LET q == CancelPhone(pg)
         IN /\ q.busy = pg.busy /\ q.queued = pg.queued /\ q.poll = pg.poll
            /\ q.view = pg.view /\ q.epoch = pg.epoch + 1 /\ q.phone = None
            /\ q.requests = pg.requests
  BY DEF CancelPhone, PageType

LEMMA BecomesCancelled ==
  ASSUME NEW t \in Tabs, page[t] \in PageType, NEW pg, Becomes(t, pg)
  PROVE  Becomes(t, CancelPhone(pg))
<1> DEFINE q == CancelPhone(pg)
<1>1. pg \in PageType /\ q \in PageType
  BY CancelPhoneType DEF Becomes
<1>2. /\ q.busy = pg.busy /\ q.queued = pg.queued /\ q.poll = pg.poll
      /\ q.view = pg.view /\ q.epoch = pg.epoch + 1
      /\ q.requests = pg.requests
  BY <1>1, CancelPhoneParts
<1> HIDE DEF q
<1>3. q.epoch > page[t].epoch /\ (pg.epoch > page[t].epoch => q.epoch > page[t].epoch)
  <2>1. pg.epoch \in Nat /\ page[t].epoch \in Nat
    BY <1>1, PageParts
  <2>2. pg.epoch >= page[t].epoch
    BY <2>1 DEF Becomes, Tells
  <2> QED
    BY <1>2, <2>1, <2>2
<1>4. Tells(t, q)
  <2>1. \A id \in Nat : Awaits(q, id) => Awaits(pg, id)
    BY <1>2 DEF Awaits
  <2> QED
    BY <1>2, <1>3, <2>1, Zenon DEF Becomes, Tells, Submittable, Submitting
<1>5. Reads(t, q)
  BY <1>2 DEF Becomes, Reads, HasRead, Accepting, Taken
<1>6. Pays(t, q)
  BY <1>2 DEF Becomes, Pays, Paying, Signing
<1> QED
  BY <1>1, <1>4, <1>5, <1>6 DEF Becomes, q

\* Another step of the same action.
LEMMA BecomesBusy ==
  ASSUME NEW t \in Tabs, NEW pg, Becomes(t, pg), pg.busy # None, NEW b \in ActionType,
         b.kind = pg.busy.kind, b.with = pg.busy.with, b.reply = pg.busy.reply,
         \/ b.step = pg.busy.step
         \/ b.step \notin {"client", "account", "sign", "refresh2"}
         \/ b.step = "refresh2" /\ pg.busy.step = "sign",
         b.fetch # None => b.fetch.read = None \/ HasRead(pg, b.fetch.read) \/ b.fetch.read = order
  PROVE  Becomes(t, [pg EXCEPT !.busy = b])
<1> DEFINE q == [pg EXCEPT !.busy = b]
<1>1. pg \in PageType /\ q \in PageType
  BY Replaced DEF Becomes
<1>2. /\ q.busy = b /\ q.queued = pg.queued /\ q.poll = pg.poll
      /\ q.view = pg.view /\ q.epoch = pg.epoch /\ q.phone = pg.phone
      /\ q.requests = pg.requests
  BY <1>1 DEF PageType
<1> HIDE DEF q
<1>3. Tells(t, q)
  <2>1. \A id \in Nat : Awaits(q, id) => Awaits(pg, id)
    BY <1>2 DEF Awaits
  <2>2. Submitting(q) => Submitting(pg) /\ q.busy.with = pg.busy.with
    BY <1>2 DEF Submitting
  <2> QED
    BY <1>2, <2>1, <2>2, Zenon DEF Becomes, Tells, Submittable
<1>4. Reads(t, q)
  <2>1. \A o \in OrderType : HasRead(q, o) => HasRead(pg, o) \/ o = order
    BY <1>2 DEF HasRead
  <2>2. /\ Accepting(q) => Accepting(pg)
        /\ Taken(q) => Taken(pg) /\ q.busy.with = pg.busy.with
    BY <1>2 DEF Accepting, Taken
  <2> QED
    BY <1>2, <2>1, <2>2, Zenon DEF Becomes, Reads
<1>5. Pays(t, q)
  BY <1>2 DEF Becomes, Pays, Paying, Signing
<1> QED
  BY <1>1, <1>3, <1>4, <1>5 DEF Becomes, q

LEMMA BecomesIdle ==
  ASSUME NEW t \in Tabs, NEW pg, Becomes(t, pg), NEW q \in PageType,
         Alike([pg EXCEPT !.busy = None], q)
  PROVE  Becomes(t, q)
<1>1. pg \in PageType
  BY DEF Becomes
<1>2. /\ q.busy = None /\ q.queued \in {pg.queued, None} /\ q.poll = pg.poll
      /\ q.view = pg.view /\ q.epoch = pg.epoch /\ q.phone = pg.phone
      /\ q.requests = pg.requests
  BY <1>1 DEF Alike, PageType
<1>3. Tells(t, q)
  <2>1. \A id \in Nat : Awaits(q, id) => Awaits(pg, id)
    BY <1>2 DEF Awaits
  <2>2. ~Submitting(q)
    BY <1>2 DEF Submitting
  <2> QED
    BY <1>2, <2>1, <2>2 DEF Becomes, Tells
<1>4. Reads(t, q)
  BY <1>2 DEF Becomes, Reads, HasRead, Accepting, Taken
<1>5. Pays(t, q)
  BY <1>2 DEF Pays, Paying, Signing
<1> QED
  BY <1>3, <1>4, <1>5 DEF Becomes

\* An action that begins.
LEMMA BecomesStarted ==
  ASSUME NEW t \in Tabs, NEW pg, Becomes(t, pg), NEW kind \in Kinds \ {"proof"},
         NEW step \in Steps \ {"client", "account", "sign", "refresh2"},
         NEW with \in Terms \cup Nat \cup {None},
         kind = "accept" => with \in Terms /\ pg.view # None,
         step = "request" => kind = "prove"
  PROVE  Becomes(t, Start(pg, kind, step, with))
<1> DEFINE q == Start(pg, kind, step, with)
<1>1. pg \in PageType /\ q \in PageType
  BY StartType DEF Becomes
<1>2. /\ q.busy.kind = kind /\ q.busy.step = step /\ q.busy.fetch = None
      /\ q.busy.reply = None
      /\ q.queued = pg.queued /\ q.poll = pg.poll
      /\ q.view = pg.view /\ q.epoch = pg.epoch /\ q.phone = pg.phone
      /\ q.requests = pg.requests
  BY <1>1 DEF Start, PageType
<1> HIDE DEF q
<1>3. Tells(t, q)
  <2>1. \A id \in Nat : Awaits(q, id) => Awaits(pg, id)
    BY <1>2 DEF Awaits
  <2>2. ~Submitting(q)
    BY <1>2 DEF Submitting
  <2> QED
    BY <1>2, <2>1, <2>2 DEF Becomes, Tells
<1>4. Reads(t, q)
  <2>1. ~Taken(q)
    BY <1>2, HostedAssumption DEF Taken
  <2> QED
    BY <1>2, <2>1 DEF Becomes, Reads, HasRead, Accepting
<1>5. Pays(t, q)
  BY <1>2 DEF Pays, Paying, Signing
<1> QED
  BY <1>1, <1>3, <1>4, <1>5 DEF Becomes, q

LEMMA BecomesSubmits ==
  ASSUME NEW t \in Tabs, Types, Expected, NEW pg, Becomes(t, pg),
         NEW id \in Nat, Awaits(page[t], id)
  PROVE  Becomes(t, Submits(pg, id))
<1>1. pg \in PageType /\ page[t] \in PageType
  BY DEF Becomes, Types
<1>2. CASE ~Current(pg, id)
  <2> DEFINE s == [pg EXCEPT !.source = None]
  <2>1. s \in PageType
    BY <1>1, Replaced
  <2>2. Alike(pg, s)
    BY <1>1 DEF Alike, PageType
  <2>3. Submits(pg, id) = s
    BY <1>2 DEF Submits
  <2> QED
    BY <2>1, <2>2, <2>3, BecomesAlike
<1>3. CASE Current(pg, id)
  <2>1. phones[id].epoch = pg.epoch
    BY <1>3 DEF Current
  <2>2. id \in DOMAIN phones /\ phones[id].epoch <= page[t].epoch
    BY DEF Expected, Untold
  <2>3. pg.epoch \in Nat /\ page[t].epoch \in Nat
    BY <1>1, PageParts
  <2>4. phones[id].epoch = page[t].epoch /\ pg.epoch = page[t].epoch
    BY <2>1, <2>2, <2>3 DEF Becomes, Tells
  <2> DEFINE b == [kind |-> "proof", step |-> "post", with |-> id, fetch |-> None,
                   reply |-> None]
             c == CancelPhone(pg)
             q == [c EXCEPT !.source = None, !.busy = b]
  <2>5. c \in PageType /\ b \in ActionType
    BY <1>1, CancelPhoneType DEF ActionType, Kinds, Steps
  <2>6. q \in PageType
    <3>1. [c EXCEPT !.source = None] \in PageType
      BY <2>5, Replaced
    <3> HIDE DEF b, c
    <3> QED
      BY <2>5, <3>1, Replaced
  <2>7. /\ c.queued = pg.queued /\ c.poll = pg.poll /\ c.view = pg.view
        /\ c.epoch = pg.epoch + 1 /\ c.requests = pg.requests
    BY <1>1, CancelPhoneParts
  <2>8. b.kind = "proof" /\ b.with = id /\ b.fetch = None
    OBVIOUS
  <2> HIDE DEF b, c
  <2>9. /\ q.busy = b /\ q.queued = pg.queued /\ q.poll = pg.poll /\ q.view = pg.view
        /\ q.epoch = pg.epoch + 1 /\ q.requests = pg.requests
    BY <2>5, <2>7 DEF PageType
  <2> HIDE DEF q
  <2>10. q.epoch > page[t].epoch
    BY <2>3, <2>4, <2>9
  <2>11. Tells(t, q)
    <3>1. \A i \in Nat : Awaits(q, i) => Awaits(pg, i)
      BY <2>8, <2>9 DEF Awaits
    <3>2. Submittable(t, q)
      BY <2>4, <2>8, <2>9, <2>10 DEF Submittable
    <3> QED
      BY <2>10, <3>1, <3>2 DEF Becomes, Tells
  <2>12. Reads(t, q)
    BY <2>8, <2>9 DEF Becomes, Reads, HasRead, Accepting, Taken
  <2>13. Pays(t, q)
    BY <2>8, <2>9 DEF Pays, Paying, Signing
  <2>14. Submits(pg, id) = q
    BY <1>3 DEF Submits, q, b, c
  <2> QED
    BY <2>6, <2>11, <2>12, <2>13, <2>14 DEF Becomes
<1> QED
  BY <1>2, <1>3

LEMMA BecomesFinished ==
  ASSUME NEW t \in Tabs, Types, Expected, NEW pg, Becomes(t, pg)
  PROVE  Becomes(t, Finish(pg))
<1> DEFINE idle == [pg EXCEPT !.busy = None, !.started = TRUE]
           next == [idle EXCEPT !.queued = None]
<1>1. pg \in PageType /\ page[t] \in PageType
  BY DEF Becomes, Types
<1>2. idle \in PageType
  <2>1. [pg EXCEPT !.busy = None] \in PageType
    BY <1>1, Replaced
  <2> QED
    BY <2>1, Replaced
<1>3. next \in PageType
  BY <1>2, Replaced
<1>4. Alike([pg EXCEPT !.busy = None], idle)
  BY <1>1 DEF Alike, PageType
<1>5. Alike([pg EXCEPT !.busy = None], next)
  BY <1>1 DEF Alike, PageType
<1> HIDE DEF idle, next
<1>6. Becomes(t, idle) /\ Becomes(t, next)
  BY <1>2, <1>3, <1>4, <1>5, BecomesIdle
<1>7. pg.queued # None => Becomes(t, Submits(next, pg.queued))
  <2>1. SUFFICES ASSUME pg.queued # None PROVE Becomes(t, Submits(next, pg.queued))
    OBVIOUS
  <2>2. pg.queued \in Nat /\ Awaits(pg, pg.queued)
    BY <1>1, <2>1, PageParts DEF Awaits
  <2>3. Awaits(page[t], pg.queued)
    BY <2>2 DEF Becomes, Tells
  <2> QED
    BY <1>6, <2>2, <2>3, BecomesSubmits
<1> QED
  BY <1>6, <1>7 DEF Finish, idle, next

LEMMA BecomesThrown ==
  ASSUME NEW t \in Tabs, Types, Expected, NEW pg, Becomes(t, pg)
  PROVE  Becomes(t, Throw(pg)) /\ Becomes(t, NetworkError(pg))
<1>1. pg \in PageType
  BY DEF Becomes
<1>2. ASSUME NEW s \in {None, "action"}
      PROVE  Becomes(t, Finish([pg EXCEPT !.source = s]))
  <2>1. [pg EXCEPT !.source = s] \in PageType
    BY <1>1, Replaced
  <2>2. Alike(pg, [pg EXCEPT !.source = s])
    BY <1>1 DEF Alike, PageType
  <2> QED
    BY <2>1, <2>2, BecomesAlike, BecomesFinished
<1> QED
  BY <1>2 DEF Throw, NetworkError

LEMMA BecomesRecovered ==
  ASSUME NEW t \in Tabs, NEW pg, Becomes(t, pg), NEW found \in BOOLEAN
  PROVE  Becomes(t, Recovers(pg, found))
<1>1. pg \in PageType /\ Recovers(pg, found) \in PageType
  BY RecoversType DEF Becomes
<1>2. Alike(pg, Recovers(pg, found))
  BY <1>1 DEF Recovers, Alike, PageType
<1> QED
  BY <1>1, <1>2, BecomesAlike

LEMMA BecomesReconciled ==
  ASSUME NEW t \in Tabs, Types, NEW pg, Becomes(t, pg)
  PROVE  Becomes(t, Reconciles(t, pg))
<1>1. pg \in PageType /\ Reconciles(t, pg) \in PageType
  BY ReconcilesType DEF Becomes, Types
<1>2. Alike(pg, Reconciles(t, pg))
  BY <1>1 DEF Reconciles, Alike, PageType
<1> QED
  BY <1>1, <1>2, BecomesAlike

LEMMA BecomesRefreshing ==
  ASSUME NEW t \in Tabs, NEW pg, Becomes(t, pg), pg.busy # None, NEW step \in Steps,
         \/ step \in {"refresh", "refresh3"}
         \/ step = "refresh2" /\ pg.busy.step = "sign"
  PROVE  Becomes(t, Refresh(pg, step))
<1> DEFINE n == pg.sequence + 1
           q == [pg EXCEPT !.sequence = n]
           b == [pg.busy EXCEPT !.step = step, !.fetch = Fetch(n)]
<1>1. pg \in PageType /\ n \in Nat /\ pg.busy \in ActionType
  BY PageParts DEF Becomes
<1>2. Fetch(n) \in FetchType /\ Fetch(n).read = None
  BY <1>1, FetchTyped
<1> HIDE DEF n
<1>3. q \in PageType
  BY <1>1, Replaced
<1>4. Alike(pg, q)
  BY <1>1 DEF Alike, PageType
<1>5. b \in ActionType
  BY <1>1, <1>2 DEF ActionType
<1>6. /\ b.kind = pg.busy.kind /\ b.with = pg.busy.with /\ b.reply = pg.busy.reply
      /\ b.step = step /\ b.fetch = Fetch(n)
  BY <1>1 DEF ActionType
<1>7. Becomes(t, q) /\ q.busy = pg.busy
  BY <1>3, <1>4, BecomesAlike DEF Alike
<1>8. Refresh(pg, step) = [q EXCEPT !.busy = b]
  BY <1>1 DEF Refresh, n, PageType
<1> HIDE DEF q, b
<1> QED
  BY <1>2, <1>5, <1>6, <1>7, <1>8, BecomesBusy

LEMMA BecomesFetched ==
  ASSUME NEW t \in Tabs, NEW pg, Becomes(t, pg), NEW who \in {"action", "poll"},
         who = "action" => pg.busy # None, NEW f \in FetchType,
         f.read = None \/ HasRead(pg, f.read) \/ f.read = order
  PROVE  Becomes(t, WithFetch(pg, who, f))
<1>1. pg \in PageType
  BY DEF Becomes
<1>2. CASE who = "poll"
  <2> DEFINE q == [pg EXCEPT !.poll = f]
  <2>1. q \in PageType
    BY <1>1, Replaced
  <2>2. /\ q.busy = pg.busy /\ q.queued = pg.queued /\ q.poll = f
        /\ q.view = pg.view /\ q.epoch = pg.epoch /\ q.phone = pg.phone
        /\ q.requests = pg.requests
    BY <1>1 DEF PageType
  <2> HIDE DEF q
  <2>3. Tells(t, q)
    <3>1. \A id \in Nat : Awaits(q, id) => Awaits(pg, id)
      BY <2>2 DEF Awaits
    <3> QED
      BY <2>2, <3>1 DEF Becomes, Tells, Submittable, Submitting
  <2>4. Reads(t, q)
    <3>1. \A o \in OrderType : HasRead(q, o) => HasRead(pg, o) \/ o = order
      BY <2>2 DEF HasRead
    <3> QED
      BY <2>2, <3>1 DEF Becomes, Reads, Accepting, Taken
  <2>5. Pays(t, q)
    BY <2>2 DEF Becomes, Pays, Paying, Signing
  <2> QED
    BY <1>2, <2>1, <2>3, <2>4, <2>5 DEF Becomes, WithFetch, q
<1>3. CASE who = "action"
  <2> DEFINE b == [pg.busy EXCEPT !.fetch = f]
  <2>1. pg.busy \in ActionType
    BY <1>1, <1>3, PageParts
  <2>2. b \in ActionType
    BY <2>1 DEF ActionType
  <2>3. /\ b.kind = pg.busy.kind /\ b.with = pg.busy.with /\ b.reply = pg.busy.reply
        /\ b.step = pg.busy.step /\ b.fetch = f
    BY <2>1 DEF ActionType
  <2>4. WithFetch(pg, who, f) = [pg EXCEPT !.busy = b]
    BY <1>3 DEF WithFetch
  <2> HIDE DEF b
  <2> QED
    BY <1>3, <2>2, <2>3, <2>4, BecomesBusy
<1> QED
  BY <1>2, <1>3

\* What a page learns of the order that was read.
LEMMA LearnsParts ==
  ASSUME NEW pg \in PageType, NEW o \in OrderType
  PROVE  LET q == Learns(pg, o)
         IN /\ q.busy = pg.busy /\ q.queued = pg.queued /\ q.poll = pg.poll
            /\ q.view = o /\ q.requests = pg.requests
            /\ \/ q.epoch = pg.epoch /\ q.phone = pg.phone
               \/ q.epoch = pg.epoch + 1
            /\ q.uncertain = None => pg.uncertain = None \/ o.accepted = TermsOf(pg.uncertain)
<1> DEFINE read  == [pg EXCEPT !.view = o]
           idle  == IF (Eligible(o) \/ Authorized(o)) /\ pg.phone # None
                    THEN CancelPhone(read) ELSE read
           first == IF pg.view = None /\ o.accepted = None
                    THEN [idle EXCEPT !.quote = Named] ELSE idle
<1>1. read \in PageType
  BY Replaced
<1>2. idle \in PageType
  BY <1>1, CancelPhoneType
<1>3. first \in PageType
  BY <1>2, Replaced
<1>4. /\ read.busy = pg.busy /\ read.queued = pg.queued /\ read.poll = pg.poll
      /\ read.view = o /\ read.requests = pg.requests /\ read.epoch = pg.epoch
      /\ read.phone = pg.phone /\ read.uncertain = pg.uncertain
  BY DEF PageType
<1>5. /\ CancelPhone(read).uncertain = read.uncertain
  BY <1>1 DEF CancelPhone, PageType
<1> HIDE DEF read
<1>6. /\ idle.busy = pg.busy /\ idle.queued = pg.queued /\ idle.poll = pg.poll
      /\ idle.view = o /\ idle.requests = pg.requests
      /\ \/ idle.epoch = pg.epoch /\ idle.phone = pg.phone
         \/ idle.epoch = pg.epoch + 1
      /\ idle.uncertain = pg.uncertain
  BY <1>1, <1>4, <1>5, CancelPhoneParts
<1> HIDE DEF idle
<1>7. /\ first.busy = pg.busy /\ first.queued = pg.queued /\ first.poll = pg.poll
      /\ first.view = o /\ first.requests = pg.requests
      /\ \/ first.epoch = pg.epoch /\ first.phone = pg.phone
         \/ first.epoch = pg.epoch + 1
      /\ first.uncertain = pg.uncertain
  BY <1>2, <1>6 DEF PageType
<1> HIDE DEF first
<1> DEFINE clear == [first EXCEPT !.uncertain = None, !.quote = None, !.source = None]
           quiet == [first EXCEPT !.source = None]
<1>8. /\ clear.busy = first.busy /\ clear.queued = first.queued /\ clear.poll = first.poll
      /\ clear.view = first.view /\ clear.requests = first.requests
      /\ clear.epoch = first.epoch /\ clear.phone = first.phone
  BY <1>3 DEF PageType
<1>9. /\ quiet.busy = first.busy /\ quiet.queued = first.queued /\ quiet.poll = first.poll
      /\ quiet.view = first.view /\ quiet.requests = first.requests
      /\ quiet.epoch = first.epoch /\ quiet.phone = first.phone
      /\ quiet.uncertain = first.uncertain
  BY <1>3 DEF PageType
<1> HIDE DEF clear, quiet
<1>10. \/ /\ Learns(pg, o) = clear
          /\ Acknowledged(first, pg.uncertain)
       \/ Learns(pg, o) = quiet
       \/ Learns(pg, o) = first
  BY DEF Learns, clear, quiet, first, idle, read
<1>11. Acknowledged(first, pg.uncertain) => o.accepted = TermsOf(pg.uncertain)
  BY <1>7 DEF Acknowledged, TermsOf
<1> QED
  BY <1>7, <1>8, <1>9, <1>10, <1>11

LEMMA BecomesLearnt ==
  ASSUME NEW t \in Tabs, Types, NEW pg, Becomes(t, pg),
         NEW o \in OrderType, HasRead(page[t], o)
  PROVE  Becomes(t, Learns(pg, o))
<1> DEFINE q == Learns(pg, o)
<1>1. pg \in PageType /\ q \in PageType
  BY LearnsType DEF Becomes
<1>2. /\ q.busy = pg.busy /\ q.queued = pg.queued /\ q.poll = pg.poll
      /\ q.view = o /\ q.requests = pg.requests
      /\ \/ q.epoch = pg.epoch /\ q.phone = pg.phone
         \/ q.epoch = pg.epoch + 1
  BY <1>1, LearnsParts
<1> HIDE DEF q
<1>3. Tells(t, q)
  <2>1. \A id \in Nat : Awaits(q, id) => Awaits(pg, id)
    BY <1>2 DEF Awaits
  <2>2. pg.epoch \in Nat /\ page[t].epoch \in Nat
    BY <1>1, PageParts DEF Types
  <2>3. /\ \/ q.epoch = page[t].epoch /\ q.phone = page[t].phone
           \/ q.epoch > page[t].epoch
        /\ pg.epoch > page[t].epoch => q.epoch > page[t].epoch
    BY <1>2, <2>2 DEF Becomes, Tells
  <2>4. Submitting(q) => Submitting(pg) /\ q.busy.with = pg.busy.with
    BY <1>2 DEF Submitting
  <2> QED
    BY <2>1, <2>3, <2>4, Zenon DEF Becomes, Tells, Submittable
<1>4. Reads(t, q)
  <2>1. \A r \in OrderType : HasRead(q, r) => HasRead(pg, r) \/ r = o
    BY <1>2 DEF HasRead
  <2>2. o # None
    BY DEF HasRead
  <2> QED
    BY <1>2, <2>1, <2>2 DEF Becomes, Reads, Accepting, Taken
<1>5. Pays(t, q)
  BY <1>2 DEF Becomes, Pays, Paying, Signing
<1> QED
  BY <1>1, <1>3, <1>4, <1>5 DEF Becomes, q

-----------------------------------------------------------------------------
\* The steps of a page that do no more than this.

Moving(t) == \E pg \in PageType : Moves(t, pg) /\ Becomes(t, pg)

LEMMA MovingTo ==
  ASSUME NEW t, NEW pg, Moves(t, pg), Becomes(t, pg)
  PROVE  Moving(t)
  BY DEF Moving, Becomes

LEMMA HideMoves ==
  ASSUME NEW t \in Tabs, Types, Hide(t)
  PROVE  Moving(t)
<1> DEFINE q == CancelPhone(page[t])
<1>1. page[t] \in PageType /\ Becomes(t, q)
  BY BecomesItself, BecomesCancelled DEF Types
<1>2. q \in PageType
  BY <1>1 DEF Becomes
<1>3. [q EXCEPT !.closed = TRUE] \in PageType
  BY <1>2, Replaced
<1>4. Alike(q, [q EXCEPT !.closed = TRUE])
  BY <1>2 DEF Alike, PageType
<1>5. Becomes(t, [q EXCEPT !.closed = TRUE])
  BY <1>1, <1>3, <1>4, BecomesAlike
<1> QED
  BY <1>5, MovingTo DEF Hide

LEMMA AnswersMove ==
  ASSUME NEW t \in Tabs, Types, NEW who \in {"action", "poll"}, Answers(t, who)
  PROVE  Moving(t)
<1> DEFINE f == FetchOf(t, who)
<1>1. page[t] \in PageType /\ Becomes(t, page[t]) /\ order \in OrderType
  BY BecomesItself DEF Types
<1>2. f \in FetchType /\ (who = "action" => page[t].busy # None)
  BY <1>1, FetchOfType DEF Answers, FetchOf
<1>3. f.answer = "asked"
  BY DEF Answers
<1> HIDE DEF f
<1>4. PICK g \in {[f EXCEPT !.answer = "read", !.read = order],
                  [f EXCEPT !.answer = "refused"], [f EXCEPT !.answer = "lost"]} :
        Moves(t, WithFetch(page[t], who, g))
  BY DEF Answers, f
<1>5. order # None
  BY <1>1, HostedAssumption
<1>6. f.read = None \/ HasRead(page[t], f.read)
  BY <1>1, <1>2 DEF Answers, f, FetchOf, HasRead
<1>7. g \in FetchType /\ g.read \in {f.read, order}
  BY <1>1, <1>2, <1>5 DEF FetchType
<1>8. Becomes(t, WithFetch(page[t], who, g))
  BY <1>1, <1>2, <1>6, <1>7, BecomesFetched
<1> QED
  BY <1>4, <1>8, MovingTo

LEMMA DoneFetch ==
  ASSUME NEW f \in FetchType, NEW a \in {"done", "checking"}
  PROVE  LET g == [f EXCEPT !.answer = a, !.read = None]
         IN  g \in FetchType /\ g.read = None
  BY DEF FetchType

\* It tells which terms the page takes for accepted as well.
LEMMA AppliesMoves ==
  ASSUME NEW t \in Tabs, Types, NEW who \in {"action", "poll"}, Applies(t, who)
  PROVE  /\ Moving(t)
         /\ \/ believed' = believed
            \/ \E o \in OrderType : /\ HasRead(page[t], o)
                                    /\ o.accepted = TermsOf(page[t].uncertain)
                                    /\ page[t].uncertain # None
                                    /\ believed' = believed \cup {page[t].uncertain}
<1> DEFINE f  == FetchOf(t, who)
           pg == page[t]
<1>1. pg \in PageType /\ Becomes(t, pg)
  BY BecomesItself DEF Types
<1>2. f \in FetchType /\ (who = "action" => pg.busy # None)
  BY <1>1, FetchOfType DEF Applies, FetchOf
<1>3. f.answer = "read" /\ f.read \in OrderType /\ f.read # None
  BY <1>2 DEF Applies, FetchType
<1>4. HasRead(pg, f.read)
  BY <1>1, <1>2, <1>3 DEF Applies, FetchOf, HasRead
<1>5. f.sequence \in Nat /\ pg.applied \in Nat
  BY <1>1, <1>2 DEF FetchType, PageType
<1> DEFINE base == [pg EXCEPT !.applied = f.sequence]
           new  == Learns(base, f.read)
           chk  == Reconciles(t, new)
           g    == IF chk.check = None THEN Done(f)
                   ELSE [f EXCEPT !.answer = "checking", !.read = None]
<1>6. CASE f.sequence < pg.applied
  <2>1. Done(f) \in FetchType /\ Done(f).read = None
    BY <1>2, DoneFetch DEF Done
  <2>2. Becomes(t, WithFetch(pg, who, Done(f)))
    BY <1>1, <1>2, <2>1, BecomesFetched
  <2>3. Moves(t, WithFetch(pg, who, Done(f))) /\ believed' = believed
    BY <1>6 DEF Applies, histories
  <2> QED
    BY <2>2, <2>3, MovingTo
<1>7. CASE ~(f.sequence < pg.applied)
  <2>1. base \in PageType
    BY <1>1, <1>5, Replaced
  <2>2. Alike(pg, base) /\ base.uncertain = pg.uncertain
    BY <1>1 DEF Alike, PageType
  <2>3. Becomes(t, base)
    BY <1>1, <2>1, <2>2, BecomesAlike
  <2> HIDE DEF base, f
  <2>4. Becomes(t, new) /\ Becomes(t, chk)
    BY <1>3, <1>4, <2>3, BecomesLearnt, BecomesReconciled
  <2>5. new.busy = pg.busy /\ chk.busy = new.busy
    <3>1. new.busy = base.busy /\ new \in PageType
      BY <1>3, <2>1, LearnsParts, LearnsType
    <3>2. chk.busy = new.busy
      BY <3>1 DEF Reconciles, PageType
    <3> QED
      BY <2>2, <3>1, <3>2 DEF Alike
  <2>6. new.uncertain = None => pg.uncertain = None \/ f.read.accepted = TermsOf(pg.uncertain)
    BY <1>3, <2>1, <2>2, LearnsParts
  <2>7. g \in FetchType /\ g.read = None
    BY <1>2, DoneFetch DEF Done
  <2>8. /\ Moves(t, WithFetch(chk, who, g))
        /\ believed' = IF pg.uncertain # None /\ new.uncertain = None
                       THEN believed \cup {pg.uncertain} ELSE believed
    BY <1>7 DEF Applies, base, f
  <2> HIDE DEF new, chk, g
  <2>9. Becomes(t, WithFetch(chk, who, g))
    BY <1>2, <2>4, <2>5, <2>7, BecomesFetched
  <2> QED
    BY <1>3, <1>4, <2>6, <2>8, <2>9, MovingTo
<1> QED
  BY <1>6, <1>7

LEMMA AwaitedMoves ==
  ASSUME NEW t \in Tabs, Types, NEW who \in {"action", "poll"}, Awaited(t, who)
  PROVE  Moving(t)
<1> DEFINE f == FetchOf(t, who)
<1>1. page[t] \in PageType /\ Becomes(t, page[t])
  BY BecomesItself DEF Types
<1>2. f \in FetchType /\ (who = "action" => page[t].busy # None)
  BY <1>1, FetchOfType DEF Awaited, FetchOf
<1>3. Done(f) \in FetchType /\ Done(f).read = None
  BY <1>2, DoneFetch DEF Done
<1>4. Becomes(t, WithFetch(page[t], who, Done(f)))
  BY <1>1, <1>2, <1>3, BecomesFetched
<1> QED
  BY <1>4, MovingTo DEF Awaited

LEMMA CheckedMoves ==
  ASSUME NEW t \in Tabs, Types, Checked(t)
  PROVE  Moving(t)
<1> DEFINE pg == [page[t] EXCEPT !.check = None]
           p  == page[t].check
           q  == [pg EXCEPT !.confirmed = p]
<1>1. page[t] \in PageType /\ Becomes(t, page[t]) /\ p \in Nat \cup {None}
  BY BecomesItself, PageParts DEF Types
<1>2. pg \in PageType
  BY <1>1, Replaced
<1>3. Alike(page[t], pg)
  BY <1>1 DEF Alike, PageType
<1>4. Becomes(t, pg)
  BY <1>1, <1>2, <1>3, BecomesAlike
<1> HIDE DEF pg
<1>5. q \in PageType
  BY <1>1, <1>2, Replaced
<1>6. Alike(pg, q)
  BY <1>2 DEF Alike, PageType
<1>7. Becomes(t, q)
  BY <1>4, <1>5, <1>6, BecomesAlike
<1>8. Moves(t, pg) \/ Moves(t, q)
  BY DEF Checked, pg
<1> QED
  BY <1>4, <1>7, <1>8, MovingTo

LEMMA PollMoves ==
  ASSUME NEW t \in Tabs, Types, Poll(t)
  PROVE  Moving(t)
<1> DEFINE n == page[t].sequence + 1
           q == [page[t] EXCEPT !.sequence = n]
           r == WithFetch(q, "poll", Fetch(n))
<1>1. page[t] \in PageType /\ Becomes(t, page[t]) /\ n \in Nat
  BY BecomesItself, PageParts DEF Types
<1>2. q \in PageType
  BY <1>1, Replaced
<1>3. Alike(page[t], q)
  BY <1>1 DEF Alike, PageType
<1>4. Becomes(t, q)
  BY <1>1, <1>2, <1>3, BecomesAlike
<1>5. Becomes(t, r)
  BY <1>1, <1>4, FetchTyped, BecomesFetched
<1>6. Moves(t, r)
  BY DEF Poll, WithFetch
<1> QED
  BY <1>5, <1>6, MovingTo

LEMMA PolledMoves ==
  ASSUME NEW t \in Tabs, Types, Polled(t)
  PROVE  Moving(t)
<1> DEFINE pg == [page[t] EXCEPT !.poll = None]
<1>1. page[t] \in PageType /\ Becomes(t, page[t])
  BY BecomesItself DEF Types
<1>2. pg \in PageType
  BY <1>1, Replaced
<1>3. Becomes(t, pg)
  <2>1. /\ pg.busy = page[t].busy /\ pg.queued = page[t].queued /\ pg.poll = None
        /\ pg.view = page[t].view /\ pg.epoch = page[t].epoch /\ pg.phone = page[t].phone
        /\ pg.requests = page[t].requests
    BY <1>1 DEF PageType
  <2> HIDE DEF pg
  <2>2. Tells(t, pg)
    <3>1. \A id \in Nat : Awaits(pg, id) => Awaits(page[t], id)
      BY <2>1 DEF Awaits
    <3> QED
      BY <2>1, <3>1 DEF Tells, Submittable, Submitting
  <2>3. Reads(t, pg)
    <3>1. \A o \in OrderType : HasRead(pg, o) => HasRead(page[t], o)
      BY <2>1 DEF HasRead
    <3> QED
      BY <2>1, <3>1 DEF Reads, Accepting, Taken
  <2>4. Pays(t, pg)
    BY <2>1 DEF Pays, Paying, Signing
  <2> QED
    BY <1>2, <2>2, <2>3, <2>4 DEF Becomes
<1> HIDE DEF pg
<1>4. Becomes(t, Recovers(pg, TRUE)) /\ Becomes(t, Recovers(pg, FALSE))
  BY <1>3, BecomesRecovered
<1>5. [pg EXCEPT !.source = "status"] \in PageType
  BY <1>2, Replaced
<1>6. Alike(pg, [pg EXCEPT !.source = "status"])
  BY <1>2 DEF Alike, PageType
<1>7. Becomes(t, [pg EXCEPT !.source = "status"])
  BY <1>3, <1>5, <1>6, BecomesAlike
<1>8. \/ Moves(t, Recovers(pg, TRUE)) \/ Moves(t, Recovers(pg, FALSE))
      \/ Moves(t, pg) \/ Moves(t, [pg EXCEPT !.source = "status"])
  BY DEF Polled, pg
<1> QED
  BY <1>3, <1>4, <1>7, <1>8, MovingTo

LEMMA PressesMove ==
  ASSUME NEW t \in Tabs, Types, NEW kind \in Buttons, NEW dest \in Dests,
         Presses(t, kind, dest)
  PROVE  Moving(t)
<1> DEFINE pg == page[t]
<1>1. pg \in PageType /\ Becomes(t, pg)
  BY BecomesItself DEF Types
<1>2. Offers(t, kind)
  BY DEF Presses
<1>3. CASE kind \in {"quote", "bank", "refund"}
  <2>1. Moves(t, Start(pg, kind, "post", None))
    BY <1>3 DEF Presses
  <2>2. Becomes(t, Start(pg, kind, "post", None))
    BY <1>1, <1>3, BecomesStarted DEF Kinds, Steps
  <2> QED
    BY <2>1, <2>2, MovingTo
<1>4. CASE kind = "accept"
  <2> DEFINE a == [quote |-> pg.quote, dest |-> dest, after |-> pg.applied]
  <2>1. Moves(t, Start(pg, kind, "post", a))
    BY <1>4 DEF Presses
  <2>2. pg.view # None /\ pg.quote # None
    BY <1>2, <1>4 DEF Offers
  <2>3. a \in Terms
    <3>1. pg.quote \in Quotes \cup {Named} /\ pg.applied \in Nat
      BY <1>1, <2>2, PageParts
    <3> QED
      BY <3>1 DEF Terms
  <2> HIDE DEF a
  <2>4. Becomes(t, Start(pg, kind, "post", a))
    BY <1>1, <1>4, <2>2, <2>3, BecomesStarted DEF Kinds, Steps
  <2> QED
    BY <2>1, <2>4, MovingTo
<1>5. CASE kind = "prove"
  <2>1. Moves(t, Start(pg, kind, "request", None))
    BY <1>5 DEF Presses
  <2>2. Becomes(t, Start(pg, kind, "request", None))
    BY <1>1, <1>5, BecomesStarted DEF Kinds, Steps
  <2> QED
    BY <2>1, <2>2, MovingTo
<1>6. CASE kind = "pay" /\ pg.info
  <2> DEFINE s == Start(pg, kind, "refresh", None)
             n == s.sequence + 1
             b == [s.busy EXCEPT !.step = "refresh", !.fetch = Fetch(n)]
             m == [s EXCEPT !.sequence = n]
             q == [m EXCEPT !.busy = b]
  <2>1. Moves(t, Refresh(s, "refresh"))
    BY <1>6 DEF Presses
  <2>2. s \in PageType
    BY <1>1, <1>6, StartType DEF Kinds, Steps
  <2>3. n \in Nat
    BY <2>2, PageParts
  <2>4. /\ s.queued = pg.queued /\ s.poll = pg.poll /\ s.view = pg.view
        /\ s.epoch = pg.epoch /\ s.phone = pg.phone /\ s.requests = pg.requests
        /\ s.busy = [kind |-> kind, step |-> "refresh", with |-> None, fetch |-> None,
                     reply |-> None]
    BY <1>1 DEF Start, PageType
  <2>5. Fetch(n) \in FetchType /\ Fetch(n).read = None
    BY <2>3, FetchTyped
  <2>6. Refresh(s, "refresh") = q
    BY DEF Refresh
  <2> HIDE DEF s, n
  <2>7. s.busy \in ActionType /\ s.busy.kind = "pay"
    BY <1>6, <2>4 DEF ActionType, Kinds, Steps
  <2>8. b \in ActionType
    BY <2>5, <2>7 DEF ActionType, Steps
  <2>9. b.kind = "pay" /\ b.step = "refresh" /\ b.fetch.read = None
    BY <2>5, <2>7 DEF ActionType
  <2> HIDE DEF b
  <2>10. m \in PageType
    BY <2>2, <2>3, Replaced
  <2>11. q \in PageType
    BY <2>8, <2>10, Replaced
  <2>12. /\ q.queued = pg.queued /\ q.poll = pg.poll /\ q.view = pg.view
         /\ q.epoch = pg.epoch /\ q.phone = pg.phone /\ q.requests = pg.requests
         /\ q.busy = b
    BY <2>2, <2>4 DEF PageType
  <2> HIDE DEF q
  <2>13. Tells(t, q)
    <3>1. \A id \in Nat : Awaits(q, id) => Awaits(pg, id)
      BY <2>9, <2>12 DEF Awaits
    <3> QED
      BY <2>9, <2>12, <3>1 DEF Tells, Submitting
  <2>14. Reads(t, q)
    <3>1. \A o \in OrderType : HasRead(q, o) => HasRead(pg, o)
      BY <2>9, <2>12 DEF HasRead
    <3> QED
      BY <2>9, <2>12, <3>1 DEF Reads, Accepting, Taken
  <2>15. Pays(t, q)
    BY <2>9, <2>12 DEF Pays, Paying, Signing
  <2> QED
    BY <2>1, <2>6, <2>11, <2>13, <2>14, <2>15, MovingTo DEF Becomes
<1>7. CASE kind = "pay" /\ ~pg.info
  <2>1. Moves(t, [pg EXCEPT !.source = "action"])
    BY <1>7 DEF Presses
  <2>2. [pg EXCEPT !.source = "action"] \in PageType
    BY <1>1, Replaced
  <2>3. Alike(pg, [pg EXCEPT !.source = "action"])
    BY <1>1 DEF Alike, PageType
  <2> QED
    BY <1>1, <2>1, <2>2, <2>3, BecomesAlike, MovingTo
<1>8. CASE kind = "change"
  <2>1. Moves(t, [pg EXCEPT !.quote = None])
    BY <1>8 DEF Presses
  <2>2. [pg EXCEPT !.quote = None] \in PageType
    BY <1>1, Replaced
  <2>3. Alike(pg, [pg EXCEPT !.quote = None])
    BY <1>1 DEF Alike, PageType
  <2> QED
    BY <1>1, <2>1, <2>2, <2>3, BecomesAlike, MovingTo
<1>9. CASE kind = "cancel"
  <2>1. Moves(t, CancelPhone(pg))
    BY <1>9 DEF Presses
  <2> QED
    BY <1>1, <2>1, BecomesCancelled, MovingTo
<1> QED
  BY <1>3, <1>4, <1>5, <1>6, <1>7, <1>8, <1>9 DEF Buttons

\* The answer to what was posted; terms are taken for accepted when they were.
LEMMA RepliedMoves ==
  ASSUME NEW t \in Tabs, Types, Expected, Replied(t)
  PROVE  /\ Moving(t)
         /\ \/ believed' = believed
            \/ Taken(page[t]) /\ believed' = believed \cup {page[t].busy.with}
<1> DEFINE pg == page[t]
           b  == pg.busy
<1>1. pg \in PageType /\ Becomes(t, pg)
  BY BecomesItself DEF Types
<1>2. pg.busy # None /\ b.reply # None /\ b \in ActionType
  BY <1>1, PageParts DEF Replied, Posted
<1>3. CASE b.reply = "refused"
  <2>1. Moves(t, Throw(pg)) /\ believed' = believed
    BY <1>3 DEF Replied
  <2> QED
    BY <1>1, <2>1, BecomesThrown, MovingTo
<1>4. CASE b.reply # "refused" /\ b.kind = "quote"
  <2>1. PICK q \in Quotes : Moves(t, Finish([pg EXCEPT !.quote = q])) /\ believed' = believed
    BY <1>4 DEF Replied
  <2>2. [pg EXCEPT !.quote = q] \in PageType
    BY <1>1, Replaced
  <2>3. Alike(pg, [pg EXCEPT !.quote = q])
    BY <1>1 DEF Alike, PageType
  <2>4. Becomes(t, Finish([pg EXCEPT !.quote = q]))
    BY <1>1, <2>2, <2>3, BecomesAlike, BecomesFinished
  <2> QED
    BY <2>1, <2>4, MovingTo
<1>5. CASE b.reply # "refused" /\ b.kind = "accept"
  <2> DEFINE m == [pg EXCEPT !.uncertain = None]
             q == [m EXCEPT !.quote = None]
  <2>1. Moves(t, Refresh(q, "refresh")) /\ believed' = believed \cup {b.with}
    BY <1>5 DEF Replied
  <2>2. m \in PageType
    BY <1>1, Replaced
  <2>3. Alike(pg, q) /\ q.busy = pg.busy
    BY <1>1 DEF Alike, PageType
  <2> HIDE DEF m
  <2>4. q \in PageType
    BY <2>2, Replaced
  <2> HIDE DEF q
  <2>5. Becomes(t, q)
    BY <1>1, <2>3, <2>4, BecomesAlike
  <2>6. Becomes(t, Refresh(q, "refresh"))
    BY <1>2, <2>3, <2>5, BecomesRefreshing DEF Steps
  <2>7. Taken(pg)
    BY <1>2, <1>5 DEF Taken, Accepting, ActionType
  <2> QED
    BY <2>1, <2>6, <2>7, MovingTo
<1>6. CASE b.reply # "refused" /\ b.kind \notin {"quote", "accept"}
  <2>1. Moves(t, Refresh(pg, "refresh")) /\ believed' = believed
    BY <1>6 DEF Replied
  <2>2. Becomes(t, Refresh(pg, "refresh"))
    BY <1>1, <1>2, BecomesRefreshing DEF Steps
  <2> QED
    BY <2>1, <2>2, MovingTo
<1> QED
  BY <1>3, <1>4, <1>5, <1>6

\* The answer is lost; the terms are taken for accepted if they were read so.
LEMMA TimesOutMoves ==
  ASSUME NEW t \in Tabs, Types, Expected, TimesOut(t)
  PROVE  /\ Moving(t)
         /\ \/ believed' = believed
            \/ /\ Accepting(page[t])
               /\ page[t].view.accepted = TermsOf(page[t].busy.with)
               /\ believed' = believed \cup {page[t].busy.with}
<1> DEFINE pg == page[t]
           b  == pg.busy
<1>1. pg \in PageType /\ Becomes(t, pg)
  BY BecomesItself DEF Types
<1>2. pg.busy # None /\ b \in ActionType
  BY <1>1, PageParts DEF TimesOut, Posted
<1>3. \/ believed' = believed
      \/ /\ Accepting(pg) /\ pg.view.accepted = TermsOf(b.with)
         /\ believed' = believed \cup {b.with}
  BY <1>2 DEF TimesOut, Accepting, Acknowledged, TermsOf
<1>4. CASE b.kind = "accept"
  <2>1. b.with \in Terms
    BY <1>2, <1>4 DEF ActionType
  <2> DEFINE m1 == [pg EXCEPT !.uncertain = None]
             q1 == [m1 EXCEPT !.quote = None]
             m2 == [pg EXCEPT !.uncertain = b.with]
             q2 == [m2 EXCEPT !.source = "acceptance"]
  <2>2. m1 \in PageType /\ m2 \in PageType
    BY <1>1, <2>1, Replaced
  <2>3. Alike(pg, q1)
    BY <1>1 DEF Alike, PageType
  <2>4. Alike(pg, q2)
    BY <1>1 DEF Alike, PageType
  <2>5. Moves(t, Finish(q1)) \/ Moves(t, Finish(q2))
    BY <1>4 DEF TimesOut
  <2> HIDE DEF m1, m2
  <2>6. q1 \in PageType /\ q2 \in PageType
    BY <2>2, Replaced
  <2> HIDE DEF q1, q2
  <2>7. Becomes(t, Finish(q1)) /\ Becomes(t, Finish(q2))
    BY <1>1, <2>3, <2>4, <2>6, BecomesAlike, BecomesFinished
  <2> QED
    BY <1>3, <2>5, <2>7, MovingTo
<1>5. CASE b.kind # "accept"
  <2>1. Moves(t, NetworkError(CancelPhone(pg))) \/ Moves(t, NetworkError(pg))
    BY <1>5 DEF TimesOut
  <2>2. Becomes(t, CancelPhone(pg))
    BY <1>1, BecomesCancelled
  <2>3. Becomes(t, NetworkError(CancelPhone(pg))) /\ Becomes(t, NetworkError(pg))
    BY <1>1, <2>2, BecomesThrown
  <2> QED
    BY <1>3, <2>1, <2>3, MovingTo
<1> QED
  BY <1>4, <1>5

LEMMA ClientMoves ==
  ASSUME NEW t \in Tabs, Types, Expected, Client(t)
  PROVE  Moving(t)
<1> DEFINE pg == page[t]
           id == pg.busy.with
           b  == [pg.busy EXCEPT !.step = "code"]
           m  == [pg EXCEPT !.requests = @ \cup {id}]
           q  == [m EXCEPT !.busy = b]
<1>1. pg \in PageType /\ Becomes(t, pg)
  BY BecomesItself DEF Types
<1>2. /\ pg.busy # None /\ pg.busy \in ActionType
      /\ pg.busy.kind = "prove" /\ pg.busy.step = "client"
  BY <1>1, PageParts DEF Client, Working
<1>3. Becomes(t, Finish(pg)) /\ Becomes(t, Throw(CancelPhone(pg)))
  BY <1>1, BecomesFinished, BecomesCancelled, BecomesThrown
<1>4. \/ phones[id].epoch = pg.epoch /\ Moves(t, q)
      \/ Moves(t, Finish(pg)) \/ Moves(t, Throw(CancelPhone(pg)))
  BY DEF Client
<1>5. ASSUME id \in Nat PROVE Becomes(t, q)
  <2>1. m \in PageType
    <3>1. (pg.requests \cup {id}) \in SUBSET Nat
      BY <1>1, <1>5, PageParts
    <3> QED
      BY <1>1, <3>1, Replaced
  <2>2. b \in ActionType
    BY <1>2 DEF ActionType, Steps
  <2>3. /\ b.kind = "prove" /\ b.step = "code" /\ b.fetch = pg.busy.fetch
    BY <1>2 DEF ActionType
  <2>4. /\ q.queued = pg.queued /\ q.poll = pg.poll /\ q.view = pg.view
        /\ q.epoch = pg.epoch /\ q.phone = pg.phone /\ q.requests = pg.requests \cup {id}
        /\ q.busy = b
    BY <1>1 DEF PageType
  <2> HIDE DEF m, b
  <2>5. q \in PageType
    BY <2>1, <2>2, Replaced
  <2> HIDE DEF q
  <2>6. Tells(t, q)
    <3>1. \A i \in Nat : Awaits(q, i) => Awaits(pg, i)
      BY <1>2, <2>3, <2>4 DEF Awaits
    <3> QED
      BY <2>3, <2>4, <3>1 DEF Tells, Submitting
  <2>7. Reads(t, q)
    <3>1. \A o \in OrderType : HasRead(q, o) => HasRead(pg, o)
      BY <1>2, <2>3, <2>4 DEF HasRead
    <3> QED
      BY <2>3, <2>4, <3>1 DEF Reads, Accepting, Taken
  <2>8. Pays(t, q)
    BY <2>3, <2>4 DEF Pays, Paying, Signing
  <2> QED
    BY <2>5, <2>6, <2>7, <2>8 DEF Becomes
<1>6. id \in Nat
  BY <1>2 DEF ActionType
<1> QED
  BY <1>3, <1>4, <1>5, <1>6, MovingTo

LEMMA DrawnMoves ==
  ASSUME NEW t \in Tabs, Types, Expected, Drawn(t)
  PROVE  Moving(t)
<1>1. Becomes(t, Finish(page[t]))
  BY BecomesItself, BecomesFinished DEF Types
<1>2. Becomes(t, Throw(CancelPhone(page[t])))
  BY BecomesItself, BecomesCancelled, BecomesThrown DEF Types
<1> QED
  BY <1>1, <1>2, MovingTo DEF Drawn

LEMMA ProofGeneratedMoves ==
  ASSUME NEW t \in Tabs, Types, Expected, NEW id \in DOMAIN phones, ProofGenerated(t, id)
  PROVE  Moving(t)
<1> DEFINE pg == [page[t] EXCEPT !.received = TRUE]
           q  == [pg EXCEPT !.queued = id]
<1>1. page[t] \in PageType /\ Becomes(t, page[t])
  BY BecomesItself DEF Types
<1>2. id \in Nat
  BY LenProperties DEF Types
<1>3. Awaits(page[t], id)
  BY DEF ProofGenerated, Awaits
<1>4. pg \in PageType
  BY <1>1, Replaced
<1>5. Alike(page[t], pg)
  BY <1>1 DEF Alike, PageType
<1>6. Becomes(t, pg)
  BY <1>1, <1>4, <1>5, BecomesAlike
<1>7. Becomes(t, Submits(pg, id))
  BY <1>2, <1>3, <1>6, BecomesSubmits
<1>8. Becomes(t, q)
  <2>1. q \in PageType
    BY <1>2, <1>4, Replaced
  <2>2. /\ q.busy = pg.busy /\ q.queued = id /\ q.poll = pg.poll
        /\ q.view = pg.view /\ q.epoch = pg.epoch /\ q.phone = pg.phone
        /\ q.requests = pg.requests
    BY <1>4 DEF PageType
  <2> HIDE DEF pg, q
  <2>3. Tells(t, q)
    <3>1. \A i \in Nat : Awaits(q, i) => Awaits(pg, i) \/ i = id
      BY <2>2 DEF Awaits
    <3> QED
      BY <1>3, <1>6, <2>2, <3>1 DEF Becomes, Tells, Submittable, Submitting
  <2>4. Reads(t, q)
    BY <1>6, <2>2 DEF Becomes, Reads, HasRead, Accepting, Taken
  <2>5. Pays(t, q)
    BY <1>6, <2>2 DEF Becomes, Pays, Paying, Signing
  <2> QED
    BY <2>1, <2>3, <2>4, <2>5 DEF Becomes
<1>9. Moves(t, q) \/ Moves(t, Submits(pg, id))
  BY DEF ProofGenerated
<1> QED
  BY <1>7, <1>8, <1>9, MovingTo

LEMMA PhoneEndsMoves ==
  ASSUME NEW t \in Tabs, Types, PhoneEnds(t)
  PROVE  Moving(t)
<1>1. Becomes(t, CancelPhone(page[t]))
  BY BecomesItself, BecomesCancelled DEF Types
<1> QED
  BY <1>1, MovingTo DEF PhoneEnds

LEMMA ContinuesMoves ==
  ASSUME NEW t \in Tabs, Types, Expected, Continues(t)
  PROVE  Moving(t)
<1> DEFINE pg == page[t]
           b  == pg.busy
           f  == FetchOf(t, "action")
           st == [pg EXCEPT !.source = "status"]
           ac == [b EXCEPT !.step = "account", !.fetch = None]
           q  == [pg EXCEPT !.busy = ac]
<1>1. pg \in PageType /\ Becomes(t, pg)
  BY BecomesItself DEF Types
<1>2. b # None /\ b \in ActionType
  BY <1>1, PageParts DEF Continues, FetchOf
<1>3. Becomes(t, st)
  <2>1. st \in PageType
    BY <1>1, Replaced
  <2>2. Alike(pg, st)
    BY <1>1 DEF Alike, PageType
  <2> QED
    BY <1>1, <2>1, <2>2, BecomesAlike
<1>4. /\ Becomes(t, Finish(Recovers(pg, TRUE))) /\ Becomes(t, Finish(Recovers(pg, FALSE)))
      /\ Becomes(t, Finish(Recovers(st, TRUE))) /\ Becomes(t, Finish(Recovers(st, FALSE)))
  <2> HIDE DEF st
  <2> QED
    BY <1>1, <1>3, BecomesRecovered, BecomesFinished
<1>5. Becomes(t, NetworkError(pg)) /\ Becomes(t, Throw(pg)) /\ Becomes(t, Finish(pg))
  BY <1>1, BecomesThrown, BecomesFinished
<1>6. ASSUME storage[t].payment = None, b.kind = "pay"
      PROVE  Becomes(t, q)
  <2>1. ac \in ActionType
    BY <1>2 DEF ActionType, Steps
  <2>2. ac.kind = "pay" /\ ac.step = "account" /\ ac.fetch = None
    BY <1>2, <1>6 DEF ActionType
  <2> HIDE DEF ac
  <2>3. q \in PageType
    BY <1>1, <2>1, Replaced
  <2>4. /\ q.busy = ac /\ q.queued = pg.queued /\ q.poll = pg.poll
        /\ q.view = pg.view /\ q.epoch = pg.epoch /\ q.phone = pg.phone
        /\ q.requests = pg.requests
    BY <1>1 DEF PageType
  <2> HIDE DEF q
  <2>5. Tells(t, q)
    <3>1. \A i \in Nat : Awaits(q, i) => Awaits(pg, i)
      BY <2>2, <2>4 DEF Awaits
    <3> QED
      BY <2>2, <2>4, <3>1 DEF Tells, Submitting
  <2>6. Reads(t, q)
    <3>1. \A o \in OrderType : HasRead(q, o) => HasRead(pg, o)
      BY <2>2, <2>4 DEF HasRead
    <3> QED
      BY <2>2, <2>4, <3>1 DEF Reads, Accepting, Taken
  <2>7. Pays(t, q)
    BY <1>6, <2>2, <2>4 DEF Pays, Paying, Signing
  <2> QED
    BY <2>3, <2>5, <2>6, <2>7 DEF Becomes
<1>7. \/ Moves(t, Finish(Recovers(pg, TRUE))) \/ Moves(t, Finish(Recovers(pg, FALSE)))
      \/ Moves(t, Finish(Recovers(st, TRUE))) \/ Moves(t, Finish(Recovers(st, FALSE)))
      \/ Moves(t, NetworkError(pg)) \/ Moves(t, Throw(pg)) \/ Moves(t, Finish(pg))
      \/ storage[t].payment = None /\ b.kind = "pay" /\ Moves(t, q)
  <2>1. CASE b.kind = "start"
    <3>1. PICK at \in {pg, st} : \/ Moves(t, Finish(Recovers(at, TRUE)))
                                 \/ Moves(t, Finish(Recovers(at, FALSE)))
      BY <2>1 DEF Continues
    <3> QED
      BY <3>1
  <2>2. CASE b.kind # "start"
    BY <2>2 DEF Continues, Payable
  <2> QED
    BY <2>1, <2>2
<1> HIDE DEF st, q
<1> QED
  BY <1>4, <1>5, <1>6, <1>7, MovingTo

LEMMA SignsMoves ==
  ASSUME NEW t \in Tabs, Types, Expected, Signs(t)
  PROVE  Moving(t)
<1>1. Becomes(t, page[t])
  BY BecomesItself DEF Types
<1>2. Becomes(t, Throw(page[t]))
  BY <1>1, BecomesThrown
<1>3. page[t].busy # None /\ page[t].busy.step = "sign"
  BY DEF Signs, Working
<1>4. Becomes(t, Refresh(page[t], "refresh2"))
  BY <1>1, <1>3, BecomesRefreshing DEF Steps
<1> QED
  BY <1>2, <1>4, MovingTo DEF Signs

\* What the record of a payment makes of its page.
LEMMA RecordsMoves ==
  ASSUME NEW t \in Tabs, Types, Expected, Records(t)
  PROVE  /\ Moving(t)
         /\ \/ UNCHANGED <<storage, payments>>
            \/ /\ storage' = [storage EXCEPT ![t].payment = Built(t)]
               /\ payments' = [payments EXCEPT ![Built(t)].status = "posted"]
               /\ ~Paying(page'[t])
<1> DEFINE pg == page[t]
           b  == [pg.busy EXCEPT !.step = "submit", !.fetch = None]
           m  == [pg EXCEPT !.confirmed = None]
           q  == [m EXCEPT !.busy = b]
<1>1. pg \in PageType /\ Becomes(t, pg) /\ page \in [Tabs -> PageType]
  BY BecomesItself DEF Types
<1>2. Becomes(t, Throw(pg))
  BY <1>1, BecomesThrown
<1>3. pg.busy # None /\ pg.busy \in ActionType
  BY <1>1, PageParts DEF Records, Working
<1>4. m \in PageType
  BY <1>1, Replaced
<1>5. Alike(pg, m) /\ m.busy = pg.busy
  BY <1>1 DEF Alike, PageType
<1>6. b \in ActionType
  BY <1>3 DEF ActionType, Steps
<1>7. /\ b.kind = m.busy.kind /\ b.with = m.busy.with /\ b.reply = m.busy.reply
      /\ b.step = "submit" /\ b.fetch = None
  BY <1>3, <1>5 DEF ActionType
<1>8. /\ \/ Moves(t, Throw(pg)) /\ UNCHANGED <<storage, payments>>
         \/ /\ Moves(t, q)
            /\ storage' = [storage EXCEPT ![t].payment = Built(t)]
            /\ payments' = [payments EXCEPT ![Built(t)].status = "posted"]
  BY DEF Records
<1> HIDE DEF m, b
<1>9. Becomes(t, m)
  BY <1>1, <1>4, <1>5, BecomesAlike
<1>10. Becomes(t, q)
  BY <1>3, <1>5, <1>6, <1>7, <1>9, BecomesBusy
<1>11. q.busy = b
  BY <1>4 DEF PageType
<1> HIDE DEF q
<1>12. Moves(t, q) => page'[t] = q
  BY <1>1 DEF Moves
<1> QED
  BY <1>2, <1>7, <1>8, <1>10, <1>11, <1>12, MovingTo DEF Paying

LEMMA SubmittedMoves ==
  ASSUME NEW t \in Tabs, Types, Submitted(t)
  PROVE  Moving(t)
<1> DEFINE m == Reconciles(t, page[t])
           b == [m.busy EXCEPT !.step = "check"]
<1>1. page[t] \in PageType /\ Becomes(t, page[t])
  BY BecomesItself DEF Types
<1>2. Becomes(t, m) /\ m \in PageType
  BY <1>1, BecomesReconciled DEF Becomes
<1>3. m.busy = page[t].busy /\ page[t].busy # None
  BY <1>1 DEF Submitted, Working, Reconciles, PageType
<1>4. Moves(t, [m EXCEPT !.busy = b])
  BY DEF Submitted
<1> HIDE DEF m
<1>5. m.busy \in ActionType
  BY <1>2, <1>3, PageParts
<1>6. b \in ActionType
  BY <1>5 DEF ActionType, Steps
<1>7. /\ b.kind = m.busy.kind /\ b.with = m.busy.with /\ b.reply = m.busy.reply
      /\ b.step = "check" /\ b.fetch = m.busy.fetch
  BY <1>5 DEF ActionType
<1>8. b.fetch # None => b.fetch.read = None \/ HasRead(m, b.fetch.read)
  BY <1>3, <1>7 DEF HasRead
<1> HIDE DEF b
<1>9. Becomes(t, [m EXCEPT !.busy = b])
  BY <1>2, <1>3, <1>6, <1>7, <1>8, BecomesBusy
<1> QED
  BY <1>4, <1>9, MovingTo

LEMMA RereadsMoves ==
  ASSUME NEW t \in Tabs, Types, Rereads(t)
  PROVE  Moving(t)
<1>1. Becomes(t, page[t])
  BY BecomesItself DEF Types
<1>2. page[t].busy # None
  BY DEF Rereads, Working
<1>3. Becomes(t, Refresh(page[t], "refresh3"))
  BY <1>1, <1>2, BecomesRefreshing DEF Steps
<1> QED
  BY <1>3, MovingTo DEF Rereads

-----------------------------------------------------------------------------
\* The steps of a tab, by what they touch.

\* A page moves, and nothing else changes.
Quiet(t) ==
    /\ OnPage(t) /\ Moving(t)
    /\ UNCHANGED <<order, late, place, storage, payments, account, believed>>
\* A tab comes to its page, or fails to.
Arrives(t) ==
    /\ place[t].at \in {"link", "opening", "page"}
    /\ Loads(t) \/ UNCHANGED <<page, phones>>
    /\ UNCHANGED <<order, late, storage, payments, account, believed>>

LEMMA QuietSteps ==
  ASSUME NEW t \in Tabs, Types, Expected,
         \/ Hide(t) \/ Poll(t) \/ Polled(t)
         \/ \E who \in {"action", "poll"} : Answers(t, who) \/ Awaited(t, who)
         \/ \E kind \in Buttons, dest \in Dests : Presses(t, kind, dest)
         \/ Client(t) \/ Drawn(t) \/ PhoneEnds(t)
         \/ \E id \in DOMAIN phones : ProofGenerated(t, id)
         \/ Continues(t) \/ Signs(t) \/ Submitted(t) \/ Rereads(t)
  PROVE  Quiet(t)
<1> USE DEF Quiet, server, chain, histories
<1>1. CASE Hide(t)
  BY <1>1, HideMoves DEF Hide
<1>2. CASE Poll(t)
  BY <1>2, PollMoves DEF Poll
<1>3. CASE Polled(t)
  BY <1>3, PolledMoves DEF Polled
<1>4. ASSUME NEW who \in {"action", "poll"}, Answers(t, who) PROVE Quiet(t)
  BY <1>4, AnswersMove DEF Answers
<1>5. ASSUME NEW who \in {"action", "poll"}, Awaited(t, who) PROVE Quiet(t)
  BY <1>5, AwaitedMoves DEF Awaited
<1>6. ASSUME NEW kind \in Buttons, NEW dest \in Dests, Presses(t, kind, dest) PROVE Quiet(t)
  <2>1. Moving(t)
    BY <1>6, PressesMove
  <2>2. OnPage(t) /\ UNCHANGED <<server, place, storage, chain, histories>>
    BY <1>6 DEF Presses, Offers
  <2> QED
    BY <2>1, <2>2
<1>7. CASE Client(t)
  BY <1>7, ClientMoves DEF Client, Working
<1>8. CASE Drawn(t)
  BY <1>8, DrawnMoves DEF Drawn, Working
<1>9. CASE PhoneEnds(t)
  BY <1>9, PhoneEndsMoves DEF PhoneEnds
<1>10. ASSUME NEW id \in DOMAIN phones, ProofGenerated(t, id) PROVE Quiet(t)
  BY <1>10, ProofGeneratedMoves DEF ProofGenerated
<1>11. CASE Continues(t)
  <2>1. Moving(t)
    BY <1>11, ContinuesMoves
  <2>2. OnPage(t) /\ UNCHANGED <<server, place, storage, chain, histories>>
    BY <1>11 DEF Continues
  <2> QED
    BY <2>1, <2>2
<1>12. CASE Signs(t)
  BY <1>12, SignsMoves DEF Signs, Working
<1>13. CASE Submitted(t)
  BY <1>13, SubmittedMoves DEF Submitted, Working
<1>14. CASE Rereads(t)
  BY <1>14, RereadsMoves DEF Rereads, Working
<1> QED
  BY <1>1, <1>2, <1>3, <1>4, <1>5, <1>6, <1>7, <1>8, <1>9, <1>10, <1>11, <1>12, <1>13, <1>14

LEMMA TabCases ==
  ASSUME NEW t \in Tabs, Types, Expected, Tab(t)
  PROVE  \/ Quiet(t)
         \/ Login(t) \/ Launch(t) \/ Arrives(t)
         \/ \E who \in {"action", "poll"} : Applies(t, who)
         \/ Checked(t) \/ Serves(t) \/ Replied(t) \/ TimesOut(t) \/ Requests(t)
         \/ Builds(t) \/ Records(t)
<1>1. Open(t) => Arrives(t)
  BY DEF Open, Arrives, chain, histories
<1>2. Opened(t) => Arrives(t)
  BY DEF Opened, Arrives, chain
<1>3. Reload(t) => Arrives(t)
  BY DEF Reload, Arrives, OnPage, server, chain, histories
<1> QED
  BY <1>1, <1>2, <1>3, QuietSteps, Zenon DEF Tab

-----------------------------------------------------------------------------
\* Types.

LEMMA MovingType ==
  ASSUME NEW t \in Tabs, Types, Moving(t)
  PROVE  page' \in [Tabs -> PageType] /\ phones' \in Seq(PhoneType)
<1>1. PICK pg \in PageType : Moves(t, pg)
  BY DEF Moving
<1>2. page' = [page EXCEPT ![t] = pg] /\ phones' = Tally(t, pg)
  BY <1>1 DEF Moves
<1>3. Tally(t, pg) \in Seq(PhoneType)
  BY TallyType DEF Types
<1> QED
  BY <1>2, <1>3 DEF Types

\* A page that is loaded again forgets its phone requests.
LEMMA LoadsParts ==
  ASSUME NEW t \in Tabs, Types, Loads(t)
  PROVE  /\ page' \in [Tabs -> PageType] /\ page'[t] = Fresh
         /\ \A u \in Tabs : u # t => page'[u] = page[u]
         /\ phones' \in Seq(PhoneType) /\ DOMAIN phones' = DOMAIN phones
         /\ \A id \in DOMAIN phones :
               /\ phones'[id].tab = phones[id].tab /\ phones'[id].epoch = phones[id].epoch
               /\ phones'[id].sent = phones[id].sent /\ phones'[id].stale = phones[id].stale
               /\ phones[id].tab # t => phones'[id] = phones[id]
<1>1. page' = [page EXCEPT ![t] = Fresh] /\ page \in [Tabs -> PageType]
  BY DEF Loads, Types
<1>2. Fresh \in PageType
  BY FreshType
<1>3. PICK n \in Nat : n = Len(phones) /\ DOMAIN phones = 1..n
  BY LenProperties DEF Types
<1>4. \A id \in 1..n : phones[id] \in PhoneType
  BY <1>3, ElementOfSeq DEF Types
<1> DEFINE g(id) == IF phones[id].tab = t THEN [phones[id] EXCEPT !.ended = TRUE] ELSE phones[id]
<1>5. phones' = [id \in 1..n |-> g(id)]
  BY <1>3 DEF Loads
<1>6. \A id \in 1..n :
        /\ g(id) \in PhoneType
        /\ g(id).tab = phones[id].tab /\ g(id).epoch = phones[id].epoch
        /\ g(id).sent = phones[id].sent /\ g(id).stale = phones[id].stale
        /\ phones[id].tab # t => g(id) = phones[id]
  BY <1>4 DEF PhoneType
<1> HIDE DEF g
<1>7. phones' \in Seq(PhoneType)
  BY <1>5, <1>6
<1>8. DOMAIN phones' = 1..n /\ \A id \in 1..n : phones'[id] = g(id)
  BY <1>5
<1>9. page' \in [Tabs -> PageType] /\ page'[t] = Fresh
      /\ \A u \in Tabs : u # t => page'[u] = page[u]
  BY <1>1, <1>2
<1> QED
  BY <1>3, <1>6, <1>7, <1>8, <1>9

LEMMA HandledType ==
  ASSUME Types, NEW kind, NEW with, kind = "accept" => with \in Terms, Handled(kind, with)
  PROVE  order' \in OrderType
<1>1. order \in OrderType
  BY DEF Types
<1>2. CASE kind = "accept"
  <2>1. order' = [order EXCEPT !.accepted = <<with.quote, with.dest>>]
    BY <1>2 DEF Handled
  <2>2. <<with.quote, with.dest>> \in (Quotes \cup {Named}) \X Dests
    BY <1>2 DEF Terms
  <2> QED
    BY <1>1, <2>1, <2>2 DEF OrderType
<1>3. CASE kind # "accept"
  <2>1. order' \in {order, [order EXCEPT !.eligible = TRUE], [order EXCEPT !.stage = "authorized"],
                    [order EXCEPT !.stage = "refunded"]}
    BY <1>3 DEF Handled
  <2> QED
    BY <1>1, <2>1 DEF OrderType
<1> QED
  BY <1>2, <1>3

\* The answer of the server to a page.
LEMMA ServesParts ==
  ASSUME NEW t \in Tabs, Types, Serves(t)
  PROVE  \E q \in PageType :
           /\ Moves(t, q) /\ Tells(t, q) /\ Pays(t, q)
           /\ \A o \in OrderType : HasRead(q, o) => HasRead(page[t], o)
           /\ q.view = page[t].view
           /\ Accepting(q) => Accepting(page[t])
           /\ \/ order' = order /\ ~Taken(q)
              \/ /\ Takes(KindOf(page[t].busy), page[t].busy.with)
                 /\ Handled(KindOf(page[t].busy), page[t].busy.with)
                 /\ KindOf(page[t].busy) = "accept" => page[t].busy.with \in Terms
                 /\ Taken(q) => /\ KindOf(page[t].busy) = "accept"
                                /\ q.busy.with = page[t].busy.with
<1> DEFINE pg == page[t]
<1>1. pg \in PageType /\ pg.busy # None /\ pg.busy \in ActionType
      /\ pg.busy.step \in {"post", "request"}
  BY PageParts DEF Types, Serves, Posted
<1>2. KindOf(pg.busy) = "accept" => pg.busy.with \in Terms
  BY <1>1 DEF KindOf, ActionType
<1>3. ASSUME NEW r \in {"ok", "refused"}
      PROVE  LET q == [pg EXCEPT !.busy.reply = r]
             IN  /\ q \in PageType /\ Tells(t, q) /\ Pays(t, q)
                 /\ \A o \in OrderType : HasRead(q, o) => HasRead(pg, o)
                 /\ q.view = pg.view
                 /\ Accepting(q) => Accepting(pg)
                 /\ Taken(q) => /\ r = "ok" /\ KindOf(pg.busy) = "accept"
                                /\ q.busy.with = pg.busy.with
  <2> DEFINE b == [pg.busy EXCEPT !.reply = r]
             q == [pg EXCEPT !.busy = b]
  <2>1. b \in ActionType
    BY <1>1 DEF ActionType
  <2>2. /\ b.kind = pg.busy.kind /\ b.with = pg.busy.with /\ b.reply = r
        /\ b.step = pg.busy.step /\ b.fetch = pg.busy.fetch
    BY <1>1 DEF ActionType
  <2> HIDE DEF b
  <2>3. q \in PageType
    BY <1>1, <2>1, Replaced
  <2>4. /\ q.busy = b /\ q.queued = pg.queued /\ q.poll = pg.poll
        /\ q.view = pg.view /\ q.epoch = pg.epoch /\ q.phone = pg.phone
        /\ q.requests = pg.requests
    BY <1>1 DEF PageType
  <2> HIDE DEF q
  <2>5. Tells(t, q)
    <3>1. \A id \in Nat : Awaits(q, id) => Awaits(pg, id)
      BY <1>1, <2>2, <2>4 DEF Awaits
    <3>2. Submitting(q) => Submitting(pg) /\ q.busy.with = pg.busy.with
      BY <1>1, <2>2, <2>4 DEF Submitting
    <3> QED
      BY <2>4, <3>1, <3>2 DEF Tells, Submittable
  <2>6. Pays(t, q)
    BY <1>1, <2>2, <2>4 DEF Pays, Paying, Signing
  <2>7. \A o \in OrderType : HasRead(q, o) => HasRead(pg, o)
    BY <1>1, <2>2, <2>4 DEF HasRead
  <2>8. Accepting(q) => Accepting(pg)
    BY <1>1, <2>2, <2>4 DEF Accepting
  <2>9. Taken(q) => r = "ok" /\ KindOf(pg.busy) = "accept" /\ q.busy.with = pg.busy.with
    BY <1>1, <2>2, <2>4 DEF Taken, Accepting, KindOf, ActionType
  <2>10. q = [pg EXCEPT !.busy.reply = r]
    BY DEF q, b
  <2> QED
    BY <2>3, <2>4, <2>5, <2>6, <2>7, <2>8, <2>9, <2>10, Zenon
<1>4. \/ /\ Takes(KindOf(pg.busy), pg.busy.with) /\ Handled(KindOf(pg.busy), pg.busy.with)
         /\ Moves(t, [pg EXCEPT !.busy.reply = "ok"])
      \/ Moves(t, [pg EXCEPT !.busy.reply = "refused"]) /\ order' = order
  BY DEF Serves
<1>5. CASE /\ Takes(KindOf(pg.busy), pg.busy.with) /\ Handled(KindOf(pg.busy), pg.busy.with)
           /\ Moves(t, [pg EXCEPT !.busy.reply = "ok"])
  BY <1>2, <1>3, <1>5, Zenon
<1>6. CASE Moves(t, [pg EXCEPT !.busy.reply = "refused"]) /\ order' = order
  <2>1. ~Taken([pg EXCEPT !.busy.reply = "refused"])
    BY <1>3
  <2> QED
    BY <1>3, <1>6, <2>1, Zenon
<1> QED
  BY <1>4, <1>5, <1>6

\* A phone request is made, or the action given up.
LEMMA RequestsParts ==
  ASSUME NEW t \in Tabs, Types, Expected, Requests(t)
  PROVE  \/ Moving(t)
         \/ \E q \in PageType :
              /\ page' = [page EXCEPT ![t] = q]
              /\ phones' = Append(Tally(t, q), [tab |-> t, epoch |-> q.epoch, ended |-> FALSE,
                                                sent |-> 0, stale |-> FALSE])
              /\ q.epoch = page[t].epoch + 1 /\ q.phone = Len(phones) + 1
              /\ \A id \in Nat : Awaits(q, id) => Awaits(page[t], id) \/ id = Len(phones) + 1
              /\ ~Submitting(q) /\ Reads(t, q) /\ Pays(t, q)
<1> DEFINE pg == CancelPhone(page[t])
           id == Len(phones) + 1
           b  == [pg.busy EXCEPT !.step = "client", !.with = id]
           m1 == [pg EXCEPT !.received = FALSE]
           m2 == [m1 EXCEPT !.phone = id]
           q  == [m2 EXCEPT !.busy = b]
<1>1. /\ page[t] \in PageType /\ pg \in PageType /\ id \in Nat
      /\ Becomes(t, pg)
  BY BecomesItself, BecomesCancelled, CancelPhoneType, LenProperties DEF Types
<1>2. /\ pg.busy = page[t].busy /\ pg.queued = page[t].queued /\ pg.poll = page[t].poll
      /\ pg.view = page[t].view /\ pg.epoch = page[t].epoch + 1
      /\ pg.requests = page[t].requests
  BY <1>1, CancelPhoneParts
<1>3. /\ page[t].busy # None /\ pg.busy \in ActionType
      /\ pg.busy.kind = "prove"
  BY <1>1, <1>2, PageParts DEF Requests, Working
<1>4. Becomes(t, Throw(pg))
  BY <1>1, BecomesThrown
<1>5. \/ Moves(t, Throw(pg))
      \/ /\ page' = [page EXCEPT ![t] = q]
         /\ phones' = Append(Tally(t, q), [tab |-> t, epoch |-> q.epoch, ended |-> FALSE,
                                           sent |-> 0, stale |-> FALSE])
  BY DEF Requests
<1> HIDE DEF pg, id
<1>6. b \in ActionType
  BY <1>1, <1>3 DEF ActionType, Steps
<1>7. b.kind = "prove" /\ b.with = id /\ b.step = "client" /\ b.fetch = pg.busy.fetch
  BY <1>3 DEF ActionType
<1> HIDE DEF b
<1>8. m1 \in PageType
  BY <1>1, Replaced
<1>9. m2 \in PageType
  BY <1>1, <1>8, Replaced
<1>10. /\ q.busy = b /\ q.queued = pg.queued /\ q.poll = pg.poll
       /\ q.view = pg.view /\ q.epoch = pg.epoch /\ q.phone = id
       /\ q.requests = pg.requests
  BY <1>1 DEF PageType
<1> HIDE DEF m1, m2
<1>11. q \in PageType
  BY <1>6, <1>9, Replaced
<1> HIDE DEF q
<1>12. \A i \in Nat : Awaits(q, i) => Awaits(page[t], i) \/ i = id
  BY <1>2, <1>7, <1>10 DEF Awaits
<1>13. ~Submitting(q)
  BY <1>7, <1>10 DEF Submitting
<1>14. Reads(t, q)
  <2>1. \A o \in OrderType : HasRead(q, o) => HasRead(page[t], o)
    BY <1>2, <1>3, <1>7, <1>10 DEF HasRead
  <2> QED
    BY <1>2, <1>7, <1>10, <2>1 DEF Reads, Accepting, Taken
<1>15. Pays(t, q)
  BY <1>7, <1>10 DEF Pays, Paying, Signing
<1> QED
  BY <1>2, <1>4, <1>5, <1>10, <1>11, <1>12, <1>13, <1>14, <1>15, MovingTo DEF id

\* A payment is built.
LEMMA BuildsParts ==
  ASSUME NEW t \in Tabs, Types, Builds(t)
  PROVE  \E q \in PageType :
           /\ Moves(t, q) /\ Tells(t, q) /\ Reads(t, q)
           /\ Paying(page[t])
           /\ Signing(q) => q.busy.with = Len(payments) + 1
           /\ payments' = Append(payments, [tab |-> t, sequence |-> account, status |-> "built"])
<1> DEFINE pg == page[t]
           p  == Len(payments) + 1
           b  == [pg.busy EXCEPT !.step = "sign", !.with = p]
           q  == [pg EXCEPT !.busy = b]
<1>1. pg \in PageType /\ p \in Nat
  BY LenProperties DEF Types
<1>2. /\ pg.busy # None /\ pg.busy \in ActionType
      /\ pg.busy.kind = "pay" /\ pg.busy.step = "account"
  BY <1>1, PageParts DEF Builds, Working
<1>3. /\ Moves(t, q)
      /\ payments' = Append(payments, [tab |-> t, sequence |-> account, status |-> "built"])
  BY DEF Builds
<1> HIDE DEF p
<1>4. b \in ActionType
  BY <1>1, <1>2 DEF ActionType, Steps
<1>5. b.kind = "pay" /\ b.with = p /\ b.step = "sign" /\ b.fetch = pg.busy.fetch
  BY <1>2 DEF ActionType
<1> HIDE DEF b
<1>6. q \in PageType
  BY <1>1, <1>4, Replaced
<1>7. /\ q.busy = b /\ q.queued = pg.queued /\ q.poll = pg.poll
      /\ q.view = pg.view /\ q.epoch = pg.epoch /\ q.phone = pg.phone
      /\ q.requests = pg.requests
  BY <1>1 DEF PageType
<1> HIDE DEF q
<1>8. Tells(t, q)
  <2>1. \A i \in Nat : Awaits(q, i) => Awaits(pg, i)
    BY <1>5, <1>7 DEF Awaits
  <2> QED
    BY <1>5, <1>7, <2>1 DEF Tells, Submitting
<1>9. Reads(t, q)
  <2>1. \A o \in OrderType : HasRead(q, o) => HasRead(pg, o)
    BY <1>2, <1>5, <1>7 DEF HasRead
  <2> QED
    BY <1>5, <1>7, <2>1 DEF Reads, Accepting, Taken
<1>10. Paying(pg)
  BY <1>2 DEF Paying
<1>11. Signing(q) => q.busy.with = p
  BY <1>5, <1>7 DEF Signing
<1> QED
  BY <1>3, <1>5, <1>6, <1>7, <1>8, <1>9, <1>10, <1>11, Zenon DEF p

\* Where one tab's page is replaced.
LEMMA MovesType ==
  ASSUME NEW t \in Tabs, Types, NEW q \in PageType, Moves(t, q)
  PROVE  page' \in [Tabs -> PageType] /\ phones' \in Seq(PhoneType)
<1>1. page' = [page EXCEPT ![t] = q] /\ phones' = Tally(t, q)
  BY DEF Moves
<1>2. Tally(t, q) \in Seq(PhoneType)
  BY TallyType DEF Types
<1> QED
  BY <1>1, <1>2 DEF Types

LEMMA TypesTab ==
  ASSUME NEW t \in Tabs, Types, Expected, Own, Tab(t)
  PROVE  Types'
<1>1. CASE Quiet(t)
  <2>1. page' \in [Tabs -> PageType] /\ phones' \in Seq(PhoneType)
    BY <1>1, MovingType DEF Quiet
  <2> QED
    BY <1>1, <2>1 DEF Types, Quiet
<1>2. CASE Login(t)
  BY <1>2 DEF Login, Types, server, chain, histories
<1>3. CASE Launch(t)
  <2>1. /\ UNCHANGED <<late, page, payments, account, phones, believed>>
        /\ order' = order \/ \E e \in BOOLEAN :
              order' = [accepted |-> None, eligible |-> e, stage |-> "open"]
        /\ storage' = storage \/ storage' = [storage EXCEPT ![t].launcher = TRUE]
    BY <1>3 DEF Launch, Begins, Resumes, chain, histories
  <2>2. order' \in OrderType
    BY <2>1 DEF OrderType, Types
  <2>3. storage' \in [Tabs -> [payment : Nat \cup {None}, launcher : BOOLEAN]]
    BY <2>1 DEF Types
  <2> QED
    BY <2>1, <2>2, <2>3 DEF Types
<1>4. CASE Arrives(t)
  <2>1. page' \in [Tabs -> PageType] /\ phones' \in Seq(PhoneType)
    BY <1>4, LoadsParts DEF Arrives, Types
  <2> QED
    BY <1>4, <2>1 DEF Types, Arrives
<1>5. ASSUME NEW who \in {"action", "poll"}, Applies(t, who) PROVE Types'
  <2>1. /\ UNCHANGED <<order, late, storage, payments, account>>
    BY <1>5 DEF Applies, server, chain
  <2>2. Moving(t) /\ (\/ believed' = believed
                      \/ /\ page[t].uncertain # None
                         /\ believed' = believed \cup {page[t].uncertain})
    BY <1>5, AppliesMoves
  <2>3. page[t].uncertain \in Terms \cup {None}
    BY PageParts DEF Types
  <2> QED
    BY <2>1, <2>2, <2>3, MovingType DEF Types
<1>6. CASE Checked(t)
  <2>1. /\ UNCHANGED <<order, late, payments, account, believed>>
        /\ storage' = storage \/ storage' = [storage EXCEPT ![t].payment = None]
    BY <1>6 DEF Checked, server, chain, histories
  <2>2. storage' \in [Tabs -> [payment : Nat \cup {None}, launcher : BOOLEAN]]
    BY <2>1 DEF Types
  <2> QED
    BY <1>6, <2>1, <2>2, CheckedMoves, MovingType DEF Types
<1>7. CASE Serves(t)
  <2>1. UNCHANGED <<late, storage, payments, account, believed>>
    BY <1>7 DEF Serves, chain, histories
  <2>2. \E q \in PageType : Moves(t, q)
    BY <1>7, ServesParts
  <2>3. order' \in OrderType
    BY <1>7, ServesParts, HandledType DEF Types
  <2> QED
    BY <2>1, <2>2, <2>3, MovesType DEF Types
<1>8. CASE Replied(t)
  <2>1. UNCHANGED <<order, late, storage, payments, account>>
    BY <1>8 DEF Replied, server, chain
  <2>2. Moving(t) /\ (\/ believed' = believed
                      \/ Taken(page[t]) /\ believed' = believed \cup {page[t].busy.with})
    BY <1>8, RepliedMoves
  <2>3. Taken(page[t]) => page[t].busy.with \in Terms
    BY PageParts DEF Types, Taken, Accepting, ActionType
  <2> QED
    BY <2>1, <2>2, <2>3, MovingType DEF Types
<1>9. CASE TimesOut(t)
  <2> DEFINE b == page[t].busy
  <2>1. b \in ActionType
    BY <1>9, PageParts DEF TimesOut, Posted, Types
  <2>2. /\ UNCHANGED <<order, storage, payments, account>>
        /\ late' = late \/ late' = late \cup {[kind |-> b.kind, with |-> b.with]}
    BY <1>9 DEF TimesOut, chain
  <2>3. [kind |-> b.kind, with |-> b.with] \in LateType
    BY <2>1 DEF LateType, ActionType
  <2>4. Moving(t) /\ (\/ believed' = believed
                      \/ Accepting(page[t]) /\ believed' = believed \cup {b.with})
    BY <1>9, TimesOutMoves
  <2>5. Accepting(page[t]) => b.with \in Terms
    BY <2>1 DEF Accepting, ActionType
  <2> QED
    BY <2>2, <2>3, <2>4, <2>5, MovingType DEF Types
<1>10. CASE Requests(t)
  <2>1. UNCHANGED <<order, late, storage, payments, account, believed>>
    BY <1>10 DEF Requests, server, chain, histories
  <2>2. CASE Moving(t)
    BY <2>1, <2>2, MovingType DEF Types
  <2>3. ASSUME NEW q \in PageType, page' = [page EXCEPT ![t] = q],
               phones' = Append(Tally(t, q), [tab |-> t, epoch |-> q.epoch, ended |-> FALSE,
                                              sent |-> 0, stale |-> FALSE])
        PROVE  Types'
    <3>1. Tally(t, q) \in Seq(PhoneType)
      BY TallyType DEF Types
    <3>2. [tab |-> t, epoch |-> q.epoch, ended |-> FALSE, sent |-> 0, stale |-> FALSE]
             \in PhoneType
      BY <2>3, PageParts DEF PhoneType
    <3>3. phones' \in Seq(PhoneType)
      BY <2>3, <3>1, <3>2, AppendProperties
    <3> QED
      BY <2>1, <2>3, <3>3 DEF Types
  <2> QED
    BY <1>10, <2>2, <2>3, RequestsParts
<1>11. CASE Builds(t)
  <2>1. UNCHANGED <<order, late, storage, account, believed>>
    BY <1>11 DEF Builds, server, histories
  <2>2. PICK q \in PageType :
          /\ Moves(t, q)
          /\ payments' = Append(payments, [tab |-> t, sequence |-> account, status |-> "built"])
    BY <1>11, BuildsParts
  <2>3. [tab |-> t, sequence |-> account, status |-> "built"] \in PaymentType
    BY DEF PaymentType, Types
  <2>4. payments' \in Seq(PaymentType)
    BY <2>2, <2>3, AppendProperties DEF Types
  <2> QED
    BY <2>1, <2>2, <2>4, MovesType DEF Types
<1>12. CASE Records(t)
  <2>1. UNCHANGED <<order, late, account, believed>> /\ Built(t) = page[t].busy.with
    BY <1>12 DEF Records, server, histories, Built
  <2>2. Moving(t)
    BY <1>12, RecordsMoves
  <2>3. CASE UNCHANGED <<storage, payments>>
    BY <2>1, <2>2, <2>3, MovingType DEF Types
  <2>4. CASE /\ storage' = [storage EXCEPT ![t].payment = Built(t)]
             /\ payments' = [payments EXCEPT ![Built(t)].status = "posted"]
    <3>1. Built(t) \in DOMAIN payments
      BY <1>12 DEF Records, Working, Own, Signing, Paying
    <3>2. storage' \in [Tabs -> [payment : Nat \cup {None}, launcher : BOOLEAN]]
      <4>1. Built(t) \in Nat
        BY <3>1, LenProperties DEF Types
      <4>2. storage[t] \in [payment : Nat \cup {None}, launcher : BOOLEAN]
        BY DEF Types
      <4>3. [storage[t] EXCEPT !.payment = Built(t)] \in [payment : Nat \cup {None}, launcher : BOOLEAN]
        BY <4>1, <4>2
      <4> QED
        BY <2>4, <4>3 DEF Types
    <3>3. payments[Built(t)] \in PaymentType
      BY <3>1, ElementOfSeq, LenProperties DEF Types
    <3>4. [payments[Built(t)] EXCEPT !.status = "posted"] \in PaymentType
      BY <3>3 DEF PaymentType
    <3>5. payments' \in Seq(PaymentType)
      <4> DEFINE e == [payments[Built(t)] EXCEPT !.status = "posted"]
      <4>1. payments' = [payments EXCEPT ![Built(t)] = e]
        BY <2>4
      <4>2. e \in PaymentType
        BY <3>4
      <4>3. Built(t) \in 1..Len(payments) /\ payments \in Seq(PaymentType)
        BY <3>1, LenProperties DEF Types
      <4> HIDE DEF e
      <4> QED
        BY <4>1, <4>2, <4>3, ExceptSeq
    <3> QED
      BY <2>1, <2>2, <3>2, <3>5, MovingType DEF Types
  <2> QED
    BY <1>12, <2>3, <2>4, RecordsMoves
<1> QED
  BY <1>1, <1>2, <1>3, <1>4, <1>5, <1>6, <1>7, <1>8, <1>9, <1>10, <1>11, <1>12, TabCases

LEMMA TypesWorld ==
  ASSUME Types,
         \/ \E r \in late : ServedLate(r)
         \/ \E p \in DOMAIN payments : Include(p)
         \/ World
         \/ UNCHANGED vars
  PROVE  Types'
<1>1. ASSUME NEW r \in late, ServedLate(r) PROVE Types'
  <2>1. UNCHANGED <<page, storage, payments, account, phones, believed>>
        /\ late' = late \ {r}
    BY <1>1 DEF ServedLate, chain, histories
  <2>2. r \in LateType
    BY DEF Types
  <2>3. order' = order \/ Handled(r.kind, r.with)
    BY <1>1 DEF ServedLate
  <2>4. order' \in OrderType
    BY <2>2, <2>3, HandledType DEF LateType, Types
  <2> QED
    BY <2>1, <2>4 DEF Types
<1>2. ASSUME NEW p \in DOMAIN payments, Include(p) PROVE Types'
  <2>1. UNCHANGED <<order, late, page, storage, phones, believed>> /\ account' = account + 1
    BY <1>2 DEF Include, server, histories
  <2>2. PICK o \in {"success", "failed"} : payments' = [payments EXCEPT ![p].status = o]
    BY <1>2 DEF Include
  <2>3. p \in 1..Len(payments) /\ payments \in Seq(PaymentType) /\ payments[p] \in PaymentType
    BY LenProperties, ElementOfSeq DEF Types
  <2> DEFINE e == [payments[p] EXCEPT !.status = o]
  <2>4. e \in PaymentType
    BY <2>3 DEF PaymentType
  <2>5. payments' = [payments EXCEPT ![p] = e]
    BY <2>2
  <2> HIDE DEF e
  <2>6. payments' \in Seq(PaymentType)
    BY <2>3, <2>4, <2>5, ExceptSeq
  <2> QED
    BY <2>1, <2>6 DEF Types
<1>3. CASE World
  <2>1. UNCHANGED <<late, page, storage, payments, account, phones, believed>>
    BY <1>3 DEF World, chain, histories
  <2>2. order' \in {order, [order EXCEPT !.stage = "paid"], [order EXCEPT !.stage = "completed"],
                    [order EXCEPT !.eligible = FALSE]}
    BY <1>3 DEF World
  <2>3. order' \in OrderType
    BY <2>2 DEF OrderType, Types
  <2> QED
    BY <2>1, <2>3 DEF Types
<1>4. CASE UNCHANGED vars
  BY <1>4 DEF Types, vars, server, chain, histories
<1> QED
  BY <1>1, <1>2, <1>3, <1>4

LEMMA TypesInit == Init => Types
<1> SUFFICES ASSUME Init PROVE Types
  OBVIOUS
<1>1. order \in OrderType /\ plan.session \in BOOLEAN
  BY HostedAssumption DEF Init
<1>2. page \in [Tabs -> PageType]
  BY FreshType DEF Init
<1>3. storage \in [Tabs -> [payment : Nat \cup {None}, launcher : BOOLEAN]]
  BY <1>1 DEF Init
<1>4. payments \in Seq(PaymentType) /\ phones \in Seq(PhoneType)
  BY EmptySeq DEF Init
<1>5. late \in SUBSET LateType /\ account \in Nat /\ believed \in SUBSET Terms
  BY DEF Init
<1> QED
  BY <1>1, <1>2, <1>3, <1>4, <1>5 DEF Types

-----------------------------------------------------------------------------
\* Phone requests: ProofsCurrent.

Sends(t, pg, id) == /\ Submitting(pg) /\ pg.busy.with = id /\ phones[id].tab = t
                    /\ ~(Submitting(page[t]) /\ page[t].busy.with = id)
Ends(t, pg, id)  == phones[id].tab = t /\ page[t].phone = id /\ pg.phone # id

LEMMA PhoneParts ==
  ASSUME phones \in Seq(PhoneType), NEW id \in DOMAIN phones
  PROVE  /\ phones[id] \in PhoneType /\ id \in Nat
         /\ phones[id].epoch \in Nat /\ phones[id].sent \in Nat
         /\ phones[id].stale \in BOOLEAN /\ phones[id].ended \in BOOLEAN
<1>1. id \in Nat /\ phones[id] \in PhoneType
  BY LenProperties, ElementOfSeq
<1> QED
  BY <1>1 DEF PhoneType

\* What a move writes of a phone request.
LEMMA TallyParts ==
  ASSUME NEW t \in Tabs, NEW pg, phones \in Seq(PhoneType), NEW id \in DOMAIN phones
  PROVE  /\ Tally(t, pg)[id].ended = (phones[id].ended \/ Ends(t, pg, id))
         /\ Tally(t, pg)[id].sent = IF Sends(t, pg, id) THEN phones[id].sent + 1
                                    ELSE phones[id].sent
         /\ Tally(t, pg)[id].stale = (phones[id].stale \/ (Sends(t, pg, id) /\ phones[id].ended))
<1> DEFINE r == phones[id]
           e == r.ended \/ Ends(t, pg, id)
           n == IF Sends(t, pg, id) THEN r.sent + 1 ELSE r.sent
           s == r.stale \/ (Sends(t, pg, id) /\ r.ended)
<1>1. r \in PhoneType
  BY LenProperties, ElementOfSeq
<1>2. Tally(t, pg)[id] = [r EXCEPT !.ended = e, !.sent = n, !.stale = s]
  BY DEF Tally, Sends, Ends
<1> HIDE DEF r, e, n, s
<1>3. /\ [r EXCEPT !.ended = e, !.sent = n, !.stale = s].ended = e
      /\ [r EXCEPT !.ended = e, !.sent = n, !.stale = s].sent = n
      /\ [r EXCEPT !.ended = e, !.sent = n, !.stale = s].stale = s
  BY <1>1 DEF PhoneType
<1> QED
  BY <1>2, <1>3 DEF r, e, n, s

\* A request that a move sends a proof for had none sent, and was not ended.
LEMMA SentOnce ==
  ASSUME NEW t \in Tabs, Types, Expected, NEW pg \in PageType, Tells(t, pg),
         NEW id \in DOMAIN phones, Sends(t, pg, id)
  PROVE  phones[id].sent = 0 /\ ~phones[id].ended /\ pg.epoch > page[t].epoch
<1>1. Submittable(t, pg) /\ ~(Submitting(page[t]) /\ page[t].busy.with = pg.busy.with)
      /\ pg.busy.with = id
  BY DEF Tells, Sends
<1>2. pg.epoch > page[t].epoch /\ Awaits(page[t], id) /\ phones[id].epoch = page[t].epoch
  BY <1>1 DEF Submittable
<1>3. id \in Nat
  BY LenProperties DEF Types
<1>4. Untold(t, id)
  BY <1>2, <1>3 DEF Expected
<1> QED
  BY <1>2, <1>4 DEF Untold

\* A request is still expected after its page's move, and after another's.
LEMMA UntoldMoves ==
  ASSUME NEW t \in Tabs, Types, Expected, NEW pg \in PageType, Tells(t, pg),
         NEW id \in Nat, Awaits(pg, id)
  PROVE  /\ id \in DOMAIN phones /\ phones[id].tab = t /\ phones[id].epoch <= pg.epoch
         /\ phones[id].epoch = pg.epoch =>
              /\ pg.phone = id /\ ~phones[id].ended /\ phones[id].sent = 0
              /\ ~Ends(t, pg, id) /\ ~Sends(t, pg, id)
<1>1. Untold(t, id)
  BY DEF Tells, Expected
<1>2. page[t].epoch \in Nat /\ pg.epoch \in Nat /\ pg.epoch >= page[t].epoch
  BY PageParts DEF Types, Tells
<1>3. id \in DOMAIN phones /\ phones[id].tab = t
  BY <1>1 DEF Untold
<1>4. phones[id].epoch \in Nat
  BY <1>3, PhoneParts DEF Types
<1>5. phones[id].epoch <= pg.epoch
  BY <1>1, <1>2, <1>4 DEF Untold
<1>6. ASSUME phones[id].epoch = pg.epoch
      PROVE  /\ pg.phone = id /\ ~phones[id].ended /\ phones[id].sent = 0
             /\ ~Ends(t, pg, id) /\ ~Sends(t, pg, id)
  <2>1. pg.epoch = page[t].epoch
    BY <1>1, <1>2, <1>4, <1>6 DEF Untold
  <2>2. pg.phone = page[t].phone
    BY <1>2, <2>1 DEF Tells
  <2>3. page[t].phone = id /\ ~phones[id].ended /\ phones[id].sent = 0
    BY <1>1, <1>6, <2>1 DEF Untold
  <2>4. ~Sends(t, pg, id)
    BY <1>2, <1>3, <2>1, SentOnce
  <2> QED
    BY <2>2, <2>3, <2>4 DEF Ends
<1> QED
  BY <1>3, <1>5, <1>6

LEMMA PhonesMove ==
  ASSUME NEW t \in Tabs, Types, PhonesOK, NEW pg \in PageType, Moves(t, pg), Tells(t, pg)
  PROVE  PhonesOK'
<1>1. /\ page \in [Tabs -> PageType] /\ phones \in Seq(PhoneType)
      /\ page' = [page EXCEPT ![t] = pg] /\ phones' = Tally(t, pg)
      /\ Expected /\ ProofsCurrent
  BY DEF Types, Moves, PhonesOK
<1>2. DOMAIN phones' = DOMAIN phones
      /\ \A id \in DOMAIN phones :
            phones'[id].tab = phones[id].tab /\ phones'[id].epoch = phones[id].epoch
  BY <1>1, TallyType
<1>3. \A id \in DOMAIN phones :
        /\ phones'[id].ended = (phones[id].ended \/ Ends(t, pg, id))
        /\ phones'[id].sent = IF Sends(t, pg, id) THEN phones[id].sent + 1 ELSE phones[id].sent
        /\ phones'[id].stale = (phones[id].stale \/ (Sends(t, pg, id) /\ phones[id].ended))
  BY <1>1, TallyParts
<1>4. ASSUME NEW u \in Tabs, NEW id \in Nat, Awaits(page'[u], id)
      PROVE  /\ id \in DOMAIN phones' /\ phones'[id].tab = u
             /\ phones'[id].epoch <= page'[u].epoch
             /\ phones'[id].epoch = page'[u].epoch =>
                  page'[u].phone = id /\ ~phones'[id].ended /\ phones'[id].sent = 0
  <2>1. CASE u = t
    <3>1. page'[u] = pg
      BY <1>1, <2>1
    <3>2. Awaits(pg, id)
      BY <1>4, <3>1, Zenon
    <3>3. /\ id \in DOMAIN phones /\ phones[id].tab = t /\ phones[id].epoch <= pg.epoch
          /\ phones[id].epoch = pg.epoch =>
               /\ pg.phone = id /\ ~phones[id].ended /\ phones[id].sent = 0
               /\ ~Ends(t, pg, id) /\ ~Sends(t, pg, id)
      BY <1>1, <3>2, UntoldMoves
    <3> QED
      BY <1>2, <1>3, <2>1, <3>1, <3>3
  <2>2. CASE u # t
    <3>1. page'[u] = page[u]
      BY <1>1, <2>2
    <3>2. Untold(u, id)
      BY <1>1, <1>4, <3>1 DEF Expected
    <3>3. ~Sends(t, pg, id) /\ ~Ends(t, pg, id)
      BY <2>2, <3>2 DEF Untold, Sends, Ends
    <3> QED
      BY <1>2, <1>3, <3>1, <3>2, <3>3 DEF Untold
  <2> QED
    BY <2>1, <2>2
<1>5. ASSUME NEW id \in DOMAIN phones'
      PROVE  phones'[id].sent <= 1 /\ ~phones'[id].stale
  <2>1. id \in DOMAIN phones /\ phones[id].sent <= 1 /\ ~phones[id].stale
    BY <1>1, <1>2, <1>5 DEF ProofsCurrent
  <2>2. Sends(t, pg, id) => phones[id].sent = 0 /\ ~phones[id].ended
    BY <1>1, <2>1, SentOnce
  <2>3. phones[id].sent \in Nat /\ phones[id].stale \in BOOLEAN /\ phones[id].ended \in BOOLEAN
    BY <1>1, <2>1, PhoneParts
  <2> QED
    BY <1>3, <2>1, <2>2, <2>3
<1> QED
  BY <1>4, <1>5 DEF PhonesOK, Expected, Untold, ProofsCurrent

LEMMA PhonesUnchanged ==
  ASSUME PhonesOK, UNCHANGED <<page, phones>>
  PROVE  PhonesOK'
  BY DEF PhonesOK, Expected, Untold, ProofsCurrent

LEMMA PhonesLoads ==
  ASSUME NEW t \in Tabs, Types, PhonesOK, Loads(t)
  PROVE  PhonesOK'
<1>1. ~Awaits(page'[t], 0) /\ \A id \in Nat : ~Awaits(page'[t], id)
  BY LoadsParts, FreshType DEF Awaits
<1>2. ASSUME NEW u \in Tabs, NEW id \in Nat, Awaits(page'[u], id)
      PROVE  /\ id \in DOMAIN phones' /\ phones'[id].tab = u
             /\ phones'[id].epoch <= page'[u].epoch
             /\ phones'[id].epoch = page'[u].epoch =>
                  page'[u].phone = id /\ ~phones'[id].ended /\ phones'[id].sent = 0
  <2>1. u # t /\ page'[u] = page[u]
    BY <1>1, <1>2, LoadsParts
  <2>2. Untold(u, id)
    BY <1>2, <2>1 DEF PhonesOK, Expected
  <2>3. id \in DOMAIN phones' /\ phones'[id] = phones[id]
    BY <2>1, <2>2, LoadsParts DEF Untold
  <2> QED
    BY <2>1, <2>2, <2>3 DEF Untold
<1>3. ProofsCurrent'
  BY LoadsParts DEF PhonesOK, ProofsCurrent
<1> QED
  BY <1>2, <1>3 DEF PhonesOK, Expected, Untold

LEMMA PhonesRequested ==
  ASSUME NEW t \in Tabs, Types, PhonesOK, Requests(t)
  PROVE  PhonesOK'
<1>1. CASE Moving(t)
  <2>1. PICK pg \in PageType : Moves(t, pg) /\ Tells(t, pg)
    BY <1>1 DEF Moving, Becomes
  <2> QED
    BY <2>1, PhonesMove
<1>2. CASE ~Moving(t)
  <2> DEFINE n == Len(phones) + 1
  <2>1. PICK q \in PageType :
          /\ page' = [page EXCEPT ![t] = q]
          /\ phones' = Append(Tally(t, q), [tab |-> t, epoch |-> q.epoch, ended |-> FALSE,
                                            sent |-> 0, stale |-> FALSE])
          /\ q.epoch = page[t].epoch + 1 /\ q.phone = n
          /\ \A id \in Nat : Awaits(q, id) => Awaits(page[t], id) \/ id = n
          /\ ~Submitting(q)
    BY <1>2, RequestsParts DEF PhonesOK
  <2> DEFINE r == [tab |-> t, epoch |-> q.epoch, ended |-> FALSE, sent |-> 0, stale |-> FALSE]
  <2>2. /\ page \in [Tabs -> PageType] /\ phones \in Seq(PhoneType)
        /\ page[t].epoch \in Nat /\ Expected /\ ProofsCurrent
    BY PageParts DEF Types, PhonesOK
  <2>3. /\ Tally(t, q) \in Seq(PhoneType) /\ Len(Tally(t, q)) = Len(phones)
        /\ DOMAIN Tally(t, q) = DOMAIN phones /\ DOMAIN phones = 1..Len(phones)
        /\ Len(phones) \in Nat
    BY <2>2, TallyType, LenProperties
  <2>4. r \in PhoneType
    BY <2>1, PageParts DEF PhoneType
  <2>5. r.tab = t /\ r.epoch = q.epoch /\ r.ended = FALSE /\ r.sent = 0 /\ r.stale = FALSE
    OBVIOUS
  <2> HIDE DEF r
  <2>6. /\ Len(phones') = n /\ DOMAIN phones' = 1..n /\ phones'[n] = r
        /\ \A id \in 1..Len(phones) : phones'[id] = Tally(t, q)[id]
    BY <2>1, <2>3, <2>4, AppendProperties, LenProperties DEF r
  <2>7. \A id \in DOMAIN phones :
          /\ id \in DOMAIN phones' /\ id # n
          /\ phones'[id].tab = phones[id].tab /\ phones'[id].epoch = phones[id].epoch
          /\ phones'[id].ended = (phones[id].ended \/ Ends(t, q, id))
          /\ phones'[id].sent = phones[id].sent
          /\ phones'[id].stale = phones[id].stale
    <3> SUFFICES ASSUME NEW id \in DOMAIN phones
                 PROVE  /\ id \in DOMAIN phones' /\ id # n
                        /\ phones'[id].tab = phones[id].tab /\ phones'[id].epoch = phones[id].epoch
                        /\ phones'[id].ended = (phones[id].ended \/ Ends(t, q, id))
                        /\ phones'[id].sent = phones[id].sent
                        /\ phones'[id].stale = phones[id].stale
      OBVIOUS
    <3>1. ~Sends(t, q, id)
      BY <2>1 DEF Sends
    <3>2. id \in 1..Len(phones) /\ id \in DOMAIN phones' /\ id # n
      BY <2>3, <2>6
    <3>3. phones[id] \in PhoneType /\ phones[id].stale \in BOOLEAN
      BY <2>2, <3>2, PhoneParts
    <3> QED
      BY <2>2, <2>6, <3>1, <3>2, <3>3, TallyType, TallyParts
  <2>8. ASSUME NEW u \in Tabs, NEW id \in Nat, Awaits(page'[u], id)
        PROVE  /\ id \in DOMAIN phones' /\ phones'[id].tab = u
               /\ phones'[id].epoch <= page'[u].epoch
               /\ phones'[id].epoch = page'[u].epoch =>
                    page'[u].phone = id /\ ~phones'[id].ended /\ phones'[id].sent = 0
    <3>1. CASE u = t /\ id = n
      <4>1. page'[u] = q
        BY <2>1, <2>2, <3>1
      <4>2. n \in DOMAIN phones' /\ phones'[n] = r /\ q.epoch \in Nat
        BY <2>1, <2>2, <2>3, <2>6
      <4> QED
        BY <2>1, <2>5, <3>1, <4>1, <4>2
    <3>2. CASE u = t /\ id # n
      <4>1. page'[u] = q /\ Awaits(page[t], id)
        BY <2>1, <2>2, <2>8, <3>2
      <4>2. Untold(t, id)
        BY <2>2, <4>1 DEF Expected
      <4>3. id \in DOMAIN phones /\ phones[id].tab = t /\ phones[id].epoch <= page[t].epoch
        BY <4>2 DEF Untold
      <4>4. phones[id].epoch \in Nat
        BY <2>2, <4>3, PhoneParts
      <4>5. id \in DOMAIN phones' /\ phones'[id].tab = t /\ phones'[id].epoch = phones[id].epoch
        BY <2>7, <4>3
      <4>6. phones[id].epoch <= page[t].epoch /\ page'[u].epoch = page[t].epoch + 1
            /\ page[t].epoch \in Nat
        BY <2>1, <2>2, <4>1, <4>3
      <4>7. phones[id].epoch <= page'[u].epoch /\ phones[id].epoch # page'[u].epoch
        BY <4>4, <4>6
      <4> QED
        BY <3>2, <4>5, <4>7, Zenon
    <3>3. CASE u # t
      <4>1. page'[u] = page[u]
        BY <2>1, <2>2, <3>3
      <4>2. Untold(u, id)
        BY <2>2, <2>8, <4>1 DEF Expected
      <4>3. ~Ends(t, q, id)
        BY <3>3, <4>2 DEF Untold, Ends
      <4> QED
        BY <2>7, <4>1, <4>2, <4>3 DEF Untold
    <3> QED
      BY <3>1, <3>2, <3>3
  <2>9. ASSUME NEW id \in DOMAIN phones'
        PROVE  phones'[id].sent <= 1 /\ ~phones'[id].stale
    <3>1. id \in DOMAIN phones \/ id = n
      BY <2>3, <2>6, <2>9
    <3> QED
      BY <2>2, <2>5, <2>6, <2>7, <3>1 DEF ProofsCurrent
  <2> QED
    BY <2>8, <2>9 DEF PhonesOK, Expected, Untold, ProofsCurrent
<1> QED
  BY <1>1, <1>2

LEMMA PhonesTab ==
  ASSUME NEW t \in Tabs, Types, PhonesOK, Tab(t)
  PROVE  PhonesOK'
<1>1. ASSUME Moving(t) PROVE PhonesOK'
  <2>1. PICK pg \in PageType : Moves(t, pg) /\ Tells(t, pg)
    BY <1>1 DEF Moving, Becomes
  <2> QED
    BY <2>1, PhonesMove
<1>2. Expected
  BY DEF PhonesOK
<1>3. CASE Login(t) \/ Launch(t)
  BY <1>3, PhonesUnchanged DEF Login, Launch
<1>4. CASE Arrives(t)
  BY <1>4, PhonesLoads, PhonesUnchanged DEF Arrives
<1>5. CASE Serves(t)
  BY <1>5, ServesParts, PhonesMove
<1>6. CASE Requests(t)
  BY <1>6, PhonesRequested
<1>7. CASE Builds(t)
  BY <1>7, BuildsParts, PhonesMove
<1>8. CASE Records(t) \/ Replied(t) \/ TimesOut(t) \/ Checked(t)
           \/ \E who \in {"action", "poll"} : Applies(t, who)
  BY <1>1, <1>2, <1>8, RecordsMoves, RepliedMoves, TimesOutMoves, CheckedMoves, AppliesMoves
<1>9. CASE Quiet(t)
  BY <1>1, <1>9 DEF Quiet
<1> QED
  BY <1>2, <1>3, <1>4, <1>5, <1>6, <1>7, <1>8, <1>9, TabCases

LEMMA PhonesInit == Init => PhonesOK
<1> SUFFICES ASSUME Init PROVE PhonesOK
  OBVIOUS
<1>1. \A t \in Tabs, id \in Nat : ~Awaits(page[t], id)
  BY FreshType DEF Init, Awaits
<1>2. DOMAIN phones = {}
  BY EmptySeq, LenProperties DEF Init
<1> QED
  BY <1>1, <1>2 DEF PhonesOK, Expected, ProofsCurrent

-----------------------------------------------------------------------------
\* The acceptance: AcceptanceTrue.

\* Terms once accepted stay, and an order once begun stays begun.
Stays == /\ order.accepted # None => order'.accepted = order.accepted
         /\ order.stage # "none" => order'.stage # "none"

LEMMA TermsAreSome ==
  ASSUME NEW a \in Terms
  PROVE  TermsOf(a) # None
  BY HostedAssumption DEF Terms, TermsOf

LEMMA HandledStays ==
  ASSUME Types, NEW kind, NEW with, kind = "accept" => with \in Terms,
         Takes(kind, with), Handled(kind, with)
  PROVE  Stays /\ (kind = "accept" => order'.accepted = TermsOf(with))
<1>1. order \in OrderType
  BY DEF Types
<1>2. CASE kind = "accept"
  <2>1. order' = [order EXCEPT !.accepted = <<with.quote, with.dest>>]
    BY <1>2 DEF Handled
  <2>2. order.accepted \in {None, <<with.quote, with.dest>>}
    BY <1>2 DEF Takes
  <2>3. order'.accepted = <<with.quote, with.dest>> /\ order'.stage = order.stage
    BY <1>1, <2>1 DEF OrderType
  <2> QED
    BY <2>2, <2>3 DEF Stays, TermsOf
<1>3. CASE kind # "accept"
  <2>1. order' \in {order, [order EXCEPT !.eligible = TRUE], [order EXCEPT !.stage = "authorized"],
                    [order EXCEPT !.stage = "refunded"]}
    BY <1>3 DEF Handled
  <2> QED
    BY <1>1, <1>3, <2>1 DEF OrderType, Stays
<1> QED
  BY <1>2, <1>3

\* What one page reads leaves the others as they were.
LEMMA HonestMoves ==
  ASSUME NEW t \in Tabs, Types, Honest, Stays, NEW pg \in PageType,
         page' = [page EXCEPT ![t] = pg],
         \A o \in OrderType : HasRead(pg, o) => HasRead(page[t], o) \/ o = order,
         Accepting(pg) => pg.view # None,
         Taken(pg) => order'.accepted = TermsOf(pg.busy.with)
  PROVE  Honest'
<1>1. ASSUME NEW u \in Tabs, NEW o \in OrderType, HasRead(page'[u], o), o.accepted # None
      PROVE  order'.accepted = o.accepted
  <2>1. HasRead(page[u], o) \/ o = order
    BY <1>1 DEF Types
  <2>2. order.accepted = o.accepted
    BY <1>1, <2>1 DEF Honest
  <2> QED
    BY <1>1, <2>2 DEF Stays
<1>2. ASSUME NEW u \in Tabs
      PROVE  /\ Accepting(page'[u]) => page'[u].view # None
             /\ Taken(page'[u]) => order'.accepted = TermsOf(page'[u].busy.with)
  <2>1. CASE u = t
    BY <2>1 DEF Types
  <2>2. CASE u # t
    <3>1. page'[u] = page[u]
      BY <2>2 DEF Types
    <3>2. /\ Accepting(page[u]) => page[u].view # None
          /\ Taken(page[u]) => order.accepted = TermsOf(page[u].busy.with)
      BY DEF Honest
    <3>3. Taken(page[u]) => page[u].busy.with \in Terms
      BY PageParts DEF Types, Taken, Accepting, ActionType
    <3> QED
      BY <3>1, <3>2, <3>3, TermsAreSome DEF Stays
  <2> QED
    BY <2>1, <2>2
<1> QED
  BY <1>1, <1>2 DEF Honest

LEMMA HonestStays ==
  ASSUME Types, Honest, Stays, page' = page
  PROVE  Honest'
<1>1. ASSUME NEW u \in Tabs, NEW o \in OrderType, HasRead(page[u], o), o.accepted # None
      PROVE  order'.accepted = o.accepted
  BY <1>1 DEF Stays, Honest
<1>2. ASSUME NEW u \in Tabs
      PROVE  /\ Accepting(page[u]) => page[u].view # None
             /\ Taken(page[u]) => order'.accepted = TermsOf(page[u].busy.with)
  <2>1. /\ Accepting(page[u]) => page[u].view # None
        /\ Taken(page[u]) => order.accepted = TermsOf(page[u].busy.with)
    BY DEF Honest
  <2>2. Taken(page[u]) => page[u].busy.with \in Terms
    BY PageParts DEF Types, Taken, Accepting, ActionType
  <2> QED
    BY <2>1, <2>2, TermsAreSome DEF Stays
<1> QED
  BY <1>1, <1>2 DEF Honest

\* What a page believes, the order says.
LEMMA BelievedStays ==
  ASSUME Types, AcceptanceTrue, Stays,
         \A a \in believed' \ believed : a \in Terms /\ order.accepted = TermsOf(a)
  PROVE  AcceptanceTrue'
<1> SUFFICES ASSUME NEW a \in believed'
             PROVE  order'.accepted = <<a.quote, a.dest>>
  BY DEF AcceptanceTrue
<1>1. a \in Terms /\ order.accepted = TermsOf(a)
  BY DEF Types, AcceptanceTrue, TermsOf
<1> QED
  BY <1>1, TermsAreSome DEF Stays, TermsOf

LEMMA Begun ==
  ASSUME NEW t \in Tabs, Unbegun, place[t].at \notin {"away", "signed"}
  PROVE  order.stage # "none"
  BY DEF Unbegun

\* A page's move over an order that begun and that it does not change.
LEMMA AcceptanceMoves ==
  ASSUME NEW t \in Tabs, Types, AcceptanceOK, OnPage(t), order' = order,
         NEW pg \in PageType, page' = [page EXCEPT ![t] = pg], Reads(t, pg),
         \A a \in believed' \ believed : a \in Terms /\ order.accepted = TermsOf(a)
  PROVE  AcceptanceOK'
<1>1. /\ Unbegun /\ Honest /\ AcceptanceTrue /\ Stays /\ order.stage # "none"
  BY Begun DEF AcceptanceOK, Stays, OnPage
<1>2. Accepting(pg) => pg.view # None
  BY <1>1 DEF Reads, Honest
<1>3. Taken(pg) => order'.accepted = TermsOf(pg.busy.with)
  BY <1>1 DEF Reads, Honest
<1>4. \A o \in OrderType : HasRead(pg, o) => HasRead(page[t], o) \/ o = order
  BY DEF Reads
<1>5. Honest'
  BY <1>1, <1>2, <1>3, <1>4, HonestMoves
<1>6. AcceptanceTrue'
  BY <1>1, BelievedStays
<1> QED
  BY <1>1, <1>5, <1>6 DEF AcceptanceOK, Unbegun

\* The same of a page that moves in one of the ways above.
LEMMA AcceptanceMoving ==
  ASSUME NEW t \in Tabs, Types, AcceptanceOK, OnPage(t), order' = order, Moving(t),
         \A a \in believed' \ believed : a \in Terms /\ order.accepted = TermsOf(a)
  PROVE  AcceptanceOK'
<1>1. PICK pg \in PageType : Moves(t, pg) /\ Reads(t, pg)
  BY DEF Moving, Becomes
<1>2. page' = [page EXCEPT ![t] = pg]
  BY <1>1 DEF Moves
<1> QED
  BY <1>1, <1>2, AcceptanceMoves

LEMMA AcceptanceServed ==
  ASSUME NEW t \in Tabs, Types, AcceptanceOK, Serves(t)
  PROVE  AcceptanceOK'
<1> DEFINE b == page[t].busy
<1>1. PICK q \in PageType :
        /\ Moves(t, q)
        /\ \A o \in OrderType : HasRead(q, o) => HasRead(page[t], o)
        /\ q.view = page[t].view
        /\ Accepting(q) => Accepting(page[t])
        /\ \/ order' = order /\ ~Taken(q)
           \/ /\ Takes(KindOf(b), b.with) /\ Handled(KindOf(b), b.with)
              /\ KindOf(b) = "accept" => b.with \in Terms
              /\ Taken(q) => KindOf(b) = "accept" /\ q.busy.with = b.with
  BY ServesParts
<1>2. /\ Unbegun /\ Honest /\ AcceptanceTrue /\ order.stage # "none"
      /\ believed' = believed
  BY Begun DEF AcceptanceOK, Serves, Posted, OnPage, histories
<1>3. Stays /\ (Taken(q) => order'.accepted = TermsOf(q.busy.with))
  <2>1. CASE order' = order /\ ~Taken(q)
    BY <2>1 DEF Stays
  <2>2. CASE /\ Takes(KindOf(b), b.with) /\ Handled(KindOf(b), b.with)
             /\ KindOf(b) = "accept" => b.with \in Terms
             /\ Taken(q) => KindOf(b) = "accept" /\ q.busy.with = b.with
    <3>1. Stays /\ (KindOf(b) = "accept" => order'.accepted = TermsOf(b.with))
      BY <2>2, HandledStays
    <3> QED
      BY <2>2, <3>1
  <2> QED
    BY <1>1, <2>1, <2>2
<1>4. page' = [page EXCEPT ![t] = q]
  BY <1>1 DEF Moves
<1>5. Accepting(q) => q.view # None
  BY <1>1, <1>2 DEF Honest
<1>6. Honest'
  BY <1>1, <1>2, <1>3, <1>4, <1>5, HonestMoves
<1>7. AcceptanceTrue'
  BY <1>2, <1>3, BelievedStays
<1> QED
  BY <1>2, <1>3, <1>6, <1>7 DEF AcceptanceOK, Unbegun, Stays

LEMMA AcceptanceTab ==
  ASSUME NEW t \in Tabs, Types, Expected, LinkTypes, AcceptanceOK, Tab(t)
  PROVE  AcceptanceOK'
<1> USE DEF server, chain, histories
<1>1. Unbegun /\ Honest /\ AcceptanceTrue
  BY DEF AcceptanceOK
<1>2. CASE Quiet(t)
  BY <1>2, AcceptanceMoving DEF Quiet
<1>3. CASE Login(t)
  <2>1. /\ UNCHANGED <<order, late, page, believed>>
        /\ \A u \in Tabs : place'[u] = place[u] \/ place'[u].at \in {"away", "signed"}
    BY <1>3 DEF Login, Away, Signed, At, LinkTypes
  <2>2. Stays
    BY <2>1 DEF Stays
  <2> QED
    BY <1>1, <2>1, <2>2, HonestStays, BelievedStays DEF AcceptanceOK, Unbegun
<1>4. CASE Launch(t)
  <2>1. UNCHANGED <<late, page, believed>> /\ (Begins \/ Resumes)
    BY <1>4 DEF Launch
  <2>2. Stays /\ order'.stage # "none"
    BY <1>1, <2>1 DEF Begins, Resumes, Unbegun, Stays
  <2> QED
    BY <1>1, <2>1, <2>2, HonestStays, BelievedStays DEF AcceptanceOK, Unbegun
<1>5. CASE Arrives(t)
  <2>1. order' = order /\ believed' = believed /\ order.stage # "none" /\ Stays
    BY <1>1, <1>5, Begun DEF Arrives, Stays
  <2>2. Honest'
    <3>1. CASE UNCHANGED <<page, phones>>
      BY <1>1, <2>1, <3>1, HonestStays
    <3>2. CASE Loads(t)
      <4>1. page' = [page EXCEPT ![t] = Fresh] /\ Fresh \in PageType
        BY <3>2, FreshType DEF Loads
      <4>2. /\ \A o \in OrderType : ~HasRead(Fresh, o)
            /\ ~Accepting(Fresh)
        BY FreshType DEF HasRead, Accepting
      <4> QED
        BY <1>1, <2>1, <4>1, <4>2, HonestMoves DEF Taken
    <3> QED
      BY <1>5, <3>1, <3>2 DEF Arrives
  <2> QED
    BY <1>1, <2>1, <2>2, BelievedStays DEF AcceptanceOK, Unbegun
<1>6. ASSUME NEW who \in {"action", "poll"}, Applies(t, who) PROVE AcceptanceOK'
  <2>1. order' = order /\ OnPage(t)
    BY <1>6 DEF Applies
  <2>2. \A a \in believed' \ believed : a \in Terms /\ order.accepted = TermsOf(a)
    <3>1. CASE believed' = believed
      BY <3>1
    <3>2. ASSUME NEW o \in OrderType, HasRead(page[t], o),
                 o.accepted = TermsOf(page[t].uncertain), page[t].uncertain # None,
                 believed' = believed \cup {page[t].uncertain}
          PROVE  \A a \in believed' \ believed : a \in Terms /\ order.accepted = TermsOf(a)
      <4>1. page[t].uncertain \in Terms
        BY <3>2, PageParts DEF Types
      <4>2. order.accepted = o.accepted
        BY <1>1, <3>2, <4>1, TermsAreSome DEF Honest
      <4> QED
        BY <3>2, <4>1, <4>2
    <3> QED
      BY <1>6, <3>1, <3>2, AppliesMoves
  <2> QED
    BY <1>6, <2>1, <2>2, AppliesMoves, AcceptanceMoving
<1>7. CASE Checked(t)
  BY <1>7, CheckedMoves, AcceptanceMoving DEF Checked
<1>8. CASE Serves(t)
  BY <1>8, AcceptanceServed
<1>9. CASE Replied(t)
  <2>1. order' = order /\ OnPage(t)
    BY <1>9 DEF Replied, Posted
  <2>2. Taken(page[t]) => /\ page[t].busy.with \in Terms
                          /\ order.accepted = TermsOf(page[t].busy.with)
    BY <1>1, PageParts DEF Types, Taken, Accepting, ActionType, Honest
  <2>3. \A a \in believed' \ believed : a \in Terms /\ order.accepted = TermsOf(a)
    BY <1>9, <2>2, RepliedMoves
  <2> QED
    BY <1>9, <2>1, <2>3, RepliedMoves, AcceptanceMoving
<1>10. CASE TimesOut(t)
  <2>1. order' = order /\ OnPage(t)
    BY <1>10 DEF TimesOut, Posted
  <2>2. ASSUME Accepting(page[t]), page[t].view.accepted = TermsOf(page[t].busy.with)
        PROVE  /\ page[t].busy.with \in Terms
               /\ order.accepted = TermsOf(page[t].busy.with)
    <3>1. page[t].busy.with \in Terms
      BY <2>2, PageParts DEF Types, Accepting, ActionType
    <3>2. page[t].view # None /\ page[t].view \in OrderType
      BY <1>1, <2>2, PageParts DEF Types, Honest
    <3>3. HasRead(page[t], page[t].view)
      BY <3>2 DEF HasRead
    <3> QED
      BY <1>1, <2>2, <3>1, <3>2, <3>3, TermsAreSome DEF Honest
  <2>3. \A a \in believed' \ believed : a \in Terms /\ order.accepted = TermsOf(a)
    BY <1>10, <2>2, TimesOutMoves
  <2> QED
    BY <1>10, <2>1, <2>3, TimesOutMoves, AcceptanceMoving
<1>11. CASE Requests(t)
  <2>1. order' = order /\ OnPage(t) /\ believed' = believed
    BY <1>11 DEF Requests, Working
  <2>2. CASE Moving(t)
    BY <2>1, <2>2, AcceptanceMoving
  <2>3. ASSUME NEW q \in PageType, page' = [page EXCEPT ![t] = q], Reads(t, q)
        PROVE  AcceptanceOK'
    BY <2>1, <2>3, AcceptanceMoves
  <2> QED
    BY <1>11, <2>2, <2>3, RequestsParts
<1>12. CASE Builds(t)
  <2>1. order' = order /\ OnPage(t) /\ believed' = believed
    BY <1>12 DEF Builds, Working
  <2>2. PICK q \in PageType : Moves(t, q) /\ Reads(t, q)
    BY <1>12, BuildsParts
  <2>3. page' = [page EXCEPT ![t] = q]
    BY <2>2 DEF Moves
  <2> QED
    BY <2>1, <2>2, <2>3, AcceptanceMoves
<1>13. CASE Records(t)
  BY <1>13, RecordsMoves, AcceptanceMoving DEF Records, Working
<1> QED
  BY <1>2, <1>3, <1>4, <1>5, <1>6, <1>7, <1>8, <1>9, <1>10, <1>11, <1>12, <1>13, TabCases

LEMMA AcceptanceWorld ==
  ASSUME Types, AcceptanceOK,
         \/ \E r \in late : ServedLate(r)
         \/ \E p \in DOMAIN payments : Include(p)
         \/ World
         \/ UNCHANGED vars
  PROVE  AcceptanceOK'
<1> USE DEF server, chain, histories
<1>1. Unbegun /\ Honest /\ AcceptanceTrue
  BY DEF AcceptanceOK
<1>2. ASSUME UNCHANGED <<late, place, page, believed>>, order'.accepted = order.accepted,
             (order'.stage = "none") = (order.stage = "none")
      PROVE  AcceptanceOK'
  <2>1. Stays
    BY <1>2 DEF Stays
  <2> QED
    BY <1>1, <1>2, <2>1, HonestStays, BelievedStays DEF AcceptanceOK, Unbegun
<1>3. ASSUME NEW r \in late, ServedLate(r) PROVE AcceptanceOK'
  <2>1. order.stage # "none" /\ UNCHANGED <<page, believed>>
    BY <1>1, <1>3 DEF Unbegun, ServedLate
  <2>2. r \in LateType
    BY DEF Types
  <2>3. Stays
    <3>1. CASE order' = order
      BY <3>1 DEF Stays
    <3>2. CASE Takes(r.kind, r.with) /\ Handled(r.kind, r.with)
      BY <2>2, <3>2, HandledStays DEF LateType
    <3> QED
      BY <1>3, <3>1, <3>2 DEF ServedLate
  <2> QED
    BY <1>1, <2>1, <2>3, HonestStays, BelievedStays DEF AcceptanceOK, Unbegun, Stays
<1>4. ASSUME NEW p \in DOMAIN payments, Include(p) PROVE AcceptanceOK'
  BY <1>2, <1>4 DEF Include
<1>5. CASE World
  <2>1. UNCHANGED <<late, place, page, believed>>
    BY <1>5 DEF World
  <2>2. \/ order' = order
        \/ order.stage = "open" /\ order' = [order EXCEPT !.stage = "paid"]
        \/ order.stage = "authorized" /\ order' = [order EXCEPT !.stage = "completed"]
        \/ order' = [order EXCEPT !.eligible = FALSE]
    BY <1>5 DEF World
  <2>3. order'.accepted = order.accepted /\ (order'.stage = "none") = (order.stage = "none")
    BY <2>2 DEF Types, OrderType
  <2> QED
    BY <1>2, <2>1, <2>3
<1>6. CASE UNCHANGED vars
  BY <1>2, <1>6 DEF vars
<1> QED
  BY <1>3, <1>4, <1>5, <1>6

LEMMA AcceptanceInit == Init => AcceptanceOK
<1> SUFFICES ASSUME Init PROVE AcceptanceOK
  OBVIOUS
<1>1. Unbegun
  BY HostedAssumption DEF Init, Unbegun, Away, At
<1>2. \A t \in Tabs : ~Accepting(page[t]) /\ \A o \in OrderType : ~HasRead(page[t], o)
  BY FreshType DEF Init, Accepting, HasRead
<1> QED
  BY <1>1, <1>2 DEF Init, AcceptanceOK, Honest, AcceptanceTrue, Taken

-----------------------------------------------------------------------------
\* The payment: OneLivePayment.

\* Pages that still pay, and sign, after a move of one of them.
LEMMA PayingMoves ==
  ASSUME NEW t \in Tabs, Types, PaymentOK, NEW pg \in PageType,
         page' = [page EXCEPT ![t] = pg], Pays(t, pg)
  PROVE  \A u \in Tabs :
           /\ Paying(page'[u]) => storage[u].payment = None
           /\ Signing(page'[u]) =>
                /\ page'[u].busy.with \in DOMAIN payments
                /\ payments[page'[u].busy.with].tab = u
                /\ payments[page'[u].busy.with].status = "built"
<1> SUFFICES ASSUME NEW u \in Tabs
             PROVE  /\ Paying(page'[u]) => storage[u].payment = None
                    /\ Signing(page'[u]) =>
                         /\ page'[u].busy.with \in DOMAIN payments
                         /\ payments[page'[u].busy.with].tab = u
                         /\ payments[page'[u].busy.with].status = "built"
  OBVIOUS
<1>1. /\ Paying(page[u]) => storage[u].payment = None
      /\ Signing(page[u]) =>
           /\ page[u].busy.with \in DOMAIN payments
           /\ payments[page[u].busy.with].tab = u
           /\ payments[page[u].busy.with].status = "built"
  BY DEF PaymentOK, Forgotten, Own, Built
<1>2. page'[u] = IF u = t THEN pg ELSE page[u]
  BY DEF Types
<1>3. CASE u = t
  <2>1. page'[u] = pg
    BY <1>2, <1>3
  <2>2. Signing(pg) => Signing(page[u]) /\ pg.busy.with = page[u].busy.with
    BY <1>3 DEF Pays
  <2>3. Paying(pg) => Paying(page[u]) \/ storage[u].payment = None
    BY <1>3 DEF Pays
  <2> QED
    BY <1>1, <2>1, <2>2, <2>3
<1>4. CASE u # t
  BY <1>1, <1>2, <1>4
<1> QED
  BY <1>3, <1>4

LEMMA PaymentPages ==
  ASSUME Types, PaymentOK, UNCHANGED <<payments, account>>,
         \A u \in Tabs : storage'[u].payment = storage[u].payment,
         \A u \in Tabs :
           /\ Paying(page'[u]) => storage[u].payment = None
           /\ Signing(page'[u]) =>
                /\ page'[u].busy.with \in DOMAIN payments
                /\ payments[page'[u].busy.with].tab = u
                /\ payments[page'[u].busy.with].status = "built"
  PROVE  PaymentOK'
<1>1. \A p \in DOMAIN payments : payments[p].tab \in Tabs
  <2> SUFFICES ASSUME NEW p \in DOMAIN payments PROVE payments[p].tab \in Tabs
    OBVIOUS
  <2>1. payments[p] \in PaymentType
    BY LenProperties, ElementOfSeq DEF Types
  <2> QED
    BY <2>1 DEF PaymentType
<1>2. Remembered'
  BY <1>1 DEF PaymentOK, Remembered, LivePayment
<1>3. Forgotten' /\ Own' /\ Reached'
  BY DEF PaymentOK, Forgotten, Own, Built, Reached
<1> QED
  BY <1>2, <1>3 DEF PaymentOK

LEMMA PaymentMoves ==
  ASSUME NEW t \in Tabs, Types, PaymentOK, NEW pg \in PageType,
         page' = [page EXCEPT ![t] = pg], Pays(t, pg), UNCHANGED <<storage, payments, account>>
  PROVE  PaymentOK'
  BY PayingMoves, PaymentPages

LEMMA PaymentMoving ==
  ASSUME NEW t \in Tabs, Types, PaymentOK, Moving(t), UNCHANGED <<storage, payments, account>>
  PROVE  PaymentOK'
<1>1. PICK pg \in PageType : Moves(t, pg) /\ Pays(t, pg)
  BY DEF Moving, Becomes
<1>2. page' = [page EXCEPT ![t] = pg]
  BY <1>1 DEF Moves
<1> QED
  BY <1>1, <1>2, PaymentMoves

LEMMA PaymentParts ==
  ASSUME payments \in Seq(PaymentType), NEW p \in DOMAIN payments
  PROVE  /\ payments[p] \in PaymentType /\ p \in Nat /\ p \in 1..Len(payments)
         /\ payments[p].tab \in Tabs /\ payments[p].sequence \in Nat
<1>1. p \in Nat /\ p \in 1..Len(payments) /\ payments[p] \in PaymentType
  BY LenProperties, ElementOfSeq
<1> QED
  BY <1>1 DEF PaymentType

\* The receipt of a payment that failed makes its tab forget it.
LEMMA PaymentChecked ==
  ASSUME NEW t \in Tabs, Types, PaymentOK, Checked(t)
  PROVE  PaymentOK'
<1> DEFINE p == page[t].check
<1>1. UNCHANGED <<payments, account>> /\ Moving(t)
  BY CheckedMoves DEF Checked, chain
<1>2. CASE storage' = storage
  BY <1>1, <1>2, PaymentMoving
<1>3. CASE /\ storage[t].payment = p /\ payments[p].status = "failed"
           /\ storage' = [storage EXCEPT ![t].payment = None]
  <2>1. PICK pg \in PageType : page' = [page EXCEPT ![t] = pg] /\ Pays(t, pg)
    BY <1>1 DEF Moving, Becomes, Moves
  <2>2. \A u \in Tabs :
           /\ Paying(page'[u]) => storage[u].payment = None
           /\ Signing(page'[u]) =>
                /\ page'[u].busy.with \in DOMAIN payments
                /\ payments[page'[u].busy.with].tab = u
                /\ payments[page'[u].busy.with].status = "built"
    BY <2>1, PayingMoves
  <2>3. \A u \in Tabs : storage'[u].payment = IF u = t THEN None ELSE storage[u].payment
    BY <1>3 DEF Types
  <2>4. ASSUME NEW q \in DOMAIN payments,
               \/ payments[q].status = "success"
               \/ payments[q].status = "posted" /\ payments[q].sequence = account
        PROVE  storage'[payments[q].tab].payment = q
    <3>1. storage[payments[q].tab].payment = q /\ payments[q].tab \in Tabs
      BY <2>4, PaymentParts DEF PaymentOK, Remembered, LivePayment, Types
    <3>2. payments[q].tab # t
      BY <1>3, <2>4, <3>1
    <3> QED
      BY <2>3, <3>1, <3>2
  <2>5. Remembered' /\ Reached'
    BY <1>1, <2>4 DEF Remembered, LivePayment, PaymentOK, Reached
  <2>6. Forgotten'
    BY <2>2, <2>3 DEF Forgotten
  <2>7. Own'
    BY <1>1, <2>2 DEF Own, Built
  <2> QED
    BY <2>5, <2>6, <2>7 DEF PaymentOK
<1> QED
  BY <1>2, <1>3 DEF Checked, Failed

\* A payment is recorded by a tab that remembers none, and posted.
LEMMA PaymentRecorded ==
  ASSUME NEW t \in Tabs, Types, Expected, PaymentOK, Records(t)
  PROVE  PaymentOK'
<1> DEFINE k == Built(t)
<1>1. account' = account /\ Moving(t)
  BY RecordsMoves DEF Records
<1>2. CASE UNCHANGED <<storage, payments>>
  BY <1>1, <1>2, PaymentMoving
<1>3. CASE /\ storage' = [storage EXCEPT ![t].payment = k]
           /\ payments' = [payments EXCEPT ![k].status = "posted"]
           /\ ~Paying(page'[t])
  <2>1. /\ Signing(page[t]) /\ Paying(page[t])
    BY DEF Records, Working, Signing, Paying
  <2>2. /\ k \in DOMAIN payments /\ payments[k].tab = t /\ storage[t].payment = None
    BY <2>1 DEF PaymentOK, Own, Forgotten
  <2>3. \A q \in DOMAIN payments :
          /\ payments[q] \in PaymentType /\ q \in Nat /\ payments[q].tab \in Tabs
    BY PaymentParts DEF Types
  <2>4. payments[k] \in PaymentType
    BY <2>2, <2>3
  <2>5. /\ DOMAIN payments' = DOMAIN payments
        /\ \A q \in DOMAIN payments :
              /\ q # k => payments'[q] = payments[q]
              /\ payments'[q].tab = payments[q].tab
              /\ payments'[q].sequence = payments[q].sequence
    <3>1. payments'[k] = [payments[k] EXCEPT !.status = "posted"]
      BY <1>3, <2>2
    <3>2. payments'[k].tab = payments[k].tab /\ payments'[k].sequence = payments[k].sequence
      BY <2>4, <3>1 DEF PaymentType
    <3> QED
      BY <1>3, <3>2
  <2>6. \A u \in Tabs : storage'[u].payment = IF u = t THEN k ELSE storage[u].payment
    BY <1>3 DEF Types
  <2>7. ASSUME NEW q \in DOMAIN payments,
               \/ payments'[q].status = "success"
               \/ payments'[q].status = "posted" /\ payments'[q].sequence = account
        PROVE  storage'[payments'[q].tab].payment = q
    <3>1. CASE q = k
      BY <2>2, <2>5, <2>6, <3>1
    <3>2. CASE q # k
      <4>1. payments'[q] = payments[q]
        BY <2>5, <3>2
      <4>2. storage[payments[q].tab].payment = q
        BY <2>7, <4>1 DEF PaymentOK, Remembered, LivePayment
      <4>3. payments[q].tab # t
        BY <2>2, <2>3, <4>2, HostedAssumption
      <4> QED
        BY <2>3, <2>6, <4>1, <4>2, <4>3
    <3> QED
      BY <3>1, <3>2
  <2>8. Remembered'
    BY <1>1, <2>5, <2>7 DEF Remembered, LivePayment
  <2>9. Reached'
    BY <1>1, <2>5 DEF PaymentOK, Reached
  <2>10. \A u \in Tabs : u # t => page'[u] = page[u]
    BY <1>1 DEF Moving, Moves
  <2>11. Forgotten'
    BY <1>3, <2>6, <2>10 DEF PaymentOK, Forgotten
  <2>12. ASSUME NEW u \in Tabs, Signing(page'[u])
         PROVE  /\ page'[u].busy.with \in DOMAIN payments'
                /\ payments'[page'[u].busy.with].tab = u
                /\ payments'[page'[u].busy.with].status = "built"
    <3>1. u # t /\ page'[u] = page[u] /\ Signing(page[u])
      BY <1>3, <2>10, <2>12 DEF Signing
    <3>2. /\ page[u].busy.with \in DOMAIN payments
          /\ payments[page[u].busy.with].tab = u
          /\ payments[page[u].busy.with].status = "built"
      BY <3>1 DEF PaymentOK, Own, Built
    <3>3. page[u].busy.with # k
      BY <2>2, <3>1, <3>2
    <3> QED
      BY <2>5, <3>1, <3>2, <3>3
  <2>13. Own'
    BY <2>12 DEF Own, Built
  <2> QED
    BY <2>8, <2>9, <2>11, <2>13 DEF PaymentOK
<1> QED
  BY <1>2, <1>3, RecordsMoves

\* A payment is built on the account's number of the moment.
LEMMA PaymentBuilt ==
  ASSUME NEW t \in Tabs, Types, PaymentOK, Builds(t)
  PROVE  PaymentOK'
<1> DEFINE n == Len(payments) + 1
           r == [tab |-> t, sequence |-> account, status |-> "built"]
<1>1. storage' = storage /\ account' = account
  BY DEF Builds
<1>2. PICK q \in PageType :
        /\ Moves(t, q) /\ Paying(page[t])
        /\ Signing(q) => q.busy.with = n
        /\ payments' = Append(payments, r)
  BY BuildsParts
<1>3. page \in [Tabs -> PageType] /\ payments \in Seq(PaymentType) /\ account \in Nat
  BY DEF Types
<1>4. page' = [page EXCEPT ![t] = q]
  BY <1>2 DEF Moves
<1>5. r \in PaymentType /\ r.tab = t /\ r.sequence = account /\ r.status = "built"
  BY <1>3 DEF PaymentType
<1> HIDE DEF r
<1>6. /\ Len(payments) \in Nat /\ DOMAIN payments = 1..Len(payments)
      /\ DOMAIN payments' = 1..n /\ payments'[n] = r
      /\ \A i \in 1..Len(payments) : payments'[i] = payments[i]
  <2>1. payments' = Append(payments, r)
    BY <1>2, Zenon DEF r
  <2>2. /\ payments' \in Seq(PaymentType) /\ Len(payments') = n
        /\ payments'[n] = r
        /\ \A i \in 1..Len(payments) : payments'[i] = payments[i]
    BY <1>3, <1>5, <2>1, AppendProperties
  <2>3. DOMAIN payments' = 1..n
    BY <2>2, LenProperties
  <2>4. Len(payments) \in Nat /\ DOMAIN payments = 1..Len(payments)
    BY <1>3, LenProperties
  <2> QED
    BY <2>2, <2>3, <2>4
<1>7. ASSUME NEW i \in DOMAIN payments'
      PROVE  i = n \/ (i \in DOMAIN payments /\ payments'[i] = payments[i])
  <2>1. i \in 1..n /\ Len(payments) \in Nat
    BY <1>6
  <2>2. i = n \/ i \in 1..Len(payments)
    BY <2>1
  <2> QED
    BY <1>6, <2>2
<1>8. \A i \in DOMAIN payments : i \in DOMAIN payments' /\ payments'[i] = payments[i]
  BY <1>6
<1>9. n \in DOMAIN payments' /\ payments'[n] = r
  BY <1>6
<1> HIDE DEF n
<1>10. Remembered'
  BY <1>1, <1>5, <1>7, <1>9 DEF PaymentOK, Remembered, LivePayment
<1>11. Reached'
  BY <1>1, <1>3, <1>5, <1>7, <1>9 DEF PaymentOK, Reached
<1>12. \A u \in Tabs : page'[u] = IF u = t THEN q ELSE page[u]
  BY <1>3, <1>4
<1>13. Forgotten'
  BY <1>1, <1>2, <1>12 DEF PaymentOK, Forgotten
<1>14. ASSUME NEW u \in Tabs, Signing(page'[u])
       PROVE  /\ page'[u].busy.with \in DOMAIN payments'
              /\ payments'[page'[u].busy.with].tab = u
              /\ payments'[page'[u].busy.with].status = "built"
  <2>1. CASE u = t
    <3>1. page'[u] = q /\ Signing(q)
      BY <1>12, <1>14, <2>1
    <3>2. q.busy.with = n
      BY <1>2, <3>1
    <3> QED
      BY <1>5, <1>9, <2>1, <3>1, <3>2
  <2>2. CASE u # t
    <3>1. page'[u] = page[u] /\ Signing(page[u])
      BY <1>12, <1>14, <2>2
    <3>2. /\ page[u].busy.with \in DOMAIN payments
          /\ payments[page[u].busy.with].tab = u
          /\ payments[page[u].busy.with].status = "built"
      BY <3>1 DEF PaymentOK, Own, Built
    <3> QED
      BY <1>8, <3>1, <3>2
  <2> QED
    BY <2>1, <2>2
<1>15. Own'
  BY <1>14 DEF Own, Built
<1> QED
  BY <1>10, <1>11, <1>13, <1>15 DEF PaymentOK

\* A payment that is included passes the account's number, and makes every other
\* one on that number impossible.
LEMMA PaymentIncluded ==
  ASSUME NEW p \in DOMAIN payments, Types, PaymentOK, Include(p)
  PROVE  PaymentOK'
<1>1. /\ UNCHANGED <<page, storage>> /\ account' = account + 1 /\ account \in Nat
      /\ payments[p].status = "posted" /\ payments[p].sequence = account
  BY DEF Include, Types
<1>2. PICK o \in {"success", "failed"} : payments' = [payments EXCEPT ![p].status = o]
  BY DEF Include
<1>3. \A q \in DOMAIN payments :
        /\ payments[q] \in PaymentType /\ payments[q].tab \in Tabs /\ payments[q].sequence \in Nat
  BY PaymentParts DEF Types
<1>4. /\ DOMAIN payments' = DOMAIN payments
      /\ \A q \in DOMAIN payments :
            /\ q # p => payments'[q] = payments[q]
            /\ payments'[q].tab = payments[q].tab
            /\ payments'[q].sequence = payments[q].sequence
      /\ payments'[p].status = o
  <2>1. payments'[p] = [payments[p] EXCEPT !.status = o]
    BY <1>2
  <2>2. payments'[p].tab = payments[p].tab /\ payments'[p].sequence = payments[p].sequence
        /\ payments'[p].status = o
    BY <1>3, <2>1 DEF PaymentType
  <2> QED
    BY <1>2, <2>2
<1>5. ASSUME NEW q \in DOMAIN payments,
             \/ payments'[q].status = "success"
             \/ payments'[q].status = "posted" /\ payments'[q].sequence = account'
      PROVE  storage[payments[q].tab].payment = q
  <2>1. payments[q].sequence <= account
    BY DEF PaymentOK, Reached
  <2>2. payments'[q].sequence # account'
    BY <1>1, <1>3, <1>4, <2>1
  <2>3. payments'[q].status = "success"
    BY <1>5, <2>2
  <2>4. q = p \/ payments[q].status = "success"
    BY <1>4, <2>3
  <2> QED
    BY <1>1, <2>4 DEF PaymentOK, Remembered, LivePayment
<1>6. Remembered'
  BY <1>1, <1>4, <1>5 DEF Remembered, LivePayment
<1>7. Reached'
  <2>1. \A q \in DOMAIN payments : payments[q].sequence <= account
    BY DEF PaymentOK, Reached
  <2>2. \A q \in DOMAIN payments : payments[q].sequence <= account + 1
    BY <1>1, <1>3, <2>1
  <2> QED
    BY <1>1, <1>4, <2>2 DEF Reached
<1>8. Forgotten'
  BY <1>1 DEF PaymentOK, Forgotten
<1>9. ASSUME NEW u \in Tabs, Signing(page[u])
      PROVE  /\ page[u].busy.with \in DOMAIN payments'
             /\ payments'[page[u].busy.with].tab = u
             /\ payments'[page[u].busy.with].status = "built"
  <2>1. /\ page[u].busy.with \in DOMAIN payments
        /\ payments[page[u].busy.with].tab = u
        /\ payments[page[u].busy.with].status = "built"
    BY <1>9 DEF PaymentOK, Own, Built
  <2>2. page[u].busy.with # p
    BY <1>1, <2>1
  <2> QED
    BY <1>4, <2>1, <2>2
<1>10. Own'
  BY <1>1, <1>9 DEF Own, Built
<1> QED
  BY <1>6, <1>7, <1>8, <1>10 DEF PaymentOK

LEMMA PaymentTab ==
  ASSUME NEW t \in Tabs, Types, Expected, PaymentOK, Tab(t)
  PROVE  PaymentOK'
<1> USE DEF server, chain, histories
<1>1. ASSUME page' = page, UNCHANGED <<payments, account>>,
             \A u \in Tabs : storage'[u].payment = storage[u].payment
      PROVE  PaymentOK'
  BY <1>1, PaymentPages DEF PaymentOK, Forgotten, Own, Built
<1>2. CASE Quiet(t)
  BY <1>2, PaymentMoving DEF Quiet
<1>3. CASE Login(t)
  BY <1>1, <1>3 DEF Login
<1>4. CASE Launch(t)
  <2>1. storage' = storage \/ storage' = [storage EXCEPT ![t].launcher = TRUE]
    BY <1>4 DEF Launch
  <2>2. \A u \in Tabs : storage'[u].payment = storage[u].payment
    BY <2>1 DEF Types
  <2> QED
    BY <1>1, <1>4, <2>2 DEF Launch
<1>5. CASE Arrives(t)
  <2>1. UNCHANGED <<storage, payments, account>>
    BY <1>5 DEF Arrives
  <2>2. CASE page' = page
    BY <1>1, <2>1, <2>2
  <2>3. CASE Loads(t)
    <3>1. page' = [page EXCEPT ![t] = Fresh] /\ Fresh \in PageType
      BY <2>3, FreshType DEF Loads
    <3>2. Pays(t, Fresh)
      BY FreshType DEF Pays, Paying, Signing
    <3> QED
      BY <2>1, <3>1, <3>2, PaymentMoves
  <2> QED
    BY <1>5, <2>2, <2>3 DEF Arrives
<1>6. ASSUME NEW who \in {"action", "poll"}, Applies(t, who) PROVE PaymentOK'
  BY <1>6, AppliesMoves, PaymentMoving DEF Applies
<1>7. CASE Checked(t)
  BY <1>7, PaymentChecked
<1>8. CASE Serves(t)
  <2>1. PICK q \in PageType : Moves(t, q) /\ Pays(t, q)
    BY <1>8, ServesParts
  <2> QED
    BY <1>8, <2>1, PaymentMoves DEF Serves, Moves
<1>9. CASE Replied(t)
  BY <1>9, RepliedMoves, PaymentMoving DEF Replied
<1>10. CASE TimesOut(t)
  BY <1>10, TimesOutMoves, PaymentMoving DEF TimesOut
<1>11. CASE Requests(t)
  <2>1. UNCHANGED <<storage, payments, account>>
    BY <1>11 DEF Requests
  <2>2. CASE Moving(t)
    BY <2>1, <2>2, PaymentMoving
  <2>3. ASSUME NEW q \in PageType, page' = [page EXCEPT ![t] = q], Pays(t, q)
        PROVE  PaymentOK'
    BY <2>1, <2>3, PaymentMoves
  <2> QED
    BY <1>11, <2>2, <2>3, RequestsParts
<1>12. CASE Builds(t)
  BY <1>12, PaymentBuilt
<1>13. CASE Records(t)
  BY <1>13, PaymentRecorded
<1> QED
  BY <1>2, <1>3, <1>4, <1>5, <1>6, <1>7, <1>8, <1>9, <1>10, <1>11, <1>12, <1>13, TabCases

LEMMA PaymentWorld ==
  ASSUME Types, PaymentOK,
         \/ \E r \in late : ServedLate(r)
         \/ \E p \in DOMAIN payments : Include(p)
         \/ World
         \/ UNCHANGED vars
  PROVE  PaymentOK'
<1>1. ASSUME UNCHANGED <<page, storage, payments, account>>
      PROVE  PaymentOK'
  BY <1>1, PaymentPages DEF PaymentOK, Forgotten, Own, Built
<1> QED
  BY <1>1, PaymentIncluded DEF ServedLate, World, vars, chain

LEMMA PaymentInit == Init => PaymentOK
<1> SUFFICES ASSUME Init PROVE PaymentOK
  OBVIOUS
<1>1. DOMAIN payments = {}
  BY EmptySeq, LenProperties DEF Init
<1>2. \A t \in Tabs : ~Paying(page[t])
  BY FreshType DEF Init, Paying
<1> QED
  BY <1>1, <1>2 DEF PaymentOK, Remembered, Forgotten, Own, Reached, Signing

\* A tab remembers at most one payment.
LEMMA OneRemembered ==
  ASSUME Types, Remembered
  PROVE  OneLivePayment
<1> SUFFICES ASSUME NEW t \in Tabs
             PROVE  Cardinality(LivePayments(t)) <= 1
  BY DEF OneLivePayment
<1>1. LivePayments(t) \subseteq {storage[t].payment}
  BY DEF LivePayments, Remembered, LivePayment
<1>2. LivePayments(t) = {} \/ LivePayments(t) = {storage[t].payment}
  BY <1>1
<1>3. CASE LivePayments(t) = {}
  BY <1>3, FS_EmptySet
<1>4. CASE LivePayments(t) = {storage[t].payment}
  <2>1. Cardinality({storage[t].payment}) = 1
    BY FS_Singleton
  <2> QED
    BY <1>4, <2>1
<1> QED
  BY <1>2, <1>3, <1>4

-----------------------------------------------------------------------------
\* The inductive invariant, and what it implies.

HostedInv == Types /\ LinksOK /\ PhonesOK /\ AcceptanceOK /\ PaymentOK

\* The parts support each other: what a step makes of pages, phone requests, the
\* acceptance and the payment is argued from the types and from the phone requests
\* that are expected, and a page is open only over an order that exists.
THEOREM HostedInvariant == Spec => []HostedInv
<1>1. Init => HostedInv
  BY TypesInit, LinksInit, PhonesInit, AcceptanceInit, PaymentInit DEF HostedInv
<1>2. HostedInv /\ [Next]_vars => HostedInv'
  <2> SUFFICES ASSUME HostedInv, [Next]_vars PROVE HostedInv'
    OBVIOUS
  <2>1. /\ Types /\ LinksOK /\ PhonesOK /\ AcceptanceOK /\ PaymentOK
        /\ Expected /\ Own /\ LinkTypes
    BY DEF HostedInv, PhonesOK, PaymentOK, LinksOK
  <2>2. LinksOK'
    BY <2>1, LinksStep
  <2>3. ASSUME NEW t \in Tabs, Tab(t)
        PROVE  Types' /\ PhonesOK' /\ AcceptanceOK' /\ PaymentOK'
    BY <2>1, <2>3, TypesTab, PhonesTab, AcceptanceTab, PaymentTab
  <2>4. ASSUME \/ \E r \in late : ServedLate(r)
               \/ \E p \in DOMAIN payments : Include(p)
               \/ World
               \/ UNCHANGED vars
        PROVE  Types' /\ PhonesOK' /\ AcceptanceOK' /\ PaymentOK'
    <3>1. UNCHANGED <<page, phones>>
      BY <2>4 DEF ServedLate, Include, World, vars
    <3> QED
      BY <2>1, <2>4, <3>1, TypesWorld, PhonesUnchanged, AcceptanceWorld, PaymentWorld
  <2> QED
    BY <2>2, <2>3, <2>4 DEF Next, HostedInv
<1> QED
  BY <1>1, <1>2, PTL DEF Spec

\* A phone request's proof is submitted at most once, and never after the request
\* ended (submitProof, cancelPhone and the epoch in web/sep-anchor.ts).
THEOREM HostedProofsCurrent == Spec => []ProofsCurrent
<1>1. HostedInv => ProofsCurrent
  BY DEF HostedInv, PhonesOK
<1> QED
  BY <1>1, HostedInvariant, PTL

\* What a page takes for accepted, after an answer or after reading the order when
\* the answer was lost, is what the server has accepted (acceptanceAcknowledged).
THEOREM HostedAcceptanceTrue == Spec => []AcceptanceTrue
<1>1. HostedInv => AcceptanceTrue
  BY DEF HostedInv, AcceptanceOK
<1> QED
  BY <1>1, HostedInvariant, PTL

\* No tab has two payments that each succeeded or may still succeed, however often
\* it was reloaded and whatever receipts were lost (sendPayment and checkPayment).
THEOREM HostedOneLivePayment == Spec => []OneLivePayment
<1>1. HostedInv => OneLivePayment
  BY OneRemembered DEF HostedInv, PaymentOK
<1> QED
  BY <1>1, HostedInvariant, PTL

=============================================================================
