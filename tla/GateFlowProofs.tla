---------------------------- MODULE GateFlowProofs ----------------------------
(***************************************************************************)
(* The safety properties of GateFlow for every number of wallets, orders,  *)
(* quotes, phone requests and faults.                                      *)
(***************************************************************************)
EXTENDS GateFlow, SequenceTheorems, TLAPS

Words     == {"refused", "not_admitted", "ofac", "quote_expired", "ok", "no_match", "match"}
ReplyType == AnswerType \cup [is : {"quote"}, id : Nat] \cup [is : Words]
FlowType ==
    [info : BOOLEAN, closed : BOOLEAN, generation : Nat, phoneGeneration : Nat,
     token : With, wallet : With, ready : BOOLEAN,
     screening : {None, "no_match", "match", "unavailable"},
     direction : {"deposit", "withdrawal"}, quote : Nat \cup {None},
     beneficiary : With, pending : BOOLEAN, order : AnswerType \cup {None},
     phone : Nat \cup {None},
     prepared : [phone : Nat, order : Nat \cup {None}] \cup {None}]
TaskType ==
    [kind : Runs \cup {"initialize"},
     step : {"begin", "select", "login", "setup", "sign", "send", "asked", "client"},
     session : Nat, with : With, order : Nat \cup {None}, unknown : BOOLEAN,
     reply : ReplyType \cup {None}]
GlanceType   == [order : Nat, session : Nat, reply : AnswerType \cup {None}]
CallbackType == [session : Nat, generation : Nat, order : Nat \cup {None},
                 step : {"ready", "proof", "prepared", "done"}]
QuoteType    == [wallet : With, direction : {"deposit", "withdrawal"}, live : BOOLEAN]
DeskType     == [quotes : Seq(QuoteType), orders : Seq(OrderType), policy : BOOLEAN]
RequestType  == [kind : Posts, order : Nat, with : With, session : Nat]

-----------------------------------------------------------------------------
\* Each variable, what it refers to, and that it is of no session or phone request
\* yet to come.

Quoting  == DOMAIN desk.quotes
Ordering == DOMAIN desk.orders
Acts     == {"sign", "authorize", "bank", "settle"}
\* What a task of each kind may be answered.
Answers(kind) ==
    IF kind = "reserve" THEN {"order", "quote_expired", "refused", "not_admitted", "ofac"}
    ELSE IF kind \in {"connect", "access"} THEN {"no_match", "match", "refused"}
    ELSE IF kind = "quote" THEN {"quote", "refused"}
    ELSE IF kind \in Acts \cup {"refresh"} THEN {"order", "refused"}
    ELSE {"ok", "refused"}

FlowOK ==
    /\ flow \in FlowType
    /\ flow.quote # None => flow.quote \in Quoting
    /\ flow.order # None => flow.order.id \in Ordering
\* A task begins when no automatic check is under way, and has one answer.
TaskOK ==
    task # None =>
        /\ task \in TaskType /\ task.session <= flow.generation
        /\ task.kind = "reserve" /\ task.step = "asked" => task.order \in Quoting
        /\ task.kind \in Acts /\ task.step \in {"sign", "asked"} => task.order \in Ordering
        /\ task.kind = "refresh" => task.with \in Ordering
        /\ task.step # "begin" => glance = None
        /\ task.step # "asked" => task.reply = None
        /\ task.reply # None =>
              /\ task.reply.is \in Answers(task.kind)
              /\ task.reply.is = "quote" => task.reply.id \in Quoting
        /\ task.step \in {"select", "login"} => task.kind = "connect"
        /\ task.step = "sign" => task.kind = "sign"
        /\ task.step = "client" => task.kind = "prove"
GlanceOK ==
    glance # None =>
        glance \in GlanceType /\ glance.order \in Ordering /\ glance.session <= flow.generation
CallbacksOK ==
    /\ callbacks \in Seq(CallbackType)
    /\ \A id \in DOMAIN callbacks : /\ callbacks[id].session <= flow.generation
                                    /\ callbacks[id].generation <= flow.phoneGeneration
DeskOK ==
    /\ desk \in DeskType
    /\ \A n \in Ordering : desk.orders[n].session <= flow.generation
InflightOK ==
    \A r \in inflight :
        /\ r \in RequestType /\ r.session <= flow.generation
        /\ r.order \in IF r.kind = "reserve" THEN Quoting ELSE Ordering
Basics == /\ FlowOK /\ TaskOK /\ GlanceOK /\ CallbacksOK /\ DeskOK /\ InflightOK
          /\ freighter \in Wallets

-----------------------------------------------------------------------------
\* Reservations.

\* No order can come of a request for this quote any more.
Dead(q)     == ~desk.quotes[q].live \/ ~desk.policy
HasOrder(q) == \E n \in Ordering : desk.orders[n].quote = q
Settled(q)  == Dead(q) \/ HasOrder(q)
Keys ==
    \A m, n \in Ordering : desk.orders[m].quote = desk.orders[n].quote => m = n

Ours(n) == desk.orders[n].session = flow.generation
Late(r) == r.kind = "reserve" /\ r.session = flow.generation
Sent    == /\ task # None /\ task.kind = "reserve" /\ task.step = "asked"
           /\ SameSession(task.session)
\* While a reservation may exist the page shows no order and keeps its quote; an
\* order of the session that was not shown, and a request of the session that
\* may still make one, are for that quote.
Unshown ==
    /\ flow.pending => flow.order = None /\ flow.quote # None
    /\ \A n \in Ordering :
          Ours(n) /\ n \notin seen => flow.pending /\ desk.orders[n].quote = flow.quote
    /\ \A r \in inflight :
          Late(r) => Settled(r.order) \/ (flow.pending /\ r.order = flow.quote)
    /\ Sent => flow.pending /\ task.order = flow.quote
\* A first request that was refused left nothing behind, and neither did one whose
\* quote was no longer good.
First ==
    Sent =>
        /\ ~task.unknown => \A r \in inflight : Late(r) => Settled(r.order)
        /\ ~task.unknown /\ (task.reply = None \/ task.reply.is # "order") =>
              \A n \in Ordering : Ours(n) => n \in seen
        /\ task.reply # None /\ task.reply.is = "quote_expired" =>
              Dead(task.order) /\ ~HasOrder(task.order)
        /\ task.reply # None /\ task.reply.is = "order" =>
              task.reply.id \in Ordering /\ desk.orders[task.reply.id].quote = task.order
\* Nothing that sets or uses the order or the quote runs beside it.
Alone ==
    /\ task # None /\ SameSession(task.session) /\ task.kind \in Acts \cup {"quote", "refresh", "prove"}
          /\ task.step \in {"sign", "asked", "client"} => ~flow.pending
    /\ glance # None /\ SameSession(glance.session) => ~flow.pending
ReservationOK == Keys /\ Unshown /\ First /\ Alone

-----------------------------------------------------------------------------
\* Phone requests.

\* The request under way is the last, and for the order shown; while one is being
\* made there is none, and nothing is offered for signature.
Callbacks ==
    \A id \in DOMAIN callbacks : Current(id) =>
        /\ id = Len(callbacks)
        /\ flow.order # None /\ callbacks[id].order = flow.order.id
Making ==
    task # None /\ task.kind = "prove" /\ task.step \in {"asked", "client"} =>
        /\ task.with \in Nat /\ task.with <= flow.phoneGeneration
        /\ flow.prepared = None /\ \A id \in DOMAIN callbacks : ~Current(id)
        /\ SameSession(task.session) /\ task.with = flow.phoneGeneration =>
              flow.order # None /\ task.order = flow.order.id
Offered == flow.prepared # None => flow.prepared.phone \in DOMAIN callbacks
PhoneOK == Callbacks /\ Making /\ Offered /\ PreparedCurrent

-----------------------------------------------------------------------------
\* Stages.

\* An answer under way is at least as new as what is shown, and the anchor newer.
NotBehind(a) ==
    /\ a.id \in Ordering /\ a.o.step <= desk.orders[a.id].step
    /\ flow.order # None /\ flow.order.id = a.id => flow.order.o.step <= a.o.step
StagesOK ==
    /\ flow.order # None => flow.order.o.step <= desk.orders[flow.order.id].step
    /\ task # None /\ task.reply # None /\ task.reply.is = "order" => NotBehind(task.reply)
    /\ glance # None /\ glance.reply # None => NotBehind(glance.reply)

GateInv == Basics /\ ReservationOK /\ PhoneOK /\ StagesOK

-----------------------------------------------------------------------------
\* The session's record, one field replaced.

\* Two states of the session that agree on what the properties are about.
Alike(f, g) ==
    /\ g.generation = f.generation /\ g.phoneGeneration = f.phoneGeneration
    /\ g.order = f.order /\ g.quote = f.quote /\ g.pending = f.pending
    /\ g.prepared = f.prepared
\* The same but for what belongs to the phone.
AlikeOrder(f, g) ==
    /\ g.generation = f.generation /\ g.order = f.order
    /\ g.quote = f.quote /\ g.pending = f.pending

LEMMA FlowParts ==
  ASSUME NEW f \in FlowType
  PROVE  /\ f.generation \in Nat /\ f.phoneGeneration \in Nat
         /\ f.order \in AnswerType \cup {None} /\ f.quote \in Nat \cup {None}
         /\ f.pending \in BOOLEAN /\ f.wallet \in With /\ f.token \in With
         /\ f.direction \in {"deposit", "withdrawal"}
         /\ f.prepared \in [phone : Nat, order : Nat \cup {None}] \cup {None}
  BY DEF FlowType

LEMMA DisplayReplaced ==
  ASSUME NEW f \in FlowType
  PROVE  /\ \A v \in BOOLEAN :
               /\ [f EXCEPT !.info = v] \in FlowType /\ Alike(f, [f EXCEPT !.info = v])
               /\ [f EXCEPT !.closed = v] \in FlowType /\ Alike(f, [f EXCEPT !.closed = v])
               /\ [f EXCEPT !.ready = v] \in FlowType /\ Alike(f, [f EXCEPT !.ready = v])
         /\ \A v \in With :
               /\ [f EXCEPT !.token = v] \in FlowType /\ Alike(f, [f EXCEPT !.token = v])
               /\ [f EXCEPT !.wallet = v] \in FlowType /\ Alike(f, [f EXCEPT !.wallet = v])
               /\ [f EXCEPT !.beneficiary = v] \in FlowType
               /\ Alike(f, [f EXCEPT !.beneficiary = v])
         /\ \A v \in {None, "no_match", "match", "unavailable"} :
               /\ [f EXCEPT !.screening = v] \in FlowType
               /\ Alike(f, [f EXCEPT !.screening = v])
         /\ \A v \in {"deposit", "withdrawal"} :
               /\ [f EXCEPT !.direction = v] \in FlowType
               /\ Alike(f, [f EXCEPT !.direction = v])
         /\ \A v \in Nat \cup {None} :
               [f EXCEPT !.phone = v] \in FlowType /\ Alike(f, [f EXCEPT !.phone = v])
<1>1. \A v \in BOOLEAN :
        /\ [f EXCEPT !.info = v] \in FlowType /\ Alike(f, [f EXCEPT !.info = v])
        /\ [f EXCEPT !.closed = v] \in FlowType /\ Alike(f, [f EXCEPT !.closed = v])
        /\ [f EXCEPT !.ready = v] \in FlowType /\ Alike(f, [f EXCEPT !.ready = v])
  BY DEF FlowType, Alike
<1>2. \A v \in With :
        /\ [f EXCEPT !.token = v] \in FlowType /\ Alike(f, [f EXCEPT !.token = v])
        /\ [f EXCEPT !.wallet = v] \in FlowType /\ Alike(f, [f EXCEPT !.wallet = v])
        /\ [f EXCEPT !.beneficiary = v] \in FlowType /\ Alike(f, [f EXCEPT !.beneficiary = v])
  BY DEF FlowType, Alike
<1>3. \A v \in {None, "no_match", "match", "unavailable"} :
        [f EXCEPT !.screening = v] \in FlowType /\ Alike(f, [f EXCEPT !.screening = v])
  BY DEF FlowType, Alike
<1>4. \A v \in {"deposit", "withdrawal"} :
        [f EXCEPT !.direction = v] \in FlowType /\ Alike(f, [f EXCEPT !.direction = v])
  BY DEF FlowType, Alike
<1>5. \A v \in Nat \cup {None} :
        [f EXCEPT !.phone = v] \in FlowType /\ Alike(f, [f EXCEPT !.phone = v])
  BY DEF FlowType, Alike
<1> QED
  BY <1>1, <1>2, <1>3, <1>4, <1>5

LEMMA CoreReplaced ==
  ASSUME NEW f \in FlowType
  PROVE  /\ \A v \in Nat : [f EXCEPT !.generation = v] \in FlowType
         /\ \A v \in Nat : /\ [f EXCEPT !.phoneGeneration = v] \in FlowType
                           /\ AlikeOrder(f, [f EXCEPT !.phoneGeneration = v])
         /\ \A v \in Nat \cup {None} : [f EXCEPT !.quote = v] \in FlowType
         /\ \A v \in BOOLEAN : [f EXCEPT !.pending = v] \in FlowType
         /\ \A v \in AnswerType \cup {None} : [f EXCEPT !.order = v] \in FlowType
         /\ \A v \in [phone : Nat, order : Nat \cup {None}] \cup {None} :
               /\ [f EXCEPT !.prepared = v] \in FlowType
               /\ AlikeOrder(f, [f EXCEPT !.prepared = v])
<1>1. /\ \A v \in Nat : [f EXCEPT !.generation = v] \in FlowType
      /\ \A v \in Nat : /\ [f EXCEPT !.phoneGeneration = v] \in FlowType
                        /\ AlikeOrder(f, [f EXCEPT !.phoneGeneration = v])
  BY DEF FlowType, AlikeOrder
<1>2. /\ \A v \in Nat \cup {None} : [f EXCEPT !.quote = v] \in FlowType
      /\ \A v \in BOOLEAN : [f EXCEPT !.pending = v] \in FlowType
  BY DEF FlowType
<1>3. \A v \in AnswerType \cup {None} : [f EXCEPT !.order = v] \in FlowType
  BY DEF FlowType
<1>4. \A v \in [phone : Nat, order : Nat \cup {None}] \cup {None} :
        /\ [f EXCEPT !.prepared = v] \in FlowType
        /\ AlikeOrder(f, [f EXCEPT !.prepared = v])
  BY DEF FlowType, AlikeOrder
<1> QED
  BY <1>1, <1>2, <1>3, <1>4

LEMMA Cancelled ==
  ASSUME NEW f \in FlowType
  PROVE  /\ CancelPhone(f) \in FlowType /\ AlikeOrder(f, CancelPhone(f))
         /\ CancelPhone(f).phoneGeneration = f.phoneGeneration + 1
         /\ CancelPhone(f).prepared = f.prepared
<1> DEFINE g == [f EXCEPT !.phoneGeneration = f.phoneGeneration + 1]
<1>1. f.phoneGeneration + 1 \in Nat
  BY FlowParts
<1>2. g \in FlowType /\ AlikeOrder(f, g)
  BY <1>1, CoreReplaced
<1>3. g.phoneGeneration = f.phoneGeneration + 1 /\ g.prepared = f.prepared
  BY DEF FlowType
<1>4. CancelPhone(f) = [g EXCEPT !.phone = None]
  BY DEF CancelPhone
<1> HIDE DEF g
<1>5. [g EXCEPT !.phone = None] \in FlowType /\ Alike(g, [g EXCEPT !.phone = None])
  BY <1>2, DisplayReplaced
<1>6. CancelPhone(f) \in FlowType /\ Alike(g, CancelPhone(f))
  BY <1>4, <1>5, Zenon
<1> QED
  BY <1>2, <1>3, <1>6 DEF Alike, AlikeOrder

\* The phone request and the prepared proof are gone.
LEMMA Dropped ==
  ASSUME NEW f \in FlowType
  PROVE  LET g == [CancelPhone(f) EXCEPT !.prepared = None] IN
         /\ g \in FlowType /\ AlikeOrder(f, g) /\ g.prepared = None
         /\ g.phoneGeneration = f.phoneGeneration + 1
<1> DEFINE c == CancelPhone(f)
<1>1. c \in FlowType /\ AlikeOrder(f, c) /\ c.phoneGeneration = f.phoneGeneration + 1
  BY Cancelled
<1> HIDE DEF c
<1>2. /\ [c EXCEPT !.prepared = None] \in FlowType
      /\ AlikeOrder(c, [c EXCEPT !.prepared = None])
  BY <1>1, CoreReplaced
<1>3. /\ [c EXCEPT !.prepared = None].prepared = None
      /\ [c EXCEPT !.prepared = None].phoneGeneration = c.phoneGeneration
  BY <1>1 DEF FlowType
<1> QED
  BY <1>1, <1>2, <1>3 DEF AlikeOrder, c

LEMMA Requoted ==
  ASSUME NEW f \in FlowType, NEW v \in Nat \cup {None}
  PROVE  LET g == [f EXCEPT !.quote = v, !.beneficiary = None] IN
         /\ g \in FlowType /\ g.quote = v
         /\ g.generation = f.generation /\ g.phoneGeneration = f.phoneGeneration
         /\ g.order = f.order /\ g.pending = f.pending /\ g.prepared = f.prepared
<1> DEFINE g == [f EXCEPT !.quote = v]
<1>1. g \in FlowType
  BY CoreReplaced
<1>2. /\ g.quote = v
      /\ g.generation = f.generation /\ g.phoneGeneration = f.phoneGeneration
      /\ g.order = f.order /\ g.pending = f.pending /\ g.prepared = f.prepared
  BY DEF FlowType
<1> HIDE DEF g
<1>3. /\ [g EXCEPT !.beneficiary = None] \in FlowType
      /\ Alike(g, [g EXCEPT !.beneficiary = None])
  BY <1>1, DisplayReplaced DEF With
<1> QED
  BY <1>2, <1>3 DEF Alike, g

LEMMA Pended ==
  ASSUME NEW f \in FlowType, NEW v \in BOOLEAN
  PROVE  LET g == [f EXCEPT !.pending = v] IN
         /\ g \in FlowType /\ g.pending = v
         /\ g.generation = f.generation /\ g.phoneGeneration = f.phoneGeneration
         /\ g.order = f.order /\ g.quote = f.quote /\ g.prepared = f.prepared
<1>1. [f EXCEPT !.pending = v] \in FlowType
  BY CoreReplaced
<1> QED
  BY <1>1 DEF FlowType

LEMMA NewSession ==
  ASSUME NEW f \in FlowType
  PROVE  /\ NoSession(f) \in FlowType /\ NoSession(f).generation = f.generation + 1
         /\ NoSession(f).phoneGeneration = f.phoneGeneration + 1
         /\ NoSession(f).order = None /\ NoSession(f).quote = None
         /\ NoSession(f).pending = FALSE /\ NoSession(f).prepared = None
<1> DEFINE c == CancelPhone(f)
<1>1. c \in FlowType /\ AlikeOrder(f, c) /\ c.phoneGeneration = f.phoneGeneration + 1
  BY Cancelled
<1>2. f.generation + 1 \in Nat /\ c.generation = f.generation
  BY <1>1, FlowParts DEF AlikeOrder
<1>3. NoSession(f) = [c EXCEPT !.generation = @ + 1, !.token = None, !.wallet = None,
        !.quote = None, !.order = None, !.prepared = None, !.screening = None,
        !.pending = FALSE, !.beneficiary = None, !.ready = FALSE]
  BY DEF NoSession
<1> HIDE DEF c
<1>4. NoSession(f) \in FlowType
  <2>1. /\ c.info \in BOOLEAN /\ c.closed \in BOOLEAN /\ c.generation + 1 \in Nat
        /\ c.phoneGeneration \in Nat /\ c.direction \in {"deposit", "withdrawal"}
        /\ c.phone \in Nat \cup {None}
    BY <1>1, <1>2 DEF FlowType
  <2>2. NoSession(f) =
          [info |-> c.info, closed |-> c.closed, generation |-> c.generation + 1,
           phoneGeneration |-> c.phoneGeneration, token |-> None, wallet |-> None,
           ready |-> FALSE, screening |-> None, direction |-> c.direction,
           quote |-> None, beneficiary |-> None, pending |-> FALSE, order |-> None,
           phone |-> c.phone, prepared |-> None]
    BY <1>1, <1>3 DEF FlowType
  <2> QED
    BY <2>1, <2>2 DEF FlowType, With
<1>5. /\ NoSession(f).generation = f.generation + 1
      /\ NoSession(f).phoneGeneration = c.phoneGeneration
      /\ NoSession(f).order = None /\ NoSession(f).quote = None
      /\ NoSession(f).pending = FALSE /\ NoSession(f).prepared = None
  BY <1>1, <1>2, <1>3 DEF FlowType
<1> QED
  BY <1>1, <1>4, <1>5

LEMMA Shown ==
  ASSUME NEW f \in FlowType, NEW a \in AnswerType
  PROVE  LET g == AcceptOrder(f, a) IN
         /\ g \in FlowType /\ g.generation = f.generation
         /\ g.order = a /\ g.pending = f.pending /\ g.quote \in {f.quote, None}
         /\ \/ g.phoneGeneration > f.phoneGeneration /\ g.prepared = None
            \/ /\ f.order # None /\ f.order.id = a.id
               /\ g.phoneGeneration = f.phoneGeneration /\ g.prepared = f.prepared
<1> DEFINE other == IF f.order = None \/ f.order.id # a.id
                    THEN [CancelPhone(f) EXCEPT !.prepared = None] ELSE f
           fresh == IF Proven(other, a) THEN [CancelPhone(other) EXCEPT !.prepared = None]
                    ELSE other
           shown == [fresh EXCEPT !.order = a]
           faced == [shown EXCEPT !.direction = a.o.direction]
<1>1. /\ other \in FlowType /\ AlikeOrder(f, other)
      /\ \/ other.phoneGeneration = f.phoneGeneration + 1 /\ other.prepared = None
         \/ /\ f.order # None /\ f.order.id = a.id
            /\ other.phoneGeneration = f.phoneGeneration /\ other.prepared = f.prepared
  BY Dropped DEF AlikeOrder
<1> HIDE DEF other
<1>2. /\ fresh \in FlowType /\ AlikeOrder(other, fresh)
      /\ \/ fresh.phoneGeneration = other.phoneGeneration + 1 /\ fresh.prepared = None
         \/ fresh.phoneGeneration = other.phoneGeneration /\ fresh.prepared = other.prepared
  BY <1>1, Dropped DEF AlikeOrder
<1> HIDE DEF fresh
<1>3. shown \in FlowType
  BY <1>2, CoreReplaced
<1>4. /\ shown.order = a /\ shown.generation = fresh.generation
      /\ shown.phoneGeneration = fresh.phoneGeneration /\ shown.prepared = fresh.prepared
      /\ shown.quote = fresh.quote /\ shown.pending = fresh.pending
  BY <1>2 DEF FlowType
<1> HIDE DEF shown
<1>5. a.o.direction \in {"deposit", "withdrawal"}
  BY DEF AnswerType, OrderType
<1>6. faced \in FlowType /\ Alike(shown, faced)
  BY <1>3, <1>5, DisplayReplaced
<1> HIDE DEF faced
<1>7. AcceptOrder(f, a) = [faced EXCEPT !.quote = IF @ = a.o.quote THEN @ ELSE None]
  BY DEF AcceptOrder, other, fresh, shown, faced
<1>8. PICK v \in {faced.quote, None} : AcceptOrder(f, a) = [faced EXCEPT !.quote = v]
  BY <1>7
<1>9. v \in Nat \cup {None}
  BY <1>6, FlowParts
<1>10. [faced EXCEPT !.quote = v] \in FlowType
  BY <1>6, <1>9, CoreReplaced
<1>11. /\ AcceptOrder(f, a) \in FlowType /\ AcceptOrder(f, a).quote = v
       /\ AcceptOrder(f, a).order = faced.order
       /\ AcceptOrder(f, a).generation = faced.generation
       /\ AcceptOrder(f, a).phoneGeneration = faced.phoneGeneration
       /\ AcceptOrder(f, a).prepared = faced.prepared
       /\ AcceptOrder(f, a).pending = faced.pending
  BY <1>6, <1>8, <1>10 DEF FlowType
<1>12. f.phoneGeneration \in Nat /\ other.phoneGeneration \in Nat
  BY <1>1, FlowParts
<1> QED
  BY <1>1, <1>2, <1>4, <1>6, <1>8, <1>11, <1>12 DEF Alike, AlikeOrder

LEMMA FailingAlike ==
  ASSUME NEW f \in FlowType
  PROVE  Failing(f) \in FlowType /\ Alike(f, Failing(f))
<1>1. /\ [f EXCEPT !.token = None] \in FlowType /\ Alike(f, [f EXCEPT !.token = None])
      /\ [f EXCEPT !.screening = "unavailable"] \in FlowType
      /\ Alike(f, [f EXCEPT !.screening = "unavailable"])
  BY DisplayReplaced DEF With
<1> QED
  BY <1>1 DEF Failing, Alike

-----------------------------------------------------------------------------
\* The anchor.

\* The anchor forgets nothing: orders and quotes stay, orders go forward, and no
\* quote becomes good again.
Grows ==
    /\ desk' \in DeskType
    /\ Quoting \subseteq Quoting' /\ Ordering \subseteq Ordering'
    /\ \A n \in Ordering :
          /\ desk'.orders[n].session = desk.orders[n].session
          /\ desk'.orders[n].quote = desk.orders[n].quote
          /\ desk'.orders[n].step >= desk.orders[n].step
    /\ \A q \in Quoting : Dead(q) => Dead(q)'
\* An order is opened for a request, whose quote had none and was still good.
Opens(r, n) ==
    /\ ~Settled(r.order)
    /\ n \notin Ordering /\ Ordering' = Ordering \cup {n}
    /\ desk'.orders[n].quote = r.order /\ desk'.orders[n].session = r.session

LEMMA DeskParts ==
  ASSUME desk \in DeskType
  PROVE  /\ desk.quotes \in Seq(QuoteType) /\ desk.orders \in Seq(OrderType)
         /\ desk.policy \in BOOLEAN
         /\ Len(desk.orders) \in Nat /\ Ordering = 1..Len(desk.orders) /\ Ordering \subseteq Nat
         /\ Len(desk.quotes) \in Nat /\ Quoting = 1..Len(desk.quotes) /\ Quoting \subseteq Nat
         /\ \A n \in Ordering :
               /\ desk.orders[n] \in OrderType /\ desk.orders[n].step \in Nat
               /\ desk.orders[n].session \in Nat /\ desk.orders[n].quote \in Nat
         /\ \A q \in Quoting : desk.quotes[q] \in QuoteType
<1>1. /\ desk.quotes \in Seq(QuoteType) /\ desk.orders \in Seq(OrderType)
      /\ desk.policy \in BOOLEAN
  BY DEF DeskType
<1>2. /\ Len(desk.orders) \in Nat /\ Ordering = 1..Len(desk.orders)
      /\ Len(desk.quotes) \in Nat /\ Quoting = 1..Len(desk.quotes)
  BY <1>1, LenProperties DEF Ordering, Quoting
<1>3. /\ \A n \in Ordering : desk.orders[n] \in OrderType
      /\ \A q \in Quoting : desk.quotes[q] \in QuoteType
  BY <1>1, ElementOfSeq DEF Ordering, Quoting
<1>4. \A o \in OrderType : o.step \in Nat /\ o.session \in Nat /\ o.quote \in Nat
  BY DEF OrderType
<1> QED
  BY <1>1, <1>2, <1>3, <1>4

LEMMA GrowsAlready ==
  ASSUME desk \in DeskType, desk' = desk
  PROVE  Grows /\ Ordering' = Ordering
<1>1. \A n \in Ordering : desk.orders[n].step >= desk.orders[n].step
  BY DeskParts
<1>2. Ordering' = Ordering /\ Quoting' = Quoting
  BY DEF Ordering, Quoting
<1> QED
  BY <1>1, <1>2 DEF Grows, Dead

LEMMA AnswerTyped ==
  ASSUME desk \in DeskType, NEW n \in Ordering
  PROVE  /\ Answer(desk, n) \in AnswerType /\ Answer(desk, n).is = "order"
         /\ Answer(desk, n).id = n /\ Answer(desk, n).o = desk.orders[n]
  BY DeskParts DEF Answer, AnswerType

LEMMA ReservedParts ==
  ASSUME desk \in DeskType, NEW r \in RequestType, r.order \in Quoting,
         desk' = Reserved(r).desk
  PROVE  /\ Grows
         /\ \/ /\ desk' = desk /\ Reserved(r).reply \in AnswerType
               /\ Reserved(r).reply.is = "order" /\ Reserved(r).reply.id \in Ordering
               /\ Reserved(r).reply.o = desk.orders[Reserved(r).reply.id]
               /\ desk.orders[Reserved(r).reply.id].quote = r.order
            \/ /\ desk' = desk /\ Reserved(r).reply = Says("quote_expired")
               /\ Dead(r.order) /\ ~HasOrder(r.order)
            \/ /\ Reserved(r).reply \in AnswerType /\ Reserved(r).reply.is = "order"
               /\ Opens(r, Reserved(r).reply.id)
               /\ Reserved(r).reply.o = desk'.orders[Reserved(r).reply.id]
               /\ \A n \in Ordering : desk'.orders[n] = desk.orders[n]
<1> DEFINE same == {n \in DOMAIN desk.orders : desk.orders[n].quote = r.order}
           o    == [quote |-> r.order, wallet |-> desk.quotes[r.order].wallet,
                    beneficiary |-> r.with, direction |-> desk.quotes[r.order].direction,
                    step |-> 1, pending |-> {}, proofs |-> {}, session |-> r.session]
           new  == [desk EXCEPT !.orders = Append(@, o)]
<1>1. CASE same # {}
  <2>1. PICK n \in Ordering : n = (CHOOSE m \in same : TRUE) /\ desk.orders[n].quote = r.order
    BY <1>1 DEF Ordering
  <2>2. Reserved(r) = [desk |-> desk, reply |-> Answer(desk, n)]
    BY <1>1, <2>1 DEF Reserved
  <2>3. desk' = desk /\ Reserved(r).reply = Answer(desk, n)
    BY <2>2
  <2>4. Grows
    BY <2>3, GrowsAlready
  <2>5. /\ Answer(desk, n) \in AnswerType /\ Answer(desk, n).is = "order"
        /\ Answer(desk, n).id = n /\ Answer(desk, n).o = desk.orders[n]
    BY AnswerTyped
  <2> QED
    BY <2>1, <2>3, <2>4, <2>5
<1>2. CASE same = {} /\ (~desk.quotes[r.order].live \/ ~desk.policy)
  <2>1. Reserved(r) = [desk |-> desk, reply |-> Says("quote_expired")]
    BY <1>2 DEF Reserved
  <2>2. ~HasOrder(r.order)
    BY <1>2 DEF HasOrder, Ordering
  <2> QED
    BY <1>2, <2>1, <2>2, GrowsAlready DEF Dead
<1>3. CASE same = {} /\ ~(~desk.quotes[r.order].live \/ ~desk.policy)
  <2>1. Reserved(r) = [desk |-> new, reply |-> Answer(new, Len(new.orders))]
    BY <1>3 DEF Reserved
  <2>2. o \in OrderType
    <3>1. desk.quotes[r.order] \in QuoteType
      BY DeskParts
    <3>2. /\ desk.quotes[r.order].wallet \in With
          /\ desk.quotes[r.order].direction \in {"deposit", "withdrawal"}
      BY <3>1 DEF QuoteType
    <3>3. r.order \in Nat /\ r.with \in With /\ r.session \in Nat /\ None \in With
      BY DEF RequestType, With
    <3> QED
      BY <3>2, <3>3 DEF OrderType
  <2>3. o.quote = r.order /\ o.session = r.session
    OBVIOUS
  <2>4. ~Settled(r.order)
    BY <1>3 DEF Settled, Dead, HasOrder, Ordering
  <2> HIDE DEF o
  <2>5. PICK k \in Nat : k = Len(desk.orders) /\ Ordering = 1..k
    BY DeskParts
  <2>6. new.orders = Append(desk.orders, o) /\ new.quotes = desk.quotes /\ new.policy = desk.policy
    BY DEF DeskType
  <2>7. /\ new.orders \in Seq(OrderType) /\ Len(new.orders) = k + 1
        /\ \A n \in 1..k : new.orders[n] = desk.orders[n]
        /\ new.orders[k + 1] = o
    BY <2>2, <2>5, <2>6, DeskParts, AppendProperties
  <2>8. new \in DeskType
    BY <2>7 DEF DeskType
  <2> HIDE DEF new
  <2>9. desk' = new
    BY <2>1
  <2>10. Ordering' = 1..(k + 1) /\ Quoting' = Quoting
    BY <2>6, <2>7, <2>9, LenProperties DEF Ordering, Quoting
  <2>11. k + 1 \notin Ordering /\ Ordering' = Ordering \cup {k + 1}
    BY <2>5, <2>10
  <2>12. Grows
    <3>1. \A q : Dead(q) => Dead(q)'
      BY <2>6, <2>9 DEF Dead
    <3>2. \A n \in Ordering : desk'.orders[n] = desk.orders[n] /\ desk.orders[n].step \in Nat
      BY <2>5, <2>7, <2>9, DeskParts
    <3> QED
      BY <2>8, <2>9, <2>10, <2>11, <3>1, <3>2 DEF Grows
  <2>13. Reserved(r).reply = [is |-> "order", id |-> k + 1, o |-> o]
    BY <2>1, <2>7 DEF Answer
  <2>14. /\ Reserved(r).reply \in AnswerType /\ Reserved(r).reply.is = "order"
         /\ Reserved(r).reply.id = k + 1 /\ Reserved(r).reply.o = desk'.orders[k + 1]
    BY <2>2, <2>5, <2>7, <2>9, <2>13 DEF AnswerType
  <2> QED
    BY <2>3, <2>4, <2>5, <2>7, <2>9, <2>11, <2>12, <2>14 DEF Opens
<1> QED
  BY <1>1, <1>2, <1>3

\* A change of one order that keeps its key and session and does not set it back.
LEMMA GrowsByOne ==
  ASSUME desk \in DeskType, NEW n \in Ordering, NEW o \in OrderType,
         desk' = [desk EXCEPT !.orders = [desk.orders EXCEPT ![n] = o]],
         o.quote = desk.orders[n].quote, o.session = desk.orders[n].session,
         o.step >= desk.orders[n].step
  PROVE  Grows /\ Ordering' = Ordering /\ desk'.orders[n] = o
<1>1. /\ desk'.orders = [desk.orders EXCEPT ![n] = o]
      /\ desk'.quotes = desk.quotes /\ desk'.policy = desk.policy
  BY DEF DeskType
<1>2. /\ [desk.orders EXCEPT ![n] = o] \in Seq(OrderType)
      /\ DOMAIN [desk.orders EXCEPT ![n] = o] = Ordering
      /\ \A m \in Ordering : [desk.orders EXCEPT ![n] = o][m] = IF m = n THEN o ELSE desk.orders[m]
  BY DeskParts, ExceptSeq DEF Ordering
<1>3. desk' \in DeskType
  <2>1. desk' = [quotes |-> desk.quotes, orders |-> desk'.orders, policy |-> desk.policy]
    BY <1>1 DEF DeskType
  <2> QED
    BY <1>1, <1>2, <2>1, DeskParts DEF DeskType
<1>4. Ordering' = Ordering /\ Quoting' = Quoting
  BY <1>1, <1>2 DEF Ordering, Quoting
<1>5. \A q : Dead(q) => Dead(q)'
  BY <1>1 DEF Dead
<1>6. \A m \in Ordering : desk.orders[m].step >= desk.orders[m].step
  BY DeskParts
<1> QED
  BY <1>1, <1>2, <1>3, <1>4, <1>5, <1>6 DEF Grows

LEMMA AdvancedParts ==
  ASSUME desk \in DeskType, NEW r \in RequestType, r.order \in Ordering, r.kind # "reserve",
         desk' = Advanced(r).desk
  PROVE  /\ Grows /\ Ordering' = Ordering
         /\ \/ Advanced(r).reply = Says("refused")
            \/ /\ Advanced(r).reply \in AnswerType /\ Advanced(r).reply.is = "order"
               /\ Advanced(r).reply.id = r.order
               /\ Advanced(r).reply.o = desk'.orders[r.order]
<1> DEFINE o   == desk.orders[r.order]
           p   == [kind |-> r.kind, with |-> r.with]
           new == [desk EXCEPT !.orders[r.order].pending = @ \cup {p}]
<1>1. \/ Advanced(r) = [desk |-> new, reply |-> Answer(new, r.order)]
      \/ Advanced(r) = [desk |-> desk, reply |-> Answer(desk, r.order)]
      \/ Advanced(r) = [desk |-> desk, reply |-> Says("refused")]
  BY DEF Advanced
<1>2. o \in OrderType /\ o.step \in Nat /\ r.order \in Nat
  BY DeskParts DEF RequestType
<1>3. CASE Advanced(r) = [desk |-> new, reply |-> Answer(new, r.order)]
  <2>1. PICK e : e = [o EXCEPT !.pending = @ \cup {p}]
    OBVIOUS
  <2>2. p \in [kind : {"sign", "authorize", "bank", "settle"}, with : With]
    BY DEF RequestType, Posts
  <2>3. e \in OrderType /\ e.quote = o.quote /\ e.session = o.session /\ e.step = o.step
    <3> HIDE DEF o, p
    <3> QED
      BY <1>2, <2>1, <2>2 DEF OrderType
  <2>4. new = [desk EXCEPT !.orders = [desk.orders EXCEPT ![r.order] = e]]
    BY <2>1
  <2>5. desk' = [desk EXCEPT !.orders = [desk.orders EXCEPT ![r.order] = e]]
    BY <1>3, <2>4
  <2>6. Grows /\ Ordering' = Ordering /\ desk'.orders[r.order] = e
    BY <1>2, <2>3, <2>5, GrowsByOne
  <2>7. Advanced(r).reply = [is |-> "order", id |-> r.order, o |-> e]
    <3>1. desk' = new /\ Advanced(r).reply = Answer(new, r.order)
      BY <1>3
    <3> HIDE DEF new
    <3> QED
      BY <2>6, <3>1 DEF Answer
  <2> QED
    BY <1>2, <2>3, <2>6, <2>7 DEF AnswerType
<1>4. CASE Advanced(r) = [desk |-> desk, reply |-> Answer(desk, r.order)]
  <2>1. desk' = desk /\ Advanced(r).reply = [is |-> "order", id |-> r.order, o |-> o]
    BY <1>4 DEF Answer
  <2> HIDE DEF o
  <2>2. Advanced(r).reply \in AnswerType
    BY <1>2, <2>1 DEF AnswerType
  <2> QED
    BY <2>1, <2>2, GrowsAlready DEF o
<1>5. CASE Advanced(r) = [desk |-> desk, reply |-> Says("refused")]
  BY <1>5, GrowsAlready
<1> QED
  BY <1>1, <1>3, <1>4, <1>5

LEMMA ConfirmsGrows ==
  ASSUME desk \in DeskType, NEW n \in Ordering, Confirms(n)
  PROVE  Grows /\ Ordering' = Ordering
<1> DEFINE o == desk.orders[n]
<1>1. o \in OrderType /\ o.step \in Nat
  BY DeskParts
<1>2. CASE o.step = 1 /\ desk' = [desk EXCEPT !.orders[n].step = 2]
  <2>1. PICK e : e = [o EXCEPT !.step = 2]
    OBVIOUS
  <2>2. desk' = [desk EXCEPT !.orders = [desk.orders EXCEPT ![n] = e]]
    BY <1>2, <2>1
  <2>3. e \in OrderType /\ e.quote = o.quote /\ e.session = o.session /\ e.step >= o.step
    <3>1. o.step = 1
      BY <1>2
    <3> HIDE DEF o
    <3> QED
      BY <1>1, <2>1, <3>1 DEF OrderType
  <2> QED
    BY <2>2, <2>3, GrowsByOne
<1>3. ASSUME NEW p \in o.pending,
             desk' = [desk EXCEPT !.orders[n] =
                [o EXCEPT !.pending = @ \ {p},
                          !.proofs = IF p.kind = "sign" THEN @ \cup {p.with} ELSE @,
                          !.step = IF p.kind = "sign" /\ @ > 2 THEN @ ELSE @ + 1]]
      PROVE  Grows /\ Ordering' = Ordering
  <2>1. PICK w \in SUBSET With : w = IF p.kind = "sign" THEN o.proofs \cup {p.with} ELSE o.proofs
    BY <1>1 DEF OrderType
  <2>2. PICK s \in Nat : /\ s = IF p.kind = "sign" /\ o.step > 2 THEN o.step ELSE o.step + 1
                         /\ s >= o.step
    BY <1>1
  <2>3. PICK e : e = [o EXCEPT !.pending = @ \ {p}, !.proofs = w, !.step = s]
    OBVIOUS
  <2>4. desk' = [desk EXCEPT !.orders = [desk.orders EXCEPT ![n] = e]]
    BY <1>3, <2>1, <2>2, <2>3
  <2>5. e \in OrderType /\ e.quote = o.quote /\ e.session = o.session /\ e.step >= o.step
    <3> HIDE DEF o
    <3> QED
      BY <1>1, <2>2, <2>3 DEF OrderType
  <2> QED
    BY <2>4, <2>5, GrowsByOne
<1>4. ASSUME NEW p, desk' = [desk EXCEPT !.orders[n].pending = @ \ {p}]
      PROVE  Grows /\ Ordering' = Ordering
  <2>1. PICK e : e = [o EXCEPT !.pending = @ \ {p}]
    OBVIOUS
  <2>2. desk' = [desk EXCEPT !.orders = [desk.orders EXCEPT ![n] = e]]
    BY <1>4, <2>1
  <2>3. e \in OrderType /\ e.quote = o.quote /\ e.session = o.session /\ e.step >= o.step
    <3> HIDE DEF o
    <3> QED
      BY <1>1, <2>1 DEF OrderType
  <2> QED
    BY <2>2, <2>3, GrowsByOne
<1> QED
  BY <1>2, <1>3, <1>4 DEF Confirms

LEMMA ExpiresGrows ==
  ASSUME desk \in DeskType, Expires
  PROVE  Grows /\ Ordering' = Ordering
<1>1. \A n \in Ordering : desk.orders[n].step >= desk.orders[n].step
  BY DeskParts
<1>2. CASE desk' = [desk EXCEPT !.quotes = [q \in DOMAIN @ |-> [@[q] EXCEPT !.live = FALSE]]]
  <2> DEFINE spent == [q \in Quoting |-> [desk.quotes[q] EXCEPT !.live = FALSE]]
  <2>1. /\ desk'.quotes = spent /\ desk'.orders = desk.orders /\ desk'.policy = desk.policy
        /\ desk' = [quotes |-> spent, orders |-> desk.orders, policy |-> desk.policy]
    BY <1>2 DEF DeskType, Quoting
  <2>2. \A q \in Quoting : [desk.quotes[q] EXCEPT !.live = FALSE] \in QuoteType
    BY DeskParts DEF QuoteType
  <2>3. spent \in Seq(QuoteType)
    <3>1. PICK k \in Nat : Quoting = 1..k
      BY DeskParts
    <3>2. spent \in [1..k -> QuoteType]
      BY <2>2, <3>1
    <3> HIDE DEF spent
    <3> QED
      BY <3>2, SeqDef
  <2>4. \A q \in Quoting : ~spent[q].live
    BY DeskParts DEF QuoteType
  <2>5. DOMAIN spent = Quoting
    OBVIOUS
  <2> HIDE DEF spent
  <2>6. desk' \in DeskType
    BY <2>1, <2>3, DeskParts DEF DeskType
  <2>7. Ordering' = Ordering /\ Quoting' = Quoting
    BY <2>1, <2>5 DEF Ordering, Quoting
  <2>8. \A q \in Quoting : Dead(q)'
    BY <2>1, <2>4 DEF Dead
  <2> QED
    BY <1>1, <2>1, <2>6, <2>7, <2>8 DEF Grows
<1>3. CASE desk' = [desk EXCEPT !.policy = FALSE]
  <2>1. /\ desk'.quotes = desk.quotes /\ desk'.orders = desk.orders /\ desk'.policy = FALSE
        /\ desk' = [quotes |-> desk.quotes, orders |-> desk.orders, policy |-> FALSE]
    BY <1>3 DEF DeskType
  <2>2. desk' \in DeskType
    BY <2>1, DeskParts DEF DeskType
  <2>3. Ordering' = Ordering /\ Quoting' = Quoting
    BY <2>1 DEF Ordering, Quoting
  <2> QED
    BY <1>1, <2>1, <2>2, <2>3 DEF Grows, Dead
<1> QED
  BY <1>2, <1>3 DEF Expires

LEMMA QuotesGrows ==
  ASSUME desk \in DeskType, NEW q \in QuoteType, desk' = [desk EXCEPT !.quotes = Append(@, q)]
  PROVE  Grows /\ Ordering' = Ordering /\ Len(desk.quotes) + 1 \in Quoting'
<1>1. \A n \in Ordering : desk.orders[n].step >= desk.orders[n].step
  BY DeskParts
<1>2. PICK k \in Nat : k = Len(desk.quotes) /\ Quoting = 1..k
  BY DeskParts
<1>3. /\ desk'.quotes = Append(desk.quotes, q) /\ desk'.orders = desk.orders
      /\ desk'.policy = desk.policy
      /\ desk' = [quotes |-> desk'.quotes, orders |-> desk.orders, policy |-> desk.policy]
  BY DEF DeskType
<1>4. /\ desk'.quotes \in Seq(QuoteType) /\ Len(desk'.quotes) = k + 1
      /\ \A m \in 1..k : desk'.quotes[m] = desk.quotes[m]
  BY <1>2, <1>3, DeskParts, AppendProperties
<1>5. desk' \in DeskType
  BY <1>3, <1>4, DeskParts DEF DeskType
<1>6. Quoting' = 1..(k + 1) /\ Ordering' = Ordering
  BY <1>3, <1>4, LenProperties DEF Quoting, Ordering
<1>7. Quoting \subseteq Quoting' /\ k + 1 \in Quoting'
  BY <1>2, <1>6
<1>8. \A m \in Quoting : Dead(m) => Dead(m)'
  BY <1>2, <1>3, <1>4 DEF Dead
<1> QED
  BY <1>1, <1>2, <1>3, <1>5, <1>6, <1>7, <1>8 DEF Grows

-----------------------------------------------------------------------------
\* What every step keeps of the basics.

\* Sessions and phone requests are never taken up again, and what the page shows is
\* what it showed, or what the anchor has.
Forward ==
    /\ flow' \in FlowType
    /\ flow'.generation >= flow.generation
    /\ flow'.phoneGeneration >= flow.phoneGeneration
    /\ flow'.quote # None => flow'.quote = flow.quote \/ flow'.quote \in Quoting'
    /\ flow'.order # None => flow'.order = flow.order \/ flow'.order.id \in Ordering'
\* Requests to the phone at most moved on.
SameCallbacks ==
    /\ callbacks' \in Seq(CallbackType)
    /\ DOMAIN callbacks' = DOMAIN callbacks /\ Len(callbacks') = Len(callbacks)
    /\ \A id \in DOMAIN callbacks :
          /\ callbacks'[id].session = callbacks[id].session
          /\ callbacks'[id].generation = callbacks[id].generation
          /\ callbacks'[id].order = callbacks[id].order

LEMMA BasicsParts ==
  ASSUME Basics
  PROVE  /\ flow \in FlowType /\ flow.generation \in Nat /\ flow.phoneGeneration \in Nat
         /\ flow.order \in AnswerType \cup {None} /\ flow.quote \in Nat \cup {None}
         /\ flow.pending \in BOOLEAN
         /\ flow.order # None => flow.order.id \in Ordering
         /\ flow.quote # None => flow.quote \in Quoting
         /\ desk \in DeskType /\ callbacks \in Seq(CallbackType) /\ freighter \in Wallets
  BY FlowParts DEF Basics, FlowOK, CallbacksOK, DeskOK

LEMMA CallbacksParts ==
  ASSUME callbacks \in Seq(CallbackType)
  PROVE  /\ Len(callbacks) \in Nat /\ DOMAIN callbacks = 1..Len(callbacks)
         /\ \A id \in DOMAIN callbacks :
               /\ callbacks[id] \in CallbackType /\ callbacks[id].session \in Nat
               /\ callbacks[id].generation \in Nat /\ callbacks[id].order \in Nat \cup {None}
<1>1. Len(callbacks) \in Nat /\ DOMAIN callbacks = 1..Len(callbacks)
  BY LenProperties
<1>2. \A id \in DOMAIN callbacks : callbacks[id] \in CallbackType
  BY ElementOfSeq
<1> QED
  BY <1>1, <1>2 DEF CallbackType

LEMMA ForwardAlike ==
  ASSUME Basics, flow' \in FlowType, AlikeOrder(flow, flow'),
         flow'.phoneGeneration >= flow.phoneGeneration
  PROVE  Forward
  BY BasicsParts DEF Forward, AlikeOrder

LEMMA ForwardSame ==
  ASSUME Basics, Alike(flow, flow'), flow' \in FlowType
  PROVE  Forward /\ AlikeOrder(flow, flow')
  BY BasicsParts DEF Forward, Alike, AlikeOrder

LEMMA CallbackMoves ==
  ASSUME Basics, NEW id \in DOMAIN callbacks, NEW s \in {"ready", "proof", "prepared", "done"},
         Callback(id, s)
  PROVE  SameCallbacks
<1>1. callbacks \in Seq(CallbackType) /\ callbacks[id] \in CallbackType
  BY BasicsParts, CallbacksParts
<1>2. PICK c : c = [callbacks[id] EXCEPT !.step = s]
  OBVIOUS
<1>3. /\ c \in CallbackType /\ c.session = callbacks[id].session
      /\ c.generation = callbacks[id].generation /\ c.order = callbacks[id].order
  BY <1>1, <1>2 DEF CallbackType
<1>4. callbacks' = [callbacks EXCEPT ![id] = c]
  BY <1>2 DEF Callback
<1>5. /\ callbacks' \in Seq(CallbackType) /\ Len(callbacks') = Len(callbacks)
      /\ DOMAIN callbacks' = DOMAIN callbacks
      /\ \A i \in DOMAIN callbacks : callbacks'[i] = IF i = id THEN c ELSE callbacks[i]
  <2>1. DOMAIN callbacks = 1..Len(callbacks)
    BY <1>1, CallbacksParts
  <2> QED
    BY <1>1, <1>3, <1>4, <2>1, ExceptSeq
<1> QED
  BY <1>3, <1>5 DEF SameCallbacks

LEMMA CallbacksRest ==
  ASSUME Basics, callbacks' = callbacks
  PROVE  SameCallbacks
  BY BasicsParts DEF SameCallbacks

LEMMA TaskStays ==
  ASSUME Basics, Forward, Grows, task' \in {task, None}, glance = None => glance' = None
  PROVE  TaskOK'
<1> SUFFICES ASSUME task' # None PROVE TaskOK'
  BY DEF TaskOK
<1>1. task' = task /\ task # None /\ TaskOK
  BY DEF Basics
<1>2. task \in TaskType /\ task.session \in Nat
  BY <1>1 DEF TaskOK, TaskType
<1>3. task.session <= flow'.generation
  BY <1>1, <1>2, BasicsParts DEF TaskOK, Forward, FlowType
<1>4. Quoting \subseteq Quoting' /\ Ordering \subseteq Ordering'
  BY DEF Grows
<1>5. /\ task.kind = "reserve" /\ task.step = "asked" => task.order \in Quoting'
      /\ task.kind \in Acts /\ task.step \in {"sign", "asked"} => task.order \in Ordering'
      /\ task.kind = "refresh" => task.with \in Ordering'
      /\ task.step # "begin" => glance' = None
      /\ task.step # "asked" => task.reply = None
      /\ task.reply # None =>
              /\ task.reply.is \in Answers(task.kind)
              /\ task.reply.is = "quote" => task.reply.id \in Quoting'
      /\ task.step \in {"select", "login"} => task.kind = "connect"
      /\ task.step = "sign" => task.kind = "sign"
      /\ task.step = "client" => task.kind = "prove"
  BY <1>1, <1>4 DEF TaskOK
<1> QED
  BY <1>1, <1>2, <1>3, <1>5 DEF TaskOK

LEMMA GlanceStays ==
  ASSUME Basics, Forward, Grows, glance' \in {glance, None}
  PROVE  GlanceOK'
<1> SUFFICES ASSUME glance' # None PROVE GlanceOK'
  BY DEF GlanceOK
<1>1. glance' = glance /\ glance # None /\ GlanceOK
  BY DEF Basics
<1>2. glance \in GlanceType /\ glance.session \in Nat /\ glance.order \in Ordering'
  BY <1>1 DEF GlanceOK, GlanceType, Grows
<1>3. glance.session <= flow'.generation
  BY <1>1, <1>2, BasicsParts DEF GlanceOK, Forward, FlowType
<1> QED
  BY <1>1, <1>2, <1>3 DEF GlanceOK

LEMMA CallbacksStay ==
  ASSUME Basics, Forward, SameCallbacks
  PROVE  CallbacksOK'
<1>1. \A id \in DOMAIN callbacks :
        /\ callbacks[id].session <= flow.generation /\ callbacks[id].session \in Nat
        /\ callbacks[id].generation <= flow.phoneGeneration /\ callbacks[id].generation \in Nat
  BY BasicsParts, CallbacksParts DEF Basics, CallbacksOK
<1>2. flow'.generation \in Nat /\ flow'.phoneGeneration \in Nat
  BY DEF Forward, FlowType
<1>3. \A id \in DOMAIN callbacks' :
        /\ callbacks'[id].session <= flow'.generation
        /\ callbacks'[id].generation <= flow'.phoneGeneration
  BY <1>1, <1>2, BasicsParts DEF SameCallbacks, Forward
<1> QED
  BY <1>3 DEF CallbacksOK, SameCallbacks

LEMMA InflightStays ==
  ASSUME Basics, Forward, Grows, inflight' \subseteq inflight
  PROVE  InflightOK'
<1>1. \A r \in inflight : r.session \in Nat
  BY DEF Basics, InflightOK, RequestType
<1>2. flow'.generation \in Nat
  BY DEF Forward, FlowType
<1>3. Quoting \subseteq Quoting' /\ Ordering \subseteq Ordering'
  BY DEF Grows
<1> QED
  BY <1>1, <1>2, <1>3, BasicsParts DEF Basics, InflightOK, Forward

LEMMA BasicsKept ==
  ASSUME Basics, Forward, Grows, freighter' \in Wallets,
         \A n \in Ordering' : n \in Ordering \/ desk'.orders[n].session <= flow.generation,
         TaskOK', GlanceOK', CallbacksOK', InflightOK'
  PROVE  Basics'
<1>1. FlowOK'
  BY DEF Basics, FlowOK, Forward, Grows
<1>2. DeskOK'
  <2>1. desk' \in DeskType
    BY DEF Grows
  <2>2. \A n \in Ordering' : desk'.orders[n].session \in Nat
    <3>1. desk'.orders \in Seq(OrderType)
      BY <2>1 DEF DeskType
    <3>2. \A n \in DOMAIN desk'.orders : desk'.orders[n] \in OrderType
      BY <3>1, ElementOfSeq
    <3> QED
      BY <3>2 DEF Ordering, OrderType
  <2>3. \A n \in Ordering' : desk'.orders[n].session <= flow.generation
    BY DEF Basics, DeskOK, Grows
  <2>4. flow'.generation \in Nat
    BY DEF Forward, FlowType
  <2> QED
    BY <2>1, <2>2, <2>3, <2>4, BasicsParts DEF DeskOK, Forward
<1> QED
  BY <1>1, <1>2 DEF Basics

-----------------------------------------------------------------------------
\* Calm steps: they change nothing of what the properties are about.

\* A task begins, or goes on with what needs no reservation and no phone.
Begins ==
    /\ task' \in TaskType /\ task'.session <= flow.generation /\ task'.reply = None
    /\ task'.step # "begin" => glance = None
    /\ task'.step \in {"select", "login"} => task'.kind = "connect"
    /\ task'.step = "sign" => task'.kind = "sign"
    /\ task'.step # "client"
    /\ task'.step = "asked" => task'.kind \notin {"reserve", "prove"}
    /\ task'.kind \in Acts /\ task'.step \in {"sign", "asked"} => task'.order \in Ordering
    /\ task'.kind = "refresh" => task'.with \in Ordering
    /\ task'.step \in {"sign", "asked"} /\ task'.kind \in Acts \cup {"quote", "refresh"}
          /\ SameSession(task'.session) => ~flow.pending
Proceeds ==
    /\ task # None /\ task.kind = "prove" /\ task.step = "asked"
    /\ task' = [task EXCEPT !.step = "client", !.reply = None]
Calm ==
    /\ flow' \in FlowType /\ Alike(flow, flow')
    /\ desk' = desk /\ seen' = seen /\ inflight' \subseteq inflight
    /\ glance' \in {glance, None} /\ freighter' \in Wallets /\ SameCallbacks
    /\ task' \in {task, None} \/ Begins \/ Proceeds

LEMMA TaskParts ==
  ASSUME Basics, task # None
  PROVE  /\ TaskOK /\ task \in TaskType /\ task.session \in Nat
         /\ task.session <= flow.generation
         /\ task.kind \in Runs \cup {"initialize"} /\ task.with \in With
         /\ task.order \in Nat \cup {None} /\ task.unknown \in BOOLEAN
         /\ task.reply \in ReplyType \cup {None}
         /\ task.step \in {"begin", "select", "login", "setup", "sign", "send", "asked", "client"}
  BY DEF Basics, TaskOK, TaskType

LEMMA ReplyParts ==
  ASSUME Basics, task # None, task.reply # None
  PROVE  /\ task.reply \in ReplyType /\ task.reply.is \in Answers(task.kind)
         /\ task.reply.is = "quote" => task.reply.id \in Quoting
         /\ task.step = "asked" /\ glance = None
<1>1. TaskOK /\ task.reply \in ReplyType \cup {None}
  BY TaskParts
<1> QED
  BY <1>1 DEF TaskOK

LEMMA AlikeItself ==
  ASSUME Basics, flow' = flow
  PROVE  flow' \in FlowType /\ Alike(flow, flow')
  BY BasicsParts DEF Alike

LEMMA ProceedsParts ==
  ASSUME Basics, Proceeds
  PROVE  /\ task' \in TaskType /\ task'.kind = "prove" /\ task'.step = "client"
         /\ task'.reply = None /\ task'.session = task.session /\ task'.with = task.with
         /\ task'.order = task.order
  BY TaskParts DEF Proceeds, TaskType

LEMMA CalmBasics ==
  ASSUME Basics, Calm
  PROVE  Basics' /\ Forward /\ Grows /\ AlikeOrder(flow, flow') /\ Ordering' = Ordering
<1>1. Forward /\ AlikeOrder(flow, flow')
  BY ForwardSame DEF Calm
<1>2. Grows /\ Ordering' = Ordering /\ Quoting' = Quoting
  BY BasicsParts, GrowsAlready DEF Calm, Quoting
<1>3. GlanceOK' /\ CallbacksOK' /\ InflightOK'
  BY <1>1, <1>2, GlanceStays, CallbacksStay, InflightStays DEF Calm
<1>4. glance = None => glance' = None
  BY DEF Calm
<1>5. flow'.generation = flow.generation
  BY <1>1 DEF AlikeOrder
<1>6. TaskOK'
  <2>1. CASE task' \in {task, None}
    BY <1>1, <1>2, <1>4, <2>1, TaskStays
  <2>2. CASE Begins
    BY <1>2, <1>4, <1>5, <2>2 DEF Begins, TaskOK, Acts
  <2>3. CASE Proceeds
    <3>1. /\ task # None /\ task.kind = "prove" /\ task.step = "asked"
          /\ task.session <= flow.generation /\ glance = None
      BY <2>3, TaskParts DEF Proceeds, TaskOK
    <3> QED
      BY <1>4, <1>5, <2>3, <3>1, ProceedsParts DEF TaskOK, Acts
  <2> QED
    BY <2>1, <2>2, <2>3 DEF Calm
<1> QED
  BY <1>1, <1>2, <1>3, <1>6, BasicsKept DEF Calm

LEMMA SettledStays ==
  ASSUME Grows, NEW q \in Quoting, Settled(q)
  PROVE  Settled(q)'
<1>1. CASE Dead(q)
  BY <1>1 DEF Grows, Settled
<1>2. CASE HasOrder(q)
  BY <1>2 DEF Grows, Settled, HasOrder
<1> QED
  BY <1>1, <1>2 DEF Settled

LEMMA KeysStay ==
  ASSUME Keys, Grows, Ordering' = Ordering
  PROVE  Keys'
  BY DEF Keys, Grows

\* A task that waits for the answer to a reservation was waiting for it before, and
\* nothing was opened or answered.
Waits ==
    /\ Sent' => Sent /\ task' = task
    /\ task' # None /\ SameSession(task.session)' /\ task'.kind \in Acts \cup {"quote", "refresh", "prove"}
          /\ task'.step \in {"sign", "asked", "client"} => ~flow.pending

\* A step after which the page shows the same and the anchor has the same orders.
LEMMA ReservationQuiet ==
  ASSUME Basics, ReservationOK, Grows, Ordering' = Ordering, AlikeOrder(flow, flow'),
         seen' = seen, inflight' \subseteq inflight, Waits,
         glance' # None /\ SameSession(glance.session)' => ~flow.pending
  PROVE  ReservationOK'
<1>1. /\ flow'.generation = flow.generation /\ flow'.order = flow.order
      /\ flow'.quote = flow.quote /\ flow'.pending = flow.pending
  BY DEF AlikeOrder
<1>2. Keys'
  BY KeysStay DEF ReservationOK
<1>3. \A n \in Ordering : Ours(n)' <=> Ours(n)
  BY <1>1 DEF Ours, Grows
<1>4. \A r : Late(r)' <=> Late(r)
  BY <1>1 DEF Late
<1>5. \A r \in inflight : Late(r) => r.order \in Quoting
  BY DEF Basics, InflightOK, Late
<1>6. \A r \in inflight' : Late(r)' /\ Settled(r.order) => Settled(r.order)'
  BY <1>4, <1>5, SettledStays
<1>7. \A n \in Ordering : desk'.orders[n].quote = desk.orders[n].quote
  BY DEF Grows
<1>8. Unshown'
  BY <1>1, <1>3, <1>4, <1>6, <1>7 DEF ReservationOK, Unshown, Waits
<1>9. First'
  <2> SUFFICES ASSUME Sent' PROVE First'
    BY DEF First
  <2>1. Sent /\ task' = task /\ First /\ task # None
    BY DEF Waits, ReservationOK, Sent
  <2>2. ~task.unknown => \A r \in inflight' : Late(r)' => Settled(r.order)'
    BY <1>4, <1>6, <2>1 DEF First
  <2>3. ~task.unknown /\ (task.reply = None \/ task.reply.is # "order") =>
              \A n \in Ordering' : Ours(n)' => n \in seen'
    BY <1>3, <2>1 DEF First
  <2>4. task.reply # None /\ task.reply.is = "quote_expired" =>
          Dead(task.order)' /\ ~HasOrder(task.order)'
    <3> SUFFICES ASSUME task.reply # None, task.reply.is = "quote_expired"
                 PROVE  Dead(task.order)' /\ ~HasOrder(task.order)'
      OBVIOUS
    <3>1. PICK q \in Quoting : q = task.order
      BY <2>1, TaskParts DEF Sent, TaskOK
    <3>2. Dead(q) /\ ~HasOrder(q)
      BY <2>1, <3>1 DEF First
    <3>3. Dead(q)' /\ ~HasOrder(q)'
      BY <1>7, <3>2 DEF Grows, HasOrder
    <3>4. task'.order = q
      BY <2>1, <3>1
    <3> QED
      BY <2>1, <3>1, <3>3, <3>4 DEF Dead, HasOrder
  <2>5. task.reply # None /\ task.reply.is = "order" =>
          /\ task.reply.id \in Ordering' /\ desk'.orders[task.reply.id].quote = task.order
    BY <1>7, <2>1 DEF First
  <2> QED
    BY <2>1, <2>2, <2>3, <2>4, <2>5 DEF First
<1>10. Alone'
  BY <1>1 DEF Alone, Waits
<1> QED
  BY <1>2, <1>8, <1>9, <1>10 DEF ReservationOK

LEMMA CalmReservation ==
  ASSUME Basics, ReservationOK, Calm
  PROVE  ReservationOK'
<1>1. Grows /\ AlikeOrder(flow, flow') /\ Ordering' = Ordering
  BY CalmBasics
<1>2. flow'.generation = flow.generation /\ flow'.pending = flow.pending
  BY <1>1 DEF AlikeOrder
<1>3. Waits
  <2>1. CASE task' = None
    BY <2>1 DEF Waits, Sent
  <2>2. CASE task' = task
    BY <1>2, <2>2 DEF Waits, ReservationOK, Alone, SameSession, Sent
  <2>3. CASE Begins
    BY <1>2, <2>3 DEF Begins, Waits, Sent, SameSession
  <2>4. CASE Proceeds
    <3>1. task'.step = "client" /\ task'.session = task.session
      BY <2>4, ProceedsParts
    <3> QED
      BY <1>2, <2>4, <3>1 DEF Proceeds, Waits, Sent, ReservationOK, Alone, SameSession
  <2> QED
    BY <2>1, <2>2, <2>3, <2>4 DEF Calm
<1>4. glance' # None /\ SameSession(glance.session)' => ~flow.pending
  BY <1>2 DEF Calm, ReservationOK, Alone, SameSession
<1> QED
  BY <1>1, <1>3, <1>4, ReservationQuiet DEF Calm

AlikePhone(f, g) ==
    /\ g.generation = f.generation /\ g.phoneGeneration = f.phoneGeneration
    /\ g.order = f.order /\ g.prepared = f.prepared

LEMMA PhoneQuiet ==
  ASSUME Basics, PhoneOK, AlikePhone(flow, flow'), SameCallbacks,
         task' # None /\ task'.kind = "prove" /\ task'.step \in {"asked", "client"}
           => task' = task \/ Proceeds
  PROVE  PhoneOK'
<1>1. /\ flow'.generation = flow.generation /\ flow'.phoneGeneration = flow.phoneGeneration
      /\ flow'.order = flow.order /\ flow'.prepared = flow.prepared
  BY DEF AlikePhone
<1>2. \A id \in DOMAIN callbacks : Current(id)' <=> Current(id)
  BY <1>1 DEF SameCallbacks, Current
<1>3. Callbacks'
  BY <1>1, <1>2 DEF SameCallbacks, PhoneOK, Callbacks
<1>4. PreparedCurrent' /\ Offered'
  BY <1>1 DEF SameCallbacks, PhoneOK, PreparedCurrent, Offered
<1>5. Making'
  <2> SUFFICES ASSUME task' # None, task'.kind = "prove", task'.step \in {"asked", "client"}
               PROVE  Making'
    BY DEF Making
  <2>1. /\ task # None /\ task.kind = "prove" /\ task.step \in {"asked", "client"}
        /\ task'.with = task.with /\ task'.order = task.order /\ task'.session = task.session
    BY ProceedsParts DEF Proceeds
  <2> QED
    BY <1>1, <1>2, <2>1 DEF Making, PhoneOK, SameCallbacks, SameSession
<1> QED
  BY <1>3, <1>4, <1>5 DEF PhoneOK

LEMMA OrderReplies ==
  ASSUME NEW r \in ReplyType, r.is = "order"
  PROVE  r \in AnswerType /\ r.id \in Nat /\ r.o \in OrderType
<1>1. CASE r \in AnswerType
  BY <1>1 DEF AnswerType
<1>2. r \in [is : {"quote"}, id : Nat] => r.is = "quote"
  OBVIOUS
<1>3. r \in [is : Words] => r.is \in Words
  OBVIOUS
<1> QED
  BY <1>1, <1>2, <1>3 DEF ReplyType, Words

LEMMA NotBehindStays ==
  ASSUME Basics, Grows, flow'.order = flow.order \/ flow'.order = None,
         NEW a \in AnswerType, NotBehind(a)
  PROVE  NotBehind(a)'
<1>1. a.o.step \in Nat
  BY DEF AnswerType, OrderType
<1>2. desk.orders[a.id].step \in Nat /\ a.id \in Ordering
  BY BasicsParts, DeskParts DEF NotBehind
<1>3. desk'.orders[a.id].step \in Nat
  <2>1. desk'.orders \in Seq(OrderType) /\ a.id \in DOMAIN desk'.orders
    BY <1>2 DEF Grows, DeskType, Ordering
  <2>2. desk'.orders[a.id] \in OrderType
    BY <2>1, ElementOfSeq
  <2> QED
    BY <2>2 DEF OrderType
<1>4. a.o.step <= desk'.orders[a.id].step /\ a.id \in Ordering'
  BY <1>1, <1>2, <1>3 DEF NotBehind, Grows
<1> QED
  BY <1>4 DEF NotBehind

\* The page shows the order it showed, or none, and has no new answer under way.
LEMMA StagesQuiet ==
  ASSUME Basics, StagesOK, Grows, flow'.order = flow.order \/ flow'.order = None,
         task' # None /\ task'.reply # None /\ task'.reply.is = "order"
           => task' = task \/ (task'.reply \in AnswerType /\ NotBehind(task.reply)'),
         glance' # None /\ glance'.reply # None
           => glance' = glance \/ (glance'.reply \in AnswerType /\ NotBehind(glance.reply)')
  PROVE  StagesOK'
<1>1. flow'.order # None => flow'.order.o.step <= desk'.orders[flow'.order.id].step
  <2> SUFFICES ASSUME flow'.order # None
               PROVE  flow.order.o.step <= desk'.orders[flow.order.id].step
    OBVIOUS
  <2>1. flow.order \in AnswerType /\ flow.order # None /\ flow.order.id \in Ordering
    BY BasicsParts
  <2>2. NotBehind(flow.order)
    <3>1. flow.order.o.step \in Nat
      BY <2>1 DEF AnswerType, OrderType
    <3> QED
      BY <2>1, <3>1 DEF StagesOK, NotBehind
  <2>3. PICK a \in AnswerType : a = flow.order /\ NotBehind(a)
    BY <2>1, <2>2
  <2>4. NotBehind(a)'
    BY <2>3, NotBehindStays
  <2> QED
    BY <2>3, <2>4 DEF NotBehind
<1>2. ASSUME task' # None, task'.reply # None, task'.reply.is = "order"
      PROVE  NotBehind(task.reply)'
  <2>1. CASE task' = task
    <3>1. task.reply \in AnswerType
      <4>1. task # None /\ task.reply \in ReplyType \cup {None} /\ task.reply # None
        BY <1>2, <2>1, TaskParts
      <4> QED
        BY <1>2, <2>1, <4>1, OrderReplies
    <3>2. PICK a \in AnswerType : a = task.reply /\ NotBehind(a)
      BY <1>2, <2>1, <3>1 DEF StagesOK
    <3>3. NotBehind(a)'
      BY <3>2, NotBehindStays
    <3>4. task'.reply = a
      BY <2>1, <3>2
    <3> QED
      BY <3>3, <3>4 DEF NotBehind
  <2> QED
    BY <1>2, <2>1
<1>3. ASSUME glance' # None, glance'.reply # None
      PROVE  NotBehind(glance.reply)'
  <2>1. CASE glance' = glance
    <3>1. glance.reply \in AnswerType
      BY <1>3, <2>1 DEF Basics, GlanceOK, GlanceType
    <3>2. PICK a \in AnswerType : a = glance.reply /\ NotBehind(a)
      BY <1>3, <2>1, <3>1 DEF StagesOK
    <3>3. NotBehind(a)'
      BY <3>2, NotBehindStays
    <3>4. glance'.reply = a
      BY <2>1, <3>2
    <3> QED
      BY <3>3, <3>4 DEF NotBehind
  <2> QED
    BY <1>3, <2>1
<1> QED
  BY <1>1, <1>2, <1>3 DEF StagesOK

LEMMA CalmPhone ==
  ASSUME Basics, PhoneOK, Calm
  PROVE  PhoneOK'
<1>1. AlikePhone(flow, flow') /\ SameCallbacks
  BY DEF Calm, Alike, AlikePhone
<1>2. task' # None /\ task'.kind = "prove" /\ task'.step \in {"asked", "client"}
           => task' = task \/ Proceeds
  BY DEF Calm, Begins
<1> QED
  BY <1>1, <1>2, PhoneQuiet

LEMMA CalmStages ==
  ASSUME Basics, StagesOK, Calm
  PROVE  StagesOK'
<1>1. Grows /\ flow'.order = flow.order
  BY CalmBasics DEF AlikeOrder
<1>2. task' # None /\ task'.reply # None => task' = task
  BY ProceedsParts DEF Calm, Begins
<1>3. glance' # None => glance' = glance
  BY DEF Calm
<1> QED
  BY <1>1, <1>2, <1>3, StagesQuiet

\* All the parts, and that the order shown does not go back.
Onward == flow.order # None /\ flow'.order # None /\ flow'.order.id = flow.order.id
          => flow'.order.o.step >= flow.order.o.step
Keeps == Basics' /\ ReservationOK' /\ PhoneOK' /\ StagesOK' /\ Onward

LEMMA OnwardSame ==
  ASSUME Basics, flow'.order = flow.order \/ flow'.order = None
  PROVE  Onward
<1>1. flow.order # None => flow.order.o.step \in Nat
  BY BasicsParts DEF AnswerType, OrderType
<1> QED
  BY <1>1 DEF Onward

LEMMA CalmKeeps ==
  ASSUME GateInv, Calm
  PROVE  Keeps
<1>1. flow'.order = flow.order
  BY DEF Calm, Alike
<1> QED
  BY <1>1, CalmBasics, CalmReservation, CalmPhone, CalmStages, OnwardSame DEF GateInv, Keeps

-----------------------------------------------------------------------------
\* The calm actions.

LEMMA CalmIfShown ==
  ASSUME Basics, flow' \in FlowType, Alike(flow, flow'), task' \in {task, None},
         UNCHANGED <<glance, callbacks, freighter, desk, inflight, seen>>
  PROVE  Calm
  BY CallbacksRest, BasicsParts DEF Calm

LEMMA CalmIfBegins ==
  ASSUME Basics, flow' \in FlowType, Alike(flow, flow'), Begins,
         UNCHANGED <<glance, callbacks, freighter, desk, inflight, seen>>
  PROVE  Calm
  BY CallbacksRest, BasicsParts DEF Calm

\* A task between its beginning and its answer: nothing else reads the order.
LEMMA UnderWay ==
  ASSUME Basics, task # None, task.step # "begin"
  PROVE  glance = None
  BY TaskParts DEF TaskOK

LEMMA StepBegins ==
  ASSUME Basics, task # None, NEW s \in {"login", "setup", "send", "asked"},
         NEW w \in With, NEW o \in Nat \cup {None}, glance = None,
         task' = [task EXCEPT !.step = s, !.with = w, !.order = o, !.reply = None],
         s = "login" => task.kind = "connect",
         s = "asked" => task.kind \notin {"reserve", "prove"},
         task.kind \in Acts /\ s = "asked" => o \in Ordering,
         task.kind = "refresh" => w \in Ordering,
         s = "asked" /\ task.kind \in Acts \cup {"quote", "refresh"}
           /\ SameSession(task.session) => ~flow.pending
  PROVE  Begins
<1>1. /\ task' \in TaskType /\ task'.step = s /\ task'.with = w /\ task'.order = o
      /\ task'.reply = None /\ task'.kind = task.kind /\ task'.session = task.session
  BY TaskParts DEF TaskType
<1>2. task.session <= flow.generation
  BY TaskParts
<1> QED
  BY <1>1, <1>2 DEF Begins

LEMMA TaskSame ==
  ASSUME Basics, task # None
  PROVE  /\ task = [task EXCEPT !.with = task.with, !.order = task.order]
         /\ task.step # "asked" => task.reply = None
  BY TaskParts DEF TaskOK, TaskType

LEMMA PressesRunCalm ==
  ASSUME Basics, NEW kind \in Runs, Presses(kind)
  PROVE  Calm
<1>1. kind \notin Immediate
  BY DEF Runs, Immediate
<1>2. PICK with \in Choices(kind) : task' = Run(kind, with) /\ flow' = flow
  BY <1>1 DEF Presses
<1>3. with \in With /\ (kind = "refresh" => with \in Ordering)
  <2>1. DOMAIN desk.orders \subseteq Nat
    BY BasicsParts, DeskParts DEF Ordering
  <2> QED
    BY <2>1, <1>2 DEF Choices, With, Ordering
<1>4. Begins
  BY <1>2, <1>3, BasicsParts DEF Begins, Run, TaskType
<1> QED
  BY <1>2, <1>4, CalmIfBegins, AlikeItself DEF Presses

LEMMA SelectsCalm ==
  ASSUME Basics, Selects
  PROVE  Calm
<1>1. task # None /\ task.step = "select" /\ task.kind = "connect" /\ glance = None
  BY UnderWay, TaskParts DEF Selects, At, TaskOK
<1>2. CASE task' = None
  BY <1>2, CalmIfShown, AlikeItself DEF Selects
<1>3. CASE task' = [task EXCEPT !.step = "login", !.with = freighter]
  <2>1. task.order \in Nat \cup {None} /\ task.reply = None /\ freighter \in With
    BY <1>1, TaskParts, TaskSame, BasicsParts DEF With
  <2>2. task' = [task EXCEPT !.step = "login", !.with = freighter, !.order = task.order,
                             !.reply = None]
    BY <1>1, <1>3, <2>1, TaskParts DEF TaskType
  <2>3. Begins
    BY <1>1, <2>1, <2>2, StepBegins DEF Acts
  <2> QED
    BY <2>3, CalmIfBegins, AlikeItself DEF Selects
<1> QED
  BY <1>2, <1>3 DEF Selects

LEMMA LogsInCalm ==
  ASSUME Basics, LogsIn
  PROVE  Calm
<1>1. task # None /\ task.step = "login" /\ task.kind = "connect" /\ glance = None
  BY UnderWay, TaskParts DEF LogsIn, At, TaskOK
<1>2. CASE Throw
  BY <1>2, CalmIfShown, AlikeItself DEF LogsIn, Throw
<1>3. CASE flow' = [flow EXCEPT !.token = task.with] /\ Step("asked")
  <2>1. task.order \in Nat \cup {None} /\ task.reply = None /\ task.with \in With
    BY <1>1, TaskParts, TaskSame
  <2>2. task' = [task EXCEPT !.step = "asked", !.with = task.with, !.order = task.order,
                             !.reply = None]
    BY <1>1, <1>3, <2>1, TaskParts DEF TaskType, Step
  <2>3. Begins
    BY <1>1, <2>1, <2>2, StepBegins DEF Acts
  <2>4. flow' \in FlowType /\ Alike(flow, flow')
    BY <1>3, <2>1, BasicsParts, DisplayReplaced
  <2> QED
    BY <2>3, <2>4, CalmIfBegins DEF LogsIn
<1> QED
  BY <1>2, <1>3 DEF LogsIn

LEMMA SetupCalm ==
  ASSUME Basics, Setup
  PROVE  Calm
<1>1. task # None /\ task.step = "setup" /\ glance = None
  BY UnderWay DEF Setup, At
<1>2. CASE ~SameSession(task.session)
  BY <1>2, CalmIfShown, AlikeItself DEF Setup, Throw
<1>3. CASE SameSession(task.session)
  <2>1. task.order \in Nat \cup {None} /\ task.reply = None /\ task.with \in With
    BY <1>1, TaskParts, TaskSame
  <2>2. PICK b \in With : flow' = [flow EXCEPT !.ready = TRUE, !.beneficiary = b]
    <3>1. flow.beneficiary \in With
      BY BasicsParts DEF FlowType
    <3>2. flow' = [flow EXCEPT !.ready = TRUE,
                     !.beneficiary = IF task.kind = "reserve" /\ Allowed("reserve", task.with)
                                     THEN task.with ELSE flow.beneficiary]
      BY <1>3 DEF Setup
    <3> QED
      BY <2>1, <3>1, <3>2
  <2>3. PICK f \in FlowType : f = [flow EXCEPT !.ready = TRUE] /\ Alike(flow, f)
    BY BasicsParts, DisplayReplaced
  <2>4. [f EXCEPT !.beneficiary = b] \in FlowType /\ Alike(f, [f EXCEPT !.beneficiary = b])
    BY DisplayReplaced
  <2>5. flow' \in FlowType /\ Alike(flow, flow')
    BY <2>2, <2>3, <2>4 DEF Alike
  <2>6. CASE task' = None
    BY <2>5, <2>6, CalmIfShown DEF Setup
  <2>7. CASE Step("send")
    <3>1. task' = [task EXCEPT !.step = "send", !.with = task.with, !.order = task.order,
                               !.reply = None]
      BY <1>1, <2>1, <2>7, TaskParts DEF TaskType, Step
    <3>2. task.kind = "refresh" => task.with \in Ordering
      BY <1>1, TaskParts DEF TaskOK
    <3>3. Begins
      BY <1>1, <2>1, <3>1, <3>2, StepBegins
    <3> QED
      BY <2>5, <3>3, CalmIfBegins DEF Setup
  <2> QED
    BY <1>3, <2>6, <2>7 DEF Setup
<1> QED
  BY <1>2, <1>3

LEMMA SetupFailsCalm ==
  ASSUME Basics, SetupFails
  PROVE  Calm
<1>1. flow' \in FlowType /\ Alike(flow, flow')
  <2>1. CASE flow' = flow
    BY <2>1, AlikeItself
  <2>2. CASE \E ready \in BOOLEAN : flow' = [flow EXCEPT !.ready = @ /\ ready]
    <3>1. flow.ready \in BOOLEAN
      BY BasicsParts DEF FlowType
    <3>2. PICK v \in BOOLEAN : flow' = [flow EXCEPT !.ready = v]
      <4>1. PICK ready \in BOOLEAN : flow' = [flow EXCEPT !.ready = flow.ready /\ ready]
        BY <2>2
      <4>2. (flow.ready /\ ready) \in BOOLEAN
        OBVIOUS
      <4> QED
        BY <4>1, <4>2, Zenon
    <3> QED
      BY <3>2, BasicsParts, DisplayReplaced
  <2> QED
    BY <2>1, <2>2 DEF SetupFails
<1> QED
  BY <1>1, CalmIfShown DEF SetupFails

LEMMA SignsCalm ==
  ASSUME Basics, ReservationOK, Signs
  PROVE  Calm
<1>1. /\ task # None /\ task.step = "sign" /\ task.kind = "sign" /\ glance = None
      /\ task.order \in Ordering
  BY UnderWay, TaskParts DEF Signs, At, TaskOK, Acts
<1>2. CASE task' = None
  BY <1>2, CalmIfShown, AlikeItself DEF Signs
<1>3. CASE Step("asked")
  <2>1. task.order \in Nat \cup {None} /\ task.reply = None /\ task.with \in With
    BY <1>1, TaskParts, TaskSame
  <2>2. task' = [task EXCEPT !.step = "asked", !.with = task.with, !.order = task.order,
                             !.reply = None]
    BY <1>1, <1>3, <2>1, TaskParts DEF TaskType, Step
  <2>3. SameSession(task.session) => ~flow.pending
    BY <1>1 DEF ReservationOK, Alone, Acts
  <2>4. Begins
    BY <1>1, <2>1, <2>2, <2>3, StepBegins
  <2> QED
    BY <2>4, CalmIfBegins, AlikeItself DEF Signs
<1> QED
  BY <1>2, <1>3 DEF Signs

LEMMA WithholdsCalm ==
  ASSUME Basics, Withholds
  PROVE  Calm
  BY CalmIfShown, AlikeItself DEF Withholds, Sending, Throw

LEMMA SendsActionCalm ==
  ASSUME Basics, ReservationOK, SendsAction
  PROVE  Calm
<1>1. task # None /\ task.step = "send" /\ glance = None
  BY UnderWay DEF SendsAction, Sending, At
<1>2. task.reply = None /\ task.with \in With
  BY <1>1, TaskParts, TaskSame
<1>3. PICK o : o = IF flow.order = None THEN None ELSE flow.order.id
  OBVIOUS
<1>4. /\ o \in Nat \cup {None} /\ (flow.order # None => o \in Ordering)
  BY <1>3, BasicsParts DEF AnswerType
<1>5. task' = [task EXCEPT !.step = "asked", !.with = task.with, !.order = o, !.reply = None]
  BY <1>1, <1>2, <1>3, TaskParts DEF TaskType, SendsAction
<1>6. /\ task.kind \notin {"reserve", "prove"} /\ Allowed(task.kind, task.with)
      /\ flow' = flow
  BY DEF SendsAction, Sends
<1>7. task.kind \in Acts => flow.order # None
  BY <1>6 DEF Acts, Allowed, MaySign, MayAct, RequireOrder
<1>8. task.kind \in Acts \cup {"quote", "refresh"} => ~flow.pending
  <2>1. flow.order # None => ~flow.pending
    BY DEF ReservationOK, Unshown
  <2> QED
    BY <1>6, <1>7, <2>1 DEF Allowed, MayQuote, Acts
<1>9. task.kind = "refresh" => task.with \in Ordering
  BY <1>1, TaskParts DEF TaskOK
<1>10. Begins
  BY <1>1, <1>2, <1>4, <1>5, <1>6, <1>7, <1>8, <1>9, StepBegins
<1> QED
  BY <1>6, <1>10, CalmIfBegins, AlikeItself DEF SendsAction, Sending

LEMMA BeginCalm ==
  ASSUME Basics, ReservationOK, Begin,
         ~(task.kind = "connect" /\ ~(flow.closed \/ ~SameSession(task.session)
                                      \/ ~Allowed(task.kind, task.with)))
  PROVE  Calm
<1>1. task # None /\ task.step = "begin" /\ glance = None
  BY DEF Begin, At, Idle
<1>2. CASE flow.closed \/ ~SameSession(task.session) \/ ~Allowed(task.kind, task.with)
  BY <1>2, CalmIfShown, AlikeItself DEF Begin, Throw
<1>3. CASE /\ ~(flow.closed \/ ~SameSession(task.session) \/ ~Allowed(task.kind, task.with))
           /\ task.kind # "connect"
  <2>1. task.order \in Nat \cup {None} /\ task.reply = None /\ task.with \in With
    BY <1>1, TaskParts, TaskSame
  <2>2. task.kind = "refresh" => task.with \in Ordering
    BY <1>1, TaskParts DEF TaskOK
  <2>3. UNCHANGED <<glance, callbacks, freighter, desk, inflight, seen>>
    BY DEF Begin
  <2>4. CASE task.kind = "sign"
    <3>1. /\ task' = [task EXCEPT !.step = "sign", !.with = flow.prepared.phone,
                                  !.order = flow.order.id]
          /\ flow' = flow
      BY <1>3, <2>4 DEF Begin
    <3>2. flow.order # None /\ flow.prepared # None
      BY <1>3, <2>4 DEF Allowed, MaySign, RequireOrder
    <3>3. flow.order.id \in Ordering /\ flow.order.id \in Nat
      BY <3>2, BasicsParts DEF AnswerType
    <3>4. flow.prepared.phone \in With
      BY <3>2, BasicsParts, FlowParts DEF With
    <3>5. ~flow.pending
      BY <3>2 DEF ReservationOK, Unshown
    <3>6. /\ task' \in TaskType /\ task'.step = "sign" /\ task'.order = flow.order.id
          /\ task'.reply = None /\ task'.kind = "sign" /\ task'.session = task.session
      BY <1>1, <2>1, <2>4, <3>1, <3>3, <3>4, TaskParts DEF TaskType
    <3>7. task.session <= flow.generation
      BY <1>1, TaskParts
    <3>8. Begins
      BY <1>1, <3>3, <3>5, <3>6, <3>7 DEF Begins
    <3> QED
      BY <2>3, <3>1, <3>8, CalmIfBegins, AlikeItself
  <2>5. CASE task.kind # "sign"
    <3>1. PICK s \in {"asked", "setup", "send"} :
            /\ task' = [task EXCEPT !.step = s] /\ flow' = flow
            /\ s = "asked" => task.kind = "initialize"
      <4>1. CASE task.kind = "initialize"
        BY <1>3, <4>1 DEF Begin, Step
      <4>2. CASE /\ task.kind # "initialize"
                 /\ task.kind \in {"setup", "quote"} \/ (task.kind = "reserve" /\ ~flow.pending)
        BY <1>3, <2>5, <4>2 DEF Begin, Step
      <4>3. CASE /\ task.kind # "initialize"
                 /\ ~(task.kind \in {"setup", "quote"} \/ (task.kind = "reserve" /\ ~flow.pending))
        BY <1>3, <2>5, <4>3 DEF Begin, Step
      <4> QED
        BY <4>1, <4>2, <4>3
    <3>2. task' = [task EXCEPT !.step = s, !.with = task.with, !.order = task.order,
                               !.reply = None]
      BY <1>1, <2>1, <3>1, TaskParts DEF TaskType
    <3>3. /\ s \in {"login", "setup", "send", "asked"} /\ s # "login"
          /\ s = "asked" => task.kind \notin Acts \cup {"reserve", "prove", "quote", "refresh"}
      BY <3>1 DEF Acts
    <3>4. Begins
      BY <1>1, <2>1, <2>2, <3>2, <3>3, StepBegins
    <3> QED
      BY <2>3, <3>1, <3>4, CalmIfBegins, AlikeItself
  <2> QED
    BY <2>4, <2>5
<1> QED
  BY <1>2, <1>3

LEMMA LostCalm ==
  ASSUME Basics, Lost, inflight' = inflight
  PROVE  Calm
  BY CalmIfShown, FailingAlike, BasicsParts DEF Lost

LEMMA RefusedCalm ==
  ASSUME Basics, Refused \/ Outlived \/ Initialized
  PROVE  Calm
<1>1. flow' \in FlowType /\ Alike(flow, flow')
  <2>1. CASE flow' = flow
    BY <2>1, AlikeItself
  <2>2. CASE flow' = Failing(flow)
    BY <2>2, FailingAlike, BasicsParts
  <2>3. CASE flow' = [flow EXCEPT !.info = TRUE]
    BY <2>3, DisplayReplaced, BasicsParts
  <2> QED
    BY <2>1, <2>2, <2>3 DEF Refused, Outlived, Initialized, Throw
<1> QED
  BY <1>1, CalmIfShown DEF Refused, Outlived, Initialized, Throw, Ended

LEMMA AdmittedCalm ==
  ASSUME Basics, Admitted
  PROVE  Calm
<1>1. /\ task # None /\ task.step = "asked" /\ task.kind \in {"connect", "access"}
      /\ task.reply # None /\ task.reply.is # "refused" /\ glance = None
  BY UnderWay DEF Admitted, Answered, Replies, At
<1>2. UNCHANGED <<glance, callbacks, freighter, desk, inflight, seen>>
  BY DEF Admitted, Ended
<1>3. task.reply.is \in {"no_match", "match"}
  <2>1. task.reply.is \in Answers(task.kind)
    BY <1>1, ReplyParts
  <2>2. Answers(task.kind) = {"no_match", "match", "refused"}
    BY <1>1 DEF Answers
  <2> QED
    BY <1>1, <2>1, <2>2
<1>4. CASE flow' = Failing(flow) /\ task' = None
  BY <1>2, <1>4, CalmIfShown, FailingAlike, BasicsParts
<1>5. CASE flow' = [flow EXCEPT !.screening = task.reply.is] /\ task' = None
  BY <1>2, <1>3, <1>5, CalmIfShown, DisplayReplaced, BasicsParts
<1>6. CASE /\ task.kind = "connect"
           /\ flow' = [flow EXCEPT !.wallet = task.with, !.screening = task.reply.is]
           /\ task' = [task EXCEPT !.step = "setup", !.reply = None]
  <2>1. task.with \in With /\ task.order \in Nat \cup {None}
    BY <1>1, TaskParts
  <2>2. PICK f \in FlowType : f = [flow EXCEPT !.wallet = task.with] /\ Alike(flow, f)
    BY <2>1, BasicsParts, DisplayReplaced
  <2>3. /\ [f EXCEPT !.screening = task.reply.is] \in FlowType
        /\ Alike(f, [f EXCEPT !.screening = task.reply.is])
    BY <1>3, DisplayReplaced
  <2>4. flow' \in FlowType /\ Alike(flow, flow')
    BY <1>6, <2>2, <2>3 DEF Alike
  <2>5. task' = [task EXCEPT !.step = "setup", !.with = task.with, !.order = task.order,
                             !.reply = None]
    BY <1>1, <1>6, <2>1, TaskParts DEF TaskType
  <2>6. Begins
    BY <1>1, <1>6, <2>1, <2>5, StepBegins
  <2> QED
    BY <1>2, <2>4, <2>6, CalmIfBegins
<1> QED
  BY <1>4, <1>5, <1>6 DEF Admitted

LEMMA ConfiguredCalm ==
  ASSUME Basics, Configured
  PROVE  Calm
<1>1. task # None /\ task.step = "asked" /\ task.kind = "prove"
  BY DEF Configured, Answered, Replies, At
<1>2. UNCHANGED <<glance, callbacks, freighter, desk, inflight, seen>> /\ flow' = flow
  BY DEF Configured, Ended
<1>3. task' = None \/ Proceeds
  BY <1>1 DEF Configured, Proceeds
<1> QED
  BY <1>2, <1>3, CallbacksRest, AlikeItself, BasicsParts DEF Calm

LEMMA ProofArrivesCalm ==
  ASSUME Basics, NEW id \in DOMAIN callbacks, ProofArrives(id)
  PROVE  Calm
<1>1. SameCallbacks
  BY CallbackMoves DEF ProofArrives
<1>2. flow' \in FlowType /\ Alike(flow, flow')
  BY DisplayReplaced, BasicsParts DEF ProofArrives
<1> QED
  BY <1>1, <1>2, BasicsParts DEF Calm, ProofArrives

LEMMA PreparesCalm ==
  ASSUME Basics, NEW id \in DOMAIN callbacks, Prepares(id)
  PROVE  Calm
<1>1. SameCallbacks
  <2>1. Callback(id, "prepared") \/ Callback(id, "done")
    BY Zenon DEF Prepares
  <2> QED
    BY <2>1, CallbackMoves
<1>2. flow' \in FlowType /\ Alike(flow, flow')
  BY AlikeItself DEF Prepares
<1> QED
  BY <1>1, <1>2, BasicsParts DEF Calm, Prepares

LEMMA PreparedCalm ==
  ASSUME Basics, NEW id \in DOMAIN callbacks, Prepared(id), ~Wanted(id)
  PROVE  Calm
<1>1. SameCallbacks
  BY CallbackMoves DEF Prepared
<1>2. flow' \in FlowType /\ Alike(flow, flow')
  BY AlikeItself DEF Prepared
<1> QED
  BY <1>1, <1>2, BasicsParts DEF Calm, Prepared

LEMMA SwitchesCalm ==
  ASSUME Basics, Switches
  PROVE  Calm
  BY CallbacksRest, AlikeItself DEF Calm, Switches

LEMMA GlanceLostCalm ==
  ASSUME Basics, GlanceServed, glance' = None
  PROVE  Calm
  BY CallbacksRest, AlikeItself, BasicsParts DEF Calm, GlanceServed

-----------------------------------------------------------------------------
\* Phone requests that end, and sessions that end.

\* No phone request is of a generation yet to come.
LEMMA NoneCurrent ==
  ASSUME Basics, SameCallbacks, flow'.phoneGeneration > flow.phoneGeneration,
         flow'.phoneGeneration \in Nat
  PROVE  \A id \in DOMAIN callbacks' : ~Current(id)'
<1>1. \A id \in DOMAIN callbacks :
        /\ callbacks[id].generation <= flow.phoneGeneration
        /\ callbacks[id].generation \in Nat
  BY BasicsParts, CallbacksParts DEF Basics, CallbacksOK
<1> QED
  BY <1>1, BasicsParts DEF SameCallbacks, Current

Rest == /\ SameCallbacks
        /\ UNCHANGED <<glance, freighter, desk, inflight, seen>>

LEMMA RestBasics ==
  ASSUME Basics, Forward, Rest, TaskOK'
  PROVE  Basics' /\ Grows /\ Ordering' = Ordering
<1>1. Grows /\ Ordering' = Ordering
  BY BasicsParts, GrowsAlready DEF Rest
<1>2. GlanceOK' /\ CallbacksOK' /\ InflightOK'
  BY <1>1, GlanceStays, CallbacksStay, InflightStays DEF Rest
<1> QED
  BY <1>1, <1>2, BasicsKept, BasicsParts DEF Rest

Cancelling ==
    /\ flow' \in FlowType /\ AlikeOrder(flow, flow')
    /\ flow'.phoneGeneration = flow.phoneGeneration + 1 /\ flow'.prepared = flow.prepared
    /\ task' = task /\ Rest

LEMMA SessionEnds ==
  ASSUME Basics
  PROVE  /\ NoSession(flow) \in FlowType
         /\ NoSession(flow).generation = flow.generation + 1
         /\ NoSession(flow).phoneGeneration = flow.phoneGeneration + 1
         /\ NoSession(flow).order = None /\ NoSession(flow).quote = None
         /\ NoSession(flow).pending = FALSE /\ NoSession(flow).prepared = None
<1>1. flow \in FlowType
  BY BasicsParts
<1> QED
  BY <1>1, NewSession

LEMMA CancellingKeeps ==
  ASSUME GateInv, Cancelling
  PROVE  Keeps
<1>1. Basics /\ ReservationOK /\ PhoneOK /\ StagesOK
  BY DEF GateInv
<1>2. flow'.phoneGeneration \in Nat /\ flow'.phoneGeneration > flow.phoneGeneration
  BY <1>1, BasicsParts DEF Cancelling
<1>3. Forward
  BY <1>1, <1>2, ForwardAlike, BasicsParts DEF Cancelling
<1>4. Grows /\ Ordering' = Ordering
  BY <1>1, BasicsParts, GrowsAlready DEF Cancelling, Rest
<1>5. TaskOK'
  BY <1>1, <1>3, <1>4, TaskStays DEF Cancelling, Rest
<1>6. Basics'
  BY <1>1, <1>3, <1>5, RestBasics DEF Cancelling
<1>7. ReservationOK'
  <2>1. Waits
    BY <1>1 DEF Cancelling, AlikeOrder, Waits, ReservationOK, Alone, SameSession, Sent
  <2>2. glance' # None /\ SameSession(glance.session)' => ~flow.pending
    BY <1>1 DEF Cancelling, AlikeOrder, Rest, ReservationOK, Alone, SameSession
  <2> QED
    BY <1>1, <1>4, <2>1, <2>2, ReservationQuiet DEF Cancelling, Rest
<1>8. PhoneOK'
  <2>1. \A id \in DOMAIN callbacks' : ~Current(id)'
    BY <1>1, <1>2, NoneCurrent DEF Cancelling, Rest
  <2>2. Callbacks'
    BY <2>1 DEF Callbacks
  <2>3. PreparedCurrent' /\ Offered'
    BY <1>1 DEF Cancelling, AlikeOrder, Rest, SameCallbacks, PhoneOK, PreparedCurrent, Offered
  <2>4. Making'
    <3> SUFFICES ASSUME task # None, task.kind = "prove", task.step \in {"asked", "client"}
                 PROVE  Making'
      BY DEF Making, Cancelling
    <3>1. /\ task.with \in Nat /\ task.with <= flow.phoneGeneration /\ flow.prepared = None
      BY <1>1 DEF PhoneOK, Making
    <3>2. /\ task.with <= flow'.phoneGeneration /\ task.with # flow'.phoneGeneration
      BY <1>1, <1>2, <3>1, BasicsParts DEF Cancelling
    <3> QED
      BY <2>1, <3>1, <3>2 DEF Making, Cancelling
  <2> QED
    BY <2>2, <2>3, <2>4 DEF PhoneOK
<1>9. StagesOK' /\ Onward
  BY <1>1, <1>4, StagesQuiet, OnwardSame DEF Cancelling, AlikeOrder, Rest
<1> QED
  BY <1>6, <1>7, <1>8, <1>9 DEF Keeps

Quitting ==
    /\ flow' \in FlowType
    /\ flow'.generation > flow.generation /\ flow'.phoneGeneration > flow.phoneGeneration
    /\ flow'.order = None /\ flow'.quote = None /\ flow'.pending = FALSE
    /\ flow'.prepared = None
    /\ Rest
    /\ \/ task' = task
       \/ /\ task' \in TaskType /\ task'.session <= flow'.generation
          /\ task'.step = "select" /\ task'.kind = "connect" /\ task'.reply = None
          /\ glance = None

LEMMA SessionQuits ==
  ASSUME Basics, Rest, task' = task, flow' \in FlowType, Alike(NoSession(flow), flow')
  PROVE  Quitting
<1>1. /\ flow'.generation = flow.generation + 1
      /\ flow'.phoneGeneration = flow.phoneGeneration + 1
      /\ flow'.order = None /\ flow'.quote = None
      /\ flow'.pending = FALSE /\ flow'.prepared = None
  BY SessionEnds DEF Alike
<1>2. flow'.generation > flow.generation /\ flow'.phoneGeneration > flow.phoneGeneration
  BY <1>1, BasicsParts
<1> QED
  BY <1>1, <1>2 DEF Quitting

LEMMA QuittingKeeps ==
  ASSUME GateInv, Quitting
  PROVE  Keeps
<1>1. Basics /\ ReservationOK /\ PhoneOK /\ StagesOK
  BY DEF GateInv
<1>2. flow'.phoneGeneration \in Nat /\ flow'.generation \in Nat
  BY DEF Quitting, FlowType
<1>3. Forward
  BY <1>1, <1>2, BasicsParts DEF Quitting, Forward
<1>4. Grows /\ Ordering' = Ordering
  BY <1>1, BasicsParts, GrowsAlready DEF Quitting, Rest
<1>5. TaskOK'
  <2>1. CASE task' = task
    BY <1>1, <1>3, <1>4, <2>1, TaskStays DEF Quitting, Rest
  <2>2. CASE /\ task' \in TaskType /\ task'.session <= flow'.generation
             /\ task'.step = "select" /\ task'.kind = "connect" /\ task'.reply = None
             /\ glance = None
    BY <2>2 DEF Quitting, Rest, TaskOK, Acts
  <2> QED
    BY <2>1, <2>2 DEF Quitting
<1>6. Basics'
  BY <1>1, <1>3, <1>5, RestBasics DEF Quitting
<1>7. task' # None /\ task'.step # "select"
        => task' = task /\ ~SameSession(task.session)'
  <2>1. ASSUME task # None, task' = task
        PROVE  ~SameSession(task.session)'
    <3>1. task.session \in Nat /\ task.session <= flow.generation
      BY <1>1, <2>1, TaskParts
    <3> QED
      BY <1>1, <1>2, <2>1, <3>1, BasicsParts DEF Quitting, SameSession
  <2> QED
    BY <2>1 DEF Quitting
<1>8. ReservationOK'
  <2>1. Keys'
    BY <1>1, <1>4, KeysStay DEF ReservationOK
  <2>2. \A n \in Ordering' : ~Ours(n)'
    <3>1. \A n \in Ordering : desk.orders[n].session \in Nat
                              /\ desk.orders[n].session <= flow.generation
      BY <1>1, BasicsParts, DeskParts DEF Basics, DeskOK
    <3> QED
      BY <1>1, <1>2, <1>4, <3>1, BasicsParts DEF Quitting, Rest, Ours
  <2>3. \A r \in inflight' : ~Late(r)'
    <3>1. \A r \in inflight : r.session \in Nat /\ r.session <= flow.generation
      BY <1>1 DEF Basics, InflightOK, RequestType
    <3> QED
      BY <1>1, <1>2, <3>1, BasicsParts DEF Quitting, Rest, Late
  <2>4. ~Sent'
    BY <1>7 DEF Sent
  <2>5. Unshown' /\ First'
    BY <2>2, <2>3, <2>4 DEF Quitting, Unshown, First
  <2>6. Alone'
    BY DEF Quitting, Alone
  <2> QED
    BY <2>1, <2>5, <2>6 DEF ReservationOK
<1>9. PhoneOK'
  <2>1. \A id \in DOMAIN callbacks' : ~Current(id)'
    BY <1>1, <1>2, NoneCurrent DEF Quitting, Rest
  <2>2. Callbacks' /\ PreparedCurrent' /\ Offered'
    BY <2>1 DEF Callbacks, Quitting, PreparedCurrent, Offered
  <2>3. Making'
    <3> SUFFICES ASSUME task' # None, task'.kind = "prove", task'.step \in {"asked", "client"}
                 PROVE  Making'
      BY DEF Making
    <3>1. task' = task /\ ~SameSession(task.session)'
      BY <1>7
    <3>2. task.with \in Nat /\ task.with <= flow.phoneGeneration
      BY <1>1, <3>1 DEF PhoneOK, Making
    <3>3. task.with <= flow'.phoneGeneration
      BY <1>1, <1>2, <3>2, BasicsParts DEF Quitting
    <3> QED
      BY <2>1, <3>1, <3>2, <3>3 DEF Making, Quitting
  <2> QED
    BY <2>2, <2>3 DEF PhoneOK
<1>10. StagesOK' /\ Onward
  <2>1. task' # None /\ task'.reply # None => task' = task
    BY DEF Quitting
  <2> QED
    BY <1>1, <1>4, <2>1, StagesQuiet, OnwardSame DEF Quitting, Rest
<1> QED
  BY <1>6, <1>8, <1>9, <1>10 DEF Keeps

-----------------------------------------------------------------------------
\* Requests that go out.

LEMMA SendsReservationKeeps ==
  ASSUME GateInv, SendsReservation
  PROVE  Keeps
<1>1. Basics /\ ReservationOK /\ PhoneOK /\ StagesOK
  BY DEF GateInv
<1>2. /\ task # None /\ task.step = "send" /\ task.kind = "reserve" /\ glance = None
      /\ task.reply = None
  BY <1>1, UnderWay, TaskSame DEF SendsReservation, Sending, At
<1>3. /\ SameSession(task.session) /\ flow.quote # None /\ flow.order = None
      /\ flow.quote \in Quoting /\ flow.quote \in Nat
  BY <1>1, BasicsParts DEF SendsReservation, Sends, Allowed, MayReserve
<1>4. /\ flow' \in FlowType /\ flow'.pending = TRUE
      /\ flow'.generation = flow.generation /\ flow'.phoneGeneration = flow.phoneGeneration
      /\ flow'.order = flow.order /\ flow'.quote = flow.quote /\ flow'.prepared = flow.prepared
  BY <1>1, BasicsParts, Pended DEF SendsReservation
<1>5. /\ task' \in TaskType /\ task'.kind = "reserve" /\ task'.step = "asked"
      /\ task'.order = flow.quote /\ task'.unknown = flow.pending /\ task'.reply = None
      /\ task'.session = task.session
  <2>1. flow.pending \in BOOLEAN
    BY <1>1, BasicsParts
  <2> QED
    BY <1>1, <1>2, <1>3, <2>1, TaskParts DEF SendsReservation, TaskType
<1>6. /\ Rest /\ inflight' = inflight /\ desk' = desk /\ seen' = seen /\ glance' = None
  BY <1>1, <1>2, CallbacksRest DEF SendsReservation, Sending, Rest
<1>7. Forward
  BY <1>1, <1>4, BasicsParts DEF Forward
<1>8. TaskOK'
  <2>1. task.session <= flow'.generation
    BY <1>1, <1>2, <1>4, TaskParts
  <2>2. Quoting' = Quoting
    BY <1>6 DEF Quoting
  <2> QED
    BY <1>3, <1>5, <1>6, <2>1, <2>2 DEF TaskOK, Acts
<1>9. Basics' /\ Grows /\ Ordering' = Ordering
  BY <1>1, <1>6, <1>7, <1>8, RestBasics
<1>10. ReservationOK'
  <2>1. Keys'
    BY <1>1, <1>9, KeysStay DEF ReservationOK
  <2>2. \A n \in Ordering : Ours(n)' <=> Ours(n)
    BY <1>4, <1>6 DEF Ours
  <2>3. \A r \in inflight : (Late(r)' <=> Late(r)) /\ (Settled(r.order)' <=> Settled(r.order))
    BY <1>4, <1>6, <1>9 DEF Late, Settled, Dead, HasOrder
  <2>4. Unshown'
    BY <1>1, <1>3, <1>4, <1>5, <1>6, <1>9, <2>2, <2>3 DEF ReservationOK, Unshown
  <2>5. First'
    BY <1>1, <1>5, <1>6, <1>9, <2>2, <2>3 DEF ReservationOK, Unshown, First
  <2>6. Alone'
    BY <1>5, <1>6 DEF Alone, Acts
  <2> QED
    BY <2>1, <2>4, <2>5, <2>6 DEF ReservationOK
<1>11. PhoneOK'
  BY <1>1, <1>4, <1>5, <1>6, PhoneQuiet DEF AlikePhone, Rest
<1>12. StagesOK' /\ Onward
  BY <1>1, <1>4, <1>5, <1>6, <1>9, StagesQuiet, OnwardSame
<1> QED
  BY <1>9, <1>10, <1>11, <1>12 DEF Keeps

LEMMA SendsProofRequestKeeps ==
  ASSUME GateInv, SendsProofRequest
  PROVE  Keeps
<1>1. Basics /\ ReservationOK /\ PhoneOK /\ StagesOK
  BY DEF GateInv
<1>2. /\ task # None /\ task.step = "send" /\ task.kind = "prove" /\ glance = None
      /\ task.reply = None
  BY <1>1, UnderWay, TaskSame DEF SendsProofRequest, Sending, At
<1>3. /\ flow.order # None /\ flow.order.id \in Nat /\ ~flow.pending
  <2>1. flow.order # None
    BY <1>2 DEF SendsProofRequest, Sends, Allowed, MayProve, RequireOrder
  <2>2. flow.order \in AnswerType
    BY <1>1, <2>1, BasicsParts
  <2> QED
    BY <1>1, <2>1, <2>2 DEF AnswerType, ReservationOK, Unshown
<1>4. /\ flow' \in FlowType /\ AlikeOrder(flow, flow') /\ flow'.prepared = None
      /\ flow'.phoneGeneration = flow.phoneGeneration + 1
      /\ flow.phoneGeneration \in Nat /\ flow'.phoneGeneration \in Nat
      /\ flow'.phoneGeneration > flow.phoneGeneration
  <2>1. /\ flow' \in FlowType /\ AlikeOrder(flow, flow') /\ flow'.prepared = None
        /\ flow'.phoneGeneration = flow.phoneGeneration + 1
    BY <1>1, BasicsParts, Dropped DEF SendsProofRequest
  <2>2. flow.phoneGeneration \in Nat
    BY <1>1, BasicsParts
  <2> QED
    BY <2>1, <2>2
<1>5. /\ task' \in TaskType /\ task'.kind = "prove" /\ task'.step = "asked"
      /\ task'.order = flow.order.id /\ task'.with = flow'.phoneGeneration
      /\ task'.reply = None /\ task'.session = task.session
  <2>1. flow.phoneGeneration + 1 \in With
    BY <1>4 DEF With
  <2> QED
    BY <1>1, <1>2, <1>3, <1>4, <2>1, TaskParts DEF SendsProofRequest, TaskType
<1>6. /\ Rest /\ inflight' = inflight /\ desk' = desk /\ seen' = seen /\ glance' = None
  BY <1>1, <1>2, CallbacksRest DEF SendsProofRequest, Sending, Rest
<1>7. Forward
  BY <1>1, <1>4, ForwardAlike, BasicsParts
<1>8. TaskOK'
  <2>1. task.session <= flow'.generation
    BY <1>1, <1>2, <1>4, TaskParts DEF AlikeOrder
  <2> QED
    BY <1>5, <1>6, <2>1 DEF TaskOK, Acts
<1>9. Basics' /\ Grows /\ Ordering' = Ordering
  BY <1>1, <1>6, <1>7, <1>8, RestBasics
<1>10. ReservationOK'
  <2>1. Waits
    BY <1>3, <1>5 DEF Waits, Sent
  <2> QED
    BY <1>1, <1>3, <1>4, <1>6, <1>9, <2>1, ReservationQuiet
<1>11. PhoneOK'
  <2>1. \A id \in DOMAIN callbacks' : ~Current(id)'
    BY <1>1, <1>4, <1>6, NoneCurrent DEF Rest
  <2>2. Callbacks' /\ PreparedCurrent' /\ Offered'
    BY <1>4, <2>1 DEF Callbacks, PreparedCurrent, Offered
  <2>3. Making'
    <3>1. flow'.order = flow.order
      BY <1>4 DEF AlikeOrder
    <3> QED
      BY <1>3, <1>4, <1>5, <2>1, <3>1 DEF Making
  <2> QED
    BY <2>2, <2>3 DEF PhoneOK
<1>12. StagesOK' /\ Onward
  BY <1>1, <1>4, <1>5, <1>6, <1>9, StagesQuiet, OnwardSame DEF AlikeOrder
<1> QED
  BY <1>9, <1>10, <1>11, <1>12 DEF Keeps

-----------------------------------------------------------------------------
\* The phone request is made, and its proof is offered.

LEMMA ClientKeeps ==
  ASSUME GateInv, Client
  PROVE  Keeps
<1>1. Basics /\ ReservationOK /\ PhoneOK /\ StagesOK
  BY DEF GateInv
<1>2. /\ task # None /\ task.step = "client" /\ task.kind = "prove" /\ glance = None
      /\ task' = None
  BY <1>1, UnderWay, TaskParts DEF Client, At, TaskOK
<1>3. /\ task.with \in Nat /\ task.with <= flow.phoneGeneration
      /\ flow.prepared = None /\ \A id \in DOMAIN callbacks : ~Current(id)
      /\ SameSession(task.session) /\ task.with = flow.phoneGeneration =>
            flow.order # None /\ task.order = flow.order.id
  BY <1>1, <1>2 DEF PhoneOK, Making
<1>4. PICK k \in Nat : k = Len(callbacks) /\ DOMAIN callbacks = 1..k
  BY <1>1, BasicsParts, CallbacksParts
<1>5. flow' \in FlowType /\ Alike(flow, flow')
  <2>1. flow' = flow \/ flow' = [flow EXCEPT !.phone = k + 1]
    BY <1>4 DEF Client
  <2>2. k + 1 \in Nat \cup {None}
    OBVIOUS
  <2> QED
    BY <1>1, <2>1, <2>2, AlikeItself, DisplayReplaced, BasicsParts
<1>6. CASE callbacks' = callbacks
  <2>1. Calm
    BY <1>1, <1>2, <1>5, <1>6, CalmIfShown DEF Client
  <2> QED
    BY <2>1, CalmKeeps
<1>7. ASSUME NEW s \in {"ready", "done"},
             callbacks' = Append(callbacks, [session |-> task.session, generation |-> task.with,
                                             order |-> task.order, step |-> s])
      PROVE  Keeps
  <2> DEFINE c == [session |-> task.session, generation |-> task.with,
                   order |-> task.order, step |-> s]
  <2>1. c \in CallbackType /\ task.session <= flow.generation
    BY <1>1, <1>2, <1>3, TaskParts DEF CallbackType
  <2>2. c.session = task.session /\ c.generation = task.with /\ c.order = task.order
    OBVIOUS
  <2> HIDE DEF c
  <2>3. /\ callbacks' \in Seq(CallbackType) /\ Len(callbacks') = k + 1
        /\ \A id \in 1..k : callbacks'[id] = callbacks[id]
        /\ callbacks'[k + 1] = c
    <3>1. callbacks' = Append(callbacks, c)
      BY <1>7 DEF c
    <3> QED
      BY <1>1, <1>4, <2>1, <3>1, BasicsParts, AppendProperties
  <2>4. DOMAIN callbacks' = 1..(k + 1)
    BY <2>3, LenProperties
  <2>5. \A id \in DOMAIN callbacks' :
           \/ id \in DOMAIN callbacks /\ callbacks'[id] = callbacks[id]
           \/ id = k + 1 /\ callbacks'[id] = c
    BY <1>4, <2>3, <2>4
  <2>6. Forward /\ AlikeOrder(flow, flow')
    BY <1>1, <1>5, ForwardSame
  <2>7. Grows /\ Ordering' = Ordering
    BY <1>1, BasicsParts, GrowsAlready DEF Client
  <2>8. Basics'
    <3>1. TaskOK' /\ GlanceOK' /\ InflightOK'
      BY <1>1, <1>2, <2>6, <2>7, TaskStays, GlanceStays, InflightStays DEF Client
    <3>2. CallbacksOK'
      BY <1>1, <1>3, <1>5, <2>1, <2>2, <2>3, <2>5
         DEF Basics, CallbacksOK, Alike
    <3> QED
      BY <1>1, <2>6, <2>7, <3>1, <3>2, BasicsKept, BasicsParts DEF Client
  <2>9. ReservationOK'
    <3>1. Waits /\ glance' = None
      BY <1>2 DEF Waits, Sent, Client
    <3> QED
      BY <1>1, <2>6, <2>7, <3>1, ReservationQuiet DEF Client
  <2>10. PhoneOK'
    <3>1. ASSUME NEW id \in DOMAIN callbacks', Current(id)'
          PROVE  id = k + 1 /\ flow.order # None /\ c.order = flow.order.id
      <4>1. CASE id \in DOMAIN callbacks /\ callbacks'[id] = callbacks[id]
        BY <1>3, <1>5, <3>1, <4>1 DEF Current, Alike
      <4>2. CASE id = k + 1 /\ callbacks'[id] = c
        BY <1>3, <1>5, <2>2, <3>1, <4>2 DEF Current, Alike, SameSession
      <4> QED
        BY <2>5, <4>1, <4>2
    <3>2. Callbacks'
      BY <1>5, <2>3, <3>1 DEF Callbacks, Alike
    <3> QED
      BY <1>2, <1>3, <1>5, <3>2 DEF PhoneOK, Making, Offered, PreparedCurrent, Alike
  <2>11. StagesOK' /\ Onward
    BY <1>1, <1>2, <2>6, <2>7, StagesQuiet, OnwardSame DEF AlikeOrder, Client
  <2> QED
    BY <2>8, <2>9, <2>10, <2>11 DEF Keeps
<1> QED
  BY <1>6, <1>7 DEF Client

LEMMA PreparedKeeps ==
  ASSUME GateInv, NEW id \in DOMAIN callbacks, Prepared(id), Wanted(id)
  PROVE  Keeps
<1>1. Basics /\ ReservationOK /\ PhoneOK /\ StagesOK
  BY DEF GateInv
<1>2. Current(id)
  BY DEF Wanted, Active
<1>3. /\ id = Len(callbacks) /\ flow.order # None /\ callbacks[id].order = flow.order.id
      /\ callbacks[id].session = flow.generation /\ id \in Nat
      /\ callbacks[id].order \in Nat \cup {None}
  BY <1>1, <1>2, BasicsParts, CallbacksParts DEF PhoneOK, Callbacks, Current
<1>4. PICK p : p = [phone |-> id, order |-> callbacks[id].order]
  OBVIOUS
<1>5. /\ p \in [phone : Nat, order : Nat \cup {None}] /\ p.phone = id
      /\ p.order = flow.order.id
  BY <1>3, <1>4
<1>6. flow' = [flow EXCEPT !.prepared = p]
  BY <1>4 DEF Prepared
<1>7. /\ flow' \in FlowType /\ AlikeOrder(flow, flow') /\ flow'.prepared = p
      /\ flow'.phoneGeneration = flow.phoneGeneration
  <2>1. flow' \in FlowType /\ AlikeOrder(flow, flow')
    BY <1>1, <1>5, <1>6, CoreReplaced, BasicsParts
  <2> QED
    BY <1>1, <1>6, <2>1, BasicsParts DEF FlowType
<1>8. SameCallbacks /\ Rest /\ task' = task
  BY <1>1, CallbackMoves DEF Prepared, Rest
<1>9. Forward
  BY <1>1, <1>7, ForwardAlike, BasicsParts
<1>10. Grows /\ Ordering' = Ordering
  BY <1>1, <1>8, BasicsParts, GrowsAlready DEF Rest
<1>11. Basics'
  <2>1. TaskOK'
    BY <1>1, <1>8, <1>9, <1>10, TaskStays DEF Rest
  <2> QED
    BY <1>1, <1>8, <1>9, <2>1, RestBasics
<1>12. ReservationOK'
  <2>1. Waits
    BY <1>1, <1>7, <1>8 DEF AlikeOrder, Waits, ReservationOK, Alone, SameSession, Sent
  <2>2. glance' # None /\ SameSession(glance.session)' => ~flow.pending
    BY <1>1, <1>7, <1>8 DEF AlikeOrder, Rest, ReservationOK, Alone, SameSession
  <2> QED
    BY <1>1, <1>7, <1>8, <1>10, <2>1, <2>2, ReservationQuiet DEF Rest
<1>13. PhoneOK'
  <2>1. \A i \in DOMAIN callbacks : Current(i)' <=> Current(i)
    BY <1>7, <1>8 DEF SameCallbacks, Current, AlikeOrder
  <2>2. Callbacks'
    BY <1>1, <1>7, <1>8, <2>1 DEF SameCallbacks, PhoneOK, Callbacks, AlikeOrder
  <2>3. PreparedCurrent' /\ Offered'
    BY <1>3, <1>5, <1>7, <1>8 DEF SameCallbacks, AlikeOrder, PreparedCurrent, Offered
  <2>4. Making'
    BY <1>1, <1>2, <1>8 DEF PhoneOK, Making
  <2> QED
    BY <2>2, <2>3, <2>4 DEF PhoneOK
<1>14. StagesOK' /\ Onward
  BY <1>1, <1>7, <1>8, <1>10, StagesQuiet, OnwardSame DEF AlikeOrder, Rest
<1> QED
  BY <1>11, <1>12, <1>13, <1>14 DEF Keeps

-----------------------------------------------------------------------------
\* Quotes.

\* The quote shown is taken back or replaced while no reservation may exist.
Requoting ==
    /\ flow' \in FlowType /\ AlikePhone(flow, flow') /\ flow'.pending = flow.pending
    /\ ~flow.pending
    /\ flow'.quote # None => flow'.quote \in Quoting
    /\ task' = None /\ Rest

LEMMA RequotingKeeps ==
  ASSUME GateInv, Requoting
  PROVE  Keeps
<1>1. Basics /\ ReservationOK /\ PhoneOK /\ StagesOK
  BY DEF GateInv
<1>2. Grows /\ Ordering' = Ordering /\ Quoting' = Quoting
  BY <1>1, BasicsParts, GrowsAlready DEF Requoting, Rest, Quoting
<1>3. Forward
  BY <1>1, <1>2, BasicsParts DEF Forward, Requoting, AlikePhone
<1>4. Basics'
  <2>1. TaskOK'
    BY DEF Requoting, TaskOK
  <2> QED
    BY <1>1, <1>3, <2>1, RestBasics DEF Requoting
<1>5. ReservationOK'
  <2>1. Keys'
    BY <1>1, <1>2, KeysStay DEF ReservationOK
  <2>2. \A n \in Ordering : Ours(n)' <=> Ours(n)
    BY DEF Requoting, Rest, AlikePhone, Ours
  <2>3. \A r \in inflight : (Late(r)' <=> Late(r)) /\ (Settled(r.order)' <=> Settled(r.order))
    BY <1>2 DEF Requoting, Rest, AlikePhone, Late, Settled, Dead, HasOrder
  <2>4. ~Sent'
    BY DEF Sent, Requoting
  <2>5. Unshown' /\ First'
    BY <1>1, <1>2, <2>2, <2>3, <2>4 DEF Requoting, Rest, ReservationOK, Unshown, First
  <2>6. Alone'
    BY DEF Requoting, Alone
  <2> QED
    BY <2>1, <2>5, <2>6 DEF ReservationOK
<1>6. PhoneOK'
  BY <1>1, PhoneQuiet DEF Requoting, Rest
<1>7. StagesOK' /\ Onward
  BY <1>1, <1>2, StagesQuiet, OnwardSame DEF Requoting, AlikePhone, Rest
<1> QED
  BY <1>4, <1>5, <1>6, <1>7 DEF Keeps

LEMMA QuotedRequotes ==
  ASSUME GateInv, Quoted
  PROVE  Requoting
<1>1. Basics /\ ReservationOK
  BY DEF GateInv
<1>2. /\ task # None /\ task.step = "asked" /\ task.kind = "quote"
      /\ task.reply # None /\ task.reply.is # "refused" /\ SameSession(task.session)
  BY DEF Quoted, Answered, Replies, At
<1>3. ~flow.pending
  BY <1>1, <1>2 DEF ReservationOK, Alone
<1>4. task.reply.is = "quote"
  <2>1. Answers("quote") = {"quote", "refused"}
    BY DEF Answers
  <2> QED
    BY <1>1, <1>2, <2>1, ReplyParts
<1>5. task.reply.id \in Quoting /\ task.reply.id \in Nat
  BY <1>1, <1>2, <1>4, ReplyParts, BasicsParts, DeskParts
<1>6. PICK v \in Nat \cup {None} : v = task.reply.id
  BY <1>5
<1>7. flow' = [flow EXCEPT !.quote = v, !.beneficiary = None]
  BY <1>6 DEF Quoted
<1>8. /\ flow' \in FlowType /\ flow'.quote = v
      /\ flow'.generation = flow.generation /\ flow'.phoneGeneration = flow.phoneGeneration
      /\ flow'.order = flow.order /\ flow'.pending = flow.pending
      /\ flow'.prepared = flow.prepared
  BY <1>1, <1>7, BasicsParts, Requoted
<1>9. Rest /\ task' = None
  BY <1>1, CallbacksRest DEF Quoted, Ended, Rest
<1> QED
  BY <1>3, <1>5, <1>6, <1>8, <1>9 DEF Requoting, AlikePhone

LEMMA EditRequotes ==
  ASSUME Basics, task = None, task' = task, ~flow.pending,
         NEW d \in {"deposit", "withdrawal"},
         flow' = ClearQuote(flow) \/ flow' = [ClearQuote(flow) EXCEPT !.direction = d], Rest
  PROVE  Requoting
<1> DEFINE g == ClearQuote(flow)
<1>1. /\ g \in FlowType /\ g.quote = None
      /\ g.generation = flow.generation /\ g.phoneGeneration = flow.phoneGeneration
      /\ g.order = flow.order /\ g.pending = flow.pending /\ g.prepared = flow.prepared
  BY BasicsParts, Requoted DEF ClearQuote
<1>2. flow' = g \/ flow' = [g EXCEPT !.direction = d]
  OBVIOUS
<1> HIDE DEF g
<1>3. flow' \in FlowType /\ Alike(g, flow')
  <2>1. Alike(g, g)
    BY DEF Alike
  <2>2. [g EXCEPT !.direction = d] \in FlowType /\ Alike(g, [g EXCEPT !.direction = d])
    BY <1>1, DisplayReplaced
  <2> QED
    BY <1>1, <1>2, <2>1, <2>2
<1> QED
  BY <1>1, <1>3 DEF Requoting, AlikePhone, Alike

LEMMA PressesImmediateKeeps ==
  ASSUME GateInv, NEW kind \in Immediate, Presses(kind)
  PROVE  Keeps
<1>1. Basics
  BY DEF GateInv
<1>2. Rest /\ task' = task
  BY <1>1, CallbacksRest DEF Presses, Rest
<1>3. Enabled(kind)
  BY DEF Presses
<1>4. CASE kind = "disconnect"
  <2>1. flow' = NoSession(flow)
    BY <1>4 DEF Presses
  <2>2. flow' \in FlowType /\ Alike(NoSession(flow), flow')
    BY <1>1, <2>1, SessionEnds DEF Alike
  <2>3. Quitting
    BY <1>1, <1>2, <2>2, SessionQuits
  <2> QED
    BY <2>3, QuittingKeeps
<1>5. CASE kind \in {"deposit", "withdrawal"}
  <2>1. flow' = [ClearQuote(flow) EXCEPT !.direction = kind]
    BY <1>5 DEF Presses, Immediate
  <2>2. task = None /\ ~flow.pending
    BY <1>3, <1>5 DEF Enabled
  <2>3. Requoting
    BY <1>1, <1>2, <1>5, <2>1, <2>2, EditRequotes
  <2> QED
    BY <2>3, RequotingKeeps
<1>6. CASE kind = "edit"
  <2>1. flow' = ClearQuote(flow)
    BY <1>6 DEF Presses, Immediate
  <2>2. task = None /\ ~flow.pending
    BY <1>3, <1>6 DEF Enabled
  <2>3. Requoting
    BY <1>1, <1>2, <2>1, <2>2, EditRequotes
  <2> QED
    BY <2>3, RequotingKeeps
<1>7. CASE kind = "cancel"
  <2>1. flow' = CancelPhone(flow)
    BY <1>7 DEF Presses, Immediate
  <2>2. Cancelling
    BY <1>1, <1>2, <2>1, Cancelled, BasicsParts DEF Cancelling
  <2> QED
    BY <2>2, CancellingKeeps
<1> QED
  BY <1>4, <1>5, <1>6, <1>7 DEF Immediate

\* The other steps that end a session or a phone request.
LEMMA EndsKeep ==
  ASSUME GateInv, Watches \/ Leaves \/ Renders
  PROVE  Keeps
<1>1. Basics
  BY DEF GateInv
<1>2. Rest /\ task' = task
  BY <1>1, CallbacksRest DEF Watches, Leaves, Renders, Rest
<1>3. flow.generation \in Nat /\ flow.phoneGeneration \in Nat /\ flow \in FlowType
  BY <1>1, BasicsParts
<1>4. CASE Watches
  <2>1. flow' \in FlowType /\ Alike(NoSession(flow), flow')
    BY <1>1, <1>4, SessionEnds DEF Alike, Watches
  <2>2. Quitting
    BY <1>1, <1>2, <2>1, SessionQuits
  <2> QED
    BY <2>2, QuittingKeeps
<1>5. CASE Leaves
  <2>1. PICK f \in FlowType : f = NoSession(flow)
    BY <1>1, SessionEnds
  <2>2. flow' \in FlowType /\ Alike(f, flow')
    BY <1>5, <2>1, DisplayReplaced DEF Leaves
  <2>3. Quitting
    BY <1>1, <1>2, <2>1, <2>2, SessionQuits
  <2> QED
    BY <2>3, QuittingKeeps
<1>6. CASE Renders
  <2>1. Cancelling
    BY <1>2, <1>3, <1>6, Cancelled DEF Cancelling, Renders
  <2> QED
    BY <2>1, CancellingKeeps
<1> QED
  BY <1>4, <1>5, <1>6

LEMMA RejectedKeeps ==
  ASSUME GateInv, NEW id \in DOMAIN callbacks, Rejected(id)
  PROVE  Keeps
<1>1. Basics
  BY DEF GateInv
<1>2. Rest /\ task' = task
  BY <1>1, CallbackMoves DEF Rejected, Rest
<1>3. Cancelling
  BY <1>1, <1>2, Cancelled, BasicsParts DEF Cancelling, Rejected
<1> QED
  BY <1>3, CancellingKeeps

LEMMA ConnectKeeps ==
  ASSUME GateInv, Begin, task.kind = "connect",
         ~(flow.closed \/ ~SameSession(task.session) \/ ~Allowed(task.kind, task.with))
  PROVE  Keeps
<1>1. Basics
  BY DEF GateInv
<1>2. /\ flow' = [NoSession(flow) EXCEPT !.generation = @ + 1]
      /\ task' = [task EXCEPT !.step = "select", !.session = flow.generation + 2]
  BY DEF Begin
<1>3. task # None /\ task.step = "begin" /\ glance = None /\ task.reply = None
  BY <1>1, TaskSame DEF Begin, At, Idle
<1>4. flow.generation \in Nat /\ flow.phoneGeneration \in Nat /\ flow \in FlowType
  BY <1>1, BasicsParts
<1>5. PICK f \in FlowType : f = NoSession(flow)
  BY <1>1, SessionEnds
<1>6. f.generation = flow.generation + 1 /\ f.generation + 1 = flow.generation + 2
      /\ f.generation + 1 \in Nat
  BY <1>1, <1>4, <1>5, SessionEnds
<1>7. flow' = [f EXCEPT !.generation = f.generation + 1]
  BY <1>2, <1>5
<1>8. flow' \in FlowType
  BY <1>6, <1>7, CoreReplaced
<1>9. /\ flow'.generation = flow.generation + 2 /\ flow'.order = f.order
      /\ flow'.phoneGeneration = f.phoneGeneration /\ flow'.quote = f.quote
      /\ flow'.pending = f.pending /\ flow'.prepared = f.prepared
  BY <1>6, <1>7 DEF FlowType
<1>10. /\ task' \in TaskType /\ task'.session = flow.generation + 2
       /\ task'.step = "select" /\ task'.kind = "connect" /\ task'.reply = None
  <2>1. flow.generation + 2 \in Nat
    BY <1>4
  <2> QED
    BY <1>1, <1>2, <1>3, <2>1, TaskParts DEF TaskType
<1>11. Rest
  BY <1>1, CallbacksRest DEF Begin, Rest
<1>12. /\ f.phoneGeneration = flow.phoneGeneration + 1 /\ f.order = None
       /\ f.quote = None /\ f.pending = FALSE /\ f.prepared = None
  BY <1>1, <1>5, SessionEnds
<1>13. /\ flow'.generation > flow.generation /\ flow'.phoneGeneration > flow.phoneGeneration
       /\ task'.session <= flow'.generation
  BY <1>4, <1>9, <1>10, <1>12
<1>14. Quitting
  BY <1>3, <1>8, <1>9, <1>10, <1>11, <1>12, <1>13 DEF Quitting
<1> QED
  BY <1>14, QuittingKeeps

-----------------------------------------------------------------------------
\* Answers that carry an order.

\* The order is shown; phone and proof stay only for the order they were for.
Showing(a) ==
    /\ a \in AnswerType /\ NotBehind(a)
    /\ flow' \in FlowType /\ flow'.generation = flow.generation
    /\ flow'.order = a /\ flow'.pending = FALSE /\ flow'.quote \in {flow.quote, None}
    /\ \/ flow'.phoneGeneration > flow.phoneGeneration /\ flow'.prepared = None
       \/ /\ flow.order # None /\ flow.order.id = a.id
          /\ flow'.phoneGeneration = flow.phoneGeneration /\ flow'.prepared = flow.prepared
    /\ task' = None \/ (task' = task /\ (task # None => task.step = "begin"))
    /\ glance' = None
    /\ SameCallbacks /\ UNCHANGED <<freighter, desk, inflight>>

LEMMA ShowingBasics ==
  ASSUME Basics, NEW a, Showing(a)
  PROVE  Basics' /\ Forward /\ Grows /\ Ordering' = Ordering
<1>1. Grows /\ Ordering' = Ordering
  BY BasicsParts, GrowsAlready DEF Showing
<1>2. Forward
  BY <1>1, BasicsParts DEF Forward, Showing, NotBehind, FlowType
<1>3. TaskOK' /\ GlanceOK' /\ CallbacksOK' /\ InflightOK'
  BY <1>1, <1>2, TaskStays, GlanceStays, CallbacksStay, InflightStays DEF Showing
<1> QED
  BY <1>1, <1>2, <1>3, BasicsKept, BasicsParts DEF Showing

LEMMA ShowingPhone ==
  ASSUME GateAssumption, Basics, PhoneOK, NEW a, Showing(a)
  PROVE  PhoneOK'
<1>1. Making'
  BY DEF Showing, Making
<1>2. a # None
  BY DEF GateAssumption, Showing
<1>3. CASE flow'.phoneGeneration > flow.phoneGeneration /\ flow'.prepared = None
  <2>1. flow'.phoneGeneration \in Nat
    BY DEF Showing, FlowType
  <2>2. \A id \in DOMAIN callbacks' : ~Current(id)'
    BY <1>3, <2>1, NoneCurrent DEF Showing
  <2> QED
    BY <1>1, <1>3, <2>2 DEF PhoneOK, Callbacks, PreparedCurrent, Offered
<1>4. CASE /\ flow.order # None /\ flow.order.id = a.id
           /\ flow'.phoneGeneration = flow.phoneGeneration /\ flow'.prepared = flow.prepared
  <2>1. \A id \in DOMAIN callbacks : Current(id)' <=> Current(id)
    BY <1>4 DEF Showing, SameCallbacks, Current
  <2>2. Callbacks'
    BY <1>2, <1>4, <2>1 DEF Showing, SameCallbacks, PhoneOK, Callbacks
  <2>3. PreparedCurrent' /\ Offered'
    BY <1>2, <1>4 DEF Showing, SameCallbacks, PhoneOK, PreparedCurrent, Offered
  <2> QED
    BY <1>1, <2>2, <2>3 DEF PhoneOK
<1> QED
  BY <1>3, <1>4 DEF Showing

LEMMA ShowingStages ==
  ASSUME Basics, StagesOK, NEW a, Showing(a)
  PROVE  StagesOK' /\ Onward
<1>1. a.o.step <= desk.orders[a.id].step
  BY DEF Showing, NotBehind
<1>2. task' # None => task'.reply = None
  BY TaskSame DEF Showing
<1> QED
  BY <1>1, <1>2 DEF Showing, StagesOK, Onward, NotBehind

LEMMA ShowingKeeps ==
  ASSUME GateAssumption, GateInv, NEW a, Showing(a), ~flow.pending, seen' = seen
  PROVE  Keeps
<1>1. Basics /\ ReservationOK /\ PhoneOK /\ StagesOK
  BY DEF GateInv
<1>2. Basics' /\ Grows /\ Ordering' = Ordering
  BY <1>1, ShowingBasics
<1>3. ReservationOK'
  <2>1. Keys'
    BY <1>1, <1>2, KeysStay DEF ReservationOK
  <2>2. \A n \in Ordering : Ours(n)' <=> Ours(n)
    BY DEF Showing, Ours
  <2>3. \A r \in inflight : (Late(r)' <=> Late(r)) /\ (Settled(r.order)' <=> Settled(r.order))
    BY <1>2 DEF Showing, Late, Settled, Dead, HasOrder
  <2>4. ~Sent'
    BY DEF Sent, Showing
  <2>5. Unshown' /\ First'
    BY <1>1, <1>2, <2>2, <2>3, <2>4 DEF Showing, ReservationOK, Unshown, First
  <2>6. Alone'
    BY DEF Showing, Alone
  <2> QED
    BY <2>1, <2>5, <2>6 DEF ReservationOK
<1>4. PhoneOK' /\ StagesOK' /\ Onward
  BY <1>1, ShowingPhone, ShowingStages
<1> QED
  BY <1>2, <1>3, <1>4 DEF Keeps

\* What the answers to orderAction, signProof and refresh are.
LEMMA OrderAnswered ==
  ASSUME GateInv, NEW kinds \in SUBSET (Acts \cup {"refresh"}), Answered(kinds)
  PROVE  /\ task.reply \in AnswerType /\ NotBehind(task.reply) /\ glance = None
         /\ ~flow.pending /\ flow \in FlowType
<1>1. Basics /\ ReservationOK /\ StagesOK
  BY DEF GateInv
<1>2. /\ task # None /\ task.step = "asked" /\ task.kind \in Acts \cup {"refresh"}
      /\ task.reply # None /\ task.reply.is # "refused" /\ SameSession(task.session)
  BY DEF Answered, Replies, At
<1>3. Answers(task.kind) = {"order", "refused"}
  BY <1>2 DEF Answers, Acts
<1>4. task.reply.is = "order" /\ task.reply \in ReplyType /\ glance = None
  BY <1>1, <1>2, <1>3, ReplyParts
<1>5. task.reply \in AnswerType
  BY <1>4, OrderReplies
<1> QED
  BY <1>1, <1>2, <1>4, <1>5, BasicsParts DEF StagesOK, ReservationOK, Alone

LEMMA ActedShows ==
  ASSUME GateInv, Acted \/ Submitted \/ Refreshed
  PROVE  Showing(task.reply) /\ ~flow.pending /\ seen' = seen
<1>1. Basics
  BY DEF GateInv
<1>2. PICK kinds \in SUBSET (Acts \cup {"refresh"}) : Answered(kinds)
  <2>1. /\ {"authorize", "bank", "settle"} \in SUBSET (Acts \cup {"refresh"})
        /\ {"sign"} \in SUBSET (Acts \cup {"refresh"})
        /\ {"refresh"} \in SUBSET (Acts \cup {"refresh"})
    BY DEF Acts
  <2> QED
    BY <2>1 DEF Acted, Submitted, Refreshed
<1>3. PICK a \in AnswerType : a = task.reply
  BY <1>2, OrderAnswered
<1>4. NotBehind(a) /\ glance = None /\ flow.pending = FALSE /\ flow \in FlowType
  <2>1. flow.pending \in BOOLEAN
    BY <1>1, BasicsParts
  <2> QED
    BY <1>2, <1>3, <2>1, OrderAnswered
<1>5. PICK f : /\ f = flow \/ f = [CancelPhone(flow) EXCEPT !.prepared = None]
               /\ flow' = AcceptOrder(f, a)
  BY <1>3 DEF Acted, Submitted, Refreshed, Accepts
<1>6. /\ f \in FlowType /\ AlikeOrder(flow, f)
      /\ \/ f.phoneGeneration = flow.phoneGeneration + 1 /\ f.prepared = None
         \/ f.phoneGeneration = flow.phoneGeneration /\ f.prepared = flow.prepared
  <2>1. AlikeOrder(flow, flow)
    BY DEF AlikeOrder
  <2> QED
    BY <1>4, <1>5, <2>1, Dropped
<1>7. /\ flow' \in FlowType /\ flow'.generation = f.generation
      /\ flow'.order = a /\ flow'.pending = f.pending /\ flow'.quote \in {f.quote, None}
      /\ \/ flow'.phoneGeneration > f.phoneGeneration /\ flow'.prepared = None
         \/ /\ f.order # None /\ f.order.id = a.id
            /\ flow'.phoneGeneration = f.phoneGeneration /\ flow'.prepared = f.prepared
  BY <1>5, <1>6, Shown
<1>8. \/ flow'.phoneGeneration > flow.phoneGeneration /\ flow'.prepared = None
      \/ /\ flow.order # None /\ flow.order.id = a.id
         /\ flow'.phoneGeneration = flow.phoneGeneration /\ flow'.prepared = flow.prepared
  <2>1. flow.phoneGeneration \in Nat /\ f.phoneGeneration \in Nat /\ flow'.phoneGeneration \in Nat
    BY <1>4, <1>6, <1>7, FlowParts
  <2> QED
    BY <1>6, <1>7, <2>1 DEF AlikeOrder
<1>9. /\ task' = None /\ UNCHANGED <<glance, callbacks, freighter, desk, inflight, seen>>
  BY DEF Acted, Submitted, Refreshed, Accepts, Ended
<1> QED
  BY <1>1, <1>3, <1>4, <1>6, <1>7, <1>8, <1>9, CallbacksRest DEF Showing, AlikeOrder

LEMMA GlancedKeeps ==
  ASSUME GateAssumption, GateInv, Glanced
  PROVE  Keeps
<1>1. Basics /\ ReservationOK /\ StagesOK
  BY DEF GateInv
<1>2. CASE ~SameSession(glance.session)
  <2>1. Calm
    BY <1>1, <1>2, CallbacksRest, AlikeItself, BasicsParts DEF Calm, Glanced
  <2> QED
    BY <2>1, CalmKeeps
<1>3. CASE SameSession(glance.session)
  <2>1. glance # None /\ glance.reply # None /\ flow' = AcceptOrder(flow, glance.reply)
    BY <1>3 DEF Glanced
  <2>2. PICK a \in AnswerType : a = glance.reply /\ NotBehind(a)
    BY <1>1, <2>1 DEF Basics, GlanceOK, GlanceType, StagesOK
  <2>3. ~flow.pending /\ flow \in FlowType /\ flow.pending = FALSE
    <3>1. flow.pending \in BOOLEAN
      BY <1>1, BasicsParts
    <3> QED
      BY <1>1, <1>3, <2>1, <3>1, BasicsParts DEF ReservationOK, Alone
  <2>4. task # None => task.step = "begin"
    BY <1>1, <2>1, UnderWay
  <2>5. /\ task' = task /\ glance' = None
        /\ UNCHANGED <<callbacks, freighter, desk, inflight, seen>>
    BY DEF Glanced
  <2>6. Showing(a)
    BY <1>1, <2>1, <2>2, <2>3, <2>4, <2>5, Shown, CallbacksRest DEF Showing
  <2> QED
    BY <2>3, <2>5, <2>6, ShowingKeeps
<1> QED
  BY <1>2, <1>3

-----------------------------------------------------------------------------
\* The answer to a reservation.

LEMMA OrderedParts ==
  ASSUME GateInv, Ordered
  PROVE  /\ Basics /\ ReservationOK /\ PhoneOK /\ StagesOK /\ Sent
         /\ task.reply # None /\ task.reply \in ReplyType /\ glance = None
         /\ task.reply.is \in {"order", "quote_expired", "not_admitted", "ofac"}
         /\ flow.pending /\ task.order = flow.quote /\ task.order \in Quoting
         /\ task' = None
<1>1. Basics /\ ReservationOK /\ PhoneOK /\ StagesOK
  BY DEF GateInv
<1>2. /\ task # None /\ task.step = "asked" /\ task.kind = "reserve"
      /\ task.reply # None /\ task.reply.is # "refused" /\ SameSession(task.session)
  BY DEF Ordered, Answered, Replies, At
<1>3. Answers("reserve") = {"order", "quote_expired", "refused", "not_admitted", "ofac"}
  BY DEF Answers
<1>4. /\ task.reply.is \in {"order", "quote_expired", "not_admitted", "ofac"}
      /\ task.reply \in ReplyType /\ glance = None
  BY <1>1, <1>2, <1>3, ReplyParts
<1>5. Sent
  BY <1>2 DEF Sent
<1>6. flow.pending /\ task.order = flow.quote
  BY <1>1, <1>5 DEF ReservationOK, Unshown
<1>7. task.order \in Quoting
  BY <1>1, <1>2, TaskParts DEF TaskOK
<1>8. task' = None
  BY DEF Ordered
<1> QED
  BY <1>1, <1>2, <1>4, <1>5, <1>6, <1>7, <1>8

LEMMA OrderShown ==
  ASSUME GateAssumption, GateInv, Ordered, task.reply.is = "order"
  PROVE  Keeps
<1>1. /\ Basics /\ ReservationOK /\ PhoneOK /\ StagesOK /\ Sent
      /\ task.reply # None /\ task.reply \in ReplyType /\ glance = None
      /\ flow.pending /\ task.order = flow.quote /\ task.order \in Quoting
      /\ task' = None
  BY OrderedParts
<1>2. PICK a \in AnswerType : a = task.reply /\ NotBehind(a)
  <2>1. task.reply \in AnswerType
    BY <1>1, OrderReplies
  <2>2. task # None
    BY <1>1 DEF Sent
  <2> QED
    BY <1>1, <2>1, <2>2 DEF StagesOK
<1>3. PICK f : f = AcceptOrder(flow, a)
  OBVIOUS
<1>4. /\ f \in FlowType /\ f.generation = flow.generation
      /\ f.order = a /\ f.quote \in {flow.quote, None}
      /\ \/ f.phoneGeneration > flow.phoneGeneration /\ f.prepared = None
         \/ /\ flow.order # None /\ flow.order.id = a.id
            /\ f.phoneGeneration = flow.phoneGeneration /\ f.prepared = flow.prepared
  BY <1>1, <1>3, Shown, BasicsParts
<1>5. flow' = [f EXCEPT !.pending = FALSE] /\ seen' = seen \cup {a.id}
  BY <1>2, <1>3 DEF Ordered
<1>6. /\ flow' \in FlowType /\ flow'.pending = FALSE
      /\ flow'.generation = f.generation /\ flow'.phoneGeneration = f.phoneGeneration
      /\ flow'.order = f.order /\ flow'.quote = f.quote /\ flow'.prepared = f.prepared
  BY <1>4, <1>5, Pended
<1>7. SameCallbacks /\ UNCHANGED <<glance, freighter, desk, inflight>>
  BY <1>1, CallbacksRest DEF Ordered, Ended
<1>8. Showing(a)
  BY <1>1, <1>2, <1>4, <1>6, <1>7 DEF Showing
<1>9. Basics' /\ Grows /\ Ordering' = Ordering
  BY <1>1, <1>8, ShowingBasics
<1>10. ReservationOK'
  <2>1. Keys'
    BY <1>1, <1>9, KeysStay DEF ReservationOK
  <2>2. \A n \in Ordering : Ours(n)' <=> Ours(n)
    BY <1>4, <1>6, <1>7 DEF Ours
  <2>3. \A r \in inflight : (Late(r)' <=> Late(r)) /\ (Settled(r.order)' <=> Settled(r.order))
    BY <1>4, <1>6, <1>7, <1>9 DEF Late, Settled, Dead, HasOrder
  <2>4. ~Sent'
    BY <1>1 DEF Sent
  <2>5. a.id \in Ordering /\ desk.orders[a.id].quote = flow.quote
    BY <1>1, <1>2 DEF ReservationOK, First
  <2>6. \A n \in Ordering : Ours(n) => n \in seen'
    <3> SUFFICES ASSUME NEW n \in Ordering, Ours(n), n \notin seen PROVE n = a.id
      BY <1>5
    <3>1. desk.orders[n].quote = flow.quote
      BY <1>1 DEF ReservationOK, Unshown
    <3> QED
      BY <1>1, <2>5, <3>1 DEF ReservationOK, Keys
  <2>7. \A r \in inflight : Late(r) => Settled(r.order)
    BY <1>1, <2>5 DEF ReservationOK, Unshown, Settled, HasOrder
  <2>8. Unshown' /\ First'
    BY <1>6, <1>7, <1>9, <2>2, <2>3, <2>4, <2>6, <2>7 DEF Unshown, First
  <2>9. Alone'
    BY <1>1, <1>6 DEF Alone
  <2> QED
    BY <2>1, <2>8, <2>9 DEF ReservationOK
<1>11. PhoneOK' /\ StagesOK' /\ Onward
  BY <1>1, <1>8, ShowingPhone, ShowingStages
<1> QED
  BY <1>9, <1>10, <1>11 DEF Keeps

\* A refusal leaves the reservation unknown if an earlier request was sent, and
\* else shows that there is none.
LEMMA OrderRefused ==
  ASSUME GateInv, Ordered, task.reply.is # "order"
  PROVE  Keeps
<1>1. /\ Basics /\ ReservationOK /\ PhoneOK /\ StagesOK /\ Sent
      /\ task.reply # None /\ glance = None
      /\ task.reply.is \in {"quote_expired", "not_admitted", "ofac"}
      /\ flow.pending /\ task.order = flow.quote /\ task.order \in Quoting
      /\ task' = None /\ task # None
  BY OrderedParts DEF Sent
<1>2. seen' = seen /\ Rest
  <2>1. seen' = seen
    BY DEF Ordered
  <2> QED
    BY <1>1, <2>1, CallbacksRest DEF Ordered, Ended, Rest
<1>3. task.unknown \in BOOLEAN
  BY <1>1, TaskParts
<1>4. PICK f \in FlowType :
         /\ f.generation = flow.generation /\ f.phoneGeneration = flow.phoneGeneration
         /\ f.order = flow.order /\ f.prepared = flow.prepared
         /\ \/ /\ flow' = [f EXCEPT !.pending = task.unknown] /\ f.quote = flow.quote
               /\ task.reply.is # "quote_expired"
            \/ /\ flow' = [f EXCEPT !.pending = FALSE] /\ f.quote = None
               /\ task.reply.is = "quote_expired"
  <2>1. CASE task.reply.is = "ofac"
    <3>1. flow' = [flow EXCEPT !.pending = StillPending(flow),
                               !.screening = IF @ = None THEN None ELSE "match"]
      BY <2>1 DEF Ordered
    <3>2. PICK s \in {None, "no_match", "match", "unavailable"} :
            s = IF flow.screening = None THEN None ELSE "match"
      OBVIOUS
    <3>3. PICK f : f = [flow EXCEPT !.screening = s]
      OBVIOUS
    <3>4. f \in FlowType /\ Alike(flow, f)
      BY <1>1, <3>3, DisplayReplaced, BasicsParts
    <3>5. flow' = [f EXCEPT !.pending = task.unknown]
      BY <1>1, <3>1, <3>2, <3>3, BasicsParts DEF StillPending, FlowType
    <3> QED
      BY <2>1, <3>4, <3>5 DEF Alike
  <2>2. CASE task.reply.is = "not_admitted"
    <3>1. flow' = [flow EXCEPT !.pending = task.unknown]
      BY <2>2 DEF Ordered, StillPending
    <3> QED
      BY <1>1, <2>2, <3>1, BasicsParts
  <2>3. CASE task.reply.is = "quote_expired"
    <3>1. PICK f : f = ClearQuote(flow)
      OBVIOUS
    <3>2. /\ f \in FlowType /\ f.quote = None
          /\ f.generation = flow.generation /\ f.phoneGeneration = flow.phoneGeneration
          /\ f.order = flow.order /\ f.pending = flow.pending /\ f.prepared = flow.prepared
      BY <1>1, <3>1, BasicsParts, Requoted DEF ClearQuote
    <3>3. flow' = [f EXCEPT !.pending = FALSE]
      BY <2>3, <3>1 DEF Ordered
    <3> QED
      BY <2>3, <3>2, <3>3
  <2> QED
    BY <1>1, <2>1, <2>2, <2>3
<1>5. PICK v \in BOOLEAN :
         /\ flow' = [f EXCEPT !.pending = v]
         /\ \/ v = task.unknown /\ f.quote = flow.quote /\ task.reply.is # "quote_expired"
            \/ v = FALSE /\ f.quote = None /\ task.reply.is = "quote_expired"
  BY <1>3, <1>4
<1>6. /\ flow' \in FlowType /\ flow'.pending = v
      /\ flow'.generation = flow.generation /\ flow'.phoneGeneration = flow.phoneGeneration
      /\ flow'.order = flow.order /\ flow'.quote = f.quote /\ flow'.prepared = flow.prepared
  BY <1>4, <1>5, Pended
<1>7. Forward
  BY <1>1, <1>5, <1>6, BasicsParts DEF Forward
<1>8. Basics' /\ Grows /\ Ordering' = Ordering
  <2>1. TaskOK'
    BY <1>1 DEF TaskOK
  <2> QED
    BY <1>1, <1>2, <1>7, <2>1, RestBasics
<1>9. ReservationOK'
  <2>1. Keys'
    BY <1>1, <1>8, KeysStay DEF ReservationOK
  <2>2. \A n \in Ordering : Ours(n)' <=> Ours(n)
    BY <1>2, <1>6 DEF Ours, Rest
  <2>3. \A r \in inflight : (Late(r)' <=> Late(r)) /\ (Settled(r.order)' <=> Settled(r.order))
    BY <1>2, <1>6, <1>8 DEF Late, Settled, Dead, HasOrder, Rest
  <2>4. ~Sent'
    BY <1>1 DEF Sent
  <2>5. ~v => \A r \in inflight : Late(r) => Settled(r.order)
    BY <1>1, <1>5 DEF ReservationOK, First, Unshown, Settled
  <2>6. ~v => \A n \in Ordering : Ours(n) => n \in seen
    <3>1. CASE v = task.unknown
      BY <1>1, <3>1 DEF ReservationOK, First
    <3>2. CASE task.reply.is = "quote_expired"
      BY <1>1, <3>2 DEF ReservationOK, First, Unshown, HasOrder
    <3> QED
      BY <1>5, <3>1, <3>2
  <2>7. v => f.quote = flow.quote
    BY <1>5
  <2>8. Unshown'
    BY <1>1, <1>2, <1>6, <1>8, <2>2, <2>3, <2>4, <2>5, <2>6, <2>7
       DEF ReservationOK, Unshown, Rest
  <2>9. First' /\ Alone'
    BY <1>1, <1>2, <2>4 DEF First, Alone, Rest
  <2> QED
    BY <2>1, <2>8, <2>9 DEF ReservationOK
<1>10. PhoneOK'
  BY <1>1, <1>2, <1>6, PhoneQuiet DEF AlikePhone, Rest
<1>11. StagesOK' /\ Onward
  BY <1>1, <1>2, <1>6, <1>8, StagesQuiet, OnwardSame DEF Rest
<1> QED
  BY <1>8, <1>9, <1>10, <1>11 DEF Keeps


-----------------------------------------------------------------------------
\* The anchor by itself, and the automatic check.

\* Only the anchor moves, and opens no order.
LEMMA DeskMoves ==
  ASSUME GateInv, Grows, Ordering' = Ordering, inflight' \subseteq inflight,
         UNCHANGED <<flow, task, glance, callbacks, freighter, seen>>
  PROVE  Keeps
<1>1. Basics /\ ReservationOK /\ PhoneOK /\ StagesOK
  BY DEF GateInv
<1>2. flow.pending \in BOOLEAN
  BY <1>1, BasicsParts
<1>3. Grows /\ Ordering' = Ordering /\ inflight' \subseteq inflight
  OBVIOUS
<1>4. UNCHANGED <<flow, task, glance, callbacks, freighter, seen>>
  OBVIOUS
<1>5. /\ flow' \in FlowType /\ Alike(flow, flow') /\ Forward /\ AlikeOrder(flow, flow')
      /\ SameCallbacks
  BY <1>1, <1>4, AlikeItself, ForwardSame, CallbacksRest
<1>6. TaskOK' /\ GlanceOK' /\ CallbacksOK' /\ InflightOK'
  BY <1>1, <1>3, <1>4, <1>5, TaskStays, GlanceStays, CallbacksStay, InflightStays
<1>7. Basics'
  BY <1>1, <1>3, <1>4, <1>5, <1>6, BasicsParts, BasicsKept
<1>8. ReservationOK'
  <2>1. Waits
    BY <1>1, <1>4 DEF Waits, ReservationOK, Alone, SameSession, Sent
  <2>2. glance' # None /\ SameSession(glance.session)' => ~flow.pending
    BY <1>1, <1>4 DEF ReservationOK, Alone, SameSession
  <2> QED
    BY <1>1, <1>3, <1>4, <1>5, <2>1, <2>2, ReservationQuiet
<1>9. PhoneOK'
  BY <1>1, <1>4, <1>5, PhoneQuiet DEF AlikePhone
<1>10. StagesOK' /\ Onward
  BY <1>1, <1>3, <1>4, StagesQuiet, OnwardSame
<1> QED
  BY <1>7, <1>8, <1>9, <1>10 DEF Keeps

\* A transaction is confirmed or fails, quotes or the policy expire.
LEMMA DeskKeeps ==
  ASSUME GateInv, (\E n \in Ordering : Confirms(n)) \/ Expires
  PROVE  Keeps
<1>1. desk \in DeskType
  BY BasicsParts DEF GateInv
<1>2. Grows /\ Ordering' = Ordering
  BY <1>1, ConfirmsGrows, ExpiresGrows
<1> QED
  BY <1>2, DeskMoves DEF Confirms, Expires

\* A step of the automatic check: only what it is changes.
LEMMA GlanceKeeps ==
  ASSUME GateInv, NEW g \in GlanceType, glance' = g, g.order \in Ordering,
         g.session <= flow.generation, task # None => task.step = "begin",
         SameSession(g.session) => ~flow.pending,
         g.reply # None => g.reply \in AnswerType /\ NotBehind(g.reply),
         UNCHANGED <<flow, task, callbacks, freighter, desk, inflight, seen>>
  PROVE  Keeps
<1>1. Basics /\ ReservationOK /\ PhoneOK /\ StagesOK
  BY DEF GateInv
<1>2. /\ flow' \in FlowType /\ Alike(flow, flow') /\ Forward /\ AlikeOrder(flow, flow')
      /\ SameCallbacks
  BY <1>1, AlikeItself, ForwardSame, CallbacksRest
<1>3. Grows /\ Ordering' = Ordering
  BY <1>1, BasicsParts, GrowsAlready
<1>4. TaskOK'
  <2> SUFFICES ASSUME task # None PROVE TaskOK'
    BY DEF TaskOK
  <2>1. TaskOK /\ task.step = "begin" /\ Quoting' = Quoting
    BY <1>1 DEF Basics, Quoting
  <2> QED
    BY <1>3, <2>1 DEF TaskOK
<1>5. GlanceOK' /\ CallbacksOK' /\ InflightOK'
  <2>1. GlanceOK'
    BY <1>3 DEF GlanceOK
  <2> QED
    BY <1>1, <1>2, <1>3, <2>1, CallbacksStay, InflightStays
<1>6. Basics'
  BY <1>1, <1>2, <1>3, <1>4, <1>5, BasicsParts, BasicsKept
<1>7. ReservationOK'
  <2>1. Waits
    BY <1>1 DEF Waits, ReservationOK, Alone, SameSession, Sent
  <2>2. glance' # None /\ SameSession(glance.session)' => ~flow.pending
    BY DEF SameSession
  <2> QED
    BY <1>1, <1>2, <1>3, <2>1, <2>2, ReservationQuiet
<1>8. PhoneOK'
  BY <1>1, <1>2, PhoneQuiet DEF AlikePhone
<1>9. StagesOK' /\ Onward
  <2>1. glance' # None /\ glance'.reply # None
          => glance'.reply \in AnswerType /\ NotBehind(glance.reply)'
    BY <1>3 DEF NotBehind
  <2> QED
    BY <1>1, <1>3, <2>1, StagesQuiet, OnwardSame
<1> QED
  BY <1>6, <1>7, <1>8, <1>9 DEF Keeps

LEMMA GlancesKeep ==
  ASSUME GateInv, Glances
  PROVE  Keeps
<1>1. Basics /\ flow.order # None /\ ~flow.pending /\ task = None
  BY DEF GateInv, Glances
<1>2. /\ flow.order.id \in Nat /\ flow.order.id \in Ordering /\ flow.generation \in Nat
  <2>1. flow.order \in AnswerType
    BY <1>1, BasicsParts
  <2> QED
    BY <1>1, <2>1, BasicsParts DEF AnswerType
<1>3. PICK g : g = [order |-> flow.order.id, session |-> flow.generation, reply |-> None]
  OBVIOUS
<1>4. /\ g \in GlanceType /\ g.order \in Ordering /\ g.session <= flow.generation
      /\ g.reply = None
  BY <1>2, <1>3 DEF GlanceType
<1>5. glance' = g /\ UNCHANGED <<flow, task, callbacks, freighter, desk, inflight, seen>>
  BY <1>3 DEF Glances
<1> QED
  BY <1>1, <1>4, <1>5, GlanceKeeps

LEMMA GlanceServedKeeps ==
  ASSUME GateInv, GlanceServed
  PROVE  Keeps
<1>1. Basics /\ ReservationOK /\ StagesOK
  BY DEF GateInv
<1>2. CASE glance' = None
  BY <1>1, <1>2, GlanceLostCalm, CalmKeeps
<1>3. CASE glance' = [glance EXCEPT !.reply = Answer(desk, glance.order)]
  <2>1. /\ glance # None /\ glance \in GlanceType /\ glance.order \in Ordering
        /\ glance.session <= flow.generation
    BY <1>1 DEF Basics, GlanceOK, GlanceServed
  <2>2. PICK n \in Ordering : n = glance.order
    BY <2>1
  <2>3. PICK a \in AnswerType : /\ a = Answer(desk, n) /\ a.id = n
                                /\ a.o = desk.orders[n]
    BY <1>1, BasicsParts, AnswerTyped
  <2>4. NotBehind(a)
    <3>1. desk.orders[n].step \in Nat
      BY <1>1, BasicsParts, DeskParts
    <3> QED
      BY <1>1, <2>3, <3>1 DEF NotBehind, StagesOK
  <2>5. PICK g : g = [glance EXCEPT !.reply = a]
    OBVIOUS
  <2>6. /\ g \in GlanceType /\ g.order = glance.order /\ g.session = glance.session
        /\ g.reply = a
    BY <2>1, <2>5 DEF GlanceType
  <2>7. task # None => task.step = "begin"
    BY <1>1, <2>1, UnderWay
  <2>8. SameSession(g.session) => ~flow.pending
    BY <1>1, <2>1, <2>6 DEF ReservationOK, Alone
  <2>9. glance' = g /\ UNCHANGED <<flow, task, callbacks, freighter, desk, inflight, seen>>
    BY <1>3, <2>2, <2>3, <2>5 DEF GlanceServed
  <2> QED
    BY <2>1, <2>4, <2>6, <2>7, <2>8, <2>9, GlanceKeeps
<1> QED
  BY <1>2, <1>3 DEF GlanceServed


-----------------------------------------------------------------------------
\* Requests that are lost, and answers.

LEMMA RequestTyped ==
  ASSUME Basics, task # None, task.step = "asked", task.kind \in Posts
  PROVE  /\ Request \in RequestType /\ Request.kind = task.kind
         /\ Request.order = task.order /\ Request.session = task.session
         /\ Request.session <= flow.generation
         /\ Request.order \in IF task.kind = "reserve" THEN Quoting ELSE Ordering
<1>1. task.order \in IF task.kind = "reserve" THEN Quoting ELSE Ordering
  BY TaskParts DEF TaskOK, Posts, Acts
<1>2. task.order \in Nat
  BY <1>1, BasicsParts, DeskParts
<1> QED
  BY <1>1, <1>2, TaskParts DEF Request, RequestType

\* A page gives up waiting: what it asked may still be handled.
LEMMA LostKeeps ==
  ASSUME GateInv, Lost
  PROVE  Keeps
<1>1. Basics /\ ReservationOK /\ PhoneOK /\ StagesOK
  BY DEF GateInv
<1>2. CASE inflight' = inflight
  BY <1>1, <1>2, LostCalm, CalmKeeps
<1>3. CASE task.kind \in Posts /\ inflight' = inflight \cup {Request}
  <2>1. task # None /\ task.step = "asked" /\ task' = None
    BY DEF Lost, At
  <2>2. PICK q : q = Request
    OBVIOUS
  <2>3. /\ q \in RequestType /\ q.kind = task.kind
        /\ q.order = task.order /\ q.session = task.session
        /\ q.session <= flow.generation
        /\ q.order \in IF q.kind = "reserve" THEN Quoting ELSE Ordering
    BY <1>1, <1>3, <2>1, <2>2, RequestTyped
  <2>4. /\ flow' \in FlowType /\ Alike(flow, flow') /\ Forward /\ AlikeOrder(flow, flow')
    BY <1>1, FailingAlike, ForwardSame, BasicsParts DEF Lost
  <2>5. /\ inflight' = inflight \cup {q} /\ SameCallbacks
        /\ UNCHANGED <<glance, callbacks, freighter, desk, seen>>
    BY <1>1, <1>3, <2>2, CallbacksRest DEF Lost
  <2>6. Grows /\ Ordering' = Ordering /\ Quoting' = Quoting
    BY <1>1, <2>5, BasicsParts, GrowsAlready DEF Quoting
  <2>7. /\ flow'.generation = flow.generation /\ flow'.phoneGeneration = flow.phoneGeneration
        /\ flow'.order = flow.order /\ flow'.quote = flow.quote
        /\ flow'.pending = flow.pending /\ flow'.prepared = flow.prepared
    BY <2>4 DEF Alike
  <2>8. Basics'
    <3>1. InflightOK'
      BY <1>1, <2>3, <2>5, <2>6, <2>7 DEF Basics, InflightOK
    <3>2. TaskOK'
      BY <2>1 DEF TaskOK
    <3>3. GlanceOK' /\ CallbacksOK'
      BY <1>1, <2>4, <2>5, <2>6, GlanceStays, CallbacksStay
    <3> QED
      BY <1>1, <2>4, <2>5, <2>6, <3>1, <3>2, <3>3, BasicsParts, BasicsKept
  <2>9. ReservationOK'
    <3>1. Keys'
      BY <1>1, <2>6, KeysStay DEF ReservationOK
    <3>2. \A n \in Ordering : Ours(n)' <=> Ours(n)
      BY <2>5, <2>7 DEF Ours
    <3>3. \A r : (Late(r)' <=> Late(r)) /\ (Settled(r.order)' <=> Settled(r.order))
      BY <2>5, <2>6, <2>7 DEF Late, Settled, Dead, HasOrder
    <3>4. Late(q) => flow.pending /\ q.order = flow.quote
      BY <1>1, <2>1, <2>3 DEF Late, ReservationOK, Unshown, Sent, SameSession
    <3>5. ~Sent'
      BY <2>1 DEF Sent
    <3>6. Unshown' /\ First'
      BY <1>1, <2>5, <2>6, <2>7, <3>2, <3>3, <3>4, <3>5 DEF ReservationOK, Unshown, First
    <3>7. Alone'
      BY <1>1, <2>1, <2>5, <2>7 DEF ReservationOK, Alone, SameSession
    <3> QED
      BY <3>1, <3>6, <3>7 DEF ReservationOK
  <2>10. PhoneOK'
    BY <1>1, <2>1, <2>5, <2>7, PhoneQuiet DEF AlikePhone
  <2>11. StagesOK' /\ Onward
    BY <1>1, <2>1, <2>5, <2>6, <2>7, StagesQuiet, OnwardSame
  <2> QED
    BY <2>8, <2>9, <2>10, <2>11 DEF Keeps
<1> QED
  BY <1>2, <1>3 DEF Lost

\* The anchor answers the request of the task with rep.
Answering(rep) ==
    /\ task # None /\ task.step = "asked" /\ task.reply = None
    /\ rep \in ReplyType /\ rep.is \in Answers(task.kind)
    /\ rep.is = "quote" => rep.id \in Quoting'
    /\ rep.is = "order" => NotBehind(rep)'
    /\ task' = [task EXCEPT !.reply = rep] /\ Grows
    /\ UNCHANGED <<flow, glance, callbacks, freighter, inflight, seen>>

LEMMA AnsweringParts ==
  ASSUME Basics, NEW rep, Answering(rep)
  PROVE  /\ task' \in TaskType /\ task'.kind = task.kind /\ task'.step = "asked"
         /\ task'.session = task.session /\ task'.with = task.with
         /\ task'.order = task.order /\ task'.unknown = task.unknown /\ task'.reply = rep
  BY TaskParts DEF Answering, TaskType

LEMMA AnsweringBasics ==
  ASSUME Basics, NEW rep, Answering(rep),
         \A n \in Ordering' : n \in Ordering \/ desk'.orders[n].session <= flow.generation
  PROVE  Basics'
<1>1. /\ flow' \in FlowType /\ Alike(flow, flow') /\ Forward /\ SameCallbacks /\ Grows
  BY AlikeItself, ForwardSame, CallbacksRest DEF Answering
<1>2. GlanceOK' /\ CallbacksOK' /\ InflightOK'
  BY <1>1, GlanceStays, CallbacksStay, InflightStays DEF Answering
<1>3. TaskOK'
  <2>1. /\ task # None /\ task.step = "asked" /\ TaskOK /\ glance = None
        /\ task.session <= flow.generation
    BY UnderWay, TaskParts DEF Answering
  <2>2. Quoting \subseteq Quoting' /\ Ordering \subseteq Ordering'
    BY <1>1 DEF Grows
  <2>3. /\ task.kind = "reserve" => task.order \in Quoting
        /\ task.kind \in Acts => task.order \in Ordering
        /\ task.kind = "refresh" => task.with \in Ordering
    BY <2>1 DEF TaskOK
  <2>4. /\ rep.is \in Answers(task.kind)
        /\ rep.is = "quote" => rep.id \in Quoting'
        /\ glance' = glance /\ flow' = flow
    BY DEF Answering
  <2> QED
    BY <2>1, <2>2, <2>3, <2>4, AnsweringParts DEF TaskOK
<1> QED
  BY <1>1, <1>2, <1>3, BasicsParts, BasicsKept DEF Answering

LEMMA AnsweringPhone ==
  ASSUME Basics, PhoneOK, NEW rep, Answering(rep)
  PROVE  PhoneOK'
<1>1. flow' = flow /\ callbacks' = callbacks
  BY DEF Answering
<1>2. Making'
  BY <1>1, AnsweringParts DEF PhoneOK, Making, Current, SameSession, Answering
<1> QED
  BY <1>1, <1>2 DEF PhoneOK, Callbacks, Offered, PreparedCurrent, Current

LEMMA AnsweringStages ==
  ASSUME Basics, StagesOK, NEW rep, Answering(rep)
  PROVE  StagesOK' /\ Onward
<1>1. Grows /\ flow' = flow /\ glance' = glance
  BY DEF Answering
<1>2. task'.reply = rep
  BY AnsweringParts
<1>3. rep.is = "order" => rep \in AnswerType /\ NotBehind(rep)'
  BY OrderReplies DEF Answering
<1>4. rep.is = "order" => NotBehind(task.reply)'
  BY <1>2, <1>3 DEF NotBehind
<1> QED
  BY <1>1, <1>2, <1>3, <1>4, StagesQuiet, OnwardSame

\* The answer to anything but a reservation.
LEMMA AnsweringOther ==
  ASSUME GateInv, NEW rep, Answering(rep), Ordering' = Ordering, task.kind # "reserve"
  PROVE  Keeps
<1>1. Basics /\ ReservationOK /\ PhoneOK /\ StagesOK
  BY DEF GateInv
<1>2. Basics' /\ PhoneOK' /\ StagesOK' /\ Onward
  BY <1>1, AnsweringBasics, AnsweringPhone, AnsweringStages
<1>3. AlikeOrder(flow, flow') /\ Grows /\ UNCHANGED <<flow, seen, inflight, glance>>
  BY DEF AlikeOrder, Answering
<1>4. Waits
  <2>1. ~Sent'
    BY <1>1, AnsweringParts DEF Sent
  <2>2. /\ task'.kind = task.kind /\ task'.step = task.step /\ task'.session = task.session
        /\ task # None
    BY <1>1, AnsweringParts DEF Answering
  <2> QED
    BY <1>1, <1>3, <2>1, <2>2 DEF Waits, ReservationOK, Alone, SameSession
<1>5. glance' # None /\ SameSession(glance.session)' => ~flow.pending
  BY <1>1, <1>3 DEF ReservationOK, Alone, SameSession
<1>6. ReservationOK'
  BY <1>1, <1>3, <1>4, <1>5, ReservationQuiet
<1> QED
  BY <1>2, <1>6 DEF Keeps

\* The answer to a reservation that opens no order.
LEMMA AnsweringSame ==
  ASSUME GateInv, NEW rep, Answering(rep), desk' = desk, task.kind = "reserve",
         rep.is = "quote_expired" => Dead(task.order) /\ ~HasOrder(task.order),
         rep.is = "order" =>
            rep.id \in Ordering /\ desk.orders[rep.id].quote = task.order
  PROVE  Keeps
<1>1. Basics /\ ReservationOK /\ PhoneOK /\ StagesOK
  BY DEF GateInv
<1>2. Ordering' = Ordering
  BY DEF Ordering
<1>3. Basics' /\ PhoneOK' /\ StagesOK' /\ Onward
  BY <1>1, <1>2, AnsweringBasics, AnsweringPhone, AnsweringStages
<1>4. UNCHANGED <<flow, seen, inflight, glance, desk>> /\ task # None /\ task.step = "asked"
      /\ task.reply = None
  BY DEF Answering
<1>5. /\ task'.kind = task.kind /\ task'.step = "asked" /\ task'.session = task.session
      /\ task'.order = task.order /\ task'.unknown = task.unknown /\ task'.reply = rep
  BY <1>1, AnsweringParts
<1>6. Keys'
  BY <1>1, <1>2, <1>4 DEF ReservationOK, Keys
<1>7. /\ \A n \in Ordering : Ours(n)' <=> Ours(n)
      /\ \A r : (Late(r)' <=> Late(r)) /\ (Settled(r.order)' <=> Settled(r.order))
      /\ \A q : (Dead(q)' <=> Dead(q)) /\ (HasOrder(q)' <=> HasOrder(q))
  BY <1>2, <1>4 DEF Ours, Late, Settled, Dead, HasOrder
<1>8. Sent' => Sent
  BY <1>4, <1>5 DEF Sent, SameSession
<1>9. Unshown'
  BY <1>1, <1>2, <1>4, <1>5, <1>7, <1>8 DEF ReservationOK, Unshown
<1>10. First'
  <2> SUFFICES ASSUME Sent' PROVE First'
    BY DEF First
  <2>1. First /\ Sent
    BY <1>1, <1>8 DEF ReservationOK
  <2>2. rep.is = "quote_expired" => Dead(task.order)' /\ ~HasOrder(task.order)'
    BY <1>4, <1>5, <1>7 DEF Dead, HasOrder, Ordering
  <2> QED
    BY <1>2, <1>4, <1>5, <1>7, <2>1, <2>2 DEF First
<1>11. Alone'
  BY <1>1, <1>4, <1>5 DEF ReservationOK, Alone, SameSession, Acts
<1> QED
  BY <1>3, <1>6, <1>9, <1>10, <1>11 DEF Keeps, ReservationOK


\* The anchor opens order n for the request r, of the task or of one that gave up.
LEMMA ReservationOpens ==
  ASSUME Basics, ReservationOK, Grows, NEW r \in RequestType, r.kind = "reserve",
         r.order \in Quoting, NEW n, Opens(r, n),
         SameSession(r.session) => flow.pending /\ r.order = flow.quote,
         UNCHANGED <<flow, seen, glance>>, inflight' \subseteq inflight,
         \/ r \in inflight /\ task' = task
         \/ /\ task # None
            /\ task'.kind = task.kind /\ task'.step = task.step
            /\ task'.session = task.session /\ task'.order = task.order
            /\ task.kind = "reserve" /\ task.order = r.order
            /\ task'.reply # None /\ task'.reply.is = "order" /\ task'.reply.id = n
            /\ task'.unknown = task.unknown
  PROVE  ReservationOK'
<1>1. /\ n \notin Ordering /\ Ordering' = Ordering \cup {n} /\ ~Settled(r.order)
      /\ desk'.orders[n].quote = r.order /\ desk'.orders[n].session = r.session
  BY DEF Opens
<1>2. \A m \in Ordering : /\ desk'.orders[m].quote = desk.orders[m].quote
                          /\ desk'.orders[m].session = desk.orders[m].session
                          /\ desk.orders[m].quote # r.order
  BY <1>1 DEF Grows, Settled, HasOrder
<1>3. Keys'
  BY <1>1, <1>2 DEF ReservationOK, Keys
<1>4. /\ \A m \in Ordering : Ours(m)' <=> Ours(m)
      /\ Ours(n)' => SameSession(r.session)
  BY <1>1, <1>2 DEF Ours, SameSession
<1>5. \A q \in inflight : /\ Late(q)' <=> Late(q)
                          /\ Late(q) /\ Settled(q.order) => Settled(q.order)'
  <2>1. \A q \in inflight : Late(q) => q.order \in Quoting
    BY DEF Basics, InflightOK, Late
  <2>2. \A q \in inflight : Late(q)' <=> Late(q)
    BY DEF Late
  <2> QED
    BY <2>1, <2>2, SettledStays
<1>6. Sent' => Sent
  BY DEF Sent, SameSession
<1>7. Sent => task'.order = task.order /\ task'.unknown = task.unknown
  BY DEF Sent
<1>8. Unshown'
  <2>1. \A m \in Ordering' :
          Ours(m)' /\ m \notin seen' => flow'.pending /\ desk'.orders[m].quote = flow'.quote
    BY <1>1, <1>2, <1>4 DEF ReservationOK, Unshown
  <2>2. \A q \in inflight' :
          Late(q)' => Settled(q.order)' \/ (flow'.pending /\ q.order = flow'.quote)
    BY <1>5 DEF ReservationOK, Unshown
  <2> QED
    BY <1>6, <1>7, <2>1, <2>2 DEF ReservationOK, Unshown
<1>9. First'
  <2> SUFFICES ASSUME Sent' PROVE First'
    BY DEF First
  <2>1. First /\ Sent /\ task'.order = task.order /\ task'.unknown = task.unknown
    BY <1>6, <1>7 DEF ReservationOK
  <2>2. ~task.unknown => \A q \in inflight' : Late(q)' => Settled(q.order)'
    BY <1>5, <2>1 DEF First
  <2>3. CASE r \in inflight /\ task' = task
    <3>1. ~task.unknown => ~Late(r)
      BY <1>1, <2>1, <2>3 DEF First
    <3>2. ~task.unknown => ~Ours(n)'
      BY <1>4, <3>1 DEF Late, SameSession
    <3>3. ~task.unknown /\ (task.reply = None \/ task.reply.is # "order") =>
              \A m \in Ordering' : Ours(m)' => m \in seen'
      BY <1>1, <1>4, <2>1, <3>2 DEF First
    <3>4. task.reply # None /\ task.reply.is = "quote_expired" =>
              Dead(task.order)' /\ ~HasOrder(task.order)'
      <4> SUFFICES ASSUME task.reply # None, task.reply.is = "quote_expired"
                   PROVE  Dead(task.order)' /\ ~HasOrder(task.order)'
        OBVIOUS
      <4>1. PICK q \in Quoting : q = task.order
        BY <2>1, TaskParts DEF Sent, TaskOK
      <4>2. Dead(q) /\ ~HasOrder(q) /\ q # r.order
        BY <1>1, <2>1, <4>1 DEF First, Settled
      <4>3. Dead(q)' /\ ~HasOrder(q)'
        BY <1>1, <1>2, <4>2 DEF Grows, HasOrder
      <4>4. task'.order = q
        BY <2>1, <4>1
      <4> QED
        BY <4>1, <4>3, <4>4 DEF Dead, HasOrder
    <3>5. task.reply # None /\ task.reply.is = "order" =>
            /\ task.reply.id \in Ordering' /\ desk'.orders[task.reply.id].quote = task.order
      BY <1>1, <1>2, <2>1 DEF First
    <3> QED
      BY <2>1, <2>2, <2>3, <3>3, <3>4, <3>5 DEF First
  <2>4. CASE /\ task'.reply # None /\ task'.reply.is = "order" /\ task'.reply.id = n
             /\ task.order = r.order
    BY <1>1, <2>1, <2>2, <2>4 DEF First
  <2> QED
    BY <2>3, <2>4
<1>10. Alone'
  BY DEF ReservationOK, Alone, SameSession, Acts
<1> QED
  BY <1>3, <1>8, <1>9, <1>10 DEF ReservationOK

\* Which outcome a reservation has at the anchor.
LEMMA AnsweringReserve ==
  ASSUME GateAssumption, GateInv, task # None, task.step = "asked", task.reply = None,
         task.kind = "reserve", desk' = Reserved(Request).desk,
         task' = [task EXCEPT !.reply = Reserved(Request).reply],
         UNCHANGED <<flow, glance, callbacks, freighter, inflight, seen>>
  PROVE  Keeps
<1>1. Basics /\ ReservationOK /\ PhoneOK /\ StagesOK /\ desk \in DeskType
  BY BasicsParts DEF GateInv
<1>2. PICK r \in RequestType :
         /\ r = Request /\ r.kind = "reserve" /\ r.order = task.order
         /\ r.session = task.session /\ r.session <= flow.generation /\ r.order \in Quoting
  BY <1>1, RequestTyped DEF Posts
<1>3. PICK rep : rep = Reserved(r).reply
  OBVIOUS
<1>4. desk' = Reserved(r).desk /\ task' = [task EXCEPT !.reply = rep]
  BY <1>2, <1>3
<1>5. Answers(task.kind) = {"order", "quote_expired", "refused", "not_admitted", "ofac"}
  BY DEF Answers
<1>6. Grows
  BY <1>1, <1>2, <1>4, ReservedParts
<1>7. \/ /\ desk' = desk /\ rep \in AnswerType
         /\ rep.is = "order" /\ rep.id \in Ordering
         /\ rep.o = desk.orders[rep.id]
         /\ desk.orders[rep.id].quote = r.order
      \/ /\ desk' = desk /\ rep = Says("quote_expired")
         /\ Dead(r.order) /\ ~HasOrder(r.order)
      \/ /\ rep \in AnswerType /\ rep.is = "order"
         /\ Opens(r, rep.id)
         /\ rep.o = desk'.orders[rep.id]
         /\ \A n \in Ordering : desk'.orders[n] = desk.orders[n]
  BY <1>1, <1>2, <1>3, <1>4, ReservedParts
<1>8. CASE /\ desk' = desk /\ rep \in AnswerType
           /\ rep.is = "order" /\ rep.id \in Ordering
           /\ rep.o = desk.orders[rep.id]
           /\ desk.orders[rep.id].quote = r.order
  <2>1. NotBehind(rep)'
    <3>1. desk.orders[rep.id].step \in Nat
      BY <1>1, <1>8, DeskParts
    <3>2. Ordering' = Ordering /\ flow' = flow
      BY <1>8 DEF Ordering
    <3> QED
      BY <1>1, <1>8, <3>1, <3>2 DEF NotBehind, StagesOK
  <2>2. Answering(rep)
    BY <1>4, <1>5, <1>6, <1>8, <2>1 DEF Answering, ReplyType
  <2> QED
    BY <1>2, <1>8, <2>2, AnsweringSame
<1>9. CASE /\ desk' = desk /\ rep = Says("quote_expired")
           /\ Dead(r.order) /\ ~HasOrder(r.order)
  <2>1. rep \in ReplyType /\ rep.is = "quote_expired"
    BY <1>9 DEF Says, ReplyType, Words
  <2>2. Answering(rep)
    BY <1>4, <1>5, <1>6, <2>1 DEF Answering
  <2> QED
    BY <1>2, <1>9, <2>1, <2>2, AnsweringSame
<1>10. CASE /\ rep \in AnswerType /\ rep.is = "order"
            /\ Opens(r, rep.id)
            /\ rep.o = desk'.orders[rep.id]
            /\ \A n \in Ordering : desk'.orders[n] = desk.orders[n]
  <2>1. rep.id \notin Ordering /\ rep.id \in Ordering' /\ Ordering' = Ordering \cup {rep.id}
        /\ desk'.orders[rep.id].session = r.session
    BY <1>10 DEF Opens
  <2>2. NotBehind(rep)'
    <3>1. rep.o.step \in Nat
      BY <1>10 DEF AnswerType, OrderType
    <3>2. flow.order # None => flow.order.id # rep.id
      BY <1>1, <2>1, BasicsParts
    <3> QED
      BY <1>10, <2>1, <3>1, <3>2 DEF NotBehind
  <2>3. Answering(rep)
    BY <1>4, <1>5, <1>6, <1>10, <2>2 DEF Answering, ReplyType
  <2>4. Basics' /\ PhoneOK' /\ StagesOK' /\ Onward
    BY <1>1, <1>2, <2>1, <2>3, AnsweringBasics, AnsweringPhone, AnsweringStages
  <2>5. ReservationOK'
    <3>1. SameSession(r.session) => flow.pending /\ r.order = flow.quote
      BY <1>1, <1>2 DEF ReservationOK, Unshown, Sent, SameSession
    <3>2. /\ task'.kind = task.kind /\ task'.step = "asked" /\ task'.session = task.session
          /\ task'.order = task.order /\ task'.unknown = task.unknown /\ task'.reply = rep
          /\ task' \in TaskType
      BY <1>1, <2>3, AnsweringParts
    <3>3. rep # None
      BY <1>10 DEF GateAssumption
    <3> QED
      BY <1>1, <1>2, <1>6, <1>10, <3>1, <3>2, <3>3, ReservationOpens
  <2> QED
    BY <2>4, <2>5 DEF Keeps
<1> QED
  BY <1>7, <1>8, <1>9, <1>10


\* Which outcome the other requests that change something have.
LEMMA AnsweringAction ==
  ASSUME GateInv, task # None, task.step = "asked", task.reply = None,
         task.kind \in Acts, desk' = Advanced(Request).desk,
         task' = [task EXCEPT !.reply = Advanced(Request).reply],
         UNCHANGED <<flow, glance, callbacks, freighter, inflight, seen>>
  PROVE  Keeps
<1>1. Basics /\ ReservationOK /\ PhoneOK /\ StagesOK /\ desk \in DeskType
  BY BasicsParts DEF GateInv
<1>2. PICK r \in RequestType :
         /\ r = Request /\ r.kind # "reserve" /\ r.order = task.order /\ r.order \in Ordering
  BY <1>1, RequestTyped DEF Posts, Acts
<1>3. PICK rep : rep = Advanced(r).reply
  OBVIOUS
<1>4. desk' = Advanced(r).desk /\ task' = [task EXCEPT !.reply = rep]
  BY <1>2, <1>3
<1>5. Answers(task.kind) = {"order", "refused"} /\ task.kind # "reserve"
  BY DEF Answers, Acts
<1>6. /\ Grows /\ Ordering' = Ordering
      /\ \/ rep = Says("refused")
         \/ /\ rep \in AnswerType /\ rep.is = "order"
            /\ rep.id = r.order /\ rep.o = desk'.orders[r.order]
  BY <1>1, <1>2, <1>3, <1>4, AdvancedParts
<1>7. /\ rep \in ReplyType /\ rep.is \in {"order", "refused"}
      /\ rep.is = "order" => rep.id = r.order /\ rep.o = desk'.orders[r.order]
  BY <1>6 DEF ReplyType, Says, Words
<1>8. ASSUME rep.is = "order" PROVE NotBehind(rep)'
  <2>1. desk'.orders[r.order].step \in Nat
    <3>1. desk'.orders \in Seq(OrderType) /\ r.order \in DOMAIN desk'.orders
      BY <1>2, <1>6 DEF Grows, DeskType, Ordering
    <3>2. desk'.orders[r.order] \in OrderType
      BY <3>1, ElementOfSeq
    <3> QED
      BY <3>2 DEF OrderType
  <2>2. desk'.orders[r.order].step >= desk.orders[r.order].step /\ r.order \in Ordering'
    BY <1>2, <1>6 DEF Grows
  <2>3. flow.order # None /\ flow.order.id = r.order =>
          flow.order.o.step <= desk.orders[r.order].step /\ flow.order.o.step \in Nat
    <3>1. flow.order # None => flow.order \in AnswerType
      BY <1>1, BasicsParts
    <3> QED
      BY <1>1, <3>1 DEF StagesOK, AnswerType, OrderType
  <2>4. desk.orders[r.order].step \in Nat
    BY <1>1, <1>2, DeskParts
  <2> QED
    BY <1>7, <1>8, <2>1, <2>2, <2>3, <2>4 DEF NotBehind
<1>9. Answering(rep)
  BY <1>4, <1>5, <1>6, <1>7, <1>8 DEF Answering
<1> QED
  BY <1>5, <1>6, <1>9, AnsweringOther

\* An answer of a word: a refusal, or that something was done or found.
LEMMA AnsweringWord ==
  ASSUME GateInv, task # None, task.step = "asked", task.reply = None,
         NEW w \in Words, w \in Answers(task.kind), w # "quote_expired",
         desk' = desk, task' = [task EXCEPT !.reply = Says(w)],
         UNCHANGED <<flow, glance, callbacks, freighter, inflight, seen>>
  PROVE  Keeps
<1>1. desk \in DeskType
  BY BasicsParts DEF GateInv
<1>2. PICK rep : rep = Says(w)
  OBVIOUS
<1>3. rep \in ReplyType /\ rep.is = w /\ rep.is \notin {"order", "quote"}
  BY <1>2 DEF ReplyType, Says, Words
<1>4. Grows /\ Ordering' = Ordering
  BY <1>1, GrowsAlready
<1>5. Answering(rep)
  BY <1>2, <1>3, <1>4 DEF Answering
<1>6. CASE task.kind = "reserve"
  BY <1>3, <1>5, <1>6, AnsweringSame
<1>7. CASE task.kind # "reserve"
  BY <1>4, <1>5, <1>7, AnsweringOther
<1> QED
  BY <1>6, <1>7

LEMMA AnsweringQuote ==
  ASSUME GateInv, task # None, task.step = "asked", task.reply = None, task.kind = "quote",
         desk' = [desk EXCEPT !.quotes = Append(@,
                    [wallet |-> flow.token, direction |-> flow.direction, live |-> TRUE])],
         task' = [task EXCEPT !.reply = [is |-> "quote", id |-> Len(desk.quotes) + 1]],
         UNCHANGED <<flow, glance, callbacks, freighter, inflight, seen>>
  PROVE  Keeps
<1>1. Basics /\ flow \in FlowType /\ desk \in DeskType
  BY BasicsParts DEF GateInv
<1>2. PICK q \in QuoteType :
         q = [wallet |-> flow.token, direction |-> flow.direction, live |-> TRUE]
  BY <1>1, FlowParts DEF QuoteType
<1>3. PICK rep : rep = [is |-> "quote", id |-> Len(desk.quotes) + 1]
  OBVIOUS
<1>4. Grows /\ Ordering' = Ordering /\ rep.id \in Quoting'
  <2>1. desk' = [desk EXCEPT !.quotes = Append(@, q)]
    BY <1>2
  <2> QED
    BY <1>1, <1>3, <2>1, QuotesGrows
<1>5. rep \in ReplyType /\ rep.is = "quote"
  <2>1. Len(desk.quotes) \in Nat
    BY <1>1, DeskParts
  <2> QED
    BY <1>3, <2>1 DEF ReplyType
<1>6. rep.is \in Answers(task.kind)
  BY <1>5 DEF Answers
<1>7. Answering(rep)
  BY <1>3, <1>4, <1>5, <1>6 DEF Answering
<1> QED
  BY <1>4, <1>7, AnsweringOther

LEMMA AnsweringRefresh ==
  ASSUME GateInv, task # None, task.step = "asked", task.reply = None, task.kind = "refresh",
         desk' = desk, task' = [task EXCEPT !.reply = Answer(desk, task.with)],
         UNCHANGED <<flow, glance, callbacks, freighter, inflight, seen>>
  PROVE  Keeps
<1>1. Basics /\ StagesOK /\ desk \in DeskType
  BY BasicsParts DEF GateInv
<1>2. PICK n \in Ordering : n = task.with
  BY <1>1, TaskParts DEF TaskOK
<1>3. PICK rep \in AnswerType : /\ rep = Answer(desk, n) /\ rep.is = "order" /\ rep.id = n
                                /\ rep.o = desk.orders[n]
  BY <1>1, AnswerTyped
<1>4. Grows /\ Ordering' = Ordering
  BY <1>1, GrowsAlready
<1>5. NotBehind(rep)'
  <2>1. desk.orders[n].step \in Nat
    BY <1>1, DeskParts
  <2> QED
    BY <1>1, <1>3, <1>4, <2>1 DEF NotBehind, StagesOK
<1>6. Answering(rep)
  BY <1>2, <1>3, <1>4, <1>5 DEF Answering, ReplyType, Answers, Acts
<1> QED
  BY <1>4, <1>6, AnsweringOther

LEMMA ServedKeeps ==
  ASSUME GateAssumption, GateInv, Served
  PROVE  Keeps
<1>1. /\ task # None /\ task.step = "asked" /\ task.reply = None
      /\ UNCHANGED <<flow, glance, callbacks, freighter, inflight, seen>>
  BY DEF Served, At
<1>2. CASE /\ task.kind \in Posts
           /\ desk' = Handles(Request).desk /\ task' = [task EXCEPT !.reply = Handles(Request).reply]
  <2>1. Request.kind = task.kind
    BY DEF Request
  <2>2. CASE task.kind = "reserve"
    <3>1. Handles(Request) = Reserved(Request)
      BY <2>1, <2>2 DEF Handles
    <3> QED
      BY <1>1, <1>2, <2>2, <3>1, AnsweringReserve
  <2>3. CASE task.kind # "reserve"
    <3>1. Handles(Request) = Advanced(Request) /\ task.kind \in Acts
      BY <1>2, <2>1, <2>3 DEF Handles, Posts, Acts
    <3> QED
      BY <1>1, <1>2, <3>1, AnsweringAction
  <2> QED
    BY <2>2, <2>3
<1>3. CASE /\ task.kind = "quote"
           /\ desk' = [desk EXCEPT !.quotes = Append(@,
                        [wallet |-> flow.token, direction |-> flow.direction, live |-> TRUE])]
           /\ task' = [task EXCEPT !.reply = [is |-> "quote", id |-> Len(desk.quotes) + 1]]
  BY <1>1, <1>3, AnsweringQuote
<1>4. CASE /\ task.kind = "refresh" /\ desk' = desk
           /\ task' = [task EXCEPT !.reply = Answer(desk, task.with)]
  BY <1>1, <1>4, AnsweringRefresh
<1>5. CASE desk' = desk /\ \E w \in Words : /\ w \in Answers(task.kind) /\ w # "quote_expired"
                                            /\ task' = [task EXCEPT !.reply = Says(w)]
  BY <1>1, <1>5, AnsweringWord
<1>6. task.kind \in Runs \cup {"initialize"}
  BY <1>1, TaskParts DEF GateInv
<1>7. "refused" \in Answers(task.kind) /\ "refused" \in Words
  BY DEF Answers, Words
<1>8. CASE task.kind = "refresh" /\ desk' = desk /\ task' = [task EXCEPT !.reply = Says("refused")]
  BY <1>5, <1>7, <1>8
<1>9. CASE /\ task.kind \in {"initialize", "prove"} /\ desk' = desk
           /\ task' = [task EXCEPT !.reply = Says("ok")]
  <2>1. "ok" \in Words /\ "ok" \in Answers(task.kind)
    BY <1>9 DEF Answers, Words, Acts
  <2> QED
    BY <1>5, <1>9, <2>1
<1>10. CASE /\ task.kind \in {"connect", "access"} /\ desk' = desk
            /\ \E w \in {"match", "no_match"} : task' = [task EXCEPT !.reply = Says(w)]
  <2>1. {"match", "no_match"} \subseteq Words /\ {"match", "no_match"} \subseteq Answers(task.kind)
    BY <1>10 DEF Answers, Words
  <2> QED
    BY <1>5, <1>10, <2>1
<1>11. CASE desk' = desk /\ \E word \in Refusals : task' = [task EXCEPT !.reply = Says(word)]
  <2>1. PICK w \in Refusals : task' = [task EXCEPT !.reply = Says(w)]
    BY <1>11
  <2>2. w \in Words /\ w \in Answers(task.kind) /\ w # "quote_expired"
    BY <1>7 DEF Refusals, Answers, Words
  <2> QED
    BY <1>5, <1>11, <2>1, <2>2
<1> QED
  BY <1>2, <1>3, <1>4, <1>8, <1>9, <1>10, <1>11 DEF Served


\* A request whose page gave up is handled after all.
LEMMA ServedLateKeeps ==
  ASSUME GateInv, NEW r \in inflight, ServedLate(r)
  PROVE  Keeps
<1>1. Basics /\ ReservationOK /\ PhoneOK /\ StagesOK /\ desk \in DeskType
  BY BasicsParts DEF GateInv
<1>2. /\ inflight' \subseteq inflight /\ desk' = Handles(r).desk
      /\ UNCHANGED <<flow, task, glance, callbacks, freighter, seen>>
  BY DEF ServedLate
<1>3. /\ r \in RequestType /\ r.session <= flow.generation
      /\ r.order \in IF r.kind = "reserve" THEN Quoting ELSE Ordering
  BY <1>1 DEF Basics, InflightOK
<1>4. CASE r.kind # "reserve"
  <2>1. desk' = Advanced(r).desk /\ r.order \in Ordering
    BY <1>2, <1>3, <1>4 DEF Handles
  <2>2. Grows /\ Ordering' = Ordering
    BY <1>1, <1>3, <1>4, <2>1, AdvancedParts
  <2> QED
    BY <1>2, <2>2, DeskMoves
<1>5. CASE r.kind = "reserve"
  <2>1. desk' = Reserved(r).desk /\ r.order \in Quoting
    BY <1>2, <1>3, <1>5 DEF Handles
  <2>2. Grows /\ (desk' = desk \/ \E n : Opens(r, n))
    BY <1>1, <1>3, <2>1, ReservedParts
  <2>3. CASE desk' = desk
    BY <1>1, <1>2, <2>2, <2>3, GrowsAlready, DeskMoves
  <2>4. ASSUME NEW n, Opens(r, n) PROVE Keeps
    <3>1. /\ flow' \in FlowType /\ Alike(flow, flow') /\ Forward /\ SameCallbacks
      BY <1>1, <1>2, AlikeItself, ForwardSame, CallbacksRest
    <3>2. TaskOK' /\ GlanceOK' /\ CallbacksOK' /\ InflightOK'
      BY <1>1, <1>2, <2>2, <3>1, TaskStays, GlanceStays, CallbacksStay, InflightStays
    <3>3. \A m \in Ordering' : m \in Ordering \/ desk'.orders[m].session <= flow.generation
      BY <1>3, <2>4 DEF Opens
    <3>4. Basics'
      BY <1>1, <1>2, <2>2, <3>1, <3>2, <3>3, BasicsParts, BasicsKept
    <3>5. SameSession(r.session) => flow.pending /\ r.order = flow.quote
      BY <1>1, <1>5, <2>4 DEF ReservationOK, Unshown, Late, SameSession, Opens
    <3>6. ReservationOK'
      BY <1>1, <1>2, <1>3, <1>5, <2>1, <2>2, <2>4, <3>5, ReservationOpens
    <3>7. PhoneOK'
      BY <1>1, <1>2, <3>1, PhoneQuiet DEF AlikePhone
    <3>8. StagesOK' /\ Onward
      BY <1>1, <1>2, <2>2, StagesQuiet, OnwardSame
    <3> QED
      BY <3>4, <3>6, <3>7, <3>8 DEF Keeps
  <2> QED
    BY <2>2, <2>3, <2>4
<1> QED
  BY <1>4, <1>5

-----------------------------------------------------------------------------
\* The whole page.

LEMMA GateStarts ==
  ASSUME GateAssumption, Init
  PROVE  GateInv
<1>1. /\ script \in Scripts /\ script.account \in Wallets /\ script.orders \in Seq(OrderType)
      /\ freighter = script.account /\ freighter \in With
      /\ glance = None /\ callbacks = <<>> /\ inflight = {} /\ seen = {}
  BY DEF Init, GateAssumption, With
<1>2. PICK k \in Nat : DOMAIN script.orders = 1..k
  BY <1>1, LenProperties
<1>3. PICK qs, os :
        /\ qs = [n \in 1..k |-> [wallet |-> freighter, direction |-> script.orders[n].direction,
                                 live |-> FALSE]]
        /\ os = [n \in 1..k |-> [script.orders[n] EXCEPT !.wallet = freighter]]
  OBVIOUS
<1>4. desk = [quotes |-> qs, orders |-> os, policy |-> TRUE]
  BY <1>2, <1>3 DEF Init
<1>5. \A n \in 1..k : script.orders[n] \in OrderType
  BY <1>1, <1>2, ElementOfSeq
<1>6. \A n \in 1..k :
        /\ qs[n] \in QuoteType
        /\ os[n] \in OrderType /\ os[n].quote = script.orders[n].quote
        /\ os[n].session = script.orders[n].session
  <2> SUFFICES ASSUME NEW n \in 1..k
               PROVE  /\ qs[n] \in QuoteType
                      /\ os[n] \in OrderType /\ os[n].quote = script.orders[n].quote
                      /\ os[n].session = script.orders[n].session
    OBVIOUS
  <2>1. PICK o \in OrderType : o = script.orders[n]
    BY <1>5
  <2>2. /\ qs[n] = [wallet |-> freighter, direction |-> o.direction, live |-> FALSE]
        /\ os[n] = [o EXCEPT !.wallet = freighter]
    BY <1>3, <2>1
  <2>3. PICK w \in With : w = freighter
    BY <1>1
  <2>4. [o EXCEPT !.wallet = w] \in OrderType
    BY <2>1 DEF OrderType
  <2>5. [o EXCEPT !.wallet = w].quote = o.quote /\ [o EXCEPT !.wallet = w].session = o.session
    BY <2>1 DEF OrderType
  <2>6. o.direction \in {"deposit", "withdrawal"}
    BY <2>1 DEF OrderType
  <2>7. qs[n] \in QuoteType
    BY <2>2, <2>3, <2>6 DEF QuoteType
  <2> QED
    BY <2>1, <2>2, <2>3, <2>4, <2>5, <2>7
<1>7. qs \in Seq(QuoteType) /\ os \in Seq(OrderType) /\ DOMAIN os = 1..k /\ DOMAIN qs = 1..k
  <2>1. DOMAIN os = 1..k /\ DOMAIN qs = 1..k
    BY <1>3
  <2>2. qs \in [1..k -> QuoteType] /\ os \in [1..k -> OrderType]
    BY <1>3, <1>6
  <2> QED
    BY <2>1, <2>2, SeqDef
<1>8. /\ desk \in DeskType /\ Ordering = 1..k /\ Quoting = 1..k
      /\ desk.orders = os
  BY <1>4, <1>7 DEF DeskType, Ordering, Quoting
<1>9. \A n \in Ordering : desk.orders[n].session = 0
  BY <1>1, <1>2, <1>6, <1>8 DEF GateAssumption
<1>10. Keys
  BY <1>1, <1>2, <1>6, <1>8 DEF GateAssumption, Keys
<1>11. CASE script.orders = <<>>
  <2>1. /\ flow = Loaded
        /\ task = [kind |-> "initialize", step |-> "begin", session |-> 0,
                   with |-> None, order |-> None, unknown |-> FALSE, reply |-> None]
    BY <1>11 DEF Init
  <2>2. Ordering = {}
    BY <1>2, <1>8, <1>11
  <2>3. /\ flow \in FlowType /\ flow.generation = 0 /\ flow.order = None /\ flow.quote = None
        /\ flow.pending = FALSE /\ flow.prepared = None
    BY <2>1 DEF Loaded, FlowType, With
  <2>4. /\ task \in TaskType /\ task.session = 0 /\ task.step = "begin"
        /\ task.kind = "initialize" /\ task.reply = None
    BY <2>1 DEF TaskType, With
  <2>5. Basics
    <3>1. FlowOK
      BY <2>3 DEF FlowOK
    <3>2. TaskOK
      BY <2>3, <2>4 DEF TaskOK, Acts
    <3>3. GlanceOK /\ CallbacksOK /\ InflightOK /\ DeskOK
      BY <1>1, <1>8, <2>2 DEF GlanceOK, CallbacksOK, InflightOK, DeskOK
    <3> QED
      BY <1>1, <3>1, <3>2, <3>3 DEF Basics
  <2>6. ReservationOK
    BY <1>1, <1>10, <2>2, <2>3, <2>4 DEF ReservationOK, Unshown, First, Alone, Sent
  <2>7. PhoneOK
    BY <1>1, <2>3, <2>4 DEF PhoneOK, Callbacks, Making, Offered, PreparedCurrent
  <2>8. StagesOK
    BY <1>1, <2>3, <2>4 DEF StagesOK
  <2> QED
    BY <2>5, <2>6, <2>7, <2>8 DEF GateInv
<1>12. CASE script.orders # <<>>
  <2>1. /\ flow = [Loaded EXCEPT !.info = TRUE, !.generation = 2, !.token = freighter,
                                 !.wallet = freighter, !.ready = TRUE, !.screening = "no_match",
                                 !.direction = script.orders[1].direction,
                                 !.order = Answer(desk, 1)]
        /\ task = None
    BY <1>12 DEF Init
  <2>2. 1 \in Ordering
    <3>1. Len(script.orders) # 0
      BY <1>1, <1>12, EmptySeq
    <3>2. Len(script.orders) = k
      BY <1>1, <1>2, <3>1, LenProperties
    <3> QED
      BY <1>8, <3>1, <3>2
  <2>3. PICK a \in AnswerType : /\ a = Answer(desk, 1) /\ a.id = 1 /\ a.o = desk.orders[1]
    BY <1>8, <2>2, AnswerTyped
  <2>4. PICK d \in {"deposit", "withdrawal"} : d = script.orders[1].direction
    BY <1>5, <1>8, <2>2 DEF OrderType
  <2>5. /\ flow \in FlowType /\ flow.generation = 2 /\ flow.order = a /\ flow.quote = None
        /\ flow.pending = FALSE /\ flow.prepared = None
    BY <1>1, <2>1, <2>3, <2>4 DEF Loaded, FlowType, With
  <2>6. a # None
    BY DEF GateAssumption
  <2>7. Basics
    <3>1. FlowOK
      BY <2>2, <2>3, <2>5 DEF FlowOK
    <3>2. TaskOK
      BY <2>1 DEF TaskOK
    <3>3. GlanceOK /\ CallbacksOK /\ InflightOK
      BY <1>1 DEF GlanceOK, CallbacksOK, InflightOK
    <3>4. DeskOK
      BY <1>8, <1>9, <2>5 DEF DeskOK
    <3> QED
      BY <1>1, <3>1, <3>2, <3>3, <3>4 DEF Basics
  <2>8. ReservationOK
    BY <1>1, <1>9, <1>10, <2>1, <2>5 DEF ReservationOK, Unshown, First, Alone, Sent, Ours
  <2>9. PhoneOK
    BY <1>1, <2>1, <2>5 DEF PhoneOK, Callbacks, Making, Offered, PreparedCurrent
  <2>10. StagesOK
    <3>1. desk.orders[1].step \in Nat
      BY <1>8, <2>2, DeskParts
    <3> QED
      BY <1>1, <2>1, <2>3, <2>5, <3>1 DEF StagesOK
  <2> QED
    BY <2>7, <2>8, <2>9, <2>10 DEF GateInv
<1> QED
  BY <1>11, <1>12


LEMMA GateSteps ==
  ASSUME GateAssumption, GateInv, Next
  PROVE  Keeps
<1>1. Basics /\ ReservationOK /\ DOMAIN desk.orders = Ordering
  BY DEF GateInv, Ordering
<1>2. ASSUME NEW kind \in Immediate \cup Runs, Presses(kind) PROVE Keeps
  <2>1. CASE kind \in Runs
    BY <1>1, <1>2, <2>1, PressesRunCalm, CalmKeeps
  <2>2. CASE kind \in Immediate
    BY <1>2, <2>2, PressesImmediateKeeps
  <2> QED
    BY <1>2, <2>1, <2>2
<1>3. CASE Begin
  <2>1. CASE /\ task.kind = "connect"
             /\ ~(flow.closed \/ ~SameSession(task.session) \/ ~Allowed(task.kind, task.with))
    BY <1>3, <2>1, ConnectKeeps
  <2>2. CASE ~(/\ task.kind = "connect"
               /\ ~(flow.closed \/ ~SameSession(task.session) \/ ~Allowed(task.kind, task.with)))
    BY <1>1, <1>3, <2>2, BeginCalm, CalmKeeps
  <2> QED
    BY <2>1, <2>2
<1>4. CASE Selects \/ LogsIn \/ Setup \/ SetupFails \/ Signs
  <2>1. Calm
    BY <1>1, <1>4, SelectsCalm, LogsInCalm, SetupCalm, SetupFailsCalm, SignsCalm
  <2> QED
    BY <2>1, CalmKeeps
<1>5. CASE Withholds \/ SendsAction
  <2>1. Calm
    BY <1>1, <1>5, WithholdsCalm, SendsActionCalm DEF GateInv
  <2> QED
    BY <2>1, CalmKeeps
<1>6. CASE SendsReservation \/ SendsProofRequest
  BY <1>6, SendsReservationKeeps, SendsProofRequestKeeps
<1>7. CASE Served \/ Lost \/ (\E r \in inflight : ServedLate(r))
  BY <1>7, ServedKeeps, LostKeeps, ServedLateKeeps
<1>8. CASE Refused \/ Outlived \/ Initialized \/ Admitted \/ Configured
  <2>1. Calm
    BY <1>1, <1>8, RefusedCalm, AdmittedCalm, ConfiguredCalm
  <2> QED
    BY <2>1, CalmKeeps
<1>9. CASE Quoted
  BY <1>9, QuotedRequotes, RequotingKeeps
<1>10. CASE Ordered
  BY <1>10, OrderShown, OrderRefused
<1>11. CASE Acted \/ Submitted \/ Refreshed
  BY <1>11, ActedShows, ShowingKeeps
<1>12. CASE Client
  BY <1>12, ClientKeeps
<1>13. ASSUME NEW id \in DOMAIN callbacks,
              ProofArrives(id) \/ Prepares(id) \/ Prepared(id) \/ Rejected(id)
       PROVE  Keeps
  <2>1. CASE Prepared(id)
    BY <1>1, <2>1, PreparedCalm, CalmKeeps, PreparedKeeps
  <2>2. CASE ProofArrives(id) \/ Prepares(id)
    BY <1>1, <2>2, ProofArrivesCalm, PreparesCalm, CalmKeeps
  <2>3. CASE Rejected(id)
    BY <2>3, RejectedKeeps
  <2> QED
    BY <1>13, <2>1, <2>2, <2>3
<1>14. CASE Glances \/ GlanceServed \/ Glanced
  BY <1>14, GlancesKeep, GlanceServedKeeps, GlancedKeeps
<1>15. CASE Switches
  BY <1>1, <1>15, SwitchesCalm, CalmKeeps
<1>16. CASE Watches \/ Leaves \/ Renders
  BY <1>16, EndsKeep
<1>17. CASE Expires \/ (\E n \in DOMAIN desk.orders : Confirms(n))
  BY <1>1, <1>17, DeskKeeps
<1> QED
  BY <1>2, <1>3, <1>4, <1>5, <1>6, <1>7, <1>8, <1>9, <1>10, <1>11, <1>12, <1>13, <1>14,
     <1>15, <1>16, <1>17 DEF Next

LEMMA GateStutters ==
  ASSUME GateInv, UNCHANGED vars
  PROVE  Keeps
<1>1. Basics
  BY DEF GateInv
<1>2. Calm
  BY <1>1, CalmIfShown, AlikeItself DEF vars
<1> QED
  BY <1>2, CalmKeeps

\* Whatever the customer presses, the network loses, the anchor answers late and the
\* wallet switches to: the page and the anchor keep all the parts of GateInv, of which
\* the properties of the run follow.
THEOREM GateInvariant == ASSUME GateAssumption PROVE Spec => []GateInv
<1>1. Init => GateInv
  BY GateStarts
<1>2. GateInv /\ [Next]_vars => GateInv'
  BY GateSteps, GateStutters DEF Keeps, GateInv
<1> QED
  BY <1>1, <1>2, PTL DEF Spec

\* createOrder: no order that the anchor reserved for the session is forgotten by the
\* page: it was shown, or the page still says that a reservation may exist.
THEOREM GateReservationKept == ASSUME GateAssumption PROVE Spec => []ReservationKept
<1>1. GateInv => ReservationKept
  BY DEF GateInv, ReservationOK, Unshown, ReservationKept, Ours, Ordering
<1> QED
  BY <1>1, GateInvariant, PTL

\* requestProof and acceptOrder: what is offered for signature was made for the order
\* shown, by the last phone request, in this session.
THEOREM GatePreparedCurrent == ASSUME GateAssumption PROVE Spec => []PreparedCurrent
<1>1. GateInv => PreparedCurrent
  BY DEF GateInv, PhoneOK
<1> QED
  BY <1>1, GateInvariant, PTL

\* run and checkAutomatically: the order shown never goes back to an earlier stage.
THEOREM GateStagesForward == ASSUME GateAssumption PROVE Spec => StagesForward
<1>1. GateInv /\ [Next]_vars => [Onward]_flow
  BY GateSteps, GateStutters DEF Keeps
<1>2. [Onward]_flow => [flow.order # None /\ flow'.order # None /\ flow'.order.id = flow.order.id
                        => flow'.order.o.step >= flow.order.o.step]_flow
  BY DEF Onward
<1> QED
  BY <1>1, <1>2, GateInvariant, PTL DEF Spec, StagesForward


=============================================================================
