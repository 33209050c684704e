----------------------------- MODULE RampsProofs -----------------------------
(***************************************************************************)
(* What the roundings of money.ts guarantee for every amount and rate, and *)
(* the safety properties of Ramps for every number of transactions, of     *)
(* transactions of the treasury and of faults; and that the settling loop  *)
(* ends its passes and waits for nothing that cannot come.                 *)
(***************************************************************************)
EXTENDS Ramps, Sums, SequenceTheorems

\* The quotient is the largest number of whole parts.
LEMMA Quotient ==
  ASSUME NEW a \in Nat, NEW b \in Nat \ {0}
  PROVE  /\ a \div b \in Nat
         /\ b * (a \div b) <= a
         /\ a < b * (a \div b) + b
  OBVIOUS

LEMMA QuotientLargest ==
  ASSUME NEW a \in Nat, NEW b \in Nat \ {0}, NEW n \in Nat, b * n <= a
  PROVE  n <= a \div b
<1>1. /\ a \div b \in Nat
      /\ a < b * (a \div b) + b
  BY Quotient
<1>2. SUFFICES ASSUME n >= (a \div b) + 1 PROVE FALSE
  BY <1>1
<1>3. b * n >= b * ((a \div b) + 1)
  BY <1>1, <1>2
<1>4. b * ((a \div b) + 1) = b * (a \div b) + b
  BY <1>1
<1> QED
  BY <1>1, <1>3, <1>4

-----------------------------------------------------------------------------

\* Rounded up: the smallest number of whole parts that covers the dividend.
LEMMA CeilingCovers ==
  ASSUME NEW a \in Nat, NEW b \in Nat \ {0}
  PROVE  /\ CeilDiv(a, b) \in Nat
         /\ b * CeilDiv(a, b) >= a
         /\ \A n \in Nat : b * n >= a => CeilDiv(a, b) <= n
<1> DEFINE q == (a + b - 1) \div b
<1>1. a + b - 1 \in Nat
  OBVIOUS
<1>2. /\ q \in Nat
      /\ b * q <= a + b - 1
      /\ a + b - 1 < b * q + b
  BY <1>1, Quotient
<1>3. b * q \in Nat
  BY <1>2
<1> HIDE DEF q
<1>4. b * q >= a
  BY <1>2, <1>3
<1>5. ASSUME NEW n \in Nat, b * n >= a PROVE q <= n
  <2>1. SUFFICES ASSUME q >= n + 1 PROVE FALSE
    BY <1>2
  <2>2. b * q >= b * (n + 1)
    BY <1>2, <2>1
  <2>3. b * (n + 1) = b * n + b /\ b * n \in Nat
    OBVIOUS
  <2> QED
    BY <1>2, <1>3, <1>5, <2>2, <2>3
<1> QED
  BY <1>2, <1>4, <1>5 DEF CeilDiv, q

\* What was wanted exactly is what the rounded price buys, and no lower price
\* buys it (tryToUsdcCeil and usdcToTryCeil against their inverses).
THEOREM WantedIsBought ==
  ASSUME NEW wanted \in Nat, NEW rate \in Nat \ {0}
  PROVE  /\ TryToUsdc(UsdcToTryCeil(wanted, rate), rate) >= wanted
         /\ UsdcToTry(TryToUsdcCeil(wanted, rate), rate) >= wanted
         /\ \A less \in Nat : less < UsdcToTryCeil(wanted, rate)
                                => TryToUsdc(less, rate) < wanted
         /\ \A less \in Nat : less < TryToUsdcCeil(wanted, rate)
                                => UsdcToTry(less, rate) < wanted
<1>1. Scale \in Nat \ {0} /\ wanted * rate \in Nat /\ wanted * Scale \in Nat
  BY ScaleAssumption
<1> DEFINE lira   == CeilDiv(wanted * rate, Scale)
           tokens == CeilDiv(wanted * Scale, rate)
<1>2. /\ lira \in Nat
      /\ Scale * lira >= wanted * rate
      /\ \A n \in Nat : Scale * n >= wanted * rate => lira <= n
  BY <1>1, CeilingCovers
<1>3. /\ tokens \in Nat
      /\ rate * tokens >= wanted * Scale
      /\ \A n \in Nat : rate * n >= wanted * Scale => tokens <= n
  BY <1>1, CeilingCovers
<1> HIDE DEF lira, tokens
<1>4. (lira * Scale) \div rate >= wanted
  <2>1. lira * Scale \in Nat /\ lira * Scale = Scale * lira
    BY <1>1, <1>2
  <2>2. rate * wanted = wanted * rate
    OBVIOUS
  <2>3. rate * wanted <= lira * Scale
    BY <1>1, <1>2, <2>1, <2>2
  <2>4. wanted <= (lira * Scale) \div rate
    BY <2>1, <2>3, QuotientLargest
  <2> QED
    BY <2>1, <2>4, Quotient
<1>5. (tokens * rate) \div Scale >= wanted
  <2>1. tokens * rate \in Nat /\ tokens * rate = rate * tokens
    BY <1>3
  <2>2. Scale * wanted = wanted * Scale
    BY <1>1
  <2>3. Scale * wanted <= tokens * rate
    BY <1>1, <1>3, <2>1, <2>2
  <2>4. wanted <= (tokens * rate) \div Scale
    BY <1>1, <2>1, <2>3, QuotientLargest
  <2> QED
    BY <1>1, <2>1, <2>4, Quotient
<1>6. ASSUME NEW less \in Nat, less < lira
      PROVE  (less * Scale) \div rate < wanted
  <2> DEFINE got == (less * Scale) \div rate
  <2>1. less * Scale \in Nat /\ less * Scale = Scale * less
    BY <1>1
  <2>2. got \in Nat /\ rate * got <= less * Scale
    BY <2>1, Quotient
  <2> HIDE DEF got
  <2>3. SUFFICES ASSUME got >= wanted PROVE FALSE
    BY <2>2 DEF got
  <2>4. rate * got >= rate * wanted /\ rate * wanted = wanted * rate
    BY <2>2, <2>3
  <2>5. Scale * less >= wanted * rate
    BY <1>1, <2>1, <2>2, <2>4
  <2> QED
    BY <1>2, <1>6, <2>5
<1>7. ASSUME NEW less \in Nat, less < tokens
      PROVE  (less * rate) \div Scale < wanted
  <2> DEFINE got == (less * rate) \div Scale
  <2>1. less * rate \in Nat /\ less * rate = rate * less
    OBVIOUS
  <2>2. got \in Nat /\ Scale * got <= less * rate
    BY <1>1, <2>1, Quotient
  <2> HIDE DEF got
  <2>3. SUFFICES ASSUME got >= wanted PROVE FALSE
    BY <2>2 DEF got
  <2>4. Scale * got >= Scale * wanted /\ Scale * wanted = wanted * Scale
    BY <1>1, <2>2, <2>3
  <2>5. rate * less >= wanted * Scale
    BY <1>1, <2>1, <2>2, <2>4
  <2> QED
    BY <1>3, <1>7, <2>5
<1> QED
  BY <1>4, <1>5, <1>6, <1>7
  DEF TryToUsdc, UsdcToTry, TryToUsdcCeil, UsdcToTryCeil, lira, tokens

\* A firm quote is kept by the conversions that serve it later: whichever
\* amount the customer named, what is sold brings at least what was promised.
THEOREM FirmQuotesAreKept ==
  ASSUME NEW exact \in {"sell", "buy"}, NEW amount \in Nat,
         NEW rate \in Nat \ {0}
  PROVE  LET bid == FirmQuote("buy", exact, amount, rate)
             ask == FirmQuote("sell", exact, amount, rate)
         IN  /\ TryToUsdc(bid.sold, rate) >= bid.bought
             /\ UsdcToTry(ask.sold, rate) >= ask.bought
<1>1. /\ TryToUsdc(amount, rate) \in Nat
      /\ UsdcToTry(amount, rate) \in Nat
  BY ScaleAssumption, Quotient DEF TryToUsdc, UsdcToTry
<1>2. CASE exact = "sell"
  BY <1>1, <1>2 DEF FirmQuote
<1>3. CASE exact = "buy"
  BY <1>3, WantedIsBought DEF FirmQuote
<1> QED
  BY <1>2, <1>3

-----------------------------------------------------------------------------

\* The spread moves the rate to the anchor's side (applySpread).
LEMMA SpreadIsOneSided ==
  ASSUME NEW mid \in Nat \ {0}, NEW bps \in Nat, bps <= 10000
  PROVE  /\ ApplySpread(mid, bps, "buy") \in Nat \ {0}
         /\ ApplySpread(mid, bps, "buy") >= mid
         /\ ApplySpread(mid, bps, "sell") \in Nat
         /\ ApplySpread(mid, bps, "sell") <= mid
<1> DEFINE up   == mid * (10000 + bps)
           down == mid * (10000 - bps)
<1>1. 10000 + bps \in Nat /\ 10000 - bps \in Nat
  OBVIOUS
<1>2. /\ up \in Nat /\ down \in Nat
      /\ 10000 * mid <= up /\ down <= 10000 * mid
  BY <1>1
<1> HIDE DEF up, down
<1>3. 10000 \in Nat \ {0}
  OBVIOUS
<1>4. mid <= up \div 10000 /\ up \div 10000 \in Nat
  BY <1>2, <1>3, QuotientLargest, Quotient
<1>5. down \div 10000 \in Nat /\ 10000 * (down \div 10000) <= down
  BY <1>2, <1>3, Quotient
<1>6. down \div 10000 <= mid
  BY <1>2, <1>5
<1>7. /\ ApplySpread(mid, bps, "buy") = up \div 10000
      /\ ApplySpread(mid, bps, "sell") = down \div 10000
  BY DEF ApplySpread, up, down
<1> QED
  BY <1>4, <1>5, <1>6, <1>7

\* Buying tokens and selling them back at the same market rate never gains
\* lira, whatever the spread and the roundings.
THEOREM RoundTripNeverGains ==
  ASSUME NEW lira \in Nat, NEW mid \in Nat \ {0}, NEW bps \in Nat,
         bps <= 10000
  PROVE  UsdcToTry(TryToUsdc(lira, ApplySpread(mid, bps, "buy")),
                   ApplySpread(mid, bps, "sell")) <= lira
<1> DEFINE bid    == ApplySpread(mid, bps, "buy")
           ask    == ApplySpread(mid, bps, "sell")
           tokens == (lira * Scale) \div bid
           back   == (tokens * ask) \div Scale
<1>1. bid \in Nat \ {0} /\ ask \in Nat /\ ask <= bid
  <2>1. bid \in Nat \ {0} /\ bid >= mid /\ ask \in Nat /\ ask <= mid
    BY SpreadIsOneSided
  <2> HIDE DEF bid, ask
  <2> QED
    BY <2>1
<1> HIDE DEF bid, ask
<1>2. Scale \in Nat \ {0} /\ lira * Scale \in Nat
  BY ScaleAssumption
<1>3. tokens \in Nat /\ bid * tokens <= lira * Scale
  BY <1>1, <1>2, Quotient
<1> HIDE DEF tokens
<1>4. tokens * ask \in Nat
  BY <1>1, <1>3
<1>5. back \in Nat /\ Scale * back <= tokens * ask
  BY <1>2, <1>4, Quotient
<1> HIDE DEF back
<1>6. tokens * ask <= tokens * bid
  BY <1>1, <1>3
<1>7. tokens * bid = bid * tokens /\ lira * Scale = Scale * lira
  BY <1>1, <1>2, <1>3
<1>8. Scale * back <= Scale * lira
  <2>1. tokens * bid \in Nat /\ Scale * back \in Nat /\ Scale * lira \in Nat
    BY <1>1, <1>2, <1>3, <1>5
  <2> QED
    BY <1>3, <1>4, <1>5, <1>6, <1>7, <2>1
<1>9. back <= lira
  <2>1. SUFFICES ASSUME back >= lira + 1 PROVE FALSE
    BY <1>5
  <2>2. Scale * back >= Scale * (lira + 1)
    BY <1>2, <1>5, <2>1
  <2>3. Scale * (lira + 1) = Scale * lira + Scale /\ Scale * lira \in Nat
    BY <1>2
  <2> QED
    BY <1>2, <1>5, <1>8, <2>2, <2>3
<1> QED
  BY <1>9 DEF TryToUsdc, UsdcToTry, bid, ask, tokens, back

-----------------------------------------------------------------------------
\* The ramps.  Their invariant, part by part: the types, ...

Working  == [pc : {"row", "pay", "park", "poll"}, todo : Seq(Nat), funds : Int]
Handling == [pc : {"handle"}, next : Nat, todo : Seq(Nat)]
Transfer == [deposit : Deposits, lira : Lira]
Sending  == [onramp : Nat, via : {"pay", "park"}, seq : Nat,
             status : {"sent", "success", "failed", "dead"}]
Payment  == [tx : Nat, memo : Withdrawals \cup {None}, amount : Tokens]

Types ==
    /\ now \in Nat
    /\ deposits \in [Deposits -> DepositType \cup {None}]
    /\ withdrawals \in [Withdrawals -> WithdrawalType \cup {None}]
    /\ onramps \in Seq(OnrampType)
    /\ consumed \in [Quotes -> (Transactions \X Nat) \cup {None}]
    /\ balance \in Int
    /\ unmatched \in Seq(Nat) /\ cursor \in Nat
    /\ funding \in [1..MaxRequests -> Transfer \cup {None}]
    /\ settler \in Working \cup {Idle} /\ watcher \in Handling \cup {Idle}
    /\ chain \in Seq(Sending) /\ sequence \in Nat /\ treasury \in Int
    /\ feed \in Seq(Payment)

\* ... the rows and what refers to them, ...
Rows ==
    /\ \A n \in DOMAIN onramps :
         /\ onramps[n].status = "completed" <=> onramps[n].hash # None
         /\ onramps[n].status # "pending" => onramps[n].reason = None
         /\ onramps[n].status = "pending" => onramps[n].attempts < MaxAttempts
    /\ \A d \in Deposits : deposits[d] # None /\ deposits[d].onramp # None =>
         /\ deposits[d].onramp \in DOMAIN onramps
         /\ onramps[deposits[d].onramp].deposit = d
    /\ \A slot \in 1..MaxRequests :
         funding[slot] # None => deposits[funding[slot].deposit] # None

\* ... the rows that the settling loop still has before it, ...
Queue ==
    settler # Idle =>
        /\ settler.todo # <<>>
        /\ \A i \in 1..Len(settler.todo) :
             /\ settler.todo[i] \in DOMAIN onramps
             /\ onramps[settler.todo[i]].status = "pending"
        /\ \A i, j \in 1..Len(settler.todo) : i < j => settler.todo[i] < settler.todo[j]

-----------------------------------------------------------------------------
\* What a step does to the rows of on-ramps.

\* A row keeps what it is for and counts every attempt.
Kept(o, p) ==
    /\ o.deposit = p.deposit /\ o.quote = p.quote /\ o.lira = p.lira /\ o.tokens = p.tokens
    /\ o.attempts \in {p.attempts, p.attempts + 1}

\* One row is brought forward, and the loop stays with it or leaves it.
Outcome(o) ==
    \/ o.status = "pending" /\ o.hash = None /\ o.attempts < MaxAttempts
       /\ balance' = balance
    \/ o.status = "failed" /\ o.hash = None /\ o.reason = None
       /\ balance' = balance + onramps[Row].lira
    \/ o.status = "completed" /\ o.hash = Len(chain) /\ o.reason = None
       /\ balance' = balance
       /\ settler.pc = "poll" /\ chain[Len(chain)].status = "success"
Stays == settler' \in Working /\ settler'.todo = settler.todo /\ onramps' = onramps
Leaves ==
    \/ settler' = Idle
    \/ /\ settler' \in Working /\ settler'.pc = "row"
       /\ settler'.todo = Tail(settler.todo) /\ Len(settler.todo) > 1
RowStep ==
    /\ settler \in Working
    /\ \E o \in OnrampType :
         /\ onramps' = [onramps EXCEPT ![Row] = o]
         /\ Kept(o, onramps[Row]) /\ Outcome(o)
    /\ Stays \/ Leaves
    /\ OnlyOnramps

LEMMA IdleIsNotBusy == Idle \notin Working \cup Handling
  BY DEF Idle, Working, Handling

\* The row at hand is pending.
LEMMA AtRow ==
  ASSUME Types, Queue, settler \in Working
  PROVE  /\ settler # Idle /\ settler.todo \in Seq(Nat) /\ settler.todo # <<>>
         /\ Row = settler.todo[1] /\ Row \in DOMAIN onramps
         /\ onramps[Row] \in OnrampType /\ onramps[Row].status = "pending"
<1>1. settler # Idle
  BY IdleIsNotBusy
<1>2. settler.todo \in Seq(Nat) /\ settler.todo # <<>>
  BY <1>1 DEF Queue, Working
<1>3. 1 \in 1..Len(settler.todo) /\ Row = settler.todo[1]
  BY <1>2 DEF Row
<1>4. Row \in DOMAIN onramps /\ onramps[Row].status = "pending"
  BY <1>1, <1>3 DEF Queue
<1>5. onramps[Row] \in OnrampType
  BY <1>4 DEF Types
<1> QED
  BY <1>1, <1>2, <1>3, <1>4, <1>5

LEMMA RowIndex ==
  ASSUME Types, Queue, RowStep
  PROVE  Row \in Nat
<1>1. Row \in DOMAIN onramps
  BY AtRow DEF RowStep
<1>2. \E m \in Nat : DOMAIN onramps = 1..m
  BY LenProperties DEF Types
<1> QED
  BY <1>1, <1>2

LEMMA RowLeft ==
  ASSUME Types, Queue, settler \in Working, NEW spent \in Int, NextRow(spent)
  PROVE  Leaves
<1>1. /\ settler.todo \in Seq(Nat) /\ settler.todo # <<>>
      /\ settler.funds \in Int
  BY AtRow DEF Working
<1>2. CASE Len(settler.todo) = 1
  BY <1>2 DEF NextRow, Leaves
<1>3. CASE Len(settler.todo) # 1
  <2>1. Len(settler.todo) > 1
    <3>1. PICK s : s = settler.todo
      OBVIOUS
    <3>2. s \in Seq(Nat) /\ s # <<>> /\ Len(s) # 1
      BY <1>1, <1>3, <3>1
    <3>3. Len(s) \in Nat \ {0}
      BY <3>2, EmptySeq, Zenon
    <3>4. PICK k : k = Len(s)
      OBVIOUS
    <3>5. k > 1
      <4>1. k \in Nat \ {0} /\ k # 1
        BY <3>2, <3>3, <3>4, Zenon
      <4> QED
        BY <4>1
    <3> QED
      BY <3>1, <3>4, <3>5, Zenon
  <2>2. Tail(settler.todo) \in Seq(Nat) /\ settler.funds - spent \in Int
    BY <1>1
  <2>3. settler' = [pc |-> "row", todo |-> Tail(settler.todo),
                    funds |-> settler.funds - spent]
    BY <1>3 DEF NextRow
  <2>4. settler' \in Working /\ settler'.pc = "row"
        /\ settler'.todo = Tail(settler.todo)
    BY <2>2, <2>3 DEF Working
  <2> QED
    BY <2>1, <2>4 DEF Leaves
<1> QED
  BY <1>2, <1>3

LEMMA WaitsIsRowStep ==
  ASSUME Types, Rows, Queue, settler \in Working,
         NEW reason \in {"treasury_low", "awaiting_trust"}, Waits(reason)
  PROVE  RowStep /\ Leaves /\ UNCHANGED <<ledger, doubts>>
<1>1. /\ Row \in DOMAIN onramps /\ onramps[Row] \in OnrampType
      /\ onramps[Row].status = "pending"
  BY AtRow
<1>2. Leaves
  BY RowLeft DEF Waits
<1> DEFINE o == [onramps[Row] EXCEPT !.reason = reason]
<1>3. o \in OnrampType /\ Kept(o, onramps[Row])
      /\ o.status = "pending" /\ o.hash = onramps[Row].hash
      /\ o.attempts = onramps[Row].attempts
  BY <1>1 DEF OnrampType, Kept
<1>4. o.hash = None /\ o.attempts < MaxAttempts
  BY <1>1, <1>3 DEF Rows
<1>5. onramps' = [onramps EXCEPT ![Row] = o]
  BY DEF Waits
<1>6. Outcome(o)
  BY <1>3, <1>4 DEF Outcome, Waits
<1> HIDE DEF o
<1> QED
  BY <1>2, <1>3, <1>5, <1>6 DEF RowStep, Waits

LEMMA FailsIsRowStep ==
  ASSUME Types, Rows, Queue, settler \in Working,
         NEW retryable \in BOOLEAN, Fails(retryable), OnlyOnramps
  PROVE  RowStep /\ Leaves /\ onramps'[Row].status # "completed"
<1>1. /\ Row \in DOMAIN onramps /\ onramps[Row] \in OnrampType
      /\ onramps[Row].status = "pending"
  BY AtRow
<1>2. Leaves
  BY RowLeft DEF Fails
<1>3. onramps[Row].hash = None /\ onramps[Row].attempts \in 0..MaxAttempts
      /\ onramps[Row].attempts < MaxAttempts /\ MaxAttempts \in Nat
  BY <1>1, RampsAssumption DEF Rows, OnrampType
<1> DEFINE attempts == onramps[Row].attempts + 1
<1>4. attempts \in 0..MaxAttempts /\ attempts = onramps[Row].attempts + 1
  BY <1>3
<1>5. CASE retryable /\ attempts < MaxAttempts
  <2> DEFINE o == [onramps[Row] EXCEPT !.attempts = attempts, !.reason = "retrying"]
  <2> HIDE DEF attempts
  <2>1. o \in OnrampType /\ Kept(o, onramps[Row])
        /\ o.status = "pending" /\ o.hash = None /\ o.attempts = attempts
    BY <1>1, <1>3, <1>4 DEF OnrampType, Kept
  <2>2. onramps' = [onramps EXCEPT ![Row] = o] /\ balance' = balance
    BY <1>1, <1>5 DEF Fails, attempts, Types
  <2>3. Outcome(o)
    BY <1>5, <2>1, <2>2 DEF Outcome
  <2>4. onramps'[Row] = o
    BY <1>1, <2>2
  <2> HIDE DEF o
  <2> QED
    BY <1>2, <2>1, <2>2, <2>3, <2>4 DEF RowStep
<1>6. CASE ~(retryable /\ attempts < MaxAttempts)
  <2> DEFINE o == [onramps[Row] EXCEPT !.attempts = attempts, !.reason = None,
                                       !.status = "failed"]
  <2> HIDE DEF attempts
  <2>1. o \in OnrampType /\ Kept(o, onramps[Row])
        /\ o.status = "failed" /\ o.hash = None /\ o.reason = None
    BY <1>1, <1>3, <1>4 DEF OnrampType, Kept
  <2>2. onramps' = [onramps EXCEPT ![Row] = o]
        /\ balance' = balance + onramps[Row].lira
    BY <1>1, <1>6 DEF Fails, attempts, Types
  <2>3. Outcome(o)
    BY <2>1, <2>2 DEF Outcome
  <2>4. onramps'[Row] = o
    BY <1>1, <2>2
  <2> HIDE DEF o
  <2> QED
    BY <1>2, <2>1, <2>2, <2>3, <2>4 DEF RowStep
<1> QED
  BY <1>5, <1>6

\* The settling loop does nothing else to rows than bringing forward the one at
\* hand, and what it does to the treasury's transactions.
LEMMA ConsidersIsRowStep ==
  ASSUME Types, Rows, Queue, Considers
  PROVE  /\ RowStep /\ UNCHANGED <<ledger, doubts>> /\ settler.pc = "row"
         /\ settler # Idle => settler'.pc # "poll"
<1>1. settler \in Working /\ settler.pc = "row"
  BY DEF Considers, Types, Idle
<1>2. \/ Waits("treasury_low") \/ Waits("awaiting_trust")
      \/ Fails(TRUE) /\ UNCHANGED <<ledger, doubts>> /\ OnlyOnramps
      \/ /\ settler' = [settler EXCEPT !.pc = IF trust THEN "pay" ELSE "park"]
         /\ UNCHANGED <<onramps, balance, ledger, doubts, faults>> /\ OnlyOnramps
  BY DEF Considers
<1>3. CASE Waits("treasury_low") \/ Waits("awaiting_trust")
  <2>1. RowStep /\ Leaves /\ UNCHANGED <<ledger, doubts>>
    BY <1>1, <1>3, WaitsIsRowStep
  <2>2. settler'.pc # "poll"
    BY <2>1 DEF Leaves, Idle
  <2> QED
    BY <1>1, <2>1, <2>2
<1>4. CASE /\ settler' = [settler EXCEPT !.pc = IF trust THEN "pay" ELSE "park"]
           /\ UNCHANGED <<onramps, balance, ledger, doubts, faults>> /\ OnlyOnramps
  <2>1. settler' \in Working /\ settler'.todo = settler.todo /\ settler'.pc # "poll"
    BY <1>1, <1>4 DEF Working
  <2>2. /\ Row \in DOMAIN onramps /\ onramps[Row] \in OnrampType
        /\ onramps[Row].status = "pending"
    BY <1>1, AtRow
  <2>3. onramps[Row].hash = None /\ onramps[Row].attempts < MaxAttempts
    BY <2>2 DEF Rows
  <2>4. onramps' = [onramps EXCEPT ![Row] = onramps[Row]]
    BY <1>4, <2>2 DEF Types
  <2>5. Outcome(onramps[Row]) /\ Kept(onramps[Row], onramps[Row])
    BY <1>4, <2>2, <2>3 DEF Outcome, Kept
  <2>6. Stays /\ OnlyOnramps
    BY <1>4, <2>1 DEF Stays
  <2> QED
    BY <1>1, <1>4, <2>1, <2>2, <2>4, <2>5, <2>6 DEF RowStep
<1>5. CASE Fails(TRUE) /\ UNCHANGED <<ledger, doubts>> /\ OnlyOnramps
  <2>1. RowStep /\ Leaves
    BY <1>1, <1>5, FailsIsRowStep
  <2>2. settler'.pc # "poll"
    BY <2>1 DEF Leaves, Idle
  <2> QED
    BY <1>1, <1>5, <2>1, <2>2
<1> QED
  BY <1>2, <1>3, <1>4, <1>5

LEMMA SubmitsIsRowStep ==
  ASSUME Types, Rows, Queue, Submits
  PROVE  /\ RowStep /\ UNCHANGED <<sequence, treasury, trust, feed>>
         /\ settler.pc \in {"pay", "park"}
         /\ \/ /\ Stays /\ settler'.pc = "poll" /\ doubts' = doubts
               /\ chain' = Append(chain, [onramp |-> Row, via |-> settler.pc,
                                          seq |-> sequence, status |-> "sent"])
            \/ /\ Leaves /\ doubts' = doubts \cup {Row}
               /\ chain' = Append(chain, [onramp |-> Row, via |-> settler.pc,
                                          seq |-> sequence, status |-> "sent"])
            \/ Leaves /\ UNCHANGED <<chain, doubts>>
<1>1. settler \in Working /\ settler.pc \in {"pay", "park"}
  BY DEF Submits, Types, Idle
<1> DEFINE tx == [onramp |-> Row, via |-> settler.pc, seq |-> sequence,
                  status |-> "sent"]
<1>2. /\ \/ /\ chain' = Append(chain, tx) /\ settler' = [settler EXCEPT !.pc = "poll"]
            /\ UNCHANGED <<onramps, balance, doubts, faults>>
         \/ chain' = Append(chain, tx) /\ Fails(TRUE) /\ doubts' = doubts \cup {Row}
         \/ Fails(TRUE) /\ UNCHANGED <<chain, doubts>>
      /\ UNCHANGED <<sequence, treasury, trust, feed>> /\ OnlyOnramps
  BY DEF Submits
<1> HIDE DEF tx
<1>3. CASE /\ chain' = Append(chain, tx) /\ settler' = [settler EXCEPT !.pc = "poll"]
           /\ UNCHANGED <<onramps, balance, doubts, faults>>
  <2>1. settler' \in Working /\ settler'.todo = settler.todo /\ settler'.pc = "poll"
    BY <1>1, <1>3 DEF Working
  <2>2. /\ Row \in DOMAIN onramps /\ onramps[Row] \in OnrampType
        /\ onramps[Row].status = "pending"
    BY <1>1, AtRow
  <2>3. onramps[Row].hash = None /\ onramps[Row].attempts < MaxAttempts
    BY <2>2 DEF Rows
  <2>4. onramps' = [onramps EXCEPT ![Row] = onramps[Row]]
    BY <1>3, <2>2 DEF Types
  <2>5. Outcome(onramps[Row]) /\ Kept(onramps[Row], onramps[Row])
    BY <1>3, <2>2, <2>3 DEF Outcome, Kept
  <2>6. Stays
    BY <1>3, <2>1 DEF Stays
  <2>7. RowStep
    BY <1>1, <1>2, <2>2, <2>4, <2>5, <2>6 DEF RowStep
  <2> QED
    BY <1>1, <1>2, <1>3, <2>1, <2>6, <2>7 DEF tx
<1>4. ASSUME Fails(TRUE) PROVE RowStep /\ Leaves
  BY <1>1, <1>2, <1>4, FailsIsRowStep
<1> QED
  BY <1>1, <1>2, <1>3, <1>4 DEF tx

LEMMA PollsIsRowStep ==
  ASSUME Types, Rows, Queue, Polls
  PROVE  /\ RowStep /\ Leaves /\ UNCHANGED ledger /\ settler.pc = "poll"
         /\ \/ /\ chain[Len(chain)].status = "success"
               /\ onramps'[Row].status = "completed"
               /\ onramps'[Row].hash = Len(chain) /\ doubts' = doubts
            \/ /\ chain[Len(chain)].status \in {"failed", "dead"} /\ doubts' = doubts
               /\ onramps'[Row].status # "completed"
            \/ doubts' = doubts \cup {Row} /\ onramps'[Row].status # "completed"
<1> DEFINE t == Len(chain)
<1>1. settler \in Working /\ settler.pc = "poll"
  BY DEF Polls, Types, Idle
<1>2. /\ Row \in DOMAIN onramps /\ onramps[Row] \in OnrampType
      /\ onramps[Row].status = "pending"
  BY <1>1, AtRow
<1>3. /\ \/ /\ chain[t].status = "success"
            /\ onramps' = [onramps EXCEPT ![Row] = Completed(onramps[Row], t)]
            /\ NextRow(onramps[Row].tokens)
            /\ UNCHANGED <<balance, doubts, faults>>
         \/ /\ chain[t].status \in {"failed", "dead"}
            /\ Fails(FALSE) /\ UNCHANGED <<doubts, faults>>
         \/ Fails(FALSE) /\ doubts' = doubts \cup {Row}
      /\ UNCHANGED ledger /\ OnlyOnramps
  BY <1>2 DEF Polls, Confirms, Types
<1>4. CASE /\ chain[t].status = "success"
           /\ onramps' = [onramps EXCEPT ![Row] = Completed(onramps[Row], t)]
           /\ NextRow(onramps[Row].tokens)
           /\ UNCHANGED <<balance, doubts, faults>>
  <2> DEFINE o == Completed(onramps[Row], t)
  <2>1. t \in Nat
    BY DEF Types
  <2> HIDE DEF t
  <2>2. o \in OnrampType /\ Kept(o, onramps[Row])
        /\ o.status = "completed" /\ o.hash = t /\ o.reason = None
    BY <1>2, <2>1 DEF OnrampType, Kept, Completed
  <2>3. onramps'[Row] = o
    BY <1>2, <1>4
  <2> USE DEF t
  <2>4. Outcome(o)
    BY <1>1, <1>4, <2>2 DEF Outcome
  <2>5. onramps[Row].tokens \in Int
    BY <1>2 DEF OnrampType
  <2>6. Leaves
    BY <1>1, <1>4, <2>5, RowLeft
  <2>7. onramps' = [onramps EXCEPT ![Row] = o]
    BY <1>4
  <2> HIDE DEF o
  <2>8. RowStep
    BY <1>1, <1>3, <2>2, <2>4, <2>6, <2>7 DEF RowStep
  <2> QED
    BY <1>1, <1>3, <1>4, <2>2, <2>3, <2>6, <2>8
<1>5. ASSUME Fails(FALSE) PROVE RowStep /\ Leaves /\ onramps'[Row].status # "completed"
  BY <1>1, <1>3, <1>5, FailsIsRowStep
<1> QED
  BY <1>1, <1>3, <1>4, <1>5

-----------------------------------------------------------------------------
\* Bringing a row forward keeps the parts of the invariant above.

LEMMA RowStepChange ==
  ASSUME Types, Queue, RowStep
  PROVE  /\ Row \in DOMAIN onramps /\ onramps' \in Seq(OnrampType)
         /\ DOMAIN onramps' = DOMAIN onramps
         /\ \A n \in DOMAIN onramps : n # Row => onramps'[n] = onramps[n]
         /\ Kept(onramps'[Row], onramps[Row]) /\ Outcome(onramps'[Row])
<1>1. PICK o \in OnrampType :
         /\ onramps' = [onramps EXCEPT ![Row] = o]
         /\ Kept(o, onramps[Row]) /\ Outcome(o)
  BY DEF RowStep
<1>2. Row \in DOMAIN onramps /\ onramps \in Seq(OnrampType)
  BY AtRow DEF RowStep, Types
<1>3. PICK s : s = onramps
  OBVIOUS
<1>4. PICK r : r = Row
  OBVIOUS
<1>5. s \in Seq(OnrampType) /\ r \in 1..Len(s) /\ DOMAIN s = 1..Len(s)
  BY <1>2, <1>3, <1>4, LenProperties
<1>6. /\ [s EXCEPT ![r] = o] \in Seq(OnrampType)
      /\ DOMAIN [s EXCEPT ![r] = o] = DOMAIN s
      /\ \A n \in DOMAIN s : n # r => [s EXCEPT ![r] = o][n] = s[n]
      /\ [s EXCEPT ![r] = o][r] = o
  BY <1>5, ExceptSeq, Zenon
<1> QED
  BY <1>1, <1>2, <1>3, <1>4, <1>6

LEMMA RowStepTypes ==
  ASSUME Types, Rows, Queue, RowStep,
         UNCHANGED <<sequence, treasury, feed>>, chain' \in Seq(Sending)
  PROVE  Types' /\ Rows' /\ Queue'
<1>1. /\ Row \in DOMAIN onramps /\ onramps' \in Seq(OnrampType)
      /\ DOMAIN onramps' = DOMAIN onramps
      /\ \A n \in DOMAIN onramps : n # Row => onramps'[n] = onramps[n]
      /\ Kept(onramps'[Row], onramps[Row]) /\ Outcome(onramps'[Row])
  BY RowStepChange
<1>2. /\ settler \in Working /\ settler # Idle
      /\ settler.todo \in Seq(Nat) /\ settler.todo # <<>> /\ Row = settler.todo[1]
      /\ onramps[Row] \in OnrampType
  BY AtRow DEF RowStep
<1>3. UNCHANGED <<now, deposits, withdrawals, consumed, unmatched, cursor, funding, watcher>>
  BY DEF RowStep, OnlyOnramps
<1>4. Types'
  <2>1. balance' \in Int
    <3>1. onramps[Row].lira \in Lira /\ Lira \subseteq Nat
      BY <1>2, RampsAssumption DEF OnrampType
    <3>2. balance' = balance \/ balance' = balance + onramps[Row].lira
      BY <1>1 DEF Outcome
    <3>3. balance \in Int
      BY DEF Types
    <3>4. PICK x \in Nat : x = onramps[Row].lira
      BY <3>1
    <3> QED
      BY <3>2, <3>3, <3>4
  <2>2. settler' \in Working \cup {Idle}
    BY DEF RowStep, Stays, Leaves
  <2> QED
    BY <1>1, <1>3, <2>1, <2>2 DEF Types
<1>5. Rows'
  <2>1. ASSUME NEW n \in DOMAIN onramps'
        PROVE  /\ onramps'[n].status = "completed" <=> onramps'[n].hash # None
               /\ onramps'[n].status # "pending" => onramps'[n].reason = None
               /\ onramps'[n].status = "pending" => onramps'[n].attempts < MaxAttempts
    <3>1. CASE n = Row
      <4>1. Len(chain) # None
        BY RampsAssumption DEF Types
      <4> QED
        BY <1>1, <3>1, <4>1 DEF Outcome
    <3>2. CASE n # Row
      BY <1>1, <3>2 DEF Rows
    <3> QED
      BY <3>1, <3>2
  <2>2. \A n \in DOMAIN onramps : onramps'[n].deposit = onramps[n].deposit
    BY <1>1 DEF Kept
  <2> QED
    BY <1>1, <1>3, <2>1, <2>2 DEF Rows
<1>6. Queue'
  <2>1. CASE Stays
    <3>1. onramps' = onramps /\ settler'.todo = settler.todo
      BY <2>1 DEF Stays
    <3> QED
      BY <1>2, <3>1 DEF Queue
  <2>2. CASE settler' = Idle
    BY <2>2 DEF Queue
  <2>3. CASE settler'.todo = Tail(settler.todo) /\ Len(settler.todo) > 1
    <3>1. PICK s : s = settler.todo
      OBVIOUS
    <3>2. PICK t : t = Tail(s)
      OBVIOUS
    <3>3. /\ s \in Seq(Nat) /\ s # <<>> /\ Row = s[1] /\ Len(s) > 1
          /\ \A i \in 1..Len(s) : s[i] \in DOMAIN onramps
                                    /\ onramps[s[i]].status = "pending"
          /\ \A i, j \in 1..Len(s) : i < j => s[i] < s[j]
      BY <1>2, <2>3, <3>1 DEF Queue
    <3>4. /\ t \in Seq(Nat) /\ Len(t) = Len(s) - 1
          /\ \A i \in 1..Len(t) : t[i] = s[i + 1]
      BY <3>2, <3>3, HeadTailProperties
    <3>5. PICK k \in Nat : k = Len(t)
      BY <3>4, LenProperties
    <3>6. Len(s) = k + 1
      BY <3>3, <3>4, <3>5, LenProperties
    <3>7. ASSUME NEW i \in 1..k
          PROVE  t[i] \in DOMAIN onramps' /\ onramps'[t[i]].status = "pending"
      <4>1. i + 1 \in 1..(k + 1) /\ 1 \in 1..(k + 1) /\ 1 < i + 1
        BY <3>5
      <4>2. s[1] < s[i + 1] /\ s[i + 1] \in Nat
        BY <3>3, <3>6, <4>1, ElementOfSeq
      <4>3. t[i] = s[i + 1]
        BY <3>4, <3>5
      <4>4. t[i] # Row
        BY <3>3, <4>2, <4>3
      <4> QED
        BY <1>1, <3>3, <3>6, <4>1, <4>3, <4>4
    <3>8. ASSUME NEW i \in 1..k, NEW j \in 1..k, i < j PROVE t[i] < t[j]
      <4>1. i + 1 \in 1..(k + 1) /\ j + 1 \in 1..(k + 1) /\ i + 1 < j + 1
        BY <3>5, <3>8
      <4> QED
        BY <3>3, <3>4, <3>5, <3>6, <4>1
    <3>9. t # <<>>
      BY <3>3, <3>4, <3>5, <3>6, EmptySeq
    <3> QED
      BY <2>3, <3>1, <3>2, <3>5, <3>7, <3>8, <3>9 DEF Queue
  <2> QED
    BY <2>1, <2>2, <2>3 DEF RowStep, Leaves
<1> QED
  BY <1>4, <1>5, <1>6

-----------------------------------------------------------------------------
\* A new row.

NewRow(d, lira, rate, q) ==
    [deposit |-> d, quote |-> q, lira |-> lira, tokens |-> TryToUsdc(lira, rate),
     status |-> "pending", reason |-> None, attempts |-> 0, hash |-> None]

LEMMA NewRowChange ==
  ASSUME Types, NEW d \in Deposits, NEW lira \in Lira, NEW rate \in Nat \ {0},
         NEW q \in Buys \cup {None}, TryToUsdc(lira, rate) > 0,
         CreatesOnramp(d, lira, rate, q)
  PROVE  /\ Len(onramps) \in Nat /\ NewRow(d, lira, rate, q) \in OnrampType
         /\ onramps' \in Seq(OnrampType)
         /\ DOMAIN onramps' = DOMAIN onramps \cup {Len(onramps) + 1}
         /\ Len(onramps) + 1 \notin DOMAIN onramps
         /\ \A n \in DOMAIN onramps : n \in Nat \ {0} /\ onramps'[n] = onramps[n]
         /\ onramps'[Len(onramps) + 1] = NewRow(d, lira, rate, q)
<1>1. TryToUsdc(lira, rate) \in Nat \ {0}
  <2>1. lira * Scale \in Nat
    BY RampsAssumption, ScaleAssumption
  <2>2. TryToUsdc(lira, rate) \in Nat
    BY <2>1, Quotient DEF TryToUsdc
  <2> QED
    BY <2>2
<1>2. NewRow(d, lira, rate, q) \in OnrampType
  BY <1>1, RampsAssumption DEF NewRow, OnrampType
<1>3. PICK o : o = NewRow(d, lira, rate, q)
  OBVIOUS
<1>4. onramps' = Append(onramps, o)
  BY <1>3 DEF CreatesOnramp, NewRow
<1>5. PICK s : s = onramps
  OBVIOUS
<1>6. s \in Seq(OnrampType) /\ o \in OnrampType
  BY <1>2, <1>3, <1>5 DEF Types
<1>7. PICK k \in Nat : k = Len(s)
  BY <1>6, LenProperties
<1>8. /\ Append(s, o) \in Seq(OnrampType) /\ Len(Append(s, o)) = k + 1
      /\ \A i \in 1..k : Append(s, o)[i] = s[i]
      /\ Append(s, o)[k + 1] = o
  BY <1>6, <1>7, AppendProperties
<1>9. DOMAIN s = 1..k /\ DOMAIN Append(s, o) = 1..(k + 1)
  BY <1>6, <1>7, <1>8, LenProperties
<1>10. 1..(k + 1) = (1..k) \cup {k + 1} /\ k + 1 \notin 1..k /\ 1..k \subseteq Nat \ {0}
  OBVIOUS
<1> QED
  BY <1>2, <1>3, <1>4, <1>5, <1>6, <1>7, <1>8, <1>9, <1>10

\* With the funding that led to it, and nothing else but what CreatesOnramp changes.
LEMMA NewRowTypes ==
  ASSUME Types, Rows, Queue,
         NEW d \in Deposits, NEW lira \in Lira, NEW rate \in Nat \ {0},
         NEW q \in Buys \cup {None}, TryToUsdc(lira, rate) > 0,
         CreatesOnramp(d, lira, rate, q), deposits[d] # None,
         funding' \in [1..MaxRequests -> Transfer \cup {None}],
         \A slot \in 1..MaxRequests : funding'[slot] \in {None, funding[slot]},
         UNCHANGED <<now, loops, ledger, ghosts, faults>>
  PROVE  Types' /\ Rows' /\ Queue'
<1> DEFINE k == Len(onramps) + 1
           new == NewRow(d, lira, rate, q)
<1>1. /\ k \in Nat /\ k \notin DOMAIN onramps /\ new \in OnrampType
      /\ onramps' \in Seq(OnrampType) /\ DOMAIN onramps' = DOMAIN onramps \cup {k}
      /\ \A n \in DOMAIN onramps : onramps'[n] = onramps[n]
      /\ onramps'[k] = new
  <2>1. /\ Len(onramps) \in Nat /\ NewRow(d, lira, rate, q) \in OnrampType
        /\ onramps' \in Seq(OnrampType)
        /\ DOMAIN onramps' = DOMAIN onramps \cup {Len(onramps) + 1}
        /\ Len(onramps) + 1 \notin DOMAIN onramps
        /\ \A n \in DOMAIN onramps : n \in Nat \ {0} /\ onramps'[n] = onramps[n]
        /\ onramps'[Len(onramps) + 1] = NewRow(d, lira, rate, q)
    BY NewRowChange
  <2>2. Len(onramps) + 1 \in Nat
    BY <2>1
  <2> QED
    BY <2>1, <2>2, Zenon
<1>2. /\ new.deposit = d /\ new.status = "pending" /\ new.reason = None
      /\ new.attempts = 0 /\ new.hash = None
  BY DEF NewRow
<1>3. /\ deposits' = [deposits EXCEPT ![d].onramp = k]
      /\ consumed' = IF q = None THEN consumed ELSE [consumed EXCEPT ![q] = <<d, k>>]
      /\ UNCHANGED <<withdrawals, balance, unmatched, cursor, told>>
  BY DEF CreatesOnramp
<1>4. UNCHANGED <<now, settler, watcher, chain, sequence, treasury, feed>>
  BY DEF loops, ledger
<1> HIDE DEF k, new
<1>5. deposits[d] \in DepositType
  BY DEF Types
<1>6. deposits'[d] = [deposits[d] EXCEPT !.onramp = k]
  BY <1>3 DEF Types
<1>7. deposits'[d] \in DepositType /\ deposits'[d].onramp = k
  BY <1>1, <1>5, <1>6 DEF DepositType
<1>8. \A e \in Deposits : e # d => deposits'[e] = deposits[e]
  BY <1>3 DEF Types
<1>9. deposits' \in [Deposits -> DepositType \cup {None}]
  BY <1>3, <1>7, <1>8 DEF Types
<1>10. deposits'[d] # None
  BY <1>7, RampsAssumption
<1>11. Types'
  <2>1. consumed' \in [Quotes -> (Transactions \X Nat) \cup {None}]
    <3>1. <<d, k>> \in Transactions \X Nat /\ consumed \in [Quotes -> (Transactions \X Nat) \cup {None}]
      BY <1>1 DEF Transactions, Types
    <3> QED
      BY <1>3, <3>1
  <2> QED
    BY <1>1, <1>3, <1>4, <1>9, <2>1 DEF Types
<1>12. Rows'
  <2>1. ASSUME NEW n \in DOMAIN onramps'
        PROVE  /\ onramps'[n].status = "completed" <=> onramps'[n].hash # None
               /\ onramps'[n].status # "pending" => onramps'[n].reason = None
               /\ onramps'[n].status = "pending" => onramps'[n].attempts < MaxAttempts
    <3>1. CASE n = k
      <4>1. 0 < MaxAttempts
        BY RampsAssumption
      <4> QED
        BY <1>1, <1>2, <3>1, <4>1
    <3>2. CASE n # k
      BY <1>1, <3>2 DEF Rows
    <3> QED
      BY <3>1, <3>2
  <2>2. ASSUME NEW e \in Deposits, deposits'[e] # None, deposits'[e].onramp # None
        PROVE  /\ deposits'[e].onramp \in DOMAIN onramps'
               /\ onramps'[deposits'[e].onramp].deposit = e
    <3>1. CASE e = d
      BY <1>1, <1>2, <1>7, <3>1
    <3>2. CASE e # d
      BY <1>1, <1>8, <2>2, <3>2 DEF Rows
    <3> QED
      BY <3>1, <3>2
  <2>3. ASSUME NEW slot \in 1..MaxRequests, funding'[slot] # None
        PROVE  deposits'[funding'[slot].deposit] # None
    <3>1. funding'[slot] = funding[slot] /\ funding[slot].deposit \in Deposits
      BY <2>3 DEF Types, Transfer
    <3> QED
      BY <1>8, <1>10, <2>3, <3>1 DEF Rows
  <2> QED
    BY <2>1, <2>2, <2>3 DEF Rows
<1>13. Queue'
  BY <1>1, <1>4 DEF Queue
<1> QED
  BY <1>11, <1>12, <1>13

\* A deposit that a firm quote prices brings what was promised, and so something.
LEMMA QuoteBrings ==
  ASSUME NEW q \in Buys
  PROVE  /\ QuoteRate(q) \in Nat \ {0}
         /\ TryToUsdc(Quote(q).sold, QuoteRate(q)) >= Quote(q).bought
         /\ Quote(q).bought > 0
<1>1. /\ Asked[q].exact \in {"sell", "buy"} /\ Asked[q].amount \in Nat
      /\ QuoteRate(q) \in Nat \ {0} /\ Quote(q).bought > 0
  BY RampsAssumption DEF Quotes
<1>2. Side(q) = "buy"
  BY DEF Side
<1>3. Quote(q) = FirmQuote("buy", Asked[q].exact, Asked[q].amount, QuoteRate(q))
  BY <1>2 DEF Quote
<1>4. PICK r \in Nat \ {0} : r = QuoteRate(q)
  BY <1>1
<1> QED
  BY <1>1, <1>3, <1>4, FirmQuotesAreKept

LEMMA ConversionTypes ==
  ASSUME NEW a \in Nat, NEW rate \in Nat \ {0}
  PROVE  TryToUsdc(a, rate) \in Nat /\ UsdcToTry(a, rate) \in Nat
<1>1. a * Scale \in Nat /\ a * rate \in Nat /\ Scale \in Nat \ {0}
  BY ScaleAssumption
<1> QED
  BY <1>1, Quotient DEF TryToUsdc, UsdcToTry

-----------------------------------------------------------------------------
\* The payments that the watching loop still has before it follow the cursor.

Window ==
    /\ cursor <= Len(feed)
    /\ watcher # Idle =>
         /\ cursor <= watcher.next /\ watcher.next <= Len(feed)
         /\ Len(watcher.todo) <= watcher.next - cursor
         /\ \A i \in 1..Len(watcher.todo) :
              watcher.todo[i] = watcher.next - Len(watcher.todo) + i

LEMMA AtPayment ==
  ASSUME Types, Window, watcher \in Handling, watcher.todo # <<>>
  PROVE  /\ Len(watcher.todo) \in Nat \ {0} /\ watcher.next \in Nat
         /\ Head(watcher.todo) = watcher.next - Len(watcher.todo) + 1
         /\ Head(watcher.todo) \in DOMAIN feed /\ feed[Head(watcher.todo)] \in Payment
         /\ Head(watcher.todo) > cursor
         /\ Tail(watcher.todo) \in Seq(Nat)
         /\ Len(Tail(watcher.todo)) = Len(watcher.todo) - 1
         /\ \A i \in 1..(Len(watcher.todo) - 1) : Tail(watcher.todo)[i] = watcher.todo[i + 1]
<1>1. watcher # Idle
  BY IdleIsNotBusy
<1>2. watcher.todo \in Seq(Nat) /\ watcher.next \in Nat
  BY DEF Handling
<1>3. PICK s : s = watcher.todo
  OBVIOUS
<1>4. PICK k : k = Len(s)
  OBVIOUS
<1>5. s \in Seq(Nat) /\ s # <<>> /\ k \in Nat \ {0}
  BY <1>2, <1>3, <1>4, EmptySeq, Zenon
<1>6. PICK n \in Nat : n = watcher.next
  BY <1>2
<1>7. PICK m : m = Len(feed)
  OBVIOUS
<1>8. feed \in Seq(Payment) /\ m \in Nat /\ DOMAIN feed = 1..m /\ cursor \in Nat
  BY <1>7, LenProperties DEF Types
<1>9. cursor <= n /\ n <= m /\ k <= n - cursor /\ \A i \in 1..k : s[i] = n - k + i
  BY <1>1, <1>3, <1>4, <1>6, <1>7 DEF Window
<1>10. 1 \in 1..k /\ Head(s) = s[1]
  BY <1>5, <1>4
<1>11. Head(s) = n - k + 1
  BY <1>9, <1>10
<1>12. n - k + 1 \in 1..m /\ n - k + 1 > cursor
  BY <1>5, <1>6, <1>8, <1>9
<1>13. feed[n - k + 1] \in Payment
  BY <1>7, <1>8, <1>12, ElementOfSeq
<1>14. /\ Tail(s) \in Seq(Nat) /\ Len(Tail(s)) = k - 1
       /\ \A i \in 1..(k - 1) : Tail(s)[i] = s[i + 1]
  BY <1>4, <1>5, HeadTailProperties
<1> QED
  BY <1>3, <1>4, <1>5, <1>6, <1>8, <1>11, <1>12, <1>13, <1>14

\* The parts above together.
Shape == Types /\ Rows /\ Queue /\ Window

LEMMA ShapeFrame ==
  ASSUME Shape, UNCHANGED <<now, tables, funding, settler, watcher, ledger>>
  PROVE  Shape'
  BY DEF Shape, Types, Rows, Queue, Window, tables, ledger

LEMMA ShapeInit == Init => Shape
<1> SUFFICES ASSUME Init PROVE Shape
  OBVIOUS
<1>1. /\ <<>> \in Seq(OnrampType) /\ <<>> \in Seq(Sending) /\ <<>> \in Seq(Payment)
      /\ <<>> \in Seq(Nat)
  BY EmptySeq
<1>2. Types
  BY <1>1, RampsAssumption DEF Init, Types
<1>3. Rows
  BY DEF Init, Rows
<1>4. Queue /\ Window
  BY EmptySeq DEF Init, Queue, Window
<1> QED
  BY <1>2, <1>3, <1>4 DEF Shape

LEMMA ShapeDeposit ==
  ASSUME Shape, NEW d \in Deposits, NEW q \in Buys \cup {None}, Deposit(d, q)
  PROVE  Shape'
<1>1. /\ deposits' = [deposits EXCEPT ![d] = [quote |-> q, onramp |-> None]]
      /\ UNCHANGED <<now, withdrawals, onramps, consumed, balance, unmatched,
                     cursor, funding, settler, watcher, ledger>>
  BY DEF Deposit, loops
<1>2. [quote |-> q, onramp |-> None] \in DepositType
  BY DEF DepositType
<1>3. deposits' \in [Deposits -> DepositType \cup {None}] /\ deposits'[d] # None
      /\ deposits'[d].onramp = None
  BY <1>1, <1>2, RampsAssumption DEF Shape, Types
<1>4. \A e \in Deposits : e # d => deposits'[e] = deposits[e]
  BY <1>1 DEF Shape, Types
<1>5. Types'
  BY <1>1, <1>3 DEF Shape, Types, ledger
<1>6. Rows'
  <2>1. \A e \in Deposits : deposits[e] # None => deposits'[e] # None
    BY <1>3, <1>4
  <2>2. ASSUME NEW slot \in 1..MaxRequests, funding[slot] # None
        PROVE  deposits'[funding[slot].deposit] # None
    <3>1. funding[slot].deposit \in Deposits
      BY <2>2 DEF Shape, Types, Transfer
    <3> QED
      BY <2>1, <2>2, <3>1 DEF Shape, Rows
  <2> QED
    BY <1>1, <1>3, <1>4, <2>2 DEF Shape, Rows
<1>7. Queue' /\ Window'
  BY <1>1 DEF Shape, Queue, Window, ledger
<1> QED
  BY <1>5, <1>6, <1>7 DEF Shape

LEMMA QuoteSells ==
  ASSUME NEW q \in Buys, Quote(q).sold \in Lira
  PROVE  TryToUsdc(Quote(q).sold, QuoteRate(q)) > 0
<1>1. PICK rate \in Nat \ {0} : rate = QuoteRate(q)
  BY QuoteBrings
<1>2. TryToUsdc(Quote(q).sold, rate) \in Nat
  BY RampsAssumption, ConversionTypes
<1>3. Quote(q).bought \in Nat
  <2>1. Asked[q].exact \in {"sell", "buy"} /\ Asked[q].amount \in Nat
    BY RampsAssumption DEF Quotes
  <2>2. Quote(q) = FirmQuote("buy", Asked[q].exact, Asked[q].amount, rate)
    BY <1>1, <2>1 DEF Quote, Side
  <2>3. TryToUsdc(Asked[q].amount, rate) \in Nat
    BY <2>1, ConversionTypes
  <2> QED
    BY <2>1, <2>2, <2>3 DEF FirmQuote
<1>4. TryToUsdc(Quote(q).sold, rate) >= Quote(q).bought /\ Quote(q).bought > 0
  BY <1>1, QuoteBrings
<1> QED
  BY <1>1, <1>2, <1>3, <1>4

\* A transfer makes a row at once, at the rate of its firm quote, or waits for one.
LEMMA FundKinds ==
  ASSUME Shape, NEW d \in Deposits, NEW lira \in Lira, Fund(d, lira)
  PROVE  /\ deposits[d] # None /\ UNCHANGED <<now, loops, ledger, ghosts, faults>>
         /\ \/ UNCHANGED tables
            \/ \E q \in Buys :
                 /\ q = deposits[d].quote /\ Usable(q) /\ Quote(q).sold = lira
                 /\ QuoteRate(q) \in Nat \ {0}
                 /\ TryToUsdc(lira, QuoteRate(q)) > 0
                 /\ TryToUsdc(lira, QuoteRate(q)) >= Quote(q).bought
                 /\ CreatesOnramp(d, lira, QuoteRate(q), q)
<1> DEFINE q == deposits[d].quote
<1>1. deposits[d] # None /\ UNCHANGED <<now, loops, ledger, ghosts, faults>>
  BY DEF Fund, Unfunded
<1>2. q \in Buys \cup {None}
  BY <1>1 DEF Shape, Types, DepositType
<1>3. CASE q # None /\ Usable(q) /\ Quote(q).sold = lira
  <2>1. CreatesOnramp(d, lira, QuoteRate(q), q) /\ q \in Buys
    BY <1>2, <1>3 DEF Fund
  <2>2. /\ QuoteRate(q) \in Nat \ {0} /\ TryToUsdc(lira, QuoteRate(q)) > 0
        /\ TryToUsdc(lira, QuoteRate(q)) >= Quote(q).bought
    BY <1>3, <2>1, QuoteBrings, QuoteSells
  <2> HIDE DEF q
  <2> QED
    BY <1>1, <1>3, <2>1, <2>2 DEF q
<1>4. CASE ~(q # None /\ Usable(q) /\ Quote(q).sold = lira)
  BY <1>1, <1>4 DEF Fund
<1> QED
  BY <1>3, <1>4

LEMMA ShapeFund ==
  ASSUME Shape, NEW d \in Deposits, NEW lira \in Lira, Fund(d, lira)
  PROVE  Shape'
<1> USE DEF Shape
<1>1. deposits[d] # None /\ UNCHANGED <<now, loops, ledger, ghosts, faults>>
  BY DEF Fund, Unfunded
<1>2. deposits[d].quote \in Buys \cup {None}
  BY <1>1 DEF Types, DepositType
<1> DEFINE q == deposits[d].quote
<1>3. CASE q # None /\ Usable(q) /\ Quote(q).sold = lira
  <2>1. CreatesOnramp(d, lira, QuoteRate(q), q) /\ funding' = funding
    BY <1>3 DEF Fund
  <2>2. PICK rate \in Nat \ {0} : rate = QuoteRate(q)
    BY <1>2, <1>3, QuoteBrings
  <2>3. TryToUsdc(lira, rate) > 0
    BY <1>2, <1>3, <2>2, QuoteSells
  <2>4. /\ funding' \in [1..MaxRequests -> Transfer \cup {None}]
        /\ \A slot \in 1..MaxRequests : funding'[slot] \in {None, funding[slot]}
    BY <2>1 DEF Types
  <2>5. Types' /\ Rows' /\ Queue'
    BY <1>1, <1>2, <2>1, <2>2, <2>3, <2>4, NewRowTypes
  <2>6. Window'
    BY <1>1, <2>1 DEF Window, CreatesOnramp, loops, ledger
  <2> QED
    BY <2>5, <2>6
<1>4. CASE ~(q # None /\ Usable(q) /\ Quote(q).sold = lira)
  <2>1. PICK slot \in 1..MaxRequests :
           funding' = [funding EXCEPT ![slot] = [deposit |-> d, lira |-> lira]]
    BY <1>4 DEF Fund
  <2>2. UNCHANGED tables
    BY <1>4 DEF Fund
  <2>3. [deposit |-> d, lira |-> lira] \in Transfer
    BY DEF Transfer
  <2>4. Types'
    BY <1>1, <2>1, <2>2, <2>3 DEF Types, tables, loops, ledger
  <2>5. Rows'
    BY <1>1, <2>1, <2>2 DEF Rows, Types, tables
  <2>6. Queue' /\ Window'
    BY <1>1, <2>2 DEF Queue, Window, tables, loops, ledger
  <2> QED
    BY <2>4, <2>5, <2>6
<1> QED
  BY <1>3, <1>4

LEMMA ShapePriced ==
  ASSUME Shape, NEW slot \in 1..MaxRequests, NEW rate \in Rates, Priced(slot, rate)
  PROVE  Shape'
<1> USE DEF Shape
<1> DEFINE f == funding[slot]
<1>1. /\ f # None /\ funding' = [funding EXCEPT ![slot] = None]
      /\ UNCHANGED <<now, loops, ledger, ghosts, faults>>
      /\ IF TryToUsdc(f.lira, rate) > 0
         THEN CreatesOnramp(f.deposit, f.lira, rate, None) ELSE UNCHANGED tables
  BY DEF Priced
<1>2. /\ f.deposit \in Deposits /\ f.lira \in Lira /\ deposits[f.deposit] # None
      /\ rate \in Nat \ {0}
  BY <1>1, RampsAssumption DEF Types, Rows, Transfer
<1>3. /\ funding' \in [1..MaxRequests -> Transfer \cup {None}]
      /\ \A s \in 1..MaxRequests : funding'[s] \in {None, funding[s]}
  BY <1>1 DEF Types
<1> HIDE DEF f
<1>4. CASE TryToUsdc(f.lira, rate) > 0
  <2>1. CreatesOnramp(f.deposit, f.lira, rate, None)
    BY <1>1, <1>4
  <2>2. Types' /\ Rows' /\ Queue'
    BY <1>1, <1>2, <1>3, <1>4, <2>1, NewRowTypes
  <2>3. Window'
    BY <1>1, <2>1 DEF Window, CreatesOnramp, loops, ledger
  <2> QED
    BY <2>2, <2>3
<1>5. CASE ~(TryToUsdc(f.lira, rate) > 0)
  <2>1. UNCHANGED tables
    BY <1>1, <1>5
  <2>2. Types'
    BY <1>1, <1>3, <2>1 DEF Types, tables, loops, ledger
  <2>3. Rows'
    BY <1>1, <1>3, <2>1 DEF Rows, tables
  <2>4. Queue' /\ Window'
    BY <1>1, <2>1 DEF Queue, Window, tables, loops, ledger
  <2> QED
    BY <2>2, <2>3, <2>4
<1> QED
  BY <1>4, <1>5

LEMMA ShapeWithdraw ==
  ASSUME Shape, NEW w \in Withdrawals, NEW q \in Sells \cup {None}, NEW live \in Rates,
         Withdraw(w, q, live)
  PROVE  Shape'
<1> USE DEF Shape
<1> DEFINE row == [quote |-> q, rate |-> IF q = None THEN live ELSE QuoteRate(q),
                   lockedUntil |-> now + RateLock, payment |-> None, paid |-> 0]
<1>1. /\ withdrawals' = [withdrawals EXCEPT ![w] = row]
      /\ consumed' = IF q = None THEN consumed ELSE [consumed EXCEPT ![q] = <<w, 0>>]
      /\ UNCHANGED <<now, deposits, onramps, balance, unmatched, cursor, told,
                     funding, settler, watcher, ledger>>
  BY DEF Withdraw, loops
<1>2. row \in WithdrawalType
  <2>1. now + RateLock \in Nat
    BY RampsAssumption DEF Types
  <2>2. live \in Nat \ {0} /\ (q # None => QuoteRate(q) \in Nat \ {0})
    BY RampsAssumption DEF Quotes
  <2> QED
    BY <2>1, <2>2 DEF WithdrawalType
<1> HIDE DEF row
<1>3. withdrawals' \in [Withdrawals -> WithdrawalType \cup {None}]
  BY <1>1, <1>2 DEF Types
<1>4. consumed' \in [Quotes -> (Transactions \X Nat) \cup {None}]
  <2>1. <<w, 0>> \in Transactions \X Nat
    BY DEF Transactions
  <2> QED
    BY <1>1, <2>1 DEF Types
<1>5. Types'
  BY <1>1, <1>3, <1>4 DEF Types, ledger
<1> QED
  BY <1>1, <1>5 DEF Rows, Queue, Window, ledger

\* The rows that a tick of the settling loop begins with.
LEMMA SortedPending ==
  ASSUME Types, Pending # {}
  PROVE  /\ Sorted(Pending) \in Seq(Nat) /\ Sorted(Pending) # <<>>
         /\ \A i \in 1..Len(Sorted(Pending)) : Sorted(Pending)[i] \in Pending
         /\ \A i, j \in 1..Len(Sorted(Pending)) :
              i < j => Sorted(Pending)[i] < Sorted(Pending)[j]
<1>1. PICK m \in Nat : DOMAIN onramps = 1..m
  BY LenProperties DEF Types
<1>2. PICK S : S = Pending
  OBVIOUS
<1>3. S \in SUBSET (1..m) /\ S # {}
  BY <1>1, <1>2 DEF Pending
<1>4. PICK k : k = Cardinality(S)
  OBVIOUS
<1>5. /\ IsFiniteSet(S) /\ k \in Nat
      /\ \E s \in [1..k -> S] : \A i, j \in DOMAIN s : i < j => s[i] < s[j]
  BY <1>1, <1>3, <1>4, SortedExists
<1>6. k # 0
  BY <1>3, <1>4, <1>5, FS_EmptySet
<1>7. PICK s : s = Sorted(S)
  OBVIOUS
<1>8. s \in [1..k -> S] /\ \A i, j \in DOMAIN s : i < j => s[i] < s[j]
  BY <1>4, <1>5, <1>7 DEF Sorted
<1>9. s \in Seq(Nat) /\ Len(s) = k
  <2>1. S \subseteq Nat
    BY <1>1, <1>3
  <2>2. s \in [1..k -> Nat]
    BY <1>8, <2>1
  <2> QED
    BY <1>5, <2>2
<1>10. s # <<>>
  BY <1>6, <1>9, EmptySeq
<1> QED
  BY <1>2, <1>7, <1>8, <1>9, <1>10

LEMMA ShapeSettleBegins == ASSUME Shape, SettleBegins PROVE Shape'
<1> USE DEF Shape
<1>1. /\ Pending # {}
      /\ settler' = [pc |-> "row", todo |-> Sorted(Pending), funds |-> treasury]
      /\ UNCHANGED <<now, tables, funding, watcher, ledger>>
  BY DEF SettleBegins
<1>2. PICK s : s = Sorted(Pending)
  OBVIOUS
<1>3. /\ s \in Seq(Nat) /\ s # <<>> /\ \A i \in 1..Len(s) : s[i] \in Pending
      /\ \A i, j \in 1..Len(s) : i < j => s[i] < s[j]
  BY <1>1, <1>2, SortedPending
<1>4. treasury \in Int
  BY DEF Types
<1>5. settler' \in Working /\ settler'.todo = s
  BY <1>1, <1>2, <1>3, <1>4 DEF Working
<1>6. Queue'
  BY <1>1, <1>3, <1>5 DEF Queue, Pending, tables
<1>7. Types'
  BY <1>1, <1>5 DEF Types, tables, ledger
<1>8. Rows' /\ Window'
  BY <1>1 DEF Rows, Window, tables, ledger
<1> QED
  BY <1>6, <1>7, <1>8

LEMMA ShapeRowStep ==
  ASSUME Shape, RowStep, UNCHANGED <<sequence, treasury, feed>>, chain' \in Seq(Sending)
  PROVE  Shape'
<1>1. Types' /\ Rows' /\ Queue'
  BY RowStepTypes DEF Shape
<1>2. Window'
  BY DEF Shape, Window, RowStep, OnlyOnramps
<1> QED
  BY <1>1, <1>2 DEF Shape

LEMMA ShapeSettles == ASSUME Shape, Considers \/ Submits \/ Polls PROVE Shape'
<1>1. Types /\ Rows /\ Queue /\ chain \in Seq(Sending)
  BY DEF Shape, Types
<1>2. CASE Considers
  BY <1>1, <1>2, ConsidersIsRowStep, ShapeRowStep DEF ledger
<1>3. CASE Submits
  <2>1. /\ RowStep /\ UNCHANGED <<sequence, treasury, trust, feed>>
        /\ settler.pc \in {"pay", "park"}
        /\ \/ chain' = Append(chain, [onramp |-> Row, via |-> settler.pc,
                                      seq |-> sequence, status |-> "sent"])
           \/ UNCHANGED chain
    BY <1>1, <1>3, SubmitsIsRowStep
  <2>2. Row \in Nat
    BY <1>1, <2>1, RowIndex
  <2>3. [onramp |-> Row, via |-> settler.pc, seq |-> sequence, status |-> "sent"]
          \in Sending
    BY <1>1, <2>1, <2>2 DEF Sending, Types
  <2>4. chain' \in Seq(Sending)
    BY <1>1, <2>1, <2>3, AppendProperties
  <2> QED
    BY <2>1, <2>4, ShapeRowStep
<1>4. CASE Polls
  BY <1>1, <1>4, PollsIsRowStep, ShapeRowStep DEF ledger
<1> QED
  BY <1>2, <1>3, <1>4

LEMMA ShapeWatchBegins == ASSUME Shape, WatchBegins PROVE Shape'
<1> USE DEF Shape
<1>1. PICK m \in Nat : m = Len(feed)
  BY LenProperties DEF Types
<1>2. PICK c \in Nat : c = cursor
  BY DEF Types
<1>3. c < m
  BY <1>1, <1>2 DEF Window, WatchBegins
<1>4. PICK s : s = [i \in 1..(m - c) |-> c + i]
  OBVIOUS
<1>5. s \in Seq(Nat) /\ Len(s) = m - c /\ \A i \in 1..(m - c) : s[i] = c + i
  <2>1. m - c \in Nat
    BY <1>3
  <2>2. s \in [1..(m - c) -> Nat]
    BY <1>4
  <2> QED
    BY <1>4, <2>1, <2>2
<1>6. /\ watcher' = [pc |-> "handle", next |-> m, todo |-> s]
      /\ UNCHANGED <<now, tables, funding, settler, ledger>>
  BY <1>1, <1>2, <1>4 DEF WatchBegins
<1>7. /\ watcher' \in Handling /\ watcher'.next = m /\ watcher'.todo = s
  BY <1>5, <1>6 DEF Handling
<1>8. Types' /\ Rows' /\ Queue'
  BY <1>6, <1>7 DEF Types, Rows, Queue, tables, ledger
<1>9. \A i \in 1..(m - c) : s[i] = m - (m - c) + i
  BY <1>5
<1>10. UNCHANGED <<cursor, feed>>
  BY <1>6 DEF tables, ledger
<1>11. Window'
  BY <1>1, <1>2, <1>3, <1>5, <1>7, <1>9, <1>10 DEF Window
<1> QED
  BY <1>8, <1>11

\* What handling a payment does to withdrawals and to the list of the unmatched.
Handled(p) ==
    \/ UNCHANGED <<withdrawals, unmatched>> /\ (Already(p) \/ skipped' = skipped \cup {p})
    \/ /\ ~Already(p) /\ ~Awaiting(feed[p].memo)
       /\ unmatched' = Append(unmatched, p) /\ UNCHANGED withdrawals
    \/ \E row \in WithdrawalType :
         /\ ~Already(p) /\ Awaiting(feed[p].memo) /\ feed[p].memo \in Withdrawals
         /\ withdrawals' = [withdrawals EXCEPT ![feed[p].memo] = row]
         /\ row.payment = p /\ row.quote = withdrawals[feed[p].memo].quote
         /\ UNCHANGED unmatched

LEMMA WatchesHandles ==
  ASSUME Shape, Watches
  PROVE  /\ watcher \in Handling /\ watcher.todo # <<>>
         /\ Handled(Head(watcher.todo))
         /\ watcher' = [watcher EXCEPT !.todo = Tail(@)]
         /\ skipped \subseteq skipped'
         /\ UNCHANGED <<now, deposits, onramps, consumed, balance, cursor, told,
                        funding, settler, caller, ledger, doubts>>
<1> USE DEF Shape
<1>1. watcher \in Handling /\ watcher.todo # <<>>
  BY DEF Watches, Types, Idle
<1>2. PICK p : p = Head(watcher.todo)
  OBVIOUS
<1>3. p \in Nat /\ feed[p] \in Payment
  BY <1>1, <1>2, AtPayment, HeadTailProperties DEF Handling
<1>4. /\ \/ (\E rate \in Rates : Handles(p, rate)) /\ UNCHANGED <<skipped, faults>>
         \/ skipped' = skipped \cup {p} /\ UNCHANGED <<withdrawals, unmatched>>
      /\ watcher' = [watcher EXCEPT !.todo = Tail(@)]
      /\ UNCHANGED <<now, deposits, onramps, consumed, balance, cursor, told,
                     funding, settler, caller, ledger, doubts>>
  BY <1>2 DEF Watches
<1>5. ASSUME NEW rate \in Rates, Handles(p, rate) PROVE Handled(p)
  <2> DEFINE w == feed[p].memo
             at == IF withdrawals[w].lockedUntil < now THEN rate ELSE withdrawals[w].rate
             row == [withdrawals[w] EXCEPT !.payment = p, !.rate = at,
                                           !.paid = UsdcToTry(feed[p].amount, at)]
  <2>1. CASE Already(p) /\ UNCHANGED <<withdrawals, unmatched>>
    BY <2>1 DEF Handled
  <2>2. CASE ~Already(p) /\ ~Awaiting(w) /\ unmatched' = Append(unmatched, p)
             /\ UNCHANGED withdrawals
    BY <2>2 DEF Handled
  <2>3. CASE /\ ~Already(p) /\ Awaiting(w)
             /\ withdrawals' = [withdrawals EXCEPT ![w].payment = p, ![w].rate = at,
                                    ![w].paid = UsdcToTry(feed[p].amount, at)]
             /\ UNCHANGED unmatched
    <3>1. w \in Withdrawals /\ withdrawals[w] \in WithdrawalType
      BY <1>3, <2>3 DEF Awaiting, Payment, Types
    <3>2. rate \in Nat \ {0} /\ withdrawals[w].rate \in Nat \ {0}
      BY <3>1, RampsAssumption DEF WithdrawalType
    <3>3. at \in Nat \ {0} /\ feed[p].amount \in Nat
      BY <1>3, <3>2, RampsAssumption DEF Payment
    <3> HIDE DEF at
    <3>4. UsdcToTry(feed[p].amount, at) \in Nat
      BY <3>3, ConversionTypes
    <3>5. row \in WithdrawalType /\ row.payment = p /\ row.quote = withdrawals[w].quote
      BY <1>3, <3>1, <3>3, <3>4 DEF WithdrawalType
    <3>6. withdrawals' = [withdrawals EXCEPT ![w] = row]
      BY <2>3, <3>1 DEF Types
    <3> HIDE DEF row
    <3> QED
      BY <2>3, <3>1, <3>5, <3>6 DEF Handled
  <2> QED
    BY <1>5, <2>1, <2>2, <2>3 DEF Handles
<1>6. Handled(p) /\ skipped \subseteq skipped'
  BY <1>4, <1>5 DEF Handled
<1> QED
  BY <1>1, <1>2, <1>4, <1>6

LEMMA ShapeWatches == ASSUME Shape, Watches PROVE Shape'
<1> USE DEF Shape
<1>1. /\ watcher \in Handling /\ watcher.todo # <<>>
      /\ Handled(Head(watcher.todo))
      /\ watcher' = [watcher EXCEPT !.todo = Tail(@)]
      /\ UNCHANGED <<now, deposits, onramps, consumed, balance, cursor, told,
                     funding, settler, caller, ledger, doubts>>
  BY WatchesHandles
<1>2. PICK p : p = Head(watcher.todo)
  OBVIOUS
<1>3. PICK k \in Nat \ {0} : k = Len(watcher.todo)
  BY <1>1, AtPayment
<1>4. PICK t : t = Tail(watcher.todo)
  OBVIOUS
<1>5. /\ watcher.next \in Nat /\ p \in DOMAIN feed
      /\ t \in Seq(Nat) /\ Len(t) = k - 1
      /\ \A i \in 1..(k - 1) : t[i] = watcher.todo[i + 1]
  BY <1>1, <1>2, <1>3, <1>4, AtPayment
<1>6. p \in Nat
  BY <1>5, LenProperties DEF Types
<1>7. withdrawals' \in [Withdrawals -> WithdrawalType \cup {None}]
      /\ unmatched' \in Seq(Nat)
  <2>1. unmatched' \in {unmatched, Append(unmatched, p)}
    BY <1>1, <1>2 DEF Handled
  <2>2. \/ withdrawals' = withdrawals
        \/ \E w \in Withdrawals, row \in WithdrawalType :
              withdrawals' = [withdrawals EXCEPT ![w] = row]
    BY <1>1, <1>2 DEF Handled
  <2>3. unmatched \in Seq(Nat)
        /\ withdrawals \in [Withdrawals -> WithdrawalType \cup {None}]
    BY DEF Types
  <2>4. Append(unmatched, p) \in Seq(Nat)
    BY <1>6, <2>3, AppendProperties
  <2>5. withdrawals' \in [Withdrawals -> WithdrawalType \cup {None}]
    BY <2>2, <2>3
  <2> QED
    BY <2>1, <2>3, <2>4, <2>5
<1>8. watcher' \in Handling /\ watcher'.todo = t /\ watcher'.next = watcher.next
  BY <1>1, <1>4, <1>5 DEF Handling
<1>9. Types'
  BY <1>1, <1>7, <1>8 DEF Types, ledger
<1>10. Rows' /\ Queue'
  BY <1>1 DEF Rows, Queue
<1>11. Window'
  <2>1. watcher # Idle /\ UNCHANGED <<cursor, feed>>
    BY <1>1, IdleIsNotBusy DEF ledger
  <2>2. /\ cursor <= watcher.next /\ watcher.next <= Len(feed)
        /\ k <= watcher.next - cursor /\ cursor \in Nat
        /\ \A i \in 1..k : watcher.todo[i] = watcher.next - k + i
    BY <1>3, <2>1 DEF Window, Types
  <2>3. ASSUME NEW i \in 1..(k - 1) PROVE t[i] = watcher.next - (k - 1) + i
    <3>1. i + 1 \in 1..k
      BY <1>3, <2>3
    <3>2. watcher.todo[i + 1] = watcher.next - k + (i + 1)
      BY <2>2, <3>1
    <3>3. PICK n \in Nat : n = watcher.next
      BY <1>5
    <3>4. n - k + (i + 1) = n - (k - 1) + i
      <4>1. i \in Int /\ k \in Int /\ n \in Int
        OBVIOUS
      <4> QED
        BY <4>1
    <3>5. t[i] = watcher.todo[i + 1]
      BY <1>5
    <3> QED
      BY <3>2, <3>3, <3>4, <3>5, Zenon
  <2>4. k - 1 <= watcher.next - cursor
    BY <1>3, <1>5, <2>2
  <2> QED
    BY <1>5, <1>8, <2>1, <2>2, <2>3, <2>4 DEF Window, Types
<1> QED
  BY <1>9, <1>10, <1>11

LEMMA ShapeWatchEnds == ASSUME Shape, WatchEnds PROVE Shape'
<1> USE DEF Shape
<1>1. watcher \in Handling /\ watcher # Idle
  BY IdleIsNotBusy DEF WatchEnds, Types, Idle
<1>2. /\ cursor' = watcher.next /\ watcher' = Idle
      /\ UNCHANGED <<now, deposits, withdrawals, onramps, consumed, balance,
                     unmatched, funding, settler, ledger>>
  BY DEF WatchEnds
<1>3. watcher.next \in Nat /\ watcher.next <= Len(feed)
  BY <1>1 DEF Window, Handling
<1>4. Types' /\ Rows' /\ Queue'
  BY <1>2, <1>3 DEF Types, Rows, Queue, ledger
<1>5. Window'
  BY <1>2, <1>3 DEF Window, ledger
<1> QED
  BY <1>4, <1>5

LEMMA ShapeCalls ==
  ASSUME Shape, CallsBegin \/ (\E row \in Transactions \X (DOMAIN onramps \cup {None}) :
                                  Calls(row)) \/ Called \/ CallsEnd
  PROVE  Shape'
<1>1. UNCHANGED <<now, deposits, withdrawals, onramps, consumed, balance, unmatched,
                  cursor, funding, settler, watcher, ledger>>
  BY DEF CallsBegin, Calls, Called, CallsEnd, tables
<1> QED
  BY <1>1 DEF Shape, Types, Rows, Queue, Window, ledger

\* Every transaction of the treasury is for a row.
Senders == \A t \in DOMAIN chain : chain[t].onramp \in DOMAIN onramps

\* What inclusion makes of the treasury's transactions.
Included(t) ==
    \E end \in {"success", "failed"} :
        chain' = [u \in DOMAIN chain |->
                    IF u = t THEN [chain[t] EXCEPT !.status = end]
                    ELSE IF chain[u].status = "sent" /\ chain[u].seq = sequence
                         THEN [chain[u] EXCEPT !.status = "dead"] ELSE chain[u]]

LEMMA IncludedChange ==
  ASSUME Types, NEW t \in DOMAIN chain, Included(t)
  PROVE  /\ chain' \in Seq(Sending) /\ DOMAIN chain' = DOMAIN chain
         /\ Len(chain') = Len(chain)
         /\ \A u \in DOMAIN chain :
              /\ chain'[u].onramp = chain[u].onramp /\ chain'[u].seq = chain[u].seq
              /\ u # t /\ chain'[u].status = "sent" =>
                   chain[u].status = "sent" /\ chain[u].seq # sequence
              /\ u # t /\ chain'[u].status # chain[u].status => chain'[u].status = "dead"
         /\ chain'[t].status \in {"success", "failed"}
<1>1. PICK s : s = chain
  OBVIOUS
<1>2. PICK m \in Nat : s \in Seq(Sending) /\ m = Len(s) /\ DOMAIN s = 1..m
  BY <1>1, LenProperties DEF Types
<1>3. PICK end \in {"success", "failed"} :
        chain' = [u \in 1..m |->
                    IF u = t THEN [s[t] EXCEPT !.status = end]
                    ELSE IF s[u].status = "sent" /\ s[u].seq = sequence
                         THEN [s[u] EXCEPT !.status = "dead"] ELSE s[u]]
  BY <1>1, <1>2 DEF Included
<1>4. \A u \in 1..m : s[u] \in Sending
  BY <1>2, ElementOfSeq
<1>5. \A u \in 1..m :
        /\ chain'[u] \in Sending
        /\ chain'[u].onramp = s[u].onramp /\ chain'[u].seq = s[u].seq
        /\ u # t /\ chain'[u].status = "sent" => s[u].status = "sent" /\ s[u].seq # sequence
        /\ u # t /\ chain'[u].status # s[u].status => chain'[u].status = "dead"
        /\ u = t => chain'[u].status \in {"success", "failed"}
  BY <1>3, <1>4 DEF Sending
<1>6. chain' \in Seq(Sending) /\ Len(chain') = m /\ DOMAIN chain' = 1..m
  <2>1. chain' \in [1..m -> Sending]
    BY <1>3, <1>5
  <2> QED
    BY <1>2, <2>1
<1> QED
  BY <1>1, <1>2, <1>5, <1>6

LEMMA ShapeInclude ==
  ASSUME Shape, Senders, NEW t \in DOMAIN chain, Include(t)
  PROVE  Shape' /\ Included(t)
<1> USE DEF Shape
<1>1. Included(t)
  BY DEF Include, Included
<1>2. chain' \in Seq(Sending)
  BY <1>1, IncludedChange
<1>3. onramps[chain[t].onramp].tokens \in Nat
  <2>1. chain[t].onramp \in DOMAIN onramps
    BY DEF Senders
  <2>2. onramps[chain[t].onramp] \in OnrampType
    BY <2>1 DEF Types
  <2> QED
    BY <2>2 DEF OnrampType
<1>4. treasury' \in Int
  BY <1>3 DEF Include, Types
<1>5. sequence' \in Nat
  BY DEF Include, Types
<1>6. UNCHANGED <<now, tables, funding, settler, watcher, feed>>
  BY DEF Include, loops
<1>7. Types'
  BY <1>2, <1>4, <1>5, <1>6 DEF Types, tables
<1> QED
  BY <1>1, <1>6, <1>7 DEF Rows, Queue, Window, tables

LEMMA PayAppends ==
  ASSUME Types, NEW memo \in Withdrawals \cup {None}, NEW amount \in Tokens,
         NEW same \in BOOLEAN, Pay(memo, amount, same)
  PROVE  /\ feed' \in Seq(Payment) /\ Len(feed') = Len(feed) + 1
         /\ Len(feed) \in Nat /\ DOMAIN feed = 1..Len(feed)
         /\ DOMAIN feed' = 1..(Len(feed) + 1)
         /\ \A p \in DOMAIN feed : feed'[p] = feed[p]
         /\ feed'[Len(feed) + 1].memo = memo
         /\ memo # None => withdrawals[memo] # None
<1>1. PICK s : s = feed
  OBVIOUS
<1>2. PICK m \in Nat : s \in Seq(Payment) /\ m = Len(s) /\ DOMAIN s = 1..m
  BY <1>1, LenProperties DEF Types
<1>3. PICK n : n = [tx |-> IF same THEN s[m].tx ELSE m + 1, memo |-> memo,
                    amount |-> amount]
  OBVIOUS
<1>4. feed' = Append(s, n) /\ (same => s # <<>>)
  BY <1>1, <1>2, <1>3 DEF Pay
<1>5. same => m \in 1..m
  <2>1. ASSUME same PROVE m \in Nat \ {0}
    BY <1>2, <1>4, <2>1, EmptySeq, Zenon
  <2> QED
    BY <2>1
<1>6. same => s[m].tx \in Nat
  <2>1. ASSUME same PROVE s[m] \in Payment
    BY <1>2, <1>5, <2>1, ElementOfSeq
  <2> QED
    BY <2>1 DEF Payment
<1>7. n \in Payment /\ n.memo = memo
  BY <1>3, <1>6 DEF Payment
<1>8. /\ feed' \in Seq(Payment) /\ Len(feed') = m + 1
      /\ \A p \in 1..m : feed'[p] = s[p]
      /\ feed'[m + 1] = n
  BY <1>2, <1>4, <1>7, AppendProperties
<1>9. DOMAIN feed' = 1..(m + 1)
  BY <1>8, LenProperties
<1>10. memo # None => withdrawals[memo] # None
  BY RampsAssumption DEF Pay, Opened, Transactions
<1> QED
  BY <1>1, <1>2, <1>7, <1>8, <1>9, <1>10

LEMMA ShapePay ==
  ASSUME Shape, NEW memo \in Withdrawals \cup {None}, NEW amount \in Tokens,
         NEW same \in BOOLEAN, Pay(memo, amount, same)
  PROVE  Shape'
<1> USE DEF Shape
<1>1. feed' \in Seq(Payment) /\ Len(feed') = Len(feed) + 1 /\ Len(feed) \in Nat
  BY PayAppends
<1>2. UNCHANGED <<now, tables, funding, settler, watcher, chain, sequence>>
  BY DEF Pay, loops
<1>3. treasury' \in Int
  BY RampsAssumption DEF Pay, Types
<1>4. Types'
  BY <1>1, <1>2, <1>3 DEF Types, tables
<1>5. Window'
  <2>1. PICK m \in Nat : m = Len(feed)
    BY <1>1
  <2>2. Len(feed') = m + 1 /\ cursor \in Nat /\ UNCHANGED <<cursor, watcher>>
    BY <1>1, <1>2, <2>1 DEF Types, tables
  <2>3. cursor <= m + 1
    BY <2>1, <2>2 DEF Window
  <2>4. watcher # Idle => watcher.next \in Nat /\ watcher.next <= m + 1
    <3>1. watcher # Idle => watcher.next \in Nat /\ watcher.next <= m
      BY <2>1 DEF Window, Types, Handling
    <3> QED
      BY <2>1, <3>1
  <2> QED
    BY <2>2, <2>3, <2>4 DEF Window
<1> QED
  BY <1>2, <1>4, <1>5 DEF Rows, Queue, tables

LEMMA ShapeWorld == ASSUME Shape, World PROVE Shape'
<1> USE DEF Shape
<1>1. /\ now' \in Nat
      /\ UNCHANGED <<tables, chain, sequence, treasury, feed, skipped>>
      /\ \/ UNCHANGED <<funding, settler, watcher>>
         \/ /\ funding' = [slot \in 1..MaxRequests |-> None]
            /\ settler' = Idle /\ watcher' = Idle
  BY DEF World, Types, loops
<1>2. Types'
  BY <1>1 DEF Types, tables
<1>3. Rows'
  BY <1>1 DEF Rows, tables
<1>4. Queue' /\ Window'
  BY <1>1 DEF Queue, Window, tables
<1> QED
  BY <1>2, <1>3, <1>4

LEMMA ShapeStep == ASSUME Shape, Senders, [Next]_vars PROVE Shape'
<1>1. CASE Requested
  BY <1>1, ShapeDeposit, ShapeFund, ShapeWithdraw DEF Requested
<1>2. ASSUME NEW slot \in 1..MaxRequests, NEW rate \in Rates, Priced(slot, rate)
      PROVE  Shape'
  BY <1>2, ShapePriced
<1>3. CASE Settle
  BY <1>3, ShapeSettleBegins, ShapeSettles DEF Settle
<1>4. CASE Watch
  BY <1>4, ShapeWatchBegins, ShapeWatches, ShapeWatchEnds DEF Watch
<1>5. CASE Call
  BY <1>5, ShapeCalls DEF Call
<1>6. ASSUME NEW t \in DOMAIN chain, Include(t) PROVE Shape'
  BY <1>6, ShapeInclude
<1>7. ASSUME NEW memo \in Withdrawals \cup {None}, NEW amount \in Tokens,
             NEW same \in BOOLEAN, Pay(memo, amount, same)
      PROVE  Shape'
  BY <1>7, ShapePay
<1>8. CASE World
  BY <1>8, ShapeWorld
<1>9. CASE UNCHANGED vars
  BY <1>9, ShapeFrame DEF vars, tables, loops, ledger
<1> QED
  BY <1>1, <1>2, <1>3, <1>4, <1>5, <1>6, <1>7, <1>8, <1>9 DEF Next

-----------------------------------------------------------------------------
\* The treasury's transactions.  One that was or may yet be included, for a row
\* no send of which is in doubt, is the one that the loop is polling for, or the
\* one by which its row was completed.

Sends ==
    /\ Senders
    /\ \A t \in DOMAIN chain : chain[t].status = "sent" => chain[t].seq = sequence
    /\ settler.pc = "poll" =>
         Len(chain) \in DOMAIN chain /\ chain[Len(chain)].onramp = Row
    /\ \A n \in DOMAIN onramps : onramps[n].status = "completed" =>
         /\ onramps[n].hash \in DOMAIN chain
         /\ chain[onramps[n].hash].onramp = n
         /\ chain[onramps[n].hash].status = "success"
    /\ \A t \in DOMAIN chain :
         chain[t].status \in {"sent", "success"} /\ chain[t].onramp \notin doubts =>
           \/ settler.pc = "poll" /\ t = Len(chain)
           \/ /\ onramps[chain[t].onramp].status = "completed"
              /\ onramps[chain[t].onramp].hash = t

LEMMA SendsInit == Init => Sends
<1> SUFFICES ASSUME Init PROVE Sends
  OBVIOUS
<1>1. DOMAIN chain = {} /\ DOMAIN onramps = {} /\ settler.pc = "idle"
  BY DEF Init, Idle
<1> QED
  BY <1>1 DEF Sends, Senders

\* The row at hand has no transaction but the one polled for.
LEMMA AtRowSends ==
  ASSUME Shape, Sends, settler \in Working, Row \notin doubts,
         NEW t \in DOMAIN chain, chain[t].onramp = Row,
         chain[t].status \in {"sent", "success"}
  PROVE  settler.pc = "poll" /\ t = Len(chain)
<1>1. onramps[Row].status = "pending"
  BY AtRow DEF Shape
<1> QED
  BY <1>1 DEF Sends

LEMMA SendsConsiders == ASSUME Shape, Sends, Considers PROVE Sends'
<1>1. /\ RowStep /\ UNCHANGED <<ledger, doubts>> /\ settler.pc = "row"
      /\ settler'.pc # "poll" /\ settler \in Working
  BY ConsidersIsRowStep, IdleIsNotBusy DEF Shape, RowStep
<1>2. /\ Row \in DOMAIN onramps /\ DOMAIN onramps' = DOMAIN onramps
      /\ \A n \in DOMAIN onramps : n # Row => onramps'[n] = onramps[n]
      /\ onramps'[Row].status # "completed"
  BY <1>1, RowStepChange DEF Shape, Outcome
<1>3. UNCHANGED <<chain, sequence, doubts>>
  BY <1>1 DEF ledger
<1>4. ASSUME NEW t \in DOMAIN chain, chain[t].status \in {"sent", "success"},
             chain[t].onramp \notin doubts
      PROVE  /\ onramps'[chain[t].onramp].status = "completed"
             /\ onramps'[chain[t].onramp].hash = t
  <2>1. chain[t].onramp # Row
    BY <1>1, <1>4, AtRowSends
  <2> QED
    BY <1>1, <1>2, <1>4, <2>1 DEF Sends, Senders
<1>5. Senders'
  BY <1>2, <1>3 DEF Sends, Senders
<1> QED
  BY <1>1, <1>2, <1>3, <1>4, <1>5 DEF Sends

LEMMA SendsSubmits == ASSUME Shape, Sends, Submits PROVE Sends'
<1> DEFINE tx == [onramp |-> Row, via |-> settler.pc, seq |-> sequence,
                  status |-> "sent"]
<1>1. /\ RowStep /\ UNCHANGED sequence /\ settler.pc # "poll" /\ settler \in Working
      /\ \/ Stays /\ settler'.pc = "poll" /\ doubts' = doubts /\ chain' = Append(chain, tx)
         \/ Leaves /\ doubts' = doubts \cup {Row} /\ chain' = Append(chain, tx)
         \/ Leaves /\ UNCHANGED <<chain, doubts>>
  BY SubmitsIsRowStep DEF Shape, RowStep
<1>2. /\ Row \in DOMAIN onramps /\ DOMAIN onramps' = DOMAIN onramps
      /\ \A n \in DOMAIN onramps : n # Row => onramps'[n] = onramps[n]
      /\ onramps'[Row].status # "completed"
  BY <1>1, RowStepChange DEF Shape, Outcome
<1>3. /\ tx.onramp = Row /\ tx.seq = sequence /\ tx.status = "sent"
  OBVIOUS
<1>4. tx \in Sending
  BY <1>1, RowIndex, SubmitsIsRowStep DEF Shape, Types, Sending
<1> HIDE DEF tx
<1>5. PICK m \in Nat : chain \in Seq(Sending) /\ m = Len(chain) /\ DOMAIN chain = 1..m
  BY LenProperties DEF Shape, Types
<1>6. /\ Append(chain, tx) \in Seq(Sending) /\ Len(Append(chain, tx)) = m + 1
      /\ \A t \in 1..m : Append(chain, tx)[t] = chain[t]
      /\ Append(chain, tx)[m + 1] = tx
  BY <1>4, <1>5, AppendProperties
<1>7. DOMAIN Append(chain, tx) = 1..(m + 1)
  BY <1>6, LenProperties
<1>8. 1..(m + 1) = (1..m) \cup {m + 1} /\ m + 1 \notin 1..m
  BY <1>5
<1>9. ASSUME NEW t \in DOMAIN chain, chain[t].status \in {"sent", "success"},
             chain[t].onramp \notin doubts, chain[t].onramp \notin doubts'
      PROVE  /\ onramps'[chain[t].onramp].status = "completed"
             /\ onramps'[chain[t].onramp].hash = t
  <2>1. chain[t].onramp # Row
    BY <1>1, <1>9, AtRowSends
  <2> QED
    BY <1>1, <1>2, <1>9, <2>1 DEF Sends, Senders
<1>10. ASSUME NEW n \in DOMAIN onramps', onramps'[n].status = "completed"
       PROVE  /\ onramps'[n].hash \in DOMAIN chain
              /\ chain[onramps'[n].hash].onramp = n
              /\ chain[onramps'[n].hash].status = "success"
  BY <1>2, <1>10 DEF Sends
<1>11. CASE chain' = Append(chain, tx)
            /\ (settler'.pc = "poll" => Stays)
            /\ (Row \in doubts' \/ settler'.pc = "poll") /\ doubts \subseteq doubts'
  <2>1. DOMAIN chain' = (1..m) \cup {m + 1} /\ Len(chain') = m + 1
    BY <1>6, <1>7, <1>8, <1>11
  <2>2. \A t \in 1..m : chain'[t] = chain[t]
    BY <1>6, <1>11
  <2>3. chain'[m + 1] = tx
    BY <1>6, <1>11
  <2>4. Senders'
    BY <1>2, <1>3, <1>5, <2>1, <2>2, <2>3 DEF Sends, Senders
  <2>5. \A t \in DOMAIN chain' : chain'[t].status = "sent" => chain'[t].seq = sequence'
    BY <1>1, <1>3, <1>5, <2>1, <2>2, <2>3 DEF Sends
  <2>6. settler'.pc = "poll" => chain'[Len(chain')].onramp = Row'
    <3>1. Stays => Row' = Row
      BY DEF Stays, Row
    <3> QED
      BY <1>3, <1>11, <2>1, <2>3, <3>1
  <2>7. ASSUME NEW n \in DOMAIN onramps', onramps'[n].status = "completed"
        PROVE  /\ onramps'[n].hash \in DOMAIN chain'
               /\ chain'[onramps'[n].hash].onramp = n
               /\ chain'[onramps'[n].hash].status = "success"
    BY <1>5, <1>10, <2>1, <2>2, <2>7
  <2>8. ASSUME NEW t \in DOMAIN chain', chain'[t].status \in {"sent", "success"},
               chain'[t].onramp \notin doubts'
        PROVE  \/ settler'.pc = "poll" /\ t = Len(chain')
               \/ /\ onramps'[chain'[t].onramp].status = "completed"
                  /\ onramps'[chain'[t].onramp].hash = t
    <3>1. CASE t \in 1..m
      BY <1>5, <1>9, <1>11, <2>2, <2>8, <3>1
    <3>2. CASE t = m + 1
      BY <1>3, <1>11, <2>1, <2>3, <2>8, <3>2
    <3> QED
      BY <2>1, <3>1, <3>2
  <2> QED
    BY <2>1, <2>4, <2>5, <2>6, <2>7, <2>8 DEF Sends
<1>12. CASE settler'.pc # "poll" /\ UNCHANGED <<chain, doubts>>
  <2>1. Senders'
    BY <1>2, <1>12 DEF Sends, Senders
  <2> QED
    BY <1>1, <1>9, <1>10, <1>12, <2>1 DEF Sends
<1>13. Leaves => settler'.pc # "poll"
  BY DEF Leaves, Idle
<1> QED
  BY <1>1, <1>11, <1>12, <1>13

LEMMA SendsPolls == ASSUME Shape, Sends, Polls PROVE Sends'
<1>1. /\ RowStep /\ Leaves /\ UNCHANGED ledger /\ settler.pc = "poll"
      /\ settler \in Working
      /\ \/ /\ chain[Len(chain)].status = "success"
            /\ onramps'[Row].status = "completed"
            /\ onramps'[Row].hash = Len(chain) /\ doubts' = doubts
         \/ /\ chain[Len(chain)].status \in {"failed", "dead"} /\ doubts' = doubts
            /\ onramps'[Row].status # "completed"
         \/ doubts' = doubts \cup {Row} /\ onramps'[Row].status # "completed"
  BY PollsIsRowStep DEF Shape, RowStep
<1>2. /\ Row \in DOMAIN onramps /\ DOMAIN onramps' = DOMAIN onramps
      /\ \A n \in DOMAIN onramps : n # Row => onramps'[n] = onramps[n]
  BY <1>1, RowStepChange DEF Shape
<1>3. UNCHANGED <<chain, sequence>> /\ settler'.pc # "poll"
  BY <1>1 DEF ledger, Leaves, Idle
<1>4. Len(chain) \in DOMAIN chain /\ chain[Len(chain)].onramp = Row
  BY <1>1 DEF Sends
<1>5. Senders'
  BY <1>2, <1>3 DEF Sends, Senders
<1>6. ASSUME NEW n \in DOMAIN onramps', onramps'[n].status = "completed"
      PROVE  /\ onramps'[n].hash \in DOMAIN chain
             /\ chain[onramps'[n].hash].onramp = n
             /\ chain[onramps'[n].hash].status = "success"
  <2>1. CASE n = Row
    BY <1>1, <1>4, <1>6, <2>1
  <2>2. CASE n # Row
    BY <1>2, <1>6, <2>2 DEF Sends
  <2> QED
    BY <2>1, <2>2
<1>7. ASSUME NEW t \in DOMAIN chain, chain[t].status \in {"sent", "success"},
             chain[t].onramp \notin doubts'
      PROVE  /\ onramps'[chain[t].onramp].status = "completed"
             /\ onramps'[chain[t].onramp].hash = t
  <2>1. chain[t].onramp \notin doubts
    BY <1>1, <1>7
  <2>2. CASE chain[t].onramp = Row
    <3>1. t = Len(chain)
      BY <1>1, <1>7, <2>1, <2>2, AtRowSends
    <3> QED
      BY <1>1, <1>7, <2>2, <3>1
  <2>3. CASE chain[t].onramp # Row
    BY <1>2, <1>4, <1>7, <2>1, <2>3 DEF Sends, Senders
  <2> QED
    BY <2>2, <2>3
<1> QED
  BY <1>3, <1>5, <1>6, <1>7 DEF Sends

LEMMA SendsInclude ==
  ASSUME Shape, Sends, NEW t \in DOMAIN chain, Include(t) PROVE Sends'
<1>1. /\ Included(t) /\ chain[t].status = "sent" /\ chain[t].seq = sequence
      /\ sequence' = sequence + 1 /\ sequence \in Nat
      /\ UNCHANGED <<onramps, settler, doubts>>
  BY ShapeInclude DEF Include, Sends, Shape, Types, tables, loops, ghosts
<1>2. /\ DOMAIN chain' = DOMAIN chain /\ Len(chain') = Len(chain)
      /\ \A u \in DOMAIN chain :
           /\ chain'[u].onramp = chain[u].onramp /\ chain'[u].seq = chain[u].seq
           /\ u # t /\ chain'[u].status = "sent" =>
                chain[u].status = "sent" /\ chain[u].seq # sequence
           /\ u # t /\ chain'[u].status # chain[u].status => chain'[u].status = "dead"
      /\ chain'[t].status \in {"success", "failed"}
  BY <1>1, IncludedChange DEF Shape
<1>3. Senders' /\ Row' = Row
  BY <1>1, <1>2 DEF Sends, Senders, Row
<1>4. \A u \in DOMAIN chain' : chain'[u].status # "sent"
  BY <1>2 DEF Sends
<1>5. ASSUME NEW u \in DOMAIN chain, chain[u].status = "success"
      PROVE  chain'[u].status = "success"
  <2>1. u # t
    BY <1>1, <1>5
  <2>2. chain'[u] = chain[u]
    BY <1>1, <1>5, <2>1 DEF Included
  <2> QED
    BY <1>5, <2>2
<1>6. \A u \in DOMAIN chain : chain'[u].status = "success" =>
         chain[u].status \in {"sent", "success"}
  BY <1>1, <1>2
<1> QED
  BY <1>1, <1>2, <1>3, <1>4, <1>5, <1>6 DEF Sends

LEMMA SendsFrame ==
  ASSUME Sends, UNCHANGED <<onramps, settler, chain, sequence, doubts>>
  PROVE  Sends'
  BY DEF Sends, Senders, Row

LEMMA SendsNewRow ==
  ASSUME Shape, Sends, NEW d \in Deposits, NEW lira \in Lira, NEW rate \in Nat \ {0},
         NEW q \in Buys \cup {None}, TryToUsdc(lira, rate) > 0,
         CreatesOnramp(d, lira, rate, q), UNCHANGED <<settler, chain, sequence, doubts>>
  PROVE  Sends'
<1>1. PICK k : k = Len(onramps) + 1
  OBVIOUS
<1>2. /\ DOMAIN onramps' = DOMAIN onramps \cup {k} /\ k \notin DOMAIN onramps
      /\ \A n \in DOMAIN onramps : onramps'[n] = onramps[n]
      /\ onramps'[k].status = "pending"
  <2>1. Types /\ NewRow(d, lira, rate, q).status = "pending"
    BY DEF Shape, NewRow
  <2>2. /\ DOMAIN onramps' = DOMAIN onramps \cup {Len(onramps) + 1}
        /\ Len(onramps) + 1 \notin DOMAIN onramps
        /\ \A n \in DOMAIN onramps : onramps'[n] = onramps[n]
        /\ onramps'[Len(onramps) + 1] = NewRow(d, lira, rate, q)
    BY <2>1, NewRowChange
  <2> QED
    BY <1>1, <2>1, <2>2, Zenon
<1>3. Senders' /\ Row' = Row
  BY <1>2 DEF Sends, Senders, Row
<1>4. \A n \in DOMAIN onramps' : onramps'[n].status = "completed" =>
         n \in DOMAIN onramps /\ onramps'[n] = onramps[n]
  BY <1>2
<1>5. \A t \in DOMAIN chain : onramps'[chain[t].onramp] = onramps[chain[t].onramp]
  BY <1>2 DEF Sends, Senders
<1> QED
  BY <1>3, <1>4, <1>5 DEF Sends

LEMMA PricedKinds ==
  ASSUME Shape, NEW slot \in 1..MaxRequests, NEW rate \in Rates, Priced(slot, rate)
  PROVE  /\ UNCHANGED <<now, loops, ledger, ghosts, faults>>
         /\ \/ UNCHANGED tables
            \/ \E d \in Deposits, lira \in Lira :
                 /\ deposits[d] # None /\ rate \in Nat \ {0}
                 /\ TryToUsdc(lira, rate) > 0 /\ CreatesOnramp(d, lira, rate, None)
<1> DEFINE f == funding[slot]
<1>1. /\ f # None /\ UNCHANGED <<now, loops, ledger, ghosts, faults>>
      /\ IF TryToUsdc(f.lira, rate) > 0
         THEN CreatesOnramp(f.deposit, f.lira, rate, None) ELSE UNCHANGED tables
  BY DEF Priced
<1>2. /\ f.deposit \in Deposits /\ f.lira \in Lira /\ deposits[f.deposit] # None
      /\ rate \in Nat \ {0}
  BY <1>1, RampsAssumption DEF Shape, Types, Rows, Transfer
<1> HIDE DEF f
<1> QED
  BY <1>1, <1>2

LEMMA SendsWorld == ASSUME Shape, Sends, World PROVE Sends'
<1>1. UNCHANGED <<onramps, chain, sequence>>
  BY DEF World, tables
<1>2. \/ UNCHANGED <<settler, doubts>>
      \/ /\ settler' = Idle
         /\ doubts' = IF settler.pc = "poll" THEN doubts \cup {Row} ELSE doubts
  BY DEF World, loops
<1>3. CASE UNCHANGED <<settler, doubts>>
  BY <1>1, <1>3, SendsFrame
<1>4. CASE /\ settler' = Idle
           /\ doubts' = IF settler.pc = "poll" THEN doubts \cup {Row} ELSE doubts
  <2>1. settler'.pc # "poll"
    BY <1>4 DEF Idle
  <2>2. ASSUME NEW t \in DOMAIN chain, chain[t].onramp \notin doubts'
        PROVE  chain[t].onramp \notin doubts /\ ~(settler.pc = "poll" /\ t = Len(chain))
    BY <1>4, <2>2 DEF Sends
  <2>3. Senders'
    BY <1>1 DEF Sends, Senders
  <2> QED
    BY <1>1, <2>1, <2>2, <2>3 DEF Sends
<1> QED
  BY <1>2, <1>3, <1>4

LEMMA SendsStep == ASSUME Shape, Sends, [Next]_vars PROVE Sends'
<1>1. ASSUME NEW d \in Deposits, NEW lira \in Lira, Fund(d, lira) PROVE Sends'
  BY <1>1, FundKinds, SendsFrame, SendsNewRow DEF tables, loops, ledger, ghosts
<1>2. ASSUME NEW slot \in 1..MaxRequests, NEW rate \in Rates, Priced(slot, rate)
      PROVE  Sends'
  BY <1>2, PricedKinds, SendsFrame, SendsNewRow DEF tables, loops, ledger, ghosts
<1>3. CASE Requested
  <2>1. ASSUME NEW d \in Deposits, NEW q \in Buys \cup {None}, Deposit(d, q) PROVE Sends'
    BY <2>1, SendsFrame DEF Deposit, loops, ledger, ghosts
  <2>2. ASSUME NEW w \in Withdrawals, NEW q \in Sells \cup {None}, NEW rate \in Rates,
               Withdraw(w, q, rate)
        PROVE  Sends'
    BY <2>2, SendsFrame DEF Withdraw, loops, ledger, ghosts
  <2> QED
    BY <1>1, <1>3, <2>1, <2>2 DEF Requested
<1>4. CASE SettleBegins
  <2>1. /\ settler.pc = "idle" /\ settler'.pc = "row"
        /\ UNCHANGED <<onramps, chain, sequence, doubts>>
    BY <1>4 DEF SettleBegins, tables, ledger, ghosts
  <2> QED
    BY <2>1 DEF Sends, Senders
<1>5. CASE Watch
  <2>1. UNCHANGED <<onramps, settler, chain, sequence, doubts>>
    BY <1>5 DEF Watch, WatchBegins, Watches, WatchEnds, tables, ledger, ghosts
  <2> QED
    BY <2>1, SendsFrame
<1>6. CASE Call
  <2>1. UNCHANGED <<onramps, settler, chain, sequence, doubts>>
    BY <1>6 DEF Call, CallsBegin, Calls, Called, CallsEnd, tables, ledger, ghosts
  <2> QED
    BY <2>1, SendsFrame
<1>7. ASSUME NEW memo \in Withdrawals \cup {None}, NEW amount \in Tokens,
             NEW same \in BOOLEAN, Pay(memo, amount, same)
      PROVE  Sends'
  BY <1>7, SendsFrame DEF Pay, tables, loops, ghosts
<1>8. CASE UNCHANGED vars
  BY <1>8, SendsFrame DEF vars, tables, loops, ledger, ghosts
<1>9. ASSUME NEW t \in DOMAIN chain, Include(t) PROVE Sends'
  BY <1>9, SendsInclude
<1> QED
  BY <1>2, <1>3, <1>4, <1>5, <1>6, <1>7, <1>8, <1>9,
     SendsConsiders, SendsSubmits, SendsPolls, SendsWorld DEF Next, Settle

-----------------------------------------------------------------------------
\* What a quote was consumed by is what it prices, and nothing else is priced by it.

Consumers ==
    /\ \A n \in DOMAIN onramps : onramps[n].quote # None =>
         /\ consumed[onramps[n].quote] = <<onramps[n].deposit, n>>
         /\ onramps[n].tokens >= Quote(onramps[n].quote).bought
    /\ \A w \in Withdrawals : withdrawals[w] # None /\ withdrawals[w].quote # None =>
         consumed[withdrawals[w].quote] = <<w, 0>>
    /\ \A q \in Quotes : consumed[q] # None =>
         \/ /\ consumed[q][1] \in Deposits
            /\ onramps[consumed[q][2]].quote = q
            /\ consumed[q][2] \in DOMAIN onramps
         \/ /\ consumed[q][1] \in Withdrawals
            /\ withdrawals[consumed[q][1]] # None
            /\ withdrawals[consumed[q][1]].quote = q

LEMMA ConsumersFrame ==
  ASSUME Consumers, UNCHANGED <<onramps, withdrawals, consumed>>
  PROVE  Consumers'
  BY DEF Consumers

LEMMA ConsumersRowStep == ASSUME Shape, Consumers, RowStep PROVE Consumers'
<1>1. /\ DOMAIN onramps' = DOMAIN onramps /\ Row \in DOMAIN onramps
      /\ \A n \in DOMAIN onramps : n # Row => onramps'[n] = onramps[n]
      /\ Kept(onramps'[Row], onramps[Row])
  BY RowStepChange DEF Shape
<1>2. \A n \in DOMAIN onramps :
        /\ onramps'[n].quote = onramps[n].quote /\ onramps'[n].tokens = onramps[n].tokens
        /\ onramps'[n].deposit = onramps[n].deposit
  BY <1>1 DEF Kept
<1>3. UNCHANGED <<withdrawals, consumed>>
  BY DEF RowStep, OnlyOnramps
<1> QED
  BY <1>1, <1>2, <1>3 DEF Consumers

LEMMA ConsumersNewRow ==
  ASSUME Shape, Consumers, NEW d \in Deposits, NEW lira \in Lira, NEW rate \in Nat \ {0},
         NEW q \in Buys \cup {None}, TryToUsdc(lira, rate) > 0,
         CreatesOnramp(d, lira, rate, q),
         q # None => Usable(q) /\ TryToUsdc(lira, rate) >= Quote(q).bought
  PROVE  Consumers'
<1>1. PICK k : k = Len(onramps) + 1
  OBVIOUS
<1>2. PICK o : o = NewRow(d, lira, rate, q)
  OBVIOUS
<1>3. /\ DOMAIN onramps' = DOMAIN onramps \cup {k} /\ k \notin DOMAIN onramps
      /\ \A n \in DOMAIN onramps : n \in Nat /\ onramps'[n] = onramps[n]
      /\ onramps'[k] = o
  <2>1. Types
    BY DEF Shape
  <2>2. /\ DOMAIN onramps' = DOMAIN onramps \cup {Len(onramps) + 1}
        /\ Len(onramps) + 1 \notin DOMAIN onramps
        /\ \A n \in DOMAIN onramps : n \in Nat \ {0} /\ onramps'[n] = onramps[n]
        /\ onramps'[Len(onramps) + 1] = NewRow(d, lira, rate, q)
    BY <2>1, NewRowChange
  <2> QED
    BY <1>1, <1>2, <2>2
<1>4. o.deposit = d /\ o.quote = q /\ o.tokens = TryToUsdc(lira, rate)
  BY <1>2 DEF NewRow
<1>5. /\ consumed' = IF q = None THEN consumed ELSE [consumed EXCEPT ![q] = <<d, k>>]
      /\ withdrawals' = withdrawals
  BY <1>1 DEF CreatesOnramp
<1>6. consumed \in [Quotes -> (Transactions \X Nat) \cup {None}]
  BY DEF Shape, Types
<1>7. CASE q = None
  BY <1>3, <1>4, <1>5, <1>7 DEF Consumers
<1>8. CASE q # None
  <2>1. q \in Quotes /\ consumed[q] = None
    BY <1>8 DEF Usable, Quotes
  <2>2. /\ consumed'[q] = <<d, k>>
        /\ \A p \in Quotes : p # q => consumed'[p] = consumed[p]
    BY <1>5, <1>6, <1>8, <2>1
  <2>3. ASSUME NEW n \in DOMAIN onramps, onramps[n].quote # None
        PROVE  onramps[n].quote \in Quotes /\ onramps[n].quote # q
    <3>1. onramps[n] \in OnrampType /\ n \in Nat
      BY <1>3 DEF Shape, Types
    <3>2. <<onramps[n].deposit, n>> \in Transactions \X Nat
      BY <3>1 DEF OnrampType, Transactions
    <3>3. <<onramps[n].deposit, n>> # None
      BY <3>2, RampsAssumption
    <3> QED
      BY <2>1, <2>3, <3>1, <3>3 DEF Consumers, OnrampType, Quotes
  <2>4. ASSUME NEW w \in Withdrawals, withdrawals[w] # None, withdrawals[w].quote # None
        PROVE  withdrawals[w].quote \in Quotes /\ withdrawals[w].quote # q
    <3>1. withdrawals[w] \in WithdrawalType
      BY <2>4 DEF Shape, Types
    <3>2. <<w, 0>> \in Transactions \X Nat
      BY DEF Transactions
    <3>3. <<w, 0>> # None
      BY <3>2, RampsAssumption
    <3> QED
      BY <2>1, <2>4, <3>1, <3>3 DEF Consumers, WithdrawalType, Quotes
  <2>5. ASSUME NEW n \in DOMAIN onramps', onramps'[n].quote # None
        PROVE  /\ consumed'[onramps'[n].quote] = <<onramps'[n].deposit, n>>
               /\ onramps'[n].tokens >= Quote(onramps'[n].quote).bought
    <3>1. CASE n = k
      <4>1. TryToUsdc(lira, rate) >= Quote(q).bought
        BY <1>8
      <4> QED
        BY <1>3, <1>4, <2>2, <3>1, <4>1, Zenon
    <3>2. CASE n \in DOMAIN onramps
      <4>1. onramps'[n] = onramps[n]
        BY <1>3, <3>2
      <4> QED
        BY <2>2, <2>3, <2>5, <3>2, <4>1 DEF Consumers
    <3> QED
      BY <1>3, <3>1, <3>2
  <2>6. \A w \in Withdrawals : withdrawals'[w] # None /\ withdrawals'[w].quote # None =>
          consumed'[withdrawals'[w].quote] = <<w, 0>>
    BY <1>5, <2>2, <2>4 DEF Consumers
  <2>7. ASSUME NEW p \in Quotes, consumed'[p] # None
        PROVE  \/ /\ consumed'[p][1] \in Deposits
                  /\ onramps'[consumed'[p][2]].quote = p
                  /\ consumed'[p][2] \in DOMAIN onramps'
               \/ /\ consumed'[p][1] \in Withdrawals
                  /\ withdrawals'[consumed'[p][1]] # None
                  /\ withdrawals'[consumed'[p][1]].quote = p
    <3>1. CASE p = q
      BY <1>3, <1>4, <2>2, <3>1
    <3>2. CASE p # q
      BY <1>3, <1>5, <2>2, <2>7, <3>2 DEF Consumers
    <3> QED
      BY <3>1, <3>2
  <2> QED
    BY <2>5, <2>6, <2>7 DEF Consumers
<1> QED
  BY <1>7, <1>8

LEMMA ConsumersWithdraw ==
  ASSUME Shape, Consumers, NEW w \in Withdrawals, NEW q \in Sells \cup {None},
         NEW live \in Rates, Withdraw(w, q, live)
  PROVE  Consumers'
<1>0. PICK row : row = [quote |-> q, rate |-> IF q = None THEN live ELSE QuoteRate(q),
                       lockedUntil |-> now + RateLock, payment |-> None, paid |-> 0]
  OBVIOUS
<1>1. row.quote = q /\ withdrawals' = [withdrawals EXCEPT ![w] = row]
  BY <1>0 DEF Withdraw
<1>2. /\ consumed' = IF q = None THEN consumed ELSE [consumed EXCEPT ![q] = <<w, 0>>]
      /\ onramps' = onramps
  BY DEF Withdraw
<1>3. withdrawals[w] = None /\ (q # None => consumed[q] = None)
  BY DEF Withdraw, Opens, Opened, Usable
<1>4. /\ consumed \in [Quotes -> (Transactions \X Nat) \cup {None}]
      /\ withdrawals \in [Withdrawals -> WithdrawalType \cup {None}]
  BY DEF Shape, Types
<1>5. withdrawals'[w] = row /\ \A v \in Withdrawals : v # w => withdrawals'[v] = withdrawals[v]
  BY <1>1, <1>4
<1>6. ASSUME NEW n \in DOMAIN onramps, onramps[n].quote # None
      PROVE  onramps[n].quote \in Quotes /\ onramps[n].quote # q
  <2>1. onramps[n] \in OnrampType
    BY DEF Shape, Types
  <2>2. n \in Nat
    <3>1. \E m \in Nat : DOMAIN onramps = 1..m
      BY LenProperties DEF Shape, Types
    <3> QED
      BY <3>1
  <2>3. <<onramps[n].deposit, n>> \in Transactions \X Nat
    BY <2>1, <2>2 DEF OnrampType, Transactions
  <2>4. <<onramps[n].deposit, n>> # None
    BY <2>3, RampsAssumption
  <2> QED
    BY <1>3, <1>6, <2>1, <2>4 DEF Consumers, OnrampType, Quotes
<1>7. ASSUME NEW v \in Withdrawals, withdrawals[v] # None, withdrawals[v].quote # None
      PROVE  withdrawals[v].quote \in Quotes /\ withdrawals[v].quote # q /\ v # w
  <2>1. withdrawals[v] \in WithdrawalType
    BY <1>4, <1>7
  <2>2. <<v, 0>> \in Transactions \X Nat
    BY DEF Transactions
  <2>3. <<v, 0>> # None
    BY <2>2, RampsAssumption
  <2> QED
    BY <1>3, <1>7, <2>1, <2>3 DEF Consumers, WithdrawalType, Quotes
<1>8. withdrawals'[w] # None
  <2>1. /\ live \in Nat \ {0} /\ (q # None => QuoteRate(q) \in Nat \ {0})
        /\ now + RateLock \in Nat
    BY RampsAssumption DEF Quotes, Shape, Types
  <2>2. row \in WithdrawalType
    BY <1>0, <2>1 DEF WithdrawalType
  <2> QED
    BY <1>5, <2>2, RampsAssumption
<1>9. \A n \in DOMAIN onramps : onramps[n].quote # None =>
        consumed'[onramps[n].quote] = consumed[onramps[n].quote]
  BY <1>2, <1>4, <1>6
<1>10. \A v \in Withdrawals : withdrawals[v] # None /\ withdrawals[v].quote # None =>
         consumed'[withdrawals[v].quote] = consumed[withdrawals[v].quote]
  BY <1>2, <1>4, <1>7
<1>11. q # None => q \in Quotes /\ consumed'[q] = <<w, 0>>
  BY <1>2, <1>4 DEF Quotes
<1>12. \A v \in Withdrawals : withdrawals'[v] # None /\ withdrawals'[v].quote # None =>
          consumed'[withdrawals'[v].quote] = <<v, 0>>
  BY <1>1, <1>5, <1>10, <1>11 DEF Consumers
<1>13. ASSUME NEW p \in Quotes, consumed'[p] # None
       PROVE  \/ /\ consumed'[p][1] \in Deposits
                 /\ onramps'[consumed'[p][2]].quote = p
                 /\ consumed'[p][2] \in DOMAIN onramps'
              \/ /\ consumed'[p][1] \in Withdrawals
                 /\ withdrawals'[consumed'[p][1]] # None
                 /\ withdrawals'[consumed'[p][1]].quote = p
  <2>1. CASE p = q /\ q # None
    BY <1>1, <1>5, <1>8, <1>11, <2>1
  <2>2. CASE ~(p = q /\ q # None)
    <3>1. consumed'[p] = consumed[p]
      BY <1>2, <1>4, <2>2
    <3> QED
      BY <1>2, <1>3, <1>5, <1>13, <3>1 DEF Consumers
  <2> QED
    BY <2>1, <2>2
<1> QED
  BY <1>2, <1>9, <1>12, <1>13 DEF Consumers

LEMMA ConsumersWatches == ASSUME Shape, Consumers, Watches PROVE Consumers'
<1>1. Handled(Head(watcher.todo)) /\ UNCHANGED <<onramps, consumed>>
  BY WatchesHandles
<1>2. CASE withdrawals' = withdrawals
  BY <1>1, <1>2, ConsumersFrame
<1>3. ASSUME NEW w \in Withdrawals, NEW row \in WithdrawalType, Awaiting(w),
             row.quote = withdrawals[w].quote,
             withdrawals' = [withdrawals EXCEPT ![w] = row]
      PROVE  Consumers'
  <2>1. \A v \in Withdrawals :
          /\ withdrawals'[v] # None <=> withdrawals[v] # None
          /\ withdrawals[v] # None => withdrawals'[v].quote = withdrawals[v].quote
    BY <1>3, RampsAssumption DEF Shape, Types, Awaiting
  <2> QED
    BY <1>1, <2>1 DEF Consumers
<1> QED
  BY <1>1, <1>2, <1>3 DEF Handled

LEMMA ConsumersStep == ASSUME Shape, Consumers, [Next]_vars PROVE Consumers'
<1>1. ASSUME NEW d \in Deposits, NEW lira \in Lira, Fund(d, lira) PROVE Consumers'
  BY <1>1, FundKinds, ConsumersFrame, ConsumersNewRow DEF tables
<1>2. ASSUME NEW slot \in 1..MaxRequests, NEW rate \in Rates, Priced(slot, rate)
      PROVE  Consumers'
  BY <1>2, PricedKinds, ConsumersFrame, ConsumersNewRow DEF tables
<1>3. CASE Requested
  <2>1. ASSUME NEW d \in Deposits, NEW q \in Buys \cup {None}, Deposit(d, q)
        PROVE  Consumers'
    BY <2>1, ConsumersFrame DEF Deposit
  <2> QED
    BY <1>1, <1>3, <2>1, ConsumersWithdraw DEF Requested
<1>4. CASE Settle
  BY <1>4, ConsumersFrame, ConsumersRowStep, ConsidersIsRowStep, SubmitsIsRowStep,
     PollsIsRowStep DEF Settle, Shape, SettleBegins, tables
<1>5. CASE Watch
  BY <1>5, ConsumersFrame, ConsumersWatches DEF Watch, WatchBegins, WatchEnds, tables
<1>6. CASE Call
  BY <1>6, ConsumersFrame DEF Call, CallsBegin, Calls, Called, CallsEnd, tables
<1>7. ASSUME UNCHANGED tables PROVE Consumers'
  BY <1>7, ConsumersFrame DEF tables
<1> QED
  BY <1>2, <1>3, <1>4, <1>5, <1>6, <1>7 DEF Next, Include, Pay, World, vars

-----------------------------------------------------------------------------
\* The lira of failed rows were given back, each once.

GivenBack == {n \in DOMAIN onramps : onramps[n].status = "failed"}
Amounts   == [n \in DOMAIN onramps |-> onramps[n].lira]
Returns   == balance = Total(Amounts, GivenBack)

LEMMA GivenBackFinite ==
  ASSUME Types
  PROVE  IsFiniteSet(GivenBack) /\ \A n \in DOMAIN onramps : Amounts[n] \in Nat
<1>1. PICK m \in Nat : DOMAIN onramps = 1..m
  BY LenProperties DEF Types
<1>2. IsFiniteSet(GivenBack)
  BY <1>1, SortedExists DEF GivenBack
<1>3. ASSUME NEW n \in DOMAIN onramps PROVE Amounts[n] \in Nat
  <2>1. onramps[n] \in OnrampType
    BY DEF Types
  <2> QED
    BY <2>1, RampsAssumption DEF Amounts, OnrampType
<1> QED
  BY <1>2, <1>3

LEMMA ReturnsSame ==
  ASSUME Types, Returns, balance' = balance, GivenBack' = GivenBack,
         \A n \in GivenBack : Amounts'[n] = Amounts[n]
  PROVE  Returns'
<1>1. PICK S : S = GivenBack
  OBVIOUS
<1>2. PICK f : f = Amounts
  OBVIOUS
<1>3. PICK h : h = Amounts'
  OBVIOUS
<1>4. IsFiniteSet(S) /\ \A n \in S : f[n] = h[n]
  BY <1>1, <1>2, <1>3, GivenBackFinite
<1>5. Total(f, S) = Total(h, S)
  BY <1>4, TotalSame
<1> QED
  BY <1>1, <1>2, <1>3, <1>5 DEF Returns

LEMMA ReturnsRowStep == ASSUME Shape, Returns, RowStep PROVE Returns'
<1>0. Types
  BY DEF Shape
<1>1. /\ DOMAIN onramps' = DOMAIN onramps /\ Row \in DOMAIN onramps
      /\ \A n \in DOMAIN onramps : n # Row => onramps'[n] = onramps[n]
      /\ Kept(onramps'[Row], onramps[Row]) /\ Outcome(onramps'[Row])
      /\ onramps[Row].status = "pending"
  BY RowStepChange, AtRow DEF Shape, RowStep
<1>2. \A n \in DOMAIN onramps : Amounts'[n] = Amounts[n]
  BY <1>1 DEF Amounts, Kept
<1>3. CASE onramps'[Row].status # "failed"
  <2>1. balance' = balance
    BY <1>1, <1>3 DEF Outcome
  <2>2. GivenBack' = GivenBack
    BY <1>1, <1>3 DEF GivenBack
  <2>3. GivenBack \subseteq DOMAIN onramps
    BY DEF GivenBack
  <2> QED
    BY <1>0, <1>2, <2>1, <2>2, <2>3, ReturnsSame
<1>4. CASE onramps'[Row].status = "failed"
  <2>1. balance' = balance + onramps[Row].lira
    BY <1>1, <1>4 DEF Outcome
  <2>2. PICK S : S = GivenBack
    OBVIOUS
  <2>3. PICK T : T = GivenBack'
    OBVIOUS
  <2>4. PICK r : r = Row
    OBVIOUS
  <2>5. T = S \cup {r} /\ r \notin S /\ r \in T /\ T \ {r} = S
    BY <1>1, <1>4, <2>2, <2>3, <2>4 DEF GivenBack
  <2>6. PICK f : f = Amounts
    OBVIOUS
  <2>7. PICK h : h = Amounts'
    OBVIOUS
  <2>8. /\ IsFiniteSet(S) /\ \A n \in S : f[n] = h[n]
        /\ f[r] = h[r] /\ h[r] = onramps[Row].lira
    BY <1>0, <1>1, <1>2, <2>2, <2>4, <2>6, <2>7, GivenBackFinite DEF GivenBack, Amounts, Kept
  <2>9. IsFiniteSet(T) /\ \A n \in T : h[n] \in Int
    <3>1. IsFiniteSet(T)
      BY <2>5, <2>8, FS_AddElement
    <3>2. \A n \in DOMAIN onramps : f[n] \in Nat
      BY <1>0, <2>6, GivenBackFinite
    <3>3. S \subseteq DOMAIN onramps /\ r \in DOMAIN onramps
      BY <1>1, <2>2, <2>4 DEF GivenBack
    <3> QED
      BY <1>2, <2>5, <2>6, <2>7, <3>1, <3>2, <3>3
  <2>10. Total(h, T) = h[r] + Total(h, S)
    BY <2>5, <2>9, TotalTakesOut
  <2>11. Total(f, S) = Total(h, S)
    BY <2>8, TotalSame
  <2>12. balance = Total(f, S) /\ balance \in Int /\ h[r] \in Int
    BY <1>0, <2>2, <2>5, <2>6, <2>9 DEF Returns, Types
  <2>13. balance' = Total(h, T)
    BY <2>1, <2>8, <2>10, <2>11, <2>12
  <2> QED
    BY <2>3, <2>7, <2>13 DEF Returns
<1> QED
  BY <1>3, <1>4

LEMMA ReturnsNewRow ==
  ASSUME Shape, Returns, NEW d \in Deposits, NEW lira \in Lira, NEW rate \in Nat \ {0},
         NEW q \in Buys \cup {None}, TryToUsdc(lira, rate) > 0,
         CreatesOnramp(d, lira, rate, q)
  PROVE  Returns'
<1>1. Types /\ NewRow(d, lira, rate, q).status = "pending" /\ balance' = balance
  BY DEF Shape, NewRow, CreatesOnramp
<1>2. /\ DOMAIN onramps' = DOMAIN onramps \cup {Len(onramps) + 1}
      /\ Len(onramps) + 1 \notin DOMAIN onramps
      /\ \A n \in DOMAIN onramps : onramps'[n] = onramps[n]
      /\ onramps'[Len(onramps) + 1] = NewRow(d, lira, rate, q)
  BY <1>1, NewRowChange
<1>3. GivenBack' = GivenBack
  <2>1. \A n \in DOMAIN onramps' :
          n \in DOMAIN onramps \/ onramps'[n].status = "pending"
    BY <1>1, <1>2
  <2> QED
    BY <1>2, <2>1 DEF GivenBack
<1>4. \A n \in GivenBack : Amounts'[n] = Amounts[n]
  BY <1>2 DEF GivenBack, Amounts
<1> QED
  BY <1>1, <1>3, <1>4, ReturnsSame

LEMMA ReturnsFrame == ASSUME Returns, UNCHANGED <<onramps, balance>> PROVE Returns'
<1>1. GivenBack' = GivenBack /\ Amounts' = Amounts
  BY DEF GivenBack, Amounts
<1> QED
  BY <1>1 DEF Returns

LEMMA ReturnsStep == ASSUME Shape, Returns, [Next]_vars PROVE Returns'
<1>1. ASSUME NEW d \in Deposits, NEW lira \in Lira, Fund(d, lira) PROVE Returns'
  BY <1>1, FundKinds, ReturnsFrame, ReturnsNewRow DEF tables
<1>2. ASSUME NEW slot \in 1..MaxRequests, NEW rate \in Rates, Priced(slot, rate)
      PROVE  Returns'
  BY <1>2, PricedKinds, ReturnsFrame, ReturnsNewRow DEF tables
<1>3. CASE Requested
  <2>1. ASSUME NEW d \in Deposits, NEW q \in Buys \cup {None}, Deposit(d, q)
        PROVE  Returns'
    BY <2>1, ReturnsFrame DEF Deposit
  <2>2. ASSUME NEW w \in Withdrawals, NEW q \in Sells \cup {None}, NEW rate \in Rates,
               Withdraw(w, q, rate)
        PROVE  Returns'
    BY <2>2, ReturnsFrame DEF Withdraw
  <2> QED
    BY <1>1, <1>3, <2>1, <2>2 DEF Requested
<1>4. CASE Settle
  BY <1>4, ReturnsFrame, ReturnsRowStep, ConsidersIsRowStep, SubmitsIsRowStep,
     PollsIsRowStep DEF Settle, Shape, SettleBegins, tables
<1>5. CASE Watch
  BY <1>5, ReturnsFrame DEF Watch, WatchBegins, Watches, WatchEnds, tables
<1>6. CASE Call
  BY <1>6, ReturnsFrame DEF Call, CallsBegin, Calls, Called, CallsEnd, tables
<1>7. ASSUME UNCHANGED tables PROVE Returns'
  BY <1>7, ReturnsFrame DEF tables
<1> QED
  BY <1>2, <1>3, <1>4, <1>5, <1>6, <1>7 DEF Next, Include, Pay, World, vars

-----------------------------------------------------------------------------
\* Payments behind the cursor, and those that the loop has handled since, are
\* accounted for; one that is listed as unmatched can no longer be credited.

Accounted(p) == Already(p) \/ Listed(p) \/ p \in skipped
Lost(p) ==
    feed[p].memo # None =>
        withdrawals[feed[p].memo] # None /\ withdrawals[feed[p].memo].payment # None

Accounts ==
    /\ \A i \in DOMAIN unmatched : unmatched[i] \in DOMAIN feed /\ Lost(unmatched[i])
    /\ \A w \in Withdrawals : withdrawals[w] # None /\ withdrawals[w].payment # None =>
         withdrawals[w].payment \in DOMAIN feed
    /\ \A p \in DOMAIN feed : feed[p].memo # None => withdrawals[feed[p].memo] # None
    /\ \A p \in 1..cursor : Accounted(p)
    /\ watcher # Idle => \A p \in 1..(watcher.next - Len(watcher.todo)) : Accounted(p)
    /\ \A p \in DOMAIN feed : ~(Credited(p) /\ Listed(p))

LEMMA FeedIndex ==
  ASSUME Shape
  PROVE  /\ DOMAIN feed = 1..Len(feed) /\ Len(feed) \in Nat
         /\ \A p \in DOMAIN feed : p \in Nat /\ feed[p] \in Payment
         /\ 1..cursor \subseteq DOMAIN feed
         /\ watcher # Idle => 1..(watcher.next - Len(watcher.todo)) \subseteq DOMAIN feed
<1>1. PICK m \in Nat : m = Len(feed) /\ DOMAIN feed = 1..m /\ feed \in Seq(Payment)
  BY LenProperties DEF Shape, Types
<1>2. cursor \in Nat /\ cursor <= m
  BY <1>1 DEF Shape, Types, Window
<1>3. ASSUME watcher # Idle
      PROVE  1..(watcher.next - Len(watcher.todo)) \subseteq 1..m
  <2>1. watcher \in Handling
    BY <1>3 DEF Shape, Types
  <2>2. watcher.todo \in Seq(Nat)
    BY <2>1 DEF Handling
  <2>3. PICK k \in Nat : k = Len(watcher.todo)
    BY <2>2, LenProperties
  <2>4. PICK n \in Nat : n = watcher.next
    BY <2>1 DEF Handling
  <2>5. n <= m
    BY <1>1, <1>3, <2>4 DEF Shape, Window
  <2>6. 1..(n - k) \subseteq 1..m
    BY <2>5
  <2> QED
    BY <2>3, <2>4, <2>6
<1>4. \A p \in 1..m : feed[p] \in Payment
  BY <1>1, ElementOfSeq
<1>5. 1..cursor \subseteq 1..m
  BY <1>2
<1> QED
  BY <1>1, <1>3, <1>4, <1>5

\* What is accounted for stays so.
LEMMA AccountedStays ==
  ASSUME NEW p \in DOMAIN feed, Accounted(p), DOMAIN feed \subseteq DOMAIN feed',
         \A q \in DOMAIN feed : feed'[q] = feed[q],
         \A q \in DOMAIN feed : Credited(q) => Credited(q)',
         Listed(p) => Listed(p)', skipped \subseteq skipped'
  PROVE  Accounted(p)'
<1>1. CASE Already(p)
  <2>1. PICK q \in DOMAIN feed : feed[q].tx = feed[p].tx /\ Credited(q)
    BY <1>1 DEF Already
  <2>2. q \in DOMAIN feed' /\ feed'[q].tx = feed'[p].tx /\ Credited(q)'
    BY <2>1
  <2>3. Already(p)'
    BY <2>2 DEF Already
  <2> QED
    BY <2>3 DEF Accounted
<1> QED
  BY <1>1 DEF Accounted

LEMMA AccountsFrame ==
  ASSUME Accounts, UNCHANGED <<withdrawals, unmatched, cursor, watcher, feed, skipped>>
  PROVE  Accounts'
  BY DEF Accounts, Accounted, Lost, Already, Credited, Listed

LEMMA AccountsWithdraw ==
  ASSUME Shape, Accounts, NEW w \in Withdrawals, NEW q \in Sells \cup {None},
         NEW live \in Rates, Withdraw(w, q, live)
  PROVE  Accounts'
<1>1. PICK row : row = [quote |-> q, rate |-> IF q = None THEN live ELSE QuoteRate(q),
                        lockedUntil |-> now + RateLock, payment |-> None, paid |-> 0]
  OBVIOUS
<1>2. /\ withdrawals' = [withdrawals EXCEPT ![w] = row] /\ withdrawals[w] = None
      /\ row.payment = None
      /\ UNCHANGED <<unmatched, cursor, watcher, feed, skipped>>
  BY <1>1 DEF Withdraw, Opens, Opened, loops, ledger, ghosts
<1>3. DOMAIN withdrawals = Withdrawals
  BY DEF Shape, Types
<1>4. withdrawals'[w] = row /\ \A v \in Withdrawals : v # w => withdrawals'[v] = withdrawals[v]
  BY <1>2, <1>3
<1>5. ASSUME NEW p \in Nat PROVE Credited(p)' <=> Credited(p)
  <2>1. p # None
    BY RampsAssumption
  <2> QED
    BY <1>2, <1>4, <2>1 DEF Credited
<1>6. /\ \A p \in DOMAIN feed : p \in Nat /\ feed[p] \in Payment
      /\ 1..cursor \subseteq DOMAIN feed
      /\ watcher # Idle => 1..(watcher.next - Len(watcher.todo)) \subseteq DOMAIN feed
  BY FeedIndex
<1>7. \A p \in DOMAIN feed : (Credited(p)' <=> Credited(p)) /\ (Listed(p)' <=> Listed(p))
  BY <1>2, <1>5, <1>6 DEF Listed
<1>8. \A p \in DOMAIN feed : Accounted(p) => Accounted(p)'
  BY <1>2, <1>7, AccountedStays
<1>9. \A p \in DOMAIN feed : Lost(p) => Lost(p)'
  BY <1>2, <1>4, <1>6 DEF Lost, Payment
<1>10. \A p \in DOMAIN feed : feed[p].memo # None => withdrawals'[feed[p].memo] # None
  <2>1. ASSUME NEW p \in DOMAIN feed, feed[p].memo # None
        PROVE  withdrawals'[feed[p].memo] # None
    <3>1. withdrawals[feed[p].memo] # None /\ feed[p].memo \in Withdrawals
      BY <1>6, <2>1 DEF Accounts, Payment
    <3> QED
      BY <1>2, <1>4, <3>1
  <2> QED
    BY <2>1
<1>11. \A v \in Withdrawals : withdrawals'[v] # None /\ withdrawals'[v].payment # None =>
          withdrawals'[v].payment \in DOMAIN feed
  BY <1>2, <1>4 DEF Accounts
<1> QED
  BY <1>2, <1>6, <1>7, <1>8, <1>9, <1>10, <1>11 DEF Accounts

LEMMA AccountsPay ==
  ASSUME Shape, Accounts, NEW memo \in Withdrawals \cup {None}, NEW amount \in Tokens,
         NEW same \in BOOLEAN, Pay(memo, amount, same)
  PROVE  Accounts'
<1>1. PICK m : m = Len(feed)
  OBVIOUS
<1>2. /\ m \in Nat /\ DOMAIN feed = 1..m /\ DOMAIN feed' = 1..(m + 1)
      /\ \A p \in DOMAIN feed : feed'[p] = feed[p]
      /\ feed'[m + 1].memo = memo
      /\ memo # None => withdrawals[memo] # None
  BY <1>1, PayAppends DEF Shape
<1>3. UNCHANGED <<withdrawals, unmatched, cursor, watcher, skipped>>
  BY DEF Pay, tables, loops, ghosts
<1>4. DOMAIN feed' = DOMAIN feed \cup {m + 1} /\ m + 1 \notin DOMAIN feed
  BY <1>2
<1>5. \A p : (Credited(p)' <=> Credited(p)) /\ (Listed(p)' <=> Listed(p))
  BY <1>3 DEF Credited, Listed
<1>6. /\ 1..cursor \subseteq DOMAIN feed
      /\ watcher # Idle => 1..(watcher.next - Len(watcher.todo)) \subseteq DOMAIN feed
  BY FeedIndex
<1>7. \A p \in DOMAIN feed : Accounted(p) => Accounted(p)'
  BY <1>2, <1>3, <1>4, <1>5, AccountedStays
<1>8. \A p \in DOMAIN feed : Lost(p) => Lost(p)'
  BY <1>2, <1>3 DEF Lost
<1>9. ~Listed(m + 1)
  BY <1>4 DEF Accounts, Listed
<1> QED
  BY <1>2, <1>3, <1>4, <1>5, <1>6, <1>7, <1>8, <1>9 DEF Accounts

LEMMA AccountsWatchBegins == ASSUME Shape, Accounts, WatchBegins PROVE Accounts'
<1>1. UNCHANGED <<withdrawals, unmatched, cursor, feed, skipped>>
  BY DEF WatchBegins, tables, ledger, ghosts
<1>2. watcher'.next - Len(watcher'.todo) = cursor
  <2>1. PICK m \in Nat : m = Len(feed)
    BY FeedIndex
  <2>2. PICK c \in Nat : c = cursor
    BY DEF Shape, Types
  <2>3. c <= m
    BY <2>1, <2>2 DEF Shape, Window
  <2>4. PICK s : s = [i \in 1..(m - c) |-> c + i]
    OBVIOUS
  <2>5. m - c \in Nat /\ s \in [1..(m - c) -> Nat]
    BY <2>3, <2>4
  <2>6. Len(s) = m - c
    BY <2>5
  <2>7. watcher'.next = m /\ watcher'.todo = s
    BY <2>1, <2>2, <2>4 DEF WatchBegins
  <2>8. m - (m - c) = c
    OBVIOUS
  <2> QED
    BY <2>2, <2>6, <2>7, <2>8
<1>3. \A p : (Accounted(p)' <=> Accounted(p)) /\ (Lost(p)' <=> Lost(p))
             /\ (Credited(p)' <=> Credited(p)) /\ (Listed(p)' <=> Listed(p))
  BY <1>1 DEF Accounted, Lost, Already, Credited, Listed
<1> QED
  BY <1>1, <1>2, <1>3 DEF Accounts

LEMMA AccountsWatchEnds == ASSUME Shape, Accounts, WatchEnds PROVE Accounts'
<1>1. UNCHANGED <<withdrawals, unmatched, feed, skipped>> /\ watcher' = Idle
  BY DEF WatchEnds, ledger, ghosts
<1>2. watcher # Idle /\ watcher \in Handling
  BY IdleIsNotBusy DEF WatchEnds, Shape, Types, Idle
<1>3. 1..cursor' = 1..(watcher.next - Len(watcher.todo))
  <2>1. watcher.next \in Nat /\ Len(watcher.todo) = 0
    BY <1>2, EmptySeq DEF WatchEnds, Handling
  <2>2. cursor' = watcher.next
    BY DEF WatchEnds
  <2> QED
    BY <2>1, <2>2
<1>4. \A p : (Accounted(p)' <=> Accounted(p)) /\ (Lost(p)' <=> Lost(p))
             /\ (Credited(p)' <=> Credited(p)) /\ (Listed(p)' <=> Listed(p))
  BY <1>1 DEF Accounted, Lost, Already, Credited, Listed
<1> QED
  BY <1>1, <1>2, <1>3, <1>4 DEF Accounts

\* The payment at hand becomes accounted for, in one way.
LEMMA HandledAccounts ==
  ASSUME Shape, Accounts, NEW p \in DOMAIN feed, Handled(p), skipped \subseteq skipped',
         feed' = feed
  PROVE  /\ Accounted(p)' /\ \A r \in DOMAIN feed : Accounted(r) => Accounted(r)'
         /\ \A i \in DOMAIN unmatched' :
              unmatched'[i] \in DOMAIN feed /\ Lost(unmatched[i])'
         /\ \A w \in Withdrawals : withdrawals'[w] # None /\ withdrawals'[w].payment # None =>
              withdrawals'[w].payment \in DOMAIN feed
         /\ \A r \in DOMAIN feed : feed[r].memo # None => withdrawals'[feed[r].memo] # None
         /\ \A r \in DOMAIN feed : ~(Credited(r)' /\ Listed(r)')
<1>1. /\ \A r \in DOMAIN feed : r \in Nat /\ feed[r] \in Payment
  BY FeedIndex
<1>2. /\ withdrawals \in [Withdrawals -> WithdrawalType \cup {None}]
      /\ unmatched \in Seq(Nat)
  BY DEF Shape, Types
<1>3. CASE UNCHANGED <<withdrawals, unmatched>> /\ (Already(p) \/ skipped' = skipped \cup {p})
  <2>1. \A r : /\ Credited(r)' <=> Credited(r)
               /\ Listed(r)' <=> Listed(r)
               /\ Lost(r)' <=> Lost(r)
               /\ Already(r)' <=> Already(r)
    BY <1>3 DEF Credited, Listed, Lost, Already
  <2> QED
    BY <1>3, <2>1 DEF Accounts, Accounted
<1>4. CASE /\ ~Already(p) /\ ~Awaiting(feed[p].memo)
           /\ unmatched' = Append(unmatched, p) /\ UNCHANGED withdrawals
  <2>1. PICK k \in Nat : k = Len(unmatched) /\ DOMAIN unmatched = 1..k
    BY <1>2, LenProperties
  <2>2. /\ Append(unmatched, p) \in Seq(Nat) /\ Len(Append(unmatched, p)) = k + 1
        /\ \A i \in 1..k : Append(unmatched, p)[i] = unmatched[i]
        /\ Append(unmatched, p)[k + 1] = p
    BY <1>1, <1>2, <2>1, AppendProperties
  <2>3. DOMAIN unmatched' = (1..k) \cup {k + 1}
    <3>1. DOMAIN unmatched' = 1..(k + 1)
      BY <1>4, <2>2, LenProperties
    <3> QED
      BY <3>1
  <2>4. \A r : Listed(r)' <=> Listed(r) \/ r = p
    BY <1>4, <2>1, <2>2, <2>3 DEF Listed
  <2>5. \A r : (Credited(r)' <=> Credited(r)) /\ (Lost(r)' <=> Lost(r))
    BY <1>4 DEF Credited, Lost
  <2>6. ~Credited(p)
    BY <1>4 DEF Already
  <2>7. Lost(p)
    BY <1>4 DEF Lost, Awaiting, Accounts
  <2>8. \A r \in DOMAIN feed : Accounted(r) => Accounted(r)'
    BY <2>4, <2>5, AccountedStays
  <2>9. Accounted(p)'
    BY <2>4 DEF Accounted
  <2>10. \A i \in DOMAIN unmatched' : unmatched'[i] \in DOMAIN feed /\ Lost(unmatched[i])'
    BY <1>4, <2>1, <2>2, <2>3, <2>5, <2>7 DEF Accounts
  <2>11. \A r \in DOMAIN feed : ~(Credited(r)' /\ Listed(r)')
    BY <2>4, <2>5, <2>6 DEF Accounts
  <2> QED
    BY <1>4, <2>8, <2>9, <2>10, <2>11 DEF Accounts
<1>5. ASSUME NEW w \in Withdrawals, w = feed[p].memo, NEW row \in WithdrawalType,
             ~Already(p), Awaiting(w), row.payment = p, unmatched' = unmatched,
             withdrawals' = [withdrawals EXCEPT ![w] = row]
      PROVE  /\ Accounted(p)' /\ \A r \in DOMAIN feed : Accounted(r) => Accounted(r)'
             /\ \A i \in DOMAIN unmatched' :
                  unmatched'[i] \in DOMAIN feed /\ Lost(unmatched[i])'
             /\ \A v \in Withdrawals :
                  withdrawals'[v] # None /\ withdrawals'[v].payment # None =>
                    withdrawals'[v].payment \in DOMAIN feed
             /\ \A r \in DOMAIN feed :
                  feed[r].memo # None => withdrawals'[feed[r].memo] # None
             /\ \A r \in DOMAIN feed : ~(Credited(r)' /\ Listed(r)')
  <2>1. withdrawals'[w] = row /\ row # None /\ p # None
        /\ \A v \in Withdrawals : v # w => withdrawals'[v] = withdrawals[v]
    BY <1>1, <1>2, <1>5, RampsAssumption
  <2>2. withdrawals[w] # None /\ withdrawals[w].payment = None /\ w # None
    BY <1>5 DEF Awaiting
  <2>3. ASSUME NEW r \in DOMAIN feed PROVE Credited(r)' <=> Credited(r) \/ r = p
    <3>1. r # None
      BY <1>1, RampsAssumption
    <3> QED
      BY <1>5, <2>1, <2>2, <3>1 DEF Credited
  <2>4. \A r : Listed(r)' <=> Listed(r)
    BY <1>5 DEF Listed
  <2>5. ~Lost(p)
    BY <1>5, <2>2 DEF Lost
  <2>6. ~Listed(p)
    BY <2>5 DEF Listed, Accounts
  <2>7. \A r \in DOMAIN feed : Accounted(r) => Accounted(r)'
    BY <2>3, <2>4, AccountedStays
  <2>8. Accounted(p)'
    <3>1. Already(p)'
      BY <2>3 DEF Already
    <3> QED
      BY <3>1 DEF Accounted
  <2>9. ASSUME NEW r \in DOMAIN feed, Lost(r) PROVE Lost(r)'
    <3>1. feed[r].memo \in Withdrawals \cup {None}
      BY <1>1 DEF Payment
    <3> QED
      BY <2>1, <2>2, <2>9, <3>1 DEF Lost
  <2>10. \A i \in DOMAIN unmatched' : unmatched'[i] \in DOMAIN feed /\ Lost(unmatched[i])'
    BY <1>5, <2>9 DEF Accounts
  <2>11. \A v \in Withdrawals : withdrawals'[v] # None /\ withdrawals'[v].payment # None =>
            withdrawals'[v].payment \in DOMAIN feed
    BY <1>5, <2>1 DEF Accounts
  <2>12. ASSUME NEW r \in DOMAIN feed, feed[r].memo # None
         PROVE  withdrawals'[feed[r].memo] # None
    <3>1. feed[r].memo \in Withdrawals /\ withdrawals[feed[r].memo] # None
      BY <1>1, <2>12 DEF Payment, Accounts
    <3> QED
      BY <2>1, <3>1
  <2>13. \A r \in DOMAIN feed : ~(Credited(r)' /\ Listed(r)')
    BY <2>3, <2>4, <2>6 DEF Accounts
  <2> QED
    BY <2>7, <2>8, <2>10, <2>11, <2>12, <2>13
<1> QED
  BY <1>3, <1>4, <1>5 DEF Handled

LEMMA AccountsWatches == ASSUME Shape, Accounts, Watches PROVE Accounts'
<1>1. /\ watcher \in Handling /\ watcher.todo # <<>>
      /\ Handled(Head(watcher.todo))
      /\ watcher' = [watcher EXCEPT !.todo = Tail(@)]
      /\ skipped \subseteq skipped'
      /\ UNCHANGED <<cursor, feed>>
  BY WatchesHandles DEF ledger
<1>2. PICK p : p = Head(watcher.todo)
  OBVIOUS
<1>3. PICK k \in Nat \ {0} : k = Len(watcher.todo)
  BY <1>1, AtPayment DEF Shape
<1>4. PICK n \in Nat : n = watcher.next
  BY <1>1 DEF Handling
<1>5. p = n - k + 1 /\ p \in DOMAIN feed /\ Len(Tail(watcher.todo)) = k - 1
  BY <1>1, <1>2, <1>3, <1>4, AtPayment DEF Shape
<1>6. /\ Accounted(p)' /\ \A r \in DOMAIN feed : Accounted(r) => Accounted(r)'
      /\ \A i \in DOMAIN unmatched' : unmatched'[i] \in DOMAIN feed /\ Lost(unmatched[i])'
      /\ \A w \in Withdrawals : withdrawals'[w] # None /\ withdrawals'[w].payment # None =>
           withdrawals'[w].payment \in DOMAIN feed
      /\ \A r \in DOMAIN feed : feed[r].memo # None => withdrawals'[feed[r].memo] # None
      /\ \A r \in DOMAIN feed : ~(Credited(r)' /\ Listed(r)')
  BY <1>1, <1>2, <1>5, HandledAccounts
<1>7. watcher # Idle /\ 1..(n - k) \subseteq DOMAIN feed /\ 1..cursor \subseteq DOMAIN feed
  BY <1>1, <1>3, <1>4, FeedIndex, IdleIsNotBusy
<1>8. watcher'.next - Len(watcher'.todo) = n - (k - 1)
  <2>1. watcher'.next = watcher.next /\ watcher'.todo = Tail(watcher.todo)
    BY <1>1 DEF Handling
  <2> QED
    BY <1>4, <1>5, <2>1
<1>9. \A r \in 1..(n - (k - 1)) : r \in 1..(n - k) \/ r = p
  <2>1. \A r \in 1..(n - (k - 1)) : r \in 1..(n - k) \/ r = n - k + 1
    OBVIOUS
  <2> QED
    BY <1>5, <2>1
<1>10. \A r \in 1..(n - (k - 1)) : Accounted(r)'
  <2>1. \A r \in 1..(n - k) : Accounted(r)
    BY <1>3, <1>4, <1>7 DEF Accounts
  <2> QED
    BY <1>6, <1>7, <1>9, <2>1
<1>11. \A r \in 1..cursor : Accounted(r)'
  BY <1>6, <1>7 DEF Accounts
<1> QED
  BY <1>1, <1>6, <1>8, <1>10, <1>11 DEF Accounts

LEMMA AccountsWorld == ASSUME Accounts, World PROVE Accounts'
<1>1. UNCHANGED <<withdrawals, unmatched, cursor, feed, skipped>>
  BY DEF World, tables
<1>2. watcher' = watcher \/ watcher' = Idle
  BY DEF World, loops
<1>3. \A p : (Accounted(p)' <=> Accounted(p)) /\ (Lost(p)' <=> Lost(p))
             /\ (Credited(p)' <=> Credited(p)) /\ (Listed(p)' <=> Listed(p))
  BY <1>1 DEF Accounted, Lost, Already, Credited, Listed
<1> QED
  BY <1>1, <1>2, <1>3 DEF Accounts

LEMMA AccountsStep == ASSUME Shape, Accounts, [Next]_vars PROVE Accounts'
<1>1. ASSUME NEW d \in Deposits, NEW lira \in Lira, Fund(d, lira) PROVE Accounts'
  BY <1>1, FundKinds, AccountsFrame DEF CreatesOnramp, tables, loops, ledger, ghosts
<1>2. ASSUME NEW slot \in 1..MaxRequests, NEW rate \in Rates, Priced(slot, rate)
      PROVE  Accounts'
  BY <1>2, PricedKinds, AccountsFrame DEF CreatesOnramp, tables, loops, ledger, ghosts
<1>3. CASE Requested
  <2>1. ASSUME NEW d \in Deposits, NEW q \in Buys \cup {None}, Deposit(d, q)
        PROVE  Accounts'
    BY <2>1, AccountsFrame DEF Deposit, loops, ledger, ghosts
  <2> QED
    BY <1>1, <1>3, <2>1, AccountsWithdraw DEF Requested
<1>4. CASE Settle
  <2>1. CASE SettleBegins
    BY <2>1, AccountsFrame DEF SettleBegins, tables, ledger, ghosts
  <2>2. CASE Considers \/ Submits \/ Polls
    <3>1. RowStep /\ UNCHANGED feed
      BY <2>2, ConsidersIsRowStep, SubmitsIsRowStep, PollsIsRowStep DEF Shape, ledger
    <3> QED
      BY <3>1, AccountsFrame DEF RowStep, OnlyOnramps
  <2> QED
    BY <1>4, <2>1, <2>2 DEF Settle
<1>5. CASE Call
  BY <1>5, AccountsFrame DEF Call, CallsBegin, Calls, Called, CallsEnd, tables, ledger, ghosts
<1>6. ASSUME NEW t \in DOMAIN chain, Include(t) PROVE Accounts'
  BY <1>6, AccountsFrame DEF Include, tables, loops, ghosts
<1>7. CASE UNCHANGED vars
  BY <1>7, AccountsFrame DEF vars, tables, loops, ledger, ghosts
<1> QED
  BY <1>2, <1>3, <1>4, <1>5, <1>6, <1>7, AccountsPay, AccountsWorld,
     AccountsWatchBegins, AccountsWatches, AccountsWatchEnds DEF Next, Watch

-----------------------------------------------------------------------------
\* The theorems about the ramps.

RampsInv == Shape /\ Sends /\ Consumers /\ Returns /\ Accounts

LEMMA RampsInvInit == Init => RampsInv
<1> SUFFICES ASSUME Init PROVE RampsInv
  OBVIOUS
<1>1. Shape /\ Sends
  BY ShapeInit, SendsInit
<1>2. DOMAIN onramps = {} /\ DOMAIN unmatched = {} /\ DOMAIN feed = {}
  BY DEF Init
<1>3. Consumers
  BY <1>2 DEF Init, Consumers
<1>4. Returns
  <2>1. GivenBack = {} /\ balance = 0
    BY <1>2 DEF Init, GivenBack
  <2>2. Total(Amounts, {}) = 0
    BY FS_EmptySet, TotalStep
  <2> QED
    BY <2>1, <2>2 DEF Returns
<1>5. Accounts
  BY <1>2 DEF Init, Accounts
<1> QED
  BY <1>1, <1>3, <1>4, <1>5 DEF RampsInv

LEMMA RampsInvStep == RampsInv /\ [Next]_vars => RampsInv'
<1> SUFFICES ASSUME RampsInv, [Next]_vars PROVE RampsInv'
  OBVIOUS
<1>1. Shape /\ Sends /\ Senders /\ Consumers /\ Returns /\ Accounts
  BY DEF RampsInv, Sends
<1> QED
  BY <1>1, ShapeStep, SendsStep, ConsumersStep, ReturnsStep, AccountsStep DEF RampsInv

\* Every reachable state of the ramps satisfies their invariant.
THEOREM RampsInvariant == Spec => []RampsInv
<1>1. Init => RampsInv
  BY RampsInvInit
<1>2. RampsInv /\ [Next]_vars => RampsInv'
  BY RampsInvStep
<1> QED
  BY <1>1, <1>2, PTL DEF Spec

\* Rows keep their types, and links between rows lead to rows that exist.
THEOREM RampsRowsKeepTypes == Spec => []RampsTypeOK
<1>1. RampsInv => RampsTypeOK
  <2> SUFFICES ASSUME Shape, Consumers PROVE RampsTypeOK
    BY DEF RampsInv
  <2>1. /\ deposits \in [Deposits -> DepositType \cup {None}]
        /\ withdrawals \in [Withdrawals -> WithdrawalType \cup {None}]
        /\ \A n \in DOMAIN onramps : onramps[n] \in OnrampType
    BY DEF Shape, Types
  <2>2. cursor \in 0..Len(feed)
    BY FeedIndex DEF Shape, Window, Types
  <2>3. \A q \in Quotes : consumed[q] # None =>
          \/ consumed[q][1] \in Deposits /\ onramps[consumed[q][2]].quote = q
          \/ consumed[q][1] \in Withdrawals /\ withdrawals[consumed[q][1]].quote = q
    BY DEF Consumers
  <2> QED
    BY <2>1, <2>2, <2>3 DEF RampsTypeOK, Shape, Rows
<1> QED
  BY <1>1, RampsInvariant, PTL

\* Attempts are repeated and lira given back without paying twice.
THEOREM RampsRetriesAreSafe == Spec => []RetriesAreSafe
<1>1. RampsInv => RetriesAreSafe
  <2> SUFFICES ASSUME Shape, Sends, Returns PROVE RetriesAreSafe
    BY DEF RampsInv
  <2>1. ASSUME NEW n \in DOMAIN onramps \ doubts
        PROVE  /\ Cardinality(Paid(n)) <= 1
               /\ onramps[n].status = "failed" => Paid(n) = {}
               /\ onramps[n].status = "completed" => Paid(n) = {onramps[n].hash}
    <3>1. ASSUME settler.pc = "poll"
          PROVE  chain[Len(chain)].onramp = Row /\ onramps[Row].status = "pending"
      <4>1. settler \in Working
        BY <3>1 DEF Shape, Types, Idle
      <4> QED
        BY <3>1, <4>1, AtRow DEF Shape, Sends
    <3>2. ASSUME NEW t \in Paid(n)
          PROVE  \/ settler.pc = "poll" /\ t = Len(chain) /\ n = Row
                 \/ onramps[n].status = "completed" /\ onramps[n].hash = t
      <4>1. t \in DOMAIN chain /\ chain[t].onramp = n /\ chain[t].status = "success"
        BY DEF Paid
      <4> QED
        BY <3>1, <4>1 DEF Sends
    <3>3. CASE onramps[n].status = "completed"
      <4>1. onramps[n].hash \in Paid(n)
        BY <3>3 DEF Sends, Paid
      <4>2. Paid(n) = {onramps[n].hash}
        BY <3>1, <3>2, <3>3, <4>1
      <4>3. Cardinality({onramps[n].hash}) = 1
        BY FS_Singleton
      <4> QED
        BY <3>3, <4>2, <4>3
    <3>4. CASE onramps[n].status # "completed"
      <4>1. \A t \in Paid(n) : t = Len(chain) /\ onramps[n].status = "pending"
        BY <3>1, <3>2, <3>4
      <4>2. CASE Paid(n) = {}
        BY <3>4, <4>2, FS_EmptySet
      <4>3. CASE Paid(n) # {}
        <5>1. Paid(n) = {Len(chain)} /\ onramps[n].status = "pending"
          BY <4>1, <4>3
        <5>2. Cardinality({Len(chain)}) = 1
          BY FS_Singleton
        <5> QED
          BY <5>1, <5>2
      <4> QED
        BY <4>2, <4>3
    <3> QED
      BY <3>3, <3>4
  <2>2. balance = FoldFunctionOnSet(+, 0, [n \in DOMAIN onramps |-> onramps[n].lira],
                                    {n \in DOMAIN onramps : onramps[n].status = "failed"})
    <3>1. PICK S : S = GivenBack
      OBVIOUS
    <3>2. PICK f : f = Amounts
      OBVIOUS
    <3>3. IsFiniteSet(S)
      BY <3>1, GivenBackFinite DEF Shape
    <3>4. MapThenFoldSet(+, 0, LAMBDA x : f[x], LAMBDA s : CHOOSE x \in s : TRUE, S)
            = Total(f, S)
      BY <3>3, FoldIsTotal
    <3>5. FoldFunctionOnSet(+, 0, f, S) = Total(f, S)
      BY <3>4 DEF FoldFunctionOnSet
    <3> QED
      BY <3>1, <3>2, <3>5 DEF Returns, GivenBack, Amounts
  <2> QED
    BY <2>1, <2>2 DEF RetriesAreSafe
<1> QED
  BY <1>1, RampsInvariant, PTL

\* The cursor passes no payment that is not accounted for, and none twice.
THEOREM RampsPaymentsCounted == Spec => []PaymentsCounted
<1>1. RampsInv => PaymentsCounted
  BY DEF RampsInv, Accounts, Accounted, PaymentsCounted
<1> QED
  BY <1>1, RampsInvariant, PTL

\* A firm quote prices one transaction, and what it promised is kept.
THEOREM RampsQuotesSingleUse == Spec => []QuotesSingleUse
<1>1. RampsInv => QuotesSingleUse
  <2> SUFFICES ASSUME Shape, Consumers PROVE QuotesSingleUse
    BY DEF RampsInv
  <2>1. \A n \in DOMAIN onramps : onramps[n].quote # None =>
          onramps[n].tokens >= Quote(onramps[n].quote).bought
    BY DEF Consumers
  <2>2. ASSUME NEW q \in Quotes
        PROVE  Cardinality({n \in DOMAIN onramps : onramps[n].quote = q})
                 + Cardinality({w \in Withdrawals : withdrawals[w] # None
                                                    /\ withdrawals[w].quote = q}) <= 1
    <3> DEFINE R == {n \in DOMAIN onramps : onramps[n].quote = q}
               W == {w \in Withdrawals : withdrawals[w] # None /\ withdrawals[w].quote = q}
    <3>1. q # None
      BY RampsAssumption
    <3>2. \A n \in R : consumed[q] = <<onramps[n].deposit, n>> /\ n # 0
      <4>1. \E m \in Nat : DOMAIN onramps = 1..m
        BY LenProperties DEF Shape, Types
      <4> QED
        BY <3>1, <4>1 DEF Consumers
    <3>3. \A w \in W : consumed[q] = <<w, 0>>
      BY <3>1 DEF Consumers
    <3>4. \A m, n \in R : m = n
      BY <3>2
    <3>5. \A v, w \in W : v = w
      BY <3>3
    <3>6. \A n \in R, w \in W : FALSE
      BY <3>2, <3>3
    <3> HIDE DEF R, W
    <3>7. Cardinality({}) = 0 /\ \A x : Cardinality({x}) = 1
      BY FS_EmptySet, FS_Singleton
    <3>8. CASE R = {}
      <4>1. W = {} \/ \E w \in W : W = {w}
        BY <3>5
      <4>2. Cardinality(R) = 0 /\ Cardinality(W) \in {0, 1}
        BY <3>7, <3>8, <4>1
      <4>3. Cardinality(R) + Cardinality(W) <= 1
        BY <4>2
      <4> QED
        BY <4>3 DEF R, W
    <3>9. CASE R # {}
      <4>1. W = {} /\ \E n \in R : R = {n}
        BY <3>4, <3>6, <3>9
      <4>2. Cardinality(R) = 1 /\ Cardinality(W) = 0
        BY <3>7, <4>1
      <4>3. Cardinality(R) + Cardinality(W) <= 1
        BY <4>2
      <4> QED
        BY <4>3 DEF R, W
    <3> QED
      BY <3>8, <3>9
  <2> QED
    BY <2>1, <2>2 DEF QuotesSingleUse
<1> QED
  BY <1>1, RampsInvariant, PTL

-----------------------------------------------------------------------------
\* The settling loop gets through.  Of a funded on-ramp's way to its end this is
\* the part without fairness: a pass over the rows has finitely many steps, each
\* of them is open, and a row ends once.

\* What is left of a pass: up to three steps for each row before it.
PassLeft(s) ==
    IF s = Idle THEN 0
    ELSE 3 * Len(s.todo) - (CASE s.pc = "row" -> 0
                              [] s.pc \in {"pay", "park"} -> 1
                              [] s.pc = "poll" -> 2)

PassBounded  == PassLeft(settler) \in 0..(3 * Len(onramps))
PassShortens == settler' # settler => settler = Idle \/ PassLeft(settler') < PassLeft(settler)

LEMMA PassCounted ==
  ASSUME Shape, settler # Idle
  PROVE  /\ settler \in Working /\ Len(settler.todo) \in 1..Len(onramps)
         /\ PassLeft(settler) \in 1..(3 * Len(onramps))
         /\ settler.pc = "row" => PassLeft(settler) = 3 * Len(settler.todo)
         /\ settler.pc \in {"pay", "park"} => PassLeft(settler) = 3 * Len(settler.todo) - 1
         /\ settler.pc = "poll" => PassLeft(settler) = 3 * Len(settler.todo) - 2
<1>1. settler \in Working /\ settler.todo \in Seq(Nat) /\ settler.todo # <<>>
  BY DEF Shape, Types, Queue, Working
<1>2. PICK s, S, T : /\ s = settler.todo
                     /\ S = 1..Len(s) /\ T = 1..Len(onramps)
  OBVIOUS
<1>3. Len(s) \in Nat \ {0} /\ Len(onramps) \in Nat /\ DOMAIN onramps = T
  BY <1>1, <1>2 DEF Shape, Types
<1>4. s \in Injection(S, T)
  <2>1. /\ \A i \in S : s[i] \in T
        /\ \A i, j \in S : i < j => s[i] < s[j]
    BY <1>2, <1>3 DEF Shape, Queue
  <2>2. s \in [S -> T]
    BY <1>1, <1>2, <2>1
  <2>3. \A i, j \in S : s[i] = s[j] => i = j
    <3> SUFFICES ASSUME NEW i \in S, NEW j \in S, s[i] = s[j], i # j PROVE FALSE
      OBVIOUS
    <3>1. i \in Nat /\ j \in Nat /\ s[i] \in Nat
      BY <1>2, <1>3, <2>1
    <3>2. i < j \/ j < i
      BY <3>1
    <3> QED
      BY <2>1, <3>1, <3>2
  <2> QED
    <3>1. /\ s \in [S -> T] /\ DOMAIN s = S
          /\ \A a, b \in DOMAIN s : s[a] = s[b] => a = b
      BY <2>2, <2>3
    <3>2. IsInjective(s)
      BY <3>1 DEF IsInjective
    <3> QED
      BY <3>1, <3>2 DEF Injection
<1>5. Cardinality(S) = Len(s) /\ Cardinality(T) = Len(onramps) /\ IsFiniteSet(T)
  <2>1. ASSUME NEW k \in Nat PROVE IsFiniteSet(1..k) /\ Cardinality(1..k) = k
    <3>1. IsFiniteSet(1..k)
      BY FS_Interval
    <3>2. Cardinality(1..k) = IF 1 > k THEN 0 ELSE k - 1 + 1
      BY FS_Interval
    <3> QED
      BY <3>1, <3>2
  <2> QED
    BY <1>2, <1>3, <2>1
<1>6. Len(s) <= Len(onramps)
  BY <1>4, <1>5, FS_Injection
<1>7. settler.pc \in {"row", "pay", "park", "poll"}
  BY <1>1 DEF Working
<1>8. /\ settler.pc = "row" => PassLeft(settler) = 3 * Len(s)
      /\ settler.pc \in {"pay", "park"} => PassLeft(settler) = 3 * Len(s) - 1
      /\ settler.pc = "poll" => PassLeft(settler) = 3 * Len(s) - 2
  BY <1>2, <1>3 DEF PassLeft
<1> QED
  BY <1>1, <1>2, <1>3, <1>6, <1>7, <1>8

LEMMA LeavingShortens ==
  ASSUME Shape, Shape', settler # Idle, Leaves
  PROVE  PassLeft(settler') < PassLeft(settler)
<1>1. /\ settler.todo \in Seq(Nat) /\ Len(settler.todo) \in Nat
      /\ PassLeft(settler) \in Nat /\ PassLeft(settler) > 0
      /\ PassLeft(settler) > 3 * (Len(settler.todo) - 1)
  BY PassCounted DEF Working
<1>2. CASE settler' = Idle
  BY <1>1, <1>2 DEF PassLeft
<1>3. CASE settler' # Idle
  <2>1. /\ settler'.pc = "row" /\ settler'.todo = Tail(settler.todo)
        /\ Len(settler.todo) > 1
    BY <1>3 DEF Leaves
  <2>2. Len(settler'.todo) = Len(settler.todo) - 1
    BY <1>1, <2>1
  <2>3. PassLeft(settler') = 3 * Len(settler'.todo)
    BY <1>3, <2>1 DEF PassLeft
  <2> QED
    BY <1>1, <2>2, <2>3
<1> QED
  BY <1>2, <1>3

LEMMA PassStep ==
  ASSUME Shape, Shape', [Next]_vars, settler' # settler, settler # Idle
  PROVE  PassLeft(settler') < PassLeft(settler)
<1>1. settler \in Working /\ Types /\ Rows /\ Queue
  BY PassCounted DEF Shape
<1>2. ASSUME Stays,
             \/ settler.pc = "row" /\ settler'.pc \in {"pay", "park"}
             \/ settler.pc \in {"pay", "park"} /\ settler'.pc = "poll"
      PROVE  PassLeft(settler') < PassLeft(settler)
  <2>1. settler' \in Working /\ settler' # Idle /\ Len(settler'.todo) = Len(settler.todo)
    BY <1>2, IdleIsNotBusy DEF Stays
  <2>2. /\ Len(settler.todo) \in Nat
        /\ settler.pc = "row" => PassLeft(settler) = 3 * Len(settler.todo)
        /\ settler.pc \in {"pay", "park"} => PassLeft(settler) = 3 * Len(settler.todo) - 1
    BY PassCounted
  <2>3. /\ settler'.pc \in {"pay", "park"} => PassLeft(settler') = 3 * Len(settler'.todo) - 1
        /\ settler'.pc = "poll" => PassLeft(settler') = 3 * Len(settler'.todo) - 2
    BY <2>1, <2>2 DEF PassLeft
  <2> QED
    BY <1>2, <2>1, <2>2, <2>3
<1>3. CASE Considers
  <2>1. CASE Leaves
    BY <2>1, LeavingShortens
  <2>2. CASE ~Leaves
    <3>1. RowStep /\ settler.pc = "row"
      BY <1>1, <1>3, ConsidersIsRowStep
    <3>2. settler' = [settler EXCEPT !.pc = IF trust THEN "pay" ELSE "park"]
      BY <1>1, <1>3, <2>2, RowLeft DEF Considers, Waits, Fails
    <3>3. settler'.pc \in {"pay", "park"}
      BY <1>1, <3>2 DEF Working
    <3> QED
      BY <1>2, <2>2, <3>1, <3>3 DEF RowStep
  <2> QED
    BY <2>1, <2>2
<1>4. CASE Submits
  BY <1>1, <1>2, <1>4, SubmitsIsRowStep, LeavingShortens
<1>5. CASE Polls
  BY <1>1, <1>5, PollsIsRowStep, LeavingShortens
<1>6. ~SettleBegins
  BY <1>1 DEF SettleBegins, Working
<1>7. CASE World
  <2>1. PassLeft(settler') = 0
    BY <1>7 DEF World, loops, PassLeft
  <2>2. PassLeft(settler) \in Nat \ {0}
    <3>1. Len(onramps) \in Nat
      BY <1>1 DEF Types
    <3> QED
      BY <3>1, PassCounted
  <2> QED
    BY <2>1, <2>2
<1>8. ASSUME Watch \/ Call PROVE FALSE
  BY <1>8 DEF Watch, WatchBegins, Watches, WatchEnds, Call, CallsBegin, Calls,
              Called, CallsEnd
<1>9. ASSUME Requested \/ \E slot \in 1..MaxRequests, rate \in Rates : Priced(slot, rate)
      PROVE  FALSE
  BY <1>9 DEF Requested, Deposit, Fund, Withdraw, Priced, loops
<1>10. ASSUME \/ \E t \in DOMAIN chain : Include(t)
              \/ \E memo \in Withdrawals \cup {None}, amount \in Tokens,
                    same \in BOOLEAN : Pay(memo, amount, same)
       PROVE  FALSE
  BY <1>10 DEF Include, Pay, loops
<1>11. ~UNCHANGED vars
  BY DEF vars, loops
<1> QED
  BY <1>3, <1>4, <1>5, <1>6, <1>7, <1>8, <1>9, <1>10, <1>11 DEF Next, Settle

\* A pass has at most three steps per on-ramp, however many rows come in while
\* it runs: whatever its step, or a restart, brings it nearer its end.
THEOREM RampsPassesEnd == Spec => []PassBounded /\ [][PassShortens]_vars
<1>1. RampsInv => PassBounded
  <2> SUFFICES ASSUME Shape PROVE PassBounded
    BY DEF RampsInv
  <2>1. Len(onramps) \in Nat
    BY DEF Shape, Types
  <2>2. CASE settler = Idle
    BY <2>1, <2>2 DEF PassBounded, PassLeft
  <2>3. CASE settler # Idle
    BY <2>1, <2>3, PassCounted DEF PassBounded
  <2> QED
    BY <2>2, <2>3
<1>2. RampsInv /\ RampsInv' /\ [Next]_vars => [PassShortens]_vars
  BY PassStep DEF RampsInv, PassShortens
<1> QED
  BY <1>1, <1>2, RampsInvariant, PTL DEF Spec

\* A pass never waits for what cannot come.  The row at hand is still to be
\* settled, and the transaction polled for is decided or is the next that the
\* network may include: no number before it was left unused.
PassGoesOn ==
    settler # Idle =>
        /\ onramps[Row].status = "pending"
        /\ settler.pc = "poll" =>
              LET t == Len(chain) IN
              /\ t \in DOMAIN chain /\ chain[t].onramp = Row
              /\ \/ chain[t].status \in {"success", "failed", "dead"}
                 \/ chain[t].status = "sent" /\ chain[t].seq = sequence

THEOREM RampsNeverWait == Spec => []PassGoesOn
<1>1. RampsInv => PassGoesOn
  <2> SUFFICES ASSUME Shape, Sends, settler # Idle
               PROVE  /\ onramps[Row].status = "pending"
                      /\ settler.pc = "poll" =>
                           LET t == Len(chain) IN
                           /\ t \in DOMAIN chain /\ chain[t].onramp = Row
                           /\ \/ chain[t].status \in {"success", "failed", "dead"}
                              \/ chain[t].status = "sent" /\ chain[t].seq = sequence
    BY DEF RampsInv, PassGoesOn
  <2>1. onramps[Row].status = "pending"
    BY AtRow, PassCounted DEF Shape
  <2>2. ASSUME settler.pc = "poll", NEW t, t = Len(chain)
        PROVE  /\ t \in DOMAIN chain /\ chain[t].onramp = Row
               /\ \/ chain[t].status \in {"success", "failed", "dead"}
                  \/ chain[t].status = "sent" /\ chain[t].seq = sequence
    <3>1. t \in DOMAIN chain /\ chain[t].onramp = Row
      BY <2>2 DEF Sends
    <3>2. chain[t] \in Sending
      BY <3>1 DEF Shape, Types
    <3> QED
      BY <3>1, <3>2 DEF Sends, Sending
  <2> QED
    BY <2>1, <2>2
<1> QED
  BY <1>1, RampsInvariant, PTL

\* An on-ramp is for one deposit and one amount, forgets no attempt, and once
\* it was paid or given back nothing changes it any more.
RowsForward ==
    \A n \in DOMAIN onramps :
        /\ n \in DOMAIN onramps'
        /\ Kept(onramps'[n], onramps[n])
        /\ onramps[n].status # "pending" => onramps'[n] = onramps[n]

LEMMA RowsStepForward == ASSUME Shape, [Next]_vars PROVE RowsForward
<1>1. ASSUME \A n \in DOMAIN onramps : n \in DOMAIN onramps' /\ onramps'[n] = onramps[n]
      PROVE  RowsForward
  BY <1>1 DEF RowsForward, Kept
<1>2. CASE Considers \/ Submits \/ Polls
  <2>1. Types /\ Rows /\ Queue
    BY DEF Shape
  <2>2. RowStep
    <3>1. CASE Considers
      BY <2>1, <3>1, ConsidersIsRowStep
    <3>2. CASE Submits
      BY <2>1, <3>2, SubmitsIsRowStep
    <3>3. CASE Polls
      BY <2>1, <3>3, PollsIsRowStep
    <3> QED
      BY <1>2, <3>1, <3>2, <3>3
  <2>3. settler \in Working
    BY <2>2 DEF RowStep
  <2>4. onramps[Row].status = "pending"
    BY <2>1, <2>3, AtRow
  <2>5. /\ Row \in DOMAIN onramps /\ DOMAIN onramps' = DOMAIN onramps
        /\ \A n \in DOMAIN onramps : n # Row => onramps'[n] = onramps[n]
        /\ Kept(onramps'[Row], onramps[Row])
    BY <2>1, <2>2, RowStepChange
  <2> QED
    BY <2>4, <2>5 DEF RowsForward, Kept
<1>3. ASSUME NEW d \in Deposits, NEW lira \in Lira, NEW rate \in Nat \ {0},
             NEW q \in Buys \cup {None}, TryToUsdc(lira, rate) > 0,
             CreatesOnramp(d, lira, rate, q)
      PROVE  RowsForward
  <2>1. PICK k : k = Len(onramps) + 1
    OBVIOUS
  <2>2. Types
    BY DEF Shape
  <2>3. /\ DOMAIN onramps' = DOMAIN onramps \cup {Len(onramps) + 1}
        /\ \A n \in DOMAIN onramps : onramps'[n] = onramps[n]
    BY <1>3, <2>2, NewRowChange
  <2>4. \A n \in DOMAIN onramps : n \in DOMAIN onramps' /\ onramps'[n] = onramps[n]
    BY <2>1, <2>3
  <2> QED
    BY <1>1, <2>4
<1>4. ASSUME UNCHANGED onramps PROVE RowsForward
  BY <1>1, <1>4
<1>5. ASSUME NEW d \in Deposits, NEW lira \in Lira, Fund(d, lira) PROVE RowsForward
  <2>1. CASE UNCHANGED tables
    BY <1>4, <2>1 DEF tables
  <2>2. CASE ~UNCHANGED tables
    <3>1. PICK q \in Buys : /\ QuoteRate(q) \in Nat \ {0}
                           /\ TryToUsdc(lira, QuoteRate(q)) > 0
                           /\ CreatesOnramp(d, lira, QuoteRate(q), q)
      BY <1>5, <2>2, FundKinds
    <3> QED
      BY <1>3, <3>1
  <2> QED
    BY <2>1, <2>2
<1>6. ASSUME NEW slot \in 1..MaxRequests, NEW rate \in Rates, Priced(slot, rate)
      PROVE  RowsForward
  <2>1. CASE UNCHANGED tables
    BY <1>4, <2>1 DEF tables
  <2>2. CASE ~UNCHANGED tables
    <3>1. PICK d \in Deposits, lira \in Lira :
             /\ rate \in Nat \ {0} /\ TryToUsdc(lira, rate) > 0
             /\ CreatesOnramp(d, lira, rate, None)
      BY <1>6, <2>2, PricedKinds
    <3> QED
      BY <1>3, <3>1
  <2> QED
    BY <2>1, <2>2
<1>7. CASE Requested
  <2>1. ASSUME NEW d \in Deposits, NEW q \in Buys \cup {None}, Deposit(d, q)
        PROVE  RowsForward
    BY <1>4, <2>1 DEF Deposit
  <2>2. ASSUME NEW w \in Withdrawals, NEW q \in Sells \cup {None}, NEW rate \in Rates,
               Withdraw(w, q, rate)
        PROVE  RowsForward
    BY <1>4, <2>2 DEF Withdraw
  <2> QED
    BY <1>5, <1>7, <2>1, <2>2 DEF Requested
<1>8. CASE SettleBegins \/ Watch \/ Call \/ World \/ UNCHANGED vars
  <2>1. UNCHANGED onramps
    BY <1>8 DEF SettleBegins, Watch, WatchBegins, Watches, WatchEnds, Call, CallsBegin,
                Calls, Called, CallsEnd, World, tables, vars
  <2> QED
    BY <1>4, <2>1
<1>9. ASSUME NEW t \in DOMAIN chain, Include(t) PROVE RowsForward
  BY <1>4, <1>9 DEF Include, tables
<1>10. ASSUME NEW memo \in Withdrawals \cup {None}, NEW amount \in Tokens,
              NEW same \in BOOLEAN, Pay(memo, amount, same)
       PROVE  RowsForward
  BY <1>4, <1>10 DEF Pay, tables
<1> QED
  BY <1>2, <1>6, <1>7, <1>8, <1>9, <1>10 DEF Next, Settle

THEOREM RampsRowsForward == Spec => [][RowsForward]_vars
<1>1. RampsInv /\ [Next]_vars => [RowsForward]_vars
  BY RowsStepForward DEF RampsInv
<1> QED
  BY <1>1, RampsInvariant, PTL DEF Spec

=============================================================================
