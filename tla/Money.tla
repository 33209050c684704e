------------------------------- MODULE Money -------------------------------
(***************************************************************************)
(* The fixed-point conversions of src/money.ts between kurus (lira, two    *)
(* decimals) and stroops (tokens, seven), at a rate of micro-lira for a    *)
(* token.  `Scale` is 10^(7 - 2 + 6) there; bigints do not overflow.       *)
(***************************************************************************)
EXTENDS Integers

CONSTANT Scale

ASSUME ScaleAssumption == Scale \in Nat \ {0}

CeilDiv(a, b) == (a + b - 1) \div b

\* What a customer gets for what is sold, rounded down ...
TryToUsdc(kurus, rate)   == (kurus * Scale) \div rate
UsdcToTry(stroops, rate) == (stroops * rate) \div Scale

\* ... and what a customer sells for what is wanted, rounded up.
TryToUsdcCeil(kurus, rate)   == CeilDiv(kurus * Scale, rate)
UsdcToTryCeil(stroops, rate) == CeilDiv(stroops * rate, Scale)

\* The anchor's rate on either side of the market's.
ApplySpread(mid, bps, side) ==
    (mid * (IF side = "buy" THEN 10000 + bps ELSE 10000 - bps)) \div 10000

\* createSepQuote: the customer names one amount of the two exactly.
FirmQuote(side, exact, amount, rate) ==
    CASE exact = "sell" /\ side = "buy" ->
            [sold |-> amount, bought |-> TryToUsdc(amount, rate)]
      [] exact = "buy" /\ side = "buy" ->
            [sold |-> UsdcToTryCeil(amount, rate), bought |-> amount]
      [] exact = "sell" /\ side = "sell" ->
            [sold |-> amount, bought |-> UsdcToTry(amount, rate)]
      [] exact = "buy" /\ side = "sell" ->
            [sold |-> TryToUsdcCeil(amount, rate), bought |-> amount]

=============================================================================
