-------------------------------- MODULE Ticks ---------------------------------
(***************************************************************************)
(* Prices of the Korean exchange: the tick of a price, the edge's check of  *)
(* a limit price against it (a verdict, never a correction), and the price  *)
(* that edge-canary derives from a daily band.                              *)
(***************************************************************************)
EXTENDS Integers

Sides == {"buy", "sell"}
Prices == Nat \ {0}

GetTickSizeKR(price) ==
  CASE price < 2000 -> 1
    [] price >= 2000 /\ price < 5000 -> 5
    [] price >= 5000 /\ price < 20000 -> 10
    [] price >= 20000 /\ price < 50000 -> 50
    [] price >= 50000 /\ price < 200000 -> 100
    [] price >= 200000 /\ price < 500000 -> 500
    [] OTHER -> 1000

\* The multiple of tick at or below, and the one at or above n \div unit.
Down(n, tick) == (n \div tick) * tick
Up(n, unit, tick) ==
  LET step == unit * tick IN ((n \div step) + (IF n % step = 0 THEN 0 ELSE 1)) * tick

\* A sale is moved up, a purchase down, and never to zero.
AdjustTickSizeKR(price, side) ==
  LET tick == GetTickSizeKR(price)
      adjusted == IF side = "sell" THEN Up(price, 1, tick) ELSE Down(price, tick)
  IN IF adjusted = 0 THEN 1 ELSE adjusted

TickMatchesKR(price, side) == AdjustTickSizeKR(price, side) = price

-----------------------------------------------------------------------------
(* The canary's price. *)

\* A mutant of RoundUpToTickKR: the exchange's limit is taken as it is.
VerbatimLimit(price) == price

RoundUpToTickKR(price) == Up(price, 1, GetTickSizeKR(price))

\* 0.7 * base is kept in tenths; the tick is that of the rounded-up price.
BandFloorKR(base) ==
  LET scaled == base * 7
  IN Up(scaled, 10, GetTickSizeKR(Up(scaled, 10, 1)))

\* A band without a usable field gives no price.
NoPrice == 0
DeriveKRPrice(band) ==
  CASE band.lower > 0 -> RoundUpToTickKR(band.lower)
    [] band.lower = 0 /\ band.base > 0 -> BandFloorKR(band.base)
    [] OTHER -> NoPrice
=============================================================================
