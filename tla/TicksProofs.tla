----------------------------- MODULE TicksProofs ------------------------------
(***************************************************************************)
(* The ticks and the canary's price, for every price.                       *)
(***************************************************************************)
EXTENDS Ticks, TLAPS

Aligned(price) == price % GetTickSizeKR(price) = 0

TickSizes == {1, 5, 10, 50, 100, 500, 1000}

\* Up returns the nearest multiple of the tick that is not below.
LEMMA UpIsNearest ==
  ASSUME NEW n \in Nat, NEW unit \in {1, 10}, NEW tick \in TickSizes
  PROVE  LET up == Up(n, unit, tick)
         IN /\ up \in Nat /\ up % tick = 0
            /\ n =< unit * up /\ unit * up < n + unit * tick
<1>1. CASE unit = 1 /\ tick = 1
  BY <1>1 DEF Up
<1>2. CASE unit = 1 /\ tick = 5
  BY <1>2 DEF Up
<1>3. CASE unit = 1 /\ tick = 10
  BY <1>3 DEF Up
<1>4. CASE unit = 1 /\ tick = 50
  BY <1>4 DEF Up
<1>5. CASE unit = 1 /\ tick = 100
  BY <1>5 DEF Up
<1>6. CASE unit = 1 /\ tick = 500
  BY <1>6 DEF Up
<1>7. CASE unit = 1 /\ tick = 1000
  BY <1>7 DEF Up
<1>8. CASE unit = 10 /\ tick = 1
  BY <1>8 DEF Up
<1>9. CASE unit = 10 /\ tick = 5
  BY <1>9 DEF Up
<1>10. CASE unit = 10 /\ tick = 10
  BY <1>10 DEF Up
<1>11. CASE unit = 10 /\ tick = 50
  BY <1>11 DEF Up
<1>12. CASE unit = 10 /\ tick = 100
  BY <1>12 DEF Up
<1>13. CASE unit = 10 /\ tick = 500
  BY <1>13 DEF Up
<1>14. CASE unit = 10 /\ tick = 1000
  BY <1>14 DEF Up
<1> QED
  BY <1>1, <1>2, <1>3, <1>4, <1>5, <1>6, <1>7, <1>8, <1>9, <1>10, <1>11, <1>12, <1>13, <1>14 DEF TickSizes

\* The same, of a price that is not scaled.
LEMMA RoundUpIsNearest ==
  ASSUME NEW n \in Nat, NEW tick \in TickSizes
  PROVE  LET up == Up(n, 1, tick)
         IN up \in Nat /\ up % tick = 0 /\ n =< up /\ up < n + tick
<1>1. 1 \in {1, 10} /\ tick \in Nat
  BY DEF TickSizes
<1>2. LET up == Up(n, 1, tick)
      IN up \in Nat /\ up % tick = 0 /\ n =< 1 * up /\ 1 * up < n + 1 * tick
  BY <1>1, UpIsNearest
<1> QED
  BY <1>1, <1>2

\* Down returns the nearest multiple of the tick that is not above.
LEMMA DownIsNearest ==
  ASSUME NEW n \in Nat, NEW tick \in TickSizes
  PROVE  LET down == Down(n, tick)
         IN down \in Nat /\ down % tick = 0 /\ down =< n /\ n < down + tick
<1>1. CASE tick = 1
  BY <1>1 DEF Down
<1>2. CASE tick = 5
  BY <1>2 DEF Down
<1>3. CASE tick = 10
  BY <1>3 DEF Down
<1>4. CASE tick = 50
  BY <1>4 DEF Down
<1>5. CASE tick = 100
  BY <1>5 DEF Down
<1>6. CASE tick = 500
  BY <1>6 DEF Down
<1>7. CASE tick = 1000
  BY <1>7 DEF Down
<1> QED
  BY <1>1, <1>2, <1>3, <1>4, <1>5, <1>6, <1>7 DEF TickSizes

\* Every tick is one of seven, and grows with the price.
LEMMA TickSize ==
  ASSUME NEW p \in Prices, NEW r \in Prices
  PROVE  /\ GetTickSizeKR(p) \in TickSizes
         /\ p =< r => GetTickSizeKR(p) =< GetTickSizeKR(r)
BY DEF GetTickSizeKR, TickSizes, Prices

\* A multiple of p's tick less than a tick away from p is a multiple of its own
\* tick, because the limits of the bands are multiples of both their ticks.
LEMMA NearbyIsAligned ==
  ASSUME NEW p \in Prices, NEW r \in Prices, r % GetTickSizeKR(p) = 0,
         r < p + GetTickSizeKR(p), p < r + GetTickSizeKR(p)
  PROVE  Aligned(r)
<1>1. CASE p < 2000
  <2>1. GetTickSizeKR(p) = 1
    BY <1>1 DEF GetTickSizeKR, Prices
  <2>2. r % 1 = 0 /\ r >= 1 /\ r =< 2000
    BY <1>1, <2>1 DEF Prices
  <2> QED
    BY <2>2 DEF Aligned, GetTickSizeKR, Prices
<1>2. CASE p >= 2000 /\ p < 5000
  <2>1. GetTickSizeKR(p) = 5
    BY <1>2 DEF GetTickSizeKR, Prices
  <2>2. r % 5 = 0 /\ r >= 2000 /\ r =< 5000
    BY <1>2, <2>1 DEF Prices
  <2> QED
    BY <2>2 DEF Aligned, GetTickSizeKR, Prices
<1>3. CASE p >= 5000 /\ p < 20000
  <2>1. GetTickSizeKR(p) = 10
    BY <1>3 DEF GetTickSizeKR, Prices
  <2>2. r % 10 = 0 /\ r >= 5000 /\ r =< 20000
    BY <1>3, <2>1 DEF Prices
  <2> QED
    BY <2>2 DEF Aligned, GetTickSizeKR, Prices
<1>4. CASE p >= 20000 /\ p < 50000
  <2>1. GetTickSizeKR(p) = 50
    BY <1>4 DEF GetTickSizeKR, Prices
  <2>2. r % 50 = 0 /\ r >= 20000 /\ r =< 50000
    BY <1>4, <2>1 DEF Prices
  <2> QED
    BY <2>2 DEF Aligned, GetTickSizeKR, Prices
<1>5. CASE p >= 50000 /\ p < 200000
  <2>1. GetTickSizeKR(p) = 100
    BY <1>5 DEF GetTickSizeKR, Prices
  <2>2. r % 100 = 0 /\ r >= 50000 /\ r =< 200000
    BY <1>5, <2>1 DEF Prices
  <2> QED
    BY <2>2 DEF Aligned, GetTickSizeKR, Prices
<1>6. CASE p >= 200000 /\ p < 500000
  <2>1. GetTickSizeKR(p) = 500
    BY <1>6 DEF GetTickSizeKR, Prices
  <2>2. r % 500 = 0 /\ r >= 200000 /\ r =< 500000
    BY <1>6, <2>1 DEF Prices
  <2> QED
    BY <2>2 DEF Aligned, GetTickSizeKR, Prices
<1>7. CASE p >= 500000
  <2>1. GetTickSizeKR(p) = 1000
    BY <1>7 DEF GetTickSizeKR, Prices
  <2>2. r % 1000 = 0 /\ r >= 500000
    BY <1>7, <2>1 DEF Prices
  <2> QED
    BY <2>2 DEF Aligned, GetTickSizeKR, Prices
<1> QED
  BY <1>1, <1>2, <1>3, <1>4, <1>5, <1>6, <1>7 DEF Prices

-----------------------------------------------------------------------------

\* The edge accepts a price exactly if it is a multiple of its own tick, on
\* either side (TickMatchesKR).
THEOREM MatchIsAlignment ==
  ASSUME NEW price \in Prices, NEW side \in Sides
  PROVE  TickMatchesKR(price, side) <=> Aligned(price)
BY DEF TickMatchesKR, AdjustTickSizeKR, Aligned, GetTickSizeKR, Up, Down, Prices, Sides

\* What the check would adjust a price to passes the check itself, also where
\* rounding up crosses into a band with another tick, and is less than a tick away.
THEOREM AdjustedMatches ==
  ASSUME NEW price \in Prices, NEW side \in Sides
  PROVE  LET adjusted == AdjustTickSizeKR(price, side)
         IN /\ TickMatchesKR(adjusted, side)
            /\ adjusted < price + GetTickSizeKR(price)
            /\ price < adjusted + GetTickSizeKR(price)
<1> DEFINE tick == GetTickSizeKR(price)
           rounded == IF side = "sell" THEN Up(price, 1, tick) ELSE Down(price, tick)
<1>1. tick \in TickSizes /\ (price < tick => tick = 1)
  BY DEF GetTickSizeKR, TickSizes, Prices
<1>a. price \in Nat /\ tick \in Nat \ {0}
  BY <1>1 DEF Prices, TickSizes
<1> HIDE DEF tick
<1>2. /\ rounded \in Nat /\ rounded % tick = 0
      /\ rounded < price + tick /\ price < rounded + tick
  <2>1. CASE side = "sell"
    <3>1. rounded = Up(price, 1, tick)
      BY <2>1
    <3>2. /\ Up(price, 1, tick) \in Nat /\ Up(price, 1, tick) % tick = 0
          /\ price =< Up(price, 1, tick) /\ Up(price, 1, tick) < price + tick
      BY <1>1, <1>a, RoundUpIsNearest
    <3> HIDE DEF rounded
    <3> QED
      BY <1>a, <3>1, <3>2
  <2>2. CASE side # "sell"
    <3>1. rounded = Down(price, tick)
      BY <2>2
    <3>2. /\ Down(price, tick) \in Nat /\ Down(price, tick) % tick = 0
          /\ Down(price, tick) =< price /\ price < Down(price, tick) + tick
      BY <1>1, <1>a, DownIsNearest
    <3> HIDE DEF rounded
    <3> QED
      BY <1>a, <3>1, <3>2
  <2> QED
    BY <2>1, <2>2
<1>3. rounded # 0
  <2> HIDE DEF rounded
  <2> SUFFICES ASSUME rounded = 0 PROVE FALSE
    OBVIOUS
  <2> QED
    BY <1>1, <1>2, <1>a DEF Prices
<1>4. AdjustTickSizeKR(price, side) = rounded
  BY <1>3 DEF AdjustTickSizeKR, tick
<1> HIDE DEF rounded
<1>5. Aligned(rounded) /\ rounded \in Prices
  BY <1>2, <1>3, NearbyIsAligned DEF Prices, tick
<1> QED
  BY <1>2, <1>4, <1>5, MatchIsAlignment DEF tick

\* The exchange's limit, rounded up, is a price the edge's tick check accepts, at
\* or above the limit and less than a tick above it (roundUpToTickKR).
THEOREM LimitIsAccepted ==
  ASSUME NEW lower \in Prices
  PROVE  LET price == RoundUpToTickKR(lower)
         IN /\ price \in Prices /\ TickMatchesKR(price, "buy")
            /\ lower =< price /\ price < lower + GetTickSizeKR(lower)
<1> DEFINE tick == GetTickSizeKR(lower)
           price == Up(lower, 1, tick)
<1>1. tick \in TickSizes
  BY TickSize
<1>2. price \in Nat /\ price % tick = 0 /\ lower =< price /\ price < lower + tick
  BY <1>1, RoundUpIsNearest DEF Prices
<1> HIDE DEF price, tick
<1>3. price \in Prices /\ Aligned(price)
  BY <1>1, <1>2, NearbyIsAligned DEF Prices, TickSizes, tick
<1> QED
  BY <1>2, <1>3, MatchIsAlignment DEF RoundUpToTickKR, Sides, price, tick

\* The band floor is accepted, at or above 0.7 of the base and less than a tick
\* above it (bandFloorKR).
THEOREM FloorIsAccepted ==
  ASSUME NEW base \in Prices
  PROVE  LET price == BandFloorKR(base)
         IN /\ price \in Prices /\ TickMatchesKR(price, "buy")
            /\ 7 * base =< 10 * price
            /\ 10 * price < 7 * base + 10 * GetTickSizeKR(price)
<1> DEFINE ceiling == Up(base * 7, 10, 1)
           tick == GetTickSizeKR(ceiling)
           price == Up(base * 7, 10, tick)
<1>1. ceiling \in Prices /\ 7 * base =< 10 * ceiling /\ 10 * ceiling < 7 * base + 10
  BY UpIsNearest DEF Prices, TickSizes
<1> HIDE DEF ceiling
<1>2. tick \in TickSizes
  BY <1>1, TickSize
<1> HIDE DEF tick
<1>3. /\ price \in Nat /\ price % tick = 0
      /\ 7 * base =< 10 * price /\ 10 * price < 7 * base + 10 * tick
  BY <1>2, UpIsNearest DEF Prices
<1> HIDE DEF price
<1>4. price \in Prices /\ ceiling =< price /\ price < ceiling + tick
  BY <1>1, <1>2, <1>3 DEF Prices, TickSizes
<1>5. Aligned(price)
  BY <1>1, <1>2, <1>3, <1>4, NearbyIsAligned DEF tick, Prices, TickSizes
<1>6. tick =< GetTickSizeKR(price) /\ GetTickSizeKR(price) \in TickSizes
  BY <1>1, <1>4, TickSize DEF tick
<1>7. BandFloorKR(base) = price
  BY DEF BandFloorKR, price, tick, ceiling
<1>8. TickMatchesKR(price, "buy")
  BY <1>4, <1>5, MatchIsAlignment DEF Sides
<1>9. 10 * price < 7 * base + 10 * GetTickSizeKR(price)
  BY <1>2, <1>3, <1>4, <1>6 DEF TickSizes, Prices
<1> QED
  BY <1>3, <1>4, <1>7, <1>8, <1>9
=============================================================================
