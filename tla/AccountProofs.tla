--------------------------- MODULE AccountProofs ---------------------------
(***************************************************************************)
(* Proofs about the accounts: the pilot, for any envelopes, quotes, pair   *)
(* rules and fees, any number of positions and locks and any length of     *)
(* time; and the reader of the Kraken account, for any callers, modes,     *)
(* requests, answers and environments, any readings of the wall clock, any *)
(* limit of the nonce and any number of crashes.                           *)
(***************************************************************************)
EXTENDS Pilot, PrivateReader, SumTheorems, SequenceTheorems

-----------------------------------------------------------------------------
(* The pilot: rounding and sizing.                                          *)

\* What integer division returns.
LEMMA DivFacts ==
    ASSUME NEW a \in Int, NEW d \in Nat \ {0}
    PROVE  /\ a \div d \in Int
           /\ d * (a \div d) <= a
           /\ a < d * (a \div d) + d
OBVIOUS

\* Rounding up gives at least the fraction.
LEMMA CentsUp ==
    ASSUME NEW n \in Int, NEW d \in Nat \ {0}
    PROVE  /\ cents_up(n, d) \in Int
           /\ n <= d * cents_up(n, d)
<1>1. n + d - 1 \in Int
  OBVIOUS
<1>2. PICK q \in Int : q = cents_up(n, d) /\ n + d - 1 < d * q + d
  BY <1>1, DivFacts DEF cents_up
<1>3. d * q \in Int
  OBVIOUS
<1> QED
  BY <1>2, <1>3

\* Rounding to the nearest is off by half a cent at most.
LEMMA Cents ==
    ASSUME NEW n \in Int, NEW d \in Nat \ {0}
    PROVE  /\ cents(n, d) \in Int
           /\ 2 * n - d <= 2 * (d * cents(n, d))
           /\ 2 * (d * cents(n, d)) <= 2 * n + d
<1>1. PICK q \in Int : q = n \div d /\ d * q <= n /\ n < d * q + d
  BY DivFacts
<1>2. PICK m \in Int : m = d * q
  OBVIOUS
<1>3. q * d = m
  BY <1>2
<1>4. d * (q + 1) = m + d
  BY <1>2
<1>5. cents(n, d) = IF 2 * (n - m) > d \/ (2 * (n - m) = d /\ q % 2 = 1) THEN q + 1 ELSE q
  BY <1>1, <1>3 DEF cents
<1>6. CASE cents(n, d) = q + 1 /\ 2 * (n - m) >= d
  BY <1>6, <1>1, <1>2, <1>4
<1>7. CASE cents(n, d) = q /\ 2 * (n - m) <= d
  BY <1>7, <1>1, <1>2
<1> QED
  BY <1>5, <1>6, <1>7, <1>2

\* The planned loss of a quantity, as final_costs records it.
Planned(q, ask, stop) == final_costs(q, ask, stop, Fee).planned_lossBps

\* The planned loss, with its two fees written out.
LEMMA PlannedIs ==
    ASSUME NEW q, NEW ask, NEW stop
    PROVE  Planned(q, ask, stop) =
             q * StressLoss(ask, stop) * (BPS \div StressDen)
               + (cents_up(q * ask * Fee, PriceUnits * BPS)
                    + cents_up(q * stop * StressNum * Fee, StressDen * PriceUnits * BPS)) * PriceUnits * BPS
BY DEF Planned, final_costs

\* The inequalities of a settlement, with every product a number of its own.
LEMMA SettleArith ==
    ASSUME NEW N \in Int, NEW X \in Int, NEW S \in Int, NEW P \in Int,
           NEW G \in Int, NEW C \in Int, NEW A \in Int, NEW D \in Int, NEW E \in Int,
           NEW XF \in Int, NEW SF \in Int,
           2 * X - 2 * N - P <= 2 * G, C <= A, 2 * D <= 2 * XF + P * 10000, 199 * SF <= 200 * E,
           200 * 10000 * X - 200 * XF - 199 * 10000 * S + 199 * SF >= 0
    PROVE  10000 * G - C - D >= -(10000 * N - 9950 * S + A + E) - P * 10000
OBVIOUS

\* A fee rounded to the nearest is at most the one rounded up.
LEMMA NotAboveUp ==
    ASSUME NEW n \in Int, NEW d \in Nat \ {0}
    PROVE  d * cents(n, d) <= d * cents_up(n, d)
<1>1. PICK e \in Int : e = cents(n, d)
  BY Cents
<1>2. PICK u \in Int : u = cents_up(n, d)
  BY CentsUp
<1>3. 2 * (d * e) <= 2 * (d * u) + d
  <2>1. 2 * (d * e) <= 2 * n + d
    BY <1>1, Cents
  <2>2. n <= d * u
    BY <1>2, CentsUp
  <2>3. d * e \in Int /\ d * u \in Int
    OBVIOUS
  <2> QED
    BY <2>1, <2>2, <2>3
<1>4. e <= u
  <2> SUFFICES ASSUME e >= u + 1
               PROVE  FALSE
    OBVIOUS
  <2>1. d * e >= d * (u + 1)
    OBVIOUS
  <2>2. d * (u + 1) = d * u + d
    OBVIOUS
  <2>3. d * e \in Int /\ d * u \in Int
    OBVIOUS
  <2> QED
    BY <1>3, <2>1, <2>2, <2>3
<1>5. d * e <= d * u
  BY <1>4
<1> QED
  BY <1>1, <1>2, <1>5

\* settle_long at a bid that is no gap loses at most the planned loss and a cent,
\* although the plan rounds its fees up and the settlement each amount alone.
LEMMA SettleBound ==
    ASSUME NEW q \in Nat, NEW ask \in Nat, NEW bid \in Nat, NEW stop \in Nat,
           stop * StressNum <= bid * StressDen
    PROVE  /\ settle_long(q, ask, bid, Fee) \in Int
           /\ Planned(q, ask, stop) \in Int
           /\ settle_long(q, ask, bid, Fee) * (PriceUnits * BPS)
                >= -Planned(q, ask, stop) - PriceUnits * BPS
<1> DEFINE U == PriceUnits * BPS
           g == cents(q * (bid - ask), PriceUnits)
           e == cents(q * ask * Fee, U)
           x == cents(q * bid * Fee, U)
           ef == cents_up(q * ask * Fee, U)
           xf == cents_up(q * stop * StressNum * Fee, StressDen * PriceUnits * BPS)
           N == q * ask
           X == q * bid
           S == q * stop
<1>0. PriceUnits \in Nat \ {0} /\ BPS = 10000 /\ Fee \in 0..10000 /\ StressNum = 199 /\ StressDen = 200
  BY RiskAssumption, QuoteAssumption DEF BPS, StressNum, StressDen
<1>1. U \in Nat \ {0} /\ StressDen * PriceUnits * BPS \in Nat \ {0} /\ StressDen * PriceUnits * BPS = 200 * U
  BY <1>0
<1>2. N \in Nat /\ X \in Nat /\ S \in Nat /\ q * (bid - ask) = X - N
  OBVIOUS
<1> HIDE DEF U
<1>3. g \in Int /\ 2 * (X - N) - PriceUnits <= 2 * (PriceUnits * g)
  BY <1>0, <1>2, Cents
<1>4. q * ask * Fee \in Int /\ q * bid * Fee \in Int /\ q * stop * StressNum * Fee \in Int
  BY <1>0
<1>5. e \in Int /\ x \in Int /\ ef \in Int /\ xf \in Int
  BY <1>1, <1>4, Cents, CentsUp
<1>6. U * e <= U * ef
  BY <1>1, <1>4, NotAboveUp
<1>7. 2 * (U * x) <= 2 * (q * bid * Fee) + U
  BY <1>1, <1>4, Cents
<1>8. q * stop * StressNum * Fee <= (200 * U) * xf
  <2>1. q * stop * StressNum * Fee <= (StressDen * PriceUnits * BPS) * xf
    BY <1>1, <1>4, CentsUp
  <2> QED
    BY <2>1, <1>1
<1>9. PICK XF \in Int, SF \in Int : XF = X * Fee /\ SF = S * Fee
  BY <1>0, <1>2
<1>10. q * bid * Fee = XF /\ q * stop * StressNum * Fee = 199 * SF
  BY <1>9, <1>0
<1>11. 200 * X - 199 * S >= 0
  <2>1. q * (stop * 199) <= q * (bid * 200)
    BY <1>0
  <2>2. q * (stop * 199) = 199 * S /\ q * (bid * 200) = 200 * X
    OBVIOUS
  <2>3. 199 * S <= 200 * X
    BY <2>1, <2>2
  <2> HIDE DEF S, X
  <2> QED
    BY <2>3, <1>2
<1>12. 200 * 10000 * X - 200 * XF - 199 * 10000 * S + 199 * SF >= 0
  <2>1. PICK k \in Nat : k = 200 * X - 199 * S
    <3>1. \A a, b \in Int : 200 * a - 199 * b >= 0 => 200 * a - 199 * b \in Nat
      OBVIOUS
    <3>2. X \in Int /\ S \in Int
      BY <1>2
    <3> HIDE DEF X, S
    <3>3. 200 * X - 199 * S \in Nat
      BY <1>11, <3>1, <3>2
    <3> QED
      BY <3>3
  <2>2. PICK f \in Nat : f = 10000 - Fee
    BY <1>0
  <2>3. k * f >= 0
    OBVIOUS
  <2>4. k * f = k * 10000 - k * Fee
    BY <2>2, <1>0
  <2>5. k * Fee = 200 * XF - 199 * SF
    <3> HIDE DEF X, S
    <3>1. (200 * X - 199 * S) * Fee = 200 * (X * Fee) - 199 * (S * Fee)
      BY <1>0, <1>2
    <3> QED
      BY <3>1, <2>1, <1>9
  <2> HIDE DEF X, S
  <2> QED
    BY <2>1, <2>3, <2>4, <2>5, <1>2, <1>9
<1>13. PICK G \in Int, C \in Int, A \in Int, D \in Int, EE \in Int :
          G = PriceUnits * g /\ C = U * e /\ A = U * ef /\ D = U * x /\ EE = U * xf
  <2> HIDE DEF g, e, x, ef, xf
  <2> QED
    BY <1>0, <1>1, <1>3, <1>5
<1>14. 10000 * G - C - D >= -(10000 * N - 9950 * S + A + EE) - PriceUnits * 10000
  <2>1. 2 * X - 2 * N - PriceUnits <= 2 * G
    <3> HIDE DEF X, N, g
    <3> QED
      BY <1>3, <1>13, <1>2, <1>0
  <2>2. C <= A
    BY <1>6, <1>13
  <2>3. 2 * D <= 2 * XF + PriceUnits * 10000
    BY <1>7, <1>10, <1>13, <1>0 DEF U
  <2>4. 199 * SF <= 200 * EE
    <3> HIDE DEF xf
    <3>1. (200 * U) * xf = 200 * (U * xf)
      BY <1>1, <1>5
    <3> QED
      BY <3>1, <1>8, <1>10, <1>13
  <2>5. PriceUnits \in Int /\ N \in Int /\ X \in Int /\ S \in Int
    BY <1>0, <1>2
  <2> HIDE DEF X, N, S
  <2> QED
    BY <2>1, <2>2, <2>3, <2>4, <2>5, <1>12, SettleArith
<1>15. settle_long(q, ask, bid, Fee) = g - e - x
  BY DEF settle_long, U
<1>16. (g - e - x) * U = 10000 * G - C - D
  <2>1. U = PriceUnits * 10000
    BY <1>0 DEF U
  <2> HIDE DEF g, e, x
  <2>2. (g - e - x) * U = g * U - e * U - x * U
    BY <1>1, <1>3, <1>5
  <2>3. g * U = 10000 * (PriceUnits * g)
    BY <2>1, <1>0, <1>3
  <2>4. e * U = U * e /\ x * U = U * x
    BY <1>1, <1>5
  <2> QED
    BY <2>2, <2>3, <2>4, <1>13
<1>17. Planned(q, ask, stop) = 10000 * N - 9950 * S + A + EE
  <2>1. BPS \div StressDen = 50
    BY <1>0
  <2>2. q * StressLoss(ask, stop) * 50 = 10000 * N - 9950 * S
    BY <1>0 DEF StressLoss
  <2>3. (ef + xf) * PriceUnits * BPS = U * ef + U * xf
    <3> HIDE DEF ef, xf
    <3>1. (ef + xf) * PriceUnits * BPS = (ef + xf) * U
      BY <1>0, <1>5 DEF U
    <3> QED
      BY <3>1, <1>1, <1>5
  <2>4. Planned(q, ask, stop) = q * StressLoss(ask, stop) * (BPS \div StressDen) + (ef + xf) * PriceUnits * BPS
    BY PlannedIs DEF U
  <2> HIDE DEF ef, xf, N, S
  <2> QED
    BY <2>1, <2>2, <2>3, <2>4, <1>2, <1>13
<1> HIDE DEF N, S, g, e, x
<1> QED
  BY <1>0, <1>2, <1>3, <1>5, <1>13, <1>14, <1>15, <1>16, <1>17 DEF U

\* A loss within one planned loss (and a cent) of a balance that was above the
\* limit leaves the balance within one planned loss of the limit.
LEMMA BalanceBound ==
    ASSUME NEW B \in Int, NEW net \in Int, NEW per \in 1..25, NEW L \in Int, NEW pl \in Int,
           L <= B, pl <= B * PriceUnits * per,
           net * (PriceUnits * BPS) >= -pl - PriceUnits * BPS
    PROVE  B + net >= (L * (BPS - per)) \div BPS - 1
<1>0. PriceUnits \in Nat \ {0} /\ BPS = 10000
  BY RiskAssumption DEF BPS
<1>1. net * 10000 >= -(B * per) - 10000
  <2> SUFFICES ASSUME net * 10000 + B * per + 10000 <= -1
               PROVE  FALSE
    OBVIOUS
  <2>1. PICK w \in Int : w = net * 10000 + B * per + 10000
    OBVIOUS
  <2>2. PriceUnits * w <= -1
    BY <2>1, <1>0
  <2>3. PriceUnits * w = net * (PriceUnits * 10000) + B * PriceUnits * per + PriceUnits * 10000
    BY <2>1, <1>0
  <2>4. PICK a \in Int, b \in Int : a = net * (PriceUnits * 10000) /\ b = B * PriceUnits * per
    BY <1>0
  <2>5. a >= -pl - PriceUnits * 10000 /\ pl <= b
    BY <2>4, <1>0
  <2> QED
    BY <2>2, <2>3, <2>4, <2>5, <1>0
<1>2. (B + net) * 10000 >= B * (10000 - per) - 10000
  BY <1>1
<1>3. L * (10000 - per) <= B * (10000 - per)
  OBVIOUS
<1>4. PICK v \in Int : v = L * (10000 - per)
  OBVIOUS
<1>5. (B + net) * 10000 >= v - 10000
  BY <1>2, <1>3, <1>4
<1>6. B + net >= v \div 10000 - 1
  BY <1>5
<1> QED
  BY <1>0, <1>4, <1>6

\* The least element, where there is one.
LEMMA MinOf ==
    ASSUME NEW S, S # {}, S \subseteq Int, \E m \in S : \A y \in S : m <= y
    PROVE  Min(S) \in S /\ \A y \in S : Min(S) <= y
BY DEF Min

\* The smaller of two.
LEMMA MinTwo ==
    ASSUME NEW a \in Int, NEW b \in Int
    PROVE  Min({a, b}) \in Int /\ Min({a, b}) <= a
<1>1. \E m \in {a, b} : \A y \in {a, b} : m <= y
  OBVIOUS
<1> QED
  BY <1>1, MinOf

\* The greater of two (next_high_water).
LEMMA MaxTwo ==
    ASSUME NEW a \in Int, NEW b \in Int
    PROVE  Max({a, b}) \in Int /\ Max({a, b}) >= a /\ Max({a, b}) >= b /\ Max({a, b}) \in {a, b}
<1>1. \E m \in {a, b} : \A y \in {a, b} : m >= y
  OBVIOUS
<1>2. Max({a, b}) \in {a, b} /\ \A y \in {a, b} : Max({a, b}) >= y
  BY <1>1 DEF Max
<1> QED
  BY <1>2

\* The smallest of four bounds (candidate_quantities) is a number.
LEMMA MinFour ==
    ASSUME NEW a \in Int, NEW b \in Int, NEW c \in Int, NEW d \in Int
    PROVE  Min({a, b, c, d}) \in Int
<1>1. \E m \in {a, b, c, d} : \A y \in {a, b, c, d} : m <= y
  OBVIOUS
<1> QED
  BY <1>1, MinOf

\* The first pass of the downward loop is one of its passes.
LEMMA MinPass ==
    ASSUME NEW S \in SUBSET (0..3), S # {}
    PROVE  Min(S) \in S
<1>1. \E m \in S : \A y \in S : m <= y
  <2>1. CASE 0 \in S
    BY <2>1
  <2>2. CASE 0 \notin S /\ 1 \in S
    BY <2>2
  <2>3. CASE 0 \notin S /\ 1 \notin S /\ 2 \in S
    BY <2>3
  <2>4. CASE 0 \notin S /\ 1 \notin S /\ 2 \notin S /\ 3 \in S
    BY <2>4
  <2>5. 0 \in S \/ 1 \in S \/ 2 \in S \/ 3 \in S
    <3>1. PICK z \in S : TRUE
      OBVIOUS
    <3>2. z = 0 \/ z = 1 \/ z = 2 \/ z = 3
      OBVIOUS
    <3> QED
      BY <3>2
  <2> QED
    BY <2>1, <2>2, <2>3, <2>4, <2>5
<1>2. S \subseteq Int
  OBVIOUS
<1> QED
  BY <1>1, <1>2, MinOf

\* A size that the loop accepts is positive, and its planned loss fits the cap.
LEMMA SizeFacts ==
    ASSUME NEW lots \in Int, NEW c, NEW stop, NEW target, NEW room,
           c.ask \in Nat, c.rules.ordermin \in Nat, c.rules.costmin \in Nat,
           Size(lots, c, stop, target, room, Fee).reason = "none"
    PROVE  \E q \in Nat \ {0} :
              /\ Size(lots, c, stop, target, room, Fee).quantity = q
              /\ Size(lots, c, stop, target, room, Fee).stop = stop
              /\ Size(lots, c, stop, target, room, Fee).target = target
              /\ Planned(q, c.ask, stop) <= room.per_entry_loss_cap
<1> DEFINE Small(p) == below_minimum(lots - p, c.ask, c.rules)
           Costs(p) == final_costs(lots - p, c.ask, stop, Fee)
           ends == {p \in Passes : Small(p) # "none" \/ fits(Costs(p), room)}
           final == Min(ends)
           size == Size(lots, c, stop, target, room, Fee)
<1>1. size = IF ends = {} THEN Refused("sizing_inconsistent")
             ELSE IF Small(final) # "none" THEN Refused(Small(final))
             ELSE [reason |-> "none", quantity |-> lots - final, stop |-> stop,
                   target |-> target, planned_lossBps |-> PlannedLoss(Costs(final))]
  BY DEF Size
<1> HIDE DEF size
<1>2. ends # {} /\ Small(final) = "none"
  <2>1. size.reason = "none"
    BY DEF size
  <2> HIDE DEF Small, Costs, ends, final
  <2> QED
    BY <1>1, <2>1 DEF Refused
<1>3. final \in ends /\ final \in 0..3
  <2>1. ends \in SUBSET (0..3)
    BY DEF Passes, MAX_DOWNWARD_PASSES
  <2> HIDE DEF ends
  <2>2. final \in ends
    BY <2>1, <1>2, MinPass
  <2> QED
    BY <2>1, <2>2
<1>4. fits(Costs(final), room)
  BY <1>2, <1>3
<1>5. PICK q \in Int : q = lots - final
  <2> HIDE DEF final, ends
  <2> QED
    BY <1>3
<1>6. q > 0
  <2>1. below_minimum(q, c.ask, c.rules) = "none"
    BY <1>2, <1>5
  <2> QED
    BY <2>1 DEF below_minimum
<1>7. size.quantity = q /\ size.stop = stop /\ size.target = target
  <2> HIDE DEF Small, Costs, ends, final
  <2> QED
    BY <1>1, <1>2, <1>5
<1>8. Planned(q, c.ask, stop) <= room.per_entry_loss_cap
  BY <1>4, <1>5 DEF fits, Planned
<1>9. q \in Nat \ {0}
  BY <1>5, <1>6
<1> WITNESS q \in Nat \ {0}
<1> QED
  BY <1>7, <1>8 DEF size

\* A number of a range that starts at a natural one.
LEMMA Ranged == \A a \in Nat, b \in Int : \A x \in a..b : x \in Nat
OBVIOUS

\* The ranges Envelope.__post_init__ leaves.
LEMMA EnvelopeFacts ==
    ASSUME NEW e \in Envelopes
    PROVE  /\ e # NoAccount /\ e.equity \in Nat \ {0} /\ e.per_entry_loss_pct \in 1..25
           /\ e.per_entry_loss_pct \in Nat /\ e.per_entry_abs_cap \in Nat /\ e.aggregate_loss_pct \in Nat
           /\ e.gross_notional_pct \in Nat /\ e.cash_buffer_pct \in Nat
           /\ e.daily_loss_pct \in Nat /\ e.drawdown_pct \in 1..300
<1>0. Accepted(e)
  BY EnvelopeAssumption
<1>1. e # NoAccount
  BY <1>0 DEF Accepted, NoAccount
<1>2. e.equity \in Nat \ {0} /\ e.per_entry_abs_cap \in Nat
  BY <1>0 DEF Accepted
<1>3. e.per_entry_loss_pct \in 1..25 /\ e.drawdown_pct \in 1..300
  BY <1>0 DEF Accepted
<1>4. e.aggregate_loss_pct \in 1..50 /\ e.gross_notional_pct \in 1..1000
  BY <1>0 DEF Accepted
<1>5. e.daily_loss_pct \in 1..100 /\ e.cash_buffer_pct \in 1000..(BPS - 1)
  BY <1>0 DEF Accepted
<1>6. e.per_entry_loss_pct \in Nat
  BY <1>3, Ranged
<1>7. e.aggregate_loss_pct \in Nat
  BY <1>4, Ranged
<1>8. e.gross_notional_pct \in Nat
  BY <1>4, Ranged
<1>9. e.daily_loss_pct \in Nat
  BY <1>5, Ranged
<1>10. e.cash_buffer_pct \in Nat
  <2>1. PICK b \in Int : b = BPS - 1
    BY DEF BPS
  <2> QED
    BY <1>5, <2>1, Ranged
<1> QED
  BY <1>1, <1>2, <1>3, <1>6, <1>7, <1>8, <1>9, <1>10

\* What an accepted plan is: a positive quantity whose planned loss is within
\* the entry's share of the equity.
LEMMA PlanFacts ==
    ASSUME NEW e \in Envelopes, NEW bid \in Nat, NEW currency, NEW equity \in Int, NEW cash \in Int, NEW c,
           c = [quote |-> currency, bid |-> bid, ask |-> bid + Spread, atr |-> Atr, rules |-> Rules],
           plan_long_entry(e, c, equity, cash, 0, 0, Fee).reason = "none"
    PROVE  /\ bid # 0
           /\ \E q \in Nat \ {0}, stop \in Nat, target \in Int :
                /\ plan_long_entry(e, c, equity, cash, 0, 0, Fee).quantity = q
                /\ plan_long_entry(e, c, equity, cash, 0, 0, Fee).stop = stop
                /\ plan_long_entry(e, c, equity, cash, 0, 0, Fee).target = target
                /\ Planned(q, bid + Spread, stop) <= equity * e.per_entry_loss_pct
<1> DEFINE plan == plan_long_entry(e, c, equity, cash, 0, 0, Fee)
           levels == exit_levels(c.ask, c.atr)
           stop == floor_to_step(levels.stop, c.rules.tick)
           target == floor_to_step(levels.target, c.rules.tick)
           room == budget(e, equity, cash, 0, 0)
           per_unit == loss_per_unit(c.ask, stop, Fee)
           lots == Min(candidate_quantities(room, c.ask, per_unit, Fee))
           size == Size(lots, c, stop, target, room, Fee)
<1>0. Spread \in Nat /\ Atr \in Nat /\ BPS = 10000 /\ Fee \in 0..10000 /\ PriceUnits \in Nat \ {0}
  BY PilotAssumption, QuoteAssumption, RiskAssumption DEF BPS
<1>c. c.quote = currency /\ c.bid = bid /\ c.ask = bid + Spread /\ c.atr = Atr /\ c.rules = Rules
  OBVIOUS
<1>1. plan = IF c.quote # e.currency THEN Refused("quote_currency_mismatch")
        ELSE IF c.bid = 0 \/ c.ask < c.bid THEN Refused("invalid_quote")
        ELSE IF c.atr = 0 THEN Refused("no_valid_atr")
        ELSE IF c.rules = NoRules THEN Refused("missing_pair_rules")
        ELSE IF equity <= 0 THEN Refused("equity_unavailable")
        ELSE IF levels.stop <= 0 THEN Refused("invalid_levels")
        ELSE IF stop <= 0 \/ stop >= c.ask THEN Refused("stop_invalid_after_tick")
        ELSE IF target <= c.ask THEN Refused("invalid_levels")
        ELSE IF room.per_entry_loss_cap <= 0 \/ room.aggregate_loss_remaining <= 0
             THEN Refused("no_loss_budget")
        ELSE IF room.notional_remaining <= 0 THEN Refused("no_notional_room")
        ELSE IF room.cash_room <= 0 THEN Refused("insufficient_cash")
        ELSE size
  BY DEF plan_long_entry
<1>2. plan.reason = "none"
  OBVIOUS
<1>3. /\ plan = size /\ c.bid # 0 /\ c.rules # NoRules
      /\ ~(stop <= 0 \/ stop >= c.ask)
  <2> HIDE DEF plan, levels, stop, target, room, per_unit, lots, size
  <2> QED
    BY <1>1, <1>2 DEF Refused
<1> HIDE DEF plan
<1>4. Rules.ordermin \in Nat /\ Rules.costmin \in Nat /\ Rules.tick \in Nat \ {0}
  BY <1>3, <1>c, QuoteAssumption
<1>5. stop \in Int /\ target \in Int
  <2>1. levels.stop \in Int /\ levels.target \in Int
    BY <1>0, <1>c DEF exit_levels, EX1_STOP_ATR_MULTIPLE, EX1_TARGET_R_MULTIPLE
  <2> HIDE DEF levels
  <2>2. \A v \in Int : floor_to_step(v, Rules.tick) \in Int
    BY <1>4, DivFacts DEF floor_to_step
  <2> QED
    BY <2>1, <2>2, <1>c
<1>6. stop \in Nat /\ stop < c.ask /\ 0 < stop
  <2> HIDE DEF stop
  <2> QED
    BY <1>3, <1>5, <1>0, <1>c
<1> HIDE DEF stop, target
<1>7. per_unit \in Nat \ {0}
  <2>1. c.ask \in Nat /\ stop \in Nat
    BY <1>0, <1>c, <1>6
  <2>2. PICK a \in Nat, s \in Nat : a = c.ask /\ s = stop
    BY <2>1
  <2>3. per_unit = (200 * a - 199 * s) * 10000 + (200 * a + 199 * s) * Fee
    BY <1>0, <2>2 DEF loss_per_unit, StressLoss, StressNum, StressDen
  <2>4. s < a
    BY <1>6, <2>2
  <2>5. (200 * a + 199 * s) * Fee \in Nat
    BY <1>0
  <2> QED
    BY <2>3, <2>4, <2>5
<1>8. /\ e.per_entry_loss_pct \in Nat /\ e.per_entry_abs_cap \in Nat /\ e.aggregate_loss_pct \in Nat
      /\ e.gross_notional_pct \in Nat /\ e.cash_buffer_pct \in Nat
  BY EnvelopeFacts
<1>9. /\ room.per_entry_loss_cap \in Int /\ room.aggregate_loss_remaining \in Int
      /\ room.notional_remaining \in Int /\ room.cash_room \in Int
      /\ room.per_entry_loss_cap <= equity * e.per_entry_loss_pct
  <2>1. PICK p \in Int, a \in Int : p = equity * e.per_entry_loss_pct /\ a = e.per_entry_abs_cap * PriceUnits * BPS
    BY <1>0, <1>8
  <2>2. room.per_entry_loss_cap = IF a = 0 THEN p ELSE Min({p, a})
    BY <2>1 DEF budget
  <2>3. room.per_entry_loss_cap \in Int /\ room.per_entry_loss_cap <= p
    <3> HIDE DEF room
    <3>1. CASE a = 0
      BY <3>1, <2>2
    <3>2. CASE a # 0
      BY <3>2, <2>2, MinTwo
    <3> QED
      BY <3>1, <3>2
  <2>4. room.aggregate_loss_remaining \in Int
    BY <1>8 DEF budget
  <2>5. room.notional_remaining \in Int
    BY <1>8, <1>0 DEF budget
  <2>6. room.cash_room \in Int
    BY <1>8, <1>0 DEF budget
  <2> QED
    BY <2>1, <2>3, <2>4, <2>5, <2>6
<1> HIDE DEF room, per_unit
<1>10. lots \in Int
  <2>1. c.ask \in Nat \ {0}
    BY <1>0, <1>c, <1>3
  <2>2. c.ask * BPS \in Nat \ {0} /\ c.ask * (BPS + Fee) \in Nat \ {0}
    <3>1. \A a, b \in Nat \ {0} : a * b \in Nat \ {0}
      OBVIOUS
    <3>2. BPS \in Nat \ {0} /\ BPS + Fee \in Nat \ {0}
      BY <1>0
    <3> QED
      BY <2>1, <3>1, <3>2
  <2>3. StressDen \in Int
    BY DEF StressDen
  <2>4. /\ (room.per_entry_loss_cap * StressDen) \div per_unit \in Int
        /\ (room.aggregate_loss_remaining * StressDen) \div per_unit \in Int
        /\ room.notional_remaining \div (c.ask * BPS) \in Int
        /\ room.cash_room \div (c.ask * (BPS + Fee)) \in Int
    BY <2>2, <2>3, <1>7, <1>9, DivFacts
  <2> QED
    BY <2>4, MinFour DEF candidate_quantities
<1> HIDE DEF lots
<1>11. PICK q \in Nat \ {0} : /\ size.quantity = q /\ size.stop = stop /\ size.target = target
                              /\ Planned(q, c.ask, stop) <= room.per_entry_loss_cap
  <2>1. c.ask \in Nat /\ c.rules.ordermin \in Nat /\ c.rules.costmin \in Nat
    BY <1>0, <1>c, <1>4
  <2>2. size.reason = "none"
    <3> HIDE DEF size
    <3> QED
      BY <1>2, <1>3
  <2> QED
    BY <2>1, <2>2, <1>10, SizeFacts
<1>12. Planned(q, bid + Spread, stop) <= equity * e.per_entry_loss_pct
  <2>1. Planned(q, c.ask, stop) \in Int
    <3>1. c.ask \in Nat /\ stop \in Nat /\ q \in Nat
      BY <1>0, <1>c, <1>6
    <3>2. stop * StressNum <= stop * StressDen
      BY <3>1 DEF StressNum, StressDen
    <3> QED
      BY <3>1, <3>2, SettleBound
  <2>2. equity * e.per_entry_loss_pct \in Int
    BY <1>8
  <2> QED
    BY <1>9, <1>11, <2>1, <2>2, <1>c
<1> HIDE DEF size
<1>13. plan.quantity = q /\ plan.stop = stop /\ plan.target = target /\ bid # 0
  BY <1>3, <1>11, <1>c
<1> QED
  BY <1>5, <1>6, <1>11, <1>12, <1>13 DEF plan

-----------------------------------------------------------------------------
(* The inductive invariant of the pilot.                                    *)

PositionSet ==
    [event : Events, entry_ts : Times, ask : Nat, quantity : Nat, stop : Nat, target : Int,
     due_at : Nat, cost_basis : Int]
CloseSet == [position : Nat, exit_ts : Times, bid : Nat, known : SUBSET Times, net : Int]
LockSet == [kind : Kinds, equity : Int, day : Days, reviewed : BOOLEAN]
FoundSet == [position : Nat, exit_ts : Times, bid : Nat, known : SUBSET Times]
HeartbeatSet ==
    [pc : {"idle", "record", "settle", "write", "open"}, ts : Times, envelope : Envelopes \cup {NoAccount},
     found : FoundSet, settled : BOOLEAN]
MonitorSet ==
    [pc : {"idle", "request", "find", "write"}, watched : SUBSET Nat, at : Times, bid : Nat, now : Times,
     found : FoundSet]

Open == OpenPositions(positions, closes)

\* Every row of the books has its type.
BooksTyped ==
    /\ now \in Times /\ snapshots \in [Times -> Bids \cup {0}]
    /\ account \in Envelopes \cup {NoAccount} /\ decided \subseteq Events
    /\ positions \in Seq(PositionSet) /\ closes \in Seq(CloseSet)
    /\ DOMAIN day_start \subseteq Days /\ (\A d \in DOMAIN day_start : day_start[d] \in Int) /\ high_water \in Int
    /\ locks \in Seq(LockSet) /\ Len(positions) <= MaxPositions /\ Len(locks) <= MaxLocks

NothingBefore == account = NoAccount => high_water = NoMark /\ positions = <<>> /\ locks = <<>>

\* A position is closed once, and at most one is open.
ClosesMatch ==
    /\ {positions[i].event : i \in DOMAIN positions} \subseteq decided
    /\ Closed(closes) \subseteq DOMAIN positions
    /\ \A i, j \in DOMAIN closes : closes[i].position = closes[j].position => i = j
    /\ \A i, j \in Open : i = j

\* Position i had no reason to be left at the times ts of a set.
Untouched(i, ts) == \A t \in ts : snapshots[t] # 0 => exit_decision(positions[i], t, snapshots[t]) = "none"

\* An exit that was found, or a close: the snapshots it knew are on record, and
\* none of them touched before it.
Earliest(c) ==
    /\ c.position \in DOMAIN positions /\ \A t \in c.known : snapshots[t] # 0
    /\ Untouched(c.position, c.known \cap (positions[c.position].entry_ts + 1)..(c.exit_ts - 1))

ClosesEarliest == \A k \in DOMAIN closes : Earliest(closes[k])

Reviewed == \E k \in DOMAIN locks : locks[k].reviewed
Limit == (account.equity * (BPS - account.drawdown_pct)) \div BPS

\* Before the first review the high-water mark is at least the assigned equity,
\* the balance behind an open position is above the drawdown limit, and its
\* planned loss is within the entry's share of that balance.
LossPlanned ==
    /\ account # NoAccount /\ ~Reviewed => high_water >= account.equity * PriceUnits
    /\ \A i \in Open :
         /\ ~Reviewed => Limit <= Balance(closes)
         /\ Planned(positions[i].quantity, positions[i].ask, positions[i].stop)
              <= Balance(closes) * PriceUnits * account.per_entry_loss_pct

BooksInv ==
    /\ BooksTyped /\ NothingBefore /\ ClosesMatch /\ OneActivePerKind
    /\ ClosesEarliest /\ LossPlanned /\ DrawdownBounded

\* A heartbeat h: who writes has an account; what it found is the earliest exit;
\* until the cycle's time, the open position is untouched or about to be closed.
HeartbeatFits(h) ==
    /\ h \in HeartbeatSet /\ (h.settled => h.pc = "open")
    /\ h.pc # "idle" => h.envelope \in Envelopes
    /\ h.pc = "write" => account # NoAccount
    /\ h.found # NoExit => Earliest(h.found)
    /\ h.pc = "write" =>
         \A i \in Open : h.found.position = i \/ Untouched(i, (positions[i].entry_ts + 1)..h.ts)
    /\ h.pc = "open" /\ h.settled =>
         \A i \in Open : Untouched(i, (positions[i].entry_ts + 1)..h.ts)

\* A monitor m, likewise.
MonitorFits(m) ==
    /\ m \in MonitorSet
    /\ m.pc # "idle" => account # NoAccount
    /\ m.found # NoExit => Earliest(m.found)

PilotIInv == BooksInv /\ HeartbeatFits(hb) /\ MonitorFits(mon)

-----------------------------------------------------------------------------
(* Sums and choices over the books.                                         *)

\* A set of naturals has a least one.
LEMMA NatMin ==
    ASSUME NEW S \in SUBSET Nat, S # {}
    PROVE  \E m \in S : \A k \in S : m <= k
<1>1. PICK n \in S : TRUE
  OBVIOUS
<1> DEFINE B == {0..k : k \in {k \in S : k <= n}}
<1>2. IsFiniteSet(0..n)
  BY FS_Interval
<1>3. B \in SUBSET (SUBSET (0..n)) /\ B # {}
  <2>1. 0..n \in B
    BY <1>1
  <2>2. \A b \in B : b \subseteq 0..n
    OBVIOUS
  <2> QED
    BY <2>1, <2>2
<1>4. PICK b \in B : \A t \in B : ~(t \subseteq b /\ t # b)
  <2>1. PICK D : D = 0..n
    OBVIOUS
  <2>2. IsFiniteSet(D) /\ B \in SUBSET (SUBSET D) /\ B # {}
    BY <1>2, <1>3, <2>1
  <2> HIDE DEF B
  <2> QED
    BY <2>2, FiniteMin
<1>5. PICK m \in S : b = 0..m /\ m <= n
  BY <1>4
<1>6. ASSUME NEW k \in S
      PROVE  m <= k
  <2> SUFFICES ASSUME k < m
               PROVE  FALSE
    OBVIOUS
  <2>1. 0..k \in B
    BY <1>5
  <2>2. 0..k \subseteq 0..m /\ m \in 0..m /\ m \notin 0..k
    OBVIOUS
  <2> QED
    BY <1>4, <1>5, <2>1, <2>2
<1> QED
  BY <1>6

\* Times are naturals, and each has its day.
LEMMA TimesNat == Times \subseteq Nat /\ \A t \in Times : utc_day(t) \in Days
<1>1. Times \subseteq Nat
  BY PilotAssumption DEF Times
<1> QED
  BY <1>1 DEF Days

\* A balance is a number of cents.
LEMMA BalanceInt ==
    ASSUME account \in Envelopes, NEW cls \in Seq(CloseSet)
    PROVE  Balance(cls) \in Int
<1> DEFINE f == [i \in DOMAIN cls |-> cls[i].net]
<1>1. DOMAIN f = 1..Len(cls) /\ Len(cls) \in Nat
  OBVIOUS
<1>2. \A i \in DOMAIN f : f[i] \in Int
  <2>1. \A i \in DOMAIN cls : cls[i] \in CloseSet
    OBVIOUS
  <2> QED
    BY <2>1 DEF CloseSet
<1> HIDE DEF f
<1>3. SumFunction(f) \in Int
  <2>1. IsFiniteSet(DOMAIN f)
    BY <1>1, FS_Interval
  <2> QED
    BY <1>2, <2>1, SumFunctionType
<1> QED
  BY <1>3, EnvelopeFacts DEF Balance, f

\* One more close adds its net to the balance, and nothing else.
LEMMA BalanceAppend ==
    ASSUME account \in Envelopes, NEW cls \in Seq(CloseSet), NEW c \in CloseSet
    PROVE  Balance(Append(cls, c)) = Balance(cls) + c.net
<1> DEFINE n == Len(cls)
           longer == Append(cls, c)
           f == [i \in DOMAIN longer |-> longer[i].net]
           h == [i \in DOMAIN cls |-> cls[i].net]
<1>1. n \in Nat /\ DOMAIN f = 1..(n + 1) /\ DOMAIN h = 1..n
  OBVIOUS
<1>2. \A i \in 1..(n + 1) : longer[i] \in CloseSet
  OBVIOUS
<1>3. \A i \in 1..(n + 1) : f[i] \in Int
  BY <1>1, <1>2 DEF CloseSet
<1>4. \A i \in 1..n : h[i] = f[i]
  OBVIOUS
<1>5. f[n + 1] = c.net
  OBVIOUS
<1>6. SumFunction(h) \in Int
  <2>1. IsFiniteSet(DOMAIN h)
    BY <1>1, FS_Interval
  <2>2. \A i \in DOMAIN h : h[i] \in Int
    BY <1>1, <1>3, <1>4
  <2> HIDE DEF h
  <2> QED
    BY <2>1, <2>2, SumFunctionType
<1>7. SumFunction(f) = SumFunction(h) + f[n + 1]
  <2> HIDE DEF f, h, n
  <2> QED
    BY <1>1, <1>3, <1>4, SumFunctionAppend
<1>8. account.equity \in Int /\ c.net \in Int
  BY EnvelopeFacts DEF CloseSet
<1>9. Balance(longer) = account.equity + SumFunction(f) /\ Balance(cls) = account.equity + SumFunction(h)
  BY DEF Balance
<1> HIDE DEF f, h, n, longer
<1>10. Balance(longer) = Balance(cls) + c.net
  BY <1>5, <1>6, <1>7, <1>8, <1>9
<1> QED
  BY <1>10 DEF longer

\* What _mark_quote and _find_exit look at: a quote at a time.
ObservationSet == [at : Times, rank : {0, 1}, bid : Nat]

\* What is observed up to a moment are quotes.
LEMMA ObservationsTyped ==
    ASSUME snapshots \in [Times -> Bids \cup {0}], NEW extras \in SUBSET ObservationSet, NEW from, NEW moment
    PROVE  Observations(extras, from, moment) \subseteq ObservationSet
<1>1. ASSUME NEW t \in Times
      PROVE  [at |-> t, rank |-> 0, bid |-> snapshots[t]] \in ObservationSet
  <2>1. snapshots[t] \in Nat
    <3>1. PICK s \in Bids \cup {0} : s = snapshots[t]
      OBVIOUS
    <3>2. Bids \cup {0} \subseteq Nat
      BY QuoteAssumption
    <3> QED
      BY <3>1, <3>2
  <2> QED
    BY <2>1 DEF ObservationSet
<1> QED
  BY <1>1 DEF Observations

\* Among quotes there is an earliest one.
LEMMA FirstExists ==
    ASSUME NEW S \in SUBSET ObservationSet, S # {}
    PROVE  /\ FirstOf(S) \in S
           /\ \A o \in S : Earlier(FirstOf(S), o)
<1> DEFINE Key(o) == 2 * o.at + o.rank
           keys == {Key(o) : o \in S}
<1>0. \A o \in S : o.at \in Nat /\ o.rank \in {0, 1}
  BY TimesNat DEF ObservationSet
<1>1. keys \in SUBSET Nat /\ keys # {}
  BY <1>0
<1>2. PICK m \in keys : \A k \in keys : m <= k
  <2> HIDE DEF keys
  <2> QED
    BY <1>1, NatMin
<1>3. PICK o \in S : m = Key(o)
  BY <1>2
<1>4. ASSUME NEW p \in S
      PROVE  Earlier(o, p)
  <2>1. Key(o) <= Key(p)
    BY <1>2, <1>3
  <2>2. o.at \in Nat /\ p.at \in Nat /\ o.rank \in {0, 1} /\ p.rank \in {0, 1}
    BY <1>0
  <2> QED
    BY <2>1, <2>2 DEF Earlier
<1> QED
  BY <1>4 DEF FirstOf

\* And a latest one.
LEMMA LatestExists ==
    ASSUME NEW S \in SUBSET ObservationSet, S # {}
    PROVE  (CHOOSE o \in S : \A q \in S : Earlier(q, o)) \in S
<1> DEFINE Key(o) == 2 * (MaxTime - o.at) + (1 - o.rank)
           keys == {Key(o) : o \in S}
<1>0. \A o \in S : o.at \in 0..MaxTime /\ o.rank \in {0, 1}
  BY DEF ObservationSet, Times
<1>a. MaxTime \in Nat
  BY PilotAssumption
<1>1. keys \in SUBSET Nat /\ keys # {}
  BY <1>0, <1>a
<1>2. PICK m \in keys : \A k \in keys : m <= k
  <2> HIDE DEF keys
  <2> QED
    BY <1>1, NatMin
<1>3. PICK o \in S : m = Key(o)
  BY <1>2
<1>4. ASSUME NEW p \in S
      PROVE  Earlier(p, o)
  <2>1. Key(o) <= Key(p)
    BY <1>2, <1>3
  <2>2. o.at \in 0..MaxTime /\ p.at \in 0..MaxTime /\ o.rank \in {0, 1} /\ p.rank \in {0, 1}
    BY <1>0
  <2> QED
    BY <2>1, <2>2, <1>a DEF Earlier
<1> QED
  BY <1>4

\* A position has a mark at every moment.
LEMMA MarkBidInt ==
    ASSUME snapshots \in [Times -> Bids \cup {0}], NEW extras \in SUBSET ObservationSet, NEW moment,
           NEW p \in PositionSet
    PROVE  MarkBid(p, extras, moment) \in Int
<1> DEFINE S == Observations(extras, p.entry_ts, moment)
           o == CHOOSE o \in S : \A q \in S : Earlier(q, o)
<1>1. S \in SUBSET ObservationSet
  BY ObservationsTyped
<1>2. CASE S = {}
  <2>1. p.ask - Spread \in Int
    BY PilotAssumption DEF PositionSet
  <2> QED
    BY <1>2, <2>1 DEF MarkBid
<1>3. CASE S # {}
  <2>1. o \in ObservationSet
    <3> HIDE DEF S
    <3> QED
      BY <1>1, <1>3, LatestExists
  <2>2. o.bid \in Int
    <3> HIDE DEF o
    <3> QED
      BY <2>1 DEF ObservationSet
  <2>3. MarkBid(p, extras, moment) = o.bid
    BY <1>3 DEF MarkBid
  <2> QED
    BY <2>2, <2>3
<1> QED
  BY <1>2, <1>3

\* The equity of an account is a number of price units.
LEMMA EquityInt ==
    ASSUME snapshots \in [Times -> Bids \cup {0}], account \in Envelopes,
           NEW pos \in Seq(PositionSet), NEW cls \in Seq(CloseSet),
           NEW extras \in SUBSET ObservationSet, NEW moment
    PROVE  Equity(pos, cls, extras, moment) \in Int
<1> DEFINE Mark(p) == unrealized_mark(p.quantity, MarkBid(p, extras, moment), p.cost_basis, Fee)
           f == [i \in OpenPositions(pos, cls) |-> Mark(pos[i])]
<1>0. PriceUnits \in Nat \ {0} /\ BPS = 10000 /\ Fee \in 0..10000
  BY RiskAssumption, QuoteAssumption DEF BPS
<1>1. ASSUME NEW p \in PositionSet
      PROVE  Mark(p) \in Int
  <2>1. PICK q \in Int, b \in Int, c \in Int : q = p.quantity /\ b = MarkBid(p, extras, moment) /\ c = p.cost_basis
    BY MarkBidInt DEF PositionSet
  <2>2. q * b * Fee \in Int /\ PriceUnits * BPS \in Nat \ {0}
    BY <1>0
  <2>3. PICK u \in Int : u = cents_up(q * b * Fee, PriceUnits * BPS)
    BY <2>2, CentsUp
  <2>4. Mark(p) = q * b - u * PriceUnits - c
    BY <2>1, <2>3 DEF unrealized_mark
  <2> QED
    BY <2>4, <1>0
<1> HIDE DEF Mark
<1>2. \A i \in DOMAIN f : f[i] \in Int
  <2>1. \A i \in DOMAIN pos : pos[i] \in PositionSet
    OBVIOUS
  <2> QED
    BY <1>1, <2>1 DEF OpenPositions
<1>3. IsFiniteSet(DOMAIN f)
  <2>1. DOMAIN f \in SUBSET (1..Len(pos)) /\ Len(pos) \in Nat
    BY DEF OpenPositions
  <2>2. IsFiniteSet(1..Len(pos))
    BY <2>1, FS_Interval
  <2> HIDE DEF f
  <2> QED
    BY <2>1, <2>2, FS_Subset
<1>4. SumFunction(f) \in Int
  <2> HIDE DEF f
  <2> QED
    BY <1>2, <1>3, SumFunctionType
<1>5. Equity(pos, cls, extras, moment) = Balance(cls) * PriceUnits + SumFunction(f)
  BY DEF Equity, Mark
<1>6. Balance(cls) \in Int
  BY BalanceInt
<1> HIDE DEF f
<1> QED
  BY <1>0, <1>4, <1>5, <1>6

\* A flat account is worth its balance.
LEMMA FlatEquity ==
    ASSUME account \in Envelopes, NEW pos, NEW cls \in Seq(CloseSet), OpenPositions(pos, cls) = {},
           NEW extras, NEW moment
    PROVE  Equity(pos, cls, extras, moment) = Balance(cls) * PriceUnits
<1> DEFINE Mark(p) == unrealized_mark(p.quantity, MarkBid(p, extras, moment), p.cost_basis, Fee)
           f == [i \in OpenPositions(pos, cls) |-> Mark(pos[i])]
<1>1. DOMAIN f = {}
  OBVIOUS
<1>2. Equity(pos, cls, extras, moment) = Balance(cls) * PriceUnits + SumFunction(f)
  BY DEF Equity
<1> HIDE DEF f
<1>3. SumFunction(f) = 0
  BY <1>1, SumFunctionEmpty
<1>4. Balance(cls) \in Int /\ PriceUnits \in Int
  BY BalanceInt, RiskAssumption
<1> QED
  BY <1>2, <1>3, <1>4

-----------------------------------------------------------------------------
(* _evaluate_locks.                                                         *)

\* The locks that a trip of the two kinds adds, in the order they are written.
Added(tripped, equity, moment) ==
    (IF "daily_loss" \in tripped THEN <<Lock("daily_loss", equity, moment)>> ELSE <<>>)
      \o (IF "drawdown" \in tripped THEN <<Lock("drawdown", equity, moment)>> ELSE <<>>)

\* One new lock of each kind that tripped.
OnePerTrip(added, tripped) ==
    /\ added \in Seq(LockSet) /\ Len(added) <= 2
    /\ \A k \in DOMAIN added : added[k].kind \in tripped /\ ~added[k].reviewed
    /\ \A k, l \in DOMAIN added : added[k].kind = added[l].kind => k = l
    /\ \A kind \in tripped : \E k \in DOMAIN added : added[k].kind = kind

\* One lock of each kind that tripped is added.
LEMMA AddedFacts ==
    ASSUME NEW tripped \in SUBSET Kinds, NEW equity \in Int, NEW moment \in Times
    PROVE  OnePerTrip(Added(tripped, equity, moment), tripped)
<1>0. PICK added : added = Added(tripped, equity, moment)
  OBVIOUS
<1> SUFFICES OnePerTrip(added, tripped)
  BY <1>0
<1> USE DEF OnePerTrip
<1> DEFINE d == Lock("daily_loss", equity, moment)
           w == Lock("drawdown", equity, moment)
<1>1. d \in LockSet /\ d.kind = "daily_loss" /\ ~d.reviewed /\ d.equity = equity
  BY TimesNat DEF Lock, LockSet, Kinds
<1>2. w \in LockSet /\ w.kind = "drawdown" /\ ~w.reviewed /\ w.equity = equity
  BY TimesNat DEF Lock, LockSet, Kinds
<1>3. added = (IF "daily_loss" \in tripped THEN <<d>> ELSE <<>>) \o (IF "drawdown" \in tripped THEN <<w>> ELSE <<>>)
  BY <1>0 DEF Added
<1> HIDE DEF d, w
<1>4. CASE "daily_loss" \in tripped /\ "drawdown" \in tripped
  <2>1. added = <<d>> \o <<w>>
    BY <1>3, <1>4
  <2>2. <<d>> \in Seq(LockSet) /\ <<w>> \in Seq(LockSet)
    BY <1>1, <1>2
  <2>3. /\ added \in Seq(LockSet) /\ Len(added) = 2
        /\ added[1] = d /\ added[2] = w
    BY <2>1, <2>2, ConcatProperties
  <2>4. DOMAIN added = {1, 2}
    BY <2>3
  <2> QED
    BY <2>3, <2>4, <1>1, <1>2, <1>4 DEF Kinds
<1>5. CASE "daily_loss" \in tripped /\ "drawdown" \notin tripped
  <2>1. added = <<d>>
    <3>1. added = <<d>> \o <<>> /\ <<d>> \in Seq(LockSet)
      BY <1>1, <1>3, <1>5
    <3> QED
      BY <3>1, ConcatEmptySeq
  <2>2. DOMAIN added = {1} /\ added[1] = d /\ Len(added) = 1 /\ added \in Seq(LockSet)
    BY <2>1, <1>1
  <2> QED
    <3>1. \A k \in DOMAIN added : k = 1 /\ added[k] = d
      BY <2>2
    <3>2. \A kind \in tripped : kind = "daily_loss"
      BY <1>5 DEF Kinds
    <3>3. 1 \in DOMAIN added
      BY <2>2
    <3> QED
      BY <2>2, <3>1, <3>2, <3>3, <1>1, <1>5
<1>6. CASE "daily_loss" \notin tripped /\ "drawdown" \in tripped
  <2>1. added = <<w>>
    <3>1. added = <<>> \o <<w>> /\ <<w>> \in Seq(LockSet)
      BY <1>2, <1>3, <1>6
    <3> QED
      BY <3>1, ConcatEmptySeq
  <2>2. DOMAIN added = {1} /\ added[1] = w /\ Len(added) = 1 /\ added \in Seq(LockSet)
    BY <2>1, <1>2
  <2> QED
    <3>1. \A k \in DOMAIN added : k = 1 /\ added[k] = w
      BY <2>2
    <3>2. \A kind \in tripped : kind = "drawdown"
      BY <1>6 DEF Kinds
    <3>3. 1 \in DOMAIN added
      BY <2>2
    <3> QED
      BY <2>2, <3>1, <3>2, <3>3, <1>2, <1>6
<1>7. CASE "daily_loss" \notin tripped /\ "drawdown" \notin tripped
  <2>1. added = <<>>
    <3>1. added = <<>> \o <<>> /\ <<>> \in Seq(LockSet)
      BY <1>3, <1>7
    <3> QED
      BY <3>1, ConcatEmptySeq
  <2>2. DOMAIN added = {} /\ Len(added) = 0 /\ added \in Seq(LockSet)
    BY <2>1
  <2> QED
    BY <2>2, <1>7 DEF Kinds
<1> QED
  BY <1>4, <1>5, <1>6, <1>7

\* Runs of locks, appended one after the other.
LEMMA ThreeRuns ==
    ASSUME NEW x \in Seq(LockSet), NEW y \in Seq(LockSet), NEW z \in Seq(LockSet)
    PROVE  (x \o y) \o z = x \o (y \o z)
BY ConcatAssociative

\* The locks an evaluation appends: new ones, of the kinds that tripped and wait
\* for no review.
Appends(added, equity, moment) ==
    /\ locks' = locks \o added /\ Len(added) <= 2
    /\ \A k \in DOMAIN added : NotActive(added[k].kind) /\ ~added[k].reviewed
    /\ \A k, l \in DOMAIN added : added[k].kind = added[l].kind => k = l
    /\ \A kind \in tripped_locks(account, equity, day_start'[utc_day(moment)], high_water') :
          NotActive(kind) => \E k \in DOMAIN added : added[k].kind = kind

\* What one evaluation does to the marks and the locks.
LEMMA Evaluated ==
    ASSUME account \in Envelopes, high_water \in Int, locks \in Seq(LockSet), Len(locks) + 2 <= MaxLocks,
           DOMAIN day_start \subseteq Days, \A d \in DOMAIN day_start : day_start[d] \in Int,
           NEW equity \in Int, NEW moment \in Times, EvaluateLocks(equity, moment)
    PROVE  /\ DOMAIN day_start' \subseteq Days /\ \A d \in DOMAIN day_start' : day_start'[d] \in Int
           /\ \A d \in DOMAIN day_start : d \in DOMAIN day_start' /\ day_start'[d] = day_start[d]
           /\ utc_day(moment) \in DOMAIN day_start'
           /\ high_water' \in Int /\ high_water' >= high_water
           /\ \E added \in Seq(LockSet) : Appends(added, equity, moment)
<1> DEFINE day == utc_day(moment)
           reference == IF day \in DOMAIN day_start THEN day_start[day] ELSE equity
           water == Raised(equity)
           tripped == Tripped(equity, reference, water)
           added == Added(tripped, equity, moment)
<1>1. /\ day_start' = MarkDay(day, reference)
      /\ high_water' = water
      /\ locks' = locks \o (IF "daily_loss" \in tripped THEN <<Lock("daily_loss", equity, moment)>> ELSE <<>>)
                        \o (IF "drawdown" \in tripped THEN <<Lock("drawdown", equity, moment)>> ELSE <<>>)
  BY DEF EvaluateLocks
<1>2. day \in Days
  BY TimesNat
<1>3. reference \in Int
  OBVIOUS
<1>4. water \in Int /\ water >= high_water
  BY MaxTwo DEF Raised, next_high_water
<1> HIDE DEF reference, water
<1>5. /\ DOMAIN day_start' = DOMAIN day_start \cup {day}
      /\ \A d \in DOMAIN day_start' : day_start'[d] = IF d = day THEN reference ELSE day_start[d]
  BY <1>1 DEF MarkDay
<1>6. /\ DOMAIN day_start' \subseteq Days /\ \A d \in DOMAIN day_start' : day_start'[d] \in Int
      /\ \A d \in DOMAIN day_start : d \in DOMAIN day_start' /\ day_start'[d] = day_start[d]
      /\ day \in DOMAIN day_start' /\ day_start'[day] = reference
  BY <1>2, <1>3, <1>5 DEF reference
<1>7. tripped \in SUBSET Kinds /\ \A kind \in tripped : NotActive(kind)
  BY DEF Tripped, tripped_locks, Kinds
<1>8. OnePerTrip(added, tripped)
  <2> HIDE DEF tripped
  <2> QED
    BY <1>7, AddedFacts
<1>9. locks' = locks \o added
  <2> DEFINE a == IF "daily_loss" \in tripped THEN <<Lock("daily_loss", equity, moment)>> ELSE <<>>
             b == IF "drawdown" \in tripped THEN <<Lock("drawdown", equity, moment)>> ELSE <<>>
  <2>1. added = a \o b /\ locks' = (locks \o a) \o b
    BY <1>1 DEF Added
  <2>2. Lock("daily_loss", equity, moment) \in LockSet /\ Lock("drawdown", equity, moment) \in LockSet
    BY TimesNat DEF Lock, LockSet, Kinds
  <2>3. \A l \in LockSet : <<l>> \in Seq(LockSet)
    OBVIOUS
  <2>4. a \in Seq(LockSet)
    BY <2>2, <2>3
  <2>5. b \in Seq(LockSet)
    BY <2>2, <2>3
  <2> HIDE DEF a, b, added
  <2>6. (locks \o a) \o b = locks \o (a \o b)
    BY <2>4, <2>5, ThreeRuns
  <2> QED
    BY <2>1, <2>6
<1>10. ASSUME NEW kind \in tripped_locks(account, equity, day_start'[day], high_water'), NotActive(kind)
       PROVE  \E k \in DOMAIN added : added[k].kind = kind
  <2>1. kind \in tripped
    BY <1>1, <1>6, <1>10 DEF Tripped
  <2> QED
    BY <2>1, <1>8 DEF OnePerTrip
<1> HIDE DEF added, tripped, day
<1>11. added \in Seq(LockSet) /\ Appends(added, equity, moment)
  BY <1>7, <1>8, <1>9, <1>10 DEF OnePerTrip, Appends, day
<1> QED
  BY <1>1, <1>4, <1>6, <1>11 DEF day

\* What an evaluation keeps: references that do not fall, the locks there were,
\* one active lock per kind, and no review.
MarksKept ==
    /\ DOMAIN day_start' \subseteq Days /\ (\A d \in DOMAIN day_start' : day_start'[d] \in Int)
    /\ \A d \in DOMAIN day_start : d \in DOMAIN day_start' /\ day_start'[d] = day_start[d]
    /\ high_water' \in Int /\ high_water' >= high_water
    /\ locks' \in Seq(LockSet) /\ Len(locks') <= MaxLocks
    /\ \A k \in DOMAIN locks : k \in DOMAIN locks' /\ locks'[k] = locks[k]
    /\ OneActivePerKind'
    /\ Reviewed' => Reviewed

\* _evaluate_locks keeps the marks.
LEMMA EvaluateKeeps ==
    ASSUME account \in Envelopes, high_water \in Int, locks \in Seq(LockSet), Len(locks) + 2 <= MaxLocks,
           DOMAIN day_start \subseteq Days, \A d \in DOMAIN day_start : day_start[d] \in Int,
           OneActivePerKind,
           NEW equity \in Int, NEW moment \in Times, EvaluateLocks(equity, moment)
    PROVE  MarksKept
<1>1. /\ DOMAIN day_start' \subseteq Days /\ (\A d \in DOMAIN day_start' : day_start'[d] \in Int)
      /\ \A d \in DOMAIN day_start : d \in DOMAIN day_start' /\ day_start'[d] = day_start[d]
      /\ high_water' \in Int /\ high_water' >= high_water
  BY Evaluated
<1>a. PICK added \in Seq(LockSet) : Appends(added, equity, moment)
  BY Evaluated
<1>2. /\ locks' = locks \o added /\ Len(added) <= 2
      /\ \A k \in DOMAIN added : NotActive(added[k].kind) /\ ~added[k].reviewed
      /\ \A k, l \in DOMAIN added : added[k].kind = added[l].kind => k = l
  BY <1>a DEF Appends
<1>b. locks \o added \in Seq(LockSet)
  BY ConcatProperties
<1>c. Len(locks) \in Nat /\ Len(added) \in Nat /\ locks' \in Seq(LockSet)
  BY <1>2, <1>b
<1>3. PICK n \in Nat, m \in Nat, new \in Seq(LockSet) : n = Len(locks) /\ m = Len(added) /\ new = locks'
  BY <1>c
<1>4. /\ Len(new) = n + m
      /\ \A k \in 1..(n + m) : new[k] = IF k <= n THEN locks[k] ELSE added[k - n]
  BY <1>2, <1>3, ConcatProperties
<1>5. DOMAIN locks = 1..n /\ DOMAIN added = 1..m /\ DOMAIN new = 1..(n + m)
  BY <1>3, <1>4
<1>6. Len(new) <= MaxLocks
  BY <1>2, <1>3, <1>4, PilotAssumption
<1>7. \A k \in DOMAIN locks : k \in DOMAIN new /\ new[k] = locks[k]
  BY <1>4, <1>5
<1>8. ASSUME NEW k \in DOMAIN new, k \notin DOMAIN locks
      PROVE  k - n \in DOMAIN added /\ new[k] = added[k - n]
  BY <1>4, <1>5, <1>8
<1>9. ASSUME NEW i \in DOMAIN new, NEW j \in DOMAIN new, new[i].kind = new[j].kind,
             ~new[i].reviewed, ~new[j].reviewed
      PROVE  i = j
  <2>1. CASE i \in DOMAIN locks /\ j \in DOMAIN locks
    BY <2>1, <1>7, <1>9 DEF OneActivePerKind
  <2>2. CASE i \in DOMAIN locks /\ j \notin DOMAIN locks
    <3>1. new[i] = locks[i] /\ new[j] = added[j - n] /\ j - n \in DOMAIN added
      BY <2>2, <1>7, <1>8
    <3>2. locks[i].kind \in active_kinds
      BY <2>2, <3>1, <1>9 DEF active_kinds
    <3>3. NotActive(added[j - n].kind)
      BY <1>2, <3>1
    <3> QED
      BY <3>1, <3>2, <3>3, <1>9 DEF NotActive
  <2>3. CASE i \notin DOMAIN locks /\ j \in DOMAIN locks
    <3>1. new[j] = locks[j] /\ new[i] = added[i - n] /\ i - n \in DOMAIN added
      BY <2>3, <1>7, <1>8
    <3>2. locks[j].kind \in active_kinds
      BY <2>3, <3>1, <1>9 DEF active_kinds
    <3>3. NotActive(added[i - n].kind)
      BY <1>2, <3>1
    <3> QED
      BY <3>1, <3>2, <3>3, <1>9 DEF NotActive
  <2>4. CASE i \notin DOMAIN locks /\ j \notin DOMAIN locks
    <3>1. i - n = j - n
      BY <2>4, <1>2, <1>8, <1>9
    <3> QED
      BY <3>1, <1>5
  <2> QED
    BY <2>1, <2>2, <2>3, <2>4
<1>10. OneActivePerKind'
  BY <1>3, <1>9 DEF OneActivePerKind
<1>11. Reviewed' => Reviewed
  <2> SUFFICES ASSUME NEW k \in DOMAIN new, new[k].reviewed
               PROVE  Reviewed
    BY <1>3 DEF Reviewed
  <2>1. k \in DOMAIN locks
    BY <1>2, <1>8
  <2> QED
    BY <2>1, <1>7 DEF Reviewed
<1> QED
  BY <1>1, <1>3, <1>6, <1>7, <1>10, <1>11 DEF MarksKept

\* When the evaluation leaves no lock active, no limit is reached.
LEMMA NoneTripped ==
    ASSUME account \in Envelopes, high_water \in Int, locks \in Seq(LockSet), Len(locks) + 2 <= MaxLocks,
           DOMAIN day_start \subseteq Days, \A d \in DOMAIN day_start : day_start[d] \in Int,
           NEW equity \in Int, NEW moment \in Times, EvaluateLocks(equity, moment),
           "daily_loss" \notin KindsAfter, "drawdown" \notin KindsAfter
    PROVE  /\ \A k \in DOMAIN locks' : locks'[k].reviewed
           /\ ~daily_lock_tripped(account, equity, day_start'[utc_day(moment)])
           /\ ~drawdown_lock_tripped(account, equity, high_water')
<1> DEFINE tripped == tripped_locks(account, equity, day_start'[utc_day(moment)], high_water')
<1>a. PICK added \in Seq(LockSet) : Appends(added, equity, moment)
  BY Evaluated
<1>1. /\ locks' = locks \o added
      /\ \A k \in DOMAIN added : ~added[k].reviewed
      /\ \A kind \in tripped : NotActive(kind) => \E k \in DOMAIN added : added[k].kind = kind
  BY <1>a DEF Appends
<1>b. locks \o added \in Seq(LockSet)
  BY ConcatProperties
<1>c. Len(locks) \in Nat /\ Len(added) \in Nat /\ locks' \in Seq(LockSet)
  BY <1>1, <1>b
<1>2. PICK n \in Nat, m \in Nat, new \in Seq(LockSet) : n = Len(locks) /\ m = Len(added) /\ new = locks'
  BY <1>c
<1>3. /\ Len(new) = n + m
      /\ \A k \in 1..(n + m) : new[k] = IF k <= n THEN locks[k] ELSE added[k - n]
  BY <1>1, <1>2, ConcatProperties
<1>4. DOMAIN locks = 1..n /\ DOMAIN added = 1..m /\ DOMAIN new = 1..(n + m)
  BY <1>2, <1>3
<1>5. ASSUME NEW k \in DOMAIN new, ~new[k].reviewed
      PROVE  FALSE
  <2>1. new[k].kind \in KindsAfter
    BY <1>2, <1>5 DEF KindsAfter
  <2>2. new[k].kind \in Kinds
    <3>1. new[k] \in LockSet
      OBVIOUS
    <3> QED
      BY <3>1 DEF LockSet
  <2> QED
    BY <2>1, <2>2 DEF Kinds
<1>6. \A kind \in tripped : FALSE
  <2> SUFFICES ASSUME NEW kind \in tripped
               PROVE  FALSE
    OBVIOUS
  <2> HIDE DEF tripped
  <2>1. CASE NotActive(kind)
    <3>1. PICK k \in DOMAIN added : added[k].kind = kind
      BY <1>1, <2>1
    <3>2. n + k \in DOMAIN new /\ new[n + k] = added[k]
      BY <1>3, <1>4
    <3> QED
      BY <1>1, <1>5, <3>1, <3>2
  <2>2. CASE ~NotActive(kind)
    <3>1. PICK k \in DOMAIN locks : ~locks[k].reviewed
      BY <2>2 DEF NotActive, active_kinds
    <3>2. k \in DOMAIN new /\ new[k] = locks[k]
      BY <1>3, <1>4
    <3> QED
      BY <1>5, <3>1, <3>2
  <2> QED
    BY <2>1, <2>2
<1>7. "daily_loss" \notin tripped /\ "drawdown" \notin tripped
  <2> HIDE DEF tripped
  <2> QED
    BY <1>6
<1> QED
  BY <1>2, <1>5, <1>7 DEF tripped_locks

-----------------------------------------------------------------------------
(* _find_exit.                                                              *)

\* What a search for an exit of position i returns: the earliest touch, or none
\* and then nothing on record touched.
FoundOf(f, i, moment) ==
    /\ f \in FoundSet
    /\ f # NoExit => Earliest(f) /\ f.position = i
    /\ f = NoExit => Untouched(i, (positions[i].entry_ts + 1)..moment)

\* No exit is a result too.
LEMMA NoExitFound == NoExit \in FoundSet
BY PilotAssumption DEF NoExit, FoundSet, Times

\* _find_exit returns the earliest touching observation, if there is one.
LEMMA FindExitFacts ==
    ASSUME BooksTyped, NEW i \in DOMAIN positions, NEW extras \in SUBSET ObservationSet, NEW moment \in Times
    PROVE  FoundOf(FindExit(i, extras, moment), i, moment)
<1>0. snapshots \in [Times -> Bids \cup {0}] /\ positions \in Seq(PositionSet)
  BY DEF BooksTyped
<1>1. PICK p \in PositionSet : p = positions[i]
  BY <1>0
<1>2. PICK from \in Nat : from = p.entry_ts + 1
  <2>1. p.entry_ts \in Times
    BY DEF PositionSet
  <2>2. p.entry_ts \in Nat
    BY <2>1, TimesNat
  <2> QED
    BY <2>2
<1>3. PICK quotes \in SUBSET ObservationSet : quotes = Observations(extras, from, moment)
  BY <1>0, ObservationsTyped
<1>4. PICK touching \in SUBSET quotes : touching = {o \in quotes : exit_decision(p, o.at, o.bid) # "none"}
  OBVIOUS
<1>5. PICK f : f = FindExit(i, extras, moment)
  OBVIOUS
<1>6. f = IF touching = {} THEN NoExit
          ELSE [position |-> i, exit_ts |-> FirstOf(touching).at, bid |-> FirstOf(touching).bid,
                known |-> {t \in Times : snapshots[t] # 0}]
  BY <1>1, <1>2, <1>3, <1>4, <1>5 DEF FindExit
<1>7. ASSUME NEW t \in Times, snapshots[t] # 0, from <= t, t <= moment,
             exit_decision(p, t, snapshots[t]) # "none"
      PROVE  \E o \in touching : o.at = t
  <2> DEFINE o == [at |-> t, rank |-> 0, bid |-> snapshots[t]]
  <2>1. o.at = t /\ o.bid = snapshots[t]
    OBVIOUS
  <2>2. o \in quotes
    BY <1>3, <1>7 DEF Observations
  <2> QED
    BY <1>4, <1>7, <2>1, <2>2
<1>8. \A t \in (p.entry_ts + 1)..moment : t \in Times /\ from <= t /\ t <= moment
  BY <1>2, TimesNat, PilotAssumption DEF Times
<1>9. CASE touching = {}
  <2>1. f = NoExit
    BY <1>6, <1>9
  <2>2. Untouched(i, (positions[i].entry_ts + 1)..moment)
    BY <1>1, <1>7, <1>8, <1>9 DEF Untouched
  <2> QED
    BY <1>5, <2>1, <2>2, NoExitFound DEF FoundOf
<1>10. CASE touching # {}
  <2>1. PICK first \in touching : first = FirstOf(touching) /\ \A o \in touching : Earlier(first, o)
    BY <1>10, FirstExists
  <2>2. first.at \in Times /\ first.bid \in Nat
    BY DEF ObservationSet
  <2>3. PICK known \in SUBSET Times : known = {t \in Times : snapshots[t] # 0}
    OBVIOUS
  <2>4. f = [position |-> i, exit_ts |-> first.at, bid |-> first.bid, known |-> known]
    BY <1>6, <1>10, <2>1, <2>3
  <2>5. f \in FoundSet /\ f.position = i /\ f.exit_ts = first.at /\ f.known = known
    <3>1. i \in Nat
      BY <1>0
    <3> QED
      BY <2>2, <2>4, <3>1 DEF FoundSet
  <2>6. f # NoExit
    <3>1. i # 0
      BY <1>0
    <3>2. f.position # NoExit.position
      BY <2>5, <3>1 DEF NoExit
    <3> QED
      BY <3>2
  <2>7. ASSUME NEW t \in known \cap (p.entry_ts + 1)..(first.at - 1)
        PROVE  exit_decision(p, t, snapshots[t]) = "none"
    <3> SUFFICES ASSUME exit_decision(p, t, snapshots[t]) # "none"
                 PROVE  FALSE
      OBVIOUS
    <3>1. t \in Nat /\ first.at \in Nat /\ moment \in Nat /\ t < first.at /\ from <= t
      <4>1. t \in Times /\ first.at \in Times /\ moment \in Times
        BY <2>2
      <4>2. t \in Nat /\ first.at \in Nat /\ moment \in Nat
        BY <4>1, TimesNat
      <4>3. t \in from..(first.at - 1)
        BY <1>2
      <4> QED
        BY <4>2, <4>3
    <3>2. first.at <= moment
      BY <1>3 DEF Observations
    <3>3. PICK o \in touching : o.at = t
      BY <1>7, <2>3, <3>1, <3>2
    <3> QED
      BY <2>1, <3>1, <3>3 DEF Earlier
  <2>8. Earliest(f)
    BY <1>1, <2>3, <2>5, <2>7 DEF Earliest, Untouched
  <2> QED
    BY <1>5, <2>5, <2>6, <2>8 DEF FoundOf
<1> QED
  BY <1>9, <1>10

\* What close_positions found among the positions wanted: an exit that is the
\* earliest, and of every one that is open its exit or no touch at all.
Searched(f, wanted, moment) ==
    /\ f \in FoundSet
    /\ f # NoExit => Earliest(f)
    /\ \A i \in Open \cap wanted : f.position = i \/ Untouched(i, (positions[i].entry_ts + 1)..moment)

\* One position is open at most, so that one search is enough.
LEMMA FindExitsFacts ==
    ASSUME BooksTyped, ClosesMatch, NEW wanted, NEW extras \in SUBSET ObservationSet, NEW moment \in Times
    PROVE  Searched(FindExits(wanted, extras, moment), wanted, moment)
<1>1. PICK open : open = Open \cap wanted
  OBVIOUS
<1>2. PICK f : f = FindExits(wanted, extras, moment)
  OBVIOUS
<1>3. f = IF open = {} THEN NoExit ELSE FindExit(CHOOSE i \in open : TRUE, extras, moment)
  BY <1>1, <1>2 DEF FindExits, Open
<1>4. CASE open = {}
  BY <1>1, <1>2, <1>3, <1>4, NoExitFound DEF Searched
<1>5. CASE open # {}
  <2>1. PICK i \in open : i = CHOOSE j \in open : TRUE
    BY <1>5
  <2>2. i \in DOMAIN positions
    BY <1>1 DEF Open, OpenPositions
  <2>3. FoundOf(f, i, moment)
    BY <1>3, <1>5, <2>1, <2>2, FindExitFacts
  <2>4. \A j \in open : j = i
    BY <1>1 DEF ClosesMatch
  <2> QED
    BY <1>1, <1>2, <2>3, <2>4 DEF FoundOf, Searched
<1> QED
  BY <1>4, <1>5

-----------------------------------------------------------------------------
(* The inductive invariant holds initially.                                 *)

\* The inductive invariant holds initially.
LEMMA PilotInitInv == PilotInit => PilotIInv
<1> SUFFICES ASSUME PilotInit
             PROVE  PilotIInv
  OBVIOUS
<1>0. 0 \in Times /\ MaxPositions \in Nat /\ MaxLocks \in Nat
  BY PilotAssumption DEF Times
<1>1. BooksTyped
  <2>1. snapshots \in [Times -> Bids \cup {0}]
    BY DEF PilotInit
  <2>2. DOMAIN day_start = {}
    BY DEF PilotInit
  <2>3. high_water \in Int
    BY DEF PilotInit, NoMark
  <2>4. positions \in Seq(PositionSet) /\ closes \in Seq(CloseSet) /\ locks \in Seq(LockSet)
    BY DEF PilotInit
  <2>5. Len(positions) = 0 /\ Len(locks) = 0
    BY DEF PilotInit
  <2> QED
    BY <1>0, <2>1, <2>2, <2>3, <2>4, <2>5 DEF PilotInit, BooksTyped
<1>2. NothingBefore
  BY DEF PilotInit, NothingBefore
<1>3. DOMAIN positions = {} /\ DOMAIN closes = {} /\ DOMAIN locks = {}
  BY DEF PilotInit
<1>4. Open = {}
  BY <1>3 DEF Open, OpenPositions
<1>5. ClosesMatch /\ OneActivePerKind /\ ClosesEarliest
  BY <1>3, <1>4 DEF ClosesMatch, Closed, OneActivePerKind, ClosesEarliest
<1>6. LossPlanned /\ DrawdownBounded
  BY <1>4 DEF LossPlanned, DrawdownBounded, PilotInit
<1>7. HeartbeatFits(hb)
  <2>1. hb = HeartbeatIdle
    BY DEF PilotInit
  <2> QED
    BY <1>0, <2>1, NoExitFound DEF HeartbeatFits, HeartbeatIdle, HeartbeatSet
<1>8. MonitorFits(mon)
  <2>1. mon = MonitorIdle
    BY DEF PilotInit
  <2> QED
    BY <1>0, <2>1, NoExitFound DEF MonitorFits, MonitorIdle, MonitorSet
<1> QED
  BY <1>1, <1>2, <1>5, <1>6, <1>7, <1>8 DEF PilotIInv, BooksInv

-----------------------------------------------------------------------------
(* What the locals need of a step on the books.                             *)

\* Positions and snapshots on record stay as they are.
Grows ==
    /\ \A i \in DOMAIN positions : i \in DOMAIN positions' /\ positions'[i] = positions[i]
    /\ \A t \in Times : snapshots[t] # 0 => snapshots'[t] = snapshots[t]

\* An earliest exit stays the earliest of what it knew.
LEMMA EarliestKept ==
    ASSUME Grows, NEW c, c.known \subseteq Times, Earliest(c)
    PROVE  Earliest(c)'
<1>1. c.position \in DOMAIN positions' /\ positions'[c.position] = positions[c.position]
  BY DEF Grows, Earliest
<1>2. \A t \in c.known : snapshots[t] # 0 /\ snapshots'[t] = snapshots[t]
  BY DEF Grows, Earliest
<1> QED
  BY <1>1, <1>2 DEF Earliest, Untouched

\* The books, when a step leaves them.
LEMMA BooksSame ==
    ASSUME BooksInv, UNCHANGED <<snapshots, bookVars>>, now' \in Times
    PROVE  BooksInv'
<1> USE DEF bookVars, marksVars
<1>0. UNCHANGED <<snapshots, account, decided, positions, closes, day_start, high_water, locks>>
  OBVIOUS
<1>1. BooksTyped'
  BY <1>0 DEF BooksInv, BooksTyped
<1>2. NothingBefore' /\ ClosesMatch' /\ OneActivePerKind'
  BY <1>0 DEF BooksInv, NothingBefore, ClosesMatch, OneActivePerKind, Open
<1>3. ClosesEarliest'
  BY <1>0 DEF BooksInv, ClosesEarliest, Earliest, Untouched
<1>4. Balance(closes)' = Balance(closes)
  BY <1>0 DEF Balance
<1>5. LossPlanned'
  BY <1>0, <1>4 DEF BooksInv, LossPlanned, Open, Reviewed, Limit
<1>6. DrawdownBounded'
  BY <1>0, <1>4 DEF BooksInv, DrawdownBounded, Gap
<1> QED
  BY <1>1, <1>2, <1>3, <1>5, <1>6 DEF BooksInv

\* A heartbeat that fits goes on to when the books do not change for it.
LEMMA HeartbeatSame ==
    ASSUME UNCHANGED <<snapshots, positions>>, account # NoAccount => account' # NoAccount,
           Open' \subseteq Open, NEW h, HeartbeatFits(h)
    PROVE  HeartbeatFits(h)'
<1>1. Grows
  BY DEF Grows
<1>2. h.found # NoExit => Earliest(h.found)'
  <2>1. h.found.known \subseteq Times
    BY DEF HeartbeatFits, HeartbeatSet, FoundSet
  <2>2. PICK f : f = h.found
    OBVIOUS
  <2>3. f # NoExit => Earliest(f)'
    BY <1>1, <2>1, <2>2, EarliestKept DEF HeartbeatFits
  <2> QED
    BY <2>2, <2>3
<1>3. \A i : \A ts : Untouched(i, ts) => Untouched(i, ts)'
  BY DEF Untouched
<1> QED
  BY <1>2, <1>3 DEF HeartbeatFits

\* And a monitor, while snapshots and positions are only added.
LEMMA MonitorGrows ==
    ASSUME Grows, account # NoAccount => account' # NoAccount, NEW m, MonitorFits(m)
    PROVE  MonitorFits(m)'
<1>1. m.found # NoExit => Earliest(m.found)'
  <2>1. m.found.known \subseteq Times
    BY DEF MonitorFits, MonitorSet, FoundSet
  <2>2. PICK f : f = m.found
    OBVIOUS
  <2>3. f # NoExit => Earliest(f)'
    BY <2>1, <2>2, EarliestKept DEF MonitorFits
  <2> QED
    BY <2>2, <2>3
<1> QED
  BY <1>1 DEF MonitorFits

\* A step that leaves the books and ends with locals that fit them.
LEMMA LocalStep ==
    ASSUME BooksInv, UNCHANGED <<snapshots, bookVars>>, now' \in Times,
           NEW h, NEW m, h = hb', m = mon', HeartbeatFits(h), MonitorFits(m)
    PROVE  PilotIInv'
<1> USE DEF bookVars, marksVars
<1>1. UNCHANGED <<snapshots, account, positions, closes>>
  OBVIOUS
<1>2. Open' \subseteq Open /\ Grows
  BY <1>1 DEF Open, Grows
<1>3. HeartbeatFits(h)'
  BY <1>1, <1>2, HeartbeatSame
<1>4. MonitorFits(m)'
  BY <1>1, <1>2, MonitorGrows
<1>5. HeartbeatFits(hb)' /\ MonitorFits(mon)'
  BY <1>3, <1>4 DEF HeartbeatFits, MonitorFits
<1> QED
  BY <1>5, BooksSame DEF PilotIInv

\* The idle locals fit any books.
LEMMA IdleFits == HeartbeatFits(HeartbeatIdle) /\ MonitorFits(MonitorIdle)
<1>1. 0 \in Times
  BY PilotAssumption DEF Times
<1>2. HeartbeatIdle \in HeartbeatSet /\ HeartbeatIdle.pc = "idle" /\ HeartbeatIdle.found = NoExit
      /\ ~HeartbeatIdle.settled
  BY <1>1, NoExitFound DEF HeartbeatIdle, HeartbeatSet
<1>3. MonitorIdle \in MonitorSet /\ MonitorIdle.pc = "idle" /\ MonitorIdle.found = NoExit
  BY <1>1, NoExitFound DEF MonitorIdle, MonitorSet
<1> QED
  BY <1>2, <1>3 DEF HeartbeatFits, MonitorFits

\* The steps that change nothing but the threads' locals, the clock and the
\* kill switch.
LocalNext ==
    \/ HeartbeatStart \/ SettleFails \/ EndCycle
    \/ Watch \/ Quoted \/ MonitorFind \/ TickFails
    \/ engage_kill_switch \/ release_kill_switch \/ Clock \/ Restart

\* The steps on locals keep the inductive invariant.
LEMMA LocalKeeps ==
    ASSUME PilotIInv, LocalNext
    PROVE  PilotIInv'
<1> USE DEF PilotIInv
<1>0. now \in Times /\ MaxTime \in Nat
  BY PilotAssumption DEF BooksInv, BooksTyped
<1>1. CASE HeartbeatStart
  <2>1. PICK envelope \in Envelopes :
           hb' = [HeartbeatIdle EXCEPT !.pc = "record", !.ts = now, !.envelope = envelope]
    BY <1>1 DEF HeartbeatStart
  <2>2. PICK h : h = hb'
    OBVIOUS
  <2>3. h \in HeartbeatSet /\ h.pc = "record" /\ h.found = NoExit /\ h.envelope \in Envelopes /\ ~h.settled
    BY <1>0, <2>1, <2>2, IdleFits DEF HeartbeatFits, HeartbeatSet, HeartbeatIdle
  <2>4. HeartbeatFits(h)
    BY <2>3 DEF HeartbeatFits
  <2> QED
    BY <1>0, <1>1, <2>2, <2>4, LocalStep DEF HeartbeatStart
<1>2. CASE SettleFails
  <2>1. PICK h : h = hb'
    OBVIOUS
  <2>2. /\ h \in HeartbeatSet /\ h.pc = "open" /\ h.found = NoExit /\ h.envelope \in Envelopes
        /\ h.settled = hb.settled /\ h.ts = hb.ts
    BY <1>2, <2>1, NoExitFound DEF SettleFails, HeartbeatFits, HeartbeatSet
  <2>3. ~h.settled
    BY <1>2, <2>2 DEF SettleFails, HeartbeatFits
  <2>4. HeartbeatFits(h)
    BY <2>2, <2>3 DEF HeartbeatFits
  <2> QED
    BY <1>0, <1>2, <2>1, <2>4, LocalStep DEF SettleFails
<1>3. CASE EndCycle
  BY <1>0, <1>3, IdleFits, LocalStep DEF EndCycle
<1>4. CASE Watch
  <2>1. PICK m : m = mon'
    OBVIOUS
  <2>2. Open \subseteq Nat
    <3>1. positions \in Seq(PositionSet)
      BY DEF BooksInv, BooksTyped
    <3> QED
      BY <3>1 DEF Open, OpenPositions
  <2>3. m = [MonitorIdle EXCEPT !.pc = "request", !.watched = Open]
    BY <1>4, <2>1 DEF Watch, Open
  <2>4. m \in MonitorSet /\ m.found = NoExit
    BY <2>2, <2>3, IdleFits DEF MonitorFits, MonitorSet, MonitorIdle
  <2>5. account # NoAccount
    BY <1>4 DEF Watch
  <2>6. MonitorFits(m)
    BY <2>4, <2>5 DEF MonitorFits
  <2> QED
    BY <1>0, <1>4, <2>1, <2>6, LocalStep DEF Watch
<1>5. CASE Quoted
  <2>1. PICK bid \in Bids : mon' = [mon EXCEPT !.pc = "find", !.at = now, !.bid = bid]
    BY <1>5 DEF Quoted
  <2>2. PICK m : m = mon'
    OBVIOUS
  <2>3. bid \in Nat
    BY QuoteAssumption
  <2>4. m \in MonitorSet /\ m.found = mon.found
    BY <1>0, <2>1, <2>2, <2>3 DEF MonitorFits, MonitorSet
  <2>5. account # NoAccount
    BY <1>5 DEF Quoted, MonitorFits
  <2>6. MonitorFits(m)
    BY <2>4, <2>5 DEF MonitorFits
  <2> QED
    BY <1>0, <1>5, <2>2, <2>6, LocalStep DEF Quoted
<1>6. CASE MonitorFind
  <2>1. PICK m : m = mon'
    OBVIOUS
  <2>2. Extras \in SUBSET ObservationSet
    BY DEF Extras, ObservationSet, MonitorFits, MonitorSet
  <2>3. PICK f : f = FindExits(mon.watched, Extras, now) /\ Searched(f, mon.watched, now)
    <3>1. BooksTyped /\ ClosesMatch
      BY DEF BooksInv
    <3> QED
      BY <1>0, <2>2, <3>1, FindExitsFacts
  <2>4. m = [mon EXCEPT !.pc = "write", !.now = now, !.found = f]
    BY <1>6, <2>1, <2>3 DEF MonitorFind
  <2>5. m \in MonitorSet /\ m.found = f
    BY <1>0, <2>3, <2>4 DEF MonitorFits, MonitorSet, Searched
  <2>6. account # NoAccount
    BY <1>6 DEF MonitorFind, MonitorFits
  <2>7. MonitorFits(m)
    BY <2>3, <2>5, <2>6 DEF MonitorFits, Searched
  <2> QED
    BY <1>0, <1>6, <2>1, <2>7, LocalStep DEF MonitorFind
<1>7. CASE TickFails
  BY <1>0, <1>7, IdleFits, LocalStep DEF TickFails
<1>8. CASE engage_kill_switch
  BY <1>0, <1>8, LocalStep DEF engage_kill_switch
<1>9. CASE release_kill_switch
  BY <1>0, <1>9, LocalStep DEF release_kill_switch
<1>10. CASE Clock
  <2>1. now' \in Times
    BY <1>0, <1>10 DEF Clock, Times
  <2> QED
    BY <1>10, <2>1, LocalStep DEF Clock
<1>11. CASE Restart
  BY <1>0, <1>11, IdleFits, LocalStep DEF Restart
<1> QED
  BY <1>1, <1>2, <1>3, <1>4, <1>5, <1>6, <1>7, <1>8, <1>9, <1>10, <1>11 DEF LocalNext

\* RecordSnapshot: the quote of a cycle is recorded once, and before its settle.
LEMMA RecordKeeps ==
    ASSUME PilotIInv, RecordSnapshot
    PROVE  PilotIInv'
<1> USE DEF PilotIInv, bookVars, marksVars
<1>0. /\ UNCHANGED <<now, account, decided, positions, closes, day_start, high_water, locks, mon>>
      /\ hb.pc = "record" /\ hb' = [hb EXCEPT !.pc = "settle"]
  BY DEF RecordSnapshot
<1>1. snapshots \in [Times -> Bids \cup {0}] /\ hb.ts \in Times
  BY DEF BooksInv, BooksTyped, HeartbeatFits, HeartbeatSet
<1>2. snapshots' \in [Times -> Bids \cup {0}] /\ \A t \in Times : snapshots[t] # 0 => snapshots'[t] = snapshots[t]
  BY <1>1 DEF RecordSnapshot
<1>3. Grows
  BY <1>0, <1>2 DEF Grows
<1>4. BooksTyped'
  BY <1>0, <1>2 DEF BooksInv, BooksTyped
<1>5. NothingBefore' /\ ClosesMatch' /\ OneActivePerKind'
  BY <1>0 DEF BooksInv, NothingBefore, ClosesMatch, OneActivePerKind, Open
<1>6. ClosesEarliest'
  <2> SUFFICES ASSUME NEW k \in DOMAIN closes
               PROVE  Earliest(closes[k])'
    BY <1>0 DEF ClosesEarliest
  <2>1. PICK c : c = closes[k]
    OBVIOUS
  <2>2. c \in CloseSet /\ Earliest(c)
    BY <2>1 DEF BooksInv, BooksTyped, ClosesEarliest
  <2>3. c.known \subseteq Times
    BY <2>2 DEF CloseSet
  <2>4. Earliest(c)'
    BY <1>3, <2>2, <2>3, EarliestKept
  <2>5. c = closes'[k]
    BY <1>0, <2>1
  <2> QED
    BY <2>4, <2>5 DEF Earliest
<1>7. Balance(closes)' = Balance(closes)
  BY <1>0 DEF Balance
<1>8. LossPlanned'
  BY <1>0, <1>7 DEF BooksInv, LossPlanned, Open, Reviewed, Limit
<1>9. DrawdownBounded'
  BY <1>0, <1>7 DEF BooksInv, DrawdownBounded, Gap
<1>10. MonitorFits(mon)'
  <2>1. PICK m : m = mon
    OBVIOUS
  <2>2. MonitorFits(m)'
    BY <1>0, <1>3, <2>1, MonitorGrows
  <2>3. m = mon'
    BY <1>0, <2>1
  <2> QED
    BY <2>2, <2>3 DEF MonitorFits
<1>11. HeartbeatFits(hb)'
  <2>1. PICK h : h = hb'
    OBVIOUS
  <2>2. /\ h \in HeartbeatSet /\ h.pc = "settle" /\ h.found = hb.found /\ h.envelope \in Envelopes /\ ~h.settled
        /\ h.found.known \subseteq Times
    BY <1>0, <2>1 DEF HeartbeatFits, HeartbeatSet, FoundSet
  <2>3. PICK f : f = h.found
    OBVIOUS
  <2>4. f # NoExit => Earliest(f)'
    BY <1>3, <2>2, <2>3, EarliestKept DEF HeartbeatFits
  <2>5. h.found # NoExit => Earliest(h.found)'
    BY <2>3, <2>4
  <2>6. HeartbeatFits(h)'
    BY <2>2, <2>5 DEF HeartbeatFits
  <2> QED
    BY <2>1, <2>6 DEF HeartbeatFits
<1> QED
  BY <1>4, <1>5, <1>6, <1>8, <1>9, <1>10, <1>11 DEF BooksInv

\* With no close the balance is the assigned equity.
LEMMA FreshBalance == account \in Envelopes /\ closes = <<>> => Balance(closes) = account.equity
<1> SUFFICES ASSUME account \in Envelopes, closes = <<>>
             PROVE  Balance(closes) = account.equity
  OBVIOUS
<1> DEFINE f == [i \in DOMAIN closes |-> closes[i].net]
<1>1. DOMAIN f = {}
  OBVIOUS
<1>2. Balance(closes) = account.equity + SumFunction(f)
  BY DEF Balance
<1> HIDE DEF f
<1>3. SumFunction(f) = 0
  BY <1>1, SumFunctionEmpty
<1> QED
  BY <1>2, <1>3, EnvelopeFacts

\* The assigned equity is above both of the limits it sets.
LEMMA AboveLimits ==
    ASSUME NEW e \in Envelopes
    PROVE  e.equity >= (((e.equity * (BPS - e.drawdown_pct)) \div BPS) * (BPS - e.per_entry_loss_pct)) \div BPS - 1
<1>0. BPS = 10000 /\ PriceUnits \in Nat \ {0}
  BY RiskAssumption DEF BPS
<1>1. PICK q \in Nat, d \in 1..300, p \in 1..25 : q = e.equity /\ d = e.drawdown_pct /\ p = e.per_entry_loss_pct
  <2>1. e.equity \in Nat /\ e.drawdown_pct \in 1..300 /\ e.per_entry_loss_pct \in 1..25
    BY EnvelopeFacts
  <2> QED
    BY <2>1, Zenon
<1>2. q * (10000 - d) <= q * 10000 /\ q * (10000 - d) \in Nat
  OBVIOUS
<1>3. PICK L \in Nat : L = (q * (10000 - d)) \div 10000 /\ L <= q
  BY <1>2
<1>4. L * (10000 - p) <= L * 10000 /\ L * (10000 - p) \in Nat
  OBVIOUS
<1>5. (L * (10000 - p)) \div 10000 <= L /\ (L * (10000 - p)) \div 10000 \in Nat
  BY <1>4
<1>6. q >= (L * (10000 - p)) \div 10000 - 1
  BY <1>3, <1>5
<1> QED
  BY <1>0, <1>1, <1>3, <1>6

\* ensure_account: a fresh account has its first mark and no loss behind it.
LEMMA EnsureKeeps ==
    ASSUME BooksInv, NEW envelope \in Envelopes, EnsureAccount(envelope),
           UNCHANGED <<now, snapshots, decided, positions, closes, day_start, locks>>
    PROVE  BooksInv' /\ account' # NoAccount
<1>0. PriceUnits \in Nat \ {0}
  BY RiskAssumption
<1>1. CASE account # NoAccount
  <2>1. UNCHANGED <<now, snapshots, account, decided, positions, closes, day_start, high_water, locks>>
    BY <1>1 DEF EnsureAccount
  <2>2. Balance(closes)' = Balance(closes)
    BY <2>1 DEF Balance
  <2>3. BooksTyped' /\ NothingBefore' /\ ClosesMatch' /\ OneActivePerKind'
    BY <2>1 DEF BooksInv, BooksTyped, NothingBefore, ClosesMatch, OneActivePerKind, Open
  <2>4. ClosesEarliest'
    BY <2>1 DEF BooksInv, ClosesEarliest, Earliest, Untouched
  <2>5. LossPlanned'
    BY <2>1, <2>2 DEF BooksInv, LossPlanned, Open, Reviewed, Limit
  <2>6. DrawdownBounded'
    BY <2>1, <2>2 DEF BooksInv, DrawdownBounded, Gap
  <2> QED
    BY <1>1, <2>1, <2>3, <2>4, <2>5, <2>6 DEF BooksInv
<1>2. CASE account = NoAccount
  <2>1. account' = envelope /\ high_water' = envelope.equity * PriceUnits
    BY <1>2 DEF EnsureAccount
  <2>2. positions = <<>> /\ locks = <<>>
    BY <1>2 DEF BooksInv, NothingBefore
  <2>3. closes \in Seq(CloseSet) /\ Closed(closes) = {}
    BY <2>2 DEF BooksInv, ClosesMatch, BooksTyped
  <2>4. closes = <<>>
    <3>1. DOMAIN closes = {}
      BY <2>3 DEF Closed
    <3>2. Len(closes) = 0
      BY <2>3, <3>1
    <3> QED
      BY <2>3, <3>2
  <2>5. high_water' \in Int
    BY <1>0, <2>1, EnvelopeFacts
  <2>6. BooksTyped'
    BY <2>1, <2>5 DEF BooksInv, BooksTyped
  <2>7. account' # NoAccount
    BY <2>1, EnvelopeFacts
  <2>8. NothingBefore' /\ ClosesMatch' /\ OneActivePerKind'
    BY <2>7 DEF BooksInv, NothingBefore, ClosesMatch, OneActivePerKind, Open
  <2>9. ClosesEarliest'
    BY DEF BooksInv, ClosesEarliest, Earliest, Untouched
  <2>10. Open' = {}
    BY <2>2 DEF Open, OpenPositions
  <2>11. LossPlanned'
    <3>1. envelope.equity * PriceUnits \in Int
      BY <2>1, <2>5
    <3>2. high_water' >= account'.equity * PriceUnits
      BY <2>1, <3>1
    <3> QED
      BY <2>10, <3>2 DEF LossPlanned
  <2>12. DrawdownBounded'
    <3>1. Balance(closes)' = account'.equity
      <4>1. account' \in Envelopes /\ closes' = <<>>
        BY <2>1, <2>4
      <4>2. (account \in Envelopes /\ closes = <<>>)' => (Balance(closes) = account.equity)'
        BY FreshBalance, PTL
      <4> QED
        BY <4>1, <4>2
    <3>2. account'.equity >= (((account'.equity * (BPS - account'.drawdown_pct)) \div BPS)
                                * (BPS - account'.per_entry_loss_pct)) \div BPS - 1
      BY <2>1, AboveLimits
    <3> QED
      BY <3>1, <3>2 DEF DrawdownBounded
  <2> QED
    BY <2>6, <2>7, <2>8, <2>9, <2>11, <2>12 DEF BooksInv
<1> QED
  BY <1>1, <1>2

\* The step of the settle that makes sure of the account and looks for an exit.
LEMMA SettleFindKeeps ==
    ASSUME PilotIInv, SettleFind
    PROVE  PilotIInv'
<1> USE DEF PilotIInv
<1>0. /\ UNCHANGED <<now, snapshots, decided, positions, closes, day_start, locks, mon>>
      /\ EnsureAccount(hb.envelope) /\ hb.pc = "settle"
      /\ hb' = [hb EXCEPT !.pc = "write", !.found = FindExits(DOMAIN positions, {}, hb.ts)]
  BY DEF SettleFind
<1>1. hb.envelope \in Envelopes /\ hb.ts \in Times /\ hb \in HeartbeatSet /\ ~hb.settled
  BY <1>0 DEF HeartbeatFits, HeartbeatSet
<1>2. BooksInv' /\ account' # NoAccount
  <2>1. PICK envelope \in Envelopes : envelope = hb.envelope
    BY <1>1
  <2> QED
    BY <1>0, <2>1, EnsureKeeps
<1>3. PICK f : f = FindExits(DOMAIN positions, {}, hb.ts) /\ Searched(f, DOMAIN positions, hb.ts)
  <2>1. BooksTyped /\ ClosesMatch
    BY DEF BooksInv
  <2>2. PICK extras \in SUBSET ObservationSet : extras = {}
    OBVIOUS
  <2>3. PICK wanted : wanted = DOMAIN positions
    OBVIOUS
  <2>4. Searched(FindExits(wanted, extras, hb.ts), wanted, hb.ts)
    BY <1>1, <2>1, FindExitsFacts
  <2> QED
    BY <2>2, <2>3, <2>4
<1>4. Grows /\ Open' = Open /\ Open \cap DOMAIN positions = Open
  BY <1>0 DEF Grows, Open, OpenPositions
<1>5. MonitorFits(mon)'
  <2>1. PICK m : m = mon
    OBVIOUS
  <2>2. MonitorFits(m)'
    BY <1>2, <1>4, <2>1, MonitorGrows
  <2>3. m = mon'
    BY <1>0, <2>1
  <2> QED
    BY <2>2, <2>3 DEF MonitorFits
<1>6. HeartbeatFits(hb)'
  <2>1. PICK h : h = hb'
    OBVIOUS
  <2>2. h = [hb EXCEPT !.pc = "write", !.found = f]
    BY <1>0, <1>3, <2>1
  <2>3. /\ h \in HeartbeatSet /\ h.pc = "write" /\ h.found = f /\ h.envelope \in Envelopes /\ ~h.settled
        /\ h.ts = hb.ts
    BY <1>1, <1>3, <2>2 DEF Searched, HeartbeatSet
  <2>4. f # NoExit => Earliest(f)'
    <3>1. f.known \subseteq Times
      BY <1>3 DEF Searched, FoundSet
    <3> QED
      BY <1>3, <1>4, <3>1, EarliestKept DEF Searched
  <2>5. \A i \in Open : f.position = i \/ Untouched(i, (positions[i].entry_ts + 1)..hb.ts)
    BY <1>3, <1>4 DEF Searched
  <2>6. \A i \in Open' : h.found.position = i \/ Untouched(i, (positions[i].entry_ts + 1)..h.ts)'
    BY <1>0, <1>4, <2>3, <2>5 DEF Untouched
  <2>7. HeartbeatFits(h)'
    BY <1>2, <2>3, <2>4, <2>6 DEF HeartbeatFits
  <2> QED
    BY <2>1, <2>7 DEF HeartbeatFits
<1> QED
  BY <1>2, <1>5, <1>6

\* open_candidates makes sure of the account too.
LEMMA OpenPreparesKeeps ==
    ASSUME PilotIInv, OpenPrepares
    PROVE  PilotIInv'
<1> USE DEF PilotIInv
<1>0. /\ UNCHANGED <<now, snapshots, decided, positions, closes, day_start, locks, hb, mon>>
      /\ EnsureAccount(hb.envelope) /\ hb.pc = "open"
  BY DEF OpenPrepares
<1>1. BooksInv' /\ account' # NoAccount
  <2>1. PICK envelope \in Envelopes : envelope = hb.envelope
    BY <1>0 DEF HeartbeatFits
  <2> QED
    BY <1>0, <2>1, EnsureKeeps
<1>2. Grows /\ Open' \subseteq Open
  BY <1>0 DEF Grows, Open
<1>3. PICK h, m : h = hb /\ m = mon
  OBVIOUS
<1>4. HeartbeatFits(h)' /\ MonitorFits(m)'
  BY <1>0, <1>1, <1>2, <1>3, HeartbeatSame, MonitorGrows
<1>5. h = hb' /\ m = mon'
  BY <1>0, <1>3
<1>6. HeartbeatFits(hb)' /\ MonitorFits(mon)'
  BY <1>4, <1>5 DEF HeartbeatFits, MonitorFits
<1> QED
  BY <1>1, <1>6

-----------------------------------------------------------------------------
(* The transactions that evaluate the locks.                                *)

\* An evaluation records no review and forgets none.
LEMMA ReviewedSame ==
    ASSUME MarksKept
    PROVE  Reviewed' <=> Reviewed
<1>1. Reviewed => Reviewed'
  BY DEF MarksKept, Reviewed
<1> QED
  BY <1>1 DEF MarksKept

\* The books, when only marks and locks are added.
LEMMA MarksOnly ==
    ASSUME BooksInv, account # NoAccount, MarksKept,
           UNCHANGED <<now, snapshots, account, positions, closes>>, decided \subseteq decided', decided' \subseteq Events
    PROVE  BooksInv'
<1>1. BooksTyped'
  BY DEF BooksInv, BooksTyped, MarksKept
<1>2. NothingBefore' /\ ClosesMatch' /\ OneActivePerKind'
  <2>1. {positions'[i].event : i \in DOMAIN positions'} \subseteq decided'
    BY DEF BooksInv, ClosesMatch
  <2> QED
    BY <2>1 DEF BooksInv, NothingBefore, ClosesMatch, Open, MarksKept
<1>3. ClosesEarliest'
  BY DEF BooksInv, ClosesEarliest, Earliest, Untouched
<1>4. Balance(closes)' = Balance(closes)
  BY DEF Balance
<1>5. LossPlanned'
  <2>1. ~Reviewed' => high_water' >= account'.equity * PriceUnits
    <3>1. high_water \in Int /\ high_water' \in Int /\ high_water' >= high_water
      BY DEF BooksInv, BooksTyped, MarksKept
    <3>2. PICK n \in Int : n = account.equity * PriceUnits
      <4>1. account \in Envelopes
        BY DEF BooksInv, BooksTyped
      <4> QED
        BY <4>1, EnvelopeFacts, RiskAssumption
    <3>3. ~Reviewed => high_water >= n
      BY <3>2 DEF BooksInv, LossPlanned
    <3>4. ~Reviewed' => high_water' >= n
      BY <3>1, <3>3, ReviewedSame
    <3> QED
      BY <3>2, <3>4
  <2>2. Open' = Open /\ Limit' = Limit
    BY DEF Open, Limit
  <2> QED
    BY <1>4, <2>1, <2>2, ReviewedSame DEF BooksInv, LossPlanned
<1>6. DrawdownBounded'
  <2>1. (\A i \in DOMAIN locks' : ~locks'[i].reviewed) => (\A i \in DOMAIN locks : ~locks[i].reviewed)
    BY ReviewedSame DEF Reviewed
  <2> QED
    BY <1>4, <2>1 DEF BooksInv, DrawdownBounded, Gap
<1> QED
  BY <1>1, <1>2, <1>3, <1>5, <1>6 DEF BooksInv

\* What a settlement returns is a number of cents.
LEMMA SettleInt ==
    ASSUME NEW q \in Nat, NEW ask \in Nat, NEW bid \in Nat
    PROVE  settle_long(q, ask, bid, Fee) \in Int
<1>1. PICK stop \in Nat : stop = 0
  OBVIOUS
<1>2. stop * StressNum <= bid * StressDen
  BY <1>1 DEF StressNum, StressDen
<1> QED
  BY <1>2, SettleBound

\* The close that _write_close records.
LEMMA SettledFacts ==
    ASSUME BooksTyped, NEW found \in FoundSet, found.position \in DOMAIN positions
    PROVE  /\ Settled(found) \in CloseSet
           /\ Settled(found).position = found.position /\ Settled(found).exit_ts = found.exit_ts
           /\ Settled(found).known = found.known /\ Settled(found).bid = found.bid
           /\ Settled(found).net
                = settle_long(positions[found.position].quantity, positions[found.position].ask, found.bid, Fee)
<1>1. PICK p \in PositionSet : p = positions[found.position]
  BY DEF BooksTyped
<1>2. p.quantity \in Nat /\ p.ask \in Nat /\ found.bid \in Nat
  BY DEF PositionSet, FoundSet
<1>3. PICK net \in Int : net = settle_long(p.quantity, p.ask, found.bid, Fee)
  BY <1>2, SettleInt
<1>4. Settled(found) = [position |-> found.position, exit_ts |-> found.exit_ts, bid |-> found.bid,
                        known |-> found.known, net |-> net]
  BY <1>1, <1>3 DEF Settled
<1>5. found.position \in Nat /\ found.exit_ts \in Times /\ found.known \in SUBSET Times
  BY DEF FoundSet
<1> QED
  BY <1>1, <1>2, <1>3, <1>4, <1>5 DEF CloseSet

\* A close without a gap costs at most the loss that was planned: the balance
\* stays within one planned loss of the drawdown limit.
LEMMA CloseBounded ==
    ASSUME BooksInv, account \in Envelopes, ~Reviewed, NEW i \in Open, NEW c \in CloseSet, c.position = i,
           c.net = settle_long(positions[i].quantity, positions[i].ask, c.bid, Fee), ~Gap(c)
    PROVE  Balance(Append(closes, c)) >= (Limit * (BPS - account.per_entry_loss_pct)) \div BPS - 1
<1>0. BooksTyped /\ closes \in Seq(CloseSet) /\ i \in DOMAIN positions
  BY DEF BooksInv, BooksTyped, Open, OpenPositions
<1>1. PICK p \in PositionSet : p = positions[i]
  BY <1>0 DEF BooksTyped
<1>2. p.quantity \in Nat /\ p.ask \in Nat /\ p.stop \in Nat /\ c.bid \in Nat /\ c.net \in Int
  BY DEF PositionSet, CloseSet
<1>3. p.stop * StressNum <= c.bid * StressDen
  <2>1. p.stop * StressNum \in Int /\ c.bid * StressDen \in Int
    BY <1>2 DEF StressNum, StressDen
  <2>2. ~(c.bid * StressDen < p.stop * StressNum)
    BY <1>1 DEF Gap
  <2> QED
    BY <2>1, <2>2
<1>4. PICK pl \in Int : pl = Planned(p.quantity, p.ask, p.stop) /\ c.net * (PriceUnits * BPS) >= -pl - PriceUnits * BPS
  BY <1>1, <1>2, <1>3, SettleBound
<1>5. PICK B \in Int : B = Balance(closes)
  BY <1>0, BalanceInt
<1>6. Limit <= B /\ pl <= B * PriceUnits * account.per_entry_loss_pct
  BY <1>1, <1>4, <1>5 DEF BooksInv, LossPlanned
<1>7. Limit \in Int
  <2>1. PICK e \in Nat, d \in 1..300 : e = account.equity /\ d = account.drawdown_pct
    BY EnvelopeFacts
  <2>2. (e * (10000 - d)) \div 10000 \in Int
    OBVIOUS
  <2> QED
    BY <2>1, <2>2 DEF Limit, BPS
<1>8. account.per_entry_loss_pct \in 1..25
  BY EnvelopeFacts
<1>9. B + c.net >= (Limit * (BPS - account.per_entry_loss_pct)) \div BPS - 1
  BY <1>2, <1>4, <1>6, <1>7, <1>8, BalanceBound
<1> QED
  BY <1>0, <1>5, <1>9, BalanceAppend

\* _write_close for the open position: the account is flat again, one close more.
LEMMA CloseWritten ==
    ASSUME BooksInv, account \in Envelopes, MarksKept, NEW found \in FoundSet, Earliest(found),
           found.position \notin Closed(closes), closes' = Append(closes, Settled(found)),
           UNCHANGED <<now, snapshots, account, decided, positions>>
    PROVE  BooksInv' /\ Open' \subseteq Open \ {found.position}
<1>0. BooksTyped /\ closes \in Seq(CloseSet) /\ positions \in Seq(PositionSet)
  BY DEF BooksInv, BooksTyped
<1>1. PICK i : i = found.position
  OBVIOUS
<1>2. i \in DOMAIN positions /\ i \in Open
  BY <1>1 DEF Earliest, Open, OpenPositions
<1>3. PICK c \in CloseSet : /\ c = Settled(found) /\ c.position = i /\ c.exit_ts = found.exit_ts
                            /\ c.known = found.known
                            /\ c.net = settle_long(positions[i].quantity, positions[i].ask, c.bid, Fee)
  BY <1>0, <1>1, <1>2, SettledFacts
<1>4. PICK n \in Nat, cls \in Seq(CloseSet) : n = Len(closes) /\ cls = closes' /\ cls = Append(closes, c)
  <2>1. Len(closes) \in Nat /\ Append(closes, c) \in Seq(CloseSet)
    BY <1>0
  <2> QED
    BY <1>3, <2>1
<1>5. DOMAIN closes = 1..n /\ DOMAIN cls = 1..(n + 1) /\ cls[n + 1] = c /\ \A k \in 1..n : cls[k] = closes[k]
  BY <1>0, <1>4
<1>6. Closed(cls) = Closed(closes) \cup {i}
  <2>1. \A k \in 1..(n + 1) : k \in 1..n \/ k = n + 1
    OBVIOUS
  <2>2. n + 1 \in 1..(n + 1) /\ \A k \in 1..n : k \in 1..(n + 1)
    OBVIOUS
  <2> QED
    BY <1>3, <1>5, <2>1, <2>2 DEF Closed
<1>7. Open' = Open \ {i}
  BY <1>4, <1>6 DEF Open, OpenPositions
<1>8. Open' = {}
  BY <1>2, <1>7 DEF BooksInv, ClosesMatch
<1>9. BooksTyped'
  BY <1>4 DEF BooksInv, BooksTyped, MarksKept
<1>10. NothingBefore' /\ OneActivePerKind'
  BY EnvelopeFacts DEF NothingBefore, MarksKept
<1>11. ClosesMatch'
  <2>1. Closed(closes)' \subseteq DOMAIN positions'
    <3>1. Closed(closes)' = Closed(cls)
      BY <1>4 DEF Closed
    <3> QED
      BY <1>2, <1>6, <3>1 DEF BooksInv, ClosesMatch
  <2>2. ASSUME NEW j \in DOMAIN cls, NEW k \in DOMAIN cls, cls[j].position = cls[k].position
        PROVE  j = k
    <3>1. \A l \in 1..n : cls[l].position # i
      BY <1>1, <1>5 DEF Closed
    <3>2. \A l \in 1..(n + 1) : l \in 1..n \/ l = n + 1
      OBVIOUS
    <3>3. \A l, m \in 1..n : closes[l].position = closes[m].position => l = m
      BY <1>5 DEF BooksInv, ClosesMatch
    <3> QED
      BY <1>3, <1>5, <2>2, <3>1, <3>2, <3>3
  <2>3. {positions'[j].event : j \in DOMAIN positions'} \subseteq decided'
    BY DEF BooksInv, ClosesMatch
  <2> QED
    BY <1>4, <1>8, <2>1, <2>2, <2>3 DEF ClosesMatch
<1>12. ClosesEarliest'
  <2>1. ASSUME NEW k \in DOMAIN cls
        PROVE  Earliest(cls[k])
    <3>1. CASE k \in 1..n
      BY <1>5, <3>1 DEF BooksInv, ClosesEarliest
    <3>2. CASE k = n + 1
      <4>1. cls[k] = c
        BY <1>5, <3>2
      <4>2. Earliest(c)
        BY <1>1, <1>3 DEF Earliest
      <4> QED
        BY <4>1, <4>2
    <3> QED
      BY <1>5, <3>1, <3>2
  <2>2. \A k \in DOMAIN cls : Earliest(cls[k])'
    BY <2>1, <1>4 DEF Earliest, Untouched
  <2> QED
    BY <1>4, <2>2 DEF ClosesEarliest, Earliest
<1>13. LossPlanned'
  <2>1. ~Reviewed' => high_water' >= account'.equity * PriceUnits
    <3>1. high_water \in Int /\ high_water' \in Int /\ high_water' >= high_water
      BY DEF BooksInv, BooksTyped, MarksKept
    <3>2. PICK w \in Int : w = account.equity * PriceUnits
      BY EnvelopeFacts, RiskAssumption
    <3>3. ~Reviewed => high_water >= w
      BY <3>2, EnvelopeFacts DEF BooksInv, LossPlanned
    <3>4. ~Reviewed' => high_water' >= w
      BY <3>1, <3>3, ReviewedSame
    <3> QED
      BY <3>2, <3>4
  <2> QED
    BY <1>8, <2>1 DEF LossPlanned
<1>14. DrawdownBounded'
  <2> SUFFICES ASSUME \A k \in DOMAIN locks' : ~locks'[k].reviewed, \A k \in DOMAIN cls : ~Gap(cls[k])
               PROVE  Balance(cls) >= (Limit * (BPS - account.per_entry_loss_pct)) \div BPS - 1
    <3>1. Balance(closes)' = Balance(cls)
      BY <1>4 DEF Balance
    <3>2. (\A k \in DOMAIN closes : ~Gap(closes[k]))' => \A k \in DOMAIN cls : ~Gap(cls[k])
      BY <1>4 DEF Gap
    <3> QED
      BY <3>1, <3>2 DEF DrawdownBounded, Limit
  <2>1. ~Reviewed
    BY ReviewedSame DEF Reviewed
  <2>2. ~Gap(c)
    <3>1. n + 1 \in DOMAIN cls /\ cls[n + 1] = c
      BY <1>5
    <3> QED
      BY <3>1
  <2> QED
    BY <1>2, <1>3, <1>4, <2>1, <2>2, CloseBounded
<1> QED
  BY <1>1, <1>7, <1>9, <1>10, <1>11, <1>12, <1>13, <1>14 DEF BooksInv

\* close_positions keeps the books, and what it found open is open no more.
LEMMA CloseKeeps ==
    ASSUME BooksInv, account # NoAccount, NEW found \in FoundSet, found # NoExit => Earliest(found),
           NEW extras \in SUBSET ObservationSet, NEW moment \in Times, Len(locks) + 2 <= MaxLocks,
           ClosePositions(found, extras, moment), UNCHANGED <<now, snapshots>>
    PROVE  BooksInv' /\ MarksKept /\ Open' \subseteq Open \ {found.position}
<1>0. /\ BooksTyped /\ account \in Envelopes /\ closes \in Seq(CloseSet) /\ positions \in Seq(PositionSet)
      /\ snapshots \in [Times -> Bids \cup {0}]
      /\ high_water \in Int /\ locks \in Seq(LockSet) /\ DOMAIN day_start \subseteq Days
      /\ \A d \in DOMAIN day_start : day_start[d] \in Int
  BY DEF BooksInv, BooksTyped
<1>1. /\ closes' = IF StillOpen(found) THEN Append(closes, Settled(found)) ELSE closes
      /\ UNCHANGED <<account, decided, positions>>
  BY DEF ClosePositions
<1>2. closes' \in Seq(CloseSet)
  <2>1. CASE StillOpen(found)
    <3>1. found.position \in DOMAIN positions
      BY <2>1 DEF StillOpen, Earliest
    <3>2. Settled(found) \in CloseSet
      BY <1>0, <3>1, SettledFacts
    <3> QED
      BY <1>0, <1>1, <2>1, <3>2
  <2>2. CASE ~StillOpen(found)
    BY <1>0, <1>1, <2>2
  <2> QED
    BY <2>1, <2>2
<1>3. PICK cls \in Seq(CloseSet) : cls = closes'
  BY <1>2
<1>4. PICK equity \in Int : equity = Equity(positions, cls, extras, moment)
  BY <1>0, EquityInt
<1>5. EvaluateLocks(equity, moment)
  BY <1>3, <1>4 DEF ClosePositions
<1>6. OneActivePerKind
  BY DEF BooksInv
<1>7. MarksKept
  BY <1>0, <1>5, <1>6, EvaluateKeeps
<1>8. CASE StillOpen(found)
  <2>1. Earliest(found) /\ found.position \notin Closed(closes) /\ closes' = Append(closes, Settled(found))
    BY <1>1, <1>8 DEF StillOpen
  <2> QED
    BY <1>0, <1>1, <1>7, <2>1, CloseWritten
<1>9. CASE ~StillOpen(found)
  <2>1. closes' = closes
    BY <1>1, <1>9
  <2>2. BooksInv'
    BY <1>0, <1>1, <1>7, <2>1, MarksOnly DEF BooksTyped
  <2>3. Open' = Open
    BY <1>1, <2>1 DEF Open
  <2>4. found.position \notin Open
    <3>1. CASE found = NoExit
      BY <1>0, <3>1 DEF NoExit, Open, OpenPositions
    <3>2. CASE found # NoExit
      BY <1>9, <3>2 DEF StillOpen, Open, OpenPositions
    <3> QED
      BY <3>1, <3>2
  <2> QED
    BY <1>7, <2>2, <2>3, <2>4
<1> QED
  BY <1>8, <1>9

\* The heartbeat's settle leaves nothing due.
LEMMA SettleWriteKeeps ==
    ASSUME PilotIInv, SettleWrite
    PROVE  PilotIInv' /\ MarksKept
<1> USE DEF PilotIInv
<1>0. /\ hb.pc = "write" /\ Len(locks) + 2 <= MaxLocks /\ ClosePositions(hb.found, {}, hb.ts)
      /\ hb' = [hb EXCEPT !.pc = "open", !.found = NoExit, !.settled = TRUE]
      /\ UNCHANGED <<now, snapshots, mon>>
  BY DEF SettleWrite
<1>1. /\ hb \in HeartbeatSet /\ hb.ts \in Times /\ hb.found \in FoundSet /\ hb.envelope \in Envelopes
      /\ account # NoAccount /\ (hb.found # NoExit => Earliest(hb.found))
  BY <1>0 DEF HeartbeatFits, HeartbeatSet
<1>2. PICK extras \in SUBSET ObservationSet, found \in FoundSet, moment \in Times :
         extras = {} /\ found = hb.found /\ moment = hb.ts
  BY <1>1
<1>3. BooksInv' /\ MarksKept /\ Open' \subseteq Open \ {found.position}
  <2>1. ClosePositions(found, extras, moment)
    BY <1>0, <1>2
  <2> QED
    BY <1>0, <1>1, <1>2, <2>1, CloseKeeps
<1>4. UNCHANGED <<account, positions>>
  BY <1>0 DEF ClosePositions
<1>5. Grows
  BY <1>0, <1>4 DEF Grows
<1>6. MonitorFits(mon)'
  <2>1. PICK m : m = mon
    OBVIOUS
  <2>2. MonitorFits(m)'
    BY <1>4, <1>5, <2>1, MonitorGrows
  <2>3. m = mon'
    BY <1>0, <2>1
  <2> QED
    BY <2>2, <2>3 DEF MonitorFits
<1>7. HeartbeatFits(hb)'
  <2>1. PICK h : h = hb'
    OBVIOUS
  <2>2. /\ h \in HeartbeatSet /\ h.pc = "open" /\ h.found = NoExit /\ h.envelope \in Envelopes
        /\ h.ts = hb.ts
    BY <1>0, <1>1, <2>1, NoExitFound DEF HeartbeatSet
  <2>3. \A i \in Open' : Untouched(i, (positions[i].entry_ts + 1)..h.ts)
    BY <1>0, <1>2, <1>3, <2>2 DEF HeartbeatFits
  <2>4. \A i \in Open' : Untouched(i, (positions[i].entry_ts + 1)..h.ts)'
    BY <1>0, <1>4, <2>3 DEF Untouched
  <2>5. HeartbeatFits(h)'
    BY <2>2, <2>4 DEF HeartbeatFits
  <2> QED
    BY <2>1, <2>5 DEF HeartbeatFits
<1> QED
  BY <1>3, <1>6, <1>7

\* The monitor's close leaves the heartbeat's findings true.
LEMMA MonitorWriteKeeps ==
    ASSUME PilotIInv, MonitorWrite
    PROVE  PilotIInv' /\ MarksKept
<1> USE DEF PilotIInv
<1>0. /\ mon.pc = "write" /\ Len(locks) + 2 <= MaxLocks /\ ClosePositions(mon.found, Extras, mon.now)
      /\ mon' = MonitorIdle /\ UNCHANGED <<now, snapshots, hb>>
  BY DEF MonitorWrite
<1>1. /\ mon \in MonitorSet /\ mon.now \in Times /\ mon.found \in FoundSet
      /\ account # NoAccount /\ (mon.found # NoExit => Earliest(mon.found))
  BY <1>0 DEF MonitorFits, MonitorSet
<1>2. Extras \in SUBSET ObservationSet
  BY <1>1 DEF Extras, ObservationSet, MonitorSet
<1>3. PICK extras \in SUBSET ObservationSet, found \in FoundSet, moment \in Times :
         extras = Extras /\ found = mon.found /\ moment = mon.now
  BY <1>1, <1>2
<1>4. BooksInv' /\ MarksKept /\ Open' \subseteq Open \ {found.position}
  <2>1. ClosePositions(found, extras, moment)
    BY <1>0, <1>3
  <2> QED
    BY <1>0, <1>1, <1>3, <2>1, CloseKeeps
<1>5. UNCHANGED <<account, positions>>
  BY <1>0 DEF ClosePositions
<1>6. MonitorFits(mon)'
  <2>1. MonitorIdle \in MonitorSet /\ MonitorIdle.pc = "idle" /\ MonitorIdle.found = NoExit
    BY IdleFits DEF MonitorFits, MonitorIdle
  <2> QED
    BY <1>0, <2>1 DEF MonitorFits
<1>7. HeartbeatFits(hb)'
  <2>1. PICK h : h = hb
    OBVIOUS
  <2>2. HeartbeatFits(h)'
    BY <1>0, <1>4, <1>5, <2>1, HeartbeatSame
  <2>3. h = hb'
    BY <1>0, <2>1
  <2> QED
    BY <2>2, <2>3 DEF HeartbeatFits
<1> QED
  BY <1>4, <1>6, <1>7

\* pilot_shadow.evaluate_locks adds marks and locks only.
LEMMA EvaluateStepKeeps ==
    ASSUME PilotIInv, evaluate_locks
    PROVE  PilotIInv' /\ MarksKept
<1> USE DEF PilotIInv
<1>0. /\ account # NoAccount /\ Len(locks) + 2 <= MaxLocks
      /\ EvaluateLocks(Equity(positions, closes, {}, now), now)
      /\ UNCHANGED <<now, snapshots, account, decided, positions, closes, hb, mon>>
  BY DEF evaluate_locks
<1>1. /\ account \in Envelopes /\ closes \in Seq(CloseSet) /\ positions \in Seq(PositionSet)
      /\ snapshots \in [Times -> Bids \cup {0}] /\ now \in Times
      /\ high_water \in Int /\ locks \in Seq(LockSet) /\ DOMAIN day_start \subseteq Days
      /\ (\A d \in DOMAIN day_start : day_start[d] \in Int) /\ OneActivePerKind
  BY <1>0 DEF BooksInv, BooksTyped
<1>2. PICK extras \in SUBSET ObservationSet : extras = {}
  OBVIOUS
<1>3. PICK equity \in Int : equity = Equity(positions, closes, extras, now)
  BY <1>1, EquityInt
<1>4. EvaluateLocks(equity, now)
  BY <1>0, <1>2, <1>3
<1>5. MarksKept
  BY <1>0, <1>1, <1>4, EvaluateKeeps
<1>6. BooksInv'
  BY <1>0, <1>5, MarksOnly DEF BooksInv, BooksTyped
<1>7. Grows /\ Open' \subseteq Open
  BY <1>0 DEF Grows, Open
<1>8. PICK h, m : h = hb /\ m = mon
  OBVIOUS
<1>9. HeartbeatFits(h)' /\ MonitorFits(m)'
  BY <1>0, <1>7, <1>8, HeartbeatSame, MonitorGrows
<1>10. h = hb' /\ m = mon'
  BY <1>0, <1>8
<1>11. HeartbeatFits(hb)' /\ MonitorFits(mon)'
  BY <1>9, <1>10 DEF HeartbeatFits, MonitorFits
<1> QED
  BY <1>5, <1>6, <1>11

\* review_lock: a review moves its mark and takes one lock out of the active ones.
LEMMA ReviewKeeps ==
    ASSUME PilotIInv, NEW i \in DOMAIN locks, review_lock(i)
    PROVE  PilotIInv' /\ locks'[i] # locks[i]
<1> USE DEF PilotIInv
<1>0. /\ ~locks[i].reviewed /\ locks' = [locks EXCEPT ![i].reviewed = TRUE]
      /\ UNCHANGED <<now, snapshots, account, decided, positions, closes, hb, mon>>
  BY DEF review_lock
<1>1. /\ BooksTyped /\ closes \in Seq(CloseSet) /\ positions \in Seq(PositionSet)
      /\ snapshots \in [Times -> Bids \cup {0}] /\ now \in Times
      /\ high_water \in Int /\ locks \in Seq(LockSet) /\ DOMAIN day_start \subseteq Days
      /\ (\A d \in DOMAIN day_start : day_start[d] \in Int) /\ Len(locks) <= MaxLocks
  BY DEF BooksInv, BooksTyped
<1>2. account \in Envelopes
  <2>1. account # NoAccount
    BY DEF BooksInv, NothingBefore
  <2> QED
    BY <2>1 DEF BooksInv, BooksTyped
<1>3. PICK extras \in SUBSET ObservationSet : extras = {}
  OBVIOUS
<1>4. PICK equity \in Int : equity = Equity(positions, closes, extras, now)
  BY <1>1, <1>2, EquityInt
<1>5. IF locks[i].kind = "drawdown"
      THEN high_water' = equity /\ UNCHANGED day_start
      ELSE day_start' = MarkDay(utc_day(now), equity) /\ UNCHANGED high_water
  BY <1>3, <1>4 DEF review_lock
<1>6. high_water' \in Int /\ DOMAIN day_start' \subseteq Days /\ \A d \in DOMAIN day_start' : day_start'[d] \in Int
  <2>1. CASE locks[i].kind = "drawdown"
    BY <1>1, <1>5, <2>1
  <2>2. CASE locks[i].kind # "drawdown"
    <3>1. utc_day(now) \in Days
      BY <1>1, TimesNat
    <3> QED
      BY <1>1, <1>5, <2>2, <3>1 DEF MarkDay
  <2> QED
    BY <2>1, <2>2
<1>7. PICK new \in Seq(LockSet) : /\ new = locks' /\ Len(new) = Len(locks) /\ DOMAIN new = DOMAIN locks
                                  /\ new[i].reviewed
                                  /\ \A k \in DOMAIN new : k # i => new[k] = locks[k]
  <2>1. locks[i] \in LockSet
    BY <1>1
  <2>2. PICK l \in LockSet : l = [locks[i] EXCEPT !.reviewed = TRUE] /\ l.reviewed
    <3>1. PICK k \in LockSet : k = locks[i]
      BY <2>1
    <3>2. [k EXCEPT !.reviewed = TRUE] \in LockSet /\ [k EXCEPT !.reviewed = TRUE].reviewed
      BY DEF LockSet
    <3> QED
      BY <3>1, <3>2
  <2>3. locks' = [locks EXCEPT ![i] = l]
    BY <1>0, <2>2
  <2>4. locks' \in Seq(LockSet) /\ Len(locks') = Len(locks) /\ DOMAIN locks' = DOMAIN locks
    BY <1>1, <2>3
  <2> QED
    BY <2>2, <2>3, <2>4
<1>8. OneActivePerKind'
  <2>1. OneActivePerKind
    BY DEF BooksInv
  <2> QED
    BY <1>7, <2>1 DEF OneActivePerKind
<1>9. Reviewed'
  BY <1>7 DEF Reviewed
<1>10. BooksTyped'
  BY <1>0, <1>1, <1>6, <1>7 DEF BooksTyped
<1>11. NothingBefore' /\ ClosesMatch'
  BY <1>0, <1>2, EnvelopeFacts DEF NothingBefore, BooksInv, ClosesMatch, Open
<1>12. ClosesEarliest'
  BY <1>0 DEF BooksInv, ClosesEarliest, Earliest, Untouched
<1>13. LossPlanned'
  <2>1. Balance(closes)' = Balance(closes) /\ Open' = Open
    BY <1>0 DEF Balance, Open
  <2> QED
    BY <1>0, <1>9, <2>1 DEF BooksInv, LossPlanned
<1>14. DrawdownBounded'
  BY <1>9 DEF DrawdownBounded, Reviewed
<1>15. Grows /\ Open' \subseteq Open
  BY <1>0 DEF Grows, Open
<1>16. PICK h, m : h = hb /\ m = mon
  OBVIOUS
<1>17. HeartbeatFits(h)' /\ MonitorFits(m)'
  BY <1>0, <1>15, <1>16, HeartbeatSame, MonitorGrows
<1>18. h = hb' /\ m = mon'
  BY <1>0, <1>16
<1>19. HeartbeatFits(hb)' /\ MonitorFits(mon)'
  BY <1>17, <1>18 DEF HeartbeatFits, MonitorFits
<1>20. locks'[i] # locks[i]
  BY <1>0, <1>7
<1> QED
  BY <1>8, <1>10, <1>11, <1>12, <1>13, <1>14, <1>19, <1>20 DEF BooksInv

-----------------------------------------------------------------------------
(* open_candidates.                                                         *)

\* A position p is entered: the account is flat and above both limits, nobody
\* waits for a review, and the planned loss is within the entry's share.
Entered(p, event) ==
    /\ p \in PositionSet /\ p.event = event /\ p.entry_ts = hb.ts
    /\ Open = {} /\ ~engaged /\ \A k \in DOMAIN locks' : locks'[k].reviewed
    /\ Balance(closes) * PriceUnits * BPS > high_water' * (BPS - account.drawdown_pct)
    /\ (day_start'[utc_day(hb.ts)] - Balance(closes) * PriceUnits) * BPS
         < day_start'[utc_day(hb.ts)] * account.daily_loss_pct
    /\ Planned(p.quantity, p.ask, p.stop) <= Balance(closes) * PriceUnits * account.per_entry_loss_pct

\* The cost basis of an entry is a number of price units.
LEMMA CostBasisInt ==
    ASSUME NEW q \in Nat, NEW ask \in Nat
    PROVE  entry_cost_basis(q, ask, Fee) \in Int
<1>0. PriceUnits \in Nat \ {0} /\ BPS = 10000 /\ Fee \in 0..10000
  BY RiskAssumption, QuoteAssumption DEF BPS
<1>1. PICK a \in Int, n \in Int : a = q * ask /\ n = q * ask * Fee
  BY <1>0
<1>2. PriceUnits * BPS \in Nat \ {0}
  BY <1>0
<1>3. PICK f \in Int : f = cents(n, PriceUnits * BPS)
  BY <1>2, Cents
<1>4. f * PriceUnits \in Int
  BY <1>0
<1> QED
  BY <1>1, <1>3, <1>4 DEF entry_cost_basis

\* No open position: none is counted.
LEMMA NoneOpen ==
    ASSUME positions \in Seq(PositionSet), ~(Cardinality(Open) >= EX1_MAX_POSITIONS)
    PROVE  Open = {}
<1>1. Open \in SUBSET (1..Len(positions)) /\ Len(positions) \in Nat
  BY DEF Open, OpenPositions
<1>2. IsFiniteSet(Open)
  <2>1. IsFiniteSet(1..Len(positions))
    BY <1>1, FS_Interval
  <2> QED
    BY <1>1, <2>1, FS_Subset
<1>3. Cardinality(Open) \in Nat /\ (Cardinality(Open) = 0 <=> Open = {})
  BY <1>2, FS_CardinalityType, FS_EmptySet
<1> QED
  BY <1>3 DEF EX1_MAX_POSITIONS

\* What a plan without a refusal has passed.
LEMMA PlanPassed ==
    ASSUME NEW direction, NEW equity, NEW kinds, Plan(direction, equity, kinds).reason = "none"
    PROVE  /\ hb.envelope = account /\ ~engaged
           /\ "daily_loss" \notin kinds /\ "drawdown" \notin kinds
           /\ ~(Cardinality(Open) >= EX1_MAX_POSITIONS)
           /\ Plan(direction, equity, kinds)
                = plan_long_entry(account, Candidate(snapshots[hb.ts]), equity, Balance(closes) * PriceUnits, 0, 0, Fee)
<1> DEFINE refusal == admission_refusal(engaged, kinds, Cardinality(Open))
           entry == plan_long_entry(account, Candidate(snapshots[hb.ts]), equity, Balance(closes) * PriceUnits, 0, 0, Fee)
<1>1. Plan(direction, equity, kinds) =
        IF direction # "LONG" THEN Refused("unsupported_direction")
        ELSE IF hb.envelope # account THEN Refused("envelope_changed")
        ELSE IF refusal # "none" THEN Refused(refusal)
        ELSE entry
  BY DEF Plan, Open
<1>2. \A r : Refused(r).reason = r
  BY DEF Refused
<1> HIDE DEF entry, refusal
<1>3. hb.envelope = account /\ refusal = "none" /\ Plan(direction, equity, kinds) = entry
  BY <1>1, <1>2
<1>4. /\ ~engaged /\ "daily_loss" \notin kinds /\ "drawdown" \notin kinds
      /\ ~(Cardinality(Open) >= EX1_MAX_POSITIONS)
  BY <1>3 DEF refusal, admission_refusal
<1> QED
  BY <1>3, <1>4 DEF entry

\* What open_candidates has made sure of when it enters.
LEMMA EntryFacts ==
    ASSUME BooksInv, account \in Envelopes, hb \in HeartbeatSet, NEW event \in Events, NEW direction,
           NEW equity \in Int, equity = Equity(positions, closes, {}, hb.ts), Len(locks) + 2 <= MaxLocks,
           EvaluateLocks(equity, hb.ts), Plan(direction, equity, KindsAfter).reason = "none"
    PROVE  Entered(Position(event, Plan(direction, equity, KindsAfter)), event)
<1>0. /\ closes \in Seq(CloseSet) /\ positions \in Seq(PositionSet)
      /\ snapshots \in [Times -> Bids \cup {0}]
      /\ high_water \in Int /\ locks \in Seq(LockSet) /\ DOMAIN day_start \subseteq Days
      /\ (\A d \in DOMAIN day_start : day_start[d] \in Int)
  BY DEF BooksInv, BooksTyped
<1>1. hb.ts \in Times /\ hb.ts \in Nat
  BY TimesNat DEF HeartbeatSet
<1>2. PICK kinds : kinds = KindsAfter
  OBVIOUS
<1>3. PICK plan : plan = Plan(direction, equity, kinds)
  OBVIOUS
<1>4. plan.reason = "none"
  BY <1>2, <1>3
<1>5. /\ ~engaged /\ "daily_loss" \notin kinds /\ "drawdown" \notin kinds
      /\ ~(Cardinality(Open) >= EX1_MAX_POSITIONS)
      /\ plan = plan_long_entry(account, Candidate(snapshots[hb.ts]), equity, Balance(closes) * PriceUnits, 0, 0, Fee)
  BY <1>3, <1>4, PlanPassed
<1>6. Open = {}
  BY <1>0, <1>5, NoneOpen
<1>7. PICK B \in Int : B = Balance(closes)
  BY <1>0, BalanceInt
<1>8. PriceUnits \in Nat \ {0} /\ BPS = 10000 /\ Spread \in Nat /\ HoldLength \in Nat
  BY RiskAssumption, PilotAssumption DEF BPS
<1>9. equity = B * PriceUnits
  <2>1. OpenPositions(positions, closes) = {}
    BY <1>6 DEF Open
  <2>2. Equity(positions, closes, {}, hb.ts) = Balance(closes) * PriceUnits
    BY <1>0, <2>1, FlatEquity
  <2> QED
    BY <1>7, <2>2
<1>10. PICK bid \in Nat : bid = snapshots[hb.ts]
  <2>1. snapshots[hb.ts] \in Bids \cup {0}
    BY <1>0, <1>1
  <2> QED
    BY <2>1, QuoteAssumption
<1>a. PICK currency : currency = hb.envelope.currency
  OBVIOUS
<1>11. PICK c : c = [quote |-> currency, bid |-> bid, ask |-> bid + Spread, atr |-> Atr, rules |-> Rules]
  OBVIOUS
<1>12. plan = plan_long_entry(account, c, equity, B * PriceUnits, 0, 0, Fee)
  BY <1>5, <1>7, <1>10, <1>11, <1>a DEF Candidate
<1>13. PICK q \in Nat \ {0}, stop \in Nat, target \in Int :
          /\ plan.quantity = q /\ plan.stop = stop /\ plan.target = target
          /\ Planned(q, bid + Spread, stop) <= equity * account.per_entry_loss_pct
  <2>1. PICK cash \in Int : cash = B * PriceUnits
    BY <1>8
  <2>2. plan_long_entry(account, c, equity, cash, 0, 0, Fee).reason = "none"
    BY <1>4, <1>12, <2>1
  <2>3. \E q \in Nat \ {0}, stop \in Nat, target \in Int :
          /\ plan_long_entry(account, c, equity, cash, 0, 0, Fee).quantity = q
          /\ plan_long_entry(account, c, equity, cash, 0, 0, Fee).stop = stop
          /\ plan_long_entry(account, c, equity, cash, 0, 0, Fee).target = target
          /\ Planned(q, bid + Spread, stop) <= equity * account.per_entry_loss_pct
    BY <1>11, <2>2, PlanFacts
  <2> QED
    BY <1>12, <2>1, <2>3
<1>14. PICK ask \in Nat, basis \in Int, due \in Nat :
          ask = bid + Spread /\ basis = entry_cost_basis(q, ask, Fee) /\ due = hb.ts + HoldLength
  <2>1. bid + Spread \in Nat /\ hb.ts + HoldLength \in Nat
    BY <1>1, <1>8
  <2>2. entry_cost_basis(q, bid + Spread, Fee) \in Int
    BY <2>1, CostBasisInt
  <2> QED
    BY <2>1, <2>2
<1>15. PICK p : p = Position(event, plan)
  OBVIOUS
<1>16. p = [event |-> event, entry_ts |-> hb.ts, ask |-> ask, quantity |-> q, stop |-> stop, target |-> target,
            due_at |-> due, cost_basis |-> basis]
  BY <1>10, <1>13, <1>14, <1>15 DEF Position
<1>17. /\ p \in PositionSet /\ p.event = event /\ p.entry_ts = hb.ts
       /\ p.quantity = q /\ p.ask = ask /\ p.stop = stop
  BY <1>1, <1>16 DEF PositionSet
<1>18. /\ \A k \in DOMAIN locks' : locks'[k].reviewed
       /\ ~daily_lock_tripped(account, equity, day_start'[utc_day(hb.ts)])
       /\ ~drawdown_lock_tripped(account, equity, high_water')
  BY <1>0, <1>1, <1>2, <1>5, NoneTripped
<1>19. PICK w \in Int, s \in Int : w = high_water' /\ s = day_start'[utc_day(hb.ts)]
  BY <1>0, <1>1, Evaluated
<1>20. PICK d \in 1..300, l \in Nat : d = account.drawdown_pct /\ l = account.daily_loss_pct
  <2>1. account.drawdown_pct \in 1..300 /\ account.daily_loss_pct \in Nat
    BY EnvelopeFacts
  <2> QED
    BY <2>1, Zenon
<1>21. equity * BPS > w * (BPS - d)
  <2>1. ~(equity * BPS <= w * (BPS - d))
    BY <1>18, <1>19, <1>20 DEF drawdown_lock_tripped
  <2> QED
    BY <2>1, <1>8
<1>22. (s - equity) * BPS < s * l
  <2>1. ~((equity - s) * BPS <= -(s * l))
    BY <1>18, <1>19, <1>20 DEF daily_lock_tripped
  <2>2. PICK x \in Int : x = s * l
    OBVIOUS
  <2> QED
    BY <2>1, <2>2, <1>8
<1>23. Entered(p, event)
  BY <1>5, <1>6, <1>7, <1>9, <1>13, <1>14, <1>17, <1>18, <1>19, <1>20, <1>21, <1>22 DEF Entered
<1> QED
  BY <1>2, <1>3, <1>15, <1>23

\* The limit, from the high-water mark the entry was above.
LEMMA AboveLimit ==
    ASSUME NEW e \in Envelopes, NEW B \in Int, NEW w \in Int, w >= e.equity * PriceUnits,
           B * PriceUnits * BPS > w * (BPS - e.drawdown_pct)
    PROVE  (e.equity * (BPS - e.drawdown_pct)) \div BPS <= B
<1>0. PriceUnits \in Nat \ {0} /\ BPS = 10000
  BY RiskAssumption DEF BPS
<1>1. PICK q \in Nat, d \in 1..300 : q = e.equity /\ d = e.drawdown_pct
  BY EnvelopeFacts
<1>2. PICK r \in Nat \ {0} : r = 10000 - d
  OBVIOUS
<1>3. w * r >= (q * PriceUnits) * r
  BY <1>0, <1>1
<1>4. B * PriceUnits * 10000 > w * r
  BY <1>0, <1>1, <1>2
<1>5. B * 10000 > q * r
  <2> SUFFICES ASSUME q * r - B * 10000 >= 0
               PROVE  FALSE
    OBVIOUS
  <2>1. PICK x \in Nat : x = q * r - B * 10000
    OBVIOUS
  <2>2. PriceUnits * x >= 0
    BY <1>0
  <2>3. PriceUnits * x = (q * PriceUnits) * r - B * PriceUnits * 10000
    BY <1>0, <2>1
  <2>4. PICK a \in Int, b \in Int, c \in Int : a = (q * PriceUnits) * r /\ b = B * PriceUnits * 10000 /\ c = w * r
    BY <1>0
  <2> QED
    BY <1>3, <1>4, <2>2, <2>3, <2>4
<1>6. PICK y \in Int : y = q * r
  OBVIOUS
<1>7. y \div 10000 <= B
  BY <1>5, <1>6
<1> QED
  BY <1>0, <1>1, <1>2, <1>6, <1>7

\* The books after an entry: the new position is the open one, and what it may
\* lose is planned.
LEMMA EnterKeeps ==
    ASSUME BooksInv, account \in Envelopes, MarksKept, NEW event \in Events, NEW p, Entered(p, event),
           Len(positions) < MaxPositions, positions' = Append(positions, p), decided' = decided \cup {event},
           UNCHANGED <<now, snapshots, account, closes>>
    PROVE  BooksInv' /\ Grows /\ \A i \in Open' : positions'[i].entry_ts = hb.ts
<1>0. /\ closes \in Seq(CloseSet) /\ positions \in Seq(PositionSet) /\ p \in PositionSet
      /\ high_water \in Int /\ high_water' \in Int /\ high_water' >= high_water
  BY DEF BooksInv, BooksTyped, Entered, MarksKept
<1>1. PICK n \in Nat, pos \in Seq(PositionSet) : n = Len(positions) /\ pos = positions' /\ pos = Append(positions, p)
  <2>1. Len(positions) \in Nat /\ Append(positions, p) \in Seq(PositionSet)
    BY <1>0
  <2> QED
    BY <2>1
<1>2. /\ DOMAIN positions = 1..n /\ DOMAIN pos = 1..(n + 1) /\ Len(pos) = n + 1
      /\ pos[n + 1] = p /\ \A k \in 1..n : pos[k] = positions[k]
  BY <1>0, <1>1
<1>3. Grows
  BY <1>1, <1>2 DEF Grows
<1>4. Closed(closes) \subseteq 1..n /\ Open = {}
  BY <1>2 DEF BooksInv, ClosesMatch, Entered
<1>5. \A i \in Open' : i = n + 1
  <2>1. Open' = (1..(n + 1)) \ Closed(closes)
    BY <1>1, <1>2 DEF Open, OpenPositions, Closed
  <2>2. (1..n) \ Closed(closes) = {}
    BY <1>2, <1>4 DEF Open, OpenPositions
  <2>3. \A k \in 1..(n + 1) : k \in 1..n \/ k = n + 1
    OBVIOUS
  <2> QED
    BY <2>1, <2>2, <2>3
<1>6. BooksTyped'
  <2>1. Len(pos) <= MaxPositions
    BY <1>1, <1>2, PilotAssumption
  <2> QED
    BY <1>1, <2>1 DEF BooksInv, BooksTyped, MarksKept
<1>7. NothingBefore' /\ OneActivePerKind'
  BY EnvelopeFacts DEF NothingBefore, MarksKept
<1>8. ClosesMatch'
  <2>1. Closed(closes)' \subseteq DOMAIN positions'
    <3>1. Closed(closes)' = Closed(closes)
      BY DEF Closed
    <3>2. 1..n \subseteq 1..(n + 1)
      OBVIOUS
    <3> QED
      BY <1>1, <1>2, <1>4, <3>1, <3>2
  <2>2. {positions'[j].event : j \in DOMAIN positions'} \subseteq decided'
    <3>1. \A k \in 1..(n + 1) : k \in 1..n \/ k = n + 1
      OBVIOUS
    <3>2. \A k \in 1..n : positions[k].event \in decided
      BY <1>2 DEF BooksInv, ClosesMatch
    <3>3. p.event = event
      BY DEF Entered
    <3> QED
      BY <1>1, <1>2, <3>1, <3>2, <3>3
  <2>3. \A i, j \in DOMAIN closes : closes[i].position = closes[j].position => i = j
    BY DEF BooksInv, ClosesMatch
  <2> QED
    BY <1>5, <2>1, <2>2, <2>3 DEF ClosesMatch
<1>9. ClosesEarliest'
  <2> SUFFICES ASSUME NEW k \in DOMAIN closes
               PROVE  Earliest(closes[k])'
    BY DEF ClosesEarliest
  <2>1. PICK c : c = closes[k]
    OBVIOUS
  <2>2. c \in CloseSet /\ Earliest(c)
    BY <2>1 DEF BooksInv, BooksTyped, ClosesEarliest
  <2>3. c.known \subseteq Times
    BY <2>2 DEF CloseSet
  <2>4. Earliest(c)'
    BY <1>3, <2>2, <2>3, EarliestKept
  <2>5. c = closes'[k]
    BY <2>1
  <2> QED
    BY <2>4, <2>5 DEF Earliest
<1>10. Balance(closes)' = Balance(closes)
  BY DEF Balance
<1>11. LossPlanned'
  <2>1. PICK w \in Int : w = account.equity * PriceUnits
    BY EnvelopeFacts, RiskAssumption
  <2>2. ~Reviewed' => high_water' >= w
    <3>1. ~Reviewed => high_water >= w
      BY <2>1, EnvelopeFacts DEF BooksInv, LossPlanned
    <3> QED
      BY <1>0, <3>1, ReviewedSame
  <2>3. ~Reviewed' => Limit' <= Balance(closes)
    <3>1. PICK B \in Int, hw \in Int : B = Balance(closes) /\ hw = high_water'
      BY <1>0, BalanceInt
    <3>2. B * PriceUnits * BPS > hw * (BPS - account.drawdown_pct)
      BY <3>1 DEF Entered
    <3>3. hw >= w => (account.equity * (BPS - account.drawdown_pct)) \div BPS <= B
      BY <2>1, <3>1, <3>2, AboveLimit
    <3> QED
      BY <2>2, <3>1, <3>3 DEF Limit
  <2>4. ASSUME NEW i \in Open'
        PROVE  Planned(positions'[i].quantity, positions'[i].ask, positions'[i].stop)
                 <= Balance(closes) * PriceUnits * account.per_entry_loss_pct
    <3>1. positions'[i] = p
      BY <1>1, <1>2, <1>5
    <3> QED
      BY <3>1 DEF Entered
  <2> QED
    BY <1>10, <2>1, <2>2, <2>3, <2>4 DEF LossPlanned, Planned
<1>12. DrawdownBounded'
  <2>1. (\A k \in DOMAIN locks' : ~locks'[k].reviewed) => (\A k \in DOMAIN locks : ~locks[k].reviewed)
    BY ReviewedSame DEF Reviewed
  <2>2. \A k \in DOMAIN closes : positions'[closes[k].position] = positions[closes[k].position]
    BY <1>1, <1>2, <1>4 DEF Closed
  <2>3. (\A k \in DOMAIN closes : ~Gap(closes[k]))' => \A k \in DOMAIN closes : ~Gap(closes[k])
    BY <2>2 DEF Gap
  <2> QED
    BY <1>10, <2>1, <2>3 DEF BooksInv, DrawdownBounded
<1>13. \A i \in Open' : positions'[i].entry_ts = hb.ts
  BY <1>1, <1>2, <1>5 DEF Entered
<1> QED
  BY <1>3, <1>6, <1>7, <1>8, <1>9, <1>11, <1>12, <1>13 DEF BooksInv

\* A heartbeat between its settle and the end of its cycle keeps what it found
\* out when a position is entered at its own time.
LEMMA HeartbeatEnters ==
    ASSUME HeartbeatFits(hb), Grows, UNCHANGED <<account, hb>>, hb.pc = "open",
           \A i \in Open' : positions'[i].entry_ts = hb.ts
    PROVE  HeartbeatFits(hb)'
<1>1. PICK h : h = hb
  OBVIOUS
<1>2. h.pc = "open" /\ h \in HeartbeatSet /\ h.envelope \in Envelopes /\ h.ts \in Nat
  <2>1. h \in HeartbeatSet /\ h.envelope \in Envelopes
    BY <1>1 DEF HeartbeatFits
  <2>2. h.ts \in Times
    BY <2>1 DEF HeartbeatSet
  <2> QED
    BY <1>1, <2>1, <2>2, TimesNat
<1>3. h.found # NoExit => Earliest(h.found)'
  <2>1. h.found.known \subseteq Times
    BY <1>2 DEF HeartbeatSet, FoundSet
  <2>2. PICK f : f = h.found
    OBVIOUS
  <2>3. f # NoExit => Earliest(f)'
    BY <1>1, <2>1, <2>2, EarliestKept DEF HeartbeatFits
  <2> QED
    BY <2>2, <2>3
<1>4. \A i \in Open' : Untouched(i, (positions[i].entry_ts + 1)..h.ts)'
  <2> SUFFICES ASSUME NEW i \in Open'
               PROVE  Untouched(i, (positions[i].entry_ts + 1)..h.ts)'
    OBVIOUS
  <2>1. (positions'[i].entry_ts + 1)..h.ts = {}
    BY <1>1, <1>2
  <2> QED
    BY <2>1 DEF Untouched
<1>5. HeartbeatFits(h)'
  BY <1>2, <1>3, <1>4 DEF HeartbeatFits
<1>6. h = hb'
  BY <1>1
<1> QED
  BY <1>5, <1>6 DEF HeartbeatFits

\* open_candidates keeps the invariant, and enters within the limits.
LEMMA CandidatesKeep ==
    ASSUME PilotIInv, NEW event \in Events, NEW direction, open_candidates(event, direction)
    PROVE  /\ PilotIInv' /\ MarksKept
           /\ positions' # positions => \E p : Entered(p, event)
<1> USE DEF PilotIInv
<1>0. /\ hb.pc = "open" /\ account # NoAccount /\ Len(locks) + 2 <= MaxLocks
      /\ decided' = decided \cup {event}
      /\ UNCHANGED <<now, snapshots, account, closes, engaged, hb, mon>>
  BY DEF open_candidates
<1>1. /\ account \in Envelopes /\ closes \in Seq(CloseSet) /\ positions \in Seq(PositionSet)
      /\ snapshots \in [Times -> Bids \cup {0}]
      /\ high_water \in Int /\ locks \in Seq(LockSet) /\ DOMAIN day_start \subseteq Days
      /\ (\A d \in DOMAIN day_start : day_start[d] \in Int) /\ OneActivePerKind /\ decided \subseteq Events
  BY <1>0 DEF BooksInv, BooksTyped
<1>2. hb \in HeartbeatSet /\ hb.ts \in Times
  BY DEF HeartbeatFits, HeartbeatSet
<1>3. PICK extras \in SUBSET ObservationSet : extras = {}
  OBVIOUS
<1>4. PICK equity \in Int : equity = Equity(positions, closes, {}, hb.ts)
  BY <1>1, <1>3, EquityInt
<1>5. EvaluateLocks(equity, hb.ts)
  BY <1>4 DEF open_candidates
<1>6. MarksKept
  BY <1>0, <1>1, <1>2, <1>5, EvaluateKeeps
<1>7. PICK plan : plan = Plan(direction, equity, KindsAfter)
  OBVIOUS
<1>8. IF event \in decided \/ plan.reason # "none" THEN UNCHANGED positions
      ELSE Len(positions) < MaxPositions /\ positions' = Append(positions, Position(event, plan))
  BY <1>4, <1>7 DEF open_candidates
<1>9. Grows => MonitorFits(mon)'
  <2>1. PICK m : m = mon
    OBVIOUS
  <2>2. Grows => MonitorFits(m)'
    BY <1>0, <2>1, MonitorGrows
  <2>3. m = mon'
    BY <1>0, <2>1
  <2> QED
    BY <2>2, <2>3 DEF MonitorFits
<1>10. CASE event \in decided \/ plan.reason # "none"
  <2>1. UNCHANGED positions
    BY <1>8, <1>10
  <2>2. BooksInv'
    BY <1>0, <1>1, <1>6, <2>1, MarksOnly
  <2>3. Grows /\ Open' \subseteq Open
    BY <1>0, <2>1 DEF Grows, Open
  <2>4. PICK h : h = hb
    OBVIOUS
  <2>5. HeartbeatFits(h)'
    BY <1>0, <2>1, <2>3, <2>4, HeartbeatSame
  <2>6. h = hb'
    BY <1>0, <2>4
  <2>7. HeartbeatFits(hb)'
    BY <2>5, <2>6 DEF HeartbeatFits
  <2> QED
    BY <1>6, <1>9, <2>1, <2>2, <2>3, <2>7
<1>11. CASE ~(event \in decided \/ plan.reason # "none")
  <2>1. PICK p : p = Position(event, plan)
    OBVIOUS
  <2>2. Len(positions) < MaxPositions /\ positions' = Append(positions, p)
    BY <1>8, <1>11, <2>1
  <2>3. Entered(p, event)
    <3>1. Plan(direction, equity, KindsAfter).reason = "none"
      BY <1>7, <1>11
    <3>2. Entered(Position(event, Plan(direction, equity, KindsAfter)), event)
      BY <1>0, <1>1, <1>2, <1>4, <1>5, <3>1, EntryFacts
    <3> QED
      BY <1>7, <2>1, <3>2
  <2>4. BooksInv' /\ Grows /\ \A i \in Open' : positions'[i].entry_ts = hb.ts
    BY <1>0, <1>1, <1>6, <2>2, <2>3, EnterKeeps
  <2>5. HeartbeatFits(hb)'
    BY <1>0, <2>4, HeartbeatEnters
  <2> QED
    BY <1>6, <1>9, <2>3, <2>4, <2>5
<1> QED
  BY <1>10, <1>11

-----------------------------------------------------------------------------
(* The theorems.                                                            *)

\* A position entered within the limits: the body of EntryWithinLimits.
EntryStep ==
    positions' # positions =>
      LET day == utc_day(hb.ts)
          balance == Balance(closes) * PriceUnits
      IN  /\ ~engaged /\ \A i \in DOMAIN locks' : locks'[i].reviewed
          /\ balance * BPS > high_water' * (BPS - account.drawdown_pct)
          /\ (day_start'[day] - balance) * BPS < day_start'[day] * account.daily_loss_pct

\* References that move one way: the body of ReferencesHold.
ReferenceStep ==
    (\A i \in DOMAIN locks : locks'[i] = locks[i]) =>
      /\ high_water' >= high_water
      /\ \A d \in DOMAIN day_start : d \in DOMAIN day_start' /\ day_start'[d] = day_start[d]

\* An evaluation of the locks, and a step that leaves the marks, move no reference.
LEMMA MarksHold ==
    ASSUME high_water \in Int, MarksKept \/ UNCHANGED <<day_start, high_water>>
    PROVE  ReferenceStep
BY DEF MarksKept, ReferenceStep

\* ensure_account sets the first high-water mark and lowers none.
LEMMA EnsureHolds ==
    ASSUME BooksInv, NEW envelope \in Envelopes, EnsureAccount(envelope), UNCHANGED day_start
    PROVE  ReferenceStep
<1>1. high_water' >= high_water
  <2>1. CASE account = NoAccount
    <3>1. high_water = -1 /\ high_water' = envelope.equity * PriceUnits
      BY <2>1 DEF EnsureAccount, BooksInv, NothingBefore, NoMark
    <3>2. envelope.equity * PriceUnits \in Nat
      BY EnvelopeFacts, RiskAssumption
    <3> QED
      BY <3>1, <3>2
  <2>2. CASE account # NoAccount
    <3>1. high_water \in Int /\ high_water' = high_water
      BY <2>2 DEF EnsureAccount, BooksInv, BooksTyped
    <3> QED
      BY <3>1
  <2> QED
    BY <2>1, <2>2
<1> QED
  BY <1>1 DEF ReferenceStep

\* Every step keeps the inductive invariant, enters within the limits and moves
\* no reference outside a review.
LEMMA PilotNextInv ==
    ASSUME PilotIInv, [PilotNext]_pilotVars
    PROVE  PilotIInv' /\ [EntryStep]_pilotVars /\ [ReferenceStep]_pilotVars
<1>0. BooksInv /\ high_water \in Int
  BY DEF PilotIInv, BooksInv, BooksTyped
<1>1. CASE LocalNext
  <2>1. UNCHANGED <<positions, day_start, high_water>>
    BY <1>1 DEF LocalNext, HeartbeatStart, SettleFails, EndCycle, Watch, Quoted, MonitorFind, TickFails,
                engage_kill_switch, release_kill_switch, Clock, Restart, bookVars, marksVars
  <2>2. EntryStep /\ ReferenceStep
    BY <1>0, <2>1, MarksHold DEF EntryStep
  <2> QED
    BY <1>1, <2>2, LocalKeeps
<1>2. CASE RecordSnapshot
  <2>1. UNCHANGED <<positions, day_start, high_water>>
    BY <1>2 DEF RecordSnapshot, bookVars, marksVars
  <2>2. EntryStep /\ ReferenceStep
    BY <1>0, <2>1, MarksHold DEF EntryStep
  <2> QED
    BY <1>2, <2>2, RecordKeeps
<1>3. CASE SettleFind
  <2>1. UNCHANGED <<positions, day_start>> /\ EnsureAccount(hb.envelope) /\ hb.envelope \in Envelopes
    BY <1>3 DEF SettleFind, PilotIInv, HeartbeatFits
  <2>2. PICK envelope \in Envelopes : envelope = hb.envelope
    BY <2>1
  <2>3. EntryStep /\ ReferenceStep
    BY <1>0, <2>1, <2>2, EnsureHolds DEF EntryStep
  <2> QED
    BY <1>3, <2>3, SettleFindKeeps
<1>4. CASE OpenPrepares
  <2>1. UNCHANGED <<positions, day_start>> /\ EnsureAccount(hb.envelope) /\ hb.envelope \in Envelopes
    BY <1>4 DEF OpenPrepares, PilotIInv, HeartbeatFits
  <2>2. PICK envelope \in Envelopes : envelope = hb.envelope
    BY <2>1
  <2>3. EntryStep /\ ReferenceStep
    BY <1>0, <2>1, <2>2, EnsureHolds DEF EntryStep
  <2> QED
    BY <1>4, <2>3, OpenPreparesKeeps
<1>5. CASE SettleWrite
  <2>1. UNCHANGED positions
    BY <1>5 DEF SettleWrite, ClosePositions
  <2>2. EntryStep /\ ReferenceStep
    BY <1>0, <1>5, <2>1, SettleWriteKeeps, MarksHold DEF EntryStep
  <2> QED
    BY <1>5, <2>2, SettleWriteKeeps
<1>6. CASE MonitorWrite
  <2>1. UNCHANGED positions
    BY <1>6 DEF MonitorWrite, ClosePositions
  <2>2. EntryStep /\ ReferenceStep
    BY <1>0, <1>6, <2>1, MonitorWriteKeeps, MarksHold DEF EntryStep
  <2> QED
    BY <1>6, <2>2, MonitorWriteKeeps
<1>7. CASE evaluate_locks
  <2>1. UNCHANGED positions
    BY <1>7 DEF evaluate_locks
  <2>2. EntryStep /\ ReferenceStep
    BY <1>0, <1>7, <2>1, EvaluateStepKeeps, MarksHold DEF EntryStep
  <2> QED
    BY <1>7, <2>2, EvaluateStepKeeps
<1>8. ASSUME NEW i \in DOMAIN locks, review_lock(i)
      PROVE  PilotIInv' /\ EntryStep /\ ReferenceStep
  <2>1. UNCHANGED positions
    BY <1>8 DEF review_lock
  <2>2. PilotIInv' /\ locks'[i] # locks[i]
    BY <1>8, ReviewKeeps
  <2> QED
    BY <2>1, <2>2 DEF EntryStep, ReferenceStep
<1>9. ASSUME NEW event \in Events, NEW direction \in {"LONG", "SHORT"}, open_candidates(event, direction)
      PROVE  PilotIInv' /\ EntryStep /\ ReferenceStep
  <2>1. /\ PilotIInv' /\ MarksKept
        /\ positions' # positions => \E p : Entered(p, event)
    BY <1>9, CandidatesKeep
  <2>2. EntryStep
    BY <2>1 DEF EntryStep, Entered
  <2> QED
    BY <1>0, <2>1, <2>2, MarksHold
<1>10. CASE UNCHANGED pilotVars
  <2>1. UNCHANGED <<now, snapshots, bookVars, hb, mon>>
    BY <1>10 DEF pilotVars
  <2>2. now' \in Times
    BY <2>1 DEF PilotIInv, BooksInv, BooksTyped
  <2>3. PilotIInv'
    BY <2>1, <2>2, LocalStep DEF PilotIInv
  <2> QED
    BY <1>10, <2>3
<1> QED
  BY <1>1, <1>2, <1>3, <1>4, <1>5, <1>6, <1>7, <1>8, <1>9, <1>10
  DEF PilotNext, HeartbeatStep, MonitorStep, OperatorStep, LocalNext

\* The inductive invariant says all that PilotInv does.
LEMMA PilotInvFollows == PilotIInv => PilotInv
<1> SUFFICES ASSUME PilotIInv
             PROVE  PilotInv
  OBVIOUS
<1> USE DEF PilotIInv
<1>1. BooksTyped /\ NothingBefore /\ ClosesMatch /\ OneActivePerKind /\ ClosesEarliest /\ DrawdownBounded
  BY DEF BooksInv
<1>2. PilotTypeOK
  BY <1>1 DEF BooksTyped, NothingBefore, ClosesMatch, PilotTypeOK
<1>3. Cardinality(Open) <= EX1_MAX_POSITIONS
  <2>1. \A i, j \in Open : i = j
    BY <1>1 DEF ClosesMatch
  <2>2. CASE Open = {}
    BY <2>2, FS_EmptySet DEF EX1_MAX_POSITIONS
  <2>3. CASE Open # {}
    <3>1. PICK i \in Open : Open = {i}
      BY <2>1, <2>3
    <3>2. Cardinality({i}) = 1
      BY FS_Singleton
    <3> QED
      BY <3>1, <3>2 DEF EX1_MAX_POSITIONS
  <2> QED
    BY <2>2, <2>3
<1>4. ClosedOnce
  BY <1>1, <1>3 DEF ClosedOnce, ClosesMatch, Open
<1>5. EarliestTouch
  <2> SUFFICES ASSUME NEW k \in DOMAIN closes,
                      NEW t \in closes[k].known
                              \cap (positions[closes[k].position].entry_ts + 1)..(closes[k].exit_ts - 1)
               PROVE  exit_decision(positions[closes[k].position], t, snapshots[t]) = "none"
    BY DEF EarliestTouch
  <2>1. Earliest(closes[k])
    BY <1>1 DEF ClosesEarliest
  <2> QED
    BY <2>1 DEF Earliest, Untouched
<1>6. NothingDueLeft
  <2> SUFFICES ASSUME hb.pc = "open", hb.settled, NEW i \in Open,
                      NEW t \in (positions[i].entry_ts + 1)..hb.ts, snapshots[t] # 0
               PROVE  positions[i].stop < snapshots[t] /\ snapshots[t] < positions[i].target /\ t < positions[i].due_at
    BY DEF NothingDueLeft, Open
  <2>1. exit_decision(positions[i], t, snapshots[t]) = "none"
    BY DEF HeartbeatFits, Untouched
  <2>2. i \in DOMAIN positions /\ positions[i] \in PositionSet
    BY <1>1 DEF Open, OpenPositions, BooksTyped
  <2>3. PICK p \in PositionSet : p = positions[i]
    BY <2>2
  <2>4. p.stop \in Int /\ p.target \in Int /\ p.due_at \in Int /\ p.entry_ts \in Int /\ hb.ts \in Times /\ hb.ts \in Int
    <3>1. p.entry_ts \in Times /\ hb.ts \in Times
      BY DEF PositionSet, HeartbeatFits, HeartbeatSet
    <3>2. p.stop \in Int /\ p.target \in Int /\ p.due_at \in Int
      BY DEF PositionSet
    <3>3. p.entry_ts \in Nat /\ hb.ts \in Nat
      BY <3>1, TimesNat
    <3> QED
      BY <3>1, <3>2, <3>3
  <2>5. t \in Int /\ t \in Times
    <3>1. p.entry_ts \in 0..MaxTime /\ hb.ts \in 0..MaxTime /\ MaxTime \in Nat
      BY <2>4, PilotAssumption DEF Times, PositionSet
    <3>2. t \in (p.entry_ts + 1)..hb.ts
      BY <2>3
    <3> QED
      BY <3>1, <3>2 DEF Times
  <2>6. PICK s \in Int : s = snapshots[t]
    <3>1. snapshots[t] \in Bids \cup {0}
      BY <1>1, <2>5 DEF BooksTyped
    <3>2. Bids \cup {0} \subseteq Int
      BY QuoteAssumption
    <3> QED
      BY <3>1, <3>2
  <2>7. ~(s <= p.stop) /\ ~(s >= p.target) /\ ~(t >= p.due_at)
    BY <2>1, <2>3, <2>6 DEF exit_decision
  <2> QED
    BY <2>3, <2>4, <2>5, <2>6, <2>7
<1> QED
  BY <1>1, <1>2, <1>4, <1>5, <1>6 DEF PilotInv

\* The books of the pilot account, whatever the heartbeat, the monitor and the
\* operator do in any order: a position is closed once and where it first had to
\* be left, at most one is open, none that was due is left by a settle, a kind
\* has one active lock, and without a gap or a review the balance never falls
\* more than one planned loss below the drawdown limit (close_positions,
\* _evaluate_locks, open_candidates).
THEOREM PilotSound == PilotSpec => []PilotInv
<1>1. PilotInit => PilotIInv
  BY PilotInitInv
<1>2. PilotIInv /\ [PilotNext]_pilotVars => PilotIInv'
  BY PilotNextInv
<1>3. PilotIInv => PilotInv
  BY PilotInvFollows
<1> QED
  BY <1>1, <1>2, <1>3, PTL DEF PilotSpec

\* No step enters while the balance is at a limit, a lock waits for its review or
\* the kill switch is engaged, and no step but a review lowers the high-water
\* mark or changes the reference of a day (open_candidates, review_lock).
THEOREM PilotStepsSound == PilotSpec => PilotSteps
<1>1. PilotInit => PilotIInv
  BY PilotInitInv
<1>2. PilotIInv /\ [PilotNext]_pilotVars => PilotIInv'
  BY PilotNextInv
<1>3. PilotIInv /\ [PilotNext]_pilotVars => [EntryStep]_pilotVars
  BY PilotNextInv
<1>4. PilotIInv /\ [PilotNext]_pilotVars => [ReferenceStep]_pilotVars
  BY PilotNextInv
<1>5. PilotSpec => [][EntryStep]_pilotVars
  BY <1>1, <1>2, <1>3, PTL DEF PilotSpec
<1>6. PilotSpec => [][ReferenceStep]_pilotVars
  BY <1>1, <1>2, <1>4, PTL DEF PilotSpec
<1> QED
  BY <1>5, <1>6, PTL DEF PilotSteps, EntryWithinLimits, ReferencesHold, EntryStep, ReferenceStep

-----------------------------------------------------------------------------
(* The reader of the Kraken account.                                        *)

Endpoints == DOMAIN PARAMETER_ALLOWLIST
Given == UNION {Answers(e) : e \in Endpoints}
Inside == {"reserve", "send", "wait", "answered"}
KrakenErrors == {"INVALID_KEY", "INVALID_SIGNATURE", "INVALID_NONCE", "PERMISSION_DENIED",
                 "RATE_LIMITED", "SERVICE_UNAVAILABLE", "EXCHANGE_ERROR"}
Judgements == KrakenErrors \cup {"ok", "REDIRECT_REFUSED", "HTTP_STATUS", "TOO_LARGE", "NOT_JSON", "MALFORMED_RESPONSE"}
Results == Judgements \cup {"none", "ENDPOINT_REFUSED", "PARAMETER_REFUSED", "LOCKED", "UNAVAILABLE", "TIMEOUT",
                            "TRANSPORT_FAILED"}
Call == [at : {"idle", "lock"} \cup Inside, request : {<<>>} \cup {<<e>> : e \in Endpoints}, nonce : Nat,
         answer : {<<>>} \cup {<<a>> : a \in Given}, result : Results]

(* Every variable of the reader is what the program can hold there. *)
ReaderTypeOK ==
    /\ reader \in [mode : Range(TradingMode) \cup {"none"}, locked_by : AUTH_ERROR_CODES \cup {"no"}]
    /\ nonce_file \in Nat \cup {NoFile, Corrupt}
    /\ wall \in Nat /\ seen \in Nat /\ wire \subseteq Nat
    /\ caller \in [Callers -> Call]

(* A call under way names an endpoint; an answered one has Kraken's answer. *)
CallsFilled ==
    \A c \in Callers :
        /\ caller[c].at # "idle" => \E e \in Endpoints : caller[c].request = <<e>>
        /\ caller[c].at = "answered" => \E a \in Given : caller[c].answer = <<a>>

(* The nonce under way is above all that Kraken took, and nothing sent      *)
(* before it, still on the wire, can overtake it.                           *)
NonceAhead ==
    \A c \in Callers :
        /\ caller[c].at = "send" => \A n \in wire \cup {seen} : n < caller[c].nonce
        /\ caller[c].at = "wait" =>
              caller[c].nonce \in wire /\ seen < caller[c].nonce /\ \A n \in wire : n <= caller[c].nonce
        /\ caller[c].at \in {"send", "wait"} /\ nonce_file # Corrupt => caller[c].nonce <= last

ReaderIInv == ReaderTypeOK /\ CallsFilled /\ NonceAhead /\ ReaderInv

-----------------------------------------------------------------------------
(* The larger of two numbers. *)
LEMMA MaxOfTwo ==
    ASSUME NEW a \in Int, NEW b \in Int
    PROVE  Max({a, b}) \in {a, b} /\ a <= Max({a, b}) /\ b <= Max({a, b})
<1>1. \E x \in {a, b} : \A y \in {a, b} : x >= y
  OBVIOUS
<1> QED BY <1>1 DEF Max

(* The first of some places in a list of seven. *)
LEMMA FirstOfSeven ==
    ASSUME NEW S \in SUBSET (1..7), S # {}
    PROVE  Min(S) \in S
<1>1. \E x \in S : \A y \in S : x <= y
  <2>1. \A y \in S : y = 1 \/ y = 2 \/ y = 3 \/ y = 4 \/ y = 5 \/ y = 6 \/ y = 7
    OBVIOUS
  <2>2. CASE 1 \in S BY <2>1, <2>2
  <2>3. CASE 1 \notin S /\ 2 \in S BY <2>1, <2>3
  <2>4. CASE S \cap {1, 2} = {} /\ 3 \in S BY <2>1, <2>4
  <2>5. CASE S \cap {1, 2, 3} = {} /\ 4 \in S BY <2>1, <2>5
  <2>6. CASE S \cap {1, 2, 3, 4} = {} /\ 5 \in S BY <2>1, <2>6
  <2>7. CASE S \cap {1, 2, 3, 4, 5} = {} /\ 6 \in S BY <2>1, <2>7
  <2>8. CASE S \cap {1, 2, 3, 4, 5, 6} = {}
    <3>1. \A y \in S : y = 7
      BY <2>1, <2>8
    <3>2. PICK x \in S : TRUE
      OBVIOUS
    <3> QED BY <3>1, <3>2
  <2> QED BY <2>2, <2>3, <2>4, <2>5, <2>6, <2>7, <2>8
<1> QED BY <1>1 DEF Min

(* An error is reported only if Kraken's answer held it. *)
LEMMA ClassifiedWasGiven ==
    ASSUME NEW errors, classify_kraken_errors(errors) # "none"
    PROVE  classify_kraken_errors(errors) \in errors /\ classify_kraken_errors(errors) \in KrakenErrors
<1> DEFINE found == {i \in DOMAIN ERROR_PRECEDENCE : ERROR_PRECEDENCE[i] \in errors \ {"WARNING"}}
<1>1. DOMAIN ERROR_PRECEDENCE = 1..7 /\ \A i \in 1..7 : ERROR_PRECEDENCE[i] \in KrakenErrors
  BY DEF ERROR_PRECEDENCE, KrakenErrors
<1>2. found # {} /\ classify_kraken_errors(errors) = ERROR_PRECEDENCE[Min(found)]
  BY DEF classify_kraken_errors
<1>3. Min(found) \in found
  <2> HIDE DEF found
  <2>1. found \in SUBSET (1..7)
    BY <1>1 DEF found
  <2> QED BY <1>2, <2>1, FirstOfSeven
<1> QED BY <1>1, <1>2, <1>3

(* An answer that Kraken gave is never judged an invalid nonce. *)
LEMMA NotInvalidNonce ==
    ASSUME NEW endpoint, NEW a, "INVALID_NONCE" \notin a.errors
    PROVE  judge(endpoint, a) # "INVALID_NONCE" /\ judge(endpoint, a) \in Judgements
<1>1. classify_kraken_errors(a.errors) = "none"
         \/ (classify_kraken_errors(a.errors) \in KrakenErrors /\ classify_kraken_errors(a.errors) # "INVALID_NONCE")
  BY ClassifiedWasGiven
<1> QED BY <1>1 DEF judge, Judgements

(* SHADOW_LIVE is the fourth mode. *)
LEMMA FourthMode == rank("SHADOW_LIVE") = 4
<1>1. DOMAIN TradingMode = 1..7 /\ TradingMode[4] = "SHADOW_LIVE"
  BY DEF TradingMode
<1>2. \A i \in 1..7 : TradingMode[i] = "SHADOW_LIVE" => i = 4
  BY DEF TradingMode
<1> QED BY <1>1, <1>2 DEF rank

(* The invariant only looks at these; the fault counter, the clock and the  *)
(* environment's other parts are free.                                      *)
LEMMA ReaderInitially == ReaderInit => ReaderIInv
<1> SUFFICES ASSUME ReaderInit PROVE ReaderIInv
  OBVIOUS
<1>1. \A c \in Callers : caller[c] = Waiting
  BY DEF ReaderInit
<1>2. Waiting \in Call
  BY DEF Waiting, Call, Results
<1>3. caller \in [Callers -> Call]
  BY <1>2 DEF ReaderInit
<1>4. ReaderTypeOK
  BY <1>3, ReaderAssumption DEF ReaderInit, ReaderTypeOK, NotOpen, NoFile
<1>5. CallsFilled /\ NonceAhead
  BY <1>1 DEF CallsFilled, NonceAhead, Waiting
<1>6. ReaderInv
  BY <1>1 DEF ReaderInit, ReaderInv, NonceInStep, ReaderAllowed, NotOpen, Waiting, last, NoFile, Corrupt
<1> QED BY <1>4, <1>5, <1>6 DEF ReaderIInv

(* A caller that ends its call, wherever it was, disturbs nothing. *)
LEMMA DoneKeeps ==
    ASSUME ReaderIInv, NEW c \in Callers, NEW result \in Results, Done(c, result),
           UNCHANGED <<reader, nonce_file, wall, wire, seen, environment>>,
           request_lock' = request_lock \/ (request_lock = {c} /\ request_lock' = {})
    PROVE  ReaderIInv'
<1>1. caller' \in [Callers -> Call]
  BY DEF Done, ReaderIInv, ReaderTypeOK, Call, Waiting
<1>2. \A d \in Callers : d # c => caller'[d] = caller[d]
  BY DEF Done, ReaderIInv, ReaderTypeOK
<1>3. caller'[c].at = "idle"
  BY DEF Done, ReaderIInv, ReaderTypeOK, Waiting
<1>4. ReaderTypeOK'
  BY <1>1 DEF ReaderIInv, ReaderTypeOK
<1>5. CallsFilled' /\ NonceAhead'
  BY <1>2, <1>3 DEF ReaderIInv, CallsFilled, NonceAhead, last
<1>6. NonceInStep'
  BY <1>2, <1>3 DEF ReaderIInv, ReaderInv, NonceInStep, last
<1>7. ReaderAllowed'
  BY DEF ReaderIInv, ReaderInv, ReaderAllowed
<1> QED BY <1>4, <1>5, <1>6, <1>7 DEF ReaderIInv, ReaderInv

LEMMA OpenKeeps ==
    ASSUME ReaderIInv, NEW mode \in Modes, open_private_reader(mode)
    PROVE  ReaderIInv'
<1>1. reader' = [mode |-> mode, locked_by |-> "no"] /\ mode \in Range(TradingMode)
  BY DEF open_private_reader, allows_private_reads
<1>2. ReaderTypeOK'
  BY <1>1 DEF open_private_reader, ReaderIInv, ReaderTypeOK
<1>3. CallsFilled' /\ NonceAhead'
  BY DEF open_private_reader, ReaderIInv, CallsFilled, NonceAhead, last
<1>4. NonceInStep'
  BY <1>1 DEF open_private_reader, ReaderIInv, ReaderInv, NonceInStep, last
<1>5. ReaderAllowed'
  BY <1>1, FourthMode DEF open_private_reader, ReaderAllowed, allows_private_reads
<1> QED BY <1>2, <1>3, <1>4, <1>5 DEF ReaderIInv, ReaderInv

LEMMA ReadKeeps ==
    ASSUME ReaderIInv, NEW c \in Callers, NEW q \in Requests, read(c, q)
    PROVE  ReaderIInv'
<1>1. CASE Done(c, "ENDPOINT_REFUSED") \/ Done(c, "PARAMETER_REFUSED")
  BY <1>1, DoneKeeps DEF read, Results
<1>2. CASE /\ resolve_endpoint(q.endpoint)
           /\ caller' = [caller EXCEPT ![c] = [Waiting EXCEPT !.at = "lock", !.request = <<q.endpoint>>]]
  <2>1. q.endpoint \in Endpoints
    BY <1>2 DEF resolve_endpoint, Endpoints
  <2>2. [Waiting EXCEPT !.at = "lock", !.request = <<q.endpoint>>] \in Call
    BY <2>1 DEF Waiting, Call, Results
  <2>3. ReaderTypeOK'
    BY <1>2, <2>2 DEF read, ReaderIInv, ReaderTypeOK
  <2>4. /\ \A d \in Callers : d # c => caller'[d] = caller[d]
        /\ caller'[c].at = "lock" /\ caller'[c].request = <<q.endpoint>>
    BY <1>2 DEF ReaderIInv, ReaderTypeOK, Waiting
  <2>5. CallsFilled' /\ NonceAhead'
    BY <2>1, <2>4 DEF read, ReaderIInv, CallsFilled, NonceAhead, last
  <2>6. NonceInStep' /\ ReaderAllowed'
    BY <2>4 DEF read, ReaderIInv, ReaderInv, NonceInStep, ReaderAllowed, last
  <2> QED BY <2>3, <2>5, <2>6 DEF ReaderIInv, ReaderInv
<1> QED BY <1>1, <1>2 DEF read

LEMMA AcquireKeeps ==
    ASSUME ReaderIInv, NEW c \in Callers, acquire(c)
    PROVE  ReaderIInv'
<1>1. CASE reader.locked_by # "no"
  BY <1>1, DoneKeeps DEF acquire, Results
<1>2. CASE reader.locked_by = "no"
  <2>1. /\ caller' = [caller EXCEPT ![c].at = "reserve"] /\ caller[c].at = "lock"
        /\ request_lock = {} /\ request_lock' = {c}
        /\ UNCHANGED <<reader, nonce_file, wall, wire, seen, environment>>
    BY <1>2 DEF acquire, Set
  <2>2. ReaderTypeOK'
    BY <2>1 DEF ReaderIInv, ReaderTypeOK, Call, Inside
  <2>3. /\ \A d \in Callers : d # c => caller'[d] = caller[d]
        /\ caller'[c].at = "reserve" /\ caller'[c].request = caller[c].request
    BY <2>1 DEF ReaderIInv, ReaderTypeOK, Call
  <2>4. CallsFilled' /\ NonceAhead'
    BY <2>1, <2>3 DEF ReaderIInv, CallsFilled, NonceAhead, last
  <2>5. NonceInStep' /\ ReaderAllowed'
    BY <1>2, <2>1, <2>3 DEF ReaderIInv, ReaderInv, NonceInStep, ReaderAllowed, last
  <2> QED BY <2>2, <2>4, <2>5 DEF ReaderIInv, ReaderInv
<1> QED BY <1>1, <1>2

(* The one caller inside the lock. *)
LEMMA Alone ==
    ASSUME ReaderIInv, NEW c \in Callers, caller[c].at \in Inside
    PROVE  /\ request_lock = {c} /\ reader.locked_by = "no"
           /\ \A d \in Callers : d # c => caller[d].at \notin Inside
BY DEF ReaderIInv, ReaderInv, NonceInStep, Inside

(* The nonce that is reserved is above every one that was.                  *)
LEMMA ReserveKeeps ==
    ASSUME ReaderIInv, NEW c \in Callers, reserve(c)
    PROVE  ReaderIInv'
<1>1. /\ caller[c].at = "reserve" /\ request_lock = {c}
      /\ \A d \in Callers : d # c => caller[d].at \notin Inside
  BY Alone DEF reserve, Inside
<1>2. CASE Unreserved(c)
  BY <1>1, <1>2, DoneKeeps DEF Unreserved, Results
<1>3. CASE /\ nonce_file # Corrupt /\ nonce_file' = next_nonce
           /\ caller' = [caller EXCEPT ![c].at = "send", ![c].nonce = next_nonce]
           /\ UNCHANGED <<reader, wall, request_lock, wire, seen, environment>>
  <2>1. last \in Nat /\ wall \in Nat
    BY <1>3 DEF ReaderIInv, ReaderTypeOK, last, NoFile, Corrupt
  <2>2. next_nonce \in Nat /\ last < next_nonce
    <3>1. last + 1 \in Int /\ wall \in Int
      BY <2>1
    <3>2. Max({last + 1, wall}) \in {last + 1, wall} /\ last + 1 <= Max({last + 1, wall})
      BY <3>1, MaxOfTwo
    <3> QED BY <2>1, <3>2 DEF next_nonce
  <2>3. ReaderTypeOK'
    BY <1>3, <2>2, ZenonT(60) DEF ReaderIInv, ReaderTypeOK, Call, Inside
  <2>4. /\ \A d \in Callers : d # c => caller'[d] = caller[d]
        /\ caller'[c].at = "send" /\ caller'[c].request = caller[c].request /\ caller'[c].nonce = next_nonce
    BY <1>3 DEF ReaderIInv, ReaderTypeOK, Call
  <2>5. last' = next_nonce
    BY <1>3, <2>2 DEF last, NoFile
  <2>6. \A n \in wire \cup {seen} : n \in Nat /\ n <= last
    BY <1>3 DEF ReaderIInv, ReaderInv, NonceInStep, ReaderTypeOK
  <2>7. CallsFilled'
    BY <1>1, <2>4 DEF ReaderIInv, CallsFilled
  <2>8. NonceAhead'
    <3>1. ASSUME NEW d \in Callers, caller'[d].at \in {"send", "wait"}
          PROVE  /\ d = c /\ caller'[d].at = "send" /\ caller'[d].nonce = next_nonce
      BY <1>1, <2>4, <3>1 DEF Inside
    <3>2. \A n \in wire' \cup {seen'} : n < next_nonce
      BY <1>3, <2>1, <2>2, <2>6
    <3>3. next_nonce <= last'
      BY <2>2, <2>5
    <3> QED BY <3>1, <3>2, <3>3 DEF NonceAhead
  <2>9. NonceInStep' /\ ReaderAllowed'
    <3>1. \A n \in wire' \cup {seen'} : n <= last'
      BY <1>3, <2>1, <2>2, <2>5, <2>6
    <3>2. \A d \in Callers : caller'[d].at \in Inside => d = c
      BY <1>1, <2>4
    <3>3. reader'.locked_by = "no" /\ request_lock' = {c}
      BY <1>1, <1>3, Alone DEF Inside
    <3> QED BY <1>3, <3>1, <3>2, <3>3 DEF ReaderIInv, ReaderInv, NonceInStep, ReaderAllowed, Inside
  <2> QED BY <2>3, <2>7, <2>8, <2>9 DEF ReaderIInv, ReaderInv
<1> QED BY <1>2, <1>3 DEF reserve, write

LEMMA SendKeeps ==
    ASSUME ReaderIInv, NEW c \in Callers, send(c)
    PROVE  ReaderIInv'
<1>1. /\ caller[c].at = "send" /\ request_lock = {c} /\ reader.locked_by = "no"
      /\ \A d \in Callers : d # c => caller[d].at \notin Inside
  BY Alone DEF send, Inside
<1>2. /\ wire' = wire \cup {caller[c].nonce} /\ caller' = [caller EXCEPT ![c].at = "wait"]
      /\ UNCHANGED <<reader, nonce_file, wall, request_lock, seen, environment>>
  BY DEF send, Set
<1>3. caller[c].nonce \in Nat /\ seen < caller[c].nonce
  BY <1>1 DEF ReaderIInv, ReaderTypeOK, Call, NonceAhead
<1>4. ReaderTypeOK'
  BY <1>2, <1>3 DEF ReaderIInv, ReaderTypeOK, Call, Inside
<1>5. /\ \A d \in Callers : d # c => caller'[d] = caller[d]
      /\ caller'[c].at = "wait" /\ caller'[c].request = caller[c].request /\ caller'[c].nonce = caller[c].nonce
  BY <1>2 DEF ReaderIInv, ReaderTypeOK, Call
<1>6. CallsFilled'
  BY <1>1, <1>5 DEF ReaderIInv, CallsFilled
<1>7. NonceAhead'
  <2>1. ASSUME NEW d \in Callers, caller'[d].at \in {"send", "wait"}
        PROVE  /\ d = c /\ caller'[d].at = "wait" /\ caller'[d].nonce = caller[c].nonce
    BY <1>1, <1>5, <2>1 DEF Inside
  <2>2. \A n \in wire : n < caller[c].nonce
    BY <1>1 DEF ReaderIInv, NonceAhead
  <2>3. caller[c].nonce \in wire' /\ seen' < caller[c].nonce /\ \A n \in wire' : n <= caller[c].nonce
    BY <1>2, <1>3, <2>2 DEF ReaderIInv, ReaderTypeOK
  <2>4. nonce_file' # Corrupt => caller[c].nonce <= last'
    BY <1>1, <1>2 DEF ReaderIInv, NonceAhead, last
  <2> QED BY <2>1, <2>3, <2>4 DEF NonceAhead
<1>8. NonceInStep' /\ ReaderAllowed'
  BY <1>1, <1>2, <1>5 DEF ReaderIInv, ReaderInv, NonceInStep, NonceAhead, ReaderAllowed, last, Inside
<1> QED BY <1>4, <1>6, <1>7, <1>8 DEF ReaderIInv, ReaderInv

(* A request arrives: the one that is waited for has the highest nonce, so  *)
(* Kraken answers it; any other was abandoned, and leaves the waiting one   *)
(* above what Kraken has taken.                                             *)
LEMMA ArriveKeeps ==
    ASSUME ReaderIInv, NEW n \in wire, Arrive(n)
    PROVE  ReaderIInv'
<1>1. /\ wire' = wire \ {n} /\ seen' = Max({seen, n}) /\ n \in Nat /\ seen \in Nat
      /\ UNCHANGED <<reader, nonce_file, wall, request_lock, environment>>
  BY DEF Arrive, ReaderIInv, ReaderTypeOK
<1>2. seen' \in {seen, n} /\ seen <= seen' /\ n <= seen'
  BY <1>1, MaxOfTwo
<1>3. CASE \E c \in Callers :
            /\ caller[c].at = "wait" /\ caller[c].nonce = n
            /\ \E a \in Answers(caller[c].request[1]) :
                 caller' = [caller EXCEPT ![c].at = "answered",
                   ![c].answer = <<IF n > seen THEN a ELSE [a EXCEPT !.status = 200, !.errors = {"INVALID_NONCE"}]>>]
  <2>1. PICK c \in Callers :
            /\ caller[c].at = "wait" /\ caller[c].nonce = n
            /\ \E a \in Answers(caller[c].request[1]) :
                 caller' = [caller EXCEPT ![c].at = "answered",
                   ![c].answer = <<IF n > seen THEN a ELSE [a EXCEPT !.status = 200, !.errors = {"INVALID_NONCE"}]>>]
    BY <1>3
  <2>2. n > seen
    BY <1>1, <2>1 DEF ReaderIInv, NonceAhead
  <2>12. PICK a \in Answers(caller[c].request[1]) : caller' = [caller EXCEPT ![c].at = "answered", ![c].answer = <<a>>]
    BY <2>1, <2>2
  <2>3. a \in Given
    <3>1. PICK e \in Endpoints : caller[c].request = <<e>>
      BY <2>1 DEF ReaderIInv, CallsFilled
    <3>2. caller[c].request[1] = e
      BY <3>1
    <3> QED BY <3>2 DEF Given
  <2>4. caller' = [caller EXCEPT ![c].at = "answered", ![c].answer = <<a>>]
    BY <2>12
  <2>5. caller' \in [Callers -> Call]
    BY <2>3, <2>4, ZenonT(60) DEF ReaderIInv, ReaderTypeOK, Call, Inside
  <2>6. ReaderTypeOK'
    BY <1>1, <1>2, <2>5 DEF ReaderIInv, ReaderTypeOK
  <2>7. /\ \A d \in Callers : d # c => caller'[d] = caller[d]
        /\ caller'[c].at = "answered" /\ caller'[c].request = caller[c].request /\ caller'[c].answer = <<a>>
    BY <2>4 DEF ReaderIInv, ReaderTypeOK, Call
  <2>8. CallsFilled'
    BY <2>1, <2>3, <2>7 DEF ReaderIInv, CallsFilled
  <2>9. request_lock = {c} /\ reader.locked_by = "no" /\ \A d \in Callers : d # c => caller[d].at \notin Inside
    BY <2>1, Alone DEF Inside
  <2>10. NonceAhead'
    BY <2>7, <2>9 DEF NonceAhead, Inside
  <2>11. NonceInStep' /\ ReaderAllowed'
    BY <1>1, <1>2, <2>7, <2>9 DEF ReaderIInv, ReaderInv, NonceInStep, ReaderAllowed, last, Inside
  <2> QED BY <2>6, <2>8, <2>10, <2>11 DEF ReaderIInv, ReaderInv
<1>4. CASE (\A c \in Callers : caller[c].at # "wait" \/ caller[c].nonce # n) /\ UNCHANGED caller
  <2>1. ReaderTypeOK' /\ CallsFilled'
    BY <1>1, <1>2, <1>4 DEF ReaderIInv, ReaderTypeOK, CallsFilled
  <2>2. NonceAhead'
    BY <1>1, <1>2, <1>4 DEF ReaderIInv, ReaderTypeOK, Call, NonceAhead, last
  <2>3. NonceInStep' /\ ReaderAllowed'
    BY <1>1, <1>2, <1>4 DEF ReaderIInv, ReaderInv, NonceInStep, ReaderAllowed, last
  <2> QED BY <2>1, <2>2, <2>3 DEF ReaderIInv, ReaderInv
<1> QED BY <1>3, <1>4 DEF Arrive

LEMMA TransportFailureKeeps ==
    ASSUME ReaderIInv, NEW c \in Callers, NEW code \in {"TIMEOUT", "TRANSPORT_FAILED"}, transport_failure(c, code)
    PROVE  ReaderIInv'
<1>1. request_lock = {c}
  BY Alone DEF transport_failure, Inside
<1> QED BY <1>1, DoneKeeps DEF transport_failure, Results

LEMMA AnswerKeeps ==
    ASSUME ReaderIInv, NEW c \in Callers, answer(c)
    PROVE  ReaderIInv'
<1> DEFINE code == judge(caller[c].request[1], caller[c].answer[1])
<1>1. caller[c].at = "answered" /\ request_lock = {c} /\ \A d \in Callers : d # c => caller[d].at \notin Inside
  BY Alone DEF answer, Inside
<1>2. code # "INVALID_NONCE" /\ code \in Judgements
  <2>1. PICK a \in Given : caller[c].answer = <<a>>
    BY <1>1 DEF ReaderIInv, CallsFilled
  <2>2. caller[c].answer[1] = a /\ "INVALID_NONCE" \notin a.errors
    BY <2>1, ReaderAssumption DEF Given, Endpoints
  <2> QED BY <2>2, NotInvalidNonce
<1> HIDE DEF code
<1>3. /\ reader' = [reader EXCEPT !.locked_by = IF code \in AUTH_ERROR_CODES THEN code ELSE @]
      /\ Done(c, code) /\ request_lock' = {} /\ UNCHANGED <<nonce_file, wall, wire, seen, environment>>
  BY DEF answer, code
<1>4. reader' \in [mode : Range(TradingMode) \cup {"none"}, locked_by : AUTH_ERROR_CODES \cup {"no"}]
  BY <1>3 DEF ReaderIInv, ReaderTypeOK
<1>5. caller' \in [Callers -> Call]
  BY <1>2, <1>3 DEF Done, ReaderIInv, ReaderTypeOK, Call, Waiting, Results
<1>6. /\ \A d \in Callers : d # c => caller'[d] = caller[d]
      /\ caller'[c].at = "idle"
  BY <1>3 DEF Done, ReaderIInv, ReaderTypeOK, Waiting
<1>7. ReaderTypeOK'
  BY <1>3, <1>4, <1>5 DEF ReaderIInv, ReaderTypeOK
<1>8. CallsFilled' /\ NonceAhead'
  BY <1>1, <1>3, <1>6 DEF ReaderIInv, CallsFilled, NonceAhead, last
<1>9. reader'.locked_by # "INVALID_NONCE" /\ reader'.mode = reader.mode
  BY <1>2, <1>3 DEF ReaderIInv, ReaderInv, NonceInStep, ReaderTypeOK
<1>10. NonceInStep'
  BY <1>1, <1>3, <1>6, <1>9 DEF ReaderIInv, ReaderInv, NonceInStep, last, Inside
<1>11. ReaderAllowed'
  BY <1>3, <1>9 DEF ReaderIInv, ReaderInv, ReaderAllowed
<1> QED BY <1>7, <1>8, <1>10, <1>11 DEF ReaderIInv, ReaderInv

(* A new process starts with nobody inside; what the old one sent stays     *)
(* below the nonce on disk.                                                 *)
LEMMA ProcessEndsKeeps ==
    ASSUME ReaderIInv, ProcessEnds
    PROVE  ReaderIInv'
<1>1. /\ reader' = NotOpen /\ request_lock' = {} /\ caller' = [c \in Callers |-> Waiting]
      /\ UNCHANGED <<nonce_file, wall, wire, seen, environment>>
  BY DEF ProcessEnds
<1>2. Waiting \in Call
  BY DEF Waiting, Call, Results
<1>3. \A c \in Callers : caller'[c].at = "idle"
  BY <1>1 DEF Waiting
<1>4. ReaderTypeOK'
  BY <1>1, <1>2 DEF ReaderIInv, ReaderTypeOK, NotOpen
<1>5. CallsFilled' /\ NonceAhead'
  BY <1>3 DEF CallsFilled, NonceAhead
<1>6. ReaderInv'
  BY <1>1, <1>3 DEF ReaderIInv, ReaderInv, NonceInStep, ReaderAllowed, NotOpen, last
<1> QED BY <1>4, <1>5, <1>6 DEF ReaderIInv

LEMMA SetClockKeeps ==
    ASSUME ReaderIInv, NEW t \in WallReadings, SetClock(t)
    PROVE  ReaderIInv'
<1>1. t \in Nat
  BY ReaderAssumption
<1> QED BY <1>1 DEF SetClock, ReaderIInv, ReaderTypeOK, CallsFilled, NonceAhead, ReaderInv, NonceInStep, ReaderAllowed, last

LEMMA DamageKeeps ==
    ASSUME ReaderIInv, Damage
    PROVE  ReaderIInv'
BY DEF Damage, ReaderIInv, ReaderTypeOK, CallsFilled, NonceAhead, ReaderInv, NonceInStep, ReaderAllowed

(* Every step of the reader keeps the invariant. *)
LEMMA ReaderSteps == ReaderIInv /\ [ReaderNext]_readerVars => ReaderIInv'
<1> SUFFICES ASSUME ReaderIInv, [ReaderNext]_readerVars PROVE ReaderIInv'
  OBVIOUS
<1>1. CASE ReaderNext
  BY <1>1, OpenKeeps, ReadKeeps, AcquireKeeps, ReserveKeeps, SendKeeps, AnswerKeeps, TransportFailureKeeps,
     ArriveKeeps, ProcessEndsKeeps, DamageKeeps, SetClockKeeps DEF ReaderNext
<1>2. CASE UNCHANGED readerVars
  BY <1>2 DEF readerVars, ReaderIInv, ReaderTypeOK, CallsFilled, NonceAhead, ReaderInv, NonceInStep, ReaderAllowed, last
<1> QED BY <1>1, <1>2

-----------------------------------------------------------------------------
(* The reader of the real account never runs out of step with Kraken:       *)
(* however callers overlap, answers are lost or late, the process dies, the *)
(* clock is set back or the nonce file is damaged, no request that is       *)
(* waited for is refused for its nonce, one request is under way at a time  *)
(* (NonceStore.reserve under the lock of read), and only a mode from        *)
(* SHADOW_LIVE on has a reader (open_private_reader).                       *)
THEOREM ReaderSound == ReaderSpec => []ReaderInv
<1>1. ReaderIInv => ReaderInv
  BY DEF ReaderIInv
<1> QED BY <1>1, ReaderInitially, ReaderSteps, PTL DEF ReaderSpec

(* What Kraken has taken only rises, and a nonce given to a request is above *)
(* every one given before it, in this process or an earlier one.             *)
NoncesRise ==
    [][/\ seen' >= seen
       /\ nonce_file # Corrupt /\ nonce_file' # Corrupt => last' >= last
       /\ \A c \in Callers : caller'[c].at = "send" /\ caller[c].at # "send" =>
             caller'[c].nonce = last' /\ last' > last]_readerVars

(* No restart, no failed write and no clock set back makes the program use  *)
(* a nonce twice (NonceStore.reserve: the larger of the last one plus one   *)
(* and the clock, on disk before the request leaves).                       *)
THEOREM NonceNeverReused == ReaderSpec => NoncesRise
<1> DEFINE Rise == /\ seen' >= seen
                   /\ nonce_file # Corrupt /\ nonce_file' # Corrupt => last' >= last
                   /\ \A c \in Callers : caller'[c].at = "send" /\ caller[c].at # "send" =>
                         caller'[c].nonce = last' /\ last' > last
<1>3. ReaderIInv /\ ReaderNext => Rise
  <2> SUFFICES ASSUME ReaderIInv, ReaderNext PROVE Rise
    OBVIOUS
  <2>1. seen \in Nat /\ (nonce_file # Corrupt => last \in Nat)
    BY DEF ReaderIInv, ReaderTypeOK, last, NoFile, Corrupt
  <2>2. ASSUME NEW c \in Callers, Set(c, "reserve") \/ Set(c, "wait") \/ (\E result : Done(c, result))
        PROVE  \A d \in Callers : caller'[d].at = "send" => caller[d].at = "send"
    BY <2>2 DEF Set, Done, ReaderIInv, ReaderTypeOK, Call, Waiting
  <2>3. ASSUME NEW mode \in Modes, open_private_reader(mode) PROVE Rise
    BY <2>1, <2>3 DEF open_private_reader, last
  <2>4. ASSUME NEW c \in Callers, NEW q \in Requests, read(c, q) PROVE Rise
    <3>1. \A d \in Callers : caller'[d].at = "send" => caller[d].at = "send"
      BY <2>4 DEF read, Done, ReaderIInv, ReaderTypeOK, Call, Waiting
    <3> QED BY <2>1, <2>4, <3>1 DEF read, last
  <2>5. ASSUME NEW c \in Callers, acquire(c) PROVE Rise
    BY <2>1, <2>2, <2>5 DEF acquire, last
  <2>6. ASSUME NEW c \in Callers, reserve(c) PROVE Rise
    <3>1. CASE Unreserved(c)
      BY <2>1, <2>2, <3>1 DEF Unreserved, last
    <3>2. CASE /\ nonce_file # Corrupt /\ nonce_file' = next_nonce
               /\ caller' = [caller EXCEPT ![c].at = "send", ![c].nonce = next_nonce]
               /\ UNCHANGED seen
      <4>1. last \in Nat /\ wall \in Nat
        BY <2>1, <3>2 DEF ReaderIInv, ReaderTypeOK
      <4>2. last + 1 \in Int /\ wall \in Int
        BY <4>1
      <4>3. Max({last + 1, wall}) \in {last + 1, wall} /\ last + 1 <= Max({last + 1, wall})
        BY <4>2, MaxOfTwo
      <4>4. next_nonce \in Nat /\ last < next_nonce
        BY <4>1, <4>3 DEF next_nonce
      <4>5. last' = next_nonce
        BY <3>2, <4>4 DEF last, NoFile
      <4>6. \A d \in Callers : caller'[d].at = "send" /\ caller[d].at # "send" => caller'[d].nonce = next_nonce
        BY <3>2 DEF ReaderIInv, ReaderTypeOK, Call
      <4>7. seen' >= seen /\ last' >= last /\ last' > last
        BY <2>1, <3>2, <4>1, <4>4, <4>5
      <4> QED BY <4>5, <4>6, <4>7
    <3> QED BY <2>6, <3>1, <3>2 DEF reserve, write
  <2>7. ASSUME NEW c \in Callers, send(c) PROVE Rise
    BY <2>1, <2>2, <2>7 DEF send, last
  <2>8. ASSUME NEW c \in Callers, answer(c) PROVE Rise
    BY <2>1, <2>2, <2>8 DEF answer, last
  <2>9. ASSUME NEW c \in Callers, NEW code, transport_failure(c, code) PROVE Rise
    BY <2>1, <2>2, <2>9 DEF transport_failure, last
  <2>10. ASSUME NEW n \in wire, Arrive(n) PROVE Rise
    <3>0. n \in Int /\ seen \in Int
      BY <2>1 DEF ReaderIInv, ReaderTypeOK
    <3>1. seen' = Max({seen, n}) /\ UNCHANGED nonce_file
      BY <2>10 DEF Arrive
    <3>2. seen' \in {seen, n} /\ seen <= seen'
      BY <3>0, <3>1, MaxOfTwo
    <3>3. UNCHANGED caller \/ \E c \in Callers : \E x : caller' = [caller EXCEPT ![c].at = "answered", ![c].answer = x]
      BY <2>10 DEF Arrive
    <3>4. \A d \in Callers : caller'[d].at = "send" => caller[d].at = "send"
      BY <3>3 DEF ReaderIInv, ReaderTypeOK, Call
    <3> QED BY <2>1, <3>1, <3>2, <3>4 DEF last
  <2>11. CASE ProcessEnds
    BY <2>1, <2>11 DEF ProcessEnds, Waiting, last
  <2>12. CASE Damage
    BY <2>1, <2>12 DEF Damage
  <2>13. ASSUME NEW t \in WallReadings, SetClock(t) PROVE Rise
    BY <2>1, <2>13 DEF SetClock, last
  <2> QED BY <2>3, <2>4, <2>5, <2>6, <2>7, <2>8, <2>9, <2>10, <2>11, <2>12, <2>13 DEF ReaderNext
<1>4. ReaderIInv /\ [ReaderNext]_readerVars => [Rise]_readerVars
  BY <1>3
<1> QED BY <1>4, ReaderInitially, ReaderSteps, PTL DEF ReaderSpec, NoncesRise
=============================================================================
