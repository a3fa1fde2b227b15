-------------------------- MODULE InventoryProofs --------------------------
(***************************************************************************)
(* What is proved of Inventory for every set of markets, every price,      *)
(* quantity and holding, and every number of fills: its legs agree, it     *)
(* keeps the signed position SignedLedger promises, and its PnL is         *)
(* conserved.                                                              *)
(***************************************************************************)
EXTENDS Inventory, OperatorProofs

-----------------------------------------------------------------------------
(* One fill on one position.                                               *)

\* The legs of one position agree with its net quantity.
Agree(po) ==
  /\ po.net = po.qty["long"] - po.qty["short"]
  /\ po.qty["long"] = 0 \/ po.qty["short"] = 0

\* A fill closes no more than the other leg holds, and opens the rest.
LEMMA ClosingType ==
  ASSUME NEW po \in PositionType, NEW s \in Sides, NEW q \in Nat
  PROVE  /\ Closing(po, s, q) \in Nat
         /\ Closing(po, s, q) <= po.qty[OtherLeg(s)]
         /\ Remainder(po, s, q) \in Nat
<1>1. OtherLeg(s) \in Legs /\ po.qty[OtherLeg(s)] \in Nat
  BY DEF PositionType, OtherLeg, Legs
<1> QED
  BY <1>1 DEF Closing, Remainder, Least

\* The entry price a fill blends in is a fraction: it is divided by what is held then.
LEMMA BlendType ==
  ASSUME NEW a \in Fraction, NEW held \in Nat, NEW p \in Nat, NEW q \in Nat \ {0}
  PROVE  Blend(a, held, p, q) \in Fraction
<1>1. p * q \in Int /\ held + q \in Nat \ {0}
  OBVIOUS
<1>2. Whole(p * q) \in Fraction
  BY <1>1, WholeType
<1>3. Plus(Scale(held, a), Whole(p * q)) \in Fraction
  BY <1>2, ScaleType, PlusType
<1> QED
  BY <1>1, <1>3, OverType DEF Blend

\* One fill, whichever branch of apply_fill it takes, leaves a well-formed
\* position whose legs agree and whose net moved by the signed quantity.
LEMMA ApplyFillSound ==
  ASSUME NEW po \in PositionType, Agree(po),
         NEW s \in Sides, NEW p \in Nat, NEW q \in Nat \ {0}
  PROVE  /\ ApplyFill(po, s, p, q) \in PositionType
         /\ Agree(ApplyFill(po, s, p, q))
         /\ ApplyFill(po, s, p, q).net = po.net + Signed(s, q)
<1> DEFINE nx == ApplyFill(po, s, p, q)
<1> DEFINE blend == Blend(po.avg[Leg(s)], po.qty[Leg(s)], p, q)
<1> DEFINE clo == Closing(po, s, q)
<1> DEFINE rem == Remainder(po, s, q)
<1>1. /\ po.net \in Int
      /\ po.qty \in [Legs -> Nat] /\ po.avg \in [Legs -> Fraction]
      /\ po = [net |-> po.net, qty |-> po.qty, avg |-> po.avg]
  BY DEF PositionType
<1>2. /\ Leg(s) \in Legs /\ OtherLeg(s) \in Legs /\ Leg(s) # OtherLeg(s)
      /\ Legs = {Leg(s), OtherLeg(s)}
  BY DEF Leg, OtherLeg, Legs, Sides
<1>3. po.qty[Leg(s)] \in Nat /\ po.qty[OtherLeg(s)] \in Nat /\ po.avg[Leg(s)] \in Fraction
  BY <1>1, <1>2
<1>4. blend \in Fraction
  BY <1>3, BlendType
<1>5. Whole(p) \in Fraction
  BY WholeType
<1>6. clo \in Nat /\ clo <= po.qty[OtherLeg(s)] /\ rem \in Nat
  BY ClosingType
<1>7. clo + rem = q
  BY <1>6 DEF Remainder
<1> HIDE DEF blend, clo, rem
<1>8. CASE Opens(po, s)
  <2>1. nx = [net |-> po.net + Signed(s, q),
              qty |-> [po.qty EXCEPT ![Leg(s)] = @ + q],
              avg |-> [po.avg EXCEPT ![Leg(s)] = blend]]
    BY <1>1, <1>8 DEF ApplyFill, blend
  <2>2. nx \in PositionType
    BY <1>1, <1>2, <1>3, <1>4, <2>1 DEF PositionType, Signed
  <2>3. po.qty[OtherLeg(s)] = 0
    BY <1>1, <1>3, <1>8 DEF Agree, Opens, OtherLeg, Leg, Sides
  <2>4. Agree(nx)
    BY <1>1, <1>3, <2>1, <2>3 DEF Agree, Leg, OtherLeg, Sides, Signed, Legs
  <2> QED
    BY <2>1, <2>2, <2>4
<1>9. CASE ~Opens(po, s)
  <2>1. nx = [net |-> po.net + Signed(s, clo) + Signed(s, rem),
              qty |-> [po.qty EXCEPT ![OtherLeg(s)] = @ - clo,
                                     ![Leg(s)] = IF rem > 0 THEN rem ELSE @],
              avg |-> [po.avg EXCEPT ![Leg(s)] = IF rem > 0 THEN Whole(p) ELSE @]]
    BY <1>1, <1>2, <1>9 DEF ApplyFill, clo, rem
  <2>2. nx \in PositionType
    BY <1>1, <1>2, <1>3, <1>5, <1>6, <2>1 DEF PositionType, Signed
  <2>3. po.qty[Leg(s)] = 0
    BY <1>1, <1>3, <1>9 DEF Agree, Opens, OtherLeg, Leg, Sides
  <2>4. rem > 0 => clo = po.qty[OtherLeg(s)]
    BY <1>3 DEF rem, clo, Remainder, Closing, Least
  <2>5. nx.net = po.net + Signed(s, q)
    BY <1>1, <1>6, <1>7, <2>1 DEF Signed
  <2>6. Agree(nx)
    BY <1>1, <1>3, <1>6, <1>7, <2>1, <2>3, <2>4 DEF Agree, Leg, OtherLeg, Sides, Signed, Legs
  <2> QED
    BY <2>2, <2>5, <2>6
<1> QED
  BY <1>8, <1>9

\* The gain of a fill is a fraction.
LEMMA GainType ==
  ASSUME NEW po \in PositionType, NEW s \in Sides, NEW p \in Nat, NEW q \in Nat
  PROVE  Gain(po, s, p, q) \in Fraction
<1>1. po.avg["long"] \in Fraction /\ po.avg["short"] \in Fraction
  BY DEF PositionType, Legs
<1>2. Whole(0) \in Fraction /\ Whole(p) \in Fraction
  BY WholeType
<1>3. /\ Minus(po.avg["short"], Whole(p)) \in Fraction
      /\ Minus(Whole(p), po.avg["long"]) \in Fraction
  BY <1>1, <1>2, MinusType
<1>4. Closing(po, s, q) \in Int
  BY ClosingType
<1> QED
  BY <1>2, <1>3, <1>4, ScaleType DEF Gain

\* So is what a settlement pays.
LEMMA SettlementType ==
  ASSUME NEW po \in PositionType, NEW r \in Int
  PROVE  Settlement(po, r) \in Fraction
<1>1. /\ po.avg["long"] \in Fraction /\ po.avg["short"] \in Fraction
      /\ po.qty["long"] \in Int /\ po.qty["short"] \in Int
  BY DEF PositionType, Legs
<1>2. Whole(r) \in Fraction
  BY WholeType
<1>3. /\ Minus(Whole(r), po.avg["long"]) \in Fraction
      /\ Minus(po.avg["short"], Whole(r)) \in Fraction
  BY <1>1, <1>2, MinusType
<1>4. /\ Scale(po.qty["long"], Minus(Whole(r), po.avg["long"])) \in Fraction
      /\ Scale(po.qty["short"], Minus(po.avg["short"], Whole(r))) \in Fraction
  BY <1>1, <1>3, ScaleType
<1> QED
  BY <1>4, PlusType DEF Settlement

-----------------------------------------------------------------------------
(* The inductive invariant.                                                *)

\* Until the tasks start, only a market that was seeded holds anything: this
\* is what makes seed_position, which overwrites one leg only, sound.
SeedFresh ==
  ~running => \A m \in Markets \ seeded :
                pos[m].net = 0 /\ \A g \in Legs : pos[m].qty[g] = 0

IInv == TypeOK /\ LegsAgree /\ SeedFresh

\* Every market starts flat.
LEMMA InitIInv == Init => IInv
<1> SUFFICES ASSUME Init PROVE IInv
  OBVIOUS
<1>1. Whole(0) \in Fraction
  BY WholeType
<1>2. Flat \in PositionType
  BY <1>1 DEF Flat, PositionType, Legs
<1>3. \A v \in Venues : Balances[v] \in Nat /\ Whole(Balances[v]) \in Fraction
  BY WholeType, BalancesAssumption
<1>4. TypeOK
  <2>1. pos \in [Markets -> PositionType] /\ realized \in [Markets -> Fraction]
    BY <1>1, <1>2 DEF Init
  <2>2. locked \in [Venues -> Nat] /\ total \in [Venues -> Fraction]
    BY <1>3 DEF Init
  <2>3. cash \in [Markets -> Int] /\ count \in 0..MaxFills
    BY MaxFillsAssumption DEF Init
  <2>4. seeded \subseteq Markets /\ running \in BOOLEAN
    BY DEF Init
  <2> QED
    BY <2>1, <2>2, <2>3, <2>4 DEF TypeOK
<1>5. LegsAgree
  BY DEF Init, LegsAgree, Flat, Legs
<1>6. SeedFresh
  BY DEF Init, SeedFresh, Flat, Legs
<1> QED
  BY <1>4, <1>5, <1>6 DEF IInv

\* A seed writes one leg of a market that holds nothing.
LEMMA SeedIInv ==
  ASSUME IInv, NEW m \in Markets, NEW n \in Holdings, NEW a \in Prices,
         SeedPosition(m, n, a)
  PROVE  IInv'
<1> DEFINE g == IF n >= 0 THEN "long" ELSE "short"
<1> DEFINE held == IF n >= 0 THEN n ELSE -n
<1>1. n \in Int /\ a \in Int /\ held \in Nat /\ g \in Legs
  BY HoldingsAssumption, PricesAssumption, OneAssumption DEF Legs
<1>2. /\ pos \in [Markets -> PositionType]
      /\ pos[m] \in PositionType
      /\ pos[m].net = 0 /\ \A h \in Legs : pos[m].qty[h] = 0
      /\ pos[m].qty \in [Legs -> Nat] /\ pos[m].avg \in [Legs -> Fraction]
      /\ pos[m] = [net |-> pos[m].net, qty |-> pos[m].qty, avg |-> pos[m].avg]
  BY DEF IInv, TypeOK, SeedFresh, SeedPosition, PositionType
<1>3. pos' = [pos EXCEPT ![m] = [net |-> n, qty |-> [pos[m].qty EXCEPT ![g] = held],
                                 avg |-> [pos[m].avg EXCEPT ![g] = Whole(a)]]]
  BY DEF SeedPosition, Seeded
<1>4. Whole(a) \in Fraction
  BY <1>1, WholeType
<1>5. pos'[m] \in PositionType
  BY <1>1, <1>2, <1>3, <1>4 DEF PositionType
<1>6. \A k \in Markets \ {m} : pos'[k] = pos[k]
  BY <1>2, <1>3
<1>7. pos' \in [Markets -> PositionType]
  BY <1>2, <1>3, <1>5, <1>6
<1>8. -(n * a) \in Int
  BY <1>1
<1>9. TypeOK'
  BY <1>7, <1>8 DEF IInv, TypeOK, SeedPosition
<1>10. LegsAgree'
  <2>1. Agree(pos'[m])
    BY <1>1, <1>2, <1>3 DEF Agree, Legs
  <2> QED
    BY <1>6, <2>1 DEF IInv, LegsAgree, Agree
<1>11. SeedFresh'
  BY <1>6 DEF IInv, SeedFresh, SeedPosition
<1> QED
  BY <1>9, <1>10, <1>11 DEF IInv

\* A fill leaves every shape, and moves net by its signed quantity.
LEMMA FillIInv ==
  ASSUME IInv, NEW m \in Markets, NEW s \in Sides, NEW p \in Prices, NEW q \in Quantities,
         OnFill(m, s, p, q)
  PROVE  IInv' /\ pos'[m].net = pos[m].net + Signed(s, q)
<1>1. p \in Nat /\ q \in Nat \ {0} /\ One - p \in Nat
  BY PricesAssumption, QuantitiesAssumption, OneAssumption
<1>2. pos \in [Markets -> PositionType] /\ pos[m] \in PositionType /\ Agree(pos[m])
  BY DEF IInv, TypeOK, LegsAgree, Agree
<1>3. /\ ApplyFill(pos[m], s, p, q) \in PositionType
      /\ Agree(ApplyFill(pos[m], s, p, q))
      /\ ApplyFill(pos[m], s, p, q).net = pos[m].net + Signed(s, q)
  BY <1>1, <1>2, ApplyFillSound
<1>4. /\ pos' \in [Markets -> PositionType]
      /\ pos'[m] = ApplyFill(pos[m], s, p, q)
      /\ \A k \in Markets \ {m} : pos'[k] = pos[k]
  BY <1>2, <1>3 DEF OnFill
<1>5. Plus(realized[m], Gain(pos[m], s, p, q)) \in Fraction
  BY <1>1, <1>2, GainType, PlusType DEF IInv, TypeOK
<1>6. locked' \in [Venues -> Nat]
  <2>1. p * q \in Nat /\ (One - p) * q \in Nat
    BY <1>1
  <2>2. CollateralUsed(s, p, q) \in Nat
    BY <2>1 DEF CollateralUsed
  <2>3. VenueOf[m] \in Venues /\ locked[VenueOf[m]] \in Nat
    BY VenueOfAssumption DEF IInv, TypeOK
  <2>4. LockAfterFill(VenueOf[m], s, CollateralUsed(s, p, q)) \in Nat
    BY <2>2, <2>3 DEF LockAfterFill, AtLeastZero
  <2> QED
    BY <2>4 DEF OnFill, IInv, TypeOK
<1>7. cash' \in [Markets -> Int]
  <2>1. p * q \in Int /\ cash[m] \in Int
    BY <1>1 DEF IInv, TypeOK
  <2>2. cash[m] - Signed(s, p * q) \in Int
    BY <2>1 DEF Signed
  <2> QED
    BY <2>2 DEF OnFill, IInv, TypeOK
<1>8. count' \in 0..MaxFills
  BY MaxFillsAssumption DEF OnFill, IInv, TypeOK
<1>9. TypeOK'
  BY <1>4, <1>5, <1>6, <1>7, <1>8 DEF OnFill, IInv, TypeOK
<1>10. LegsAgree'
  BY <1>3, <1>4 DEF IInv, LegsAgree, Agree
<1>11. SeedFresh'
  BY DEF OnFill, SeedFresh
<1> QED
  BY <1>3, <1>4, <1>9, <1>10, <1>11 DEF IInv

\* A settlement flattens its market.
LEMMA ResolutionIInv ==
  ASSUME IInv, NEW m \in Markets, NEW r \in {0, One}, OnResolution(m, r)
  PROVE  IInv' /\ pos'[m].net = 0
<1>1. r \in Int
  BY OneAssumption
<1>2. /\ pos \in [Markets -> PositionType] /\ pos[m] \in PositionType
      /\ pos[m].net \in Int
      /\ pos[m] = [net |-> pos[m].net, qty |-> pos[m].qty, avg |-> pos[m].avg]
      /\ pos[m].avg \in [Legs -> Fraction]
  BY DEF IInv, TypeOK, PositionType
<1>3. pos' = [pos EXCEPT ![m] = [net |-> 0, qty |-> [g \in Legs |-> 0], avg |-> pos[m].avg]]
  BY DEF OnResolution, Settled
<1>4. pos'[m] \in PositionType /\ Agree(pos'[m]) /\ pos'[m].net = 0
  BY <1>2, <1>3 DEF PositionType, Agree, Legs
<1>5. \A k \in Markets \ {m} : pos'[k] = pos[k]
  BY <1>2, <1>3
<1>6. pos' \in [Markets -> PositionType]
  BY <1>2, <1>3, <1>4, <1>5
<1>7. Settlement(pos[m], r) \in Fraction
  BY <1>1, <1>2, SettlementType
<1>8. realized' \in [Markets -> Fraction]
  <2>1. Plus(realized[m], Settlement(pos[m], r)) \in Fraction
    BY <1>7, PlusType DEF IInv, TypeOK
  <2> QED
    BY <2>1 DEF OnResolution, IInv, TypeOK
<1>9. total' \in [Venues -> Fraction]
  <2>1. VenueOf[m] \in Venues /\ total[VenueOf[m]] \in Fraction
    BY VenueOfAssumption DEF IInv, TypeOK
  <2>2. Plus(total[VenueOf[m]], Settlement(pos[m], r)) \in Fraction
    BY <1>7, <2>1, PlusType
  <2> QED
    BY <2>2 DEF OnResolution, IInv, TypeOK
<1>10. cash' \in [Markets -> Int]
  <2>1. pos[m].net * r \in Int /\ cash[m] \in Int
    BY <1>1, <1>2 DEF IInv, TypeOK
  <2>2. cash[m] + pos[m].net * r \in Int
    BY <2>1
  <2> QED
    BY <2>2 DEF OnResolution, IInv, TypeOK
<1>11. TypeOK'
  BY <1>6, <1>8, <1>9, <1>10 DEF OnResolution, IInv, TypeOK
<1>12. LegsAgree'
  BY <1>4, <1>5 DEF IInv, LegsAgree, Agree
<1>13. SeedFresh'
  BY DEF OnResolution, SeedFresh
<1> QED
  BY <1>4, <1>11, <1>12, <1>13 DEF IInv

\* Reservations touch the collateral only.
LEMMA ReservationIInv ==
  ASSUME IInv, NEW v \in Venues, NEW c \in Reservations,
         OnOrderPlaced(v, c) \/ OnOrderCancelled(v, c)
  PROVE  IInv'
<1>1. c \in Nat
  <2>1. PICK p \in Prices, q \in Quantities : c = p * q
    BY DEF Reservations
  <2>2. p \in Nat /\ q \in Nat
    BY PricesAssumption, QuantitiesAssumption, OneAssumption
  <2> QED
    BY <2>1, <2>2
<1>2. locked[v] + c \in Nat /\ AtLeastZero(locked[v] - c) \in Nat
  BY <1>1 DEF IInv, TypeOK, AtLeastZero
<1>3. locked' \in [Venues -> Nat]
  BY <1>2 DEF OnOrderPlaced, OnOrderCancelled, IInv, TypeOK
<1>4. count' \in 0..MaxFills
  BY MaxFillsAssumption DEF OnOrderPlaced, OnOrderCancelled, IInv, TypeOK
<1>5. UNCHANGED <<pos, realized, total, seeded, running, cash>>
  BY DEF OnOrderPlaced, OnOrderCancelled
<1> QED
  BY <1>3, <1>4, <1>5 DEF IInv, TypeOK, LegsAgree, SeedFresh

\* Every step keeps the invariant.
LEMMA NextIInv == IInv /\ [Next]_vars => IInv'
<1> SUFFICES ASSUME IInv, [Next]_vars PROVE IInv'
  OBVIOUS
<1>1. ASSUME NEW m \in Markets, NEW n \in Holdings, NEW a \in Prices, SeedPosition(m, n, a)
      PROVE  IInv'
  BY <1>1, SeedIInv
<1>2. CASE Start
  BY <1>2 DEF Start, IInv, TypeOK, LegsAgree, SeedFresh
<1>3. ASSUME NEW m \in Markets, NEW s \in Sides, NEW p \in Prices, NEW q \in Quantities,
             OnFill(m, s, p, q)
      PROVE  IInv'
  BY <1>3, FillIInv
<1>4. ASSUME NEW m \in Markets, NEW r \in {0, One}, OnResolution(m, r)
      PROVE  IInv'
  BY <1>4, ResolutionIInv
<1>5. ASSUME NEW v \in Venues, NEW c \in Reservations,
             OnOrderPlaced(v, c) \/ OnOrderCancelled(v, c)
      PROVE  IInv'
  BY <1>5, ReservationIInv
<1>6. CASE UNCHANGED vars
  BY <1>6 DEF vars, IInv, TypeOK, LegsAgree, SeedFresh
<1> QED
  BY <1>1, <1>2, <1>3, <1>4, <1>5, <1>6 DEF Next

-----------------------------------------------------------------------------
(* The theorems.                                                           *)

\* Every state of the manager has the shape the type invariant says: no
\* operation, whatever its inputs, leaves a quantity or a lock negative.
THEOREM TypeCorrect == Spec => []TypeOK
<1>1. IInv => TypeOK
  BY DEF IInv
<1> QED
  BY <1>1, InitIInv, NextIInv, PTL DEF Spec

\* net is always long minus short and one leg is empty: the branch apply_fill
\* picks by the sign of net is the branch its legs call for.
THEOREM LegsAlwaysAgree == Spec => []LegsAgree
<1>1. IInv => LegsAgree
  BY DEF IInv
<1> QED
  BY <1>1, InitIInv, NextIInv, PTL DEF Spec

-----------------------------------------------------------------------------
(* Inventory implements SignedLedger.                                      *)

Nets == [m \in Markets |-> pos[m].net]

\* A step that moves one market's net is that change of the ledger.
LEMMA NetsMove ==
  ASSUME NEW m \in Markets, NEW x, pos'[m].net = x,
         \A k \in Markets \ {m} : pos'[k] = pos[k]
  PROVE  Nets' = [Nets EXCEPT ![m] = x]
BY DEF Nets

\* Only the market of an operation changes.
LEMMA OthersKeep ==
  ASSUME IInv, NEW m \in Markets,
         \/ \E n \in Holdings, a \in Prices : SeedPosition(m, n, a)
         \/ \E s \in Sides, p \in Prices, q \in Quantities : OnFill(m, s, p, q)
         \/ \E r \in {0, One} : OnResolution(m, r)
  PROVE  \A k \in Markets \ {m} : pos'[k] = pos[k]
BY DEF IInv, TypeOK, SeedPosition, OnFill, OnResolution

\* Every step of the manager is one of the ledger, or none.
LEMMA LedgerStep == IInv /\ [Next]_vars => [Ledger!Next]_<<Nets, cash>>
<1> SUFFICES ASSUME IInv, [Next]_vars PROVE [Ledger!Next]_<<Nets, cash>>
  OBVIOUS
<1>1. ASSUME NEW m \in Markets, NEW n \in Holdings, NEW a \in Prices, SeedPosition(m, n, a)
      PROVE  Ledger!Next
  <2>1. \A k \in Markets \ {m} : pos'[k] = pos[k]
    BY <1>1, OthersKeep
  <2>2. pos'[m].net = n
    BY <1>1 DEF SeedPosition, Seeded, IInv, TypeOK
  <2>3. Nets' = [Nets EXCEPT ![m] = n]
    BY <2>1, <2>2, NetsMove
  <2>4. Nets[m] = 0
    BY <1>1 DEF Nets, IInv, SeedFresh, SeedPosition
  <2>5. cash' = [cash EXCEPT ![m] = -(n * a)]
    BY <1>1 DEF SeedPosition
  <2>6. Ledger!TakeOver(m, n, a)
    BY <2>3, <2>4, <2>5 DEF Ledger!TakeOver, Nets
  <2> QED
    BY <2>6 DEF Ledger!Next
<1>2. ASSUME NEW m \in Markets, NEW s \in Sides, NEW p \in Prices, NEW q \in Quantities,
             OnFill(m, s, p, q)
      PROVE  Ledger!Next
  <2>1. \A k \in Markets \ {m} : pos'[k] = pos[k]
    BY <1>2, OthersKeep
  <2>2. pos'[m].net = pos[m].net + Signed(s, q)
    BY <1>2, FillIInv
  <2>3. Nets' = [Nets EXCEPT ![m] = pos[m].net + Signed(s, q)]
    BY <2>1, <2>2, NetsMove
  <2>4. Nets' = [Nets EXCEPT ![m] = Nets[m] + Ledger!Signed(s, q)]
    BY <2>3 DEF Nets, Signed, Ledger!Signed
  <2>5. cash' = [cash EXCEPT ![m] = cash[m] - Ledger!Signed(s, p * q)]
    BY <1>2 DEF OnFill, Signed, Ledger!Signed
  <2>6. Ledger!Fill(m, s, p, q)
    BY <2>4, <2>5 DEF Ledger!Fill, Nets
  <2> QED
    BY <2>6 DEF Ledger!Next, Ledger!Sides, Sides
<1>3. ASSUME NEW m \in Markets, NEW r \in {0, One}, OnResolution(m, r)
      PROVE  Ledger!Next
  <2>1. \A k \in Markets \ {m} : pos'[k] = pos[k]
    BY <1>3, OthersKeep
  <2>2. pos'[m].net = 0
    BY <1>3, ResolutionIInv
  <2>3. Nets' = [Nets EXCEPT ![m] = 0]
    BY <2>1, <2>2, NetsMove
  <2>4. cash' = [cash EXCEPT ![m] = cash[m] + Nets[m] * r]
    BY <1>3 DEF OnResolution, Nets
  <2>5. Ledger!Settle(m, r)
    BY <2>3, <2>4 DEF Ledger!Settle, Nets
  <2> QED
    BY <2>5 DEF Ledger!Next
<1>4. ASSUME UNCHANGED <<pos, cash>>
      PROVE  UNCHANGED <<Nets, cash>>
  BY <1>4 DEF Nets
<1>5. CASE Start
  BY <1>4, <1>5 DEF Start
<1>6. ASSUME NEW v \in Venues, NEW c \in Reservations,
             OnOrderPlaced(v, c) \/ OnOrderCancelled(v, c)
      PROVE  UNCHANGED <<Nets, cash>>
  BY <1>4, <1>6 DEF OnOrderPlaced, OnOrderCancelled
<1>7. CASE UNCHANGED vars
  BY <1>4, <1>7 DEF vars
<1> QED
  BY <1>1, <1>2, <1>3, <1>5, <1>6, <1>7 DEF Next

\* Opens, partial closes, flips, seeds and settlements of the detailed manager
\* are takeovers, fills and settlements of one signed number per market.
THEOREM LedgerRefinement == Spec => LedgerKept
<1>1. Init => Ledger!Init
  BY DEF Init, Ledger!Init, Flat
<1>2. IInv /\ [Next]_vars => [Ledger!Next]_<<Nets, cash>>
  BY LedgerStep
<1>3. Spec => Ledger!Init /\ [][Ledger!Next]_<<Nets, cash>>
  BY <1>1, <1>2, InitIInv, NextIInv, PTL DEF Spec
<1> QED
  BY <1>3, PTL DEF LedgerKept, Ledger!Spec, Ledger!ledger, Nets

-----------------------------------------------------------------------------
(* What one fill or settlement costs and pays.                            *)

\* r is c and what h at a each cost.
Book(r, c, h, a) == r.n * a.d = r.d * (c * a.d + h * a.n)

\* A gain moves what is realized by as much.
LEMMA BookAdd ==
  ASSUME NEW r \in Fraction, NEW g \in Fraction, NEW a \in Fraction,
         NEW c \in Int, NEW h \in Int, NEW x \in Int,
         Book(r, c, h, a), g.n * a.d = x * g.d
  PROVE  Plus(r, g).n * a.d = Plus(r, g).d * (c * a.d + h * a.n + x)
<1> DEFINE rs == Plus(r, g)
           b  == c * a.d + h * a.n
<1>1. /\ r.n \in Int /\ g.n \in Int /\ a.n \in Int /\ rs.n \in Int
      /\ r.d \in Nat \ {0} /\ g.d \in Nat \ {0} /\ a.d \in Nat \ {0} /\ rs.d \in Nat \ {0}
  <2>1. rs \in Fraction
    BY PlusType
  <2> HIDE DEF rs
  <2> QED
    BY <2>1 DEF Fraction
<1>2. rs.n * (r.d * g.d) = (r.n * g.d + g.n * r.d) * rs.d
  BY PlusValue
<1>3. b \in Int /\ r.n * a.d = r.d * b
  BY <1>1 DEF Book
<1> HIDE DEF rs, b
<1>4. (rs.n * a.d) * (r.d * g.d) = (rs.n * (r.d * g.d)) * a.d
  BY <1>1
<1>5. (rs.n * (r.d * g.d)) * a.d = ((r.n * a.d) * g.d + (g.n * a.d) * r.d) * rs.d
  BY <1>1, <1>2
<1>6. ((r.n * a.d) * g.d + (g.n * a.d) * r.d) * rs.d = ((r.d * b) * g.d + (x * g.d) * r.d) * rs.d
  BY <1>3
<1>7. ((r.d * b) * g.d + (x * g.d) * r.d) * rs.d = (rs.d * (b + x)) * (r.d * g.d)
  BY <1>1, <1>3
<1>8. r.d * g.d \in Nat \ {0}
  BY <1>1, PositiveProduct
<1>9. rs.n * a.d \in Int /\ rs.d * (b + x) \in Int
  BY <1>1, <1>3
<1>10. rs.n * a.d = rs.d * (b + x)
  BY <1>4, <1>5, <1>6, <1>7, <1>8, <1>9, Cancel
<1> QED
  BY <1>10 DEF rs, b

\* Nothing held, nothing paid for it: the entry price does not matter.
LEMMA BookFlat ==
  ASSUME NEW r \in Fraction, NEW a \in Fraction, NEW b \in Fraction, NEW c \in Int,
         Book(r, c, 0, a)
  PROVE  Book(r, c, 0, b)
<1>1. /\ r.n \in Int /\ a.n \in Int /\ b.n \in Int
      /\ r.d \in Nat \ {0} /\ a.d \in Nat \ {0} /\ b.d \in Nat \ {0}
  BY DEF Fraction
<1>2. r.n * a.d = (r.d * c) * a.d
  BY <1>1 DEF Book
<1>3. r.n = r.d * c
  <2>1. r.d * c \in Int
    BY <1>1
  <2> QED
    BY <1>1, <1>2, <2>1, Cancel
<1>4. (r.d * c) * b.d = r.d * (c * b.d + 0 * b.n)
  BY <1>1
<1> QED
  BY <1>3, <1>4 DEF Book

Sg(s) == IF s = "BUY" THEN 1 ELSE -1

\* More on the leg that is open, or on none.
LEMMA BookOpen ==
  ASSUME NEW r \in Fraction, NEW a \in Fraction, NEW c \in Int, NEW h \in Nat,
         NEW p \in Nat, NEW q \in Nat \ {0}, NEW u \in {1, -1}, Book(r, c, u * h, a)
  PROVE  Book(Plus(r, Whole(0)), c - u * (p * q), u * (h + q), Blend(a, h, p, q))
<1> DEFINE b == Blend(a, h, p, q)
<1>1. /\ r.n \in Int /\ a.n \in Int /\ r.d \in Nat \ {0} /\ a.d \in Nat \ {0}
      /\ r = [n |-> r.n, d |-> r.d]
  BY DEF Fraction
<1>2. Plus(r, Whole(0)) = r
  <2>1. Plus(r, Whole(0)) = [n |-> r.n + 0 * r.d, d |-> r.d]
    BY PlusWhole
  <2>2. r.n + 0 * r.d = r.n
    BY <1>1
  <2> QED
    BY <1>1, <2>1, <2>2
<1>3. b.n = h * a.n + (p * q) * a.d /\ b.d = a.d * (h + q)
  <2>1. Scale(h, a) \in Fraction /\ p * q \in Int
    BY ScaleType
  <2>2. Plus(Scale(h, a), Whole(p * q)) = [n |-> h * a.n + (p * q) * a.d, d |-> a.d]
    BY <2>1, PlusWhole DEF Scale
  <2> QED
    BY <2>2 DEF Blend, Over
<1> HIDE DEF b
<1>4. r.n * a.d = r.d * (c * a.d + (u * h) * a.n)
  BY DEF Book
<1>5. (r.n * a.d) * (h + q) = (r.d * (c * a.d + (u * h) * a.n)) * (h + q)
  BY <1>4
<1>6. r.n * (a.d * (h + q)) = (r.n * a.d) * (h + q)
  BY <1>1
<1>7. (r.d * (c * a.d + (u * h) * a.n)) * (h + q)
        = r.d * ((c - u * (p * q)) * (a.d * (h + q)) + (u * (h + q)) * (h * a.n + (p * q) * a.d))
  <2>1. CASE u = 1
    BY <1>1, <2>1
  <2>2. CASE u = -1
    BY <1>1, <2>2
  <2> QED
    BY <2>1, <2>2
<1>8. r.n * b.d = r.d * ((c - u * (p * q)) * b.d + (u * (h + q)) * b.n)
  BY <1>3, <1>5, <1>6, <1>7
<1> QED
  BY <1>2, <1>8 DEF Book, b

\* Less on the leg that is open, at a gain over its entry price.
LEMMA BookClose ==
  ASSUME NEW r \in Fraction, NEW a \in Fraction, NEW g \in Fraction, NEW c \in Int, NEW h \in Nat,
         NEW p \in Nat, NEW k \in 0..h, NEW u \in {1, -1}, Book(r, c, -(u * h), a),
         g.n = k * (u * (a.n - p * a.d)), g.d = a.d
  PROVE  Book(Plus(r, g), c - u * (p * k), -(u * (h - k)), a)
<1> DEFINE rs == Plus(r, g)
           x  == k * (u * (a.n - p * a.d))
<1>1. a.n \in Int /\ a.d \in Nat \ {0}
  BY DEF Fraction
<1>2. x \in Int /\ -(u * h) \in Int
  <2>1. u * (a.n - p * a.d) \in Int
    BY <1>1
  <2>2. k \in Int /\ u * h \in Int
    OBVIOUS
  <2> QED
    BY <2>1, <2>2
<1>3. g.n * a.d = x * g.d
  OBVIOUS
<1>4. rs.n * a.d = rs.d * (c * a.d + (-(u * h)) * a.n + x)
  <2> HIDE DEF x
  <2> QED
    BY <1>2, <1>3, BookAdd
<1>5. c * a.d + (-(u * h)) * a.n + x = (c - u * (p * k)) * a.d + (-(u * (h - k))) * a.n
  <2>1. CASE u = 1
    BY <1>1, <2>1
  <2>2. CASE u = -1
    BY <1>1, <2>2
  <2> QED
    BY <2>1, <2>2
<1> HIDE DEF rs, x
<1>6. rs.n * a.d = rs.d * ((c - u * (p * k)) * a.d + (-(u * (h - k))) * a.n)
  BY <1>4, <1>5
<1> QED
  BY <1>6 DEF Book, rs

\* From flat to the other side, at the price of the fill.
LEMMA BookFlip ==
  ASSUME NEW r \in Fraction, NEW c \in Int, NEW p \in Nat, NEW q \in Int,
         NEW u \in {1, -1}, Book(r, c, 0, Whole(p))
  PROVE  Book(r, c - u * (p * q), u * q, Whole(p))
<1>1. r.n \in Int /\ r.d \in Int
  BY DEF Fraction
<1>2. r.n * 1 = r.d * (c * 1 + 0 * p)
  BY DEF Book, Whole
<1>3. r.n * 1 = r.d * ((c - u * (p * q)) * 1 + (u * q) * p)
  <2>1. c * 1 + 0 * p = (c - u * (p * q)) * 1 + (u * q) * p
    <3>1. CASE u = 1
      BY <3>1
    <3>2. CASE u = -1
      BY <3>2
    <3> QED
      BY <3>1, <3>2
  <2> QED
    BY <1>2, <2>1
<1> QED
  BY <1>3 DEF Book, Whole

EntryLeg(po) == IF po.net >= 0 THEN "long" ELSE "short"

\* What a market has realized is what its fills were paid, and what the leg that
\* is open cost.
Holds(po, r, c) == Book(r, c, po.net, po.avg[EntryLeg(po)])

\* A flat position is the same whichever leg it is seen from.
LEMMA HoldsLeg ==
  ASSUME NEW po \in PositionType, NEW r \in Fraction, NEW c \in Int, NEW g \in Legs,
         po.net # 0 => g = EntryLeg(po)
  PROVE  Holds(po, r, c) <=> Book(r, c, po.net, po.avg[g])
<1>1. po.avg[g] \in Fraction /\ po.avg[EntryLeg(po)] \in Fraction
  BY DEF PositionType, EntryLeg, Legs
<1>2. CASE po.net # 0
  BY <1>2 DEF Holds
<1>3. CASE po.net = 0
  BY <1>1, <1>3, BookFlat DEF Holds
<1> QED
  BY <1>2, <1>3

\* One fill, whichever branch of apply_fill it takes, pays for what it moves.
LEMMA FillHolds ==
  ASSUME NEW po \in PositionType, Agree(po), NEW r \in Fraction, NEW c \in Int,
         NEW s \in Sides, NEW p \in Nat, NEW q \in Nat \ {0}, Holds(po, r, c)
  PROVE  Holds(ApplyFill(po, s, p, q), Plus(r, Gain(po, s, p, q)), c - Signed(s, p * q))
<1> DEFINE nx == ApplyFill(po, s, p, q)
           u  == Sg(s)
           own == Leg(s)
           other == OtherLeg(s)
           h  == po.qty[own]
           o  == po.qty[other]
<1>1. /\ po.net \in Int
      /\ po.qty \in [Legs -> Nat] /\ po.avg \in [Legs -> Fraction]
      /\ po = [net |-> po.net, qty |-> po.qty, avg |-> po.avg]
  BY DEF PositionType
<1>2. own \in Legs /\ other \in Legs /\ own # other
  BY DEF Leg, OtherLeg, Legs
<1>3. /\ h \in Nat /\ o \in Nat /\ po.avg[own] \in Fraction /\ po.avg[other] \in Fraction
      /\ po.net = u * h - u * o /\ (h = 0 \/ o = 0)
  BY <1>1, <1>2 DEF Agree, Sg, Leg, OtherLeg
<1>4. /\ u \in {1, -1} /\ Signed(s, p * q) = u * (p * q) /\ p * q \in Int
      /\ Signed(s, q) = u * q
  BY DEF Sg, Signed
<1>5. nx \in PositionType /\ nx.net = po.net + u * q
  BY <1>4, ApplyFillSound
<1>6. CASE Opens(po, s)
  <2>1. nx.avg = [po.avg EXCEPT ![own] = Blend(po.avg[own], h, p, q)]
    BY <1>1, <1>6 DEF ApplyFill
  <2>2. Gain(po, s, p, q) = Whole(0)
    BY <1>6 DEF Gain
  <2>3. o = 0 /\ po.net = u * h /\ nx.net = u * (h + q)
    BY <1>3, <1>5, <1>6 DEF Opens, Sg
  <2>4. (po.net # 0 => own = EntryLeg(po)) /\ own = EntryLeg(nx)
    BY <1>3, <2>3 DEF EntryLeg, Sg, Leg
  <2> HIDE DEF nx, u, own, other, h, o
  <2>5. Book(r, c, u * h, po.avg[own])
    BY <1>2, <2>3, <2>4, HoldsLeg
  <2>6. Book(Plus(r, Whole(0)), c - u * (p * q), u * (h + q), Blend(po.avg[own], h, p, q))
    BY <1>3, <1>4, <2>5, BookOpen
  <2>7. nx.avg[own] = Blend(po.avg[own], h, p, q)
    BY <1>1, <1>2, <2>1
  <2>8. Holds(nx, Plus(r, Whole(0)), c - u * (p * q))
    BY <2>3, <2>4, <2>6, <2>7 DEF Holds
  <2> QED
    BY <1>4, <2>2, <2>8 DEF nx
<1>7. CASE ~Opens(po, s)
  <2> DEFINE k == Closing(po, s, q)
             g == Gain(po, s, p, q)
             a == po.avg[other]
             rs == Plus(r, g)
  <2>1. h = 0 /\ o \in Nat \ {0} /\ po.net = -(u * o) /\ other = EntryLeg(po)
    BY <1>3, <1>7 DEF Opens, Sg, EntryLeg, OtherLeg
  <2>2. /\ k = IF q <= o THEN q ELSE o
        /\ k \in 0..o /\ k \in Int
        /\ Remainder(po, s, q) = q - k
    BY <2>1 DEF Closing, Least, Remainder
  <2>3. g.n = k * (u * (a.n - p * a.d)) /\ g.d = a.d /\ g \in Fraction
    <3>1. a \in Fraction /\ a.n \in Int /\ a.d \in Nat \ {0}
      BY <1>3 DEF Fraction
    <3>2. CASE s = "BUY"
      <4>1. g = Scale(k, Minus(a, Whole(p)))
        BY <1>7, <3>2 DEF Gain, OtherLeg
      <4>2. Minus(a, Whole(p)) = [n |-> a.n + (-p) * a.d, d |-> a.d]
        <5>1. Negative(Whole(p)) = Whole(-p) /\ -p \in Int
          BY DEF Negative, Whole
        <5> QED
          BY <3>1, <5>1, PlusWhole DEF Minus
      <4>3. g = [n |-> k * (a.n + (-p) * a.d), d |-> a.d]
        BY <4>1, <4>2 DEF Scale
      <4>4. k * (a.n + (-p) * a.d) = k * (u * (a.n - p * a.d)) /\ k * (a.n + (-p) * a.d) \in Int
        BY <2>2, <3>1, <3>2 DEF Sg
      <4> QED
        BY <3>1, <4>3, <4>4 DEF Fraction
    <3>3. CASE s # "BUY"
      <4>1. g = Scale(k, Minus(Whole(p), a))
        BY <1>7, <3>3 DEF Gain, OtherLeg
      <4>2. Minus(Whole(p), a) = [n |-> p * a.d + (-a.n), d |-> a.d]
        <5>1. /\ Negative(a) \in Fraction /\ p \in Int
              /\ Negative(a).n = -a.n /\ Negative(a).d = a.d
          BY <3>1, NegativeType DEF Negative
        <5> QED
          BY <5>1, PlusWhole DEF Minus
      <4>3. g = [n |-> k * (p * a.d + (-a.n)), d |-> a.d]
        BY <4>1, <4>2 DEF Scale
      <4>4. k * (p * a.d + (-a.n)) = k * (u * (a.n - p * a.d)) /\ k * (p * a.d + (-a.n)) \in Int
        BY <2>2, <3>1, <3>3 DEF Sg
      <4> QED
        BY <3>1, <4>3, <4>4 DEF Fraction
    <3> QED
      BY <3>2, <3>3
  <2>4. rs \in Fraction
    BY <2>3, PlusType
  <2>5. /\ nx.avg[other] = a
        /\ q - k > 0 => nx.avg[own] = Whole(p)
    BY <1>1, <1>2, <1>7, <2>2 DEF ApplyFill
  <2>6. Book(r, c, -(u * o), a)
    BY <2>1 DEF Holds
  <2> HIDE DEF nx, u, own, other, h, o, k, g, a, rs
  <2>7. Book(rs, c - u * (p * k), -(u * (o - k)), a)
    BY <1>3, <1>4, <2>1, <2>2, <2>3, <2>6, BookClose DEF rs, a
  <2>8. CASE q <= o
    <3>1. k = q /\ nx.net = -(u * (o - q))
      BY <1>4, <1>5, <2>1, <2>2, <2>8
    <3>2. nx.net # 0 => other = EntryLeg(nx)
      BY <1>4, <2>1, <2>8, <3>1 DEF EntryLeg, Sg, OtherLeg, u, other
    <3>3. Book(rs, c - u * (p * q), nx.net, nx.avg[other])
      BY <2>5, <2>7, <3>1
    <3>4. c - u * (p * q) \in Int
      BY <1>4
    <3>5. Holds(nx, rs, c - u * (p * q))
      BY <1>2, <1>5, <2>4, <3>2, <3>3, <3>4, HoldsLeg
    <3> QED
      BY <1>4, <3>5 DEF nx, rs, g
  <2>9. CASE ~(q <= o)
    <3>1. k = o /\ q - k > 0 /\ nx.net = u * (q - o) /\ q - o \in Nat \ {0}
      BY <1>4, <1>5, <2>1, <2>2, <2>9
    <3>2. own = EntryLeg(nx)
      BY <1>4, <3>1 DEF EntryLeg, Sg, Leg, u, own
    <3>3. Book(rs, c - u * (p * o), 0, a)
      <4>1. -(u * (o - k)) = 0
        BY <1>4, <2>1, <3>1
      <4> QED
        BY <2>7, <3>1, <4>1
    <3>4. Book(rs, c - u * (p * o), 0, Whole(p))
      <4>1. Whole(p) \in Fraction /\ a \in Fraction /\ c - u * (p * o) \in Int
        BY <1>3, <1>4, WholeType DEF a
      <4> QED
        BY <2>4, <3>3, <4>1, BookFlat
    <3>5. Book(rs, (c - u * (p * o)) - u * (p * (q - o)), u * (q - o), Whole(p))
      <4>1. c - u * (p * o) \in Int
        BY <1>3, <1>4
      <4> QED
        BY <1>4, <2>4, <3>1, <3>4, <4>1, BookFlip
    <3>6. (c - u * (p * o)) - u * (p * (q - o)) = c - u * (p * q)
      BY <1>3, <1>4
    <3>7. Holds(nx, rs, c - u * (p * q))
      BY <2>5, <3>1, <3>2, <3>5, <3>6 DEF Holds
    <3> QED
      BY <1>4, <3>7 DEF nx, rs, g
  <2> QED
    BY <2>8, <2>9
<1> QED
  BY <1>6, <1>7

\* A settlement pays out the leg that is open.
LEMMA SettleHolds ==
  ASSUME NEW po \in PositionType, Agree(po), NEW r \in Fraction, NEW c \in Int, NEW z \in Int,
         Holds(po, r, c)
  PROVE  Holds(Settled(po), Plus(r, Settlement(po, z)), c + po.net * z)
<1> DEFINE l == po.qty["long"]
           o == po.qty["short"]
           la == po.avg["long"]
           sa == po.avg["short"]
           x == Scale(l, Minus(Whole(z), la))
           y == Scale(o, Minus(sa, Whole(z)))
           t == Settlement(po, z)
           rs == Plus(r, t)
           e == c + po.net * z
<1>1. /\ l \in Nat /\ o \in Nat /\ la \in Fraction /\ sa \in Fraction
      /\ po.net = l - o /\ (l = 0 \/ o = 0)
  BY DEF PositionType, Legs, Agree
<1>2. la.n \in Int /\ la.d \in Nat \ {0} /\ sa.n \in Int /\ sa.d \in Nat \ {0}
  BY <1>1 DEF Fraction
<1>3. x.n = l * (z * la.d + (-la.n)) /\ x.d = la.d /\ x \in Fraction
  <2>1. /\ Negative(la) \in Fraction
        /\ Negative(la).n = -la.n /\ Negative(la).d = la.d
    BY <1>1, NegativeType DEF Negative
  <2>2. Minus(Whole(z), la) = [n |-> z * la.d + (-la.n), d |-> la.d]
    BY <2>1, PlusWhole DEF Minus
  <2>3. Minus(Whole(z), la) \in Fraction
    BY <1>1, WholeType, MinusType
  <2> QED
    BY <1>1, <2>2, <2>3, ScaleType DEF Scale
<1>4. y.n = o * (sa.n + (-z) * sa.d) /\ y.d = sa.d /\ y \in Fraction
  <2>1. Negative(Whole(z)) = Whole(-z) /\ -z \in Int
    BY DEF Negative, Whole
  <2>2. Minus(sa, Whole(z)) = [n |-> sa.n + (-z) * sa.d, d |-> sa.d]
    BY <1>1, <2>1, PlusWhole DEF Minus
  <2>3. Minus(sa, Whole(z)) \in Fraction
    BY <1>1, WholeType, MinusType
  <2> QED
    BY <1>1, <2>2, <2>3, ScaleType DEF Scale
<1>5. t = Plus(x, y) /\ t \in Fraction
  <2>1. t = Plus(x, y)
    BY DEF Settlement
  <2> QED
    BY <1>3, <1>4, <2>1, PlusType
<1>6. /\ Settled(po).net = 0 /\ EntryLeg(Settled(po)) = "long"
      /\ Settled(po).avg = po.avg
  BY DEF Settled, EntryLeg
<1> HIDE DEF l, o, la, sa, x, y, t
<1>7. rs \in Fraction /\ rs.n \in Int /\ rs.d \in Int
  <2>1. rs \in Fraction
    BY <1>5, PlusType
  <2> HIDE DEF rs
  <2> QED
    BY <2>1 DEF Fraction
<1>8. e \in Int
  BY <1>1
<1>9. CASE po.net >= 0
  <2>1. o = 0 /\ po.net = l
    BY <1>1, <1>9
  <2>2. y.n = 0
    <3>1. sa.n + (-z) * sa.d \in Int
      BY <1>2
    <3> QED
      BY <1>4, <2>1, <3>1
  <2>3. t.n * la.d = x.n * t.d
    BY <1>3, <1>4, <1>5, <2>2, PlusZero DEF Equals
  <2>4. Book(r, c, l, la)
    BY <1>9, <2>1 DEF Holds, EntryLeg, la
  <2>5. x.n \in Int /\ l \in Int
    BY <1>1, <1>3 DEF Fraction
  <2>6. rs.n * la.d = rs.d * (c * la.d + l * la.n + x.n)
    BY <1>1, <1>5, <2>3, <2>4, <2>5, BookAdd
  <2>7. c * la.d + l * la.n + x.n = e * la.d + 0 * la.n
    BY <1>1, <1>2, <1>3, <2>1
  <2> HIDE DEF rs, e
  <2>8. Book(rs, e, 0, la)
    BY <2>6, <2>7 DEF Book
  <2> QED
    BY <1>6, <2>8 DEF Holds, la, rs, t, e
<1>10. CASE po.net < 0
  <2>1. l = 0 /\ po.net = -o
    BY <1>1, <1>10
  <2>2. x.n = 0
    <3>1. z * la.d + (-la.n) \in Int
      BY <1>2
    <3> QED
      BY <1>3, <2>1, <3>1
  <2>3. t.n * sa.d = y.n * t.d
    BY <1>3, <1>4, <1>5, <2>2, PlusZero DEF Equals
  <2>4. Book(r, c, -o, sa)
    <3>1. EntryLeg(po) = "short"
      BY <1>1, <1>10 DEF EntryLeg
    <3> QED
      BY <2>1, <3>1 DEF Holds, sa
  <2>5. y.n \in Int /\ -o \in Int
    BY <1>1, <1>4 DEF Fraction
  <2>6. rs.n * sa.d = rs.d * (c * sa.d + (-o) * sa.n + y.n)
    BY <1>1, <1>5, <2>3, <2>4, <2>5, BookAdd
  <2>7. c * sa.d + (-o) * sa.n + y.n = e * sa.d + 0 * sa.n
    BY <1>1, <1>2, <1>4, <2>1
  <2> HIDE DEF rs, e
  <2>8. Book(rs, e, 0, sa)
    BY <2>6, <2>7 DEF Book
  <2>9. Book(rs, e, 0, la)
    BY <1>1, <1>7, <1>8, <2>8, BookFlat
  <2> QED
    BY <1>6, <2>9 DEF Holds, la, rs, t, e
<1> QED
  BY <1>1, <1>9, <1>10

\* What holds of one leg is what PnLConserved says of both.
LEMMA HoldsConserves ==
  ASSUME NEW po \in PositionType, Agree(po), NEW r \in Fraction, NEW c \in Int, Holds(po, r, c)
  PROVE  Equals(Minus(r, Minus(Scale(po.qty["long"], po.avg["long"]),
                               Scale(po.qty["short"], po.avg["short"]))), Whole(c))
<1> DEFINE l == po.qty["long"]
           o == po.qty["short"]
           la == po.avg["long"]
           sa == po.avg["short"]
           x == Scale(l, la)
           y == Negative(Scale(o, sa))
           cost == Minus(Scale(l, la), Scale(o, sa))
           g == Negative(cost)
           rs == Plus(r, g)
<1>1. /\ l \in Nat /\ o \in Nat /\ la \in Fraction /\ sa \in Fraction
      /\ po.net = l - o /\ (l = 0 \/ o = 0)
  BY DEF PositionType, Legs, Agree
<1>2. la.n \in Int /\ la.d \in Nat \ {0} /\ sa.n \in Int /\ sa.d \in Nat \ {0}
  BY <1>1 DEF Fraction
<1>3. x.n = l * la.n /\ x.d = la.d /\ x \in Fraction
  BY <1>1, ScaleType DEF Scale
<1>4. y.n = -(o * sa.n) /\ y.d = sa.d /\ y \in Fraction
  <2>1. Scale(o, sa) \in Fraction /\ Scale(o, sa).n = o * sa.n /\ Scale(o, sa).d = sa.d
    BY <1>1, ScaleType DEF Scale
  <2> QED
    BY <2>1, NegativeType DEF Negative
<1>5. cost = Plus(x, y) /\ cost \in Fraction
  <2>1. cost = Plus(x, y)
    BY DEF Minus
  <2> QED
    BY <1>3, <1>4, <2>1, PlusType
<1> HIDE DEF x, y, cost
<1>6. g \in Fraction /\ g.n = -cost.n /\ g.d = cost.d /\ cost.n \in Int /\ cost.d \in Int
  BY <1>5, NegativeType DEF Negative, Fraction
<1>7. Minus(r, cost) = rs
  BY DEF Minus
<1> HIDE DEF l, o, la, sa, g
<1>8. rs.n \in Int /\ rs.d \in Int
  <2>1. rs \in Fraction
    BY <1>6, PlusType
  <2> HIDE DEF rs
  <2> QED
    BY <2>1 DEF Fraction
<1>9. CASE po.net >= 0
  <2>1. o = 0 /\ po.net = l
    BY <1>1, <1>9
  <2>2. y.n = 0
    BY <1>2, <1>4, <2>1
  <2>3. cost.n * la.d = (l * la.n) * cost.d
    BY <1>3, <1>4, <1>5, <2>2, PlusZero DEF Equals
  <2>4. l * la.n \in Int /\ -(l * la.n) \in Int /\ l \in Int
    BY <1>1, <1>2
  <2>5. g.n * la.d = (-(l * la.n)) * g.d
    <3>1. (-cost.n) * la.d = -(cost.n * la.d)
      BY <1>2, <1>6
    <3>2. -((l * la.n) * cost.d) = (-(l * la.n)) * cost.d
      BY <1>6, <2>4
    <3> QED
      BY <1>6, <2>3, <3>1, <3>2
  <2>6. Book(r, c, l, la)
    BY <1>9, <2>1 DEF Holds, EntryLeg, la
  <2>7. rs.n * la.d = rs.d * (c * la.d + l * la.n + (-(l * la.n)))
    BY <1>1, <1>6, <2>4, <2>5, <2>6, BookAdd
  <2> HIDE DEF rs
  <2>8. rs.n * la.d = (c * rs.d) * la.d
    <3>1. c * la.d + l * la.n + (-(l * la.n)) = c * la.d
      BY <1>2, <2>4
    <3>2. rs.d * (c * la.d) = (c * rs.d) * la.d
      BY <1>2, <1>8
    <3> QED
      BY <2>7, <3>1, <3>2
  <2>9. c * rs.d \in Int
    BY <1>8
  <2>10. rs.n = c * rs.d
    BY <1>2, <1>8, <2>8, <2>9, Cancel
  <2>11. rs.n * 1 = c * rs.d
    BY <1>8, <2>10
  <2>12. Equals(rs, Whole(c))
    BY <2>11 DEF Equals, Whole
  <2> QED
    BY <1>7, <2>12 DEF cost, l, o, la, sa
<1>10. CASE po.net < 0
  <2>1. l = 0 /\ po.net = -o
    BY <1>1, <1>10
  <2>2. x.n = 0
    BY <1>2, <1>3, <2>1
  <2>3. cost.n * sa.d = (-(o * sa.n)) * cost.d
    BY <1>3, <1>4, <1>5, <2>2, PlusZero DEF Equals
  <2>4. o * sa.n \in Int /\ -(o * sa.n) \in Int /\ -o \in Int
    BY <1>1, <1>2
  <2>5. g.n * sa.d = (o * sa.n) * g.d
    <3>1. (-cost.n) * sa.d = -(cost.n * sa.d)
      BY <1>2, <1>6
    <3>2. -((-(o * sa.n)) * cost.d) = (o * sa.n) * cost.d
      BY <1>6, <2>4
    <3> QED
      BY <1>6, <2>3, <3>1, <3>2
  <2>6. Book(r, c, -o, sa)
    <3>1. EntryLeg(po) = "short"
      BY <1>1, <1>10 DEF EntryLeg
    <3> QED
      BY <2>1, <3>1 DEF Holds, sa
  <2>7. rs.n * sa.d = rs.d * (c * sa.d + (-o) * sa.n + o * sa.n)
    BY <1>1, <1>6, <2>4, <2>5, <2>6, BookAdd
  <2> HIDE DEF rs
  <2>8. rs.n * sa.d = (c * rs.d) * sa.d
    <3>1. c * sa.d + (-o) * sa.n + o * sa.n = c * sa.d
      BY <1>1, <1>2
    <3>2. rs.d * (c * sa.d) = (c * rs.d) * sa.d
      BY <1>2, <1>8
    <3> QED
      BY <2>7, <3>1, <3>2
  <2>9. c * rs.d \in Int
    BY <1>8
  <2>10. rs.n = c * rs.d
    BY <1>2, <1>8, <2>8, <2>9, Cancel
  <2>11. rs.n * 1 = c * rs.d
    BY <1>8, <2>10
  <2>12. Equals(rs, Whole(c))
    BY <2>11 DEF Equals, Whole
  <2> QED
    BY <1>7, <2>12 DEF cost, l, o, la, sa
<1> QED
  BY <1>1, <1>9, <1>10

-----------------------------------------------------------------------------
(* PnL is conserved.                                                       *)

\* Until a market is seeded or the tasks start, nothing was paid for it.
CashFresh == ~running => \A m \in Markets \ seeded : cash[m] = 0

MoneyInv ==
  /\ IInv
  /\ CashFresh
  /\ \A m \in Markets : Holds(pos[m], realized[m], cash[m])

\* A step pays for one market and leaves the others alone.
LEMMA OneMarket ==
  ASSUME MoneyInv, IInv', CashFresh', NEW m \in Markets,
         Holds(pos'[m], realized'[m], cash'[m]),
         \A k \in Markets \ {m} : pos'[k] = pos[k] /\ realized'[k] = realized[k] /\ cash'[k] = cash[k]
  PROVE  MoneyInv'
<1>1. ASSUME NEW k \in Markets PROVE Holds(pos'[k], realized'[k], cash'[k])
  BY DEF MoneyInv
<1> QED
  BY <1>1 DEF MoneyInv, Holds, Book, EntryLeg

\* Nothing moves the money of a market but the three handlers.
LEMMA NoMarket ==
  ASSUME MoneyInv, IInv', UNCHANGED <<pos, realized, cash, seeded>>, running' = running \/ running'
  PROVE  MoneyInv'
BY DEF MoneyInv, CashFresh, Holds, Book, EntryLeg

\* Every market starts with nothing.
LEMMA InitMoneyInv == Init => MoneyInv
<1> SUFFICES ASSUME Init PROVE MoneyInv
  OBVIOUS
<1>1. IInv
  BY InitIInv
<1>2. CashFresh
  BY DEF Init, CashFresh
<1>3. ASSUME NEW m \in Markets PROVE Holds(pos[m], realized[m], cash[m])
  BY DEF Init, Flat, Legs, Holds, Book, EntryLeg, Whole
<1> QED
  BY <1>1, <1>2, <1>3 DEF MoneyInv

\* A seed is paid for at its entry price.
LEMMA SeedMoneyInv ==
  ASSUME MoneyInv, IInv', NEW m \in Markets, NEW n \in Holdings, NEW a \in Prices,
         SeedPosition(m, n, a)
  PROVE  MoneyInv'
<1>1. n \in Int /\ a \in Int
  BY HoldingsAssumption, PricesAssumption, OneAssumption
<1>2. /\ pos \in [Markets -> PositionType] /\ pos[m] \in PositionType /\ realized[m] \in Fraction
      /\ cash \in [Markets -> Int]
      /\ pos[m].net = 0 /\ cash[m] = 0
  BY DEF MoneyInv, IInv, TypeOK, SeedFresh, CashFresh, SeedPosition
<1>3. realized[m].n = 0 /\ realized[m].d \in Int
  <2>1. Book(realized[m], 0, 0, pos[m].avg["long"])
    BY <1>2 DEF MoneyInv, Holds, EntryLeg
  <2>2. Book(realized[m], 0, 0, Whole(0))
    <3>1. pos[m].avg["long"] \in Fraction /\ Whole(0) \in Fraction
      BY <1>2, WholeType DEF PositionType, Legs
    <3> QED
      BY <1>2, <2>1, <3>1, BookFlat
  <2> QED
    BY <1>2, <2>2 DEF Book, Whole, Fraction
<1>4. /\ pos'[m].net = n /\ pos'[m].avg[EntryLeg(pos'[m])] = Whole(a)
      /\ cash'[m] = -(n * a) /\ realized'[m] = realized[m]
  <2>1. pos'[m] = Seeded(pos[m], n, a) /\ pos[m].avg \in [Legs -> Fraction]
    BY <1>2 DEF SeedPosition, PositionType
  <2>2. cash'[m] = -(n * a) /\ realized' = realized
    BY <1>2 DEF SeedPosition
  <2> QED
    BY <2>1, <2>2 DEF Seeded, EntryLeg, Legs
<1>5. Holds(pos'[m], realized'[m], cash'[m])
  <2>1. realized[m].n * 1 = realized[m].d * ((-(n * a)) * 1 + n * a)
    BY <1>1, <1>3
  <2>2. Book(realized[m], -(n * a), n, Whole(a))
    BY <2>1 DEF Book, Whole
  <2> QED
    BY <1>4, <2>2 DEF Holds
<1>6. \A k \in Markets \ {m} : pos'[k] = pos[k] /\ realized'[k] = realized[k] /\ cash'[k] = cash[k]
  BY <1>2 DEF SeedPosition
<1>7. CashFresh'
  BY <1>6 DEF MoneyInv, CashFresh, SeedPosition
<1> QED
  BY <1>5, <1>6, <1>7, OneMarket

\* So is a fill, at its own.
LEMMA FillMoneyInv ==
  ASSUME MoneyInv, IInv', NEW m \in Markets, NEW s \in Sides, NEW p \in Prices,
         NEW q \in Quantities, OnFill(m, s, p, q)
  PROVE  MoneyInv'
<1>1. p \in Nat /\ q \in Nat \ {0}
  BY PricesAssumption, QuantitiesAssumption, OneAssumption
<1>2. /\ pos \in [Markets -> PositionType] /\ pos[m] \in PositionType /\ Agree(pos[m])
      /\ realized \in [Markets -> Fraction] /\ cash \in [Markets -> Int]
      /\ Holds(pos[m], realized[m], cash[m])
  BY DEF MoneyInv, IInv, TypeOK, LegsAgree, Agree
<1>3. /\ pos' = [pos EXCEPT ![m] = ApplyFill(pos[m], s, p, q)]
      /\ realized' = [realized EXCEPT ![m] = Plus(realized[m], Gain(pos[m], s, p, q))]
      /\ cash' = [cash EXCEPT ![m] = cash[m] - Signed(s, p * q)]
      /\ running' = TRUE
  BY DEF OnFill
<1>4. Holds(pos'[m], realized'[m], cash'[m])
  <2>1. Holds(ApplyFill(pos[m], s, p, q), Plus(realized[m], Gain(pos[m], s, p, q)),
              cash[m] - Signed(s, p * q))
    BY <1>1, <1>2, FillHolds
  <2>2. /\ pos'[m] = ApplyFill(pos[m], s, p, q)
        /\ realized'[m] = Plus(realized[m], Gain(pos[m], s, p, q))
        /\ cash'[m] = cash[m] - Signed(s, p * q)
    BY <1>2, <1>3
  <2> QED
    BY <2>1, <2>2
<1>5. \A k \in Markets \ {m} : pos'[k] = pos[k] /\ realized'[k] = realized[k] /\ cash'[k] = cash[k]
  BY <1>2, <1>3
<1>6. CashFresh'
  BY <1>3 DEF CashFresh
<1> QED
  BY <1>4, <1>5, <1>6, OneMarket

\* A settlement pays for what it closes.
LEMMA ResolutionMoneyInv ==
  ASSUME MoneyInv, IInv', NEW m \in Markets, NEW r \in {0, One}, OnResolution(m, r)
  PROVE  MoneyInv'
<1>1. r \in Int
  BY OneAssumption
<1>2. /\ pos \in [Markets -> PositionType] /\ pos[m] \in PositionType /\ Agree(pos[m])
      /\ realized \in [Markets -> Fraction] /\ cash \in [Markets -> Int]
      /\ Holds(pos[m], realized[m], cash[m])
  BY DEF MoneyInv, IInv, TypeOK, LegsAgree, Agree
<1>3. /\ pos' = [pos EXCEPT ![m] = Settled(pos[m])]
      /\ realized' = [realized EXCEPT ![m] = Plus(realized[m], Settlement(pos[m], r))]
      /\ cash' = [cash EXCEPT ![m] = cash[m] + pos[m].net * r]
      /\ running /\ running' = running
  BY DEF OnResolution
<1>4. Holds(pos'[m], realized'[m], cash'[m])
  <2>1. Holds(Settled(pos[m]), Plus(realized[m], Settlement(pos[m], r)), cash[m] + pos[m].net * r)
    BY <1>1, <1>2, SettleHolds
  <2>2. /\ pos'[m] = Settled(pos[m])
        /\ realized'[m] = Plus(realized[m], Settlement(pos[m], r))
        /\ cash'[m] = cash[m] + pos[m].net * r
    BY <1>2, <1>3
  <2> QED
    BY <2>1, <2>2
<1>5. \A k \in Markets \ {m} : pos'[k] = pos[k] /\ realized'[k] = realized[k] /\ cash'[k] = cash[k]
  BY <1>2, <1>3
<1>6. CashFresh'
  BY <1>3 DEF CashFresh
<1> QED
  BY <1>4, <1>5, <1>6, OneMarket

\* Every step keeps the invariant.
LEMMA NextMoneyInv == MoneyInv /\ [Next]_vars => MoneyInv'
<1> SUFFICES ASSUME MoneyInv, [Next]_vars PROVE MoneyInv'
  OBVIOUS
<1>0. IInv'
  BY NextIInv DEF MoneyInv
<1>1. CASE \E m \in Markets, n \in Holdings, a \in Prices : SeedPosition(m, n, a)
  BY <1>0, <1>1, SeedMoneyInv
<1>2. CASE Start
  BY <1>0, <1>2, NoMarket DEF Start
<1>3. CASE \E m \in Markets, s \in Sides, p \in Prices, q \in Quantities : OnFill(m, s, p, q)
  BY <1>0, <1>3, FillMoneyInv
<1>4. CASE \E m \in Markets, r \in {0, One} : OnResolution(m, r)
  BY <1>0, <1>4, ResolutionMoneyInv
<1>5. CASE \E v \in Venues, c \in Reservations : OnOrderPlaced(v, c) \/ OnOrderCancelled(v, c)
  BY <1>0, <1>5, NoMarket DEF OnOrderPlaced, OnOrderCancelled
<1>6. CASE UNCHANGED vars
  BY <1>0, <1>6, NoMarket DEF vars
<1> QED
  BY <1>1, <1>2, <1>3, <1>4, <1>5, <1>6 DEF Next

\* Bookkeeping makes and loses no money: whatever opens, partial closes, flips,
\* seeds and settlements there were (apply_fill, on_resolution), what was
\* realized, less what the open legs cost, is what the fills were paid.
THEOREM PnLAlwaysConserved == Spec => []PnLConserved
<1>1. MoneyInv => PnLConserved
  BY HoldsConserves DEF MoneyInv, IInv, TypeOK, LegsAgree, Agree, PnLConserved
<1> QED
  BY <1>1, InitMoneyInv, NextMoneyInv, PTL DEF Spec

=============================================================================
