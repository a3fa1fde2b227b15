--------------------------- MODULE FillPathProofs ---------------------------
(***************************************************************************)
(* What is proved of FillPath for every set of markets, every price,       *)
(* quantity and holding, and every number of fills: the position, the      *)
(* realized PnL and the entry prices that InventoryManager and RiskEngine  *)
(* keep apart agree.                                                       *)
(***************************************************************************)
EXTENDS FillPath, OperatorProofs

-----------------------------------------------------------------------------
(* The inductive invariant.                                                *)

\* A position of InventoryManager, whatever its entry prices are.
IsPosition(po) ==
  /\ po = [net |-> po.net, qty |-> po.qty, avg |-> po.avg]
  /\ po.net \in Int
  /\ po.qty \in [Inv!Legs -> Int]

\* As much of the shapes of the state as the two holders need.
Shapes ==
  /\ DOMAIN pos = Markets /\ pos = [m \in Markets |-> pos[m]]
  /\ \A m \in Markets : IsPosition(pos[m])
  /\ mirror = [m \in Markets |-> mirror[m]]
  /\ \A m \in Markets : mirror[m].net \in Int
  /\ taken \in [Markets -> Int]
  /\ riskRealized = [m \in Markets |-> riskRealized[m]]

\* Until the tasks start no fill has reached the mirror: a seed that came
\* later would be a difference the offset does not account for.
MirrorFresh == ~running => \A m \in Markets : mirror[m].net = 0

\* The gain of a fill is added twice, in the same way.
SameRealized == riskRealized = realized

IInv == Shapes /\ MirrorFresh /\ MirrorOffset /\ SameRealized

-----------------------------------------------------------------------------
(* One fill.                                                               *)

\* However apply_fill splits it over the legs, a fill moves net by its signed
\* quantity.
LEMMA NetMoves ==
  ASSUME NEW po, IsPosition(po), NEW s \in Inv!Sides, NEW p, NEW q \in Nat
  PROVE  /\ IsPosition(Inv!ApplyFill(po, s, p, q))
         /\ Inv!ApplyFill(po, s, p, q).net = po.net + Inv!Signed(s, q)
<1> DEFINE nx == Inv!ApplyFill(po, s, p, q)
<1> DEFINE clo == Inv!Closing(po, s, q)
<1> DEFINE rem == Inv!Remainder(po, s, q)
<1> DEFINE own == Inv!Leg(s)
<1> DEFINE other == Inv!OtherLeg(s)
<1>1. own \in Inv!Legs /\ other \in Inv!Legs
  BY DEF Inv!Leg, Inv!OtherLeg, Inv!Legs
<1>2. po.net \in Int /\ po.qty \in [Inv!Legs -> Int]
  BY DEF IsPosition
<1>3. po.qty[own] \in Int /\ po.qty[other] \in Int
  BY <1>1, <1>2
<1>4. clo \in Int /\ rem \in Int /\ clo + rem = q
  BY <1>3 DEF Inv!Closing, Inv!Remainder, Inv!Least
<1>5. CASE Inv!Opens(po, s)
  <2>1. nx = [po EXCEPT !.net = @ + Inv!Signed(s, q), !.qty[own] = @ + q,
                        !.avg[own] = Inv!Blend(@, po.qty[own], p, q)]
    BY <1>5 DEF Inv!ApplyFill
  <2>2. nx = [net |-> po.net + Inv!Signed(s, q), qty |-> [po.qty EXCEPT ![own] = @ + q],
              avg |-> [po.avg EXCEPT ![own] = Inv!Blend(@, po.qty[own], p, q)]]
    BY <2>1 DEF IsPosition
  <2>3. po.net + Inv!Signed(s, q) \in Int
    BY <1>2 DEF Inv!Signed
  <2>4. [po.qty EXCEPT ![own] = @ + q] \in [Inv!Legs -> Int]
    BY <1>1, <1>2, <1>3
  <2> QED
    BY <2>2, <2>3, <2>4 DEF IsPosition
<1>6. CASE ~Inv!Opens(po, s)
  <2>1. nx = [po EXCEPT !.net = @ + Inv!Signed(s, clo) + Inv!Signed(s, rem),
                        !.qty[other] = @ - clo,
                        !.qty[own] = IF rem > 0 THEN rem ELSE @,
                        !.avg[own] = IF rem > 0 THEN Whole(p) ELSE @]
    BY <1>6 DEF Inv!ApplyFill, Inv!Whole, Whole
  <2>2. nx = [net |-> po.net + Inv!Signed(s, clo) + Inv!Signed(s, rem),
              qty |-> [po.qty EXCEPT ![other] = @ - clo, ![own] = IF rem > 0 THEN rem ELSE @],
              avg |-> [po.avg EXCEPT ![own] = IF rem > 0 THEN Whole(p) ELSE @]]
    BY <2>1 DEF IsPosition
  <2>3. po.net + Inv!Signed(s, clo) + Inv!Signed(s, rem) = po.net + Inv!Signed(s, q)
    BY <1>2, <1>4 DEF Inv!Signed
  <2>4. po.net + Inv!Signed(s, q) \in Int
    BY <1>2 DEF Inv!Signed
  <2>5. [po.qty EXCEPT ![other] = @ - clo, ![own] = IF rem > 0 THEN rem ELSE @]
          \in [Inv!Legs -> Int]
    BY <1>1, <1>2, <1>3, <1>4
  <2> QED
    BY <2>2, <2>3, <2>4, <2>5 DEF IsPosition
<1> QED
  BY <1>5, <1>6

\* So does the mirror, which never looks at the legs.
LEMMA MirrorMoves ==
  ASSUME NEW po, po.net \in Int, NEW s \in Inv!Sides, NEW p, NEW q \in Nat
  PROVE  /\ Risk!MirrorFill(po, s, p, q).net = po.net + Inv!Signed(s, q)
         /\ Risk!MirrorFill(po, s, p, q).net \in Int
BY DEF Risk!MirrorFill, Risk!Sign, Inv!Signed

-----------------------------------------------------------------------------
(* The invariant is inductive.                                             *)

\* Both start flat.
LEMMA InitIInv == Init => IInv
<1> SUFFICES ASSUME Init PROVE IInv
  OBVIOUS
<1>1. /\ pos = [m \in Markets |-> Inv!Flat]
      /\ mirror = [m \in Markets |-> [net |-> 0, avg |-> Risk!Whole(0)]]
      /\ realized = [m \in Markets |-> Inv!Whole(0)]
      /\ riskRealized = [m \in Markets |-> Risk!Whole(0)]
      /\ taken = [m \in Markets |-> 0]
  BY DEF Init, Inv!Init, Risk!Init
<1>2. IsPosition(Inv!Flat) /\ Inv!Flat.net = 0
  BY DEF IsPosition, Inv!Flat
<1>3. Shapes
  BY <1>1, <1>2 DEF Shapes
<1>4. MirrorFresh /\ MirrorOffset
  BY <1>1, <1>2 DEF MirrorFresh, MirrorOffset
<1>5. SameRealized
  BY <1>1 DEF SameRealized, Inv!Whole, Risk!Whole
<1> QED
  BY <1>3, <1>4, <1>5 DEF IInv

\* A seed is what the two differ by from then on.
LEMMA SeedIInv ==
  ASSUME IInv, NEW m \in Markets, NEW n \in Holdings, NEW avg \in Prices, Seed(m, n, avg)
  PROVE  IInv'
<1> DEFINE g == IF n >= 0 THEN "long" ELSE "short"
<1> DEFINE nx == Inv!Seeded(pos[m], n, avg)
<1>1. n \in Int /\ g \in Inv!Legs
  BY HoldingsAssumption DEF Inv!Legs
<1>2. /\ pos' = [pos EXCEPT ![m] = nx] /\ taken' = [taken EXCEPT ![m] = n]
      /\ ~running /\ running' = running
      /\ realized' = realized /\ mirror' = mirror /\ riskRealized' = riskRealized
  BY DEF Seed, Inv!SeedPosition, riskVars
<1>3. nx = [net |-> n, qty |-> [pos[m].qty EXCEPT ![g] = IF n >= 0 THEN n ELSE -n],
            avg |-> [pos[m].avg EXCEPT ![g] = Inv!Whole(avg)]]
  BY DEF Inv!Seeded
<1>4. IsPosition(nx) /\ nx.net = n
  BY <1>1, <1>3 DEF IInv, Shapes, IsPosition
<1> HIDE DEF nx
<1>5. Shapes'
  BY <1>1, <1>2, <1>4 DEF IInv, Shapes
<1>6. MirrorFresh' /\ SameRealized'
  BY <1>2 DEF IInv, MirrorFresh, SameRealized
<1>7. MirrorOffset'
  <2> SUFFICES ASSUME NEW k \in Markets PROVE mirror'[k].net = pos'[k].net - taken'[k]
    BY DEF MirrorOffset
  <2>1. CASE k = m
    <3>1. mirror'[k].net = 0
      BY <1>2 DEF IInv, MirrorFresh
    <3>2. pos'[k].net = n /\ taken'[k] = n
      BY <1>2, <1>4, <2>1 DEF IInv, Shapes
    <3> QED
      BY <1>1, <3>1, <3>2
  <2>2. CASE k # m
    BY <1>2, <2>2 DEF IInv, Shapes, MirrorOffset
  <2> QED
    BY <2>1, <2>2
<1> QED
  BY <1>5, <1>6, <1>7 DEF IInv

\* A fill moves both by the same quantity.
LEMMA FillIInv ==
  ASSUME IInv, NEW m \in Markets, NEW s \in Inv!Sides, NEW p \in Prices,
         NEW q \in Quantities, ApplyFill(m, s, p, q)
  PROVE  IInv'
<1> DEFINE nx == Inv!ApplyFill(pos[m], s, p, q)
<1> DEFINE mx == Risk!MirrorFill(mirror[m], s, p, q)
<1> DEFINE gain == Inv!Gain(pos[m], s, p, q)
<1>1. q \in Nat
  BY QuantitiesAssumption
<1>2. /\ pos' = [pos EXCEPT ![m] = nx] /\ mirror' = [mirror EXCEPT ![m] = mx]
      /\ realized' = [realized EXCEPT ![m] = Inv!Plus(@, gain)]
      /\ riskRealized' = [riskRealized EXCEPT ![m] = Risk!Plus(@, gain)]
      /\ running /\ running' = running /\ taken' = taken
  BY DEF ApplyFill, Inv!OnFill, Risk!OnFill
<1>3. IsPosition(nx) /\ nx.net = pos[m].net + Inv!Signed(s, q)
  BY <1>1, NetMoves DEF IInv, Shapes
<1>4. mx.net = mirror[m].net + Inv!Signed(s, q) /\ mx.net \in Int
  BY <1>1, MirrorMoves DEF IInv, Shapes
<1>5. \A a, b : Inv!Plus(a, b) = Risk!Plus(a, b)
  BY DEF Inv!Plus, Risk!Plus
<1> HIDE DEF nx, mx, gain
<1>6. Shapes'
  BY <1>2, <1>3, <1>4 DEF IInv, Shapes
<1>7. MirrorFresh'
  BY <1>2 DEF MirrorFresh
<1>8. SameRealized'
  BY <1>2, <1>5 DEF IInv, SameRealized
<1>9. MirrorOffset'
  <2> SUFFICES ASSUME NEW k \in Markets PROVE mirror'[k].net = pos'[k].net - taken'[k]
    BY DEF MirrorOffset
  <2>1. CASE k = m
    <3>1. mirror'[k].net = mirror[k].net + Inv!Signed(s, q)
      BY <1>2, <1>4, <2>1 DEF IInv, Shapes
    <3>2. pos'[k].net = pos[k].net + Inv!Signed(s, q)
      BY <1>2, <1>3, <2>1 DEF IInv, Shapes
    <3>3. mirror[k].net = pos[k].net - taken[k] /\ taken'[k] = taken[k]
      BY <1>2 DEF IInv, MirrorOffset
    <3>4. /\ pos[k].net \in Int /\ taken[k] \in Int /\ Inv!Signed(s, q) \in Int
      BY <1>1 DEF IInv, Shapes, IsPosition, Inv!Signed
    <3> QED
      BY <3>1, <3>2, <3>3, <3>4
  <2>2. CASE k # m
    BY <1>2, <2>2 DEF IInv, Shapes, MirrorOffset
  <2> QED
    BY <2>1, <2>2
<1> QED
  BY <1>6, <1>7, <1>8, <1>9 DEF IInv

\* What the invariant reads is left alone by everything else but the start.
LEMMA OtherIInv ==
  ASSUME IInv,
         UNCHANGED <<pos, mirror, realized, riskRealized, taken>>,
         running' = running \/ running'
  PROVE  IInv'
BY DEF IInv, Shapes, IsPosition, MirrorFresh, MirrorOffset, SameRealized

\* Every step keeps the invariant.
LEMMA NextIInv == IInv /\ [Next]_vars => IInv'
<1> SUFFICES ASSUME IInv, [Next]_vars PROVE IInv'
  OBVIOUS
<1>1. CASE \E m \in Markets, n \in Holdings, avg \in Prices : Seed(m, n, avg)
  BY <1>1, SeedIInv
<1>2. CASE Start
  BY <1>2, OtherIInv DEF Start, Inv!Start, riskVars
<1>3. CASE \E m \in Markets, s \in Inv!Sides, p \in Prices, q \in Quantities : ApplyFill(m, s, p, q)
  BY <1>3, FillIInv
<1>4. CASE \E m \in Markets, mid \in Prices : MarketUpdate(m, mid)
  <2> SUFFICES ASSUME NEW m \in Markets, NEW mid \in Prices, MarketUpdate(m, mid) PROVE IInv'
    BY <1>4
  <2> QED
    BY OtherIInv DEF MarketUpdate, Risk!OnMarketUpdate, invVars
<1>5. CASE BookUpdate
  BY <1>5, OtherIInv DEF BookUpdate, Risk!OnBookUpdate, Risk!pnlVars, invVars
<1>6. CASE RiskTask
  <2>1. CASE Risk!Check
    BY <1>6, <2>1, OtherIInv DEF RiskTask, Risk!Check, invVars
  <2>2. CASE Risk!Tick
    BY <1>6, <2>2, OtherIInv DEF RiskTask, Risk!Tick, Risk!pnlVars, invVars
  <2> QED
    BY <1>6, <2>1, <2>2 DEF RiskTask
<1>7. CASE UNCHANGED vars
  BY <1>7, OtherIInv DEF vars, invVars, riskVars
<1> QED
  BY <1>1, <1>2, <1>3, <1>4, <1>5, <1>6, <1>7 DEF Next

-----------------------------------------------------------------------------
(* The theorems.                                                           *)

\* So does every behaviour.
LEMMA SpecIInv == Spec => []IInv
BY InitIInv, NextIInv, PTL DEF Spec

\* The mirror of RiskEngine (on_fill, one number per market) and the position
\* of InventoryManager (apply_fill, two legs and a net) differ by the seed the
\* market started with, after any fills.
THEOREM MirrorAlwaysOffset == Spec => []MirrorOffset
<1>1. IInv => MirrorOffset
  BY DEF IInv
<1> QED
  BY <1>1, SpecIInv, PTL

\* RiskEngine, which only adds up what on_fill of InventoryManager returned,
\* holds the same realized PnL, of seeded markets too.
THEOREM RealizedAlwaysAgree == Spec => []RealizedAgree
<1>1. IInv => RealizedAgree
  BY DEF IInv, SameRealized, RealizedAgree, Equals
<1> QED
  BY <1>1, SpecIInv, PTL

-----------------------------------------------------------------------------
(* Two entry prices of one fill.                                           *)

\* Until a market is seeded its two entries tell one story: the same position,
\* on one leg, at the same price.
Entry(po, mo) ==
  /\ po = [net |-> po.net, qty |-> po.qty, avg |-> po.avg]
  /\ po.net \in Int /\ po.avg \in [Inv!Legs -> Fraction]
  /\ po.qty = [g \in Inv!Legs |-> IF (g = "long") = (po.net > 0) THEN Risk!Size(po.net) ELSE 0]
  /\ mo = [net |-> po.net, avg |-> mo.avg] /\ mo.avg \in Fraction
  /\ po.net > 0 => Equals(mo.avg, po.avg["long"])
  /\ po.net < 0 => Equals(mo.avg, po.avg["short"])

\* One fill, whichever branches the two take, moves both entries alike.
LEMMA EntryMoves ==
  ASSUME NEW po, NEW mo, Entry(po, mo), NEW s \in Inv!Sides, NEW p \in Nat, NEW q \in Nat \ {0}
  PROVE  Entry(Inv!ApplyFill(po, s, p, q), Risk!MirrorFill(mo, s, p, q))
<1> DEFINE nx == Inv!ApplyFill(po, s, p, q)
           mx == Risk!MirrorFill(mo, s, p, q)
           own == Inv!Leg(s)
           other == Inv!OtherLeg(s)
           h == po.qty[own]
           o == po.qty[other]
           u == Risk!Sign(s)
           a == po.avg[own]
<1>1. own \in Inv!Legs /\ other \in Inv!Legs /\ own # other /\ Inv!Legs = {own, other}
  BY DEF Inv!Leg, Inv!OtherLeg, Inv!Legs
<1>2. /\ po = [net |-> po.net, qty |-> po.qty, avg |-> po.avg]
      /\ po.net \in Int /\ po.avg \in [Inv!Legs -> Fraction] /\ mo.net = po.net
      /\ mo.avg \in Fraction /\ a \in Fraction
  BY <1>1 DEF Entry
<1>3. /\ u \in {1, -1} /\ Inv!Signed(s, q) = u * q /\ u * q \in Int
      /\ (s = "BUY" => u = 1 /\ own = "long" /\ other = "short")
      /\ (s # "BUY" => u = -1 /\ own = "short" /\ other = "long")
  BY DEF Risk!Sign, Inv!Signed, Inv!Leg, Inv!OtherLeg
<1>4. /\ po.qty = [g \in Inv!Legs |-> IF (g = "long") = (po.net > 0) THEN Risk!Size(po.net) ELSE 0]
      /\ h \in Nat /\ o \in Nat
      /\ (u * po.net >= 0 => h = u * po.net /\ o = 0)
      /\ (u * po.net < 0 => h = 0 /\ o = -(u * po.net))
  <2>1. po.qty = [g \in Inv!Legs |-> IF (g = "long") = (po.net > 0) THEN Risk!Size(po.net) ELSE 0]
    BY DEF Entry
  <2>2. h = (IF (own = "long") = (po.net > 0) THEN Risk!Size(po.net) ELSE 0)
    BY <1>1, <2>1
  <2>3. o = (IF (other = "long") = (po.net > 0) THEN Risk!Size(po.net) ELSE 0)
    BY <1>1, <2>1
  <2> HIDE DEF h, o, own, other, u
  <2>4. CASE s = "BUY"
    BY <1>2, <1>3, <2>1, <2>2, <2>3, <2>4 DEF Risk!Size
  <2>5. CASE s # "BUY"
    BY <1>2, <1>3, <2>1, <2>2, <2>3, <2>5 DEF Risk!Size
  <2> QED
    BY <2>4, <2>5
<1>5. Inv!Opens(po, s) <=> u * po.net >= 0
  BY <1>2 DEF Inv!Opens, Risk!Sign
<1>6. Risk!SameDirection(mo, s) <=> u * po.net >= 0
  BY <1>2 DEF Risk!SameDirection, Risk!Sign
<1>7. mx = [net |-> po.net + u * q, avg |-> mx.avg]
  BY <1>2 DEF Risk!MirrorFill
<1>8. CASE u * po.net >= 0
  <2> DEFINE b == Over(Plus(Scale(h, a), Whole(p * q)), h + q)
             c == Over(Plus(Scale(h, mo.avg), Whole(p * q)), h + q)
  <2>1. nx = [net |-> po.net + u * q, qty |-> [po.qty EXCEPT ![own] = h + q],
              avg |-> [po.avg EXCEPT ![own] = b]]
    <3>1. nx = [po EXCEPT !.net = @ + Inv!Signed(s, q), !.qty[own] = @ + q,
                          !.avg[own] = Inv!Blend(@, po.qty[own], p, q)]
      BY <1>5, <1>8 DEF Inv!ApplyFill
    <3>2. Inv!Blend(a, h, p, q) = b
      BY DEF Inv!Blend, Inv!Over, Inv!Plus, Inv!Scale, Inv!Whole, Over, Plus, Scale, Whole
    <3> QED
      BY <1>2, <1>3, <3>1, <3>2
  <2>2. Risk!Size(po.net) = h /\ Risk!Size(po.net + u * q) = h + q
    BY <1>2, <1>3, <1>4, <1>8 DEF Risk!Size
  <2>3. mx.avg = c
    <3>1. mx.avg = Risk!Over(Risk!Plus(Risk!Scale(h, mo.avg), Risk!Whole(p * q)), h + q)
      BY <1>2, <1>6, <1>8, <2>2 DEF Risk!MirrorFill
    <3> QED
      BY <3>1 DEF Risk!Over, Risk!Plus, Risk!Scale, Risk!Whole, Over, Plus, Scale, Whole
  <2> HIDE DEF nx, mx, own, other, h, o, u, a, b, c
  <2>4. b \in Fraction /\ c \in Fraction
    <3>1. Whole(p * q) \in Fraction /\ h + q \in Nat \ {0}
      <4>1. p * q \in Int
        OBVIOUS
      <4> QED
        BY <1>4, <4>1, WholeType
    <3>2. /\ Plus(Scale(h, a), Whole(p * q)) \in Fraction
          /\ Plus(Scale(h, mo.avg), Whole(p * q)) \in Fraction
      BY <1>2, <1>4, <3>1, ScaleType, PlusType
    <3> QED
      BY <3>1, <3>2, OverType DEF b, c
  <2>5. Equals(c, b)
    <3>1. h = 0 \/ Equals(mo.avg, a)
      BY <1>2, <1>3, <1>4, <1>8 DEF Entry, a
    <3>2. p * q \in Int /\ h + q \in Int /\ h \in Int
      BY <1>4
    <3> QED
      BY <1>2, <3>1, <3>2, BlendEqual DEF b, c
  <2>6. nx.net = u * (h + q) /\ nx.net = po.net + u * q
    BY <1>2, <1>3, <1>4, <1>8, <2>1
  <2>7. nx.qty = [g \in Inv!Legs |-> IF (g = "long") = (nx.net > 0) THEN Risk!Size(nx.net) ELSE 0]
    <3>1. Risk!Size(nx.net) = h + q
      BY <2>2, <2>6
    <3>2. (own = "long") = (nx.net > 0) /\ (other = "long") # (nx.net > 0)
      BY <1>3, <1>4, <2>6
    <3>3. nx.qty[own] = h + q /\ nx.qty[other] = 0 /\ DOMAIN nx.qty = Inv!Legs
          /\ nx.qty = [g \in Inv!Legs |-> nx.qty[g]]
      BY <1>1, <1>4, <1>8, <2>1 DEF o
    <3> QED
      BY <1>1, <3>1, <3>2, <3>3
  <2>8. nx.avg \in [Inv!Legs -> Fraction] /\ nx.avg[own] = b
    BY <1>1, <1>2, <2>1, <2>4
  <2>9. (nx.net > 0 => own = "long") /\ (nx.net < 0 => own = "short")
    BY <1>3, <1>4, <2>6
  <2>10. nx.net \in Int /\ nx = [net |-> nx.net, qty |-> nx.qty, avg |-> nx.avg]
    BY <1>2, <1>3, <2>1, <2>6
  <2>11. mx = [net |-> nx.net, avg |-> mx.avg]
    BY <1>7, <2>6
  <2>12. Entry(nx, mx)
    BY <2>3, <2>4, <2>5, <2>7, <2>8, <2>9, <2>10, <2>11 DEF Entry
  <2> QED
    BY <2>12 DEF nx, mx
<1>9. CASE u * po.net < 0
  <2> DEFINE k == Inv!Closing(po, s, q)
             w == Inv!Remainder(po, s, q)
  <2>1. k = (IF q <= o THEN q ELSE o) /\ w = q - k
    BY DEF Inv!Closing, Inv!Least, Inv!Remainder
  <2>2. nx = [net |-> po.net + Inv!Signed(s, k) + Inv!Signed(s, w),
              qty |-> [po.qty EXCEPT ![other] = o - k, ![own] = IF w > 0 THEN w ELSE h],
              avg |-> [po.avg EXCEPT ![own] = IF w > 0 THEN Whole(p) ELSE a]]
    <3>1. nx = [po EXCEPT !.net = @ + Inv!Signed(s, k) + Inv!Signed(s, w),
                          !.qty[other] = @ - k,
                          !.qty[own] = IF w > 0 THEN w ELSE @,
                          !.avg[own] = IF w > 0 THEN Whole(p) ELSE @]
      BY <1>5, <1>9, <1>2, <1>3 DEF Inv!ApplyFill, Inv!Whole, Whole
    <3> QED
      BY <1>1, <1>2, <1>4, <3>1
  <2>3. mx.avg = IF q > Risk!Size(po.net) THEN Whole(p) ELSE mo.avg
    BY <1>2, <1>3, <1>6, <1>9 DEF Risk!MirrorFill, Risk!Whole, Whole
  <2>4. Risk!Size(po.net) = o /\ o \in Nat \ {0} /\ h = 0 /\ po.net = -(u * o)
    BY <1>2, <1>3, <1>4, <1>9 DEF Risk!Size
  <2>5. Equals(mo.avg, po.avg[other])
    BY <1>2, <1>3, <1>9 DEF Entry
  <2>14. k \in Int /\ w \in Int
    BY <1>4, <2>1
  <2> HIDE DEF nx, mx, own, other, h, o, a, k, w
  <2>6. Inv!Signed(s, k) = u * k /\ Inv!Signed(s, w) = u * w
    BY <2>14 DEF Inv!Signed, Risk!Sign
  <2> HIDE DEF u
  <2>7. nx.net = po.net + u * q /\ nx.net = u * (q - o) /\ nx.net \in Int
    BY <1>3, <2>1, <2>2, <2>4, <2>6
  <2>8. Whole(p) \in Fraction
    BY WholeType
  <2>9. /\ nx.qty[other] = o - k /\ nx.qty[own] = (IF w > 0 THEN w ELSE 0)
        /\ nx.qty = [g \in Inv!Legs |-> nx.qty[g]]
        /\ nx.avg \in [Inv!Legs -> Fraction]
        /\ nx.avg[other] = po.avg[other] /\ (w > 0 => nx.avg[own] = Whole(p))
    BY <1>1, <1>2, <1>4, <2>2, <2>4, <2>8
  <2>10. nx = [net |-> nx.net, qty |-> nx.qty, avg |-> nx.avg]
    BY <2>2
  <2>11. mx = [net |-> nx.net, avg |-> mx.avg]
    BY <1>7, <2>7
  <2>12. CASE q > o
    <3>1. k = o /\ w = q - o /\ w > 0
      BY <2>1, <2>4, <2>12
    <3>2. mx.avg = Whole(p) /\ nx.avg[own] = Whole(p)
      BY <2>3, <2>4, <2>9, <2>12, <3>1
    <3>3. /\ (nx.net > 0 => own = "long") /\ (nx.net < 0 => own = "short") /\ nx.net # 0
          /\ Risk!Size(nx.net) = q - o
      BY <1>3, <2>4, <2>7, <2>12 DEF Risk!Size
    <3>4. (own = "long") = (nx.net > 0) /\ (other = "long") # (nx.net > 0)
      BY <1>3, <2>4, <2>7, <2>12
    <3>5. nx.qty = [g \in Inv!Legs |-> IF (g = "long") = (nx.net > 0) THEN Risk!Size(nx.net) ELSE 0]
      <4>1. nx.qty[own] = q - o /\ nx.qty[other] = 0
        BY <2>4, <2>9, <3>1
      <4> QED
        BY <1>1, <2>9, <3>3, <3>4, <4>1
    <3>6. Equals(Whole(p), Whole(p))
      BY DEF Equals, Whole
    <3>7. Entry(nx, mx)
      BY <2>7, <2>8, <2>9, <2>10, <2>11, <3>2, <3>3, <3>5, <3>6 DEF Entry
    <3> QED
      BY <3>7 DEF nx, mx
  <2>13. CASE ~(q > o)
    <3>1. k = q /\ w = 0
      BY <2>1, <2>4, <2>13
    <3>2. mx.avg = mo.avg
      BY <2>3, <2>4, <2>13
    <3>3. /\ (nx.net > 0 => other = "long") /\ (nx.net < 0 => other = "short")
          /\ Risk!Size(nx.net) = o - q
      BY <1>3, <2>4, <2>7, <2>13 DEF Risk!Size
    <3>4. nx.net # 0 => (other = "long") = (nx.net > 0) /\ (own = "long") # (nx.net > 0)
      BY <1>3, <2>4, <2>7, <2>13
    <3>5. nx.net = 0 => o - q = 0
      BY <1>3, <2>4, <2>7, <2>13
    <3>6. nx.qty = [g \in Inv!Legs |-> IF (g = "long") = (nx.net > 0) THEN Risk!Size(nx.net) ELSE 0]
      <4>1. nx.qty[other] = o - q /\ nx.qty[own] = 0
        BY <2>9, <3>1
      <4> QED
        BY <1>1, <2>9, <3>3, <3>4, <3>5, <4>1
    <3>7. Entry(nx, mx)
      BY <1>2, <2>5, <2>7, <2>9, <2>10, <2>11, <3>2, <3>3, <3>6 DEF Entry
    <3> QED
      BY <3>7 DEF nx, mx
  <2> QED
    BY <2>12, <2>13
<1>10. u * po.net \in Int
  BY <1>2, <1>3
<1> QED
  BY <1>8, <1>9, <1>10

-----------------------------------------------------------------------------
(* The entry prices agree.                                                 *)

EntryInv == IInv /\ \A m \in Markets \ seeded : Entry(pos[m], mirror[m])

\* Both start flat, at a price of nothing.
LEMMA InitEntryInv == Init => EntryInv
<1> SUFFICES ASSUME Init PROVE EntryInv
  OBVIOUS
<1>1. IInv
  BY InitIInv
<1>2. ASSUME NEW m \in Markets PROVE Entry(pos[m], mirror[m])
  <2>1. pos[m] = [net |-> 0, qty |-> [g \in Inv!Legs |-> 0], avg |-> [g \in Inv!Legs |-> Whole(0)]]
    BY DEF Init, Inv!Init, Inv!Flat, Inv!Whole, Whole
  <2>2. mirror[m] = [net |-> 0, avg |-> Whole(0)]
    BY DEF Init, Risk!Init, Risk!Whole, Whole
  <2>3. Whole(0) \in Fraction
    BY WholeType
  <2> QED
    BY <2>1, <2>2, <2>3 DEF Entry, Risk!Size
<1> QED
  BY <1>1, <1>2 DEF EntryInv

\* A fill moves both entries of its market.
LEMMA FillEntryInv ==
  ASSUME EntryInv, IInv', NEW m \in Markets, NEW s \in Inv!Sides, NEW p \in Prices,
         NEW q \in Quantities, ApplyFill(m, s, p, q)
  PROVE  EntryInv'
<1>1. p \in Nat /\ q \in Nat \ {0}
  BY PricesAssumption, QuantitiesAssumption
<1>2. /\ pos' = [pos EXCEPT ![m] = Inv!ApplyFill(pos[m], s, p, q)]
      /\ mirror' = [mirror EXCEPT ![m] = Risk!MirrorFill(mirror[m], s, p, q)]
      /\ seeded' = seeded
  BY DEF ApplyFill, Inv!OnFill, Risk!OnFill
<1>3. DOMAIN pos = Markets /\ DOMAIN mirror = Markets
  BY DEF EntryInv, IInv, Shapes
<1>4. ASSUME NEW k \in Markets \ seeded PROVE Entry(pos'[k], mirror'[k])
  <2>1. Entry(pos[k], mirror[k])
    BY DEF EntryInv
  <2>2. CASE k = m
    <3>1. /\ pos'[m] = Inv!ApplyFill(pos[m], s, p, q)
          /\ mirror'[m] = Risk!MirrorFill(mirror[m], s, p, q)
      BY <1>2, <1>3
    <3> QED
      BY <1>1, <2>1, <2>2, <3>1, EntryMoves
  <2>3. CASE k # m
    BY <1>2, <1>3, <2>1, <2>3
  <2> QED
    BY <2>2, <2>3
<1> QED
  BY <1>2, <1>4 DEF EntryInv, Entry

\* Nothing else touches either, except the seed, which ends the claim.
LEMMA OtherEntryInv ==
  ASSUME EntryInv, IInv', mirror' = mirror, seeded \subseteq seeded',
         \A m \in Markets \ seeded' : pos'[m] = pos[m]
  PROVE  EntryInv'
<1>1. ASSUME NEW m \in Markets \ seeded' PROVE Entry(pos'[m], mirror'[m])
  BY DEF EntryInv
<1> QED
  BY <1>1 DEF EntryInv, Entry

\* Every step keeps the invariant.
LEMMA NextEntryInv == EntryInv /\ [Next]_vars => EntryInv'
<1> SUFFICES ASSUME EntryInv, [Next]_vars PROVE EntryInv'
  OBVIOUS
<1>0. IInv' /\ DOMAIN pos = Markets
  BY NextIInv DEF EntryInv, IInv, Shapes
<1>1. ASSUME NEW m \in Markets, NEW n \in Holdings, NEW avg \in Prices, Seed(m, n, avg)
      PROVE  EntryInv'
  <2>1. /\ pos' = [pos EXCEPT ![m] = Inv!Seeded(pos[m], n, avg)] /\ seeded' = seeded \cup {m}
        /\ mirror' = mirror
    BY <1>1 DEF Seed, Inv!SeedPosition, riskVars
  <2>2. \A k \in Markets \ seeded' : pos'[k] = pos[k]
    BY <1>0, <2>1
  <2> QED
    BY <1>0, <2>1, <2>2, OtherEntryInv
<1>2. CASE Start
  BY <1>0, <1>2, OtherEntryInv DEF Start, Inv!Start, riskVars
<1>3. CASE \E m \in Markets, s \in Inv!Sides, p \in Prices, q \in Quantities : ApplyFill(m, s, p, q)
  BY <1>0, <1>3, FillEntryInv
<1>4. ASSUME NEW m \in Markets, NEW mid \in Prices, MarketUpdate(m, mid)
      PROVE  EntryInv'
  BY <1>0, <1>4, OtherEntryInv DEF MarketUpdate, Risk!OnMarketUpdate, invVars
<1>5. CASE BookUpdate
  BY <1>0, <1>5, OtherEntryInv DEF BookUpdate, Risk!OnBookUpdate, Risk!pnlVars, invVars
<1>6. CASE RiskTask
  <2>1. CASE Risk!Check
    BY <1>0, <1>6, <2>1, OtherEntryInv DEF RiskTask, Risk!Check, invVars
  <2>2. CASE Risk!Tick
    BY <1>0, <1>6, <2>2, OtherEntryInv DEF RiskTask, Risk!Tick, Risk!pnlVars, invVars
  <2> QED
    BY <1>6, <2>1, <2>2 DEF RiskTask
<1>7. CASE UNCHANGED vars
  BY <1>0, <1>7, OtherEntryInv DEF vars, invVars, riskVars
<1> QED
  BY <1>1, <1>2, <1>3, <1>4, <1>5, <1>6, <1>7 DEF Next

\* The two volume-weighted entry prices of a market that was not seeded, the
\* mirror's (on_fill) and the one of the open leg (apply_fill), are the same
\* number, through any opens, partial closes and flips.
THEOREM EntryAlwaysAgrees == Spec => []EntryAgrees
<1>1. EntryInv => EntryAgrees
  <2> SUFFICES ASSUME EntryInv, NEW m \in Markets \ seeded
               PROVE  /\ mirror[m].net > 0 => Equals(mirror[m].avg, pos[m].avg["long"])
                      /\ mirror[m].net < 0 => Equals(mirror[m].avg, pos[m].avg["short"])
    BY DEF EntryAgrees
  <2>1. Entry(pos[m], mirror[m])
    BY DEF EntryInv
  <2>2. mirror[m].net = pos[m].net
    BY <2>1 DEF Entry
  <2> QED
    BY <2>1, <2>2 DEF Entry
<1> QED
  BY <1>1, InitEntryInv, NextEntryInv, PTL DEF Spec

=============================================================================
