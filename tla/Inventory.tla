----------------------------- MODULE Inventory -----------------------------
(***************************************************************************)
(* InventoryManager and FillProcessor (src/inventory/manager.py): the      *)
(* signed position of every market, the volume-weighted entry price of its *)
(* long and its short leg, realized PnL, and the collateral of each venue. *)
(*                                                                         *)
(* Quantities are whole lots and prices whole ticks, One of them to the    *)
(* dollar, so that money is counted in tick-lots; entry prices are exact   *)
(* fractions.  Markets have been registered; seeds come before any fill.   *)
(***************************************************************************)
EXTENDS Integers, Fractions

CONSTANTS
  Markets,
  Venues,
  VenueOf,     \* [Markets -> Venues]
  One,         \* The price of a dollar, in ticks.
  Prices,      \* Prices fills may have.
  Quantities,  \* Quantities fills may have.
  Holdings,    \* Signed positions reconciliation may report.
  Balances,    \* Start balance of every account.
  MaxFills     \* Bound on the fills and reservations of a behaviour; not in the code.

ASSUME VenueOfAssumption == VenueOf \in [Markets -> Venues]
ASSUME OneAssumption == One \in Nat \ {0}
ASSUME PricesAssumption == Prices \subseteq 0..One
ASSUME QuantitiesAssumption == Quantities \subseteq Nat \ {0}
ASSUME HoldingsAssumption == Holdings \subseteq Int
ASSUME BalancesAssumption == Balances \in [Venues -> Nat]
ASSUME MaxFillsAssumption == MaxFills \in Nat

VARIABLES
  pos,       \* _positions: net quantity, and quantity and entry price per leg.
  realized,  \* _realized_pnl
  locked,    \* CollateralAccount.locked
  total,     \* CollateralAccount.total_balance
  seeded,    \* Markets whose position came from reconciliation.
  running,   \* Setup is over.
  cash,      \* History: what the fills of a market were paid, entries of seeds included.
  count      \* History: fills and reservations so far.

vars == <<pos, realized, locked, total, seeded, running, cash, count>>

Sides == {"BUY", "SELL"}
Legs == {"long", "short"}
Leg(s) == IF s = "BUY" THEN "long" ELSE "short"
OtherLeg(s) == IF s = "BUY" THEN "short" ELSE "long"
Signed(s, q) == IF s = "BUY" THEN q ELSE -q
Least(a, b) == IF a <= b THEN a ELSE b
AtLeastZero(a) == IF a < 0 THEN 0 ELSE a

Flat == [net |-> 0, qty |-> [g \in Legs |-> 0], avg |-> [g \in Legs |-> Whole(0)]]

-----------------------------------------------------------------------------
(* FillProcessor.apply_fill.                                               *)

\* The fill opens a leg or adds to it.
Opens(po, s) == IF s = "BUY" THEN po.net >= 0 ELSE po.net <= 0

\* The entry price of quantity held at a after q more at price p.
Blend(a, held, p, q) == Over(Plus(Scale(held, a), Whole(p * q)), held + q)

\* What a closing fill takes off the other leg, and what is left of it to open.
Closing(po, s, q) == Least(q, po.qty[OtherLeg(s)])
Remainder(po, s, q) == q - Closing(po, s, q)

\* Mutant: the quantity beyond a flip is not opened.
ApplyFill_NoFlip(po, s, p, q) ==
  IF Opens(po, s)
  THEN [po EXCEPT !.net = @ + Signed(s, q),
                  !.qty[Leg(s)] = @ + q,
                  !.avg[Leg(s)] = Blend(@, po.qty[Leg(s)], p, q)]
  ELSE [po EXCEPT !.net = @ + Signed(s, Closing(po, s, q)),
                  !.qty[OtherLeg(s)] = @ - Closing(po, s, q)]

\* Mutant: the leg opened by a flip keeps the entry price it had last.
ApplyFill_OldEntry(po, s, p, q) ==
  IF Opens(po, s)
  THEN [po EXCEPT !.net = @ + Signed(s, q),
                  !.qty[Leg(s)] = @ + q,
                  !.avg[Leg(s)] = Blend(@, po.qty[Leg(s)], p, q)]
  ELSE [po EXCEPT !.net = @ + Signed(s, q),
                  !.qty[OtherLeg(s)] = @ - Closing(po, s, q),
                  !.qty[Leg(s)] = IF Remainder(po, s, q) > 0 THEN Remainder(po, s, q) ELSE @]

\* Mutant: a closing fill leaves the leg it closes as it was.
ApplyFill_LegKept(po, s, p, q) ==
  IF Opens(po, s)
  THEN [po EXCEPT !.net = @ + Signed(s, q),
                  !.qty[Leg(s)] = @ + q,
                  !.avg[Leg(s)] = Blend(@, po.qty[Leg(s)], p, q)]
  ELSE [po EXCEPT !.net = @ + Signed(s, q),
                  !.qty[Leg(s)] = IF Remainder(po, s, q) > 0 THEN Remainder(po, s, q) ELSE @,
                  !.avg[Leg(s)] = IF Remainder(po, s, q) > 0 THEN Whole(p) ELSE @]

\* net moves in two steps, first by what closes, then by the remainder.
ApplyFill(po, s, p, q) ==
  IF Opens(po, s)
  THEN [po EXCEPT !.net = @ + Signed(s, q),
                  !.qty[Leg(s)] = @ + q,
                  !.avg[Leg(s)] = Blend(@, po.qty[Leg(s)], p, q)]
  ELSE [po EXCEPT !.net = @ + Signed(s, Closing(po, s, q)) + Signed(s, Remainder(po, s, q)),
                  !.qty[OtherLeg(s)] = @ - Closing(po, s, q),
                  !.qty[Leg(s)] = IF Remainder(po, s, q) > 0 THEN Remainder(po, s, q) ELSE @,
                  !.avg[Leg(s)] = IF Remainder(po, s, q) > 0 THEN Whole(p) ELSE @]

\* What apply_fill returns: the gain over the entry price of what it closed.
Gain(po, s, p, q) ==
  IF Opens(po, s) THEN Whole(0)
  ELSE Scale(Closing(po, s, q),
             IF s = "BUY" THEN Minus(po.avg["short"], Whole(p))
                          ELSE Minus(Whole(p), po.avg["long"]))

\* main._apply_fill: price * size on a buy, (1 - price) * size on a sell.
CollateralUsed(s, p, q) == (IF s = "BUY" THEN p ELSE One - p) * q

-----------------------------------------------------------------------------
(* The operations.                                                         *)

Init ==
  /\ pos = [m \in Markets |-> Flat]
  /\ realized = [m \in Markets |-> Whole(0)]
  /\ locked = [v \in Venues |-> 0]
  /\ total = [v \in Venues |-> Whole(Balances[v])]
  /\ seeded = {}
  /\ running = FALSE
  /\ cash = [m \in Markets |-> 0]
  /\ count = 0

\* Only the leg of the sign of n is written.
Seeded(po, n, avg) ==
  LET g == IF n >= 0 THEN "long" ELSE "short"
  IN  [net |-> n,
       qty |-> [po.qty EXCEPT ![g] = IF n >= 0 THEN n ELSE -n],
       avg |-> [po.avg EXCEPT ![g] = Whole(avg)]]

\* seed_position: what reconciliation found, before the tasks start.
SeedPosition(m, n, avg) ==
  /\ ~running /\ m \notin seeded
  /\ pos' = [pos EXCEPT ![m] = Seeded(pos[m], n, avg)]
  /\ cash' = [cash EXCEPT ![m] = -(n * avg)]
  /\ seeded' = seeded \cup {m}
  /\ UNCHANGED <<realized, locked, total, running, count>>

\* _setup returns and run() starts the tasks.
Start ==
  /\ ~running
  /\ running' = TRUE
  /\ UNCHANGED <<pos, realized, locked, total, seeded, cash, count>>

\* Mutant: the release is not clamped at zero.
LockAfterFill_Unclamped(v, s, c) == IF s = "BUY" THEN locked[v] + c ELSE locked[v] - c

LockAfterFill(v, s, c) == IF s = "BUY" THEN locked[v] + c ELSE AtLeastZero(locked[v] - c)

\* on_fill.
OnFill(m, s, p, q) ==
  /\ running /\ count < MaxFills
  /\ pos' = [pos EXCEPT ![m] = ApplyFill(pos[m], s, p, q)]
  /\ realized' = [realized EXCEPT ![m] = Plus(@, Gain(pos[m], s, p, q))]
  /\ locked' = [locked EXCEPT ![VenueOf[m]] = LockAfterFill(VenueOf[m], s, CollateralUsed(s, p, q))]
  /\ cash' = [cash EXCEPT ![m] = @ - Signed(s, p * q)]
  /\ count' = count + 1
  /\ UNCHANGED <<total, seeded, running>>

\* What a settlement at price r pays over the entry prices.
Settlement(po, r) ==
  Plus(Scale(po.qty["long"], Minus(Whole(r), po.avg["long"])),
       Scale(po.qty["short"], Minus(po.avg["short"], Whole(r))))

Settled(po) == [net |-> 0, qty |-> [g \in Legs |-> 0], avg |-> po.avg]

\* on_resolution: the position goes, the entry prices stay.  The collateral it
\* releases is pos.collateral_locked, which nothing ever sets.  A flat market
\* settles to nothing.
OnResolution(m, r) ==
  /\ running
  /\ pos[m].net # 0
  /\ realized' = [realized EXCEPT ![m] = Plus(@, Settlement(pos[m], r))]
  /\ total' = [total EXCEPT ![VenueOf[m]] = Plus(@, Settlement(pos[m], r))]
  /\ pos' = [pos EXCEPT ![m] = Settled(pos[m])]
  /\ cash' = [cash EXCEPT ![m] = @ + pos[m].net * r]
  /\ UNCHANGED <<locked, seeded, running, count>>

\* on_order_placed reserves only what is free; on_order_cancelled gives it back.
Free(v) ==
  LET rest == Minus(total[v], Whole(locked[v]))
  IN  IF AtMost(Whole(0), rest) THEN rest ELSE Whole(0)

OnOrderPlaced(v, c) ==
  /\ running /\ count < MaxFills
  /\ AtMost(Whole(c), Free(v))
  /\ locked' = [locked EXCEPT ![v] = @ + c]
  /\ count' = count + 1
  /\ UNCHANGED <<pos, realized, total, seeded, running, cash>>

OnOrderCancelled(v, c) ==
  /\ running /\ count < MaxFills
  /\ locked' = [locked EXCEPT ![v] = AtLeastZero(@ - c)]
  /\ count' = count + 1
  /\ UNCHANGED <<pos, realized, total, seeded, running, cash>>

Reservations == {p * q : p \in Prices, q \in Quantities}

Next ==
  \/ \E m \in Markets, n \in Holdings, a \in Prices : SeedPosition(m, n, a)
  \/ Start
  \/ \E m \in Markets, s \in Sides, p \in Prices, q \in Quantities : OnFill(m, s, p, q)
  \/ \E m \in Markets, r \in {0, One} : OnResolution(m, r)
  \/ \E v \in Venues, c \in Reservations : OnOrderPlaced(v, c) \/ OnOrderCancelled(v, c)

Spec == Init /\ [][Next]_vars

-----------------------------------------------------------------------------
(* What should hold.                                                       *)

\* The shapes of the state.
PositionType == [net : Int, qty : [Legs -> Nat], avg : [Legs -> Fraction]]
TypeOK ==
  /\ pos \in [Markets -> PositionType]
  /\ realized \in [Markets -> Fraction]
  /\ locked \in [Venues -> Nat]
  /\ total \in [Venues -> Fraction]
  /\ seeded \subseteq Markets
  /\ running \in BOOLEAN
  /\ cash \in [Markets -> Int]
  /\ count \in 0..MaxFills

\* The three quantities of a position tell one story, through partial closes,
\* flips, seeds and settlements: net is long minus short, and never both legs
\* are open (FillProcessor picks its branch by the sign of net alone).
LegsAgree ==
  \A m \in Markets :
    /\ pos[m].net = pos[m].qty["long"] - pos[m].qty["short"]
    /\ pos[m].qty["long"] = 0 \/ pos[m].qty["short"] = 0

\* No money is made or lost by bookkeeping: realized PnL, less what the open
\* legs cost, is what the fills were paid, whatever the order of opens, partial
\* closes and flips.  Marked to any price, realized plus unrealized PnL is then
\* exact.
PnLConserved ==
  \A m \in Markets :
    LET cost == Minus(Scale(pos[m].qty["long"], pos[m].avg["long"]),
                      Scale(pos[m].qty["short"], pos[m].avg["short"]))
    IN  Equals(Minus(realized[m], cost), Whole(cash[m]))

\* However it splits a fill over the legs, the manager keeps the signed
\* position that SignedLedger promises, all of the quantity that was paid for.
Ledger == INSTANCE SignedLedger WITH position <- [m \in Markets |-> pos[m].net],
                                     money <- cash
LedgerKept == Ledger!Spec

=============================================================================
