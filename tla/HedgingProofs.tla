---------------------------- MODULE HedgingProofs ----------------------------
(***************************************************************************)
(* What holds of the hedge for any markets, prices, inventories and faults:*)
(* the shapes of the state, that an order on its way closes the gap it was *)
(* sent for, how many orders a kill lets through, and what the account     *)
(* holds at the exchange.                                                  *)
(***************************************************************************)
EXTENDS Hedging, OperatorProofs, FiniteSetTheorems

\* An order is awaited by the task that sent it, which is then nowhere else
\* and done with the market of the order.
Awaited ==
  /\ \A c \in calls : c.awaited => task.at = "hedging" /\ c.market \notin task.todo
  /\ \A c, d \in calls : c.awaited /\ d.awaited => c = d
  /\ task.at = "quoting" => task.market \notin task.todo

CloseInv == TypeOK /\ Awaited /\ HedgeCloses

\* Orders are in whole dollars.
LEMMA WorthInt ==
  ASSUME NEW c \in Orders
  PROVE  Worth(c) \in Int
PROOF
  <1>0. c.size \in Nat \ {0} /\ c.price \in Prices
        BY DEF Orders
  <1>1. c.price \in Nat \ {0}
        BY <1>0, PricesAssumption
  <1>2. c.size * c.price \in Int
        BY <1>0, <1>1
  <1> QED BY <1>2 DEF Worth

\* What compute_and_hedge asks for is an order, and leaves less than half a lot.
LEMMA OrderCloses ==
  ASSUME TypeOK, NEW m \in Markets, Hedges(m)
  PROVE  /\ Order(m) \in Orders
         /\ 2 * Abs(gross[m] + Worth(Order(m)) - Target(m)) <= price
PROOF
  <1> DEFINE n == Abs(Needed(m))
             k == Nearest(n, price)
  <1>1. price \in Prices /\ price \in Nat \ {0}
        BY PricesAssumption DEF TypeOK, Hedges, NoPrice
  <1>2. Target(m) \in Int /\ Needed(m) \in Int /\ gross[m] \in Int /\ n \in Nat
    <2>1. qty[m] \in Int /\ gross[m] \in Int /\ Weight \in Nat
          BY HedgeNumbers DEF TypeOK
    <2>2. Target(m) \in Int
          BY <2>1 DEF Target
    <2> QED BY <2>1, <2>2 DEF Needed, Abs
  <1>3. k \in Nat /\ 2 * (price * k - n) <= price /\ 2 * (n - price * k) <= price
        BY <1>1, <1>2, NearestWithin
  <1>4. Size(m) = k /\ k > 0
        BY DEF Size, Hedges
  <1> HIDE DEF n, k
  <1>5. Order(m) \in Orders
    BY <1>1, <1>2, <1>3, <1>4 DEF Order, Orders
  <1>6. price * k \in Int
        BY <1>1, <1>3
  <1>7. Worth(Order(m)) = IF Needed(m) > 0 THEN price * k ELSE -(price * k)
    <2>1. Order(m).side = (IF Needed(m) > 0 THEN "BUY" ELSE "SELL")
          /\ Order(m).size = k /\ Order(m).price = price
          BY <1>4 DEF Order
    <2>2. k * price = price * k
          BY <1>1, <1>3
    <2>3. CASE Needed(m) > 0
          BY <2>1, <2>2, <2>3 DEF Worth
    <2>4. CASE ~(Needed(m) > 0)
          BY <2>1, <2>2, <2>4 DEF Worth
    <2> QED BY <2>3, <2>4
  <1>8. n = IF Needed(m) > 0 THEN Needed(m) ELSE -Needed(m)
        BY <1>2 DEF n, Abs
  <1>9. 2 * Abs(gross[m] + Worth(Order(m)) - Target(m)) <= price
    <2> DEFINE w == price * k
    <2>1. w \in Int /\ Needed(m) = Target(m) - gross[m]
          BY <1>6 DEF Needed
    <2>2. Worth(Order(m)) = IF Needed(m) > 0 THEN w ELSE -w
          BY <1>7
    <2>3. 2 * (w - n) <= price /\ 2 * (n - w) <= price
          BY <1>3
    <2> HIDE DEF w
    <2> QED BY <1>1, <1>2, <1>8, <2>1, <2>2, <2>3 DEF Abs
  <1> QED BY <1>5, <1>9

TaskOK(t) ==
  /\ t.at \in {"idle", "quoting", "hedging"}
  /\ t.at # "idle" => t.todo \subseteq Markets
  /\ t.at = "quoting" => t.market \in Markets \ t.todo

\* Sending the order of a market keeps the invariant, if no other order is
\* awaited and the market is not to be done again.
LEMMA SendKeeps ==
  ASSUME TypeOK, NEW m \in Markets, Hedges(m),
         NEW todo \in SUBSET Markets, m \notin todo,
         NEW cs \in SUBSET Orders, \A c \in cs : ~c.awaited,
         gross'[m] = gross[m],
         Send(m, todo, cs)
  PROVE  /\ calls' \subseteq Orders /\ TaskOK(task') /\ late' \in Nat
         /\ Awaited' /\ HedgeCloses'
PROOF
  <1>1. /\ Order(m) \in Orders
        /\ 2 * Abs(gross[m] + Worth(Order(m)) - Target(m)) <= price
        BY OrderCloses
  <1>2. Order(m).market = m /\ Order(m).target = Target(m) /\ Order(m).price = price
        BY DEF Order
  <1>3. calls' = cs \cup {Order(m)} /\ task'.at = "hedging" /\ task'.todo = todo
        BY DEF Send, InHedge
  <1>4. late' \in Nat
        BY DEF Send, TypeOK
  <1>5. \A c \in calls' : c.awaited => c = Order(m)
        BY <1>3
  <1>6. Awaited'
        BY <1>2, <1>3, <1>5 DEF Awaited
  <1>7. HedgeCloses'
        BY <1>1, <1>2, <1>5 DEF HedgeCloses
  <1>8. TaskOK(task')
        BY <1>3 DEF TaskOK
  <1> QED BY <1>1, <1>3, <1>4, <1>6, <1>7, <1>8

\* So does going on to the markets still to do.
LEMMA GoOnKeeps ==
  ASSUME TypeOK,
         NEW todo \in SUBSET Markets,
         NEW cs \in SUBSET Orders, \A c \in cs : ~c.awaited,
         \A m \in todo : gross'[m] = gross[m],
         GoOn(todo, cs)
  PROVE  /\ calls' \subseteq Orders /\ TaskOK(task') /\ late' \in Nat
         /\ Awaited' /\ HedgeCloses'
PROOF
  <1>1. CASE task' = Idle /\ calls' = cs /\ UNCHANGED late
        BY <1>1 DEF Awaited, HedgeCloses, TaskOK, Idle, TypeOK
  <1>2. ASSUME NEW m \in todo, task' = InQuotes(m, todo \ {m}), calls' = cs, UNCHANGED late
        PROVE  /\ calls' \subseteq Orders /\ TaskOK(task') /\ late' \in Nat
               /\ Awaited' /\ HedgeCloses'
        BY <1>2 DEF Awaited, HedgeCloses, TaskOK, InQuotes, TypeOK
  <1>3. ASSUME NEW m \in todo, Hedges(m), Send(m, todo \ {m}, cs)
        PROVE  /\ calls' \subseteq Orders /\ TaskOK(task') /\ late' \in Nat
               /\ Awaited' /\ HedgeCloses'
        BY <1>3, SendKeeps
  <1> QED BY <1>1, <1>2, <1>3 DEF GoOn

\* What an action leaves alone when it touches neither orders nor hedges nor the
\* place of the strategy task.
LEMMA OrdersUntouched ==
  ASSUME CloseInv, UNCHANGED <<gross, task, calls>>
  PROVE  Awaited' /\ HedgeCloses'
BY DEF CloseInv, Awaited, HedgeCloses

\* It holds at the start: nothing was sent, nothing is hedged.
LEMMA CloseInvInit == Init => CloseInv
PROOF
  <1> SUFFICES ASSUME Init PROVE CloseInv
      OBVIOUS
  <1>1. TypeOK
    <2>1. qty \in [Markets -> Int] /\ gross \in [Markets -> Int] /\ off \in [Markets -> Int]
      <3>1. qty \in [Markets -> Quantities] /\ gross = [m \in Markets |-> 0]
            /\ off = [m \in Markets |-> 0]
            BY DEF Init
      <3>2. \A q \in Quantities : q \in Int
            BY QuantitiesAssumption
      <3> QED BY <3>1, <3>2
    <2>2. price \in Prices \cup {NoPrice} /\ samples \in 0..MinSamples
          BY HedgeNumbers DEF Init
    <2>3. task.at = "idle" /\ calls \subseteq Orders
          BY DEF Init, Idle
    <2>4. perp \in Int /\ {late, moves, hitches} \subseteq Nat
          BY DEF Init
    <2>5. {killed, up, moved} \subseteq BOOLEAN /\ feed \in {"starting", "polling"}
          BY Zenon DEF Init
    <2> QED BY <2>1, <2>2, <2>3, <2>4, <2>5 DEF TypeOK
  <1>2. Awaited /\ HedgeCloses
        BY DEF Init, Awaited, HedgeCloses, Idle
  <1> QED BY <1>1, <1>2 DEF CloseInv

\* Every step of the task, the feed and the exchange keeps it.
LEMMA CloseInvStep == CloseInv /\ [Next]_vars => CloseInv'
PROOF
  <1> SUFFICES ASSUME CloseInv, [Next]_vars PROVE CloseInv'
      OBVIOUS
  <1>0. TypeOK /\ Awaited /\ HedgeCloses
        BY DEF CloseInv
  <1>1. ASSUME NEW m \in Markets \ Event, Update(m) PROVE CloseInv'
    <2>1. TypeOK'
          BY <1>0, <1>1 DEF TypeOK, Update, InQuotes, outside, poller
    <2>2. Awaited' /\ HedgeCloses'
          BY <1>0, <1>1 DEF Update, CanStart, InQuotes, Idle, Awaited, HedgeCloses
    <2> QED BY <2>1, <2>2 DEF CloseInv
  <1>2. ASSUME UpdateEvent PROVE CloseInv'
    <2>1. PICK m \in Event : task' = InQuotes(m, Event \ {m})
          BY <1>2 DEF UpdateEvent
    <2>2. TypeOK'
          BY <1>0, <1>2, <2>1, HedgedMarkets DEF TypeOK, UpdateEvent, InQuotes, outside, poller
    <2>3. Awaited' /\ HedgeCloses'
          BY <1>0, <1>2, <2>1 DEF UpdateEvent, CanStart, InQuotes, Idle, Awaited, HedgeCloses
    <2> QED BY <2>2, <2>3 DEF CloseInv
  <1>3. ASSUME QuotesReturn PROVE CloseInv'
    <2>1. /\ task.market \in Markets /\ task.todo \in SUBSET Markets
          /\ task.market \notin task.todo
          /\ calls \in SUBSET Orders /\ \A c \in calls : ~c.awaited
          /\ \A m \in Markets : gross'[m] = gross[m]
          BY <1>0, <1>3 DEF QuotesReturn, TypeOK, Awaited
    <2>2. /\ calls' \subseteq Orders /\ TaskOK(task') /\ late' \in Nat
          /\ Awaited' /\ HedgeCloses'
      <3>1. CASE Hedges(task.market) /\ Send(task.market, task.todo, calls)
            BY <1>0, <2>1, <3>1, SendKeeps
      <3>2. CASE ~Hedges(task.market) /\ GoOn(task.todo, calls)
            BY <1>0, <2>1, <3>2, GoOnKeeps
      <3> QED BY <1>3, <3>1, <3>2 DEF QuotesReturn
    <2>3. TypeOK'
          BY <1>0, <1>3, <2>2 DEF TypeOK, TaskOK, QuotesReturn, outside, poller
    <2> QED BY <2>2, <2>3 DEF CloseInv
  <1>4. ASSUME NEW c \in calls, HedgeReturns(c) PROVE CloseInv'
    <2>1. c \in Orders /\ c.market \in Markets /\ Worth(c) \in Int
          BY <1>0, WorthInt DEF TypeOK, Orders
    <2>2. /\ task.todo \in SUBSET Markets /\ c.market \notin task.todo
          /\ calls \ {c} \in SUBSET Orders /\ \A d \in calls \ {c} : ~d.awaited
          BY <1>0, <1>4 DEF HedgeReturns, TypeOK, Awaited
    <2>3. gross' \in [Markets -> Int] /\ \A m \in task.todo : gross'[m] = gross[m]
          BY <1>0, <1>4, <2>1, <2>2 DEF HedgeReturns, Booked, TypeOK
    <2>4. /\ calls' \subseteq Orders /\ TaskOK(task') /\ late' \in Nat
          /\ Awaited' /\ HedgeCloses'
          BY <1>0, <1>4, <2>2, <2>3, GoOnKeeps DEF HedgeReturns
    <2>5. TypeOK'
          BY <1>0, <1>4, <2>3, <2>4 DEF TypeOK, TaskOK, HedgeReturns, outside, poller
    <2> QED BY <2>4, <2>5 DEF CloseInv
  <1>5. ASSUME NEW c \in calls, HedgeTimesOut(c) PROVE CloseInv'
    <2> DEFINE cs == (calls \ {c}) \cup (IF c.reply = "none" THEN {[c EXCEPT !.awaited = FALSE]}
                                                             ELSE {})
    <2>1. c \in Orders /\ c.market \in Markets /\ Worth(c) \in Int
          BY <1>0, WorthInt DEF TypeOK, Orders
    <2>2. /\ task.todo \in SUBSET Markets
          /\ cs \in SUBSET Orders /\ \A d \in cs : ~d.awaited
          BY <1>0, <1>5, <2>1 DEF HedgeTimesOut, TypeOK, Awaited, Orders
    <2>3. /\ calls' \subseteq Orders /\ TaskOK(task') /\ late' \in Nat
          /\ Awaited' /\ HedgeCloses'
      <3>1. GoOn(task.todo, cs) /\ \A m \in task.todo : gross'[m] = gross[m]
            BY <1>5 DEF HedgeTimesOut
      <3> HIDE DEF cs
      <3> QED BY <1>0, <2>2, <3>1, GoOnKeeps
    <2>4. off' \in [Markets -> Int] /\ hitches' \in Nat
          BY <1>0, <1>5, <2>1 DEF HedgeTimesOut, Hitch, TypeOK
    <2>5. TypeOK'
          BY <1>0, <1>5, <2>3, <2>4 DEF TypeOK, TaskOK, HedgeTimesOut, outside, poller
    <2> QED BY <2>3, <2>5 DEF CloseInv
  <1>6. ASSUME NEW c \in calls, HedgeThrows(c) PROVE CloseInv'
    <2>0. hitches' \in Nat /\ up' \in BOOLEAN
      <3>1. hitches' \in Nat
            BY <1>0, <1>6 DEF TypeOK, HedgeThrows, Hitch
      <3>2. up' \in BOOLEAN
            BY <1>0, <1>6, Zenon DEF TypeOK, HedgeThrows
      <3> QED BY <3>1, <3>2
    <2>1. TypeOK'
          BY <1>0, <1>6, <2>0 DEF TypeOK, HedgeThrows, outside, poller
    <2> QED BY <1>6, <2>1, OrdersUntouched DEF CloseInv, HedgeThrows
  <1>7. ASSUME FetchMeta PROVE CloseInv'
    <2>0. hitches' \in Nat /\ up' \in BOOLEAN
      <3>1. hitches' \in Nat
        <4>1. UNCHANGED hitches \/ Hitch
              BY <1>7 DEF FetchMeta
        <4> QED BY <1>0, <4>1 DEF TypeOK, Hitch
      <3>2. up' \in BOOLEAN
            BY <1>0, <1>7, Zenon DEF TypeOK, FetchMeta
      <3> QED BY <3>1, <3>2
    <2>1. TypeOK'
          BY <1>0, <1>7, <2>0 DEF TypeOK, FetchMeta, outside, poller
    <2> QED BY <1>7, <2>1, OrdersUntouched DEF CloseInv, FetchMeta
  <1>8. ASSUME NEW p \in Prices, Poll(p) PROVE CloseInv'
    <2>1. price' \in Prices /\ moved' \in BOOLEAN
          BY <1>0, <1>8 DEF Poll, TypeOK
    <2>2. samples' \in 0..MinSamples /\ hitches' \in Nat /\ moves' \in Nat
      <3>1. samples' \in 0..MinSamples /\ hitches' \in Nat
            BY <1>0, <1>8, HedgeNumbers DEF Poll, TypeOK, Hitch
      <3>2. moves' \in Nat
            BY <1>0, <1>8 DEF Poll, TypeOK
      <3> QED BY <3>1, <3>2
    <2>3. TypeOK'
          BY <1>0, <1>8, <2>1, <2>2 DEF TypeOK, Poll
    <2> QED BY <1>8, <2>3, OrdersUntouched DEF CloseInv, Poll
  <1>9. ASSUME NEW m \in Markets, NEW q \in Quantities, Fill(m, q) PROVE CloseInv'
    <2>1. TypeOK'
          BY <1>0, <1>9, QuantitiesAssumption DEF TypeOK, Fill, poller
    <2> QED BY <1>9, <2>1, OrdersUntouched DEF CloseInv, Fill
  <1>10. ASSUME Kill PROVE CloseInv'
    <2>1. TypeOK'
          BY <1>0, <1>10 DEF TypeOK, Kill, outside, poller
    <2> QED BY <1>10, <2>1, OrdersUntouched DEF CloseInv, Kill
  <1>11. ASSUME NEW c \in calls, NEW lots \in Nat, NEW reply \in {"ok", "error"},
                Executes(c, lots, reply), hitches' \in Nat
         PROVE  CloseInv'
    <2>1. c \in Orders /\ c.market \in Markets /\ Worth(c) \in Int
          BY <1>0, WorthInt DEF TypeOK, Orders
    <2>2. [c EXCEPT !.size = lots].size = lots /\ [c EXCEPT !.size = lots].price = c.price
          /\ [c EXCEPT !.size = lots].side = c.side /\ c.price \in Int
          BY <2>1, PricesAssumption DEF Orders
    <2>3. lots * c.price \in Int
          BY <2>2
    <2>4. Worth([c EXCEPT !.size = lots]) \in Int
          BY <2>2, <2>3 DEF Worth
    <2>5. off' \in [Markets -> Int] /\ perp' \in Int
      <3> DEFINE booked == IF c.awaited /\ reply = "ok" THEN Worth(c) ELSE 0
      <3>1. booked \in Int
            BY <2>1
      <3> HIDE DEF booked
      <3>2. off' = [off EXCEPT ![c.market] = @ + booked - Worth([c EXCEPT !.size = lots])]
            BY <1>11 DEF Executes, booked
      <3>3. off' \in [Markets -> Int]
            BY <1>0, <2>1, <2>4, <3>1, <3>2 DEF TypeOK
      <3>4. perp' \in Int
            BY <1>0, <1>11 DEF Executes, TypeOK
      <3> QED BY <3>3, <3>4
    <2>6. calls' = (calls \ {c}) \cup (IF c.awaited THEN {[c EXCEPT !.reply = reply]} ELSE {})
          /\ UNCHANGED <<gross, task>>
          BY <1>11 DEF Executes
    <2>7. calls' \subseteq Orders
          BY <1>0, <2>1, <2>6 DEF TypeOK, Orders
    <2>8. TypeOK'
          BY <1>0, <1>11, <2>5, <2>7 DEF TypeOK, Executes, outside, poller
    <2> DEFINE answered == [c EXCEPT !.reply = reply]
    <2>9. /\ answered.market = c.market /\ answered.target = c.target
          /\ answered.price = c.price /\ answered.awaited = c.awaited
          /\ Worth(answered) = Worth(c)
      <3>1. /\ answered.market = c.market /\ answered.target = c.target
            /\ answered.price = c.price /\ answered.awaited = c.awaited
            /\ answered.side = c.side /\ answered.size = c.size
            BY <2>1 DEF Orders
      <3> QED BY <3>1 DEF Worth
    <2>10. \A d \in calls' : (d \in calls /\ d # c) \/ (c.awaited /\ d = answered)
           BY <2>6
    <2> HIDE DEF answered
    <2>11. HedgeCloses'
      <3>1. SUFFICES ASSUME NEW d \in calls', d.awaited
                     PROVE  2 * Abs(gross[d.market] + Worth(d) - d.target) <= d.price
            BY <2>6 DEF HedgeCloses
      <3>2. CASE d \in calls
            BY <1>0, <3>1, <3>2 DEF HedgeCloses
      <3>3. CASE c.awaited /\ d = answered
            BY <1>0, <2>9, <3>3 DEF HedgeCloses
      <3> QED BY <2>10, <3>2, <3>3
    <2>12. Awaited'
      <3>1. ASSUME NEW d \in calls', d.awaited
            PROVE  task.at = "hedging" /\ d.market \notin task.todo
        <4>1. CASE d \in calls
              BY <1>0, <3>1, <4>1 DEF Awaited
        <4>2. CASE c.awaited /\ d = answered
              BY <1>0, <2>9, <4>2 DEF Awaited
        <4> QED BY <2>10, <4>1, <4>2
      <3>2. ASSUME NEW d \in calls', NEW e \in calls', d.awaited, e.awaited
            PROVE  d = e
        <4>1. CASE c.awaited
          <5>1. d = answered /\ e = answered
                BY <1>0, <2>10, <3>2, <4>1 DEF Awaited
          <5> QED BY <5>1
        <4>2. CASE ~c.awaited
          <5>1. d \in calls /\ e \in calls
                BY <2>10, <4>2
          <5> QED BY <1>0, <3>2, <5>1 DEF Awaited
        <4> QED BY <4>1, <4>2
      <3>3. task.at = "quoting" => task.market \notin task.todo
            BY <1>0 DEF Awaited
      <3> QED BY <2>6, <3>1, <3>2, <3>3 DEF Awaited
    <2> QED BY <2>8, <2>11, <2>12 DEF CloseInv
  <1>12. ASSUME VenueAnswers PROVE CloseInv'
    <2>1. PICK c \in calls : VenueTakes(c) \/ VenueFindsNothing(c) \/ VenueRefuses(c)
          BY <1>12 DEF VenueAnswers
    <2>2. Taken(c) \in Nat
          BY <1>0 DEF TypeOK, Orders, Taken, Reducible
    <2>3. hitches' \in Nat
          BY <1>0, <2>1 DEF VenueTakes, VenueFindsNothing, VenueRefuses, Hitch, TypeOK
    <2> QED BY <1>11, <2>1, <2>2, <2>3 DEF VenueTakes, VenueFindsNothing, VenueRefuses
  <1>13. CASE UNCHANGED vars
    <2>1. TypeOK'
          BY <1>0, <1>13 DEF TypeOK, vars, outside, poller
    <2> QED BY <1>13, <2>1, OrdersUntouched DEF CloseInv, vars
  <1> QED BY <1>1, <1>2, <1>3, <1>4, <1>5, <1>6, <1>7, <1>8, <1>9, <1>10, <1>12, <1>13
          DEF Next, Returns

\* Every state has its shape, and no order of nothing is ever sent.
THEOREM TypeCorrect == Spec => []TypeOK
PROOF
  <1>1. CloseInv => TypeOK
        BY DEF CloseInv
  <1> QED BY <1>1, CloseInvInit, CloseInvStep, PTL DEF Spec

\* Whatever inventory and price do while an order is on its way, booking it
\* closes the gap it was sent for to half a lot.
THEOREM HedgeAlwaysCloses == Spec => []HedgeCloses
PROOF
  <1>1. CloseInv => HedgeCloses
        BY DEF CloseInv
  <1> QED BY <1>1, CloseInvInit, CloseInvStep, PTL DEF Spec

-----------------------------------------------------------------------------
\* The orders the pass under way may still send.
Left(t) == IF t.at = "idle" THEN 0
           ELSE IF t.at = "quoting" THEN Cardinality(t.todo) + 1 ELSE Cardinality(t.todo)

Few(n) == n <= 1 \/ n <= Cardinality(Event)

KillInv == (~killed => late = 0) /\ Few(late + Left(task))

\* The outcomes still to do can be counted, and one less are left after each.
LEMMA TodoFinite ==
  ASSUME NEW todo \in SUBSET Markets
  PROVE  /\ IsFiniteSet(todo) /\ Cardinality(todo) \in Nat
         /\ \A m \in todo : Cardinality(todo \ {m}) = Cardinality(todo) - 1
PROOF
  <1>1. IsFiniteSet(todo)
        BY HedgedMarkets, FS_Subset
  <1> QED BY <1>1, FS_CardinalityType, FS_RemoveElement

\* The counts of FewHedgesAfterKill are natural numbers.
LEMMA LeftType ==
  ASSUME TypeOK
  PROVE  Left(task) \in Nat /\ late \in Nat /\ Cardinality(Event) \in Nat
PROOF
  <1>1. task.at # "idle" => Cardinality(task.todo) \in Nat
        BY TodoFinite DEF TypeOK
  <1>2. Cardinality(Event) \in Nat
        BY HedgedMarkets, TodoFinite
  <1> QED BY <1>1, <1>2 DEF TypeOK, Left

\* Sending uses up one of the orders left.
LEMMA SendCounts ==
  ASSUME TypeOK, KillInv, NEW todo \in SUBSET Markets, NEW m, NEW cs,
         Left(task) >= Cardinality(todo) + 1 \/ (~killed /\ Left(task) >= Cardinality(todo)),
         UNCHANGED killed,
         Send(m, todo, cs)
  PROVE  KillInv'
PROOF
  <1> DEFINE k == Cardinality(todo)
             e == Cardinality(Event)
             l == Left(task)
  <1>1. k \in Nat /\ l \in Nat /\ late \in Nat /\ e \in Nat
        BY TodoFinite, LeftType
  <1>2. Left(task)' = k
        BY DEF Send, InHedge, Left
  <1>3. Few(late + l) /\ (~killed => late = 0)
        BY DEF KillInv
  <1>4. CASE killed
    <2>1. late' = late + 1 /\ l >= k + 1
          BY <1>4 DEF Send
    <2> HIDE DEF k, l, e
    <2>2. (late + 1) + k <= late + l
          BY <1>1, <2>1
    <2>3. Few((late + 1) + k)
          BY <1>1, <1>3, <2>2 DEF Few, e
    <2> QED BY <1>2, <1>4, <2>1, <2>3 DEF KillInv, Few
  <1>5. CASE ~killed
    <2>1. late' = 0 /\ late = 0 /\ l >= k
          BY <1>1, <1>3, <1>5 DEF Send
    <2> HIDE DEF k, l, e
    <2>2. Few(0 + k)
          BY <1>1, <1>3, <2>1 DEF Few, e
    <2> QED BY <1>2, <1>5, <2>1, <2>2 DEF KillInv, Few
  <1> QED BY <1>4, <1>5

\* Fewer orders left keep the count in bounds.
LEMMA LessLeft ==
  ASSUME TypeOK, KillInv, UNCHANGED <<killed, late>>,
         Left(task)' \in Nat, Left(task)' <= Left(task)
  PROVE  KillInv'
PROOF
  <1>1. Left(task) \in Nat /\ late \in Nat /\ Cardinality(Event) \in Nat
        BY LeftType
  <1> DEFINE e == Cardinality(Event)
             l == Left(task)
             k == Left(task)'
  <1>2. Few(late + l)
        BY DEF KillInv
  <1>3. k \in Nat /\ k <= l
        OBVIOUS
  <1>4. l \in Nat /\ e \in Nat
        BY <1>1
  <1> HIDE DEF e, l, k
  <1>5. late + k <= late + l
        BY <1>1, <1>3, <1>4
  <1>6. Few(late + k)
        BY <1>1, <1>2, <1>3, <1>4, <1>5 DEF Few, e
  <1>7. (~killed)' => late' = 0
        BY DEF KillInv
  <1> QED BY <1>6, <1>7 DEF KillInv, Few, k

\* Going on to the next outcome leaves no more orders than before.
LEMMA GoOnCounts ==
  ASSUME TypeOK, KillInv, UNCHANGED killed,
         NEW todo \in SUBSET Markets, NEW cs,
         Left(task) >= Cardinality(todo),
         GoOn(todo, cs)
  PROVE  KillInv'
PROOF
  <1>1. Left(task) \in Nat /\ Cardinality(todo) \in Nat
        BY LeftType, TodoFinite
  <1>2. CASE task' = Idle /\ UNCHANGED late
    <2>1. Left(task)' = 0
          BY <1>2 DEF Left, Idle
    <2> QED BY <1>1, <1>2, <2>1, LessLeft
  <1>3. ASSUME NEW m \in todo, task' = InQuotes(m, todo \ {m}), UNCHANGED late
        PROVE  KillInv'
    <2>1. Left(task)' = Cardinality(todo \ {m}) + 1
          BY <1>3 DEF Left, InQuotes
    <2>2. Cardinality(todo \ {m}) + 1 = Cardinality(todo)
          BY <1>1, TodoFinite
    <2> QED BY <1>1, <1>3, <2>1, <2>2, LessLeft
  <1>4. ASSUME NEW m \in todo, killed, Send(m, todo \ {m}, cs)
        PROVE  KillInv'
    <2>1. Cardinality(todo \ {m}) + 1 = Cardinality(todo)
          BY <1>1, TodoFinite
    <2> QED BY <1>4, <2>1, SendCounts
  <1> QED BY <1>2, <1>3, <1>4 DEF GoOn

\* No step sends more than is left, and no pass begins after a kill.
LEMMA KillInvStep == CloseInv /\ CloseInv' /\ KillInv /\ [Next]_vars => KillInv'
PROOF
  <1> SUFFICES ASSUME CloseInv, CloseInv', KillInv, [Next]_vars PROVE KillInv'
      OBVIOUS
  <1>0. TypeOK /\ TypeOK' /\ Awaited
        BY DEF CloseInv
  <1>1. ASSUME NEW m \in Markets \ Event, Update(m) PROVE KillInv'
    <2>1. Left(task)' = 1
          BY <1>1, FS_EmptySet DEF Update, InQuotes, Left
    <2>2. late' = 0
          BY <1>1 DEF Update, CanStart, KillInv
    <2> QED BY <2>1, <2>2 DEF KillInv, Few
  <1>2. ASSUME UpdateEvent PROVE KillInv'
    <2>1. PICK m \in Event : task' = InQuotes(m, Event \ {m})
          BY <1>2 DEF UpdateEvent
    <2>2. Event \in SUBSET Markets
          BY HedgedMarkets
    <2>3. Cardinality(Event) \in Nat /\ Cardinality(Event \ {m}) = Cardinality(Event) - 1
          BY <2>2, TodoFinite
    <2>4. Left(task)' = Cardinality(Event)
          BY <2>1, <2>3 DEF InQuotes, Left
    <2>5. late' = 0
          BY <1>2 DEF UpdateEvent, CanStart, KillInv
    <2> QED BY <2>3, <2>4, <2>5 DEF KillInv, Few
  <1>3. ASSUME QuotesReturn PROVE KillInv'
    <2>1. task.todo \in SUBSET Markets /\ UNCHANGED killed
          BY <1>0, <1>3 DEF QuotesReturn, TypeOK
    <2>2. Left(task) = Cardinality(task.todo) + 1 /\ Cardinality(task.todo) \in Nat
          BY <1>3, <2>1, TodoFinite DEF QuotesReturn, Left
    <2>3. Left(task) >= Cardinality(task.todo)
          BY <2>2
    <2>4. CASE Send(task.market, task.todo, calls)
          BY <1>0, <2>1, <2>2, <2>4, SendCounts
    <2>5. CASE GoOn(task.todo, calls)
          BY <1>0, <2>1, <2>3, <2>5, GoOnCounts
    <2> QED BY <1>3, <2>4, <2>5 DEF QuotesReturn
  <1>4. ASSUME task.at = "hedging", UNCHANGED killed, NEW cs, GoOn(task.todo, cs)
        PROVE  KillInv'
    <2>1. task.todo \in SUBSET Markets
          BY <1>0, <1>4 DEF TypeOK
    <2>2. Left(task) >= Cardinality(task.todo)
          BY <1>4, <2>1, TodoFinite DEF Left
    <2> QED BY <1>0, <1>4, <2>1, <2>2, GoOnCounts
  <1>5. ASSUME UNCHANGED <<killed, late, task>> PROVE KillInv'
        BY <1>0, <1>5, LeftType, LessLeft
  <1>6. ASSUME Kill PROVE KillInv'
        BY <1>6 DEF Kill, KillInv, Few, Left
  <1>7. CASE UNCHANGED vars
        BY <1>5, <1>7 DEF vars
  <1>8. ASSUME NEW c \in calls, HedgeReturns(c) \/ HedgeTimesOut(c) PROVE KillInv'
    <2>1. task.at = "hedging" /\ UNCHANGED killed
          BY <1>0, <1>8 DEF HedgeReturns, HedgeTimesOut, Awaited
    <2>2. \E cs : GoOn(task.todo, cs)
          BY <1>8 DEF HedgeReturns, HedgeTimesOut
    <2> QED BY <1>4, <2>1, <2>2
  <1>9. ASSUME NEW c \in calls, HedgeThrows(c) PROVE KillInv'
        BY <1>5, <1>9 DEF HedgeThrows
  <1>10. ASSUME FetchMeta PROVE KillInv'
        BY <1>5, <1>10 DEF FetchMeta
  <1>11. ASSUME NEW p \in Prices, Poll(p) PROVE KillInv'
        BY <1>5, <1>11 DEF Poll
  <1>12. ASSUME NEW m \in Markets, NEW q \in Quantities, Fill(m, q) PROVE KillInv'
        BY <1>5, <1>12 DEF Fill
  <1>13. ASSUME VenueAnswers PROVE KillInv'
        BY <1>5, <1>13 DEF VenueAnswers, VenueTakes, VenueFindsNothing, VenueRefuses, Executes
  <1> QED BY <1>1, <1>2, <1>3, <1>6, <1>7, <1>8, <1>9, <1>10, <1>11, <1>12, <1>13
          DEF Next, Returns

\* However many markets and outcomes there are: after a kill each outcome of the
\* event under way is hedged once at most, or the market on its own.
THEOREM KillAlwaysStopsHedges == Spec => []FewHedgesAfterKill
PROOF
  <1>1. Init => KillInv
        BY DEF Init, KillInv, Few, Left, Idle
  <1>2. CloseInv /\ KillInv => FewHedgesAfterKill
    <2>1. SUFFICES ASSUME TypeOK, KillInv PROVE FewHedgesAfterKill
          BY DEF CloseInv
    <2> DEFINE e == Cardinality(Event)
               l == Left(task)
    <2>2. l \in Nat /\ late \in Nat /\ e \in Nat
          BY <2>1, LeftType
    <2>3. late + l <= 1 \/ late + l <= e
          BY <2>1 DEF KillInv, Few
    <2> HIDE DEF e, l
    <2>4. late <= 1 \/ late <= e
          BY <2>2, <2>3
    <2> QED BY <2>4 DEF FewHedgesAfterKill, e
  <1> QED BY <1>1, <1>2, KillInvStep, CloseInvInit, CloseInvStep, PTL DEF Spec

-----------------------------------------------------------------------------
\* The orders whose answer is there and not read, and what they are worth.
Answered(cs) == {c \in cs : c.awaited /\ c.reply = "ok"}
Claims(cs) == SumFunction([c \in Answered(cs) |-> Worth(c)])

Total(f) == SumFunctionOnSet(f, Markets)

\* PerpKnown without its guard, for the price the orders under way were sent at:
\* before there is a price there is no order, and nothing to convert.
PerpInv ==
  ~moved =>
    /\ price = NoPrice => perp = 0
    /\ \A c \in calls : c.price = price
    /\ perp * price + Total(off) = Total(gross) + Claims(calls)

\* Nothing answered, nothing claimed.
LEMMA NoClaims ==
  ASSUME NEW cs, Answered(cs) = {}
  PROVE  Claims(cs) = 0
PROOF
  <1> DEFINE f == [c \in Answered(cs) |-> Worth(c)]
  <1>1. DOMAIN f = {} /\ IsFiniteSet({})
        BY FS_EmptySet
  <1>2. \A x \in {} : f[x] = 0
        OBVIOUS
  <1> HIDE DEF f
  <1>3. SumFunctionOnSet(f, {}) = 0
        BY <1>1, <1>2, SumZero
  <1>4. SumFunction(f) = 0
        BY <1>1, <1>3 DEF SumFunction
  <1> QED BY <1>4 DEF Claims, f

\* One answer is claimed at what its order is worth.
LEMMA OneClaim ==
  ASSUME NEW cs, NEW c \in Orders, Answered(cs) = {c}
  PROVE  Claims(cs) = Worth(c)
PROOF
  <1> DEFINE f == [d \in Answered(cs) |-> Worth(d)]
  <1>1. DOMAIN f = {c} /\ f[c] = Worth(c) /\ IsFiniteSet({c}) /\ IsFiniteSet({})
        BY FS_Singleton, FS_EmptySet
  <1>2. Worth(c) \in Int
        BY WorthInt
  <1> HIDE DEF f
  <1>3. SumFunctionOnSet(f, {c}) = f[c] + SumFunctionOnSet(f, {c} \ {c})
    <2>1. \A x \in {c} : f[x] \in Int
          BY <1>1, <1>2
    <2> QED BY <1>1, <2>1, SumTake
  <1>4. SumFunctionOnSet(f, {c} \ {c}) = 0
    <2>1. {c} \ {c} = {} /\ \A x \in {} : f[x] = 0
          OBVIOUS
    <2> QED BY <1>1, <2>1, SumZero
  <1>5. SumFunction(f) = Worth(c)
        BY <1>1, <1>2, <1>3, <1>4 DEF SumFunction
  <1> QED BY <1>5 DEF Claims, f

\* Only what is answered counts.
LEMMA SameClaims ==
  ASSUME NEW cs, NEW ds, Answered(cs) = Answered(ds)
  PROVE  Claims(cs) = Claims(ds)
BY DEF Claims

\* At most one order is awaited, so that there is at most one claim.
LEMMA ClaimsType ==
  ASSUME CloseInv
  PROVE  Claims(calls) \in Int
PROOF
  <1>1. CASE Answered(calls) = {}
        BY <1>1, NoClaims
  <1>2. ASSUME NEW c \in Answered(calls) PROVE Claims(calls) \in Int
    <2>1. c \in calls /\ c \in Orders /\ c.awaited
          BY <1>2 DEF Answered, CloseInv, TypeOK
    <2>2. Answered(calls) = {c}
          BY <1>2, <2>1 DEF Answered, CloseInv, Awaited
    <2> QED BY <2>1, <2>2, OneClaim, WorthInt
  <1> QED BY <1>1, <1>2

\* Sums over the markets are whole dollars.
LEMMA TotalType ==
  ASSUME NEW f \in [Markets -> Int]
  PROVE  Total(f) \in Int
PROOF
  <1>1. \A m \in Markets : f[m] \in Int
        OBVIOUS
  <1> QED BY <1>1, HedgedMarkets, SumType DEF Total

\* What is booked to one market is booked to all of them together.
LEMMA TotalChange ==
  ASSUME NEW f \in [Markets -> Int], NEW m \in Markets, NEW d \in Int
  PROVE  Total([f EXCEPT ![m] = @ + d]) = Total(f) + d
PROOF
  <1> DEFINE g == [f EXCEPT ![m] = @ + d]
  <1>1. f[m] \in Int /\ g[m] = f[m] + d
        OBVIOUS
  <1>2. WholeOn(f, Markets) /\ WholeOn(g, Markets) /\ AgreeBut(f, g, Markets, m)
        BY DEF WholeOn, AgreeBut
  <1> HIDE DEF g
  <1>3. Total(g) = Total(f) - f[m] + g[m]
        BY <1>2, HedgedMarkets, SumChange DEF Total
  <1>4. Total(f) \in Int
        BY TotalType
  <1> QED BY <1>1, <1>3, <1>4 DEF g

\* Going on sends orders that nobody has answered, at the price of now.
LEMMA GoOnClaims ==
  ASSUME NEW todo, NEW cs, GoOn(todo, cs) \/ \E m : Send(m, todo, cs),
         \A c \in cs : c.price = price
  PROVE  Answered(calls') = Answered(cs) /\ \A c \in calls' : c.price = price
PROOF
  <1>1. calls' = cs \/ \E m : calls' = cs \cup {Order(m)}
        BY DEF GoOn, Send
  <1>2. \A m : Order(m).reply = "none" /\ Order(m).price = price
        BY DEF Order
  <1> HIDE DEF Order
  <1> QED BY <1>1, <1>2 DEF Answered

\* Steps that leave the hedges, the account and the answers alone.
LEMMA PerpUntouched ==
  ASSUME PerpInv, UNCHANGED <<price, moved, perp, gross, off>>,
         Answered(calls') = Answered(calls),
         ~moved => \A c \in calls' : c.price = price
  PROVE  PerpInv'
PROOF
  <1>1. Claims(calls') = Claims(calls)
        BY SameClaims
  <1>2. Total(gross)' = Total(gross) /\ Total(off)' = Total(off)
        BY DEF Total
  <1> QED BY <1>1, <1>2 DEF PerpInv

\* The answer of the order awaited is read, or given up: what was claimed is
\* booked, or will never be.
LEMMA ClaimSettled ==
  ASSUME CloseInv, PerpInv, NEW c \in calls, c.awaited,
         NEW cs, \A d \in cs : ~d.awaited /\ \E e \in calls : d.price = e.price,
         GoOn(task.todo, cs),
         UNCHANGED <<price, moved, perp>>,
         \/ UNCHANGED off
            /\ gross' = [gross EXCEPT ![c.market] = IF c.reply = "ok" THEN @ + Worth(c) ELSE @]
         \/ UNCHANGED gross
            /\ off' = [off EXCEPT ![c.market] = IF c.reply = "ok" THEN @ - Worth(c) ELSE @]
  PROVE  PerpInv'
PROOF
  <1> SUFFICES ASSUME ~moved PROVE PerpInv'
      BY DEF PerpInv
  <1>1. /\ \A d \in calls : d.price = price
        /\ price = NoPrice => perp = 0
        /\ perp * price + Total(off) = Total(gross) + Claims(calls)
        BY DEF PerpInv
  <1>2. Answered(calls') = Answered(cs) /\ \A d \in calls' : d.price = price
    <2>1. \A d \in cs : d.price = price
          BY <1>1
    <2> QED BY <2>1, GoOnClaims
  <1>3. Claims(calls') = 0
    <2>1. Answered(calls') = {}
          BY <1>2 DEF Answered
    <2> QED BY <2>1, NoClaims
  <1>4. /\ c \in Orders /\ c.market \in Markets /\ Worth(c) \in Int
        /\ gross \in [Markets -> Int] /\ off \in [Markets -> Int]
        /\ perp \in Int /\ price \in Nat
    <2>1. TypeOK /\ c \in Orders
          BY DEF CloseInv, TypeOK
    <2>2. Worth(c) \in Int
          BY <2>1, WorthInt
    <2>3. price \in Nat
      <3>1. c.price \in Prices /\ c.price = price
            BY <1>1, <2>1 DEF Orders
      <3>2. \A p \in Prices : p \in Nat
            BY PricesAssumption
      <3> QED BY <3>1, <3>2
    <2>4. c.market \in Markets
          BY <2>1 DEF Orders
    <2>5. gross \in [Markets -> Int] /\ off \in [Markets -> Int] /\ perp \in Int
          BY <2>1 DEF TypeOK
    <2> QED BY <2>1, <2>2, <2>3, <2>4, <2>5
  <1> DEFINE w == IF c.reply = "ok" THEN Worth(c) ELSE 0
  <1>5. Claims(calls) = w
    <2>1. CASE c.reply = "ok"
      <3>1. Answered(calls) = {c}
            BY <2>1 DEF Answered, CloseInv, Awaited
      <3> QED BY <1>4, <2>1, <3>1, OneClaim
    <2>2. CASE c.reply # "ok"
      <3>1. Answered(calls) = {}
            BY <2>2 DEF Answered, CloseInv, Awaited
      <3> QED BY <2>2, <3>1, NoClaims
    <2> QED BY <2>1, <2>2
  <1>6. w \in Int /\ Total(gross) \in Int /\ Total(off) \in Int /\ perp * price \in Int
    <2>1. Total(gross) \in Int /\ Total(off) \in Int
          BY <1>4, TotalType
    <2> QED BY <1>4, <2>1
  <1>7. Total(off') - Total(gross') = Total(off) - Total(gross) - w
    <2>1. ASSUME UNCHANGED off,
                 gross' = [gross EXCEPT ![c.market] = IF c.reply = "ok" THEN @ + Worth(c) ELSE @]
          PROVE  Total(off') - Total(gross') = Total(off) - Total(gross) - w
      <3>0. (IF c.reply = "ok" THEN gross[c.market] + Worth(c) ELSE gross[c.market])
              = gross[c.market] + w
            BY <1>4
      <3>1. gross' = [gross EXCEPT ![c.market] = @ + w]
            BY <2>1, <3>0
      <3> HIDE DEF w
      <3>2. Total(gross') = Total(gross) + w
            BY <1>4, <1>6, <3>1, TotalChange
      <3>3. Total(off') = Total(off)
            BY <2>1
      <3> QED BY <1>6, <3>2, <3>3
    <2>2. ASSUME UNCHANGED gross,
                 off' = [off EXCEPT ![c.market] = IF c.reply = "ok" THEN @ - Worth(c) ELSE @]
          PROVE  Total(off') - Total(gross') = Total(off) - Total(gross) - w
      <3>0. (IF c.reply = "ok" THEN off[c.market] - Worth(c) ELSE off[c.market])
              = off[c.market] + (-w)
            BY <1>4
      <3>1. off' = [off EXCEPT ![c.market] = @ + (-w)]
            BY <2>2, <3>0
      <3> HIDE DEF w
      <3>2. Total(off') = Total(off) + (-w)
        <4>1. -w \in Int
              BY <1>6
        <4> QED BY <1>4, <3>1, <4>1, TotalChange
      <3>3. Total(gross') = Total(gross)
            BY <2>2
      <3> QED BY <1>6, <3>2, <3>3
    <2> QED BY <2>1, <2>2
  <1>8. Total(off') \in Int /\ Total(gross') \in Int
    <2>1. gross' \in [Markets -> Int] /\ off' \in [Markets -> Int]
          BY <1>4
    <2> QED BY <2>1, TotalType
  <1> HIDE DEF w
  <1>9. perp * price + Total(off') = Total(gross') + 0
        BY <1>1, <1>5, <1>6, <1>7, <1>8
  <1>10. Total(off)' = Total(off') /\ Total(gross)' = Total(gross') /\ Claims(calls)' = 0
        BY <1>3 DEF Total, Claims, Answered, Worth
  <1> QED BY <1>1, <1>2, <1>9, <1>10 DEF PerpInv

\* The exchange executes lots of an order: the account moves by what they are
\* worth, and what is claimed beyond that, or never will be, is off.
LEMMA ExecutesKeeps ==
  ASSUME CloseInv, PerpInv, NEW c \in calls, c.reply = "none",
         NEW lots \in Nat, NEW reply \in {"ok", "error"}, Executes(c, lots, reply)
  PROVE  PerpInv'
PROOF
  <1> SUFFICES ASSUME ~moved PROVE PerpInv'
      BY DEF PerpInv, Executes, outside
  <1>1. /\ \A d \in calls : d.price = price
        /\ price = NoPrice => perp = 0
        /\ perp * price + Total(off) = Total(gross) + Claims(calls)
        BY DEF PerpInv
  <1>2. UNCHANGED <<price, moved, gross>>
        BY DEF Executes, outside, poller
  <1>3. /\ c \in Orders /\ c.market \in Markets /\ Worth(c) \in Int /\ c.price = price
        /\ gross \in [Markets -> Int] /\ off \in [Markets -> Int]
        /\ perp \in Int /\ price \in Nat \ {0}
    <2>1. TypeOK /\ c \in Orders
          BY DEF CloseInv, TypeOK
    <2>2. Worth(c) \in Int
          BY <2>1, WorthInt
    <2>3. price \in Nat \ {0}
          BY <1>1, <2>1, PricesAssumption DEF Orders
    <2> QED BY <1>1, <2>1, <2>2, <2>3 DEF TypeOK, Orders
  <1> DEFINE answered == [c EXCEPT !.reply = reply]
             u == IF c.side = "BUY" THEN lots ELSE -lots
             w == IF c.awaited /\ reply = "ok" THEN Worth(c) ELSE 0
  <1>4. /\ answered \in Orders /\ answered.awaited = c.awaited /\ answered.reply = reply
        /\ answered.price = c.price /\ Worth(answered) = Worth(c)
    <2>1. /\ answered \in Orders /\ answered.awaited = c.awaited /\ answered.reply = reply
          /\ answered.price = c.price /\ answered.side = c.side /\ answered.size = c.size
          BY <1>3 DEF Orders
    <2> HIDE DEF answered
    <2> QED BY <2>1 DEF Worth
  <1>5. calls' = (calls \ {c}) \cup (IF c.awaited THEN {answered} ELSE {})
        BY DEF Executes
  <1>6. perp' = perp + u /\ u \in Int /\ w \in Int
    <2>1. perp' = perp + u
          BY DEF Executes
    <2> QED BY <1>3, <2>1
  <1>7. Worth([c EXCEPT !.size = lots]) = u * price
    <2> DEFINE part == [c EXCEPT !.size = lots]
    <2>1. part.side = c.side /\ part.size = lots /\ part.price = price
          BY <1>3 DEF Orders
    <2> HIDE DEF part
    <2>2. Worth(part) = IF c.side = "BUY" THEN lots * price ELSE -(lots * price)
          BY <2>1 DEF Worth
    <2>3. (-lots) * price = -(lots * price)
          BY <1>3
    <2> QED BY <2>2, <2>3 DEF part
  <1>8. off' = [off EXCEPT ![c.market] = @ + (w - u * price)]
    <2> DEFINE p == u * price
    <2>1. off' = [off EXCEPT ![c.market] = @ + w - p]
          BY <1>7 DEF Executes
    <2>2. p \in Int
          BY <1>3, <1>6
    <2> HIDE DEF p, w
    <2>3. off[c.market] + w - p = off[c.market] + (w - p)
          BY <1>3, <1>6, <2>2
    <2>4. off' = [off EXCEPT ![c.market] = @ + (w - p)]
          BY <2>1, <2>3
    <2> QED BY <2>4 DEF p
  <1>9. Claims(calls') = Claims(calls) + w
    <2>1. CASE c.awaited
      <3>1. \A d \in calls : d.awaited => d = c
            BY <2>1 DEF CloseInv, Awaited
      <3>2. Claims(calls) = 0
        <4>1. Answered(calls) = {}
              BY <3>1 DEF Answered
        <4> QED BY <4>1, NoClaims
      <3>3. CASE reply = "ok"
        <4>1. Answered(calls') = {answered}
              BY <1>4, <1>5, <2>1, <3>1, <3>3 DEF Answered
        <4>2. Claims(calls') = Worth(c)
              BY <1>4, <4>1, OneClaim
        <4> QED BY <1>3, <2>1, <3>2, <3>3, <4>2
      <3>4. CASE reply = "error"
        <4>1. Answered(calls') = {}
              BY <1>4, <1>5, <2>1, <3>1, <3>4 DEF Answered
        <4>2. Claims(calls') = 0
              BY <4>1, NoClaims
        <4> QED BY <2>1, <3>2, <3>4, <4>2
      <3> QED BY <3>3, <3>4
    <2>2. CASE ~c.awaited
      <3>1. Answered(calls') = Answered(calls)
            BY <1>5, <2>2 DEF Answered
      <3>2. Claims(calls') = Claims(calls) /\ Claims(calls) \in Int
            BY <3>1, SameClaims, ClaimsType
      <3> QED BY <2>2, <3>2
    <2> QED BY <2>1, <2>2
  <1>10. \A d \in calls' : d.price = price
         BY <1>1, <1>3, <1>4, <1>5
  <1> HIDE DEF w, u, answered
  <1> DEFINE p == u * price
             b == perp * price
  <1>11. p \in Int /\ b \in Int /\ (perp + u) * price = b + p
         BY <1>3, <1>6
  <1>12. Total(off') = Total(off) + (w - p) /\ Total(gross') = Total(gross)
    <2>1. w - p \in Int
          BY <1>6, <1>11
    <2>2. Total(off') = Total(off) + (w - p)
          BY <1>3, <1>8, <2>1, TotalChange
    <2> QED BY <1>2, <2>2
  <1>13. Total(off) \in Int /\ Total(gross) \in Int /\ Claims(calls) \in Int
         BY <1>3, TotalType, ClaimsType
  <1>14. perp' * price' = b + p
         BY <1>2, <1>6, <1>11
  <1>15. b + Total(off) = Total(gross) + Claims(calls)
         BY <1>1
  <1> HIDE DEF p, b
  <1>16. (b + p) + Total(off') = Total(gross') + Claims(calls')
         BY <1>6, <1>9, <1>11, <1>12, <1>13, <1>15
  <1>17. perp' * price' + Total(off') = Total(gross') + Claims(calls')
         BY <1>14, <1>16
  <1>18. price' = price /\ price # NoPrice
         BY <1>2, <1>3 DEF NoPrice
  <1> QED BY <1>10, <1>17, <1>18 DEF PerpInv

\* Before the first order there is nothing on either side.
LEMMA PerpInvInit == Init => PerpInv
PROOF
  <1> SUFFICES ASSUME Init PROVE PerpInv
      OBVIOUS
  <1>1. /\ price = 0 /\ perp = 0 /\ calls = {}
        /\ gross = [m \in Markets |-> 0] /\ off = [m \in Markets |-> 0]
        BY DEF Init, NoPrice
  <1>2. \A m \in Markets : gross[m] = 0 /\ off[m] = 0
        BY <1>1
  <1>3. Total(gross) = 0 /\ Total(off) = 0
        BY <1>2, HedgedMarkets, SumZero DEF Total
  <1>4. Claims(calls) = 0
    <2>1. Answered(calls) = {}
          BY <1>1 DEF Answered
    <2> QED BY <2>1, NoClaims
  <1> QED BY <1>1, <1>3, <1>4 DEF PerpInv

\* Every step books, claims or sets off what it moves of the account.
LEMMA PerpInvStep == CloseInv /\ PerpInv /\ [Next]_vars => PerpInv'
PROOF
  <1> SUFFICES ASSUME CloseInv, PerpInv, [Next]_vars PROVE PerpInv'
      OBVIOUS
  <1>0. TypeOK /\ Awaited /\ (~moved => \A c \in calls : c.price = price)
        BY DEF CloseInv, PerpInv
  <1>1. ASSUME UNCHANGED <<price, moved, perp, gross, off, calls>> PROVE PerpInv'
        BY <1>0, <1>1, PerpUntouched
  <1>2. ASSUME NEW m \in Markets \ Event, Update(m) PROVE PerpInv'
        BY <1>1, <1>2 DEF Update, outside, poller
  <1>3. ASSUME UpdateEvent PROVE PerpInv'
        BY <1>1, <1>3 DEF UpdateEvent, outside, poller
  <1>4. ASSUME QuotesReturn PROVE PerpInv'
    <2>1. GoOn(task.todo, calls) \/ \E m : Send(m, task.todo, calls)
          BY <1>4 DEF QuotesReturn
    <2>2. UNCHANGED <<price, moved, perp, gross, off>>
          BY <1>4 DEF QuotesReturn, outside, poller
    <2>3. CASE moved
          BY <2>2, <2>3 DEF PerpInv
    <2>4. CASE ~moved
      <3>1. Answered(calls') = Answered(calls) /\ \A c \in calls' : c.price = price
            BY <1>0, <2>1, <2>4, GoOnClaims
      <3> QED BY <2>2, <3>1, PerpUntouched
    <2> QED BY <2>3, <2>4
  <1>5. ASSUME NEW c \in calls, HedgeReturns(c) PROVE PerpInv'
    <2>1. /\ c.awaited /\ GoOn(task.todo, calls \ {c})
          /\ UNCHANGED <<price, moved, perp, off>>
          /\ gross' = [gross EXCEPT ![c.market] = IF c.reply = "ok" THEN @ + Worth(c) ELSE @]
          BY <1>5 DEF HedgeReturns, Booked, outside, poller
    <2>2. \A d \in calls \ {c} : ~d.awaited /\ \E e \in calls : d.price = e.price
          BY <1>0, <2>1 DEF Awaited
    <2> QED BY <2>1, <2>2, ClaimSettled
  <1>6. ASSUME NEW c \in calls, HedgeTimesOut(c) PROVE PerpInv'
    <2> DEFINE cs == (calls \ {c}) \cup (IF c.reply = "none" THEN {[c EXCEPT !.awaited = FALSE]}
                                                             ELSE {})
    <2>1. /\ c.awaited /\ GoOn(task.todo, cs)
          /\ UNCHANGED <<price, moved, perp, gross>>
          /\ off' = [off EXCEPT ![c.market] = IF c.reply = "ok" THEN @ - Worth(c) ELSE @]
          BY <1>6 DEF HedgeTimesOut, outside, poller
    <2>2. \A d \in cs : ~d.awaited /\ \E e \in calls : d.price = e.price
      <3>1. c \in Orders
            BY <1>0 DEF TypeOK
      <3>2. ~[c EXCEPT !.awaited = FALSE].awaited /\ [c EXCEPT !.awaited = FALSE].price = c.price
            BY <3>1 DEF Orders
      <3> QED BY <1>0, <2>1, <3>2 DEF Awaited
    <2> HIDE DEF cs
    <2> QED BY <2>1, <2>2, ClaimSettled
  <1>7. ASSUME NEW c \in calls, HedgeThrows(c) PROVE PerpInv'
        BY <1>1, <1>7 DEF HedgeThrows, outside, poller
  <1>8. ASSUME FetchMeta PROVE PerpInv'
        BY <1>1, <1>8 DEF FetchMeta, outside
  <1>9. ASSUME NEW p \in Prices, Poll(p) PROVE PerpInv'
    <2>1. price' = p /\ moved' = (moved \/ price \notin {NoPrice, p})
          /\ UNCHANGED <<perp, gross, off, calls>>
          BY <1>9 DEF Poll
    <2>2. CASE moved \/ price \notin {NoPrice, p}
          BY <2>1, <2>2 DEF PerpInv
    <2>3. CASE ~moved /\ price = p
      <3>1. UNCHANGED <<price, moved>>
            BY <1>0, <2>1, <2>3 DEF TypeOK
      <3> QED BY <1>1, <2>1, <3>1
    <2>4. CASE ~moved /\ price = NoPrice
      <3>1. perp = 0 /\ (\A c \in calls : c.price = 0)
            /\ perp * price + Total(off) = Total(gross) + Claims(calls)
            BY <2>4 DEF PerpInv, NoPrice
      <3>2. \A c \in calls : c.price \in Nat \ {0}
            BY <1>0, PricesAssumption DEF TypeOK, Orders
      <3>3. price = 0 /\ p \in Nat /\ calls = {}
            BY <2>4, <3>1, <3>2, PricesAssumption DEF NoPrice
      <3>4. perp * price = perp * p
            BY <3>1, <3>3
      <3>5. perp' * price' + Total(off') = Total(gross') + Claims(calls')
            BY <2>1, <3>1, <3>4
      <3> QED BY <2>1, <3>1, <3>3, <3>5 DEF PerpInv
    <2> QED BY <2>2, <2>3, <2>4
  <1>10. ASSUME NEW m \in Markets, NEW q \in Quantities, Fill(m, q) PROVE PerpInv'
         BY <1>1, <1>10 DEF Fill, poller
  <1>11. ASSUME Kill PROVE PerpInv'
         BY <1>1, <1>11 DEF Kill, outside, poller
  <1>12. ASSUME VenueAnswers PROVE PerpInv'
    <2>1. PICK c \in calls : VenueTakes(c) \/ VenueFindsNothing(c) \/ VenueRefuses(c)
          BY <1>12 DEF VenueAnswers
    <2>2. Taken(c) \in Nat
          BY <1>0 DEF TypeOK, Orders, Taken, Reducible
    <2> QED BY <2>1, <2>2, ExecutesKeeps DEF VenueTakes, VenueFindsNothing, VenueRefuses
  <1>13. CASE UNCHANGED vars
         BY <1>1, <1>13 DEF vars, outside, poller
  <1> QED BY <1>2, <1>3, <1>4, <1>5, <1>6, <1>7, <1>8, <1>9, <1>10, <1>11, <1>12, <1>13
          DEF Next, Returns

\* For any markets, prices, inventories and faults: while the price stays, the
\* dollars booked over all markets are the position of the account, up to what
\* was acknowledged and not executed, or executed and never acknowledged.
THEOREM PerpAlwaysKnown == Spec => []PerpKnown
PROOF
  <1>1. PerpInv => PerpKnown
        BY DEF PerpInv, PerpKnown, Total, Claims, Answered
  <1> QED BY <1>1, PerpInvInit, PerpInvStep, CloseInvInit, CloseInvStep, PTL DEF Spec

=============================================================================
