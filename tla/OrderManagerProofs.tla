--------------------------- MODULE OrderManagerProofs ---------------------------
(***************************************************************************)
(* Two invariants of OrderManager, proved for all quotes, ticks, sizes,    *)
(* limits, bounds and faults.  BaseInv ties the calls under way, the orders*)
(* the manager knows and those the exchange holds to each other, and the   *)
(* position to what has traded.  CalmInv says, of each side that has not   *)
(* fared oddly, where every order is that may still trade.                 *)
(*                                                                         *)
(* The parts are operators of the pieces of the state, so that what a piece*)
(* of a step does is a lemma about them, and an action of the model cites  *)
(* the lemmas of the pieces it is made of.                                 *)
(***************************************************************************)
EXTENDS OrderManager, OperatorProofs

-----------------------------------------------------------------------------
(* The invariants.                                                         *)

Orders == [side : Sides, price : Int, left : 0..Lots, at : {"sent", "resting", "gone"}]
Events == [id : Ids, qty : 1..Lots]
Records == [status : Statuses, filled : Nat]
Requests == [by : {"strategy", "kill", "nobody"}, op : {"post", "delete"}, id : Ids, reply : Replies]

\* The kinds of things the state is made of, and who refers to what.
Reports(q, ve) == q \in Seq(Events) /\ \A i \in 1..Len(q) : q[i].id <= Len(ve)
Shapes(ve, cs, al, lv) ==
  /\ ve \in Seq(Orders) /\ Len(ve) <= MaxOrders
  /\ cs \subseteq Requests /\ \A c \in cs : c.id <= Len(ve)
  /\ DOMAIN al \subseteq 1..Len(ve) /\ al \in [DOMAIN al -> Records]
  /\ lv \in [Sides -> 0..MaxOrders]
  /\ \A s \in Sides : lv[s] # NoOrder => lv[s] \in DOMAIN al /\ ve[lv[s]].side = s

\* A POST on its way: nobody but the exchange knows its order yet.
Post(c, ve, cs, al) ==
  /\ c.id \notin DOMAIN al
  /\ c.by # "kill"
  /\ c.reply \in {"none", "live", "delayed", "matched", "error"}
  /\ c.reply = "none" => ve[c.id].at = "sent" /\ ve[c.id].left = Lots
  /\ c.reply # "none" => ve[c.id].at # "sent"
  /\ \A d \in cs : d.id = c.id => d = c
Posts(ve, cs, al) == \A c \in cs : c.op = "post" => Post(c, ve, cs, al)

\* A DELETE on its way is for an order the manager knows.
Deletes(cs, al) ==
  \A c \in cs : c.op = "delete" => c.id \in DOMAIN al /\ c.reply \in {"none", "ok", "error"}

\* An order the manager knows has reached the exchange; nobody reads an answer
\* that nobody waits for.
Reached(ve, al) == \A id \in DOMAIN al : ve[id].at # "sent"
Unheard(cs) == \A c \in cs : c.by = "nobody" => c.reply = "none"

\* What the exchange has not closed has something left.
Unspent(ve) == \A i \in 1..Len(ve) : ve[i].at # "gone" => ve[i].left > 0

OrdersInv(ve, fi, lo, cs, al, lv) ==
  /\ Shapes(ve, cs, al, lv)
  /\ Reports(fi, ve) /\ Reports(lo, ve)
  /\ Posts(ve, cs, al) /\ Deletes(cs, al)
  /\ Reached(ve, al) /\ Unheard(cs)

\* What the strategy task waits for: nothing, some cancels, or one call.
NoneOf(cs) == \A c \in cs : c.by # "strategy"
Rounds == {Quoting(q, todo) : q \in Quotes, todo \in SUBSET {"SELL"}}
Awaits(ta, cs) ==
  \/ ta = Idle /\ NoneOf(cs)
  \/ ta = Sweeping /\ \A c \in cs : c.by = "strategy" => c.op = "delete"
  \/ /\ ta \in Rounds
     /\ \E c \in cs : c.by = "strategy" /\ NoneOf(cs \ {c})

LocalTypes ==
  /\ frozen \in [Sides -> BOOLEAN] /\ net \in Int
  /\ killed \in BOOLEAN /\ swept \in BOOLEAN /\ dispatching \in BOOLEAN /\ up \in BOOLEAN

\* The inductive invariant under all faults.
BaseInv ==
  /\ OrdersInv(venue, fills, lost, calls, all, live)
  /\ Unspent(venue)
  /\ Awaits(task, calls)
  /\ LocalTypes
  /\ PositionConserved

\* What follows holds of the sides that are not odd (od): a side is odd from the
\* first of its orders that trades in pieces or at once, whose POST is given up,
\* or whose cancel is confirmed when it is gone.
Standing(id, al) == id \in DOMAIN al /\ al[id].status \in {"OPEN", "PENDING"}
Posted(id, cs) == \E c \in cs : c.op = "post" /\ c.id = id

\* Orders trade in one piece.
OnePiece(ve, od) ==
  \A i \in 1..Len(ve) : ve[i].side \notin od =>
    ve[i].left \in {0, Lots} /\ (ve[i].at # "gone" => ve[i].left = Lots)

\* A fill on its way is the only one of its order, and finds it where it was.
Pending(ve, fi, cs, al, od) ==
  \A i \in 1..Len(fi) : ve[fi[i].id].side \notin od =>
    /\ fi[i].qty = Lots /\ ve[fi[i].id].left = 0
    /\ Standing(fi[i].id, al) \/ Posted(fi[i].id, cs)
    /\ \A j \in 1..Len(fi) : fi[j].id = fi[i].id => j = i

\* The live index is just the orders that are OPEN or PENDING.
Indexed(ve, al, lv, od) ==
  \A id \in DOMAIN al : ve[id].side \notin od =>
    /\ Standing(id, al) <=> lv[ve[id].side] = id
    /\ Standing(id, al) => al[id].filled = 0

\* An order on its way to the exchange, or back, has its side for itself.
Alone(ve, cs, lv, od) ==
  \A c \in cs : c.op = "post" /\ ve[c.id].side \notin od =>
    /\ c.by = "strategy" /\ lv[ve[c.id].side] = NoOrder /\ c.reply # "matched"
    /\ c.reply = "error" => ve[c.id].at = "gone" /\ ve[c.id].left = Lots

\* An order is cancelled once, and is in the index until its manager hears.
CancelledOnce(ve, cs, al, od) ==
  \A c \in cs : c.reply = "ok" /\ ve[c.id].side \notin od =>
    /\ ve[c.id].at = "gone" /\ ve[c.id].left = Lots /\ Standing(c.id, al)
    /\ \A d \in cs : d.reply = "ok" /\ d.id = c.id => d = c

\* What is not gone is known or on its way.
Tracked(ve, cs, al, od) ==
  \A i \in 1..Len(ve) : ve[i].side \notin od /\ ve[i].at # "gone" => Posted(i, cs) \/ Standing(i, al)

TameInv(ve, fi, cs, al, lv, od) ==
  /\ OnePiece(ve, od) /\ Pending(ve, fi, cs, al, od) /\ Indexed(ve, al, lv, od)
  /\ Alone(ve, cs, lv, od) /\ CancelledOnce(ve, cs, al, od) /\ Tracked(ve, cs, al, od)

\* An order of side s at price p would trade with none held for OPEN.
Clear(s, p, ve, al, od) ==
  \A id \in DOMAIN al :
    /\ ve[id].at = "resting" /\ al[id].status = "OPEN"
    /\ ve[id].side # s /\ ve[id].side \notin od
    => ~Crossing(s, p, ve[id].price)
NoCross(ve, cs, al, ta, od) ==
  \A c \in cs : c.by = "strategy" =>
    /\ c.op = "post" /\ c.reply = "none" => Clear(ve[c.id].side, ve[c.id].price, ve, al, od)
    /\ c.op = "delete" /\ ta.mode = "quoting" =>
         Clear(ve[c.id].side, QuotePrice(ta.quote, ve[c.id].side), ve, al, od)

\* An order of side s may still change the position.
Reported(id, fi) == \E i \in 1..Len(fi) : fi[i].id = id
Outstanding(s, ve, fi) ==
  \E id \in 1..Len(ve) : ve[id].side = s /\ (ve[id].at # "gone" \/ Reported(id, fi))

\* The side is still to be quoted in this update: Replacing, by the order that
\* follows a cancel.
Replacing(s, ve, cs, ta) ==
  /\ ta.mode = "quoting"
  /\ \E c \in cs : /\ c.by = "strategy" /\ c.op = "delete" /\ ve[c.id].side = s
                   /\ c.reply = "ok" \/ ve[c.id].at # "gone"
ToSell(ve, cs, ta) ==
  \/ ta.mode = "quoting" /\ "SELL" \in ta.todo
  \/ Replacing("SELL", ve, cs, ta)

\* The process starts from a position the limit could have led to.
StartsWithin == StartNet < MaxInventory + Lots /\ -StartNet < MaxInventory + 2 * Lots

\* The limit, while orders are on their way on one side or the other.
LongInv(ve, fi, cs, ta, nt) ==
  /\ nt < MaxInventory + Lots
  /\ Outstanding("BUY", ve, fi) => nt < MaxInventory
  /\ Replacing("BUY", ve, cs, ta) => nt < MaxInventory
ShortInv(ve, fi, cs, ta, nt) ==
  /\ -nt < MaxInventory + 2 * Lots
  /\ Outstanding("SELL", ve, fi) => -nt < MaxInventory + Lots
  /\ Replacing("SELL", ve, cs, ta) => "SELL" \notin ta.todo
  /\ ToSell(ve, cs, ta) => /\ -nt < MaxInventory + Lots
                           /\ Outstanding("SELL", ve, fi) => -nt < MaxInventory
LimitInv(ve, fi, cs, ta, nt, od) == StartsWithin =>
  /\ "BUY" \notin od => LongInv(ve, fi, cs, ta, nt)
  /\ "SELL" \notin od => ShortInv(ve, fi, cs, ta, nt)

OddSides == odd \subseteq Sides

\* The inductive invariant of the sides that are not odd, under all faults.
CalmInv ==
  /\ TameInv(venue, fills, calls, all, live, odd)
  /\ LimitInv(venue, fills, calls, task, net, odd)

-----------------------------------------------------------------------------
(* Constants, calls and single changes.                                    *)

\* Every order but one, every record but one, every side but one.
VenueBut(ve, we, id, left, at) ==
  /\ we \in Seq(Orders) /\ Len(we) = Len(ve) /\ id \in 1..Len(ve)
  /\ \A i \in 1..Len(ve) : /\ we[i].side = ve[i].side /\ we[i].price = ve[i].price
                           /\ i # id => we[i] = ve[i]
  /\ we[id].left = left /\ we[id].at = at
Grown(ve, we, o) ==
  /\ we = Append(ve, o) /\ we \in Seq(Orders) /\ Len(we) = Len(ve) + 1
  /\ we[Len(ve) + 1] = o
  /\ \A i \in 1..Len(ve) : we[i] = ve[i]
RecordBut(al, bl, id, rec) ==
  /\ DOMAIN bl = DOMAIN al \cup {id} /\ bl \in [DOMAIN bl -> Records]
  /\ bl[id] = rec
  /\ \A i \in DOMAIN al : i # id => bl[i] = al[i]
IndexBut(lv, mv, s, id) ==
  /\ mv \in [Sides -> 0..MaxOrders]
  /\ mv[s] = id
  /\ \A t \in Sides : t # s => mv[t] = lv[t]

\* The constants as the proofs use them.
LEMMA Bounds ==
  /\ Lots \in Nat /\ Lots > 0 /\ MaxOrders \in Nat /\ MaxInventory \in Nat
  /\ Tick \in Nat /\ Tick > 0 /\ StartNet \in Int
  /\ NoOrder = 0
  /\ \A q \in Quotes : q.bid \in Int /\ q.ask \in Int
BY LotsAssumption, MaxOrdersAssumption, MaxInventoryAssumption, TickAssumption, StartNetAssumption,
   QuotesAssumption DEF NoOrder

\* A quote, and a quote rounded to the tick, is a whole number.
LEMMA PriceIsWhole ==
  ASSUME NEW q \in Quotes, NEW s \in Sides
  PROVE  QuotePrice(q, s) \in Int /\ RoundToTick(QuotePrice(q, s), Tick) \in Int
<1> DEFINE p == QuotePrice(q, s)
<1>1. p \in Int /\ Tick \in Nat /\ Tick > 0
  BY Bounds DEF QuotePrice
<1> HIDE DEF p
<1>2. p \div Tick \in Int
  BY <1>1
<1>3. Nearest(p, Tick) \in Int
  BY <1>2 DEF Nearest
<1>4. Tick * Nearest(p, Tick) \in Int
  BY <1>1, <1>3
<1>5. RoundToTick(p, Tick) \in Int
  BY <1>1, <1>4 DEF RoundToTick, RoundTo
<1> QED BY <1>1, <1>5 DEF p

\* A call that has just been made waits for its answer.
LEMMA CallIs ==
  ASSUME NEW by, NEW op, NEW id
  PROVE  /\ Call(by, op, id).by = by /\ Call(by, op, id).op = op
         /\ Call(by, op, id).id = id /\ Call(by, op, id).reply = "none"
BY DEF Call

\* And it is a request about an order of the exchange.
LEMMA CallTyped ==
  ASSUME NEW by \in {"strategy", "kill"}, NEW op \in {"post", "delete"}, NEW id \in 1..MaxOrders
  PROVE  Call(by, op, id) \in Requests
BY DEF Call, Requests, Ids, Replies

\* The fields of a request, and what becomes of them.
Orphan(c) == [c EXCEPT !.by = "nobody"]
Replied(c, r) == [c EXCEPT !.reply = r]

\* What the fields of a request are, before and after.
LEMMA RequestIs ==
  ASSUME NEW c \in Requests
  PROVE  /\ c.id \in Nat /\ c.id > 0
         /\ c.by \in {"strategy", "kill", "nobody"} /\ c.op \in {"post", "delete"} /\ c.reply \in Replies
         /\ /\ Orphan(c) \in Requests /\ Orphan(c).by = "nobody" /\ Orphan(c).op = c.op
            /\ Orphan(c).id = c.id /\ Orphan(c).reply = c.reply
         /\ \A r \in Replies :
              /\ Replied(c, r) \in Requests /\ Replied(c, r).by = c.by /\ Replied(c, r).op = c.op
              /\ Replied(c, r).id = c.id /\ Replied(c, r).reply = r
<1>1. c.id \in Nat /\ c.id > 0
  BY Bounds DEF Requests, Ids
<1> QED BY <1>1 DEF Requests, Orphan, Replied

-----------------------------------------------------------------------------
(* What orders have traded and what events say of it.                      *)

Worth == [o \in Orders |-> Signed(o.side, Lots - o.left)]
Says(ve) == [e \in Events |-> Signed(ve[e.id].side, e.qty)]

\* An event is about a quantity of an order.
LEMMA EventIs ==
  \A e \in Events : e.qty \in Nat /\ e.qty > 0 /\ e.qty <= Lots /\ e.id \in Nat /\ e.id > 0
BY Bounds DEF Events, Ids

\* A signed quantity is a whole number.
LEMMA SignedType ==
  ASSUME NEW s, NEW n \in Int
  PROVE  Signed(s, n) \in Int /\ (n = 0 => Signed(s, n) = 0)
BY DEF Signed

\* Signed quantities of one side add up.
LEMMA SignedAdds ==
  ASSUME NEW s, NEW m \in Int, NEW n \in Int
  PROVE  Signed(s, m) + Signed(s, n) = Signed(s, m + n)
BY DEF Signed

\* What an order has traded, signed, is a whole number.
LEMMA WorthTyped ==
  /\ Worth \in [Orders -> Int]
  /\ \A o \in Orders : Worth[o] = Signed(o.side, Lots - o.left) /\ Lots - o.left \in Int
<1>1. \A o \in Orders : Lots - o.left \in Int
  BY Bounds DEF Orders
<1> QED BY <1>1, SignedType DEF Worth

\* And so is what an event tells.
LEMMA SaysTyped ==
  ASSUME NEW ve
  PROVE  /\ Says(ve) \in [Events -> Int]
         /\ \A e \in Events : Says(ve)[e] = Signed(ve[e.id].side, e.qty)
<1>1. \A e \in Events : e.qty \in Int
  BY EventIs
<1> QED BY <1>1, SignedType DEF Says

\* What all orders traded is what the orders weigh.
LEMMA TradedIs ==
  ASSUME NEW ve, ve \in Seq(Orders)
  PROVE  Traded(ve) = Weigh(ve, Worth) /\ Traded(ve) \in Int
<1> DEFINE f == [i \in DOMAIN ve |-> Signed(ve[i].side, Lots - ve[i].left)]
           g == [i \in DOMAIN ve |-> Worth[ve[i]]]
<1>1. \A i \in DOMAIN ve : ve[i] \in Orders
  OBVIOUS
<1>2. f = g
  BY <1>1, WorthTyped
<1>3. Traded(ve) = SumFunction(f) /\ Weigh(ve, Worth) = SumFunction(g)
  BY DEF Traded, Weigh
<1>4. Weigh(ve, Worth) \in Int
  BY WorthTyped, WeighType
<1> QED BY <1>2, <1>3, <1>4

\* What is told is what the events weigh.
LEMMA ToldIs ==
  ASSUME NEW ve, NEW fi, fi \in Seq(Events)
  PROVE  Told(ve, fi) = Weigh(fi, Says(ve)) /\ Told(ve, fi) \in Int
<1> DEFINE f == [i \in DOMAIN fi |-> Signed(ve[fi[i].id].side, fi[i].qty)]
           g == [i \in DOMAIN fi |-> Says(ve)[fi[i]]]
<1>1. \A i \in DOMAIN fi : fi[i] \in Events
  OBVIOUS
<1>2. f = g
  BY <1>1, SaysTyped
<1>3. Told(ve, fi) = SumFunction(f) /\ Weigh(fi, Says(ve)) = SumFunction(g)
  BY DEF Told, Weigh
<1>4. Weigh(fi, Says(ve)) \in Int
  BY SaysTyped, WeighType
<1> QED BY <1>2, <1>3, <1>4

\* What is told goes by the sides of the orders alone.
LEMMA ToldSame ==
  ASSUME NEW ve, NEW w, NEW fi, NEW n, fi \in Seq(Events), n \in Nat,
         \A i \in 1..Len(fi) : fi[i].id <= n,
         \A i \in 1..n : w[i].side = ve[i].side
  PROVE  Told(w, fi) = Told(ve, fi)
<1>1. \A i \in 1..Len(fi) : fi[i] \in Events /\ fi[i].id \in 1..n
  BY EventIs
<1>2. \A i \in 1..Len(fi) : Says(w)[fi[i]] = Says(ve)[fi[i]]
  <2>1. SUFFICES ASSUME NEW i \in 1..Len(fi) PROVE Says(w)[fi[i]] = Says(ve)[fi[i]]
    OBVIOUS
  <2>2. PICK e \in Events : e = fi[i]
    BY <1>1
  <2>3. w[e.id].side = ve[e.id].side
    BY <1>1, <2>2
  <2>4. Says(w)[e] = Signed(w[e.id].side, e.qty) /\ Says(ve)[e] = Signed(ve[e.id].side, e.qty)
    BY SaysTyped
  <2> QED BY <2>2, <2>3, <2>4
<1>3. Weigh(fi, Says(w)) = Weigh(fi, Says(ve))
  BY <1>2, WeighSame
<1> QED BY <1>3, ToldIs

\* The first event read.
LEMMA ToldTail ==
  ASSUME NEW ve, NEW fi, fi \in Seq(Events), fi # <<>>
  PROVE  Told(ve, fi) = Signed(ve[Head(fi).id].side, Head(fi).qty) + Told(ve, Tail(fi))
<1>1. Head(fi) \in Events /\ Tail(fi) \in Seq(Events)
  BY SeqTail
<1>2. Says(ve)[Head(fi)] = Signed(ve[Head(fi).id].side, Head(fi).qty)
  BY <1>1, SaysTyped
<1>3. Weigh(fi, Says(ve)) = Says(ve)[Head(fi)] + Weigh(Tail(fi), Says(ve))
  BY SaysTyped, WeighTail
<1> QED BY <1>1, <1>2, <1>3, ToldIs

\* One more event to read.
LEMMA ToldAppend ==
  ASSUME NEW ve, NEW fi, NEW e, fi \in Seq(Events), e \in Events
  PROVE  Told(ve, Append(fi, e)) = Told(ve, fi) + Signed(ve[e.id].side, e.qty)
<1>1. Append(fi, e) \in Seq(Events)
  OBVIOUS
<1>2. Says(ve)[e] = Signed(ve[e.id].side, e.qty)
  BY SaysTyped
<1>3. Weigh(Append(fi, e), Says(ve)) = Weigh(fi, Says(ve)) + Says(ve)[e]
  BY SaysTyped, WeighAppend
<1> QED BY <1>1, <1>2, <1>3, ToldIs

\* An order just sent has not traded.
LEMMA TradedSent ==
  ASSUME NEW ve, NEW o, ve \in Seq(Orders), o \in Orders, o.left = Lots
  PROVE  Traded(Append(ve, o)) = Traded(ve)
<1>1. Append(ve, o) \in Seq(Orders)
  OBVIOUS
<1>2. Weigh(Append(ve, o), Worth) = Weigh(ve, Worth) + Worth[o]
  BY WorthTyped, WeighAppend
<1>3. Worth[o] = 0
  <2>1. Lots - o.left = 0 /\ 0 \in Int
    BY Bounds
  <2> QED BY <2>1, WorthTyped, SignedType
<1>4. Traded(ve) = Weigh(ve, Worth) /\ Traded(ve) \in Int
  BY TradedIs
<1>5. Traded(Append(ve, o)) = Weigh(Append(ve, o), Worth)
  BY <1>1, TradedIs
<1> QED BY <1>2, <1>3, <1>4, <1>5

\* One order replaced.
LEMMA WorthChanges ==
  ASSUME NEW q \in Seq(Orders), NEW r \in Seq(Orders), NEW a \in Orders, NEW b \in Orders,
         Replaces(r, q, a, b)
  PROVE  Weigh(r, Worth) = Weigh(q, Worth) - Worth[a] + Worth[b]
<1>1. Worth \in [Orders -> Int]
  BY WorthTyped
<1> QED BY <1>1, WeighChange

\* One order changed: the difference of what it has left was traded.
LEMMA TradedChanges ==
  ASSUME NEW ve, NEW w, NEW n, ve \in Seq(Orders), w \in Seq(Orders), Len(w) = Len(ve),
         n \in 1..Len(ve), \A i \in 1..Len(ve) : i # n => w[i] = ve[i],
         w[n].side = ve[n].side
  PROVE  Traded(w) = Traded(ve) + Signed(ve[n].side, ve[n].left - w[n].left)
<1>1. PICK o \in Orders, b \in Orders : o = w[n] /\ b = ve[n]
  BY Len(w) = Len(ve)
<1>2. Weigh(w, Worth) = Weigh(ve, Worth) - Worth[b] + Worth[o]
  <2>1. Replaces(w, ve, b, o)
    BY <1>1 DEF Replaces
  <2> QED BY <2>1, WorthChanges
<1>3. PICK s, x, y, l :
         /\ s = o.side /\ s = b.side /\ x = b.left /\ y = o.left /\ l = Lots
         /\ x \in Int /\ y \in Int /\ l \in Int
  <2>1. o.side = b.side
    BY <1>1
  <2>2. o.left \in Int /\ b.left \in Int /\ Lots \in Int
    BY Bounds DEF Orders
  <2> QED BY <2>1, <2>2
<1>4. Worth[o] = Signed(s, l - y) /\ Worth[b] = Signed(s, l - x)
  <2>1. Worth[o] = Signed(o.side, Lots - o.left) /\ Worth[b] = Signed(b.side, Lots - b.left)
    BY WorthTyped
  <2> QED BY <1>3, <2>1
<1>5. Signed(s, l - y) = Signed(s, l - x) + Signed(s, x - y)
  <2>1. l - x \in Int /\ x - y \in Int /\ (l - x) + (x - y) = l - y
    BY <1>3
  <2> QED BY <2>1, SignedAdds
<1>6. Signed(s, l - y) \in Int /\ Signed(s, l - x) \in Int /\ Signed(s, x - y) \in Int
  BY <1>3, SignedType
<1>7. Traded(ve) = Weigh(ve, Worth) /\ Traded(ve) \in Int
  BY TradedIs
<1>8. Traded(w) = Weigh(w, Worth)
  BY TradedIs
<1> QED BY <1>1, <1>2, <1>3, <1>4, <1>5, <1>6, <1>7, <1>8

\* The position and what is told add up to what was traded.
Conserved(ve, fi, lo, nt) == nt + Told(ve, fi) + Told(ve, lo) = StartNet + Traded(ve)

\* Sending an order changes none of it.
LEMMA ConservedGrown ==
  ASSUME NEW ve, NEW we, NEW o, NEW fi, NEW lo, NEW nt,
         ve \in Seq(Orders), Reports(fi, ve), Reports(lo, ve), Conserved(ve, fi, lo, nt),
         Grown(ve, we, o), o \in Orders, o.left = Lots
  PROVE  Conserved(we, fi, lo, nt)
<1>1. Traded(we) = Traded(ve)
  BY TradedSent DEF Grown
<1>2. Len(ve) \in Nat /\ \A i \in 1..Len(ve) : we[i].side = ve[i].side
  BY DEF Grown
<1>3. Told(we, fi) = Told(ve, fi) /\ Told(we, lo) = Told(ve, lo)
  BY <1>2, ToldSame DEF Reports
<1> QED BY <1>1, <1>3 DEF Conserved

\* Nor does an order that moves without trading.
LEMMA ConservedMoved ==
  ASSUME NEW ve, NEW we, NEW id, NEW at, NEW fi, NEW lo, NEW nt,
         ve \in Seq(Orders), Reports(fi, ve), Reports(lo, ve), Conserved(ve, fi, lo, nt),
         VenueBut(ve, we, id, ve[id].left, at)
  PROVE  Conserved(we, fi, lo, nt)
<1>1. /\ we \in Seq(Orders) /\ Len(we) = Len(ve) /\ id \in 1..Len(ve)
      /\ \A i \in 1..Len(ve) : i # id => we[i] = ve[i]
      /\ we[id].side = ve[id].side /\ we[id].left = ve[id].left
  BY DEF VenueBut
<1>2. Traded(we) = Traded(ve) + Signed(ve[id].side, ve[id].left - we[id].left)
  BY <1>1, TradedChanges
<1>3. Signed(ve[id].side, ve[id].left - we[id].left) = 0
  <2>1. \A o \in Orders : o.left - o.left = 0
    BY Bounds DEF Orders
  <2>2. ve[id].left - we[id].left = 0 /\ 0 \in Int
    BY <1>1, <2>1
  <2> QED BY <2>2, SignedType
<1>4. Traded(ve) \in Int
  BY TradedIs
<1>5. Len(ve) \in Nat /\ \A i \in 1..Len(ve) : we[i].side = ve[i].side
  BY DEF VenueBut
<1>6. Told(we, fi) = Told(ve, fi) /\ Told(we, lo) = Told(ve, lo)
  BY <1>5, ToldSame DEF Reports
<1> QED BY <1>2, <1>3, <1>4, <1>6 DEF Conserved

\* A trade is told in the same step.
LEMMA ConservedSold ==
  ASSUME NEW ve, NEW we, NEW id, NEW at, NEW fi, NEW lo, NEW nt, NEW e, NEW left,
         ve \in Seq(Orders), Reports(fi, ve), Reports(lo, ve), Conserved(ve, fi, lo, nt), nt \in Int,
         VenueBut(ve, we, id, left, at), e \in Events, e.id = id, left = ve[id].left - e.qty
  PROVE  Conserved(we, Append(fi, e), lo, nt)
<1>1. /\ we \in Seq(Orders) /\ Len(we) = Len(ve) /\ id \in 1..Len(ve)
      /\ \A i \in 1..Len(ve) : i # id => we[i] = ve[i]
      /\ we[id].side = ve[id].side /\ we[id].left = left
  BY DEF VenueBut
<1>2. Traded(we) = Traded(ve) + Signed(ve[id].side, ve[id].left - we[id].left)
  BY <1>1, TradedChanges
<1>3. ve[id].left - we[id].left = e.qty
  <2>1. \A o \in Orders : o.left \in Int
    BY Bounds DEF Orders
  <2>2. ve[id].left \in Int /\ e.qty \in Int
    BY <1>1, <2>1, EventIs
  <2> QED BY <1>1, <2>2
<1>4. Len(ve) \in Nat /\ \A i \in 1..Len(ve) : we[i].side = ve[i].side
  BY DEF VenueBut
<1>5. Told(we, fi) = Told(ve, fi) /\ Told(we, lo) = Told(ve, lo)
  BY <1>4, ToldSame DEF Reports
<1>6. Told(we, Append(fi, e)) = Told(we, fi) + Signed(we[id].side, e.qty)
  <2>1. fi \in Seq(Events)
    BY DEF Reports
  <2> QED BY <2>1, ToldAppend
<1>7. Told(ve, fi) \in Int /\ Told(ve, lo) \in Int /\ Traded(ve) \in Int
  BY ToldIs, TradedIs DEF Reports
<1>8. PICK x : x = Signed(ve[id].side, e.qty) /\ x \in Int
  BY EventIs, SignedType
<1>9. Told(we, Append(fi, e)) = Told(ve, fi) + x /\ Traded(we) = Traded(ve) + x
  BY <1>1, <1>2, <1>3, <1>5, <1>6, <1>8
<1>10. nt + Told(ve, fi) + Told(ve, lo) = StartNet + Traded(ve)
  BY DEF Conserved
<1>11. nt + Told(we, Append(fi, e)) + Told(we, lo) = StartNet + Traded(we)
  <2>1. PICK m, k, t : m = Told(ve, fi) /\ k = Told(ve, lo) /\ t = Traded(ve)
    OBVIOUS
  <2> QED BY <1>5, <1>7, <1>8, <1>9, <1>10, <2>1, Bounds
<1> QED BY <1>11 DEF Conserved

\* What an event tells moves to the position when it is read.
LEMMA ConservedRead ==
  ASSUME NEW ve, NEW fi, NEW lo, NEW nt, ve \in Seq(Orders), fi # <<>>, nt \in Int,
         Reports(fi, ve), Reports(lo, ve), Conserved(ve, fi, lo, nt)
  PROVE  /\ Conserved(ve, Tail(fi), lo, nt + Signed(ve[Head(fi).id].side, Head(fi).qty))
         /\ nt + Signed(ve[Head(fi).id].side, Head(fi).qty) \in Int
<1>1. fi \in Seq(Events) /\ lo \in Seq(Events) /\ Head(fi) \in Events /\ Tail(fi) \in Seq(Events)
  BY SeqTail DEF Reports
<1>2. PICK x : x = Signed(ve[Head(fi).id].side, Head(fi).qty) /\ x \in Int
  BY <1>1, EventIs, SignedType
<1>3. Told(ve, fi) = x + Told(ve, Tail(fi))
  BY <1>1, <1>2, ToldTail
<1>4. Told(ve, Tail(fi)) \in Int /\ Told(ve, lo) \in Int
  BY <1>1, ToldIs
<1>5. nt + x + Told(ve, Tail(fi)) + Told(ve, lo) = StartNet + Traded(ve)
  BY <1>3, <1>4, <1>2 DEF Conserved
<1> QED BY <1>2, <1>5 DEF Conserved

\* And to the losses when it is lost.
LEMMA ConservedLost ==
  ASSUME NEW ve, NEW fi, NEW lo, NEW nt, ve \in Seq(Orders), fi # <<>>, nt \in Int,
         Reports(fi, ve), Reports(lo, ve), Conserved(ve, fi, lo, nt)
  PROVE  Conserved(ve, Tail(fi), Append(lo, Head(fi)), nt)
<1>1. fi \in Seq(Events) /\ lo \in Seq(Events) /\ Head(fi) \in Events /\ Tail(fi) \in Seq(Events)
  BY SeqTail DEF Reports
<1>2. PICK x : x = Signed(ve[Head(fi).id].side, Head(fi).qty) /\ x \in Int
  BY <1>1, EventIs, SignedType
<1>3. Told(ve, fi) = x + Told(ve, Tail(fi))
  BY <1>1, <1>2, ToldTail
<1>4. Told(ve, Append(lo, Head(fi))) = Told(ve, lo) + x
  BY <1>1, <1>2, ToldAppend
<1>5. Told(ve, Tail(fi)) \in Int /\ Told(ve, lo) \in Int
  BY <1>1, ToldIs
<1> QED BY <1>2, <1>3, <1>4, <1>5 DEF Conserved

-----------------------------------------------------------------------------
(* What each piece of a step does to BaseInv.                              *)

\* The shapes, ready for use.
LEMMA Shaped ==
  ASSUME NEW ve, NEW fi, NEW lo, NEW cs, NEW al, NEW lv, OrdersInv(ve, fi, lo, cs, al, lv)
  PROVE  /\ ve \in Seq(Orders) /\ Len(ve) \in Nat /\ Len(ve) <= MaxOrders
         /\ \A i \in 1..Len(ve) : /\ ve[i] \in Orders /\ ve[i].side \in Sides /\ ve[i].price \in Int
                                  /\ ve[i].left \in Nat /\ ve[i].left <= Lots
                                  /\ ve[i].at \in {"sent", "resting", "gone"}
         /\ \A d \in cs : /\ d \in Requests /\ d.id \in 1..Len(ve)
                          /\ d.op \in {"post", "delete"} /\ d.by \in {"strategy", "kill", "nobody"}
         /\ DOMAIN al \subseteq 1..Len(ve) /\ al \in [DOMAIN al -> Records]
         /\ \A id \in DOMAIN al : al[id].filled \in Nat /\ al[id].status \in Statuses
         /\ \A s \in Sides : lv[s] # NoOrder => lv[s] \in DOMAIN al /\ ve[lv[s]].side = s
         /\ lv \in [Sides -> 0..MaxOrders]
         /\ fi \in Seq(Events) /\ \A i \in 1..Len(fi) : fi[i] \in Events /\ fi[i].id \in 1..Len(ve)
<1>1. Shapes(ve, cs, al, lv) /\ Reports(fi, ve)
  BY DEF OrdersInv
<1>2. ve \in Seq(Orders) /\ Len(ve) \in Nat /\ Len(ve) <= MaxOrders
  BY <1>1 DEF Shapes
<1>3. \A o \in Orders : /\ o.side \in Sides /\ o.price \in Int /\ o.left \in Nat /\ o.left <= Lots
                        /\ o.at \in {"sent", "resting", "gone"}
  BY Bounds DEF Orders
<1>4. \A i \in 1..Len(ve) : ve[i] \in Orders
  BY <1>2
<1>5. \A d \in cs : d \in Requests /\ d.id <= Len(ve)
  BY <1>1 DEF Shapes
<1>6. \A d \in cs : d.id \in 1..Len(ve) /\ d.op \in {"post", "delete"} /\ d.by \in {"strategy", "kill", "nobody"}
  BY <1>2, <1>5, RequestIs
<1>7. \A r \in Records : r.filled \in Nat /\ r.status \in Statuses
  BY DEF Records
<1>8. \A id \in DOMAIN al : al[id].filled \in Nat /\ al[id].status \in Statuses
  BY <1>1, <1>7 DEF Shapes
<1>9. fi \in Seq(Events) /\ \A i \in 1..Len(fi) : fi[i] \in Events /\ fi[i].id \in 1..Len(ve)
  <2>1. fi \in Seq(Events) /\ \A i \in 1..Len(fi) : fi[i] \in Events /\ fi[i].id <= Len(ve)
    BY <1>1 DEF Reports
  <2> QED BY <1>2, <2>1, EventIs
<1> QED BY <1>1, <1>2, <1>3, <1>4, <1>5, <1>6, <1>8, <1>9 DEF Shapes

\* A new POST.
LEMMA PostSent ==
  ASSUME NEW ve, NEW fi, NEW lo, NEW cs, NEW al, NEW lv, NEW we, NEW o,
         OrdersInv(ve, fi, lo, cs, al, lv), Grown(ve, we, o), o \in Orders,
         o.left = Lots, o.at = "sent", Len(ve) < MaxOrders
  PROVE  OrdersInv(we, fi, lo, cs \cup {Call("strategy", "post", Len(ve) + 1)}, al, lv)
<1> DEFINE n == Len(ve)
           c == Call("strategy", "post", n + 1)
           ds == cs \cup {c}
<1>1. /\ Shapes(ve, cs, al, lv) /\ Reports(fi, ve) /\ Reports(lo, ve) /\ Posts(ve, cs, al)
      /\ Deletes(cs, al) /\ Reached(ve, al) /\ Unheard(cs)
  BY DEF OrdersInv
<1>2. n \in Nat /\ n + 1 \in 1..MaxOrders
  BY Shaped, Bounds
<1>3. /\ we \in Seq(Orders) /\ Len(we) = n + 1 /\ we[n + 1] = o
      /\ \A i \in 1..n : we[i] = ve[i]
  BY DEF Grown
<1>4. /\ c.by = "strategy" /\ c.op = "post" /\ c.id = n + 1 /\ c.reply = "none"
      /\ c \in Requests
  BY <1>2, CallIs, CallTyped
<1>5. /\ DOMAIN al \subseteq 1..n /\ \A d \in cs : d.id \in 1..n
      /\ \A t \in Sides : lv[t] # NoOrder => lv[t] \in DOMAIN al /\ ve[lv[t]].side = t
  BY Shaped
<1> HIDE DEF n, c
<1>6. Shapes(we, ds, al, lv)
  <2>1. ds \subseteq Requests /\ \A d \in ds : d.id <= n + 1
    BY <1>1, <1>2, <1>4, <1>5 DEF Shapes
  <2>2. \A t \in Sides : lv[t] # NoOrder => lv[t] \in DOMAIN al /\ we[lv[t]].side = t
    BY <1>3, <1>5
  <2>3. DOMAIN al \subseteq 1..n + 1 /\ n + 1 <= MaxOrders
    BY <1>2, <1>5
  <2> QED BY <1>1, <1>3, <2>1, <2>2, <2>3 DEF Shapes
<1>7. Reports(fi, we) /\ Reports(lo, we)
  <2>1. \A e \in Events : e.id \in Nat
    BY EventIs
  <2>2. ASSUME NEW q, Reports(q, ve) PROVE Reports(q, we)
    <3>1. q \in Seq(Events) /\ \A i \in 1..Len(q) : q[i] \in Events /\ q[i].id <= n
      BY <2>2 DEF Reports, n
    <3>2. \A i \in 1..Len(q) : q[i].id <= n + 1
      BY <1>2, <2>1, <3>1
    <3> QED BY <1>3, <3>1, <3>2 DEF Reports
  <2> QED BY <1>1, <2>2
<1>8. Posts(we, ds, al)
  <2>1. ASSUME NEW d \in cs, d.op = "post" PROVE Post(d, we, ds, al)
    <3>1. Post(d, ve, cs, al)
      BY <1>1, <2>1 DEF Posts
    <3>2. we[d.id] = ve[d.id] /\ d.id # c.id
      BY <1>2, <1>3, <1>4, <1>5
    <3> QED BY <3>1, <3>2 DEF Post
  <2>2. Post(c, we, ds, al)
    <3>1. c.id \notin DOMAIN al /\ \A d \in cs : d.id # c.id
      BY <1>2, <1>4, <1>5
    <3> QED BY <1>3, <1>4, <3>1 DEF Post
  <2> QED BY <2>1, <2>2 DEF Posts
<1>9. Deletes(ds, al) /\ Unheard(ds)
  BY <1>1, <1>4 DEF Deletes, Unheard
<1>10. Reached(we, al)
  BY <1>1, <1>3, <1>5 DEF Reached
<1> QED BY <1>6, <1>7, <1>8, <1>9, <1>10 DEF OrdersInv, n, c

\* Cancels are sent for orders the manager knows.
LEMMA DeletesSent ==
  ASSUME NEW ve, NEW fi, NEW lo, NEW cs, NEW al, NEW lv, NEW by \in {"strategy", "kill"}, NEW ids,
         OrdersInv(ve, fi, lo, cs, al, lv), ids \subseteq DOMAIN al
  PROVE  OrdersInv(ve, fi, lo, cs \cup {Call(by, "delete", id) : id \in ids}, al, lv)
<1> DEFINE ds == cs \cup {Call(by, "delete", id) : id \in ids}
<1>1. /\ Shapes(ve, cs, al, lv) /\ Reports(fi, ve) /\ Reports(lo, ve) /\ Posts(ve, cs, al)
      /\ Deletes(cs, al) /\ Reached(ve, al) /\ Unheard(cs)
  BY DEF OrdersInv
<1>2. \A id \in ids : id \in 1..MaxOrders /\ id <= Len(ve)
  BY Shaped, Bounds
<1>3. \A d \in ds : d \in cs \/ /\ d \in Requests /\ d.id <= Len(ve) /\ d.op = "delete" /\ d.by = by
                                /\ d.reply = "none" /\ d.id \in ids
  <2>1. SUFFICES ASSUME NEW d \in ds, d \notin cs
                 PROVE  /\ d \in Requests /\ d.id <= Len(ve) /\ d.op = "delete" /\ d.by = by
                        /\ d.reply = "none" /\ d.id \in ids
    OBVIOUS
  <2>2. PICK id \in ids : d = Call(by, "delete", id)
    BY <2>1
  <2> QED BY <1>2, <2>2, CallIs, CallTyped
<1> HIDE DEF ds
<1>4. Shapes(ve, ds, al, lv)
  BY <1>1, <1>3 DEF Shapes
<1>5. Posts(ve, ds, al)
  <2>1. SUFFICES ASSUME NEW d \in ds, d.op = "post" PROVE Post(d, ve, ds, al)
    BY DEF Posts
  <2>2. d \in cs
    BY <1>3, <2>1
  <2>3. Post(d, ve, cs, al)
    BY <1>1, <2>1, <2>2 DEF Posts
  <2>4. \A e \in ds : e.id = d.id => e \in cs
    BY <1>3, <2>3 DEF Post
  <2> QED BY <2>3, <2>4 DEF Post
<1>6. Deletes(ds, al) /\ Unheard(ds)
  BY <1>1, <1>3 DEF Deletes, Unheard
<1>7. OrdersInv(ve, fi, lo, ds, al, lv)
  BY <1>1, <1>4, <1>5, <1>6 DEF OrdersInv
<1> QED BY <1>7 DEF ds

\* Calls that end, and calls whose caller gives up.
Drawn(ds, cs) ==
  /\ \A d \in ds : d \in cs \/ \E c \in cs : d = Orphan(c) /\ c.reply = "none"
  /\ \A d, e \in ds : d.op = "post" /\ e.id = d.id => e = d

\* They keep the orders.
LEMMA CallsFewer ==
  ASSUME NEW ve, NEW fi, NEW lo, NEW cs, NEW al, NEW lv, NEW ds,
         OrdersInv(ve, fi, lo, cs, al, lv), Drawn(ds, cs)
  PROVE  OrdersInv(ve, fi, lo, ds, al, lv)
<1>1. /\ Shapes(ve, cs, al, lv) /\ Reports(fi, ve) /\ Reports(lo, ve) /\ Posts(ve, cs, al)
      /\ Deletes(cs, al) /\ Reached(ve, al) /\ Unheard(cs)
  BY DEF OrdersInv
<1>2. cs \subseteq Requests /\ \A d \in cs : d.id <= Len(ve)
  BY <1>1 DEF Shapes
<1>3. ASSUME NEW d \in ds, d \notin cs
      PROVE  /\ d \in Requests /\ d.by = "nobody" /\ d.reply = "none"
             /\ \E c \in cs : c.op = d.op /\ c.id = d.id /\ c.reply = "none"
  <2>1. PICK c \in cs : d = Orphan(c) /\ c.reply = "none"
    BY <1>3 DEF Drawn
  <2> QED BY <1>2, <2>1, RequestIs
<1>4. Shapes(ve, ds, al, lv)
  BY <1>1, <1>2, <1>3 DEF Shapes
<1>5. Posts(ve, ds, al)
  <2>1. SUFFICES ASSUME NEW d \in ds, d.op = "post" PROVE Post(d, ve, ds, al)
    BY DEF Posts
  <2>2. \A e \in ds : e.id = d.id => e = d
    BY <2>1 DEF Drawn
  <2>3. CASE d \in cs
    <3>1. Post(d, ve, cs, al)
      BY <1>1, <2>1, <2>3 DEF Posts
    <3> QED BY <2>2, <3>1 DEF Post
  <2>4. CASE d \notin cs
    <3>1. PICK c \in cs : c.op = d.op /\ c.id = d.id /\ c.reply = "none"
      BY <1>3, <2>4
    <3>2. Post(c, ve, cs, al)
      BY <1>1, <2>1, <3>1 DEF Posts
    <3>3. d.by = "nobody" /\ d.reply = "none"
      BY <1>3, <2>4
    <3> QED BY <2>2, <3>1, <3>2, <3>3 DEF Post
  <2> QED BY <2>3, <2>4
<1>6. Deletes(ds, al) /\ Unheard(ds)
  BY <1>1, <1>3 DEF Deletes, Unheard
<1> QED BY <1>1, <1>4, <1>5, <1>6 DEF OrdersInv

\* An answered POST is filed.
LEMMA PostFiled ==
  ASSUME NEW ve, NEW fi, NEW lo, NEW cs, NEW al, NEW lv, NEW c, NEW bl, NEW mv, NEW rec,
         OrdersInv(ve, fi, lo, cs, al, lv), c \in cs, c.op = "post", c.reply # "none",
         RecordBut(al, bl, c.id, rec), IndexBut(lv, mv, ve[c.id].side, c.id)
  PROVE  OrdersInv(ve, fi, lo, cs \ {c}, bl, mv)
<1> DEFINE ds == cs \ {c}
<1>1. /\ Shapes(ve, cs, al, lv) /\ Reports(fi, ve) /\ Reports(lo, ve) /\ Posts(ve, cs, al)
      /\ Deletes(cs, al) /\ Reached(ve, al) /\ Unheard(cs)
  BY DEF OrdersInv
<1>2. c.id \in 1..Len(ve) /\ ve[c.id].side \in Sides
  BY Shaped
<1>3. Post(c, ve, cs, al)
  BY <1>1 DEF Posts
<1>4. Shapes(ve, ds, bl, mv)
  <2>1. DOMAIN bl \subseteq 1..Len(ve) /\ bl \in [DOMAIN bl -> Records] /\ DOMAIN al \subseteq DOMAIN bl
    BY <1>1, <1>2 DEF Shapes, RecordBut
  <2>2. \A t \in Sides : mv[t] # NoOrder => mv[t] \in DOMAIN bl /\ ve[mv[t]].side = t
    <3>1. mv[ve[c.id].side] = c.id /\ c.id \in DOMAIN bl
      BY DEF RecordBut, IndexBut
    <3>2. \A t \in Sides : t # ve[c.id].side => mv[t] = lv[t]
      BY DEF IndexBut
    <3> QED BY <1>1, <2>1, <3>1, <3>2 DEF Shapes
  <2> QED BY <1>1, <2>1, <2>2 DEF Shapes, IndexBut
<1>5. Posts(ve, ds, bl)
  <2>1. SUFFICES ASSUME NEW d \in ds, d.op = "post" PROVE Post(d, ve, ds, bl)
    BY DEF Posts
  <2>2. Post(d, ve, cs, al)
    BY <1>1, <2>1 DEF Posts
  <2>3. d.id # c.id
    BY <1>3, <2>1 DEF Post
  <2> QED BY <2>2, <2>3 DEF Post, RecordBut
<1>6. Deletes(ds, bl) /\ Unheard(ds)
  BY <1>1 DEF Deletes, Unheard, RecordBut
<1>7. Reached(ve, bl)
  BY <1>1, <1>3 DEF Reached, Post, RecordBut
<1> QED BY <1>1, <1>4, <1>5, <1>6, <1>7 DEF OrdersInv

\* The record of a known order changes, and sides may lose their order.
Dropped(lv, mv) == mv \in [Sides -> 0..MaxOrders] /\ \A s \in Sides : mv[s] \in {lv[s], NoOrder}

\* A record is written, and the index loses no more than its key: the orders keep.
LEMMA RecordChanges ==
  ASSUME NEW ve, NEW fi, NEW lo, NEW cs, NEW al, NEW lv, NEW bl, NEW mv, NEW id, NEW rec,
         OrdersInv(ve, fi, lo, cs, al, lv), id \in DOMAIN al,
         RecordBut(al, bl, id, rec), Dropped(lv, mv)
  PROVE  OrdersInv(ve, fi, lo, cs, bl, mv)
<1>1. /\ Shapes(ve, cs, al, lv) /\ Reports(fi, ve) /\ Reports(lo, ve) /\ Posts(ve, cs, al)
      /\ Deletes(cs, al) /\ Reached(ve, al) /\ Unheard(cs)
  BY DEF OrdersInv
<1>2. DOMAIN bl = DOMAIN al /\ bl \in [DOMAIN bl -> Records]
  BY DEF RecordBut
<1>3. Shapes(ve, cs, bl, mv)
  BY <1>1, <1>2 DEF Shapes, Dropped
<1>4. Posts(ve, cs, bl) /\ Deletes(cs, bl) /\ Reached(ve, bl)
  BY <1>1, <1>2 DEF Posts, Post, Deletes, Reached
<1> QED BY <1>1, <1>3, <1>4 DEF OrdersInv

\* The exchange changes an order, and may answer the call that is about it.
Answering(ds, cs, id) ==
  /\ \A d \in ds : d \in cs \/
       /\ d \in Requests /\ d.id = id /\ d.by # "nobody" /\ d.reply # "none"
       /\ \E c \in cs : c.id = id /\ c.op = d.op /\ c.by = d.by /\ c.reply = "none"
       /\ d.reply \in IF d.op = "post" THEN {"live", "delayed", "matched", "error"} ELSE {"ok", "error"}
  /\ \A d, e \in ds : d.op = "post" /\ e.id = d.id => e = d
  /\ \A d \in ds : d.op = "post" /\ d.id = id => d.reply # "none"

\* An order of the exchange changes, and the answer is on its way: the orders keep.
LEMMA OrderChanges ==
  ASSUME NEW ve, NEW fi, NEW lo, NEW cs, NEW al, NEW lv, NEW we, NEW gi, NEW ds, NEW id, NEW left, NEW at,
         OrdersInv(ve, fi, lo, cs, al, lv), VenueBut(ve, we, id, left, at), at \in {"resting", "gone"},
         Reports(gi, ve), Answering(ds, cs, id)
  PROVE  OrdersInv(we, gi, lo, ds, al, lv)
<1>1. /\ Shapes(ve, cs, al, lv) /\ Reports(fi, ve) /\ Reports(lo, ve) /\ Posts(ve, cs, al)
      /\ Deletes(cs, al) /\ Reached(ve, al) /\ Unheard(cs)
  BY DEF OrdersInv
<1>2. /\ we \in Seq(Orders) /\ Len(we) = Len(ve) /\ id \in 1..Len(ve)
      /\ \A i \in 1..Len(ve) : we[i].side = ve[i].side /\ (i # id => we[i] = ve[i])
      /\ we[id].at # "sent"
  BY DEF VenueBut
<1>3. \A d \in cs : d \in Requests /\ d.id \in 1..Len(ve)
  BY Shaped
<1>4. \A d \in ds : d \in Requests /\ d.id \in 1..Len(ve)
  BY <1>2, <1>3 DEF Answering
<1>5. Shapes(we, ds, al, lv)
  <2>1. \A s \in Sides : lv[s] # NoOrder => lv[s] \in DOMAIN al /\ we[lv[s]].side = s
    BY <1>1, <1>2 DEF Shapes
  <2>2. ds \subseteq Requests /\ \A d \in ds : d.id <= Len(we)
    BY <1>2, <1>4
  <2> QED BY <1>1, <1>2, <2>1, <2>2 DEF Shapes
<1>6. Reports(gi, we) /\ Reports(lo, we)
  BY <1>1, <1>2 DEF Reports
<1>7. Posts(we, ds, al)
  <2>1. SUFFICES ASSUME NEW d \in ds, d.op = "post" PROVE Post(d, we, ds, al)
    BY DEF Posts
  <2>2. (\A e \in ds : e.id = d.id => e = d) /\ (d.id = id => d.reply # "none")
    BY <2>1 DEF Answering
  <2>3. CASE d \in cs
    <3>1. Post(d, ve, cs, al)
      BY <1>1, <2>1, <2>3 DEF Posts
    <3>2. CASE d.id = id
      BY <1>2, <2>2, <3>1, <3>2 DEF Post
    <3>3. CASE d.id # id
      BY <1>2, <1>3, <2>2, <2>3, <3>1, <3>3 DEF Post
    <3> QED BY <3>2, <3>3
  <2>4. CASE d \notin cs
    <3>1. PICK c \in cs : c.id = id /\ c.op = d.op /\ c.by = d.by /\ c.reply = "none"
      BY <2>4 DEF Answering
    <3>2. d.id = id /\ d.reply \in {"live", "delayed", "matched", "error"}
      BY <2>1, <2>4 DEF Answering
    <3>3. Post(c, ve, cs, al)
      BY <1>1, <2>1, <3>1 DEF Posts
    <3> QED BY <1>2, <2>2, <3>1, <3>2, <3>3 DEF Post
  <2> QED BY <2>3, <2>4
<1>8. Deletes(ds, al)
  <2>1. SUFFICES ASSUME NEW d \in ds, d.op = "delete"
                 PROVE  d.id \in DOMAIN al /\ d.reply \in {"none", "ok", "error"}
    BY DEF Deletes
  <2>2. CASE d \in cs
    BY <1>1, <2>1, <2>2 DEF Deletes
  <2>3. CASE d \notin cs
    <3>1. PICK c \in cs : c.id = id /\ c.op = d.op /\ c.by = d.by /\ c.reply = "none"
      BY <2>3 DEF Answering
    <3>2. d.id = id /\ d.reply \in {"ok", "error"}
      BY <2>1, <2>3 DEF Answering
    <3> QED BY <1>1, <2>1, <3>1, <3>2 DEF Deletes
  <2> QED BY <2>2, <2>3
<1>9. Unheard(ds)
  BY <1>1 DEF Unheard, Answering
<1>10. Reached(we, al)
  <2>1. DOMAIN al \subseteq 1..Len(ve)
    BY <1>1 DEF Shapes
  <2> QED BY <1>1, <1>2, <2>1 DEF Reached
<1> QED BY <1>5, <1>6, <1>7, <1>8, <1>9, <1>10 DEF OrdersInv

-----------------------------------------------------------------------------
(* What each piece of a step does to the orders of the sides that are not  *)
(* odd.                                                                    *)

\* The parts, ready for use.
LEMMA Tamed ==
  ASSUME NEW ve, NEW fi, NEW lo, NEW cs, NEW al, NEW lv, NEW od,
         OrdersInv(ve, fi, lo, cs, al, lv), TameInv(ve, fi, cs, al, lv, od)
  PROVE  /\ \A i \in 1..Len(ve) : ve[i].side \notin od =>
              /\ ve[i].left \in {0, Lots}
              /\ ve[i].at # "gone" => /\ ve[i].left = Lots /\ Lots # 0
                                      /\ Posted(i, cs) \/ Standing(i, al)
         /\ \A i \in 1..Len(fi) : fi[i].id \in 1..Len(ve)
         /\ \A i \in 1..Len(fi) : ve[fi[i].id].side \notin od =>
              /\ fi[i].qty = Lots
              /\ ve[fi[i].id].left = 0 /\ ve[fi[i].id].at = "gone"
              /\ Standing(fi[i].id, al) \/ Posted(fi[i].id, cs)
              /\ \A j \in 1..Len(fi) : fi[j].id = fi[i].id => j = i
         /\ \A id \in DOMAIN al : id \in 1..Len(ve) /\ ve[id].side \in Sides /\ ~Posted(id, cs)
         /\ \A id \in DOMAIN al : ve[id].side \notin od =>
              /\ Standing(id, al) <=> lv[ve[id].side] = id
              /\ Standing(id, al) => al[id].filled = 0
         /\ \A c \in cs : c.op = "post" /\ ve[c.id].side \notin od =>
              /\ c.by = "strategy" /\ lv[ve[c.id].side] = NoOrder
              /\ c.reply \in {"none", "live", "delayed", "error"}
              /\ c.reply = "error" => ve[c.id].at = "gone" /\ ve[c.id].left = Lots
         /\ \A c \in cs : c.reply = "ok" => c.op = "delete" /\ c.id \in DOMAIN al
         /\ \A c \in cs : c.reply = "ok" /\ ve[c.id].side \notin od =>
              /\ ve[c.id].at = "gone" /\ ve[c.id].left = Lots
              /\ Standing(c.id, al)
              /\ \A d \in cs : d.reply = "ok" /\ d.id = c.id => d = c
<1>1. /\ OnePiece(ve, od) /\ Pending(ve, fi, cs, al, od) /\ Indexed(ve, al, lv, od)
      /\ Alone(ve, cs, lv, od) /\ CancelledOnce(ve, cs, al, od) /\ Tracked(ve, cs, al, od)
  BY DEF TameInv
<1>2. Lots # 0
  BY Bounds
<1>3. \A i \in 1..Len(fi) : fi[i].id \in 1..Len(ve)
  BY Shaped
<1>4. \A i \in 1..Len(fi) : ve[fi[i].id].side \notin od => ve[fi[i].id].at = "gone"
  BY <1>1, <1>2, <1>3 DEF OnePiece, Pending
<1>5. \A id \in DOMAIN al : id \in 1..Len(ve) /\ ve[id].side \in Sides
  BY Shaped
<1>6. Posts(ve, cs, al) /\ Deletes(cs, al)
  BY DEF OrdersInv
<1>7. \A id \in DOMAIN al : ~Posted(id, cs)
  BY <1>6 DEF Posted, Posts, Post
<1>8. \A c \in cs : c.op = "post" => c.reply # "ok"
  BY <1>6 DEF Posts, Post
<1>9. \A c \in cs : c.op = "post" /\ ve[c.id].side \notin od =>
        /\ c.reply \in {"none", "live", "delayed", "error"}
        /\ c.by = "strategy" /\ lv[ve[c.id].side] = NoOrder
        /\ c.reply = "error" => ve[c.id].at = "gone" /\ ve[c.id].left = Lots
  BY <1>1, <1>6 DEF Posts, Post, Alone
<1>10. \A c \in cs : c.reply = "ok" => c.op = "delete" /\ c.id \in DOMAIN al
  <2>1. \A c \in cs : c.op \in {"post", "delete"}
    BY Shaped
  <2> QED BY <1>6, <1>8, <2>1 DEF Deletes
<1>11. \A i \in 1..Len(ve) : ve[i].side \notin od =>
         /\ ve[i].left \in {0, Lots}
         /\ ve[i].at # "gone" => /\ ve[i].left = Lots
                                 /\ Posted(i, cs) \/ Standing(i, al)
  BY <1>1 DEF OnePiece, Tracked
<1>12. \A i \in 1..Len(fi) : ve[fi[i].id].side \notin od =>
         /\ fi[i].qty = Lots /\ ve[fi[i].id].left = 0
         /\ Standing(fi[i].id, al) \/ Posted(fi[i].id, cs)
         /\ \A j \in 1..Len(fi) : fi[j].id = fi[i].id => j = i
  BY <1>1 DEF Pending
<1>13. \A id \in DOMAIN al : ve[id].side \notin od =>
         /\ Standing(id, al) <=> lv[ve[id].side] = id
         /\ Standing(id, al) => al[id].filled = 0
  BY <1>1 DEF Indexed
<1>14. \A c \in cs : c.reply = "ok" /\ ve[c.id].side \notin od =>
         /\ ve[c.id].at = "gone" /\ ve[c.id].left = Lots
         /\ Standing(c.id, al)
         /\ \A d \in cs : d.reply = "ok" /\ d.id = c.id => d = c
  BY <1>1 DEF CancelledOnce
<1> QED BY <1>2, <1>3, <1>4, <1>5, <1>7, <1>9, <1>10, <1>11, <1>12, <1>13, <1>14

\* A side more that is odd asks for less.
LEMMA TameWiden ==
  ASSUME NEW ve, NEW fi, NEW cs, NEW al, NEW lv, NEW od, NEW oe,
         TameInv(ve, fi, cs, al, lv, od), od \subseteq oe
  PROVE  TameInv(ve, fi, cs, al, lv, oe)
<1>1. /\ OnePiece(ve, od) /\ Pending(ve, fi, cs, al, od) /\ Indexed(ve, al, lv, od)
      /\ Alone(ve, cs, lv, od) /\ CancelledOnce(ve, cs, al, od) /\ Tracked(ve, cs, al, od)
  BY DEF TameInv
<1>2. OnePiece(ve, oe) /\ Pending(ve, fi, cs, al, oe)
  BY <1>1 DEF OnePiece, Pending
<1>3. Indexed(ve, al, lv, oe) /\ Tracked(ve, cs, al, oe)
  BY <1>1 DEF Indexed, Tracked
<1>4. Alone(ve, cs, lv, oe) /\ CancelledOnce(ve, cs, al, oe)
  BY <1>1 DEF Alone, CancelledOnce
<1> QED BY <1>2, <1>3, <1>4 DEF TameInv

\* An order is posted to a side without one, or to an odd one.
LEMMA TamePost ==
  ASSUME NEW ve, NEW fi, NEW lo, NEW cs, NEW al, NEW lv, NEW od, NEW we, NEW o,
         OrdersInv(ve, fi, lo, cs, al, lv), TameInv(ve, fi, cs, al, lv, od),
         Grown(ve, we, o), o.left = Lots, o.side \notin od => lv[o.side] = NoOrder
  PROVE  TameInv(we, fi, cs \cup {Call("strategy", "post", Len(ve) + 1)}, al, lv, od)
<1> DEFINE n == Len(ve)
           c == Call("strategy", "post", n + 1)
           ds == cs \cup {c}
<1>1. n \in Nat /\ (\A d \in cs : d.id \in 1..n) /\ DOMAIN al \subseteq 1..n
  BY Shaped
<1>2. Len(we) = n + 1 /\ we[n + 1] = o /\ \A i \in 1..n : we[i] = ve[i]
  BY DEF Grown
<1>3. c.by = "strategy" /\ c.op = "post" /\ c.id = n + 1 /\ c.reply = "none"
  BY CallIs
<1> HIDE DEF n, c
<1>4. /\ \A i \in 1..n : ve[i].side \notin od =>
           /\ ve[i].left \in {0, Lots}
           /\ ve[i].at # "gone" => ve[i].left = Lots /\ (Posted(i, cs) \/ Standing(i, al))
      /\ \A i \in 1..Len(fi) : fi[i].id \in 1..n
      /\ Pending(ve, fi, cs, al, od)
  BY Tamed DEF n, TameInv
<1>5. \A i : Posted(i, cs) => Posted(i, ds)
  BY DEF Posted
<1>6. Posted(n + 1, ds)
  BY <1>3 DEF Posted
<1>7. OnePiece(we, od)
  BY <1>1, <1>2, <1>4 DEF OnePiece
<1>8. Pending(we, fi, ds, al, od)
  BY <1>2, <1>4, <1>5 DEF Pending
<1>9. Indexed(we, al, lv, od)
  BY <1>1, <1>2 DEF Indexed, TameInv
<1>10. Alone(we, ds, lv, od)
  BY <1>1, <1>2, <1>3 DEF Alone, TameInv
<1>11. CancelledOnce(we, ds, al, od)
  BY <1>1, <1>2, <1>3 DEF CancelledOnce, TameInv
<1>12. Tracked(we, ds, al, od)
  <2>1. SUFFICES ASSUME NEW i \in 1..n + 1, we[i].side \notin od, we[i].at # "gone"
                 PROVE  Posted(i, ds) \/ Standing(i, al)
    BY <1>2 DEF Tracked
  <2>2. CASE i \in 1..n
    BY <1>2, <1>4, <1>5, <2>1, <2>2
  <2>3. CASE i = n + 1
    BY <1>6, <2>3
  <2> QED BY <1>1, <2>2, <2>3
<1> QED BY <1>7, <1>8, <1>9, <1>10, <1>11, <1>12 DEF TameInv, n, c

\* Calls change, but but for the odd sides no POST is left without its order's end.
Settled(ve, ds, cs, od) ==
  /\ \A d \in ds : ve[d.id].side \notin od => d \in cs \/ (d.op = "delete" /\ d.reply = "none")
  /\ \A c \in cs : c.op = "post" /\ ve[c.id].side \notin od =>
       c \in ds \/ (ve[c.id].at = "gone" /\ ve[c.id].left = Lots)

\* Such a change of the calls keeps TameInv.
LEMMA TameCalls ==
  ASSUME NEW ve, NEW fi, NEW lo, NEW cs, NEW al, NEW lv, NEW od, NEW ds,
         OrdersInv(ve, fi, lo, cs, al, lv), TameInv(ve, fi, cs, al, lv, od), Settled(ve, ds, cs, od)
  PROVE  TameInv(ve, fi, ds, al, lv, od)
<1>1. /\ OnePiece(ve, od) /\ Pending(ve, fi, cs, al, od) /\ Indexed(ve, al, lv, od)
      /\ Alone(ve, cs, lv, od) /\ CancelledOnce(ve, cs, al, od) /\ Tracked(ve, cs, al, od)
  BY DEF TameInv
<1>2. \A i : Posted(i, cs) /\ ve[i].side \notin od => Posted(i, ds) \/ (ve[i].at = "gone" /\ ve[i].left = Lots)
  BY DEF Posted, Settled
<1>3. Pending(ve, fi, ds, al, od)
  <2>1. \A i \in 1..Len(fi) : ve[fi[i].id].side \notin od => ve[fi[i].id].left = 0 /\ Lots # 0
    BY <1>1, Bounds DEF Pending
  <2> QED BY <1>1, <1>2, <2>1 DEF Pending
<1>4. Alone(ve, ds, lv, od)
  BY <1>1 DEF Alone, Settled
<1>5. CancelledOnce(ve, ds, al, od)
  <2>1. \A d \in ds : d.reply = "ok" /\ ve[d.id].side \notin od => d \in cs
    BY DEF Settled
  <2> QED BY <1>1, <2>1 DEF CancelledOnce
<1>6. Tracked(ve, ds, al, od)
  BY <1>1, <1>2 DEF Tracked
<1> QED BY <1>1, <1>3, <1>4, <1>5, <1>6 DEF TameInv

\* An answered POST is filed, as a standing order if its side is not odd.
LEMMA TameFiled ==
  ASSUME NEW ve, NEW fi, NEW lo, NEW cs, NEW al, NEW lv, NEW od, NEW c, NEW bl, NEW mv, NEW rec,
         OrdersInv(ve, fi, lo, cs, al, lv), TameInv(ve, fi, cs, al, lv, od),
         c \in cs, c.op = "post", NoneOf(cs \ {c}),
         RecordBut(al, bl, c.id, rec), IndexBut(lv, mv, ve[c.id].side, c.id),
         ve[c.id].side \notin od => rec.status \in {"OPEN", "PENDING"} /\ rec.filled = 0
  PROVE  TameInv(ve, fi, cs \ {c}, bl, mv, od)
<1> DEFINE ds == cs \ {c}
           t == ve[c.id].side
<1>1. /\ OnePiece(ve, od) /\ Pending(ve, fi, cs, al, od) /\ Indexed(ve, al, lv, od)
      /\ Alone(ve, cs, lv, od) /\ CancelledOnce(ve, cs, al, od) /\ Tracked(ve, cs, al, od)
  BY DEF TameInv
<1>2. \A d \in ds : ve[d.id].side \notin od => d.op # "post"
  BY <1>1 DEF Alone, NoneOf
<1>3. c.id \notin DOMAIN al /\ c.id \in 1..Len(ve) /\ c.id # NoOrder /\ t \in Sides
  <2>1. Posts(ve, cs, al)
    BY DEF OrdersInv
  <2>2. c.id \in 1..Len(ve) /\ t \in Sides
    BY Shaped
  <2> QED BY <2>1, <2>2 DEF Posts, Post, NoOrder
<1>4. t \notin od => lv[t] = NoOrder
  BY <1>1 DEF Alone
<1>5. /\ DOMAIN bl = DOMAIN al \cup {c.id} /\ bl[c.id] = rec
      /\ \A i \in DOMAIN al : bl[i] = al[i] /\ i # c.id
  BY <1>3 DEF RecordBut
<1>6. mv[t] = c.id /\ \A s \in Sides : s # t => mv[s] = lv[s]
  BY DEF IndexBut
<1>7. \A i \in DOMAIN al : i \in 1..Len(ve) /\ ve[i].side \in Sides /\ i # NoOrder
  <2>1. DOMAIN al \subseteq 1..Len(ve) /\ \A i \in 1..Len(ve) : ve[i].side \in Sides
    BY Shaped
  <2> QED BY <2>1 DEF NoOrder
<1>8. t \notin od => Standing(c.id, bl)
  BY <1>5 DEF Standing
<1>9. \A i \in DOMAIN al : Standing(i, bl) <=> Standing(i, al)
  BY <1>5 DEF Standing
<1>10. \A i : Standing(i, al) => Standing(i, bl)
  BY <1>9 DEF Standing
<1>11. \A i : Posted(i, cs) /\ ve[i].side \notin od => i = c.id /\ Standing(i, bl)
  BY <1>2, <1>8 DEF Posted
<1>12. Pending(ve, fi, ds, bl, od)
  BY <1>1, <1>10, <1>11 DEF Pending
<1>13. Indexed(ve, bl, mv, od)
  <2>1. ASSUME NEW i \in DOMAIN al, ve[i].side \notin od
        PROVE  /\ Standing(i, bl) <=> mv[ve[i].side] = i
               /\ Standing(i, bl) => bl[i].filled = 0
    <3> HIDE DEF t
    <3>1. (Standing(i, al) <=> lv[ve[i].side] = i) /\ (Standing(i, al) => al[i].filled = 0)
      BY <1>1, <2>1 DEF Indexed
    <3>2. CASE ve[i].side = t
      BY <1>4, <1>5, <1>6, <1>7, <1>9, <2>1, <3>1, <3>2
    <3>3. CASE ve[i].side # t
      BY <1>5, <1>6, <1>7, <1>9, <3>1, <3>3
    <3> QED BY <3>2, <3>3
  <2>2. t \notin od => Standing(c.id, bl) /\ mv[ve[c.id].side] = c.id /\ bl[c.id].filled = 0
    BY <1>5, <1>6, <1>8
  <2> QED BY <1>5, <2>1, <2>2 DEF Indexed
<1>14. Alone(ve, ds, mv, od)
  BY <1>2 DEF Alone
<1>15. CancelledOnce(ve, ds, bl, od)
  BY <1>1, <1>10 DEF CancelledOnce
<1>16. Tracked(ve, ds, bl, od)
  BY <1>1, <1>10, <1>11 DEF Tracked
<1> QED BY <1>1, <1>12, <1>13, <1>14, <1>15, <1>16 DEF TameInv

\* A confirmed cancel is the first the manager hears of for its order.
LEMMA TameCancelled ==
  ASSUME NEW ve, NEW fi, NEW lo, NEW cs, NEW al, NEW lv, NEW od, NEW c, NEW bl, NEW mv, NEW rec,
         OrdersInv(ve, fi, lo, cs, al, lv), TameInv(ve, fi, cs, al, lv, od),
         c \in cs, c.reply = "ok",
         RecordBut(al, bl, c.id, rec), IndexBut(lv, mv, ve[c.id].side, NoOrder),
         rec.status = "CANCELLED"
  PROVE  TameInv(ve, fi, cs \ {c}, bl, mv, od)
<1> DEFINE ds == cs \ {c}
           t == ve[c.id].side
<1>1. /\ OnePiece(ve, od) /\ Pending(ve, fi, cs, al, od) /\ Indexed(ve, al, lv, od)
      /\ Alone(ve, cs, lv, od) /\ CancelledOnce(ve, cs, al, od) /\ Tracked(ve, cs, al, od)
  BY DEF TameInv
<1>2. /\ c.op = "delete" /\ c.id \in DOMAIN al
      /\ t \notin od => /\ ve[c.id].at = "gone" /\ ve[c.id].left = Lots /\ Standing(c.id, al)
                        /\ \A d \in cs : d.reply = "ok" /\ d.id = c.id => d = c
  BY Tamed
<1>3. /\ DOMAIN bl = DOMAIN al /\ bl[c.id].status = "CANCELLED"
      /\ \A i \in DOMAIN al : i # c.id => bl[i] = al[i]
  BY <1>2 DEF RecordBut
<1>4. mv[t] = NoOrder /\ \A s \in Sides : s # t => mv[s] = lv[s]
  BY DEF IndexBut
<1>5. \A i \in DOMAIN al : i \in 1..Len(ve) /\ ve[i].side \in Sides /\ i # NoOrder
  <2>1. DOMAIN al \subseteq 1..Len(ve) /\ \A i \in 1..Len(ve) : ve[i].side \in Sides
    BY Shaped
  <2> QED BY <2>1 DEF NoOrder
<1>6. t \notin od => lv[t] = c.id
  BY <1>1, <1>2 DEF Indexed
<1>7. ~Standing(c.id, bl) /\ \A i : i # c.id => (Standing(i, bl) <=> Standing(i, al))
  BY <1>3 DEF Standing
<1>8. \A i : Posted(i, cs) => Posted(i, ds)
  BY <1>2 DEF Posted
<1>9. Pending(ve, fi, ds, bl, od)
  <2>1. \A i \in 1..Len(fi) : ve[fi[i].id].side \notin od => fi[i].id # c.id
    BY <1>1, <1>2, Bounds DEF Pending
  <2> QED BY <1>1, <1>7, <1>8, <2>1 DEF Pending
<1>10. Indexed(ve, bl, mv, od)
  <2>1. SUFFICES ASSUME NEW i \in DOMAIN al, ve[i].side \notin od
                 PROVE  /\ Standing(i, bl) <=> mv[ve[i].side] = i
                        /\ Standing(i, bl) => bl[i].filled = 0
    BY <1>3 DEF Indexed
  <2>2. (Standing(i, al) <=> lv[ve[i].side] = i) /\ (Standing(i, al) => al[i].filled = 0)
    BY <1>1, <2>1 DEF Indexed
  <2>3. CASE i = c.id
    BY <1>4, <1>5, <1>7, <2>3
  <2>4. CASE i # c.id /\ ve[i].side = t
    <3> HIDE DEF t
    <3> QED BY <1>4, <1>5, <1>6, <1>7, <2>1, <2>2, <2>4
  <2>5. CASE i # c.id /\ ve[i].side # t
    <3> HIDE DEF t
    <3> QED BY <1>3, <1>4, <1>5, <1>7, <2>2, <2>5
  <2> QED BY <2>3, <2>4, <2>5
<1>11. Alone(ve, ds, mv, od)
  <2>1. SUFFICES ASSUME NEW d \in ds, d.op = "post", ve[d.id].side \notin od PROVE mv[ve[d.id].side] = NoOrder
    BY <1>1 DEF Alone
  <2>2. lv[ve[d.id].side] = NoOrder /\ ve[d.id].side \in Sides
    BY <1>1, <2>1, Shaped DEF Alone
  <2> HIDE DEF t
  <2> QED BY <1>4, <2>2
<1>12. CancelledOnce(ve, ds, bl, od)
  <2>1. SUFFICES ASSUME NEW d \in ds, d.reply = "ok", ve[d.id].side \notin od
                 PROVE  d.id # c.id
    BY <1>1, <1>7 DEF CancelledOnce
  <2> QED BY <1>2, <2>1
<1>13. Tracked(ve, ds, bl, od)
  BY <1>1, <1>2, <1>7, <1>8 DEF Tracked
<1> QED BY <1>1, <1>9, <1>10, <1>11, <1>12, <1>13 DEF TameInv

\* An event goes, and with it nothing else.
LEMMA TameDropped ==
  ASSUME NEW ve, NEW fi, NEW lo, NEW cs, NEW al, NEW lv, NEW od,
         OrdersInv(ve, fi, lo, cs, al, lv), TameInv(ve, fi, cs, al, lv, od), fi # <<>>
  PROVE  TameInv(ve, Tail(fi), cs, al, lv, od)
<1>1. Pending(ve, fi, cs, al, od)
  BY DEF TameInv
<1>2. /\ Len(fi) \in Nat \ {0} /\ Len(Tail(fi)) = Len(fi) - 1
      /\ \A i \in 1..Len(fi) - 1 : Tail(fi)[i] = fi[i + 1]
  BY Shaped, SeqTail
<1>3. Pending(ve, Tail(fi), cs, al, od)
  <2>1. SUFFICES ASSUME NEW i \in 1..Len(fi) - 1, ve[Tail(fi)[i].id].side \notin od
                 PROVE  /\ Tail(fi)[i].qty = Lots /\ ve[Tail(fi)[i].id].left = 0
                        /\ Standing(Tail(fi)[i].id, al) \/ Posted(Tail(fi)[i].id, cs)
                        /\ \A j \in 1..Len(fi) - 1 : Tail(fi)[j].id = Tail(fi)[i].id => j = i
    BY <1>2 DEF Pending
  <2>2. i + 1 \in 1..Len(fi) /\ Tail(fi)[i] = fi[i + 1]
    BY <1>2
  <2>3. /\ fi[i + 1].qty = Lots /\ ve[fi[i + 1].id].left = 0
        /\ Standing(fi[i + 1].id, al) \/ Posted(fi[i + 1].id, cs)
        /\ \A j \in 1..Len(fi) : fi[j].id = fi[i + 1].id => j = i + 1
    BY <1>1, <2>1, <2>2 DEF Pending
  <2>4. ASSUME NEW j \in 1..Len(fi) - 1, Tail(fi)[j].id = Tail(fi)[i].id PROVE j = i
    <3>1. j + 1 \in 1..Len(fi) /\ Tail(fi)[j] = fi[j + 1]
      BY <1>2
    <3>2. j + 1 = i + 1
      BY <2>2, <2>3, <2>4, <3>1
    <3> QED BY <3>2
  <2> QED BY <2>2, <2>3, <2>4
<1> QED BY <1>3 DEF TameInv

\* A fill of an odd side adds nothing to what is pending on the others.
LEMMA TameReported ==
  ASSUME NEW ve, NEW fi, NEW cs, NEW al, NEW lv, NEW od, NEW e,
         fi \in Seq(Events), TameInv(ve, fi, cs, al, lv, od), ve[e.id].side \in od
  PROVE  TameInv(ve, Append(fi, e), cs, al, lv, od)
<1> DEFINE gi == Append(fi, e)
<1>1. Pending(ve, fi, cs, al, od)
  BY DEF TameInv
<1>2. /\ Len(fi) \in Nat /\ Len(gi) = Len(fi) + 1 /\ gi[Len(fi) + 1] = e
      /\ \A i \in 1..Len(fi) : gi[i] = fi[i]
  BY SeqAppend
<1> HIDE DEF gi
<1>3. Pending(ve, gi, cs, al, od)
  <2>1. SUFFICES ASSUME NEW i \in 1..Len(fi) + 1, ve[gi[i].id].side \notin od
                 PROVE  /\ gi[i].qty = Lots /\ ve[gi[i].id].left = 0
                        /\ Standing(gi[i].id, al) \/ Posted(gi[i].id, cs)
                        /\ \A j \in 1..Len(fi) + 1 : gi[j].id = gi[i].id => j = i
    BY <1>2 DEF Pending
  <2>2. i \in 1..Len(fi) /\ gi[i] = fi[i]
    BY <1>2, <2>1
  <2>3. /\ fi[i].qty = Lots /\ ve[fi[i].id].left = 0
        /\ Standing(fi[i].id, al) \/ Posted(fi[i].id, cs)
        /\ \A j \in 1..Len(fi) : fi[j].id = fi[i].id => j = i
    BY <1>1, <2>1, <2>2 DEF Pending
  <2>4. ASSUME NEW j \in 1..Len(fi) + 1, gi[j].id = gi[i].id PROVE j = i
    <3>1. j \in 1..Len(fi)
      <4>1. j # Len(fi) + 1
        BY <1>2, <2>1, <2>4
      <4> QED BY <1>2, <4>1
    <3> QED BY <1>2, <2>2, <2>3, <2>4, <3>1
  <2> QED BY <2>2, <2>3, <2>4
<1> QED BY <1>3 DEF TameInv, gi

\* A fill is read: its order leaves the index, and no other does, if its side
\* is not odd.
LEMMA TameRead ==
  ASSUME NEW ve, NEW fi, NEW lo, NEW cs, NEW al, NEW lv, NEW od, NEW bl, NEW mv, NEW rec, NEW x,
         OrdersInv(ve, fi, lo, cs, al, lv), TameInv(ve, fi, cs, al, lv, od), fi # <<>>,
         Head(fi).id \in DOMAIN al,
         RecordBut(al, bl, Head(fi).id, rec), IndexBut(lv, mv, ve[Head(fi).id].side, x),
         ve[Head(fi).id].side \notin od => rec.status = "FILLED" /\ x = NoOrder
  PROVE  TameInv(ve, Tail(fi), cs, bl, mv, od)
<1> DEFINE n == Head(fi).id
           t == ve[n].side
           gi == Tail(fi)
<1>1. TameInv(ve, gi, cs, al, lv, od)
  BY TameDropped
<1>2. /\ OnePiece(ve, od) /\ Pending(ve, gi, cs, al, od) /\ Indexed(ve, al, lv, od)
      /\ Alone(ve, cs, lv, od) /\ CancelledOnce(ve, cs, al, od) /\ Tracked(ve, cs, al, od)
  BY <1>1 DEF TameInv
<1>3. /\ Len(fi) \in Nat \ {0} /\ Len(gi) = Len(fi) - 1 /\ Head(fi) = fi[1]
      /\ \A i \in 1..Len(fi) - 1 : gi[i] = fi[i + 1]
  BY Shaped, SeqTail
<1>4. /\ n \in 1..Len(ve) /\ ~Posted(n, cs)
      /\ t \notin od => /\ ve[n].left = 0 /\ ve[n].at = "gone" /\ Standing(n, al)
                        /\ \A j \in 1..Len(fi) : fi[j].id = n => j = 1
  <2>1. 1 \in 1..Len(fi)
    BY <1>3
  <2>2. ~Posted(n, cs) /\ n \in 1..Len(ve)
    BY Tamed
  <2>3. ve[fi[1].id].side \notin od =>
        /\ ve[fi[1].id].left = 0 /\ ve[fi[1].id].at = "gone"
        /\ Standing(fi[1].id, al) \/ Posted(fi[1].id, cs)
        /\ \A j \in 1..Len(fi) : fi[j].id = fi[1].id => j = 1
    BY <2>1, Tamed
  <2> QED BY <1>3, <2>2, <2>3
<1>5. t \notin od => \A i \in 1..Len(gi) : gi[i].id # n
  <2>1. SUFFICES ASSUME t \notin od, NEW i \in 1..Len(fi) - 1 PROVE gi[i].id # n
    BY <1>3
  <2>2. i + 1 \in 1..Len(fi) /\ i + 1 # 1 /\ gi[i] = fi[i + 1]
    BY <1>3
  <2> QED BY <1>4, <2>1, <2>2
<1>6. n \in DOMAIN al /\ RecordBut(al, bl, n, rec) /\ IndexBut(lv, mv, t, x)
  OBVIOUS
<1>7. t \notin od => lv[t] = n
  BY <1>2, <1>4, <1>6 DEF Indexed
<1>8. \A i \in DOMAIN al : i \in 1..Len(ve) /\ ve[i].side \in Sides /\ i # NoOrder
  <2>1. DOMAIN al \subseteq 1..Len(ve) /\ \A i \in 1..Len(ve) : ve[i].side \in Sides
    BY Shaped
  <2> QED BY <2>1 DEF NoOrder
<1>9. \A d \in cs : d.op = "post" => ve[d.id].side \in Sides
  BY Shaped
<1>10. t \notin od => rec.status = "FILLED" /\ x = NoOrder
  OBVIOUS
<1>11. DOMAIN bl = DOMAIN al /\ bl[n] = rec /\ \A i \in DOMAIN al : i # n => bl[i] = al[i]
  BY <1>6 DEF RecordBut
<1>12. mv[t] = x /\ \A s \in Sides : s # t => mv[s] = lv[s]
  BY <1>6 DEF IndexBut
<1> HIDE DEF n, gi
<1>13. t \notin od => ~Standing(n, bl)
  BY <1>10, <1>11 DEF Standing
<1>14. \A i : i # n => (Standing(i, bl) <=> Standing(i, al))
  BY <1>11 DEF Standing
<1>15. Pending(ve, gi, cs, bl, od)
  BY <1>2, <1>5, <1>14 DEF Pending
<1>16. Indexed(ve, bl, mv, od)
  <2>1. SUFFICES ASSUME NEW i \in DOMAIN al, ve[i].side \notin od
                 PROVE  /\ Standing(i, bl) <=> mv[ve[i].side] = i
                        /\ Standing(i, bl) => bl[i].filled = 0
    BY <1>11 DEF Indexed
  <2>2. (Standing(i, al) <=> lv[ve[i].side] = i) /\ (Standing(i, al) => al[i].filled = 0)
    BY <1>2, <2>1 DEF Indexed
  <2>3. CASE i = n
    BY <1>8, <1>10, <1>12, <1>13, <2>1, <2>3
  <2>4. CASE i # n /\ ve[i].side = t
    <3> HIDE DEF t
    <3> QED BY <1>7, <1>8, <1>10, <1>12, <1>14, <2>1, <2>2, <2>4
  <2>5. CASE i # n /\ ve[i].side # t
    <3> HIDE DEF t
    <3> QED BY <1>8, <1>11, <1>12, <1>14, <2>2, <2>5
  <2> QED BY <2>3, <2>4, <2>5
<1>17. Alone(ve, cs, mv, od)
  <2>1. SUFFICES ASSUME NEW d \in cs, d.op = "post", ve[d.id].side \notin od PROVE mv[ve[d.id].side] = NoOrder
    BY <1>2 DEF Alone
  <2>2. lv[ve[d.id].side] = NoOrder /\ ve[d.id].side \in Sides
    BY <1>2, <1>9, <2>1 DEF Alone
  <2> HIDE DEF t
  <2> QED BY <1>10, <1>12, <2>1, <2>2
<1>18. CancelledOnce(ve, cs, bl, od)
  <2>1. \A c \in cs : c.reply = "ok" /\ ve[c.id].side \notin od => c.id # n
    BY <1>2, <1>4, Bounds DEF CancelledOnce
  <2> QED BY <1>2, <1>14, <2>1 DEF CancelledOnce
<1>19. Tracked(ve, cs, bl, od)
  <2>1. SUFFICES ASSUME NEW i \in 1..Len(ve), ve[i].side \notin od, ve[i].at # "gone"
                 PROVE  i # n
    BY <1>2, <1>14 DEF Tracked
  <2> QED BY <1>4, <2>1
<1> QED BY <1>2, <1>15, <1>16, <1>17, <1>18, <1>19 DEF TameInv, gi

\* A call is answered, if somebody waits for it; a POST, before its order trades.
Answered(cs, c, r) == (cs \ {c}) \cup (IF c.by = "nobody" THEN {} ELSE {Replied(c, r)})
Untraded(ve, c, left, at, r) ==
  /\ left = ve[c.id].left /\ at \in {"resting", "gone"}
  /\ r \in {"live", "delayed", "error"} /\ (r = "error" => at = "gone")

\* The exchange answers a POST, of an order that is not traded or of an odd side.
LEMMA TamePostAnswered ==
  ASSUME NEW ve, NEW fi, NEW lo, NEW cs, NEW al, NEW lv, NEW od, NEW we, NEW c, NEW at, NEW r,
         NEW left, NEW ds,
         OrdersInv(ve, fi, lo, cs, al, lv), TameInv(ve, fi, cs, al, lv, od),
         c \in cs, c.op = "post", c.reply = "none",
         VenueBut(ve, we, c.id, left, at), r \in Replies, r # "ok", ds = Answered(cs, c, r),
         ve[c.id].side \notin od => Untraded(ve, c, left, at, r)
  PROVE  TameInv(we, fi, ds, al, lv, od)
<1> DEFINE e == Replied(c, r)
           t == ve[c.id].side
<1>1. /\ OnePiece(ve, od) /\ Pending(ve, fi, cs, al, od) /\ Indexed(ve, al, lv, od)
      /\ Alone(ve, cs, lv, od) /\ CancelledOnce(ve, cs, al, od) /\ Tracked(ve, cs, al, od)
  BY DEF TameInv
<1>2. Post(c, ve, cs, al) /\ Posts(ve, cs, al)
  BY DEF OrdersInv, Posts
<1>3. c \in Requests /\ c.id \in 1..Len(ve) /\ DOMAIN al \subseteq 1..Len(ve)
  BY Shaped
<1>4. e.by = c.by /\ e.op = "post" /\ e.id = c.id /\ e.reply = r
  BY <1>3, RequestIs
<1>5. /\ Len(we) = Len(ve)
      /\ \A i \in 1..Len(ve) : we[i].side = ve[i].side /\ (i # c.id => we[i] = ve[i])
      /\ we[c.id].at = at /\ we[c.id].left = left
  BY DEF VenueBut
<1>6. ve[c.id].left = Lots
  BY <1>2 DEF Post
<1>7. t \notin od => c.by = "strategy" /\ lv[t] = NoOrder
  BY <1>1 DEF Alone
<1>8. \A d \in ds : d \in cs \ {c} \/ d = e
  BY DEF Answered
<1>9. /\ t \notin od => ds = (cs \ {c}) \cup {e}
      /\ \A d \in cs \ {c} : d \in ds
  BY <1>7 DEF Answered
<1>10. t \notin od => /\ left = ve[c.id].left /\ at \in {"resting", "gone"}
                      /\ r \in {"live", "delayed", "error"} /\ (r = "error" => at = "gone")
  BY DEF Untraded
<1>11. r # "ok"
  OBVIOUS
<1> HIDE DEF e
<1>12. \A i : Posted(i, cs) /\ ve[i].side \notin od => Posted(i, ds)
  BY <1>4, <1>9 DEF Posted
<1>13. OnePiece(we, od)
  BY <1>1, <1>5, <1>6, <1>10 DEF OnePiece
<1>14. Pending(we, fi, ds, al, od)
  <2>1. \A i \in 1..Len(fi) : fi[i].id \in 1..Len(ve)
    BY Shaped
  <2>2. \A i \in 1..Len(ve) : we[i].side = ve[i].side /\ (ve[i].side \notin od => we[i].left = ve[i].left)
    BY <1>5, <1>10
  <2> QED BY <1>1, <1>12, <2>1, <2>2 DEF Pending
<1>15. Indexed(we, al, lv, od)
  BY <1>1, <1>3, <1>5 DEF Indexed
<1>16. Alone(we, ds, lv, od)
  <2>1. ASSUME NEW d \in cs, d # c, d.op = "post", we[d.id].side \notin od
        PROVE  /\ d.by = "strategy" /\ lv[we[d.id].side] = NoOrder /\ d.reply # "matched"
               /\ d.reply = "error" => we[d.id].at = "gone" /\ we[d.id].left = Lots
    <3>1. d.id # c.id /\ d.id \in 1..Len(ve)
      BY <1>2, <2>1, Shaped DEF Post
    <3> QED BY <1>1, <1>5, <2>1, <3>1 DEF Alone
  <2>2. we[e.id].side \notin od =>
        /\ e.by = "strategy" /\ lv[we[e.id].side] = NoOrder /\ e.reply # "matched"
        /\ e.reply = "error" => we[e.id].at = "gone" /\ we[e.id].left = Lots
    BY <1>3, <1>4, <1>5, <1>6, <1>7, <1>10
  <2> QED BY <1>8, <2>1, <2>2 DEF Alone
<1>17. CancelledOnce(we, ds, al, od)
  <2>1. \A d \in cs : d.reply = "ok" => d.id # c.id /\ d.id \in 1..Len(ve)
    <3>1. \A d \in cs : d.reply = "ok" => d.id \in DOMAIN al
      BY Tamed
    <3>2. c.id \notin DOMAIN al
      BY <1>2 DEF Post
    <3> QED BY <1>3, <3>1, <3>2
  <2>2. \A d \in ds : d.reply = "ok" => d \in cs
    BY <1>4, <1>8, <1>11
  <2> QED BY <1>1, <1>5, <2>1, <2>2 DEF CancelledOnce
<1>18. Tracked(we, ds, al, od)
  <2>1. t \notin od => Posted(c.id, ds)
    BY <1>4, <1>9 DEF Posted
  <2> QED BY <1>1, <1>5, <1>12, <2>1 DEF Tracked
<1> QED BY <1>13, <1>14, <1>15, <1>16, <1>17, <1>18 DEF TameInv

\* The exchange answers a DELETE: "ok" for an order that was there, or of an
\* odd side.
LEMMA TameDeleteAnswered ==
  ASSUME NEW ve, NEW fi, NEW lo, NEW cs, NEW al, NEW lv, NEW od, NEW we, NEW c, NEW r, NEW ds,
         OrdersInv(ve, fi, lo, cs, al, lv), TameInv(ve, fi, cs, al, lv, od),
         c \in cs, c.op = "delete", c.reply = "none",
         VenueBut(ve, we, c.id, ve[c.id].left, "gone"), r \in {"ok", "error"},
         ve[c.id].side \notin od /\ r = "ok" => ve[c.id].at = "resting",
         ds = Answered(cs, c, r)
  PROVE  TameInv(we, fi, ds, al, lv, od)
<1>1. /\ OnePiece(ve, od) /\ Pending(ve, fi, cs, al, od) /\ Indexed(ve, al, lv, od)
      /\ Alone(ve, cs, lv, od) /\ CancelledOnce(ve, cs, al, od) /\ Tracked(ve, cs, al, od)
  BY DEF TameInv
<1>2. c \in Requests /\ c.id \in 1..Len(ve) /\ DOMAIN al \subseteq 1..Len(ve)
  BY Shaped
<1>3. c.id \in DOMAIN al /\ ~Posted(c.id, cs)
  <2>1. Deletes(cs, al)
    BY DEF OrdersInv
  <2>2. c.id \in DOMAIN al
    BY <2>1 DEF Deletes
  <2> QED BY <2>2, Tamed
<1>4. /\ Len(we) = Len(ve)
      /\ \A i \in 1..Len(ve) : /\ we[i].side = ve[i].side /\ we[i].left = ve[i].left
                               /\ i # c.id => we[i] = ve[i]
      /\ we[c.id].at = "gone"
  BY DEF VenueBut
<1>5. \A d \in ds : d \in cs \/ /\ d.id = c.id /\ d.op = "delete" /\ d.reply = r
  BY <1>2, RequestIs DEF Replies, Answered
<1>6. \A d, e \in ds : d \notin cs /\ e \notin cs => d = e
  BY DEF Answered
<1>7. \A d \in cs : d # c => d \in ds
  BY DEF Answered
<1>8. \A i : Posted(i, cs) => Posted(i, ds)
  BY <1>7 DEF Posted
<1>9. \A i \in 1..Len(ve) : we[i].at # "gone" => ve[i] = we[i]
  BY <1>4
<1>10. ve[c.id].side \notin od /\ r = "ok" => ve[c.id].at = "resting"
  OBVIOUS
<1>11. OnePiece(we, od) /\ Tracked(we, ds, al, od)
  <2>1. OnePiece(we, od)
    BY <1>1, <1>4, <1>9 DEF OnePiece
  <2>2. Tracked(we, ds, al, od)
    <3>1. \A i \in 1..Len(ve) : we[i].side \notin od /\ we[i].at # "gone" => ve[i].side \notin od /\ ve[i].at # "gone"
      BY <1>4, <1>9
    <3> QED BY <1>1, <1>4, <1>8, <3>1 DEF Tracked
  <2> QED BY <2>1, <2>2
<1>12. Pending(we, fi, ds, al, od)
  <2>1. \A i \in 1..Len(fi) : fi[i].id \in 1..Len(ve)
    BY Shaped
  <2> QED BY <1>1, <1>4, <1>8, <2>1 DEF Pending
<1>13. Indexed(we, al, lv, od)
  BY <1>1, <1>2, <1>4 DEF Indexed
<1>14. Alone(we, ds, lv, od)
  <2>1. SUFFICES ASSUME NEW d \in ds, d.op = "post", we[d.id].side \notin od
                 PROVE  /\ d.by = "strategy" /\ lv[we[d.id].side] = NoOrder /\ d.reply # "matched"
                        /\ d.reply = "error" => we[d.id].at = "gone" /\ we[d.id].left = Lots
    BY DEF Alone
  <2>2. d \in cs
    BY <1>5, <2>1
  <2>3. d.id \in 1..Len(ve)
    BY <2>2, Shaped
  <2>4. /\ d.by = "strategy" /\ lv[ve[d.id].side] = NoOrder /\ d.reply # "matched"
        /\ d.reply = "error" => ve[d.id].at = "gone" /\ ve[d.id].left = Lots
    BY <1>1, <1>4, <2>1, <2>2, <2>3 DEF Alone
  <2> QED BY <1>4, <2>3, <2>4
<1>15. CancelledOnce(we, ds, al, od)
  <2>1. SUFFICES ASSUME NEW d \in ds, d.reply = "ok", we[d.id].side \notin od
                 PROVE  /\ we[d.id].at = "gone" /\ we[d.id].left = Lots /\ Standing(d.id, al)
                        /\ \A e \in ds : e.reply = "ok" /\ e.id = d.id => e = d
    BY DEF CancelledOnce
  <2>2. CASE d \in cs
    <3>1. d.id \in 1..Len(ve)
      BY <2>2, Shaped
    <3>2. /\ ve[d.id].side \notin od /\ ve[d.id].at = "gone" /\ ve[d.id].left = Lots /\ Standing(d.id, al)
          /\ \A e \in cs : e.reply = "ok" /\ e.id = d.id => e = d
      BY <1>1, <1>4, <2>1, <2>2, <3>1 DEF CancelledOnce
    <3>3. ASSUME NEW e \in ds, e.reply = "ok", e.id = d.id PROVE e = d
      <4>1. e \in cs
        BY <1>5, <1>10, <3>2, <3>3
      <4> QED BY <3>2, <3>3, <4>1
    <3> QED BY <1>4, <3>1, <3>2, <3>3
  <2>3. CASE d \notin cs
    <3>1. d.id = c.id /\ ve[c.id].side \notin od /\ ve[c.id].at = "resting"
      BY <1>2, <1>4, <1>5, <1>10, <2>1, <2>3
    <3>2. ve[c.id].left = Lots /\ Standing(c.id, al)
      BY <1>1, <1>2, <1>3, <3>1 DEF OnePiece, Tracked
    <3>3. \A e \in cs : e.reply = "ok" => e.id # c.id
      BY <1>1, <3>1 DEF CancelledOnce
    <3> QED BY <1>2, <1>4, <1>6, <2>3, <3>1, <3>2, <3>3
  <2> QED BY <2>2, <2>3
<1> QED BY <1>11, <1>12, <1>13, <1>14, <1>15 DEF TameInv

\* An order that rests trades, in one piece or on an odd side.
LEMMA TameSold ==
  ASSUME NEW ve, NEW fi, NEW lo, NEW cs, NEW al, NEW lv, NEW od, NEW we, NEW id, NEW e,
         NEW left, NEW at,
         OrdersInv(ve, fi, lo, cs, al, lv), TameInv(ve, fi, cs, al, lv, od),
         id \in 1..Len(ve), ve[id].at = "resting", VenueBut(ve, we, id, left, at),
         e \in Events, e.id = id,
         ve[id].side \notin od => left = 0 /\ at = "gone" /\ e.qty = Lots
  PROVE  TameInv(we, Append(fi, e), cs, al, lv, od)
<1> DEFINE gi == Append(fi, e)
           t == ve[id].side
<1>1. /\ OnePiece(ve, od) /\ Pending(ve, fi, cs, al, od) /\ Indexed(ve, al, lv, od)
      /\ Alone(ve, cs, lv, od) /\ CancelledOnce(ve, cs, al, od) /\ Tracked(ve, cs, al, od)
  BY DEF TameInv
<1>2. /\ Len(we) = Len(ve) /\ we[id].at = at /\ we[id].left = left
      /\ \A i \in 1..Len(ve) : we[i].side = ve[i].side /\ (i # id => we[i] = ve[i])
      /\ t \notin od => left = 0 /\ at = "gone" /\ e.qty = Lots
  BY DEF VenueBut
<1>3. t \notin od => ve[id].left = Lots /\ Lots # 0 /\ (Standing(id, al) \/ Posted(id, cs))
  BY <1>1, Bounds DEF OnePiece, Tracked
<1>4. DOMAIN al \subseteq 1..Len(ve) /\ \A d \in cs : d.id \in 1..Len(ve)
  BY Shaped
<1>5. /\ fi \in Seq(Events) /\ Len(fi) \in Nat /\ Len(gi) = Len(fi) + 1 /\ gi[Len(fi) + 1] = e
      /\ \A i \in 1..Len(fi) : gi[i] = fi[i] /\ fi[i].id \in 1..Len(ve)
  BY Shaped, SeqAppend
<1> HIDE DEF gi
<1>6. OnePiece(we, od) /\ Tracked(we, cs, al, od)
  <2>1. \A i \in 1..Len(ve) : ve[i].side \notin od => we[i] = ve[i] \/ (we[i].left = 0 /\ we[i].at = "gone")
    BY <1>2
  <2> QED BY <1>1, <1>2, <2>1 DEF OnePiece, Tracked
<1>7. Pending(we, gi, cs, al, od)
  <2>1. \A i \in 1..Len(fi) : ve[fi[i].id].side \notin od =>
          /\ fi[i].qty = Lots /\ ve[fi[i].id].left = 0
          /\ Standing(fi[i].id, al) \/ Posted(fi[i].id, cs)
          /\ \A j \in 1..Len(fi) : fi[j].id = fi[i].id => j = i
    BY <1>1 DEF Pending
  <2>2. \A i \in 1..Len(fi) : ve[fi[i].id].side \notin od => fi[i].id # id /\ we[fi[i].id].left = 0
    BY <1>2, <1>3, <1>5, <2>1
  <2>3. SUFFICES ASSUME NEW i \in 1..Len(fi) + 1, we[gi[i].id].side \notin od
                 PROVE  /\ gi[i].qty = Lots /\ we[gi[i].id].left = 0
                        /\ Standing(gi[i].id, al) \/ Posted(gi[i].id, cs)
                        /\ \A j \in 1..Len(fi) + 1 : gi[j].id = gi[i].id => j = i
    BY <1>5 DEF Pending
  <2>4. \A j \in 1..Len(fi) + 1 : j \in 1..Len(fi) \/ j = Len(fi) + 1
    BY <1>5
  <2>5. CASE i \in 1..Len(fi)
    <3>1. gi[i] = fi[i] /\ ve[fi[i].id].side \notin od
      BY <1>2, <1>5, <2>3, <2>5
    <3>2. ASSUME NEW j \in 1..Len(fi) + 1, gi[j].id = gi[i].id PROVE j = i
      <4>1. j # Len(fi) + 1
        BY <1>5, <2>2, <2>5, <3>1, <3>2
      <4>2. j \in 1..Len(fi) /\ gi[j] = fi[j]
        BY <1>5, <2>4, <4>1
      <4> QED BY <2>1, <2>5, <3>1, <3>2, <4>2
    <3> QED BY <2>1, <2>2, <2>5, <3>1, <3>2
  <2>6. CASE i = Len(fi) + 1
    <3>1. gi[i] = e /\ t \notin od
      BY <1>2, <1>5, <2>3, <2>6
    <3>2. ASSUME NEW j \in 1..Len(fi) + 1, gi[j].id = gi[i].id PROVE j = i
      <4>1. j \notin 1..Len(fi)
        <5>1. SUFFICES ASSUME j \in 1..Len(fi) PROVE FALSE
          OBVIOUS
        <5>2. fi[j].id = id
          BY <1>5, <3>1, <3>2, <5>1
        <5> QED BY <2>2, <3>1, <5>1, <5>2
      <4> QED BY <2>4, <2>6, <4>1
    <3> QED BY <1>2, <1>3, <3>1, <3>2
  <2> QED BY <2>4, <2>5, <2>6
<1>8. Indexed(we, al, lv, od)
  BY <1>1, <1>2, <1>4 DEF Indexed
<1>9. Alone(we, cs, lv, od)
  <2>1. SUFFICES ASSUME NEW c \in cs, c.op = "post", we[c.id].side \notin od
                 PROVE  /\ c.by = "strategy" /\ lv[we[c.id].side] = NoOrder /\ c.reply # "matched"
                        /\ c.reply = "error" => we[c.id].at = "gone" /\ we[c.id].left = Lots
    BY DEF Alone
  <2>2. we[c.id].side = ve[c.id].side
    BY <1>2, <1>4
  <2>3. /\ c.by = "strategy" /\ lv[ve[c.id].side] = NoOrder /\ c.reply # "matched"
        /\ c.reply = "error" => ve[c.id].at = "gone" /\ ve[c.id].left = Lots
    BY <1>1, <2>1, <2>2 DEF Alone
  <2>4. c.reply = "error" => c.id # id
    BY <2>3
  <2> QED BY <1>2, <1>4, <2>2, <2>3, <2>4
<1>10. CancelledOnce(we, cs, al, od)
  <2>1. \A c \in cs : c.reply = "ok" /\ ve[c.id].side \notin od => c.id # id
    BY <1>1 DEF CancelledOnce
  <2>2. \A c \in cs : c.reply = "ok" /\ we[c.id].side \notin od =>
          ve[c.id].side \notin od /\ we[c.id] = ve[c.id]
    BY <1>2, <1>4, <2>1
  <2> QED BY <1>1, <2>2 DEF CancelledOnce
<1> QED BY <1>6, <1>7, <1>8, <1>9, <1>10 DEF TameInv, gi

\* On a side that is not odd at most one order may still change the position.
LEMMA OneOutstanding ==
  ASSUME NEW ve, NEW fi, NEW lo, NEW cs, NEW al, NEW lv, NEW od, NEW i \in 1..Len(ve), NEW j \in 1..Len(ve),
         OrdersInv(ve, fi, lo, cs, al, lv), TameInv(ve, fi, cs, al, lv, od),
         \A c, d \in cs : c.by = "strategy" /\ c.op = "post" /\ d.by = "strategy" /\ d.op = "post" => c = d,
         ve[i].side = ve[j].side, ve[i].side \notin od,
         ve[i].at # "gone" \/ Reported(i, fi), ve[j].at # "gone" \/ Reported(j, fi)
  PROVE  i = j
<1>1. ASSUME NEW k \in 1..Len(ve), ve[k].side \notin od, ve[k].at # "gone" \/ Reported(k, fi)
      PROVE  (Posted(k, cs) /\ lv[ve[k].side] = NoOrder) \/ (lv[ve[k].side] = k /\ k # NoOrder)
  <2>1. Standing(k, al) \/ Posted(k, cs)
    BY <1>1, Tamed DEF Reported
  <2>2. Standing(k, al) => lv[ve[k].side] = k
    BY <1>1, Tamed DEF Standing
  <2>3. k # NoOrder
    BY DEF NoOrder
  <2>4. Posted(k, cs) => lv[ve[k].side] = NoOrder
    BY <1>1, Tamed DEF Posted
  <2> QED BY <2>1, <2>2, <2>3, <2>4
<1>2. Posted(i, cs) /\ Posted(j, cs) => i = j
  <2>1. \A c \in cs : c.op = "post" /\ ve[c.id].side \notin od => c.by = "strategy"
    BY Tamed
  <2> QED BY <2>1 DEF Posted
<1> QED BY <1>1, <1>2

-----------------------------------------------------------------------------
(* The pieces the actions are made of.                                     *)

\* A call that ends leaves the others as they are.
LEMMA Ended ==
  ASSUME NEW ve, NEW fi, NEW lo, NEW cs, NEW al, NEW lv, NEW c \in cs,
         OrdersInv(ve, fi, lo, cs, al, lv)
  PROVE  Drawn(cs \ {c}, cs)
<1>1. Posts(ve, cs, al)
  BY DEF OrdersInv
<1> QED BY <1>1 DEF Drawn, Posts, Post

\* A caller that gives up leaves its request to run on, if nothing answered it.
GivenUp(c, cs) == (cs \ {c}) \cup (IF c.reply = "none" THEN {Orphan(c)} ELSE {})

\* Whoever gives a call up, the other calls are as before.
LEMMA GaveUp ==
  ASSUME NEW ve, NEW fi, NEW lo, NEW cs, NEW al, NEW lv, NEW c \in cs,
         OrdersInv(ve, fi, lo, cs, al, lv)
  PROVE  /\ Drawn(GivenUp(c, cs), cs)
         /\ \A d \in GivenUp(c, cs) : d \in cs \ {c} \/ (c.reply = "none" /\ d = Orphan(c))
         /\ Orphan(c).by = "nobody" /\ Orphan(c).op = c.op /\ Orphan(c).id = c.id
<1> DEFINE ds == GivenUp(c, cs)
<1>1. Posts(ve, cs, al)
  BY DEF OrdersInv
<1>2. c \in Requests
  BY Shaped
<1>3. Orphan(c).op = c.op /\ Orphan(c).id = c.id /\ Orphan(c).by = "nobody"
  BY <1>2, RequestIs
<1>4. \A d \in ds : d \in cs \ {c} \/ (c.reply = "none" /\ d = Orphan(c))
  BY DEF GivenUp
<1> HIDE DEF ds
<1>5. ASSUME NEW d \in ds, NEW e \in ds, d.op = "post", e.id = d.id PROVE e = d
  <2>1. CASE d \in cs \ {c}
    BY <1>1, <1>3, <1>4, <1>5, <2>1 DEF Posts, Post
  <2>2. CASE d = Orphan(c)
    BY <1>1, <1>3, <1>4, <1>5, <2>2 DEF Posts, Post
  <2> QED BY <1>4, <2>1, <2>2
<1>6. Drawn(ds, cs)
  BY <1>4, <1>5 DEF Drawn
<1> QED BY <1>3, <1>4, <1>6 DEF ds

\* When the process ends, all it asked for runs on and nobody hears of it.
LEMMA AllGaveUp ==
  ASSUME NEW ve, NEW fi, NEW lo, NEW cs, NEW al, NEW lv,
         OrdersInv(ve, fi, lo, cs, al, lv)
  PROVE  LET ds == {Orphan(d) : d \in {e \in cs : e.reply = "none"}}
         IN  Drawn(ds, cs) /\ NoneOf(ds)
<1> DEFINE ds == {Orphan(d) : d \in {e \in cs : e.reply = "none"}}
<1>1. Posts(ve, cs, al)
  BY DEF OrdersInv
<1>2. \A d \in cs : d \in Requests
  BY Shaped
<1>3. \A d \in cs : Orphan(d).op = d.op /\ Orphan(d).id = d.id /\ Orphan(d).by = "nobody"
  BY <1>2, RequestIs
<1>4. \A d \in ds : \E c \in cs : d = Orphan(c) /\ c.reply = "none"
  OBVIOUS
<1> HIDE DEF ds
<1>5. ASSUME NEW d \in ds, NEW e \in ds, d.op = "post", e.id = d.id PROVE e = d
  <2>1. PICK c \in cs, b \in cs : d = Orphan(c) /\ e = Orphan(b)
    BY <1>4
  <2> QED BY <1>1, <1>3, <1>5, <2>1 DEF Posts, Post
<1>6. Drawn(ds, cs) /\ NoneOf(ds)
  BY <1>3, <1>4, <1>5 DEF Drawn, NoneOf
<1> QED BY <1>6 DEF ds

\* The order a POST sends.
NewOrder(s, q) == [side |-> s, price |-> RoundToTick(QuotePrice(q, s), Tick), left |-> Lots, at |-> "sent"]
Posting(ve, cs) == cs \cup {Call("strategy", "post", Len(ve) + 1)}
Deleting(id, cs) == cs \cup {Call("strategy", "delete", id)}

\* It is an order of the exchange.
LEMMA NewOrderIs ==
  ASSUME NEW s \in Sides, NEW q \in Quotes
  PROVE  /\ NewOrder(s, q) \in Orders
         /\ NewOrder(s, q).side = s /\ NewOrder(s, q).left = Lots /\ NewOrder(s, q).at = "sent"
         /\ NewOrder(s, q).price = RoundToTick(QuotePrice(q, s), Tick)
<1>1. RoundToTick(QuotePrice(q, s), Tick) \in Int
  BY PriceIsWhole
<1>2. Lots \in 0..Lots
  BY Bounds
<1> QED BY <1>1, <1>2 DEF NewOrder, Orders

\* Sending one appends it to those the exchange has seen.
LEMMA Sends ==
  ASSUME NEW s \in Sides, NEW q \in Quotes, NEW cs, venue \in Seq(Orders), SendPost(s, q, cs)
  PROVE  Grown(venue, venue', NewOrder(s, q)) /\ calls' = Posting(venue, cs)
<1>1. NewOrder(s, q) \in Orders
  BY NewOrderIs
<1>2. PICK o \in Orders : o = NewOrder(s, q)
  BY <1>1
<1>3. venue' = Append(venue, o) /\ calls' = Posting(venue, cs)
  BY <1>2 DEF SendPost, NewOrder, Posting
<1>4. /\ Append(venue, o) \in Seq(Orders) /\ Len(Append(venue, o)) = Len(venue) + 1
      /\ Append(venue, o)[Len(venue) + 1] = o
      /\ \A i \in 1..Len(venue) : Append(venue, o)[i] = venue[i]
  OBVIOUS
<1> QED BY <1>2, <1>3, <1>4 DEF Grown

\* What the rest of an update comes to: it ends, it posts, or it cancels.
Ends(cs) == task' = Idle /\ calls' = cs /\ venue' = venue
Places(s, q, lv, al, cs) ==
  /\ Len(venue) < MaxOrders
  /\ lv[s] = NoOrder \/ al[lv[s]].status \notin {"OPEN", "PENDING"}
  /\ Grown(venue, venue', NewOrder(s, q)) /\ calls' = Posting(venue, cs)
Cancels(s, lv, al, cs) ==
  /\ lv[s] # NoOrder /\ al[lv[s]].status \in {"OPEN", "PENDING"}
  /\ calls' = Deleting(lv[s], cs) /\ venue' = venue

\* The three ways the rest of an update goes: nothing, a POST, a cancel.
LEMMA ProceedOutcome ==
  ASSUME NEW todo \in SUBSET Sides, NEW q \in Quotes, NEW al, NEW lv, NEW cs,
         venue \in Seq(Orders), Proceed(todo, q, al, lv, cs)
  PROVE  \/ Ends(cs)
         \/ \E s \in todo : /\ ~StpBlocks(s, q, al, lv)
                            /\ task' = Quoting(q, {"SELL"} \ {s})
                            /\ Places(s, q, lv, al, cs) \/ Cancels(s, lv, al, cs)
<1>1. PICK young \in SUBSET {s \in Sides : lv[s] # NoOrder} :
        LET awaited == IF CanSign THEN {"post", "cancel"} ELSE {"cancel"}
            due == {s \in todo : Decision(s, q, al, lv, young) \in awaited}
            first == IF "BUY" \in due THEN "BUY" ELSE "SELL"
        IN  \/ due = {} /\ task' = Idle /\ calls' = cs /\ UNCHANGED venue
            \/ /\ due # {}
               /\ task' = Quoting(q, {"SELL"} \ {first})
               /\ IF Decision(first, q, al, lv, young) = "post"
                  THEN SendPost(first, q, cs)
                  ELSE SendDeletes("strategy", {lv[first]}, cs) /\ UNCHANGED venue
  BY DEF Proceed
<1> DEFINE awaited == IF CanSign THEN {"post", "cancel"} ELSE {"cancel"}
           due == {s \in todo : Decision(s, q, al, lv, young) \in awaited}
           first == IF "BUY" \in due THEN "BUY" ELSE "SELL"
<1>2. CASE due = {}
  BY <1>1, <1>2 DEF Ends
<1>3. CASE due # {}
  <2>1. PICK s \in due : s = first
    BY <1>3 DEF Sides
  <2>2. s \in todo /\ s \in Sides /\ Decision(s, q, al, lv, young) \in awaited
    OBVIOUS
  <2>3. /\ task' = Quoting(q, {"SELL"} \ {s})
        /\ IF Decision(s, q, al, lv, young) = "post"
           THEN SendPost(s, q, cs)
           ELSE SendDeletes("strategy", {lv[s]}, cs) /\ UNCHANGED venue
    BY <1>1, <1>3, <2>1
  <2> HIDE DEF due, first
  <2>4. CASE Decision(s, q, al, lv, young) = "post"
    <3>1. CanSign
      BY <2>2, <2>4
    <3>2. ~StpBlocks(s, q, al, lv) /\ (lv[s] = NoOrder \/ al[lv[s]].status \notin {"OPEN", "PENDING"})
      BY <2>4 DEF Decision
    <3>3. Grown(venue, venue', NewOrder(s, q)) /\ calls' = Posting(venue, cs)
      BY <2>2, <2>3, <2>4, Sends
    <3> QED BY <2>2, <2>3, <3>1, <3>2, <3>3 DEF Places, CanSign
  <2>5. CASE Decision(s, q, al, lv, young) # "post"
    <3>1. Decision(s, q, al, lv, young) = "cancel"
      BY <2>2, <2>5
    <3>2. ~StpBlocks(s, q, al, lv) /\ lv[s] # NoOrder /\ al[lv[s]].status \in {"OPEN", "PENDING"}
      BY <3>1 DEF Decision
    <3>3. calls' = Deleting(lv[s], cs) /\ venue' = venue
      BY <2>3, <2>5 DEF SendDeletes, Deleting
    <3> QED BY <2>2, <2>3, <3>2, <3>3 DEF Cancels
  <2> QED BY <2>4, <2>5
<1> QED BY <1>2, <1>3

-----------------------------------------------------------------------------
(* Every step keeps BaseInv.                                               *)

Held(ve, fi, lo, cs, al, lv, nt) ==
  OrdersInv(ve, fi, lo, cs, al, lv) /\ Unspent(ve) /\ Conserved(ve, fi, lo, nt)

\* The parts of BaseInv under the names the lemmas use.
LEMMA BaseParts ==
  /\ BaseInv <=> Held(venue, fills, lost, calls, all, live, net) /\ Awaits(task, calls) /\ LocalTypes
  /\ BaseInv' <=> Held(venue', fills', lost', calls', all', live', net') /\ Awaits(task', calls') /\ LocalTypes'
BY DEF BaseInv, Held, Conserved, PositionConserved

\* What the order manager asks the exchange for, it waits for.
LEMMA Asked ==
  ASSUME NEW cs, NEW c, NEW q \in Quotes, NEW ta, NEW s, ta = Quoting(q, {"SELL"} \ {s}),
         NoneOf(cs), c.by = "strategy"
  PROVE  Awaits(ta, cs \cup {c})
<1>1. ta \in Rounds
  BY DEF Rounds
<1>2. NoneOf((cs \cup {c}) \ {c})
  BY DEF NoneOf
<1> QED BY <1>1, <1>2 DEF Awaits

\* A POST is sent.
LEMMA PostKeeps ==
  ASSUME NEW s \in Sides, NEW q \in Quotes, NEW fi, NEW lo, NEW cs, NEW al, NEW lv, NEW nt, NEW we,
         Held(venue, fi, lo, cs, al, lv, nt),
         Len(venue) < MaxOrders, Grown(venue, we, NewOrder(s, q))
  PROVE  Held(we, fi, lo, Posting(venue, cs), al, lv, nt)
<1>1. /\ NewOrder(s, q) \in Orders /\ NewOrder(s, q).left = Lots /\ NewOrder(s, q).at = "sent"
  BY NewOrderIs
<1>2. PICK o \in Orders : o = NewOrder(s, q)
  BY <1>1
<1>3. OrdersInv(venue, fi, lo, cs, al, lv) /\ Conserved(venue, fi, lo, nt)
  BY DEF Held
<1>4. OrdersInv(we, fi, lo, Posting(venue, cs), al, lv)
  BY <1>1, <1>2, <1>3, PostSent DEF Posting
<1>5. venue \in Seq(Orders) /\ Reports(fi, venue) /\ Reports(lo, venue)
  BY <1>3 DEF OrdersInv, Shapes
<1>6. Conserved(we, fi, lo, nt)
  BY <1>1, <1>2, <1>3, <1>5, ConservedGrown
<1>7. Unspent(we)
  <2>1. /\ Len(venue) \in Nat /\ Len(we) = Len(venue) + 1 /\ we[Len(venue) + 1] = o
        /\ \A i \in 1..Len(venue) : we[i] = venue[i]
    BY <1>2, <1>5 DEF Grown
  <2>2. o.left > 0
    BY <1>1, <1>2, Bounds
  <2>3. \A i \in 1..Len(we) : i \in 1..Len(venue) \/ i = Len(venue) + 1
    BY <2>1
  <2> QED BY <2>1, <2>2, <2>3 DEF Unspent, Held
<1> QED BY <1>4, <1>6, <1>7 DEF Held

\* The rest of an update keeps the orders, and waits for what it asked for.
LEMMA ProceedKeeps ==
  ASSUME NEW todo \in SUBSET Sides, NEW q \in Quotes, NEW al, NEW lv, NEW cs, NEW fi, NEW lo, NEW nt,
         Held(venue, fi, lo, cs, al, lv, nt), NoneOf(cs), Proceed(todo, q, al, lv, cs)
  PROVE  Held(venue', fi, lo, calls', al, lv, nt) /\ Awaits(task', calls')
<1>1. OrdersInv(venue, fi, lo, cs, al, lv) /\ venue \in Seq(Orders)
  BY DEF Held, OrdersInv, Shapes
<1>2. \/ Ends(cs)
      \/ \E s \in todo : /\ task' = Quoting(q, {"SELL"} \ {s})
                         /\ Places(s, q, lv, al, cs) \/ Cancels(s, lv, al, cs)
  BY <1>1, ProceedOutcome
<1>3. CASE Ends(cs)
  BY <1>3 DEF Ends, Awaits
<1>4. CASE \E s \in todo : /\ task' = Quoting(q, {"SELL"} \ {s})
                           /\ Places(s, q, lv, al, cs) \/ Cancels(s, lv, al, cs)
  <2>1. PICK s \in Sides : /\ task' = Quoting(q, {"SELL"} \ {s})
                           /\ Places(s, q, lv, al, cs) \/ Cancels(s, lv, al, cs)
    BY <1>4
  <2>2. CASE Places(s, q, lv, al, cs)
    <3>1. Held(venue', fi, lo, calls', al, lv, nt)
      BY <2>2, PostKeeps DEF Places
    <3>2. PICK c : calls' = cs \cup {c} /\ c.by = "strategy"
      BY <2>2, CallIs DEF Places, Posting
    <3>3. Awaits(task', cs \cup {c})
      BY <2>1, <3>2, Asked
    <3> QED BY <3>1, <3>2, <3>3
  <2>3. CASE Cancels(s, lv, al, cs)
    <3>1. {lv[s]} \subseteq DOMAIN al
      BY <1>1, <2>3, Shaped DEF Cancels
    <3>2. OrdersInv(venue, fi, lo, cs \cup {Call("strategy", "delete", id) : id \in {lv[s]}}, al, lv)
      BY <1>1, <3>1, DeletesSent
    <3>3. calls' = cs \cup {Call("strategy", "delete", id) : id \in {lv[s]}} /\ venue' = venue
      BY <2>3 DEF Cancels, Deleting
    <3>4. PICK c : calls' = cs \cup {c} /\ c.by = "strategy"
      BY <2>3, CallIs DEF Cancels, Deleting
    <3>5. Awaits(task', cs \cup {c})
      BY <2>1, <3>4, Asked
    <3> QED BY <3>2, <3>3, <3>4, <3>5 DEF Held
  <2> QED BY <2>1, <2>2, <2>3
<1> QED BY <1>2, <1>3, <1>4

\* The strategy task waits for a call: what it waits in, and what is left of
\* its calls when this one has come back.
LEMMA Waiting ==
  ASSUME NEW cs, NEW ta, NEW c \in cs, Awaits(ta, cs), c.by = "strategy"
  PROVE  \/ ta = Sweeping /\ c.op = "delete" /\ \A d \in cs : d.by = "strategy" => d.op = "delete"
         \/ ta \in Rounds /\ NoneOf(cs \ {c})
<1>1. ~NoneOf(cs)
  BY DEF NoneOf
<1>2. CASE ta = Sweeping /\ \A d \in cs : d.by = "strategy" => d.op = "delete"
  BY <1>2
<1>3. CASE ta \in Rounds /\ \E d \in cs : d.by = "strategy" /\ NoneOf(cs \ {d})
  <2>1. NoneOf(cs \ {c})
    BY <1>3 DEF NoneOf
  <2> QED BY <1>3, <2>1
<1> HIDE DEF NoneOf, Rounds, Sweeping, Idle
<1> QED BY <1>1, <1>2, <1>3 DEF Awaits

\* What a task that quotes is made of.
LEMMA RoundIs ==
  ASSUME NEW ta \in Rounds
  PROVE  /\ ta.mode = "quoting" /\ ta.quote \in Quotes /\ ta.todo \in SUBSET {"SELL"} /\ ta.todo \in SUBSET Sides
         /\ ta = Quoting(ta.quote, ta.todo) /\ ta # Idle /\ ta # Sweeping
BY DEF Rounds, Quoting, Idle, Sweeping, Sides

\* A task that sweeps or waits for nothing quotes nothing.
LEMMA ModeIs == Sweeping.mode = "sweeping" /\ Idle.mode = "idle" /\ Sweeping # Idle
BY DEF Idle, Sweeping

\* A call of somebody else comes and goes.
LEMMA OtherCalls ==
  ASSUME NEW cs, NEW ds, NEW ta, Awaits(ta, cs),
         \A d \in ds : d.by = "strategy" => d \in cs,
         \A c \in cs : c.by = "strategy" => c \in ds
  PROVE  Awaits(ta, ds)
BY DEF Awaits, NoneOf

\* A call is answered, and waited for as before.
LEMMA AnsweredCalls ==
  ASSUME NEW cs, NEW c \in cs, NEW r \in Replies, NEW ds, NEW ta, Awaits(ta, cs), cs \subseteq Requests,
         ds = (cs \ {c}) \cup (IF c.by = "nobody" THEN {} ELSE {Replied(c, r)})
  PROVE  Awaits(ta, ds)
<1>1. c \in Requests
  OBVIOUS
<1>2. Replied(c, r).by = c.by /\ Replied(c, r).op = c.op
  BY <1>1, RequestIs
<1>3. CASE c.by # "strategy"
  <2>1. \A d \in ds : d \in cs \/ d = Replied(c, r)
    OBVIOUS
  <2>2. \A d \in cs : d # c => d \in ds
    OBVIOUS
  <2>3. \A d \in ds : d.by = "strategy" => d \in cs
    BY <1>2, <1>3, <2>1
  <2>4. \A d \in cs : d.by = "strategy" => d \in ds
    BY <1>3, <2>2
  <2> QED BY <2>3, <2>4, OtherCalls
<1>4. CASE c.by = "strategy"
  <2>1. ds = (cs \ {c}) \cup {Replied(c, r)}
    BY <1>4
  <2>2. PICK e : e = Replied(c, r)
    OBVIOUS
  <2>3. CASE ta = Sweeping /\ \A d \in cs : d.by = "strategy" => d.op = "delete"
    BY <1>2, <1>4, <2>1, <2>3 DEF Awaits
  <2>4. CASE ta \in Rounds /\ NoneOf(cs \ {c})
    <3>1. ds = (cs \ {c}) \cup {e} /\ e.by = "strategy"
      BY <1>2, <1>4, <2>1, <2>2
    <3>2. NoneOf(ds \ {e})
      BY <2>4, <3>1 DEF NoneOf
    <3> QED BY <2>4, <3>1, <3>2 DEF Awaits
  <2> QED BY <1>4, <2>3, <2>4, Waiting
<1> QED BY <1>3, <1>4

\* What is filed, marked and dropped, and what the filter remembers.
LEMMA Marked ==
  ASSUME NEW id \in DOMAIN all, NEW s \in Sides,
         all \in [DOMAIN all -> Records], live \in [Sides -> 0..MaxOrders]
  PROVE  /\ \E rec \in Records : rec.status = "CANCELLED" /\ RecordBut(all, MarkCancelled(id), id, rec)
         /\ IndexBut(live, DropLive(s), s, NoOrder)
         /\ Dropped(live, DropLive(s)) /\ DropLive(s)[s] = NoOrder
<1>1. \A r \in Records : /\ [r EXCEPT !.status = "CANCELLED"] \in Records
                         /\ [r EXCEPT !.status = "CANCELLED"].status = "CANCELLED"
  BY DEF Records, Statuses
<1>2. PICK rec \in Records : rec = [all[id] EXCEPT !.status = "CANCELLED"] /\ rec.status = "CANCELLED"
  BY <1>1
<1>3. MarkCancelled(id) = [all EXCEPT ![id] = rec]
  BY <1>2 DEF MarkCancelled
<1>4. RecordBut(all, MarkCancelled(id), id, rec)
  BY <1>3 DEF RecordBut
<1>5. NoOrder \in 0..MaxOrders
  BY Bounds DEF NoOrder
<1>6. IndexBut(live, DropLive(s), s, NoOrder) /\ Dropped(live, DropLive(s)) /\ DropLive(s)[s] = NoOrder
  BY <1>5 DEF IndexBut, Dropped, DropLive
<1> QED BY <1>2, <1>4, <1>6

\* An order filed under its side.
LEMMA Filed ==
  ASSUME NEW id \in 1..MaxOrders, NEW s \in Sides, NEW r \in {"live", "delayed", "matched"},
         all \in [DOMAIN all -> Records], live \in [Sides -> 0..MaxOrders]
  PROVE  /\ RecordBut(all, Remember(id, PlacedRecord(r)), id, PlacedRecord(r))
         /\ IndexBut(live, [live EXCEPT ![s] = id], s, id)
         /\ r # "matched" => PlacedRecord(r).status \in {"OPEN", "PENDING"} /\ PlacedRecord(r).filled = 0
         /\ PlacedRecord(r).status = "OPEN" => r = "live"
<1>1. /\ r = "live" => PlacedRecord(r) = [status |-> "OPEN", filled |-> 0]
      /\ r = "matched" => PlacedRecord(r) = [status |-> "FILLED", filled |-> Lots]
      /\ r = "delayed" => PlacedRecord(r) = [status |-> "PENDING", filled |-> 0]
  BY DEF PlacedRecord
<1>2. PlacedRecord(r) \in Records
  BY <1>1, Bounds DEF Records, Statuses
<1>3. PICK rec \in Records : rec = PlacedRecord(r)
  BY <1>2
<1>4. RecordBut(all, Remember(id, rec), id, rec)
  <2>1. Remember(id, rec) \in [DOMAIN all \cup {id} -> Records]
    BY DEF Remember
  <2>2. Remember(id, rec)[id] = rec /\ \A i \in DOMAIN all : i # id => Remember(id, rec)[i] = all[i]
    BY DEF Remember
  <2> QED BY <2>1, <2>2 DEF RecordBut
<1>5. id \in 0..MaxOrders
  BY Bounds
<1>6. IndexBut(live, [live EXCEPT ![s] = id], s, id)
  BY <1>5 DEF IndexBut
<1> QED BY <1>1, <1>3, <1>4, <1>6

\* The filter keeps one mark for each side.
LEMMA FreezesOnly ==
  ASSUME NEW s \in Sides, frozen \in [Sides -> BOOLEAN], RecordCancel(s)
  PROVE  frozen' \in [Sides -> BOOLEAN]
<1>1. PICK f \in {frozen[s], TRUE} : frozen' = [frozen EXCEPT ![s] = f]
  BY DEF RecordCancel
<1>2. f \in BOOLEAN
  OBVIOUS
<1> QED BY <1>1, <1>2

\* One order of the exchange moves, or trades.
LEMMA Moves ==
  ASSUME NEW ve, ve \in Seq(Orders), NEW id \in 1..Len(ve), NEW at \in {"resting", "gone"}
  PROVE  VenueBut(ve, [ve EXCEPT ![id].at = at], id, ve[id].left, at)
<1>1. \A o \in Orders : /\ [o EXCEPT !.at = at] \in Orders
                        /\ [o EXCEPT !.at = at].side = o.side /\ [o EXCEPT !.at = at].price = o.price
                        /\ [o EXCEPT !.at = at].left = o.left /\ [o EXCEPT !.at = at].at = at
  BY DEF Orders
<1>2. PICK o \in Orders : o = [ve[id] EXCEPT !.at = at]
  <2>1. ve[id] \in Orders
    OBVIOUS
  <2> QED BY <1>1, <2>1
<1>3. [ve EXCEPT ![id].at = at] = [ve EXCEPT ![id] = o]
  BY <1>2
<1>4. [ve EXCEPT ![id] = o] \in Seq(Orders) /\ Len([ve EXCEPT ![id] = o]) = Len(ve)
  OBVIOUS
<1>5. \A i \in 1..Len(ve) : [ve EXCEPT ![id] = o][i] = IF i = id THEN o ELSE ve[i]
  OBVIOUS
<1>6. o.side = ve[id].side /\ o.price = ve[id].price /\ o.left = ve[id].left /\ o.at = at
  <2>1. ve[id] \in Orders
    OBVIOUS
  <2> QED BY <1>1, <1>2, <2>1
<1> QED BY <1>3, <1>4, <1>5, <1>6 DEF VenueBut

\* Likewise for what it has left.
LEMMA Trades ==
  ASSUME NEW ve, ve \in Seq(Orders), NEW id \in 1..Len(ve), NEW left \in 0..Lots, NEW at \in {"resting", "gone"}
  PROVE  VenueBut(ve, [ve EXCEPT ![id].left = left, ![id].at = at], id, left, at)
<1>1. \A o \in Orders : /\ [o EXCEPT !.left = left, !.at = at] \in Orders
                        /\ [o EXCEPT !.left = left, !.at = at].side = o.side
                        /\ [o EXCEPT !.left = left, !.at = at].price = o.price
                        /\ [o EXCEPT !.left = left, !.at = at].left = left
                        /\ [o EXCEPT !.left = left, !.at = at].at = at
  BY DEF Orders
<1>2. PICK o \in Orders : o = [ve[id] EXCEPT !.left = left, !.at = at]
  <2>1. ve[id] \in Orders
    OBVIOUS
  <2> QED BY <1>1, <2>1
<1>3. [ve EXCEPT ![id].left = left, ![id].at = at] = [ve EXCEPT ![id] = o]
  BY <1>2
<1>4. [ve EXCEPT ![id] = o] \in Seq(Orders) /\ Len([ve EXCEPT ![id] = o]) = Len(ve)
  OBVIOUS
<1>5. \A i \in 1..Len(ve) : [ve EXCEPT ![id] = o][i] = IF i = id THEN o ELSE ve[i]
  OBVIOUS
<1>6. o.side = ve[id].side /\ o.price = ve[id].price /\ o.left = left /\ o.at = at
  <2>1. ve[id] \in Orders
    OBVIOUS
  <2> QED BY <1>1, <1>2, <2>1
<1> QED BY <1>3, <1>4, <1>5, <1>6 DEF VenueBut

\* An answered call is one the orders allow.
LEMMA AnsweredIs ==
  ASSUME NEW ve, NEW fi, NEW lo, NEW cs, NEW al, NEW lv, NEW c \in cs, NEW r,
         OrdersInv(ve, fi, lo, cs, al, lv), c.reply = "none",
         r \in IF c.op = "post" THEN {"live", "delayed", "matched", "error"} ELSE {"ok", "error"}
  PROVE  Answering(Answered(cs, c, r), cs, c.id)
<1> DEFINE ds == Answered(cs, c, r)
           e == Replied(c, r)
<1>1. Posts(ve, cs, al) /\ Deletes(cs, al)
  BY DEF OrdersInv
<1>2. c \in Requests /\ c.op \in {"post", "delete"}
  BY Shaped
<1>3. r \in Replies /\ r # "none"
  BY DEF Replies
<1>4. e \in Requests /\ e.by = c.by /\ e.op = c.op /\ e.id = c.id /\ e.reply = r
  BY <1>2, <1>3, RequestIs
<1>5. \A d \in ds : d \in cs \ {c} \/ (d = e /\ c.by # "nobody")
  BY DEF Answered
<1> HIDE DEF ds, e
<1>6. ASSUME NEW d \in ds
      PROVE d \in cs \/
       /\ d \in Requests /\ d.id = c.id /\ d.by # "nobody" /\ d.reply # "none"
       /\ \E b \in cs : b.id = c.id /\ b.op = d.op /\ b.by = d.by /\ b.reply = "none"
       /\ d.reply \in IF d.op = "post" THEN {"live", "delayed", "matched", "error"} ELSE {"ok", "error"}
  <2>1. CASE d = e /\ c.by # "nobody"
    BY <1>3, <1>4, <2>1
  <2> QED BY <1>5, <2>1
<1>7. ASSUME NEW d \in ds, NEW f \in ds, d.op = "post", f.id = d.id PROVE f = d
  <2>1. CASE d \in cs \ {c}
    BY <1>1, <1>4, <1>5, <1>7, <2>1 DEF Posts, Post
  <2>2. CASE d = e
    BY <1>1, <1>4, <1>5, <1>7, <2>2 DEF Posts, Post
  <2> QED BY <1>5, <2>1, <2>2
<1>8. ASSUME NEW d \in ds, d.op = "post", d.id = c.id PROVE d.reply # "none"
  <2>1. CASE d \in cs \ {c}
    BY <1>1, <1>8, <2>1 DEF Posts, Post
  <2>2. CASE d = e
    BY <1>3, <1>4, <2>2
  <2> QED BY <1>5, <2>1, <2>2
<1> QED BY <1>6, <1>7, <1>8 DEF Answering, ds

\* A task that is idle has no calls under way.
LEMMA IdleIs ==
  ASSUME NEW cs, Awaits(Idle, cs)
  PROVE  NoneOf(cs)
<1>1. Idle \notin Rounds
  BY RoundIs
<1> QED BY <1>1, ModeIs DEF Awaits

\* Cancels are sent.
LEMMA DeletesKeep ==
  ASSUME NEW ve, NEW fi, NEW lo, NEW cs, NEW al, NEW lv, NEW nt, NEW by \in {"strategy", "kill"},
         NEW ids \in SUBSET DOMAIN al, Held(ve, fi, lo, cs, al, lv, nt)
  PROVE  Held(ve, fi, lo, cs \cup {Call(by, "delete", id) : id \in ids}, al, lv, nt)
BY DeletesSent DEF Held

\* A call has ended.
LEMMA EndKeeps ==
  ASSUME NEW ve, NEW fi, NEW lo, NEW cs, NEW al, NEW lv, NEW nt, NEW c \in cs,
         Held(ve, fi, lo, cs, al, lv, nt)
  PROVE  Held(ve, fi, lo, cs \ {c}, al, lv, nt)
<1>1. OrdersInv(ve, fi, lo, cs, al, lv)
  BY DEF Held
<1>2. Drawn(cs \ {c}, cs)
  BY <1>1, Ended
<1> QED BY <1>1, <1>2, CallsFewer DEF Held

\* A cancel was confirmed.
LEMMA CancelKeeps ==
  ASSUME NEW c \in calls, Held(venue, fills, lost, calls, all, live, net), c.id \in DOMAIN all
  PROVE  /\ Held(venue, fills, lost, calls \ {c}, MarkCancelled(c.id), DropLive(venue[c.id].side), net)
         /\ Held(venue, fills, lost, calls, MarkCancelled(c.id), live, net)
<1>1. OrdersInv(venue, fills, lost, calls, all, live) /\ Conserved(venue, fills, lost, net)
  BY DEF Held
<1>2. all \in [DOMAIN all -> Records] /\ live \in [Sides -> 0..MaxOrders] /\ venue[c.id].side \in Sides
  BY <1>1, Shaped
<1>3. PICK rec \in Records : RecordBut(all, MarkCancelled(c.id), c.id, rec)
  BY <1>2, Marked
<1>4. Dropped(live, DropLive(venue[c.id].side)) /\ Dropped(live, live)
  BY <1>2, Marked DEF Dropped
<1>5. OrdersInv(venue, fills, lost, calls, MarkCancelled(c.id), DropLive(venue[c.id].side))
  BY <1>1, <1>3, <1>4, RecordChanges
<1>6. OrdersInv(venue, fills, lost, calls, MarkCancelled(c.id), live)
  BY <1>1, <1>3, <1>4, RecordChanges
<1>7. Held(venue, fills, lost, calls, MarkCancelled(c.id), DropLive(venue[c.id].side), net)
  BY <1>1, <1>5 DEF Held
<1>8. Held(venue, fills, lost, calls \ {c}, MarkCancelled(c.id), DropLive(venue[c.id].side), net)
  BY <1>7, EndKeeps
<1> QED BY <1>1, <1>6, <1>8 DEF Held

\* What _cancel_all picks, the manager knows.
LEMMA ToCancelKnown ==
  ASSUME Held(venue, fills, lost, calls, all, live, net)
  PROVE  ToCancel \in SUBSET DOMAIN all /\ \A s \in Sides : live[s] # NoOrder => {live[s]} \in SUBSET DOMAIN all
BY Shaped DEF Held, ToCancel

\* The steps of the strategy task.
LEMMA BaseUpdateSweep == BaseInv /\ UpdateSweep => BaseInv'
<1> SUFFICES ASSUME BaseInv, UpdateSweep PROVE BaseInv'
  OBVIOUS
<1>1. Held(venue, fills, lost, calls, all, live, net) /\ Awaits(task, calls) /\ LocalTypes
  BY BaseParts
<1>2. PICK cs : cs = calls \cup {Call("strategy", "delete", id) : id \in ToCancel}
  OBVIOUS
<1>3. Held(venue, fills, lost, cs, all, live, net)
  BY <1>1, <1>2, ToCancelKnown, DeletesKeep
<1>4. NoneOf(calls)
  BY <1>1, IdleIs DEF UpdateSweep, CanUpdate
<1>5. Awaits(Sweeping, cs)
  BY <1>2, <1>4, CallIs DEF Awaits, NoneOf
<1>6. /\ calls' = cs /\ task' = Sweeping
      /\ UNCHANGED <<venue, fills, lost, all, live, net, frozen, killed, swept, dispatching, up>>
  BY <1>2 DEF UpdateSweep, SendDeletes
<1> QED BY <1>1, <1>3, <1>5, <1>6, BaseParts DEF LocalTypes

\* _handle_max_inventory cancels an order the index names.
LEMMA BaseUpdateAtLimit == BaseInv /\ UpdateAtLimit => BaseInv'
<1> SUFFICES ASSUME BaseInv, UpdateAtLimit PROVE BaseInv'
  OBVIOUS
<1>1. Held(venue, fills, lost, calls, all, live, net) /\ Awaits(task, calls) /\ LocalTypes
  BY BaseParts
<1>2. PICK ids : ids = {live[GrowingSide]}
  OBVIOUS
<1>3. ids \in SUBSET DOMAIN all
  BY <1>1, <1>2, ToCancelKnown DEF UpdateAtLimit, GrowingSide, Sides
<1>4. PICK cs : cs = calls \cup {Call("strategy", "delete", id) : id \in ids}
  OBVIOUS
<1>5. Held(venue, fills, lost, cs, all, live, net)
  BY <1>1, <1>3, <1>4, DeletesKeep
<1>6. NoneOf(calls)
  BY <1>1, IdleIs DEF UpdateAtLimit, CanUpdate
<1>7. Awaits(Sweeping, cs)
  BY <1>4, <1>6, CallIs DEF Awaits, NoneOf
<1>8. /\ calls' = cs /\ task' = Sweeping
      /\ UNCHANGED <<venue, fills, lost, all, live, net, frozen, killed, swept, dispatching, up>>
  BY <1>2, <1>4 DEF UpdateAtLimit, SendDeletes
<1> QED BY <1>1, <1>5, <1>7, <1>8, BaseParts DEF LocalTypes

\* An update of the quotes starts from no calls of its own.
LEMMA BaseUpdateQuotes ==
  ASSUME NEW q \in Quotes, BaseInv, UpdateQuotes(q)
  PROVE  BaseInv'
<1>1. Held(venue, fills, lost, calls, all, live, net) /\ Awaits(task, calls) /\ LocalTypes
  BY BaseParts
<1>2. NoneOf(calls)
  BY <1>1, IdleIs DEF UpdateQuotes, CanUpdate
<1>3. /\ Proceed(Sides, q, all, live, calls)
      /\ UNCHANGED <<fills, lost, all, live, net, frozen, killed, swept, dispatching, up>>
  BY DEF UpdateQuotes
<1>4. Held(venue', fills, lost, calls', all, live, net) /\ Awaits(task', calls')
  BY <1>1, <1>2, <1>3, ProceedKeeps
<1> QED BY <1>1, <1>3, <1>4, BaseParts DEF LocalTypes

\* A POST comes back: its order becomes known.
LEMMA BasePostReturns ==
  ASSUME NEW c \in calls, BaseInv, PostReturns(c)
  PROVE  BaseInv'
<1> DEFINE ok == c.reply # "error"
           al == IF ok THEN Remember(c.id, PlacedRecord(c.reply)) ELSE all
           lv == IF ok THEN [live EXCEPT ![venue[c.id].side] = c.id] ELSE live
<1>1. Held(venue, fills, lost, calls, all, live, net) /\ Awaits(task, calls) /\ LocalTypes
  BY BaseParts
<1>2. /\ c.by = "strategy" /\ c.op = "post" /\ c.reply # "none"
      /\ all' = al /\ live' = lv /\ Proceed(task.todo, task.quote, al, lv, calls \ {c})
      /\ UNCHANGED <<fills, lost, net, frozen, killed, swept, dispatching, up>>
  BY DEF PostReturns, CallsBy
<1>3. OrdersInv(venue, fills, lost, calls, all, live)
  BY <1>1 DEF Held
<1>4. /\ all \in [DOMAIN all -> Records] /\ live \in [Sides -> 0..MaxOrders]
      /\ venue[c.id].side \in Sides /\ c.id \in 1..MaxOrders
  BY <1>3, Shaped, Bounds
<1>5. Held(venue, fills, lost, calls \ {c}, al, lv, net)
  <2>1. CASE ok
    <3>1. c.reply \in {"live", "delayed", "matched"}
      BY <1>2, <1>3, <2>1 DEF OrdersInv, Posts, Post
    <3>2. PICK r \in {"live", "delayed", "matched"} : r = c.reply
      BY <3>1
    <3>3. /\ RecordBut(all, Remember(c.id, PlacedRecord(r)), c.id, PlacedRecord(r))
          /\ IndexBut(live, [live EXCEPT ![venue[c.id].side] = c.id], venue[c.id].side, c.id)
      BY <1>4, Filed
    <3>4. OrdersInv(venue, fills, lost, calls \ {c}, al, lv)
      BY <1>2, <1>3, <2>1, <3>2, <3>3, PostFiled
    <3> QED BY <1>1, <3>4 DEF Held
  <2>2. CASE ~ok
    BY <1>1, <2>2, EndKeeps
  <2> QED BY <2>1, <2>2
<1> HIDE DEF al, lv
<1>6. task \in Rounds /\ NoneOf(calls \ {c})
  BY <1>1, <1>2, Waiting
<1>7. task.todo \in SUBSET Sides /\ task.quote \in Quotes
  BY <1>6, RoundIs
<1>8. Held(venue', fills, lost, calls', al, lv, net) /\ Awaits(task', calls')
  BY <1>2, <1>5, <1>6, <1>7, ProceedKeeps
<1> QED BY <1>1, <1>2, <1>8, BaseParts DEF LocalTypes

\* A cancel comes back to an update: the replacement is sent.
LEMMA BaseRepriceReturns ==
  ASSUME NEW c \in calls, BaseInv, RepriceReturns(c)
  PROVE  BaseInv'
<1> DEFINE s == venue[c.id].side
           al == MarkCancelled(c.id)
           lv == DropLive(s)
<1>1. Held(venue, fills, lost, calls, all, live, net) /\ Awaits(task, calls) /\ LocalTypes
  BY BaseParts
<1>2. /\ c.by = "strategy" /\ c.op = "delete" /\ task.mode = "quoting"
      /\ UNCHANGED <<fills, lost, net, killed, swept, dispatching, up>>
  BY DEF RepriceReturns, CallsBy
<1>3. task \in Rounds /\ NoneOf(calls \ {c}) /\ task.todo \in SUBSET Sides /\ task.quote \in Quotes
  BY <1>1, <1>2, Waiting, RoundIs, ModeIs
<1>4. OrdersInv(venue, fills, lost, calls, all, live) /\ s \in Sides /\ c.id \in DOMAIN all
  BY <1>1, <1>2, Shaped DEF Held, OrdersInv, Deletes
<1>5. CASE c.reply = "error"
  <2>1. Proceed(task.todo, task.quote, all, live, calls \ {c}) /\ UNCHANGED <<all, live, frozen>>
    BY <1>5 DEF RepriceReturns
  <2>2. Held(venue', fills, lost, calls', all, live, net) /\ Awaits(task', calls')
    BY <1>1, <1>3, <2>1, EndKeeps, ProceedKeeps
  <2> QED BY <1>1, <1>2, <2>1, <2>2, BaseParts DEF LocalTypes
<1>6. CASE c.reply # "error"
  <2>1. /\ all' = al /\ live' = lv /\ RecordCancel(s)
        /\ \/ CanSign /\ SendPost(s, task.quote, calls \ {c}) /\ UNCHANGED task
           \/ Proceed(task.todo, task.quote, al, lv, calls \ {c})
    BY <1>6 DEF RepriceReturns
  <2>2. Held(venue, fills, lost, calls \ {c}, al, lv, net)
    BY <1>1, <1>4, CancelKeeps
  <2> HIDE DEF al, lv, s
  <2>3. frozen' \in [Sides -> BOOLEAN]
    BY <1>1, <1>4, <2>1, FreezesOnly DEF LocalTypes
  <2>4. CASE CanSign /\ SendPost(s, task.quote, calls \ {c}) /\ UNCHANGED task
    <3>1. Grown(venue, venue', NewOrder(s, task.quote)) /\ calls' = Posting(venue, calls \ {c})
      BY <1>3, <1>4, <2>4, Sends DEF OrdersInv, Shapes
    <3>2. Held(venue', fills, lost, calls', al, lv, net)
      BY <1>3, <1>4, <2>2, <2>4, <3>1, PostKeeps DEF CanSign
    <3>3. PICK d : calls' = (calls \ {c}) \cup {d} /\ d.by = "strategy"
      BY <3>1, CallIs DEF Posting
    <3>4. NoneOf(calls' \ {d})
      BY <1>3, <3>3 DEF NoneOf
    <3>5. Awaits(task', calls')
      BY <1>3, <2>4, <3>3, <3>4 DEF Awaits
    <3> QED BY <1>1, <1>2, <2>1, <2>3, <3>2, <3>5, BaseParts DEF LocalTypes
  <2>5. CASE Proceed(task.todo, task.quote, al, lv, calls \ {c})
    <3>1. Held(venue', fills, lost, calls', al, lv, net) /\ Awaits(task', calls')
      BY <1>3, <2>2, <2>5, ProceedKeeps
    <3> QED BY <1>1, <1>2, <2>1, <2>3, <3>1, BaseParts DEF LocalTypes
  <2> QED BY <2>1, <2>4, <2>5
<1> QED BY <1>5, <1>6

\* The task that waits for several cancels.
LEMMA SweepWaits ==
  ASSUME NEW c \in calls, NEW ds, c.by = "strategy", task.mode = "sweeping", Awaits(task, calls),
         \A d \in ds : d.by = "strategy" => d \in calls \ {c}
  PROVE  Awaits(AfterSweep(c), ds)
<1>1. task = Sweeping /\ \A d \in calls : d.by = "strategy" => d.op = "delete"
  BY Waiting, RoundIs
<1>2. CASE CallsBy("strategy") = {c}
  BY <1>2 DEF AfterSweep, CallsBy, Awaits, NoneOf
<1>3. CASE CallsBy("strategy") # {c}
  BY <1>1, <1>3 DEF AfterSweep, Awaits
<1> QED BY <1>2, <1>3

\* A cancel of a sweep comes back.
LEMMA BaseSweepReturns ==
  ASSUME NEW c \in calls, BaseInv, SweepReturns(c)
  PROVE  BaseInv'
<1> DEFINE s == venue[c.id].side
           al == MarkCancelled(c.id)
           lv == DropLive(s)
<1>1. Held(venue, fills, lost, calls, all, live, net) /\ Awaits(task, calls) /\ LocalTypes
  BY BaseParts
<1>2. /\ c.by = "strategy" /\ c.op = "delete" /\ task.mode = "sweeping"
      /\ calls' = calls \ {c} /\ task' = AfterSweep(c)
      /\ UNCHANGED <<venue, fills, lost, net, killed, swept, dispatching, up>>
  BY DEF SweepReturns, CallsBy
<1>3. Awaits(task', calls')
  BY <1>1, <1>2, SweepWaits
<1>4. OrdersInv(venue, fills, lost, calls, all, live) /\ s \in Sides /\ c.id \in DOMAIN all
  BY <1>1, <1>2, Shaped DEF Held, OrdersInv, Deletes
<1>5. CASE c.reply = "error"
  <2>1. UNCHANGED <<all, live, frozen>>
    BY <1>5 DEF SweepReturns
  <2>2. Held(venue, fills, lost, calls \ {c}, all, live, net)
    BY <1>1, EndKeeps
  <2> QED BY <1>1, <1>2, <1>3, <2>1, <2>2, BaseParts DEF LocalTypes
<1>6. CASE c.reply # "error"
  <2>1. all' = al /\ live' = lv /\ RecordCancel(s)
    BY <1>6 DEF SweepReturns
  <2>2. Held(venue, fills, lost, calls \ {c}, al, lv, net)
    BY <1>1, <1>4, CancelKeeps
  <2> HIDE DEF al, lv, s
  <2>3. frozen' \in [Sides -> BOOLEAN]
    BY <1>1, <1>4, <2>1, FreezesOnly DEF LocalTypes
  <2> QED BY <1>1, <1>2, <1>3, <2>1, <2>2, <2>3, BaseParts DEF LocalTypes
<1> QED BY <1>5, <1>6

\* The strategy task dies of a key that is gone.
LEMMA BaseStrategyThrows ==
  ASSUME NEW c \in calls, BaseInv, StrategyThrows(c)
  PROVE  BaseInv'
<1> DEFINE s == venue[c.id].side
           al == MarkCancelled(c.id)
           ds == {Orphan(d) : d \in {e \in calls : e.reply = "none"}}
<1>1. Held(venue, fills, lost, calls, all, live, net) /\ Awaits(task, calls) /\ LocalTypes
  BY BaseParts
<1>2. /\ c.op = "delete" /\ RecordCancel(s) /\ all' = al
      /\ calls' = ds /\ task' = Idle /\ up' = FALSE
      /\ UNCHANGED <<venue, fills, lost, live, net, killed, swept, dispatching>>
  BY DEF StrategyThrows, Orphan
<1>3. OrdersInv(venue, fills, lost, calls, all, live) /\ s \in Sides /\ c.id \in DOMAIN all
  BY <1>1, <1>2, Shaped DEF Held, OrdersInv, Deletes
<1>4. Held(venue, fills, lost, calls, al, live, net)
  BY <1>1, <1>3, CancelKeeps
<1>5. frozen' \in [Sides -> BOOLEAN]
  BY <1>1, <1>2, <1>3, FreezesOnly DEF LocalTypes
<1>6. Drawn(ds, calls) /\ NoneOf(ds)
  BY <1>3, AllGaveUp
<1> HIDE DEF al, ds, s
<1>7. Held(venue, fills, lost, ds, al, live, net)
  BY <1>4, <1>6, CallsFewer DEF Held
<1>8. Awaits(task', calls')
  BY <1>2, <1>6 DEF Awaits
<1> QED BY <1>1, <1>2, <1>5, <1>7, <1>8, BaseParts DEF LocalTypes

\* A caller gives up.
LEMMA GiveUpKeeps ==
  ASSUME NEW c \in calls, Held(venue, fills, lost, calls, all, live, net)
  PROVE  /\ Held(venue, fills, lost, Abandoned(c), all, live, net)
         /\ \A d \in Abandoned(c) : d.by = "strategy" => d \in calls \ {c}
         /\ NoneOf(calls \ {c}) => NoneOf(Abandoned(c))
<1> DEFINE ds == GivenUp(c, calls)
<1>1. OrdersInv(venue, fills, lost, calls, all, live)
  BY DEF Held
<1>2. /\ Drawn(ds, calls)
      /\ \A d \in ds : d \in calls \ {c} \/ (c.reply = "none" /\ d = Orphan(c))
      /\ Orphan(c).by = "nobody"
  BY <1>1, GaveUp
<1>3. Abandoned(c) = ds
  BY DEF Abandoned, GivenUp, Orphan
<1> HIDE DEF ds
<1>4. OrdersInv(venue, fills, lost, ds, all, live)
  BY <1>1, <1>2, CallsFewer
<1>5. \A d \in ds : d.by = "strategy" => d \in calls \ {c}
  BY <1>2
<1> QED BY <1>3, <1>4, <1>5 DEF Held, NoneOf

\* The strategy gives a call up, and goes on.
LEMMA BaseStrategyTimeout ==
  ASSUME NEW c \in calls, BaseInv, StrategyTimeout(c)
  PROVE  BaseInv'
<1>1. Held(venue, fills, lost, calls, all, live, net) /\ Awaits(task, calls) /\ LocalTypes
  BY BaseParts
<1>2. c.by = "strategy" /\ UNCHANGED <<fills, lost, all, live, frozen, net, killed, swept, dispatching, up>>
  BY DEF StrategyTimeout, CallsBy
<1>3. /\ Held(venue, fills, lost, Abandoned(c), all, live, net)
      /\ \A d \in Abandoned(c) : d.by = "strategy" => d \in calls \ {c}
      /\ NoneOf(calls \ {c}) => NoneOf(Abandoned(c))
  BY <1>1, GiveUpKeeps
<1>4. Held(venue', fills, lost, calls', all, live, net) /\ Awaits(task', calls')
  <2>1. CASE task.mode = "quoting"
    <3>1. Proceed(task.todo, task.quote, all, live, Abandoned(c))
      BY <2>1 DEF StrategyTimeout
    <3>2. NoneOf(calls \ {c}) /\ task.todo \in SUBSET Sides /\ task.quote \in Quotes
      BY <1>1, <1>2, <2>1, Waiting, RoundIs, ModeIs
    <3>3. NoneOf(Abandoned(c))
      BY <1>3, <3>2
    <3> QED BY <1>3, <3>1, <3>2, <3>3, ProceedKeeps
  <2>2. CASE task.mode = "sweeping"
    <3>1. calls' = Abandoned(c) /\ task' = AfterSweep(c) /\ venue' = venue
      BY <2>2 DEF StrategyTimeout
    <3> QED BY <1>1, <1>2, <1>3, <2>2, <3>1, SweepWaits
  <2> QED BY <2>1, <2>2 DEF StrategyTimeout
<1> QED BY <1>1, <1>2, <1>4, BaseParts DEF LocalTypes

\* The kill monitor gives a call up.
LEMMA BaseKillTimeout ==
  ASSUME NEW c \in calls, BaseInv, KillTimeout(c)
  PROVE  BaseInv'
<1>1. Held(venue, fills, lost, calls, all, live, net) /\ Awaits(task, calls) /\ LocalTypes
  BY BaseParts
<1>2. /\ c.by = "kill" /\ calls' = Abandoned(c)
      /\ UNCHANGED <<venue, fills, lost, all, live, frozen, task, net, killed, swept, dispatching, up>>
  BY DEF KillTimeout, CallsBy
<1>3. /\ Held(venue, fills, lost, Abandoned(c), all, live, net)
      /\ \A d \in Abandoned(c) : d.by = "strategy" => d \in calls \ {c}
  BY <1>1, GiveUpKeeps
<1>4. \A d \in calls : d # c => d \in Abandoned(c)
  BY DEF Abandoned
<1>5. Awaits(task, Abandoned(c))
  BY <1>1, <1>2, <1>3, <1>4, OtherCalls
<1> QED BY <1>1, <1>2, <1>3, <1>5, BaseParts DEF LocalTypes

\* A side thaws.
LEMMA BaseThaw ==
  ASSUME NEW s \in Sides, BaseInv, Thaw(s)
  PROVE  BaseInv'
<1>1. /\ frozen' = [frozen EXCEPT ![s] = FALSE]
      /\ UNCHANGED <<venue, fills, lost, calls, all, live, task, net, killed, swept, dispatching, up>>
  BY DEF Thaw
<1> QED BY <1>1, BaseParts DEF LocalTypes

\* The steps of the dispatcher and the kill monitor.
\* An event is read: what mark_filled writes.
LEMMA FillMarks ==
  ASSUME NEW e \in Events, OrdersInv(venue, fills, lost, calls, all, live), MarkFilled(e.id, e.qty),
         e.id \in DOMAIN all
  PROVE  \E rec \in Records :
           /\ RecordBut(all, all', e.id, rec) /\ rec.filled = all[e.id].filled + e.qty
           /\ rec.filled >= Lots => /\ rec.status = "FILLED"
                                    /\ IndexBut(live, live', venue[e.id].side, NoOrder)
                                    /\ live' = DropLive(venue[e.id].side)
           /\ rec.filled < Lots => rec.status = "PARTIAL_FILL" /\ live' = live
           /\ Dropped(live, live')
<1> DEFINE sum == all[e.id].filled + e.qty
           st == IF sum >= Lots THEN "FILLED" ELSE "PARTIAL_FILL"
<1>1. all \in [DOMAIN all -> Records] /\ live \in [Sides -> 0..MaxOrders] /\ venue[e.id].side \in Sides
  BY Shaped
<1>2. all[e.id] \in Records /\ sum \in Nat
  BY <1>1, EventIs DEF Records
<1>3. st \in Statuses
  BY DEF Statuses
<1>4. /\ all' = [all EXCEPT ![e.id].status = st, ![e.id].filled = sum]
      /\ live' = IF sum >= Lots THEN DropLive(venue[e.id].side) ELSE live
  BY DEF MarkFilled, Known
<1> HIDE DEF sum, st
<1>5. \A r \in Records : /\ [r EXCEPT !.status = st, !.filled = sum] \in Records
                         /\ [r EXCEPT !.status = st, !.filled = sum].status = st
                         /\ [r EXCEPT !.status = st, !.filled = sum].filled = sum
  BY <1>2, <1>3 DEF Records
<1>6. PICK rec \in Records : /\ rec = [all[e.id] EXCEPT !.status = st, !.filled = sum]
                             /\ rec.status = st /\ rec.filled = sum
  BY <1>2, <1>5
<1>7. all' = [all EXCEPT ![e.id] = rec]
  BY <1>4, <1>6
<1>8. RecordBut(all, all', e.id, rec)
  BY <1>1, <1>7 DEF RecordBut
<1>9. IndexBut(live, DropLive(venue[e.id].side), venue[e.id].side, NoOrder)
  BY <1>1, Marked
<1>10. Dropped(live, DropLive(venue[e.id].side)) /\ Dropped(live, live)
  BY <1>1, Marked DEF Dropped
<1>11. sum >= Lots => st = "FILLED" /\ live' = DropLive(venue[e.id].side)
  BY <1>4 DEF st
<1>12. sum < Lots => st = "PARTIAL_FILL" /\ live' = live
  <2>1. sum < Lots => ~(sum >= Lots)
    BY <1>2, Bounds
  <2> QED BY <1>4, <2>1 DEF st
<1>13. Dropped(live, live')
  BY <1>4, <1>10
<1> QED BY <1>6, <1>8, <1>9, <1>11, <1>12, <1>13 DEF sum

\* The event itself.
LEMMA EventRead ==
  ASSUME Held(venue, fills, lost, calls, all, live, net), fills # <<>>
  PROVE  /\ Head(fills) \in Events /\ Head(fills).id \in 1..Len(venue)
         /\ Reports(Tail(fills), venue) /\ Reports(fills, venue) /\ Reports(lost, venue)
         /\ venue \in Seq(Orders)
<1>1. /\ fills \in Seq(Events) /\ Reports(fills, venue) /\ Reports(lost, venue) /\ venue \in Seq(Orders)
      /\ \A i \in 1..Len(fills) : fills[i] \in Events /\ fills[i].id \in 1..Len(venue)
  BY Shaped DEF Held, OrdersInv
<1>2. /\ Tail(fills) \in Seq(Events) /\ Head(fills) = fills[1] /\ Len(fills) \in Nat \ {0}
      /\ Len(Tail(fills)) = Len(fills) - 1
      /\ \A i \in 1..Len(fills) - 1 : Tail(fills)[i] = fills[i + 1]
  BY <1>1, SeqTail
<1>3. 1 \in 1..Len(fills)
  BY <1>2
<1>4. \A i \in 1..Len(Tail(fills)) : Tail(fills)[i].id <= Len(venue)
  <2>1. SUFFICES ASSUME NEW i \in 1..Len(fills) - 1 PROVE Tail(fills)[i].id <= Len(venue)
    BY <1>2
  <2>2. i + 1 \in 1..Len(fills) /\ Tail(fills)[i] = fills[i + 1]
    BY <1>2
  <2> QED BY <1>1, <2>2 DEF Reports
<1> QED BY <1>1, <1>2, <1>3, <1>4 DEF Reports

\* A fill is read: it moves from what is told to the position.
LEMMA BaseDispatchFill == BaseInv /\ DispatchFill => BaseInv'
<1> SUFFICES ASSUME BaseInv, DispatchFill PROVE BaseInv'
  OBVIOUS
<1>1. Held(venue, fills, lost, calls, all, live, net) /\ Awaits(task, calls) /\ LocalTypes
  BY BaseParts
<1>2. PICK e \in Events : e = Head(fills)
  BY <1>1, EventRead DEF DispatchFill
<1>3. /\ fills # <<>> /\ fills' = Tail(fills) /\ MarkFilled(e.id, e.qty)
      /\ net' = net + Signed(venue[e.id].side, e.qty)
      /\ dispatching' = ~killed
      /\ UNCHANGED <<venue, lost, calls, frozen, task, killed, swept, up>>
  BY <1>2 DEF DispatchFill, CountFill
<1>4. /\ OrdersInv(venue, fills, lost, calls, all, live) /\ Unspent(venue)
      /\ Conserved(venue, fills, lost, net) /\ net \in Int
  BY <1>1 DEF Held, LocalTypes
<1>5. Conserved(venue, Tail(fills), lost, net') /\ net' \in Int
  BY <1>1, <1>2, <1>3, <1>4, EventRead, ConservedRead
<1>6. OrdersInv(venue, fills, lost, calls, all', live')
  <2>1. CASE e.id \in DOMAIN all
    <3>1. PICK rec : RecordBut(all, all', e.id, rec) /\ Dropped(live, live')
      BY <1>3, <1>4, <2>1, FillMarks
    <3> QED BY <1>4, <2>1, <3>1, RecordChanges
  <2>2. CASE e.id \notin DOMAIN all
    BY <1>3, <1>4, <2>2 DEF MarkFilled, Known
  <2> QED BY <2>1, <2>2
<1>7. OrdersInv(venue, Tail(fills), lost, calls, all', live')
  BY <1>1, <1>3, <1>6, EventRead DEF OrdersInv
<1>8. Held(venue', fills', lost', calls', all', live', net')
  BY <1>3, <1>4, <1>5, <1>7 DEF Held
<1>9. LocalTypes'
  BY <1>1, <1>3, <1>5 DEF LocalTypes
<1> QED BY <1>1, <1>3, <1>8, <1>9, BaseParts

\* The dispatcher stops.
LEMMA BaseDispatchStops == BaseInv /\ DispatchStops => BaseInv'
BY BaseParts DEF DispatchStops, LocalTypes

\* The kill event is set.
LEMMA BaseKill == BaseInv /\ Kill => BaseInv'
BY BaseParts DEF Kill, LocalTypes

\* The kill monitor sends its cancels.
LEMMA BaseKillSweep == BaseInv /\ KillSweep => BaseInv'
<1> SUFFICES ASSUME BaseInv, KillSweep PROVE BaseInv'
  OBVIOUS
<1>1. Held(venue, fills, lost, calls, all, live, net) /\ Awaits(task, calls) /\ LocalTypes
  BY BaseParts
<1>2. PICK cs : cs = calls \cup {Call("kill", "delete", id) : id \in ToCancel}
  OBVIOUS
<1>3. Held(venue, fills, lost, cs, all, live, net)
  BY <1>1, <1>2, ToCancelKnown, DeletesKeep
<1>4. (\A d \in cs : d.by = "strategy" => d \in calls) /\ calls \subseteq cs
  BY <1>2, CallIs
<1>5. Awaits(task, cs)
  BY <1>1, <1>4, OtherCalls
<1>6. /\ calls' = cs /\ swept' = TRUE
      /\ UNCHANGED <<venue, fills, lost, all, live, net, task, frozen, killed, dispatching, up>>
  BY <1>2 DEF KillSweep, SendDeletes
<1> QED BY <1>1, <1>3, <1>5, <1>6, BaseParts DEF LocalTypes

\* A cancel of the kill monitor comes back.
LEMMA BaseKillSweepReturns ==
  ASSUME NEW c \in calls, BaseInv, KillSweepReturns(c)
  PROVE  BaseInv'
<1> DEFINE s == venue[c.id].side
           al == MarkCancelled(c.id)
           lv == DropLive(s)
<1>1. Held(venue, fills, lost, calls, all, live, net) /\ Awaits(task, calls) /\ LocalTypes
  BY BaseParts
<1>2. /\ c.by = "kill" /\ calls' = calls \ {c}
      /\ UNCHANGED <<venue, fills, lost, task, net, killed, swept, dispatching, up>>
  BY DEF KillSweepReturns, CallsBy
<1>3. Awaits(task', calls')
  BY <1>1, <1>2, OtherCalls
<1>4. OrdersInv(venue, fills, lost, calls, all, live) /\ s \in Sides /\ c.op \in {"post", "delete"}
  BY <1>1, Shaped DEF Held
<1>5. c.op = "delete" /\ c.id \in DOMAIN all
  <2>1. Posts(venue, calls, all) /\ Deletes(calls, all)
    BY <1>4 DEF OrdersInv
  <2>2. c.op # "post"
    BY <1>2, <2>1 DEF Posts, Post
  <2>3. c.op = "delete"
    BY <1>4, <2>2
  <2> QED BY <2>1, <2>3 DEF Deletes
<1>6. CASE c.reply = "error"
  <2>1. UNCHANGED <<all, live, frozen>>
    BY <1>6 DEF KillSweepReturns
  <2>2. Held(venue, fills, lost, calls \ {c}, all, live, net)
    BY <1>1, EndKeeps
  <2> QED BY <1>1, <1>2, <1>3, <2>1, <2>2, BaseParts DEF LocalTypes
<1>7. CASE c.reply # "error"
  <2>1. all' = al /\ live' = lv /\ RecordCancel(s)
    BY <1>7 DEF KillSweepReturns
  <2>2. Held(venue, fills, lost, calls \ {c}, al, lv, net)
    BY <1>1, <1>5, CancelKeeps
  <2> HIDE DEF al, lv, s
  <2>3. frozen' \in [Sides -> BOOLEAN]
    BY <1>1, <1>4, <2>1, FreezesOnly DEF LocalTypes
  <2> QED BY <1>1, <1>2, <1>3, <2>1, <2>2, <2>3, BaseParts DEF LocalTypes
<1> QED BY <1>6, <1>7

\* The steps of the exchange.
\* An order moves, and its caller may be answered.
LEMMA MoveKeeps ==
  ASSUME NEW c \in calls, NEW at \in {"resting", "gone"}, NEW r,
         Held(venue, fills, lost, calls, all, live, net), c.reply = "none",
         r \in IF c.op = "post" THEN {"live", "delayed", "error"} ELSE {"ok", "error"},
         at = "resting" => c.op = "post"
  PROVE  /\ VenueBut(venue, [venue EXCEPT ![c.id].at = at], c.id, venue[c.id].left, at)
         /\ Held([venue EXCEPT ![c.id].at = at], fills, lost, Answered(calls, c, r), all, live, net)
<1>1. OrdersInv(venue, fills, lost, calls, all, live) /\ Unspent(venue) /\ Conserved(venue, fills, lost, net)
  BY DEF Held
<1>2. /\ venue \in Seq(Orders) /\ c.id \in 1..Len(venue) /\ Reports(fills, venue) /\ Reports(lost, venue)
  BY <1>1, Shaped DEF OrdersInv
<1>3. PICK we : we = [venue EXCEPT ![c.id].at = at]
  OBVIOUS
<1>4. VenueBut(venue, we, c.id, venue[c.id].left, at)
  BY <1>2, <1>3, Moves
<1>5. Answering(Answered(calls, c, r), calls, c.id)
  BY <1>1, AnsweredIs
<1>6. OrdersInv(we, fills, lost, Answered(calls, c, r), all, live)
  BY <1>1, <1>2, <1>4, <1>5, OrderChanges
<1>7. Conserved(we, fills, lost, net)
  BY <1>1, <1>2, <1>4, ConservedMoved
<1>8. Unspent(we)
  <2>1. at = "resting" => venue[c.id].at = "sent"
    BY <1>1 DEF OrdersInv, Posts, Post
  <2>2. /\ Len(we) = Len(venue) /\ we[c.id].at = at /\ we[c.id].left = venue[c.id].left
        /\ \A i \in 1..Len(venue) : i # c.id => we[i] = venue[i]
    BY <1>4 DEF VenueBut
  <2> QED BY <1>1, <1>2, <2>1, <2>2 DEF Unspent
<1> QED BY <1>3, <1>4, <1>6, <1>7, <1>8 DEF Held

\* An order trades, and the event is on its way.
LEMMA TradeKeeps ==
  ASSUME NEW id \in 1..Len(venue), NEW left \in 0..Lots, NEW at \in {"resting", "gone"}, NEW e \in Events, NEW ds,
         Held(venue, fills, lost, calls, all, live, net), net \in Int,
         e.id = id, left = venue[id].left - e.qty, at = "resting" => left > 0,
         Answering(ds, calls, id)
  PROVE  /\ VenueBut(venue, [venue EXCEPT ![id].left = left, ![id].at = at], id, left, at)
         /\ Held([venue EXCEPT ![id].left = left, ![id].at = at], Append(fills, e), lost, ds, all, live, net)
<1>1. OrdersInv(venue, fills, lost, calls, all, live) /\ Unspent(venue) /\ Conserved(venue, fills, lost, net)
  BY DEF Held
<1>2. venue \in Seq(Orders) /\ fills \in Seq(Events) /\ Reports(fills, venue) /\ Reports(lost, venue)
  BY <1>1, Shaped DEF OrdersInv
<1>3. PICK we : we = [venue EXCEPT ![id].left = left, ![id].at = at] /\ VenueBut(venue, we, id, left, at)
  BY <1>2, Trades
<1>4. VenueBut(venue, we, id, left, at)
  BY <1>3
<1>5. Reports(Append(fills, e), venue)
  <2>1. /\ Append(fills, e) \in Seq(Events) /\ Len(fills) \in Nat /\ Len(Append(fills, e)) = Len(fills) + 1
        /\ Append(fills, e)[Len(fills) + 1] = e
        /\ \A i \in 1..Len(fills) : Append(fills, e)[i] = fills[i]
    BY <1>2, SeqAppend
  <2>2. ASSUME NEW i \in 1..Len(fills) + 1 PROVE Append(fills, e)[i].id <= Len(venue)
    <3>1. CASE i \in 1..Len(fills)
      BY <1>2, <2>1, <3>1 DEF Reports
    <3>2. CASE i = Len(fills) + 1
      BY <1>2, <2>1, <3>2
    <3> QED BY <2>1, <3>1, <3>2
  <2> QED BY <2>1, <2>2 DEF Reports
<1>6. OrdersInv(we, Append(fills, e), lost, ds, all, live)
  BY <1>1, <1>4, <1>5, OrderChanges
<1>7. Conserved(we, Append(fills, e), lost, net)
  BY <1>1, <1>2, <1>4, ConservedSold
<1>8. Unspent(we)
  <2>1. /\ Len(we) = Len(venue) /\ we[id].at = at /\ we[id].left = left
        /\ \A i \in 1..Len(venue) : i # id => we[i] = venue[i]
    BY <1>4 DEF VenueBut
  <2> QED BY <1>1, <2>1 DEF Unspent
<1> QED BY <1>3, <1>4, <1>6, <1>7, <1>8 DEF Held

\* An answer of the exchange is what the lemmas call one.
LEMMA AnswerIs ==
  ASSUME NEW c, NEW r, Answer(c, r)
  PROVE  calls' = Answered(calls, c, r)
BY DEF Answer, Answered, Replied

\* The task waits on, whoever is answered.
LEMMA StillAwaits ==
  ASSUME NEW c \in calls, NEW r \in Replies, BaseInv
  PROVE  Awaits(task, Answered(calls, c, r))
<1>1. Awaits(task, calls) /\ calls \subseteq Requests
  BY DEF BaseInv, OrdersInv, Shapes
<1> QED BY <1>1, AnsweredCalls DEF Answered

\* An event is made of an order and a size.
LEMMA EventMade ==
  ASSUME NEW id \in Ids, NEW qty \in 1..Lots
  PROVE  /\ [id |-> id, qty |-> qty] \in Events
         /\ [id |-> id, qty |-> qty].id = id /\ [id |-> id, qty |-> qty].qty = qty
BY DEF Events

\* The exchange takes an order, which may trade at once.
LEMMA BaseVenueAccepts ==
  ASSUME NEW c \in calls, BaseInv, VenueAccepts(c)
  PROVE  BaseInv'
<1>1. Held(venue, fills, lost, calls, all, live, net) /\ Awaits(task, calls) /\ LocalTypes
  BY BaseParts
<1>2. /\ c.op = "post" /\ c.reply = "none"
      /\ UNCHANGED <<lost, all, live, frozen, task, net, killed, swept, dispatching, up>>
  BY DEF VenueAccepts
<1>3. ASSUME NEW r \in {"live", "delayed"}, NEW at \in {"resting", "gone"},
             venue' = [venue EXCEPT ![c.id].at = at], Answer(c, r), UNCHANGED fills
      PROVE  BaseInv'
  <2>1. Held(venue', fills', lost', calls', all', live', net')
    BY <1>1, <1>2, <1>3, MoveKeeps, AnswerIs
  <2>2. Awaits(task', calls')
    BY <1>2, <1>3, StillAwaits, AnswerIs DEF Replies
  <2> QED BY <1>1, <1>2, <2>1, <2>2, BaseParts DEF LocalTypes
<1>4. ASSUME NEW qty \in (IF "partial" \in Faults THEN 1 ELSE Lots)..Lots,
             venue' = [venue EXCEPT ![c.id].left = Lots - qty,
                                    ![c.id].at = IF qty < Lots THEN "resting" ELSE "gone"],
             fills' = Append(fills, [id |-> c.id, qty |-> qty]), Answer(c, "matched")
      PROVE  BaseInv'
  <2> DEFINE at == IF qty < Lots THEN "resting" ELSE "gone"
  <2>1. qty \in 1..Lots /\ Lots - qty \in 0..Lots /\ (at = "resting" => Lots - qty > 0)
    BY Bounds
  <2>2. OrdersInv(venue, fills, lost, calls, all, live)
    BY <1>1 DEF Held
  <2>3. c.id \in 1..Len(venue) /\ c.id \in Ids /\ venue[c.id].left = Lots
    BY <1>2, <2>2, Shaped, Bounds DEF OrdersInv, Posts, Post, Ids
  <2>4. PICK e \in Events : e = [id |-> c.id, qty |-> qty] /\ e.id = c.id /\ e.qty = qty
    BY <2>1, <2>3, EventMade
  <2>5. Answering(Answered(calls, c, "matched"), calls, c.id)
    BY <1>2, <2>2, AnsweredIs
  <2>6. PICK left \in 0..Lots : left = Lots - qty
    BY <2>1
  <2> HIDE DEF at
  <2>7. at \in {"resting", "gone"}
    BY DEF at
  <2>8. Held([venue EXCEPT ![c.id].left = left, ![c.id].at = at], Append(fills, e), lost,
             Answered(calls, c, "matched"), all, live, net)
    BY <1>1, <2>1, <2>3, <2>4, <2>5, <2>6, <2>7, TradeKeeps DEF LocalTypes
  <2>9. Held(venue', fills', lost', calls', all', live', net')
    BY <1>2, <1>4, <2>4, <2>6, <2>8, AnswerIs DEF at
  <2>10. Awaits(task', calls')
    BY <1>2, <1>4, StillAwaits, AnswerIs DEF Replies
  <2> QED BY <1>1, <1>2, <2>9, <2>10, BaseParts DEF LocalTypes
<1> QED BY <1>3, <1>4 DEF VenueAccepts

\* It refuses one.
LEMMA BaseVenueRejects ==
  ASSUME NEW c \in calls, BaseInv, VenueRejects(c)
  PROVE  BaseInv'
<1>1. Held(venue, fills, lost, calls, all, live, net) /\ Awaits(task, calls) /\ LocalTypes
  BY BaseParts
<1>2. /\ c.op = "post" /\ c.reply = "none" /\ Answer(c, "error")
      /\ venue' = [venue EXCEPT ![c.id].at = "gone"]
      /\ UNCHANGED <<fills, lost, all, live, frozen, task, net, killed, swept, dispatching, up>>
  BY DEF VenueRejects
<1>3. Held(venue', fills', lost', calls', all', live', net')
  BY <1>1, <1>2, MoveKeeps, AnswerIs
<1>4. Awaits(task', calls')
  BY <1>2, StillAwaits, AnswerIs DEF Replies
<1> QED BY <1>1, <1>2, <1>3, <1>4, BaseParts DEF LocalTypes

\* It cancels one.
LEMMA BaseVenueCancels ==
  ASSUME NEW c \in calls, BaseInv, VenueCancels(c)
  PROVE  BaseInv'
<1>1. Held(venue, fills, lost, calls, all, live, net) /\ Awaits(task, calls) /\ LocalTypes
  BY BaseParts
<1>2. /\ c.op = "delete" /\ c.reply = "none"
      /\ venue' = [venue EXCEPT ![c.id].at = "gone"]
      /\ UNCHANGED <<fills, lost, all, live, frozen, task, net, killed, swept, dispatching, up>>
  BY DEF VenueCancels
<1>3. PICK r \in {"ok", "error"} : Answer(c, r)
  BY DEF VenueCancels
<1>4. Held(venue', fills', lost', calls', all', live', net')
  BY <1>1, <1>2, <1>3, MoveKeeps, AnswerIs
<1>5. Awaits(task', calls')
  BY <1>2, <1>3, StillAwaits, AnswerIs DEF Replies
<1> QED BY <1>1, <1>2, <1>4, <1>5, BaseParts DEF LocalTypes

\* What an order that rests can trade.
LEMMA CanTrade ==
  ASSUME NEW id \in 1..Len(venue), Held(venue, fills, lost, calls, all, live, net), Resting(id)
  PROVE  /\ venue[id].left \in 1..Lots /\ id \in Ids
         /\ Answering(calls, calls, id)
<1>1. OrdersInv(venue, fills, lost, calls, all, live) /\ Unspent(venue)
  BY DEF Held
<1>2. venue[id].left \in 0..Lots /\ id \in 1..MaxOrders
  BY <1>1, Shaped, Bounds
<1>3. venue[id].left > 0 /\ venue[id].at # "sent"
  BY <1>1 DEF Unspent, Resting
<1>4. Answering(calls, calls, id)
  BY <1>1, <1>3 DEF Answering, OrdersInv, Posts, Post
<1> QED BY <1>2, <1>3, <1>4, Bounds DEF Ids

\* An order that rests trades.
LEMMA BaseVenueFills ==
  ASSUME NEW id \in 1..Len(venue), BaseInv, VenueFills(id)
  PROVE  BaseInv'
<1>1. Held(venue, fills, lost, calls, all, live, net) /\ Awaits(task, calls) /\ LocalTypes
  BY BaseParts
<1>2. /\ Resting(id)
      /\ UNCHANGED <<calls, lost, all, live, frozen, task, net, killed, swept, dispatching, up>>
  BY DEF VenueFills
<1>3. venue[id].left \in 1..Lots /\ id \in Ids /\ Answering(calls, calls, id)
  BY <1>1, <1>2, CanTrade
<1>4. PICK qty \in (IF "partial" \in Faults THEN 1 ELSE venue[id].left)..venue[id].left :
        /\ venue' = [venue EXCEPT ![id].left = @ - qty,
                                  ![id].at = IF qty < venue[id].left THEN "resting" ELSE "gone"]
        /\ fills' = Append(fills, [id |-> id, qty |-> qty])
  BY DEF VenueFills
<1> DEFINE at == IF qty < venue[id].left THEN "resting" ELSE "gone"
<1>5. /\ qty \in 1..Lots
      /\ venue[id].left - qty \in 0..Lots /\ (at = "resting" => venue[id].left - qty > 0)
  BY <1>3, Bounds
<1>5a. PICK left \in 0..Lots : left = venue[id].left - qty /\ (at = "resting" => left > 0)
  BY <1>5
<1>6. PICK e \in Events : e = [id |-> id, qty |-> qty] /\ e.id = id /\ e.qty = qty
  BY <1>3, <1>5, EventMade
<1> HIDE DEF at
<1>7. at \in {"resting", "gone"}
  BY DEF at
<1>8. Held([venue EXCEPT ![id].left = left, ![id].at = at], Append(fills, e), lost, calls, all, live, net)
  BY <1>1, <1>3, <1>5a, <1>6, <1>7, TradeKeeps DEF LocalTypes
<1>9. Held(venue', fills', lost', calls', all', live', net')
  BY <1>2, <1>4, <1>5a, <1>6, <1>8 DEF at
<1> QED BY <1>1, <1>2, <1>9, BaseParts DEF LocalTypes

\* A fill moves from those on their way to those that never come.
LEMMA BaseFillLost == BaseInv /\ FillLost => BaseInv'
<1> SUFFICES ASSUME BaseInv, FillLost PROVE BaseInv'
  OBVIOUS
<1>1. Held(venue, fills, lost, calls, all, live, net) /\ Awaits(task, calls) /\ LocalTypes
  BY BaseParts
<1>2. /\ fills # <<>> /\ fills' = Tail(fills) /\ lost' = Append(lost, Head(fills))
      /\ UNCHANGED <<venue, calls, all, live, frozen, task, net, killed, swept, dispatching, up>>
  BY DEF FillLost
<1>3. PICK e \in Events : /\ e = Head(fills) /\ e.id \in 1..Len(venue) /\ Reports(Tail(fills), venue)
                          /\ Reports(fills, venue) /\ Reports(lost, venue) /\ venue \in Seq(Orders)
  BY <1>1, <1>2, EventRead
<1>4. Conserved(venue, Tail(fills), Append(lost, e), net)
  BY <1>1, <1>2, <1>3, ConservedLost DEF Held, LocalTypes
<1>5. Reports(Append(lost, e), venue)
  <2>1. lost \in Seq(Events)
    BY <1>3 DEF Reports
  <2>2. /\ Append(lost, e) \in Seq(Events) /\ Len(lost) \in Nat /\ Len(Append(lost, e)) = Len(lost) + 1
        /\ Append(lost, e)[Len(lost) + 1] = e
        /\ \A i \in 1..Len(lost) : Append(lost, e)[i] = lost[i]
    BY <2>1, SeqAppend
  <2>3. ASSUME NEW i \in 1..Len(lost) + 1 PROVE Append(lost, e)[i].id <= Len(venue)
    <3>1. CASE i \in 1..Len(lost)
      BY <1>3, <2>2, <3>1 DEF Reports
    <3>2. CASE i = Len(lost) + 1
      BY <1>3, <2>2, <3>2
    <3> QED BY <2>2, <3>1, <3>2
  <2> QED BY <2>2, <2>3 DEF Reports
<1>6. OrdersInv(venue, Tail(fills), Append(lost, e), calls, all, live)
  BY <1>1, <1>3, <1>5 DEF Held, OrdersInv
<1>7. Held(venue', fills', lost', calls', all', live', net')
  BY <1>1, <1>2, <1>3, <1>4, <1>6 DEF Held
<1> QED BY <1>1, <1>2, <1>7, BaseParts DEF LocalTypes

\* Nothing has happened yet.
LEMMA BaseInit == Init => BaseInv
<1> SUFFICES ASSUME Init PROVE BaseInv
  OBVIOUS
<1>1. /\ venue = <<>> /\ fills = <<>> /\ lost = <<>> /\ calls = {} /\ all = <<>> /\ net = StartNet
      /\ live = [s \in Sides |-> NoOrder] /\ frozen = [s \in Sides |-> FALSE] /\ task = Idle
      /\ killed = FALSE /\ swept = FALSE /\ dispatching = TRUE /\ up = TRUE
  BY DEF Init
<1>2. /\ venue \in Seq(Orders) /\ Len(venue) = 0 /\ fills \in Seq(Events) /\ lost \in Seq(Events)
      /\ Len(fills) = 0 /\ Len(lost) = 0
  BY <1>1
<1>3. DOMAIN all = {} /\ all \in [DOMAIN all -> Records]
  BY <1>1
<1>4. live \in [Sides -> 0..MaxOrders] /\ \A s \in Sides : live[s] = NoOrder
  BY <1>1, Bounds
<1>5. Shapes(venue, calls, all, live)
  BY <1>1, <1>2, <1>3, <1>4, Bounds DEF Shapes
<1>6. Reports(fills, venue) /\ Reports(lost, venue)
  BY <1>2 DEF Reports
<1>7. Posts(venue, calls, all) /\ Deletes(calls, all) /\ Reached(venue, all) /\ Unheard(calls)
  BY <1>1, <1>3 DEF Posts, Deletes, Reached, Unheard
<1>8. Unspent(venue) /\ Awaits(task, calls) /\ LocalTypes
  <2>1. Unspent(venue)
    BY <1>2 DEF Unspent
  <2>2. Awaits(task, calls)
    BY <1>1 DEF Awaits, NoneOf
  <2>3. frozen \in [Sides -> BOOLEAN] /\ net \in Int
    BY <1>1, Bounds
  <2>4. killed \in BOOLEAN /\ swept \in BOOLEAN /\ dispatching \in BOOLEAN /\ up \in BOOLEAN
    BY <1>1, Zenon
  <2> QED BY <2>1, <2>2, <2>3, <2>4, Zenon DEF LocalTypes
<1>9. Traded(venue) = 0
  <2>1. Traded(venue) = Weigh(venue, Worth) /\ Worth \in [Orders -> Int]
    BY <1>2, TradedIs, WorthTyped
  <2> QED BY <1>1, <2>1, WeighEmpty
<1>10. Told(venue, fills) = 0 /\ Told(venue, lost) = 0
  <2>1. /\ Told(venue, fills) = Weigh(fills, Says(venue)) /\ Told(venue, lost) = Weigh(lost, Says(venue))
        /\ Says(venue) \in [Events -> Int]
    BY <1>2, ToldIs, SaysTyped
  <2> QED BY <1>1, <2>1, WeighEmpty
<1>11. PositionConserved
  BY <1>1, <1>9, <1>10, Bounds DEF PositionConserved
<1> QED BY <1>5, <1>6, <1>7, <1>8, <1>11 DEF BaseInv, OrdersInv

\* Every step, one action at a time.
LEMMA BaseStep == BaseInv /\ [Next]_vars => BaseInv'
<1> SUFFICES ASSUME BaseInv, [Next]_vars PROVE BaseInv'
  OBVIOUS
<1>1. CASE UpdateSweep \/ UpdateAtLimit \/ \E q \in Quotes : UpdateQuotes(q)
  BY <1>1, BaseUpdateSweep, BaseUpdateAtLimit, BaseUpdateQuotes
<1>2. CASE StrategyReturns
  BY <1>2, BasePostReturns, BaseRepriceReturns, BaseSweepReturns, BaseStrategyThrows DEF StrategyReturns
<1>3. CASE KillReturns
  BY <1>3, BaseKillSweepReturns DEF KillReturns
<1>4. CASE Timeouts
  BY <1>4, BaseStrategyTimeout, BaseKillTimeout DEF Timeouts
<1>5. CASE VenueAnswers
  BY <1>5, BaseVenueAccepts, BaseVenueRejects, BaseVenueCancels DEF VenueAnswers
<1>6. CASE \E s \in Sides : Thaw(s)
  BY <1>6, BaseThaw
<1>7. CASE DispatchFill \/ DispatchStops \/ Kill \/ KillSweep
  BY <1>7, BaseDispatchFill, BaseDispatchStops, BaseKill, BaseKillSweep
<1>8. CASE \E id \in 1..Len(venue) : VenueFills(id)
  BY <1>8, BaseVenueFills
<1>9. CASE FillLost
  BY <1>9, BaseFillLost
<1>10. CASE UNCHANGED vars
  BY <1>10, BaseParts DEF vars, LocalTypes
<1> QED BY <1>1, <1>2, <1>3, <1>4, <1>5, <1>6, <1>7, <1>8, <1>9, <1>10 DEF Next

\* BaseInv holds in every state.
LEMMA BaseAlways == Spec => []BaseInv
<1> QED BY BaseInit, BaseStep, PTL DEF Spec

\* A side that is odd stays so, and it is the side of an order.
LEMMA OddGrows == BaseInv /\ OddSides /\ [Next]_vars => odd \subseteq odd' /\ OddSides'
<1> SUFFICES ASSUME BaseInv, OddSides, [Next]_vars PROVE odd \subseteq odd' /\ odd' \subseteq Sides
  BY DEF OddSides
<1> USE DEF OddSides
<1>1. /\ \A id \in 1..Len(venue) : venue[id].side \in Sides
      /\ \A c \in calls : venue[c.id].side \in Sides
  <2>1. OrdersInv(venue, fills, lost, calls, all, live)
    BY DEF BaseInv
  <2> QED BY <2>1, Shaped
<1>2. CASE Timeouts
  BY <1>1, <1>2 DEF Timeouts, StrategyTimeout, KillTimeout, Oddly
<1>3. CASE VenueAnswers
  BY <1>1, <1>3 DEF VenueAnswers, VenueAccepts, VenueRejects, VenueCancels, Oddly
<1>4. CASE \E id \in 1..Len(venue) : VenueFills(id)
  BY <1>1, <1>4 DEF VenueFills, Oddly
<1>5. CASE UpdateSweep \/ UpdateAtLimit \/ \E q \in Quotes : UpdateQuotes(q)
  BY <1>5 DEF UpdateSweep, UpdateAtLimit, UpdateQuotes
<1>6. CASE StrategyReturns \/ KillReturns
  BY <1>6 DEF StrategyReturns, KillReturns, PostReturns, RepriceReturns, SweepReturns, StrategyThrows,
              KillSweepReturns
<1>7. CASE (\E s \in Sides : Thaw(s)) \/ DispatchFill \/ DispatchStops \/ Kill \/ KillSweep \/ FillLost
  BY <1>7 DEF Thaw, DispatchFill, DispatchStops, Kill, KillSweep, FillLost
<1>8. CASE UNCHANGED vars
  BY <1>8 DEF vars
<1> QED BY <1>2, <1>3, <1>4, <1>5, <1>6, <1>7, <1>8 DEF Next

\* The state always has its shapes, under all faults: no call is about an order
\* the exchange has not seen, and the index names orders of _all only
\* (_place_order, _cancel_order, mark_filled).
THEOREM TypeCorrect == Spec => []TypeOK
<1>1. BaseInv /\ OddSides => TypeOK
  <2> SUFFICES ASSUME BaseInv, OddSides PROVE TypeOK
    OBVIOUS
  <2>1. /\ Shapes(venue, calls, all, live) /\ Reports(fills, venue) /\ Reports(lost, venue)
        /\ OrdersInv(venue, fills, lost, calls, all, live) /\ Awaits(task, calls) /\ LocalTypes
    BY DEF BaseInv, OrdersInv
  <2>2. venue \in Seq([side : Sides, price : Int, left : 0..Lots, at : {"sent", "resting", "gone"}])
    BY <2>1 DEF Shapes, Orders
  <2>3. {fills, lost} \subseteq Seq([id : Ids, qty : 1..Lots])
    BY <2>1 DEF Reports, Events
  <2>4. calls \subseteq [by : {"strategy", "kill", "nobody"}, op : {"post", "delete"},
                         id : 1..Len(venue), reply : Replies]
    <3>1. \A c \in calls : c \in Requests /\ c.id \in 1..Len(venue)
      BY <2>1, Shaped
    <3> QED BY <3>1 DEF Requests
  <2>5. DOMAIN all \subseteq 1..Len(venue) /\ \A id \in DOMAIN all : all[id] \in [status : Statuses, filled : Nat]
    BY <2>1 DEF Shapes, Records
  <2>6. live \in [Sides -> {NoOrder} \cup DOMAIN all]
    BY <2>1 DEF Shapes
  <2>7. task \in {Idle, Sweeping} \cup {Quoting(q, todo) : q \in Quotes, todo \in SUBSET {"SELL"}}
    BY <2>1 DEF Awaits, Rounds
  <2>8. frozen \in [Sides -> BOOLEAN] /\ {killed, swept, dispatching, up} \subseteq BOOLEAN
    BY <2>1 DEF LocalTypes
  <2>9. net \in Int /\ odd \subseteq Sides
    BY <2>1 DEF LocalTypes, OddSides
  <2>10. TypeOK <=> /\ net \in Int /\ odd \subseteq Sides
                    /\ frozen \in [Sides -> BOOLEAN] /\ {killed, swept, dispatching, up} \subseteq BOOLEAN
    BY <2>2, <2>3, <2>4, <2>5, <2>6, <2>7, SMTT(60) DEF TypeOK
  <2> QED BY <2>8, <2>9, <2>10
<1>2. Init => OddSides
  BY DEF Init, OddSides
<1> QED BY <1>1, <1>2, BaseInit, BaseStep, OddGrows, PTL DEF Spec

\* The position is always what the orders have traded, less the events on their
\* way and those that never came, whatever the exchange and the network do
\* (_apply_fill, mark_filled).
THEOREM PositionAlwaysConserved == Spec => []PositionConserved
<1>1. BaseInv => PositionConserved
  BY DEF BaseInv
<1> QED BY <1>1, BaseAlways, PTL

-----------------------------------------------------------------------------
(* Every step keeps CalmInv: what the pieces of a step do to the orders.   *)

\* Cancels are sent, and nothing else changes.
LEMMA TameDeletes ==
  ASSUME NEW ve, NEW fi, NEW lo, NEW cs, NEW al, NEW lv, NEW od, NEW by, NEW ids,
         OrdersInv(ve, fi, lo, cs, al, lv), TameInv(ve, fi, cs, al, lv, od)
  PROVE  TameInv(ve, fi, cs \cup {Call(by, "delete", id) : id \in ids}, al, lv, od)
<1>1. Settled(ve, cs \cup {Call(by, "delete", id) : id \in ids}, cs, od)
  BY CallIs DEF Settled
<1> QED BY <1>1, TameCalls

\* A call ends that is not the POST of an order alive.
LEMMA TameEnds ==
  ASSUME NEW ve, NEW fi, NEW lo, NEW cs, NEW al, NEW lv, NEW od, NEW c \in cs,
         OrdersInv(ve, fi, lo, cs, al, lv), TameInv(ve, fi, cs, al, lv, od),
         c.op = "delete" \/ c.reply = "error"
  PROVE  TameInv(ve, fi, cs \ {c}, al, lv, od)
<1>1. c.op = "post" /\ ve[c.id].side \notin od => ve[c.id].at = "gone" /\ ve[c.id].left = Lots
  BY Tamed
<1>2. Settled(ve, cs \ {c}, cs, od)
  BY <1>1 DEF Settled
<1> QED BY <1>2, TameCalls

\* A side of the index that is not odd holds a standing order, or nothing.
LEMMA SideHolds ==
  ASSUME NEW ve, NEW fi, NEW lo, NEW cs, NEW al, NEW lv, NEW od, NEW s \in Sides,
         OrdersInv(ve, fi, lo, cs, al, lv), TameInv(ve, fi, cs, al, lv, od), lv[s] # NoOrder, s \notin od
  PROVE  Standing(lv[s], al) /\ ve[lv[s]].side = s /\ lv[s] \in DOMAIN al
<1>1. lv[s] \in DOMAIN al /\ ve[lv[s]].side = s
  BY Shaped
<1> QED BY <1>1, Tamed

\* The rest of an update keeps the orders in order.
LEMMA TameProceed ==
  ASSUME NEW todo \in SUBSET Sides, NEW q \in Quotes, NEW al, NEW lv, NEW cs, NEW lo, NEW od,
         OrdersInv(venue, fills, lo, cs, al, lv), TameInv(venue, fills, cs, al, lv, od),
         Proceed(todo, q, al, lv, cs)
  PROVE  TameInv(venue', fills, calls', al, lv, od)
<1>1. venue \in Seq(Orders)
  BY DEF OrdersInv, Shapes
<1>2. CASE Ends(cs)
  BY <1>2 DEF Ends
<1>3. ASSUME NEW s \in todo, Places(s, q, lv, al, cs) PROVE TameInv(venue', fills, calls', al, lv, od)
  <2>1. s \in Sides /\ (s \notin od => lv[s] = NoOrder)
    BY <1>3, SideHolds DEF Places, Standing
  <2>2. PICK o : o = NewOrder(s, q) /\ o.side = s /\ o.left = Lots
    BY <2>1, NewOrderIs
  <2>3. Grown(venue, venue', o) /\ calls' = Posting(venue, cs)
    BY <1>3, <2>2 DEF Places
  <2> QED BY <2>1, <2>2, <2>3, TamePost DEF Posting
<1>4. ASSUME NEW s \in todo, Cancels(s, lv, al, cs) PROVE TameInv(venue', fills, calls', al, lv, od)
  <2>1. PICK ids : ids = {lv[s]}
    OBVIOUS
  <2>2. TameInv(venue, fills, cs \cup {Call("strategy", "delete", id) : id \in ids}, al, lv, od)
    BY TameDeletes
  <2>3. venue' = venue /\ calls' = cs \cup {Call("strategy", "delete", id) : id \in ids}
    BY <1>4, <2>1 DEF Cancels, Deleting
  <2> QED BY <2>2, <2>3
<1> QED BY <1>1, <1>2, <1>3, <1>4, ProceedOutcome

\* A cancel is confirmed: its order leaves the index.
LEMMA TameConfirmed ==
  ASSUME NEW c \in calls, NEW od, c.reply = "ok",
         OrdersInv(venue, fills, lost, calls, all, live), TameInv(venue, fills, calls, all, live, od)
  PROVE  /\ TameInv(venue, fills, calls \ {c}, MarkCancelled(c.id), DropLive(venue[c.id].side), od)
         /\ DropLive(venue[c.id].side)[venue[c.id].side] = NoOrder
         /\ venue[c.id].side \notin od => live[venue[c.id].side] = c.id /\ Standing(c.id, all)
         /\ c.id # NoOrder /\ c.op = "delete" /\ c.id \in DOMAIN all
<1>1. c.id \in DOMAIN all /\ (venue[c.id].side \notin od => Standing(c.id, all)) /\ c.op = "delete"
  BY Tamed
<1>2. /\ all \in [DOMAIN all -> Records] /\ live \in [Sides -> 0..MaxOrders]
      /\ venue[c.id].side \in Sides /\ c.id \in 1..Len(venue)
  BY Shaped
<1>3. PICK rec \in Records : rec.status = "CANCELLED" /\ RecordBut(all, MarkCancelled(c.id), c.id, rec)
  BY <1>1, <1>2, Marked
<1>4. /\ IndexBut(live, DropLive(venue[c.id].side), venue[c.id].side, NoOrder)
      /\ DropLive(venue[c.id].side)[venue[c.id].side] = NoOrder
  BY <1>1, <1>2, Marked
<1>5. TameInv(venue, fills, calls \ {c}, MarkCancelled(c.id), DropLive(venue[c.id].side), od)
  BY <1>3, <1>4, TameCancelled
<1>6. (venue[c.id].side \notin od => live[venue[c.id].side] = c.id) /\ c.id # NoOrder
  BY <1>1, <1>2, Tamed DEF NoOrder
<1> QED BY <1>1, <1>4, <1>5, <1>6

\* A call whose caller gives up runs on; a POST makes its side odd.
LEMMA TameGivenUp ==
  ASSUME NEW c \in calls, NEW od, c.op = "post" => venue[c.id].side \in od,
         OrdersInv(venue, fills, lost, calls, all, live), TameInv(venue, fills, calls, all, live, od)
  PROVE  TameInv(venue, fills, Abandoned(c), all, live, od)
<1>1. c \in Requests /\ c.op \in {"post", "delete"}
  BY Shaped
<1>2. Orphan(c).op = c.op /\ Orphan(c).id = c.id /\ Orphan(c).reply = c.reply
  BY <1>1, RequestIs
<1>3. Abandoned(c) = GivenUp(c, calls)
  BY DEF Abandoned, GivenUp, Orphan
<1>4. \A d \in GivenUp(c, calls) : d \in calls \ {c} \/ (c.reply = "none" /\ d = Orphan(c))
  BY GaveUp
<1>5. \A d \in calls : d # c => d \in GivenUp(c, calls)
  BY DEF GivenUp
<1>6. Settled(venue, GivenUp(c, calls), calls, od)
  BY <1>1, <1>2, <1>4, <1>5 DEF Settled
<1> QED BY <1>3, <1>6, TameCalls

\* The strategy waits for one POST at most.
LEMMA OnePost ==
  ASSUME NEW cs, NEW ta, NEW c \in cs, NEW d \in cs, Awaits(ta, cs),
         c.by = "strategy", c.op = "post", d.by = "strategy", d.op = "post"
  PROVE  c = d
BY Waiting DEF NoneOf

-----------------------------------------------------------------------------
(* What the pieces of a step do to the limit.                              *)

\* Fewer orders outstanding, fewer sides to quote, if only on the sides that are
\* not odd.
LEMMA LimitKeeps ==
  ASSUME NEW ve, NEW fi, NEW cs, NEW ta, NEW od, NEW we, NEW gi, NEW ds, NEW tb, NEW oe, NEW nt,
         LimitInv(ve, fi, cs, ta, nt, od), od \subseteq oe,
         \A s \in Sides : s \notin oe /\ Outstanding(s, we, gi) => Outstanding(s, ve, fi),
         \/ tb.mode # "quoting"
         \/ /\ tb.mode = "quoting" /\ tb = ta
            /\ \A s \in Sides : s \notin oe /\ Replacing(s, we, ds, tb) => Replacing(s, ve, cs, ta)
  PROVE  LimitInv(we, gi, ds, tb, nt, oe)
<1>1. "BUY" \in Sides /\ "SELL" \in Sides
  BY DEF Sides
<1> SUFFICES ASSUME StartsWithin
             PROVE  /\ "BUY" \notin oe => LongInv(we, gi, ds, tb, nt)
                    /\ "SELL" \notin oe => ShortInv(we, gi, ds, tb, nt)
  BY DEF LimitInv
<1>2. ASSUME "BUY" \notin oe PROVE LongInv(we, gi, ds, tb, nt)
  <2>1. LongInv(ve, fi, cs, ta, nt)
    BY <1>2 DEF LimitInv
  <2>2. Replacing("BUY", we, ds, tb) => Replacing("BUY", ve, cs, ta)
    BY <1>1, <1>2 DEF Replacing
  <2> QED BY <1>1, <1>2, <2>1, <2>2 DEF LongInv
<1>3. ASSUME "SELL" \notin oe PROVE ShortInv(we, gi, ds, tb, nt)
  <2>1. ShortInv(ve, fi, cs, ta, nt)
    BY <1>3 DEF LimitInv
  <2>2. CASE tb.mode # "quoting"
    <3>1. ~ToSell(we, ds, tb) /\ ~Replacing("SELL", we, ds, tb)
      BY <2>2 DEF ToSell, Replacing
    <3> QED BY <1>1, <1>3, <2>1, <3>1 DEF ShortInv
  <2>3. CASE /\ tb = ta
             /\ \A s \in Sides : s \notin oe /\ Replacing(s, we, ds, tb) => Replacing(s, ve, cs, ta)
    <3>1. ToSell(we, ds, tb) => ToSell(ve, cs, ta)
      BY <1>1, <1>3, <2>3 DEF ToSell
    <3> QED BY <1>1, <1>3, <2>1, <2>3, <3>1 DEF ShortInv
  <2> QED BY <2>2, <2>3
<1> QED BY <1>2, <1>3

\* Away from the limit anything may be sent.
LEMMA LimitFar ==
  ASSUME NEW we, NEW gi, NEW ds, NEW tb, NEW od, NEW nt \in Int, nt < MaxInventory, -nt < MaxInventory,
         Replacing("SELL", we, ds, tb) => "SELL" \notin tb.todo
  PROVE  LimitInv(we, gi, ds, tb, nt, od)
<1>1. /\ nt < MaxInventory + Lots /\ -nt < MaxInventory + 2 * Lots /\ -nt < MaxInventory + Lots
  BY Bounds
<1> QED BY <1>1 DEF LimitInv, LongInv, ShortInv

\* A new order is outstanding on its side only.
LEMMA NewOutstanding ==
  ASSUME NEW ve, NEW we, NEW o, NEW fi, NEW s, ve \in Seq(Orders), Grown(ve, we, o),
         Reports(fi, ve), Outstanding(s, we, fi), o.side # s
  PROVE  Outstanding(s, ve, fi)
<1>1. PICK id \in 1..Len(we) : we[id].side = s /\ (we[id].at # "gone" \/ Reported(id, fi))
  BY DEF Outstanding
<1>2. id \in 1..Len(ve) /\ we[id] = ve[id]
  <2>1. Len(ve) \in Nat /\ Len(we) = Len(ve) + 1 /\ we[Len(ve) + 1] = o
        /\ \A i \in 1..Len(ve) : we[i] = ve[i]
    BY DEF Grown
  <2>2. id \in 1..Len(ve) \/ id = Len(ve) + 1
    BY <2>1
  <2> QED BY <1>1, <2>1, <2>2
<1> QED BY <1>1, <1>2 DEF Outstanding

\* The side whose cancel an update has just sent is no longer to do.
LEMMA ProceedTurns ==
  ASSUME NEW todo \in SUBSET Sides, NEW q \in Quotes, NEW al, NEW lv, NEW cs, NEW lo, NEW s \in Sides,
         OrdersInv(venue, fills, lo, cs, al, lv), NoneOf(cs), Proceed(todo, q, al, lv, cs),
         Replacing(s, venue', calls', task')
  PROVE  /\ s \in todo /\ Cancels(s, lv, al, cs) /\ ~StpBlocks(s, q, al, lv)
         /\ task' = Quoting(q, {"SELL"} \ {s})
<1>1. venue \in Seq(Orders)
  BY DEF OrdersInv, Shapes
<1>2. PICK d \in calls' : /\ d.by = "strategy" /\ d.op = "delete" /\ venue'[d.id].side = s
  BY DEF Replacing
<1>3. task'.mode = "quoting"
  BY DEF Replacing
<1>4. ~Ends(cs)
  BY <1>3, ModeIs DEF Ends
<1>5. PICK t \in todo : /\ ~StpBlocks(t, q, al, lv) /\ task' = Quoting(q, {"SELL"} \ {t})
                        /\ Places(t, q, lv, al, cs) \/ Cancels(t, lv, al, cs)
  BY <1>1, <1>4, ProceedOutcome
<1>6. ~Places(t, q, lv, al, cs)
  BY <1>2, CallIs DEF Places, Posting, NoneOf
<1>7. Cancels(t, lv, al, cs)
  BY <1>5, <1>6
<1>8. d.id = lv[t] /\ venue' = venue
  BY <1>2, <1>7, CallIs DEF Cancels, Deleting, NoneOf
<1>9. venue[lv[t]].side = t
  BY <1>7, Shaped DEF Cancels
<1> QED BY <1>2, <1>5, <1>7, <1>8, <1>9

\* The rest of an update sends a sell at most, and only as the update found it.
LEMMA LimitProceed ==
  ASSUME NEW todo \in SUBSET {"SELL"}, NEW q \in Quotes, NEW al, NEW lv, NEW cs, NEW ds, NEW lo, NEW nt, NEW od,
         OrdersInv(venue, fills, lo, cs, al, lv), NoneOf(cs), Proceed(todo, q, al, lv, cs),
         LimitInv(venue, fills, ds, Quoting(q, todo), nt, od)
  PROVE  LimitInv(venue', fills, calls', task', nt, od)
<1>1. venue \in Seq(Orders) /\ Reports(fills, venue) /\ todo \in SUBSET Sides
  BY DEF OrdersInv, Shapes, Sides
<1>2. Quoting(q, todo).mode = "quoting" /\ Quoting(q, todo).todo = todo
  BY DEF Quoting
<1>3. CASE Ends(cs)
  <2>1. venue' = venue /\ task'.mode # "quoting"
    BY <1>3, ModeIs DEF Ends
  <2> QED BY <2>1, LimitKeeps
<1>4. ASSUME NEW s \in todo, task' = Quoting(q, {"SELL"} \ {s}),
             Places(s, q, lv, al, cs) \/ Cancels(s, lv, al, cs)
      PROVE  LimitInv(venue', fills, calls', task', nt, od)
  <2> SUFFICES ASSUME StartsWithin
               PROVE  /\ "BUY" \notin od => LongInv(venue', fills, calls', task', nt)
                      /\ "SELL" \notin od => ShortInv(venue', fills, calls', task', nt)
    BY DEF LimitInv
  <2>1. s = "SELL" /\ s \in Sides
    BY DEF Sides
  <2>2. ToSell(venue, ds, Quoting(q, todo))
    BY <1>2, <2>1 DEF ToSell
  <2>3. task'.todo = {} /\ task'.mode = "quoting"
    BY <1>4, <2>1 DEF Quoting
  <2>4. ~Replacing("BUY", venue', calls', task')
    <3>1. "BUY" \in Sides /\ "BUY" \notin todo
      BY DEF Sides
    <3> QED BY <1>1, <3>1, ProceedTurns
  <2>5. Outstanding("BUY", venue', fills) => Outstanding("BUY", venue, fills)
    <3>1. CASE Places(s, q, lv, al, cs)
      <4>1. NewOrder(s, q).side = "SELL" /\ Grown(venue, venue', NewOrder(s, q))
        BY <2>1, <3>1, NewOrderIs DEF Places
      <4> QED BY <1>1, <4>1, NewOutstanding
    <3>2. CASE Cancels(s, lv, al, cs)
      BY <3>2 DEF Cancels
    <3> QED BY <1>4, <3>1, <3>2
  <2>6. "BUY" \notin od => LongInv(venue', fills, calls', task', nt)
    BY <2>4, <2>5 DEF LimitInv, LongInv
  <2>7. ASSUME "SELL" \notin od PROVE ShortInv(venue', fills, calls', task', nt)
    <3>1. /\ -nt < MaxInventory + 2 * Lots /\ -nt < MaxInventory + Lots
          /\ Outstanding("SELL", venue, fills) => -nt < MaxInventory
      BY <2>2, <2>7 DEF LimitInv, ShortInv
    <3>2. ToSell(venue', calls', task') => (Outstanding("SELL", venue', fills) => -nt < MaxInventory)
      <4>1. SUFFICES ASSUME ToSell(venue', calls', task')
                     PROVE  Outstanding("SELL", venue', fills) => -nt < MaxInventory
        OBVIOUS
      <4>2. Replacing("SELL", venue', calls', task')
        BY <2>3, <4>1 DEF ToSell
      <4>3. "SELL" \in Sides
        BY DEF Sides
      <4>4. Cancels("SELL", lv, al, cs)
        BY <1>1, <4>2, <4>3, ProceedTurns
      <4> QED BY <3>1, <4>4 DEF Cancels
    <3> QED BY <2>3, <3>1, <3>2 DEF ShortInv
  <2> QED BY <2>6, <2>7
<1> QED BY <1>1, <1>3, <1>4, ProceedOutcome

\* A fill is read: nothing else is outstanding on its side, unless that is odd.
LEMMA OnlyOne ==
  ASSUME NEW ve, NEW fi, NEW lo, NEW cs, NEW al, NEW lv, NEW ta, NEW od,
         OrdersInv(ve, fi, lo, cs, al, lv), TameInv(ve, fi, cs, al, lv, od), Awaits(ta, cs), fi # <<>>,
         ve[Head(fi).id].side \notin od
  PROVE  LET n == Head(fi).id
         IN  /\ Head(fi).qty = Lots /\ Outstanding(ve[n].side, ve, fi)
             /\ ~Outstanding(ve[n].side, ve, Tail(fi))
             /\ \A tb : ~Replacing(ve[n].side, ve, cs, tb)
<1> DEFINE n == Head(fi).id
           gi == Tail(fi)
<1>1. /\ Len(fi) \in Nat \ {0} /\ Head(fi) = fi[1] /\ Len(gi) = Len(fi) - 1
      /\ \A i \in 1..Len(fi) - 1 : gi[i] = fi[i + 1]
  BY Shaped, SeqTail
<1>2. 1 \in 1..Len(fi) /\ ve[n].side \notin od
  BY <1>1
<1>3. /\ n \in 1..Len(ve) /\ Head(fi).qty = Lots /\ ve[n].left = 0 /\ ve[n].at = "gone"
      /\ Standing(n, al) \/ Posted(n, cs)
      /\ \A j \in 1..Len(fi) : fi[j].id = n => j = 1
  BY <1>1, <1>2, Tamed
<1>4. Reported(n, fi) /\ Outstanding(ve[n].side, ve, fi)
  BY <1>1, <1>2, <1>3 DEF Reported, Outstanding
<1>5. ASSUME NEW id, Reported(id, gi) PROVE Reported(id, fi) /\ id # n
  <2>1. PICK i \in 1..Len(fi) - 1 : fi[i + 1].id = id
    BY <1>1, <1>5 DEF Reported
  <2>2. i + 1 \in 1..Len(fi) /\ i + 1 # 1
    BY <1>1
  <2> QED BY <1>3, <2>1, <2>2 DEF Reported
<1>6. \A c, d \in cs : c.by = "strategy" /\ c.op = "post" /\ d.by = "strategy" /\ d.op = "post" => c = d
  BY OnePost
<1>7. \A id \in 1..Len(ve) : ve[id].side = ve[n].side /\ (ve[id].at # "gone" \/ Reported(id, fi)) => id = n
  BY <1>2, <1>3, <1>4, <1>6, OneOutstanding
<1> HIDE DEF n, gi
<1>8. ~Outstanding(ve[n].side, ve, gi)
  BY <1>3, <1>5, <1>7 DEF Outstanding
<1>9. ASSUME NEW tb PROVE ~Replacing(ve[n].side, ve, cs, tb)
  <2>1. SUFFICES ASSUME NEW c \in cs, c.op = "delete", ve[c.id].side = ve[n].side,
                        c.reply = "ok" \/ ve[c.id].at # "gone"
                 PROVE  FALSE
    BY DEF Replacing
  <2>2. c.id \in 1..Len(ve) /\ ve[c.id].side \notin od
    BY <1>2, <2>1, Shaped
  <2>3. CASE ve[c.id].at # "gone"
    BY <1>3, <1>7, <2>1, <2>2, <2>3
  <2>4. CASE c.reply = "ok"
    <3>1. Standing(c.id, al) /\ ve[c.id].left = Lots /\ c.id \in DOMAIN al
      BY <2>2, <2>4, Tamed
    <3>2. lv[ve[c.id].side] = c.id
      BY <2>2, <3>1, Tamed
    <3>3. CASE Standing(n, al)
      <4>1. lv[ve[n].side] = n
        BY <1>2, <3>3, Tamed DEF Standing
      <4> QED BY <1>3, <2>1, <3>1, <3>2, <4>1, Bounds
    <3>4. CASE Posted(n, cs)
      <4>1. lv[ve[n].side] = NoOrder
        BY <1>2, <3>4, Tamed DEF Posted
      <4> QED BY <2>1, <2>2, <3>2, <4>1 DEF NoOrder
    <3> QED BY <1>3, <3>3, <3>4
  <2> QED BY <2>1, <2>3, <2>4
<1> QED BY <1>3, <1>4, <1>8, <1>9 DEF n, gi

\* With an event gone nothing more is outstanding.
LEMMA TailOutstanding ==
  ASSUME NEW ve, NEW fi, NEW lo, NEW cs, NEW al, NEW lv, OrdersInv(ve, fi, lo, cs, al, lv), fi # <<>>
  PROVE  \A s : Outstanding(s, ve, Tail(fi)) => Outstanding(s, ve, fi)
<1>1. /\ Len(fi) \in Nat \ {0} /\ Len(Tail(fi)) = Len(fi) - 1
      /\ \A i \in 1..Len(fi) - 1 : Tail(fi)[i] = fi[i + 1] /\ i + 1 \in 1..Len(fi)
  BY Shaped, SeqTail
<1>2. \A id : Reported(id, Tail(fi)) => Reported(id, fi)
  BY <1>1 DEF Reported
<1> QED BY <1>2 DEF Outstanding

\* And the position stays within the bounds.
LEMMA LimitRead ==
  ASSUME NEW ve, NEW fi, NEW lo, NEW cs, NEW al, NEW lv, NEW ta, NEW nt \in Int, NEW od,
         OrdersInv(ve, fi, lo, cs, al, lv), TameInv(ve, fi, cs, al, lv, od), Awaits(ta, cs), fi # <<>>,
         LimitInv(ve, fi, cs, ta, nt, od)
  PROVE  LimitInv(ve, Tail(fi), cs, ta, nt + Signed(ve[Head(fi).id].side, Head(fi).qty), od)
<1> SUFFICES ASSUME StartsWithin
             PROVE  LimitInv(ve, Tail(fi), cs, ta, nt + Signed(ve[Head(fi).id].side, Head(fi).qty), od)
  BY DEF LimitInv
<1>1. PICK s \in Sides, n \in Nat : s = ve[Head(fi).id].side /\ n = Head(fi).qty /\ n > 0
  <2>1. /\ Len(fi) \in Nat \ {0} /\ Head(fi) = fi[1] /\ fi \in Seq(Events)
        /\ \A i \in 1..Len(fi) : fi[i].id \in 1..Len(ve)
    BY Shaped, SeqTail
  <2>2. Head(fi) \in Events /\ Head(fi).id \in 1..Len(ve)
    BY <2>1
  <2>3. ve[Head(fi).id].side \in Sides
    BY <2>2, Shaped
  <2> QED BY <2>2, <2>3, EventIs
<1>2. s \notin od => /\ n = Lots /\ Outstanding(s, ve, fi) /\ ~Outstanding(s, ve, Tail(fi))
                     /\ ~Replacing(s, ve, cs, ta)
  BY <1>1, OnlyOne
<1>3. \A t : Outstanding(t, ve, Tail(fi)) => Outstanding(t, ve, fi)
  BY TailOutstanding
<1>4. Lots \in Nat /\ Lots > 0 /\ MaxInventory \in Nat
  BY Bounds
<1>5. PICK mt : mt = nt + Signed(ve[Head(fi).id].side, Head(fi).qty)
  OBVIOUS
<1>6. CASE s = "BUY"
  <2>1. mt = nt + n
    BY <1>1, <1>5, <1>6 DEF Signed
  <2>2. ASSUME "BUY" \notin od PROVE LongInv(ve, Tail(fi), cs, ta, mt)
    <3>1. nt < MaxInventory /\ n = Lots
      BY <1>2, <1>6, <2>2 DEF LimitInv, LongInv
    <3>2. mt < MaxInventory + Lots
      BY <1>4, <2>1, <3>1
    <3> QED BY <1>2, <1>6, <2>2, <3>2 DEF LongInv
  <2>3. ASSUME "SELL" \notin od PROVE ShortInv(ve, Tail(fi), cs, ta, mt)
    <3>1. ShortInv(ve, fi, cs, ta, nt)
      BY <2>3 DEF LimitInv
    <3>2. \A x \in Int : -nt < x => -mt < x
      BY <1>1, <2>1
    <3>3. MaxInventory + 2 * Lots \in Int /\ MaxInventory + Lots \in Int /\ MaxInventory \in Int
      BY <1>4
    <3> QED BY <1>3, <3>1, <3>2, <3>3 DEF ShortInv
  <2>4. LimitInv(ve, Tail(fi), cs, ta, mt, od)
    BY <2>2, <2>3 DEF LimitInv
  <2> QED BY <1>5, <2>4
<1>7. CASE s = "SELL"
  <2>1. mt = nt - n
    BY <1>1, <1>5, <1>7 DEF Signed
  <2>2. ASSUME "BUY" \notin od PROVE LongInv(ve, Tail(fi), cs, ta, mt)
    <3>1. LongInv(ve, fi, cs, ta, nt)
      BY <2>2 DEF LimitInv
    <3>2. \A x \in Int : nt < x => mt < x
      BY <1>1, <2>1
    <3>3. MaxInventory + Lots \in Int /\ MaxInventory \in Int
      BY <1>4
    <3> QED BY <1>3, <3>1, <3>2, <3>3 DEF LongInv
  <2>3. ASSUME "SELL" \notin od PROVE ShortInv(ve, Tail(fi), cs, ta, mt)
    <3>1. n = Lots /\ -nt < MaxInventory + Lots /\ (ToSell(ve, cs, ta) => -nt < MaxInventory)
      BY <1>2, <1>7, <2>3 DEF LimitInv, ShortInv
    <3>2. /\ -mt < MaxInventory + 2 * Lots
          /\ -nt < MaxInventory => -mt < MaxInventory + Lots
      BY <1>4, <2>1, <3>1
    <3>3. Replacing("SELL", ve, cs, ta) => "SELL" \notin ta.todo
      BY <2>3 DEF LimitInv, ShortInv
    <3> QED BY <1>2, <1>7, <2>3, <3>1, <3>2, <3>3 DEF ShortInv
  <2>4. LimitInv(ve, Tail(fi), cs, ta, mt, od)
    BY <2>2, <2>3 DEF LimitInv
  <2> QED BY <1>5, <2>4
<1> QED BY <1>6, <1>7 DEF Sides

-----------------------------------------------------------------------------
(* What the pieces of a step do to the self-trade guard.                   *)

\* The pricing engine rounds its quotes to whole cents (fair_value.py:203): ticks,
\* wherever the tick of the market is a cent or divides one.
OnTick == \A q \in Quotes : RoundToTick(q.bid, Tick) = q.bid /\ RoundToTick(q.ask, Tick) = q.ask

\* Fewer orders are held for OPEN, fewer rest.
Fewer(we, bl, ve, al) ==
  \A id \in DOMAIN bl : we[id].at = "resting" /\ bl[id].status = "OPEN" =>
    /\ id \in DOMAIN al /\ ve[id].at = "resting" /\ al[id].status = "OPEN"
    /\ ve[id].side = we[id].side /\ ve[id].price = we[id].price

\* A price that was clear of them stays clear.
LEMMA ClearKeeps ==
  ASSUME NEW s, NEW p, NEW ve, NEW al, NEW we, NEW bl, NEW od, NEW oe,
         Fewer(we, bl, ve, al), Clear(s, p, ve, al, od), od \subseteq oe
  PROVE  Clear(s, p, we, bl, oe)
BY DEF Fewer, Clear

\* And so do the calls of the strategy, if no new ones are made.
LEMMA NoCrossKeeps ==
  ASSUME NEW ve, NEW cs, NEW al, NEW ta, NEW od, NEW we, NEW ds, NEW bl, NEW oe,
         NoCross(ve, cs, al, ta, od), Fewer(we, bl, ve, al), od \subseteq oe,
         \A d \in ds : d.by = "strategy" =>
           \/ d.op = "post" /\ d.reply # "none"
           \/ /\ d.op = "post" => d \in cs
              /\ d.op = "delete" => \E c \in cs : c.by = "strategy" /\ c.op = "delete" /\ c.id = d.id
              /\ ve[d.id].side = we[d.id].side /\ ve[d.id].price = we[d.id].price
  PROVE  NoCross(we, ds, bl, ta, oe)
<1>1. SUFFICES ASSUME NEW d \in ds, d.by = "strategy"
               PROVE  /\ (d.op = "post" /\ d.reply = "none") => Clear(we[d.id].side, we[d.id].price, we, bl, oe)
                      /\ (d.op = "delete" /\ ta.mode = "quoting") =>
                           Clear(we[d.id].side, QuotePrice(ta.quote, we[d.id].side), we, bl, oe)
  BY DEF NoCross
<1>2. CASE d.op = "post" /\ d.reply = "none"
  <2>1. d \in cs /\ ve[d.id].side = we[d.id].side /\ ve[d.id].price = we[d.id].price
    BY <1>1, <1>2
  <2>2. Clear(ve[d.id].side, ve[d.id].price, ve, al, od)
    BY <1>1, <1>2, <2>1 DEF NoCross
  <2> QED BY <1>2, <2>1, <2>2, ClearKeeps
<1>3. CASE d.op = "delete" /\ ta.mode = "quoting"
  <2>1. /\ ve[d.id].side = we[d.id].side
        /\ \E c \in cs : c.by = "strategy" /\ c.op = "delete" /\ c.id = d.id
    BY <1>1, <1>3
  <2>2. Clear(ve[d.id].side, QuotePrice(ta.quote, ve[d.id].side), ve, al, od)
    BY <1>3, <2>1 DEF NoCross
  <2> QED BY <1>3, <2>1, <2>2, ClearKeeps
<1> QED BY <1>2, <1>3

\* The sweeps of the strategy quote nothing.
LEMMA NoCrossSweeps ==
  ASSUME NEW ve, NEW cs, NEW al, NEW ta, NEW od, ta.mode # "quoting",
         \A c \in cs : c.by = "strategy" => c.op = "delete"
  PROVE  NoCross(ve, cs, al, ta, od)
BY DEF NoCross

\* What the guard lets pass is clear.
LEMMA GuardClears ==
  ASSUME NEW s \in Sides, NEW q \in Quotes, NEW fi, NEW lo, NEW cs, NEW al, NEW lv, NEW od,
         OrdersInv(venue, fi, lo, cs, al, lv), TameInv(venue, fi, cs, al, lv, od), ~StpBlocks(s, q, al, lv)
  PROVE  Clear(s, QuotePrice(q, s), venue, al, od)
<1> SUFFICES ASSUME NEW id \in DOMAIN al, al[id].status = "OPEN", venue[id].side # s, venue[id].side \notin od
             PROVE  ~Crossing(s, QuotePrice(q, s), venue[id].price)
  BY DEF Clear
<1>1. Standing(id, al)
  BY DEF Standing
<1>2. lv[venue[id].side] = id /\ venue[id].side \in Sides /\ id \in 1..Len(venue)
  BY <1>1, Tamed
<1>3. venue[id].side = Opposite(s) /\ id # NoOrder
  BY <1>2 DEF Opposite, Sides, NoOrder
<1> QED BY <1>2, <1>3 DEF StpBlocks

\* An order sent at a clear price is clear.
LEMMA PostIsClear ==
  ASSUME NEW s \in Sides, NEW q \in Quotes, NEW ta, NEW fi, NEW lo, NEW cs, NEW al, NEW lv, NEW we, NEW od,
         OrdersInv(venue, fi, lo, cs, al, lv), NoneOf(cs), OnTick,
         Grown(venue, we, NewOrder(s, q)), Clear(s, QuotePrice(q, s), venue, al, od)
  PROVE  NoCross(we, Posting(venue, cs), al, ta, od)
<1>1. /\ NewOrder(s, q).side = s /\ NewOrder(s, q).price = RoundToTick(QuotePrice(q, s), Tick)
  BY NewOrderIs
<1>2. RoundToTick(QuotePrice(q, s), Tick) = QuotePrice(q, s)
  BY DEF OnTick, QuotePrice
<1>3. /\ \A i \in 1..Len(venue) : we[i] = venue[i]
      /\ we[Len(venue) + 1].side = s /\ we[Len(venue) + 1].price = QuotePrice(q, s)
  BY <1>1, <1>2 DEF Grown
<1>4. Fewer(we, al, venue, al)
  BY <1>3, Shaped DEF Fewer
<1>5. Clear(s, QuotePrice(q, s), we, al, od)
  BY <1>4, ClearKeeps
<1>6. \A d \in Posting(venue, cs) : d.by = "strategy" => d.op = "post" /\ d.id = Len(venue) + 1
  BY CallIs DEF Posting, NoneOf
<1> QED BY <1>3, <1>5, <1>6 DEF NoCross

\* The rest of an update sends what the guard lets pass.
LEMMA NoCrossProceed ==
  ASSUME NEW todo \in SUBSET Sides, NEW q \in Quotes, NEW al, NEW lv, NEW cs, NEW lo, NEW od,
         OrdersInv(venue, fills, lo, cs, al, lv), TameInv(venue, fills, cs, al, lv, od), NoneOf(cs), OnTick,
         Proceed(todo, q, al, lv, cs)
  PROVE  NoCross(venue', calls', al, task', od)
<1>1. venue \in Seq(Orders)
  BY DEF OrdersInv, Shapes
<1>2. CASE Ends(cs)
  BY <1>2 DEF Ends, NoCross, NoneOf
<1>3. ASSUME NEW s \in todo, ~StpBlocks(s, q, al, lv), task' = Quoting(q, {"SELL"} \ {s}),
             Places(s, q, lv, al, cs) \/ Cancels(s, lv, al, cs)
      PROVE  NoCross(venue', calls', al, task', od)
  <2>1. Clear(s, QuotePrice(q, s), venue, al, od) /\ s \in Sides
    BY <1>3, GuardClears
  <2>2. CASE Places(s, q, lv, al, cs)
    BY <2>1, <2>2, PostIsClear DEF Places
  <2>3. CASE Cancels(s, lv, al, cs)
    <3>1. venue' = venue /\ calls' = Deleting(lv[s], cs) /\ venue[lv[s]].side = s
      BY <2>1, <2>3, Shaped DEF Cancels
    <3>2. \A d \in calls' : d.by = "strategy" => d.op = "delete" /\ d.id = lv[s]
      BY <3>1, CallIs DEF Deleting, NoneOf
    <3>3. task'.quote = q
      BY <1>3 DEF Quoting
    <3> QED BY <2>1, <3>1, <3>2, <3>3 DEF NoCross
  <2> QED BY <1>3, <2>2, <2>3
<1> QED BY <1>1, <1>2, <1>3, ProceedOutcome

-----------------------------------------------------------------------------
(* Every step keeps CalmInv, and what it sends stays clear.                *)

CrossInv == NoCross(venue, calls, all, task, odd)

\* The parts of the invariants under the names the lemmas use.
LEMMA CalmParts ==
  /\ BaseInv => /\ OrdersInv(venue, fills, lost, calls, all, live) /\ Awaits(task, calls) /\ net \in Int
                /\ venue \in Seq(Orders)
                /\ Held(venue, fills, lost, calls, all, live, net)
  /\ CalmInv <=> /\ TameInv(venue, fills, calls, all, live, odd)
                 /\ LimitInv(venue, fills, calls, task, net, odd)
  /\ CalmInv' <=> /\ TameInv(venue', fills', calls', all', live', odd')
                  /\ LimitInv(venue', fills', calls', task', net', odd')
  /\ CrossInv' <=> NoCross(venue', calls', all', task', odd')
BY DEF BaseInv, LocalTypes, CalmInv, CrossInv, Held, Conserved, PositionConserved, OrdersInv, Shapes

\* The calls of the strategy while it sweeps.
LEMMA CalmSweeps ==
  ASSUME NEW ids, BaseInv, CalmInv, task = Idle,
         calls' = calls \cup {Call("strategy", "delete", id) : id \in ids}, task' = Sweeping,
         UNCHANGED <<venue, fills, all, live, net, odd>>
  PROVE  CalmInv' /\ CrossInv'
<1>1. TameInv(venue, fills, calls', all, live, odd)
  BY CalmParts, TameDeletes
<1>2. LimitInv(venue, fills, calls', Sweeping, net, odd)
  BY CalmParts, ModeIs, LimitKeeps
<1>3. NoneOf(calls)
  BY CalmParts, IdleIs
<1>4. \A d \in calls' : d.by = "strategy" => d.op = "delete"
  BY <1>3, CallIs DEF NoneOf
<1>5. NoCross(venue, calls', all, Sweeping, odd)
  BY <1>4, ModeIs, NoCrossSweeps
<1> QED BY <1>1, <1>2, <1>5, CalmParts

\* The sweep of an update without quotes.
LEMMA CalmUpdateSweep ==
  ASSUME BaseInv, CalmInv, UpdateSweep
  PROVE  CalmInv' /\ CrossInv'
BY CalmSweeps DEF UpdateSweep, CanUpdate, SendDeletes

\* The sweep of an update at the limit.
LEMMA CalmUpdateAtLimit ==
  ASSUME BaseInv, CalmInv, UpdateAtLimit
  PROVE  CalmInv' /\ CrossInv'
<1>1. PICK ids : ids = {live[GrowingSide]}
  OBVIOUS
<1>2. calls' = calls \cup {Call("strategy", "delete", id) : id \in ids}
  BY <1>1 DEF UpdateAtLimit, SendDeletes
<1> QED BY <1>2, CalmSweeps DEF UpdateAtLimit, CanUpdate

\* An update starts away from the limit.
LEMMA CalmUpdateQuotes ==
  ASSUME NEW q \in Quotes, BaseInv, CalmInv, UpdateQuotes(q)
  PROVE  CalmInv' /\ (OnTick => CrossInv')
<1>1. /\ OrdersInv(venue, fills, lost, calls, all, live) /\ TameInv(venue, fills, calls, all, live, odd)
      /\ NoneOf(calls) /\ net \in Int
  BY CalmParts, IdleIs DEF UpdateQuotes, CanUpdate
<1>2. /\ Proceed(Sides, q, all, live, calls) /\ ~AtLimit
      /\ UNCHANGED <<fills, all, live, net, odd>>
  BY DEF UpdateQuotes
<1>3. TameInv(venue', fills, calls', all, live, odd)
  BY <1>1, <1>2, TameProceed
<1>4. net < MaxInventory /\ -net < MaxInventory
  BY <1>1, <1>2, Bounds DEF AtLimit
<1>5. Replacing("SELL", venue', calls', task') => "SELL" \notin task'.todo
  <2>1. SUFFICES ASSUME Replacing("SELL", venue', calls', task') PROVE "SELL" \notin task'.todo
    OBVIOUS
  <2>2. "SELL" \in Sides
    BY DEF Sides
  <2>3. task' = Quoting(q, {"SELL"} \ {"SELL"})
    BY <1>1, <1>2, <2>1, <2>2, ProceedTurns
  <2> QED BY <2>3 DEF Quoting
<1>6. LimitInv(venue', fills, calls', task', net, odd)
  BY <1>1, <1>4, <1>5, LimitFar
<1>7. OnTick => NoCross(venue', calls', all, task', odd)
  BY <1>1, <1>2, NoCrossProceed
<1> QED BY <1>1, <1>2, <1>3, <1>6, <1>7, CalmParts

\* The rest of an update under way.
LEMMA CalmRest ==
  ASSUME NEW al, NEW lv, NEW cs, BaseInv, CalmInv, task \in Rounds, NoneOf(cs), odd \subseteq odd',
         OrdersInv(venue, fills, lost, cs, al, lv), TameInv(venue, fills, cs, al, lv, odd'),
         Proceed(task.todo, task.quote, al, lv, cs),
         all' = al, live' = lv, UNCHANGED <<fills, net>>
  PROVE  CalmInv' /\ (OnTick => CrossInv')
<1>1. PICK q \in Quotes, todo \in SUBSET {"SELL"} : task = Quoting(q, todo) /\ q = task.quote /\ todo = task.todo
  BY RoundIs
<1>2. todo \in SUBSET Sides /\ Proceed(todo, q, al, lv, cs)
  BY <1>1 DEF Sides
<1>3. PICK oe : oe = odd'
  OBVIOUS
<1>4. TameInv(venue', fills, calls', al, lv, oe)
  BY <1>2, <1>3, TameProceed
<1>5. LimitInv(venue, fills, calls, Quoting(q, todo), net, oe)
  BY <1>1, <1>3, CalmParts, LimitKeeps
<1>6. LimitInv(venue', fills, calls', task', net, oe)
  BY <1>2, <1>5, LimitProceed
<1>7. OnTick => NoCross(venue', calls', al, task', oe)
  BY <1>2, <1>3, NoCrossProceed
<1> QED BY <1>3, <1>4, <1>6, <1>7, CalmParts

\* A POST comes back, and the update goes on.
LEMMA CalmPostReturns ==
  ASSUME NEW c \in calls, BaseInv, CalmInv, PostReturns(c)
  PROVE  CalmInv' /\ (OnTick => CrossInv')
<1> DEFINE ok == c.reply # "error"
           al == IF ok THEN Remember(c.id, PlacedRecord(c.reply)) ELSE all
           lv == IF ok THEN [live EXCEPT ![venue[c.id].side] = c.id] ELSE live
<1>1. /\ OrdersInv(venue, fills, lost, calls, all, live) /\ TameInv(venue, fills, calls, all, live, odd)
      /\ Awaits(task, calls) /\ Held(venue, fills, lost, calls, all, live, net)
  BY CalmParts
<1>2. /\ c.by = "strategy" /\ c.op = "post" /\ c.reply # "none"
      /\ all' = al /\ live' = lv /\ Proceed(task.todo, task.quote, al, lv, calls \ {c})
      /\ UNCHANGED <<fills, net, odd>>
  BY DEF PostReturns, CallsBy
<1>3. task \in Rounds /\ NoneOf(calls \ {c})
  BY <1>1, <1>2, Waiting
<1>4. /\ all \in [DOMAIN all -> Records] /\ live \in [Sides -> 0..MaxOrders]
      /\ venue[c.id].side \in Sides /\ c.id \in 1..MaxOrders
  BY <1>1, Shaped, Bounds
<1>5. OrdersInv(venue, fills, lost, calls \ {c}, al, lv) /\ TameInv(venue, fills, calls \ {c}, al, lv, odd)
  <2>1. CASE ok
    <3>1. /\ c.reply \in {"live", "delayed", "matched", "error"}
          /\ venue[c.id].side \notin odd => c.reply # "matched"
      <4>1. c.reply \in {"live", "delayed", "matched", "error"}
        BY <1>1, <1>2 DEF OrdersInv, Posts, Post
      <4> QED BY <1>1, <1>2, <4>1, Tamed
    <3>2. PICK r \in {"live", "delayed", "matched"} : r = c.reply /\ (venue[c.id].side \notin odd => r # "matched")
      BY <2>1, <3>1
    <3>3. /\ RecordBut(all, Remember(c.id, PlacedRecord(r)), c.id, PlacedRecord(r))
          /\ IndexBut(live, [live EXCEPT ![venue[c.id].side] = c.id], venue[c.id].side, c.id)
          /\ venue[c.id].side \notin odd =>
               PlacedRecord(r).status \in {"OPEN", "PENDING"} /\ PlacedRecord(r).filled = 0
      BY <1>4, <3>2, Filed
    <3>4. al = Remember(c.id, PlacedRecord(r)) /\ lv = [live EXCEPT ![venue[c.id].side] = c.id]
      BY <2>1, <3>2
    <3> HIDE DEF al, lv
    <3>5. OrdersInv(venue, fills, lost, calls \ {c}, al, lv)
      BY <1>1, <1>2, <3>3, <3>4, PostFiled
    <3>6. TameInv(venue, fills, calls \ {c}, al, lv, odd)
      BY <1>1, <1>2, <1>3, <3>3, <3>4, TameFiled
    <3> QED BY <3>5, <3>6
  <2>2. CASE ~ok
    BY <1>1, <2>2, EndKeeps, TameEnds DEF Held
  <2> QED BY <2>1, <2>2
<1> HIDE DEF al, lv
<1> QED BY <1>2, <1>3, <1>5, CalmRest

\* A cancel comes back, and the replacement takes the place of its order.
LEMMA CalmRepriceReturns ==
  ASSUME NEW c \in calls, BaseInv, CalmInv, RepriceReturns(c)
  PROVE  CalmInv' /\ (OnTick /\ CrossInv => CrossInv')
<1> DEFINE s == venue[c.id].side
           al == MarkCancelled(c.id)
           lv == DropLive(s)
<1>1. /\ OrdersInv(venue, fills, lost, calls, all, live) /\ TameInv(venue, fills, calls, all, live, odd)
      /\ Awaits(task, calls) /\ Held(venue, fills, lost, calls, all, live, net)
      /\ LimitInv(venue, fills, calls, task, net, odd) /\ venue \in Seq(Orders)
  BY CalmParts
<1>2. c.by = "strategy" /\ c.op = "delete" /\ task.mode = "quoting" /\ UNCHANGED <<fills, net, odd>>
  BY DEF RepriceReturns, CallsBy
<1>3. task \in Rounds /\ NoneOf(calls \ {c}) /\ task.quote \in Quotes
  BY <1>1, <1>2, Waiting, RoundIs, ModeIs
<1>4. CASE c.reply = "error"
  <2>1. Proceed(task.todo, task.quote, all, live, calls \ {c}) /\ UNCHANGED <<all, live>>
    BY <1>4 DEF RepriceReturns
  <2>2. OrdersInv(venue, fills, lost, calls \ {c}, all, live) /\ TameInv(venue, fills, calls \ {c}, all, live, odd)
    BY <1>1, <1>4, EndKeeps, TameEnds DEF Held
  <2> QED BY <1>2, <1>3, <2>1, <2>2, CalmRest
<1>5. CASE c.reply # "error"
  <2>1. /\ c.reply = "ok" /\ all' = al /\ live' = lv
        /\ \/ CanSign /\ SendPost(s, task.quote, calls \ {c}) /\ UNCHANGED task
           \/ Proceed(task.todo, task.quote, al, lv, calls \ {c})
    BY <1>5 DEF RepriceReturns
  <2>2. /\ TameInv(venue, fills, calls \ {c}, al, lv, odd) /\ lv[s] = NoOrder
        /\ c.id \in DOMAIN all /\ s \in Sides /\ all \in [DOMAIN all -> Records]
    <3>1. c.id \in DOMAIN all
      BY <1>1, <2>1, Tamed
    <3>2. s \in Sides /\ all \in [DOMAIN all -> Records]
      BY <1>1, Shaped
    <3>3. TameInv(venue, fills, calls \ {c}, al, lv, odd) /\ lv[s] = NoOrder
      BY <1>1, <2>1, TameConfirmed
    <3> QED BY <3>1, <3>2, <3>3
  <2>3. OrdersInv(venue, fills, lost, calls \ {c}, al, lv)
    BY <1>1, <2>2, CancelKeeps DEF Held
  <2>4. Fewer(venue, al, venue, all)
    BY <2>2 DEF Fewer, MarkCancelled, Records
  <2>5. PICK t \in Sides : t = s
    BY <2>2
  <2> HIDE DEF al, lv, s
  <2>6. CASE Proceed(task.todo, task.quote, al, lv, calls \ {c})
    BY <1>2, <1>3, <2>1, <2>2, <2>3, <2>6, CalmRest
  <2>7. CASE CanSign /\ SendPost(s, task.quote, calls \ {c}) /\ UNCHANGED task
    <3>1. PICK q \in Quotes : q = task.quote
      BY <1>3
    <3>2. Grown(venue, venue', NewOrder(t, q)) /\ calls' = Posting(venue, calls \ {c})
      BY <1>1, <2>5, <2>7, <3>1, Sends
    <3>3. PICK o : o = NewOrder(t, q) /\ o.side = t /\ o.left = Lots
      BY NewOrderIs
    <3>4. TameInv(venue', fills, calls', al, lv, odd)
      BY <2>2, <2>3, <2>5, <3>2, <3>3, TamePost DEF Posting
    <3>5. Replacing(t, venue, calls, task)
      BY <1>2, <2>1, <2>5 DEF Replacing, s
    <3>6. \A d \in calls' : d.by = "strategy" => d.op = "post"
      BY <1>3, <3>2, CallIs DEF Posting, NoneOf
    <3>7. LimitInv(venue', fills, calls', task', net, odd)
      <4> SUFFICES ASSUME StartsWithin
                   PROVE  /\ "BUY" \notin odd => LongInv(venue', fills, calls', task', net)
                          /\ "SELL" \notin odd => ShortInv(venue', fills, calls', task', net)
        BY DEF LimitInv
      <4>1. \A u : ~Replacing(u, venue', calls', task')
        BY <3>6 DEF Replacing
      <4>2. \A u : u # t /\ Outstanding(u, venue', fills) => Outstanding(u, venue, fills)
        BY <1>1, <3>2, <3>3, NewOutstanding DEF OrdersInv
      <4>3. "SELL" \in task.todo => ToSell(venue, calls, task)
        BY <1>2 DEF ToSell
      <4>4. task' = task
        BY <2>7
      <4>5. ASSUME "BUY" \notin odd PROVE LongInv(venue', fills, calls', task', net)
        <5>1. LongInv(venue, fills, calls, task, net)
          BY <1>1, <4>5 DEF LimitInv
        <5>2. Outstanding("BUY", venue', fills) => net < MaxInventory
          BY <3>5, <4>2, <5>1 DEF LongInv
        <5> QED BY <4>1, <5>1, <5>2 DEF LongInv
      <4>6. ASSUME "SELL" \notin odd PROVE ShortInv(venue', fills, calls', task', net)
        <5>1. ShortInv(venue, fills, calls, task, net)
          BY <1>1, <4>6 DEF LimitInv
        <5>2. ToSell(venue', calls', task') => ToSell(venue, calls, task) /\ t # "SELL"
          BY <3>5, <4>1, <4>3, <4>4, <5>1 DEF ToSell, ShortInv
        <5>3. t = "SELL" => ToSell(venue, calls, task)
          BY <3>5 DEF ToSell
        <5>4. Outstanding("SELL", venue', fills) => -net < MaxInventory + Lots
          BY <4>2, <5>1, <5>3 DEF ShortInv
        <5>5. ToSell(venue', calls', task') =>
                /\ -net < MaxInventory + Lots
                /\ Outstanding("SELL", venue', fills) => -net < MaxInventory
          BY <4>2, <5>1, <5>2 DEF ShortInv
        <5> QED BY <4>1, <5>1, <5>4, <5>5 DEF ShortInv
      <4> QED BY <4>5, <4>6
    <3>8. ASSUME OnTick, CrossInv PROVE NoCross(venue', calls', al, task', odd)
      <4>1. Clear(t, QuotePrice(q, t), venue, all, odd)
        BY <1>2, <2>5, <3>1, <3>8 DEF CrossInv, NoCross, s
      <4>2. Clear(t, QuotePrice(q, t), venue, al, odd)
        BY <2>4, <4>1, ClearKeeps
      <4> QED BY <1>3, <2>3, <3>2, <3>8, <4>2, PostIsClear
    <3> QED BY <1>1, <1>2, <2>1, <3>4, <3>7, <3>8, CalmParts
  <2> QED BY <2>1, <2>6, <2>7
<1> QED BY <1>4, <1>5

\* Calls of others end, or are given up, and the strategy waits on.
LEMMA OthersEnd ==
  ASSUME NEW ds, NEW al, NEW lv, BaseInv, CalmInv,
         TameInv(venue, fills, ds, al, lv, odd), Fewer(venue, al, venue, all),
         \A d \in ds : d.by = "strategy" => d \in calls,
         calls' = ds, all' = al, live' = lv, UNCHANGED <<venue, fills, task, net, odd>>
  PROVE  CalmInv' /\ (CrossInv => CrossInv')
<1>1. \A s : Replacing(s, venue, ds, task) => Replacing(s, venue, calls, task)
  BY DEF Replacing
<1>2. LimitInv(venue, fills, ds, task, net, odd)
  BY <1>1, CalmParts, LimitKeeps
<1>3. CrossInv => NoCross(venue, ds, al, task, odd)
  BY NoCrossKeeps DEF CrossInv
<1> QED BY <1>2, <1>3, CalmParts

\* Marking an order cancelled holds no more of them for OPEN.
LEMMA MarkedFewer ==
  ASSUME NEW id \in DOMAIN all, all \in [DOMAIN all -> Records]
  PROVE  Fewer(venue, MarkCancelled(id), venue, all) /\ Fewer(venue, all, venue, all)
BY DEF Fewer, MarkCancelled, Records

\* A cancel of a sweep comes back.
LEMMA CalmSweepReturns ==
  ASSUME NEW c \in calls, BaseInv, CalmInv, SweepReturns(c)
  PROVE  CalmInv' /\ CrossInv'
<1> DEFINE s == venue[c.id].side
           al == MarkCancelled(c.id)
           lv == DropLive(s)
<1>1. /\ OrdersInv(venue, fills, lost, calls, all, live) /\ TameInv(venue, fills, calls, all, live, odd)
      /\ Awaits(task, calls) /\ LimitInv(venue, fills, calls, task, net, odd)
  BY CalmParts
<1>2. /\ c.by = "strategy" /\ c.op = "delete" /\ task.mode = "sweeping"
      /\ calls' = calls \ {c} /\ task' = AfterSweep(c) /\ UNCHANGED <<venue, fills, net, odd>>
  BY DEF SweepReturns, CallsBy
<1>3. task'.mode # "quoting"
  BY <1>2, ModeIs DEF AfterSweep
<1>4. \A d \in calls' : d.by = "strategy" => d.op = "delete"
  BY <1>1, <1>2, Waiting, RoundIs
<1>5. NoCross(venue, calls', all', task', odd)
  BY <1>3, <1>4, NoCrossSweeps
<1>6. LimitInv(venue, fills, calls', task', net, odd)
  BY <1>1, <1>3, LimitKeeps
<1>7. TameInv(venue, fills, calls', all', live', odd)
  <2>1. CASE c.reply = "error"
    <3>1. UNCHANGED <<all, live>>
      BY <2>1 DEF SweepReturns
    <3> QED BY <1>1, <1>2, <2>1, <3>1, TameEnds
  <2>2. CASE c.reply # "error"
    <3>1. c.reply = "ok" /\ all' = al /\ live' = lv
      BY <2>2 DEF SweepReturns
    <3> QED BY <1>1, <1>2, <3>1, TameConfirmed
  <2> QED BY <2>1, <2>2
<1> QED BY <1>1, <1>2, <1>5, <1>6, <1>7, CalmParts

\* Only on an odd side is a key gone that is to be deleted.
LEMMA ThrowsOddly ==
  ASSUME NEW c \in calls, BaseInv, CalmInv, StrategyThrows(c)
  PROVE  venue[c.id].side \in odd
<1>1. c.reply = "ok" /\ live[venue[c.id].side] = NoOrder
  BY DEF StrategyThrows
<1> QED BY <1>1, CalmParts, TameConfirmed

\* The strategy dies, and nobody waits for its calls.
LEMMA CalmStrategyThrows ==
  ASSUME NEW c \in calls, BaseInv, CalmInv, StrategyThrows(c)
  PROVE  CalmInv' /\ CrossInv'
<1> DEFINE s == venue[c.id].side
           al == MarkCancelled(c.id)
           ds == {Orphan(d) : d \in {e \in calls : e.reply = "none"}}
<1>1. /\ OrdersInv(venue, fills, lost, calls, all, live) /\ TameInv(venue, fills, calls, all, live, odd)
      /\ Awaits(task, calls) /\ Held(venue, fills, lost, calls, all, live, net)
      /\ LimitInv(venue, fills, calls, task, net, odd)
  BY CalmParts
<1>2. /\ c.by = "strategy" /\ c.op = "delete" /\ c.reply = "ok" /\ live[s] = NoOrder
      /\ all' = al /\ calls' = ds /\ task' = Idle
      /\ UNCHANGED <<venue, fills, live, net, odd>>
  BY DEF StrategyThrows, CallsBy, Orphan
<1>3. /\ TameInv(venue, fills, calls \ {c}, al, DropLive(s), odd)
      /\ OrdersInv(venue, fills, lost, calls \ {c}, al, DropLive(s))
  BY <1>1, <1>2, TameConfirmed, CancelKeeps DEF Held
<1>4. DropLive(s) = live
  <2>1. live \in [Sides -> 0..MaxOrders]
    BY <1>1, Shaped
  <2> QED BY <1>2, <2>1 DEF DropLive
<1>5. \A d \in calls : d.op = "post" => venue[d.id].side \in odd
  <2>1. \A d \in calls : d.by = "strategy" => d.op # "post"
    BY <1>1, <1>2, Waiting DEF NoneOf
  <2> QED BY <1>1, <2>1, Tamed
<1>6. \A d \in calls : /\ Orphan(d).by = "nobody" /\ Orphan(d).op = d.op /\ Orphan(d).id = d.id
                        /\ Orphan(d).reply = d.reply /\ d.op \in {"post", "delete"}
  BY <1>1, Shaped, RequestIs
<1> HIDE DEF al, s
<1>7. Settled(venue, ds, calls \ {c}, odd)
  BY <1>5, <1>6 DEF Settled
<1>8. \A d \in ds : d.by = "nobody"
  BY <1>6
<1> HIDE DEF ds
<1>9. TameInv(venue, fills, ds, al, live, odd)
  BY <1>3, <1>4, <1>7, TameCalls
<1>10. LimitInv(venue, fills, ds, Idle, net, odd)
  BY <1>1, ModeIs, LimitKeeps
<1>11. NoCross(venue, ds, al, Idle, odd)
  BY <1>8 DEF NoCross
<1> QED BY <1>2, <1>9, <1>10, <1>11, CalmParts

\* A call is given up; if a POST is, its side is odd.
LEMMA CalmStrategyTimeout ==
  ASSUME NEW c \in calls, BaseInv, CalmInv, StrategyTimeout(c)
  PROVE  CalmInv' /\ (OnTick => CrossInv')
<1>1. /\ OrdersInv(venue, fills, lost, calls, all, live) /\ TameInv(venue, fills, calls, all, live, odd)
      /\ Awaits(task, calls) /\ LimitInv(venue, fills, calls, task, net, odd)
      /\ Held(venue, fills, lost, calls, all, live, net)
  BY CalmParts
<1>2. /\ c.by = "strategy" /\ UNCHANGED <<fills, all, live, net>>
      /\ odd \subseteq odd' /\ (c.op = "post" => venue[c.id].side \in odd')
  BY DEF StrategyTimeout, CallsBy, Oddly
<1>2a. PICK oe : oe = odd'
  OBVIOUS
<1>3. TameInv(venue, fills, Abandoned(c), all, live, oe)
  BY <1>1, <1>2, <1>2a, TameWiden, TameGivenUp
<1>4. /\ OrdersInv(venue, fills, lost, Abandoned(c), all, live)
      /\ \A d \in Abandoned(c) : d.by = "strategy" => d \in calls \ {c}
      /\ NoneOf(calls \ {c}) => NoneOf(Abandoned(c))
  BY <1>1, GiveUpKeeps DEF Held
<1>5. CASE task.mode = "quoting"
  <2>1. Proceed(task.todo, task.quote, all, live, Abandoned(c))
    BY <1>5 DEF StrategyTimeout
  <2>2. NoneOf(calls \ {c}) /\ task \in Rounds
    BY <1>1, <1>2, <1>5, Waiting, ModeIs
  <2> QED BY <1>2, <1>2a, <1>3, <1>4, <2>1, <2>2, CalmRest
<1>6. CASE task.mode = "sweeping"
  <2>1. calls' = Abandoned(c) /\ task' = AfterSweep(c) /\ venue' = venue
    BY <1>6 DEF StrategyTimeout
  <2>2. task'.mode # "quoting"
    BY <1>6, <2>1, ModeIs DEF AfterSweep
  <2>3. \A d \in calls' : d.by = "strategy" => d.op = "delete"
    BY <1>1, <1>2, <1>4, <1>6, <2>1, Waiting, RoundIs
  <2>4. NoCross(venue, calls', all, task', oe)
    BY <2>2, <2>3, NoCrossSweeps
  <2>5. LimitInv(venue, fills, calls', task', net, oe)
    BY <1>1, <1>2, <1>2a, <2>2, LimitKeeps
  <2> QED BY <1>1, <1>2, <1>2a, <1>3, <2>1, <2>4, <2>5, CalmParts
<1> QED BY <1>5, <1>6 DEF StrategyTimeout

\* The kill monitor gives a call up.
LEMMA CalmKillTimeout ==
  ASSUME NEW c \in calls, BaseInv, CalmInv, KillTimeout(c)
  PROVE  CalmInv' /\ (CrossInv => CrossInv')
<1>1. c.op # "post" /\ calls' = Abandoned(c) /\ UNCHANGED <<venue, fills, all, live, task, net, odd>>
  <2>1. OrdersInv(venue, fills, lost, calls, all, live)
    BY CalmParts
  <2> QED BY <2>1 DEF KillTimeout, CallsBy, OrdersInv, Posts, Post
<1>2. TameInv(venue, fills, Abandoned(c), all, live, odd)
  BY <1>1, CalmParts, TameGivenUp
<1>3. \A d \in Abandoned(c) : d.by = "strategy" => d \in calls
  BY CalmParts, GiveUpKeeps
<1>4. Fewer(venue, all, venue, all)
  BY DEF Fewer
<1> QED BY <1>1, <1>2, <1>3, <1>4, OthersEnd

\* The kill monitor sends its cancels.
LEMMA CalmKillSweep ==
  ASSUME BaseInv, CalmInv, KillSweep
  PROVE  CalmInv' /\ (CrossInv => CrossInv')
<1>1. calls' = calls \cup {Call("kill", "delete", id) : id \in ToCancel} /\ UNCHANGED <<venue, fills, all, live, task, net, odd>>
  BY DEF KillSweep, SendDeletes
<1>2. PICK ids : ids = ToCancel
  OBVIOUS
<1>3. TameInv(venue, fills, calls \cup {Call("kill", "delete", id) : id \in ids}, all, live, odd)
  <2>1. OrdersInv(venue, fills, lost, calls, all, live) /\ TameInv(venue, fills, calls, all, live, odd)
    BY CalmParts
  <2> QED BY <2>1, TameDeletes
<1>4. \A d \in calls' : d.by = "strategy" => d \in calls
  BY <1>1, CallIs
<1>5. Fewer(venue, all, venue, all)
  BY DEF Fewer
<1> QED BY <1>1, <1>2, <1>3, <1>4, <1>5, OthersEnd

\* A cancel of the kill monitor comes back.
LEMMA CalmKillSweepReturns ==
  ASSUME NEW c \in calls, BaseInv, CalmInv, KillSweepReturns(c)
  PROVE  CalmInv' /\ (CrossInv => CrossInv')
<1>1. /\ OrdersInv(venue, fills, lost, calls, all, live) /\ TameInv(venue, fills, calls, all, live, odd)
  BY CalmParts
<1>2. calls' = calls \ {c} /\ UNCHANGED <<venue, fills, task, net, odd>>
  BY DEF KillSweepReturns
<1>3. all \in [DOMAIN all -> Records] /\ Fewer(venue, all, venue, all)
  BY <1>1, Shaped DEF Fewer
<1>4. CASE c.reply = "error"
  <2>1. UNCHANGED <<all, live>>
    BY <1>4 DEF KillSweepReturns
  <2>2. TameInv(venue, fills, calls \ {c}, all, live, odd)
    BY <1>1, <1>4, TameEnds
  <2> QED BY <1>2, <1>3, <2>1, <2>2, OthersEnd
<1>5. CASE c.reply # "error"
  <2>1. c.reply = "ok" /\ all' = MarkCancelled(c.id) /\ live' = DropLive(venue[c.id].side)
    BY <1>5 DEF KillSweepReturns
  <2>2. TameInv(venue, fills, calls \ {c}, MarkCancelled(c.id), DropLive(venue[c.id].side), odd)
    BY <1>1, <2>1, TameConfirmed
  <2>3. c.id \in DOMAIN all
    BY <1>1, <2>1, Tamed
  <2>4. Fewer(venue, MarkCancelled(c.id), venue, all)
    BY <1>3, <2>3, MarkedFewer
  <2> QED BY <1>2, <2>1, <2>2, <2>4, OthersEnd
<1> QED BY <1>4, <1>5

\* Steps that touch none of it.
LEMMA CalmSame ==
  ASSUME CalmInv, UNCHANGED <<venue, fills, calls, all, live, task, net, odd>>
  PROVE  CalmInv' /\ (CrossInv => CrossInv')
BY CalmParts DEF CrossInv

\* A fill is read.
LEMMA CalmDispatchFill ==
  ASSUME BaseInv, CalmInv, DispatchFill
  PROVE  CalmInv' /\ (CrossInv => CrossInv')
<1>1. /\ OrdersInv(venue, fills, lost, calls, all, live) /\ TameInv(venue, fills, calls, all, live, odd)
      /\ Awaits(task, calls) /\ LimitInv(venue, fills, calls, task, net, odd) /\ net \in Int
      /\ Held(venue, fills, lost, calls, all, live, net)
  BY CalmParts
<1>2. fills # <<>>
  BY DEF DispatchFill
<1>3. PICK e \in Events : e = Head(fills)
  BY <1>1, <1>2, EventRead
<1>4. /\ fills' = Tail(fills) /\ MarkFilled(e.id, e.qty)
      /\ net' = net + Signed(venue[e.id].side, e.qty)
      /\ UNCHANGED <<venue, calls, task, odd>>
  BY <1>3 DEF DispatchFill, CountFill
<1>5. LimitInv(venue, fills', calls, task, net', odd)
  BY <1>1, <1>2, <1>3, <1>4, LimitRead
<1>6. CASE e.id \in DOMAIN all
  <2>1. PICK rec \in Records :
           /\ RecordBut(all, all', e.id, rec) /\ rec.filled = all[e.id].filled + e.qty
           /\ rec.filled >= Lots => rec.status = "FILLED" /\ IndexBut(live, live', venue[e.id].side, NoOrder)
           /\ rec.filled < Lots => rec.status = "PARTIAL_FILL" /\ live' = live
    BY <1>1, <1>4, <1>6, FillMarks
  <2>2. rec.filled \in Nat /\ all[e.id].filled \in Nat
    BY <1>1, <1>6, Shaped DEF Records
  <2>3. venue[e.id].side \notin odd => rec.filled >= Lots
    <3>1. SUFFICES ASSUME venue[e.id].side \notin odd PROVE rec.filled >= Lots
      OBVIOUS
    <3>2. e.qty = Lots
      BY <1>1, <1>2, <1>3, <3>1, OnlyOne
    <3> QED BY <2>1, <2>2, <3>2, Bounds
  <2>4. PICK x : /\ IndexBut(live, live', venue[e.id].side, x)
                 /\ rec.filled >= Lots => x = NoOrder
    <3>1. CASE rec.filled >= Lots
      BY <2>1, <3>1
    <3>2. CASE ~(rec.filled >= Lots)
      <4>1. live' = live /\ live \in [Sides -> 0..MaxOrders]
        BY <1>1, <2>1, <2>2, <3>2, Bounds, Shaped
      <4> QED BY <3>2, <4>1 DEF IndexBut
    <3> QED BY <3>1, <3>2
  <2>4a. rec.status # "OPEN" /\ (rec.filled >= Lots => rec.status = "FILLED")
    BY <2>1, <2>2, Bounds
  <2>4b. TameInv(venue, fills', calls, all', live', odd)
    BY <1>1, <1>2, <1>3, <1>4, <1>6, <2>1, <2>3, <2>4, <2>4a, TameRead
  <2>5. Fewer(venue, all', venue, all)
    BY <1>6, <2>1, <2>4a DEF Fewer, RecordBut
  <2>6. CrossInv => NoCross(venue, calls, all', task, odd)
    BY <2>5, NoCrossKeeps DEF CrossInv
  <2> QED BY <1>1, <1>4, <1>5, <2>4b, <2>6, CalmParts
<1>7. CASE e.id \notin DOMAIN all
  <2>1. UNCHANGED <<all, live>>
    BY <1>4, <1>7 DEF MarkFilled, Known
  <2>2. TameInv(venue, fills', calls, all, live, odd)
    BY <1>1, <1>2, <1>4, TameDropped
  <2> QED BY <1>1, <1>4, <1>5, <2>1, <2>2, CalmParts DEF CrossInv
<1> QED BY <1>6, <1>7

\* A fill never comes: its order stays in the index, and nothing takes its side.
LEMMA CalmFillLost ==
  ASSUME BaseInv, CalmInv, FillLost
  PROVE  CalmInv' /\ (CrossInv => CrossInv')
<1>1. /\ OrdersInv(venue, fills, lost, calls, all, live) /\ TameInv(venue, fills, calls, all, live, odd)
      /\ Awaits(task, calls) /\ LimitInv(venue, fills, calls, task, net, odd)
  BY CalmParts
<1>2. fills # <<>> /\ fills' = Tail(fills) /\ UNCHANGED <<venue, calls, all, live, task, net, odd>>
  BY DEF FillLost
<1>3. TameInv(venue, fills', calls, all, live, odd)
  BY <1>1, <1>2, TameDropped
<1>4. \A s : Outstanding(s, venue, fills') => Outstanding(s, venue, fills)
  BY <1>1, <1>2, TailOutstanding
<1>5. LimitInv(venue, fills', calls, task, net, odd)
  BY <1>1, <1>4, LimitKeeps
<1> QED BY <1>1, <1>2, <1>3, <1>5, CalmParts DEF CrossInv

\* The exchange moves an order and answers the call about it.  On the sides that
\* are not odd nothing new is outstanding, to be replaced, or held for OPEN.
LEMMA CalmMoves ==
  ASSUME NEW c \in calls, NEW at \in {"resting", "gone"}, NEW left, NEW r \in Replies \ {"none"},
         NEW we, NEW gi, NEW oe,
         BaseInv, CalmInv, odd \subseteq oe, c.reply = "none",
         at = "resting" => c.op = "post",
         venue[c.id].side \notin oe /\ c.op = "delete" /\ r = "ok" => Resting(c.id),
         VenueBut(venue, we, c.id, left, at),
         \A id : Reported(id, gi) => Reported(id, fills) \/ venue[id].side \in oe,
         TameInv(we, gi, Answered(calls, c, r), all, live, oe),
         venue' = we, calls' = Answered(calls, c, r), fills' = gi, odd' = oe,
         UNCHANGED <<all, live, task, net>>
  PROVE  CalmInv' /\ (CrossInv => CrossInv')
<1> DEFINE e == Replied(c, r)
           ds == Answered(calls, c, r)
<1>1. OrdersInv(venue, fills, lost, calls, all, live) /\ LimitInv(venue, fills, calls, task, net, odd)
  BY CalmParts
<1>2. /\ Len(we) = Len(venue) /\ c.id \in 1..Len(venue) /\ we[c.id].at = at
      /\ \A i \in 1..Len(venue) : we[i].side = venue[i].side /\ we[i].price = venue[i].price
      /\ \A i \in 1..Len(venue) : i # c.id => we[i] = venue[i]
  BY DEF VenueBut
<1>3. c \in Requests /\ c.op \in {"post", "delete"} /\ \A d \in calls : d.id \in 1..Len(venue)
  BY <1>1, Shaped
<1>5. e.by = c.by /\ e.op = c.op /\ e.id = c.id /\ e.reply = r
  BY <1>3, RequestIs
<1>6. at = "resting" => /\ c.id \notin DOMAIN all /\ venue[c.id].at = "sent"
                        /\ \A d \in calls : d.id = c.id => d = c
  BY <1>1 DEF OrdersInv, Posts, Post
<1>7. \A d \in ds : (d \in calls /\ d # c) \/ d = e
  BY DEF Answered
<1> HIDE DEF e, ds
<1>8. at # "gone" => at = "resting"
  OBVIOUS
<1>9. \A s \in Sides : s \notin oe /\ Outstanding(s, we, gi) => Outstanding(s, venue, fills)
  <2>1. \A i \in 1..Len(venue) : we[i].at # "gone" => venue[i].at # "gone"
    BY <1>2, <1>6, <1>8
  <2> QED BY <1>2, <2>1 DEF Outstanding
<1>10. ASSUME NEW s \in Sides, s \notin oe, Replacing(s, we, ds, task) PROVE Replacing(s, venue, calls, task)
  <2>1. PICK d \in ds : /\ d.by = "strategy" /\ d.op = "delete" /\ we[d.id].side = s
                        /\ d.reply = "ok" \/ we[d.id].at # "gone"
    BY <1>10 DEF Replacing
  <2>2. task.mode = "quoting"
    BY <1>10 DEF Replacing
  <2>3. CASE d = e
    <3>1. c.by = "strategy" /\ c.op = "delete" /\ venue[c.id].side = s
      BY <1>2, <1>5, <2>1, <2>3
    <3>2. at = "gone" /\ r = "ok"
      BY <1>2, <1>5, <2>1, <2>3, <3>1
    <3>3. venue[c.id].at # "gone"
      BY <1>10, <3>1, <3>2 DEF Resting
    <3> QED BY <2>2, <3>1, <3>3 DEF Replacing
  <2>4. CASE d \in calls /\ d # c
    <3>1. d.id \in 1..Len(venue) /\ venue[d.id].side = s
      BY <1>2, <1>3, <2>1, <2>4
    <3>2. d.reply = "ok" \/ venue[d.id].at # "gone"
      <4>1. CASE d.id = c.id
        BY <1>2, <1>6, <1>8, <2>1, <2>4, <4>1
      <4>2. CASE d.id # c.id
        BY <1>2, <2>1, <3>1, <4>2
      <4> QED BY <4>1, <4>2
    <3> QED BY <2>1, <2>2, <2>4, <3>1, <3>2 DEF Replacing
  <2> QED BY <1>7, <2>3, <2>4
<1>10a. task.mode # "quoting" \/ /\ task.mode = "quoting" /\ task = task
                                 /\ \A s \in Sides : s \notin oe /\ Replacing(s, we, ds, task)
                                                       => Replacing(s, venue, calls, task)
  BY <1>10
<1>11. LimitInv(we, gi, ds, task, net, oe)
  BY <1>1, <1>9, <1>10a, LimitKeeps
<1>12. Fewer(we, all, venue, all)
  <2>1. \A id \in DOMAIN all : id \in 1..Len(venue)
    BY <1>1, Shaped
  <2> QED BY <1>2, <1>6, <2>1 DEF Fewer
<1>13. ASSUME CrossInv PROVE NoCross(we, ds, all, task, oe)
  <2>1. NoCross(venue, calls, all, task, odd)
    BY <1>13 DEF CrossInv
  <2>2. ASSUME NEW d \in ds, d.by = "strategy"
        PROVE  \/ d.op = "post" /\ d.reply # "none"
               \/ /\ d.op = "post" => d \in calls
                  /\ d.op = "delete" => \E b \in calls : b.by = "strategy" /\ b.op = "delete" /\ b.id = d.id
                  /\ venue[d.id].side = we[d.id].side /\ venue[d.id].price = we[d.id].price
    <3>1. d.id \in 1..Len(venue)
      BY <1>2, <1>3, <1>5, <1>7
    <3>2. venue[d.id].side = we[d.id].side /\ venue[d.id].price = we[d.id].price
      BY <1>2, <3>1
    <3>3. CASE d = e
      BY <1>3, <1>5, <2>2, <3>2, <3>3
    <3>4. CASE d \in calls
      BY <2>2, <3>2, <3>4
    <3> QED BY <1>7, <3>3, <3>4
  <2> QED BY <1>12, <2>1, <2>2, NoCrossKeeps
<1> QED BY <1>1, <1>11, <1>13, CalmParts DEF ds

\* A POST is answered, and its order has not traded.
LEMMA CalmPostAnswered ==
  ASSUME NEW c \in calls, NEW at \in {"resting", "gone"}, NEW r \in {"live", "delayed", "error"},
         BaseInv, CalmInv, c.op = "post", c.reply = "none", r = "error" => at = "gone",
         venue' = [venue EXCEPT ![c.id].at = at], Answer(c, r),
         UNCHANGED <<fills, all, live, task, net, odd>>
  PROVE  CalmInv' /\ (CrossInv => CrossInv')
<1>1. /\ OrdersInv(venue, fills, lost, calls, all, live) /\ TameInv(venue, fills, calls, all, live, odd)
      /\ Held(venue, fills, lost, calls, all, live, net)
  BY CalmParts
<1>2. PICK we : we = [venue EXCEPT ![c.id].at = at]
  OBVIOUS
<1>3. VenueBut(venue, we, c.id, venue[c.id].left, at)
  BY <1>1, <1>2, MoveKeeps
<1>4. r \in Replies \ {"none"} /\ r \in Replies \ {"ok"}
  BY DEF Replies
<1>5. PICK left : left = venue[c.id].left
  OBVIOUS
<1>5a. PICK ds : ds = Answered(calls, c, r) /\ calls' = ds
  BY AnswerIs
<1>6. TameInv(we, fills, ds, all, live, odd)
  <2>1. r \in Replies /\ r # "ok"
    BY <1>4
  <2>2. Untraded(venue, c, left, at, r)
    BY <1>5 DEF Untraded
  <2>3. VenueBut(venue, we, c.id, left, at)
    BY <1>3, <1>5
  <2>4. OrdersInv(venue, fills, lost, calls, all, live) /\ TameInv(venue, fills, calls, all, live, odd)
    BY <1>1
  <2> QED BY <1>5a, <2>1, <2>2, <2>3, <2>4, TamePostAnswered
<1>7. \A id : Reported(id, fills) => Reported(id, fills) \/ venue[id].side \in odd
  OBVIOUS
<1> QED BY <1>2, <1>3, <1>4, <1>5, <1>5a, <1>6, <1>7, CalmMoves

\* One event more is one order more that is reported.
LEMMA AppendReports ==
  ASSUME NEW fi, NEW e, fi \in Seq(Events), e \in Events
  PROVE  \A i : Reported(i, Append(fi, e)) => i = e.id \/ Reported(i, fi)
<1>1. /\ Len(fi) \in Nat /\ Len(Append(fi, e)) = Len(fi) + 1 /\ Append(fi, e)[Len(fi) + 1] = e
      /\ \A i \in 1..Len(fi) : Append(fi, e)[i] = fi[i]
  BY SeqAppend
<1>2. ASSUME NEW i, Reported(i, Append(fi, e)) PROVE i = e.id \/ Reported(i, fi)
  <2>1. PICK k \in 1..Len(fi) + 1 : Append(fi, e)[k].id = i
    BY <1>1, <1>2 DEF Reported
  <2>2. k \in 1..Len(fi) \/ k = Len(fi) + 1
    BY <1>1
  <2> QED BY <1>1, <2>1, <2>2 DEF Reported
<1> QED BY <1>2

\* The exchange takes an order; its side is odd if it trades at once.
LEMMA CalmVenueAccepts ==
  ASSUME NEW c \in calls, BaseInv, CalmInv, VenueAccepts(c)
  PROVE  CalmInv' /\ (CrossInv => CrossInv')
<1>1. /\ OrdersInv(venue, fills, lost, calls, all, live) /\ TameInv(venue, fills, calls, all, live, odd)
      /\ Held(venue, fills, lost, calls, all, live, net) /\ net \in Int
  BY CalmParts
<1>2. c.op = "post" /\ c.reply = "none" /\ UNCHANGED <<all, live, task, net>>
  BY DEF VenueAccepts
<1>3. ASSUME NEW r \in {"live", "delayed"}, NEW at \in {"resting", "gone"},
             venue' = [venue EXCEPT ![c.id].at = at], Answer(c, r), UNCHANGED <<fills, odd>>
      PROVE  CalmInv' /\ (CrossInv => CrossInv')
  BY <1>2, <1>3, CalmPostAnswered
<1>4. ASSUME NEW qty \in (IF "partial" \in Faults THEN 1 ELSE Lots)..Lots,
             venue' = [venue EXCEPT ![c.id].left = Lots - qty,
                                    ![c.id].at = IF qty < Lots THEN "resting" ELSE "gone"],
             fills' = Append(fills, [id |-> c.id, qty |-> qty]), Answer(c, "matched"), Oddly(c.id)
      PROVE  CalmInv' /\ (CrossInv => CrossInv')
  <2> DEFINE at == IF qty < Lots THEN "resting" ELSE "gone"
  <2>1. qty \in 1..Lots /\ Lots - qty \in 0..Lots /\ (at = "resting" => Lots - qty > 0)
    BY Bounds
  <2>2. fills \in Seq(Events) /\ c.id \in 1..Len(venue) /\ c.id \in Ids /\ venue[c.id].left = Lots
    BY <1>1, <1>2, Shaped, Bounds DEF OrdersInv, Posts, Post, Ids
  <2>3. PICK e \in Events : e = [id |-> c.id, qty |-> qty] /\ e.id = c.id /\ e.qty = qty
    BY <2>1, <2>2, EventMade
  <2>4. Answering(Answered(calls, c, "matched"), calls, c.id)
    BY <1>1, <1>2, AnsweredIs
  <2>5. PICK left \in 0..Lots : left = Lots - qty
    BY <2>1
  <2>5a. left = venue[c.id].left - e.qty /\ (at = "resting" => left > 0)
    BY <2>1, <2>2, <2>3, <2>5
  <2>6. PICK we : we = [venue EXCEPT ![c.id].left = left, ![c.id].at = at] /\ venue' = we
    BY <1>4, <2>5
  <2> HIDE DEF at
  <2>7. at \in {"resting", "gone"}
    BY DEF at
  <2>8. VenueBut(venue, we, c.id, left, at)
    BY <1>1, <2>2, <2>3, <2>4, <2>5a, <2>6, <2>7, TradeKeeps
  <2>9. PICK oe : oe = odd' /\ odd \subseteq oe /\ venue[c.id].side \in oe
    <3>1. odd \subseteq odd' /\ venue[c.id].side \in odd'
      BY <1>4 DEF Oddly
    <3> QED BY <3>1
  <2>10. PICK ds : ds = Answered(calls, c, "matched") /\ calls' = ds
    BY <1>4, AnswerIs
  <2>11. TameInv(we, fills, ds, all, live, oe)
    <3>1. TameInv(venue, fills, calls, all, live, oe)
      BY <1>1, <2>9, TameWiden
    <3>2. "matched" \in Replies /\ "matched" # "ok"
      BY DEF Replies
    <3>3. OrdersInv(venue, fills, lost, calls, all, live)
      BY <1>1
    <3> QED BY <1>2, <2>8, <2>9, <2>10, <3>1, <3>2, <3>3, TamePostAnswered
  <2>12. we[e.id].side \in oe
    BY <2>2, <2>3, <2>8, <2>9 DEF VenueBut
  <2>13. TameInv(we, fills', ds, all, live, oe)
    BY <1>4, <2>2, <2>3, <2>11, <2>12, TameReported
  <2>14. \A id : Reported(id, fills') => Reported(id, fills) \/ venue[id].side \in oe
    BY <1>4, <2>2, <2>3, <2>9, AppendReports
  <2>15. "matched" \in Replies \ {"none"} /\ "matched" # "ok"
    BY DEF Replies
  <2>16. PICK gi : gi = fills'
    OBVIOUS
  <2> QED BY <1>2, <2>6, <2>7, <2>8, <2>9, <2>10, <2>13, <2>14, <2>15, <2>16, CalmMoves
<1> QED BY <1>3, <1>4 DEF VenueAccepts

\* It refuses an order, and says so.
LEMMA CalmVenueRejects ==
  ASSUME NEW c \in calls, BaseInv, CalmInv, VenueRejects(c)
  PROVE  CalmInv' /\ (CrossInv => CrossInv')
BY CalmPostAnswered DEF VenueRejects

\* It cancels an order, and confirms it if the order rested or its side is odd.
LEMMA CalmVenueCancels ==
  ASSUME NEW c \in calls, BaseInv, CalmInv, VenueCancels(c)
  PROVE  CalmInv' /\ (CrossInv => CrossInv')
<1>1. /\ OrdersInv(venue, fills, lost, calls, all, live) /\ TameInv(venue, fills, calls, all, live, odd)
      /\ Held(venue, fills, lost, calls, all, live, net)
  BY CalmParts
<1>2. /\ c.op = "delete" /\ c.reply = "none"
      /\ venue' = [venue EXCEPT ![c.id].at = "gone"] /\ UNCHANGED <<fills, all, live, task, net>>
  BY DEF VenueCancels
<1>3. PICK oe : oe = odd' /\ odd \subseteq oe
  BY DEF VenueCancels, Oddly
<1>4. PICK r \in {"ok", "error"} : Answer(c, r) /\ (venue[c.id].side \notin oe /\ r = "ok" => Resting(c.id))
  BY <1>3 DEF VenueCancels, Oddly
<1>5. PICK we : we = [venue EXCEPT ![c.id].at = "gone"]
  OBVIOUS
<1>6. VenueBut(venue, we, c.id, venue[c.id].left, "gone")
  BY <1>1, <1>2, <1>4, <1>5, MoveKeeps
<1>7. PICK ds : ds = Answered(calls, c, r) /\ calls' = ds
  BY <1>4, AnswerIs
<1>9. TameInv(we, fills, ds, all, live, oe)
  <2>1. TameInv(venue, fills, calls, all, live, oe)
    BY <1>1, <1>3, TameWiden
  <2>2. venue[c.id].side \notin oe /\ r = "ok" => venue[c.id].at = "resting"
    BY <1>4 DEF Resting
  <2>3. OrdersInv(venue, fills, lost, calls, all, live)
    BY <1>1
  <2>4. r \in {"ok", "error"}
    BY <1>4
  <2> QED BY <1>2, <1>6, <1>7, <2>1, <2>2, <2>3, <2>4, TameDeleteAnswered
<1>10. r \in Replies \ {"none"}
  BY <1>4 DEF Replies
<1>11. \A id : Reported(id, fills) => Reported(id, fills) \/ venue[id].side \in oe
  OBVIOUS
<1>12. PICK left : left = venue[c.id].left
  OBVIOUS
<1> QED BY <1>2, <1>3, <1>4, <1>5, <1>6, <1>7, <1>9, <1>10, <1>11, <1>12, CalmMoves

\* An order trades: whole, and its event takes its place, or its side is odd.
LEMMA CalmVenueFills ==
  ASSUME NEW id \in 1..Len(venue), BaseInv, CalmInv, VenueFills(id)
  PROVE  CalmInv' /\ (CrossInv => CrossInv')
<1>1. /\ OrdersInv(venue, fills, lost, calls, all, live) /\ TameInv(venue, fills, calls, all, live, odd)
      /\ Held(venue, fills, lost, calls, all, live, net) /\ net \in Int
      /\ LimitInv(venue, fills, calls, task, net, odd) /\ fills \in Seq(Events)
  BY CalmParts, Shaped
<1>2. Resting(id) /\ venue[id].at = "resting" /\ UNCHANGED <<calls, all, live, task, net>>
  BY DEF VenueFills, Resting
<1>3. venue[id].left \in 1..Lots /\ id \in Ids /\ Answering(calls, calls, id)
  BY <1>1, <1>2, CanTrade
<1>4. PICK qty \in (IF "partial" \in Faults THEN 1 ELSE venue[id].left)..venue[id].left :
        /\ venue' = [venue EXCEPT ![id].left = @ - qty,
                                  ![id].at = IF qty < venue[id].left THEN "resting" ELSE "gone"]
        /\ fills' = Append(fills, [id |-> id, qty |-> qty])
        /\ IF qty < Lots THEN Oddly(id) ELSE UNCHANGED odd
  BY DEF VenueFills
<1> DEFINE at == IF qty < venue[id].left THEN "resting" ELSE "gone"
<1>5. /\ qty \in 1..Lots
      /\ venue[id].left - qty \in 0..Lots /\ (at = "resting" => venue[id].left - qty > 0)
  BY <1>3, Bounds
<1>5a. PICK left \in 0..Lots : left = venue[id].left - qty /\ (at = "resting" => left > 0)
  BY <1>5
<1>6. PICK e \in Events : e = [id |-> id, qty |-> qty] /\ e.id = id /\ e.qty = qty
  BY <1>3, <1>5, EventMade
<1>7. PICK oe : oe = odd' /\ odd \subseteq oe /\ (venue[id].side \notin oe => ~(qty < Lots))
  BY <1>4 DEF Oddly
<1>7a. venue[id].side \notin oe => left = 0 /\ at = "gone" /\ e.qty = Lots
  BY <1>3, <1>5, <1>5a, <1>6, <1>7, Bounds
<1>8. PICK we : we = [venue EXCEPT ![id].left = left, ![id].at = at] /\ venue' = we
  BY <1>4, <1>5a
<1> HIDE DEF at
<1>8a. at \in {"resting", "gone"}
  BY DEF at
<1>9. VenueBut(venue, we, id, left, at)
  BY <1>1, <1>3, <1>5a, <1>6, <1>8, <1>8a, TradeKeeps
<1>10. TameInv(we, fills', calls, all, live, oe)
  <2>1. TameInv(venue, fills, calls, all, live, oe)
    BY <1>1, <1>7, TameWiden
  <2> QED BY <1>1, <1>2, <1>4, <1>6, <1>7a, <1>9, <2>1, TameSold
<1>11. /\ Len(we) = Len(venue) /\ we[id].at = at
       /\ \A i \in 1..Len(venue) : i # id => we[i] = venue[i]
       /\ \A i \in 1..Len(venue) : we[i].side = venue[i].side /\ we[i].price = venue[i].price
  BY <1>9 DEF VenueBut
<1>12. \A i \in 1..Len(venue) : we[i].at # "gone" => venue[i].at # "gone"
  BY <1>2, <1>11
<1>13. \A s \in Sides : Outstanding(s, we, fills') => Outstanding(s, venue, fills)
  <2>1. \A i : Reported(i, fills') => i = id \/ Reported(i, fills)
    BY <1>1, <1>4, <1>6, AppendReports
  <2>2. venue[id].at # "gone"
    BY <1>2
  <2> QED BY <1>11, <1>12, <2>1, <2>2 DEF Outstanding
<1>14. \A c \in calls : c.id \in 1..Len(venue)
  BY <1>1, Shaped
<1>15. \A s \in Sides : Replacing(s, we, calls, task) => Replacing(s, venue, calls, task)
  BY <1>11, <1>12, <1>14 DEF Replacing
<1>16. LimitInv(we, fills', calls, task, net, oe)
  BY <1>1, <1>7, <1>13, <1>15, LimitKeeps
<1>17. Fewer(we, all, venue, all)
  <2>1. \A i \in DOMAIN all : i \in 1..Len(venue)
    BY <1>1, Shaped
  <2> QED BY <1>2, <1>11, <2>1 DEF Fewer
<1>18. CrossInv => NoCross(we, calls, all, task, oe)
  BY <1>7, <1>11, <1>14, <1>17, NoCrossKeeps DEF CrossInv
<1> QED BY <1>1, <1>2, <1>7, <1>8, <1>10, <1>16, <1>18, CalmParts

\* Nothing is on its way at the start.
LEMMA CalmInit == Init => CalmInv /\ CrossInv
<1> SUFFICES ASSUME Init PROVE CalmInv /\ CrossInv
  OBVIOUS
<1>1. /\ venue = <<>> /\ fills = <<>> /\ calls = {} /\ all = <<>> /\ net = StartNet /\ task = Idle
  BY DEF Init
<1>2. Len(venue) = 0 /\ Len(fills) = 0 /\ DOMAIN all = {}
  BY <1>1
<1>3. /\ OnePiece(venue, odd) /\ Pending(venue, fills, calls, all, odd) /\ Indexed(venue, all, live, odd)
      /\ Alone(venue, calls, live, odd) /\ CancelledOnce(venue, calls, all, odd) /\ Tracked(venue, calls, all, odd)
  BY <1>1, <1>2 DEF OnePiece, Pending, Indexed, Alone, CancelledOnce, Tracked
<1>4. \A s : ~Outstanding(s, venue, fills) /\ ~Replacing(s, venue, calls, task)
  BY <1>1, <1>2 DEF Outstanding, Replacing
<1>5. ~ToSell(venue, calls, task)
  BY <1>1, <1>4, ModeIs DEF ToSell
<1>6. LimitInv(venue, fills, calls, task, net, odd)
  BY <1>1, <1>4, <1>5 DEF LimitInv, LongInv, ShortInv, StartsWithin
<1>7. CrossInv
  BY <1>1 DEF CrossInv, NoCross
<1> QED BY <1>1, <1>3, <1>6, <1>7 DEF CalmInv, TameInv

\* Every step, one action at a time.
LEMMA CalmStep ==
  ASSUME BaseInv, CalmInv, [Next]_vars
  PROVE  CalmInv' /\ (OnTick /\ CrossInv => CrossInv')
<1>1. CASE UpdateSweep \/ UpdateAtLimit \/ \E q \in Quotes : UpdateQuotes(q)
  BY <1>1, CalmUpdateSweep, CalmUpdateAtLimit, CalmUpdateQuotes
<1>2. CASE StrategyReturns
  BY <1>2, CalmPostReturns, CalmRepriceReturns, CalmSweepReturns, CalmStrategyThrows DEF StrategyReturns
<1>3. CASE KillReturns
  BY <1>3, CalmKillSweepReturns DEF KillReturns
<1>4. CASE Timeouts
  BY <1>4, CalmStrategyTimeout, CalmKillTimeout DEF Timeouts
<1>5. CASE VenueAnswers
  BY <1>5, CalmVenueAccepts, CalmVenueRejects, CalmVenueCancels DEF VenueAnswers
<1>6. CASE \E s \in Sides : Thaw(s)
  BY <1>6, CalmSame DEF Thaw
<1>7. CASE DispatchStops \/ Kill
  BY <1>7, CalmSame DEF DispatchStops, Kill
<1>8. CASE DispatchFill \/ KillSweep
  BY <1>8, CalmDispatchFill, CalmKillSweep
<1>9. CASE \E id \in 1..Len(venue) : VenueFills(id)
  BY <1>9, CalmVenueFills
<1>10. CASE FillLost
  BY <1>10, CalmFillLost
<1>11. CASE UNCHANGED vars
  BY <1>11, CalmSame DEF vars
<1> QED BY <1>1, <1>2, <1>3, <1>4, <1>5, <1>6, <1>7, <1>8, <1>9, <1>10, <1>11 DEF Next

\* The process only dies of a key that is gone.
LEMMA SurvivesStep ==
  ASSUME BaseInv, CalmInv, OddSides, StrategySurvives, [Next]_vars
  PROVE  StrategySurvives'
<1>1. odd \subseteq odd'
  BY OddGrows
<1>2. CASE \E c \in calls : StrategyThrows(c)
  <2>1. PICK c \in calls : StrategyThrows(c)
    BY <1>2
  <2>2. venue[c.id].side \in odd
    BY <2>1, ThrowsOddly
  <2> QED BY <1>1, <2>2 DEF StrategySurvives
<1>3. CASE ~\E c \in calls : StrategyThrows(c)
  <2>1. up' = up
    <3>1. CASE UpdateSweep \/ UpdateAtLimit \/ \E q \in Quotes : UpdateQuotes(q)
      BY <3>1 DEF UpdateSweep, UpdateAtLimit, UpdateQuotes
    <3>2. CASE \E c \in calls : PostReturns(c) \/ RepriceReturns(c) \/ SweepReturns(c)
      BY <3>2 DEF PostReturns, RepriceReturns, SweepReturns
    <3>3. CASE KillReturns \/ Timeouts
      BY <3>3 DEF KillReturns, Timeouts, KillSweepReturns, StrategyTimeout, KillTimeout
    <3>4. CASE VenueAnswers \/ \E id \in 1..Len(venue) : VenueFills(id)
      BY <3>4 DEF VenueAnswers, VenueAccepts, VenueRejects, VenueCancels, VenueFills
    <3>5. CASE (\E s \in Sides : Thaw(s)) \/ DispatchFill \/ DispatchStops \/ Kill \/ KillSweep \/ FillLost
      BY <3>5 DEF Thaw, DispatchFill, DispatchStops, Kill, KillSweep, FillLost
    <3>6. CASE UNCHANGED vars
      BY <3>6 DEF vars
    <3> QED BY <1>3, <3>1, <3>2, <3>3, <3>4, <3>5, <3>6 DEF Next, StrategyReturns
  <2> QED BY <1>1, <2>1 DEF StrategySurvives
<1> QED BY <1>2, <1>3

\* The invariants hold in every state, whatever the faults.
LEMMA CalmAlways == Spec => [](BaseInv /\ OddSides /\ CalmInv /\ StrategySurvives)
<1>1. Init => BaseInv /\ OddSides /\ CalmInv /\ StrategySurvives
  BY BaseInit, CalmInit DEF Init, OddSides, StrategySurvives
<1>2. BaseInv /\ OddSides /\ CalmInv /\ StrategySurvives /\ [Next]_vars
        => BaseInv' /\ OddSides' /\ CalmInv' /\ StrategySurvives'
  BY BaseStep, OddGrows, CalmStep, SurvivesStep
<1> QED BY <1>1, <1>2, PTL DEF Spec

\* What the strategy sends is clear of its own orders, when the engine quotes
\* whole ticks.
LEMMA CrossAlways == ASSUME OnTick PROVE Spec => [](BaseInv /\ CalmInv /\ CrossInv)
<1>1. Init => BaseInv /\ CalmInv /\ CrossInv
  BY BaseInit, CalmInit
<1>2. BaseInv /\ CalmInv /\ CrossInv /\ [Next]_vars => BaseInv' /\ CalmInv' /\ CrossInv'
  BY BaseStep, CalmStep
<1> QED BY <1>1, <1>2, PTL DEF Spec

-----------------------------------------------------------------------------
(* What follows of the invariants.                                         *)

\* The exchange never holds two orders of one side, although a fill, a cancel
\* and the kill monitor may come between a replacement and the order before it
\* (update_quotes, _update_side), under all faults.  Only a side of which an order
\* traded at once or in parts, a POST was given up, or a cancel was confirmed for
\* an order that was gone is excused, and not the side across from it.
THEOREM OneOrderPerSideAlways == Spec => []OneOrderPerSide
<1>1. BaseInv /\ CalmInv => OneOrderPerSide
  <2> SUFFICES ASSUME BaseInv, CalmInv PROVE OneOrderPerSide
    OBVIOUS
  <2>1. /\ OrdersInv(venue, fills, lost, calls, all, live) /\ TameInv(venue, fills, calls, all, live, odd)
        /\ Awaits(task, calls)
    BY CalmParts
  <2>2. \A c, d \in calls : c.by = "strategy" /\ c.op = "post" /\ d.by = "strategy" /\ d.op = "post" => c = d
    BY <2>1, OnePost
  <2> QED BY <2>1, <2>2, OneOutstanding DEF OneOrderPerSide
<1> QED BY <1>1, CalmAlways, PTL

\* _cancel_all reaches every order that rests, but for the one whose POST is
\* still under way ("Cancel all live orders for a market", order_manager.py:357)
\* and those of a side that fared oddly, under all faults.
THEOREM CancelAllAlwaysReaches == Spec => []CancelAllReaches
<1>1. BaseInv /\ CalmInv => CancelAllReaches
  <2> SUFFICES ASSUME BaseInv, CalmInv, NEW id \in 1..Len(venue), Resting(id), venue[id].side \notin odd,
                      ~PostInFlight(id)
               PROVE  id \in ToCancel
    BY DEF CancelAllReaches
  <2>1. OrdersInv(venue, fills, lost, calls, all, live) /\ TameInv(venue, fills, calls, all, live, odd)
    BY CalmParts
  <2>2. Standing(id, all)
    BY <2>1, Tamed DEF Resting, PostInFlight, Posted
  <2>3. live[venue[id].side] = id /\ venue[id].side \in Sides /\ id # NoOrder
    BY <2>1, <2>2, Tamed DEF Standing, NoOrder
  <2> QED BY <2>2, <2>3 DEF ToCancel, Standing
<1> QED BY <1>1, CalmAlways, PTL

\* No cancel comes back to a side whose key is gone, so the unguarded del of
\* _cancel_order does not raise and the strategy task lives on, under all faults,
\* until some side has fared oddly.
THEOREM StrategyAlwaysSurvives == Spec => []StrategySurvives
BY CalmAlways, PTL

\* The limit is overshot by less than one order of longs and less than two of
\* shorts (update_quotes, _handle_max_inventory), for any limit, size and quotes,
\* under all faults, on a side that has not fared oddly, from any position the
\* limit could have led to.
THEOREM OvershootAlwaysBounded ==
  ASSUME StartNet < MaxInventory + Lots, -StartNet < MaxInventory + 2 * Lots
  PROVE  Spec => []OvershootBounded
<1>1. StartsWithin
  BY DEF StartsWithin
<1>2. CalmInv => OvershootBounded
  BY <1>1 DEF CalmInv, LimitInv, LongInv, ShortInv, OvershootBounded
<1> QED BY <1>2, CalmAlways, PTL

\* No order is under way to the exchange that would trade with one of ours held
\* for OPEN, even when the self-trade guard ran before the cancel the order
\* follows (update_quotes, _update_side), as long as rounding to the tick moves
\* no quote; again under all faults, with the orders of an odd side excused.
THEOREM CrossNeverSent == ASSUME OnTick PROVE Spec => []NeverSendsCross
<1>1. CrossInv => NeverSendsCross
  <2> SUFFICES ASSUME CrossInv, NEW c \in CallsBy("strategy"), NEW id \in DOMAIN all,
                      c.op = "post", c.reply = "none",
                      Resting(id), all[id].status = "OPEN", venue[id].side # venue[c.id].side,
                      venue[id].side \notin odd
               PROVE  ~Crossing(venue[c.id].side, venue[c.id].price, venue[id].price)
    BY DEF NeverSendsCross
  <2>1. Clear(venue[c.id].side, venue[c.id].price, venue, all, odd)
    BY DEF CrossInv, NoCross, CallsBy
  <2> QED BY <2>1 DEF Clear, Resting
<1> QED BY <1>1, CrossAlways, PTL
=============================================================================
