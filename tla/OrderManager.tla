---------------------------- MODULE OrderManager ----------------------------
(***************************************************************************)
(* The life of Polymarket orders in one market, as OrderManager            *)
(* (src/execution/order_manager.py) runs it.  Three tasks of one event     *)
(* loop touch the manager: the strategy task (update_quotes), the fill     *)
(* dispatcher (mark_filled) and the kill monitor (_cancel_all).  A task    *)
(* only gives way at an await, that is, while an HTTP call is in flight:   *)
(* an action here is what a task does from one await to the next.          *)
(*                                                                         *)
(* The exchange is external: it accepts, rejects, matches and cancels as   *)
(* the code expects it may.  Everything that can go wrong outside the      *)
(* program is named in Faults, so a run says which of it it allows.        *)
(***************************************************************************)
EXTENDS Quoting, Sequences, FiniteSets, Functions

CONSTANTS
  Quotes,        \* The [bid, ask] pairs the pricing engine may ask for.
  Tick,          \* Tick size, in the unit of the quotes.
  Lots,          \* Size of every order, in the lots fills come in.
  MaxInventory,  \* risk.max_inventory_contracts, in lots.
  StartNet,      \* The position the process starts from.
  MaxOrders,     \* Bound on the POSTs of a behaviour; not in the code.
  Faults         \* What the outside world may do, a subset of AllFaults.

AllFaults == { "reject",    \* a POST is answered with an error
               "delayed",   \* a POST is answered "delayed"
               "matched",   \* a POST is answered "matched": it traded at once
               "partial",   \* an order trades in several fills
               "earlyfill", \* a fill event overtakes the answer to its POST
               "lostfill",  \* a fill event never arrives
               "posttimeout",   \* a POST times out, whatever the exchange did
               "deletetimeout", \* a DELETE times out, likewise
               "lenient" }  \* DELETE of an order that is gone is answered 200

Sides == {"BUY", "SELL"}

ASSUME QuotesAssumption ==
  Quotes # {} /\ \A q \in Quotes : q.bid \in Int /\ q.ask \in Int /\ q.bid < q.ask
ASSUME TickAssumption == Tick \in Nat \ {0}
ASSUME LotsAssumption == Lots \in Nat \ {0}
ASSUME MaxInventoryAssumption == MaxInventory \in Nat \ {0}
ASSUME StartNetAssumption == StartNet \in Int
ASSUME MaxOrdersAssumption == MaxOrders \in Nat
ASSUME FaultsAssumption == Faults \subseteq AllFaults

VARIABLES
  venue,       \* The exchange: every order ever sent, in the order of the POSTs.
  fills,       \* Own-fill events the exchange sent and nobody handled yet.
  calls,       \* HTTP calls in flight.
  all,         \* _all: status and filled_size of the orders the manager knows, by id.
  live,        \* _live: per side the order being quoted, or NoOrder.
  frozen,      \* FlickeringFilter.is_frozen, per side.
  task,        \* Where the strategy task is inside update_quotes.
  net,         \* InventoryManager.get_net_qty of this market.
  lost,        \* History: the fill events that never came.
  odd,         \* History: the sides of which an order fared as below (Oddly).
  killed,      \* kill_event.is_set().
  swept,       \* The kill monitor has issued its cancels.
  dispatching, \* The fill dispatcher is still in its loop.
  up           \* The process is running.

vars == <<venue, fills, calls, all, live, frozen, task, net, lost, odd, killed, swept,
          dispatching, up>>

NoOrder == 0
Ids == 1..MaxOrders

Opposite(s) == IF s = "BUY" THEN "SELL" ELSE "BUY"
Signed(s, qty) == IF s = "BUY" THEN qty ELSE -qty

Idle == [mode |-> "idle"]
Sweeping == [mode |-> "sweeping"]
Quoting(q, todo) == [mode |-> "quoting", quote |-> q, todo |-> todo]

Call(by, op, id) == [by |-> by, op |-> op, id |-> id, reply |-> "none"]
CallsBy(who) == {c \in calls : c.by = who}

\* What the manager is not written for: an order that trades at once or in
\* parts, a POST that is given up, a cancel confirmed for an order that is gone.
Oddly(id) == odd' = odd \cup {venue[id].side}

Resting(id) == venue[id].at = "resting"
Known(id) == id \in DOMAIN all

\* What orders have traded, and what fill events say of it.
Traded(orders) ==
  SumFunction([i \in DOMAIN orders |-> Signed(orders[i].side, Lots - orders[i].left)])
Told(orders, events) ==
  SumFunction([i \in DOMAIN events |-> Signed(orders[events[i].id].side, events[i].qty)])

-----------------------------------------------------------------------------
(* Pricing and guards of update_quotes.                                    *)

QuotePrice(q, s) == IF s = "BUY" THEN q.bid ELSE q.ask

Crossing(s, p, other) == IF s = "BUY" THEN p >= other ELSE p <= other

\* Mutant: only the bid is tested against the ask.
StpBlocks_BidOnly(s, q, al, lv) ==
  LET opp == lv[Opposite(s)]
  IN  /\ s = "BUY" /\ opp # NoOrder /\ al[opp].status = "OPEN"
      /\ Crossing(s, QuotePrice(q, s), venue[opp].price)

\* The self-trade guard: it looks at an opposite order only while it is OPEN,
\* and compares the price before it is rounded to a tick.
StpBlocks(s, q, al, lv) ==
  LET opp == lv[Opposite(s)]
  IN  /\ opp # NoOrder
      /\ al[opp].status = "OPEN"
      /\ Crossing(s, QuotePrice(q, s), venue[opp].price)

\* A move of less than 30% of the quoted spread is not worth a cancel.
WorthRepricing(s, q, lv) ==
  LET move   == QuotePrice(q, s) - venue[lv[s]].price
      spread == q.ask - q.bid
  IN  10 * (IF move < 0 THEN -move ELSE move) >= 3 * spread

\* Mutant: a PENDING order does not count as live.
Decision_PendingIgnored(s, q, al, lv, young) ==
  CASE StpBlocks(s, q, al, lv) \/ frozen[s] -> "skip"
    [] ~StpBlocks(s, q, al, lv) /\ ~frozen[s]
       /\ (lv[s] = NoOrder \/ al[lv[s]].status # "OPEN") -> "post"
    [] OTHER -> IF s \notin young /\ WorthRepricing(s, q, lv) THEN "cancel" ELSE "skip"

\* What the loop of update_quotes, and _update_side in it, do for side s.
\* young: the sides whose order is younger than MIN_REPRICE_INTERVAL_S.
Decision(s, q, al, lv, young) ==
  CASE StpBlocks(s, q, al, lv) \/ frozen[s] -> "skip"
    [] ~StpBlocks(s, q, al, lv) /\ ~frozen[s]
       /\ (lv[s] = NoOrder \/ al[lv[s]].status \notin {"OPEN", "PENDING"}) -> "post"
    [] OTHER -> IF s \notin young /\ WorthRepricing(s, q, lv) THEN "cancel" ELSE "skip"

-----------------------------------------------------------------------------
(* Sending.  A POST gets its id here; the manager learns it from the reply. *)

\* cs: the calls in flight besides the new one.
SendPost(s, q, cs) ==
  /\ venue' = Append(venue, [side |-> s, price |-> RoundToTick(QuotePrice(q, s), Tick),
                             left |-> Lots, at |-> "sent"])
  /\ calls' = cs \cup {Call("strategy", "post", Len(venue) + 1)}

\* sign_order may raise, and _place_order then returns before its await: that
\* is where the bound on the POSTs is kept.
CanSign == Len(venue) < MaxOrders

SendDeletes(by, ids, cs) == calls' = cs \cup {Call(by, "delete", id) : id \in ids}

\* The rest of update_quotes over the sides still to do, BUY before SELL, up to
\* the next await.  al, lv, cs: _all, _live and the calls as the code before it
\* left them.
Proceed(todo, q, al, lv, cs) ==
  \E young \in SUBSET {s \in Sides : lv[s] # NoOrder} :
    LET awaited == IF CanSign THEN {"post", "cancel"} ELSE {"cancel"}
        due == {s \in todo : Decision(s, q, al, lv, young) \in awaited}
        first == IF "BUY" \in due THEN "BUY" ELSE "SELL"
    IN  \/ /\ due = {}
           /\ task' = Idle
           /\ calls' = cs
           /\ UNCHANGED venue
        \/ /\ due # {}
           /\ task' = Quoting(q, {"SELL"} \ {first})
           /\ IF Decision(first, q, al, lv, young) = "post"
              THEN SendPost(first, q, cs)
              ELSE SendDeletes("strategy", {lv[first]}, cs) /\ UNCHANGED venue

-----------------------------------------------------------------------------
(* The strategy task.                                                      *)

CanUpdate == up /\ ~killed /\ task = Idle

\* Mutant: a PENDING order is left alone.
ToCancel_OpenOnly == {live[s] : s \in {t \in Sides :
                        live[t] # NoOrder /\ all[live[t]].status = "OPEN"}}

\* What _cancel_all picks: OPEN and PENDING orders of the live index.
ToCancel == {live[s] : s \in {t \in Sides :
               live[t] # NoOrder /\ all[live[t]].status \in {"OPEN", "PENDING"}}}

\* update_quotes when fv.should_quote is false.
UpdateSweep ==
  /\ CanUpdate
  /\ ToCancel # {}
  /\ SendDeletes("strategy", ToCancel, calls)
  /\ task' = Sweeping
  /\ UNCHANGED <<venue, fills, all, live, frozen, net, lost, odd, killed, swept, dispatching, up>>

\* Mutant: the limit itself is still below the limit.
AtLimit_Above == net > MaxInventory \/ -net > MaxInventory

AtLimit == net >= MaxInventory \/ -net >= MaxInventory
GrowingSide == IF net > 0 THEN "BUY" ELSE "SELL"

\* update_quotes at the inventory limit: _handle_max_inventory.
UpdateAtLimit ==
  /\ CanUpdate
  /\ AtLimit
  /\ live[GrowingSide] # NoOrder
  /\ SendDeletes("strategy", {live[GrowingSide]}, calls)
  /\ task' = Sweeping
  /\ UNCHANGED <<venue, fills, all, live, frozen, net, lost, odd, killed, swept, dispatching, up>>

\* update_quotes otherwise: both sides in turn.
UpdateQuotes(q) ==
  /\ CanUpdate
  /\ ~AtLimit
  /\ Proceed(Sides, q, all, live, calls)
  /\ UNCHANGED <<fills, all, live, frozen, net, lost, odd, killed, swept, dispatching, up>>

\* Mutant: the exchange's word is kept as the status.
PlacedRecord_Unmapped(reply) == [status |-> reply, filled |-> 0]

\* _resolve_placed_status; a "matched" order is taken for filled, and its fill
\* event is still to come.
PlacedRecord(reply) ==
  CASE reply = "live"    -> [status |-> "OPEN", filled |-> 0]
    [] reply = "matched" -> [status |-> "FILLED", filled |-> Lots]
    [] reply = "delayed" -> [status |-> "PENDING", filled |-> 0]

Remember(id, rec) == [i \in DOMAIN all \cup {id} |-> IF i = id THEN rec ELSE all[i]]

\* The POST came back: _place_order files the order, whatever happened to it
\* or to the index meanwhile, and update_quotes goes on to the next side.
PostReturns(c) ==
  /\ up /\ c \in CallsBy("strategy") /\ c.op = "post" /\ c.reply # "none"
  /\ LET ok == c.reply # "error"
         al == IF ok THEN Remember(c.id, PlacedRecord(c.reply)) ELSE all
         lv == IF ok THEN [live EXCEPT ![venue[c.id].side] = c.id] ELSE live
     IN  /\ all' = al
         /\ live' = lv
         /\ Proceed(task.todo, task.quote, al, lv, calls \ {c})
  /\ UNCHANGED <<fills, frozen, net, lost, odd, killed, swept, dispatching, up>>

\* Mutant: the whole market leaves the live index with one of its orders.
DropLive_Market(s) == [t \in Sides |-> NoOrder]

\* _cancel_order after a 200: the status, the flicker filter (which may freeze
\* the side), then del self._live[key], whichever order the key holds by now.
MarkCancelled(id) == [all EXCEPT ![id].status = "CANCELLED"]
DropLive(s) == [live EXCEPT ![s] = NoOrder]
RecordCancel(s) == \E f \in {frozen[s], TRUE} : frozen' = [frozen EXCEPT ![s] = f]

\* After a successful cancel inside _update_side the new order is sent in the
\* same breath: neither the freeze just recorded, nor kill_event, nor the
\* self-trade guard is looked at again.
RepriceReturns(c) ==
  /\ up /\ c \in CallsBy("strategy") /\ c.op = "delete" /\ task.mode = "quoting"
  /\ \/ /\ c.reply = "ok"
        /\ live[venue[c.id].side] # NoOrder
        /\ all' = MarkCancelled(c.id)
        /\ RecordCancel(venue[c.id].side)
        /\ live' = DropLive(venue[c.id].side)
        /\ \/ /\ CanSign
              /\ SendPost(venue[c.id].side, task.quote, calls \ {c})
              /\ UNCHANGED task
           \/ /\ ~CanSign
              /\ Proceed(task.todo, task.quote, MarkCancelled(c.id),
                         DropLive(venue[c.id].side), calls \ {c})
     \/ /\ c.reply = "error"
        /\ Proceed(task.todo, task.quote, all, live, calls \ {c})
        /\ UNCHANGED <<all, live, frozen>>
  /\ UNCHANGED <<fills, net, lost, odd, killed, swept, dispatching, up>>

\* Mutant: the gather also waits for the calls of others.
AfterSweep_AnyCall(c) == IF calls = {c} THEN Idle ELSE task

\* asyncio.gather over the cancels ends with the last of them.
AfterSweep(c) == IF CallsBy("strategy") = {c} THEN Idle ELSE task

\* A cancel of _cancel_all or _handle_max_inventory came back.
SweepReturns(c) ==
  /\ up /\ c \in CallsBy("strategy") /\ c.op = "delete" /\ task.mode = "sweeping"
  /\ \/ /\ c.reply = "ok"
        /\ live[venue[c.id].side] # NoOrder
        /\ all' = MarkCancelled(c.id)
        /\ RecordCancel(venue[c.id].side)
        /\ live' = DropLive(venue[c.id].side)
     \/ /\ c.reply = "error"
        /\ UNCHANGED <<all, live, frozen>>
  /\ calls' = calls \ {c}
  /\ task' = AfterSweep(c)
  /\ UNCHANGED <<venue, fills, net, lost, odd, killed, swept, dispatching, up>>

\* del self._live[key] finds no key: the KeyError leaves the strategy task,
\* gather re-raises it in Orchestrator.run, which cancels every task.
StrategyThrows(c) ==
  /\ up /\ c \in CallsBy("strategy") /\ c.op = "delete" /\ c.reply = "ok"
  /\ live[venue[c.id].side] = NoOrder
  /\ all' = MarkCancelled(c.id)
  /\ RecordCancel(venue[c.id].side)
  /\ up' = FALSE
  /\ task' = Idle
  /\ calls' = {[d EXCEPT !.by = "nobody"] : d \in {e \in calls : e.reply = "none"}}
  /\ UNCHANGED <<venue, fills, live, net, lost, odd, killed, swept, dispatching>>

-----------------------------------------------------------------------------
(* Time: calls that time out, sides that thaw.                             *)

\* One timed-out call at a time is still on its way, a bound not in the code.
MayTimeOut(c) ==
  /\ (IF c.op = "post" THEN "posttimeout" ELSE "deletetimeout") \in Faults
  /\ c.reply # "none" \/ CallsBy("nobody") = {}

\* The deadline of a call passes: the exchange may have acted on it, or may
\* still do so, but the caller takes the error path.
Abandoned(c) == (calls \ {c}) \cup
  (IF c.reply = "none" THEN {[c EXCEPT !.by = "nobody"]} ELSE {})

StrategyTimeout(c) ==
  /\ up /\ c \in CallsBy("strategy") /\ MayTimeOut(c)
  /\ \/ /\ task.mode = "quoting"
        /\ Proceed(task.todo, task.quote, all, live, Abandoned(c))
     \/ /\ task.mode = "sweeping"
        /\ calls' = Abandoned(c)
        /\ task' = AfterSweep(c)
        /\ UNCHANGED venue
  /\ IF c.op = "post" THEN Oddly(c.id) ELSE UNCHANGED odd
  /\ UNCHANGED <<fills, all, live, frozen, net, lost, killed, swept, dispatching, up>>

KillTimeout(c) ==
  /\ up /\ c \in CallsBy("kill") /\ MayTimeOut(c)
  /\ calls' = Abandoned(c)
  /\ UNCHANGED <<venue, fills, all, live, frozen, task, net, lost, odd, killed, swept, dispatching, up>>

Thaw(s) ==
  /\ frozen[s]
  /\ frozen' = [frozen EXCEPT ![s] = FALSE]
  /\ UNCHANGED <<venue, fills, calls, all, live, task, net, lost, odd, killed, swept, dispatching, up>>

-----------------------------------------------------------------------------
(* The fill dispatcher and the kill monitor.                               *)

\* An answered POST files its order before a later event is read, unless the
\* event overtakes the answer.
Readable(f) ==
  "earlyfill" \in Faults \/ \A c \in CallsBy("strategy") : ~(c.op = "post" /\ c.id = f.id)

\* mark_filled: nothing for an order it does not know; a filled order takes
\* its side out of the live index, whichever order is quoted there by now.
MarkFilled(id, qty) ==
  LET sum == all[id].filled + qty
      full == sum >= Lots
  IN  IF ~Known(id) THEN UNCHANGED <<all, live>>
      ELSE /\ all' = [all EXCEPT ![id].status = IF full THEN "FILLED" ELSE "PARTIAL_FILL",
                              ![id].filled = sum]
           /\ live' = IF full THEN DropLive(venue[id].side) ELSE live

\* Mutant: a fill of an order mark_filled does not know is ignored.
CountFill_KnownOnly(f) ==
  net' = IF Known(f.id) THEN net + Signed(venue[f.id].side, f.qty) ELSE net

\* _apply_fill hands every fill to the inventory, known order or not.
CountFill(f) == net' = net + Signed(venue[f.id].side, f.qty)

\* _fill_dispatch and _apply_fill.  The loop tests kill_event only between
\* events, so one more event may be handled after the kill.
DispatchFill ==
  /\ up /\ dispatching /\ fills # <<>> /\ Readable(Head(fills))
  /\ MarkFilled(Head(fills).id, Head(fills).qty)
  /\ CountFill(Head(fills))
  /\ fills' = Tail(fills)
  /\ dispatching' = ~killed
  /\ UNCHANGED <<venue, calls, frozen, task, lost, odd, killed, swept, up>>

DispatchStops ==
  /\ up /\ killed /\ dispatching
  /\ dispatching' = FALSE
  /\ UNCHANGED <<venue, fills, calls, all, live, frozen, task, net, lost, odd, killed, swept, up>>

\* RiskEngine, the health monitor or a signal sets kill_event.
Kill ==
  /\ up /\ ~killed
  /\ killed' = TRUE
  /\ UNCHANGED <<venue, fills, calls, all, live, frozen, task, net, lost, odd, swept, dispatching, up>>

\* _monitor_kill calls _cancel_all once.
KillSweep ==
  /\ up /\ killed /\ ~swept
  /\ swept' = TRUE
  /\ SendDeletes("kill", ToCancel, calls)
  /\ UNCHANGED <<venue, fills, all, live, frozen, task, net, lost, odd, killed, dispatching, up>>

\* A cancel of the kill monitor came back; a KeyError is swallowed.
KillSweepReturns(c) ==
  /\ up /\ c \in CallsBy("kill") /\ c.reply # "none"
  /\ \/ /\ c.reply = "ok"
        /\ all' = MarkCancelled(c.id)
        /\ RecordCancel(venue[c.id].side)
        /\ live' = DropLive(venue[c.id].side)
     \/ /\ c.reply = "error"
        /\ UNCHANGED <<all, live, frozen>>
  /\ calls' = calls \ {c}
  /\ UNCHANGED <<venue, fills, task, net, lost, odd, killed, swept, dispatching, up>>

-----------------------------------------------------------------------------
(* The exchange (external).                                                *)

Answer(c, reply) ==
  calls' = (calls \ {c}) \cup (IF c.by = "nobody" THEN {} ELSE {[c EXCEPT !.reply = reply]})

\* Post-only: an order that would trade with a resting one is refused, our own
\* resting orders included.
WouldTrade(id) ==
  \E j \in 1..Len(venue) : /\ Resting(j) /\ venue[j].side # venue[id].side
                           /\ Crossing(venue[id].side, venue[id].price, venue[j].price)

VenueAccepts(c) ==
  /\ c \in calls /\ c.op = "post" /\ c.reply = "none" /\ ~WouldTrade(c.id)
  /\ \/ /\ venue' = [venue EXCEPT ![c.id].at = "resting"]
        /\ Answer(c, "live")
        /\ UNCHANGED <<fills, odd>>
     \/ /\ "delayed" \in Faults
        /\ \E at \in {"resting", "gone"} : venue' = [venue EXCEPT ![c.id].at = at]
        /\ Answer(c, "delayed")
        /\ UNCHANGED <<fills, odd>>
     \/ /\ "matched" \in Faults
        /\ \E qty \in (IF "partial" \in Faults THEN 1 ELSE Lots)..Lots :
             /\ venue' = [venue EXCEPT ![c.id].left = Lots - qty,
                                       ![c.id].at = IF qty < Lots THEN "resting" ELSE "gone"]
             /\ fills' = Append(fills, [id |-> c.id, qty |-> qty])
        /\ Answer(c, "matched")
        /\ Oddly(c.id)
  /\ UNCHANGED <<all, live, frozen, task, net, lost, killed, swept, dispatching, up>>

VenueRejects(c) ==
  /\ c \in calls /\ c.op = "post" /\ c.reply = "none"
  /\ "reject" \in Faults \/ WouldTrade(c.id)
  /\ venue' = [venue EXCEPT ![c.id].at = "gone"]
  /\ Answer(c, "error")
  /\ UNCHANGED <<fills, all, live, frozen, task, net, lost, odd, killed, swept, dispatching, up>>

VenueCancels(c) ==
  /\ c \in calls /\ c.op = "delete" /\ c.reply = "none"
  /\ venue' = [venue EXCEPT ![c.id].at = "gone"]
  /\ \/ Resting(c.id) /\ Answer(c, "ok") /\ UNCHANGED odd
     \/ ~Resting(c.id) /\ Answer(c, "error") /\ UNCHANGED odd
     \/ ~Resting(c.id) /\ "lenient" \in Faults /\ Answer(c, "ok") /\ Oddly(c.id)
  /\ UNCHANGED <<fills, all, live, frozen, task, net, lost, killed, swept, dispatching, up>>

VenueFills(id) ==
  /\ Resting(id)
  /\ \E qty \in (IF "partial" \in Faults THEN 1 ELSE venue[id].left)..venue[id].left :
       /\ venue' = [venue EXCEPT ![id].left = @ - qty,
                                 ![id].at = IF qty < venue[id].left THEN "resting" ELSE "gone"]
       /\ fills' = Append(fills, [id |-> id, qty |-> qty])
       /\ IF qty < Lots THEN Oddly(id) ELSE UNCHANGED odd
  /\ UNCHANGED <<calls, all, live, frozen, task, net, lost, killed, swept, dispatching, up>>

\* The user channel reconnects and never replays what it missed.
FillLost ==
  /\ "lostfill" \in Faults /\ fills # <<>>
  /\ fills' = Tail(fills)
  /\ lost' = Append(lost, Head(fills))
  /\ UNCHANGED <<venue, calls, all, live, frozen, task, net, odd, killed, swept, dispatching, up>>

-----------------------------------------------------------------------------
Init ==
  /\ venue = <<>>
  /\ fills = <<>>
  /\ calls = {}
  /\ all = <<>>
  /\ live = [s \in Sides |-> NoOrder]
  /\ frozen = [s \in Sides |-> FALSE]
  /\ task = Idle
  /\ net = StartNet
  /\ lost = <<>>
  /\ odd = {}
  /\ killed = FALSE
  /\ swept = FALSE
  /\ dispatching = TRUE
  /\ up = TRUE

StrategyReturns == \E c \in calls : \/ PostReturns(c) \/ RepriceReturns(c)
                                    \/ SweepReturns(c) \/ StrategyThrows(c)
KillReturns == \E c \in calls : KillSweepReturns(c)
Timeouts == \E c \in calls : StrategyTimeout(c) \/ KillTimeout(c)
VenueAnswers == \E c \in calls : VenueAccepts(c) \/ VenueRejects(c) \/ VenueCancels(c)

Next ==
  \/ UpdateSweep
  \/ UpdateAtLimit
  \/ \E q \in Quotes : UpdateQuotes(q)
  \/ StrategyReturns
  \/ KillReturns
  \/ Timeouts
  \/ VenueAnswers
  \/ \E s \in Sides : Thaw(s)
  \/ DispatchFill
  \/ DispatchStops
  \/ Kill
  \/ KillSweep
  \/ \E id \in 1..Len(venue) : VenueFills(id)
  \/ FillLost

Spec == Init /\ [][Next]_vars

\* An await always ends: the exchange answers or the client timeout of the
\* call does; a task that is woken runs; the dispatcher and the kill monitor
\* are tasks of the loop.  Nothing says a market update, a fill or a kill comes.
Fairness ==
  /\ WF_vars(StrategyReturns)
  /\ WF_vars(KillReturns)
  /\ WF_vars(VenueAnswers \/ Timeouts)
  /\ WF_vars(KillSweep)
  /\ WF_vars(DispatchFill)

FairSpec == Spec /\ Fairness

-----------------------------------------------------------------------------
(* What should hold.                                                       *)

Statuses == {"PENDING", "OPEN", "PARTIAL_FILL", "FILLED", "CANCELLED"}
Replies == {"none", "live", "delayed", "matched", "ok", "error"}

\* The shapes of the state.
TypeOK ==
  /\ venue \in Seq([side : Sides, price : Int, left : 0..Lots,
                    at : {"sent", "resting", "gone"}])
  /\ {fills, lost} \subseteq Seq([id : Ids, qty : 1..Lots])
  /\ calls \subseteq [by : {"strategy", "kill", "nobody"}, op : {"post", "delete"},
                     id : 1..Len(venue), reply : Replies]
  /\ DOMAIN all \subseteq 1..Len(venue)
  /\ \A id \in DOMAIN all : all[id] \in [status : Statuses, filled : Nat]
  /\ live \in [Sides -> {NoOrder} \cup DOMAIN all]
  /\ frozen \in [Sides -> BOOLEAN]
  /\ task \in {Idle, Sweeping} \cup {Quoting(q, todo) : q \in Quotes, todo \in SUBSET {"SELL"}}
  /\ net \in Int /\ odd \subseteq Sides
  /\ {killed, swept, dispatching, up} \subseteq BOOLEAN

PostInFlight(id) == \E c \in calls : c.op = "post" /\ c.id = id

\* The exchange never holds two orders of ours on one side: a replacement is
\* sent only when the order before it is known to be gone (update_quotes,
\* _update_side), although fills, cancels and the kill monitor interleave and
\* whatever the other side suffers.  A side that fared oddly is excused for good.
OneOrderPerSide ==
  \A i, j \in 1..Len(venue) :
    /\ venue[i].side = venue[j].side /\ venue[i].side \notin odd
    /\ venue[i].at # "gone" /\ venue[j].at # "gone"
    => i = j

\* Whatever rests at the exchange is reached by a _cancel_all that runs now,
\* but for the order whose POST has not come back ("Cancel all live orders
\* for a market", order_manager.py:357) and those of a side that fared oddly.
CancelAllReaches ==
  \A id \in 1..Len(venue) :
    Resting(id) /\ venue[id].side \notin odd => id \in ToCancel \/ PostInFlight(id)

\* The strategy task does not die of the unguarded del in _cancel_order, which
\* finds the key of its order as long as no side fared oddly.
StrategySurvives == ~up => odd # {}

\* The position the limit is tested against is the one the exchange would
\* report, up to the fills on their way and those never delivered: each fill
\* counts once, whether or not the manager knows the order (_apply_fill).
PositionConserved ==
  net + Told(venue, fills) + Told(venue, lost) = StartNet + Traded(venue)

\* The limit is overshot by less than one order on the long side and by less
\* than two on the short one.  update_quotes tests it once, before it awaits
\* anything: a sell that fills while the bid is dealt with is followed by
\* another of the same update.  No more orders are sent on top of an unread fill,
\* unless the bids, or the asks for the short side, fared oddly.
OvershootBounded ==
  /\ "BUY" \notin odd => net < MaxInventory + Lots
  /\ "SELL" \notin odd => -net < MaxInventory + 2 * Lots

\* "Self-trade prevention: don't let our own bid cross our own ask, in either
\* direction" (order_manager.py:99): no order is on its way to the exchange
\* that would trade with one of ours held for OPEN, even when the guard ran
\* before the cancel it follows, unless the other side fared oddly.
NeverSendsCross ==
  \A c \in CallsBy("strategy"), id \in DOMAIN all :
    /\ c.op = "post" /\ c.reply = "none"
    /\ Resting(id) /\ all[id].status = "OPEN"
    /\ venue[id].side # venue[c.id].side /\ venue[id].side \notin odd
    => ~Crossing(venue[c.id].side, venue[c.id].price, venue[id].price)

\* An update of the quotes always ends: no call is awaited for ever.
UpdateEnds == task # Idle ~> task = Idle

\* A kill that finds the strategy between two updates leaves nothing at the
\* exchange (_monitor_kill).
IdleKillCleans ==
  (killed /\ ~swept /\ task = Idle) ~> (\A id \in 1..Len(venue) : ~Resting(id))

-----------------------------------------------------------------------------
(* What the documentation says and the code does not do.                   *)

\* "Always cancel on [...] a kill signal from RiskEngine" (order_manager.py:6):
\* once the cancels of the kill monitor and the calls of the strategy are
\* over, nothing rests.
KillCancelsAll ==
  swept /\ calls = {} /\ task = Idle => \A id \in 1..Len(venue) : ~Resting(id)

=============================================================================
