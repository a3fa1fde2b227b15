---------------------------- MODULE KalshiOrders ----------------------------
(***************************************************************************)
(* The life of Kalshi orders in one market, as KalshiOrderManager          *)
(* (src/execution/kalshi_order_manager.py) runs it.  It mirrors the        *)
(* Polymarket manager (OrderManager.tla) with differences that matter:     *)
(* whatever order a side has is repriced, in whichever status; the tick is *)
(* asked for before the loop; and the kill monitor never calls it.         *)
(* FlickeringFilter is modelled with its window here, and the quotes come  *)
(* from Quoting.                                                           *)
(*                                                                         *)
(* An action is what a task does between two awaits.  The exchange is      *)
(* external; what it may do wrong is named in Faults.  The start and the   *)
(* end of the process are in Restart.tla.                                  *)
(***************************************************************************)
EXTENDS Integers, Sequences, FiniteSets, SequencesExt, Quoting

CONSTANTS
  Views,         \* The [r, h] pairs pricing comes to: reservation price, half-spread.
  Step,          \* step_dollars of the market's first price range.
  Lots,          \* Size of every order, in the lots fills come in.
  MaxInventory,  \* risk.max_inventory_contracts, in lots.
  Threshold,     \* risk.flickering_cancel_threshold.
  StartPos,      \* What the account holds before the first order.
  MaxOrders,     \* Bound on the POSTs of a behaviour; not in the code.
  MaxMishaps,    \* Bound on the Faults that happen; not in the code.
  Faults         \* What the outside world may do, a subset of AllFaults.

AllFaults == { "reject",    \* a POST is answered with an error
               "partial",   \* an order trades in part
               "matched",   \* an order trades as it is accepted, and its answer says so
               "oddanswer", \* an order is accepted in an answer that cannot be read
               "earlyfill", \* a fill event overtakes the answer to its POST
               "lostfill",  \* a fill event never arrives
               "posttimeout",   \* a POST times out, whatever the exchange did
               "deletetimeout", \* a DELETE times out, likewise
               "ticktimeout",   \* the tick cannot be found out
               "crash",         \* the process dies at any moment
               "fetchfails",    \* at a start the positions cannot be read
               "listfails",     \* at a start the resting orders cannot be listed
               "cancelfails" }  \* at a start an order cannot be cancelled

ASSUME ViewsAssumption ==
  Views # {} /\ \A v \in Views : v.r \in Int /\ v.h \in Nat
ASSUME StepAssumption == Step \in Nat \ {0}
ASSUME KalshiBoundsAssumption ==
  {Lots, MaxInventory, Threshold} \subseteq Nat \ {0} /\ {MaxOrders, MaxMishaps} \subseteq Nat
ASSUME StartPosAssumption == StartPos \in Int
ASSUME KalshiFaultsAssumption == Faults \subseteq AllFaults

VARIABLES
  venue,   \* The exchange: every order ever sent, in the order of the POSTs.
  fills,   \* Own-fill events sent to the running process and not handled yet.
  calls,   \* HTTP calls in flight, those of processes that are gone included.
  all,     \* _all: status and filled_size of the orders the manager knows, by id.
  live,    \* _live: per side an order, or NoOrder.
  recent,  \* FlickeringFilter._cancels: cancels inside the window, per side.
  frozen,  \* FlickeringFilter.is_frozen, per side.
  tick,    \* _tick_cache of the market, or NoTick.
  task,    \* Where the strategy task is inside update_quotes.
  net,     \* InventoryManager.get_net_qty of this market.
  killed,  \* kill_event.is_set().
  dispatching, \* dispatch() of _run_feeds is still in its loop.
  up,      \* The process runs its tasks.
  late,    \* History: POSTs sent since the kill.
  strays,  \* History: orders a failed call or a lost event was about.
  missed,  \* History: the quantity no fill event will ever report.
  mishaps  \* Counts the Faults that happened, for MaxMishaps.

manager == <<all, live, recent, frozen, tick, task>>
process == <<net, killed, dispatching, up>>
history == <<late, strays, missed, mishaps>>

May(fault) == fault \in Faults /\ mishaps < MaxMishaps
Mishap == mishaps' = mishaps + 1

NoOrder == 0
NoTick == 0
Sides == {"BUY", "SELL"}
Ids == 1..MaxOrders

Opposite(s) == IF s = "BUY" THEN "SELL" ELSE "BUY"
Signed(s, qty) == IF s = "BUY" THEN qty ELSE -qty

Idle == [mode |-> "idle"]
Sweeping == [mode |-> "sweeping"]
Asking(v) == [mode |-> "asking", view |-> v]
Quoting(v, todo) == [mode |-> "quoting", view |-> v, todo |-> todo]

\* fill: the fill_count of the answer to a POST.
Call(op, id) == [by |-> "strategy", op |-> op, id |-> id, reply |-> "none", fill |-> 0]
OwnCalls == {c \in calls : c.by = "strategy"}
Resting(id) == venue[id].at = "resting"

\* The position the exchange would report.
Traded(orders) ==
  SumFunction([i \in DOMAIN orders |-> Signed(orders[i].side, Lots - orders[i].left)])
Position == StartPos + Traded(venue)
Unread == SumFunction([i \in DOMAIN fills |-> Signed(venue[fills[i].id].side, fills[i].qty)])

-----------------------------------------------------------------------------
(* What the loop of update_quotes decides.                                 *)

QuotePrice(v, s) == IF s = "BUY" THEN QuotePair(v.r, v.h).bid ELSE QuotePair(v.r, v.h).ask
Crossing(s, p, other) == IF s = "BUY" THEN p >= other ELSE p <= other

\* The STP guard: our own OPEN order on the other side is in the way.
StpBlocks(s, v, al, lv) ==
  LET opp == lv[Opposite(s)]
  IN  /\ opp # NoOrder
      /\ al[opp].status = "OPEN"
      /\ Crossing(s, QuotePrice(v, s), venue[opp].price)

\* A move of less than 30% of the spread is not worth a cancel, unless the
\* spread is none.
WorthRepricing(s, v, lv) ==
  LET move == QuotePrice(v, s) - venue[lv[s]].price
  IN  10 * (IF move < 0 THEN -move ELSE move) >= 3 * 2 * v.h

\* Mutant: as in the Polymarket manager, an order that is not OPEN does not
\* keep the side from being quoted again.
Decision_OpenOnly(s, v, al, lv, fz, young) ==
  CASE StpBlocks(s, v, al, lv) \/ fz[s] -> "skip"
    [] ~StpBlocks(s, v, al, lv) /\ ~fz[s]
       /\ (lv[s] = NoOrder \/ al[lv[s]].status # "OPEN") -> "post"
    [] OTHER -> IF s \notin young /\ WorthRepricing(s, v, lv) THEN "cancel" ELSE "skip"

\* What the loop, and _update_side in it, do for side s; any order of the side
\* is in the way of a new one, whatever its status.
\* young: the sides whose order is younger than MIN_REPRICE_INTERVAL_S.
Decision(s, v, al, lv, fz, young) ==
  CASE StpBlocks(s, v, al, lv) \/ fz[s] -> "skip"
    [] ~StpBlocks(s, v, al, lv) /\ ~fz[s] /\ lv[s] = NoOrder -> "post"
    [] OTHER -> IF s \notin young /\ WorthRepricing(s, v, lv) THEN "cancel" ELSE "skip"

-----------------------------------------------------------------------------
(* Sending.                                                                *)

\* A size that rounds to no contract at all is not sent: that is where the
\* bound on the POSTs is kept.
CanSend == Len(venue) < MaxOrders

\* t: the tick of this update.  cs: the calls in flight besides the new one.
SendPost(s, v, t, cs) ==
  /\ venue' = Append(venue, [side |-> s, price |-> RoundToTick(QuotePrice(v, s), t),
                             left |-> Lots, at |-> "sent"])
  /\ calls' = cs \cup {Call("post", Len(venue) + 1)}
  /\ late' = IF killed THEN late + 1 ELSE late

\* The rest of update_quotes over the sides still to do, BUY before SELL, up to
\* the next await.
Proceed(todo, v, t, al, lv, fz, cs) ==
  \E young \in SUBSET {s \in Sides : lv[s] # NoOrder} :
    LET awaited == IF CanSend THEN {"post", "cancel"} ELSE {"cancel"}
        due == {s \in todo : Decision(s, v, al, lv, fz, young) \in awaited}
        first == IF "BUY" \in due THEN "BUY" ELSE "SELL"
    IN  \/ /\ due = {}
           /\ task' = Idle
           /\ calls' = cs
           /\ UNCHANGED <<venue, late>>
        \/ /\ due # {}
           /\ task' = Quoting(v, {"SELL"} \ {first})
           /\ IF Decision(first, v, al, lv, fz, young) = "post"
              THEN SendPost(first, v, t, cs)
              ELSE /\ calls' = cs \cup {Call("delete", lv[first])}
                   /\ UNCHANGED <<venue, late>>

-----------------------------------------------------------------------------
(* The strategy task.                                                      *)

\* Mutant: the strategy loop looks at kill_event only before it waits for a
\* market update.
CanUpdate_KillUnread == up /\ task = Idle

CanUpdate == up /\ ~killed /\ task = Idle

Sweep(ids) ==
  /\ ids # {}
  /\ calls' = calls \cup {Call("delete", id) : id \in ids}
  /\ task' = Sweeping
  /\ UNCHANGED <<venue, fills, all, live, recent, frozen, tick, process, history>>

ToCancel == {live[s] : s \in {t \in Sides :
               live[t] # NoOrder /\ all[live[t]].status \in {"OPEN", "PENDING"}}}

\* update_quotes when fv.should_quote is false: _cancel_all.
UpdateSweep == CanUpdate /\ Sweep(ToCancel)

AtLimit == net >= MaxInventory \/ -net >= MaxInventory
GrowingSide == IF net > 0 THEN "BUY" ELSE "SELL"

\* update_quotes at the inventory limit: _handle_max_inventory.
UpdateAtLimit == CanUpdate /\ AtLimit /\ Sweep({live[GrowingSide]} \ {NoOrder})

\* update_quotes otherwise: the first one of a process asks for the tick.
UpdateQuotes(v) ==
  /\ CanUpdate /\ ~AtLimit
  /\ \/ /\ tick = NoTick
        /\ task' = Asking(v)
        /\ calls' = calls \cup {Call("tick", NoOrder)}
        /\ UNCHANGED <<venue, late>>
     \/ /\ tick # NoTick
        /\ Proceed(Sides, v, tick, all, live, frozen, calls)
  /\ UNCHANGED <<fills, all, live, recent, frozen, tick, process, strays, missed, mishaps>>

\* _resolve_tick: what it comes to is remembered, the default of a cent after
\* a failure too.  Neither kill_event nor the position is looked at again.
TickReturns(c) ==
  /\ up /\ c \in OwnCalls /\ c.op = "tick"
  /\ \/ tick' = Step /\ UNCHANGED mishaps
     \/ May("ticktimeout") /\ tick' = Cent /\ Mishap
  /\ Proceed(Sides, task.view, tick', all, live, frozen, calls \ {c})
  /\ UNCHANGED <<fills, all, live, recent, frozen, process, strays, missed>>

\* Mutant: the status is filed in the words of the exchange.
PlacedRecord_Raw(reply, fill) == [status |-> "resting", filled |-> fill]

PlacedStatus(reply, fill) ==
  CASE reply = "odd"                                  -> "PENDING"
    [] reply = "created" /\ fill >= Lots              -> "FILLED"
    [] reply = "created" /\ fill \in 1..(Lots - 1)    -> "PARTIAL_FILL"
    [] OTHER                                          -> "OPEN"

\* _resolve_placed_status: what traded already is what the answer counts,
\* whether or not its fill event is still to come.
PlacedRecord(reply, fill) ==
  [status |-> PlacedStatus(reply, fill), filled |-> IF reply = "odd" THEN 0 ELSE fill]

Remember(id, rec) == [i \in DOMAIN all \cup {id} |-> IF i = id THEN rec ELSE all[i]]

\* The POST came back: _place_order files the order, in whichever status, and
\* update_quotes goes on.
PostReturns(c) ==
  /\ up /\ c \in OwnCalls /\ c.op = "post" /\ c.reply # "none"
  /\ LET ok == c.reply \in {"created", "odd"}
         al == IF ok THEN Remember(c.id, PlacedRecord(c.reply, c.fill)) ELSE all
         lv == IF ok THEN [live EXCEPT ![venue[c.id].side] = c.id] ELSE live
     IN  /\ all' = al
         /\ live' = lv
         /\ Proceed(task.todo, task.view, tick, al, lv, frozen, calls \ {c})
  /\ UNCHANGED <<fills, recent, frozen, tick, process, strays, missed, mishaps>>

Trips(n) == n >= Threshold

\* FlickeringFilter.record_cancel for side s.
RecordCancel(s) ==
  /\ recent' = [recent EXCEPT ![s] = @ + 1]
  /\ frozen' = [frozen EXCEPT ![s] = @ \/ Trips(recent[s] + 1)]

MarkCancelled(id) == [all EXCEPT ![id].status = "CANCELLED"]
DropLive(s) == [live EXCEPT ![s] = NoOrder]

\* del self._live[key] in _cancel_order raises a KeyError when the side holds
\* nothing any more: what becomes of the process is in Restart.
KeyMissing(c) == c.op = "delete" /\ c.reply = "ok" /\ live[venue[c.id].side] = NoOrder

\* _cancel_order after a 200 or a 204: the side is dropped, whichever order it
\* holds by now.
CancelDone(c) ==
  /\ ~KeyMissing(c)
  /\ all' = MarkCancelled(c.id)
  /\ RecordCancel(venue[c.id].side)
  /\ live' = DropLive(venue[c.id].side)

\* After a successful cancel inside _update_side the new order is sent in the
\* same breath, a freeze just begun notwithstanding.
RepriceReturns(c) ==
  /\ up /\ c \in OwnCalls /\ c.op = "delete" /\ task.mode = "quoting"
  /\ \/ /\ c.reply = "ok"
        /\ CancelDone(c)
        /\ \/ /\ CanSend
              /\ SendPost(venue[c.id].side, task.view, tick, calls \ {c})
              /\ UNCHANGED task
           \/ /\ ~CanSend
              /\ Proceed(task.todo, task.view, tick, MarkCancelled(c.id),
                         DropLive(venue[c.id].side), frozen', calls \ {c})
     \/ /\ c.reply = "error"
        /\ Proceed(task.todo, task.view, tick, all, live, frozen, calls \ {c})
        /\ UNCHANGED <<all, live, recent, frozen>>
  /\ UNCHANGED <<fills, tick, process, strays, missed, mishaps>>

\* gather ends with the last of its cancels.
AfterSweep(c) == IF OwnCalls = {c} THEN Idle ELSE task

SweepReturns(c) ==
  /\ up /\ c \in OwnCalls /\ c.op = "delete" /\ c.reply # "none" /\ task.mode = "sweeping"
  /\ \/ c.reply = "ok" /\ CancelDone(c)
     \/ c.reply = "error" /\ UNCHANGED <<all, live, recent, frozen>>
  /\ calls' = calls \ {c}
  /\ task' = AfterSweep(c)
  /\ UNCHANGED <<venue, fills, tick, process, history>>

-----------------------------------------------------------------------------
(* Time.                                                                   *)

\* One call at a time is left without a caller by a timeout, a bound not in
\* the code.
MayTimeOut(c) ==
  /\ May(IF c.op = "post" THEN "posttimeout" ELSE "deletetimeout")
  /\ c.op # "tick"
  /\ \A d \in calls : d.by = "strategy"

\* Calls that lose their caller may still be acted on by the exchange.
Abandoned(cs) == {[c EXCEPT !.by = "nobody"] : c \in {d \in cs : d.reply = "none" /\ d.op # "tick"}}

\* The deadline of a call passes and the caller takes the error path.
Timeout(c) ==
  /\ up /\ c \in OwnCalls /\ MayTimeOut(c)
  /\ strays' = strays \cup {c.id}
  /\ Mishap
  /\ LET cs == (calls \ {c}) \cup Abandoned({c})
     IN  \/ /\ task.mode = "quoting"
            /\ Proceed(task.todo, task.view, tick, all, live, frozen, cs)
         \/ /\ task.mode = "sweeping"
            /\ calls' = cs
            /\ task' = AfterSweep(c)
            /\ UNCHANGED <<venue, late>>
  /\ UNCHANGED <<fills, all, live, recent, frozen, tick, process, missed>>

\* flickering_window_ms after a cancel it no longer counts.
WindowPasses(s) ==
  /\ recent[s] > 0
  /\ recent' = [recent EXCEPT ![s] = @ - 1]
  /\ UNCHANGED <<venue, fills, calls, all, live, frozen, tick, task, process, history>>

\* A freeze (toxic_flow_pause_ms) outlasts the window of the cancels that set
\* it off.
Thaw(s) ==
  /\ frozen[s] /\ ~Trips(recent[s])
  /\ frozen' = [frozen EXCEPT ![s] = FALSE]
  /\ UNCHANGED <<venue, fills, calls, all, live, recent, tick, task, process, history>>

-----------------------------------------------------------------------------
(* The event dispatcher and the kill switch.                               *)

Readable(f) ==
  "earlyfill" \in Faults \/ \A c \in OwnCalls : ~(c.op = "post" /\ c.id = f.id)

\* Mutant: an order that is filled keeps its place.
MarkFilled_Stays(id, qty) ==
  LET sum == all[id].filled + qty
  IN  IF id \notin DOMAIN all THEN UNCHANGED <<all, live>>
      ELSE /\ all' = [all EXCEPT ![id].status = IF sum >= Lots THEN "FILLED" ELSE "PARTIAL_FILL",
                                 ![id].filled = sum]
           /\ UNCHANGED live

\* mark_filled: nothing for an order it does not know; a filled order takes
\* its side out of the live index, whichever order is there by now.
MarkFilled(id, qty) ==
  LET sum == all[id].filled + qty
  IN  IF id \notin DOMAIN all THEN UNCHANGED <<all, live>>
      ELSE /\ all' = [all EXCEPT ![id].status = IF sum >= Lots THEN "FILLED" ELSE "PARTIAL_FILL",
                                 ![id].filled = sum]
           /\ live' = IF sum >= Lots THEN DropLive(venue[id].side) ELSE live

\* Mutant: a fill counts for orders the manager knows.
CountFill_KnownOnly(f) ==
  IF f.id \in DOMAIN all THEN net + Signed(venue[f.id].side, f.qty) ELSE net

\* _apply_fill books every fill, whoever knows the order.
CountFill(f) == net + Signed(venue[f.id].side, f.qty)

\* dispatch(), _handle_kalshi_fill and _apply_fill; one more event may be
\* handled after the kill.
DispatchFill ==
  /\ up /\ dispatching /\ fills # <<>> /\ Readable(Head(fills))
  /\ MarkFilled(Head(fills).id, Head(fills).qty)
  /\ net' = CountFill(Head(fills))
  /\ fills' = Tail(fills)
  /\ dispatching' = ~killed
  /\ strays' = strays \cup ({Head(fills).id} \ DOMAIN all)
  /\ UNCHANGED <<venue, calls, recent, frozen, tick, task, killed, up, late, missed, mishaps>>

DispatchStops ==
  /\ up /\ killed /\ dispatching
  /\ dispatching' = FALSE
  /\ UNCHANGED <<venue, fills, calls, manager, net, killed, up, history>>

\* kill_event is set.  _monitor_kill sweeps the Polymarket manager only, which
\* holds no order of a Kalshi market: nothing happens here.
Kill ==
  /\ up /\ ~killed
  /\ killed' = TRUE
  /\ UNCHANGED <<venue, fills, calls, manager, net, dispatching, up, history>>

-----------------------------------------------------------------------------
(* The exchange (external).                                                *)

Answer(c, reply, fill) ==
  calls' = (calls \ {c}) \cup (IF c.by = "nobody" THEN {}
                              ELSE {[c EXCEPT !.reply = reply, !.fill = fill]})

\* post_only, and self_trade_prevention_type: an order that would trade with a
\* resting one is refused, our own included.
WouldTrade(id) ==
  \E j \in 1..Len(venue) : /\ Resting(j) /\ venue[j].side # venue[id].side
                           /\ Crossing(venue[id].side, venue[id].price, venue[j].price)

VenueAccepts(c) ==
  /\ c \in calls /\ c.op = "post" /\ c.reply = "none" /\ ~WouldTrade(c.id)
  /\ venue' = [venue EXCEPT ![c.id].at = "resting"]
  /\ \/ Answer(c, "created", 0) /\ UNCHANGED mishaps
     \/ May("oddanswer") /\ Mishap /\ Answer(c, "odd", 0)
  /\ UNCHANGED <<fills, manager, process, late, strays, missed>>

VenueRejects(c) ==
  /\ c \in calls /\ c.op = "post" /\ c.reply = "none"
  /\ \/ WouldTrade(c.id) /\ UNCHANGED mishaps
     \/ May("reject") /\ Mishap
  /\ venue' = [venue EXCEPT ![c.id].at = "gone"]
  /\ Answer(c, "error", 0)
  /\ UNCHANGED <<fills, manager, process, late, strays, missed>>

VenueCancels(c) ==
  /\ c \in calls /\ c.op = "delete" /\ c.reply = "none"
  /\ venue' = [venue EXCEPT ![c.id].at = "gone"]
  /\ Answer(c, IF Resting(c.id) THEN "ok" ELSE "error", 0)
  /\ UNCHANGED <<fills, manager, process, history>>

\* Whoever is connected is told of a fill.
Trades(id, qty) ==
  /\ venue' = [venue EXCEPT ![id].left = @ - qty,
                            ![id].at = IF qty < venue[id].left THEN "resting" ELSE "gone"]
  /\ fills' = IF up THEN Append(fills, [id |-> id, qty |-> qty]) ELSE fills

\* The order trades with somebody else's as it is accepted: there is a fill
\* event for it like for any other, and the answer has the same fill_count.
VenueMatches(c) ==
  /\ c \in calls /\ c.op = "post" /\ c.reply = "none" /\ ~WouldTrade(c.id)
  /\ May("matched") /\ Mishap
  /\ \E qty \in 1..Lots : Trades(c.id, qty) /\ Answer(c, "created", qty)
  /\ UNCHANGED <<manager, process, late, strays, missed>>

VenueFills(id) ==
  /\ Resting(id)
  /\ \/ Trades(id, venue[id].left) /\ UNCHANGED mishaps
     \/ May("partial") /\ Mishap /\ \E qty \in 1..(venue[id].left - 1) : Trades(id, qty)
  /\ UNCHANGED <<calls, manager, process, late, strays, missed>>

\* The connection breaks and what it would have carried is never sent again.
FillLost ==
  /\ May("lostfill") /\ fills # <<>>
  /\ Mishap
  /\ strays' = strays \cup {Head(fills).id}
  /\ fills' = Tail(fills)
  /\ missed' = missed + Signed(venue[Head(fills).id].side, Head(fills).qty)
  /\ UNCHANGED <<venue, calls, manager, process, late>>

-----------------------------------------------------------------------------
\* What a process that has just started knows of its orders.
FreshManager ==
  /\ all = <<>>
  /\ live = [s \in Sides |-> NoOrder]
  /\ recent = [s \in Sides |-> 0]
  /\ frozen = [s \in Sides |-> FALSE]
  /\ tick = NoTick
  /\ task = Idle

InitVenue ==
  /\ venue = <<>>
  /\ calls = {}
  /\ strays = {}
  /\ mishaps = 0

Returns == \E c \in calls : \/ TickReturns(c) \/ PostReturns(c)
                            \/ RepriceReturns(c) \/ SweepReturns(c)
Timeouts == \E c \in calls : Timeout(c)
VenueAnswers == \E c \in calls : \/ VenueAccepts(c) \/ VenueMatches(c)
                                 \/ VenueRejects(c) \/ VenueCancels(c)

OrderNext ==
  \/ UpdateSweep
  \/ UpdateAtLimit
  \/ \E v \in Views : UpdateQuotes(v)
  \/ Returns
  \/ Timeouts
  \/ VenueAnswers
  \/ \E s \in Sides : WindowPasses(s) \/ Thaw(s)
  \/ DispatchFill
  \/ DispatchStops
  \/ Kill
  \/ \E id \in 1..Len(venue) : VenueFills(id)
  \/ FillLost

=============================================================================
