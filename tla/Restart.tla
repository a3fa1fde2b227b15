------------------------------- MODULE Restart -------------------------------
(***************************************************************************)
(* The process around the Kalshi orders: its end at any moment, and the    *)
(* start of the next one.  _setup (src/main.py) runs StartupReconciler     *)
(* (src/execution/reconciliation.py) to the end before a feed or a         *)
(* strategy task exists: positions are fetched, then resting orders are    *)
(* listed and cancelled one after the other, then the positions are seeded.*)
(* Each of these calls may fail, which is logged and otherwise ignored.    *)
(* Nothing outlives a process but what the exchange holds, requests on     *)
(* their way included.                                                     *)
(***************************************************************************)
EXTENDS KalshiOrders

CONSTANTS
  MaxCrashes,   \* Bound on the ends of a process; not in the code.
  CrashWithin   \* A process ends within this many POSTs, or never; not in the code.

ASSUME CrashBoundsAssumption == {MaxCrashes, CrashWithin} \subseteq Nat

VARIABLES
  setup,    \* Where _setup is; [at |-> "done"] while the process runs.
  crashes,  \* How many processes have ended.
  quiet     \* History: the position was read when no order of ours could trade.

restart == <<setup, crashes, quiet>>
vars == <<venue, fills, calls, manager, process, history, restart>>

Done == [at |-> "done"]
Setup(at, snap, todo) == [at |-> at, snap |-> snap, todo |-> todo]

RestingIds == {id \in 1..Len(venue) : Resting(id)}

-----------------------------------------------------------------------------
(* The end of a process.                                                   *)

\* No order is cancelled on the way.
ProcessEnds ==
  /\ crashes' = crashes + 1
  /\ up' = FALSE
  /\ setup' = [at |-> "off"]
  /\ quiet' = FALSE
  /\ strays' = strays \cup {c.id : c \in {d \in OwnCalls : d.reply = "none" /\ d.op = "post"}}
  /\ calls' = (calls \ OwnCalls) \cup Abandoned(OwnCalls)
  /\ all' = <<>>
  /\ live' = [s \in Sides |-> NoOrder]
  /\ recent' = [s \in Sides |-> 0]
  /\ frozen' = [s \in Sides |-> FALSE]
  /\ tick' = NoTick
  /\ task' = Idle
  /\ fills' = <<>>
  /\ net' = 0
  /\ killed' = FALSE
  /\ dispatching' = FALSE
  /\ late' = 0
  /\ missed' = 0
  /\ UNCHANGED <<venue, mishaps>>

\* The process is killed from outside, or a task throws for a reason that is
\* not modelled.
Crash ==
  /\ "crash" \in Faults /\ crashes < MaxCrashes /\ Len(venue) <= CrashWithin
  /\ ProcessEnds

\* The KeyError of _cancel_order leaves update_quotes and the strategy task:
\* gather of run() re-raises, and _shutdown_all cancels the other tasks and
\* closes the session.
StrategyThrows ==
  /\ \E c \in OwnCalls : KeyMissing(c)
  /\ ProcessEnds

-----------------------------------------------------------------------------
(* _setup.                                                                 *)

Begin ==
  /\ setup.at = "off"
  /\ setup' = [at |-> "fetching"]
  /\ UNCHANGED <<venue, fills, calls, manager, process, history, crashes, quiet>>

CanTrade == RestingIds # {} \/ \E c \in calls : c.op = "post" /\ c.reply = "none"

\* _fetch_kalshi_positions: a failed read is no position at all.
FetchPositions ==
  /\ setup.at = "fetching"
  /\ \/ /\ setup' = Setup("listing", Position, <<>>)
        /\ quiet' = ~CanTrade
        /\ UNCHANGED mishaps
     \/ /\ May("fetchfails")
        /\ setup' = Setup("listing", 0, <<>>)
        /\ quiet' = FALSE
        /\ Mishap
  /\ UNCHANGED <<venue, fills, calls, manager, process, late, strays, missed, crashes>>

\* _cancel_kalshi_open_orders asks for the resting orders; without an answer
\* none is cancelled.
ListOrders ==
  /\ setup.at = "listing"
  /\ \/ /\ setup' = Setup("cancelling", setup.snap, SetToSeq(RestingIds))
        /\ UNCHANGED <<strays, mishaps>>
     \/ /\ May("listfails")
        /\ setup' = Setup("cancelling", setup.snap, <<>>)
        /\ strays' = strays \cup RestingIds
        /\ Mishap
  /\ UNCHANGED <<venue, fills, calls, manager, process, late, missed, crashes, quiet>>

\* A cancel that fails is logged and the loop goes on.
LeftToCancel(todo, ok) == Tail(todo)

\* One DELETE of the loop, and its answer.
CancelOrder ==
  /\ setup.at = "cancelling" /\ setup.todo # <<>>
  /\ LET id == Head(setup.todo)
     IN  \/ /\ venue' = [venue EXCEPT ![id].at = "gone"]
            /\ setup' = [setup EXCEPT !.todo = LeftToCancel(@, Resting(id))]
            /\ UNCHANGED <<strays, mishaps>>
         \/ /\ May("cancelfails")
            /\ Mishap
            /\ strays' = strays \cup {id}
            /\ setup' = [setup EXCEPT !.todo = LeftToCancel(@, FALSE)]
            /\ UNCHANGED venue
  /\ UNCHANGED <<fills, calls, manager, process, late, missed, crashes, quiet>>

\* seed_position with what was fetched first; then run() creates the tasks, the
\* feed that carries own fills among them.
Go ==
  /\ setup.at = "cancelling" /\ setup.todo = <<>>
  /\ net' = setup.snap
  /\ missed' = IF quiet THEN 0 ELSE Position - setup.snap
  /\ up' = TRUE
  /\ dispatching' = TRUE
  /\ setup' = Done
  /\ UNCHANGED <<venue, fills, calls, manager, killed, late, strays, mishaps, crashes, quiet>>

-----------------------------------------------------------------------------
\* The first process starts on an account without orders.
Init ==
  /\ InitVenue
  /\ FreshManager
  /\ fills = <<>>
  /\ net = StartPos
  /\ killed = FALSE
  /\ dispatching = TRUE
  /\ up = TRUE
  /\ late = 0
  /\ missed = 0
  /\ setup = Done
  /\ crashes = 0
  /\ quiet = TRUE

SetupNext == Begin \/ FetchPositions \/ ListOrders \/ CancelOrder \/ Go

Next ==
  \/ OrderNext /\ UNCHANGED restart
  \/ Crash
  \/ StrategyThrows
  \/ SetupNext

Spec == Init /\ [][Next]_vars

-----------------------------------------------------------------------------
(* What should hold.                                                       *)

\* The shapes of the state.
TypeOK ==
  /\ venue \in Seq([side : Sides, price : Int, left : 0..Lots,
                    at : {"sent", "resting", "gone"}])
  /\ fills \in Seq([id : Ids, qty : 1..Lots])
  /\ calls \subseteq [by : {"strategy", "nobody"}, op : {"post", "delete", "tick"},
                      id : 0..Len(venue),
                      reply : {"none", "created", "odd", "ok", "error"}, fill : 0..Lots]
  /\ DOMAIN all \subseteq 1..Len(venue)
  /\ \A id \in DOMAIN all :
       all[id] \in [status : {"PENDING", "OPEN", "PARTIAL_FILL", "FILLED", "CANCELLED"},
                    filled : Nat]
  /\ live \in [Sides -> {NoOrder} \cup DOMAIN all]
  /\ recent \in [Sides -> Nat] /\ frozen \in [Sides -> BOOLEAN]
  /\ tick \in {NoTick, Cent, Step}
  /\ task.mode \in {"idle", "asking", "sweeping", "quoting"}
  /\ {net, missed, late, mishaps} \subseteq Int
  /\ {killed, dispatching, up, quiet} \subseteq BOOLEAN
  /\ strays \subseteq 1..Len(venue)
  /\ setup.at \in {"off", "fetching", "listing", "cancelling", "done"}
  /\ up <=> setup = Done

PostInFlight(id) == \E c \in calls : c.op = "post" /\ c.id = id

\* The manager counts more of the order than it traded: the answer to its POST
\* said so once, and the fill event once more.
CountedTwice(id) == all[id].filled > Lots - venue[id].left
Miscounted(s) == \E id \in DOMAIN all : venue[id].side = s /\ CountedTwice(id)

\* Whatever rests at Kalshi while the process runs is the order its index holds
\* for the side, or one whose POST is being awaited, or one a failed call made
\* the program give up on, or of a side with an order that was counted twice:
\* neither fills and cancels that interleave nor the end of a process and the
\* start of the next leave an order behind otherwise (_cancel_order,
\* mark_filled, reconcile_kalshi).
OrphansExplained ==
  up => \A id \in RestingIds : \/ live[venue[id].side] = id
                               \/ PostInFlight(id)
                               \/ id \in strays
                               \/ Miscounted(venue[id].side)

\* del self._live[key] in _cancel_order drops the order that was cancelled, or
\* finds no order at all on a side with one that was counted twice: only that
\* KeyError ends the process, and never is another order dropped.
CancelFindsItsOrder ==
  \A c \in OwnCalls : c.op = "delete" /\ c.reply = "ok" =>
    LET s == venue[c.id].side
    IN  live[s] = c.id \/ (live[s] = NoOrder /\ Miscounted(s))

\* What a placement answer reports as filled is what the order has traded, and
\* so it stays ("assert filled == 4.0", tests/test_core.py:599).
FilledWasTraded == \A id \in DOMAIN all : ~CountedTwice(id)

\* The position the limit and the hedge go by is the exchange's, up to events
\* unread or lost; a process that read it while nothing could trade starts from
\* the exact position ("flying with a fuel gauge stuck at zero",
\* reconciliation.py:4).
PositionKnown == up => net + Unread + missed = Position

\* After kill_event is set the strategy task sends what the update under way
\* has left to send, one order a side, although nothing in the loop looks at it.
FewPostsAfterKill == late <= 2

\* What the index holds for a side rests at Kalshi, or the answer or the fill
\* event that takes it out is on its way, or was lost: a side whose order is gone
\* for good is never quoted again (_update_side, mark_filled).
GoneExplained ==
  \A s \in Sides : live[s] # NoOrder =>
    \/ Resting(live[s]) \/ live[s] \in strays
    \/ \E c \in OwnCalls : c.op = "delete" /\ c.id = live[s] /\ c.reply = "ok"
    \/ \E i \in 1..Len(fills) : fills[i].id = live[s]

=============================================================================
