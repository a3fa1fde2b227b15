---------------------------- MODULE RestartProofs ----------------------------
(***************************************************************************)
(* Two invariants of Restart, proved for every market view, tick, bound and*)
(* fault.  KillInv ties the POSTs sent since a kill to where the strategy  *)
(* task is.  LifeInv ties the index of the manager, the calls and events   *)
(* under way and what the exchange holds to each other, over the end of one*)
(* process and the start of the next; the type invariant and four more     *)
(* invariants of Restart follow from it.                                   *)
(*                                                                         *)
(* The parts of LifeInv are operators of the pieces of the state, so that  *)
(* what a piece of a step does to the orders is a lemma about them, and an *)
(* action of the model cites the lemmas of the pieces it is made of.       *)
(***************************************************************************)
EXTENDS Restart, OperatorProofs

\* Calls are the records Call builds, whatever has been changed in them since.
CallsShaped ==
  \A c \in calls : c = [by |-> c.by, op |-> c.op, id |-> c.id, reply |-> c.reply, fill |-> c.fill]

\* POSTs that may still follow before the update under way is over, once call
\* c is back: the replacement of what c cancels, and the side still to do.
Owed(c) == (IF c.op = "delete" THEN 1 ELSE 0) + (IF task.todo = {} THEN 0 ELSE 1)

\* One call at a time while quoting, and never more than two POSTs an update.
Quoted ==
  task.mode = "quoting" =>
    /\ task.todo \subseteq {"SELL"}
    /\ \A c, d \in OwnCalls : c = d
    /\ \A c \in OwnCalls : c.op \in {"post", "delete"} /\ late + Owed(c) <= 2

\* The inductive invariant behind FewPostsAfterKill: it ties the history
\* variable to where the strategy task is.
KillInv ==
  /\ CallsShaped
  /\ late \in Nat /\ late <= 2
  /\ ~killed => late = 0
  /\ task.mode \in {"idle", "asking", "sweeping", "quoting"}
  /\ task.mode = "idle" => OwnCalls = {}
  /\ task.mode = "asking" =>
       /\ late = 0
       /\ \A c, d \in OwnCalls : c = d
       /\ \A c \in OwnCalls : c.op = "tick"
  /\ task.mode = "sweeping" => \A c \in OwnCalls : c.op = "delete"
  /\ Quoted

-----------------------------------------------------------------------------
\* A task left quoting with one call under way, and room for what may follow it.
LEMMA OneCallKeeps ==
  ASSUME NEW cs, NEW op \in {"post", "delete"}, NEW id, NEW rest,
         \A c \in cs : c.by # "strategy",
         \A c \in cs : c = [by |-> c.by, op |-> c.op, id |-> c.id, reply |-> c.reply, fill |-> c.fill],
         calls' = cs \cup {Call(op, id)},
         task'.mode = "quoting", task'.todo = rest, rest \subseteq {"SELL"},
         late' \in Nat, late' <= 2, ~killed' => late' = 0,
         late' + (IF op = "delete" THEN 1 ELSE 0) + (IF rest = {} THEN 0 ELSE 1) <= 2
  PROVE  KillInv'
<1>1. /\ Call(op, id) = [by |-> "strategy", op |-> op, id |-> id, reply |-> "none", fill |-> 0]
      /\ Call(op, id).by = "strategy" /\ Call(op, id).op = op
      /\ Call(op, id).id = id /\ Call(op, id).reply = "none"
  BY DEF Call
<1>2. OwnCalls' = {Call(op, id)}
  BY <1>1 DEF OwnCalls
<1>3. CallsShaped'
  BY <1>1 DEF CallsShaped
<1>4. Owed(Call(op, id))' = (IF op = "delete" THEN 1 ELSE 0) + (IF rest = {} THEN 0 ELSE 1)
  BY <1>1 DEF Owed
<1>5. late' + Owed(Call(op, id))' <= 2
  BY <1>4
<1> HIDE DEF Call
<1>6. Quoted'
  <2>1. ASSUME NEW c \in OwnCalls' PROVE c.op \in {"post", "delete"} /\ late' + Owed(c)' <= 2
    BY <1>1, <1>2, <1>5, <2>1
  <2> QED
    BY <1>2, <2>1 DEF Quoted
<1> QED
  BY <1>3, <1>6 DEF KillInv

\* Proceed leaves the task idle with nothing under way, or quoting with one
\* more call, and what may follow that call stays within the two POSTs.
LEMMA ProceedKeeps ==
  ASSUME NEW todo, NEW v, NEW t, NEW al, NEW lv, NEW fz, NEW cs,
         todo \subseteq Sides,
         \A c \in cs : c.by # "strategy",
         \A c \in cs : c = [by |-> c.by, op |-> c.op, id |-> c.id, reply |-> c.reply, fill |-> c.fill],
         late \in Nat, ~killed => late = 0, late <= 2,
         todo \subseteq {"SELL"} \/ late = 0,
         todo = {} \/ late <= 1,
         Proceed(todo, v, t, al, lv, fz, cs),
         killed' = killed
  PROVE  KillInv'
<1>1. PICK young \in SUBSET {s \in Sides : lv[s] # NoOrder} :
        LET awaited == IF CanSend THEN {"post", "cancel"} ELSE {"cancel"}
            due == {s \in todo : Decision(s, v, al, lv, fz, young) \in awaited}
            first == IF "BUY" \in due THEN "BUY" ELSE "SELL"
        IN  \/ /\ due = {}
               /\ task' = Idle
               /\ calls' = cs
               /\ UNCHANGED <<venue, late>>
            \/ /\ due # {}
               /\ task' = Quoting(v, {"SELL"} \ {first})
               /\ IF Decision(first, v, al, lv, fz, young) = "post"
                  THEN SendPost(first, v, t, cs)
                  ELSE /\ calls' = cs \cup {Call("delete", lv[first])}
                       /\ UNCHANGED <<venue, late>>
  BY DEF Proceed
<1> DEFINE due == {s \in todo : Decision(s, v, al, lv, fz, young) \in
                                 (IF CanSend THEN {"post", "cancel"} ELSE {"cancel"})}
           first == IF "BUY" \in due THEN "BUY" ELSE "SELL"
<1>2. CASE due = {}
  <2>1. task' = Idle /\ calls' = cs /\ late' = late
    BY <1>1, <1>2
  <2> QED
    BY <2>1 DEF KillInv, CallsShaped, Quoted, OwnCalls, Idle
<1>3. CASE due # {}
  <2>1. first \in todo
    BY <1>3 DEF Sides
  <2> DEFINE rest == {"SELL"} \ {first}
  <2>2. /\ task' = Quoting(v, rest)
        /\ \/ SendPost(first, v, t, cs)
           \/ calls' = cs \cup {Call("delete", lv[first])} /\ UNCHANGED <<venue, late>>
    BY <1>1, <1>3
  <2>3. /\ task'.mode = "quoting" /\ task'.todo = rest
        /\ rest \subseteq {"SELL"}
        /\ first = "SELL" => rest = {}
        /\ first = "BUY" => late = 0
        /\ late <= 1
    <3> HIDE DEF due
    <3> QED
      BY <2>1, <2>2 DEF Quoting, Sides
  <2> HIDE DEF first, rest
  <2>4. first \in Sides
    BY <2>1
  <2>5. CASE SendPost(first, v, t, cs)
    <3>1. /\ calls' = cs \cup {Call("post", Len(venue) + 1)}
          /\ late' = IF killed THEN late + 1 ELSE late
      BY <2>5 DEF SendPost
    <3>2. late' \in Nat /\ (~killed => late' = 0) /\ late' <= late + 1
      BY <3>1
    <3>3. late' <= 2 /\ late' + 0 + (IF rest = {} THEN 0 ELSE 1) <= 2
      BY <2>3, <2>4, <3>2 DEF Sides
    <3> QED
      BY <2>3, <3>1, <3>2, <3>3, OneCallKeeps
  <2>6. CASE calls' = cs \cup {Call("delete", lv[first])} /\ UNCHANGED <<venue, late>>
    <3>1. late' + 1 + (IF rest = {} THEN 0 ELSE 1) <= 2
      BY <2>3, <2>4, <2>6 DEF Sides
    <3> QED
      BY <2>3, <2>6, <3>1, OneCallKeeps
  <2> QED
    BY <2>2, <2>5, <2>6
<1> QED
  BY <1>2, <1>3

\* A step that leaves calls, task and the count alone and takes no kill back.
LEMMA StutterKeeps ==
  KillInv /\ UNCHANGED <<calls, task, late>> /\ (killed => killed') => KillInv'
BY DEF KillInv, CallsShaped, Quoted, Owed, OwnCalls

\* An answer changes a call's reply, or ends a call nobody waits for.
LEMMA AnswerKeeps ==
  ASSUME KillInv, NEW c \in calls, NEW reply, NEW fill, Answer(c, reply, fill),
         UNCHANGED <<task, late, killed>>
  PROVE  KillInv'
<1> DEFINE e == [c EXCEPT !.reply = reply, !.fill = fill]
<1>1. /\ e = [by |-> e.by, op |-> e.op, id |-> e.id, reply |-> e.reply, fill |-> e.fill]
      /\ e.by = c.by /\ e.op = c.op
  <2>1. c = [by |-> c.by, op |-> c.op, id |-> c.id, reply |-> c.reply, fill |-> c.fill]
    BY DEF KillInv, CallsShaped
  <2>2. e = [by |-> c.by, op |-> c.op, id |-> c.id, reply |-> reply, fill |-> fill]
    <3> DEFINE m == [c EXCEPT !.reply = reply]
    <3>1. m = [by |-> c.by, op |-> c.op, id |-> c.id, reply |-> reply, fill |-> c.fill]
      BY <2>1
    <3>2. e = [m EXCEPT !.fill = fill]
      BY Zenon
    <3> HIDE DEF m, e
    <3> QED BY <3>1, <3>2
  <2> HIDE DEF e
  <2> QED BY <2>2
<1>2. calls' = (calls \ {c}) \cup (IF c.by = "nobody" THEN {} ELSE {e})
  BY DEF Answer
<1> HIDE DEF e
<1>3. CallsShaped'
  BY <1>1, <1>2 DEF KillInv, CallsShaped
<1>4. OwnCalls' = IF c \in OwnCalls THEN (OwnCalls \ {c}) \cup {e} ELSE OwnCalls
  BY <1>1, <1>2 DEF OwnCalls
<1>5. \A d \in OwnCalls' : \E o \in OwnCalls :
         d.op = o.op /\ Owed(d)' = Owed(o) /\ (d = o \/ (d = e /\ o = c))
  BY <1>1, <1>4 DEF Owed
<1>6. (\A d, o \in OwnCalls : d = o) => (\A d, o \in OwnCalls' : d = o)
  BY <1>4
<1>7. OwnCalls = {} => OwnCalls' = {}
  BY <1>4
<1>8. Quoted'
  BY <1>5, <1>6 DEF KillInv, Quoted
<1> QED
  BY <1>3, <1>5, <1>6, <1>7, <1>8 DEF KillInv

\* A sweep starts with nothing under way and sends nothing but cancels.
LEMMA SweepKeeps ==
  ASSUME KillInv, task = Idle, NEW ids, Sweep(ids)
  PROVE  KillInv'
<1>1. /\ calls' = calls \cup {Call("delete", id) : id \in ids}
      /\ task' = Sweeping /\ late' = late /\ killed' = killed
  BY DEF Sweep, process, history
<1>2. OwnCalls = {}
  BY DEF KillInv, Idle
<1>3. \A c \in calls' \ calls : /\ c.op = "delete"
                              /\ c = [by |-> c.by, op |-> c.op, id |-> c.id, reply |-> c.reply, fill |-> c.fill]
  BY <1>1 DEF Call
<1>4. \A c \in OwnCalls' : c.op = "delete"
  BY <1>2, <1>3 DEF OwnCalls
<1> QED
  BY <1>1, <1>3, <1>4 DEF KillInv, CallsShaped, Quoted, Sweeping

\* Calls that lose their caller are nobody's from then on.
LEMMA AbandonedIsNobodys ==
  ASSUME CallsShaped, NEW cs, cs \subseteq calls
  PROVE  \A d \in Abandoned(cs) :
           /\ d.by = "nobody"
           /\ d = [by |-> d.by, op |-> d.op, id |-> d.id, reply |-> d.reply, fill |-> d.fill]
<1> SUFFICES ASSUME NEW c \in cs
             PROVE  LET d == [c EXCEPT !.by = "nobody"]
                    IN  /\ d.by = "nobody"
                        /\ d = [by |-> d.by, op |-> d.op, id |-> d.id, reply |-> d.reply, fill |-> d.fill]
  BY DEF Abandoned
<1>1. c = [by |-> c.by, op |-> c.op, id |-> c.id, reply |-> c.reply, fill |-> c.fill]
  BY DEF CallsShaped
<1> QED
  BY <1>1

\* The end of a process ends the update with it.
LEMMA EndKeeps == KillInv /\ ProcessEnds => KillInv'
<1> SUFFICES ASSUME KillInv, ProcessEnds PROVE KillInv'
  OBVIOUS
<1>1. /\ calls' = (calls \ OwnCalls) \cup Abandoned(OwnCalls)
      /\ task' = Idle /\ late' = 0
  BY DEF ProcessEnds
<1>2. \A d \in Abandoned(OwnCalls) :
        /\ d.by = "nobody"
        /\ d = [by |-> d.by, op |-> d.op, id |-> d.id, reply |-> d.reply, fill |-> d.fill]
  BY AbandonedIsNobodys DEF KillInv, OwnCalls
<1>3. OwnCalls' = {}
  BY <1>1, <1>2 DEF OwnCalls
<1>4. CallsShaped'
  BY <1>1, <1>2 DEF KillInv, CallsShaped
<1> QED
  BY <1>1, <1>3, <1>4 DEF KillInv, Quoted, Idle

\* Without the call that came back, nothing is under way but orphaned calls.
LEMMA OthersAreNobodys ==
  ASSUME KillInv, NEW c \in OwnCalls, task.mode \in {"asking", "quoting"}
  PROVE  \A d \in calls \ {c} :
           /\ d.by # "strategy"
           /\ d = [by |-> d.by, op |-> d.op, id |-> d.id, reply |-> d.reply, fill |-> d.fill]
<1>1. \A d \in OwnCalls : d = c
  BY DEF KillInv, Quoted
<1> QED
  BY <1>1 DEF KillInv, CallsShaped, OwnCalls

\* A call that came back while quoting has left room for the side still to do.
LEMMA RoomLeft ==
  ASSUME KillInv, NEW c \in OwnCalls, task.mode = "quoting"
  PROVE  /\ task.todo \subseteq {"SELL"} /\ task.todo \subseteq Sides
         /\ late \in Nat /\ late <= 2 /\ (~killed => late = 0)
         /\ task.todo = {} \/ late <= 1
         /\ c.op = "delete" => late + 1 + (IF task.todo = {} THEN 0 ELSE 1) <= 2
<1>1. /\ task.todo \subseteq {"SELL"} /\ late + Owed(c) <= 2
      /\ late \in Nat /\ late <= 2 /\ (~killed => late = 0)
  BY DEF KillInv, Quoted
<1>2. task.todo = {} \/ late <= 1
  BY <1>1 DEF Owed
<1>3. c.op = "delete" => late + 1 + (IF task.todo = {} THEN 0 ELSE 1) <= 2
  BY <1>1 DEF Owed
<1> QED
  BY <1>1, <1>2, <1>3 DEF Sides

\* Every action of the strategy task keeps KillInv.
LEMMA StrategyKeeps ==
  ASSUME KillInv,
         \/ UpdateSweep \/ UpdateAtLimit \/ (\E v \in Views : UpdateQuotes(v))
         \/ Returns \/ Timeouts
  PROVE  KillInv'
<1>1. CASE UpdateSweep
  BY <1>1, SweepKeeps DEF UpdateSweep, CanUpdate
<1>2. CASE UpdateAtLimit
  BY <1>2, SweepKeeps DEF UpdateAtLimit, CanUpdate
<1>3. ASSUME NEW v \in Views, UpdateQuotes(v) PROVE KillInv'
  <2>1. task = Idle /\ ~killed /\ killed' = killed
    BY <1>3 DEF UpdateQuotes, CanUpdate, process
  <2>2. OwnCalls = {} /\ late = 0
    BY <2>1 DEF KillInv, Idle
  <2>3. CASE Proceed(Sides, v, tick, all, live, frozen, calls)
    <3>1. \A c \in calls : /\ c.by # "strategy"
                           /\ c = [by |-> c.by, op |-> c.op, id |-> c.id, reply |-> c.reply, fill |-> c.fill]
      BY <2>2 DEF OwnCalls, KillInv, CallsShaped
    <3> QED
      BY <2>1, <2>2, <2>3, <3>1, ProceedKeeps
  <2>4. CASE task' = Asking(v) /\ calls' = calls \cup {Call("tick", NoOrder)} /\ late' = late
    <3>1. OwnCalls' = {Call("tick", NoOrder)}
      BY <2>2, <2>4 DEF OwnCalls, Call
    <3>2. CallsShaped'
      BY <2>4 DEF KillInv, CallsShaped, Call
    <3> QED
      BY <2>1, <2>2, <2>4, <3>1, <3>2 DEF KillInv, Quoted, Asking, Call
  <2> QED
    BY <1>3, <2>3, <2>4 DEF UpdateQuotes
<1>4. ASSUME NEW c \in calls, TickReturns(c) PROVE KillInv'
  <2>1. /\ c \in OwnCalls /\ c.op = "tick"
        /\ killed' = killed
        /\ Proceed(Sides, task.view, tick', all, live, frozen, calls \ {c})
    BY <1>4 DEF TickReturns, process
  <2>2. task.mode = "asking" /\ late = 0
    BY <2>1 DEF KillInv, Quoted
  <2> QED
    BY <2>1, <2>2, OthersAreNobodys, ProceedKeeps
<1>5. ASSUME NEW c \in calls, PostReturns(c) PROVE KillInv'
  <2>1. /\ c \in OwnCalls /\ c.op = "post"
        /\ killed' = killed
        /\ \E al, lv : Proceed(task.todo, task.view, tick, al, lv, frozen, calls \ {c})
    BY <1>5 DEF PostReturns, process
  <2>2. task.mode = "quoting"
    BY <2>1 DEF KillInv
  <2> QED
    BY <2>1, <2>2, OthersAreNobodys, RoomLeft, ProceedKeeps
<1>6. ASSUME NEW c \in calls, RepriceReturns(c) PROVE KillInv'
  <2>1. /\ c \in OwnCalls /\ c.op = "delete" /\ task.mode = "quoting"
        /\ killed' = killed
        /\ \/ /\ SendPost(venue[c.id].side, task.view, tick, calls \ {c})
              /\ UNCHANGED task
           \/ \E al, lv, fz : Proceed(task.todo, task.view, tick, al, lv, fz, calls \ {c})
    BY <1>6 DEF RepriceReturns, process
  <2>2. CASE /\ SendPost(venue[c.id].side, task.view, tick, calls \ {c})
             /\ UNCHANGED task
    <3>1. /\ calls' = (calls \ {c}) \cup {Call("post", Len(venue) + 1)}
          /\ late' = IF killed THEN late + 1 ELSE late
      BY <2>2 DEF SendPost
    <3>2. /\ late' \in Nat /\ late' <= 2 /\ (~killed => late' = 0)
          /\ late' + 0 + (IF task.todo = {} THEN 0 ELSE 1) <= 2
      BY <2>1, <3>1, RoomLeft
    <3>3. task'.mode = "quoting" /\ task'.todo = task.todo /\ task.todo \subseteq {"SELL"}
      BY <2>1, <2>2, RoomLeft
    <3> QED
      BY <2>1, <3>1, <3>2, <3>3, OthersAreNobodys, OneCallKeeps
  <2>3. CASE \E al, lv, fz : Proceed(task.todo, task.view, tick, al, lv, fz, calls \ {c})
    BY <2>1, <2>3, OthersAreNobodys, RoomLeft, ProceedKeeps
  <2> QED
    BY <2>1, <2>2, <2>3
<1>7. ASSUME NEW c \in calls, SweepReturns(c) PROVE KillInv'
  <2>1. /\ c \in OwnCalls /\ task.mode = "sweeping"
        /\ calls' = calls \ {c} /\ task' = (IF OwnCalls = {c} THEN Idle ELSE task)
        /\ late' = late /\ killed' = killed
    BY <1>7 DEF SweepReturns, AfterSweep, process, history
  <2>2. OwnCalls' = OwnCalls \ {c}
    BY <2>1 DEF OwnCalls
  <2>3. CallsShaped'
    BY <2>1 DEF KillInv, CallsShaped
  <2> QED
    BY <2>1, <2>2, <2>3 DEF KillInv, Quoted, Idle
<1>8. ASSUME NEW c \in calls, Timeout(c) PROVE KillInv'
  <2> DEFINE cs == (calls \ {c}) \cup Abandoned({c})
  <2>1. /\ c \in OwnCalls /\ killed' = killed
        /\ \/ /\ task.mode = "quoting"
              /\ Proceed(task.todo, task.view, tick, all, live, frozen, cs)
           \/ /\ task.mode = "sweeping" /\ calls' = cs /\ late' = late
              /\ task' = IF OwnCalls = {c} THEN Idle ELSE task
    BY <1>8 DEF Timeout, AfterSweep, process
  <2>2. \A d \in Abandoned({c}) :
          /\ d.by = "nobody"
          /\ d = [by |-> d.by, op |-> d.op, id |-> d.id, reply |-> d.reply, fill |-> d.fill]
    BY AbandonedIsNobodys DEF KillInv
  <2>3. CASE task.mode = "quoting"
    <3>1. \A d \in cs : /\ d.by # "strategy"
                       /\ d = [by |-> d.by, op |-> d.op, id |-> d.id, reply |-> d.reply, fill |-> d.fill]
      BY <2>1, <2>2, <2>3, OthersAreNobodys
    <3> HIDE DEF cs
    <3> QED
      BY <2>1, <2>3, <3>1, RoomLeft, ProceedKeeps
  <2>4. CASE /\ task.mode = "sweeping" /\ calls' = cs /\ late' = late
             /\ task' = IF OwnCalls = {c} THEN Idle ELSE task
    <3>1. OwnCalls' = OwnCalls \ {c}
      BY <2>1, <2>2, <2>4 DEF OwnCalls
    <3>2. CallsShaped'
      BY <2>2, <2>4 DEF KillInv, CallsShaped
    <3> QED
      BY <2>1, <2>4, <3>1, <3>2 DEF KillInv, Quoted, Idle
  <2> QED
    BY <2>1, <2>3, <2>4
<1> QED
  BY <1>1, <1>2, <1>3, <1>4, <1>5, <1>6, <1>7, <1>8 DEF Returns, Timeouts

\* So does everything the other tasks and the exchange do.
LEMMA OthersKeep ==
  ASSUME KillInv,
         \/ VenueAnswers \/ (\E s \in Sides : WindowPasses(s) \/ Thaw(s))
         \/ DispatchFill \/ DispatchStops \/ Kill
         \/ (\E id \in 1..Len(venue) : VenueFills(id)) \/ FillLost
  PROVE  KillInv'
<1>1. ASSUME NEW c \in calls,
             VenueAccepts(c) \/ VenueMatches(c) \/ VenueRejects(c) \/ VenueCancels(c)
      PROVE  KillInv'
  <2>1. /\ \E reply, fill : Answer(c, reply, fill)
        /\ task' = task /\ late' = late /\ killed' = killed
    BY <1>1 DEF VenueAccepts, VenueMatches, VenueRejects, VenueCancels, manager, process, history
  <2> QED
    BY <2>1, AnswerKeeps
<1>2. CASE \E s \in Sides : WindowPasses(s) \/ Thaw(s)
  BY <1>2, StutterKeeps DEF WindowPasses, Thaw, process, history
<1>3. CASE DispatchFill \/ DispatchStops \/ Kill
  BY <1>3, StutterKeeps DEF DispatchFill, DispatchStops, Kill, manager, history
<1>4. CASE (\E id \in 1..Len(venue) : VenueFills(id)) \/ FillLost
  BY <1>4, StutterKeeps DEF VenueFills, FillLost, manager, process
<1> QED
  BY <1>1, <1>2, <1>3, <1>4 DEF VenueAnswers

\* And everything _setup does.
LEMMA SetupKeeps == KillInv /\ SetupNext => KillInv'
<1>1. ASSUME SetupNext PROVE UNCHANGED <<calls, task, late, killed>>
  <2>1. CASE Begin
    BY <2>1 DEF Begin, manager, process, history
  <2>2. CASE FetchPositions
    BY <2>2 DEF FetchPositions, manager, process
  <2>3. CASE ListOrders
    BY <2>3 DEF ListOrders, manager, process
  <2>4. CASE CancelOrder
    BY <2>4 DEF CancelOrder, manager, process
  <2>5. CASE Go
    BY <2>5 DEF Go, manager
  <2> QED
    BY <1>1, <2>1, <2>2, <2>3, <2>4, <2>5 DEF SetupNext
<1> QED
  BY <1>1, StutterKeeps

\* No call has been sent when the first process starts.
LEMMA KillInit == Init => KillInv
BY DEF Init, InitVenue, FreshManager, KillInv, CallsShaped, Quoted, OwnCalls, Idle

\* Every step keeps the invariant behind FewPostsAfterKill.
LEMMA KillStep == KillInv /\ [Next]_vars => KillInv'
<1> SUFFICES ASSUME KillInv, [Next]_vars PROVE KillInv'
  OBVIOUS
<1>1. CASE OrderNext
  BY <1>1, StrategyKeeps, OthersKeep DEF OrderNext
<1>2. CASE Crash \/ StrategyThrows
  BY <1>2, EndKeeps DEF Crash, StrategyThrows
<1>3. CASE SetupNext
  BY <1>3, SetupKeeps
<1>4. CASE UNCHANGED vars
  BY <1>4, StutterKeeps DEF vars, manager, process, history
<1> QED BY <1>1, <1>2, <1>3, <1>4 DEF Next

\* After kill_event is set the update under way sends at most two more POSTs
\* (update_quotes, _update_side): in every market view and tick, whatever the
\* exchange answers, whatever is lost and however often the process restarts.
THEOREM KillEndsQuoting == Spec => []FewPostsAfterKill
<1>1. KillInv => FewPostsAfterKill
  BY DEF KillInv, FewPostsAfterKill
<1> QED BY <1>1, KillInit, KillStep, PTL DEF Spec

-----------------------------------------------------------------------------
(* The invariant of the orders.                                            *)

\* What the events fi still say of order id.
Events == [id : Ids, qty : 1..Lots]
Share(id) == [e \in Events |-> IF e.id = id THEN e.qty ELSE 0]
Pend(fi, id) == Weigh(fi, Share(id))
Filled(al, id) == IF id \in DOMAIN al THEN al[id].filled ELSE 0

Orders == [side : Sides, price : Int, left : 0..Lots, at : {"sent", "resting", "gone"}]
Records == [status : {"PENDING", "OPEN", "PARTIAL_FILL", "FILLED", "CANCELLED"}, filled : Nat]
Requests == {c \in [by : {"strategy", "nobody"}, op : {"post", "delete", "tick"}, id : 0..MaxOrders,
                    reply : {"none", "created", "odd", "ok", "error"}, fill : 0..Lots] :
               c.reply # "created" => c.fill = 0}

Shapes(ve, fi, cs, al, lv, st) ==
  /\ ve \in Seq(Orders) /\ Len(ve) <= MaxOrders
  /\ \A i \in 1..Len(ve) : /\ ve[i].at = "sent" => ve[i].left = Lots
                           /\ ve[i].at = "resting" => ve[i].left > 0
  /\ fi \in Seq(Events) /\ \A i \in 1..Len(fi) : fi[i].id <= Len(ve)
  /\ cs \subseteq Requests /\ \A c \in cs : c.id <= Len(ve)
  /\ al \in [DOMAIN al -> Records] /\ DOMAIN al \subseteq 1..Len(ve)
  /\ lv \in [Sides -> 0..MaxOrders]
  /\ \A s \in Sides : lv[s] # NoOrder => lv[s] \in DOMAIN al /\ ve[lv[s]].side = s
  /\ st \subseteq 1..Len(ve)

\* A POST under way is the only request about its order, which the index does
\* not know yet; nobody waits for it only after a call was given up.  What its
\* answer says was filled has been traded.
Post(c, ve, cs, al, lv, st) ==
  /\ c.id # NoOrder /\ c.id \notin DOMAIN al
  /\ c.reply \in {"none", "created", "odd", "error"}
  /\ c.reply = "none" => ve[c.id].at = "sent"
  /\ c.reply \in {"created", "odd"} => ve[c.id].at # "sent" /\ c.fill + ve[c.id].left <= Lots
  /\ c.reply = "error" => ve[c.id].at = "gone"
  /\ \A d \in cs : d.id = c.id => d = c
  /\ c.by = "nobody" => c.id \in st /\ c.reply = "none"
  /\ c.by = "strategy" =>
       /\ lv[ve[c.id].side] = NoOrder
       /\ c.reply \in {"created", "odd"} =>
            ve[c.id].at = "resting" \/ c.id \in st \/ ve[c.id].left = 0
Posts(ve, cs, al, lv, st) == \A c \in cs : c.op = "post" => Post(c, ve, cs, al, lv, st)

\* An order that is counted for the second time takes its side out of the index
\* for another order.
Overcounted(s, ve, al) ==
  \E j \in DOMAIN al : /\ ve[j].side = s /\ al[j].filled >= Lots
                       /\ al[j].filled > Lots \/ (ve[j].at = "gone" /\ ve[j].left > 0)
Excused(id, ve, al) ==
  (id \in DOMAIN al /\ al[id].filled >= Lots) \/ Overcounted(ve[id].side, ve, al)

\* A DELETE is about an order that was answered for; the side of one that is
\* awaited holds that order or none, and none only with an excuse once it went
\* well.
Delete(c, ve, al, lv, st) ==
  /\ c.id # NoOrder /\ ve[c.id].at # "sent"
  /\ c.reply \in {"none", "ok", "error"}
  /\ c.by = "nobody" => c.id \in st \/ c.id \notin DOMAIN al
  /\ c.by = "strategy" =>
       /\ c.id \in DOMAIN al /\ lv[ve[c.id].side] \in {c.id, NoOrder}
       /\ c.reply = "ok" => /\ ve[c.id].at = "gone" /\ ve[c.id].left > 0
                            /\ lv[ve[c.id].side] = c.id \/ Excused(c.id, ve, al)
Deletes(ve, cs, al, lv, st) == \A c \in cs : c.op = "delete" => Delete(c, ve, al, lv, st)

\* What the index knows is in its place, was cancelled, or was taken out by what
\* has been counted.
Known(ve, al, lv) ==
  \A id \in DOMAIN al :
    /\ ve[id].at # "sent"
    /\ \/ lv[ve[id].side] = id
       \/ ve[id].at = "gone" /\ ve[id].left > 0
       \/ Excused(id, ve, al)

\* What an order traded was counted, once or twice, or is in an event, or was
\* lost with one.
Tracked(id, cs, al) ==
  id \in DOMAIN al \/ \E c \in cs : c.by = "strategy" /\ c.op = "post" /\ c.id = id
Account(id, ve, fi, al) == Filled(al, id) + Pend(fi, id) + ve[id].left
Filling(ve, fi, cs, al, st) ==
  \A id \in 1..Len(ve) :
    Tracked(id, cs, al) /\ id \notin st => Account(id, ve, fi, al) >= Lots

\* What a side holds is not filled yet, or an event is still to say so, and it
\* rests, or is about to be dropped.
Held(ve, fi, cs, al, lv, st) ==
  \A s \in Sides : lv[s] # NoOrder =>
    /\ al[lv[s]].filled < Lots \/ Pend(fi, lv[s]) > 0 \/ lv[s] \in st
    /\ \/ ve[lv[s]].at = "resting" \/ lv[s] \in st \/ ve[lv[s]].left = 0
       \/ \E c \in cs : c.by = "strategy" /\ c.op = "delete" /\ c.id = lv[s] /\ c.reply = "ok"

OrdersInv(ve, fi, cs, al, lv, st) ==
  /\ Shapes(ve, fi, cs, al, lv, st)
  /\ Posts(ve, cs, al, lv, st)
  /\ Deletes(ve, cs, al, lv, st)
  /\ Known(ve, al, lv)
  /\ Filling(ve, fi, cs, al, st)
  /\ Held(ve, fi, cs, al, lv, st)

Explained(ve, cs, al, lv, st) ==
  \A id \in 1..Len(ve) : ve[id].at = "resting" =>
    \/ lv[ve[id].side] = id
    \/ \E c \in cs : c.op = "post" /\ c.id = id
    \/ id \in st
    \/ Excused(id, ve, al)

Readings == [at : {"listing", "cancelling"}, snap : Int, todo : Seq(Nat)]

\* Where _setup is, what it has read is still true and what it has left to
\* cancel is what rests.
SetupInv ==
  /\ setup.at \in {"off", "fetching", "listing", "cancelling", "done"}
  /\ setup.at \in {"listing", "cancelling"} =>
       setup \in Readings /\ setup.snap \in Int
  /\ setup.at = "cancelling" =>
       /\ setup.todo \in Seq(1..Len(venue))
       /\ RestingIds \subseteq {setup.todo[i] : i \in DOMAIN setup.todo} \cup strays
       /\ \A i \in DOMAIN setup.todo : venue[setup.todo[i]].at # "sent"
  /\ up <=> setup = Done
  /\ setup.at = "done" => setup = Done
  /\ setup.at \in {"listing", "cancelling"} /\ quiet => ~CanTrade /\ setup.snap = Position

LocalTypes ==
  /\ recent \in [Sides -> Nat] /\ frozen \in [Sides -> BOOLEAN]
  /\ tick \in {NoTick, Cent, Step}
  /\ task.mode \in {"asking", "quoting"} => task.view \in Views
  /\ {net, missed, mishaps} \subseteq Int
  /\ {killed, dispatching, up, quiet} \subseteq BOOLEAN

\* The inductive invariant behind the others: the orders, the start of a
\* process, and what holds only while one runs, or only while none does.
LifeInv ==
  /\ OrdersInv(venue, fills, calls, all, live, strays)
  /\ LocalTypes
  /\ SetupInv
  /\ ~up => all = <<>> /\ OwnCalls = {} /\ fills = <<>>
  /\ up => Explained(venue, calls, all, live, strays)
  /\ up => net + Unread + missed = Position

-----------------------------------------------------------------------------
(* Small things: prices, moves, calls, and what events say.               *)

\* The price an order is sent with is a whole number of the price unit.
LEMMA PriceIsWhole ==
  ASSUME NEW v \in Views, NEW s \in Sides, NEW t \in {NoTick, Cent, Step}
  PROVE  RoundToTick(QuotePrice(v, s), t) \in Int
<1> DEFINE p == QuotePrice(v, s)
<1>1. p \in Nat
  <2>1. PICK r \in Int, h \in Nat : v.r = r /\ v.h = h
    BY ViewsAssumption
  <2>2. PICK b, a \in Nat : QuotePair(r, h).bid = b /\ QuotePair(r, h).ask = a
    <3>1. QuotePair(r, h).bid \in 10..990 /\ QuotePair(r, h).ask \in 10..990
      BY QuotesAreSane
    <3>2. \A n \in 10..990 : n \in Nat
      OBVIOUS
    <3> QED BY <3>1, <3>2
  <2>3. p = b \/ p = a
    BY <2>1, <2>2 DEF QuotePrice
  <2> HIDE DEF p
  <2> QED BY <2>2, <2>3
<1>2. t \in Nat
  BY StepAssumption DEF NoTick, Cent
<1>3. CASE t = 0
  BY <1>1, <1>3 DEF RoundToTick
<1>4. CASE t # 0
  <2>1. Nearest(p, t) \in Nat
    BY <1>1, <1>2, <1>4, NearestWithin
  <2>2. t * Nearest(p, t) \in Int
    BY <1>2, <2>1
  <2> QED BY <1>1, <1>2, <1>4, <2>2 DEF RoundToTick, RoundTo
<1> QED BY <1>3, <1>4

-----------------------------------------------------------------------------
(* What the steps do to the state, one piece at a time.                    *)

Moved(ve, id, at) == [ve EXCEPT ![id].at = at]
Sold(ve, id, qty) ==
  [ve EXCEPT ![id].left = @ - qty, ![id].at = IF qty < ve[id].left THEN "resting" ELSE "gone"]

\* The constants as the proofs use them.
LEMMA Bounds ==
  /\ Lots \in Nat /\ Lots > 0 /\ MaxOrders \in Nat
  /\ Cent = 10 /\ NoOrder = 0 /\ NoTick = 0
  /\ Step \in Nat /\ Step > 0
<1>1. Lots \in Nat \ {0} /\ MaxOrders \in Nat
  BY KalshiBoundsAssumption
<1> QED BY <1>1, StepAssumption DEF Cent, NoOrder, NoTick

\* Moving an order changes where that order is and nothing else.
LEMMA MovedIs ==
  ASSUME NEW ve \in Seq(Orders), NEW id \in 1..Len(ve), NEW at \in {"sent", "resting", "gone"}
  PROVE  /\ Moved(ve, id, at) \in Seq(Orders) /\ Len(Moved(ve, id, at)) = Len(ve)
         /\ \A i \in 1..Len(ve) : /\ Moved(ve, id, at)[i].side = ve[i].side
                                  /\ Moved(ve, id, at)[i].left = ve[i].left
                                  /\ Moved(ve, id, at)[i].price = ve[i].price
                                  /\ i # id => Moved(ve, id, at)[i] = ve[i]
         /\ Moved(ve, id, at)[id].at = at
<1> DEFINE o == [ve[id] EXCEPT !.at = at]
<1>1. ve[id] \in Orders
  OBVIOUS
<1>2. o \in Orders /\ o.side = ve[id].side /\ o.left = ve[id].left /\ o.price = ve[id].price /\ o.at = at
  BY <1>1 DEF Orders
<1>3. Moved(ve, id, at) = [ve EXCEPT ![id] = o]
  BY DEF Moved
<1> HIDE DEF o
<1> QED BY <1>2, <1>3, SeqExcept

\* A trade changes what is left of one order and where it is.
LEMMA SoldIs ==
  ASSUME NEW ve, NEW id, NEW qty, ve \in Seq(Orders), id \in 1..Len(ve), qty \in 1..ve[id].left
  PROVE  /\ Sold(ve, id, qty) \in Seq(Orders) /\ Len(Sold(ve, id, qty)) = Len(ve)
         /\ \A i \in 1..Len(ve) : /\ Sold(ve, id, qty)[i].side = ve[i].side
                                  /\ i # id => Sold(ve, id, qty)[i] = ve[i]
         /\ Sold(ve, id, qty)[id].left = ve[id].left - qty
         /\ Sold(ve, id, qty)[id].at = IF qty < ve[id].left THEN "resting" ELSE "gone"
         /\ ve[id].left \in 0..Lots
<1> DEFINE at == IF qty < ve[id].left THEN "resting" ELSE "gone"
           o == [[ve[id] EXCEPT !.left = ve[id].left - qty] EXCEPT !.at = at]
<1>1. ve[id] \in Orders /\ at \in {"resting", "gone"}
  OBVIOUS
<1>2. ve[id].left \in 0..Lots /\ ve[id].left - qty \in 0..Lots
  BY <1>1, Bounds DEF Orders
<1> HIDE DEF at
<1>3. o \in Orders /\ o.side = ve[id].side /\ o.left = ve[id].left - qty /\ o.at = at
  BY <1>1, <1>2 DEF Orders
<1>4. Sold(ve, id, qty) = [ve EXCEPT ![id] = o]
  BY DEF Sold, at
<1> HIDE DEF o
<1> QED BY <1>2, <1>3, <1>4, SeqExcept DEF at

\* A call that has just been made waits for its answer.
LEMMA CallIs ==
  ASSUME NEW op, NEW id
  PROVE  /\ Call(op, id).by = "strategy" /\ Call(op, id).op = op
         /\ Call(op, id).id = id /\ Call(op, id).reply = "none"
BY DEF Call

\* And it is a request about an order of the exchange.
LEMMA CallTyped ==
  ASSUME NEW op \in {"post", "delete", "tick"}, NEW id \in 0..MaxOrders
  PROVE  Call(op, id) \in Requests
<1>1. 0 \in 0..Lots
  BY Bounds
<1> QED BY <1>1 DEF Call, Requests

\* What is pending of an order, event by event.
LEMMA ShareTyped ==
  ASSUME NEW id
  PROVE  /\ Share(id) \in [Events -> Nat] /\ Share(id) \in [Events -> Int]
         /\ \A e \in Events : Share(id)[e] = IF e.id = id THEN e.qty ELSE 0
         /\ \A e \in Events : e.qty \in Nat /\ e.qty > 0 /\ e.id \in Nat /\ e.id > 0 /\ e.qty <= Lots
<1>1. \A e \in Events : e.qty \in Nat /\ e.qty > 0 /\ e.id \in Nat /\ e.id > 0 /\ e.qty <= Lots
  BY Bounds DEF Events, Ids
<1> QED BY <1>1 DEF Share

\* What events say of an order is a quantity, and some event says it.
LEMMA PendType ==
  ASSUME NEW fi \in Seq(Events), NEW id
  PROVE  /\ Pend(fi, id) \in Nat
         /\ Pend(fi, id) > 0 => \E i \in 1..Len(fi) : fi[i].id = id
<1>1. \A i \in 1..Len(fi) : fi[i] \in Events
  OBVIOUS
<1>2. Share(id) \in [Events -> Nat]
  BY ShareTyped
<1>3. Pend(fi, id) \in Nat /\ (Pend(fi, id) > 0 => \E i \in 1..Len(fi) : Share(id)[fi[i]] > 0)
  BY <1>2, WeighNat DEF Pend
<1>4. \A i \in 1..Len(fi) : Share(id)[fi[i]] > 0 => fi[i].id = id
  BY <1>1, ShareTyped
<1> QED BY <1>3, <1>4

\* No event says nothing.
LEMMA PendEmpty ==
  ASSUME NEW id
  PROVE  Pend(<<>>, id) = 0
BY WeighEmpty DEF Pend

\* One more event says its quantity of its own order.
LEMMA PendAppend ==
  ASSUME NEW fi \in Seq(Events), NEW id, NEW e \in Events
  PROVE  Pend(Append(fi, e), id) = Pend(fi, id) + (IF e.id = id THEN e.qty ELSE 0)
BY ShareTyped, WeighAppend DEF Pend

\* The first event says its quantity, the others the rest.
LEMMA PendTail ==
  ASSUME NEW fi \in Seq(Events), NEW id, fi # <<>>
  PROVE  Pend(fi, id) = (IF Head(fi).id = id THEN Head(fi).qty ELSE 0) + Pend(Tail(fi), id)
<1>1. Head(fi) \in Events
  BY SeqTail
<1>2. Share(id)[Head(fi)] = (IF Head(fi).id = id THEN Head(fi).qty ELSE 0)
  BY <1>1, ShareTyped
<1>3. Share(id) \in [Events -> Int]
  BY ShareTyped
<1>4. Pend(fi, id) = Share(id)[Head(fi)] + Pend(Tail(fi), id)
  BY <1>3, WeighTail DEF Pend
<1> QED BY <1>2, <1>4

-----------------------------------------------------------------------------
(* What each piece of a step does to the orders.                           *)

\* What is counted only grows, and an order that is gone stays as it is.
Onward(ve, w, al, b) ==
  \A j \in DOMAIN al :
    /\ j \in DOMAIN b /\ al[j].filled \in Nat /\ b[j].filled \in Nat
    /\ al[j].filled <= b[j].filled
    /\ w[j].side = ve[j].side
    /\ ve[j].at = "gone" => w[j].at = "gone" /\ w[j].left = ve[j].left

\* An excuse is one for good.
LEMMA ExcusedKeeps ==
  ASSUME NEW ve, NEW w, NEW al, NEW b, NEW id,
         Onward(ve, w, al, b), w[id].side = ve[id].side, Excused(id, ve, al)
  PROVE  Excused(id, w, b)
<1>1. Lots \in Nat
  BY Bounds
<1>2. CASE id \in DOMAIN al /\ al[id].filled >= Lots
  BY <1>1, <1>2 DEF Onward, Excused
<1>3. CASE Overcounted(ve[id].side, ve, al)
  <2>1. PICK j \in DOMAIN al :
          /\ ve[j].side = ve[id].side /\ al[j].filled >= Lots
          /\ al[j].filled > Lots \/ (ve[j].at = "gone" /\ ve[j].left > 0)
    BY <1>3 DEF Overcounted
  <2>2. j \in DOMAIN b /\ w[j].side = w[id].side /\ b[j].filled >= Lots
    BY <1>1, <2>1 DEF Onward
  <2>3. b[j].filled > Lots \/ (w[j].at = "gone" /\ w[j].left > 0)
    BY <1>1, <2>1 DEF Onward
  <2> QED BY <2>2, <2>3 DEF Excused, Overcounted
<1> QED BY <1>2, <1>3 DEF Excused

\* A new POST for a side without an order.
LEMMA PostKeeps ==
  ASSUME NEW ve, NEW fi, NEW cs, NEW al, NEW lv, NEW st, NEW s \in Sides, NEW o \in Orders,
         OrdersInv(ve, fi, cs, al, lv, st), lv[s] = NoOrder, Len(ve) < MaxOrders,
         o.side = s, o.left = Lots, o.at = "sent"
  PROVE  /\ OrdersInv(Append(ve, o), fi, cs \cup {Call("post", Len(ve) + 1)}, al, lv, st)
         /\ Explained(ve, cs, al, lv, st) =>
              Explained(Append(ve, o), cs \cup {Call("post", Len(ve) + 1)}, al, lv, st)
<1> DEFINE n == Len(ve)
           w == Append(ve, o)
           c == Call("post", n + 1)
           ds == cs \cup {c}
<1>1. /\ Shapes(ve, fi, cs, al, lv, st) /\ Posts(ve, cs, al, lv, st)
      /\ Deletes(ve, cs, al, lv, st) /\ Known(ve, al, lv)
      /\ Filling(ve, fi, cs, al, st) /\ Held(ve, fi, cs, al, lv, st)
  BY DEF OrdersInv
<1>2. ve \in Seq(Orders) /\ n \in Nat /\ n + 1 \in 0..MaxOrders
  BY <1>1, Bounds DEF Shapes
<1>3. /\ w \in Seq(Orders) /\ Len(w) = n + 1 /\ w[n + 1] = o
      /\ \A i \in 1..n : w[i] = ve[i]
  BY <1>2, SeqAppend
<1>4. /\ c.by = "strategy" /\ c.op = "post" /\ c.id = n + 1 /\ c.reply = "none"
      /\ c \in Requests
  BY <1>2, CallIs, CallTyped
<1>5. /\ DOMAIN al \subseteq 1..n /\ st \subseteq 1..n
      /\ \A d \in cs : d.id \in 0..n
      /\ \A t \in Sides : lv[t] # NoOrder => lv[t] \in DOMAIN al
      /\ \A j \in DOMAIN al : al[j].filled \in Nat
  BY <1>1, <1>2 DEF Shapes, Requests, Records
<1> HIDE DEF n, w, c
<1>13. ASSUME NEW id \in 1..n, Excused(id, ve, al) PROVE Excused(id, w, al)
  <2>1. Onward(ve, w, al, al)
    BY <1>3, <1>5 DEF Onward
  <2>2. w[id].side = ve[id].side
    BY <1>3
  <2> QED BY <1>13, <2>1, <2>2, ExcusedKeeps
<1>6. Shapes(w, fi, ds, al, lv, st)
  <2>1. \A i \in 1..n + 1 : /\ w[i].at = "sent" => w[i].left = Lots
                            /\ w[i].at = "resting" => w[i].left > 0
    BY <1>1, <1>2, <1>3 DEF Shapes, n
  <2>2. \A i \in 1..Len(fi) : fi[i].id <= n + 1
    <3>1. \A i \in 1..Len(fi) : fi[i] \in Events /\ fi[i].id <= n
      BY <1>1 DEF Shapes, n
    <3>2. \A e \in Events : e.id \in Nat
      BY ShareTyped
    <3> QED BY <1>2, <3>1, <3>2
  <2>3. ds \subseteq Requests /\ \A d \in ds : d.id <= n + 1
    BY <1>1, <1>2, <1>4, <1>5 DEF Shapes
  <2>4. \A t \in Sides : lv[t] # NoOrder => lv[t] \in DOMAIN al /\ w[lv[t]].side = t
    BY <1>1, <1>3, <1>5 DEF Shapes
  <2>5. DOMAIN al \subseteq 1..n + 1 /\ st \subseteq 1..n + 1
    BY <1>2, <1>5
  <2> QED BY <1>1, <1>2, <1>3, <2>1, <2>2, <2>3, <2>4, <2>5 DEF Shapes
<1>7. Posts(w, ds, al, lv, st)
  <2>1. ASSUME NEW d \in cs, d.op = "post" PROVE Post(d, w, ds, al, lv, st)
    <3>1. Post(d, ve, cs, al, lv, st)
      BY <1>1, <2>1 DEF Posts
    <3>2. d.id \in 1..n /\ w[d.id] = ve[d.id]
      BY <1>2, <1>3, <1>5, <3>1 DEF Post, NoOrder
    <3>3. d.id # c.id
      BY <1>2, <1>4, <3>2
    <3> QED BY <3>1, <3>2, <3>3 DEF Post
  <2>2. Post(c, w, ds, al, lv, st)
    <3>1. c.id \notin DOMAIN al /\ c.id # NoOrder /\ \A d \in cs : d.id # c.id
      BY <1>2, <1>4, <1>5 DEF NoOrder
    <3> QED BY <1>3, <1>4, <3>1 DEF Post
  <2> QED BY <2>1, <2>2 DEF Posts
<1>8. Deletes(w, ds, al, lv, st)
  <2>1. ASSUME NEW d \in cs, d.op = "delete" PROVE Delete(d, w, al, lv, st)
    <3>1. Delete(d, ve, al, lv, st)
      BY <1>1, <2>1 DEF Deletes
    <3>2. w[d.id] = ve[d.id]
      BY <1>2, <1>3, <1>5, <3>1 DEF Delete, NoOrder
    <3>3. d.id \in 1..n
      BY <1>2, <1>5, <3>1 DEF Delete, NoOrder
    <3> QED BY <1>13, <3>1, <3>2, <3>3 DEF Delete
  <2> QED BY <1>4, <2>1 DEF Deletes
<1>9. Known(w, al, lv)
  <2>1. ASSUME NEW id \in DOMAIN al
        PROVE  /\ w[id].at # "sent"
               /\ lv[w[id].side] = id \/ (w[id].at = "gone" /\ w[id].left > 0) \/ Excused(id, w, al)
    <3>1. id \in 1..n /\ w[id] = ve[id]
      BY <1>3, <1>5
    <3> QED BY <1>1, <1>13, <3>1 DEF Known
  <2> QED BY <2>1 DEF Known
<1>10. Filling(w, fi, ds, al, st)
  <2>1. ASSUME NEW id \in 1..n
        PROVE  Tracked(id, ds, al) /\ id \notin st => Account(id, w, fi, al) >= Lots
    <3>1. Account(id, w, fi, al) = Account(id, ve, fi, al)
      BY <1>3 DEF Account
    <3>2. Tracked(id, ds, al) => Tracked(id, cs, al)
      BY <1>2, <1>4 DEF Tracked
    <3> QED BY <1>1, <3>1, <3>2 DEF Filling, n
  <2>2. Account(n + 1, w, fi, al) = Lots
    <3>1. Filled(al, n + 1) = 0
      BY <1>2, <1>5 DEF Filled
    <3>2. Pend(fi, n + 1) = 0
      <4>1. fi \in Seq(Events) /\ \A i \in 1..Len(fi) : fi[i].id <= n
        BY <1>1 DEF Shapes, n
      <4>2. \A i \in 1..Len(fi) : fi[i].id # n + 1
        BY <1>2, <4>1
      <4>3. Pend(fi, n + 1) \in Nat /\ ~(Pend(fi, n + 1) > 0)
        BY <4>1, <4>2, PendType
      <4> QED BY <4>3
    <3> QED BY <1>3, <3>1, <3>2, Bounds DEF Account
  <2>3. ASSUME NEW id \in 1..n + 1
        PROVE  Tracked(id, ds, al) /\ id \notin st => Account(id, w, fi, al) >= Lots
    <3>1. CASE id \in 1..n
      BY <2>1, <3>1
    <3>2. CASE id = n + 1
      <4>1. Account(id, w, fi, al) = Lots /\ Lots >= Lots
        BY <2>2, <3>2, Bounds
      <4> QED BY <4>1
    <3> QED BY <1>2, <3>1, <3>2
  <2> QED BY <1>3, <2>3 DEF Filling
<1>11. Held(w, fi, ds, al, lv, st)
  BY <1>1, <1>3, <1>5 DEF Held
<1>12. Explained(ve, cs, al, lv, st) => Explained(w, ds, al, lv, st)
  <2>1. \A id \in 1..n + 1 : w[id].at = "resting" => id \in 1..n /\ w[id] = ve[id]
    BY <1>2, <1>3
  <2> QED BY <1>3, <1>13, <2>1 DEF Explained, n
<1> QED BY <1>6, <1>7, <1>8, <1>9, <1>10, <1>11, <1>12 DEF OrdersInv, n, w, c

\* The shapes, ready for use.
LEMMA Shaped ==
  ASSUME NEW ve, NEW fi, NEW cs, NEW al, NEW lv, NEW st, OrdersInv(ve, fi, cs, al, lv, st)
  PROVE  /\ ve \in Seq(Orders) /\ Len(ve) \in Nat /\ Len(ve) <= MaxOrders
         /\ \A i \in 1..Len(ve) : /\ ve[i] \in Orders /\ ve[i].side \in Sides
                                  /\ ve[i].left \in Nat /\ ve[i].left <= Lots
                                  /\ ve[i].at = "sent" => ve[i].left = Lots
                                  /\ ve[i].at = "resting" => ve[i].left > 0
         /\ \A d \in cs : /\ d \in Requests /\ d.id \in Nat /\ d.id <= Len(ve)
                          /\ d.by \in {"strategy", "nobody"}
                          /\ d.op \in {"post", "delete"} => d.id \in 1..Len(ve)
         /\ DOMAIN al \subseteq 1..Len(ve) /\ al \in [DOMAIN al -> Records]
         /\ \A id \in DOMAIN al : al[id].filled \in Nat
         /\ \A s \in Sides : lv[s] # NoOrder => lv[s] \in DOMAIN al /\ ve[lv[s]].side = s
         /\ lv \in [Sides -> 0..MaxOrders]
         /\ st \subseteq 1..Len(ve)
         /\ fi \in Seq(Events)
<1>1. Shapes(ve, fi, cs, al, lv, st) /\ Posts(ve, cs, al, lv, st) /\ Deletes(ve, cs, al, lv, st)
  BY DEF OrdersInv
<1>2. ve \in Seq(Orders) /\ Len(ve) \in Nat /\ Len(ve) <= MaxOrders
  BY <1>1 DEF Shapes
<1>3. \A o \in Orders : o.side \in Sides /\ o.left \in Nat /\ o.left <= Lots
  BY Bounds DEF Orders
<1>4. \A d \in Requests : d.id \in Nat /\ d.by \in {"strategy", "nobody"}
  BY Bounds DEF Requests
<1>5. \A r \in Records : r.filled \in Nat
  BY DEF Records
<1>6. \A d \in cs : d \in Requests /\ d.id <= Len(ve)
  BY <1>1 DEF Shapes
<1>7. \A d \in cs : d.op \in {"post", "delete"} => d.id # 0
  BY <1>1 DEF Posts, Post, Deletes, Delete, NoOrder
<1>8. \A i \in 1..Len(ve) : ve[i] \in Orders
  BY <1>2
<1>9. \A i \in 1..Len(ve) : /\ ve[i].at = "sent" => ve[i].left = Lots
                            /\ ve[i].at = "resting" => ve[i].left > 0
  BY <1>1 DEF Shapes
<1>10. \A d \in cs : d.op \in {"post", "delete"} => d.id \in 1..Len(ve)
  BY <1>2, <1>4, <1>6, <1>7
<1>11. \A id \in DOMAIN al : al[id].filled \in Nat
  BY <1>1, <1>5 DEF Shapes
<1> QED BY <1>1, <1>2, <1>3, <1>4, <1>6, <1>8, <1>9, <1>10, <1>11 DEF Shapes

\* Requests come and go, and more orders may be lost track of.
ComesFrom(d, cs, lv, su) ==
  \/ d \in cs
  \/ d.op = "tick"
  \/ /\ d.op = "delete" /\ d.by = "strategy" /\ d.reply = "none" /\ d.id # NoOrder
     /\ \E s \in Sides : lv[s] = d.id
  \/ \E c \in cs : /\ d.by = "nobody" /\ c.reply = "none" /\ d.reply = "none"
                   /\ d.op = c.op /\ d.id = c.id /\ c.id \in su

\* Calls that end, and calls that keep to their rules, keep the orders.
LEMMA CallsChange ==
  ASSUME NEW ve, NEW fi, NEW cs, NEW al, NEW lv, NEW st, NEW ds, NEW su,
         OrdersInv(ve, fi, cs, al, lv, st),
         st \subseteq su, su \subseteq 1..Len(ve),
         ds \subseteq Requests, \A d \in ds : d.id <= Len(ve),
         \A d \in ds : ComesFrom(d, cs, lv, su),
         \A c, d \in ds : c.op = "post" /\ c.id = d.id => c = d,
         \A c \in cs : c.op = "delete" /\ c.by = "strategy" /\ c.reply = "ok" =>
                         c \in ds \/ c.id \in su
  PROVE  OrdersInv(ve, fi, ds, al, lv, su)
<1>1. /\ Shapes(ve, fi, cs, al, lv, st) /\ Posts(ve, cs, al, lv, st)
      /\ Deletes(ve, cs, al, lv, st) /\ Known(ve, al, lv)
      /\ Filling(ve, fi, cs, al, st) /\ Held(ve, fi, cs, al, lv, st)
  BY DEF OrdersInv
<1>2. Shapes(ve, fi, ds, al, lv, su)
  BY <1>1 DEF Shapes
<1>3. Posts(ve, ds, al, lv, su)
  <2>1. SUFFICES ASSUME NEW d \in ds, d.op = "post" PROVE Post(d, ve, ds, al, lv, su)
    BY DEF Posts
  <2>2. \A e \in ds : e.id = d.id => e = d
    BY <2>1
  <2>3. CASE d \in cs
    <3>1. Post(d, ve, cs, al, lv, st)
      BY <1>1, <2>1, <2>3 DEF Posts
    <3> QED BY <2>2, <3>1 DEF Post
  <2>4. CASE d \notin cs
    <3>1. PICK c \in cs : /\ d.by = "nobody" /\ c.reply = "none" /\ d.reply = "none"
                          /\ c.op = "post" /\ d.id = c.id /\ c.id \in su
      BY <2>1, <2>4 DEF ComesFrom
    <3>2. Post(c, ve, cs, al, lv, st)
      BY <1>1, <3>1 DEF Posts
    <3> QED BY <2>2, <3>1, <3>2 DEF Post
  <2> QED BY <2>3, <2>4
<1>4. Deletes(ve, ds, al, lv, su)
  <2>1. SUFFICES ASSUME NEW d \in ds, d.op = "delete" PROVE Delete(d, ve, al, lv, su)
    BY DEF Deletes
  <2>2. CASE d \in cs
    <3>1. Delete(d, ve, al, lv, st)
      BY <1>1, <2>1, <2>2 DEF Deletes
    <3> QED BY <3>1 DEF Delete
  <2>3. CASE /\ d.by = "strategy" /\ d.reply = "none" /\ d.id # NoOrder
             /\ \E s \in Sides : lv[s] = d.id
    <3>1. d.id \in DOMAIN al /\ lv[ve[d.id].side] = d.id
      BY <1>1, <2>3 DEF Shapes
    <3>2. ve[d.id].at # "sent"
      BY <1>1, <3>1 DEF Known
    <3> QED BY <2>3, <3>1, <3>2 DEF Delete
  <2>4. CASE \E c \in cs : /\ d.by = "nobody" /\ c.reply = "none" /\ d.reply = "none"
                           /\ d.op = c.op /\ d.id = c.id /\ c.id \in su
    <3>1. PICK c \in cs : /\ d.by = "nobody" /\ c.reply = "none" /\ d.reply = "none"
                          /\ c.op = "delete" /\ d.id = c.id /\ c.id \in su
      BY <2>1, <2>4
    <3>2. Delete(c, ve, al, lv, st)
      BY <1>1, <3>1 DEF Deletes
    <3> QED BY <3>1, <3>2 DEF Delete
  <2> QED BY <2>1, <2>2, <2>3, <2>4 DEF ComesFrom
<1>5. Filling(ve, fi, ds, al, su)
  <2>1. SUFFICES ASSUME NEW id \in 1..Len(ve), Tracked(id, ds, al), id \notin su
                 PROVE  Tracked(id, cs, al) /\ id \notin st
    BY <1>1 DEF Filling
  <2>2. CASE id \in DOMAIN al
    BY <2>1, <2>2 DEF Tracked
  <2>3. CASE id \notin DOMAIN al
    <3>1. PICK d \in ds : d.by = "strategy" /\ d.op = "post" /\ d.id = id
      BY <2>1, <2>3 DEF Tracked
    <3>2. d \in cs
      BY <3>1 DEF ComesFrom
    <3> QED BY <2>1, <3>1, <3>2 DEF Tracked
  <2> QED BY <2>2, <2>3
<1>6. Held(ve, fi, ds, al, lv, su)
  BY <1>1 DEF Held
<1> QED BY <1>1, <1>2, <1>3, <1>4, <1>5, <1>6 DEF OrdersInv

\* What is explained stays so while no request for it is dropped.
LEMMA ExplainedKeeps ==
  ASSUME NEW ve, NEW cs, NEW al, NEW lv, NEW st, NEW ds, NEW su,
         Explained(ve, cs, al, lv, st), st \subseteq su,
         \A c \in cs : c.op = "post" /\ ve[c.id].at = "resting" =>
            c.id \in su \/ \E d \in ds : d.op = "post" /\ d.id = c.id
  PROVE  Explained(ve, ds, al, lv, su)
BY DEF Explained

\* Cancels are sent for orders that sides hold.
LEMMA DeletesSent ==
  ASSUME NEW ve, NEW fi, NEW cs, NEW al, NEW lv, NEW st, NEW ids,
         \A id \in ids : id # NoOrder /\ \E s \in Sides : lv[s] = id,
         OrdersInv(ve, fi, cs, al, lv, st)
  PROVE  OrdersInv(ve, fi, cs \cup {Call("delete", id) : id \in ids}, al, lv, st)
<1> DEFINE ds == cs \cup {Call("delete", id) : id \in ids}
<1>1. Shapes(ve, fi, cs, al, lv, st) /\ Posts(ve, cs, al, lv, st)
  BY DEF OrdersInv
<1>2. \A id \in ids : id \in 0..MaxOrders /\ id <= Len(ve)
  BY Shaped, Bounds
<1>3. ASSUME NEW d \in ds, d \notin cs
      PROVE  /\ d \in Requests /\ d.id <= Len(ve) /\ d.op = "delete" /\ d.by = "strategy"
             /\ d.reply = "none" /\ d.id \in ids
  <2>1. PICK id \in ids : d = Call("delete", id)
    BY <1>3
  <2> QED BY <1>2, <2>1, CallIs, CallTyped
<1> HIDE DEF ds
<1>4. ds \subseteq Requests /\ (\A d \in ds : d.id <= Len(ve)) /\ st \subseteq 1..Len(ve)
  BY <1>1, <1>3 DEF Shapes
<1>5. \A d \in ds : ComesFrom(d, cs, lv, st)
  BY <1>3 DEF ComesFrom
<1>6. \A c, d \in ds : c.op = "post" /\ c.id = d.id => c = d
  <2>1. SUFFICES ASSUME NEW c \in ds, NEW d \in ds, c.op = "post", c.id = d.id PROVE c = d
    OBVIOUS
  <2>2. c \in cs
    BY <1>3, <2>1
  <2>3. Post(c, ve, cs, al, lv, st)
    BY <1>1, <2>1, <2>2 DEF Posts
  <2>4. d \in cs
    <3>1. c.id \notin DOMAIN al
      BY <2>3 DEF Post
    <3>2. \A t \in Sides : lv[t] # NoOrder => lv[t] \in DOMAIN al
      BY <1>1 DEF Shapes
    <3>3. \A i \in ids : i # c.id
      BY <3>1, <3>2
    <3> QED BY <1>3, <2>1, <3>3
  <2> QED BY <2>1, <2>3, <2>4 DEF Post
<1>7. cs \subseteq ds
  BY DEF ds
<1>8. OrdersInv(ve, fi, ds, al, lv, st)
  BY <1>4, <1>5, <1>6, <1>7, CallsChange
<1> QED BY <1>8 DEF ds

\* A request is over that cancelled nothing for the strategy task.
LEMMA CallOver ==
  ASSUME NEW ve, NEW fi, NEW cs, NEW al, NEW lv, NEW st, NEW c,
         OrdersInv(ve, fi, cs, al, lv, st),
         c.op # "delete" \/ c.reply # "ok" \/ c.id \in st
  PROVE  OrdersInv(ve, fi, cs \ {c}, al, lv, st)
<1> DEFINE ds == cs \ {c}
<1>1. Shapes(ve, fi, cs, al, lv, st) /\ Posts(ve, cs, al, lv, st)
  BY DEF OrdersInv
<1>2. ds \subseteq Requests /\ (\A d \in ds : d.id <= Len(ve)) /\ st \subseteq 1..Len(ve)
  BY <1>1 DEF Shapes
<1>3. \A d \in ds : ComesFrom(d, cs, lv, st)
  BY DEF ComesFrom
<1>4. \A d, e \in ds : d.op = "post" /\ d.id = e.id => d = e
  BY <1>1 DEF Posts, Post
<1>5. \A d \in cs : d.op = "delete" /\ d.by = "strategy" /\ d.reply = "ok" => d \in ds \/ d.id \in st
  OBVIOUS
<1> HIDE DEF ds
<1>6. OrdersInv(ve, fi, ds, al, lv, st)
  BY <1>2, <1>3, <1>4, <1>5, CallsChange
<1> QED BY <1>6 DEF ds

\* Asking for the tick touches no order.
LEMMA TickSent ==
  ASSUME NEW ve, NEW fi, NEW cs, NEW al, NEW lv, NEW st, OrdersInv(ve, fi, cs, al, lv, st)
  PROVE  OrdersInv(ve, fi, cs \cup {Call("tick", NoOrder)}, al, lv, st)
<1> DEFINE t == Call("tick", NoOrder)
           ds == cs \cup {t}
<1>1. Shapes(ve, fi, cs, al, lv, st) /\ Posts(ve, cs, al, lv, st)
  BY DEF OrdersInv
<1>2. t.op = "tick" /\ t.id = 0 /\ t \in Requests /\ 0 <= Len(ve)
  <2>1. 0 \in 0..MaxOrders /\ 0 <= Len(ve)
    BY Bounds, Shaped
  <2> QED BY <2>1, CallIs, CallTyped DEF NoOrder
<1> HIDE DEF t
<1>3. ds \subseteq Requests /\ (\A d \in ds : d.id <= Len(ve)) /\ st \subseteq 1..Len(ve)
  BY <1>1, <1>2 DEF Shapes
<1>4. \A d \in ds : ComesFrom(d, cs, lv, st)
  BY <1>2 DEF ComesFrom
<1>5. \A c, d \in ds : c.op = "post" /\ c.id = d.id => c = d
  <2>1. \A c \in cs : c.op = "post" => c.id # 0 /\ \A d \in cs : d.id = c.id => d = c
    BY <1>1 DEF Posts, Post, NoOrder
  <2> QED BY <1>2, <2>1
<1> HIDE DEF ds
<1>6. cs \subseteq ds
  BY DEF ds
<1>7. OrdersInv(ve, fi, ds, al, lv, st)
  BY <1>3, <1>4, <1>5, <1>6, CallsChange
<1> QED BY <1>7 DEF ds, t

\* To give up on more orders only weakens what has to be explained.
LEMMA StraysGrow ==
  ASSUME NEW ve, NEW fi, NEW cs, NEW al, NEW lv, NEW st, NEW su,
         OrdersInv(ve, fi, cs, al, lv, st), st \subseteq su, su \subseteq 1..Len(ve)
  PROVE  OrdersInv(ve, fi, cs, al, lv, su)
<1>1. Shapes(ve, fi, cs, al, lv, st) /\ Posts(ve, cs, al, lv, st)
  BY DEF OrdersInv
<1>2. cs \subseteq Requests /\ \A d \in cs : d.id <= Len(ve)
  BY <1>1 DEF Shapes
<1>3. \A d \in cs : ComesFrom(d, cs, lv, su)
  BY DEF ComesFrom
<1>4. \A c, d \in cs : c.op = "post" /\ c.id = d.id => c = d
  BY <1>1 DEF Posts, Post
<1>5. \A d \in cs : d.op = "delete" /\ d.by = "strategy" /\ d.reply = "ok" => d \in cs \/ d.id \in su
  OBVIOUS
<1> QED BY <1>2, <1>3, <1>4, <1>5, CallsChange

\* What becomes of calls that lose their caller.
LEMMA AbandonedIs ==
  ASSUME NEW cs, NEW own, own \subseteq cs, cs \subseteq Requests
  PROVE  /\ Abandoned(own) \subseteq Requests
         /\ \A d \in Abandoned(own) :
              /\ d.by = "nobody" /\ d.reply = "none" /\ d.op # "tick"
              /\ \E c \in own : c.reply = "none" /\ d.op = c.op /\ d.id = c.id
         /\ \A c \in own : c.reply = "none" /\ c.op # "tick" =>
              \E d \in Abandoned(own) : d.op = c.op /\ d.id = c.id
         /\ \A d, e \in Abandoned(own) : d.op = e.op /\ d.id = e.id => d = e
<1> DEFINE Gone(c) == [c EXCEPT !.by = "nobody"]
<1>1. \A c \in own : /\ Gone(c) \in Requests
                     /\ Gone(c).by = "nobody" /\ Gone(c).op = c.op
                     /\ Gone(c).id = c.id /\ Gone(c).reply = c.reply
                     /\ c.reply = "none" => c.fill = 0
  BY DEF Requests
<1>2. Abandoned(own) = {Gone(c) : c \in {d \in own : d.reply = "none" /\ d.op # "tick"}}
  BY DEF Abandoned
<1> HIDE DEF Gone
<1>3. \A d \in Abandoned(own) : \E c \in own : d = Gone(c) /\ c.reply = "none" /\ c.op # "tick"
  BY <1>2
<1>4. \A c \in own : c.reply = "none" /\ c.op # "tick" => Gone(c) \in Abandoned(own)
  BY <1>2
<1>5. \A d \in Abandoned(own) : /\ d \in Requests /\ d.by = "nobody" /\ d.reply = "none" /\ d.op # "tick"
                                /\ \E c \in own : c.reply = "none" /\ d.op = c.op /\ d.id = c.id
  BY <1>1, <1>3
<1>6. \A d, e \in Requests :
        d.reply = "none" /\ d.by = e.by /\ d.reply = e.reply /\ d.op = e.op /\ d.id = e.id => d = e
  BY DEF Requests
<1>7. \A d, e \in Abandoned(own) : d.op = e.op /\ d.id = e.id => d = e
  BY <1>5, <1>6
<1>8. \A c \in own : c.reply = "none" /\ c.op # "tick" =>
              \E d \in Abandoned(own) : d.op = c.op /\ d.id = c.id
  BY <1>1, <1>4
<1> QED BY <1>5, <1>7, <1>8

\* Calls that are given up count as lost, whatever they come to.
LEMMA GivenUp ==
  ASSUME NEW ve, NEW fi, NEW cs, NEW al, NEW lv, NEW st, NEW own, NEW su,
         OrdersInv(ve, fi, cs, al, lv, st), own \subseteq cs, st \subseteq su, su \subseteq 1..Len(ve),
         \A c \in own : c.reply = "none" /\ c.op # "tick" => c.id \in su,
         \A c \in own : c.op = "delete" /\ c.by = "strategy" /\ c.reply = "ok" => c.id \in su
  PROVE  OrdersInv(ve, fi, (cs \ own) \cup Abandoned(own), al, lv, su)
<1> DEFINE ds == (cs \ own) \cup Abandoned(own)
<1>1. Shapes(ve, fi, cs, al, lv, st) /\ Posts(ve, cs, al, lv, st)
  BY DEF OrdersInv
<1>2. cs \subseteq Requests /\ \A d \in cs : d.id <= Len(ve)
  BY <1>1 DEF Shapes
<1>3. /\ Abandoned(own) \subseteq Requests
      /\ \A d \in Abandoned(own) :
           /\ d.by = "nobody" /\ d.reply = "none" /\ d.op # "tick"
           /\ \E c \in own : c.reply = "none" /\ d.op = c.op /\ d.id = c.id
      /\ \A d, e \in Abandoned(own) : d.op = e.op /\ d.id = e.id => d = e
  BY <1>2, AbandonedIs
<1>4. ds \subseteq Requests /\ \A d \in ds : d.id <= Len(ve)
  BY <1>2, <1>3
<1>5. \A d \in ds : ComesFrom(d, cs, lv, su)
  BY <1>3 DEF ComesFrom
<1>6. \A c \in cs : c.op = "post" => \A d \in cs : d.id = c.id => d = c
  BY <1>1 DEF Posts, Post
<1>7. ASSUME NEW d \in ds, NEW e \in ds, d.op = "post", d.id = e.id PROVE d = e
  <2>1. CASE d \in cs \ own /\ e \in cs \ own
    BY <1>6, <1>7, <2>1
  <2>2. CASE d \in Abandoned(own) /\ e \in Abandoned(own)
    <3>1. PICK c \in own : d.op = c.op /\ d.id = c.id
      BY <1>3, <2>2
    <3>2. PICK b \in own : e.op = b.op /\ e.id = b.id
      BY <1>3, <2>2
    <3>3. b = c
      BY <1>6, <1>7, <3>1, <3>2
    <3> QED BY <1>3, <1>7, <2>2, <3>1, <3>2, <3>3
  <2>3. CASE d \in cs \ own /\ e \in Abandoned(own)
    <3>1. PICK b \in own : e.op = b.op /\ e.id = b.id
      BY <1>3, <2>3
    <3> QED BY <1>6, <1>7, <2>3, <3>1
  <2>4. CASE d \in Abandoned(own) /\ e \in cs \ own
    <3>1. PICK c \in own : d.op = c.op /\ d.id = c.id
      BY <1>3, <2>4
    <3> QED BY <1>6, <1>7, <2>4, <3>1
  <2> QED BY <2>1, <2>2, <2>3, <2>4
<1>8. \A c \in cs : c.op = "delete" /\ c.by = "strategy" /\ c.reply = "ok" => c \in ds \/ c.id \in su
  OBVIOUS
<1> HIDE DEF ds
<1>9. OrdersInv(ve, fi, ds, al, lv, su)
  BY <1>4, <1>5, <1>7, <1>8, CallsChange
<1> QED BY <1>9 DEF ds

WithRecord(al, id, rec) == [i \in DOMAIN al \cup {id} |-> IF i = id THEN rec ELSE al[i]]
Placed(lv, s, id) == [lv EXCEPT ![s] = id]

\* A record put into the index.
LEMMA WithRecordIs ==
  ASSUME NEW al, NEW id, NEW rec, rec \in Records, al \in [DOMAIN al -> Records]
  PROVE  /\ \A i : i \in DOMAIN WithRecord(al, id, rec) <=> i \in DOMAIN al \/ i = id
         /\ WithRecord(al, id, rec) \in [DOMAIN WithRecord(al, id, rec) -> Records]
         /\ WithRecord(al, id, rec)[id] = rec
         /\ \A i \in DOMAIN al : i # id => WithRecord(al, id, rec)[i] = al[i]
BY DEF WithRecord

\* An order put in the place of its side.
LEMMA PlacedIs ==
  ASSUME NEW lv, NEW s \in Sides, NEW id \in 0..MaxOrders, lv \in [Sides -> 0..MaxOrders]
  PROVE  /\ Placed(lv, s, id) \in [Sides -> 0..MaxOrders]
         /\ Placed(lv, s, id)[s] = id
         /\ \A t \in Sides : t # s => Placed(lv, s, id)[t] = lv[t]
BY DEF Placed

\* _place_order files the only call the strategy task awaits.
LEMMA FiledKeeps ==
  ASSUME NEW ve, NEW fi, NEW cs, NEW al, NEW lv, NEW st, NEW c \in cs, NEW rec \in Records,
         OrdersInv(ve, fi, cs, al, lv, st), rec.filled <= c.fill,
         c.op = "post", c.by = "strategy", c.reply \in {"created", "odd"},
         \A d \in cs : d.by = "strategy" => d = c
  PROVE  /\ OrdersInv(ve, fi, cs \ {c}, WithRecord(al, c.id, rec),
                      Placed(lv, ve[c.id].side, c.id), st)
         /\ Explained(ve, cs, al, lv, st) =>
              Explained(ve, cs \ {c}, WithRecord(al, c.id, rec), Placed(lv, ve[c.id].side, c.id), st)
<1> DEFINE ds == cs \ {c}
           b == WithRecord(al, c.id, rec)
           s == ve[c.id].side
           w == Placed(lv, s, c.id)
<1>1. /\ Shapes(ve, fi, cs, al, lv, st) /\ Posts(ve, cs, al, lv, st)
      /\ Deletes(ve, cs, al, lv, st) /\ Known(ve, al, lv)
      /\ Filling(ve, fi, cs, al, st) /\ Held(ve, fi, cs, al, lv, st)
  BY DEF OrdersInv
<1>2. Post(c, ve, cs, al, lv, st)
  BY <1>1 DEF Posts
<1>3. /\ c.id \in 1..Len(ve) /\ c.id \in 0..MaxOrders /\ s \in Sides
      /\ DOMAIN al \subseteq 1..Len(ve) /\ al \in [DOMAIN al -> Records]
      /\ lv \in [Sides -> 0..MaxOrders]
      /\ \A i \in 1..Len(ve) : ve[i].side \in Sides /\ ve[i].left \in Nat
      /\ \A j \in DOMAIN al : al[j].filled \in Nat
      /\ fi \in Seq(Events) /\ c \in Requests
      /\ \A d \in cs : d.op \in {"post", "delete"} => d.id \in 1..Len(ve)
  BY Shaped, Bounds
<1>4. c.id \notin DOMAIN al /\ lv[s] = NoOrder /\ ve[c.id].at # "sent"
  BY <1>2 DEF Post
<1>5. /\ \A i : i \in DOMAIN b <=> i \in DOMAIN al \/ i = c.id
      /\ b \in [DOMAIN b -> Records]
      /\ b[c.id] = rec /\ \A i \in DOMAIN al : b[i] = al[i]
  BY <1>3, <1>4, WithRecordIs
<1>6. /\ w \in [Sides -> 0..MaxOrders] /\ w[s] = c.id
      /\ \A t \in Sides : t # s => w[t] = lv[t]
  <2> HIDE DEF s
  <2>1. \A id \in 0..MaxOrders : /\ Placed(lv, s, id) \in [Sides -> 0..MaxOrders]
                                 /\ Placed(lv, s, id)[s] = id
                                 /\ \A t \in Sides : t # s => Placed(lv, s, id)[t] = lv[t]
    BY <1>3, PlacedIs
  <2> QED BY <1>3, <2>1
<1>7. \A t \in Sides : lv[t] # NoOrder => t # s /\ w[t] = lv[t] /\ lv[t] \in DOMAIN al /\ ve[lv[t]].side = t
  BY <1>1, <1>4, <1>6 DEF Shapes
<1> HIDE DEF b, w, s
<1>15. rec.filled \in Nat /\ c.fill \in Nat /\ Lots \in Nat /\ Lots > 0
  <2>1. \A r \in Records : r.filled \in Nat
    BY DEF Records
  <2>2. \A d \in Requests : d.fill \in Nat
    BY Bounds DEF Requests
  <2> QED BY <1>3, <2>1, <2>2, Bounds
<1>16. ASSUME NEW id, Excused(id, ve, al) PROVE Excused(id, ve, b)
  <2>1. Onward(ve, ve, al, b)
    BY <1>3, <1>5 DEF Onward
  <2> QED BY <1>16, <2>1, ExcusedKeeps
<1>8. Shapes(ve, fi, ds, b, w, st)
  <2>1. DOMAIN b \subseteq 1..Len(ve)
    BY <1>3, <1>5
  <2>2. \A t \in Sides : w[t] # NoOrder => w[t] \in DOMAIN b /\ ve[w[t]].side = t
    BY <1>5, <1>6, <1>7 DEF s
  <2> QED BY <1>1, <1>5, <1>6, <2>1, <2>2 DEF Shapes
<1>9. Posts(ve, ds, b, w, st)
  <2>1. SUFFICES ASSUME NEW d \in ds, d.op = "post" PROVE Post(d, ve, ds, b, w, st)
    BY DEF Posts
  <2>2. Post(d, ve, cs, al, lv, st)
    BY <1>1, <2>1 DEF Posts
  <2>3. d.id \notin DOMAIN b /\ d.by # "strategy"
    BY <1>2, <1>5, <2>1, <2>2 DEF Post
  <2> QED BY <2>2, <2>3 DEF Post
<1>10. Deletes(ve, ds, b, w, st)
  <2>1. SUFFICES ASSUME NEW d \in ds, d.op = "delete" PROVE Delete(d, ve, b, w, st)
    BY DEF Deletes
  <2>2. Delete(d, ve, al, lv, st)
    BY <1>1, <2>1 DEF Deletes
  <2>3. d.id # c.id /\ d.by # "strategy"
    BY <1>2, <2>1 DEF Post
  <2> QED BY <1>5, <2>2, <2>3 DEF Delete
<1>11. Known(ve, b, w)
  <2>1. ASSUME NEW id \in DOMAIN al
        PROVE  /\ ve[id].at # "sent"
               /\ w[ve[id].side] = id \/ (ve[id].at = "gone" /\ ve[id].left > 0) \/ Excused(id, ve, b)
    <3>1. lv[ve[id].side] = id => w[ve[id].side] = id
      BY <1>3, <1>4, <1>7, Bounds
    <3> QED BY <1>1, <1>16, <3>1 DEF Known
  <2>2. ve[c.id].at # "sent" /\ w[ve[c.id].side] = c.id
    BY <1>4, <1>6 DEF s
  <2> QED BY <1>5, <2>1, <2>2 DEF Known
<1>12. Filling(ve, fi, ds, b, st)
  <2>1. SUFFICES ASSUME NEW id \in 1..Len(ve)
                 PROVE  Tracked(id, ds, b) /\ id \notin st => Account(id, ve, fi, b) >= Lots
    BY DEF Filling
  <2>2. /\ Filled(b, id) \in Nat /\ Filled(al, id) \in Nat /\ Filled(b, id) >= Filled(al, id)
        /\ Pend(fi, id) \in Nat /\ ve[id].left \in Nat
    <3>1. CASE id = c.id
      BY <1>3, <1>4, <1>5, <1>15, <3>1, PendType DEF Filled
    <3>2. CASE id # c.id
      BY <1>3, <1>5, <3>2, PendType DEF Filled
    <3> QED BY <3>1, <3>2
  <2>3. Tracked(id, ds, b) => Tracked(id, cs, al)
    BY <1>5 DEF Tracked
  <2>4. Tracked(id, cs, al) /\ id \notin st => Account(id, ve, fi, al) >= Lots
    BY <1>1 DEF Filling
  <2> QED BY <1>15, <2>2, <2>3, <2>4 DEF Account
<1>13. Held(ve, fi, ds, b, w, st)
  <2>1. SUFFICES ASSUME NEW t \in Sides, w[t] # NoOrder
                 PROVE  /\ b[w[t]].filled < Lots \/ Pend(fi, w[t]) > 0 \/ w[t] \in st
                        /\ \/ ve[w[t]].at = "resting" \/ w[t] \in st \/ ve[w[t]].left = 0
                           \/ \E d \in ds : /\ d.by = "strategy" /\ d.op = "delete"
                                            /\ d.id = w[t] /\ d.reply = "ok"
    BY DEF Held
  <2>2. CASE t = s
    <3>1. ve[c.id].at = "resting" \/ c.id \in st \/ ve[c.id].left = 0
      BY <1>2 DEF Post
    <3>2. ASSUME c.id \notin st, ~(rec.filled < Lots) PROVE Pend(fi, c.id) > 0
      <4>1. c.fill + ve[c.id].left <= Lots
        BY <1>2 DEF Post
      <4>2. ve[c.id].left = 0 /\ ve[c.id].left \in Nat
        BY <1>3, <1>15, <3>2, <4>1
      <4>3. Account(c.id, ve, fi, al) >= Lots
        BY <1>1, <1>3, <3>2 DEF Filling, Tracked
      <4>4. Filled(al, c.id) = 0 /\ Pend(fi, c.id) \in Nat
        BY <1>3, <1>4, PendType DEF Filled
      <4> QED BY <1>15, <4>2, <4>3, <4>4 DEF Account
    <3> QED BY <1>5, <1>6, <2>2, <3>1, <3>2
  <2>3. CASE t # s
    <3>1. lv[t] # NoOrder /\ w[t] = lv[t] /\ b[w[t]] = al[lv[t]]
      BY <1>5, <1>6, <1>7, <2>1, <2>3
    <3> QED BY <1>1, <3>1 DEF Held
  <2> QED BY <2>2, <2>3
<1>14. Explained(ve, cs, al, lv, st) => Explained(ve, ds, b, w, st)
  <2>1. SUFFICES ASSUME Explained(ve, cs, al, lv, st), NEW id \in 1..Len(ve), ve[id].at = "resting"
                 PROVE  \/ w[ve[id].side] = id
                        \/ \E d \in ds : d.op = "post" /\ d.id = id
                        \/ id \in st
                        \/ Excused(id, ve, b)
    BY DEF Explained
  <2>2. CASE lv[ve[id].side] = id
    BY <1>3, <1>7, <2>2, Bounds
  <2>3. CASE id = c.id
    BY <1>6, <2>3 DEF s
  <2>4. CASE id # c.id /\ lv[ve[id].side] # id
    BY <1>16, <2>1, <2>4 DEF Explained
  <2> QED BY <2>2, <2>3, <2>4
<1> QED BY <1>8, <1>9, <1>10, <1>11, <1>12, <1>13, <1>14 DEF OrdersInv, b, w, s

\* _cancel_order after a 200: the order leaves its side.
LEMMA CancelledKeeps ==
  ASSUME NEW ve, NEW fi, NEW cs, NEW al, NEW lv, NEW st, NEW c \in cs, NEW rec \in Records,
         OrdersInv(ve, fi, cs, al, lv, st), rec.filled = al[c.id].filled,
         c.op = "delete", c.by = "strategy", c.reply = "ok", lv[ve[c.id].side] # NoOrder
  PROVE  /\ OrdersInv(ve, fi, cs \ {c}, WithRecord(al, c.id, rec),
                      Placed(lv, ve[c.id].side, NoOrder), st)
         /\ Explained(ve, cs, al, lv, st) =>
              Explained(ve, cs \ {c}, WithRecord(al, c.id, rec), Placed(lv, ve[c.id].side, NoOrder), st)
<1> DEFINE ds == cs \ {c}
           b == WithRecord(al, c.id, rec)
           s == ve[c.id].side
           w == Placed(lv, s, NoOrder)
<1>1. /\ Shapes(ve, fi, cs, al, lv, st) /\ Posts(ve, cs, al, lv, st)
      /\ Deletes(ve, cs, al, lv, st) /\ Known(ve, al, lv)
      /\ Filling(ve, fi, cs, al, st) /\ Held(ve, fi, cs, al, lv, st)
  BY DEF OrdersInv
<1>2. Delete(c, ve, al, lv, st)
  BY <1>1 DEF Deletes
<1>3. /\ c.id \in 1..Len(ve) /\ s \in Sides /\ NoOrder \in 0..MaxOrders
      /\ DOMAIN al \subseteq 1..Len(ve) /\ al \in [DOMAIN al -> Records]
      /\ lv \in [Sides -> 0..MaxOrders]
      /\ \A i \in 1..Len(ve) : ve[i].side \in Sides
      /\ \A j \in DOMAIN al : al[j].filled \in Nat
      /\ \A t \in Sides : lv[t] # NoOrder => lv[t] \in DOMAIN al /\ ve[lv[t]].side = t
      /\ cs \subseteq Requests
  BY Shaped, Bounds
<1>4. /\ c.id \in DOMAIN al /\ lv[s] = c.id /\ c.id # NoOrder
      /\ ve[c.id].at = "gone" /\ ve[c.id].left > 0
  BY <1>2 DEF Delete
<1> HIDE DEF s
<1>6. /\ w \in [Sides -> 0..MaxOrders] /\ w[s] = NoOrder
      /\ \A t \in Sides : t # s => w[t] = lv[t]
  BY <1>3, PlacedIs
<1> HIDE DEF w
<1>5. /\ DOMAIN b = DOMAIN al /\ b \in [DOMAIN b -> Records]
      /\ \A i \in DOMAIN al : b[i].filled = al[i].filled
  <2>1. /\ \A i : i \in DOMAIN b <=> i \in DOMAIN al \/ i = c.id
        /\ b \in [DOMAIN b -> Records] /\ b[c.id] = rec
        /\ \A i \in DOMAIN al : i # c.id => b[i] = al[i]
    BY <1>3, WithRecordIs
  <2> HIDE DEF b
  <2>2. \A i : i \in DOMAIN b <=> i \in DOMAIN al
    BY <1>4, <2>1
  <2>3. \A i \in DOMAIN al : b[i].filled = al[i].filled
    BY <2>1
  <2> QED BY <2>1, <2>2, <2>3
<1> HIDE DEF b
<1>14. ASSUME NEW id, Excused(id, ve, al) PROVE Excused(id, ve, b)
  <2>1. Onward(ve, ve, al, b)
    BY <1>3, <1>5 DEF Onward
  <2> QED BY <1>14, <2>1, ExcusedKeeps
<1>7. Shapes(ve, fi, ds, b, w, st)
  <2>1. \A t \in Sides : w[t] # NoOrder => w[t] \in DOMAIN b /\ ve[w[t]].side = t
    BY <1>3, <1>5, <1>6
  <2> QED BY <1>1, <1>5, <1>6, <2>1 DEF Shapes
<1>8. Posts(ve, ds, b, w, st)
  <2>1. SUFFICES ASSUME NEW d \in ds, d.op = "post" PROVE Post(d, ve, ds, b, w, st)
    BY DEF Posts
  <2>2. Post(d, ve, cs, al, lv, st)
    BY <1>1, <2>1 DEF Posts
  <2>3. d.id \in 1..Len(ve)
    BY <2>1, Shaped
  <2>4. lv[ve[d.id].side] = NoOrder => w[ve[d.id].side] = NoOrder
    BY <1>3, <1>6, <2>3
  <2> QED BY <1>5, <2>2, <2>4 DEF Post
<1>9. Deletes(ve, ds, b, w, st)
  <2>1. SUFFICES ASSUME NEW d \in ds, d.op = "delete" PROVE Delete(d, ve, b, w, st)
    BY DEF Deletes
  <2>2. Delete(d, ve, al, lv, st)
    BY <1>1, <2>1 DEF Deletes
  <2>3. d.id \in 1..Len(ve)
    BY <2>1, Shaped
  <2>4. d.by = "strategy" /\ d.reply = "ok" => d.id # c.id
    <3>1. \A a, e \in Requests : a.by = e.by /\ a.op = e.op /\ a.id = e.id /\ a.reply = e.reply
                                /\ a.reply # "created" => a = e
      BY DEF Requests
    <3> QED BY <1>3, <2>1, <3>1
  <2>5. ve[d.id].side \in Sides
    BY <1>3, <2>3
  <2>6. CASE ve[d.id].side = s
    <3>1. d.by = "strategy" => d.id = c.id
      BY <1>4, <2>2, <2>6 DEF Delete
    <3>2. w[ve[d.id].side] = NoOrder
      BY <1>6, <2>6
    <3> QED BY <1>5, <2>2, <2>4, <3>1, <3>2 DEF Delete
  <2>7. CASE ve[d.id].side # s
    <3>1. w[ve[d.id].side] = lv[ve[d.id].side]
      BY <1>6, <2>5, <2>7
    <3> QED BY <1>5, <1>14, <2>2, <3>1 DEF Delete
  <2> QED BY <2>6, <2>7
<1>10. Known(ve, b, w)
  <2>1. SUFFICES ASSUME NEW id \in DOMAIN al
        PROVE  /\ ve[id].at # "sent"
               /\ w[ve[id].side] = id \/ (ve[id].at = "gone" /\ ve[id].left > 0) \/ Excused(id, ve, b)
    BY <1>5 DEF Known
  <2>2. lv[ve[id].side] = id => id = c.id \/ w[ve[id].side] = id
    BY <1>3, <1>4, <1>6, <2>1
  <2> QED BY <1>1, <1>4, <1>14, <2>2 DEF Known
<1>11. Filling(ve, fi, ds, b, st)
  <2>1. SUFFICES ASSUME NEW id \in 1..Len(ve)
                 PROVE  /\ Account(id, ve, fi, b) = Account(id, ve, fi, al)
                        /\ Tracked(id, ds, b) => Tracked(id, cs, al)
    BY <1>1 DEF Filling
  <2>2. Filled(b, id) = Filled(al, id)
    BY <1>5 DEF Filled
  <2>3. Tracked(id, ds, b) => Tracked(id, cs, al)
    BY <1>5 DEF Tracked
  <2> QED BY <2>2, <2>3 DEF Account
<1>12. Held(ve, fi, ds, b, w, st)
  <2>1. SUFFICES ASSUME NEW t \in Sides, w[t] # NoOrder
                 PROVE  /\ b[w[t]].filled < Lots \/ Pend(fi, w[t]) > 0 \/ w[t] \in st
                        /\ \/ ve[w[t]].at = "resting" \/ w[t] \in st \/ ve[w[t]].left = 0
                           \/ \E d \in ds : /\ d.by = "strategy" /\ d.op = "delete"
                                            /\ d.id = w[t] /\ d.reply = "ok"
    BY DEF Held
  <2>2. t # s /\ lv[t] # NoOrder /\ w[t] = lv[t] /\ b[w[t]].filled = al[lv[t]].filled /\ lv[t] # c.id
    BY <1>3, <1>5, <1>6, <2>1 DEF s
  <2> QED BY <1>1, <2>2 DEF Held
<1>13. Explained(ve, cs, al, lv, st) => Explained(ve, ds, b, w, st)
  <2>1. SUFFICES ASSUME Explained(ve, cs, al, lv, st), NEW id \in 1..Len(ve), ve[id].at = "resting"
                 PROVE  \/ w[ve[id].side] = id
                        \/ \E d \in ds : d.op = "post" /\ d.id = id
                        \/ id \in st
                        \/ Excused(id, ve, b)
    BY DEF Explained
  <2>2. CASE lv[ve[id].side] = id
    BY <1>3, <1>4, <1>6, <2>1, <2>2
  <2>3. CASE lv[ve[id].side] # id
    BY <1>14, <2>1, <2>3 DEF Explained
  <2> QED BY <2>2, <2>3
<1> QED BY <1>7, <1>8, <1>9, <1>10, <1>11, <1>12, <1>13 DEF OrdersInv, b, w, s

\* An event that counts for nothing, or is lost: its order is lost track of.
LEMMA EventDropped ==
  ASSUME NEW ve, NEW fi, NEW cs, NEW al, NEW lv, NEW st, NEW su,
         OrdersInv(ve, fi, cs, al, lv, st), fi # <<>>,
         st \subseteq su, su \subseteq 1..Len(ve), Head(fi).id \in su
  PROVE  OrdersInv(ve, Tail(fi), cs, al, lv, su)
<1>1. OrdersInv(ve, fi, cs, al, lv, su)
  BY StraysGrow
<1>2. /\ Shapes(ve, fi, cs, al, lv, su) /\ Posts(ve, cs, al, lv, su)
      /\ Deletes(ve, cs, al, lv, su) /\ Known(ve, al, lv)
      /\ Filling(ve, fi, cs, al, su) /\ Held(ve, fi, cs, al, lv, su)
  BY <1>1 DEF OrdersInv
<1>3. /\ fi \in Seq(Events) /\ Tail(fi) \in Seq(Events) /\ Head(fi) \in Events
      /\ \A i \in 1..Len(fi) : fi[i].id <= Len(ve)
  BY <1>2, SeqTail DEF Shapes
<1>4. Shapes(ve, Tail(fi), cs, al, lv, su)
  <2>1. \A i \in 1..Len(Tail(fi)) : Tail(fi)[i].id <= Len(ve)
    BY <1>3, SeqTail
  <2> QED BY <1>2, <1>3, <2>1 DEF Shapes
<1>5. Filling(ve, Tail(fi), cs, al, su)
  <2>1. SUFFICES ASSUME NEW id \in 1..Len(ve)
                 PROVE  Tracked(id, cs, al) /\ id \notin su => Account(id, ve, Tail(fi), al) >= Lots
    BY DEF Filling
  <2>2. Tracked(id, cs, al) /\ id \notin su => Account(id, ve, fi, al) >= Lots
    BY <1>2 DEF Filling
  <2>3. id \notin su => Pend(Tail(fi), id) = Pend(fi, id)
    <3>1. Pend(fi, id) = (IF Head(fi).id = id THEN Head(fi).qty ELSE 0) + Pend(Tail(fi), id)
      BY <1>3, PendTail
    <3>2. Head(fi).qty \in Nat
      BY <1>3, ShareTyped
    <3>3. Pend(fi, id) \in Nat /\ Pend(Tail(fi), id) \in Nat
      BY <1>3, PendType
    <3> QED BY <3>1, <3>2, <3>3
  <2> QED BY <2>2, <2>3 DEF Account
<1>6. Held(ve, Tail(fi), cs, al, lv, su)
  <2>1. \A id : id \notin su => Pend(Tail(fi), id) = Pend(fi, id)
    <3>1. TAKE id
    <3>2. Pend(fi, id) = (IF Head(fi).id = id THEN Head(fi).qty ELSE 0) + Pend(Tail(fi), id)
      BY <1>3, PendTail
    <3>3. Pend(Tail(fi), id) \in Nat
      BY <1>3, PendType
    <3> QED BY <3>2, <3>3
  <2> QED BY <1>2, <2>1 DEF Held
<1> QED BY <1>2, <1>4, <1>5, <1>6 DEF OrdersInv

\* mark_filled on an order the index knows: the event is counted, and the order
\* that it fills leaves its side.
LEMMA EventCounted ==
  ASSUME NEW ve, NEW fi, NEW cs, NEW al, NEW lv, NEW st, NEW rec \in Records, NEW e,
         OrdersInv(ve, fi, cs, al, lv, st), fi # <<>>, e = Head(fi), e.id \in DOMAIN al,
         rec.filled = al[e.id].filled + e.qty, NEW w,
         w = IF rec.filled >= Lots THEN Placed(lv, ve[e.id].side, NoOrder) ELSE lv
  PROVE  /\ OrdersInv(ve, Tail(fi), cs, WithRecord(al, e.id, rec), w, st)
         /\ Explained(ve, cs, al, lv, st) => Explained(ve, cs, WithRecord(al, e.id, rec), w, st)
<1> DEFINE b == WithRecord(al, e.id, rec)
           s == ve[e.id].side
<1>1. /\ Shapes(ve, fi, cs, al, lv, st) /\ Posts(ve, cs, al, lv, st)
      /\ Deletes(ve, cs, al, lv, st) /\ Known(ve, al, lv)
      /\ Filling(ve, fi, cs, al, st) /\ Held(ve, fi, cs, al, lv, st)
  BY DEF OrdersInv
<1>2. /\ fi \in Seq(Events) /\ Tail(fi) \in Seq(Events) /\ e \in Events
      /\ \A i \in 1..Len(fi) : fi[i].id <= Len(ve)
  BY <1>1, SeqTail DEF Shapes
<1>3. /\ e.id \in 1..Len(ve) /\ s \in Sides /\ NoOrder \in 0..MaxOrders
      /\ DOMAIN al \subseteq 1..Len(ve) /\ al \in [DOMAIN al -> Records]
      /\ lv \in [Sides -> 0..MaxOrders]
      /\ \A i \in 1..Len(ve) : /\ ve[i].side \in Sides /\ ve[i].left \in Nat
                               /\ ve[i].at = "resting" => ve[i].left > 0
      /\ \A t \in Sides : lv[t] # NoOrder => lv[t] \in DOMAIN al /\ ve[lv[t]].side = t
      /\ \A d \in cs : d.op \in {"post", "delete"} => d.id \in 1..Len(ve)
      /\ \A j \in DOMAIN al : al[j].filled \in Nat
  BY Shaped, Bounds
<1>4. /\ \A i : i \in DOMAIN b <=> i \in DOMAIN al
      /\ b \in [DOMAIN b -> Records]
      /\ b[e.id] = rec /\ \A i \in DOMAIN al : i # e.id => b[i] = al[i]
  BY <1>3, WithRecordIs
<1>5. e.qty \in Nat /\ e.qty > 0 /\ al[e.id].filled \in Nat /\ Lots \in Nat
  BY <1>2, Shaped, ShareTyped, Bounds
<1>6. PICK k \in Nat : k = rec.filled /\ k = al[e.id].filled + e.qty
  BY <1>5
<1>7. \A id : Filled(al, id) + Pend(fi, id) = Filled(b, id) + Pend(Tail(fi), id)
  <2> SUFFICES ASSUME NEW id PROVE Filled(al, id) + Pend(fi, id) = Filled(b, id) + Pend(Tail(fi), id)
    OBVIOUS
  <2>1. /\ Pend(fi, id) = (IF e.id = id THEN e.qty ELSE 0) + Pend(Tail(fi), id)
        /\ Pend(Tail(fi), id) \in Nat
    BY <1>2, PendTail, PendType
  <2>2. Filled(al, id) \in Nat
    BY Shaped DEF Filled
  <2> HIDE DEF b
  <2>3. Filled(b, id) = Filled(al, id) + (IF e.id = id THEN e.qty ELSE 0)
    <3>1. CASE id = e.id
      BY <1>4, <1>6, <3>1 DEF Filled
    <3>2. CASE id # e.id /\ id \in DOMAIN al
      BY <1>4, <2>2, <3>2 DEF Filled
    <3>3. CASE id # e.id /\ id \notin DOMAIN al
      BY <1>4, <3>3 DEF Filled
    <3> QED BY <3>1, <3>2, <3>3
  <2> QED BY <1>5, <2>1, <2>2, <2>3
<1>8. \A id \in 1..Len(ve) : Account(id, ve, Tail(fi), b) = Account(id, ve, fi, al)
  BY <1>7 DEF Account
<1> HIDE DEF b, s
<1>9. ASSUME NEW id, Excused(id, ve, al) PROVE Excused(id, ve, b)
  <2>1. \A j \in DOMAIN al : b[j].filled \in Nat /\ al[j].filled <= b[j].filled
    <3>1. TAKE j \in DOMAIN al
    <3>2. CASE j = e.id
      BY <1>4, <1>5, <1>6, <3>2
    <3>3. CASE j # e.id
      BY <1>3, <1>4, <3>3
    <3> QED BY <3>2, <3>3
  <2>2. Onward(ve, ve, al, b)
    BY <1>3, <1>4, <2>1 DEF Onward
  <2> QED BY <1>9, <2>2, ExcusedKeeps
<1>10. /\ w \in [Sides -> 0..MaxOrders]
       /\ \A t \in Sides : \/ w[t] = lv[t] /\ (lv[t] = e.id => k < Lots)
                           \/ w[t] = NoOrder /\ t = s /\ k >= Lots
  <2>1. CASE k >= Lots
    <3>1. w = Placed(lv, s, NoOrder)
      BY <1>6, <2>1 DEF s
    <3>2. /\ w \in [Sides -> 0..MaxOrders] /\ w[s] = NoOrder
          /\ \A t \in Sides : t # s => w[t] = lv[t]
      BY <1>3, <3>1, PlacedIs
    <3>3. \A t \in Sides : t # s => lv[t] # e.id
      <4>1. e.id # NoOrder
        BY <1>3, Bounds
      <4> QED BY <1>3, <4>1 DEF s
    <3> QED BY <2>1, <3>2, <3>3
  <2>2. CASE ~(k >= Lots)
    <3>1. w = lv /\ k < Lots
      BY <1>5, <1>6, <2>2
    <3> QED BY <1>3, <3>1
  <2> QED BY <2>1, <2>2
<1>18. ASSUME NEW id \in DOMAIN al, lv[ve[id].side] = id PROVE w[ve[id].side] = id \/ Excused(id, ve, b)
  <2>1. PICK t \in Sides : t = ve[id].side
    BY <1>3
  <2>2. CASE w[t] = lv[t]
    BY <1>18, <2>1, <2>2
  <2>3. CASE w[t] = NoOrder /\ t = s /\ k >= Lots
    <3>1. CASE id = e.id
      BY <1>4, <1>6, <2>3, <3>1 DEF Excused
    <3>2. CASE id # e.id
      <4>1. lv[ve[e.id].side] # e.id
        BY <1>18, <2>1, <2>3, <3>2 DEF s
      <4>2. (ve[e.id].at = "gone" /\ ve[e.id].left > 0) \/ Excused(e.id, ve, al)
        BY <1>1, <4>1 DEF Known
      <4>3. e.id \in DOMAIN b /\ b[e.id].filled = k /\ ve[e.id].side = ve[id].side
        BY <1>4, <1>6, <2>1, <2>3 DEF s
      <4>4. CASE ve[e.id].at = "gone" /\ ve[e.id].left > 0
        BY <2>3, <4>3, <4>4 DEF Excused, Overcounted
      <4>5. CASE al[e.id].filled >= Lots
        <5>1. k > Lots
          BY <1>5, <1>6, <4>5
        <5> QED BY <2>3, <4>3, <5>1 DEF Excused, Overcounted
      <4>6. CASE Overcounted(ve[e.id].side, ve, al)
        <5>1. Excused(id, ve, al)
          BY <4>3, <4>6 DEF Excused
        <5> QED BY <1>9, <5>1
      <4> QED BY <4>2, <4>4, <4>5, <4>6 DEF Excused
    <3> QED BY <3>1, <3>2
  <2> QED BY <1>10, <2>2, <2>3
<1>11. Shapes(ve, Tail(fi), cs, b, w, st)
  <2>1. \A i \in 1..Len(Tail(fi)) : Tail(fi)[i].id <= Len(ve)
    BY <1>2, SeqTail
  <2>2. \A t \in Sides : w[t] # NoOrder => w[t] \in DOMAIN b /\ ve[w[t]].side = t
    BY <1>3, <1>4, <1>10
  <2>3. DOMAIN b \subseteq 1..Len(ve)
    BY <1>3, <1>4
  <2> QED BY <1>1, <1>2, <1>4, <1>10, <2>1, <2>2, <2>3 DEF Shapes
<1>12. Posts(ve, cs, b, w, st)
  <2>1. SUFFICES ASSUME NEW d \in cs, d.op = "post" PROVE Post(d, ve, cs, b, w, st)
    BY DEF Posts
  <2>2. Post(d, ve, cs, al, lv, st)
    BY <1>1, <2>1 DEF Posts
  <2>3. lv[ve[d.id].side] = NoOrder => w[ve[d.id].side] = NoOrder
    BY <1>3, <1>10, <2>1
  <2> QED BY <1>4, <2>2, <2>3 DEF Post
<1>13. Deletes(ve, cs, b, w, st)
  <2>1. SUFFICES ASSUME NEW d \in cs, d.op = "delete" PROVE Delete(d, ve, b, w, st)
    BY DEF Deletes
  <2>2. Delete(d, ve, al, lv, st)
    BY <1>1, <2>1 DEF Deletes
  <2>3. PICK t \in Sides : t = ve[d.id].side
    BY <1>3, <2>1
  <2>4. lv[t] \in {d.id, NoOrder} => w[t] \in {d.id, NoOrder}
    BY <1>10
  <2>5. d.by = "strategy" /\ d.reply = "ok" => w[t] = d.id \/ Excused(d.id, ve, b)
    <3>1. SUFFICES ASSUME d.by = "strategy", d.reply = "ok"
                   PROVE  w[t] = d.id \/ Excused(d.id, ve, b)
      OBVIOUS
    <3>2. d.id \in DOMAIN al /\ (lv[ve[d.id].side] = d.id \/ Excused(d.id, ve, al))
      BY <2>2, <3>1 DEF Delete
    <3> QED BY <1>9, <1>18, <2>3, <3>2
  <2> QED BY <1>4, <2>2, <2>3, <2>4, <2>5 DEF Delete
<1>14. Known(ve, b, w)
  <2>1. SUFFICES ASSUME NEW id \in DOMAIN al
        PROVE  /\ ve[id].at # "sent"
               /\ w[ve[id].side] = id \/ (ve[id].at = "gone" /\ ve[id].left > 0) \/ Excused(id, ve, b)
    BY <1>4 DEF Known
  <2> QED BY <1>1, <1>9, <1>18 DEF Known
<1>15. Filling(ve, Tail(fi), cs, b, st)
  <2>1. \A id : Tracked(id, cs, b) => Tracked(id, cs, al)
    BY <1>4 DEF Tracked
  <2> QED BY <1>1, <1>8, <2>1 DEF Filling, b
<1>16. Held(ve, Tail(fi), cs, b, w, st)
  <2>1. SUFFICES ASSUME NEW t \in Sides, w[t] # NoOrder
                 PROVE  /\ b[w[t]].filled < Lots \/ Pend(Tail(fi), w[t]) > 0 \/ w[t] \in st
                        /\ \/ ve[w[t]].at = "resting" \/ w[t] \in st \/ ve[w[t]].left = 0
                           \/ \E d \in cs : /\ d.by = "strategy" /\ d.op = "delete"
                                            /\ d.id = w[t] /\ d.reply = "ok"
    BY DEF Held
  <2>2. w[t] = lv[t] /\ (lv[t] = e.id => k < Lots)
    BY <1>10, <2>1
  <2>3. b[lv[t]].filled < Lots \/ Pend(Tail(fi), lv[t]) > 0 \/ lv[t] \in st
    <3>1. CASE lv[t] = e.id
      BY <1>4, <1>6, <2>2, <3>1
    <3>2. CASE lv[t] # e.id
      <4>1. PICK id : id = lv[t]
        OBVIOUS
      <4>2. b[id] = al[id]
        BY <1>3, <1>4, <2>1, <2>2, <3>2, <4>1
      <4>3. al[id].filled < Lots \/ Pend(fi, id) > 0 \/ id \in st
        BY <1>1, <2>1, <2>2, <4>1 DEF Held
      <4>4. Pend(fi, id) = Pend(Tail(fi), id)
        <5>1. Pend(fi, id) = (IF e.id = id THEN e.qty ELSE 0) + Pend(Tail(fi), id)
          BY <1>2, PendTail
        <5>2. Pend(Tail(fi), id) \in Nat
          BY <1>2, PendType
        <5> QED BY <3>2, <4>1, <5>1, <5>2
      <4> QED BY <4>1, <4>2, <4>3, <4>4
    <3> QED BY <3>1, <3>2
  <2> QED BY <1>1, <2>1, <2>2, <2>3 DEF Held
<1>17. Explained(ve, cs, al, lv, st) => Explained(ve, cs, b, w, st)
  <2>1. SUFFICES ASSUME Explained(ve, cs, al, lv, st), NEW id \in 1..Len(ve), ve[id].at = "resting"
                 PROVE  \/ w[ve[id].side] = id
                        \/ \E d \in cs : d.op = "post" /\ d.id = id
                        \/ id \in st
                        \/ Excused(id, ve, b)
    BY DEF Explained
  <2>2. CASE lv[ve[id].side] = id
    <3>1. id \in DOMAIN al
      BY <1>3, <2>2, Bounds
    <3> QED BY <1>18, <2>2, <3>1
  <2>3. CASE lv[ve[id].side] # id
    BY <1>9, <2>1, <2>3 DEF Explained
  <2> QED BY <2>2, <2>3
<1> QED BY <1>11, <1>12, <1>13, <1>14, <1>15, <1>16, <1>17 DEF OrdersInv, b

-----------------------------------------------------------------------------
(* What the exchange does.                                                 *)

\* Its answer to a request, which nobody may be waiting for.
Replied(cs, c, r) ==
  (cs \ {c}) \cup (IF c.by = "nobody" THEN {} ELSE {[c EXCEPT !.reply = r, !.fill = 0]})

\* An answered call: its reply changed, or gone if nobody waits for it.
LEMMA RepliedIs ==
  ASSUME NEW cs, NEW c, NEW r, cs \subseteq Requests, c \in cs, r \in {"created", "odd", "ok", "error"}
  PROVE  /\ Replied(cs, c, r) \subseteq Requests
         /\ \A d \in Replied(cs, c, r) :
              \/ d \in cs /\ d # c
              \/ /\ c.by = "strategy" /\ d.by = "strategy" /\ d.op = c.op
                 /\ d.id = c.id /\ d.reply = r /\ d.fill = 0
         /\ \A d \in cs : d # c => d \in Replied(cs, c, r)
         /\ c.by = "strategy" =>
              \E d \in Replied(cs, c, r) : /\ d.by = "strategy" /\ d.op = c.op
                                           /\ d.id = c.id /\ d.reply = r
         /\ \A d, e \in Replied(cs, c, r) : d \notin cs /\ e \notin cs => d = e
<1> DEFINE m == [c EXCEPT !.reply = r]
           a == [c EXCEPT !.reply = r, !.fill = 0]
<1>1. /\ a \in Requests /\ a.by = c.by /\ a.op = c.op /\ a.id = c.id /\ a.reply = r
      /\ a.fill = 0 /\ c.by \in {"strategy", "nobody"}
  <2> DEFINE R == [by : {"strategy", "nobody"}, op : {"post", "delete", "tick"}, id : 0..MaxOrders,
                   reply : {"none", "created", "odd", "ok", "error"}, fill : 0..Lots]
  <2>1. c \in R
    BY DEF Requests
  <2>2. m \in R /\ m.by = c.by /\ m.op = c.op /\ m.id = c.id /\ m.reply = r
    BY <2>1
  <2>3. a = [m EXCEPT !.fill = 0]
    BY Zenon
  <2> HIDE DEF m, a
  <2>4. a \in R /\ a.by = m.by /\ a.op = m.op /\ a.id = m.id /\ a.reply = m.reply /\ a.fill = 0
    BY <2>2, <2>3, Bounds
  <2>5. c.by \in {"strategy", "nobody"}
    BY <2>1
  <2> QED BY <2>2, <2>4, <2>5 DEF Requests
<1>2. Replied(cs, c, r) = (cs \ {c}) \cup (IF c.by = "nobody" THEN {} ELSE {a})
  BY DEF Replied
<1> HIDE DEF a
<1>3. CASE c.by = "nobody"
  BY <1>1, <1>2, <1>3
<1>4. CASE c.by = "strategy"
  BY <1>1, <1>2, <1>4
<1> QED BY <1>1, <1>3, <1>4

\* A POST is accepted, or refused.
LEMMA PostAnswered ==
  ASSUME NEW ve, NEW fi, NEW cs, NEW al, NEW lv, NEW st, NEW c \in cs, NEW r, NEW at,
         OrdersInv(ve, fi, cs, al, lv, st), c.op = "post", c.reply = "none",
         \/ r \in {"created", "odd"} /\ at = "resting"
         \/ r = "error" /\ at = "gone"
  PROVE  /\ OrdersInv(Moved(ve, c.id, at), fi, Replied(cs, c, r), al, lv, st)
         /\ Explained(ve, cs, al, lv, st) =>
              Explained(Moved(ve, c.id, at), Replied(cs, c, r), al, lv, st)
<1> DEFINE w == Moved(ve, c.id, at)
           ds == Replied(cs, c, r)
<1>1. /\ Shapes(ve, fi, cs, al, lv, st) /\ Posts(ve, cs, al, lv, st)
      /\ Deletes(ve, cs, al, lv, st) /\ Known(ve, al, lv)
      /\ Filling(ve, fi, cs, al, st) /\ Held(ve, fi, cs, al, lv, st)
  BY DEF OrdersInv
<1>2. Post(c, ve, cs, al, lv, st)
  BY <1>1 DEF Posts
<1>3. /\ ve \in Seq(Orders) /\ Len(ve) \in Nat /\ c.id \in 1..Len(ve)
      /\ DOMAIN al \subseteq 1..Len(ve) /\ cs \subseteq Requests
      /\ \A t \in Sides : lv[t] # NoOrder => lv[t] \in DOMAIN al /\ ve[lv[t]].side = t
      /\ \A d \in cs : /\ d.op \in {"post", "delete"} => d.id \in 1..Len(ve)
                       /\ d.id <= Len(ve)
      /\ \A i \in 1..Len(ve) : /\ ve[i].at = "sent" => ve[i].left = Lots
                               /\ ve[i].at = "resting" => ve[i].left > 0
      /\ Lots > 0 /\ Lots \in Nat
  BY Shaped, Bounds
<1>4. at \in {"sent", "resting", "gone"} /\ at # "sent" /\ r \in {"created", "odd", "ok", "error"}
  OBVIOUS
<1>5. PICK n : n = c.id
  OBVIOUS
<1>6. /\ n \in 1..Len(ve) /\ n \notin DOMAIN al /\ ve[n].at = "sent" /\ ve[n].left = Lots
      /\ n # NoOrder
      /\ \A d \in cs : d.id = n => d = c
  BY <1>2, <1>3, <1>5 DEF Post
<1>7. /\ w \in Seq(Orders) /\ Len(w) = Len(ve)
      /\ \A i \in 1..Len(ve) : /\ w[i].side = ve[i].side /\ w[i].left = ve[i].left
                               /\ i # n => w[i] = ve[i]
      /\ w[n].at = at
  BY <1>3, <1>4, <1>5, MovedIs
<1>8. /\ ds \subseteq Requests
      /\ \A d \in ds : \/ d \in cs /\ d.id # n
                       \/ /\ c.by = "strategy" /\ d.by = "strategy" /\ d.op = "post"
                          /\ d.id = n /\ d.reply = r /\ d.fill = 0 /\ d \notin cs
      /\ \A d \in cs : d # c => d \in ds
      /\ c.by = "strategy" => \E d \in ds : d.by = "strategy" /\ d.op = "post" /\ d.id = n
      /\ \A d, e \in ds : d \notin cs /\ e \notin cs => d = e
  <2>1. /\ ds \subseteq Requests
        /\ \A d \in ds :
             \/ d \in cs /\ d # c
             \/ /\ c.by = "strategy" /\ d.by = "strategy" /\ d.op = c.op
                /\ d.id = c.id /\ d.reply = r /\ d.fill = 0
        /\ \A d \in cs : d # c => d \in ds
        /\ c.by = "strategy" =>
             \E d \in ds : d.by = "strategy" /\ d.op = c.op /\ d.id = c.id /\ d.reply = r
        /\ \A d, e \in ds : d \notin cs /\ e \notin cs => d = e
    BY <1>3, <1>4, RepliedIs
  <2> HIDE DEF ds
  <2>2. \A d \in ds : d.id = n /\ d.reply = r => d \notin cs
    BY <1>4, <1>6
  <2> QED BY <1>5, <1>6, <2>1, <2>2
<1> HIDE DEF w, ds
<1>9. Shapes(w, fi, ds, al, lv, st)
  <2>1. \A i \in 1..Len(w) : /\ w[i].at = "sent" => w[i].left = Lots
                             /\ w[i].at = "resting" => w[i].left > 0
    BY <1>3, <1>4, <1>6, <1>7
  <2>2. \A d \in ds : d.id <= Len(w)
    BY <1>3, <1>6, <1>7, <1>8
  <2>3. \A t \in Sides : lv[t] # NoOrder => lv[t] \in DOMAIN al /\ w[lv[t]].side = t
    BY <1>3, <1>7
  <2> QED BY <1>1, <1>7, <1>8, <2>1, <2>2, <2>3 DEF Shapes
<1>10. Posts(w, ds, al, lv, st)
  <2>1. SUFFICES ASSUME NEW d \in ds, d.op = "post" PROVE Post(d, w, ds, al, lv, st)
    BY DEF Posts
  <2>2. CASE d \in cs /\ d.id # n
    <3>1. Post(d, ve, cs, al, lv, st)
      BY <1>1, <2>1, <2>2 DEF Posts
    <3>2. w[d.id] = ve[d.id]
      BY <1>3, <1>7, <2>1, <2>2
    <3>3. \A e \in ds : e.id = d.id => e = d
      BY <1>8, <2>2, <3>1 DEF Post
    <3> QED BY <3>1, <3>2, <3>3 DEF Post
  <2>3. CASE /\ c.by = "strategy" /\ d.by = "strategy" /\ d.op = "post"
             /\ d.id = n /\ d.reply = r /\ d.fill = 0 /\ d \notin cs
    <3>1. \A e \in ds : e.id = d.id => e = d
      BY <1>8, <2>3
    <3>2. lv[ve[n].side] = NoOrder
      BY <1>2, <1>5, <2>3 DEF Post
    <3>3. w[n].side = ve[n].side
      BY <1>6, <1>7
    <3>4. d.fill + w[n].left <= Lots
      BY <1>3, <1>6, <1>7, <2>3
    <3> QED BY <1>4, <1>6, <1>7, <2>3, <3>1, <3>2, <3>3, <3>4 DEF Post
  <2> QED BY <1>8, <2>2, <2>3
<1>16. ASSUME NEW id \in 1..Len(ve), Excused(id, ve, al) PROVE Excused(id, w, al)
  <2>1. \A j \in DOMAIN al : w[j] = ve[j] /\ al[j].filled \in Nat
    BY <1>3, <1>6, <1>7, Shaped
  <2>2. Onward(ve, w, al, al)
    BY <1>3, <2>1 DEF Onward
  <2>3. w[id].side = ve[id].side
    BY <1>7
  <2> QED BY <1>16, <2>2, <2>3, ExcusedKeeps
<1>11. Deletes(w, ds, al, lv, st)
  <2>1. SUFFICES ASSUME NEW d \in ds, d.op = "delete" PROVE Delete(d, w, al, lv, st)
    BY DEF Deletes
  <2>2. d \in cs /\ d.id # n
    BY <1>8, <2>1
  <2>3. Delete(d, ve, al, lv, st)
    BY <1>1, <2>1, <2>2 DEF Deletes
  <2>4. w[d.id] = ve[d.id]
    BY <1>3, <1>7, <2>1, <2>2
  <2>5. Excused(d.id, ve, al) => Excused(d.id, w, al)
    BY <1>3, <1>16, <2>1, <2>2
  <2> QED BY <2>3, <2>4, <2>5 DEF Delete
<1>12. Known(w, al, lv)
  <2>1. \A id \in DOMAIN al : w[id] = ve[id]
    BY <1>3, <1>6, <1>7
  <2>2. \A id \in DOMAIN al : Excused(id, ve, al) => Excused(id, w, al)
    BY <1>3, <1>16
  <2> QED BY <1>1, <2>1, <2>2 DEF Known
<1>13. Filling(w, fi, ds, al, st)
  <2>1. \A id \in 1..Len(ve) : Account(id, w, fi, al) = Account(id, ve, fi, al)
    BY <1>7 DEF Account
  <2>2. \A id : Tracked(id, ds, al) => Tracked(id, cs, al)
    BY <1>5, <1>8 DEF Tracked
  <2> QED BY <1>1, <1>7, <2>1, <2>2 DEF Filling
<1>14. Held(w, fi, ds, al, lv, st)
  <2>1. \A t \in Sides : lv[t] # NoOrder => w[lv[t]] = ve[lv[t]]
    BY <1>3, <1>6, <1>7
  <2>2. \A d \in cs : d.op = "delete" => d \in ds
    BY <1>8
  <2> QED BY <1>1, <2>1, <2>2 DEF Held
<1>15. Explained(ve, cs, al, lv, st) => Explained(w, ds, al, lv, st)
  <2>1. SUFFICES ASSUME Explained(ve, cs, al, lv, st), NEW id \in 1..Len(ve), w[id].at = "resting"
                 PROVE  \/ lv[w[id].side] = id
                        \/ \E d \in ds : d.op = "post" /\ d.id = id
                        \/ id \in st \/ Excused(id, w, al)
    BY <1>7 DEF Explained
  <2>2. CASE id = n
    <3>1. c.by = "strategy" \/ n \in st
      BY <1>2, <1>3, <1>5 DEF Post, Requests
    <3> QED BY <1>8, <2>2, <3>1
  <2>3. CASE id # n
    <3>1. w[id] = ve[id]
      BY <1>7, <2>1, <2>3
    <3>2. \A d \in cs : d.id = id => d \in ds
      BY <1>5, <1>8, <2>3
    <3> QED BY <1>16, <2>1, <3>1, <3>2 DEF Explained
  <2> QED BY <2>2, <2>3
<1> QED BY <1>9, <1>10, <1>11, <1>12, <1>13, <1>14, <1>15 DEF OrdersInv, w, ds

\* A DELETE is answered: the order is gone, and was gone before if it failed.
LEMMA DeleteAnswered ==
  ASSUME NEW ve, NEW fi, NEW cs, NEW al, NEW lv, NEW st, NEW c \in cs, NEW r,
         OrdersInv(ve, fi, cs, al, lv, st), c.op = "delete", c.reply = "none",
         r = IF ve[c.id].at = "resting" THEN "ok" ELSE "error"
  PROVE  /\ OrdersInv(Moved(ve, c.id, "gone"), fi, Replied(cs, c, r), al, lv, st)
         /\ Explained(ve, cs, al, lv, st) =>
              Explained(Moved(ve, c.id, "gone"), Replied(cs, c, r), al, lv, st)
<1> DEFINE w == Moved(ve, c.id, "gone")
           ds == Replied(cs, c, r)
<1>1. /\ Shapes(ve, fi, cs, al, lv, st) /\ Posts(ve, cs, al, lv, st)
      /\ Deletes(ve, cs, al, lv, st) /\ Known(ve, al, lv)
      /\ Filling(ve, fi, cs, al, st) /\ Held(ve, fi, cs, al, lv, st)
  BY DEF OrdersInv
<1>2. Delete(c, ve, al, lv, st)
  BY <1>1 DEF Deletes
<1>3. /\ ve \in Seq(Orders) /\ Len(ve) \in Nat /\ c.id \in 1..Len(ve)
      /\ DOMAIN al \subseteq 1..Len(ve) /\ cs \subseteq Requests
      /\ \A t \in Sides : lv[t] # NoOrder => lv[t] \in DOMAIN al /\ ve[lv[t]].side = t
      /\ \A d \in cs : /\ d.op \in {"post", "delete"} => d.id \in 1..Len(ve)
                       /\ d.id <= Len(ve)
      /\ \A i \in 1..Len(ve) : /\ ve[i].at = "sent" => ve[i].left = Lots
                               /\ ve[i].at = "resting" => ve[i].left > 0
                               /\ ve[i].at \in {"sent", "resting", "gone"}
                               /\ ve[i].left \in Nat
      /\ Lots > 0 /\ Lots \in Nat
  <2>1. \A o \in Orders : o.at \in {"sent", "resting", "gone"}
    BY DEF Orders
  <2> QED BY Shaped, Bounds, <2>1
<1>4. r \in {"created", "odd", "ok", "error"} /\ c.by \in {"strategy", "nobody"}
  BY <1>3 DEF Requests
<1>5. PICK n : n = c.id
  OBVIOUS
<1>6. /\ n \in 1..Len(ve) /\ n # NoOrder
      /\ \/ ve[n].at = "resting" /\ r = "ok"
         \/ ve[n].at = "gone" /\ r = "error"
      /\ \A d \in cs : d.op = "post" => d.id # n
      /\ \A d \in cs : d.id = n /\ d.reply # "none" => d # c
      /\ c.by = "nobody" => n \in st \/ n \notin DOMAIN al
      /\ c.by = "strategy" => n \in DOMAIN al
  <2>1. \A d \in cs : d.op = "post" => d.id # n
    BY <1>1, <1>5 DEF Posts, Post
  <2>2. (ve[n].at = "resting" /\ r = "ok") \/ (ve[n].at = "gone" /\ r = "error")
    <3>1. ve[n].at \in {"resting", "gone"}
      BY <1>2, <1>3, <1>5 DEF Delete
    <3> QED BY <1>5, <3>1
  <2>3. /\ n # NoOrder
        /\ c.by = "nobody" => n \in st \/ n \notin DOMAIN al
        /\ c.by = "strategy" => n \in DOMAIN al
    BY <1>2, <1>5 DEF Delete
  <2> QED BY <1>3, <1>5, <2>1, <2>2, <2>3
<1>7. /\ w \in Seq(Orders) /\ Len(w) = Len(ve)
      /\ \A i \in 1..Len(ve) : /\ w[i].side = ve[i].side /\ w[i].left = ve[i].left
                               /\ i # n => w[i] = ve[i]
      /\ w[n].at = "gone"
  BY <1>3, <1>5, MovedIs
<1>8. /\ ds \subseteq Requests
      /\ \A d \in ds : \/ d \in cs
                       \/ /\ c.by = "strategy" /\ d.by = "strategy" /\ d.op = "delete"
                          /\ d.id = n /\ d.reply = r
      /\ \A d \in cs : d # c => d \in ds
      /\ c.by = "strategy" =>
           \E d \in ds : d.by = "strategy" /\ d.op = "delete" /\ d.id = n /\ d.reply = r
  <2>1. /\ ds \subseteq Requests
        /\ \A d \in ds :
             \/ d \in cs /\ d # c
             \/ /\ c.by = "strategy" /\ d.by = "strategy" /\ d.op = c.op
                /\ d.id = c.id /\ d.reply = r
        /\ \A d \in cs : d # c => d \in ds
        /\ c.by = "strategy" =>
             \E d \in ds : d.by = "strategy" /\ d.op = c.op /\ d.id = c.id /\ d.reply = r
        /\ \A d, e \in ds : d \notin cs /\ e \notin cs => d = e
    BY <1>3, <1>4, RepliedIs
  <2> HIDE DEF ds
  <2> QED BY <1>5, <2>1
<1> HIDE DEF w, ds
<1>9. ve[n].at = "resting" /\ n \in DOMAIN al => lv[ve[n].side] = n \/ Excused(n, ve, al)
  BY <1>1 DEF Known
<1>17. ASSUME NEW id \in 1..Len(ve), Excused(id, ve, al) PROVE Excused(id, w, al)
  <2>1. \A j \in DOMAIN al : al[j].filled \in Nat
    BY Shaped
  <2>2. \A j \in 1..Len(ve) : ve[j].at = "gone" => w[j].at = "gone"
    BY <1>7
  <2>3. Onward(ve, w, al, al)
    BY <1>3, <1>7, <2>1, <2>2 DEF Onward
  <2>4. w[id].side = ve[id].side
    BY <1>7
  <2> QED BY <1>17, <2>3, <2>4, ExcusedKeeps
<1>10. Shapes(w, fi, ds, al, lv, st)
  <2>1. \A i \in 1..Len(w) : /\ w[i].at = "sent" => w[i].left = Lots
                             /\ w[i].at = "resting" => w[i].left > 0
    BY <1>3, <1>6, <1>7
  <2>2. \A d \in ds : d.id <= Len(w)
    BY <1>3, <1>6, <1>7, <1>8
  <2>3. \A t \in Sides : lv[t] # NoOrder => lv[t] \in DOMAIN al /\ w[lv[t]].side = t
    BY <1>3, <1>7
  <2> QED BY <1>1, <1>7, <1>8, <2>1, <2>2, <2>3 DEF Shapes
<1>11. Posts(w, ds, al, lv, st)
  <2>1. SUFFICES ASSUME NEW d \in ds, d.op = "post" PROVE Post(d, w, ds, al, lv, st)
    BY DEF Posts
  <2>2. d \in cs /\ d.id # n
    BY <1>6, <1>8, <2>1
  <2>3. Post(d, ve, cs, al, lv, st)
    BY <1>1, <2>1, <2>2 DEF Posts
  <2>4. w[d.id] = ve[d.id]
    BY <1>3, <1>7, <2>1, <2>2
  <2>5. \A e \in ds : e.id = d.id => e = d
    BY <1>8, <2>2, <2>3 DEF Post
  <2> QED BY <2>3, <2>4, <2>5 DEF Post
<1>12. Deletes(w, ds, al, lv, st)
  <2>1. SUFFICES ASSUME NEW d \in ds, d.op = "delete" PROVE Delete(d, w, al, lv, st)
    BY DEF Deletes
  <2>2. CASE d \in cs
    <3>1. Delete(d, ve, al, lv, st)
      BY <1>1, <2>1, <2>2 DEF Deletes
    <3>2. d.id \in 1..Len(ve)
      BY <1>3, <2>1, <2>2
    <3>3. /\ w[d.id].side = ve[d.id].side /\ w[d.id].left = ve[d.id].left
          /\ w[d.id].at = "gone" \/ w[d.id].at = ve[d.id].at
      BY <1>7, <3>2
    <3>4. ve[d.id].at = "gone" => w[d.id].at = "gone"
      BY <3>3
    <3>5. Excused(d.id, ve, al) => Excused(d.id, w, al)
      BY <1>17, <3>2
    <3>6. w[d.id].at # "sent"
      BY <3>1, <3>3 DEF Delete
    <3> QED BY <3>1, <3>3, <3>4, <3>5, <3>6 DEF Delete
  <2>3. CASE d \notin cs
    <3>1. /\ c.by = "strategy" /\ d.by = "strategy" /\ d.id = n /\ d.reply = r
      BY <1>8, <2>3
    <3>2. r = "ok" => /\ w[n].left > 0
                      /\ lv[w[n].side] = n \/ Excused(n, w, al)
      BY <1>3, <1>6, <1>7, <1>9, <1>17, <3>1
    <3>3. lv[w[n].side] \in {n, NoOrder}
      BY <1>2, <1>5, <1>6, <1>7, <3>1 DEF Delete
    <3> QED BY <1>6, <1>7, <3>1, <3>2, <3>3 DEF Delete
  <2> QED BY <2>2, <2>3
<1>13. Known(w, al, lv)
  <2>1. SUFFICES ASSUME NEW id \in DOMAIN al
        PROVE  /\ w[id].at # "sent"
               /\ \/ lv[w[id].side] = id
                  \/ w[id].at = "gone" /\ w[id].left > 0
                  \/ Excused(id, w, al)
    BY DEF Known
  <2>2. /\ w[id].side = ve[id].side /\ w[id].left = ve[id].left
        /\ w[id].at = "gone" \/ w[id].at = ve[id].at
    BY <1>3, <1>7, <2>1
  <2>3. Excused(id, ve, al) => Excused(id, w, al)
    BY <1>3, <1>17, <2>1
  <2>4. /\ ve[id].at # "sent"
        /\ lv[ve[id].side] = id \/ (ve[id].at = "gone" /\ ve[id].left > 0) \/ Excused(id, ve, al)
    BY <1>1, <2>1 DEF Known
  <2> QED BY <2>2, <2>3, <2>4
<1>14. Filling(w, fi, ds, al, st)
  <2>1. \A id \in 1..Len(ve) : Account(id, w, fi, al) = Account(id, ve, fi, al)
    BY <1>7 DEF Account
  <2>2. \A id : Tracked(id, ds, al) => Tracked(id, cs, al)
    BY <1>8 DEF Tracked
  <2> QED BY <1>1, <1>7, <2>1, <2>2 DEF Filling
<1>15. Held(w, fi, ds, al, lv, st)
  <2>1. SUFFICES ASSUME NEW t \in Sides, lv[t] # NoOrder
                 PROVE  /\ al[lv[t]].filled < Lots \/ Pend(fi, lv[t]) > 0 \/ lv[t] \in st
                        /\ \/ w[lv[t]].at = "resting" \/ lv[t] \in st \/ w[lv[t]].left = 0
                           \/ \E d \in ds : /\ d.by = "strategy" /\ d.op = "delete"
                                            /\ d.id = lv[t] /\ d.reply = "ok"
    BY DEF Held
  <2>2. \A d \in cs : d.reply = "ok" => d \in ds
    BY <1>8
  <2>3. /\ al[lv[t]].filled < Lots \/ Pend(fi, lv[t]) > 0 \/ lv[t] \in st
        /\ \/ ve[lv[t]].at = "resting" \/ lv[t] \in st \/ ve[lv[t]].left = 0
           \/ \E d \in cs : /\ d.by = "strategy" /\ d.op = "delete"
                            /\ d.id = lv[t] /\ d.reply = "ok"
    BY <1>1, <2>1 DEF Held
  <2>4. lv[t] \in DOMAIN al /\ lv[t] \in 1..Len(ve)
    BY <1>3, <2>1
  <2>5. CASE lv[t] = n /\ ve[n].at = "resting"
    BY <1>4, <1>6, <1>8, <2>3, <2>4, <2>5
  <2>6. CASE lv[t] = n /\ ve[n].at # "resting"
    BY <1>7, <2>2, <2>3, <2>4, <2>6
  <2>7. CASE lv[t] # n
    <3>1. w[lv[t]] = ve[lv[t]]
      BY <1>7, <2>4, <2>7
    <3> QED BY <2>2, <2>3, <3>1
  <2> QED BY <2>5, <2>6, <2>7
<1>16. Explained(ve, cs, al, lv, st) => Explained(w, ds, al, lv, st)
  <2>1. SUFFICES ASSUME Explained(ve, cs, al, lv, st), NEW id \in 1..Len(ve), w[id].at = "resting"
                 PROVE  \/ lv[w[id].side] = id
                        \/ \E d \in ds : d.op = "post" /\ d.id = id
                        \/ id \in st \/ Excused(id, w, al)
    BY <1>7 DEF Explained
  <2>2. w[id] = ve[id]
    BY <1>7, <2>1
  <2>3. \A d \in cs : d.op = "post" => d \in ds
    BY <1>8
  <2>4. Excused(id, ve, al) => Excused(id, w, al)
    BY <1>17
  <2> QED BY <2>1, <2>2, <2>3, <2>4 DEF Explained
<1> QED BY <1>10, <1>11, <1>12, <1>13, <1>14, <1>15, <1>16 DEF OrdersInv, w, ds

\* An order trades while the process is up: the event is on its way.
LEMMA SoldKeeps ==
  ASSUME NEW ve, NEW fi, NEW cs, NEW al, NEW lv, NEW st, NEW n, NEW qty, NEW e,
         OrdersInv(ve, fi, cs, al, lv, st), n \in 1..Len(ve), qty \in 1..ve[n].left, ve[n].at = "resting",
         e \in Events, e.id = n, e.qty = qty
  PROVE  /\ OrdersInv(Sold(ve, n, qty), Append(fi, e), cs, al, lv, st)
         /\ Explained(ve, cs, al, lv, st) => Explained(Sold(ve, n, qty), cs, al, lv, st)
<1> DEFINE w == Sold(ve, n, qty)
           f == Append(fi, e)
<1>1. /\ Shapes(ve, fi, cs, al, lv, st) /\ Posts(ve, cs, al, lv, st)
      /\ Deletes(ve, cs, al, lv, st) /\ Known(ve, al, lv)
      /\ Filling(ve, fi, cs, al, st) /\ Held(ve, fi, cs, al, lv, st)
  BY DEF OrdersInv
<1>2. /\ ve \in Seq(Orders) /\ Len(ve) \in Nat /\ DOMAIN al \subseteq 1..Len(ve)
      /\ fi \in Seq(Events)
      /\ \A t \in Sides : lv[t] # NoOrder => lv[t] \in DOMAIN al /\ ve[lv[t]].side = t
      /\ \A d \in cs : d.op \in {"post", "delete"} => d.id \in 1..Len(ve)
      /\ \A i \in 1..Len(ve) : /\ ve[i].at = "sent" => ve[i].left = Lots
                               /\ ve[i].at = "resting" => ve[i].left > 0
                               /\ ve[i].left \in Nat
      /\ Lots > 0 /\ Lots \in Nat
  BY Shaped, Bounds
<1>3. /\ w \in Seq(Orders) /\ Len(w) = Len(ve)
      /\ \A i \in 1..Len(ve) : w[i].side = ve[i].side /\ (i # n => w[i] = ve[i])
      /\ w[n].left = ve[n].left - qty
      /\ w[n].at = IF qty < ve[n].left THEN "resting" ELSE "gone"
  <2>1. /\ Sold(ve, n, qty) \in Seq(Orders) /\ Len(Sold(ve, n, qty)) = Len(ve)
        /\ \A i \in 1..Len(ve) : /\ Sold(ve, n, qty)[i].side = ve[i].side
                                 /\ i # n => Sold(ve, n, qty)[i] = ve[i]
    BY <1>2, SoldIs
  <2>2. Sold(ve, n, qty)[n].left = ve[n].left - qty
    BY <1>2, SoldIs
  <2>3. Sold(ve, n, qty)[n].at = IF qty < ve[n].left THEN "resting" ELSE "gone"
    BY <1>2, SoldIs
  <2> QED BY <2>1, <2>2, <2>3
<1>4. f \in Seq(Events) /\ Len(f) = Len(fi) + 1 /\ f[Len(fi) + 1] = e /\ \A i \in 1..Len(fi) : f[i] = fi[i]
  BY <1>2, SeqAppend
<1>5. PICK k \in Nat, l \in Nat : /\ k = qty /\ k > 0 /\ l = ve[n].left /\ k <= l
                                  /\ w[n].left = l - k
                                  /\ w[n].at = IF k < l THEN "resting" ELSE "gone"
  <2>1. qty \in Nat /\ ve[n].left \in Nat /\ qty > 0 /\ qty <= ve[n].left
    BY <1>2
  <2> HIDE DEF w
  <2> QED BY <1>3, <2>1
<1> HIDE DEF w, f
<1>6. w[n].left \in Nat /\ w[n].left < ve[n].left /\ w[n].at # "sent" /\ (w[n].at = "resting" <=> w[n].left > 0)
  BY <1>5
<1>7. Shapes(w, f, cs, al, lv, st)
  <2>1. \A i \in 1..Len(w) : /\ w[i].at = "sent" => w[i].left = Lots
                             /\ w[i].at = "resting" => w[i].left > 0
    BY <1>2, <1>3, <1>6
  <2>2. \A i \in 1..Len(f) : f[i].id <= Len(w)
    <3>1. \A i \in 1..Len(fi) : fi[i].id <= Len(ve)
      BY <1>1 DEF Shapes
    <3>2. SUFFICES ASSUME NEW i \in 1..Len(f) PROVE f[i].id <= Len(w)
      OBVIOUS
    <3>3. Len(fi) \in Nat
      BY <1>2
    <3>4. CASE i = Len(fi) + 1
      BY <1>3, <1>4, <3>4
    <3>5. CASE i \in 1..Len(fi)
      BY <1>3, <1>4, <3>1, <3>5
    <3> QED BY <1>4, <3>3, <3>4, <3>5
  <2>3. \A t \in Sides : lv[t] # NoOrder => lv[t] \in DOMAIN al /\ w[lv[t]].side = t
    BY <1>2, <1>3
  <2> QED BY <1>1, <1>3, <1>4, <2>1, <2>2, <2>3 DEF Shapes
<1>8. Posts(w, cs, al, lv, st)
  <2>1. SUFFICES ASSUME NEW d \in cs, d.op = "post" PROVE Post(d, w, cs, al, lv, st)
    BY DEF Posts
  <2>2. Post(d, ve, cs, al, lv, st)
    BY <1>1, <2>1 DEF Posts
  <2>3. CASE d.id = n
    <3>1. d.reply \in {"created", "odd"} /\ d.fill + ve[n].left <= Lots
      BY <2>2, <2>3 DEF Post
    <3>2. w[n].side = ve[n].side /\ (w[n].at = "resting" \/ w[n].left = 0)
      BY <1>3, <1>6
    <3>3. d.fill \in Nat
      BY <1>1, <1>2 DEF Shapes, Requests
    <3>4. d.fill + w[n].left <= Lots
      BY <1>2, <1>6, <3>1, <3>3
    <3> QED BY <1>6, <2>2, <2>3, <3>1, <3>2, <3>4 DEF Post
  <2>4. CASE d.id # n
    <3>1. w[d.id] = ve[d.id]
      BY <1>2, <1>3, <2>1, <2>4
    <3> QED BY <2>2, <3>1 DEF Post
  <2> QED BY <2>3, <2>4
<1>14. ASSUME NEW id \in 1..Len(ve), Excused(id, ve, al) PROVE Excused(id, w, al)
  <2>1. \A j \in DOMAIN al : al[j].filled \in Nat
    BY <1>1, Shaped
  <2>2. \A j \in 1..Len(ve) : ve[j].at = "gone" => w[j] = ve[j]
    BY <1>3
  <2>3. Onward(ve, w, al, al)
    BY <1>2, <1>3, <2>1, <2>2 DEF Onward
  <2>4. w[id].side = ve[id].side
    BY <1>3
  <2> QED BY <1>14, <2>3, <2>4, ExcusedKeeps
<1>9. Deletes(w, cs, al, lv, st)
  <2>1. SUFFICES ASSUME NEW d \in cs, d.op = "delete" PROVE Delete(d, w, al, lv, st)
    BY DEF Deletes
  <2>2. Delete(d, ve, al, lv, st)
    BY <1>1, <2>1 DEF Deletes
  <2>5. Excused(d.id, ve, al) => Excused(d.id, w, al)
    BY <1>2, <1>14, <2>1
  <2>3. CASE d.id = n
    <3>1. w[n].side = ve[n].side /\ (d.by = "strategy" => d.reply # "ok")
      BY <1>3, <2>2, <2>3 DEF Delete
    <3> QED BY <1>6, <2>2, <2>3, <3>1 DEF Delete
  <2>4. CASE d.id # n
    <3>1. w[d.id] = ve[d.id]
      BY <1>2, <1>3, <2>1, <2>4
    <3> QED BY <2>2, <2>5, <3>1 DEF Delete
  <2> QED BY <2>3, <2>4
<1>10. Known(w, al, lv)
  <2>1. SUFFICES ASSUME NEW id \in DOMAIN al
        PROVE  /\ w[id].at # "sent"
               /\ \/ lv[w[id].side] = id
                  \/ w[id].at = "gone" /\ w[id].left > 0
                  \/ Excused(id, w, al)
    BY DEF Known
  <2>4. /\ ve[id].at # "sent"
        /\ lv[ve[id].side] = id \/ (ve[id].at = "gone" /\ ve[id].left > 0) \/ Excused(id, ve, al)
    BY <1>1, <2>1 DEF Known
  <2>5. Excused(id, ve, al) => Excused(id, w, al)
    BY <1>2, <1>14, <2>1
  <2>2. CASE id = n
    BY <1>3, <1>6, <2>1, <2>2, <2>4, <2>5
  <2>3. CASE id # n
    <3>1. w[id] = ve[id]
      BY <1>2, <1>3, <2>1, <2>3
    <3> QED BY <2>4, <2>5, <3>1
  <2> QED BY <2>2, <2>3
<1>11. Filling(w, f, cs, al, st)
  <2>1. SUFFICES ASSUME NEW id \in 1..Len(ve) PROVE Account(id, w, f, al) = Account(id, ve, fi, al)
    BY <1>1, <1>3 DEF Filling
  <2>2. Pend(f, id) = Pend(fi, id) + (IF e.id = id THEN e.qty ELSE 0)
    BY <1>2, PendAppend DEF f
  <2>3. Pend(fi, id) \in Nat /\ Filled(al, id) \in Nat
    BY <1>2, PendType, Shaped DEF Filled
  <2>4. CASE id = n
    <3>1. Pend(f, id) = Pend(fi, id) + k
      BY <1>5, <2>2, <2>4
    <3> QED BY <1>5, <2>3, <2>4, <3>1 DEF Account
  <2>5. CASE id # n
    <3>1. Pend(f, id) = Pend(fi, id)
      BY <2>2, <2>3, <2>5
    <3> QED BY <1>3, <2>5, <3>1 DEF Account
  <2> QED BY <2>4, <2>5
<1>12. Held(w, f, cs, al, lv, st)
  <2>1. SUFFICES ASSUME NEW t \in Sides, lv[t] # NoOrder
                 PROVE  /\ al[lv[t]].filled < Lots \/ Pend(f, lv[t]) > 0 \/ lv[t] \in st
                        /\ \/ w[lv[t]].at = "resting" \/ lv[t] \in st \/ w[lv[t]].left = 0
                           \/ \E d \in cs : /\ d.by = "strategy" /\ d.op = "delete"
                                            /\ d.id = lv[t] /\ d.reply = "ok"
    BY DEF Held
  <2>2. lv[t] \in 1..Len(ve)
    BY <1>2, <2>1
  <2>5. Pend(fi, lv[t]) > 0 => Pend(f, lv[t]) > 0
    <3>1. Pend(f, lv[t]) = Pend(fi, lv[t]) + (IF e.id = lv[t] THEN e.qty ELSE 0)
      BY <1>2, PendAppend DEF f
    <3>2. Pend(fi, lv[t]) \in Nat /\ e.qty \in Nat
      BY <1>2, <1>5, PendType
    <3> QED BY <3>1, <3>2
  <2>6. /\ al[lv[t]].filled < Lots \/ Pend(fi, lv[t]) > 0 \/ lv[t] \in st
        /\ \/ ve[lv[t]].at = "resting" \/ lv[t] \in st \/ ve[lv[t]].left = 0
           \/ \E d \in cs : /\ d.by = "strategy" /\ d.op = "delete"
                            /\ d.id = lv[t] /\ d.reply = "ok"
    BY <1>1, <2>1 DEF Held
  <2>3. CASE lv[t] = n
    BY <1>6, <2>3, <2>5, <2>6
  <2>4. CASE lv[t] # n
    <3>1. w[lv[t]] = ve[lv[t]]
      BY <1>3, <2>2, <2>4
    <3> QED BY <2>5, <2>6, <3>1
  <2> QED BY <2>3, <2>4
<1>13. Explained(ve, cs, al, lv, st) => Explained(w, cs, al, lv, st)
  <2>1. \A i \in 1..Len(ve) : w[i].at = "resting" => ve[i].at = "resting" /\ w[i].side = ve[i].side
    BY <1>3
  <2> QED BY <1>3, <1>14, <2>1 DEF Explained
<1> QED BY <1>7, <1>8, <1>9, <1>10, <1>11, <1>12, <1>13 DEF OrdersInv, w, f

\* The answer to a POST says how much of the order has traded, which is an
\* excuse for nothing yet.
LEMMA FillNoted ==
  ASSUME NEW ve, NEW fi, NEW cs, NEW al, NEW lv, NEW st, NEW c, NEW f,
         OrdersInv(ve, fi, cs, al, lv, st), c \in cs, c.op = "post", c.reply = "created",
         f \in 0..Lots, f + ve[c.id].left <= Lots
  PROVE  /\ OrdersInv(ve, fi, (cs \ {c}) \cup {[c EXCEPT !.fill = f]}, al, lv, st)
         /\ Explained(ve, cs, al, lv, st) =>
              Explained(ve, (cs \ {c}) \cup {[c EXCEPT !.fill = f]}, al, lv, st)
<1> DEFINE a == [c EXCEPT !.fill = f]
           ds == (cs \ {c}) \cup {a}
<1>1. /\ Shapes(ve, fi, cs, al, lv, st) /\ Posts(ve, cs, al, lv, st)
      /\ Deletes(ve, cs, al, lv, st) /\ Known(ve, al, lv)
      /\ Filling(ve, fi, cs, al, st) /\ Held(ve, fi, cs, al, lv, st)
  BY DEF OrdersInv
<1>2. /\ a \in Requests /\ a.by = c.by /\ a.op = "post" /\ a.id = c.id
      /\ a.reply = "created" /\ a.fill = f
  BY <1>1 DEF Shapes, Requests
<1> HIDE DEF a
<1>3. Post(c, ve, cs, al, lv, st)
  BY <1>1 DEF Posts
<1>4. \A d \in ds : d = a \/ (d \in cs /\ d.id # a.id)
  BY <1>2, <1>3 DEF Post
<1>5. \A d \in cs : d = c \/ d \in ds
  OBVIOUS
<1>6. a \in ds
  OBVIOUS
<1> HIDE DEF ds
<1>7. Shapes(ve, fi, ds, al, lv, st)
  <2>1. ds \subseteq Requests /\ \A d \in ds : d.id <= Len(ve)
    BY <1>1, <1>2, <1>4 DEF Shapes
  <2> QED BY <1>1, <2>1 DEF Shapes
<1>8. Posts(ve, ds, al, lv, st)
  <2>1. SUFFICES ASSUME NEW d \in ds, d.op = "post" PROVE Post(d, ve, ds, al, lv, st)
    BY DEF Posts
  <2>2. CASE d = a
    <3>1. \A e \in ds : e.id = d.id => e = d
      BY <1>4, <2>2
    <3>2. f \in Int /\ ve[d.id].at = ve[c.id].at /\ ve[d.id].left = ve[c.id].left
      BY <1>2, <2>2, Bounds
    <3> QED BY <1>2, <1>3, <2>2, <3>1, <3>2 DEF Post
  <2>3. CASE d \in cs /\ d.id # a.id
    <3>1. Post(d, ve, cs, al, lv, st)
      BY <1>1, <2>1, <2>3 DEF Posts
    <3>2. \A e \in ds : e.id = d.id => e = d
      BY <1>4, <2>3, <3>1 DEF Post
    <3> QED BY <3>1, <3>2 DEF Post
  <2> QED BY <1>4, <2>2, <2>3
<1>9. Deletes(ve, ds, al, lv, st)
  <2>1. \A d \in ds : d.op = "delete" => d \in cs
    BY <1>2, <1>4
  <2> QED BY <1>1, <2>1 DEF Deletes
<1>10. Filling(ve, fi, ds, al, st)
  <2>1. \A id : Tracked(id, ds, al) => Tracked(id, cs, al)
    BY <1>2, <1>4 DEF Tracked
  <2> QED BY <1>1, <2>1 DEF Filling
<1>11. Held(ve, fi, ds, al, lv, st)
  <2>1. \A d \in cs : d.op = "delete" => d \in ds
    BY <1>5
  <2> QED BY <1>1, <2>1 DEF Held
<1>12. Explained(ve, cs, al, lv, st) => Explained(ve, ds, al, lv, st)
  BY <1>2, <1>5, <1>6 DEF Explained
<1> QED BY <1>1, <1>7, <1>8, <1>9, <1>10, <1>11, <1>12 DEF OrdersInv, ds, a

\* Without a process nothing is known, and orders that were answered for may
\* trade or be cancelled without anyone being told.
LEMMA DownKeeps ==
  ASSUME NEW ve, NEW w, NEW fi, NEW cs, NEW al, NEW lv, NEW st,
         OrdersInv(ve, fi, cs, al, lv, st), DOMAIN al = {}, \A c \in cs : c.by # "strategy",
         w \in Seq(Orders), Len(w) = Len(ve),
         \A i \in 1..Len(ve) : /\ w[i].at = "sent" <=> ve[i].at = "sent"
                               /\ w[i].at = "sent" => w[i].left = Lots
                               /\ w[i].at = "resting" => w[i].left > 0
                               /\ w[i].left <= ve[i].left
  PROVE  OrdersInv(w, fi, cs, al, lv, st)
<1>1. /\ Shapes(ve, fi, cs, al, lv, st) /\ Posts(ve, cs, al, lv, st)
      /\ Deletes(ve, cs, al, lv, st) /\ Known(ve, al, lv)
      /\ Filling(ve, fi, cs, al, st) /\ Held(ve, fi, cs, al, lv, st)
  BY DEF OrdersInv
<1>2. \A t \in Sides : lv[t] = NoOrder
  BY <1>1 DEF Shapes
<1>3. /\ \A c \in cs : /\ c.op \in {"post", "delete"} => c.id \in 1..Len(ve)
                       /\ c.by = "nobody"
      /\ \A i \in 1..Len(ve) : ve[i].left \in Nat
      /\ fi \in Seq(Events) /\ Lots \in Nat
  BY Shaped, Bounds
<1>4. Shapes(w, fi, cs, al, lv, st)
  BY <1>1, <1>2 DEF Shapes
<1>5. Posts(w, cs, al, lv, st)
  <2>1. SUFFICES ASSUME NEW d \in cs, d.op = "post" PROVE Post(d, w, cs, al, lv, st)
    BY DEF Posts
  <2>2. Post(d, ve, cs, al, lv, st) /\ d.reply = "none" /\ d.by = "nobody"
    BY <1>1, <1>3, <2>1 DEF Posts, Post
  <2>3. w[d.id].at = "sent"
    BY <1>3, <2>1, <2>2 DEF Post
  <2> QED BY <2>2, <2>3 DEF Post
<1>6. Deletes(w, cs, al, lv, st)
  <2>1. SUFFICES ASSUME NEW d \in cs, d.op = "delete" PROVE Delete(d, w, al, lv, st)
    BY DEF Deletes
  <2>2. Delete(d, ve, al, lv, st) /\ d.by = "nobody"
    BY <1>1, <1>3, <2>1 DEF Deletes
  <2>3. w[d.id].at # "sent"
    BY <1>3, <2>1, <2>2 DEF Delete
  <2> QED BY <2>2, <2>3 DEF Delete
<1>7. Known(w, al, lv) /\ Held(w, fi, cs, al, lv, st)
  BY <1>2 DEF Known, Held
<1>8. Filling(w, fi, cs, al, st)
  BY DEF Filling, Tracked
<1> QED BY <1>4, <1>5, <1>6, <1>7, <1>8 DEF OrdersInv

\* The calls that are still under way when their process is not.
Outliving(cs, own) == (cs \ own) \cup Abandoned(own)

\* su is about orders of the exchange, and about those of st at least.
Wider(st, su, ve) == st \subseteq su /\ su \subseteq 1..Len(ve)

\* The end of a process: it knows nothing, and what it waited for is nobody's.
LEMMA Forgotten ==
  ASSUME NEW ve, NEW fi, NEW cs, NEW al, NEW lv, NEW st, NEW own, NEW su, NEW b, NEW w,
         OrdersInv(ve, fi, cs, al, lv, st), own \subseteq cs,
         \A c \in cs : c \in own <=> c.by = "strategy",
         Wider(st, su, ve),
         \A c \in own : c.reply = "none" /\ c.op = "post" => c.id \in su,
         b = <<>>, w \in [Sides -> 0..MaxOrders], \A t \in Sides : w[t] = NoOrder
  PROVE  /\ OrdersInv(ve, <<>>, Outliving(cs, own), b, w, su)
         /\ \A d \in Outliving(cs, own) : d.by # "strategy"
<1> DEFINE ds == (cs \ own) \cup Abandoned(own)
           every == 1..Len(ve)
<1>1. /\ Shapes(ve, fi, cs, al, lv, st) /\ Posts(ve, cs, al, lv, st)
  BY DEF OrdersInv
<1>2. \A c \in cs : c.op \in {"post", "delete"} => c.id \in every
  BY Shaped
<1>3. OrdersInv(ve, fi, ds, al, lv, every)
  <2>1. /\ \A c \in own : c.reply = "none" /\ c.op # "tick" => c.id \in every
        /\ \A c \in own : c.op = "delete" /\ c.by = "strategy" /\ c.reply = "ok" => c.id \in every
    <3>1. \A c \in cs : c.op \in {"post", "delete", "tick"}
      BY <1>1 DEF Shapes, Requests
    <3> QED BY <1>2, <3>1
  <2>2. st \subseteq every /\ every \subseteq 1..Len(ve)
    BY DEF Wider
  <2> HIDE DEF every
  <2> QED BY <2>1, <2>2, GivenUp
<1>4. /\ Shapes(ve, fi, ds, al, lv, every) /\ Posts(ve, ds, al, lv, every)
      /\ Deletes(ve, ds, al, lv, every)
  BY <1>3 DEF OrdersInv
<1>5. \A d \in Abandoned(own) :
        /\ d.by = "nobody" /\ d.reply = "none" /\ d.op # "tick"
        /\ \E c \in own : c.reply = "none" /\ d.op = c.op /\ d.id = c.id
  <2>1. cs \subseteq Requests
    BY <1>1 DEF Shapes
  <2> QED BY <2>1, AbandonedIs
<1>6. \A d \in ds : d.by # "strategy"
  BY <1>5
<1>7. DOMAIN b = {} /\ b \in [DOMAIN b -> Records]
  OBVIOUS
<1>8. /\ <<>> \in Seq(Events) /\ Len(<<>>) = 0
      /\ \A id : Pend(<<>>, id) = 0 /\ Filled(b, id) = 0
  <2>1. \A id : Pend(<<>>, id) = 0
    BY PendEmpty
  <2> QED BY <1>7, <2>1 DEF Filled
<1> HIDE DEF ds
<1>9. Shapes(ve, <<>>, ds, b, w, su)
  <2>1. /\ ve \in Seq(Orders) /\ Len(ve) <= MaxOrders
        /\ \A i \in 1..Len(ve) : /\ ve[i].at = "sent" => ve[i].left = Lots
                                 /\ ve[i].at = "resting" => ve[i].left > 0
        /\ ds \subseteq Requests /\ \A c \in ds : c.id <= Len(ve)
    BY <1>4 DEF Shapes
  <2>3. su \subseteq 1..Len(ve)
    BY DEF Wider
  <2>2. \A i \in 1..Len(<<>>) : <<>>[i].id <= Len(ve)
    BY <1>8
  <2> QED BY <1>7, <1>8, <2>1, <2>2, <2>3 DEF Shapes
<1>10. Posts(ve, ds, b, w, su)
  <2>1. SUFFICES ASSUME NEW d \in ds, d.op = "post" PROVE Post(d, ve, ds, b, w, su)
    BY DEF Posts
  <2>2. Post(d, ve, ds, al, lv, every) /\ d.by # "strategy"
    BY <1>4, <1>6, <2>1 DEF Posts
  <2>3. d.by = "nobody" => d.id \in su
    <3>1. CASE d \in cs
      <4>1. Post(d, ve, cs, al, lv, st)
        BY <1>1, <2>1, <3>1 DEF Posts
      <4> QED BY <4>1 DEF Post, Wider
    <3>2. CASE d \in Abandoned(own)
      BY <1>5, <2>1, <3>2
    <3> QED BY <3>1, <3>2 DEF ds
  <2> QED BY <1>7, <2>2, <2>3 DEF Post
<1>11. Deletes(ve, ds, b, w, su)
  BY <1>4, <1>6, <1>7 DEF Deletes, Delete
<1>12. Known(ve, b, w) /\ Held(ve, <<>>, ds, b, w, su)
  BY <1>7 DEF Known, Held
<1>13. Filling(ve, <<>>, ds, b, su)
  BY <1>6, <1>7 DEF Filling, Tracked
<1>14. OrdersInv(ve, <<>>, ds, b, w, su)
  BY <1>9, <1>10, <1>11, <1>12, <1>13 DEF OrdersInv
<1> QED BY <1>6, <1>14 DEF ds, Outliving

-----------------------------------------------------------------------------
(* Proceed, and what it sends.                                             *)

\* A step of the update sends a POST for a new order, or none.
Sent == venue' = venue \/ \E o \in Orders : /\ venue' = Append(venue, o)
                                            /\ o.left = Lots /\ o.at = "sent"

\* A POST for a side that holds no order and waits for none.
LEMMA SendKeeps ==
  ASSUME NEW s \in Sides, NEW v \in Views, NEW t \in {NoTick, Cent, Step},
         NEW al, NEW lv, NEW cs, NEW fi, NEW st,
         OrdersInv(venue, fi, cs, al, lv, st), lv[s] = NoOrder, CanSend, SendPost(s, v, t, cs)
  PROVE  /\ OrdersInv(venue', fi, calls', al, lv, st)
         /\ Explained(venue, cs, al, lv, st) => Explained(venue', calls', al, lv, st)
         /\ Sent
<1> DEFINE p == RoundToTick(QuotePrice(v, s), t)
           o == [side |-> s, price |-> p, left |-> Lots, at |-> "sent"]
<1>1. p \in Int
  BY PriceIsWhole
<1>2. /\ venue' = Append(venue, o) /\ calls' = cs \cup {Call("post", Len(venue) + 1)}
  BY DEF SendPost
<1> HIDE DEF p
<1>3. o \in Orders /\ o.side = s /\ o.left = Lots /\ o.at = "sent"
  <2>1. Lots \in 0..Lots
    BY Bounds
  <2> QED BY <1>1, <2>1 DEF Orders
<1>4. Len(venue) < MaxOrders
  BY DEF CanSend
<1> HIDE DEF o
<1>5. /\ OrdersInv(Append(venue, o), fi, cs \cup {Call("post", Len(venue) + 1)}, al, lv, st)
      /\ Explained(venue, cs, al, lv, st) =>
           Explained(Append(venue, o), cs \cup {Call("post", Len(venue) + 1)}, al, lv, st)
  BY <1>3, <1>4, PostKeeps
<1> QED BY <1>2, <1>3, <1>5 DEF Sent

\* A side is quoted only if it holds no order, and repriced only if it does.
LEMMA DecisionIs ==
  ASSUME NEW s \in Sides, NEW v, NEW al, NEW lv, NEW fz, NEW young
  PROVE  /\ Decision(s, v, al, lv, fz, young) = "post" => lv[s] = NoOrder
         /\ Decision(s, v, al, lv, fz, young) = "cancel" => lv[s] # NoOrder
BY DEF Decision

\* Whatever the loop of update_quotes does next keeps the orders.
LEMMA ProceedOrders ==
  ASSUME NEW todo, NEW v \in Views, NEW t \in {NoTick, Cent, Step}, NEW al, NEW lv, NEW fz,
         NEW cs, NEW fi, NEW st, todo \subseteq Sides,
         OrdersInv(venue, fi, cs, al, lv, st), Proceed(todo, v, t, al, lv, fz, cs)
  PROVE  /\ OrdersInv(venue', fi, calls', al, lv, st)
         /\ Explained(venue, cs, al, lv, st) => Explained(venue', calls', al, lv, st)
         /\ Sent
         /\ task' = Idle \/ \E rest : task' = Quoting(v, rest)
<1>1. PICK young \in SUBSET {s \in Sides : lv[s] # NoOrder} :
        LET awaited == IF CanSend THEN {"post", "cancel"} ELSE {"cancel"}
            due == {s \in todo : Decision(s, v, al, lv, fz, young) \in awaited}
            first == IF "BUY" \in due THEN "BUY" ELSE "SELL"
        IN  \/ /\ due = {}
               /\ task' = Idle
               /\ calls' = cs
               /\ UNCHANGED <<venue, late>>
            \/ /\ due # {}
               /\ task' = Quoting(v, {"SELL"} \ {first})
               /\ IF Decision(first, v, al, lv, fz, young) = "post"
                  THEN SendPost(first, v, t, cs)
                  ELSE /\ calls' = cs \cup {Call("delete", lv[first])}
                       /\ UNCHANGED <<venue, late>>
  BY DEF Proceed
<1> DEFINE awaited == IF CanSend THEN {"post", "cancel"} ELSE {"cancel"}
           D(s) == Decision(s, v, al, lv, fz, young)
           due == {s \in todo : D(s) \in awaited}
           first == IF "BUY" \in due THEN "BUY" ELSE "SELL"
<1>2. CASE due = {}
  <2>1. task' = Idle /\ calls' = cs /\ venue' = venue
    BY <1>1, <1>2
  <2> QED BY <2>1 DEF Sent
<1>3. CASE due # {}
  <2>1. first \in due
    BY <1>3 DEF Sides
  <2>2. /\ task' = Quoting(v, {"SELL"} \ {first})
        /\ IF D(first) = "post"
           THEN SendPost(first, v, t, cs)
           ELSE /\ calls' = cs \cup {Call("delete", lv[first])}
                /\ UNCHANGED <<venue, late>>
    BY <1>1, <1>3
  <2>3. /\ first \in Sides
        /\ D(first) = "post" \/ D(first) = "cancel"
        /\ D(first) = "post" => CanSend
        /\ D(first) = "post" => lv[first] = NoOrder
        /\ D(first) = "cancel" => lv[first] # NoOrder
    <3>1. first \in Sides /\ D(first) \in awaited
      BY <2>1
    <3> HIDE DEF D, first
    <3>2. /\ D(first) = "post" \/ D(first) = "cancel"
          /\ D(first) = "post" => CanSend
      BY <3>1
    <3>3. /\ D(first) = "post" => lv[first] = NoOrder
          /\ D(first) = "cancel" => lv[first] # NoOrder
      BY <3>1, DecisionIs DEF D
    <3> QED BY <3>1, <3>2, <3>3
  <2> HIDE DEF D, first, due, awaited
  <2>4. CASE D(first) = "post"
    <3>1. CanSend /\ lv[first] = NoOrder /\ SendPost(first, v, t, cs)
      BY <2>2, <2>3, <2>4
    <3> QED BY <2>2, <2>3, <3>1, SendKeeps
  <2>5. CASE D(first) = "cancel"
    <3>1. /\ calls' = cs \cup {Call("delete", lv[first])} /\ venue' = venue
          /\ lv[first] # NoOrder
      BY <2>2, <2>3, <2>5
    <3> DEFINE ids == {lv[first]}
    <3>2. \A id \in ids : id # NoOrder /\ \E u \in Sides : lv[u] = id
      BY <2>3, <3>1
    <3>3. calls' = cs \cup {Call("delete", id) : id \in ids}
      BY <3>1
    <3>4. OrdersInv(venue, fi, calls', al, lv, st)
      <4> HIDE DEF ids
      <4> QED BY <3>2, <3>3, DeletesSent
    <3>5. Explained(venue, cs, al, lv, st) => Explained(venue, calls', al, lv, st)
      BY <3>1 DEF Explained
    <3>6. Sent
      BY <3>1 DEF Sent
    <3> QED BY <2>2, <3>1, <3>4, <3>5, <3>6
  <2> QED BY <2>3, <2>4, <2>5
<1> QED BY <1>2, <1>3

-----------------------------------------------------------------------------
(* What was traded, and what of it the events still have to tell.          *)

Worth == [o \in Orders |-> Signed(o.side, Lots - o.left)]
Told(ve) == [e \in Events |-> Signed(ve[e.id].side, e.qty)]
UnreadOf(ve, fi) == SumFunction([i \in DOMAIN fi |-> Signed(ve[fi[i].id].side, fi[i].qty)])

\* A signed quantity is a whole number.
LEMMA SignedType ==
  ASSUME NEW s, NEW n \in Int
  PROVE  Signed(s, n) \in Int /\ (n = 0 => Signed(s, n) = 0)
BY DEF Signed

\* Signed quantities of one side add up.
LEMMA SignedAdds ==
  ASSUME NEW s, NEW m \in Int, NEW n \in Int
  PROVE  Signed(s, m) + Signed(s, n) = Signed(s, m + n)
BY DEF Signed

\* What an order has traded, signed, is a whole number.
LEMMA WorthTyped ==
  /\ Worth \in [Orders -> Int]
  /\ \A o \in Orders : Worth[o] = Signed(o.side, Lots - o.left) /\ Lots - o.left \in Int
<1>1. \A o \in Orders : Lots - o.left \in Int
  BY Bounds DEF Orders
<1> QED BY <1>1, SignedType DEF Worth

\* And so is what an event tells.
LEMMA ToldTyped ==
  ASSUME NEW ve
  PROVE  /\ Told(ve) \in [Events -> Int]
         /\ \A e \in Events : Told(ve)[e] = Signed(ve[e.id].side, e.qty)
<1>1. \A e \in Events : e.qty \in Int
  BY ShareTyped
<1> QED BY <1>1, SignedType DEF Told

\* What all orders traded is what the orders weigh.
LEMMA TradedIs ==
  ASSUME NEW ve, ve \in Seq(Orders)
  PROVE  Traded(ve) = Weigh(ve, Worth) /\ Traded(ve) \in Int
<1> DEFINE f == [i \in DOMAIN ve |-> Signed(ve[i].side, Lots - ve[i].left)]
           g == [i \in DOMAIN ve |-> Worth[ve[i]]]
<1>1. \A i \in DOMAIN ve : ve[i] \in Orders
  OBVIOUS
<1>2. f = g
  BY <1>1, WorthTyped
<1>3. Traded(ve) = SumFunction(f) /\ Weigh(ve, Worth) = SumFunction(g)
  BY DEF Traded, Weigh
<1>4. Weigh(ve, Worth) \in Int
  BY WorthTyped, WeighType
<1> QED BY <1>2, <1>3, <1>4

\* What is unread is what the events weigh.
LEMMA UnreadIs ==
  ASSUME NEW ve, NEW fi, fi \in Seq(Events)
  PROVE  UnreadOf(ve, fi) = Weigh(fi, Told(ve)) /\ UnreadOf(ve, fi) \in Int
<1> DEFINE f == [i \in DOMAIN fi |-> Signed(ve[fi[i].id].side, fi[i].qty)]
           g == [i \in DOMAIN fi |-> Told(ve)[fi[i]]]
<1>1. \A i \in DOMAIN fi : fi[i] \in Events
  OBVIOUS
<1>2. f = g
  BY <1>1, ToldTyped
<1>3. UnreadOf(ve, fi) = SumFunction(f) /\ Weigh(fi, Told(ve)) = SumFunction(g)
  BY DEF UnreadOf, Weigh
<1>4. Weigh(fi, Told(ve)) \in Int
  BY ToldTyped, WeighType
<1> QED BY <1>2, <1>3, <1>4

\* Without events nothing is unread.
LEMMA UnreadEmpty ==
  ASSUME NEW ve
  PROVE  UnreadOf(ve, <<>>) = 0
<1>1. <<>> \in Seq(Events)
  OBVIOUS
<1> QED BY <1>1, UnreadIs, WeighEmpty

\* What is unread goes by the sides of the orders alone.
LEMMA UnreadSame ==
  ASSUME NEW ve, NEW w, NEW fi, NEW n, fi \in Seq(Events), n \in Nat,
         \A i \in 1..Len(fi) : fi[i].id <= n,
         \A i \in 1..n : w[i].side = ve[i].side
  PROVE  UnreadOf(w, fi) = UnreadOf(ve, fi)
<1>1. \A i \in 1..Len(fi) : fi[i] \in Events /\ fi[i].id \in 1..n
  BY ShareTyped
<1>2. \A i \in 1..Len(fi) : Told(w)[fi[i]] = Told(ve)[fi[i]]
  <2>1. SUFFICES ASSUME NEW i \in 1..Len(fi) PROVE Told(w)[fi[i]] = Told(ve)[fi[i]]
    OBVIOUS
  <2>2. PICK e \in Events : e = fi[i]
    BY <1>1
  <2>3. w[e.id].side = ve[e.id].side
    BY <1>1, <2>2
  <2>4. Told(w)[e] = Signed(w[e.id].side, e.qty) /\ Told(ve)[e] = Signed(ve[e.id].side, e.qty)
    BY ToldTyped
  <2> QED BY <2>2, <2>3, <2>4
<1>3. Weigh(fi, Told(w)) = Weigh(fi, Told(ve))
  BY <1>2, WeighSame
<1> QED BY <1>3, UnreadIs

\* The first event read.
LEMMA UnreadTail ==
  ASSUME NEW ve, NEW fi, fi \in Seq(Events), fi # <<>>
  PROVE  UnreadOf(ve, fi) = Signed(ve[Head(fi).id].side, Head(fi).qty) + UnreadOf(ve, Tail(fi))
<1>1. Head(fi) \in Events /\ Tail(fi) \in Seq(Events)
  BY SeqTail
<1>2. Told(ve)[Head(fi)] = Signed(ve[Head(fi).id].side, Head(fi).qty)
  BY <1>1, ToldTyped
<1>3. Weigh(fi, Told(ve)) = Told(ve)[Head(fi)] + Weigh(Tail(fi), Told(ve))
  BY ToldTyped, WeighTail
<1> QED BY <1>1, <1>2, <1>3, UnreadIs

\* One more event to read.
LEMMA UnreadAppend ==
  ASSUME NEW ve, NEW fi, NEW e, fi \in Seq(Events), e \in Events
  PROVE  UnreadOf(ve, Append(fi, e)) = UnreadOf(ve, fi) + Signed(ve[e.id].side, e.qty)
<1>1. Append(fi, e) \in Seq(Events)
  OBVIOUS
<1>2. Told(ve)[e] = Signed(ve[e.id].side, e.qty)
  BY ToldTyped
<1>3. Weigh(Append(fi, e), Told(ve)) = Weigh(fi, Told(ve)) + Told(ve)[e]
  BY ToldTyped, WeighAppend
<1> QED BY <1>1, <1>2, <1>3, UnreadIs

\* An order just sent has not traded.
LEMMA TradedSent ==
  ASSUME NEW ve, NEW o, ve \in Seq(Orders), o \in Orders, o.left = Lots
  PROVE  Traded(Append(ve, o)) = Traded(ve)
<1>1. Append(ve, o) \in Seq(Orders)
  OBVIOUS
<1>2. Weigh(Append(ve, o), Worth) = Weigh(ve, Worth) + Worth[o]
  BY WorthTyped, WeighAppend
<1>3. Worth[o] = 0
  <2>1. Lots - o.left = 0 /\ 0 \in Int
    BY Bounds
  <2> QED BY <2>1, WorthTyped, SignedType
<1>4. Traded(ve) = Weigh(ve, Worth) /\ Traded(ve) \in Int
  BY TradedIs
<1>5. Traded(Append(ve, o)) = Weigh(Append(ve, o), Worth)
  BY <1>1, TradedIs
<1> QED BY <1>2, <1>3, <1>4, <1>5

\* One order replaced.
LEMMA WorthChanges ==
  ASSUME NEW q \in Seq(Orders), NEW r \in Seq(Orders), NEW a \in Orders, NEW b \in Orders,
         Replaces(r, q, a, b)
  PROVE  Weigh(r, Worth) = Weigh(q, Worth) - Worth[a] + Worth[b]
<1>1. Worth \in [Orders -> Int]
  BY WorthTyped
<1> QED BY <1>1, WeighChange

\* One order changed: the difference of what it has left was traded.
LEMMA TradedChanges ==
  ASSUME NEW ve, NEW w, NEW n, ve \in Seq(Orders), w \in Seq(Orders), Len(w) = Len(ve),
         n \in 1..Len(ve), \A i \in 1..Len(ve) : i # n => w[i] = ve[i],
         w[n].side = ve[n].side
  PROVE  Traded(w) = Traded(ve) + Signed(ve[n].side, ve[n].left - w[n].left)
<1>1. PICK o \in Orders, b \in Orders : o = w[n] /\ b = ve[n]
  BY Len(w) = Len(ve)
<1>2. Weigh(w, Worth) = Weigh(ve, Worth) - Worth[b] + Worth[o]
  <2>1. Replaces(w, ve, b, o)
    BY <1>1 DEF Replaces
  <2> QED BY <2>1, WorthChanges
<1>3. PICK s, x, y, l :
         /\ s = o.side /\ s = b.side /\ x = b.left /\ y = o.left /\ l = Lots
         /\ x \in Int /\ y \in Int /\ l \in Int
  <2>1. o.side = b.side
    BY <1>1
  <2>2. o.left \in Int /\ b.left \in Int /\ Lots \in Int
    BY Bounds DEF Orders
  <2> QED BY <2>1, <2>2
<1>4. Worth[o] = Signed(s, l - y) /\ Worth[b] = Signed(s, l - x)
  <2>1. Worth[o] = Signed(o.side, Lots - o.left) /\ Worth[b] = Signed(b.side, Lots - b.left)
    BY WorthTyped
  <2> QED BY <1>3, <2>1
<1>5. Signed(s, l - y) = Signed(s, l - x) + Signed(s, x - y)
  <2>1. l - x \in Int /\ x - y \in Int /\ (l - x) + (x - y) = l - y
    BY <1>3
  <2> QED BY <2>1, SignedAdds
<1>6. Signed(s, l - y) \in Int /\ Signed(s, l - x) \in Int /\ Signed(s, x - y) \in Int
  BY <1>3, SignedType
<1>7. Traded(ve) = Weigh(ve, Worth) /\ Traded(ve) \in Int
  BY TradedIs
<1>8. Traded(w) = Weigh(w, Worth)
  BY TradedIs
<1> QED BY <1>1, <1>2, <1>3, <1>4, <1>5, <1>6, <1>7, <1>8

\* Moving an order trades nothing.
LEMMA TradedMoved ==
  ASSUME NEW ve, NEW n, NEW at, ve \in Seq(Orders), n \in 1..Len(ve),
         at \in {"sent", "resting", "gone"}
  PROVE  Traded(Moved(ve, n, at)) = Traded(ve)
<1> DEFINE w == Moved(ve, n, at)
<1>1. /\ w \in Seq(Orders) /\ Len(w) = Len(ve)
      /\ \A i \in 1..Len(ve) : i # n => w[i] = ve[i]
      /\ w[n].side = ve[n].side /\ w[n].left = ve[n].left
  BY MovedIs
<1> HIDE DEF w
<1>2. Traded(w) = Traded(ve) + Signed(ve[n].side, ve[n].left - w[n].left)
  BY <1>1, TradedChanges
<1>3. Signed(ve[n].side, ve[n].left - w[n].left) = 0
  <2>1. \A o \in Orders : o.left - o.left = 0
    BY Bounds DEF Orders
  <2>2. ve[n].left - w[n].left = 0 /\ 0 \in Int
    BY <1>1, <2>1
  <2> QED BY <2>2, SignedType
<1>4. Traded(ve) \in Int
  BY TradedIs
<1> QED BY <1>2, <1>3, <1>4 DEF w

\* A trade adds its quantity.
LEMMA TradedSold ==
  ASSUME NEW ve, NEW n, NEW qty, ve \in Seq(Orders), n \in 1..Len(ve), qty \in 1..ve[n].left
  PROVE  Traded(Sold(ve, n, qty)) = Traded(ve) + Signed(ve[n].side, qty)
<1> DEFINE w == Sold(ve, n, qty)
<1>1. /\ w \in Seq(Orders) /\ Len(w) = Len(ve)
      /\ \A i \in 1..Len(ve) : w[i].side = ve[i].side /\ (i # n => w[i] = ve[i])
  BY SoldIs
<1>2. w[n].left = ve[n].left - qty /\ ve[n].left \in 0..Lots
  BY SoldIs
<1> HIDE DEF w
<1>3. Traded(w) = Traded(ve) + Signed(ve[n].side, ve[n].left - w[n].left)
  BY <1>1, TradedChanges
<1>4. ve[n].left - w[n].left = qty
  BY <1>2, Bounds
<1> QED BY <1>3, <1>4 DEF w

-----------------------------------------------------------------------------
(* The strategy task.                                                      *)

\* Unread, with the orders as a parameter.
LEMMA UnreadNow == Unread = UnreadOf(venue, fills)
BY DEF Unread, UnreadOf

\* The same for the next state.
LEMMA UnreadThen == Unread' = UnreadOf(venue', fills')
BY DEF Unread, UnreadOf

\* A step that sends at most a POST, and leaves the rest of the process alone.
LEMMA StrategyStep ==
  ASSUME LifeInv, up, UNCHANGED <<fills, process, missed, setup, quiet>>, Sent,
         OrdersInv(venue', fills, calls', all', live', strays'),
         Explained(venue', calls', all', live', strays'),
         LocalTypes'
  PROVE  LifeInv'
<1>1. UNCHANGED <<fills, net, up, missed, setup, quiet>>
  BY DEF process
<1>2. SetupInv'
  <2>1. setup = Done
    BY DEF LifeInv, SetupInv
  <2> QED BY <1>1, <2>1 DEF SetupInv, Done
<1>3. OrdersInv(venue, fills, calls, all, live, strays)
  BY DEF LifeInv
<1>4. /\ venue \in Seq(Orders) /\ Len(venue) \in Nat /\ fills \in Seq(Events)
      /\ \A i \in 1..Len(fills) : fills[i].id <= Len(venue)
  <2>1. \A i \in 1..Len(fills) : fills[i].id <= Len(venue)
    BY <1>3 DEF OrdersInv, Shapes
  <2> QED BY <1>3, <2>1, Shaped
<1>5. Traded(venue') = Traded(venue) /\ \A i \in 1..Len(venue) : venue'[i] = venue[i]
  <2>1. CASE venue' = venue
    BY <2>1
  <2>2. ASSUME NEW o \in Orders, venue' = Append(venue, o), o.left = Lots
        PROVE  Traded(venue') = Traded(venue) /\ \A i \in 1..Len(venue) : venue'[i] = venue[i]
    <3>1. Traded(Append(venue, o)) = Traded(venue)
      BY <1>4, <2>2, TradedSent
    <3>2. \A i \in 1..Len(venue) : Append(venue, o)[i] = venue[i]
      BY <1>4, SeqAppend
    <3> QED BY <2>2, <3>1, <3>2
  <2> QED BY <2>1, <2>2 DEF Sent
<1>6. Unread' = Unread /\ Position' = Position
  <2>1. UnreadOf(venue', fills) = UnreadOf(venue, fills)
    BY <1>4, <1>5, UnreadSame
  <2> QED BY <1>1, <1>5, <2>1, UnreadNow, UnreadThen DEF Position
<1>7. net' + Unread' + missed' = Position'
  BY <1>1, <1>6 DEF LifeInv
<1> QED BY <1>1, <1>2, <1>7 DEF LifeInv

\* Which calls there are is a matter of where the strategy task is.
LEMMA ModeIs ==
  ASSUME KillInv, NEW c \in OwnCalls
  PROVE  /\ c \in calls /\ c.by = "strategy"
         /\ c.op = "tick" => task.mode = "asking"
         /\ c.op = "post" => task.mode = "quoting"
         /\ task.mode \in {"asking", "quoting"} => \A d \in calls : d.by = "strategy" => d = c
BY DEF KillInv, Quoted, OwnCalls

\* The cancels of _cancel_all and _handle_max_inventory.
LEMMA SweepOrders ==
  ASSUME LifeInv, up, NEW ids, Sweep(ids), UNCHANGED restart,
         \A id \in ids : id # NoOrder /\ \E s \in Sides : live[s] = id
  PROVE  LifeInv'
<1>1. /\ calls' = calls \cup {Call("delete", id) : id \in ids} /\ task' = Sweeping
      /\ UNCHANGED <<venue, fills, all, live, recent, frozen, tick, process, net, killed, dispatching, up,
                     strays, missed, mishaps, setup, quiet>>
  BY DEF Sweep, process, history, restart
<1>2. OrdersInv(venue, fills, calls', all, live, strays)
  BY <1>1, DeletesSent DEF LifeInv
<1>3. Explained(venue, calls', all, live, strays)
  BY <1>1 DEF LifeInv, Explained
<1>4. LocalTypes'
  BY <1>1 DEF LifeInv, LocalTypes, Sweeping
<1>5. Sent
  BY <1>1 DEF Sent
<1> QED BY <1>1, <1>2, <1>3, <1>4, <1>5, StrategyStep

\* update_quotes starts, in each of its three ways.
LEMMA UpdateOrders ==
  ASSUME LifeInv, KillInv, UNCHANGED restart,
         UpdateSweep \/ UpdateAtLimit \/ \E v \in Views : UpdateQuotes(v)
  PROVE  LifeInv'
<1>1. /\ OrdersInv(venue, fills, calls, all, live, strays)
      /\ up => Explained(venue, calls, all, live, strays)
      /\ LocalTypes
  BY DEF LifeInv
<1>2. \A s \in Sides : live[s] # NoOrder => live[s] \in DOMAIN all
  BY <1>1, Shaped
<1>3. CASE UpdateSweep
  <2>1. \A id \in ToCancel : id # NoOrder /\ \E s \in Sides : live[s] = id
    BY DEF ToCancel
  <2> QED BY <1>3, <2>1, SweepOrders DEF UpdateSweep, CanUpdate
<1>4. CASE UpdateAtLimit
  <2>1. \A id \in {live[GrowingSide]} \ {NoOrder} : id # NoOrder /\ \E s \in Sides : live[s] = id
    BY DEF GrowingSide, Sides
  <2> QED BY <1>4, <2>1, SweepOrders DEF UpdateAtLimit, CanUpdate
<1>5. ASSUME NEW v \in Views, UpdateQuotes(v) PROVE LifeInv'
  <2>1. /\ up /\ setup' = setup /\ quiet' = quiet
        /\ UNCHANGED <<fills, all, live, recent, frozen, tick, process, net, killed, dispatching, up,
                       strays, missed, mishaps>>
    BY <1>5 DEF UpdateQuotes, CanUpdate, restart, process
  <2>2. CASE Proceed(Sides, v, tick, all, live, frozen, calls)
    <3>1. tick \in {NoTick, Cent, Step}
      BY <1>1 DEF LocalTypes
    <3>2. /\ OrdersInv(venue', fills, calls', all, live, strays)
          /\ Explained(venue', calls', all, live, strays)
          /\ Sent
          /\ task' = Idle \/ \E rest : task' = Quoting(v, rest)
      BY <1>1, <2>1, <2>2, <3>1, ProceedOrders
    <3>3. LocalTypes'
      BY <1>1, <2>1, <3>2 DEF LocalTypes, Idle, Quoting
    <3> QED BY <2>1, <3>2, <3>3, StrategyStep
  <2>3. CASE task' = Asking(v) /\ calls' = calls \cup {Call("tick", NoOrder)} /\ venue' = venue
    <3>1. OrdersInv(venue, fills, calls', all, live, strays)
      BY <1>1, <2>3, TickSent
    <3>2. Explained(venue, calls', all, live, strays)
      BY <1>1, <2>1, <2>3 DEF Explained
    <3>3. LocalTypes'
      BY <1>1, <2>1, <2>3 DEF LocalTypes, Asking
    <3>4. Sent
      BY <2>3 DEF Sent
    <3> QED BY <2>1, <2>3, <3>1, <3>2, <3>3, <3>4, StrategyStep
  <2> QED BY <1>5, <2>2, <2>3 DEF UpdateQuotes
<1> QED BY <1>3, <1>4, <1>5

\* What Proceed leaves of the task's view, and of the types around it.
LEMMA ViewKept ==
  ASSUME LocalTypes, NEW v \in Views,
         task' = Idle \/ \E rest : task' = Quoting(v, rest),
         recent' \in [Sides -> Nat], frozen' \in [Sides -> BOOLEAN],
         tick' \in {NoTick, Cent, Step}, mishaps' \in Int,
         UNCHANGED <<net, missed, killed, dispatching, up, quiet>>
  PROVE  LocalTypes'
BY DEF LocalTypes, Idle, Quoting

\* _resolve_tick returns.
LEMMA TickOrders ==
  ASSUME LifeInv, KillInv, UNCHANGED restart, NEW c, TickReturns(c)
  PROVE  LifeInv'
<1>1. /\ up /\ c \in OwnCalls /\ c.op = "tick" /\ tick' \in {NoTick, Cent, Step}
      /\ Proceed(Sides, task.view, tick', all, live, frozen, calls \ {c})
      /\ UNCHANGED <<fills, all, live, recent, frozen, process, net, killed, dispatching, up,
                     strays, missed, setup, quiet>>
      /\ mishaps' = mishaps \/ mishaps' = mishaps + 1
  BY DEF TickReturns, Mishap, restart, process
<1>2. task.mode = "asking"
  BY <1>1, ModeIs
<1>3. task.view \in Views /\ mishaps' \in Int
  BY <1>1, <1>2 DEF LifeInv, LocalTypes
<1>4. OrdersInv(venue, fills, calls \ {c}, all, live, strays)
  BY <1>1, CallOver DEF LifeInv
<1>5. Explained(venue, calls \ {c}, all, live, strays)
  BY <1>1 DEF LifeInv, Explained
<1> DEFINE cs == calls \ {c}
           v == task.view
<1> HIDE DEF cs, v
<1>6. /\ OrdersInv(venue', fills, calls', all, live, strays)
      /\ Explained(venue, cs, all, live, strays) => Explained(venue', calls', all, live, strays)
      /\ Sent
      /\ task' = Idle \/ \E rest : task' = Quoting(v, rest)
  <2>1. v \in Views /\ OrdersInv(venue, fills, cs, all, live, strays)
    BY <1>3, <1>4 DEF cs, v
  <2>2. Proceed(Sides, v, tick', all, live, frozen, cs) /\ Sides \subseteq Sides
    BY <1>1 DEF cs, v
  <2> QED BY <1>1, <2>1, <2>2, ProceedOrders
<1>7. LocalTypes'
  BY <1>1, <1>3, <1>6, ViewKept DEF LifeInv, LocalTypes, v
<1> QED BY <1>1, <1>5, <1>6, <1>7, StrategyStep DEF cs

\* _place_order returns.
LEMMA PostOrders ==
  ASSUME LifeInv, KillInv, UNCHANGED restart, NEW c, PostReturns(c)
  PROVE  LifeInv'
<1> DEFINE cs == calls \ {c}
           v == task.view
           todo == task.todo
           rec == PlacedRecord(c.reply, c.fill)
           ok == c.reply \in {"created", "odd"}
<1>1. /\ up /\ c \in OwnCalls /\ c.op = "post" /\ c.reply # "none"
      /\ all' = IF ok THEN WithRecord(all, c.id, rec) ELSE all
      /\ live' = IF ok THEN Placed(live, venue[c.id].side, c.id) ELSE live
      /\ Proceed(todo, v, tick, all', live', frozen, cs)
      /\ UNCHANGED <<fills, recent, frozen, tick, process, net, killed, dispatching, up,
                     strays, missed, mishaps, setup, quiet>>
  <2>1. \A id, x : Remember(id, x) = WithRecord(all, id, x)
    BY DEF Remember, WithRecord
  <2>2. \A s, id : [live EXCEPT ![s] = id] = Placed(live, s, id)
    BY DEF Placed
  <2>3. /\ all' = IF ok THEN Remember(c.id, rec) ELSE all
        /\ live' = IF ok THEN [live EXCEPT ![venue[c.id].side] = c.id] ELSE live
        /\ Proceed(todo, v, tick, all', live', frozen, cs)
    BY DEF PostReturns
  <2>4. /\ up /\ c \in OwnCalls /\ c.op = "post" /\ c.reply # "none"
        /\ UNCHANGED <<fills, recent, frozen, tick, process, net, killed, dispatching, up,
                       strays, missed, mishaps, setup, quiet>>
    BY DEF PostReturns, restart, process
  <2> QED BY <2>1, <2>2, <2>3, <2>4
<1>2. c \in calls /\ c.by = "strategy" /\ task.mode = "quoting" /\ \A d \in calls : d.by = "strategy" => d = c
  BY <1>1, ModeIs
<1>3. v \in Views /\ todo \subseteq Sides /\ tick \in {NoTick, Cent, Step} /\ mishaps' \in Int
  BY <1>1, <1>2, RoomLeft DEF LifeInv, LocalTypes
<1>4. /\ OrdersInv(venue, fills, calls, all, live, strays)
      /\ Explained(venue, calls, all, live, strays)
  BY <1>1 DEF LifeInv
<1>5. Post(c, venue, calls, all, live, strays)
  BY <1>1, <1>2, <1>4 DEF OrdersInv, Posts
<1> HIDE DEF v, todo
<1>6. OrdersInv(venue, fills, cs, all', live', strays) /\ Explained(venue, cs, all', live', strays)
  <2>1. CASE ok
    <3>1. rec \in Records /\ rec.filled <= c.fill
      <4>1. c.fill \in Nat
        BY <1>2, <1>4, Shaped DEF Requests
      <4>2. PlacedStatus(c.reply, c.fill) \in {"PENDING", "OPEN", "PARTIAL_FILL", "FILLED"}
        BY DEF PlacedStatus
      <4> QED BY <4>1, <4>2 DEF PlacedRecord, Records
    <3> HIDE DEF rec
    <3>2. /\ OrdersInv(venue, fills, calls \ {c}, WithRecord(all, c.id, rec),
                       Placed(live, venue[c.id].side, c.id), strays)
          /\ Explained(venue, calls \ {c}, WithRecord(all, c.id, rec), Placed(live, venue[c.id].side, c.id), strays)
      BY <1>1, <1>2, <1>4, <2>1, <3>1, FiledKeeps
    <3> QED BY <1>1, <2>1, <3>2
  <2>2. CASE ~ok
    <3>1. venue[c.id].at = "gone"
      BY <1>1, <1>5, <2>2 DEF Post
    <3>2. OrdersInv(venue, fills, calls \ {c}, all, live, strays)
      BY <1>1, <1>4, CallOver
    <3>3. Explained(venue, calls \ {c}, all, live, strays)
      BY <1>4, <3>1 DEF Explained
    <3> QED BY <1>1, <2>2, <3>2, <3>3
  <2> QED BY <2>1, <2>2
<1> HIDE DEF cs
<1>7. /\ OrdersInv(venue', fills, calls', all', live', strays)
      /\ Explained(venue, cs, all', live', strays) => Explained(venue', calls', all', live', strays)
      /\ Sent
      /\ task' = Idle \/ \E rest : task' = Quoting(v, rest)
  BY <1>1, <1>3, <1>6, ProceedOrders
<1>8. LocalTypes'
  BY <1>1, <1>3, <1>7, ViewKept DEF LifeInv, LocalTypes
<1> QED BY <1>1, <1>6, <1>7, <1>8, StrategyStep

\* What _cancel_order files, as a function of the call.
LEMMA CancelFiles ==
  ASSUME LifeInv, NEW c \in calls, up, c.op = "delete", c.by = "strategy", c.reply = "ok", CancelDone(c)
  PROVE  /\ OrdersInv(venue, fills, calls \ {c}, all', live', strays)
         /\ Explained(venue, calls \ {c}, all', live', strays)
         /\ all' = MarkCancelled(c.id) /\ live' = DropLive(venue[c.id].side)
         /\ venue[c.id].side \in Sides /\ live'[venue[c.id].side] = NoOrder
         /\ recent' \in [Sides -> Nat] /\ frozen' \in [Sides -> BOOLEAN]
<1> DEFINE s == venue[c.id].side
<1>1. /\ OrdersInv(venue, fills, calls, all, live, strays)
      /\ Explained(venue, calls, all, live, strays)
      /\ recent \in [Sides -> Nat] /\ frozen \in [Sides -> BOOLEAN]
  BY DEF LifeInv, LocalTypes
<1>2. Delete(c, venue, all, live, strays)
  BY <1>1 DEF OrdersInv, Deletes
<1>3. /\ c.id \in DOMAIN all /\ s \in Sides /\ all \in [DOMAIN all -> Records]
      /\ live \in [Sides -> 0..MaxOrders] /\ NoOrder \in 0..MaxOrders
  BY <1>1, <1>2, Shaped, Bounds DEF Delete
<1> DEFINE r == [all[c.id] EXCEPT !.status = "CANCELLED"]
<1>4. all[c.id] \in Records
  BY <1>3
<1>5. r \in Records /\ r.filled = all[c.id].filled
  BY <1>4 DEF Records
<1>6. all' = [all EXCEPT ![c.id] = r] /\ all' = MarkCancelled(c.id)
  BY DEF CancelDone, MarkCancelled
<1> HIDE DEF r
<1>7. all' = WithRecord(all, c.id, r)
  BY <1>3, <1>6 DEF WithRecord
<1>8. live' = Placed(live, s, NoOrder) /\ live' = DropLive(s)
  BY DEF CancelDone, DropLive, Placed
<1>9. /\ OrdersInv(venue, fills, calls \ {c}, WithRecord(all, c.id, r),
                   Placed(live, venue[c.id].side, NoOrder), strays)
      /\ Explained(venue, calls \ {c}, WithRecord(all, c.id, r), Placed(live, venue[c.id].side, NoOrder), strays)
  <2>1. live[venue[c.id].side] # NoOrder
    BY DEF CancelDone, KeyMissing
  <2> QED BY <1>1, <1>5, <2>1, CancelledKeeps
<1>10. recent' \in [Sides -> Nat] /\ frozen' \in [Sides -> BOOLEAN]
  <2> HIDE DEF s
  <2>1. recent' = [recent EXCEPT ![s] = @ + 1] /\ frozen' = [frozen EXCEPT ![s] = @ \/ Trips(recent[s] + 1)]
    BY DEF CancelDone, RecordCancel, s
  <2>2. recent[s] + 1 \in Nat
    BY <1>1, <1>3
  <2>3. recent' \in [Sides -> Nat]
    BY <1>1, <2>1, <2>2
  <2>4. Trips(recent[s] + 1) \in BOOLEAN
    BY DEF Trips
  <2>5. (frozen[s] \/ Trips(recent[s] + 1)) \in BOOLEAN
    OBVIOUS
  <2> QED BY <1>1, <2>1, <2>3, <2>5
<1>11. live'[s] = NoOrder
  BY <1>3, <1>8 DEF Placed
<1> QED BY <1>3, <1>6, <1>7, <1>8, <1>9, <1>10, <1>11

\* _cancel_order returns to _update_side.
LEMMA RepriceOrders ==
  ASSUME LifeInv, KillInv, UNCHANGED restart, NEW c, RepriceReturns(c)
  PROVE  LifeInv'
<1> DEFINE cs == calls \ {c}
           v == task.view
           todo == task.todo
           s == venue[c.id].side
<1>1. /\ up /\ c \in OwnCalls /\ c.op = "delete" /\ task.mode = "quoting"
      /\ UNCHANGED <<fills, tick, process, net, killed, dispatching, up,
                     strays, missed, mishaps, setup, quiet>>
  BY DEF RepriceReturns, restart, process
<1>2. c \in calls /\ c.by = "strategy"
  BY <1>1, ModeIs
<1>3. v \in Views /\ todo \subseteq Sides /\ tick \in {NoTick, Cent, Step} /\ mishaps' \in Int
  BY <1>1, <1>2, RoomLeft DEF LifeInv, LocalTypes
<1>4. /\ OrdersInv(venue, fills, calls, all, live, strays)
      /\ Explained(venue, calls, all, live, strays)
      /\ recent \in [Sides -> Nat] /\ frozen \in [Sides -> BOOLEAN]
  BY <1>1 DEF LifeInv, LocalTypes
<1>5. CASE /\ c.reply = "ok" /\ CancelDone(c)
           /\ \/ CanSend /\ SendPost(s, v, tick, cs) /\ UNCHANGED task
              \/ Proceed(todo, v, tick, MarkCancelled(c.id), DropLive(s), frozen', cs)
  <2>1. /\ OrdersInv(venue, fills, cs, all', live', strays)
        /\ Explained(venue, cs, all', live', strays)
        /\ all' = MarkCancelled(c.id) /\ live' = DropLive(s)
        /\ s \in Sides /\ live'[s] = NoOrder
        /\ recent' \in [Sides -> Nat] /\ frozen' \in [Sides -> BOOLEAN]
    BY <1>1, <1>2, <1>5, CancelFiles
  <2> HIDE DEF cs, v, todo, s
  <2>2. /\ OrdersInv(venue', fills, calls', all', live', strays)
        /\ Explained(venue, cs, all', live', strays) => Explained(venue', calls', all', live', strays)
        /\ Sent
        /\ task' = task \/ task' = Idle \/ \E rest : task' = Quoting(v, rest)
    <3>1. CASE CanSend /\ SendPost(s, v, tick, cs) /\ UNCHANGED task
      BY <1>3, <2>1, <3>1, SendKeeps
    <3>2. CASE Proceed(todo, v, tick, all', live', frozen', cs)
      BY <1>3, <2>1, <3>2, ProceedOrders
    <3> QED BY <1>5, <2>1, <3>1, <3>2
  <2>3. LocalTypes'
    <3>1. CASE task' = task
      BY <1>1, <1>3, <2>1, <3>1 DEF LifeInv, LocalTypes
    <3>2. CASE task' = Idle \/ \E rest : task' = Quoting(v, rest)
      BY <1>1, <1>3, <2>1, <3>2, ViewKept DEF LifeInv
    <3> QED BY <2>2, <3>1, <3>2
  <2> QED BY <1>1, <2>1, <2>2, <2>3, StrategyStep
<1>6. CASE /\ c.reply = "error" /\ UNCHANGED <<all, live, recent, frozen>>
           /\ Proceed(todo, v, tick, all, live, frozen, cs)
  <2>1. OrdersInv(venue, fills, cs, all, live, strays)
    BY <1>4, <1>6, CallOver
  <2>2. Explained(venue, cs, all, live, strays)
    BY <1>1, <1>4 DEF Explained
  <2> HIDE DEF cs, v, todo, s
  <2>3. /\ OrdersInv(venue', fills, calls', all, live, strays)
        /\ Explained(venue, cs, all, live, strays) => Explained(venue', calls', all, live, strays)
        /\ Sent
        /\ task' = Idle \/ \E rest : task' = Quoting(v, rest)
    BY <1>3, <1>6, <2>1, ProceedOrders
  <2>4. LocalTypes'
    BY <1>1, <1>3, <1>4, <1>6, <2>3, ViewKept DEF LifeInv
  <2> QED BY <1>1, <1>6, <2>2, <2>3, <2>4, StrategyStep
<1> QED BY <1>5, <1>6 DEF RepriceReturns

\* A cancel of the gather returns.
LEMMA SweepReturnOrders ==
  ASSUME LifeInv, KillInv, UNCHANGED restart, NEW c, SweepReturns(c)
  PROVE  LifeInv'
<1>1. /\ up /\ c \in OwnCalls /\ c.op = "delete" /\ task.mode = "sweeping"
      /\ calls' = calls \ {c} /\ task' = AfterSweep(c)
      /\ UNCHANGED <<venue, fills, tick, process, net, killed, dispatching, up,
                     strays, missed, mishaps, setup, quiet>>
      /\ \/ c.reply = "ok" /\ CancelDone(c)
         \/ c.reply = "error" /\ UNCHANGED <<all, live, recent, frozen>>
  BY DEF SweepReturns, restart, process, history
<1>2. c \in calls /\ c.by = "strategy"
  BY <1>1, ModeIs
<1>3. task' = Idle \/ task' = task
  BY <1>1 DEF AfterSweep
<1>4. /\ OrdersInv(venue, fills, calls, all, live, strays)
      /\ Explained(venue, calls, all, live, strays)
      /\ LocalTypes
  BY <1>1 DEF LifeInv
<1>5. Sent
  BY <1>1 DEF Sent
<1>6. CASE c.reply = "ok" /\ CancelDone(c)
  <2>1. /\ OrdersInv(venue, fills, calls \ {c}, all', live', strays)
        /\ Explained(venue, calls \ {c}, all', live', strays)
        /\ recent' \in [Sides -> Nat] /\ frozen' \in [Sides -> BOOLEAN]
    BY <1>1, <1>2, <1>6, CancelFiles
  <2>2. LocalTypes'
    BY <1>1, <1>3, <1>4, <2>1 DEF LocalTypes, Idle
  <2> QED BY <1>1, <1>5, <2>1, <2>2, StrategyStep
<1>7. CASE c.reply = "error" /\ UNCHANGED <<all, live, recent, frozen>>
  <2>1. OrdersInv(venue, fills, calls \ {c}, all, live, strays)
    BY <1>4, <1>7, CallOver
  <2>2. Explained(venue, calls \ {c}, all, live, strays)
    BY <1>1, <1>4 DEF Explained
  <2>3. LocalTypes'
    BY <1>1, <1>3, <1>4, <1>7 DEF LocalTypes, Idle
  <2> QED BY <1>1, <1>5, <1>7, <2>1, <2>2, <2>3, StrategyStep
<1> QED BY <1>1, <1>6, <1>7

\* A call loses its caller.
LEMMA TimeoutOrders ==
  ASSUME LifeInv, KillInv, UNCHANGED restart, NEW c, Timeout(c)
  PROVE  LifeInv'
<1> DEFINE own == {c}
           cs == (calls \ own) \cup Abandoned(own)
           v == task.view
           todo == task.todo
           su == strays \cup {c.id}
<1>1. /\ up /\ c \in OwnCalls /\ c.op # "tick" /\ strays' = su /\ mishaps' = mishaps + 1
      /\ UNCHANGED <<fills, all, live, recent, frozen, tick, process, net, killed, dispatching, up,
                     missed, setup, quiet>>
      /\ \/ task.mode = "quoting" /\ Proceed(todo, v, tick, all, live, frozen, cs)
         \/ /\ task.mode = "sweeping" /\ calls' = cs /\ task' = AfterSweep(c)
            /\ venue' = venue
  BY DEF Timeout, MayTimeOut, Mishap, restart, process
<1>2. c \in calls /\ c.by = "strategy"
  BY <1>1, ModeIs
<1>3. /\ OrdersInv(venue, fills, calls, all, live, strays)
      /\ Explained(venue, calls, all, live, strays)
      /\ LocalTypes
  BY <1>1 DEF LifeInv
<1>4. mishaps' \in Int
  BY <1>1, <1>3 DEF LocalTypes
<1>5. strays \subseteq su /\ su \subseteq 1..Len(venue) /\ c.id \in su
  <2>1. c.op \in {"post", "delete", "tick"}
    BY <1>2, <1>3, Shaped DEF Requests
  <2>2. c.id \in 1..Len(venue) /\ strays \subseteq 1..Len(venue)
    BY <1>1, <1>2, <1>3, <2>1, Shaped
  <2> QED BY <2>2
<1> HIDE DEF su
<1>6. OrdersInv(venue, fills, cs, all, live, su)
  <2>1. /\ own \subseteq calls
        /\ \A d \in own : d.reply = "none" /\ d.op # "tick" => d.id \in su
        /\ \A d \in own : d.op = "delete" /\ d.by = "strategy" /\ d.reply = "ok" => d.id \in su
    BY <1>2, <1>5
  <2> HIDE DEF own
  <2> QED BY <1>3, <1>5, <2>1, GivenUp
<1>7. Explained(venue, cs, all, live, su)
  <2>1. \A d \in calls : d.op = "post" /\ venue[d.id].at = "resting" =>
            d.id \in su \/ \E e \in cs : e.op = "post" /\ e.id = d.id
    BY <1>5
  <2> HIDE DEF cs
  <2> QED BY <1>3, <1>5, <2>1, ExplainedKeeps
<1> HIDE DEF cs
<1>8. CASE task.mode = "quoting" /\ Proceed(todo, v, tick, all, live, frozen, cs)
  <2>1. v \in Views /\ todo \subseteq Sides /\ tick \in {NoTick, Cent, Step}
    BY <1>1, <1>3, <1>8, RoomLeft DEF LocalTypes
  <2> HIDE DEF v, todo
  <2>2. /\ OrdersInv(venue', fills, calls', all, live, su)
        /\ Explained(venue, cs, all, live, su) => Explained(venue', calls', all, live, su)
        /\ Sent
        /\ task' = Idle \/ \E rest : task' = Quoting(v, rest)
    BY <1>6, <1>8, <2>1, ProceedOrders
  <2>3. LocalTypes'
    BY <1>1, <1>3, <1>4, <2>1, <2>2, ViewKept DEF LocalTypes
  <2> QED BY <1>1, <1>7, <2>2, <2>3, StrategyStep
<1>9. CASE /\ task.mode = "sweeping" /\ calls' = cs /\ task' = AfterSweep(c)
           /\ venue' = venue
  <2>1. task' = Idle \/ task' = task
    BY <1>9 DEF AfterSweep
  <2>2. LocalTypes'
    BY <1>1, <1>3, <1>4, <2>1 DEF LocalTypes, Idle
  <2>3. Sent
    BY <1>9 DEF Sent
  <2> QED BY <1>1, <1>6, <1>7, <1>9, <2>2, <2>3, StrategyStep
<1> QED BY <1>1, <1>8, <1>9

-----------------------------------------------------------------------------
(* The other tasks, and the exchange.                                      *)

\* What _setup has read and has left to do survives what happens meanwhile:
\* orders are answered for, trade and go, but none is sent.
LEMMA SetupSteady ==
  ASSUME SetupInv, UNCHANGED <<setup, quiet, up>>,
         ~up => /\ Len(venue') = Len(venue) /\ strays \subseteq strays'
                /\ \A i \in 1..Len(venue) :
                     /\ venue'[i].at = "sent" => venue[i].at = "sent"
                     /\ venue'[i].at = "resting" => venue[i].at = "resting" \/ i \in strays'
                /\ ~CanTrade => ~CanTrade' /\ Position' = Position
  PROVE  SetupInv'
<1>1. CASE up
  <2>1. setup = Done
    BY <1>1 DEF SetupInv
  <2> QED BY <1>1, <2>1 DEF SetupInv, Done
<1>2. CASE ~up
  <2>1. setup # Done /\ setup.at # "done"
    BY <1>2 DEF SetupInv
  <2>2. setup.at = "cancelling" =>
          /\ setup.todo \in Seq(1..Len(venue'))
          /\ RestingIds' \subseteq {setup.todo[i] : i \in DOMAIN setup.todo} \cup strays'
          /\ \A i \in DOMAIN setup.todo : venue'[setup.todo[i]].at # "sent"
    <3>1. SUFFICES ASSUME setup.at = "cancelling"
          PROVE  /\ setup.todo \in Seq(1..Len(venue'))
                 /\ RestingIds' \subseteq {setup.todo[i] : i \in DOMAIN setup.todo} \cup strays'
                 /\ \A i \in DOMAIN setup.todo : venue'[setup.todo[i]].at # "sent"
      OBVIOUS
    <3>2. /\ setup.todo \in Seq(1..Len(venue))
          /\ RestingIds \subseteq {setup.todo[i] : i \in DOMAIN setup.todo} \cup strays
          /\ \A i \in DOMAIN setup.todo : venue[setup.todo[i]].at # "sent"
      BY <3>1 DEF SetupInv
    <3>3. RestingIds' \subseteq RestingIds \cup strays'
      BY <1>2 DEF RestingIds, Resting
    <3>4. \A i \in DOMAIN setup.todo : setup.todo[i] \in 1..Len(venue)
      BY <3>2
    <3>5. \A i \in DOMAIN setup.todo : venue'[setup.todo[i]].at # "sent"
      BY <1>2, <3>2, <3>4
    <3> QED BY <1>2, <3>2, <3>3, <3>5
  <2>3. setup.at \in {"listing", "cancelling"} /\ quiet => ~CanTrade' /\ setup.snap = Position'
    BY <1>2 DEF SetupInv
  <2> QED BY <1>2, <2>1, <2>2, <2>3 DEF SetupInv
<1> QED BY <1>1, <1>2

\* A step that touches none of the orders.
LEMMA QuietStep ==
  ASSUME LifeInv, UNCHANGED <<venue, fills, calls, all, live, strays, net, missed, up, setup, quiet>>,
         LocalTypes'
  PROVE  LifeInv'
<1>1. SetupInv'
  BY DEF LifeInv, SetupInv, RestingIds, Resting, CanTrade, Position
<1>2. OwnCalls' = OwnCalls /\ Unread' = Unread /\ Position' = Position
  BY DEF OwnCalls, Unread, Position
<1> QED BY <1>1, <1>2 DEF LifeInv

\* The kill, the end of the dispatcher, and the filter's clock.
LEMMA TimeOrders ==
  ASSUME LifeInv, UNCHANGED restart,
         DispatchStops \/ Kill \/ \E s \in Sides : WindowPasses(s) \/ Thaw(s)
  PROVE  LifeInv'
<1>1. LocalTypes /\ setup' = setup /\ quiet' = quiet
  BY DEF LifeInv, restart
<1>2. CASE DispatchStops \/ Kill
  <2>1. UNCHANGED <<venue, fills, calls, all, live, strays, net, missed, up,
                    recent, frozen, tick, task, mishaps>>
        /\ killed' \in BOOLEAN /\ dispatching' \in BOOLEAN
    BY <1>1, <1>2 DEF DispatchStops, Kill, manager, history, LocalTypes
  <2>2. LocalTypes'
    BY <1>1, <2>1 DEF LocalTypes
  <2> QED BY <1>1, <2>1, <2>2, QuietStep
<1>3. ASSUME NEW s \in Sides, WindowPasses(s) \/ Thaw(s) PROVE LifeInv'
  <2>1. UNCHANGED <<venue, fills, calls, all, live, strays, net, missed, up,
                    tick, task, mishaps, killed, dispatching>>
    BY <1>3 DEF WindowPasses, Thaw, process, history
  <2>2. recent' \in [Sides -> Nat] /\ frozen' \in [Sides -> BOOLEAN]
    <3>1. recent \in [Sides -> Nat] /\ frozen \in [Sides -> BOOLEAN]
      BY <1>1 DEF LocalTypes
    <3>2. CASE WindowPasses(s)
      <4>1. recent[s] - 1 \in Nat
        BY <3>1, <3>2 DEF WindowPasses
      <4> QED BY <3>1, <3>2, <4>1 DEF WindowPasses
    <3>3. CASE Thaw(s)
      BY <3>1, <3>3 DEF Thaw
    <3> QED BY <1>3, <3>2, <3>3
  <2>3. LocalTypes'
    BY <1>1, <2>1, <2>2 DEF LocalTypes
  <2> QED BY <1>1, <2>1, <2>3, QuietStep
<1> QED BY <1>2, <1>3

\* The head of the queue, as the lemmas above take it.
LEMMA HeadIs ==
  ASSUME LifeInv, fills # <<>>, NEW e, e = Head(fills)
  PROVE  /\ fills \in Seq(Events) /\ e \in Events /\ e.id \in 1..Len(venue)
         /\ e.qty \in Nat /\ Signed(venue[e.id].side, e.qty) \in Int
         /\ UnreadOf(venue, fills) = Signed(venue[e.id].side, e.qty) + UnreadOf(venue, Tail(fills))
         /\ UnreadOf(venue, Tail(fills)) \in Int
<1>1. /\ fills \in Seq(Events) /\ \A i \in 1..Len(fills) : fills[i].id <= Len(venue)
      /\ Len(venue) \in Nat
  <2>1. OrdersInv(venue, fills, calls, all, live, strays)
    BY DEF LifeInv
  <2> QED BY <2>1, Shaped DEF OrdersInv, Shapes
<1>2. e \in Events /\ Tail(fills) \in Seq(Events) /\ e = fills[1] /\ 1 \in 1..Len(fills)
  BY <1>1, SeqTail
<1>3. e.qty \in Nat /\ e.id \in Nat /\ e.id > 0
  BY <1>2, ShareTyped
<1>4. e.id <= Len(venue)
  BY <1>1, <1>2
<1>5. Signed(venue[e.id].side, e.qty) \in Int
  BY <1>3, SignedType
<1>6. UnreadOf(venue, fills) = Signed(venue[e.id].side, e.qty) + UnreadOf(venue, Tail(fills))
  BY <1>1, UnreadTail
<1>7. UnreadOf(venue, Tail(fills)) \in Int
  BY <1>2, UnreadIs
<1> QED BY <1>1, <1>2, <1>3, <1>4, <1>5, <1>6, <1>7

\* A fill event is handled: counted in the index if it knows the order, given up
\* on otherwise, and booked in any case.
LEMMA DispatchOrders ==
  ASSUME LifeInv, UNCHANGED restart, DispatchFill
  PROVE  LifeInv'
<1>1. PICK e : e = Head(fills)
  OBVIOUS
<1>2. /\ up /\ fills # <<>> /\ fills' = Tail(fills) /\ net' = net + Signed(venue[e.id].side, e.qty)
      /\ dispatching' = ~killed /\ MarkFilled(e.id, e.qty)
      /\ strays' = strays \cup ({e.id} \ DOMAIN all)
      /\ UNCHANGED <<venue, calls, recent, frozen, tick, task, killed, up, missed, mishaps, setup, quiet>>
  BY <1>1 DEF DispatchFill, CountFill, restart
<1>3. /\ fills \in Seq(Events) /\ e \in Events /\ e.id \in 1..Len(venue)
      /\ e.qty \in Nat /\ Signed(venue[e.id].side, e.qty) \in Int
      /\ UnreadOf(venue, fills) = Signed(venue[e.id].side, e.qty) + UnreadOf(venue, Tail(fills))
      /\ UnreadOf(venue, Tail(fills)) \in Int
  BY <1>1, <1>2, HeadIs
<1>4. /\ OrdersInv(venue, fills, calls, all, live, strays)
      /\ Explained(venue, calls, all, live, strays)
      /\ LocalTypes /\ SetupInv
      /\ net + Unread + missed = Position
  BY <1>2 DEF LifeInv
<1>5. net' + Unread' + missed' = Position'
  <2>1. net \in Int /\ missed \in Int
    BY <1>4 DEF LocalTypes
  <2>2. Unread' = UnreadOf(venue, Tail(fills)) /\ Position' = Position
    BY <1>2, UnreadThen DEF Position
  <2>3. Unread = Signed(venue[e.id].side, e.qty) + UnreadOf(venue, Tail(fills))
    BY <1>3, UnreadNow
  <2> QED BY <1>2, <1>3, <1>4, <2>1, <2>2, <2>3
<1>6. LocalTypes'
  <2>1. net' \in Int
    BY <1>2, <1>3, <1>4 DEF LocalTypes
  <2>2. dispatching' \in BOOLEAN
    BY <1>2, <1>4 DEF LocalTypes
  <2> QED BY <1>2, <1>4, <2>1, <2>2 DEF LocalTypes
<1>7. SetupInv'
  BY <1>2, <1>4, SetupSteady
<1>8. OrdersInv(venue, fills', calls, all', live', strays') /\ Explained(venue, calls, all', live', strays')
  <2>1. CASE e.id \notin DOMAIN all
    <3>1. all' = all /\ live' = live
      BY <1>2, <2>1 DEF MarkFilled
    <3>2. strays \subseteq strays' /\ strays' \subseteq 1..Len(venue) /\ e.id \in strays'
      BY <1>2, <1>3, <1>4, <2>1, Shaped
    <3>3. OrdersInv(venue, Tail(fills), calls, all, live, strays')
      BY <1>1, <1>2, <1>4, <3>2, EventDropped
    <3>4. Explained(venue, calls, all, live, strays')
      BY <1>4, <3>2 DEF Explained
    <3> QED BY <1>2, <3>1, <3>3, <3>4
  <2>2. CASE e.id \in DOMAIN all
    <3> DEFINE sum == all[e.id].filled + e.qty
               stat == IF sum >= Lots THEN "FILLED" ELSE "PARTIAL_FILL"
               r == [[all[e.id] EXCEPT !.status = stat] EXCEPT !.filled = sum]
    <3>1. all \in [DOMAIN all -> Records] /\ all[e.id] \in Records
      BY <1>4, <2>2, Shaped
    <3>2. sum \in Nat /\ stat \in {"FILLED", "PARTIAL_FILL"}
      BY <1>3, <3>1 DEF Records
    <3>3. /\ all' = [all EXCEPT ![e.id].status = stat, ![e.id].filled = sum]
          /\ live' = IF sum >= Lots THEN [live EXCEPT ![venue[e.id].side] = NoOrder] ELSE live
      BY <1>2, <2>2 DEF MarkFilled, DropLive
    <3> HIDE DEF stat, sum
    <3>4. r \in Records /\ r.filled = sum
      BY <3>1, <3>2 DEF Records
    <3>5. all' = [all EXCEPT ![e.id] = r]
      BY <2>2, <3>3
    <3> HIDE DEF r
    <3>6. all' = WithRecord(all, e.id, r)
      BY <2>2, <3>5 DEF WithRecord
    <3>7. live' = IF r.filled >= Lots THEN Placed(live, venue[e.id].side, NoOrder) ELSE live
      BY <3>3, <3>4 DEF Placed
    <3>8. /\ OrdersInv(venue, Tail(fills), calls, WithRecord(all, e.id, r), live', strays)
          /\ Explained(venue, calls, all, live, strays) => Explained(venue, calls, all', live', strays)
      <4>1. r.filled = all[e.id].filled + e.qty
        BY <3>4 DEF sum
      <4>2. PICK w : w = live'
        OBVIOUS
      <4>3. /\ OrdersInv(venue, Tail(fills), calls, WithRecord(all, e.id, r), w, strays)
            /\ Explained(venue, calls, all, live, strays) =>
                 Explained(venue, calls, WithRecord(all, e.id, r), w, strays)
        <5>1. /\ r \in Records /\ fills # <<>> /\ e = Head(fills) /\ e.id \in DOMAIN all
              /\ OrdersInv(venue, fills, calls, all, live, strays)
              /\ w = IF r.filled >= Lots THEN Placed(live, venue[e.id].side, NoOrder) ELSE live
          BY <1>1, <1>2, <1>4, <2>2, <3>4, <3>7, <4>2
        <5> QED BY <4>1, <5>1, EventCounted
      <4> QED BY <3>6, <4>2, <4>3
    <3>9. strays' = strays
      BY <1>2, <2>2
    <3> QED BY <1>2, <1>4, <3>6, <3>8, <3>9
  <2> QED BY <2>1, <2>2
<1> QED BY <1>2, <1>5, <1>6, <1>7, <1>8 DEF LifeInv

\* A fill event is lost: its order is given up on and its quantity missed.
LEMMA LostOrders ==
  ASSUME LifeInv, UNCHANGED restart, FillLost
  PROVE  LifeInv'
<1>1. PICK e : e = Head(fills)
  OBVIOUS
<1>2. /\ fills # <<>> /\ fills' = Tail(fills) /\ missed' = missed + Signed(venue[e.id].side, e.qty)
      /\ strays' = strays \cup {e.id} /\ mishaps' = mishaps + 1
      /\ UNCHANGED <<venue, calls, all, live, recent, frozen, tick, task, net, killed, dispatching, up,
                     setup, quiet>>
  BY <1>1 DEF FillLost, Mishap, restart, manager, process
<1>3. /\ fills \in Seq(Events) /\ e \in Events /\ e.id \in 1..Len(venue)
      /\ e.qty \in Nat /\ Signed(venue[e.id].side, e.qty) \in Int
      /\ UnreadOf(venue, fills) = Signed(venue[e.id].side, e.qty) + UnreadOf(venue, Tail(fills))
      /\ UnreadOf(venue, Tail(fills)) \in Int
  BY <1>1, <1>2, HeadIs
<1>4. /\ OrdersInv(venue, fills, calls, all, live, strays)
      /\ up => Explained(venue, calls, all, live, strays)
      /\ LocalTypes /\ SetupInv
      /\ up => net + Unread + missed = Position
      /\ up
  BY <1>2 DEF LifeInv
<1>5. up => net' + Unread' + missed' = Position'
  <2>1. net \in Int /\ missed \in Int
    BY <1>4 DEF LocalTypes
  <2>2. Unread' = UnreadOf(venue, Tail(fills)) /\ Position' = Position
    BY <1>2, UnreadThen DEF Position
  <2>3. Unread = Signed(venue[e.id].side, e.qty) + UnreadOf(venue, Tail(fills))
    BY <1>3, UnreadNow
  <2> QED BY <1>2, <1>3, <1>4, <2>1, <2>2, <2>3
<1>6. LocalTypes'
  <2>1. missed' \in Int /\ mishaps' \in Int
    BY <1>2, <1>3, <1>4 DEF LocalTypes
  <2> QED BY <1>2, <1>4, <2>1 DEF LocalTypes
<1>7. SetupInv'
  <2>1. (CanTrade <=> CanTrade') /\ Position' = Position
    BY <1>2 DEF CanTrade, RestingIds, Resting, Position
  <2> QED BY <1>2, <1>4, <2>1, SetupSteady
<1>8. OrdersInv(venue, fills', calls, all, live, strays')
  <2>1. strays \subseteq strays' /\ strays' \subseteq 1..Len(venue) /\ e.id \in strays'
    BY <1>2, <1>3, <1>4, Shaped
  <2> QED BY <1>1, <1>2, <1>4, <2>1, EventDropped
<1>9. up => Explained(venue, calls, all, live, strays')
  BY <1>2, <1>4 DEF Explained
<1>10. ~up => all' = <<>> /\ OwnCalls' = {} /\ fills' = <<>>
  BY <1>2, <1>4
<1> QED BY <1>2, <1>5, <1>6, <1>7, <1>8, <1>9, <1>10 DEF LifeInv

\* A step of the exchange: what trades is told to a process that is up, and
\* nothing else changes but what it holds and what it answers.
LEMMA VenueStep ==
  ASSUME LifeInv, UNCHANGED <<manager, process, strays, missed, setup, quiet>>, mishaps' \in Int,
         OrdersInv(venue', fills', calls', all, live, strays),
         Explained(venue, calls, all, live, strays) => Explained(venue', calls', all, live, strays),
         OwnCalls = {} => OwnCalls' = {},
         up => Unread' - Unread = Position' - Position,
         up => Unread' \in Int /\ Position' \in Int /\ Unread \in Int /\ Position \in Int,
         ~up => /\ Len(venue') = Len(venue) /\ fills' = fills
                /\ \A i \in 1..Len(venue) :
                     /\ venue'[i].at = "sent" => venue[i].at = "sent"
                     /\ venue'[i].at = "resting" => venue[i].at = "resting" \/ i \in strays
                /\ ~CanTrade => ~CanTrade' /\ Position' = Position
  PROVE  LifeInv'
<1>1. /\ UNCHANGED <<all, live, recent, frozen, tick, task, net, killed, dispatching, up,
                     strays, missed, setup, quiet>>
  BY DEF manager, process
<1>2. SetupInv'
  BY <1>1, SetupSteady DEF LifeInv
<1>3. LocalTypes'
  BY <1>1 DEF LifeInv, LocalTypes
<1>4. up => net' + Unread' + missed' = Position'
  <2>1. SUFFICES ASSUME up PROVE net' + Unread' + missed' = Position'
    OBVIOUS
  <2>2. net \in Int /\ missed \in Int /\ net + Unread + missed = Position
    BY <2>1 DEF LifeInv, LocalTypes
  <2> QED BY <1>1, <2>1, <2>2
<1> QED BY <1>1, <1>2, <1>3, <1>4 DEF LifeInv

\* The types of the sums.
LEMMA PositionIs ==
  ASSUME LifeInv
  PROVE  /\ OrdersInv(venue, fills, calls, all, live, strays)
         /\ venue \in Seq(Orders) /\ Len(venue) \in Nat /\ fills \in Seq(Events)
         /\ \A i \in 1..Len(fills) : fills[i].id <= Len(venue)
         /\ Traded(venue) \in Int /\ Position \in Int
         /\ Unread = UnreadOf(venue, fills) /\ Unread \in Int
         /\ mishaps \in Int
<1>1. OrdersInv(venue, fills, calls, all, live, strays) /\ mishaps \in Int
  BY DEF LifeInv, LocalTypes
<1>2. venue \in Seq(Orders) /\ Len(venue) \in Nat /\ fills \in Seq(Events)
  BY <1>1, Shaped
<1>3. \A i \in 1..Len(fills) : fills[i].id <= Len(venue)
  BY <1>1 DEF OrdersInv, Shapes
<1>4. Traded(venue) \in Int
  BY <1>2, TradedIs
<1>5. Position \in Int
  BY <1>4, StartPosAssumption DEF Position
<1>6. Unread = UnreadOf(venue, fills) /\ UnreadOf(venue, fills) \in Int
  BY <1>2, UnreadNow, UnreadIs
<1> QED BY <1>1, <1>2, <1>3, <1>4, <1>5, <1>6

\* Moving an order changes neither the position nor what is unread.
LEMMA MovedStep ==
  ASSUME LifeInv, NEW n \in 1..Len(venue), NEW at \in {"sent", "resting", "gone"},
         venue' = Moved(venue, n, at), UNCHANGED fills
  PROVE  /\ Unread' = Unread /\ Position' = Position
         /\ Unread \in Int /\ Position \in Int
<1>1. /\ venue \in Seq(Orders) /\ Len(venue) \in Nat /\ fills \in Seq(Events)
      /\ \A i \in 1..Len(fills) : fills[i].id <= Len(venue)
      /\ Position \in Int /\ Unread \in Int /\ Unread = UnreadOf(venue, fills)
  BY PositionIs
<1>2. Traded(venue') = Traded(venue)
  BY <1>1, TradedMoved
<1>3. \A i \in 1..Len(venue) : venue'[i].side = venue[i].side
  <2>1. \A i \in 1..Len(venue) : Moved(venue, n, at)[i].side = venue[i].side
    <3>1. venue \in Seq(Orders)
      BY <1>1
    <3> QED BY <3>1, MovedIs
  <2> QED BY <2>1
<1>4. UnreadOf(venue', fills) = UnreadOf(venue, fills)
  BY <1>1, <1>3, UnreadSame
<1> QED BY <1>1, <1>2, <1>4, UnreadThen DEF Position

\* The exchange answers a POST.
LEMMA PostAnswerOrders ==
  ASSUME LifeInv, UNCHANGED restart, NEW c, VenueAccepts(c) \/ VenueRejects(c)
  PROVE  LifeInv'
<1>1. /\ c \in calls /\ c.op = "post" /\ c.reply = "none"
      /\ UNCHANGED <<fills, manager, process, strays, missed, setup, quiet>>
      /\ mishaps' = mishaps \/ mishaps' = mishaps + 1
  BY DEF VenueAccepts, VenueRejects, Mishap, history, restart
<1>2. PICK at, r : /\ (r \in {"created", "odd"} /\ at = "resting") \/ (r = "error" /\ at = "gone")
                   /\ venue' = Moved(venue, c.id, at) /\ calls' = Replied(calls, c, r)
  BY DEF VenueAccepts, VenueRejects, Answer, Moved, Replied
<1>3. /\ OrdersInv(venue, fills, calls, all, live, strays)
      /\ mishaps' \in Int /\ venue \in Seq(Orders)
  BY <1>1, PositionIs
<1>4. Post(c, venue, calls, all, live, strays)
  BY <1>1, <1>3 DEF OrdersInv, Posts
<1>5. PICK n : n = c.id
  OBVIOUS
<1>6. n \in 1..Len(venue) /\ calls \subseteq Requests
  BY <1>1, <1>3, <1>5, Shaped
<1>7. at \in {"sent", "resting", "gone"} /\ at # "sent" /\ r \in {"created", "odd", "ok", "error"}
  BY <1>2
<1>8. Unread' = Unread /\ Position' = Position /\ Unread \in Int /\ Position \in Int
  BY <1>1, <1>2, <1>5, <1>6, <1>7, MovedStep
<1>9. /\ OrdersInv(Moved(venue, c.id, at), fills, Replied(calls, c, r), all, live, strays)
      /\ Explained(venue, calls, all, live, strays) =>
           Explained(Moved(venue, c.id, at), Replied(calls, c, r), all, live, strays)
  BY <1>1, <1>2, <1>3, PostAnswered
<1>10. OwnCalls = {} => OwnCalls' = {}
  <2>1. \A d \in calls' : d \in calls \/ (c.by = "strategy" /\ d.by = "strategy")
    BY <1>1, <1>2, <1>6, <1>7, RepliedIs
  <2> QED BY <1>1, <2>1 DEF OwnCalls
<1>11. ~up => /\ Len(venue') = Len(venue)
              /\ \A i \in 1..Len(venue) :
                   /\ venue'[i].at = "sent" => venue[i].at = "sent"
                   /\ venue'[i].at = "resting" => venue[i].at = "resting" \/ i \in strays
              /\ CanTrade
  <2>1. SUFFICES ASSUME ~up
        PROVE  /\ Len(venue') = Len(venue)
               /\ \A i \in 1..Len(venue) :
                    /\ venue'[i].at = "sent" => venue[i].at = "sent"
                    /\ venue'[i].at = "resting" => venue[i].at = "resting" \/ i \in strays
               /\ CanTrade
    OBVIOUS
  <2>2. c.by = "nobody"
    <3>1. OwnCalls = {}
      BY <2>1 DEF LifeInv
    <3> QED BY <1>1, <1>6, <3>1 DEF OwnCalls, Requests
  <2>3. n \in strays
    BY <1>4, <1>5, <2>2 DEF Post
  <2>4. /\ Len(venue') = Len(venue) /\ venue'[n].at = at
        /\ \A i \in 1..Len(venue) : i # n => venue'[i] = venue[i]
    BY <1>2, <1>3, <1>5, <1>6, <1>7, MovedIs
  <2>5. CanTrade
    BY <1>1 DEF CanTrade
  <2> QED BY <1>7, <2>3, <2>4, <2>5
<1> QED BY <1>1, <1>2, <1>3, <1>8, <1>9, <1>10, <1>11, VenueStep

\* The exchange answers a DELETE.
LEMMA DeleteAnswerOrders ==
  ASSUME LifeInv, UNCHANGED restart, NEW c, VenueCancels(c)
  PROVE  LifeInv'
<1>1. /\ c \in calls /\ c.op = "delete" /\ c.reply = "none"
      /\ UNCHANGED <<fills, manager, process, strays, missed, mishaps, setup, quiet>>
  BY DEF VenueCancels, history, restart
<1>2. PICK r : /\ r = IF venue[c.id].at = "resting" THEN "ok" ELSE "error"
               /\ venue' = Moved(venue, c.id, "gone") /\ calls' = Replied(calls, c, r)
  BY DEF VenueCancels, Answer, Moved, Replied, Resting
<1>3. /\ OrdersInv(venue, fills, calls, all, live, strays)
      /\ mishaps' \in Int /\ venue \in Seq(Orders)
  BY <1>1, PositionIs
<1>4. PICK n : n = c.id
  OBVIOUS
<1>5. n \in 1..Len(venue) /\ calls \subseteq Requests
  BY <1>1, <1>3, <1>4, Shaped
<1>6. r \in {"created", "odd", "ok", "error"}
  BY <1>2
<1>7. Unread' = Unread /\ Position' = Position /\ Unread \in Int /\ Position \in Int
  BY <1>1, <1>2, <1>4, <1>5, MovedStep
<1>8. /\ OrdersInv(Moved(venue, c.id, "gone"), fills, Replied(calls, c, r), all, live, strays)
      /\ Explained(venue, calls, all, live, strays) =>
           Explained(Moved(venue, c.id, "gone"), Replied(calls, c, r), all, live, strays)
  BY <1>1, <1>2, <1>3, DeleteAnswered
<1>9. \A d \in calls' : d \in calls \/ (c.by = "strategy" /\ d.by = "strategy" /\ d.reply = r)
  BY <1>1, <1>2, <1>5, <1>6, RepliedIs
<1>10. OwnCalls = {} => OwnCalls' = {}
  BY <1>1, <1>9 DEF OwnCalls
<1>11. /\ Len(venue') = Len(venue) /\ venue'[n].at = "gone"
       /\ \A i \in 1..Len(venue) : i # n => venue'[i] = venue[i]
  <2>1. /\ Len(Moved(venue, n, "gone")) = Len(venue) /\ Moved(venue, n, "gone")[n].at = "gone"
        /\ \A i \in 1..Len(venue) : i # n => Moved(venue, n, "gone")[i] = venue[i]
    BY <1>3, <1>5, MovedIs
  <2>2. venue' = Moved(venue, n, "gone")
    BY <1>2, <1>4
  <2> QED BY <2>1, <2>2
<1>12. ~CanTrade => ~CanTrade'
  <2>1. \A i \in RestingIds' : i \in RestingIds
    BY <1>11 DEF RestingIds, Resting
  <2>2. \A d \in calls' : d.reply = "none" => d \in calls
    BY <1>6, <1>9, <1>2
  <2> QED BY <2>1, <2>2 DEF CanTrade
<1> QED BY <1>1, <1>2, <1>3, <1>7, <1>8, <1>10, <1>11, <1>12, VenueStep

\* What traded in part rests on, what traded in full is gone.
LEMMA SoldTo ==
  ASSUME NEW ve, NEW id, NEW qty, ve \in Seq(Orders), id \in 1..Len(ve), qty \in 1..ve[id].left
  PROVE  /\ qty # ve[id].left => Sold(ve, id, qty)[id].at = "resting"
         /\ qty = ve[id].left => Sold(ve, id, qty)[id].at = "gone"
<1>1. ve[id] \in Orders
  OBVIOUS
<1>2. ve[id].left \in Nat /\ qty \in Nat /\ qty <= ve[id].left
  BY <1>1, Bounds DEF Orders
<1>3. CASE qty < ve[id].left
  <2>1. Sold(ve, id, qty)[id].at = "resting" /\ qty # ve[id].left
    BY <1>1, <1>2, <1>3 DEF Sold, Orders
  <2> QED BY <2>1
<1>4. CASE qty = ve[id].left
  <2>1. ~(qty < ve[id].left)
    BY <1>2, <1>4
  <2>2. Sold(ve, id, qty)[id].at = "gone"
    BY <1>1, <2>1 DEF Sold, Orders
  <2> QED BY <1>4, <2>2
<1> QED BY <1>2, <1>3, <1>4

\* A trade leaves every order as it was but the one that traded, which rested.
LEMMA SoldAt ==
  ASSUME NEW ve, NEW id, NEW qty, ve \in Seq(Orders), id \in 1..Len(ve), qty \in 1..ve[id].left,
         ve[id].at = "resting"
  PROVE  \A i \in 1..Len(ve) :
           /\ Sold(ve, id, qty)[i].at = "sent" <=> ve[i].at = "sent"
           /\ Sold(ve, id, qty)[i].at = "resting" => ve[i].at = "resting"
           /\ Sold(ve, id, qty)[i].left <= ve[i].left
           /\ i = id /\ Sold(ve, id, qty)[i].at = "resting" => Sold(ve, id, qty)[i].left > 0
<1> DEFINE w == Sold(ve, id, qty)
<1>1. /\ \A i \in 1..Len(ve) : i # id => w[i] = ve[i]
      /\ w[id].left = ve[id].left - qty
  BY SoldIs
<1>5. /\ qty # ve[id].left => w[id].at = "resting"
      /\ qty = ve[id].left => w[id].at = "gone"
  BY SoldTo
<1>6. \A i \in 1..Len(ve) : ve[i].left \in Nat
  <2>1. \A i \in 1..Len(ve) : ve[i] \in Orders
    OBVIOUS
  <2> QED BY <2>1, Bounds DEF Orders
<1> HIDE DEF w
<1>2. TAKE i \in 1..Len(ve)
<1>3. CASE i = id
  <2>1. qty \in Nat /\ qty > 0 /\ qty <= ve[id].left /\ ve[id].left \in Nat
    BY <1>6
  <2>2. CASE qty # ve[id].left
    BY <1>1, <1>3, <1>5, <2>1, <2>2 DEF w
  <2>3. CASE qty = ve[id].left
    BY <1>1, <1>3, <1>5, <2>1, <2>3 DEF w
  <2> QED BY <2>2, <2>3
<1>4. CASE i # id
  BY <1>1, <1>4, <1>6 DEF w
<1> QED BY <1>3, <1>4

\* A trade nobody is told of.
LEMMA SoldDown ==
  ASSUME NEW ve, NEW fi, NEW cs, NEW al, NEW lv, NEW st, NEW n, NEW qty,
         OrdersInv(ve, fi, cs, al, lv, st), DOMAIN al = {}, \A c \in cs : c.by # "strategy",
         n \in 1..Len(ve), qty \in 1..ve[n].left, ve[n].at = "resting"
  PROVE  OrdersInv(Sold(ve, n, qty), fi, cs, al, lv, st)
<1>1. /\ ve \in Seq(Orders)
      /\ \A i \in 1..Len(ve) : /\ ve[i].at = "sent" => ve[i].left = Lots
                               /\ ve[i].at = "resting" => ve[i].left > 0
  BY Shaped
<1>2. Sold(ve, n, qty) \in Seq(Orders) /\ Len(Sold(ve, n, qty)) = Len(ve)
  BY <1>1, SoldIs
<1>3. \A i \in 1..Len(ve) : i # n => Sold(ve, n, qty)[i] = ve[i]
  BY <1>1, SoldIs
<1>4. \A i \in 1..Len(ve) :
        /\ Sold(ve, n, qty)[i].at = "sent" <=> ve[i].at = "sent"
        /\ Sold(ve, n, qty)[i].left <= ve[i].left
        /\ i = n /\ Sold(ve, n, qty)[i].at = "resting" => Sold(ve, n, qty)[i].left > 0
  BY <1>1, SoldAt
<1>5. \A i \in 1..Len(ve) :
        /\ Sold(ve, n, qty)[i].at = "sent" <=> ve[i].at = "sent"
        /\ Sold(ve, n, qty)[i].at = "sent" => Sold(ve, n, qty)[i].left = Lots
        /\ Sold(ve, n, qty)[i].at = "resting" => Sold(ve, n, qty)[i].left > 0
        /\ Sold(ve, n, qty)[i].left <= ve[i].left
  <2>1. TAKE i \in 1..Len(ve)
  <2>2. CASE i = n
    BY <1>4, <2>2
  <2>3. CASE i # n
    BY <1>1, <1>3, <1>4, <2>3
  <2> QED BY <2>2, <2>3
<1> QED BY <1>2, <1>5, DownKeeps

\* A trade the process is told of changes the position by what is then unread.
LEMMA SaleTold ==
  ASSUME LifeInv, NEW id, NEW qty, NEW e, id \in 1..Len(venue), qty \in 1..venue[id].left,
         e \in Events, e.id = id, e.qty = qty,
         venue' = Sold(venue, id, qty), fills' = Append(fills, e)
  PROVE  /\ Unread' - Unread = Position' - Position
         /\ Unread \in Int /\ Position \in Int /\ Unread' \in Int /\ Position' \in Int
<1>1. /\ venue \in Seq(Orders) /\ Len(venue) \in Nat /\ fills \in Seq(Events)
      /\ \A i \in 1..Len(fills) : fills[i].id <= Len(venue)
      /\ Position \in Int /\ Unread \in Int /\ Unread = UnreadOf(venue, fills)
  BY PositionIs
<1>2. \A i \in 1..Len(venue) : venue'[i].side = venue[i].side
  <2>1. \A i \in 1..Len(venue) : Sold(venue, id, qty)[i].side = venue[i].side
    BY <1>1, SoldIs
  <2> QED BY <2>1
<1>3. PICK d : d = Signed(venue[id].side, qty)
  OBVIOUS
<1>4. d \in Int
  <2>1. qty \in Int
    OBVIOUS
  <2> QED BY <1>3, <2>1, SignedType
<1>5. Position' = Position + d
  <2>1. Traded(Sold(venue, id, qty)) = Traded(venue) + Signed(venue[id].side, qty)
    BY <1>1, TradedSold
  <2>2. Traded(venue) \in Int
    BY <1>1, TradedIs
  <2> QED BY <1>3, <1>4, <2>1, <2>2, StartPosAssumption DEF Position
<1>6. Unread' = Unread + d
  <2>1. UnreadOf(venue', fills') = UnreadOf(venue', fills) + Signed(venue'[e.id].side, e.qty)
    BY <1>1, UnreadAppend
  <2>2. UnreadOf(venue', fills) = UnreadOf(venue, fills)
    <3>1. PICK w : w = venue'
      OBVIOUS
    <3>2. \A i \in 1..Len(venue) : w[i].side = venue[i].side
      BY <1>2, <3>1
    <3>3. UnreadOf(w, fills) = UnreadOf(venue, fills)
      BY <1>1, <3>2, UnreadSame
    <3> QED BY <3>1, <3>3
  <2> QED BY <1>1, <1>2, <1>3, <2>1, <2>2, UnreadThen
<1> QED BY <1>1, <1>4, <1>5, <1>6

\* An order trades, in part or in full, with or without a process to tell.
LEMMA FillOrders ==
  ASSUME LifeInv, UNCHANGED restart, NEW id \in 1..Len(venue), VenueFills(id)
  PROVE  LifeInv'
<1>1. /\ venue[id].at = "resting"
      /\ UNCHANGED <<calls, manager, process, strays, missed, setup, quiet>>
      /\ mishaps' = mishaps \/ mishaps' = mishaps + 1
  BY DEF VenueFills, Resting, Mishap, restart
<1>2. /\ OrdersInv(venue, fills, calls, all, live, strays)
      /\ venue \in Seq(Orders) /\ Len(venue) \in Nat /\ fills \in Seq(Events)
      /\ \A i \in 1..Len(fills) : fills[i].id <= Len(venue)
      /\ Position \in Int /\ Unread \in Int /\ Unread = UnreadOf(venue, fills)
      /\ mishaps' \in Int
  BY <1>1, PositionIs
<1>3. venue[id].left \in 0..Lots /\ venue[id].left > 0 /\ Lots \in Nat /\ venue[id].side \in Sides
  <2>1. \A i \in 1..Len(venue) : venue[i].at = "resting" => venue[i].left > 0
    BY <1>2 DEF OrdersInv, Shapes
  <2>2. venue[id] \in Orders
    BY <1>2
  <2> QED BY <1>1, <2>1, <2>2, Bounds DEF Orders
<1>4. PICK qty : qty \in 1..venue[id].left /\ Trades(id, qty)
  <2>1. venue[id].left \in 1..venue[id].left
    BY <1>3
  <2>2. 1..(venue[id].left - 1) \subseteq 1..venue[id].left
    BY <1>3
  <2> QED BY <2>1, <2>2 DEF VenueFills
<1>5. /\ venue' = Sold(venue, id, qty)
      /\ fills' = IF up THEN Append(fills, [id |-> id, qty |-> qty]) ELSE fills
  BY <1>4 DEF Trades, Sold
<1>6. PICK e : e = [id |-> id, qty |-> qty]
  OBVIOUS
<1>7. e \in Events /\ e.id = id /\ e.qty = qty
  <2>1. id \in Ids
    BY <1>2, Shaped, Bounds DEF Ids
  <2>2. qty \in 1..Lots
    BY <1>3, <1>4
  <2> QED BY <1>6, <2>1, <2>2 DEF Events
<1>8. /\ Len(venue') = Len(venue)
      /\ \A i \in 1..Len(venue) : venue'[i].side = venue[i].side
  <2>1. /\ Len(Sold(venue, id, qty)) = Len(venue)
        /\ \A i \in 1..Len(venue) : Sold(venue, id, qty)[i].side = venue[i].side
    BY <1>2, <1>4, SoldIs
  <2> QED BY <1>5, <2>1
<1>9. OwnCalls' = OwnCalls
  BY <1>1 DEF OwnCalls
<1>10. CASE up
  <2>1. fills' = Append(fills, e)
    BY <1>5, <1>6, <1>10
  <2>2. /\ OrdersInv(venue', fills', calls', all, live, strays)
        /\ Explained(venue, calls, all, live, strays) => Explained(venue', calls', all, live, strays)
    <3>1. /\ OrdersInv(Sold(venue, id, qty), Append(fills, e), calls, all, live, strays)
          /\ Explained(venue, calls, all, live, strays) =>
               Explained(Sold(venue, id, qty), calls, all, live, strays)
      BY <1>1, <1>2, <1>4, <1>7, SoldKeeps
    <3> QED BY <1>1, <1>5, <2>1, <3>1
  <2>7. /\ Unread' - Unread = Position' - Position
        /\ Unread' \in Int /\ Position' \in Int
    BY <1>4, <1>5, <1>7, <2>1, SaleTold
  <2> QED BY <1>1, <1>2, <1>9, <1>10, <2>2, <2>7, VenueStep
<1>11. CASE ~up
  <2>1. /\ all = <<>> /\ OwnCalls = {} /\ fills' = fills
    BY <1>5, <1>11 DEF LifeInv
  <2>2. DOMAIN all = {} /\ \A c \in calls : c.by # "strategy"
    BY <2>1 DEF OwnCalls
  <2>4. OrdersInv(venue', fills, calls, all, live, strays)
    <3>1. OrdersInv(Sold(venue, id, qty), fills, calls, all, live, strays)
      BY <1>1, <1>2, <1>4, <2>2, SoldDown
    <3> QED BY <1>5, <3>1
  <2>5. CanTrade
    BY <1>1 DEF CanTrade, RestingIds, Resting
  <2>6. \A i \in 1..Len(venue) : /\ venue'[i].at = "sent" => venue[i].at = "sent"
                                 /\ venue'[i].at = "resting" => venue[i].at = "resting"
    <3>1. \A i \in 1..Len(venue) :
            /\ Sold(venue, id, qty)[i].at = "sent" <=> venue[i].at = "sent"
            /\ Sold(venue, id, qty)[i].at = "resting" => venue[i].at = "resting"
      BY <1>1, <1>2, <1>4, SoldAt
    <3> QED BY <1>5, <3>1
  <2>7. Explained(venue, calls, all, live, strays) => Explained(venue', calls', all, live, strays)
    <3>1. \A i : ~Excused(i, venue, all)
      BY <2>2 DEF Excused, Overcounted
    <3> QED BY <1>1, <1>8, <2>6, <3>1 DEF Explained
  <2> QED BY <1>1, <1>2, <1>8, <1>9, <1>11, <2>1, <2>4, <2>5, <2>6, <2>7, VenueStep
<1> QED BY <1>10, <1>11

\* Where an order was before it trades makes no difference to what it is then.
LEMMA SoldMoved ==
  ASSUME NEW ve, NEW id, NEW qty, ve \in Seq(Orders), id \in 1..Len(ve), qty \in 1..ve[id].left
  PROVE  Sold(Moved(ve, id, "resting"), id, qty) = Sold(ve, id, qty)
<1> DEFINE at == IF qty < ve[id].left THEN "resting" ELSE "gone"
           o == [[ve[id] EXCEPT !.left = ve[id].left - qty] EXCEPT !.at = at]
           m == [ve[id] EXCEPT !.at = "resting"]
           om == [[m EXCEPT !.left = ve[id].left - qty] EXCEPT !.at = at]
           v == Moved(ve, id, "resting")
<1>1. ve[id] \in Orders /\ ve \in [1..Len(ve) -> Orders]
  OBVIOUS
<1>2. m.left = ve[id].left /\ om = o
  <2> HIDE DEF at
  <2> QED BY <1>1 DEF Orders
<1>3. v = [ve EXCEPT ![id] = m]
  BY DEF Moved
<1> HIDE DEF m
<1>4. v[id] = m /\ \A x : [v EXCEPT ![id] = x] = [ve EXCEPT ![id] = x]
  <2> HIDE DEF v
  <2> QED BY <1>1, <1>3
<1> HIDE DEF v
<1>5. Sold(ve, id, qty) = [ve EXCEPT ![id] = o]
  BY DEF Sold
<1>6. Sold(v, id, qty) = [v EXCEPT ![id] = om]
  <2>1. Sold(v, id, qty) =
          [v EXCEPT ![id] = [[v[id] EXCEPT !.left = v[id].left - qty]
                               EXCEPT !.at = IF qty < v[id].left THEN "resting" ELSE "gone"]]
    BY DEF Sold
  <2> QED BY <1>2, <1>4, <2>1
<1> HIDE DEF o, om
<1> QED BY <1>2, <1>4, <1>5, <1>6 DEF v

\* An order trades as it is accepted, and its answer says how much.
LEMMA MatchKeeps ==
  ASSUME NEW ve, NEW fi, NEW cs, NEW al, NEW lv, NEW st, NEW c, NEW qty, NEW e, NEW ds,
         OrdersInv(ve, fi, cs, al, lv, st), c \in cs, c.op = "post", c.reply = "none",
         qty \in 1..Lots, e \in Events, e.id = c.id, e.qty = qty,
         ds = (cs \ {c}) \cup (IF c.by = "nobody" THEN {}
                               ELSE {[c EXCEPT !.reply = "created", !.fill = qty]})
  PROVE  /\ OrdersInv(Sold(ve, c.id, qty), Append(fi, e), ds, al, lv, st)
         /\ Explained(ve, cs, al, lv, st) => Explained(Sold(ve, c.id, qty), ds, al, lv, st)
<1>1. PICK n : n = c.id
  OBVIOUS
<1> DEFINE m == Moved(ve, n, "resting")
           w == Sold(ve, n, qty)
           rs == Replied(cs, c, "created")
           d == [c EXCEPT !.reply = "created", !.fill = 0]
           a == [c EXCEPT !.reply = "created", !.fill = qty]
<1>2. Post(c, ve, cs, al, lv, st)
  BY DEF OrdersInv, Posts
<1>3. /\ ve \in Seq(Orders) /\ n \in 1..Len(ve) /\ cs \subseteq Requests
      /\ Lots \in Nat /\ ve[n].left = Lots
  BY <1>1, <1>2, Shaped, Bounds DEF Post
<1>4. /\ OrdersInv(m, fi, rs, al, lv, st)
      /\ Explained(ve, cs, al, lv, st) => Explained(m, rs, al, lv, st)
  BY <1>1, PostAnswered
<1>5. /\ Len(m) = Len(ve) /\ m[n].left = Lots /\ m[n].at = "resting"
  BY <1>3, MovedIs
<1>6. Sold(m, n, qty) = w /\ w[n].left = Lots - qty
  BY <1>3, SoldMoved, SoldIs
<1>7. /\ OrdersInv(w, Append(fi, e), rs, al, lv, st)
      /\ Explained(ve, cs, al, lv, st) => Explained(w, rs, al, lv, st)
  <2> HIDE DEF m, rs, w
  <2>1. n \in 1..Len(m) /\ qty \in 1..m[n].left
    BY <1>3, <1>5
  <2>2. /\ OrdersInv(Sold(m, n, qty), Append(fi, e), rs, al, lv, st)
        /\ Explained(m, rs, al, lv, st) => Explained(Sold(m, n, qty), rs, al, lv, st)
    BY <1>1, <1>4, <1>5, <2>1, SoldKeeps
  <2> QED BY <1>4, <1>6, <2>2
<1>8. CASE c.by = "nobody"
  <2>1. ds = rs
    BY <1>8 DEF Replied
  <2> HIDE DEF rs
  <2> QED BY <1>1, <1>7, <2>1
<1>9. CASE c.by # "nobody"
  <2>1. ds = (cs \ {c}) \cup {a} /\ rs = (cs \ {c}) \cup {d}
    BY <1>9 DEF Replied
  <2>2. /\ d.op = "post" /\ d.reply = "created" /\ d.id = n
        /\ [d EXCEPT !.fill = qty] = a
    <3> DEFINE R == [by : {"strategy", "nobody"}, op : {"post", "delete", "tick"}, id : 0..MaxOrders,
                     reply : {"none", "created", "odd", "ok", "error"}, fill : 0..Lots]
               x == [c EXCEPT !.reply = "created"]
    <3>1. c \in R
      BY <1>3 DEF Requests
    <3>2. x \in R /\ x.op = "post" /\ x.reply = "created" /\ x.id = n
      BY <1>1, <3>1
    <3>3. d = [x EXCEPT !.fill = 0] /\ a = [x EXCEPT !.fill = qty]
      BY Zenon
    <3> HIDE DEF x, d, a
    <3> QED BY <3>2, <3>3
  <2>3. d \notin cs \ {c}
    BY <1>1, <1>2, <2>2 DEF Post
  <2> HIDE DEF a, d, rs
  <2>4. d \in rs /\ ds = (rs \ {d}) \cup {[d EXCEPT !.fill = qty]}
    BY <2>1, <2>2, <2>3
  <2>5. qty \in 0..Lots /\ qty + w[d.id].left <= Lots
    BY <1>3, <1>6, <2>2
  <2> HIDE DEF w
  <2>6. /\ OrdersInv(w, Append(fi, e), ds, al, lv, st)
        /\ Explained(w, rs, al, lv, st) => Explained(w, ds, al, lv, st)
    <3>1. /\ OrdersInv(w, Append(fi, e), (rs \ {d}) \cup {[d EXCEPT !.fill = qty]}, al, lv, st)
          /\ Explained(w, rs, al, lv, st) =>
               Explained(w, (rs \ {d}) \cup {[d EXCEPT !.fill = qty]}, al, lv, st)
      <4>1. PICK f : f = Append(fi, e)
        OBVIOUS
      <4>2. OrdersInv(w, f, rs, al, lv, st)
        BY <1>7, <4>1
      <4>3. /\ OrdersInv(w, f, (rs \ {d}) \cup {[d EXCEPT !.fill = qty]}, al, lv, st)
            /\ Explained(w, rs, al, lv, st) =>
                 Explained(w, (rs \ {d}) \cup {[d EXCEPT !.fill = qty]}, al, lv, st)
        <5>1. d \in rs /\ d.op = "post" /\ d.reply = "created"
          BY <2>2, <2>4
        <5> QED BY <2>5, <4>2, <5>1, FillNoted
      <4> QED BY <4>1, <4>3
    <3> QED BY <2>4, <3>1
  <2> QED BY <1>1, <1>7, <2>6 DEF w
<1> QED BY <1>8, <1>9

\* It trades with nobody to tell, or to answer.
LEMMA MatchDown ==
  ASSUME NEW ve, NEW fi, NEW cs, NEW al, NEW lv, NEW st, NEW c, NEW qty,
         OrdersInv(ve, fi, cs, al, lv, st), c \in cs, c.op = "post", c.reply = "none",
         c.by = "nobody", qty \in 1..Lots, DOMAIN al = {}, \A d \in cs : d.by # "strategy"
  PROVE  OrdersInv(Sold(ve, c.id, qty), fi, cs \ {c}, al, lv, st)
<1>1. PICK n : n = c.id
  OBVIOUS
<1> DEFINE m == Moved(ve, n, "resting")
           w == Sold(ve, n, qty)
           rs == Replied(cs, c, "created")
<1>2. Post(c, ve, cs, al, lv, st)
  BY DEF OrdersInv, Posts
<1>3. /\ ve \in Seq(Orders) /\ n \in 1..Len(ve) /\ Lots \in Nat /\ ve[n].left = Lots
  BY <1>1, <1>2, Shaped, Bounds DEF Post
<1>4. OrdersInv(m, fi, rs, al, lv, st)
  BY <1>1, PostAnswered
<1>5. /\ Len(m) = Len(ve) /\ m[n].left = Lots /\ m[n].at = "resting"
  BY <1>3, MovedIs
<1>6. Sold(m, n, qty) = w
  BY <1>3, SoldMoved
<1>7. rs = cs \ {c}
  BY DEF Replied
<1> HIDE DEF m, rs, w
<1>8. n \in 1..Len(m) /\ qty \in 1..m[n].left
  BY <1>3, <1>5
<1>9. OrdersInv(Sold(m, n, qty), fi, rs, al, lv, st)
  BY <1>4, <1>5, <1>7, <1>8, SoldDown
<1> QED BY <1>1, <1>6, <1>7, <1>9 DEF w

\* The exchange matches a POST.
LEMMA MatchOrders ==
  ASSUME LifeInv, UNCHANGED restart, NEW c, VenueMatches(c)
  PROVE  LifeInv'
<1>1. /\ c \in calls /\ c.op = "post" /\ c.reply = "none"
      /\ UNCHANGED <<manager, process, strays, missed, setup, quiet>>
      /\ mishaps' = mishaps + 1
  BY DEF VenueMatches, Mishap, restart
<1>2. PICK n : n = c.id
  OBVIOUS
<1>3. PICK qty \in 1..Lots : Trades(n, qty) /\ Answer(c, "created", qty)
  BY <1>2 DEF VenueMatches
<1>4. /\ venue' = Sold(venue, n, qty)
      /\ fills' = IF up THEN Append(fills, [id |-> n, qty |-> qty]) ELSE fills
      /\ calls' = (calls \ {c}) \cup (IF c.by = "nobody" THEN {}
                                      ELSE {[c EXCEPT !.reply = "created", !.fill = qty]})
  BY <1>3 DEF Trades, Sold, Answer
<1>5. /\ OrdersInv(venue, fills, calls, all, live, strays)
      /\ mishaps' \in Int /\ venue \in Seq(Orders) /\ Len(venue) \in Nat
      /\ Unread \in Int /\ Position \in Int
  BY <1>1, PositionIs
<1>6. Post(c, venue, calls, all, live, strays)
  BY <1>1, <1>5 DEF OrdersInv, Posts
<1>7. /\ n \in 1..Len(venue) /\ calls \subseteq Requests /\ venue[n].left = Lots /\ n \in Ids
      /\ qty \in 1..venue[n].left
  BY <1>1, <1>2, <1>5, <1>6, Shaped, Bounds DEF Post, Ids
<1>8. PICK e : e = [id |-> n, qty |-> qty]
  OBVIOUS
<1>9. e \in Events /\ e.id = n /\ e.qty = qty
  BY <1>7, <1>8 DEF Events
<1>10. Len(venue') = Len(venue)
  BY <1>4, <1>5, <1>7, SoldIs
<1>11. CASE up
  <2>1. fills' = Append(fills, e)
    BY <1>4, <1>8, <1>11
  <2>2. /\ OrdersInv(venue', fills', calls', all, live, strays)
        /\ Explained(venue, calls, all, live, strays) => Explained(venue', calls', all, live, strays)
    <3>1. PICK ds : ds = calls'
      OBVIOUS
    <3>2. /\ OrdersInv(Sold(venue, c.id, qty), Append(fills, e), ds, all, live, strays)
          /\ Explained(venue, calls, all, live, strays) =>
               Explained(Sold(venue, c.id, qty), ds, all, live, strays)
      <4>1. ds = (calls \ {c}) \cup (IF c.by = "nobody" THEN {}
                                    ELSE {[c EXCEPT !.reply = "created", !.fill = qty]})
        BY <1>4, <3>1
      <4>2. e \in Events /\ e.id = c.id /\ e.qty = qty
        BY <1>2, <1>9
      <4>3. /\ OrdersInv(venue, fills, calls, all, live, strays)
            /\ c \in calls /\ c.op = "post" /\ c.reply = "none" /\ qty \in 1..Lots
        BY <1>1, <1>5
      <4> QED BY <4>1, <4>2, <4>3, MatchKeeps
    <3> QED BY <1>2, <1>4, <2>1, <3>1, <3>2
  <2>3. /\ Unread' - Unread = Position' - Position
        /\ Unread' \in Int /\ Position' \in Int
    BY <1>4, <1>7, <1>9, <2>1, SaleTold
  <2>4. OwnCalls = {} => OwnCalls' = {}
    <3>1. SUFFICES ASSUME OwnCalls = {} PROVE OwnCalls' = {}
      OBVIOUS
    <3>2. c.by = "nobody"
      BY <1>1, <1>7, <3>1 DEF OwnCalls, Requests
    <3>3. calls' = calls \ {c}
      BY <1>4, <3>2
    <3> QED BY <3>1, <3>3 DEF OwnCalls
  <2> QED BY <1>1, <1>5, <1>11, <2>2, <2>3, <2>4, VenueStep
<1>12. CASE ~up
  <2>1. /\ all = <<>> /\ OwnCalls = {} /\ fills' = fills
    BY <1>4, <1>12 DEF LifeInv
  <2>2. DOMAIN all = {} /\ \A d \in calls : d.by # "strategy"
    BY <2>1 DEF OwnCalls
  <2>3. c.by = "nobody"
    BY <1>1, <1>7, <2>2 DEF Requests
  <2>4. calls' = calls \ {c} /\ OwnCalls' = {}
    BY <1>4, <2>2, <2>3 DEF OwnCalls
  <2>5. OrdersInv(venue', fills', calls', all, live, strays)
    <3>1. OrdersInv(Sold(venue, c.id, qty), fills, calls \ {c}, all, live, strays)
      BY <1>1, <1>3, <1>5, <2>2, <2>3, MatchDown
    <3> QED BY <1>2, <1>4, <2>1, <2>4, <3>1
  <2>6. n \in strays
    BY <1>2, <1>6, <2>3 DEF Post
  <2>7. \A i \in 1..Len(venue) : i # n => venue'[i] = venue[i]
    BY <1>4, <1>5, <1>7, SoldIs
  <2>8. venue'[n].at # "sent" /\ venue'[n].side = venue[n].side
    <3>1. /\ qty # venue[n].left => Sold(venue, n, qty)[n].at = "resting"
          /\ qty = venue[n].left => Sold(venue, n, qty)[n].at = "gone"
      BY <1>5, <1>7, SoldTo
    <3>2. Sold(venue, n, qty)[n].side = venue[n].side
      BY <1>5, <1>7, SoldIs
    <3> QED BY <1>4, <3>1, <3>2
  <2>9. CanTrade
    BY <1>1 DEF CanTrade
  <2>10. Explained(venue, calls, all, live, strays) => Explained(venue', calls', all, live, strays)
    <3>1. \A d \in calls : d.id = n \/ d \in calls'
      BY <1>2, <2>4
    <3>2. ASSUME NEW id \in 1..Len(venue), id # n, Excused(id, venue, all) PROVE Excused(id, venue', all)
      BY <2>2, <3>2 DEF Excused, Overcounted
    <3> QED BY <1>10, <2>6, <2>7, <3>1, <3>2 DEF Explained
  <2> QED BY <1>1, <1>5, <1>10, <1>12, <2>1, <2>4, <2>5, <2>6, <2>7, <2>8, <2>9, <2>10, VenueStep
<1> QED BY <1>11, <1>12

\* The order in which the exchange lists what rests is its own; each is listed.
LEMMA ListedAll ==
  ASSUME NEW n \in Nat, NEW S \in SUBSET (1..n)
  PROVE  /\ SetToSeq(S) \in Seq(1..n) /\ \A i \in DOMAIN SetToSeq(S) : SetToSeq(S)[i] \in S
         /\ \A id \in S : \E i \in DOMAIN SetToSeq(S) : SetToSeq(S)[i] = id
<1> DEFINE k == Cardinality(S)
<1>1. IsFiniteSet(S) /\ k \in Nat /\ ExistsBijection(1..k, S)
  <2>1. IsFiniteSet(1..n)
    BY FS_Interval
  <2>2. IsFiniteSet(S)
    BY <2>1, FS_Subset
  <2> QED BY <2>2, FS_CardinalityType
<1>2. PICK g : g \in Bijection(1..k, S)
  BY <1>1 DEF ExistsBijection
<1>3. g \in [1..k -> S] /\ IsInjective(g)
  BY <1>2 DEF Bijection, Injection, IsInjective
<1>4. SetToSeq(S) \in [1..k -> S] /\ IsInjective(SetToSeq(S))
  <2> DEFINE P(f) == f \in [1..k -> S] /\ IsInjective(f)
  <2>1. \E f : P(f)
    BY <1>3
  <2>2. P(CHOOSE f : P(f))
    BY <2>1
  <2> QED BY <1>3 DEF SetToSeq
<1>5. PICK f : f = SetToSeq(S)
  OBVIOUS
<1>6. f \in Injection(1..k, S)
  BY <1>4, <1>5 DEF Injection, IsInjective
<1>7. IsFiniteSet(1..k) /\ Cardinality(1..k) = k
  BY <1>1, FS_Interval
<1>8. f \in Surjection(1..k, S)
  BY <1>1, <1>6, <1>7, FS_Injection
<1>9. \A id \in S : \E i \in 1..k : f[i] = id
  BY <1>8 DEF Surjection
<1>10. f \in [1..k -> S] /\ DOMAIN f = 1..k
  BY <1>4, <1>5
<1>11. f \in [1..k -> 1..n]
  BY <1>10
<1>12. f \in Seq(1..n)
  BY <1>1, <1>11
<1> QED BY <1>5, <1>9, <1>10, <1>12

\* A process that ends takes its calls, its index and its events with it; a
\* POST on its way is from then on an order somebody gave up on.
LEMMA EndOrders ==
  ASSUME LifeInv, ProcessEnds
  PROVE  LifeInv'
<1> DEFINE su == strays \cup {c.id : c \in {d \in OwnCalls : d.reply = "none" /\ d.op = "post"}}
<1>1. /\ strays' = su /\ calls' = Outliving(calls, OwnCalls)
      /\ all' = <<>> /\ live' = [s \in Sides |-> NoOrder] /\ fills' = <<>>
      /\ up' = FALSE /\ quiet' = FALSE /\ setup' = [at |-> "off"]
      /\ UNCHANGED <<venue, mishaps>>
  BY DEF ProcessEnds, Outliving
<1>2. OrdersInv(venue, fills, calls, all, live, strays) /\ LocalTypes
  BY DEF LifeInv
<1>3. OwnCalls \subseteq calls /\ \A c \in calls : c \in OwnCalls <=> c.by = "strategy"
  BY DEF OwnCalls
<1>4. /\ strays \subseteq su /\ su \subseteq 1..Len(venue)
      /\ \A c \in OwnCalls : c.reply = "none" /\ c.op = "post" => c.id \in su
  <2>1. strays \subseteq 1..Len(venue)
    BY <1>2, Shaped
  <2>2. \A d \in calls : d.op = "post" => d.id \in 1..Len(venue)
    BY <1>2, Shaped
  <2> QED BY <1>3, <2>1, <2>2
<1> HIDE DEF su
<1>5. /\ live' \in [Sides -> 0..MaxOrders] /\ \A t \in Sides : live'[t] = NoOrder
  BY <1>1, Bounds DEF NoOrder
<1>6. /\ OrdersInv(venue, <<>>, Outliving(calls, OwnCalls), all', live', su)
      /\ \A d \in Outliving(calls, OwnCalls) : d.by # "strategy"
  <2>1. PICK own, b, w : own = OwnCalls /\ b = all' /\ w = live'
    OBVIOUS
  <2>2. /\ b = <<>> /\ w \in [Sides -> 0..MaxOrders] /\ \A t \in Sides : w[t] = NoOrder
        /\ own \subseteq calls /\ \A c \in calls : c \in own <=> c.by = "strategy"
        /\ \A c \in own : c.reply = "none" /\ c.op = "post" => c.id \in su
    BY <1>1, <1>3, <1>4, <1>5, <2>1
  <2>3. /\ OrdersInv(venue, <<>>, Outliving(calls, own), b, w, su)
        /\ \A d \in Outliving(calls, own) : d.by # "strategy"
    <3>1. OrdersInv(venue, fills, calls, all, live, strays)
      BY <1>2
    <3>2. Wider(strays, su, venue)
      BY <1>4 DEF Wider
    <3> QED BY <2>2, <3>1, <3>2, Forgotten
  <2> QED BY <2>1, <2>3
<1>7. OrdersInv(venue', fills', calls', all', live', strays')
  BY <1>1, <1>6
<1>8. OwnCalls' = {}
  BY <1>1, <1>6 DEF OwnCalls
<1>9. SetupInv'
  BY <1>1 DEF SetupInv, Done
<1>10. LocalTypes'
  <2>1. /\ recent' = [s \in Sides |-> 0] /\ frozen' = [s \in Sides |-> FALSE] /\ tick' = NoTick
        /\ task' = Idle /\ net' = 0 /\ killed' = FALSE /\ dispatching' = FALSE /\ missed' = 0
    BY DEF ProcessEnds
  <2>2. recent' \in [Sides -> Nat] /\ frozen' \in [Sides -> BOOLEAN] /\ tick' \in {NoTick, Cent, Step}
    BY <2>1
  <2>3. task'.mode \notin {"asking", "quoting"}
    BY <2>1 DEF Idle
  <2>4. {net', missed', mishaps'} \subseteq Int
    BY <1>1, <1>2, <2>1 DEF LocalTypes
  <2>5. {killed', dispatching', up', quiet'} \subseteq BOOLEAN
    BY <1>1, <2>1
  <2> QED BY <2>2, <2>3, <2>4, <2>5 DEF LocalTypes
<1> QED BY <1>1, <1>7, <1>8, <1>9, <1>10 DEF LifeInv

\* What _setup does not touch while it has not started the tasks.
LEMMA DownStep ==
  ASSUME LifeInv, ~up, UNCHANGED <<fills, calls, manager, process, missed>>, mishaps' \in Int,
         quiet' \in BOOLEAN, OrdersInv(venue', fills, calls, all, live, strays'), SetupInv'
  PROVE  LifeInv'
<1>1. /\ UNCHANGED <<all, live, recent, frozen, tick, task, net, killed, dispatching, up>>
  BY DEF manager, process
<1>2. LocalTypes'
  BY <1>1 DEF LifeInv, LocalTypes
<1>3. OwnCalls' = OwnCalls
  BY DEF OwnCalls
<1> QED BY <1>1, <1>2, <1>3 DEF LifeInv

\* The next process starts its _setup.
LEMMA BeginOrders ==
  ASSUME LifeInv, Begin
  PROVE  LifeInv'
<1>1. /\ setup.at = "off" /\ setup' = [at |-> "fetching"]
      /\ UNCHANGED <<venue, fills, calls, manager, process, missed, strays, mishaps, quiet, up>>
  BY DEF Begin, history, process
<1>2. ~up
  BY <1>1 DEF LifeInv, SetupInv, Done
<1>3. SetupInv'
  BY <1>1, <1>2 DEF SetupInv, Done
<1>4. /\ mishaps' \in Int /\ quiet' \in BOOLEAN
      /\ OrdersInv(venue', fills, calls, all, live, strays')
  BY <1>1 DEF LifeInv, LocalTypes
<1> QED BY <1>1, <1>2, <1>3, <1>4, DownStep

\* The positions are read: exactly, and for good if nothing can trade.
LEMMA FetchOrders ==
  ASSUME LifeInv, FetchPositions
  PROVE  LifeInv'
<1>1. /\ setup.at = "fetching"
      /\ UNCHANGED <<venue, fills, calls, manager, process, missed, strays, up>>
  BY DEF FetchPositions, process
<1>2. ~up /\ mishaps \in Int /\ OrdersInv(venue, fills, calls, all, live, strays)
  BY <1>1 DEF LifeInv, SetupInv, Done, LocalTypes
<1>3. PICK snap : /\ setup' = Setup("listing", snap, <<>>) /\ snap \in Int
                  /\ quiet' \in BOOLEAN /\ (quiet' => ~CanTrade /\ snap = Position)
                  /\ mishaps' \in Int
  <2>1. CASE setup' = Setup("listing", Position, <<>>) /\ quiet' = ~CanTrade /\ UNCHANGED mishaps
    <3>1. Position \in Int
      BY PositionIs
    <3> QED BY <1>2, <2>1, <3>1
  <2>2. CASE setup' = Setup("listing", 0, <<>>) /\ quiet' = FALSE /\ Mishap
    <3>1. PICK snap : snap = 0
      OBVIOUS
    <3>2. mishaps' \in Int
      BY <1>2, <2>2 DEF Mishap
    <3>3. setup' = Setup("listing", snap, <<>>) /\ snap \in Int
      BY <2>2, <3>1
    <3>4. quiet' \in BOOLEAN
      BY <2>2
    <3>5. ~quiet'
      BY <2>2
    <3> QED BY <3>2, <3>3, <3>4, <3>5
  <2> QED BY <2>1, <2>2 DEF FetchPositions
<1>4. (CanTrade <=> CanTrade') /\ Position' = Position
  BY <1>1 DEF CanTrade, RestingIds, Resting, Position
<1>5. /\ setup'.at = "listing" /\ setup'.snap = snap /\ setup' # Done
      /\ setup' \in Readings
  BY <1>3 DEF Setup, Done, Readings
<1>6. SetupInv'
  BY <1>1, <1>2, <1>3, <1>4, <1>5 DEF SetupInv
<1>7. OrdersInv(venue', fills, calls, all, live, strays')
  BY <1>1, <1>2
<1> QED BY <1>1, <1>2, <1>3, <1>6, <1>7, DownStep

\* What rests is listed to be cancelled, or nobody knows of it any more.
LEMMA ListOrdersKeeps ==
  ASSUME LifeInv, ListOrders
  PROVE  LifeInv'
<1>1. /\ setup.at = "listing"
      /\ UNCHANGED <<venue, fills, calls, manager, process, missed, quiet, up>>
  BY DEF ListOrders, process
<1>2. /\ ~up /\ mishaps \in Int /\ quiet \in BOOLEAN /\ setup.snap \in Int
      /\ OrdersInv(venue, fills, calls, all, live, strays)
      /\ quiet => ~CanTrade /\ setup.snap = Position
  BY <1>1 DEF LifeInv, SetupInv, Done, LocalTypes
<1>3. RestingIds \in SUBSET (1..Len(venue)) /\ Len(venue) \in Nat
  BY <1>2, Shaped DEF RestingIds
<1>4. strays \subseteq 1..Len(venue)
  BY <1>2, Shaped
<1>5. PICK todo : /\ setup' = Setup("cancelling", setup.snap, todo) /\ todo \in Seq(1..Len(venue))
                  /\ \A id \in RestingIds : (\E i \in DOMAIN todo : todo[i] = id) \/ id \in strays'
                  /\ \A i \in DOMAIN todo : venue[todo[i]].at # "sent"
                  /\ strays \subseteq strays' /\ strays' \subseteq 1..Len(venue)
                  /\ mishaps' \in Int
  <2>1. CASE setup' = Setup("cancelling", setup.snap, SetToSeq(RestingIds)) /\ UNCHANGED <<strays, mishaps>>
    <3>1. PICK todo : todo = SetToSeq(RestingIds)
      OBVIOUS
    <3>2. /\ todo \in Seq(1..Len(venue)) /\ \A i \in DOMAIN todo : todo[i] \in RestingIds
          /\ \A id \in RestingIds : \E i \in DOMAIN todo : todo[i] = id
      BY <1>3, <3>1, ListedAll
    <3>4. \A i \in DOMAIN todo : venue[todo[i]].at # "sent"
      BY <3>2 DEF RestingIds, Resting
    <3> QED BY <1>2, <1>4, <2>1, <3>1, <3>2, <3>4
  <2>2. CASE /\ setup' = Setup("cancelling", setup.snap, <<>>)
             /\ strays' = strays \cup RestingIds /\ Mishap
    <3>1. PICK todo : todo = <<>>
      OBVIOUS
    <3>2. todo \in Seq(1..Len(venue)) /\ \A i \in DOMAIN todo : venue[todo[i]].at # "sent"
      BY <3>1
    <3>3. mishaps' \in Int
      BY <1>2, <2>2 DEF Mishap
    <3>4. strays \subseteq strays' /\ strays' \subseteq 1..Len(venue) /\ RestingIds \subseteq strays'
      BY <1>3, <1>4, <2>2
    <3> QED BY <2>2, <3>1, <3>2, <3>3, <3>4
  <2> QED BY <2>1, <2>2 DEF ListOrders
<1>6. (CanTrade <=> CanTrade') /\ Position' = Position /\ RestingIds' = RestingIds
  BY <1>1 DEF CanTrade, RestingIds, Resting, Position
<1>7. /\ setup'.at = "cancelling" /\ setup'.snap = setup.snap /\ setup'.todo = todo
      /\ setup' \in Readings /\ setup' # Done
  <2>1. todo \in Seq(Nat)
    BY <1>3, <1>5
  <2> QED BY <1>2, <1>5, <2>1 DEF Setup, Done, Readings
<1>8. SetupInv'
  BY <1>1, <1>2, <1>5, <1>6, <1>7 DEF SetupInv
<1>9. OrdersInv(venue', fills, calls, all, live, strays')
  BY <1>1, <1>2, <1>5, StraysGrow
<1> QED BY <1>1, <1>2, <1>5, <1>8, <1>9, DownStep

\* One order of the list is cancelled, or the call failed and nobody knows of
\* it any more; either way the loop is done with it.
LEMMA CancelOrderKeeps ==
  ASSUME LifeInv, CancelOrder
  PROVE  LifeInv'
<1>1. /\ setup.at = "cancelling" /\ setup.todo # <<>>
      /\ UNCHANGED <<fills, calls, manager, process, missed, quiet, up>>
  BY DEF CancelOrder, process
<1>2. /\ ~up /\ mishaps \in Int /\ quiet \in BOOLEAN /\ setup.snap \in Int
      /\ setup \in Readings
      /\ OrdersInv(venue, fills, calls, all, live, strays)
      /\ all = <<>> /\ OwnCalls = {}
  BY <1>1 DEF LifeInv, SetupInv, Done, LocalTypes
<1>3. PICK todo, id : todo = setup.todo /\ id = Head(todo)
  OBVIOUS
<1>4. /\ todo \in Seq(1..Len(venue)) /\ todo # <<>>
      /\ RestingIds \subseteq {todo[i] : i \in DOMAIN todo} \cup strays
      /\ \A i \in DOMAIN todo : venue[todo[i]].at # "sent"
      /\ quiet => ~CanTrade /\ setup.snap = Position
  BY <1>1, <1>2, <1>3 DEF LifeInv, SetupInv
<1>5. /\ id \in 1..Len(venue) /\ venue[id].at # "sent" /\ 1 \in DOMAIN todo /\ id = todo[1]
  BY <1>3, <1>4
<1>6. /\ Tail(todo) \in Seq(1..Len(venue))
      /\ \A i \in DOMAIN Tail(todo) : i + 1 \in DOMAIN todo /\ Tail(todo)[i] = todo[i + 1]
      /\ \A i \in DOMAIN todo : i # 1 => i - 1 \in DOMAIN Tail(todo) /\ Tail(todo)[i - 1] = todo[i]
  BY <1>4
<1>7. /\ setup' = [setup EXCEPT !.todo = Tail(todo)]
      /\ \/ venue' = Moved(venue, id, "gone") /\ UNCHANGED <<strays, mishaps>>
         \/ venue' = venue /\ strays' = strays \cup {id} /\ Mishap
  BY <1>3 DEF CancelOrder, LeftToCancel, Moved
<1>8. /\ setup'.at = "cancelling" /\ setup'.snap = setup.snap /\ setup'.todo = Tail(todo)
      /\ setup' \in Readings /\ setup' # Done
  <2>1. Tail(todo) \in Seq(Nat)
    BY <1>2, <1>3, <1>4 DEF Readings
  <2> QED BY <1>1, <1>2, <1>7, <2>1 DEF Done, Readings
<1>9. /\ venue \in Seq(Orders) /\ Len(venue) \in Nat /\ strays \subseteq 1..Len(venue)
      /\ \A i \in 1..Len(venue) : /\ venue[i].at = "sent" => venue[i].left = Lots
                                  /\ venue[i].at = "resting" => venue[i].left > 0
                                  /\ venue[i].left \in Nat
  BY <1>2, Shaped
<1>10. mishaps' \in Int
  BY <1>2, <1>7 DEF Mishap
<1>11. CASE venue' = Moved(venue, id, "gone") /\ UNCHANGED <<strays, mishaps>>
  <2>1. /\ Moved(venue, id, "gone") \in Seq(Orders) /\ Len(Moved(venue, id, "gone")) = Len(venue)
        /\ \A i \in 1..Len(venue) : /\ Moved(venue, id, "gone")[i].left = venue[i].left
                                    /\ i # id => Moved(venue, id, "gone")[i] = venue[i]
        /\ Moved(venue, id, "gone")[id].at = "gone"
    BY <1>5, <1>9, MovedIs
  <2>2. DOMAIN all = {} /\ \A c \in calls : c.by # "strategy"
    BY <1>2 DEF OwnCalls
  <2>3. \A i \in 1..Len(venue) :
          /\ Moved(venue, id, "gone")[i].at = "sent" <=> venue[i].at = "sent"
          /\ Moved(venue, id, "gone")[i].at = "sent" => Moved(venue, id, "gone")[i].left = Lots
          /\ Moved(venue, id, "gone")[i].at = "resting" => Moved(venue, id, "gone")[i].left > 0
          /\ Moved(venue, id, "gone")[i].left <= venue[i].left
    <3>1. TAKE i \in 1..Len(venue)
    <3>2. CASE i = id
      BY <1>5, <1>9, <2>1, <3>2
    <3>3. CASE i # id
      BY <1>9, <2>1, <3>3
    <3> QED BY <3>2, <3>3
  <2>4. OrdersInv(venue', fills, calls, all, live, strays')
    <3>1. OrdersInv(Moved(venue, id, "gone"), fills, calls, all, live, strays)
      BY <1>2, <2>1, <2>2, <2>3, DownKeeps
    <3> QED BY <1>11, <3>1
  <2>5. /\ Len(venue') = Len(venue) /\ venue'[id].at = "gone"
        /\ \A i \in 1..Len(venue) : i # id => venue'[i] = venue[i]
    BY <1>11, <2>1
  <2>6. \A i \in RestingIds' : i \in RestingIds /\ i # id
    BY <2>5 DEF RestingIds, Resting
  <2>7. \A i \in DOMAIN Tail(todo) : venue'[Tail(todo)[i]].at # "sent"
    <3>1. TAKE i \in DOMAIN Tail(todo)
    <3>2. PICK j : j = Tail(todo)[i]
      OBVIOUS
    <3>3. j \in 1..Len(venue) /\ venue[j].at # "sent"
      BY <1>4, <1>6, <3>2
    <3>4. CASE j = id
      BY <2>5, <3>2, <3>4
    <3>5. CASE j # id
      BY <2>5, <3>2, <3>3, <3>5
    <3> QED BY <3>4, <3>5
  <2>8. \A j \in RestingIds' : (\E i \in DOMAIN Tail(todo) : Tail(todo)[i] = j) \/ j \in strays'
    <3>1. SUFFICES ASSUME NEW j \in RestingIds', j \notin strays'
                   PROVE  \E i \in DOMAIN Tail(todo) : Tail(todo)[i] = j
      OBVIOUS
    <3>2. PICK i \in DOMAIN todo : todo[i] = j
      BY <1>4, <1>11, <2>6, <3>1
    <3>3. i # 1
      BY <1>5, <2>6, <3>1, <3>2
    <3> QED BY <1>6, <3>2, <3>3
  <2>9. quiet' => ~CanTrade' /\ setup.snap = Position'
    <3>1. Position' = Position
      BY <1>5, <1>9, <1>11, TradedMoved DEF Position
    <3>2. ~CanTrade => ~CanTrade'
      BY <1>1, <2>6 DEF CanTrade
    <3> QED BY <1>1, <1>4, <3>1, <3>2
  <2>10. SetupInv'
    BY <1>1, <1>2, <1>6, <1>8, <2>5, <2>7, <2>8, <2>9 DEF SetupInv
  <2> QED BY <1>1, <1>2, <1>10, <2>4, <2>10, DownStep
<1>12. CASE venue' = venue /\ strays' = strays \cup {id} /\ Mishap
  <2>1. strays \subseteq strays' /\ strays' \subseteq 1..Len(venue)
    BY <1>5, <1>9, <1>12
  <2>2. OrdersInv(venue', fills, calls, all, live, strays')
    BY <1>2, <1>12, <2>1, StraysGrow
  <2>3. \A i \in DOMAIN Tail(todo) : venue'[Tail(todo)[i]].at # "sent"
    BY <1>4, <1>6, <1>12
  <2>4. RestingIds' = RestingIds /\ (CanTrade <=> CanTrade') /\ Position' = Position
    BY <1>1, <1>12 DEF RestingIds, Resting, CanTrade, Position
  <2>5. \A j \in RestingIds' : (\E i \in DOMAIN Tail(todo) : Tail(todo)[i] = j) \/ j \in strays'
    <3>1. SUFFICES ASSUME NEW j \in RestingIds', j \notin strays'
                   PROVE  \E i \in DOMAIN Tail(todo) : Tail(todo)[i] = j
      OBVIOUS
    <3>2. PICK i \in DOMAIN todo : todo[i] = j
      BY <1>4, <1>12, <2>4, <3>1
    <3>3. i # 1
      BY <1>5, <1>12, <3>1, <3>2
    <3> QED BY <1>6, <3>2, <3>3
  <2>6. SetupInv'
    BY <1>1, <1>2, <1>4, <1>6, <1>8, <1>12, <2>3, <2>4, <2>5 DEF SetupInv
  <2> QED BY <1>1, <1>2, <1>10, <2>2, <2>6, DownStep
<1> QED BY <1>7, <1>11, <1>12

\* The tasks start: nothing rests that anybody still knows of, and the position
\* is what was read, right if nothing could trade since.
LEMMA GoOrders ==
  ASSUME LifeInv, Go
  PROVE  LifeInv'
<1>1. /\ setup.at = "cancelling" /\ setup.todo = <<>>
      /\ net' = setup.snap /\ missed' = (IF quiet THEN 0 ELSE Position - setup.snap)
      /\ up' = TRUE /\ dispatching' = TRUE /\ setup' = Done
      /\ UNCHANGED <<venue, fills, calls, all, live, recent, frozen, tick, task, killed,
                     strays, mishaps, quiet>>
  BY DEF Go, manager
<1>2. /\ ~up /\ setup.snap \in Int /\ LocalTypes
      /\ OrdersInv(venue, fills, calls, all, live, strays) /\ fills = <<>>
      /\ RestingIds \subseteq strays
      /\ quiet => setup.snap = Position
  <2>1. ~up
    BY <1>1 DEF LifeInv, SetupInv, Done
  <2> QED BY <1>1, <2>1 DEF LifeInv, SetupInv
<1>3. Position \in Int /\ Position' = Position
  BY <1>1, PositionIs DEF Position
<1>4. missed' \in Int
  BY <1>1, <1>2, <1>3
<1>5. net' + Unread' + missed' = Position'
  <2>1. Unread' = 0
    <3>1. fills' = <<>>
      BY <1>1, <1>2
    <3> QED BY <3>1, UnreadThen, UnreadEmpty
  <2>2. net' + missed' = Position
    BY <1>1, <1>2, <1>3
  <2> QED BY <1>1, <1>2, <1>3, <1>4, <2>1, <2>2
<1>6. Explained(venue', calls', all', live', strays')
  BY <1>1, <1>2 DEF Explained, RestingIds, Resting
<1>7. OrdersInv(venue', fills', calls', all', live', strays')
  BY <1>1, <1>2
<1>8. SetupInv'
  BY <1>1 DEF SetupInv, Done
<1>9. LocalTypes'
  <2>1. net' \in Int
    BY <1>1, <1>2
  <2>2. {killed', dispatching', up', quiet'} \subseteq BOOLEAN
    BY <1>1, <1>2 DEF LocalTypes
  <2> QED BY <1>1, <1>2, <1>4, <2>1, <2>2 DEF LocalTypes
<1> QED BY <1>1, <1>5, <1>6, <1>7, <1>8, <1>9 DEF LifeInv

\* The first process starts on an account without orders.
LEMMA FirstProcess == Init => LifeInv
<1> SUFFICES ASSUME Init PROVE LifeInv
  OBVIOUS
<1>1. /\ venue = <<>> /\ calls = {} /\ strays = {} /\ mishaps = 0 /\ all = <<>> /\ fills = <<>>
      /\ live = [s \in Sides |-> NoOrder] /\ net = StartPos /\ missed = 0 /\ up = TRUE /\ setup = Done
  BY DEF Init, InitVenue, FreshManager
<1>2. PICK al : al = all
  OBVIOUS
<1>3. DOMAIN al = {} /\ al \in [DOMAIN al -> Records]
  BY <1>1, <1>2
<1>4. live \in [Sides -> 0..MaxOrders] /\ \A s \in Sides : live[s] = NoOrder
  BY <1>1, Bounds DEF NoOrder
<1>5. Shapes(venue, fills, calls, al, live, strays)
  BY <1>1, <1>3, <1>4, Bounds DEF Shapes
<1>6. /\ Posts(venue, calls, al, live, strays) /\ Deletes(venue, calls, al, live, strays)
      /\ Known(venue, al, live) /\ Held(venue, fills, calls, al, live, strays)
      /\ Filling(venue, fills, calls, al, strays)
  BY <1>1, <1>3, <1>4 DEF Posts, Deletes, Known, Held, Filling
<1>7. OrdersInv(venue, fills, calls, all, live, strays)
  BY <1>2, <1>5, <1>6 DEF OrdersInv
<1>8. Explained(venue, calls, all, live, strays)
  BY <1>1 DEF Explained
<1>9. LocalTypes
  <2>1. /\ recent = [s \in Sides |-> 0] /\ frozen = [s \in Sides |-> FALSE] /\ tick = NoTick
        /\ task = Idle /\ killed = FALSE /\ dispatching = TRUE /\ quiet = TRUE
    BY DEF Init, FreshManager
  <2>2. recent \in [Sides -> Nat] /\ frozen \in [Sides -> BOOLEAN] /\ tick \in {NoTick, Cent, Step}
    BY <2>1
  <2>3. task.mode \notin {"asking", "quoting"}
    BY <2>1 DEF Idle
  <2>4. {net, missed, mishaps} \subseteq Int
    BY <1>1, StartPosAssumption
  <2>5. {killed, dispatching, up, quiet} \subseteq BOOLEAN
    BY <1>1, <2>1
  <2> QED BY <2>2, <2>3, <2>4, <2>5 DEF LocalTypes
<1>10. SetupInv
  BY <1>1 DEF SetupInv, Done
<1>11. net + Unread + missed = Position
  <2>1. Unread = 0
    BY <1>1, UnreadNow, UnreadEmpty
  <2>2. Traded(venue) = 0
    <3>1. Traded(venue) = Weigh(<<>>, Worth)
      <4>1. venue \in Seq(Orders) /\ venue = <<>>
        BY <1>1
      <4> QED BY <4>1, TradedIs
    <3> QED BY <1>1, <3>1, WeighEmpty
  <2> QED BY <1>1, <2>1, <2>2, StartPosAssumption DEF Position
<1> QED BY <1>1, <1>7, <1>8, <1>9, <1>10, <1>11 DEF LifeInv

-----------------------------------------------------------------------------
(* The invariant, and what follows from it.                                *)

\* Every step keeps the invariant.
LEMMA LifeStep == LifeInv /\ KillInv /\ [Next]_vars => LifeInv'
<1> SUFFICES ASSUME LifeInv, KillInv, [Next]_vars PROVE LifeInv'
  OBVIOUS
<1>1. CASE OrderNext /\ UNCHANGED restart
  <2>1. CASE UpdateSweep \/ UpdateAtLimit \/ \E v \in Views : UpdateQuotes(v)
    BY <1>1, <2>1, UpdateOrders
  <2>2. CASE Returns
    BY <1>1, <2>2, TickOrders, PostOrders, RepriceOrders, SweepReturnOrders DEF Returns
  <2>3. CASE Timeouts
    BY <1>1, <2>3, TimeoutOrders DEF Timeouts
  <2>4. CASE VenueAnswers
    BY <1>1, <2>4, PostAnswerOrders, MatchOrders, DeleteAnswerOrders DEF VenueAnswers
  <2>5. CASE DispatchStops \/ Kill \/ \E s \in Sides : WindowPasses(s) \/ Thaw(s)
    BY <1>1, <2>5, TimeOrders
  <2>6. CASE DispatchFill
    BY <1>1, <2>6, DispatchOrders
  <2>7. CASE \E id \in 1..Len(venue) : VenueFills(id)
    BY <1>1, <2>7, FillOrders
  <2>8. CASE FillLost
    BY <1>1, <2>8, LostOrders
  <2> QED BY <1>1, <2>1, <2>2, <2>3, <2>4, <2>5, <2>6, <2>7, <2>8 DEF OrderNext
<1>2. CASE Crash \/ StrategyThrows
  BY <1>2, EndOrders DEF Crash, StrategyThrows
<1>3. CASE SetupNext
  BY <1>3, BeginOrders, FetchOrders, ListOrdersKeeps, CancelOrderKeeps, GoOrders DEF SetupNext
<1>4. CASE UNCHANGED vars
  <2>1. /\ UNCHANGED <<venue, fills, calls, all, live, recent, frozen, tick, task, net, killed,
                       dispatching, up, strays, missed, mishaps, setup, quiet>>
    BY <1>4 DEF vars, manager, process, history, restart
  <2>2. LocalTypes'
    BY <2>1 DEF LifeInv, LocalTypes
  <2> QED BY <2>1, <2>2, QuietStep
<1> QED BY <1>1, <1>2, <1>3, <1>4 DEF Next

\* And so every reachable state satisfies it.
LEMMA LifeAlways == Spec => [](LifeInv /\ KillInv)
<1>1. Init => LifeInv /\ KillInv
  BY FirstProcess, KillInit
<1>2. LifeInv /\ KillInv /\ [Next]_vars => (LifeInv /\ KillInv)'
  BY LifeStep, KillStep
<1> QED BY <1>1, <1>2, PTL DEF Spec

\* The state keeps its shapes: what the index, the live index and the calls in
\* flight name are orders of the exchange (KalshiOrderManager, StartupReconciler).
THEOREM TypeCorrect == Spec => []TypeOK
<1>1. LifeInv /\ KillInv => TypeOK
  <2> SUFFICES ASSUME LifeInv, KillInv PROVE TypeOK
    OBVIOUS
  <2>1. /\ Shapes(venue, fills, calls, all, live, strays) /\ LocalTypes /\ SetupInv
    BY DEF LifeInv, OrdersInv
  <2>2. calls \subseteq [by : {"strategy", "nobody"}, op : {"post", "delete", "tick"},
                         id : 0..Len(venue), reply : {"none", "created", "odd", "ok", "error"}, fill : 0..Lots]
    BY <2>1 DEF Shapes, Requests
  <2>3. \A id \in DOMAIN all :
          all[id] \in [status : {"PENDING", "OPEN", "PARTIAL_FILL", "FILLED", "CANCELLED"},
                       filled : Nat]
    BY <2>1 DEF Shapes, Records
  <2>4. live \in [Sides -> {NoOrder} \cup DOMAIN all]
    BY <2>1 DEF Shapes
  <2>5. venue \in Seq([side : Sides, price : Int, left : 0..Lots, at : {"sent", "resting", "gone"}])
        /\ fills \in Seq([id : Ids, qty : 1..Lots])
    BY <2>1 DEF Shapes, Orders, Events
  <2>6. DOMAIN all \subseteq 1..Len(venue) /\ strays \subseteq 1..Len(venue)
    BY <2>1 DEF Shapes
  <2>7. task.mode \in {"idle", "asking", "sweeping", "quoting"} /\ late \in Int
    BY DEF KillInv
  <2>8. /\ recent \in [Sides -> Nat] /\ frozen \in [Sides -> BOOLEAN] /\ tick \in {NoTick, Cent, Step}
        /\ {net, missed, mishaps} \subseteq Int /\ {killed, dispatching, up, quiet} \subseteq BOOLEAN
    BY <2>1 DEF LocalTypes
  <2>9. /\ setup.at \in {"off", "fetching", "listing", "cancelling", "done"}
        /\ up <=> setup = Done
    BY <2>1 DEF SetupInv
  <2> QED BY <2>2, <2>3, <2>4, <2>5, <2>6, <2>7, <2>8, <2>9 DEF TypeOK
<1> QED BY <1>1, LifeAlways, PTL

\* An excuse that is about an order with something left is one of an order that
\* was counted twice.
LEMMA ExcuseIsCount ==
  ASSUME LifeInv, NEW id \in 1..Len(venue), Excused(id, venue, all), venue[id].left > 0
  PROVE  Miscounted(venue[id].side)
<1>1. OrdersInv(venue, fills, calls, all, live, strays)
  BY DEF LifeInv
<1>2. /\ DOMAIN all \subseteq 1..Len(venue) /\ Lots \in Nat
      /\ \A j \in 1..Len(venue) : venue[j].left \in Nat
      /\ \A j \in DOMAIN all : all[j].filled \in Nat
  BY <1>1, Shaped, Bounds
<1>3. CASE id \in DOMAIN all /\ all[id].filled >= Lots
  <2>1. CountedTwice(id)
    BY <1>2, <1>3 DEF CountedTwice
  <2> QED BY <1>3, <2>1 DEF Miscounted
<1>4. CASE Overcounted(venue[id].side, venue, all)
  <2>1. PICK j \in DOMAIN all :
          /\ venue[j].side = venue[id].side /\ all[j].filled >= Lots
          /\ all[j].filled > Lots \/ (venue[j].at = "gone" /\ venue[j].left > 0)
    BY <1>4 DEF Overcounted
  <2>2. all[j].filled \in Nat /\ venue[j].left \in Nat
    BY <1>2
  <2>3. CountedTwice(j)
    BY <1>2, <2>1, <2>2 DEF CountedTwice
  <2> QED BY <2>1, <2>3 DEF Miscounted
<1> QED BY <1>3, <1>4 DEF Excused

\* An order that rests while the process neither holds it, nor waits for its
\* POST, nor was made to give up on it by a failed call, was pushed out by an
\* order that was counted twice (_update_side, _cancel_order, mark_filled,
\* _resolve_placed_status, reconcile_kalshi): there is no other way, with any
\* number of orders, failures and restarts.
THEOREM OrphansAlwaysExplained == Spec => []OrphansExplained
<1>1. LifeInv => OrphansExplained
  <2> SUFFICES ASSUME LifeInv, up, NEW id \in RestingIds
               PROVE  \/ live[venue[id].side] = id \/ PostInFlight(id) \/ id \in strays
                      \/ Miscounted(venue[id].side)
    BY DEF OrphansExplained
  <2>1. OrdersInv(venue, fills, calls, all, live, strays)
    BY DEF LifeInv
  <2>2. id \in 1..Len(venue) /\ venue[id].at = "resting" /\ venue[id].left > 0
    BY <2>1, Shaped DEF RestingIds, Resting
  <2>3. \/ live[venue[id].side] = id \/ PostInFlight(id) \/ id \in strays
        \/ Excused(id, venue, all)
    BY <2>2 DEF LifeInv, Explained, PostInFlight
  <2> QED BY <2>2, <2>3, ExcuseIsCount
<1> QED BY <1>1, LifeAlways, PTL

\* del self._live[key] in _cancel_order finds under its key the order that was
\* cancelled; it raises a KeyError only on a side with an order that was counted
\* twice, and never drops another order than its own.
THEOREM CancelsFindTheirOrder == Spec => []CancelFindsItsOrder
<1>1. LifeInv => CancelFindsItsOrder
  <2> SUFFICES ASSUME LifeInv, NEW c \in OwnCalls, c.op = "delete", c.reply = "ok"
               PROVE  \/ live[venue[c.id].side] = c.id
                      \/ live[venue[c.id].side] = NoOrder /\ Miscounted(venue[c.id].side)
    BY DEF CancelFindsItsOrder
  <2>1. OrdersInv(venue, fills, calls, all, live, strays)
    BY DEF LifeInv
  <2>2. c \in calls /\ c.by = "strategy"
    BY DEF OwnCalls
  <2>3. Delete(c, venue, all, live, strays)
    BY <2>1, <2>2 DEF OrdersInv, Deletes
  <2>4. c.id \in 1..Len(venue)
    BY <2>1, <2>2, Shaped
  <2>5. /\ live[venue[c.id].side] \in {c.id, NoOrder} /\ venue[c.id].left > 0
        /\ live[venue[c.id].side] = c.id \/ Excused(c.id, venue, all)
    BY <2>2, <2>3 DEF Delete
  <2> QED BY <2>4, <2>5, ExcuseIsCount
<1> QED BY <1>1, LifeAlways, PTL

\* While the process runs its position is the exchange's, up to events unread or
\* lost and to what traded while it started (seed_position, _apply_fill).
THEOREM PositionAlwaysKnown == Spec => []PositionKnown
<1>1. LifeInv => PositionKnown
  BY DEF LifeInv, PositionKnown
<1> QED BY <1>1, LifeAlways, PTL

\* What a side holds can still be taken out: it rests, or its answer or its
\* event is on the way, or a failed call was about it (_update_side, mark_filled).
THEOREM GoneAlwaysExplained == Spec => []GoneExplained
<1>1. LifeInv => GoneExplained
  <2> SUFFICES ASSUME LifeInv, NEW s \in Sides, live[s] # NoOrder
               PROVE  \/ Resting(live[s]) \/ live[s] \in strays
                      \/ \E c \in OwnCalls : c.op = "delete" /\ c.id = live[s] /\ c.reply = "ok"
                      \/ \E i \in 1..Len(fills) : fills[i].id = live[s]
    BY DEF GoneExplained
  <2>1. OrdersInv(venue, fills, calls, all, live, strays)
    BY DEF LifeInv
  <2>2. PICK id : id = live[s]
    OBVIOUS
  <2>3. /\ id \in DOMAIN all /\ id \in 1..Len(venue) /\ all[id].filled \in Nat /\ fills \in Seq(Events)
    BY <2>1, <2>2, Shaped
  <2>4. /\ all[id].filled < Lots \/ Pend(fills, id) > 0 \/ id \in strays
        /\ \/ venue[id].at = "resting" \/ id \in strays \/ venue[id].left = 0
           \/ \E c \in calls : c.by = "strategy" /\ c.op = "delete" /\ c.id = id /\ c.reply = "ok"
    BY <2>1, <2>2 DEF OrdersInv, Held
  <2>5. CASE id \notin strays /\ venue[id].left = 0
    <3>1. Account(id, venue, fills, all) >= Lots
      BY <2>1, <2>3, <2>5 DEF OrdersInv, Filling, Tracked
    <3>2. /\ Pend(fills, id) \in Nat
          /\ Pend(fills, id) > 0 => \E i \in 1..Len(fills) : fills[i].id = id
      BY <2>3, PendType
    <3>3. Pend(fills, id) > 0
      BY <2>3, <2>4, <2>5, <3>1, <3>2, Bounds DEF Account, Filled
    <3> QED BY <2>2, <3>2, <3>3
  <2> QED BY <2>2, <2>4, <2>5 DEF Resting, OwnCalls
<1> QED BY <1>1, LifeAlways, PTL

=============================================================================
