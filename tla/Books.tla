------------------------------- MODULE Books -------------------------------
(***************************************************************************)
(* The order book of one market, from the exchange to the states the       *)
(* strategy sees: KalshiFeed and PolymarketFeed (src/data) read messages   *)
(* and check their numbers, the dispatch task of src/main.py hands events  *)
(* to BookRegistry, UnifiedBook applies them to its two L2Books and builds *)
(* a MarketState (src/data/unified_book.py).                               *)
(*                                                                         *)
(* A ladder is one side of the book of one leg, a function from prices to  *)
(* sizes, 0 where there is no level.  Kalshi has bids only.  A message of  *)
(* Polymarket may carry several changes: they are read in one go, but each *)
(* is an event of its own, and a MarketState is built after each.  Flow,   *)
(* volatility and depth figures of a MarketState are left out.             *)
(***************************************************************************)
EXTENDS Integers, Sequences, FiniteSets

CONSTANTS
  Prices,      \* In ticks.
  Sizes,       \* Sizes a level may have, 0 for none.
  One,         \* The price of a dollar, in ticks.
  MaxDepth,    \* L2Book.MAX_DEPTH
  MarketId,    \* The key under which the market is registered.
  Ticker,      \* Its name at the exchange: condition_id or market_ticker.
  Opening,     \* [Venues -> the ladders when the process starts]
  Numberings,  \* Where Kalshi may put its numbers: sets of "envelope", "body".
  MaxBatch,    \* [Venues -> changes one message may carry]
  CanLose,     \* Types of the messages the exchange may drop.
  MaxEvents,   \* Bounds on changes and trades, by venue; not in the code.
  MaxPending,  \* Bound on messages on their way and events queued; not in the code.
  MaxFaults    \* Bound on lost messages and broken connections; not in the code.

Venues == {"kalshi", "polymarket"}
Legs == {"yes", "no"}
Ladders == Legs \X {"bid", "ask"}
AllLadders == [Ladders -> [Prices -> Sizes]]
None == -1   \* No number.

ASSUME PricesAssumption == One \in Nat /\ IsFiniteSet(Prices) /\ Prices \subseteq 1..(One - 1)
ASSUME SizesAssumption == 0 \in Sizes /\ Sizes \subseteq Nat
ASSUME DepthAssumption == MaxDepth \in Nat \ {0}
ASSUME OpeningAssumption == Opening \in [Venues -> AllLadders]
ASSUME NumberingsAssumption == Numberings \subseteq SUBSET {"envelope", "body"}
ASSUME BatchAssumption == MaxBatch \in [Venues -> Nat] /\ MaxBatch["kalshi"] <= 1
ASSUME LossAssumption == CanLose \subseteq {"snapshot", "delta"}
ASSUME BoundsAssumption == MaxEvents \in [Venues -> Nat] /\ {MaxPending, MaxFaults} \subseteq Nat

VARIABLES
  venue,      \* The exchange, and so the kind of feed.
  numbered,   \* Where the numbers of its messages are: nowhere at Polymarket.
  truth,      \* The ladders at the exchange.
  sent,       \* Number of the last change or snapshot of this connection.
  linked,     \* The websocket is open and subscribed.
  wire,       \* Messages on their way, an entry for each of their changes.
  heard,      \* last_msg_ts > 0
  lastSeq,    \* BaseFeed._last_seq
  marketSeq,  \* KalshiFeed._seq_by_market[ticker]
  queue,      \* _feed_queue
  book,       \* UnifiedBook: its two L2Books, as ladders.
  ready,      \* Legs whose _initialized flag is set.
  shown,      \* The MarketState built for the last event, as a set of at most one.
  expected,   \* History: the ladders at the exchange as of the last event about them.
  clipped,    \* History: ladders deeper than MaxDepth since their snapshot.
  between,    \* History: the last event about the book has others of its message behind it.
  removed,    \* History: levels deleted of a ladder since its snapshot.
  events,     \* History: changes and trades so far.
  faults      \* History: lost messages and broken connections so far.

exchangeVars == <<venue, numbered, truth, events>>
feedVars == <<heard, lastSeq, marketSeq>>
bookVars == <<book, ready, shown, expected, clipped, between, removed>>
vars == <<exchangeVars, sent, linked, wire, feedVars, queue, bookVars, faults>>

-----------------------------------------------------------------------------
(* L2Book.                                                                 *)

EmptyLadder == [p \in Prices |-> 0]
Levels(lad) == {p \in Prices : lad[p] > 0}
Better(side, p, q) == IF side = "bid" THEN p > q ELSE p < q
LevelsAbove(lad, side, p) == {q \in Levels(lad) : Better(side, q, p)}

\* best_bid and best_ask: the best level, as a set of at most one.
Best(lad, side) == {p \in Levels(lad) : LevelsAbove(lad, side, p) = {}}

\* Mutant: the sort order of the asks is taken for the bids as well.
Trim_Ascending(lad, side) ==
  [p \in Prices |-> IF Cardinality(LevelsAbove(lad, "ask", p)) < MaxDepth THEN lad[p] ELSE 0]

\* _trim: the best MaxDepth levels stay.
Trim(lad, side) ==
  [p \in Prices |-> IF Cardinality(LevelsAbove(lad, side, p)) < MaxDepth THEN lad[p] ELSE 0]

\* Mutant: a snapshot adds its levels to those there are.
ApplySnapshot_Merged(bk, m) ==
  [l \in Ladders |->
     IF l[1] \in m.legs
     THEN Trim([p \in Prices |-> IF m.after[l][p] > 0 THEN m.after[l][p] ELSE bk[l][p]], l[2])
     ELSE bk[l]]

\* Mutant: a Kalshi snapshot replaces the YES leg alone.
ApplySnapshot_YesOnly(bk, m) ==
  [l \in Ladders |-> IF l[1] \in m.legs /\ l[1] = "yes" THEN Trim(m.after[l], l[2]) ELSE bk[l]]

\* apply_snapshot replaces the ladders of the legs it is about.
ApplySnapshot(bk, m) ==
  [l \in Ladders |-> IF l[1] \in m.legs THEN Trim(m.after[l], l[2]) ELSE bk[l]]

\* Mutant: every size is taken for the new size.
NewSize_Absolute(lad, m) == IF m.size < 0 THEN 0 ELSE m.size

\* Mutant: a change is not clamped at zero.
NewSize_Unclamped(lad, m) == IF venue = "polymarket" THEN m.size ELSE lad[m.price] + m.size

\* Kalshi sends a signed change of the level there is, Polymarket the new size.
NewSize(lad, m) ==
  IF venue = "polymarket" THEN m.size
  ELSE IF lad[m.price] + m.size < 0 THEN 0
  ELSE lad[m.price] + m.size

\* apply_delta
ApplyDelta(bk, m) ==
  [bk EXCEPT ![m.ladder] = Trim([@ EXCEPT ![m.price] = NewSize(bk[m.ladder], m)], m.ladder[2])]

-----------------------------------------------------------------------------
(* The exchange.                                                           *)

\* The ladders a venue has: Kalshi keeps no asks.
LaddersOf(v) == IF v = "kalshi" THEN {l \in Ladders : l[2] = "bid"} ELSE Ladders

\* What can be bought on the YES leg: asks of Polymarket, and what the NO bids
\* of Kalshi amount to (_build_state, _complement_levels).
YesAsks(v, bk) ==
  IF v = "kalshi" THEN {One - p : p \in Best(bk[<<"no", "bid">>], "bid")}
                  ELSE Best(bk[<<"yes", "ask">>], "ask")
Uncrossed(v, bk) ==
  /\ \A b \in Best(bk[<<"yes", "bid">>], "bid"), a \in YesAsks(v, bk) : b < a
  /\ \A b \in Best(bk[<<"no", "bid">>], "bid"), a \in Best(bk[<<"no", "ask">>], "ask") : b < a

\* The exchange matches what crosses before a process sees it.
ASSUME OpeningUncrossed == \A v \in Venues : Uncrossed(v, Opening[v])

Send(ms) == wire' = IF linked THEN wire \o ms ELSE wire

\* The changes a message of venue v may carry: the sizes they leave behind.
Batches(v) ==
  UNION {[1..n -> [ladder : LaddersOf(v), price : Prices, size : Sizes]] : n \in 1..MaxBatch[v]}

\* The ladders after the first i changes of cs: the last one of a level counts.
AfterChanges(cs, i) ==
  [l \in Ladders |-> [p \in Prices |->
     LET js == {j \in 1..i : cs[j].ladder = l /\ cs[j].price = p}
     IN  IF js = {} THEN truth[l][p] ELSE cs[CHOOSE j \in js : \A k \in js : k <= j].size]]

\* How change i of cs is told, "after" is history.
Told(cs, i) ==
  LET l == cs[i].ladder
      p == cs[i].price
  IN  [type |-> "delta", seq |-> sent + i, ladder |-> l, price |-> p, after |-> AfterChanges(cs, i),
       size |-> IF venue = "kalshi" THEN cs[i].size - AfterChanges(cs, i - 1)[l][p] ELSE cs[i].size,
       more |-> i < Len(cs)]

\* Levels change, all at once, and one message says so.
VenueChanges(cs) ==
  /\ events + Len(cs) <= MaxEvents[venue] /\ Len(wire) + Len(queue) + Len(cs) <= MaxPending
  /\ truth' = AfterChanges(cs, Len(cs)) /\ truth' # truth
  /\ Uncrossed(venue, truth')
  /\ sent' = IF linked THEN sent + Len(cs) ELSE sent
  /\ Send([i \in 1..Len(cs) |-> Told(cs, i)])
  /\ events' = events + Len(cs)
  /\ UNCHANGED <<venue, numbered, linked, feedVars, queue, bookVars, faults>>

\* A trade or a ticker: a message without a number that leaves the book alone.
VenueTrades ==
  /\ events < MaxEvents[venue] /\ linked /\ Len(wire) + Len(queue) < MaxPending
  /\ Send(<<[type |-> "trade", seq |-> None]>>)
  /\ events' = events + 1
  /\ UNCHANGED <<venue, numbered, truth, sent, linked, feedVars, queue, bookVars, faults>>

\* A message never comes.
VenueLoses ==
  /\ venue = "kalshi" /\ faults < MaxFaults
  /\ wire # <<>> /\ Head(wire).type \in CanLose
  /\ wire' = Tail(wire)
  /\ faults' = faults + 1
  /\ UNCHANGED <<exchangeVars, sent, linked, feedVars, queue, bookVars>>

\* What a subscription is answered with: both legs at once, or one at a time.
Snapshot(legs, n) == [type |-> "snapshot", seq |-> n, legs |-> legs, after |-> truth]
Snapshots ==
  IF venue = "kalshi" THEN <<Snapshot(Legs, 1)>>
                      ELSE <<Snapshot({"yes"}, 1), Snapshot({"no"}, 1)>>

-----------------------------------------------------------------------------
(* The feed.                                                               *)

\* run connects again; the exchange numbers each connection from 1.
Opens ==
  /\ ~linked
  /\ linked' = TRUE
  /\ wire' = Snapshots
  /\ sent' = 1
  /\ UNCHANGED <<exchangeVars, feedVars, queue, bookVars, faults>>

\* The connection is gone and what was on its way with it.
Drop == linked' = FALSE /\ wire' = <<>> /\ sent' = 0

Breaks ==
  /\ linked /\ faults < MaxFaults
  /\ Drop
  /\ faults' = faults + 1
  /\ UNCHANGED <<exchangeVars, feedVars, queue, bookVars>>

\* Mutant: the watchdog looks at connections without numbers only.
Quiet_Unnumbered == linked /\ heard /\ wire = <<>> /\ queue = <<>> /\ lastSeq = None

\* No message within STALE_FEED_TIMEOUT_S, seconds in which the dispatch task
\* empties the queue.
Quiet == linked /\ heard /\ wire = <<>> /\ queue = <<>>

\* _watchdog
Watchdog ==
  /\ Quiet
  /\ Drop
  /\ UNCHANGED <<exchangeVars, feedVars, queue, bookVars, faults>>

\* _extract_sequence reads the number in the envelope of a message, the parsers
\* the one in its body, where they take a missing one for 0.
EnvelopeSeq(m) == IF "envelope" \in numbered THEN m.seq ELSE None
BodySeq(m) == IF "body" \in numbered THEN m.seq ELSE 0
NumberedBook(m) == venue = "kalshi" /\ m.type # "trade"

\* _consume_loop: some numbers were left out.
Skipped(m) == None \notin {EnvelopeSeq(m), lastSeq} /\ EnvelopeSeq(m) > lastSeq + 1

\* _parse_book_delta: not the next number of this market.
OutOfStep(m) ==
  /\ NumberedBook(m) /\ m.type = "delta"
  /\ marketSeq # None /\ BodySeq(m) # marketSeq + 1

NoteEnvelope(m) == lastSeq' = IF EnvelopeSeq(m) # None THEN EnvelopeSeq(m) ELSE lastSeq

\* The next change is one of the same message.
More(m) == m.type = "delta" /\ m.more
EndsAt(n) == ~More(wire[n]) /\ \A i \in 1..(n - 1) : More(wire[i])

\* A message passes both checks and its events go to the queue, which no other
\* task sees before the last of them is there.
Reads ==
  /\ wire # <<>>
  /\ LET m == Head(wire) IN
       /\ ~Skipped(m) /\ ~OutOfStep(m)
       /\ NoteEnvelope(m)
       /\ marketSeq' = IF NumberedBook(m) THEN BodySeq(m) ELSE marketSeq
  /\ \E n \in 1..Len(wire) :
       /\ EndsAt(n)
       /\ queue' = queue \o SubSeq(wire, 1, n)
       /\ wire' = SubSeq(wire, n + 1, Len(wire))
  /\ heard' = TRUE
  /\ UNCHANGED <<exchangeVars, sent, linked, bookVars, faults>>

\* One of the checks raises: the connection is given up.  The second one comes
\* after the first has noted the number.
ReadsGap ==
  /\ wire # <<>>
  /\ LET m == Head(wire) IN
       \/ Skipped(m) /\ UNCHANGED <<lastSeq, heard>>
       \/ ~Skipped(m) /\ OutOfStep(m) /\ NoteEnvelope(m) /\ heard' = TRUE
  /\ Drop
  /\ UNCHANGED <<exchangeVars, marketSeq, queue, bookVars, faults>>

-----------------------------------------------------------------------------
(* UnifiedBook and BookRegistry.                                           *)

\* _build_state: nothing until both legs are there and have a best level.
BuildState(bk, legs) ==
  IF legs = Legs
  THEN {[bid |-> b, ask |-> a] : b \in Best(bk[<<"yes", "bid">>], "bid"), a \in YesAsks(venue, bk)}
  ELSE {}

\* BookRegistry.process finds no book for a name that is not a key.
Registered == Ticker = MarketId

\* The ladders an event is about.
About(m) ==
  IF m.type = "snapshot" THEN {l \in Ladders : l[1] \in m.legs}
  ELSE IF m.type = "delta" THEN {m.ladder}
  ELSE {}

Apply(m) ==
  /\ book' = IF m.type = "snapshot" THEN ApplySnapshot(book, m)
             ELSE IF m.type = "delta" THEN ApplyDelta(book, m)
             ELSE book
  /\ ready' = IF m.type = "snapshot" THEN ready \cup m.legs ELSE ready
  /\ shown' = BuildState(book', ready')

\* What the history notes of an event.
Note(m) ==
  /\ expected' = [l \in Ladders |-> IF l \in About(m) THEN m.after[l] ELSE expected[l]]
  /\ clipped' = (clipped \ (IF m.type = "snapshot" THEN About(m) ELSE {}))
                  \cup {l \in About(m) : Cardinality(Levels(m.after[l])) > MaxDepth}
  /\ between' = IF m.type = "trade" THEN between ELSE More(m)
  /\ removed' = [l \in Ladders |->
                   IF l \notin About(m) THEN removed[l]
                   ELSE IF m.type = "snapshot" THEN 0
                   ELSE IF m.after[l][m.price] = 0 THEN removed[l] + 1
                   ELSE removed[l]]

\* dispatch
Dispatch ==
  /\ queue # <<>>
  /\ queue' = Tail(queue)
  /\ IF Registered THEN Apply(Head(queue)) ELSE UNCHANGED <<book, ready, shown>>
  /\ Note(Head(queue))
  /\ UNCHANGED <<exchangeVars, sent, linked, wire, feedVars, faults>>

-----------------------------------------------------------------------------

Init ==
  /\ venue \in Venues
  /\ numbered \in (IF venue = "kalshi" THEN Numberings ELSE {{}})
  /\ truth = Opening[venue]
  /\ sent = 0 /\ linked = FALSE /\ wire = <<>>
  /\ heard = FALSE /\ lastSeq = None /\ marketSeq = None
  /\ queue = <<>>
  /\ book = [l \in Ladders |-> EmptyLadder] /\ ready = {} /\ shown = {}
  /\ expected = [l \in Ladders |-> EmptyLadder]
  /\ clipped = {} /\ between = FALSE /\ removed = [l \in Ladders |-> 0]
  /\ events = 0 /\ faults = 0

Next ==
  \/ \E cs \in Batches(venue) : VenueChanges(cs)
  \/ VenueTrades \/ VenueLoses
  \/ Opens \/ Breaks \/ Watchdog \/ Reads \/ ReadsGap
  \/ Dispatch

Spec == Init /\ [][Next]_vars

\* The feed and the dispatch are tasks of the loop, run reconnects after its
\* delay, and the watchdog looks every second.
FairSpec ==
  /\ Spec
  /\ WF_vars(Opens) /\ WF_vars(Watchdog) /\ WF_vars(Reads) /\ WF_vars(ReadsGap)
  /\ WF_vars(Dispatch)

-----------------------------------------------------------------------------
(* What should hold.                                                       *)

\* The shapes of the state; the sizes of apply_delta never go below zero.
TypeOK ==
  /\ venue \in Venues
  /\ truth \in AllLadders /\ expected \in AllLadders
  /\ book \in [Ladders -> [Prices -> Nat]]
  /\ numbered \subseteq {"envelope", "body"}
  /\ {sent, events, faults} \subseteq Nat /\ {lastSeq, marketSeq} \subseteq Nat \cup {None}
  /\ {linked, heard, between} \subseteq BOOLEAN
  /\ \A m \in {wire[i] : i \in DOMAIN wire} \cup {queue[i] : i \in DOMAIN queue} :
       m.type \in {"snapshot", "delta", "trade"} /\ m.seq \in Nat \cup {None}
  /\ ready \subseteq Legs
  /\ clipped \subseteq Ladders /\ removed \in [Ladders -> Nat]
  /\ Cardinality(shown) <= 1
  /\ shown \subseteq [bid : Prices, ask : 1..One]

\* Whatever was lost, broken off and sent again, a ladder that never was
\* deeper than MAX_DEPTH is the exchange's, level by level, as of the last
\* event about it: a signed change never meets the wrong base.
LadderFollows ==
  \A l \in Ladders : l[1] \in ready /\ l \notin clipped => book[l] = expected[l]

\* Trimmed or not, the book never shows more at a price than the exchange had
\* there: a level that was trimmed comes back too small, never too large.
NothingInvented ==
  \A l \in Ladders : l[1] \in ready => \A p \in Prices : book[l][p] <= expected[l][p]

\* Trimming forgets levels for good, but the best price is right until
\* MAX_DEPTH levels have been deleted since the snapshot.
BestHolds ==
  \A l \in Ladders :
    l[1] \in ready /\ removed[l] < MaxDepth =>
      /\ Best(book[l], l[2]) = Best(expected[l], l[2])
      /\ \A p \in Best(book[l], l[2]) : book[l][p] = expected[l][p]

\* A crossed state, which BookRegistry.process hands on like any other, is built
\* between two changes of one message and never after the last of them, although
\* the ask of Kalshi is worked out from the other leg.
CrossedOnlyBetween == (\E s \in shown : s.bid >= s.ask) => between

\* Once the market is quiet the book ends up with the best levels of the
\* exchange, even if the last message before the silence was lost and no
\* number will ever tell.
CatchesUp == <>[](book = [l \in Ladders |-> Trim(truth[l], l[2])])

=============================================================================
