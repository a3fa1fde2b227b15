-------------------------- MODULE MarketDataProofs --------------------------
(***************************************************************************)
(* What is proved of market data.                                          *)
(*                                                                         *)
(* First Books: what holds of a market's order book for any prices, sizes, *)
(* depth and numberings, and for any number of changes, lost messages and  *)
(* broken connections, whatever messages carry.  It follows the stream.  Every event in   *)
(* the queue leads on from the ladders as of the event before it, and      *)
(* every message on the wire from those of the message before it; where    *)
(* the wire begins and the queue ends the number in a body decides: the    *)
(* feed lets a change pass only if it leads on from the last event.  So a  *)
(* change is applied to the ladders it was made to, up to what trimming    *)
(* has taken away.                                                         *)
(*                                                                         *)
(* Then Feeds: the connection and its monitor, for every timeout,          *)
(* threshold and delay, and for a clock of any length.                     *)
(***************************************************************************)
EXTENDS Books, Feeds, OperatorProofs

-----------------------------------------------------------------------------
(* Ladders.                                                                *)

Sized == [Prices -> Nat]

\* b shows nothing that x has not, and the levels of x with fewer than k above.
NoMore(b, x) == \A p \in Prices : b[p] <= x[p]
Top(b, x, side, k) ==
  \A p \in Prices : Cardinality(LevelsAbove(x, side, p)) < k => b[p] = x[p]

\* Ticks can be compared.
LEMMA PriceType ==
  ASSUME NEW p \in Prices
  PROVE  p \in Nat /\ p >= 1 /\ p <= One - 1 /\ One \in Nat
BY PricesAssumption

\* Levels are finitely many, and those above one can be counted.
LEMMA LevelsFinite ==
  ASSUME NEW x, NEW side, NEW p
  PROVE  /\ IsFiniteSet(Levels(x)) /\ IsFiniteSet(LevelsAbove(x, side, p))
         /\ Cardinality(Levels(x)) \in Nat /\ Cardinality(LevelsAbove(x, side, p)) \in Nat
<1>1. Levels(x) \subseteq Prices /\ LevelsAbove(x, side, p) \subseteq Prices
  BY DEF Levels, LevelsAbove
<1>2. IsFiniteSet(Levels(x)) /\ IsFiniteSet(LevelsAbove(x, side, p))
  BY <1>1, PricesAssumption, FS_Subset
<1> QED BY <1>2, FS_CardinalityType

\* Of fewer levels fewer are above.
LEMMA AboveMono ==
  ASSUME NEW x, NEW y, NEW side, NEW p, Levels(x) \subseteq Levels(y)
  PROVE  Cardinality(LevelsAbove(x, side, p)) <= Cardinality(LevelsAbove(y, side, p))
<1>1. LevelsAbove(x, side, p) \subseteq LevelsAbove(y, side, p)
  BY DEF LevelsAbove
<1> QED BY <1>1, LevelsFinite, FS_Subset

\* A price is never worse than another and better as well.
LEMMA BetterOrder ==
  ASSUME NEW side, NEW p \in Prices, NEW q \in Prices, NEW r \in Prices
  PROVE  /\ ~Better(side, p, p)
         /\ Better(side, p, q) /\ Better(side, q, r) => Better(side, p, r)
         /\ p = q \/ Better(side, p, q) \/ Better(side, q, p)
         /\ ~(Better(side, p, q) /\ Better(side, q, p))
<1>1. p \in Nat /\ q \in Nat /\ r \in Nat
  BY PriceType
<1> QED BY <1>1 DEF Better

\* Of some prices one is the best.
LEMMA BestOfSome ==
  ASSUME NEW side, NEW S \in SUBSET Prices, S # {}
  PROVE  \E q \in S : \A r \in S : ~Better(side, r, q)
<1> DEFINE Ends(T) == \E q \in T : \A r \in T : ~Better(side, r, q)
           G == {T \in SUBSET Prices : T # {} => Ends(T)}
<1>1. ASSUME NEW T \in SUBSET Prices, \A U \in SUBSET T : U # T => U \in G
      PROVE  T \in G
  <2> SUFFICES ASSUME NEW a \in T PROVE Ends(T)
    OBVIOUS
  <2>1. T \ {a} \in G
    BY <1>1
  <2>2. CASE T = {a}
    BY <2>2, BetterOrder
  <2>3. CASE T # {a}
    <3>1. PICK q \in T \ {a} : \A r \in T \ {a} : ~Better(side, r, q)
      BY <2>1, <2>3
    <3>2. CASE Better(side, a, q)
      <4>1. ASSUME NEW r \in T PROVE ~Better(side, r, a)
        BY <3>1, <3>2, BetterOrder
      <4> QED BY <4>1
    <3>3. CASE ~Better(side, a, q)
      BY <3>1, <3>3
    <3> QED BY <3>2, <3>3
  <2> QED BY <2>2, <2>3
<1>2. \A T \in SUBSET Prices : T \in G
  <2> HIDE DEF G
  <2> QED BY <1>1, PricesAssumption, FiniteInduction
<1> QED BY <1>2

\* Above a level, or at it, is the best one.
LEMMA BestAbove ==
  ASSUME NEW x, NEW side, NEW p \in Levels(x)
  PROVE  \E q \in Best(x, side) : q = p \/ Better(side, q, p)
<1> DEFINE S == {q \in Levels(x) : q = p \/ Better(side, q, p)}
<1>1. S \in SUBSET Prices /\ S # {}
  BY DEF Levels
<1>2. PICK q \in S : \A r \in S : ~Better(side, r, q)
  <2> HIDE DEF S
  <2> QED BY <1>1, BestOfSome
<1>3. ASSUME NEW r \in LevelsAbove(x, side, q) PROVE FALSE
  <2>1. r \in Levels(x) /\ Better(side, r, q) /\ r \in Prices /\ q \in Prices /\ p \in Prices
    BY <1>1 DEF LevelsAbove, Levels
  <2>2. q = p \/ Better(side, q, p)
    BY <1>2
  <2>3. r \in S
    BY <2>1, <2>2, BetterOrder
  <2> QED BY <1>2, <2>1, <2>3
<1>4. LevelsAbove(x, side, q) = {}
  BY <1>3
<1> QED BY <1>2, <1>4 DEF Best

\* There is one best level at most.
LEMMA BestOne ==
  ASSUME NEW x, NEW side, NEW p \in Best(x, side), NEW q \in Best(x, side)
  PROVE  p = q /\ p \in Prices
<1>1. p \in Prices /\ q \in Prices /\ p \in Levels(x) /\ q \in Levels(x)
  BY DEF Best, Levels
<1>2. ~Better(side, p, q) /\ ~Better(side, q, p)
  BY <1>1 DEF Best, LevelsAbove
<1> QED BY <1>1, <1>2, BetterOrder

\* A ladder that shows no more has no better best.
LEMMA BestNoBetter ==
  ASSUME NEW b \in Sized, NEW x \in Sized, NEW side, NoMore(b, x), NEW p \in Best(b, side)
  PROVE  \E q \in Best(x, side) : q = p \/ Better(side, q, p)
<1>1. p \in Prices /\ b[p] > 0
  BY DEF Best, Levels
<1>2. b[p] <= x[p] /\ b[p] \in Nat /\ x[p] \in Nat
  BY <1>1 DEF NoMore, Sized
<1>3. p \in Levels(x)
  BY <1>1, <1>2 DEF Levels
<1> QED BY <1>3, BestAbove

\* With one level at least the best is right.
LEMMA BestRight ==
  ASSUME NEW b \in Sized, NEW x \in Sized, NEW side, NEW k \in Int, k >= 1,
         NoMore(b, x), Top(b, x, side, k)
  PROVE  Best(b, side) = Best(x, side) /\ \A p \in Best(b, side) : b[p] = x[p]
<1>1. ASSUME NEW p \in Best(x, side) PROVE b[p] = x[p] /\ p \in Best(b, side)
  <2>1. p \in Prices /\ x[p] > 0 /\ LevelsAbove(x, side, p) = {}
    BY DEF Best, Levels
  <2>2. Cardinality(LevelsAbove(x, side, p)) < k
    BY <2>1, FS_EmptySet
  <2>3. b[p] = x[p]
    BY <2>1, <2>2 DEF Top
  <2>4. Levels(b) \subseteq Levels(x)
    <3> SUFFICES ASSUME NEW q \in Prices, b[q] > 0 PROVE x[q] > 0
      BY DEF Levels
    <3>1. b[q] <= x[q] /\ b[q] \in Nat /\ x[q] \in Nat
      BY DEF NoMore, Sized
    <3> QED BY <3>1
  <2>5. LevelsAbove(b, side, p) = {}
    BY <2>1, <2>4 DEF LevelsAbove
  <2> QED BY <2>1, <2>3, <2>5 DEF Best, Levels
<1>2. ASSUME NEW p \in Best(b, side) PROVE p \in Best(x, side)
  <2>1. PICK q \in Best(x, side) : q = p \/ Better(side, q, p)
    BY BestNoBetter
  <2>2. q \in Best(b, side)
    BY <1>1
  <2> QED BY <2>1, <2>2, BestOne
<1> QED BY <1>1, <1>2

-----------------------------------------------------------------------------
(* What trimming, snapshots and changes make of a ladder.                  *)

\* Trimming takes levels away, and those only that have MAX_DEPTH above.
LEMMA TrimTakes ==
  ASSUME NEW x \in Sized, NEW side
  PROVE  /\ Trim(x, side) \in Sized
         /\ NoMore(Trim(x, side), x)
         /\ \A p \in Prices : Cardinality(LevelsAbove(x, side, p)) < MaxDepth => Trim(x, side)[p] = x[p]
BY DEF Trim, Sized, NoMore

\* A ladder that is no deeper is left as it is.
LEMMA TrimNothing ==
  ASSUME NEW x \in Sized, NEW side, Cardinality(Levels(x)) <= MaxDepth
  PROVE  Trim(x, side) = x
<1>1. ASSUME NEW p \in Prices PROVE Trim(x, side)[p] = x[p]
  <2>1. CASE p \in Levels(x)
    <3>1. LevelsAbove(x, side, p) \subseteq Levels(x) \ {p}
      BY <2>1, BetterOrder DEF LevelsAbove, Levels
    <3>2. /\ IsFiniteSet(Levels(x) \ {p})
          /\ Cardinality(Levels(x) \ {p}) = Cardinality(Levels(x)) - 1
      BY <2>1, LevelsFinite, FS_RemoveElement
    <3>3. Cardinality(LevelsAbove(x, side, p)) <= Cardinality(Levels(x)) - 1
      BY <3>1, <3>2, FS_Subset
    <3>4. Cardinality(LevelsAbove(x, side, p)) < MaxDepth
      BY <3>3, LevelsFinite, DepthAssumption
    <3> QED BY <3>4, TrimTakes
  <2>2. CASE p \notin Levels(x)
    <3>1. x[p] = 0
      BY <2>2 DEF Levels, Sized
    <3> QED BY <3>1 DEF Trim
  <2> QED BY <2>1, <2>2
<1>2. Trim(x, side) \in Sized
  BY TrimTakes
<1> QED BY <1>1, <1>2 DEF Sized

\* A snapshot, trimmed, is right at the MAX_DEPTH best levels.
LEMMA SnapshotLadder ==
  ASSUME NEW x \in Sized, NEW side
  PROVE  NoMore(Trim(x, side), x) /\ Top(Trim(x, side), x, side, MaxDepth - 0)
<1>1. MaxDepth - 0 = MaxDepth
  BY DepthAssumption
<1> QED BY <1>1, TrimTakes DEF Top

\* A change of one level, applied to a ladder that shows no more than the
\* exchange had before: n is what apply_delta makes of the level.
Changed(b, x, y, p, n) ==
  /\ b \in Sized /\ x \in Sized /\ y \in Sized
  /\ p \in Prices /\ y = [x EXCEPT ![p] = y[p]]
  /\ NoMore(b, x)
  /\ n \in Nat /\ n <= y[p] /\ (b[p] = x[p] => n = y[p])

\* It still shows no more.
LEMMA ChangeNoMore ==
  ASSUME NEW b, NEW x, NEW y, NEW p, NEW n, NEW side, Changed(b, x, y, p, n)
  PROVE  /\ [b EXCEPT ![p] = n] \in Sized
         /\ NoMore([b EXCEPT ![p] = n], y)
         /\ Trim([b EXCEPT ![p] = n], side) \in Sized
         /\ NoMore(Trim([b EXCEPT ![p] = n], side), y)
<1> DEFINE c == [b EXCEPT ![p] = n]
<1>1. c \in Sized
  BY DEF Changed, Sized
<1>2. ASSUME NEW q \in Prices PROVE c[q] <= y[q]
  <2>1. CASE q = p
    BY <2>1 DEF Changed, Sized
  <2>2. CASE q # p
    <3>1. c[q] = b[q] /\ y[q] = x[q] /\ b[q] <= x[q]
      BY <2>2 DEF Changed, Sized, NoMore
    <3> QED BY <3>1
  <2> QED BY <2>1, <2>2
<1> HIDE DEF c
<1>3. Trim(c, side) \in Sized /\ NoMore(Trim(c, side), c)
  BY <1>1, TrimTakes
<1>4. ASSUME NEW q \in Prices PROVE Trim(c, side)[q] <= y[q]
  <2>1. Trim(c, side)[q] <= c[q] /\ c[q] <= y[q]
    BY <1>2, <1>3 DEF NoMore
  <2>2. Trim(c, side)[q] \in Nat /\ c[q] \in Nat /\ y[q] \in Nat
    BY <1>1, <1>3 DEF Sized, Changed
  <2> QED BY <2>1, <2>2
<1>5. NoMore(c, y) /\ NoMore(Trim(c, side), y)
  BY <1>2, <1>4 DEF NoMore
<1> QED BY <1>1, <1>3, <1>5 DEF c

\* The levels a ladder has of another.
LEMMA LevelsOfLess ==
  ASSUME NEW b \in Sized, NEW x \in Sized, NoMore(b, x)
  PROVE  Levels(b) \subseteq Levels(x)
<1> SUFFICES ASSUME NEW q \in Prices, b[q] > 0 PROVE x[q] > 0
  BY DEF Levels
<1>1. b[q] <= x[q] /\ b[q] \in Nat /\ x[q] \in Nat
  BY DEF NoMore, Sized
<1> QED BY <1>1

\* Deleting a level costs one of the levels known to be right, any other change
\* costs none.
LEMMA ChangeTop ==
  ASSUME NEW b, NEW x, NEW y, NEW p, NEW n, NEW side, NEW k \in Int, NEW j \in Int,
         Changed(b, x, y, p, n), Top(b, x, side, k), k <= MaxDepth,
         j = IF y[p] = 0 THEN k - 1 ELSE k
  PROVE  Top(Trim([b EXCEPT ![p] = n], side), y, side, j)
<1> DEFINE c == [b EXCEPT ![p] = n]
<1>0. /\ b \in Sized /\ x \in Sized /\ y \in Sized /\ p \in Prices
      /\ \A q \in Prices : q # p => y[q] = x[q] /\ c[q] = b[q]
      /\ c[p] = n
  BY DEF Changed, Sized
<1>1. c \in Sized /\ NoMore(c, y)
  BY ChangeNoMore
<1>2. n <= y[p] /\ n \in Nat /\ y[p] \in Nat /\ x[p] \in Nat /\ b[p] \in Nat /\ (b[p] = x[p] => n = y[p])
  BY <1>0 DEF Changed, Sized
<1> HIDE DEF c
<1> SUFFICES ASSUME NEW q \in Prices, Cardinality(LevelsAbove(y, side, q)) < j
             PROVE  Trim(c, side)[q] = y[q]
  BY DEF Top, c
<1>3. Cardinality(LevelsAbove(y, side, q)) \in Nat /\ Cardinality(LevelsAbove(x, side, q)) \in Nat
      /\ IsFiniteSet(LevelsAbove(y, side, q)) /\ Cardinality(LevelsAbove(c, side, q)) \in Nat
  BY LevelsFinite
<1>4. Cardinality(LevelsAbove(c, side, q)) < MaxDepth
  <2>1. Cardinality(LevelsAbove(c, side, q)) <= Cardinality(LevelsAbove(y, side, q))
    BY <1>0, <1>1, LevelsOfLess, AboveMono
  <2> QED BY <1>3, <2>1, DepthAssumption
<1>5. Trim(c, side)[q] = c[q]
  BY <1>1, <1>4, TrimTakes
<1>6. Cardinality(LevelsAbove(x, side, q)) < k
  <2>1. CASE y[p] = 0
    <3>1. LevelsAbove(x, side, q) \subseteq LevelsAbove(y, side, q) \cup {p}
      BY <1>0 DEF LevelsAbove, Levels
    <3>2. /\ IsFiniteSet(LevelsAbove(y, side, q) \cup {p})
          /\ Cardinality(LevelsAbove(y, side, q) \cup {p}) <= Cardinality(LevelsAbove(y, side, q)) + 1
      <4> DEFINE A == LevelsAbove(y, side, q)
      <4>1. IsFiniteSet(A) /\ Cardinality(A) \in Nat
        BY <1>3
      <4> HIDE DEF A
      <4>2. /\ IsFiniteSet(A \cup {p})
            /\ Cardinality(A \cup {p}) = IF p \in A THEN Cardinality(A) ELSE Cardinality(A) + 1
        BY <4>1, FS_AddElement
      <4>3. Cardinality(A \cup {p}) <= Cardinality(A) + 1
        BY <4>1, <4>2
      <4> QED BY <4>2, <4>3 DEF A
    <3>3. Cardinality(LevelsAbove(x, side, q)) <= Cardinality(LevelsAbove(y, side, q) \cup {p})
      BY <3>1, <3>2, FS_Subset
    <3>4. Cardinality(LevelsAbove(y, side, q) \cup {p}) \in Nat
      BY <3>2, FS_CardinalityType
    <3> QED BY <1>3, <2>1, <3>2, <3>3, <3>4
  <2>2. CASE y[p] # 0
    <3>1. Levels(x) \subseteq Levels(y)
      BY <1>0, <1>2, <2>2 DEF Levels
    <3>2. Cardinality(LevelsAbove(x, side, q)) <= Cardinality(LevelsAbove(y, side, q))
      BY <3>1, AboveMono
    <3> QED BY <1>3, <2>2, <3>2
  <2> QED BY <2>1, <2>2
<1>7. b[q] = x[q]
  BY <1>6 DEF Top
<1>8. c[q] = y[q]
  <2>1. CASE q = p
    BY <1>0, <1>2, <1>7, <2>1
  <2>2. CASE q # p
    BY <1>0, <1>7, <2>2
  <2> QED BY <2>1, <2>2
<1> QED BY <1>5, <1>8

\* A ladder that was right and is not too deep stays right.
LEMMA ChangeSame ==
  ASSUME NEW b, NEW x, NEW y, NEW p, NEW n, NEW side, Changed(b, x, y, p, n),
         b = x, Cardinality(Levels(y)) <= MaxDepth
  PROVE  Trim([b EXCEPT ![p] = n], side) = y
<1>1. n = y[p] /\ y \in Sized /\ y = [x EXCEPT ![p] = y[p]]
  BY DEF Changed
<1>2. [b EXCEPT ![p] = n] = y
  BY <1>1
<1> QED BY <1>1, <1>2, TrimNothing

-----------------------------------------------------------------------------
(* Messages, and what a queue of them leads to.                            *)

Snaps == [type : {"snapshot"}, seq : Nat, legs : SUBSET Legs, after : AllLadders]
Deltas(v) ==
  [type : {"delta"}, seq : Nat, ladder : Ladders, price : Prices, after : AllLadders,
   size : IF v = "polymarket" THEN Nat ELSE Int, more : IF v = "kalshi" THEN {FALSE} ELSE BOOLEAN]
Trades == [type : {"trade"}, seq : {None}]
Messages(v) == Snaps \cup Deltas(v) \cup Trades

\* How the exchange stands: its ladders, and the number of its last message.
Points == [lad : AllLadders, num : Int]

YesUncrossed(v, x) ==
  \A b \in Best(x[<<"yes", "bid">>], "bid"), a \in YesAsks(v, x) : b < a

\* A change of one level of x, told the way venue v tells it.
Changes(v, x, m) ==
  /\ m.after[m.ladder] = [x[m.ladder] EXCEPT ![m.price] = m.after[m.ladder][m.price]]
  /\ m.size = IF v = "polymarket" THEN m.after[m.ladder][m.price]
              ELSE m.after[m.ladder][m.price] - x[m.ladder][m.price]

\* Message m leads from x to y.
Leads(v, x, m, y) ==
  /\ y \in Points
  /\ y.lad = [l \in Ladders |-> IF l \in About(m) THEN m.after[l] ELSE x.lad[l]]
  /\ y.num = IF m.type = "trade" THEN x.num ELSE m.seq
  /\ m.type = "delta" => m.seq = x.num + 1 /\ Changes(v, x.lad, m)
  /\ m.type # "trade" /\ ~More(m) => YesUncrossed(v, y.lad)

\* The messages of q lead from x to y, one after the other.
Steps(v, q, L) ==
  /\ L \in [0..Len(q) -> Points]
  /\ \A i \in 1..Len(q) : Leads(v, L[i - 1], q[i], L[i])
Through(v, x, q, y) == \E L : Steps(v, q, L) /\ L[0] = x /\ L[Len(q)] = y

\* Every message is of one kind.
LEMMA MessageIs ==
  ASSUME NEW v, NEW m \in Messages(v)
  PROVE  /\ m.type \in {"snapshot", "delta", "trade"} /\ m.seq \in Nat \cup {None}
         /\ m.type = "snapshot" => m \in Snaps
         /\ m.type = "delta" => m \in Deltas(v)
         /\ m.type = "trade" => m.seq = None
BY DEF Messages, Snaps, Deltas, Trades

\* No message, no step.
LEMMA ThroughEmpty ==
  ASSUME NEW v, NEW x \in Points
  PROVE  Through(v, x, <<>>, x)
<1> DEFINE L == [i \in 0..0 |-> x]
<1>1. Len(<<>>) = 0
  OBVIOUS
<1>2. Steps(v, <<>>, L) /\ L[0] = x
  BY <1>1 DEF Steps
<1> QED BY <1>1, <1>2 DEF Through

\* Where a queue leads, and with one message more.
LEMMA ThroughAppend ==
  ASSUME NEW v, NEW q \in Seq(Messages(v)), NEW m \in Messages(v), NEW x, NEW y, NEW z,
         Through(v, x, q, y), Leads(v, y, m, z)
  PROVE  Through(v, x, Append(q, m), z)
<1>1. PICK L : Steps(v, q, L) /\ L[0] = x /\ L[Len(q)] = y
  BY DEF Through
<1> DEFINE n == Len(q)
           K == [i \in 0..n + 1 |-> IF i = n + 1 THEN z ELSE L[i]]
<1>2. /\ n \in Nat /\ Len(Append(q, m)) = n + 1
      /\ \A i \in 1..n : Append(q, m)[i] = q[i]
      /\ Append(q, m)[n + 1] = m
  OBVIOUS
<1>3. z \in Points /\ L \in [0..n -> Points] /\ \A i \in 1..n : Leads(v, L[i - 1], q[i], L[i])
  BY <1>1 DEF Leads, Steps
<1>4. K \in [0..n + 1 -> Points]
  BY <1>2, <1>3
<1>5. ASSUME NEW i \in 1..n + 1 PROVE Leads(v, K[i - 1], Append(q, m)[i], K[i])
  <2>1. CASE i = n + 1
    <3>1. K[i - 1] = y /\ K[i] = z /\ Append(q, m)[i] = m
      BY <1>1, <1>2, <2>1
    <3> QED BY <3>1
  <2>2. CASE i # n + 1
    <3>1. i \in 1..n /\ K[i - 1] = L[i - 1] /\ K[i] = L[i]
      BY <1>2, <2>2
    <3>2. Append(q, m)[i] = q[i]
      BY <1>2, <3>1
    <3> QED BY <1>3, <3>1, <3>2
  <2> QED BY <2>1, <2>2
<1>6. Steps(v, Append(q, m), K) /\ K[0] = x /\ K[n + 1] = z
  BY <1>1, <1>2, <1>4, <1>5 DEF Steps
<1> HIDE DEF K
<1> QED BY <1>2, <1>6 DEF Through

\* A message is a path.
LEMMA ThroughOne ==
  ASSUME NEW v, NEW m \in Messages(v), NEW x \in Points, NEW y, Leads(v, x, m, y)
  PROVE  <<m>> \in Seq(Messages(v)) /\ Through(v, x, <<m>>, y)
<1> HIDE DEF Messages, Points
<1>1. <<>> \in Seq(Messages(v)) /\ Append(<<>>, m) = <<m>> /\ <<m>> \in Seq(Messages(v))
  OBVIOUS
<1>2. Through(v, x, Append(<<>>, m), y)
  BY <1>1, ThroughEmpty, ThroughAppend
<1> QED BY <1>1, <1>2

\* Where its head leads, the rest goes on.
LEMMA ThroughHead ==
  ASSUME NEW v, NEW q \in Seq(Messages(v)), q # <<>>, NEW x, NEW y, Through(v, x, q, y)
  PROVE  /\ Head(q) \in Messages(v) /\ Tail(q) \in Seq(Messages(v))
         /\ \E z \in Points : Leads(v, x, Head(q), z) /\ Through(v, z, Tail(q), y)
<1>1. PICK L : Steps(v, q, L) /\ L[0] = x /\ L[Len(q)] = y
  BY DEF Through
<1> DEFINE n == Len(q) - 1
           K == [i \in 0..n |-> L[i + 1]]
<1>2. /\ Head(q) \in Messages(v) /\ Tail(q) \in Seq(Messages(v)) /\ Head(q) = q[1]
      /\ n \in Nat /\ Len(q) = n + 1 /\ Len(Tail(q)) = n
      /\ \A i \in 1..n : Tail(q)[i] = q[i + 1]
  OBVIOUS
<1> HIDE DEF n
<1>3. L \in [0..n + 1 -> Points] /\ \A i \in 1..n + 1 : Leads(v, L[i - 1], q[i], L[i])
  BY <1>1, <1>2 DEF Steps
<1>4. K \in [0..n -> Points]
  BY <1>2, <1>3
<1>5. ASSUME NEW i \in 1..n PROVE Leads(v, K[i - 1], Tail(q)[i], K[i])
  <2>1. K[i - 1] = L[i] /\ K[i] = L[i + 1] /\ i + 1 \in 1..n + 1 /\ (i + 1) - 1 = i
    BY <1>2
  <2>2. Leads(v, L[i], q[i + 1], L[i + 1])
    BY <1>3, <2>1
  <2> QED BY <1>2, <2>1, <2>2
<1>6. Leads(v, x, Head(q), L[1]) /\ L[1] \in Points
  <2>1. 1 \in 1..n + 1 /\ 1 - 1 = 0 /\ 1 \in 0..n + 1
    BY <1>2
  <2>2. Leads(v, L[0], q[1], L[1])
    BY <1>3, <2>1
  <2> QED BY <1>1, <1>2, <1>3, <2>1, <2>2
<1>7. Steps(v, Tail(q), K) /\ K[0] = L[1] /\ K[n] = y
  <2>1. K[0] = L[1] /\ K[n] = L[n + 1]
    BY <1>2
  <2> QED BY <1>1, <1>2, <1>4, <1>5, <2>1 DEF Steps
<1> HIDE DEF K
<1>8. Through(v, L[1], Tail(q), y)
  BY <1>2, <1>7 DEF Through
<1> QED BY <1>2, <1>6, <1>8

\* A path starts and ends at points.
LEMMA ThroughEnds ==
  ASSUME NEW v, NEW q \in Seq(Messages(v)), NEW x, NEW y, Through(v, x, q, y)
  PROVE  x \in Points /\ y \in Points
<1>1. PICK L : Steps(v, q, L) /\ L[0] = x /\ L[Len(q)] = y
  BY DEF Through
<1>2. Len(q) \in Nat
  OBVIOUS
<1> QED BY <1>1, <1>2 DEF Steps

\* A path that goes on where another ends.
LEMMA ThroughConcat ==
  ASSUME NEW v, NEW q \in Seq(Messages(v)), NEW s \in Seq(Messages(v)), NEW x, NEW y, NEW z,
         Through(v, x, q, y), Through(v, y, s, z)
  PROVE  Through(v, x, q \o s, z)
<1>1. PICK L : Steps(v, q, L) /\ L[0] = x /\ L[Len(q)] = y
  BY DEF Through
<1>2. PICK M : Steps(v, s, M) /\ M[0] = y /\ M[Len(s)] = z
  BY DEF Through
<1> DEFINE n == Len(q)
           k == Len(s)
           K == [i \in 0..n + k |-> IF i <= n THEN L[i] ELSE M[i - n]]
<1>3. /\ n \in Nat /\ k \in Nat /\ Len(q \o s) = n + k
      /\ \A i \in 1..n + k : (q \o s)[i] = IF i <= n THEN q[i] ELSE s[i - n]
  OBVIOUS
<1>4. /\ L \in [0..n -> Points] /\ \A i \in 1..n : Leads(v, L[i - 1], q[i], L[i])
      /\ M \in [0..k -> Points] /\ \A i \in 1..k : Leads(v, M[i - 1], s[i], M[i])
      /\ L[0] = x /\ L[n] = y /\ M[0] = y /\ M[k] = z
  BY <1>1, <1>2 DEF Steps
<1> HIDE DEF n, k
<1>5. K \in [0..n + k -> Points]
  <2> SUFFICES ASSUME NEW i \in 0..n + k PROVE (IF i <= n THEN L[i] ELSE M[i - n]) \in Points
    OBVIOUS
  <2>1. CASE i <= n
    BY <1>3, <1>4, <2>1
  <2>2. CASE ~(i <= n)
    <3>1. i - n \in 0..k
      BY <1>3, <2>2
    <3> QED BY <1>4, <2>2, <3>1
  <2> QED BY <2>1, <2>2
<1>6. ASSUME NEW i \in 1..n + k PROVE Leads(v, K[i - 1], (q \o s)[i], K[i])
  <2>1. CASE i <= n
    <3>1. i \in 1..n /\ K[i - 1] = L[i - 1] /\ K[i] = L[i] /\ (q \o s)[i] = q[i]
      BY <1>3, <2>1
    <3> QED BY <1>4, <3>1
  <2>2. CASE i = n + 1
    <3>1. 1 \in 1..k /\ i - 1 = n /\ i - n = 1 /\ 1 - 1 = 0
      BY <1>3, <2>2
    <3>2. K[i - 1] = M[0] /\ K[i] = M[1] /\ (q \o s)[i] = s[1]
      BY <1>3, <1>4, <2>2, <3>1
    <3>3. Leads(v, M[0], s[1], M[1])
      BY <1>4, <3>1
    <3> QED BY <3>2, <3>3
  <2>3. CASE i > n + 1
    <3>1. i - n \in 1..k /\ ~(i - 1 <= n) /\ ~(i <= n) /\ (i - 1) - n = (i - n) - 1
      BY <1>3, <2>3
    <3>4. i \in 0..n + k /\ i - 1 \in 0..n + k
      BY <1>3, <2>3
    <3>5. K[i - 1] = M[(i - 1) - n] /\ K[i] = M[i - n]
      BY <3>1, <3>4
    <3>6. (q \o s)[i] = s[i - n]
      BY <1>3, <3>1
    <3>2. K[i - 1] = M[(i - n) - 1] /\ K[i] = M[i - n] /\ (q \o s)[i] = s[i - n]
      BY <3>1, <3>5, <3>6
    <3>3. Leads(v, M[(i - n) - 1], s[i - n], M[i - n])
      BY <1>4, <3>1
    <3> QED BY <3>2, <3>3
  <2> QED BY <1>3, <2>1, <2>2, <2>3
<1>7. K[0] = x /\ K[n + k] = z
  <2>1. 0 <= n /\ (n + k <= n => k = 0) /\ (n + k) - n = k
    BY <1>3
  <2> QED BY <1>3, <1>4, <2>1
<1> HIDE DEF K
<1> QED BY <1>3, <1>5, <1>6, <1>7 DEF Steps, Through

\* A path has a point between its first messages and the rest.
LEMMA ThroughSplit ==
  ASSUME NEW v, NEW q \in Seq(Messages(v)), NEW n \in 1..Len(q), NEW x, NEW z, Through(v, x, q, z)
  PROVE  /\ SubSeq(q, 1, n) \in Seq(Messages(v)) /\ SubSeq(q, n + 1, Len(q)) \in Seq(Messages(v))
         /\ \E y \in Points : Through(v, x, SubSeq(q, 1, n), y) /\ Through(v, y, SubSeq(q, n + 1, Len(q)), z)
<1>1. PICK L : Steps(v, q, L) /\ L[0] = x /\ L[Len(q)] = z
  BY DEF Through
<1> DEFINE k == Len(q) - n
           a == SubSeq(q, 1, n)
           b == SubSeq(q, n + 1, Len(q))
           A == [i \in 0..n |-> L[i]]
           B == [i \in 0..k |-> L[i + n]]
<1>2. /\ n \in Nat /\ k \in Nat /\ Len(q) = n + k /\ Len(a) = n /\ Len(b) = k
      /\ a \in Seq(Messages(v)) /\ b \in Seq(Messages(v))
      /\ \A i \in 1..n : a[i] = q[i]
      /\ \A i \in 1..k : b[i] = q[i + n]
  OBVIOUS
<1> HIDE DEF k, a, b
<1>3. L \in [0..n + k -> Points] /\ \A i \in 1..n + k : Leads(v, L[i - 1], q[i], L[i])
  BY <1>1, <1>2 DEF Steps
<1>4. Steps(v, a, A) /\ A[0] = x /\ A[n] = L[n]
  <2>1. A \in [0..n -> Points]
    BY <1>2, <1>3
  <2>2. ASSUME NEW i \in 1..n PROVE Leads(v, A[i - 1], a[i], A[i])
    <3>1. i \in 1..n + k /\ A[i - 1] = L[i - 1] /\ A[i] = L[i] /\ a[i] = q[i]
      BY <1>2
    <3> QED BY <1>3, <3>1
  <2> QED BY <1>1, <1>2, <2>1, <2>2 DEF Steps
<1>5. Steps(v, b, B) /\ B[0] = L[n] /\ B[k] = z
  <2>1. B \in [0..k -> Points]
    BY <1>2, <1>3
  <2>2. ASSUME NEW i \in 1..k PROVE Leads(v, B[i - 1], b[i], B[i])
    <3>1. i + n \in 1..n + k /\ (i - 1) + n = (i + n) - 1
      BY <1>2
    <3>2. B[i - 1] = L[(i + n) - 1] /\ B[i] = L[i + n] /\ b[i] = q[i + n]
      BY <1>2, <3>1
    <3>3. Leads(v, L[(i + n) - 1], q[i + n], L[i + n])
      BY <1>3, <3>1
    <3> QED BY <3>2, <3>3
  <2>3. B[0] = L[n] /\ B[k] = L[n + k]
    BY <1>2
  <2> QED BY <1>1, <1>2, <2>1, <2>2, <2>3 DEF Steps
<1>6. L[n] \in Points
  BY <1>2, <1>3
<1> HIDE DEF A, B
<1>7. Through(v, x, a, L[n]) /\ Through(v, L[n], b, z)
  BY <1>2, <1>4, <1>5 DEF Through
<1> QED BY <1>2, <1>6, <1>7 DEF a, b

-----------------------------------------------------------------------------
(* Shapes.                                                                 *)

Flags == linked \in BOOLEAN /\ heard \in BOOLEAN /\ between \in BOOLEAN

\* TypeOK, with the messages in full.
Basics ==
  /\ venue \in Venues
  /\ truth \in AllLadders /\ expected \in AllLadders
  /\ book \in [Ladders -> Sized]
  /\ numbered \subseteq {"envelope", "body"}
  /\ {sent, events, faults} \subseteq Nat /\ {lastSeq, marketSeq} \subseteq Nat \cup {None}
  /\ Flags
  /\ ready \subseteq Legs
  /\ clipped \subseteq Ladders /\ removed \in [Ladders -> Nat]
  /\ Cardinality(shown) <= 1
  /\ shown \subseteq [bid : Prices, ask : 1..One]

TypeInv == Basics /\ wire \in Seq(Messages(venue)) /\ queue \in Seq(Messages(venue))

\* It says all that TypeOK says.
LEMMA TypeInvType == TypeInv => TypeOK
<1> SUFFICES ASSUME TypeInv PROVE TypeOK
  OBVIOUS
<1>1. ASSUME NEW m \in {wire[i] : i \in DOMAIN wire} \cup {queue[i] : i \in DOMAIN queue}
      PROVE  m.type \in {"snapshot", "delta", "trade"} /\ m.seq \in Nat \cup {None}
  <2>1. m \in Messages(venue)
    BY <1>1 DEF TypeInv
  <2> QED BY <2>1, MessageIs
<1>2. {linked, heard, between} \subseteq BOOLEAN
  BY Zenon DEF TypeInv, Basics, Flags
<1> QED BY <1>1, <1>2 DEF TypeInv, Basics, TypeOK, Sized

\* What the exchange has is what a book may show.
LEMMA LadderType ==
  ASSUME NEW x \in AllLadders, NEW l \in Ladders
  PROVE  x[l] \in [Prices -> Sizes] /\ x[l] \in Sized
<1>1. x[l] \in [Prices -> Sizes]
  BY DEF AllLadders
<1> QED BY <1>1, SizesAssumption DEF Sized

\* y is x with one level of one ladder changed.
Sets(x, l, p, z, y) == y = [x EXCEPT ![l][p] = z]

\* The exchange has such ladders.
LEMMA OneLevel ==
  ASSUME NEW x \in AllLadders, NEW l \in Ladders, NEW p \in Prices, NEW z \in Sizes,
         NEW y, Sets(x, l, p, z, y)
  PROVE  /\ y \in AllLadders
         /\ y[l] = [x[l] EXCEPT ![p] = z]
         /\ \A k \in Ladders : k # l => y[k] = x[k]
<1>1. x \in [Ladders -> [Prices -> Sizes]] /\ x[l] \in [Prices -> Sizes]
  BY LadderType DEF AllLadders
<1>2. [x[l] EXCEPT ![p] = z] \in [Prices -> Sizes]
  BY <1>1
<1> QED BY <1>1, <1>2 DEF AllLadders, Sets

\* Of some numbers up to i one is the last.
LEMMA LastOfSome ==
  ASSUME NEW i \in Nat, NEW S \in SUBSET (1..i), S # {}
  PROVE  \E m \in S : \A k \in S : k <= m
<1> DEFINE G == {n \in Nat : \A T \in SUBSET (1..n) : T # {} => \E m \in T : \A k \in T : k <= m}
<1>1. 0 \in G
  <2>1. 1..0 = {}
    OBVIOUS
  <2> QED BY <2>1
<1>2. ASSUME NEW n \in Nat, n \in G PROVE n + 1 \in G
  <2> SUFFICES ASSUME NEW T \in SUBSET (1..n + 1), T # {} PROVE \E m \in T : \A k \in T : k <= m
    OBVIOUS
  <2>1. CASE n + 1 \in T
    BY <2>1
  <2>2. CASE n + 1 \notin T
    <3>1. T \in SUBSET (1..n)
      BY <2>2
    <3> QED BY <1>2, <3>1
  <2> QED BY <2>1, <2>2
<1>3. i \in G
  <2> HIDE DEF G
  <2> QED BY <1>1, <1>2, NatInduct
<1> QED BY <1>3

\* The changes a message carries, and the ladders after each of them.
LEMMA ChangesType ==
  ASSUME TypeInv, NEW cs \in Batches(venue)
  PROVE  /\ Len(cs) \in Nat /\ Len(cs) >= 1 /\ (venue = "kalshi" => Len(cs) = 1)
         /\ \A i \in 1..Len(cs) :
              cs[i].ladder \in Ladders /\ cs[i].price \in Prices /\ cs[i].size \in Sizes
<1>1. venue \in Venues
  BY DEF TypeInv, Basics
<1>2. PICK n \in 1..MaxBatch[venue] : cs \in [1..n -> [ladder : LaddersOf(venue), price : Prices, size : Sizes]]
  BY DEF Batches
<1>3. MaxBatch[venue] \in Nat /\ (venue = "kalshi" => MaxBatch[venue] <= 1)
  BY <1>1, BatchAssumption
<1>4. n \in Nat /\ n >= 1 /\ (venue = "kalshi" => n = 1)
  BY <1>3
<1>5. Len(cs) = n
  BY <1>2, <1>4
<1>6. LaddersOf(venue) \subseteq Ladders
  BY DEF LaddersOf
<1> QED BY <1>2, <1>4, <1>5, <1>6

LEMMA AfterType ==
  ASSUME TypeInv, NEW cs \in Batches(venue), NEW i \in 0..Len(cs)
  PROVE  AfterChanges(cs, i) \in AllLadders
<1>1. Len(cs) \in Nat /\ \A j \in 1..Len(cs) : cs[j].size \in Sizes
  BY ChangesType
<1>2. truth \in AllLadders
  BY DEF TypeInv, Basics
<1> DEFINE js(l, p) == {j \in 1..i : cs[j].ladder = l /\ cs[j].price = p}
           at(l, p) == CHOOSE j \in js(l, p) : \A k \in js(l, p) : k <= j
<1>3. ASSUME NEW l \in Ladders, NEW p \in Prices
      PROVE  (IF js(l, p) = {} THEN truth[l][p] ELSE cs[at(l, p)].size) \in Sizes
  <2>1. truth[l][p] \in Sizes
    BY <1>2, LadderType
  <2>2. ASSUME js(l, p) # {} PROVE cs[at(l, p)].size \in Sizes
    <3>1. js(l, p) \in SUBSET (1..i) /\ i \in Nat
      BY <1>1
    <3>2. at(l, p) \in js(l, p)
      <4> DEFINE S == js(l, p)
      <4>1. S \in SUBSET (1..i) /\ S # {} /\ i \in Nat
        BY <2>2, <3>1
      <4> HIDE DEF S
      <4>2. \E m \in S : \A k \in S : k <= m
        BY <4>1, LastOfSome
      <4>3. (CHOOSE j \in S : \A k \in S : k <= j) \in S
        BY <4>2
      <4> QED BY <4>3 DEF S
    <3>3. at(l, p) \in 1..Len(cs)
      BY <1>1, <3>1, <3>2
    <3> QED BY <1>1, <3>3
  <2> QED BY <2>1, <2>2
<1>4. AfterChanges(cs, i) = [l \in Ladders |-> [p \in Prices |->
                               IF js(l, p) = {} THEN truth[l][p] ELSE cs[at(l, p)].size]]
  BY DEF AfterChanges
<1> HIDE DEF js, at
<1>5. ASSUME NEW l \in Ladders
      PROVE  [p \in Prices |-> IF js(l, p) = {} THEN truth[l][p] ELSE cs[at(l, p)].size] \in [Prices -> Sizes]
  BY <1>3
<1> QED BY <1>4, <1>5 DEF AllLadders

\* Each change sets one level.
LEMMA AfterNext ==
  ASSUME TypeInv, NEW cs \in Batches(venue), NEW i \in 1..Len(cs)
  PROVE  Sets(AfterChanges(cs, i - 1), cs[i].ladder, cs[i].price, cs[i].size, AfterChanges(cs, i))
<1> DEFINE x == AfterChanges(cs, i - 1)
           y == AfterChanges(cs, i)
           l0 == cs[i].ladder
           p0 == cs[i].price
           js(k, l, p) == {j \in 1..k : cs[j].ladder = l /\ cs[j].price = p}
<1>1. Len(cs) \in Nat /\ i \in 0..Len(cs) /\ i - 1 \in 0..Len(cs) /\ i \in Nat
  BY ChangesType
<1>2. x \in AllLadders /\ y \in AllLadders
  BY <1>1, AfterType
<1>3. ASSUME NEW k, NEW l \in Ladders, NEW p \in Prices
      PROVE  AfterChanges(cs, k)[l][p] =
               IF js(k, l, p) = {} THEN truth[l][p]
               ELSE cs[CHOOSE j \in js(k, l, p) : \A h \in js(k, l, p) : h <= j].size
  BY DEF AfterChanges
<1>4. l0 \in Ladders /\ p0 \in Prices
  BY ChangesType
<1>5. y[l0][p0] = cs[i].size
  <2> DEFINE S == js(i, l0, p0)
  <2>1. i \in S /\ \A h \in S : h <= i
    BY <1>1
  <2>2. S \subseteq 1..i
    OBVIOUS
  <2>3. y[l0][p0] = IF S = {} THEN truth[l0][p0] ELSE cs[CHOOSE j \in S : \A h \in S : h <= j].size
    BY <1>3, <1>4
  <2> HIDE DEF S, l0, p0, y
  <2>4. ASSUME NEW j \in S, \A h \in S : h <= j PROVE j = i
    BY <1>1, <2>1, <2>2, <2>4
  <2>5. (CHOOSE j \in S : \A h \in S : h <= j) = i
    BY <2>1, <2>4
  <2> QED BY <2>1, <2>3, <2>5
<1>6. ASSUME NEW l \in Ladders, NEW p \in Prices, l # l0 \/ p # p0 PROVE y[l][p] = x[l][p]
  <2>1. js(i, l, p) = js(i - 1, l, p)
    <3>1. ASSUME NEW j \in 1..i, cs[j].ladder = l /\ cs[j].price = p PROVE j \in 1..(i - 1)
      <4>1. j # i
        BY <1>6, <3>1
      <4> QED BY <1>1, <4>1
    <3>2. ASSUME NEW j \in 1..(i - 1) PROVE j \in 1..i
      BY <1>1
    <3> QED BY <3>1, <3>2
  <2> QED BY <1>3, <2>1
<1> HIDE DEF x, y, l0, p0
<1>7. \A l \in Ladders : x[l] \in [Prices -> Sizes] /\ y[l] \in [Prices -> Sizes]
  BY <1>2, LadderType
<1>8. y[l0] = [x[l0] EXCEPT ![p0] = cs[i].size]
  BY <1>4, <1>5, <1>6, <1>7
<1>9. \A l \in Ladders : l # l0 => y[l] = x[l]
  BY <1>6, <1>7
<1>10. y = [x EXCEPT ![l0][p0] = cs[i].size]
  BY <1>2, <1>4, <1>8, <1>9 DEF AllLadders
<1> QED BY <1>10 DEF Sets, x, y, l0, p0

\* Before the first, the ladders are those there were.
LEMMA AfterNone ==
  ASSUME TypeInv, NEW cs
  PROVE  AfterChanges(cs, 0) = truth
<1>1. truth \in AllLadders
  BY DEF TypeInv, Basics
<1>2. 1..0 = {}
  OBVIOUS
<1>3. AfterChanges(cs, 0) = [l \in Ladders |-> [p \in Prices |-> truth[l][p]]]
  BY <1>2 DEF AfterChanges
<1>4. ASSUME NEW l \in Ladders PROVE [p \in Prices |-> truth[l][p]] = truth[l]
  BY <1>1, LadderType
<1> QED BY <1>1, <1>3, <1>4 DEF AllLadders

\* What a change is told as.
LEMMA ToldType ==
  ASSUME TypeInv, NEW cs \in Batches(venue), NEW i \in 1..Len(cs)
  PROVE  Told(cs, i) \in Messages(venue) /\ Told(cs, i).type = "delta"
<1> DEFINE l == cs[i].ladder
           p == cs[i].price
           z == cs[i].size
           x == AfterChanges(cs, i - 1)
           y == AfterChanges(cs, i)
           n == sent + i
           w == IF venue = "kalshi" THEN z - x[l][p] ELSE z
           b == i < Len(cs)
<1>1. l \in Ladders /\ p \in Prices /\ z \in Sizes /\ Len(cs) \in Nat /\ (venue = "kalshi" => Len(cs) = 1)
  BY ChangesType
<1>2. x \in AllLadders /\ y \in AllLadders
  BY <1>1, AfterType
<1>3. venue \in Venues /\ sent \in Nat
  BY DEF TypeInv, Basics
<1>4. n \in Nat /\ x[l][p] \in Nat /\ z \in Nat
  <2>1. n \in Nat
    BY <1>1, <1>3
  <2> HIDE DEF x, l, p, z
  <2>2. x[l] \in Sized
    BY <1>1, <1>2, LadderType
  <2> QED BY <1>1, <2>1, <2>2, SizesAssumption DEF Sized
<1>5. w \in IF venue = "polymarket" THEN Nat ELSE Int
  <2> HIDE DEF x, l, p, z
  <2>1. z - x[l][p] \in Int
    BY <1>4
  <2>2. CASE venue = "kalshi"
    <3>1. w = z - x[l][p]
      BY <2>2
    <3> HIDE DEF w
    <3> QED BY <2>1, <2>2, <3>1
  <2>3. CASE venue = "polymarket"
    <3>1. w = z
      BY <2>3
    <3> HIDE DEF w
    <3> QED BY <1>4, <2>3, <3>1
  <2> HIDE DEF w
  <2>4. venue = "kalshi" \/ venue = "polymarket"
    BY <1>3 DEF Venues
  <2> QED BY <2>2, <2>3, <2>4, Zenon
<1>6. venue = "kalshi" => ~b
  <2> SUFFICES ASSUME venue = "kalshi" PROVE ~b
    OBVIOUS
  <2>1. Len(cs) = 1
    BY <1>1
  <2>2. i = 1
    BY <2>1
  <2> QED BY <2>1, <2>2
<1>7. Told(cs, i) = [type |-> "delta", seq |-> n, ladder |-> l, price |-> p, after |-> y, size |-> w, more |-> b]
  BY DEF Told
<1> HIDE DEF l, p, z, x, y, n, w, b
<1>8. \E c \in IF venue = "kalshi" THEN {FALSE} ELSE BOOLEAN : c = b
  <2>1. CASE b
    <3>1. TRUE \in IF venue = "kalshi" THEN {FALSE} ELSE BOOLEAN
      BY <1>6, <2>1, Zenon
    <3>2. TRUE = b
      BY <2>1, Zenon
    <3> QED BY <3>1, <3>2, Zenon
  <2>2. CASE ~b
    <3>1. FALSE \in IF venue = "kalshi" THEN {FALSE} ELSE BOOLEAN
      <4>1. FALSE \in {FALSE} /\ FALSE \in BOOLEAN
        BY Zenon
      <4>2. CASE venue = "kalshi"
        BY <4>1, <4>2, Zenon
      <4>3. CASE venue # "kalshi"
        BY <4>1, <4>3, Zenon
      <4> QED BY <4>2, <4>3, Zenon
    <3>2. b = FALSE
      BY <2>2
    <3> QED BY <3>1, <3>2, Zenon
  <2> QED BY <2>1, <2>2
<1>9. PICK c \in IF venue = "kalshi" THEN {FALSE} ELSE BOOLEAN : c = b
  BY <1>8
<1>10. [type |-> "delta", seq |-> n, ladder |-> l, price |-> p, after |-> y, size |-> w, more |-> c] \in Deltas(venue)
  BY <1>1, <1>2, <1>4, <1>5 DEF Deltas
<1>11. Told(cs, i) = [type |-> "delta", seq |-> n, ladder |-> l, price |-> p, after |-> y, size |-> w, more |-> c]
  BY <1>7, <1>9, Zenon
<1> QED BY <1>10, <1>11 DEF Messages

\* What a subscription is answered with.
LEMMA SnapshotsType ==
  ASSUME truth \in AllLadders
  PROVE  /\ Snapshots \in Seq(Messages(venue))
         /\ \A legs \in SUBSET Legs : Snapshot(legs, 1) \in Messages(venue)
<1>1. \A legs \in SUBSET Legs : Snapshot(legs, 1) \in Snaps
  BY DEF Snapshot, Snaps
<1>2. \A legs \in SUBSET Legs : Snapshot(legs, 1) \in Messages(venue)
  BY <1>1 DEF Messages
<1>3. {"yes"} \in SUBSET Legs /\ {"no"} \in SUBSET Legs
  BY DEF Legs
<1> QED BY <1>2, <1>3 DEF Snapshots

\* The changed level is not below zero.
LEMMA NewSizeType ==
  ASSUME TypeInv, NEW m \in Deltas(venue), NEW b \in Sized
  PROVE  NewSize(b, m) \in Nat
<1>1. m.price \in Prices /\ m.size \in (IF venue = "polymarket" THEN Nat ELSE Int)
  BY DEF Deltas
<1>2. b[m.price] \in Nat
  BY <1>1 DEF Sized
<1> QED BY <1>1, <1>2 DEF NewSize

\* A book stays a book.
LEMMA BookType ==
  ASSUME TypeInv, NEW m \in Messages(venue), Apply(m)
  PROVE  book' \in [Ladders -> Sized] /\ ready' \subseteq Legs
<1>0. book \in [Ladders -> Sized] /\ ready \subseteq Legs
  BY DEF TypeInv, Basics
<1>1. CASE m.type = "snapshot"
  <2>1. m \in Snaps /\ m.after \in AllLadders /\ m.legs \subseteq Legs
    BY <1>1, MessageIs DEF Snaps
  <2>2. book' = ApplySnapshot(book, m) /\ ready' = ready \cup m.legs
    BY <1>1 DEF Apply
  <2>3. ASSUME NEW l \in Ladders
        PROVE  (IF l[1] \in m.legs THEN Trim(m.after[l], l[2]) ELSE book[l]) \in Sized
    BY <1>0, <2>1, LadderType, TrimTakes
  <2> QED BY <1>0, <2>1, <2>2, <2>3 DEF ApplySnapshot
<1>2. CASE m.type = "delta"
  <2>1. m \in Deltas(venue) /\ m.ladder \in Ladders /\ m.price \in Prices
    BY <1>2, MessageIs DEF Deltas
  <2>2. book' = ApplyDelta(book, m) /\ ready' = ready
    BY <1>2 DEF Apply
  <2> DEFINE c == [book[m.ladder] EXCEPT ![m.price] = NewSize(book[m.ladder], m)]
  <2>3. book[m.ladder] \in Sized /\ NewSize(book[m.ladder], m) \in Nat
    BY <1>0, <2>1, NewSizeType
  <2>4. c \in Sized
    BY <2>3 DEF Sized
  <2>5. book' = [book EXCEPT ![m.ladder] = Trim(c, m.ladder[2])]
    BY <2>2 DEF ApplyDelta
  <2> HIDE DEF c
  <2>6. Trim(c, m.ladder[2]) \in Sized
    BY <2>4, TrimTakes
  <2> QED BY <1>0, <2>1, <2>2, <2>5, <2>6
<1>3. CASE m.type = "trade"
  BY <1>0, <1>3 DEF Apply
<1> QED BY <1>1, <1>2, <1>3, MessageIs

\* An ask is a price, on either venue.
LEMMA AskType ==
  ASSUME NEW v, NEW x, NEW a \in YesAsks(v, x), NEW c \in YesAsks(v, x)
  PROVE  a = c /\ a \in 1..One
<1>1. CASE v = "kalshi"
  <2>1. PICK p \in Best(x[<<"no", "bid">>], "bid") : a = One - p
    BY <1>1 DEF YesAsks
  <2>2. PICK q \in Best(x[<<"no", "bid">>], "bid") : c = One - q
    BY <1>1 DEF YesAsks
  <2>3. p = q /\ p \in Prices
    BY BestOne
  <2> QED BY <2>1, <2>2, <2>3, PriceType
<1>2. CASE v # "kalshi"
  <2>1. a \in Best(x[<<"yes", "ask">>], "ask") /\ c \in Best(x[<<"yes", "ask">>], "ask")
    BY <1>2 DEF YesAsks
  <2>2. a = c /\ a \in Prices
    BY <2>1, BestOne
  <2> QED BY <2>2, PriceType
<1> QED BY <1>1, <1>2

\* At most one state is built.
LEMMA BuildType ==
  ASSUME NEW x, NEW legs
  PROVE  /\ Cardinality(BuildState(x, legs)) <= 1
         /\ BuildState(x, legs) \subseteq [bid : Prices, ask : 1..One]
<1> DEFINE S == BuildState(x, legs)
<1>1. ASSUME NEW s \in S
      PROVE  \E b \in Best(x[<<"yes", "bid">>], "bid"), a \in YesAsks(venue, x) : s = [bid |-> b, ask |-> a]
  BY DEF BuildState
<1>2. ASSUME NEW s \in S, NEW t \in S PROVE s = t /\ s \in [bid : Prices, ask : 1..One]
  <2>1. PICK b \in Best(x[<<"yes", "bid">>], "bid"), a \in YesAsks(venue, x) : s = [bid |-> b, ask |-> a]
    BY <1>1
  <2>2. PICK d \in Best(x[<<"yes", "bid">>], "bid"), c \in YesAsks(venue, x) : t = [bid |-> d, ask |-> c]
    BY <1>1
  <2>3. b = d /\ b \in Prices /\ a = c /\ a \in 1..One
    BY BestOne, AskType
  <2> QED BY <2>1, <2>2, <2>3
<1> HIDE DEF S
<1>3. ASSUME S = {} PROVE Cardinality(S) <= 1
  <2>1. Cardinality(S) = 0
    BY <1>3, FS_EmptySet, Zenon
  <2> QED BY <2>1
<1>4. ASSUME NEW s \in S PROVE Cardinality(S) <= 1
  <2>1. S = {s}
    BY <1>2
  <2>2. Cardinality(S) = 1
    BY <2>1, FS_Singleton, Zenon
  <2> QED BY <2>2
<1>5. Cardinality(S) <= 1
  BY <1>3, <1>4
<1> QED BY <1>2, <1>5 DEF S


-----------------------------------------------------------------------------
(* Every step keeps the shapes.                                            *)

\* The process starts with nothing read.
LEMMA TypeInit == Init => TypeInv
<1> SUFFICES ASSUME Init PROVE TypeInv
  OBVIOUS
<1>1. truth \in AllLadders
  BY OpeningAssumption DEF Init
<1>2. EmptyLadder \in [Prices -> Sizes] /\ EmptyLadder \in Sized
  BY SizesAssumption DEF EmptyLadder, Sized
<1>3. expected \in AllLadders /\ book \in [Ladders -> Sized]
  BY <1>2 DEF Init, AllLadders
<1>4. venue \in Venues /\ numbered \subseteq {"envelope", "body"}
  BY NumberingsAssumption DEF Init
<1>5. Flags /\ Cardinality(shown) = 0
  BY FS_EmptySet, Zenon DEF Init, Flags
<1>6. Basics
  BY <1>1, <1>3, <1>4, <1>5 DEF Init, Basics, None
<1>7. wire \in Seq(Messages(venue)) /\ queue \in Seq(Messages(venue))
  BY DEF Init
<1> QED BY <1>6, <1>7 DEF TypeInv

\* Messages are appended to what is on its way.
LEMMA SendType ==
  ASSUME TypeInv, NEW ms \in Seq(Messages(venue)), Send(ms), UNCHANGED venue
  PROVE  wire' \in Seq(Messages(venue'))
<1>1. wire \in Seq(Messages(venue)) /\ (wire' = wire \o ms \/ wire' = wire) /\ venue' = venue
  BY DEF TypeInv, Send
<1>2. ASSUME NEW S, ms \in Seq(S), wire \in Seq(S) PROVE wire \o ms \in Seq(S)
  BY <1>2
<1>3. wire' \in Seq(Messages(venue))
  <2>1. wire \o ms \in Seq(Messages(venue))
    BY <1>1, <1>2, Zenon
  <2> QED BY <1>1, <2>1, Zenon
<1> QED BY <1>1, <1>3, Zenon

\* A message is taken.
LEMMA TakeType ==
  ASSUME NEW v, NEW q \in Seq(Messages(v)), q # <<>>
  PROVE  Head(q) \in Messages(v) /\ Tail(q) \in Seq(Messages(v))
OBVIOUS

\* Numbers read are numbers.
LEMMA ReadType ==
  ASSUME TypeInv, NEW m \in Messages(venue)
  PROVE  /\ NoteEnvelope(m) => lastSeq' \in Nat \cup {None}
         /\ BodySeq(m) \in Nat \cup {None}
BY MessageIs DEF TypeInv, Basics, NoteEnvelope, EnvelopeSeq, BodySeq

\* The history of an event.
LEMMA NoteType ==
  ASSUME TypeInv, NEW m \in Messages(venue), Note(m)
  PROVE  expected' \in AllLadders /\ clipped' \subseteq Ladders /\ removed' \in [Ladders -> Nat]
<1>1. About(m) \subseteq Ladders /\ (About(m) # {} => m.after \in AllLadders)
  BY MessageIs DEF About, Snaps, Deltas
<1>2. expected \in AllLadders /\ clipped \subseteq Ladders /\ removed \in [Ladders -> Nat]
  BY DEF TypeInv, Basics
<1>3. expected' \in AllLadders
  <2>1. ASSUME NEW l \in Ladders
        PROVE  (IF l \in About(m) THEN m.after[l] ELSE expected[l]) \in [Prices -> Sizes]
    BY <1>1, <1>2, LadderType
  <2> QED BY <2>1 DEF Note, AllLadders
<1>4. clipped' \subseteq Ladders
  BY <1>1, <1>2 DEF Note
<1>5. removed' \in [Ladders -> Nat]
  <2>1. ASSUME NEW l \in Ladders
        PROVE  (IF l \notin About(m) THEN removed[l]
                ELSE IF m.type = "snapshot" THEN 0
                ELSE IF m.after[l][m.price] = 0 THEN removed[l] + 1
                ELSE removed[l]) \in Nat
    BY <1>2
  <2> QED BY <2>1 DEF Note
<1> QED BY <1>3, <1>4, <1>5

\* Every action keeps the shapes.
LEMMA TypeNext == TypeInv /\ [Next]_vars => TypeInv'
<1> SUFFICES ASSUME TypeInv, [Next]_vars PROVE TypeInv'
  OBVIOUS
<1> USE DEF TypeInv
<1>0. Basics /\ wire \in Seq(Messages(venue)) /\ queue \in Seq(Messages(venue))
  OBVIOUS
<1>1. ASSUME NEW cs \in Batches(venue), VenueChanges(cs)
      PROVE  TypeInv'
  <2>0. Len(cs) \in Nat /\ sent \in Nat /\ events \in Nat
    BY <1>0, ChangesType DEF Basics
  <2>1. /\ truth' = AfterChanges(cs, Len(cs)) /\ sent' = IF linked THEN sent + Len(cs) ELSE sent
        /\ events' = events + Len(cs)
    BY <1>1 DEF VenueChanges
  <2>2. truth' \in AllLadders /\ sent' \in Nat /\ events' \in Nat
    <3>1. Len(cs) \in 0..Len(cs)
      BY <2>0
    <3>2. truth' \in AllLadders
      BY <2>1, <3>1, AfterType
    <3> QED BY <2>0, <2>1, <3>2
  <2> DEFINE ms == [i \in 1..Len(cs) |-> Told(cs, i)]
  <2>3. ms \in Seq(Messages(venue))
    BY <2>0, ToldType
  <2>4. Send(ms) /\ UNCHANGED venue
    BY <1>1 DEF VenueChanges
  <2> HIDE DEF ms
  <2>5. wire' \in Seq(Messages(venue'))
    BY <1>0, <2>3, <2>4, SendType
  <2>flags. Flags'
    BY <1>0, <1>1, Zenon DEF VenueChanges, Drop, Flags, Basics, feedVars, exchangeVars, bookVars
  <2>6. Basics'
    BY <1>0, <1>1, <2>flags, <2>2 DEF VenueChanges, Basics, feedVars, bookVars
  <2> QED BY <1>0, <1>1, <2>5, <2>6 DEF VenueChanges
<1>2. CASE VenueTrades
  <2> DEFINE m == [type |-> "trade", seq |-> None]
  <2>1. <<m>> \in Seq(Messages(venue))
    <3>1. m \in Messages(venue)
      BY DEF Messages, Trades
    <3> HIDE DEF m, Messages
    <3> QED BY <3>1
  <2>2. Send(<<m>>) /\ UNCHANGED venue
    BY <1>2 DEF VenueTrades
  <2> HIDE DEF m
  <2>3. wire' \in Seq(Messages(venue'))
    BY <1>0, <2>1, <2>2, SendType
  <2>flags. Flags'
    BY <1>0, <1>2, Zenon DEF VenueTrades, Drop, Flags, Basics, feedVars, exchangeVars, bookVars
  <2>4. Basics'
    BY <1>0, <1>2, <2>flags DEF VenueTrades, Basics, feedVars, bookVars
  <2> QED BY <1>0, <1>2, <2>3, <2>4 DEF VenueTrades
<1>3. CASE VenueLoses
  <2>1. wire' \in Seq(Messages(venue)) /\ UNCHANGED <<venue, queue>>
    BY <1>0, <1>3, TakeType DEF VenueLoses, exchangeVars
  <2>flags. Flags'
    BY <1>0, <1>3, Zenon DEF VenueLoses, Drop, Flags, Basics, feedVars, exchangeVars, bookVars
  <2>2. Basics'
    BY <1>0, <1>3, <2>flags DEF VenueLoses, Basics, exchangeVars, feedVars, bookVars
  <2> QED BY <1>0, <2>1, <2>2
<1>4. CASE Opens
  <2>1. wire' \in Seq(Messages(venue)) /\ UNCHANGED <<venue, queue>>
    BY <1>0, <1>4, SnapshotsType DEF Opens, Basics, exchangeVars
  <2>flags. Flags'
    BY <1>0, <1>4, Zenon DEF Opens, Drop, Flags, Basics, feedVars, exchangeVars, bookVars
  <2>2. Basics'
    BY <1>0, <1>4, <2>flags DEF Opens, Basics, exchangeVars, feedVars, bookVars
  <2> QED BY <1>0, <2>1, <2>2
<1>5. CASE Breaks
  <2>1. wire' = <<>> /\ UNCHANGED <<venue, queue>>
    BY <1>5 DEF Breaks, Drop, exchangeVars
  <2>flags. Flags'
    BY <1>0, <1>5, Zenon DEF Breaks, Drop, Flags, Basics, feedVars, exchangeVars, bookVars
  <2>2. Basics'
    BY <1>0, <1>5, <2>flags DEF Breaks, Drop, Basics, exchangeVars, feedVars, bookVars
  <2> QED BY <1>0, <2>1, <2>2
<1>6. CASE Watchdog
  <2>1. wire' = <<>> /\ UNCHANGED <<venue, queue>>
    BY <1>6 DEF Watchdog, Drop, exchangeVars
  <2>flags. Flags'
    BY <1>0, <1>6, Zenon DEF Watchdog, Drop, Flags, Basics, feedVars, exchangeVars, bookVars
  <2>2. Basics'
    BY <1>0, <1>6, <2>flags DEF Watchdog, Drop, Basics, exchangeVars, feedVars, bookVars
  <2> QED BY <1>0, <2>1, <2>2
<1>7. CASE Reads
  <2> DEFINE m == Head(wire)
  <2>1. m \in Messages(venue)
    BY <1>0, <1>7, TakeType DEF Reads
  <2>2. /\ NoteEnvelope(m) /\ marketSeq' = IF NumberedBook(m) THEN BodySeq(m) ELSE marketSeq
        /\ heard' = TRUE
        /\ UNCHANGED <<exchangeVars, sent, linked, bookVars, faults>>
    BY <1>7 DEF Reads
  <2> HIDE DEF m
  <2>3. lastSeq' \in Nat \cup {None} /\ marketSeq' \in Nat \cup {None}
    BY <1>0, <2>1, <2>2, ReadType DEF Basics
  <2>4. wire' \in Seq(Messages(venue)) /\ queue' \in Seq(Messages(venue)) /\ UNCHANGED venue
    <3>1. PICK n \in 1..Len(wire) : /\ queue' = queue \o SubSeq(wire, 1, n)
                                   /\ wire' = SubSeq(wire, n + 1, Len(wire))
      BY <1>7 DEF Reads
    <3>2. UNCHANGED venue
      BY <2>2 DEF exchangeVars
    <3> HIDE DEF Messages
    <3> QED BY <1>0, <3>1, <3>2
  <2>flags. Flags'
    BY <1>0, <1>7, Zenon DEF Reads, Drop, Flags, Basics, feedVars, exchangeVars, bookVars
  <2>5. Basics'
    BY <1>0, <2>flags, <2>2, <2>3 DEF Basics, exchangeVars, bookVars
  <2> QED BY <2>4, <2>5
<1>8. CASE ReadsGap
  <2>1. wire' = <<>> /\ UNCHANGED <<venue, queue>>
    BY <1>8 DEF ReadsGap, Drop, exchangeVars
  <2>2. lastSeq' \in Nat \cup {None}
    <3>1. Head(wire) \in Messages(venue)
      BY <1>0, <1>8, TakeType DEF ReadsGap
    <3>2. \/ UNCHANGED <<lastSeq, heard>>
          \/ NoteEnvelope(Head(wire)) /\ heard' = TRUE
      BY <1>8 DEF ReadsGap
    <3> QED BY <1>0, <3>1, <3>2, ReadType DEF Basics
  <2>flags. Flags'
    BY <1>0, <1>8, Zenon DEF ReadsGap, Drop, Flags, Basics, feedVars, exchangeVars, bookVars
  <2>3. Basics'
    BY <1>0, <1>8, <2>flags, <2>2 DEF ReadsGap, Drop, Basics, exchangeVars, bookVars
  <2> QED BY <1>0, <2>1, <2>3
<1>9. CASE Dispatch
  <2> DEFINE m == Head(queue)
  <2>1. m \in Messages(venue) /\ Tail(queue) \in Seq(Messages(venue))
    BY <1>0, <1>9, TakeType DEF Dispatch
  <2>2. /\ queue' = Tail(queue) /\ Note(m)
        /\ UNCHANGED <<exchangeVars, sent, linked, wire, feedVars, faults>>
        /\ Apply(m) \/ UNCHANGED <<book, ready, shown>>
    BY <1>9 DEF Dispatch
  <2> HIDE DEF m
  <2>3. book' \in [Ladders -> Sized] /\ ready' \subseteq Legs
    BY <1>0, <2>1, <2>2, BookType DEF Basics
  <2>4. Cardinality(shown') <= 1 /\ shown' \subseteq [bid : Prices, ask : 1..One]
    <3>1. shown' = shown \/ shown' = BuildState(book', ready')
      BY <2>2 DEF Apply
    <3> QED BY <1>0, <3>1, BuildType DEF Basics
  <2>flags. Flags'
    <3>1. between' \in BOOLEAN
      <4>1. between' = IF m.type = "trade" THEN between ELSE More(m)
        BY <2>2 DEF Note
      <4>2. between \in BOOLEAN
        BY <1>0 DEF Basics, Flags
      <4> QED BY <4>1, <4>2, Zenon DEF More
    <3> QED BY <1>0, <1>9, <3>1, Zenon DEF Dispatch, Flags, Basics, feedVars, exchangeVars
  <2>5. Basics'
    BY <1>0, <2>flags, <2>1, <2>2, <2>3, <2>4, NoteType DEF Basics, exchangeVars, feedVars
  <2> QED BY <1>0, <2>1, <2>2, <2>5 DEF exchangeVars
<1>10. CASE UNCHANGED vars
  <2>1. Basics'
    BY <1>0, <1>10 DEF Basics, Flags, vars, exchangeVars, feedVars, bookVars
  <2> QED BY <1>0, <1>10, <2>1 DEF vars, exchangeVars
<1> QED BY <1>1, <1>2, <1>3, <1>4, <1>5, <1>6, <1>7, <1>8, <1>9, <1>10 DEF Next

\* The book, the feed and their histories keep their shapes: apply_delta never
\* leaves a size below zero, and no state has a price beyond the dollar.
THEOREM TypeCorrect == Spec => []TypeOK
<1>1. Spec => []TypeInv
  BY TypeInit, TypeNext, PTL DEF Spec
<1> QED BY <1>1, TypeInvType, PTL

-----------------------------------------------------------------------------
(* Where the messages on their way, and the events queued, lead to.        *)

At(x, n) == [lad |-> x, num |-> n]

\* The answer to a subscription, the only one with snapshots, is still to be read.
Fresh(ws) == ws # <<>> /\ Head(ws).type = "snapshot"
SnapsFirst(ws) == \A i \in 1..Len(ws) : ws[i].type = "snapshot" => i = 1 /\ ws[i].legs = Legs

\* If the numbers are in the bodies, a change that has the next one of its
\* market is about the ladders that the last event leads to.  Otherwise none
\* has the next one.
Body(nums, m) == IF "body" \in nums THEN m.seq ELSE 0
InStep(nums, ms, w, e) ==
  /\ ms \in Nat
  /\ IF "body" \in nums THEN ms <= w.num /\ (ms = w.num => w = e) ELSE ms = 0

\* The wire starts at w, the queue ends at e.
Joins(v, ws, nums, ms, w, e) ==
  IF v = "polymarket" THEN w = e
  ELSE SnapsFirst(ws) /\ (Fresh(ws) \/ InStep(nums, ms, w, e))

\* The wire leads to t, and starts at a point that goes with e.
Wire(v, ws, nums, ms, e, t) ==
  \E w \in Points : Through(v, w, ws, t) /\ Joins(v, ws, nums, ms, w, e)

\* Of snapshots that come first only, the rest has none.
LEMMA RestHasNone ==
  ASSUME NEW v, NEW ws \in Seq(Messages(v)), ws # <<>>, SnapsFirst(ws)
  PROVE  /\ SnapsFirst(Tail(ws))
         /\ Head(ws).type = "snapshot" => Head(ws).legs = Legs
<1>1. /\ Len(ws) \in Nat /\ Len(ws) >= 1 /\ Len(Tail(ws)) = Len(ws) - 1 /\ Head(ws) = ws[1]
      /\ \A i \in 1..Len(Tail(ws)) : Tail(ws)[i] = ws[i + 1]
  OBVIOUS
<1>2. ASSUME NEW i \in 1..Len(Tail(ws)), Tail(ws)[i].type = "snapshot" PROVE FALSE
  <2>1. i + 1 \in 1..Len(ws) /\ i + 1 # 1 /\ ws[i + 1].type = "snapshot"
    BY <1>1, <1>2
  <2> QED BY <2>1 DEF SnapsFirst
<1> QED BY <1>1, <1>2 DEF SnapsFirst

\* What the exchange sends after the answer is no snapshot.
LEMMA WireAppend ==
  ASSUME NEW v, NEW ws \in Seq(Messages(v)), NEW nums, NEW ms, NEW e, NEW t, NEW z,
         NEW s \in Seq(Messages(v)), \A i \in 1..Len(s) : s[i].type # "snapshot",
         Wire(v, ws, nums, ms, e, t), Through(v, t, s, z)
  PROVE  Wire(v, ws \o s, nums, ms, e, z)
<1>1. PICK w \in Points : Through(v, w, ws, t) /\ Joins(v, ws, nums, ms, w, e)
  BY DEF Wire
<1>2. Through(v, w, ws \o s, z)
  BY <1>1, ThroughConcat
<1>3. /\ Len(ws) \in Nat /\ Len(s) \in Nat /\ Len(ws \o s) = Len(ws) + Len(s)
      /\ \A i \in 1..Len(ws) + Len(s) : (ws \o s)[i] = IF i <= Len(ws) THEN ws[i] ELSE s[i - Len(ws)]
  OBVIOUS
<1>4. ASSUME SnapsFirst(ws) PROVE SnapsFirst(ws \o s)
  <2> SUFFICES ASSUME NEW i \in 1..Len(ws) + Len(s), (ws \o s)[i].type = "snapshot"
               PROVE  i = 1 /\ (ws \o s)[i].legs = Legs
    BY <1>3 DEF SnapsFirst
  <2>1. CASE i <= Len(ws)
    <3>1. i \in 1..Len(ws) /\ (ws \o s)[i] = ws[i]
      BY <1>3, <2>1
    <3> QED BY <1>4, <3>1 DEF SnapsFirst
  <2>2. CASE ~(i <= Len(ws))
    <3>1. i - Len(ws) \in 1..Len(s) /\ (ws \o s)[i] = s[i - Len(ws)]
      BY <1>3, <2>2
    <3> QED BY <3>1
  <2> QED BY <2>1, <2>2
<1>5. ASSUME Fresh(ws) PROVE Fresh(ws \o s)
  <2>1. ws # <<>> /\ Head(ws).type = "snapshot"
    BY <1>5 DEF Fresh
  <2>2. Len(ws) >= 1 /\ Head(ws) = ws[1]
    BY <2>1
  <2>3. ws \o s # <<>> /\ Head(ws \o s) = (ws \o s)[1] /\ (ws \o s)[1] = ws[1]
    BY <1>3, <2>2
  <2> QED BY <2>1, <2>2, <2>3 DEF Fresh
<1>6. Joins(v, ws \o s, nums, ms, w, e)
  BY <1>1, <1>4, <1>5 DEF Joins
<1> QED BY <1>1, <1>2, <1>6 DEF Wire

\* A change is lost: the number of its market is left behind.
LEMMA WireLoses ==
  ASSUME NEW v, v = "kalshi", NEW ws \in Seq(Messages(v)), ws # <<>>, NEW nums, NEW ms, NEW e, NEW t,
         Head(ws).type = "delta", Wire(v, ws, nums, ms, e, t)
  PROVE  Wire(v, Tail(ws), nums, ms, e, t)
<1>1. PICK w \in Points : Through(v, w, ws, t) /\ Joins(v, ws, nums, ms, w, e)
  BY DEF Wire
<1>2. PICK z \in Points : Leads(v, w, Head(ws), z) /\ Through(v, z, Tail(ws), t)
  BY <1>1, ThroughHead
<1>3. z.num = w.num + 1 /\ w.num \in Int
  BY <1>2 DEF Leads, Points
<1>4. SnapsFirst(ws) /\ InStep(nums, ms, w, e)
  BY <1>1 DEF Joins, Fresh
<1>5. InStep(nums, ms, z, e)
  BY <1>3, <1>4 DEF InStep
<1>6. SnapsFirst(Tail(ws))
  BY <1>4, RestHasNone
<1> QED BY <1>2, <1>5, <1>6 DEF Wire, Joins

\* A snapshot of both legs leads to one point from wherever.
LEMMA SnapshotLeads ==
  ASSUME NEW v, NEW m \in Messages(v), m.type = "snapshot", m.legs = Legs,
         NEW w \in Points, NEW e \in Points, NEW z, Leads(v, w, m, z)
  PROVE  Leads(v, e, m, z)
<1>1. About(m) = Ladders
  BY DEF About, Ladders
<1> QED BY <1>1 DEF Leads

\* A trade leads nowhere.
LEMMA TradeLeads ==
  ASSUME NEW v, NEW m \in Messages(v), m.type = "trade", NEW w \in Points
  PROVE  Leads(v, w, m, w) /\ \A z : Leads(v, w, m, z) => z = w
<1>1. About(m) = {}
  BY DEF About
<1>2. [l \in Ladders |-> IF l \in About(m) THEN m.after[l] ELSE w.lad[l]] = w.lad
  BY <1>1 DEF Points, AllLadders
<1>3. Leads(v, w, m, w)
  BY <1>2 DEF Leads
<1>4. ASSUME NEW z, Leads(v, w, m, z) PROVE z = w
  BY <1>2, <1>4 DEF Leads, Points
<1> QED BY <1>3, <1>4

\* A message the feed lets through goes on where the queue ends.
LEMMA WireReads ==
  ASSUME NEW v \in Venues, NEW ws \in Seq(Messages(v)), ws # <<>>, NEW q \in Seq(Messages(v)),
         NEW nums, NEW ms, NEW new, NEW x, NEW e \in Points, NEW t,
         Through(v, x, q, e), Wire(v, ws, nums, ms, e, t),
         v = "kalshi" /\ Head(ws).type = "delta" /\ ms # None => Body(nums, Head(ws)) = ms + 1,
         new = IF v = "kalshi" /\ Head(ws).type # "trade" THEN Body(nums, Head(ws)) ELSE ms
  PROVE  \E y \in Points : Through(v, x, Append(q, Head(ws)), y) /\ Wire(v, Tail(ws), nums, new, y, t)
<1> DEFINE m == Head(ws)
<1>1. PICK w \in Points : Through(v, w, ws, t) /\ Joins(v, ws, nums, ms, w, e)
  BY DEF Wire
<1>2. PICK z \in Points : Leads(v, w, m, z) /\ Through(v, z, Tail(ws), t)
  BY <1>1, ThroughHead
<1>3. m \in Messages(v)
  BY ThroughHead, <1>1
<1>4. /\ v = "kalshi" /\ m.type = "delta" /\ ms # None => Body(nums, m) = ms + 1
      /\ new = IF v = "kalshi" /\ m.type # "trade" THEN Body(nums, m) ELSE ms
      /\ m = Head(ws)
  OBVIOUS
<1> HIDE DEF m
<1>5. ASSUME Leads(v, e, m, z), Joins(v, Tail(ws), nums, new, z, z)
      PROVE  \E y \in Points : Through(v, x, Append(q, m), y) /\ Wire(v, Tail(ws), nums, new, y, t)
  <2>1. Through(v, x, Append(q, m), z)
    BY <1>3, <1>5, ThroughAppend
  <2> QED BY <1>2, <1>5, <2>1 DEF Wire
<1>6. CASE v = "polymarket"
  BY <1>1, <1>2, <1>4, <1>5, <1>6 DEF Joins
<1>7. CASE v = "kalshi"
  <2>1. SnapsFirst(ws) /\ (Fresh(ws) \/ InStep(nums, ms, w, e))
    BY <1>1, <1>7 DEF Joins
  <2>2. SnapsFirst(Tail(ws)) /\ (m.type = "snapshot" => m.legs = Legs)
    BY <1>4, <2>1, RestHasNone
  <2>3. ASSUME m.type # "snapshot" PROVE InStep(nums, ms, w, e)
    BY <1>4, <2>1, <2>3 DEF Fresh
  <2>4. ASSUME InStep(nums, new, z, z) PROVE Joins(v, Tail(ws), nums, new, z, z)
    BY <1>7, <2>2, <2>4 DEF Joins
  <2>5. CASE m.type = "snapshot"
    <3>1. Leads(v, e, m, z)
      BY <1>2, <1>3, <2>2, <2>5, SnapshotLeads
    <3>2. z.num = m.seq /\ m.seq \in Nat /\ new = Body(nums, m)
      BY <1>2, <1>3, <1>4, <1>7, <2>5, MessageIs DEF Leads, Snaps
    <3>3. InStep(nums, new, z, z)
      BY <3>2 DEF InStep, Body
    <3> QED BY <1>4, <1>5, <2>4, <3>1, <3>3
  <2>6. CASE m.type = "delta"
    <3>1. ms \in Nat /\ ms # None
      BY <2>3, <2>6 DEF InStep, None
    <3>2. Body(nums, m) = ms + 1 /\ new = ms + 1
      BY <1>4, <1>7, <2>6, <3>1
    <3>3. "body" \in nums
      BY <2>3, <2>6, <3>1, <3>2 DEF InStep, Body
    <3>4. m.seq = ms + 1 /\ m.seq = w.num + 1 /\ z.num = m.seq /\ w.num \in Int
      BY <1>2, <2>6, <3>2, <3>3 DEF Body, Leads, Points
    <3>5. w = e
      BY <2>3, <2>6, <3>1, <3>3, <3>4 DEF InStep
    <3>6. InStep(nums, new, z, z)
      BY <3>1, <3>2, <3>3, <3>4 DEF InStep
    <3> QED BY <1>2, <1>4, <1>5, <2>4, <3>5, <3>6
  <2>7. CASE m.type = "trade"
    <3>1. z = w /\ Leads(v, e, m, e)
      BY <1>2, <1>3, <2>7, TradeLeads
    <3>2. Through(v, x, Append(q, m), e)
      BY <1>3, <3>1, ThroughAppend
    <3>3. new = ms /\ InStep(nums, ms, w, e)
      BY <1>4, <2>3, <2>7
    <3>4. Joins(v, Tail(ws), nums, new, z, e)
      BY <1>7, <2>2, <3>1, <3>3 DEF Joins
    <3> QED BY <1>2, <1>4, <3>2, <3>4 DEF Wire
  <2> QED BY <1>3, <2>5, <2>6, <2>7, MessageIs
<1> QED BY <1>6, <1>7 DEF Venues

\* So do the changes of a message with several: only Polymarket has such
\* messages, and it has no numbers.
LEMMA WireTakes ==
  ASSUME NEW v \in Venues, NEW ws \in Seq(Messages(v)), NEW n \in 1..Len(ws), n > 1 => More(ws[1]),
         NEW q \in Seq(Messages(v)),
         NEW nums, NEW ms, NEW new, NEW x, NEW e \in Points, NEW t,
         Through(v, x, q, e), Wire(v, ws, nums, ms, e, t),
         v = "kalshi" /\ Head(ws).type = "delta" /\ ms # None => Body(nums, Head(ws)) = ms + 1,
         new = IF v = "kalshi" /\ Head(ws).type # "trade" THEN Body(nums, Head(ws)) ELSE ms
  PROVE  \E y \in Points : /\ Through(v, x, q \o SubSeq(ws, 1, n), y)
                          /\ Wire(v, SubSeq(ws, n + 1, Len(ws)), nums, new, y, t)
<1>1. CASE n = 1
  <2>1. ws # <<>> /\ Len(ws) \in Nat /\ Len(ws) >= 1
    OBVIOUS
  <2>2. PICK y \in Points : Through(v, x, Append(q, Head(ws)), y) /\ Wire(v, Tail(ws), nums, new, y, t)
    BY <2>1, WireReads
  <2> HIDE DEF Messages
  <2>3. q \o SubSeq(ws, 1, 1) = Append(q, Head(ws)) /\ SubSeq(ws, 2, Len(ws)) = Tail(ws)
    <3>1. SubSeq(ws, 1, 1) = <<Head(ws)>>
      <4>1. SubSeq(ws, 1, 1) = [i \in 1..1 |-> ws[i]]
        BY <2>1
      <4>2. Head(ws) = ws[1] /\ \A i \in 1..1 : i = 1
        BY <2>1
      <4>3. <<Head(ws)>> = [i \in 1..1 |-> Head(ws)]
        OBVIOUS
      <4> QED BY <4>1, <4>2, <4>3
    <3>2. q \o <<Head(ws)>> = Append(q, Head(ws))
      BY <2>1
    <3>3. SubSeq(ws, 2, Len(ws)) = Tail(ws)
      BY <2>1
    <3> QED BY <3>1, <3>2, <3>3
  <2>4. n + 1 = 2
    BY <1>1
  <2> QED BY <1>1, <2>2, <2>3, <2>4
<1>2. CASE n > 1
  <2>1. ws[1] \in Messages(v) /\ ws[1].type = "delta" /\ ws[1].more
    BY <1>2 DEF More
  <2>2. ws[1] \in Deltas(v)
    BY <2>1, MessageIs
  <2>3. v = "polymarket"
    <3>1. CASE v = "kalshi"
      <4>1. ws[1].more \in {FALSE}
        BY <2>2, <3>1 DEF Deltas
      <4> QED BY <2>1, <4>1
    <3> QED BY <3>1 DEF Venues
  <2>4. Through(v, e, ws, t)
    BY <2>3 DEF Wire, Joins
  <2>5. PICK y \in Points : Through(v, e, SubSeq(ws, 1, n), y) /\ Through(v, y, SubSeq(ws, n + 1, Len(ws)), t)
    BY <2>4, ThroughSplit
  <2>6. Through(v, x, q \o SubSeq(ws, 1, n), y)
    BY <2>4, <2>5, ThroughSplit, ThroughConcat
  <2>7. Wire(v, SubSeq(ws, n + 1, Len(ws)), nums, new, y, t)
    BY <2>3, <2>5 DEF Wire, Joins
  <2> QED BY <2>6, <2>7
<1> QED BY <1>1, <1>2

-----------------------------------------------------------------------------
(* The stream: every event and message leads on from the last one.         *)

\* No snapshot is lost: one that is leaves the feed with the book of another
\* connection.
NoSnapshotLost == CanLose \subseteq {"delta"}

Joined(n, e) ==
  /\ Through(venue, At(expected, n), queue, e)
  /\ linked => Wire(venue, wire, numbered, marketSeq, e, At(truth, sent))

Stream ==
  /\ ~linked => wire = <<>>
  /\ Uncrossed(venue, truth) /\ (between \/ YesUncrossed(venue, expected))
  /\ \E n \in Int, e \in Points : Joined(n, e)

\* Both legs uncrossed, the YES leg is.
LEMMA UncrossedYes ==
  ASSUME NEW v, NEW x, Uncrossed(v, x)
  PROVE  YesUncrossed(v, x)
BY DEF Uncrossed, YesUncrossed

\* A change at the exchange leads from the ladders there were to those there are.
LEMMA ChangeLeads ==
  ASSUME NEW v \in Venues, NEW x \in AllLadders, NEW l \in Ladders, NEW p \in Prices, NEW z \in Sizes,
         NEW n \in Int, NEW y, Sets(x, l, p, z, y),
         NEW m, m.type = "delta", m.seq = n + 1, m.ladder = l, m.price = p, m.after = y,
         m.size = IF v = "kalshi" THEN z - x[l][p] ELSE z, More(m) \/ YesUncrossed(v, y)
  PROVE  Leads(v, At(x, n), m, At(y, n + 1))
<1>1. /\ y \in AllLadders /\ y[l] = [x[l] EXCEPT ![p] = z]
      /\ \A k \in Ladders : k # l => y[k] = x[k]
  BY OneLevel
<1>4. At(x, n) \in Points /\ At(y, n + 1) \in Points
  BY <1>1 DEF At, Points
<1>5. y = [k \in Ladders |-> IF k \in About(m) THEN m.after[k] ELSE x[k]]
  <2>1. About(m) = {l}
    BY DEF About
  <2>2. \A k \in Ladders : y[k] = IF k \in About(m) THEN m.after[k] ELSE x[k]
    BY <1>1, <2>1
  <2> QED BY <1>1, <2>2 DEF AllLadders
<1>6. Changes(v, x, m)
  <2>1. y[l][p] = z /\ x[l] \in [Prices -> Sizes]
    BY <1>1, LadderType
  <2>2. y[l] = [x[l] EXCEPT ![p] = y[l][p]]
    BY <1>1, <2>1
  <2>3. m.size = IF v = "polymarket" THEN y[l][p] ELSE y[l][p] - x[l][p]
    BY <2>1 DEF Venues
  <2> QED BY <2>2, <2>3 DEF Changes
<1> HIDE DEF Points
<1> QED BY <1>4, <1>5, <1>6 DEF Leads, At

\* The changes of one message lead from the ladders there were, one after the
\* other, to those there are.
LEMMA BatchLeads ==
  ASSUME TypeInv, NEW cs \in Batches(venue), Uncrossed(venue, AfterChanges(cs, Len(cs))),
         NEW ms, ms = [i \in 1..Len(cs) |-> Told(cs, i)]
  PROVE  /\ ms \in Seq(Messages(venue))
         /\ \A i \in 1..Len(ms) : ms[i].type # "snapshot"
         /\ Through(venue, At(truth, sent), ms, At(AfterChanges(cs, Len(cs)), sent + Len(cs)))
<1> DEFINE n == Len(cs)
           L == [i \in 0..n |-> At(AfterChanges(cs, i), sent + i)]
<1>1. /\ n \in Nat
      /\ \A i \in 1..n : cs[i].ladder \in Ladders /\ cs[i].price \in Prices /\ cs[i].size \in Sizes
  BY ChangesType
<1>2. sent \in Nat /\ venue \in Venues
  BY DEF TypeInv, Basics
<1>3. \A i \in 1..n : Told(cs, i) \in Messages(venue) /\ Told(cs, i).type = "delta"
  BY ToldType
<1>4. \A i \in 0..n : AfterChanges(cs, i) \in AllLadders
  BY AfterType
<1>5. ASSUME NEW i \in 1..n
      PROVE  Leads(venue, At(AfterChanges(cs, i - 1), sent + (i - 1)), Told(cs, i), At(AfterChanges(cs, i), sent + i))
  <2> DEFINE x == AfterChanges(cs, i - 1)
             y == AfterChanges(cs, i)
             k == sent + (i - 1)
             m == Told(cs, i)
             l == cs[i].ladder
             p == cs[i].price
             z == cs[i].size
  <2>1. x \in AllLadders /\ k \in Int /\ k + 1 = sent + i /\ l \in Ladders /\ p \in Prices /\ z \in Sizes
    <3>1. i - 1 \in 0..n
      BY <1>1
    <3> QED BY <1>1, <1>2, <1>4, <3>1
  <2>2. Sets(x, l, p, z, y)
    BY AfterNext
  <2>3. /\ m.type = "delta" /\ m.seq = sent + i /\ m.ladder = l /\ m.price = p /\ m.after = y
        /\ m.size = IF venue = "kalshi" THEN z - x[l][p] ELSE z
    BY DEF Told
  <2>4. More(m) \/ YesUncrossed(venue, y)
    <3>1. CASE i < n
      <4>1. m.more = (i < n)
        BY DEF Told
      <4>2. m.more
        BY <3>1, <4>1
      <4> QED BY <2>3, <4>2 DEF More
    <3>2. CASE i = n
      BY <3>2, UncrossedYes
    <3> QED BY <1>1, <3>1, <3>2
  <2> HIDE DEF x, y, k, m, l, p, z
  <2>5. Leads(venue, At(x, k), m, At(y, k + 1))
    BY <1>2, <2>1, <2>2, <2>3, <2>4, ChangeLeads
  <2>6. At(y, k + 1) = At(y, sent + i)
    BY <2>1
  <2> QED BY <2>5, <2>6 DEF x, y, k, m
<1>6. /\ Len(ms) = n /\ ms \in Seq(Messages(venue))
      /\ \A i \in 1..n : ms[i] = Told(cs, i)
  BY <1>1, <1>3
<1>7. L \in [0..n -> Points]
  <2> SUFFICES ASSUME NEW i \in 0..n PROVE At(AfterChanges(cs, i), sent + i) \in Points
    OBVIOUS
  <2>1. AfterChanges(cs, i) \in AllLadders /\ sent + i \in Int
    BY <1>1, <1>2, <1>4
  <2> QED BY <2>1 DEF At, Points
<1>8. ASSUME NEW i \in 1..n PROVE Leads(venue, L[i - 1], ms[i], L[i])
  <2>1. i - 1 \in 0..n /\ i \in 0..n
    BY <1>1
  <2>2. L[i - 1] = At(AfterChanges(cs, i - 1), sent + (i - 1)) /\ L[i] = At(AfterChanges(cs, i), sent + i)
    BY <2>1
  <2> QED BY <1>5, <1>6, <2>2
<1>9. L[0] = At(truth, sent) /\ L[n] = At(AfterChanges(cs, n), sent + n)
  <2>1. 0 \in 0..n /\ n \in 0..n /\ sent + 0 = sent
    BY <1>1, <1>2
  <2>2. L[0] = At(AfterChanges(cs, 0), sent + 0) /\ L[n] = At(AfterChanges(cs, n), sent + n)
    BY <2>1
  <2> QED BY <2>1, <2>2, AfterNone
<1>10. \A i \in 1..Len(ms) : ms[i].type # "snapshot"
  BY <1>3, <1>6
<1> HIDE DEF L
<1>11. Through(venue, At(truth, sent), ms, At(AfterChanges(cs, n), sent + n))
  BY <1>6, <1>7, <1>8, <1>9 DEF Through, Steps
<1> QED BY <1>6, <1>10, <1>11

\* The answer to a subscription leads from anywhere to the ladders there are.
LEMMA AnswerLeads ==
  ASSUME venue \in Venues, truth \in AllLadders, Uncrossed(venue, truth), NEW e \in Points,
         NEW nums, NEW ms
  PROVE  Wire(venue, Snapshots, nums, ms, e, At(truth, 1))
<1>1. YesUncrossed(venue, truth)
  BY UncrossedYes
<1>2. At(truth, 1) \in Points
  BY DEF At, Points
<1>3. \A legs \in SUBSET Legs : Snapshot(legs, 1) \in Messages(venue)
  BY SnapshotsType
<1>4. \A legs : /\ Snapshot(legs, 1).type = "snapshot" /\ Snapshot(legs, 1).seq = 1
                /\ Snapshot(legs, 1).after = truth /\ Snapshot(legs, 1).legs = legs
                /\ About(Snapshot(legs, 1)) = {l \in Ladders : l[1] \in legs}
  BY DEF Snapshot, About
<1>5. CASE venue = "kalshi"
  <2> DEFINE s == Snapshot(Legs, 1)
  <2>1. s \in Messages(venue) /\ s.type = "snapshot" /\ s.legs = Legs /\ s.seq = 1 /\ s.after = truth
    BY <1>3, <1>4
  <2>2. About(s) = Ladders
    BY <1>4 DEF Ladders
  <2>3. Snapshots = Append(<<>>, s)
    BY <1>5 DEF Snapshots
  <2> HIDE DEF s
  <2>4. Leads(venue, e, s, At(truth, 1))
    <3>1. truth = [l \in Ladders |-> IF l \in About(s) THEN s.after[l] ELSE e.lad[l]]
      BY <2>1, <2>2 DEF AllLadders
    <3> QED BY <1>1, <1>2, <2>1, <3>1 DEF Leads, At
  <2>5. Through(venue, e, Append(<<>>, s), At(truth, 1))
    <3>1. <<>> \in Seq(Messages(venue))
      OBVIOUS
    <3> QED BY <2>1, <2>4, <3>1, ThroughEmpty, ThroughAppend
  <2>6. SnapsFirst(Append(<<>>, s)) /\ Fresh(Append(<<>>, s))
    BY <2>1 DEF SnapsFirst, Fresh
  <2> QED BY <1>5, <2>3, <2>5, <2>6 DEF Wire, Joins
<1>6. CASE venue = "polymarket"
  <2> DEFINE s == Snapshot({"yes"}, 1)
             t == Snapshot({"no"}, 1)
             y == [l \in Ladders |-> IF l[1] = "yes" THEN truth[l] ELSE e.lad[l]]
  <2>1. /\ s \in Messages(venue) /\ s.type = "snapshot" /\ s.seq = 1 /\ s.after = truth
        /\ t \in Messages(venue) /\ t.type = "snapshot" /\ t.seq = 1 /\ t.after = truth
    BY <1>3, <1>4 DEF Legs
  <2>2. /\ About(s) = {l \in Ladders : l[1] = "yes"}
        /\ About(t) = {l \in Ladders : l[1] = "no"}
    BY <1>4
  <2>3. Snapshots = Append(Append(<<>>, s), t)
    BY <1>6 DEF Snapshots
  <2>4. y \in AllLadders
    BY DEF Points, AllLadders
  <2>5. y = [l \in Ladders |-> IF l \in About(s) THEN s.after[l] ELSE e.lad[l]]
    BY <2>1, <2>2
  <2>6. \A l \in Ladders : y[l] = IF l[1] = "yes" THEN truth[l] ELSE e.lad[l]
    OBVIOUS
  <2> HIDE DEF s, t, y
  <2>7. Leads(venue, e, s, At(y, 1))
    <3>1. y[<<"yes", "bid">>] = truth[<<"yes", "bid">>] /\ y[<<"yes", "ask">>] = truth[<<"yes", "ask">>]
      BY <2>6 DEF Ladders, Legs
    <3>2. YesUncrossed(venue, y)
      BY <1>1, <1>6, <3>1 DEF YesUncrossed, YesAsks
    <3>3. At(y, 1) \in Points
      BY <2>4 DEF At, Points
    <3> QED BY <2>1, <2>5, <3>2, <3>3 DEF Leads, At
  <2>8. Leads(venue, At(y, 1), t, At(truth, 1))
    <3>1. truth = [l \in Ladders |-> IF l \in About(t) THEN t.after[l] ELSE y[l]]
      <4>1. \A l \in Ladders : truth[l] = IF l \in About(t) THEN t.after[l] ELSE y[l]
        BY <2>1, <2>2, <2>6 DEF Ladders, Legs
      <4> QED BY <4>1 DEF AllLadders
    <3> QED BY <1>1, <1>2, <2>1, <3>1 DEF Leads, At
  <2>9. Through(venue, e, Append(<<>>, s), At(y, 1))
    <3>1. <<>> \in Seq(Messages(venue))
      OBVIOUS
    <3> QED BY <2>1, <2>7, <3>1, ThroughEmpty, ThroughAppend
  <2>10. Through(venue, e, Append(Append(<<>>, s), t), At(truth, 1))
    <3>1. Append(<<>>, s) \in Seq(Messages(venue))
      BY <2>1
    <3> QED BY <2>1, <2>8, <2>9, <3>1, ThroughAppend
  <2> QED BY <1>6, <2>3, <2>10 DEF Wire, Joins
<1> QED BY <1>5, <1>6 DEF Venues

\* A point is its ladders and its number.
LEMMA PointIs ==
  ASSUME NEW z \in Points
  PROVE  z.lad \in AllLadders /\ z.num \in Int /\ z = At(z.lad, z.num)
BY DEF Points, At

\* Nothing is queued, or on its way, when the process starts.
LEMMA StreamInit == Init => Stream
<1> SUFFICES ASSUME Init PROVE Stream
  OBVIOUS
<1>1. venue \in Venues /\ truth = Opening[venue] /\ wire = <<>> /\ queue = <<>> /\ linked = FALSE
  BY DEF Init
<1>2. Uncrossed(venue, truth)
  BY <1>1, OpeningUncrossed
<1>3. YesUncrossed(venue, expected)
  <2>1. Levels(EmptyLadder) = {}
    BY DEF EmptyLadder, Levels
  <2>2. expected[<<"yes", "bid">>] = EmptyLadder
    BY DEF Init, Ladders, Legs
  <2>3. Best(expected[<<"yes", "bid">>], "bid") = {}
    BY <2>1, <2>2 DEF Best
  <2> QED BY <2>3 DEF YesUncrossed
<1>4. At(expected, 0) \in Points
  BY TypeInit DEF At, Points, TypeInv, Basics
<1>5. Through(venue, At(expected, 0), queue, At(expected, 0))
  BY <1>1, <1>4, ThroughEmpty
<1>6. Joined(0, At(expected, 0))
  BY <1>1, <1>5 DEF Joined
<1> QED BY <1>1, <1>2, <1>3, <1>4, <1>6 DEF Stream

\* Where the connection is given up, what it carried is gone.
LEMMA StreamDrop ==
  ASSUME Stream, Drop, UNCHANGED <<venue, truth, queue, expected, between>>
  PROVE  Stream'
<1>1. PICK n \in Int, e \in Points : Joined(n, e)
  BY DEF Stream
<1>2. Joined(n, e)'
  BY <1>1 DEF Joined, Drop
<1>3. Uncrossed(venue, truth)' /\ (between' \/ YesUncrossed(venue, expected)')
  BY DEF Stream
<1> QED BY <1>2, <1>3 DEF Stream, Drop

\* An event is taken from the queue.
LEMMA DispatchLeads ==
  ASSUME TypeInv, Stream, Dispatch
  PROVE  \E n \in Int, e \in Points, z \in Points :
           /\ Joined(n, e)
           /\ Leads(venue, At(expected, n), Head(queue), z) /\ Through(venue, z, Tail(queue), e)
           /\ z.lad = expected'
<1>1. PICK n \in Int, e \in Points : Joined(n, e)
  BY DEF Stream
<1>2. queue \in Seq(Messages(venue)) /\ queue # <<>> /\ Note(Head(queue))
  BY DEF TypeInv, Dispatch
<1>3. PICK z \in Points : Leads(venue, At(expected, n), Head(queue), z) /\ Through(venue, z, Tail(queue), e)
  BY <1>1, <1>2, ThroughHead DEF Joined
<1>4. z.lad = expected'
  BY <1>2, <1>3 DEF Note, Leads, At
<1> QED BY <1>1, <1>3, <1>4

\* Every step keeps it: what is sent leads on from the ladders there are, what is
\* let through from the end of the queue, and what is lost leaves a gap.
LEMMA StreamNext ==
  ASSUME NoSnapshotLost, TypeInv, TypeInv', Stream, [Next]_vars
  PROVE  Stream'
<1>0. /\ venue \in Venues /\ truth \in AllLadders /\ expected \in AllLadders /\ sent \in Nat
      /\ wire \in Seq(Messages(venue)) /\ queue \in Seq(Messages(venue))
  BY DEF TypeInv, Basics
<1>a. PICK n \in Int, e \in Points : Joined(n, e)
  BY DEF Stream
<1>b. Uncrossed(venue, truth) /\ (between \/ YesUncrossed(venue, expected)) /\ (~linked => wire = <<>>)
  BY DEF Stream
<1>1. ASSUME NEW cs \in Batches(venue), VenueChanges(cs)
      PROVE  Stream'
  <2> DEFINE ms == [i \in 1..Len(cs) |-> Told(cs, i)]
             k == Len(cs)
  <2>1. /\ truth' = AfterChanges(cs, k) /\ Uncrossed(venue, AfterChanges(cs, k))
        /\ sent' = IF linked THEN sent + k ELSE sent
        /\ Send(ms)
        /\ UNCHANGED <<venue, numbered, linked, marketSeq, queue, expected, between>>
    BY <1>1 DEF VenueChanges, feedVars, bookVars
  <2>2. Uncrossed(venue, truth)' /\ (between' \/ YesUncrossed(venue, expected)')
    BY <1>b, <2>1
  <2>3. CASE ~linked
    <3>1. wire' = wire
      BY <2>1, <2>3 DEF Send
    <3>2. Joined(n, e)'
      BY <1>a, <2>1, <2>3 DEF Joined
    <3> QED BY <1>b, <2>1, <2>2, <3>1, <3>2 DEF Stream
  <2>4. CASE linked
    <3>1. /\ ms \in Seq(Messages(venue)) /\ \A i \in 1..Len(ms) : ms[i].type # "snapshot"
          /\ Through(venue, At(truth, sent), ms, At(AfterChanges(cs, k), sent + k))
      BY <2>1, BatchLeads
    <3>2. wire' = wire \o ms
      BY <2>1, <2>4 DEF Send
    <3> HIDE DEF ms, k
    <3>3. Wire(venue, wire, numbered, marketSeq, e, At(truth, sent))
      BY <1>a, <2>4 DEF Joined
    <3>4. Wire(venue, wire \o ms, numbered, marketSeq, e, At(AfterChanges(cs, k), sent + k))
      BY <1>0, <3>1, <3>3, WireAppend
    <3>5. Joined(n, e)'
      BY <1>a, <2>1, <2>4, <3>2, <3>4 DEF Joined
    <3> QED BY <2>1, <2>2, <2>4, <3>5 DEF Stream
  <2> QED BY <2>3, <2>4
<1>2. CASE VenueTrades
  <2> DEFINE m == [type |-> "trade", seq |-> None]
  <2>1. /\ linked /\ wire' = wire \o <<m>>
        /\ UNCHANGED <<venue, numbered, truth, sent, linked, marketSeq, queue, expected, between>>
    BY <1>2 DEF VenueTrades, Send, feedVars, bookVars
  <2>2. m \in Messages(venue) /\ m.type = "trade"
    BY DEF Messages, Trades
  <2> HIDE DEF m
  <2>4. At(truth, sent) \in Points
    BY <1>0 DEF At, Points
  <2>5. Leads(venue, At(truth, sent), m, At(truth, sent))
    BY <2>2, <2>4, TradeLeads
  <2>3. Through(venue, At(truth, sent), <<m>>, At(truth, sent)) /\ <<m>> \in Seq(Messages(venue))
    BY <2>2, <2>4, <2>5, ThroughOne
  <2>8. \A i \in 1..Len(<<m>>) : <<m>>[i].type # "snapshot"
    BY <2>2
  <2>9. Wire(venue, wire, numbered, marketSeq, e, At(truth, sent))
    BY <1>a, <2>1 DEF Joined
  <2>6. Wire(venue, wire \o <<m>>, numbered, marketSeq, e, At(truth, sent))
    BY <1>0, <2>3, <2>8, <2>9, WireAppend
  <2>7. Joined(n, e)'
    BY <1>a, <2>1, <2>6 DEF Joined
  <2> QED BY <1>b, <2>1, <2>7 DEF Stream
<1>3. CASE VenueLoses
  <2>1. /\ venue = "kalshi" /\ wire # <<>> /\ Head(wire).type \in CanLose /\ wire' = Tail(wire)
        /\ UNCHANGED <<venue, numbered, truth, sent, linked, marketSeq, queue, expected, between>>
    BY <1>3 DEF VenueLoses, exchangeVars, feedVars, bookVars
  <2>2. linked /\ Head(wire).type = "delta"
    BY <1>b, <2>1 DEF NoSnapshotLost
  <2>3. Wire(venue, wire', numbered, marketSeq, e, At(truth, sent))
    BY <1>0, <1>a, <2>1, <2>2, WireLoses DEF Joined
  <2>4. Joined(n, e)'
    BY <1>a, <2>1, <2>3 DEF Joined
  <2> QED BY <1>b, <2>1, <2>2, <2>4 DEF Stream
<1>4. CASE Opens
  <2>1. /\ linked' = TRUE /\ wire' = Snapshots /\ sent' = 1
        /\ UNCHANGED <<venue, numbered, truth, marketSeq, queue, expected, between>>
    BY <1>4 DEF Opens, exchangeVars, feedVars, bookVars
  <2>2. Wire(venue, Snapshots, numbered, marketSeq, e, At(truth, 1))
    BY <1>0, <1>b, AnswerLeads
  <2>3. Joined(n, e)'
    BY <1>a, <2>1, <2>2 DEF Joined
  <2> QED BY <1>b, <2>1, <2>3 DEF Stream
<1>5. CASE Breaks
  BY <1>5, StreamDrop DEF Breaks, exchangeVars, bookVars
<1>6. CASE Watchdog
  BY <1>6, StreamDrop DEF Watchdog, exchangeVars, bookVars
<1>7. CASE Reads
  <2> DEFINE m == Head(wire)
  <2>0. PICK k \in 1..Len(wire) : /\ EndsAt(k)
                                 /\ queue' = queue \o SubSeq(wire, 1, k)
                                 /\ wire' = SubSeq(wire, k + 1, Len(wire))
    BY <1>7 DEF Reads
  <2>1. /\ wire # <<>> /\ ~OutOfStep(m)
        /\ marketSeq' = IF NumberedBook(m) THEN BodySeq(m) ELSE marketSeq
        /\ UNCHANGED <<venue, numbered, truth, sent, linked, expected, between>>
    BY <1>7 DEF Reads, exchangeVars, bookVars
  <2>2. linked
    BY <1>b, <2>1
  <2>3. venue = "kalshi" /\ m.type = "delta" /\ marketSeq # None => Body(numbered, m) = marketSeq + 1
    BY <2>1 DEF OutOfStep, NumberedBook, BodySeq, Body
  <2>4. marketSeq' = IF venue = "kalshi" /\ m.type # "trade" THEN Body(numbered, m) ELSE marketSeq
    BY <2>1 DEF NumberedBook, BodySeq, Body
  <2>5. Through(venue, At(expected, n), queue, e) /\ Wire(venue, wire, numbered, marketSeq, e, At(truth, sent))
    BY <1>a, <2>2 DEF Joined
  <2>8. k > 1 => More(wire[1])
    <3>1. k > 1 => 1 \in 1..(k - 1)
      OBVIOUS
    <3> QED BY <2>0, <3>1 DEF EndsAt
  <2>6. PICK y \in Points : /\ Through(venue, At(expected, n), queue \o SubSeq(wire, 1, k), y)
                            /\ Wire(venue, SubSeq(wire, k + 1, Len(wire)), numbered, marketSeq', y, At(truth, sent))
    BY <1>0, <2>3, <2>4, <2>5, <2>8, WireTakes
  <2> HIDE DEF m
  <2>7. Joined(n, y)'
    BY <2>0, <2>1, <2>6 DEF Joined
  <2> QED BY <1>b, <2>1, <2>2, <2>7 DEF Stream
<1>8. CASE ReadsGap
  BY <1>8, StreamDrop DEF ReadsGap, exchangeVars, bookVars
<1>9. CASE Dispatch
  <2>1. /\ queue' = Tail(queue) /\ queue # <<>>
        /\ UNCHANGED <<venue, numbered, truth, sent, linked, wire, marketSeq>>
    BY <1>9 DEF Dispatch, exchangeVars, feedVars
  <2>2. PICK k \in Int, d \in Points, z \in Points :
          /\ Joined(k, d)
          /\ Leads(venue, At(expected, k), Head(queue), z) /\ Through(venue, z, Tail(queue), d)
          /\ z.lad = expected'
    BY <1>9, DispatchLeads
  <2>3. z = At(expected', z.num) /\ z.num \in Int
    BY <2>2, PointIs
  <2>4. Joined(z.num, d)'
    BY <2>1, <2>2, <2>3 DEF Joined
  <2>5. between' \/ YesUncrossed(venue, expected')
    <3> DEFINE m == Head(queue)
    <3>0. /\ between' = IF m.type = "trade" THEN between ELSE More(m)
          /\ expected' = [l \in Ladders |-> IF l \in About(m) THEN m.after[l] ELSE expected[l]]
      BY <1>9 DEF Dispatch, Note
    <3>1. CASE m.type = "trade"
      <4>1. About(m) = {}
        BY <3>1 DEF About
      <4>2. expected' = [l \in Ladders |-> expected[l]]
        BY <3>0, <4>1
      <4>3. expected' = expected
        BY <1>0, <4>2 DEF AllLadders
      <4> QED BY <1>b, <3>0, <3>1, <4>3
    <3>2. CASE m.type # "trade"
      BY <2>2, <3>0, <3>2 DEF Leads
    <3> QED BY <3>1, <3>2
  <2> QED BY <1>b, <2>1, <2>3, <2>4, <2>5 DEF Stream
<1>10. CASE UNCHANGED vars
  <2>1. UNCHANGED <<venue, numbered, truth, sent, linked, wire, marketSeq, queue, expected, between>>
    BY <1>10 DEF vars, exchangeVars, feedVars, bookVars
  <2>2. Joined(n, e)'
    BY <1>a, <2>1 DEF Joined
  <2> QED BY <1>b, <2>1, <2>2 DEF Stream
<1> QED BY <1>1, <1>2, <1>3, <1>4, <1>5, <1>6, <1>7, <1>8, <1>9, <1>10 DEF Next

-----------------------------------------------------------------------------
(* The book against the ladders of the exchange.                           *)

\* Ladder b against ladder x of the exchange, where r levels were deleted: never
\* more at a price, right at the levels that no deletion can have uncovered, and
\* the same as long as it never was deeper than MAX_DEPTH.
Follows(b, x, l, r, deep) ==
  NoMore(b, x) /\ Top(b, x, l[2], MaxDepth - r) /\ (l \notin deep => b = x)

BookInv ==
  /\ Registered \/ (ready = {} /\ shown = {})
  /\ \A l \in Ladders : l[1] \in ready =>
       Follows(book[l], expected[l], l, removed[l], clipped)

\* A snapshot starts a ladder anew.
LEMMA SnapshotFollows ==
  ASSUME NEW x \in Sized, NEW l, NEW deep, l \in deep <=> Cardinality(Levels(x)) > MaxDepth
  PROVE  Follows(Trim(x, l[2]), x, l, 0, deep)
<1>1. ASSUME l \notin deep PROVE Trim(x, l[2]) = x
  <2>1. Cardinality(Levels(x)) <= MaxDepth
    BY <1>1, LevelsFinite, DepthAssumption
  <2> QED BY <2>1, TrimNothing
<1> QED BY <1>1, SnapshotLadder DEF Follows

\* What apply_delta makes of a level is a change told the venue's way.
LEMMA DeltaChanges ==
  ASSUME TypeInv, NEW m \in Deltas(venue), NEW b \in Sized, NEW x \in Sized,
         x = expected[m.ladder], NoMore(b, x), Changes(venue, expected, m)
  PROVE  Changed(b, x, m.after[m.ladder], m.price, NewSize(b, m))
<1>1. m.ladder \in Ladders /\ m.price \in Prices /\ m.after[m.ladder] \in Sized
  BY LadderType DEF Deltas
<1> DEFINE y == m.after[m.ladder]
           p == m.price
<1>2. /\ y \in Sized /\ p \in Prices /\ y = [x EXCEPT ![p] = y[p]]
      /\ m.size = IF venue = "polymarket" THEN y[p] ELSE y[p] - x[p]
  BY <1>1 DEF Changes
<1>3. NewSize(b, m) = IF venue = "polymarket" THEN m.size
                      ELSE IF b[p] + m.size < 0 THEN 0 ELSE b[p] + m.size
  BY DEF NewSize
<1> HIDE DEF y, p
<1>4. y[p] \in Nat /\ x[p] \in Nat /\ b[p] \in Nat /\ b[p] <= x[p]
  BY <1>2 DEF Sized, NoMore
<1>5. /\ NewSize(b, m) \in Nat /\ NewSize(b, m) <= y[p]
      /\ b[p] = x[p] => NewSize(b, m) = y[p]
  BY <1>2, <1>3, <1>4
<1> QED BY <1>2, <1>5 DEF Changed, y, p

\* A change goes on with it.
LEMMA DeltaFollows ==
  ASSUME NEW b, NEW x, NEW y, NEW p, NEW n, NEW l, NEW r \in Nat, NEW r2, NEW deep, NEW deep2,
         Changed(b, x, y, p, n), Follows(b, x, l, r, deep),
         r2 = IF y[p] = 0 THEN r + 1 ELSE r,
         l \in deep2 <=> (l \in deep \/ Cardinality(Levels(y)) > MaxDepth)
  PROVE  Follows(Trim([b EXCEPT ![p] = n], l[2]), y, l, r2, deep2)
<1>1. NoMore(Trim([b EXCEPT ![p] = n], l[2]), y)
  BY ChangeNoMore
<1>2. Top(Trim([b EXCEPT ![p] = n], l[2]), y, l[2], MaxDepth - r2)
  <2> DEFINE k == MaxDepth - r
             j == MaxDepth - r2
  <2>1. k \in Int /\ j \in Int /\ k <= MaxDepth /\ j = IF y[p] = 0 THEN k - 1 ELSE k
    BY DepthAssumption
  <2>2. Top(b, x, l[2], k)
    BY DEF Follows
  <2> HIDE DEF k, j
  <2>3. Top(Trim([b EXCEPT ![p] = n], l[2]), y, l[2], j)
    BY <2>1, <2>2, ChangeTop
  <2> QED BY <2>3 DEF j
<1>3. ASSUME l \notin deep2 PROVE Trim([b EXCEPT ![p] = n], l[2]) = y
  <2>1. b = x
    BY <1>3 DEF Follows
  <2>2. Cardinality(Levels(y)) <= MaxDepth
    BY <1>3, LevelsFinite, DepthAssumption
  <2> QED BY <2>1, <2>2, ChangeSame
<1> QED BY <1>1, <1>2, <1>3 DEF Follows

\* The book after an event, ladder by ladder.
LEMMA BookDispatch ==
  ASSUME TypeInv, Stream, BookInv, Dispatch, Registered
  PROVE  \A l \in Ladders : l[1] \in ready' =>
           Follows(book'[l], expected'[l], l, removed'[l], clipped')
<1> DEFINE m == Head(queue)
<1>0. /\ venue \in Venues /\ expected \in AllLadders /\ book \in [Ladders -> Sized]
      /\ clipped \subseteq Ladders /\ removed \in [Ladders -> Nat]
      /\ queue \in Seq(Messages(venue)) /\ queue # <<>>
  BY DEF TypeInv, Basics, Dispatch
<1>1. m \in Messages(venue) /\ Apply(m) /\ Note(m)
  BY <1>0, TakeType DEF Dispatch
<1>2. PICK n \in Int, z \in Points : Leads(venue, At(expected, n), m, z)
  BY DispatchLeads
<1> HIDE DEF m
<1> TAKE l \in Ladders
<1> HAVE l[1] \in ready'
<1>3. expected[l] \in Sized /\ book[l] \in Sized /\ removed[l] \in Nat
  BY <1>0, LadderType
<1>4. /\ expected'[l] = IF l \in About(m) THEN m.after[l] ELSE expected[l]
      /\ removed'[l] = IF l \notin About(m) THEN removed[l]
                       ELSE IF m.type = "snapshot" THEN 0
                       ELSE IF m.after[l][m.price] = 0 THEN removed[l] + 1
                       ELSE removed[l]
      /\ l \in clipped' <=> \/ l \in clipped /\ ~(m.type = "snapshot" /\ l \in About(m))
                            \/ l \in About(m) /\ Cardinality(Levels(m.after[l])) > MaxDepth
  BY <1>1 DEF Note
<1>5. CASE l \notin About(m)
  <2>1. l[1] \in ready /\ book'[l] = book[l]
    <3>1. CASE m.type = "snapshot"
      BY <1>1, <1>5, <3>1 DEF Apply, ApplySnapshot, About
    <3>2. CASE m.type = "delta"
      <4>1. m.ladder # l /\ book' = ApplyDelta(book, m) /\ ready' = ready
        BY <1>1, <1>5, <3>2 DEF Apply, About
      <4> QED BY <1>0, <4>1 DEF ApplyDelta
    <3>3. CASE m.type = "trade"
      BY <1>1, <3>3 DEF Apply
    <3> QED BY <1>1, <3>1, <3>2, <3>3, MessageIs
  <2>2. expected'[l] = expected[l] /\ removed'[l] = removed[l] /\ (l \in clipped' <=> l \in clipped)
    BY <1>4, <1>5
  <2>3. Follows(book[l], expected[l], l, removed[l], clipped)
    BY <2>1 DEF BookInv
  <2> QED BY <2>1, <2>2, <2>3 DEF Follows
<1>6. CASE l \in About(m) /\ m.type = "snapshot"
  <2>1. book'[l] = Trim(m.after[l], l[2])
    BY <1>1, <1>6 DEF Apply, ApplySnapshot, About
  <2>2. m.after[l] \in Sized
    BY <1>1, <1>6, MessageIs, LadderType DEF Snaps
  <2>3. /\ expected'[l] = m.after[l] /\ removed'[l] = 0
        /\ l \in clipped' <=> Cardinality(Levels(m.after[l])) > MaxDepth
    BY <1>4, <1>6
  <2> QED BY <2>1, <2>2, <2>3, SnapshotFollows
<1>7. CASE l \in About(m) /\ m.type = "delta"
  <2>1. m \in Deltas(venue) /\ m.ladder = l /\ m.price \in Prices /\ ready' = ready
    BY <1>1, <1>7, MessageIs DEF About, Deltas, Apply
  <2>2. Follows(book[l], expected[l], l, removed[l], clipped)
    BY <2>1 DEF BookInv
  <2>3. Changes(venue, expected, m)
    BY <1>2, <1>7 DEF Leads, At
  <2>4. Changed(book[l], expected[l], m.after[l], m.price, NewSize(book[l], m))
    BY <1>3, <2>1, <2>2, <2>3, DeltaChanges DEF Follows
  <2>5. book'[l] = Trim([book[l] EXCEPT ![m.price] = NewSize(book[l], m)], l[2])
    <3>1. book' = ApplyDelta(book, m)
      BY <1>1, <1>7 DEF Apply
    <3> QED BY <1>0, <2>1, <3>1 DEF ApplyDelta
  <2>6. /\ expected'[l] = m.after[l]
        /\ removed'[l] = IF m.after[l][m.price] = 0 THEN removed[l] + 1 ELSE removed[l]
        /\ l \in clipped' <=> (l \in clipped \/ Cardinality(Levels(m.after[l])) > MaxDepth)
    BY <1>4, <1>7
  <2> DEFINE b == book[l]
             x == expected[l]
             y == m.after[l]
             s == NewSize(book[l], m)
             r == removed[l]
             q == removed'[l]
  <2>7. /\ Changed(b, x, y, m.price, s) /\ Follows(b, x, l, r, clipped) /\ r \in Nat
        /\ q = IF y[m.price] = 0 THEN r + 1 ELSE r
        /\ l \in clipped' <=> (l \in clipped \/ Cardinality(Levels(y)) > MaxDepth)
    BY <1>3, <2>2, <2>4, <2>6
  <2> HIDE DEF b, x, y, s, r, q
  <2>8. Follows(Trim([b EXCEPT ![m.price] = s], l[2]), y, l, q, clipped')
    BY <2>7, DeltaFollows
  <2> QED BY <2>5, <2>6, <2>8 DEF b, y, s, q
<1> QED BY <1>1, <1>5, <1>6, <1>7, MessageIs DEF About

\* Only a dispatched event changes the book and its history.
LEMMA BookNext ==
  ASSUME TypeInv, Stream, BookInv, [Next]_vars
  PROVE  BookInv'
<1>1. CASE Dispatch /\ Registered
  BY <1>1, BookDispatch DEF BookInv, Registered
<1>2. CASE Dispatch /\ ~Registered
  <2>1. ready = {} /\ shown = {} /\ UNCHANGED <<ready, shown>>
    BY <1>2 DEF BookInv, Dispatch
  <2> QED BY <2>1 DEF BookInv
<1>3. CASE UNCHANGED bookVars
  BY <1>3 DEF BookInv, bookVars
<1>4. Dispatch \/ UNCHANGED bookVars
  BY DEF Next, vars, VenueChanges, VenueTrades, VenueLoses, Opens, Breaks, Watchdog, Reads, ReadsGap
<1> QED BY <1>1, <1>2, <1>3, <1>4

\* A state built from ladders that show no more than uncrossed ones is uncrossed.
LEMMA BuiltUncrossed ==
  ASSUME venue \in Venues, NEW x \in [Ladders -> Sized], NEW y \in AllLadders, NEW legs,
         legs = Legs => \A l \in Ladders : NoMore(x[l], y[l]),
         YesUncrossed(venue, y), NEW s \in BuildState(x, legs)
  PROVE  s.bid < s.ask
<1>1. legs = Legs
  BY DEF BuildState
<1>2. PICK b \in Best(x[<<"yes", "bid">>], "bid"), a \in YesAsks(venue, x) : s = [bid |-> b, ask |-> a]
  BY DEF BuildState
<1>3. \A l \in Ladders : x[l] \in Sized /\ y[l] \in Sized /\ NoMore(x[l], y[l])
  BY <1>1, LadderType
<1>4. <<"yes", "bid">> \in Ladders /\ <<"yes", "ask">> \in Ladders /\ <<"no", "bid">> \in Ladders
  BY DEF Ladders, Legs
<1>5. PICK c \in Best(y[<<"yes", "bid">>], "bid") : c = b \/ Better("bid", c, b)
  BY <1>3, <1>4, BestNoBetter
<1>6. b \in Nat /\ c \in Nat /\ One \in Nat
  BY BestOne, PriceType
<1>7. \E d \in YesAsks(venue, y) : d \in Int /\ a \in Int /\ d <= a
  <2>1. CASE venue = "kalshi"
    <3>1. PICK p \in Best(x[<<"no", "bid">>], "bid") : a = One - p
      BY <2>1 DEF YesAsks
    <3>2. PICK q \in Best(y[<<"no", "bid">>], "bid") : q = p \/ Better("bid", q, p)
      BY <1>3, <1>4, BestNoBetter
    <3>3. p \in Nat /\ q \in Nat
      BY BestOne, PriceType
    <3>4. One - q \in YesAsks(venue, y)
      BY <2>1 DEF YesAsks
    <3>5. p <= q
      BY <3>2, <3>3 DEF Better
    <3> QED BY <1>6, <3>1, <3>3, <3>4, <3>5
  <2>2. CASE venue = "polymarket"
    <3>1. a \in Best(x[<<"yes", "ask">>], "ask")
      BY <2>2 DEF YesAsks
    <3>2. PICK q \in Best(y[<<"yes", "ask">>], "ask") : q = a \/ Better("ask", q, a)
      BY <1>3, <1>4, <3>1, BestNoBetter
    <3>3. a \in Nat /\ q \in Nat
      BY <3>1, BestOne, PriceType
    <3>4. q \in YesAsks(venue, y)
      BY <2>2 DEF YesAsks
    <3>5. q <= a
      BY <3>2, <3>3 DEF Better
    <3> QED BY <3>3, <3>4, <3>5
  <2> QED BY <2>1, <2>2 DEF Venues
<1>8. PICK d \in YesAsks(venue, y) : d \in Int /\ a \in Int /\ d <= a
  BY <1>7
<1>9. c < d
  BY DEF YesUncrossed
<1>10. b <= c
  BY <1>5, <1>6 DEF Better
<1>11. s.bid = b /\ s.ask = a
  BY <1>2
<1> QED BY <1>6, <1>8, <1>9, <1>10, <1>11

\* No step shows a crossed state, but between two changes of a message.
LEMMA CrossedNext ==
  ASSUME TypeInv, TypeInv', Stream', BookInv, BookInv', CrossedOnlyBetween, [Next]_vars
  PROVE  CrossedOnlyBetween'
<1>1. CASE UNCHANGED <<shown, between>>
  BY <1>1 DEF CrossedOnlyBetween
<1>2. ASSUME shown' = BuildState(book', ready'), UNCHANGED venue PROVE CrossedOnlyBetween'
  <2> SUFFICES ASSUME ~between', NEW s \in BuildState(book', ready') PROVE ~(s.bid >= s.ask)
    BY <1>2 DEF CrossedOnlyBetween
  <2>1. /\ venue \in Venues /\ book' \in [Ladders -> Sized] /\ expected' \in AllLadders
        /\ YesUncrossed(venue, expected')
    BY <1>2 DEF TypeInv, Basics, Stream
  <2>2. ready' = Legs => \A l \in Ladders : NoMore(book'[l], expected'[l])
    BY DEF BookInv, Follows, Ladders
  <2>3. s.bid < s.ask
    BY <2>1, <2>2, BuiltUncrossed
  <2>4. s.bid \in Int /\ s.ask \in Int
    <3>1. s \in [bid : Prices, ask : 1..One]
      BY BuildType
    <3> QED BY <3>1, PriceType
  <2> QED BY <2>3, <2>4
<1>3. CASE ~Registered /\ Dispatch
  <2>1. shown' = shown
    BY <1>3 DEF Dispatch
  <2>2. shown = {}
    BY <1>3 DEF BookInv
  <2> QED BY <2>1, <2>2 DEF CrossedOnlyBetween
<1>4. \/ UNCHANGED <<shown, between>>
      \/ ~Registered /\ Dispatch
      \/ shown' = BuildState(book', ready') /\ UNCHANGED venue
  <2>1. CASE Dispatch
    BY <2>1 DEF Dispatch, Apply, exchangeVars
  <2>2. CASE ~Dispatch
    BY <2>2 DEF Next, vars, bookVars, VenueChanges, VenueTrades, VenueLoses, Opens, Breaks, Watchdog,
                Reads, ReadsGap
  <2> QED BY <2>1, <2>2
<1> QED BY <1>1, <1>2, <1>3, <1>4

Inv == TypeInv /\ Stream /\ BookInv /\ CrossedOnlyBetween

\* All of it holds in every state, when no snapshot is lost.
LEMMA InvHolds == ASSUME NoSnapshotLost PROVE Spec => []Inv
<1>1. Init => Inv
  BY TypeInit, StreamInit DEF Init, Inv, BookInv, CrossedOnlyBetween
<1>2. Inv /\ [Next]_vars => Inv'
  <2> SUFFICES ASSUME Inv, [Next]_vars PROVE Inv'
    OBVIOUS
  <2>1. TypeInv'
    BY TypeNext DEF Inv
  <2>2. Stream' /\ BookInv'
    BY <2>1, StreamNext, BookNext DEF Inv
  <2>3. CrossedOnlyBetween'
    BY <2>1, <2>2, CrossedNext DEF Inv
  <2> QED BY <2>1, <2>2, <2>3 DEF Inv
<1> QED BY <1>1, <1>2, PTL DEF Spec

\* Whatever changes were lost, and whenever the connection broke, a ladder that
\* never was deeper than MAX_DEPTH is the exchange's as of the last event about
\* it (KalshiFeed._parse_book_delta, L2Book.apply_delta).
THEOREM LadderAlwaysFollows == ASSUME NoSnapshotLost PROVE Spec => []LadderFollows
<1>1. Inv => LadderFollows
  BY DEF Inv, BookInv, Follows, LadderFollows
<1> QED BY <1>1, InvHolds, PTL

\* Trimmed or not, no level of the book is larger than the exchange's was.
THEOREM NothingEverInvented == ASSUME NoSnapshotLost PROVE Spec => []NothingInvented
<1>1. Inv => NothingInvented
  BY DEF Inv, BookInv, Follows, NoMore, NothingInvented
<1> QED BY <1>1, InvHolds, PTL

\* The best price and its size are right until MAX_DEPTH levels have been
\* deleted since the snapshot (L2Book._trim, best_bid, best_ask).
THEOREM BestAlwaysHolds == ASSUME NoSnapshotLost PROVE Spec => []BestHolds
<1>1. ASSUME Inv PROVE BestHolds
  <2> SUFFICES ASSUME NEW l \in Ladders, l[1] \in ready, removed[l] < MaxDepth
               PROVE  /\ Best(book[l], l[2]) = Best(expected[l], l[2])
                      /\ \A p \in Best(book[l], l[2]) : book[l][p] = expected[l][p]
    BY DEF BestHolds
  <2>1. book[l] \in Sized /\ expected[l] \in Sized /\ removed[l] \in Nat
    BY <1>1, LadderType DEF Inv, TypeInv, Basics
  <2>2. NoMore(book[l], expected[l]) /\ Top(book[l], expected[l], l[2], MaxDepth - removed[l])
    BY <1>1 DEF Inv, BookInv, Follows
  <2>3. MaxDepth - removed[l] \in Int /\ MaxDepth - removed[l] >= 1
    BY <2>1, DepthAssumption
  <2> QED BY <2>1, <2>2, <2>3, BestRight
<1>2. Inv => BestHolds
  BY <1>1
<1> QED BY <1>2, InvHolds, PTL

\* A crossed state reaches the strategy between two changes of one message of
\* Polymarket and at no other time, although the ask of Kalshi is worked out from
\* the other leg (UnifiedBook._build_state, PolymarketFeed._parse_price_change).
THEOREM CrossedOnlyWithinMessages == ASSUME NoSnapshotLost PROVE Spec => []CrossedOnlyBetween
<1>1. Inv => CrossedOnlyBetween
  BY DEF Inv
<1> QED BY <1>1, InvHolds, PTL

-----------------------------------------------------------------------------
(* The connection, and the monitor that watches it.                        *)

\* The status is the one of the phase; downFrom is set while it is not
\* CONNECTED; no time lies in the future.
PhasesAgree ==
  /\ status = "connected" <=> Open
  /\ downFrom = Never <=> Open
  /\ Open => openFrom # Never

NothingAhead == now >= 1 /\ lastMsg <= now /\ downSince <= now /\ downFrom <= now /\ openFrom <= now

\* Why the monitor cannot miss an outage: it has an entry at least as old as
\* the outage, or the outage began this second and a report of it is due.
OutageNoted ==
  downFrom # Never /\ ~killed =>
    \/ downSince # Never /\ downSince <= downFrom
    \/ downFrom = now /\ (queued > 0 \/ phase = "starting")

\* An entry is not older than the threshold, one second more before the poll.
EntryYoung ==
  downSince # Never /\ ~killed =>
    /\ now - downSince <= KillAfter + 1
    /\ polled => now - downSince <= KillAfter

FeedInv == FeedTypeOK /\ PhasesAgree /\ NothingAhead /\ OutageNoted /\ EntryYoung /\ QuietConnectionEnds

\* What FeedTypeOK says of each variable.
LEMMA FeedTypes ==
  ASSUME FeedTypeOK
  PROVE  /\ now \in Nat /\ lastMsg \in Nat /\ wakeAt \in Nat /\ queued \in Nat
         /\ downSince \in Nat /\ downFrom \in Nat /\ openFrom \in Nat
         /\ delay \in Nat /\ delay >= BaseDelay /\ delay <= MaxDelay
BY BaseDelayAssumption, MaxDelayAssumption DEF FeedTypeOK

\* It holds before the first connection.
LEMMA FeedInvInit == FeedInit => FeedInv
<1> SUFFICES ASSUME FeedInit PROVE FeedInv
  OBVIOUS
<1> USE DEF FeedInit
<1>1. FeedTypeOK
  <2>1. {now, lastMsg, wakeAt, queued, downSince, downFrom, openFrom} \subseteq Nat
    BY DEF Never
  <2>2. delay \in BaseDelay..MaxDelay
    BY BaseDelayAssumption, MaxDelayAssumption
  <2>3. {seen, polled, killed} \subseteq BOOLEAN
    OBVIOUS
  <2> QED
    BY <2>1, <2>2, <2>3 DEF FeedTypeOK, Phases
<1>2. PhasesAgree /\ NothingAhead /\ OutageNoted /\ EntryYoung /\ QuietConnectionEnds
  BY DEF PhasesAgree, NothingAhead, OutageNoted, EntryYoung, QuietConnectionEnds, Open, Never
<1> QED
  BY <1>1, <1>2 DEF FeedInv

\* Every step keeps the shapes of the state.
LEMMA FeedTypeStep == FeedTypeOK /\ [FeedNext]_allFeedVars => FeedTypeOK'
<1> SUFFICES ASSUME FeedTypeOK, [FeedNext]_allFeedVars PROVE FeedTypeOK'
  OBVIOUS
<1> USE FeedTypes
<1>1. {now, lastMsg, wakeAt, queued, downSince, downFrom, openFrom}' \subseteq Nat
  BY BaseDelayAssumption DEF FeedNext, allFeedVars, connectionVars, monitorVars, Start, Opened, Message, Closed,
     ConnectionBreaks, WatchdogRaises, Fail, Wakes, MonitorReads, MonitorPolls, Tick, DownAfterRead, Never
<1>2. (delay \in BaseDelay..MaxDelay)'
  BY BaseDelayAssumption, MaxDelayAssumption DEF FeedTypeOK, FeedNext, allFeedVars, connectionVars, monitorVars,
     Start, Opened, Message, Closed, ConnectionBreaks, WatchdogRaises, Fail, Wakes, MonitorReads, MonitorPolls,
     Tick, NextDelay, Least
<1>3. (phase \in Phases /\ status \in {"disconnected", "connecting", "connected"})'
  BY DEF FeedTypeOK, Phases, FeedNext, allFeedVars, connectionVars, monitorVars, Start, Opened, Message, Closed,
     ConnectionBreaks, WatchdogRaises, Fail, Wakes, MonitorReads, MonitorPolls, Tick
<1>4. ({seen, polled, killed} \subseteq BOOLEAN)'
  BY Zenon DEF FeedTypeOK, FeedNext, allFeedVars, connectionVars, monitorVars, Start, Opened, Message, Closed,
     ConnectionBreaks, WatchdogRaises, Fail, Wakes, MonitorReads, MonitorPolls, Tick, DownTooLong
<1> QED
  BY <1>1, <1>2, <1>3, <1>4 DEF FeedTypeOK

\* Every step of the feed, of the monitor and of the clock keeps the rest.
LEMMA FeedInvNext == FeedInv /\ [FeedNext]_allFeedVars => FeedInv'
<1> SUFFICES ASSUME FeedInv, [FeedNext]_allFeedVars PROVE FeedInv'
  OBVIOUS
<1> DEFINE Others == PhasesAgree /\ NothingAhead /\ OutageNoted /\ EntryYoung /\ QuietConnectionEnds
<1>1. FeedTypeOK /\ FeedTypeOK'
  BY FeedTypeStep DEF FeedInv
<1>2. /\ now \in Nat /\ lastMsg \in Nat /\ wakeAt \in Nat /\ queued \in Nat
      /\ downSince \in Nat /\ downFrom \in Nat /\ openFrom \in Nat
      /\ phase \in Phases /\ KillAfter \in Nat /\ StaleAfter \in Nat
  BY <1>1, FeedTypes, KillAfterAssumption, StaleAfterAssumption DEF FeedTypeOK
<1>3. Others
  BY DEF FeedInv
<1> USE <1>2, <1>3 DEF PhasesAgree, NothingAhead, OutageNoted, EntryYoung,
                        QuietConnectionEnds, Open, Never, Phases
<1>4. Others'
  <2>1. CASE Start
    BY <2>1 DEF Start, monitorVars
  <2>2. CASE Opened
    BY <2>2 DEF Opened, monitorVars
  <2>3. CASE Message
    BY <2>3 DEF Message, monitorVars
  <2>4. CASE Closed
    BY <2>4 DEF Closed, monitorVars
  <2>5. CASE ConnectionBreaks
    BY <2>5 DEF ConnectionBreaks, Fail, monitorVars
  <2>6. CASE WatchdogRaises
    BY <2>6 DEF WatchdogRaises, Fail, Stale, monitorVars
  <2>7. CASE Wakes
    BY <2>7 DEF Wakes, monitorVars
  <2>8. CASE MonitorReads
    <3>1. ~killed' => ~(downSince' # Never /\ now - downSince' > KillAfter)
      BY <2>8, Zenon DEF MonitorReads, DownTooLong
    <3>2. \/ status # "connected" /\ downSince' = IF downSince = Never THEN now ELSE downSince
          \/ status = "connected" /\ (downSince' = Never \/ downSince' = downSince)
      BY <2>8 DEF MonitorReads, DownAfterRead
    <3>3. /\ ~killed /\ queued > 0
          /\ UNCHANGED <<now, phase, status, lastMsg, delay, wakeAt, downFrom, openFrom>>
      BY <2>8 DEF MonitorReads, connectionVars
    <3> QED
      BY <3>1, <3>2, <3>3
  <2>9. CASE MonitorPolls
    <3>1. ~killed' => ~(downSince # Never /\ now - downSince > KillAfter)
      BY <2>9, Zenon DEF MonitorPolls, DownTooLong
    <3>2. /\ ~killed
          /\ UNCHANGED <<now, phase, status, lastMsg, delay, wakeAt, downFrom, openFrom,
                         queued, downSince>>
      BY <2>9 DEF MonitorPolls, connectionVars
    <3> QED
      BY <3>1, <3>2
  <2>10. CASE Tick
    BY <2>10 DEF Tick, connectionVars, Stale
  <2>11. CASE UNCHANGED allFeedVars
    BY <2>11 DEF allFeedVars, connectionVars, monitorVars
  <2> QED
    BY <2>1, <2>2, <2>3, <2>4, <2>5, <2>6, <2>7, <2>8, <2>9, <2>10, <2>11 DEF FeedNext
<1> QED
  BY <1>1, <1>4 DEF FeedInv

\* Whatever the feed does and reports, an outage longer than the threshold and
\* one poll has set the kill event.
THEOREM DownFeedAlwaysKills == FeedSpec => []DownFeedKills
<1>1. FeedInv => DownFeedKills
  <2> SUFFICES ASSUME FeedInv, downFrom # Never, ~killed, now - downFrom > KillAfter + 1
               PROVE  FALSE
    BY DEF DownFeedKills
  <2>1. now \in Nat /\ downFrom \in Nat /\ downSince \in Nat /\ KillAfter \in Nat
    BY FeedTypes, KillAfterAssumption DEF FeedInv
  <2>2. downSince # Never /\ downSince <= downFrom
    BY <2>1 DEF FeedInv, OutageNoted
  <2> QED
    BY <2>1, <2>2 DEF FeedInv, EntryYoung
<1> QED
  BY <1>1, FeedInvInit, FeedInvNext, PTL DEF FeedSpec

\* A connection that went quiet is given up within one period of the watchdog.
THEOREM QuietConnectionAlwaysEnds == FeedSpec => []QuietConnectionEnds
<1>1. FeedInv => QuietConnectionEnds
  BY DEF FeedInv
<1> QED
  BY <1>1, FeedInvInit, FeedInvNext, PTL DEF FeedSpec

\* The shapes of the state; with them, that no reconnect delay is longer than
\* RECONNECT_MAX_DELAY_S or shorter than RECONNECT_BASE_DELAY_S.
THEOREM FeedTypeCorrect == FeedSpec => []FeedTypeOK
<1>1. FeedInv => FeedTypeOK
  BY DEF FeedInv
<1> QED
  BY <1>1, FeedInvInit, FeedInvNext, PTL DEF FeedSpec

=============================================================================
