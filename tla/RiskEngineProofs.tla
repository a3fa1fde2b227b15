-------------------------- MODULE RiskEngineProofs --------------------------
(***************************************************************************)
(* What is proved of RiskEngine for every set of markets, every timeout,   *)
(* every window and every sequence of fills, updates and days: the shapes  *)
(* of its state, that the loss-rate check looks at the PnL of now and      *)
(* misses no sample of its window, and that books that fall silent trip    *)
(* the kill switch.                                                        *)
(***************************************************************************)
EXTENDS RiskEngine, OperatorProofs, SequenceTheorems

-----------------------------------------------------------------------------
(* A deque, and the loop that pops its head while it is old.               *)

\* k is how far the loop gets: past k old entries, to one that is not or to the end.
StopsAt(ss, t, k) ==
  /\ k \in 0..Len(ss)
  /\ \A i \in 1..k : ss[i].ts < t
  /\ k < Len(ss) => ~(ss[k + 1].ts < t)

\* The count of the entries that lie before t is where the loop stops: a set of
\* positions that holds every position below one of its own is an interval.
LEMMA LoopStops ==
  ASSUME NEW S, NEW ss \in Seq(S), NEW t
  PROVE  StopsAt(ss, t, Before(ss, t))
<1> DEFINE n == Len(ss)
           old == {i \in 1..n : \A j \in 1..i : ss[j].ts < t}
           c == Cardinality(old)
<1>0. n \in Nat
  OBVIOUS
<1>d. \A i : i \in old <=> i \in 1..n /\ \A j \in 1..i : ss[j].ts < t
  OBVIOUS
<1>c. c = Cardinality(old) /\ Before(ss, t) = c
  BY DEF Before
<1> HIDE DEF old, c
<1>1. n \in Nat /\ IsFiniteSet(1..n) /\ Cardinality(1..n) = n
  <2> HIDE DEF n
  <2> QED BY <1>0, FS_Interval
<1>2. old \in SUBSET (1..n) /\ IsFiniteSet(old) /\ c \in Nat /\ c <= n
  BY <1>1, <1>c, <1>d, FS_Subset, FS_CardinalityType
<1>3. old \subseteq 1..c
  <2> SUFFICES ASSUME NEW i \in old, i > c PROVE FALSE
    BY <1>1, <1>2, <1>d
  <2>1. i \in 1..n /\ \A j \in 1..i : ss[j].ts < t
    BY <1>d
  <2>2. 1..i \subseteq old
    BY <2>1, <1>1, <1>d
  <2>3. Cardinality(1..i) = i
    BY <2>1, <1>1, FS_Interval
  <2>4. Cardinality(1..i) <= c
    BY <1>2, <2>2, <1>c, FS_Subset
  <2> QED
    BY <1>1, <1>2, <2>1, <2>3, <2>4
<1>4. old = 1..c
  <2>1. Cardinality(1..c) = c /\ IsFiniteSet(1..c)
    BY <1>2, FS_Interval
  <2> QED
    BY <1>3, <2>1, <1>c, FS_Subset
<1>5. \A i \in 1..c : ss[i].ts < t
  <2> SUFFICES ASSUME NEW i \in 1..c PROVE ss[i].ts < t
    OBVIOUS
  <2>1. i \in old /\ i \in 1..i
    BY <1>2, <1>4
  <2> QED
    BY <2>1, <1>d
<1>6. c < n => ~(ss[c + 1].ts < t)
  <2> SUFFICES ASSUME c < n, ss[c + 1].ts < t PROVE FALSE
    OBVIOUS
  <2>1. c + 1 \in 1..n /\ \A j \in 1..c + 1 : j \in 1..c \/ j = c + 1
    BY <1>1, <1>2
  <2>2. \A j \in 1..c + 1 : ss[j].ts < t
    BY <1>5, <2>1
  <2>3. c + 1 \in old
    BY <2>1, <2>2, <1>d
  <2> QED
    BY <1>2, <1>4, <2>3
<1>7. c \in 0..n
  BY <1>1, <1>2
<1> QED
  BY <1>5, <1>6, <1>7, <1>c DEF StopsAt

\* It stops in one place only.
LEMMA StopsOnce ==
  ASSUME NEW S, NEW ss \in Seq(S), NEW t, NEW k, StopsAt(ss, t, k)
  PROVE  Before(ss, t) = k
<1> DEFINE b == Before(ss, t)
<1>1. StopsAt(ss, t, b)
  BY LoopStops
<1>2. k \in 0..Len(ss) /\ b \in 0..Len(ss) /\ Len(ss) \in Nat
  BY <1>1 DEF StopsAt
<1>3. ~(b < k)
  <2> SUFFICES ASSUME b < k PROVE FALSE
    OBVIOUS
  <2>1. b + 1 \in 1..k /\ b < Len(ss)
    BY <1>2
  <2> QED
    BY <1>1, <2>1 DEF StopsAt
<1>4. ~(k < b)
  <2> SUFFICES ASSUME k < b PROVE FALSE
    OBVIOUS
  <2>1. k + 1 \in 1..b /\ k < Len(ss)
    BY <1>2
  <2> QED
    BY <1>1, <2>1 DEF StopsAt
<1> QED
  BY <1>2, <1>3, <1>4

\* ss is tt without its first k entries.
Suffix(ss, tt, k) ==
  /\ k \in 0..Len(tt)
  /\ Len(ss) = Len(tt) - k
  /\ \A i \in 1..Len(ss) : ss[i] = tt[k + i]

\* What the loop leaves is what followed where it stopped.
LEMMA FromType ==
  ASSUME NEW S, NEW ss \in Seq(S), NEW t
  PROVE  /\ From(ss, t) \in Seq(S)
         /\ Suffix(From(ss, t), ss, Before(ss, t))
<1> DEFINE b == Before(ss, t)
           n == Len(ss)
<1>1. b \in 0..n /\ n \in Nat
  BY LoopStops DEF StopsAt
<1>2. b + 1 \in Int /\ n \in Int /\ \A i \in b + 1..n : ss[i] \in S
  BY <1>1
<1>3. /\ From(ss, t) \in Seq(S)
      /\ Len(From(ss, t)) = IF b + 1 <= n THEN n - (b + 1) + 1 ELSE 0
      /\ \A i \in 1..n - (b + 1) + 1 : From(ss, t)[i] = ss[b + 1 + i - 1]
  <2> HIDE DEF b, n
  <2>1. From(ss, t) = SubSeq(ss, b + 1, n)
    BY DEF From, b, n
  <2> QED
    BY <1>2, <2>1, SubSeqProperties
<1>4. Len(From(ss, t)) = n - b
  BY <1>1, <1>3
<1>5. \A i \in 1..n - b : From(ss, t)[i] = ss[b + i]
  <2> SUFFICES ASSUME NEW i \in 1..n - b PROVE From(ss, t)[i] = ss[b + i]
    OBVIOUS
  <2> HIDE DEF b, n
  <2>1. i \in 1..n - (b + 1) + 1 /\ b + 1 + i - 1 = b + i
    BY <1>1
  <2> QED
    BY <1>3, <2>1
<1> QED
  BY <1>1, <1>3, <1>4, <1>5 DEF Suffix

\* A suffix of a suffix is one.
LEMMA SuffixSuffix ==
  ASSUME NEW S, NEW T, NEW ss \in Seq(S), NEW tt \in Seq(S), NEW uu \in Seq(S),
         NEW k, NEW l, Suffix(ss, tt, k), Suffix(tt, uu, l)
  PROVE  Suffix(ss, uu, l + k)
<1>1. /\ Len(ss) \in Nat /\ Len(tt) \in Nat /\ Len(uu) \in Nat
      /\ k \in 0..Len(tt) /\ l \in 0..Len(uu)
      /\ Len(ss) = Len(tt) - k /\ Len(tt) = Len(uu) - l
  BY DEF Suffix
<1>2. ASSUME NEW i \in 1..Len(ss) PROVE ss[i] = uu[l + k + i]
  <2>1. k + i \in 1..Len(tt) /\ l + (k + i) = l + k + i
    BY <1>1
  <2>2. ss[i] = tt[k + i] /\ tt[k + i] = uu[l + (k + i)]
    BY <2>1 DEF Suffix
  <2> QED
    BY <2>1, <2>2
<1>3. l + k \in 0..Len(uu) /\ Len(ss) = Len(uu) - (l + k)
  BY <1>1
<1> QED
  BY <1>2, <1>3 DEF Suffix

\* Two deques that grow by the same entry stay suffixes.
LEMMA SuffixAppend ==
  ASSUME NEW S, NEW ss \in Seq(S), NEW tt \in Seq(S), NEW k, NEW e \in S,
         Suffix(ss, tt, k)
  PROVE  Suffix(Append(ss, e), Append(tt, e), k)
<1> DEFINE sa == Append(ss, e)
           ta == Append(tt, e)
<1>1. /\ Len(ss) \in Nat /\ Len(tt) \in Nat /\ k \in 0..Len(tt)
      /\ Len(ss) = Len(tt) - k
  BY DEF Suffix
<1>2. /\ Len(sa) = Len(ss) + 1 /\ Len(ta) = Len(tt) + 1
      /\ \A i \in 1..Len(ss) : sa[i] = ss[i]
      /\ \A i \in 1..Len(tt) : ta[i] = tt[i]
      /\ sa[Len(ss) + 1] = e /\ ta[Len(tt) + 1] = e
  OBVIOUS
<1>3. ASSUME NEW i \in 1..Len(sa) PROVE sa[i] = ta[k + i]
  <2> HIDE DEF sa, ta
  <2>1. CASE i \in 1..Len(ss)
    <3>1. k + i \in 1..Len(tt)
      BY <1>1, <2>1
    <3>2. ss[i] = tt[k + i]
      BY <2>1 DEF Suffix
    <3> QED
      BY <1>2, <2>1, <3>1, <3>2
  <2>2. CASE i = Len(ss) + 1
    <3>1. k + i = Len(tt) + 1
      BY <1>1, <2>2
    <3> QED
      BY <1>2, <2>2, <3>1
  <2> QED
    BY <1>1, <1>2, <2>1, <2>2
<1>4. k \in 0..Len(ta) /\ Len(sa) = Len(ta) - k
  <2> HIDE DEF sa, ta
  <2> QED BY <1>1, <1>2
<1> QED
  BY <1>3, <1>4 DEF Suffix

\* Entries missing at the head that lie before t anyway do not change where the
\* rest of the loop stops.
LEMMA SuffixStops ==
  ASSUME NEW S, NEW ss \in Seq(S), NEW tt \in Seq(S), NEW k, NEW t,
         Suffix(ss, tt, k), \A i \in 1..k : tt[i].ts < t
  PROVE  Before(tt, t) = k + Before(ss, t)
<1> DEFINE b == Before(ss, t)
<1>1. StopsAt(ss, t, b)
  BY LoopStops
<1> HIDE DEF b
<1>2. /\ Len(ss) \in Nat /\ Len(tt) \in Nat /\ k \in 0..Len(tt)
      /\ Len(ss) = Len(tt) - k /\ b \in 0..Len(ss)
  BY <1>1 DEF Suffix, StopsAt
<1>3. ASSUME NEW i \in 1..k + b PROVE tt[i].ts < t
  <2>1. CASE i \in 1..k
    BY <2>1
  <2>2. CASE i \notin 1..k
    <3>1. i - k \in 1..b /\ i - k \in 1..Len(ss) /\ k + (i - k) = i
      BY <1>2, <2>2
    <3>2. ss[i - k].ts < t /\ ss[i - k] = tt[k + (i - k)]
      BY <1>1, <3>1 DEF StopsAt, Suffix
    <3> QED
      BY <3>1, <3>2
  <2> QED
    BY <2>1, <2>2
<1>4. k + b < Len(tt) => ~(tt[k + b + 1].ts < t)
  <2> SUFFICES ASSUME k + b < Len(tt) PROVE ~(tt[k + b + 1].ts < t)
    OBVIOUS
  <2>1. b < Len(ss) /\ b + 1 \in 1..Len(ss) /\ k + (b + 1) = k + b + 1
    BY <1>2
  <2>2. ~(ss[b + 1].ts < t) /\ ss[b + 1] = tt[k + (b + 1)]
    BY <1>1, <2>1 DEF StopsAt, Suffix
  <2> QED
    BY <2>1, <2>2
<1>5. StopsAt(tt, t, k + b)
  BY <1>2, <1>3, <1>4 DEF StopsAt
<1> QED
  BY <1>5, StopsOnce DEF b

-----------------------------------------------------------------------------
(* The shapes of the state.                                                *)

Mirror == [net : Int, avg : Fraction]
Wait == [ts : Nat, market : Markets, side : Sides, size : Nat, mid : Int]

\* A fill leaves a position and an entry price: the price is divided by a
\* quantity that is not zero.
LEMMA MirrorFillType ==
  ASSUME NEW po \in Mirror, NEW s \in Sides, NEW p \in Nat, NEW q \in Nat \ {0}
  PROVE  MirrorFill(po, s, p, q) \in Mirror
<1> DEFINE n == po.net + Sign(s) * q
           blend == Over(Plus(Scale(Size(po.net), po.avg), Whole(p * q)), Size(n))
<1>1. po.net \in Int /\ po.avg \in Fraction
  BY DEF Mirror
<1>2. (s = "BUY" /\ Sign(s) = 1 /\ Sign(s) * q = q) \/ (s # "BUY" /\ Sign(s) = -1 /\ Sign(s) * q = -q)
  BY DEF Sign
<1>3. n \in Int /\ Whole(p) \in Fraction
  BY <1>1, <1>2, WholeType
<1>4. SameDirection(po, s) => blend \in Fraction
  <2> SUFFICES ASSUME SameDirection(po, s) PROVE blend \in Fraction
    OBVIOUS
  <2>1. Size(po.net) \in Int
    BY <1>1 DEF Size
  <2>2. Size(n) \in Nat \ {0}
    BY <1>1, <1>2 DEF Size, SameDirection
  <2>3. p * q \in Int
    OBVIOUS
  <2>4. Plus(Scale(Size(po.net), po.avg), Whole(p * q)) \in Fraction
    <3>1. Scale(Size(po.net), po.avg) \in Fraction /\ Whole(p * q) \in Fraction
      BY <1>1, <2>1, <2>3, ScaleType, WholeType
    <3> QED
      BY <3>1, PlusType
  <2> HIDE DEF n
  <2> QED
    BY <2>2, <2>4, OverType
<1> HIDE DEF n, blend
<1>5. MirrorFill(po, s, p, q) =
        [net |-> n, avg |-> IF SameDirection(po, s) THEN blend
                            ELSE IF q > Size(po.net) THEN Whole(p) ELSE po.avg]
  BY DEF MirrorFill, n, blend
<1> QED
  BY <1>1, <1>3, <1>4, <1>5 DEF Mirror

\* What the measurements that are due add up to is a whole number.
LEMMA SumDueType ==
  ASSUME pending \in Seq(Wait), now \in Nat, NEW m
  PROVE  SumDue(m) \in Int
<1> DEFINE due == Due
           f == [i \in DOMAIN due |-> IF due[i].market = m
                                      THEN (due[i].mid - 0) * due[i].size * Sign(due[i].side) ELSE 0]
           b == Before(pending, now + 1)
<1>1. b \in 0..Len(pending) /\ Len(pending) \in Nat
  BY LoopStops DEF StopsAt
<1>2. due \in Seq(Wait)
  <2> HIDE DEF b
  <2>1. due = SubSeq(pending, 1, b)
    BY DEF Due, b
  <2>2. 1 \in Int /\ b \in Int /\ \A i \in 1..b : pending[i] \in Wait
    BY <1>1
  <2> HIDE DEF due
  <2> QED
    BY <2>1, <2>2, SubSeqProperties
<1> HIDE DEF due
<1>3. DOMAIN due = 1..Len(due) /\ Len(due) \in Nat
  BY <1>2
<1>4. ASSUME NEW i \in DOMAIN due PROVE f[i] \in Int
  <2>1. due[i] \in Wait
    BY <1>2, <1>3
  <2>2. due[i].mid \in Int /\ due[i].size \in Int /\ Sign(due[i].side) \in Int
    BY <2>1 DEF Wait, Sign
  <2>3. (due[i].mid - 0) * due[i].size * Sign(due[i].side) \in Int
    BY <2>2
  <2> QED
    BY <2>3
<1>5. IsFiniteSet(DOMAIN due) /\ DOMAIN f = DOMAIN due
  BY <1>3, FS_Interval
<1> HIDE DEF f
<1>6. SumFunctionOnSet(f, DOMAIN f) \in Int
  BY <1>4, <1>5, SumType
<1>7. SumDue(m) = SumFunction(f)
  BY DEF SumDue, f, due
<1> QED
  BY <1>6, <1>7 DEF SumFunction

-----------------------------------------------------------------------------
(* The samples: the newest is the PnL of now, and the ones dropped lie     *)
(* before anything the window still needs.                                 *)

\* The newest sample is the intraday PnL, not just a fraction equal to it.
Newest(pnl, ss) == pnl = IF ss = <<>> THEN Whole(0) ELSE Last(ss).pnl

\* ss lacks some samples of tt, all of them older than t.
LacksOld(ss, tt, t) ==
  \E k \in Nat : Suffix(ss, tt, k) /\ \A i \in 1..k : tt[i].ts < t

\* _record_pnl_sample: appending and popping drops old samples only, and never
\* the one appended.
LEMMA RecordSample ==
  ASSUME NEW S, NEW ss \in Seq(S), NEW tt \in Seq(S), NEW e \in S, NEW t \in Int,
         ~(e.ts < t), LacksOld(ss, tt, t)
  PROVE  /\ From(Append(ss, e), t) \in Seq(S)
         /\ From(Append(ss, e), t) # <<>>
         /\ Last(From(Append(ss, e), t)) = e
         /\ LacksOld(From(Append(ss, e), t), Append(tt, e), t)
<1> DEFINE sa == Append(ss, e)
           ta == Append(tt, e)
           ns == From(sa, t)
           b  == Before(sa, t)
<1>0. PICK k \in Nat : Suffix(ss, tt, k) /\ \A i \in 1..k : tt[i].ts < t
  BY DEF LacksOld
<1>1. sa \in Seq(S) /\ ta \in Seq(S) /\ Suffix(sa, ta, k)
  <2>1. sa \in Seq(S) /\ ta \in Seq(S)
    OBVIOUS
  <2> QED
    BY <1>0, <2>1, SuffixAppend
<1>2. /\ Len(sa) = Len(ss) + 1 /\ Len(ss) \in Nat /\ sa[Len(sa)] = e
      /\ \A i \in 1..Len(tt) : ta[i] = tt[i]
  OBVIOUS
<1> HIDE DEF sa, ta
<1>3. ns \in Seq(S) /\ Suffix(ns, sa, b)
  BY <1>1, FromType
<1>4. StopsAt(sa, t, b)
  BY <1>1, LoopStops
<1> HIDE DEF ns, b
<1>5. b \in 0..Len(sa) /\ \A i \in 1..b : sa[i].ts < t
  BY <1>4 DEF StopsAt
<1>6. b < Len(sa)
  <2> SUFFICES ASSUME b = Len(sa) PROVE FALSE
    BY <1>2, <1>5
  <2>1. Len(sa) \in 1..b
    BY <1>2
  <2> QED
    BY <1>2, <1>5, <2>1
<1>7. Len(ns) = Len(sa) - b /\ Len(ns) \in 1..Len(ns) /\ ns[Len(ns)] = sa[b + Len(ns)]
  <2>1. Len(ns) = Len(sa) - b /\ \A i \in 1..Len(ns) : ns[i] = sa[b + i]
    BY <1>3 DEF Suffix
  <2>2. Len(ns) \in 1..Len(ns)
    BY <1>2, <1>5, <1>6, <2>1
  <2> QED
    BY <2>1, <2>2
<1>8. ns # <<>> /\ Last(ns) = e
  <2>1. b + Len(ns) = Len(sa)
    BY <1>2, <1>5, <1>7
  <2>2. Len(ns) # 0
    BY <1>7
  <2> QED
    BY <1>2, <1>7, <2>1, <2>2 DEF Last
<1>9. LacksOld(ns, ta, t)
  <2>1. Suffix(ns, ta, k + b)
    BY <1>1, <1>3, SuffixSuffix
  <2>2. Len(sa) = Len(ta) - k /\ Len(ta) \in Nat /\ k \in 0..Len(tt) /\ Len(tt) \in Nat
    BY <1>0, <1>1 DEF Suffix
  <2>3. ASSUME NEW i \in 1..k + b PROVE ta[i].ts < t
    <3>1. CASE i \in 1..k
      <4>1. i \in 1..Len(tt)
        BY <2>2, <3>1
      <4> QED
        BY <1>0, <1>2, <3>1, <4>1
    <3>2. CASE i \notin 1..k
      <4>1. i - k \in 1..b /\ i - k \in 1..Len(sa) /\ k + (i - k) = i
        BY <1>5, <1>2, <3>2
      <4>2. sa[i - k] = ta[k + (i - k)]
        BY <1>1, <4>1 DEF Suffix
      <4> QED
        BY <1>5, <4>1, <4>2
    <3> QED
      BY <3>1, <3>2
  <2>4. k + b \in Nat
    BY <1>5, <1>2
  <2> QED
    BY <2>1, <2>3, <2>4 DEF LacksOld
<1> QED
  BY <1>3, <1>8, <1>9 DEF ns, sa, ta

\* The check decides alike on both: where the window begins in one it begins in
\* the other, and the newest sample is the same.
LEMMA LossAlike ==
  ASSUME NEW ss \in Seq(Sample), NEW tt \in Seq(Sample), now \in Nat,
         LacksOld(ss, tt, now - Window - Slack)
  PROVE  LossTooFast(ss) <=> LossTooFast(tt)
<1> DEFINE w  == now - Window
           ws == From(ss, w)
           wt == From(tt, w)
           b  == Before(ss, w)
<1>0. PICK k \in Nat : /\ Suffix(ss, tt, k)
                       /\ \A i \in 1..k : tt[i].ts < now - Window - Slack
  BY DEF LacksOld
<1>1. /\ Len(ss) \in Nat /\ Len(tt) \in Nat /\ k \in 0..Len(tt)
      /\ Len(ss) = Len(tt) - k
  BY <1>0 DEF Suffix
<1>2. ASSUME NEW i \in 1..k PROVE tt[i].ts < w
  <2>1. i \in 1..Len(tt)
    BY <1>1
  <2>2. tt[i] \in Sample
    BY <2>1
  <2>3. tt[i].ts \in Nat /\ tt[i].ts < now - Window - Slack
    BY <1>0, <2>2 DEF Sample
  <2> QED
    BY <2>3, WindowsAssumption
<1> HIDE DEF w
<1>3. Before(tt, w) = k + b
  BY <1>0, <1>2, SuffixStops
<1>4. /\ ws \in Seq(Sample) /\ Suffix(ws, ss, b)
      /\ wt \in Seq(Sample) /\ Suffix(wt, tt, k + b)
  BY <1>3, FromType
<1>5. Suffix(ws, tt, k + b)
  BY <1>0, <1>4, SuffixSuffix
<1> HIDE DEF ws, wt, b
<1>6. Len(ws) = Len(wt) /\ \A i \in 1..Len(ws) : ws[i] = wt[i]
  BY <1>4, <1>5 DEF Suffix
<1>7. ws # <<>> <=> wt # <<>>
  BY <1>4, <1>6
<1>8. ASSUME ws # <<>> PROVE Head(ws) = Head(wt) /\ Last(ss) = Last(tt)
  <2>1. Len(ws) \in 1..Len(ws) /\ 1 \in 1..Len(ws)
    BY <1>4, <1>8
  <2>2. Head(ws) = ws[1] /\ Head(wt) = wt[1]
    BY <1>4, <1>7, <1>8
  <2>3. Len(ss) \in 1..Len(ss)
    <3>1. b \in 0..Len(ss) /\ Len(ws) = Len(ss) - b
      BY <1>4 DEF Suffix
    <3> QED
      BY <1>1, <2>1, <3>1
  <2>4. ss[Len(ss)] = tt[k + Len(ss)] /\ k + Len(ss) = Len(tt)
    BY <1>0, <1>1, <2>3 DEF Suffix
  <2> QED
    BY <1>6, <2>1, <2>2, <2>4 DEF Last
<1>9. InWindow(ss) = ws /\ InWindow(tt) = wt
  BY DEF InWindow, ws, wt, w
<1> QED
  BY <1>7, <1>8, <1>9 DEF LossTooFast

-----------------------------------------------------------------------------
(* The inductive invariant of the samples.                                 *)

SampleInv ==
  /\ TypeOK
  /\ Newest(intraday, samples)
  /\ LacksOld(samples, trail, now - Window - Slack)

\* No sample yet, and no PnL.
LEMMA InitSampleInv == Init => SampleInv
<1> SUFFICES ASSUME Init PROVE SampleInv
  OBVIOUS
<1>1. Whole(0) \in Fraction
  BY WholeType
<1>2. TypeOK
  <2>1. now \in Nat /\ lastBook \in Nat /\ count \in 0..MaxFills
    BY BoundsAssumption DEF Init, Never
  <2>2. {checked, midnight, killed} \subseteq BOOLEAN
    BY Zenon DEF Init
  <2>3. /\ mirror \in [Markets -> [net : Int, avg : Fraction]]
        /\ {marked, realized} \subseteq [Markets -> Fraction]
        /\ {spread, adverse} \subseteq [Markets -> Int]
        /\ intraday \in Fraction
    BY <1>1 DEF Init
  <2>4. /\ samples \in Seq(Sample) /\ trail \in Seq(Sample)
        /\ pending \in Seq([ts : Nat, market : Markets, side : Sides, size : Nat, mid : Int])
    BY DEF Init
  <2> QED
    BY <2>1, <2>2, <2>3, <2>4 DEF TypeOK
<1>3. Newest(intraday, samples)
  BY DEF Init, Newest
<1>4. LacksOld(samples, trail, now - Window - Slack)
  <2>1. samples = <<>> /\ trail = <<>>
    BY DEF Init
  <2>2. Suffix(samples, trail, 0)
    BY <2>1 DEF Suffix
  <2>3. \A i \in 1..0 : trail[i].ts < now - Window - Slack
    OBVIOUS
  <2> QED
    BY <2>2, <2>3 DEF LacksOld
<1> QED
  BY <1>2, <1>3, <1>4 DEF SampleInv

\* A fill appends the PnL it leaves, and the loop drops what is too old.
LEMMA FillSampleInv ==
  ASSUME SampleInv, NEW m \in Markets, NEW s \in Sides, NEW p \in Prices, NEW mid \in Prices,
         NEW q \in Quantities, NEW gain \in Gains, OnFill(m, s, p, q, mid, gain)
  PROVE  SampleInv'
<1> DEFINE e == [ts |-> now, pnl |-> Plus(intraday, gain)]
           t == now - Window - Slack
<1>0. TypeOK /\ Newest(intraday, samples) /\ LacksOld(samples, trail, t)
  BY DEF SampleInv
<1>1. p \in Nat /\ mid \in Nat /\ q \in Nat \ {0} /\ gain \in Fraction
  BY PricesTicks, QuantitiesLots, GainsFractions
<1>2. Plus(intraday, gain) \in Fraction /\ now \in Nat
  BY <1>0, <1>1, PlusType DEF TypeOK
<1>3. e \in Sample /\ e.ts = now /\ e.pnl = Plus(intraday, gain)
  BY <1>2 DEF Sample
<1>4. /\ now' = now /\ intraday' = Plus(intraday, gain)
      /\ samples' = From(Append(samples, e), t) /\ trail' = Append(trail, e)
  BY DEF OnFill, Recent
<1>5. samples \in Seq(Sample) /\ trail \in Seq(Sample)
  BY <1>0 DEF TypeOK
<1>6. t \in Int /\ ~(e.ts < t)
  BY <1>2, <1>3, WindowsAssumption
<1> HIDE DEF e, t
<1>7. /\ samples' \in Seq(Sample) /\ samples' # <<>> /\ Last(samples') = e
      /\ LacksOld(samples', trail', t)
  BY <1>0, <1>3, <1>4, <1>5, <1>6, RecordSample
<1>8. Newest(intraday', samples')
  BY <1>3, <1>4, <1>7 DEF Newest
<1>9. LacksOld(samples', trail', t')
  BY <1>4, <1>7 DEF t
<1>10. TypeOK'
  <2>1. now' \in Nat /\ lastBook' \in Nat /\ count' \in 0..MaxFills
    BY <1>0, BoundsAssumption DEF TypeOK, OnFill
  <2>2. {checked', midnight', killed'} \subseteq BOOLEAN
    <3>1. checked' \in BOOLEAN /\ midnight' \in BOOLEAN
      BY <1>0 DEF TypeOK, OnFill
    <3>2. killed' \in BOOLEAN
      BY Zenon DEF OnFill
    <3> QED
      BY <3>1, <3>2
  <2>3. mirror' \in [Markets -> [net : Int, avg : Fraction]]
    <3>1. mirror \in [Markets -> Mirror]
      BY <1>0 DEF TypeOK, Mirror
    <3>2. MirrorFill(mirror[m], s, p, q) \in Mirror
      BY <1>1, <3>1, MirrorFillType
    <3>3. mirror' = [mirror EXCEPT ![m] = MirrorFill(mirror[m], s, p, q)]
      BY DEF OnFill
    <3> QED
      BY <3>1, <3>2, <3>3 DEF Mirror
  <2>4. {marked', realized'} \subseteq [Markets -> Fraction]
    <3>1. marked \in [Markets -> Fraction] /\ realized \in [Markets -> Fraction]
      BY <1>0 DEF TypeOK
    <3>2. Plus(realized[m], gain) \in Fraction
      BY <1>1, <3>1, PlusType
    <3>3. marked' = marked /\ realized' = [realized EXCEPT ![m] = Plus(realized[m], gain)]
      BY DEF OnFill
    <3> QED
      BY <3>1, <3>2, <3>3
  <2>5. {spread', adverse'} \subseteq [Markets -> Int]
    <3>1. spread \in [Markets -> Int] /\ adverse \in [Markets -> Int]
      BY <1>0 DEF TypeOK
    <3>2. Sign(s) \in Int
      BY DEF Sign
    <3>3. (mid - p) * q \in Int
      BY <1>1
    <3>4. spread[m] + (mid - p) * q * Sign(s) \in Int
      <4>1. (mid - p) * q * Sign(s) \in Int
        BY <3>2, <3>3
      <4> QED
        BY <3>1, <4>1
    <3>5. adverse' = adverse /\ spread' = [spread EXCEPT ![m] = spread[m] + (mid - p) * q * Sign(s)]
      BY DEF OnFill
    <3> QED
      BY <3>1, <3>4, <3>5
  <2>6. intraday' \in Fraction /\ samples' \in Seq(Sample) /\ trail' \in Seq(Sample)
    BY <1>2, <1>3, <1>4, <1>5, <1>7
  <2>7. pending' \in Seq([ts : Nat, market : Markets, side : Sides, size : Nat, mid : Int])
    <3>1. [ts |-> now + AsWindow, market |-> m, side |-> s, size |-> q, mid |-> mid] \in Wait
      BY <1>1, <1>2, WindowsAssumption DEF Wait
    <3>2. pending \in Seq(Wait)
      BY <1>0 DEF TypeOK, Wait
    <3>3. pending' = Append(pending, [ts |-> now + AsWindow, market |-> m, side |-> s,
                                      size |-> q, mid |-> mid])
      BY DEF OnFill
    <3>4. pending' \in Seq(Wait)
      BY <3>1, <3>2, <3>3
    <3> QED
      BY <3>4 DEF Wait
  <2> QED
    BY <2>1, <2>2, <2>3, <2>4, <2>5, <2>6, <2>7 DEF TypeOK
<1> QED
  BY <1>8, <1>9, <1>10 DEF SampleInv, t

\* A mid marks one market.
LEMMA MarketSampleInv ==
  ASSUME SampleInv, NEW m \in Markets, NEW mid \in Prices, OnMarketUpdate(m, mid)
  PROVE  SampleInv'
<1>0. TypeOK
  BY DEF SampleInv
<1>1. Marked(m, mid) \in Fraction /\ Whole(0) \in Fraction
  <2>1. mirror[m].net \in Int /\ mirror[m].avg \in Fraction /\ mid \in Int
    BY <1>0, PricesTicks DEF TypeOK
  <2>2. Minus(Whole(mid), mirror[m].avg) \in Fraction
    BY <2>1, WholeType, MinusType
  <2> QED
    BY <2>1, <2>2, ScaleType, WholeType DEF Marked
<1>2. /\ marked' = [marked EXCEPT ![m] = IF mirror[m].net # 0 THEN Marked(m, mid) ELSE Whole(0)]
      /\ UNCHANGED <<now, checked, midnight, mirror, realized, spread, adverse, intraday, samples,
                     pending, trail, count, lastBook, killed>>
  BY DEF OnMarketUpdate, asVars
<1>3. marked' \in [Markets -> Fraction]
  BY <1>0, <1>1, <1>2 DEF TypeOK
<1>4. TypeOK'
  BY <1>0, <1>2, <1>3 DEF TypeOK
<1> QED
  BY <1>2, <1>4 DEF SampleInv

\* A round of checks clears PnL and samples together when a day began.
LEMMA CheckSampleInv == ASSUME SampleInv, Check PROVE SampleInv'
<1> DEFINE t == now - Window - Slack
<1>0. TypeOK /\ Newest(intraday, samples) /\ LacksOld(samples, trail, t)
  BY DEF SampleInv
<1>1. /\ now' = now
      /\ intraday' = IF midnight THEN Whole(0) ELSE intraday
      /\ samples' = IF midnight THEN <<>> ELSE samples
      /\ trail' = IF midnight THEN <<>> ELSE trail
  BY DEF Check, SamplesAfterReset
<1>2. Newest(intraday', samples')
  BY <1>0, <1>1 DEF Newest
<1>3. LacksOld(samples', trail', t)
  <2>1. CASE midnight
    <3>1. samples' = <<>> /\ trail' = <<>>
      BY <1>1, <2>1
    <3>2. Suffix(samples', trail', 0)
      BY <3>1 DEF Suffix
    <3>3. \A i \in 1..0 : trail'[i].ts < t
      OBVIOUS
    <3> HIDE DEF t
    <3> QED
      BY <3>2, <3>3 DEF LacksOld
  <2>2. CASE ~midnight
    BY <1>0, <1>1, <2>2
  <2> QED
    BY <2>1, <2>2
<1>4. TypeOK'
  <2>1. now' \in Nat /\ lastBook' \in Nat /\ count' \in 0..MaxFills
    BY <1>0 DEF TypeOK, Check
  <2>2. {checked', midnight', killed'} \subseteq BOOLEAN
    <3>1. checked' \in BOOLEAN /\ midnight' \in BOOLEAN
      BY DEF Check
    <3>2. killed' \in BOOLEAN
      BY Zenon DEF Check
    <3> QED
      BY <3>1, <3>2
  <2>3. /\ mirror' \in [Markets -> [net : Int, avg : Fraction]]
        /\ {marked', realized'} \subseteq [Markets -> Fraction]
    BY <1>0 DEF TypeOK, Check
  <2>4. pending \in Seq(Wait) /\ now \in Nat
    BY <1>0 DEF TypeOK, Wait
  <2>5. {spread', adverse'} \subseteq [Markets -> Int]
    <3>1. \A m \in Markets : SumDue(m) \in Int
      BY <2>4, SumDueType
    <3>2. spread' = spread /\ adverse' = [m \in Markets |-> adverse[m] + SumDue(m)]
      BY DEF Check
    <3>3. adverse \in [Markets -> Int] /\ spread \in [Markets -> Int]
      BY <1>0 DEF TypeOK
    <3> QED
      BY <3>1, <3>2, <3>3
  <2>6. intraday' \in Fraction
    BY <1>0, <1>1, WholeType DEF TypeOK
  <2>7. samples' \in Seq(Sample) /\ trail' \in Seq(Sample)
    BY <1>0, <1>1 DEF TypeOK
  <2>8. pending' \in Seq([ts : Nat, market : Markets, side : Sides, size : Nat, mid : Int])
    <3>1. pending' = From(pending, now + 1)
      BY DEF Check
    <3>2. pending' \in Seq(Wait)
      BY <2>4, <3>1, FromType
    <3> QED
      BY <3>2 DEF Wait
  <2> QED
    BY <2>1, <2>2, <2>3, <2>5, <2>6, <2>7, <2>8 DEF TypeOK
<1> QED
  BY <1>1, <1>2, <1>3, <1>4 DEF SampleInv

\* What is too old for the samples stays so as the clock moves.
LEMMA TickSampleInv == ASSUME SampleInv, Tick PROVE SampleInv'
<1>0. TypeOK /\ Newest(intraday, samples) /\ LacksOld(samples, trail, now - Window - Slack)
  BY DEF SampleInv
<1>1. /\ now' = now + 1 /\ checked' = FALSE /\ midnight' \in BOOLEAN
      /\ UNCHANGED <<mirror, marked, realized, spread, adverse, intraday, samples, pending, trail,
                     count, lastBook, killed>>
  BY DEF Tick, pnlVars, asVars
<1>2. TypeOK'
  <2>1. {checked', midnight', killed'} \subseteq BOOLEAN
    BY <1>0, <1>1, Zenon DEF TypeOK
  <2>2. now' \in Nat
    BY <1>0, <1>1 DEF TypeOK
  <2> QED
    BY <1>0, <1>1, <2>1, <2>2 DEF TypeOK
<1>3. Newest(intraday', samples')
  BY <1>0, <1>1
<1>4. LacksOld(samples', trail', now' - Window - Slack)
  <2>1. PICK k \in Nat : /\ Suffix(samples, trail, k)
                         /\ \A i \in 1..k : trail[i].ts < now - Window - Slack
    BY <1>0 DEF LacksOld
  <2>2. ASSUME NEW i \in 1..k PROVE trail[i].ts < now' - Window - Slack
    <3>1. i \in 1..Len(trail) /\ trail \in Seq(Sample) /\ now \in Nat
      BY <1>0, <2>1 DEF Suffix, TypeOK
    <3>2. trail[i] \in Sample
      BY <3>1
    <3>3. trail[i].ts \in Nat /\ trail[i].ts < now - Window - Slack
      BY <2>1, <3>2 DEF Sample
    <3> QED
      BY <1>1, <3>1, <3>3, WindowsAssumption
  <2> QED
    BY <1>1, <2>1, <2>2 DEF LacksOld
<1> QED
  BY <1>2, <1>3, <1>4 DEF SampleInv

\* The handlers that touch neither the samples nor the buckets.
LEMMA OtherSampleInv ==
  ASSUME SampleInv, OnBookUpdate \/ FeedDesync \/ UNCHANGED vars
  PROVE  SampleInv'
<1>0. TypeOK
  BY DEF SampleInv
<1>1. /\ UNCHANGED <<now, checked, midnight, mirror, marked, realized, spread, adverse, intraday,
                     samples, pending, trail, count>>
      /\ lastBook' \in {now, lastBook}
      /\ killed' \in BOOLEAN
  BY <1>0 DEF TypeOK, OnBookUpdate, FeedDesync, vars, pnlVars, asVars
<1>2. TypeOK'
  BY <1>0, <1>1 DEF TypeOK
<1> QED
  BY <1>1, <1>2 DEF SampleInv

\* Every step keeps the invariant.
LEMMA NextSampleInv == SampleInv /\ [Next]_vars => SampleInv'
<1> SUFFICES ASSUME SampleInv, [Next]_vars PROVE SampleInv'
  OBVIOUS
<1>1. CASE \E m \in Markets, s \in Sides, p, mid \in Prices, q \in Quantities, gain \in Gains :
             OnFill(m, s, p, q, mid, gain)
  BY <1>1, FillSampleInv
<1>2. CASE \E m \in Markets, mid \in Prices : OnMarketUpdate(m, mid)
  BY <1>2, MarketSampleInv
<1>3. CASE Check
  BY <1>3, CheckSampleInv
<1>4. CASE Tick
  BY <1>4, TickSampleInv
<1>5. CASE OnBookUpdate \/ FeedDesync \/ UNCHANGED vars
  BY <1>5, OtherSampleInv
<1> QED
  BY <1>1, <1>2, <1>3, <1>4, <1>5 DEF Next

\* Every handler of RiskEngine leaves its state in shape: no fill divides the
\* mirror's entry price by zero (on_fill).
THEOREM TypeCorrect == Spec => []TypeOK
<1>1. SampleInv => TypeOK
  BY DEF SampleInv
<1> QED
  BY <1>1, InitSampleInv, NextSampleInv, PTL DEF Spec

\* The newest sample is the intraday PnL of now, around midnight too, and the
\* one a fill appends is never dropped with the old ones (_record_pnl_sample,
\* _check_daily_reset).
THEOREM SamplesAlwaysFollow == Spec => []SamplesFollow
<1>1. SampleInv => SamplesFollow
  <2> SUFFICES ASSUME SampleInv PROVE SamplesFollow
    OBVIOUS
  <2>1. intraday = IF samples = <<>> THEN Whole(0) ELSE Last(samples).pnl
    BY DEF SampleInv, Newest
  <2> QED
    BY <2>1 DEF SamplesFollow, Equals
<1> QED
  BY <1>1, InitSampleInv, NextSampleInv, PTL DEF Spec

\* For any window and slack, _check_loss_rate decides on the bounded deque as it
\* would on every sample of the day: _record_pnl_sample drops none it needs.
THEOREM WindowAlwaysKept == Spec => []WindowKept
<1>1. SampleInv => WindowKept
  BY LossAlike DEF SampleInv, TypeOK, WindowKept
<1> QED
  BY <1>1, InitSampleInv, NextSampleInv, PTL DEF Spec

-----------------------------------------------------------------------------
(* Books that fall silent.                                                 *)

\* As much of the shapes of the state as the clock needs.
Clocks ==
  /\ now \in Nat /\ lastBook \in Nat
  /\ lastBook <= now
  /\ killed \in BOOLEAN

\* A round of checks that ran this second has seen the silence: StaleBookKills
\* alone does not tell whether the round of the second before came.
SilenceSeen == checked /\ BookStale => killed

IInv == Clocks /\ SilenceSeen /\ StaleBookKills

\* No book was ever seen.
LEMMA InitIInv == Init => IInv
<1> SUFFICES ASSUME Init PROVE IInv
  OBVIOUS
<1>1. now = 1 /\ lastBook = 0 /\ killed = FALSE /\ checked = FALSE
  BY DEF Init, Never
<1>2. Clocks
  <2>1. killed \in BOOLEAN
    BY <1>1, Zenon
  <2> QED
    BY <1>1, <2>1 DEF Clocks
<1>3. SilenceSeen /\ StaleBookKills
  BY <1>1 DEF SilenceSeen, StaleBookKills, Never
<1> QED
  BY <1>2, <1>3 DEF IInv

\* Handlers leave the clock and the round of checks alone, and a kill stands.
LEMMA HandlerIInv ==
  ASSUME IInv, now' = now, checked' = checked,
         lastBook' = lastBook \/ lastBook' = now,
         killed' \in BOOLEAN, killed => killed'
  PROVE  IInv'
<1>1. Clocks'
  BY DEF IInv, Clocks
<1>2. CASE lastBook' = lastBook
  BY <1>1, <1>2 DEF IInv, Clocks, SilenceSeen, BookStale, StaleBookKills
<1>3. CASE lastBook' = now
  <2>1. now' - lastBook' = 0
    BY <1>3 DEF IInv, Clocks
  <2>2. ~BookStale' /\ ~(now' - lastBook' > BookStaleAfter + 1)
    BY <2>1, WindowsAssumption DEF BookStale
  <2> QED
    BY <1>1, <2>2 DEF IInv, SilenceSeen, StaleBookKills
<1> QED
  BY <1>2, <1>3

\* A round of checks sees the silence, whatever else it finds.
LEMMA CheckIInv == ASSUME IInv, Check PROVE IInv'
<1>1. /\ now' = now /\ lastBook' = lastBook
      /\ killed' = (killed \/ LossTooFast(samples') \/ BookStale)
  BY DEF Check
<1>2. Clocks'
  BY <1>1 DEF IInv, Clocks
<1>3. BookStale' <=> BookStale
  BY <1>1 DEF BookStale
<1>4. SilenceSeen'
  BY <1>1, <1>3 DEF SilenceSeen
<1>5. StaleBookKills'
  BY <1>1 DEF IInv, StaleBookKills
<1> QED
  BY <1>2, <1>4, <1>5 DEF IInv

\* The clock only moves once the round of this second is over.
LEMMA TickIInv == ASSUME IInv, Tick PROVE IInv'
<1>1. /\ checked /\ ~checked'
      /\ now' = now + 1 /\ lastBook' = lastBook /\ killed' = killed
  BY DEF Tick
<1>2. Clocks'
  BY <1>1 DEF IInv, Clocks
<1>3. SilenceSeen'
  BY <1>1 DEF SilenceSeen
<1>4. StaleBookKills'
  <2> SUFFICES ASSUME lastBook' # Never, now' - lastBook' > BookStaleAfter + 1 PROVE killed'
    BY DEF StaleBookKills
  <2>1. lastBook # Never /\ now - lastBook > BookStaleAfter
    BY <1>1, WindowsAssumption DEF IInv, Clocks
  <2>2. BookStale
    BY <2>1 DEF BookStale
  <2> QED
    BY <1>1, <2>2 DEF IInv, SilenceSeen
<1> QED
  BY <1>2, <1>3, <1>4 DEF IInv

\* Every step keeps the invariant.
LEMMA NextIInv == IInv /\ [Next]_vars => IInv'
<1> SUFFICES ASSUME IInv, [Next]_vars PROVE IInv'
  OBVIOUS
<1>0. killed \in BOOLEAN
  BY DEF IInv, Clocks
<1>1. CASE \E m \in Markets, s \in Sides, p, mid \in Prices, q \in Quantities, gain \in Gains :
             OnFill(m, s, p, q, mid, gain)
  BY <1>0, <1>1, HandlerIInv DEF OnFill
<1>2. CASE \E m \in Markets, mid \in Prices : OnMarketUpdate(m, mid)
  BY <1>0, <1>2, HandlerIInv DEF OnMarketUpdate
<1>3. CASE OnBookUpdate
  BY <1>0, <1>3, HandlerIInv DEF OnBookUpdate
<1>4. CASE FeedDesync
  BY <1>0, <1>4, HandlerIInv DEF FeedDesync
<1>5. CASE Check
  BY <1>5, CheckIInv
<1>6. CASE Tick
  BY <1>6, TickIInv
<1>7. CASE UNCHANGED vars
  BY <1>0, <1>7, HandlerIInv DEF vars
<1> QED
  BY <1>1, <1>2, <1>3, <1>4, <1>5, <1>6, <1>7 DEF Next

\* Books that fall silent after their first update trip the kill switch within
\* a second of the limit (_check_stale_book), whatever was traded meanwhile,
\* at midnight too.
THEOREM StaleBookAlwaysKills == Spec => []StaleBookKills
<1>1. IInv => StaleBookKills
  BY DEF IInv
<1> QED
  BY <1>1, InitIInv, NextIInv, PTL DEF Spec

=============================================================================
