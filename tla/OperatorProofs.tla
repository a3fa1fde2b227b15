--------------------------- MODULE OperatorProofs ---------------------------
(***************************************************************************)
(* What the operators compute that the components are built from: sums     *)
(* over finite sets and queues, fractions, rounding, and the quotes of any *)
(* reservation price and half-spread.                                      *)
(***************************************************************************)
EXTENDS Quoting, Fractions, Sequences, Functions, FiniteSetTheorems, TLAPS

-----------------------------------------------------------------------------
(* Sums.                                                                   *)

\* A set of subsets closed under taking one step up holds every subset of S: the
\* induction over a finite set, with a set in the place of a predicate.
LEMMA FiniteInduction ==
  ASSUME NEW S, IsFiniteSet(S), NEW G,
         \A T \in SUBSET S : (\A U \in SUBSET T : U # T => U \in G) => T \in G
  PROVE  \A T \in SUBSET S : T \in G
<1> DEFINE B == {T \in SUBSET S : T \notin G}
<1>1. SUFFICES ASSUME B # {} PROVE FALSE
  OBVIOUS
<1>2. B \subseteq FiniteSubsetsOf(S)
  BY FS_Subset DEF FiniteSubsetsOf
<1>3. PICK T \in B : \A U \in B : ~ (<<U, T>> \in StrictSubsetOrdering(S))
  <2>1. IsWellFoundedOn(StrictSubsetOrdering(S), FiniteSubsetsOf(S))
    BY FS_StrictSubsetOrderingWellFounded
  <2> HIDE DEF B
  <2> QED BY <1>1, <1>2, <2>1, WFMin
<1>4. \A U \in SUBSET T : U # T => U \in G
  BY <1>3 DEF StrictSubsetOrdering
<1> QED BY <1>3, <1>4

\* The induction over the natural numbers, likewise.
LEMMA NatInduct ==
  ASSUME NEW G, 0 \in G, \A n \in Nat : n \in G => n + 1 \in G
  PROVE  \A n \in Nat : n \in G
<1> DEFINE B == {n \in Nat : n \notin G}
<1>1. SUFFICES ASSUME B # {} PROVE FALSE
  OBVIOUS
<1>3. PICK n \in B : \A m \in B : ~ (<<m, n>> \in OpToRel(<, Nat))
  <2> HIDE DEF B
  <2>1. B \subseteq Nat BY DEF B
  <2> QED BY <1>1, <2>1, NatLessThanWellFounded, WFMin
<1>4. \A m \in B : ~(m < n)
  BY <1>3 DEF OpToRel
<1>5. n # 0 /\ n - 1 \in Nat
  OBVIOUS
<1>6. n - 1 \in G
  BY <1>4, <1>5
<1> QED BY <1>5, <1>6

Pick(s) == CHOOSE x \in s : TRUE
Adds(it, f, S) ==
  it = [s \in SUBSET S |-> IF s = {} THEN 0 ELSE f[Pick(s)] + it[s \ {Pick(s)}]]

\* A sum over a finite set is what the iteration behind it comes to.
LEMMA SumIsIter ==
  ASSUME NEW S, NEW f, \E it : Adds(it, f, S)
  PROVE  \E it : Adds(it, f, S) /\ SumFunctionOnSet(f, S) = it[S]
<1> DEFINE it == CHOOSE i : i = [s \in SUBSET S |-> IF s = {} THEN 0 ELSE f[Pick(s)] + i[s \ {Pick(s)}]]
<1>1. Adds(it, f, S)
  BY DEF Adds
<1>2. SumFunctionOnSet(f, S) = it[S]
  BY DEF SumFunctionOnSet, FoldFunctionOnSet, MapThenFoldSet, Pick
<1> QED BY <1>1, <1>2

\* The iteration has at most one result.
LEMMA IterUnique ==
  ASSUME NEW S, NEW T, NEW f, NEW g, NEW i, NEW j,
         Adds(i, f, S), Adds(j, g, T),
         NEW U, IsFiniteSet(U), U \subseteq S, U \subseteq T,
         \A x \in U : f[x] = g[x]
  PROVE  i[U] = j[U]
<1> DEFINE G == {V \in SUBSET U : i[V] = j[V]}
<1>1. ASSUME NEW V \in SUBSET U, \A W \in SUBSET V : W # V => W \in G
      PROVE  V \in G
  <2>1. /\ i[V] = IF V = {} THEN 0 ELSE f[Pick(V)] + i[V \ {Pick(V)}]
        /\ j[V] = IF V = {} THEN 0 ELSE g[Pick(V)] + j[V \ {Pick(V)}]
    BY DEF Adds
  <2>2. CASE V = {}
    BY <2>1, <2>2
  <2>3. CASE V # {}
    <3>1. Pick(V) \in V
      BY <2>3 DEF Pick
    <3>2. V \ {Pick(V)} \in SUBSET V /\ V \ {Pick(V)} # V
      BY <3>1
    <3>3. V \ {Pick(V)} \in G
      BY <1>1, <3>2
    <3> QED BY <2>1, <2>3, <3>1, <3>3
  <2> QED BY <2>2, <2>3
<1>2. \A V \in SUBSET U : V \in G
  <2> HIDE DEF G
  <2> QED BY <1>1, FiniteInduction
<1> QED BY <1>2

\* The iteration has a result for every finite set.
LEMMA IterExists ==
  ASSUME NEW S, IsFiniteSet(S), NEW f
  PROVE  \E it : Adds(it, f, S)
<1> DEFINE G == {T \in SUBSET S : \E it : Adds(it, f, T)}
           V(U) == (CHOOSE i : Adds(i, f, U))[U]
<1>1. ASSUME NEW T \in SUBSET S, \A U \in SUBSET T : U # T => U \in G
      PROVE  T \in G
  <2> DEFINE h == [s \in SUBSET T |-> IF s = {} THEN 0 ELSE f[Pick(s)] + V(s \ {Pick(s)})]
  <2>1. \A U \in SUBSET T : U # T => Adds(CHOOSE i : Adds(i, f, U), f, U)
    BY <1>1
  <2>2. ASSUME NEW U \in SUBSET T, U # T
        PROVE  h[U] = V(U)
    <3> DEFINE i == CHOOSE i : Adds(i, f, U)
               W == U \ {Pick(U)}
    <3>1. Adds(i, f, U)
      BY <2>1, <2>2
    <3>2. i[U] = IF U = {} THEN 0 ELSE f[Pick(U)] + i[W]
      BY <3>1 DEF Adds
    <3>3. U # {} => i[W] = V(W)
      <4> SUFFICES ASSUME U # {} PROVE i[W] = V(W)
        OBVIOUS
      <4> DEFINE j == CHOOSE j : Adds(j, f, W)
      <4>1. W \subseteq U /\ W # T /\ W \in SUBSET T
        BY <2>2 DEF Pick
      <4>2. Adds(j, f, W)
        BY <2>1, <4>1
      <4>3. IsFiniteSet(W)
        BY <4>1, FS_Subset
      <4> HIDE DEF i, j, W
      <4>4. i[W] = j[W]
        BY <3>1, <4>1, <4>2, <4>3, IterUnique
      <4> QED BY <4>4 DEF j
    <3> QED BY <3>2, <3>3
  <2>3. Adds(h, f, T)
    <3>1. ASSUME NEW s \in SUBSET T, s # {}
          PROVE  V(s \ {Pick(s)}) = h[s \ {Pick(s)}]
      <4>1. s \ {Pick(s)} \in SUBSET T /\ s \ {Pick(s)} # T
        BY <3>1 DEF Pick
      <4> HIDE DEF h, V
      <4> QED BY <2>2, <4>1
    <3>2. h = [s \in SUBSET T |-> IF s = {} THEN 0 ELSE f[Pick(s)] + V(s \ {Pick(s)})]
      OBVIOUS
    <3> HIDE DEF h, V
    <3>3. h = [s \in SUBSET T |-> IF s = {} THEN 0 ELSE f[Pick(s)] + h[s \ {Pick(s)}]]
      BY <3>1, <3>2
    <3> QED BY <3>3 DEF Adds
  <2> QED BY <2>3
<1>2. \A T \in SUBSET S : T \in G
  <2> HIDE DEF G
  <2> QED BY <1>1, FiniteInduction
<1> QED BY <1>2

\* A sum goes by the terms alone.
LEMMA SumSame ==
  ASSUME NEW S, IsFiniteSet(S), NEW f, NEW g, \A x \in S : f[x] = g[x]
  PROVE  SumFunctionOnSet(f, S) = SumFunctionOnSet(g, S)
<1>1. PICK i : Adds(i, f, S) /\ SumFunctionOnSet(f, S) = i[S]
  BY IterExists, SumIsIter
<1>2. PICK j : Adds(j, g, S) /\ SumFunctionOnSet(g, S) = j[S]
  BY IterExists, SumIsIter
<1> QED BY <1>1, <1>2, IterUnique

\* A sum is any one of its terms and the sum of the others.
LEMMA SumPick ==
  ASSUME NEW S, IsFiniteSet(S), NEW f
  PROVE  SumFunctionOnSet(f, S) =
           IF S = {} THEN 0 ELSE f[Pick(S)] + SumFunctionOnSet(f, S \ {Pick(S)})
<1>1. PICK i : Adds(i, f, S) /\ SumFunctionOnSet(f, S) = i[S]
  BY IterExists, SumIsIter
<1>2. i[S] = IF S = {} THEN 0 ELSE f[Pick(S)] + i[S \ {Pick(S)}]
  BY <1>1 DEF Adds
<1>3. IsFiniteSet(S \ {Pick(S)})
  BY FS_RemoveElement
<1>4. PICK j : Adds(j, f, S \ {Pick(S)}) /\ SumFunctionOnSet(f, S \ {Pick(S)}) = j[S \ {Pick(S)}]
  BY <1>3, IterExists, SumIsIter
<1>5. i[S \ {Pick(S)}] = j[S \ {Pick(S)}]
  BY <1>1, <1>3, <1>4, IterUnique
<1> QED BY <1>1, <1>2, <1>4, <1>5

\* A sum of integers is an integer.
LEMMA SumType ==
  ASSUME NEW S, IsFiniteSet(S), NEW f, \A x \in S : f[x] \in Int
  PROVE  SumFunctionOnSet(f, S) \in Int
<1> DEFINE G == {T \in SUBSET S : SumFunctionOnSet(f, T) \in Int}
<1>1. ASSUME NEW T \in SUBSET S, \A U \in SUBSET T : U # T => U \in G
      PROVE  T \in G
  <2>1. IsFiniteSet(T)
    BY FS_Subset
  <2>2. CASE T = {}
    BY <2>1, <2>2, SumPick
  <2>3. CASE T # {}
    <3>1. Pick(T) \in T
      BY <2>3 DEF Pick
    <3>2. T \ {Pick(T)} \in G
      BY <1>1, <3>1
    <3>3. SumFunctionOnSet(f, T) = f[Pick(T)] + SumFunctionOnSet(f, T \ {Pick(T)})
      BY <2>1, <2>3, SumPick
    <3>4. f[Pick(T)] \in Int
      BY <3>1
    <3> QED BY <3>2, <3>3, <3>4
  <2> QED BY <2>2, <2>3
<1>2. \A T \in SUBSET S : T \in G
  <2> HIDE DEF G
  <2> QED BY <1>1, FiniteInduction
<1> QED BY <1>2

\* Any element may be taken out first.
LEMMA SumTake ==
  ASSUME NEW S, IsFiniteSet(S), NEW f, \A x \in S : f[x] \in Int, NEW a \in S
  PROVE  SumFunctionOnSet(f, S) = f[a] + SumFunctionOnSet(f, S \ {a})
<1> DEFINE Sum(T) == SumFunctionOnSet(f, T)
           G == {T \in SUBSET S : \A x \in T : Sum(T) = f[x] + Sum(T \ {x})}
<1>1. ASSUME NEW T \in SUBSET S, \A U \in SUBSET T : U # T => U \in G
      PROVE  T \in G
  <2> SUFFICES ASSUME NEW x \in T PROVE Sum(T) = f[x] + Sum(T \ {x})
    OBVIOUS
  <2> DEFINE y == Pick(T)
  <2>1. y \in T
    BY DEF Pick
  <2>2. IsFiniteSet(T)
    BY FS_Subset
  <2>3. Sum(T) = f[y] + Sum(T \ {y})
    BY <2>1, <2>2, SumPick
  <2> HIDE DEF y
  <2>4. CASE x = y
    BY <2>3, <2>4
  <2>5. CASE x # y
    <3>1. T \ {y} \in G /\ T \ {x} \in G
      BY <1>1, <2>1
    <3> DEFINE both == Sum((T \ {x}) \ {y})
    <3>2. Sum(T \ {y}) = f[x] + both
      <4>1. Sum(T \ {y}) = f[x] + Sum((T \ {y}) \ {x})
        BY <3>1, <2>5
      <4>2. (T \ {y}) \ {x} = (T \ {x}) \ {y}
        OBVIOUS
      <4> QED BY <4>1, <4>2
    <3>3. Sum(T \ {x}) = f[y] + both
      BY <3>1, <2>1, <2>5
    <3>4. both \in Int /\ f[x] \in Int /\ f[y] \in Int
      <4>1. IsFiniteSet((T \ {x}) \ {y})
        BY <2>2, FS_RemoveElement
      <4>2. \A z \in (T \ {x}) \ {y} : f[z] \in Int
        OBVIOUS
      <4>3. SumFunctionOnSet(f, (T \ {x}) \ {y}) \in Int
        BY <4>1, <4>2, SumType
      <4> QED BY <2>1, <4>3
    <3> HIDE DEF Sum, both, G
    <3> QED BY <2>3, <3>2, <3>3, <3>4
  <2> QED BY <2>4, <2>5
<1>2. \A T \in SUBSET S : T \in G
  <2> HIDE DEF G
  <2> QED BY <1>1, FiniteInduction
<1> QED BY <1>2

\* One term changes.
WholeOn(f, S) == \A x \in S : f[x] \in Int
AgreeBut(f, g, S, a) == \A x \in S : x # a => g[x] = f[x]

\* One term changes, and the sum by as much.
LEMMA SumChange ==
  ASSUME NEW S, NEW f, NEW g, NEW a, IsFiniteSet(S), a \in S,
         WholeOn(f, S), WholeOn(g, S), AgreeBut(f, g, S, a)
  PROVE  SumFunctionOnSet(g, S) = SumFunctionOnSet(f, S) - f[a] + g[a]
<1> DEFINE rest == SumFunctionOnSet(f, S \ {a})
<1>1. /\ IsFiniteSet(S \ {a})
      /\ (\A x \in S : g[x] \in Int /\ f[x] \in Int)
      /\ (\A x \in S \ {a} : f[x] \in Int /\ f[x] = g[x])
  BY FS_RemoveElement DEF WholeOn, AgreeBut
<1>2. SumFunctionOnSet(f, S) = f[a] + rest
  BY <1>1, SumTake
<1>3. SumFunctionOnSet(g, S) = g[a] + SumFunctionOnSet(g, S \ {a})
  BY <1>1, SumTake
<1>4. SumFunctionOnSet(g, S \ {a}) = rest
  BY <1>1, SumSame
<1>5. rest \in Int
  BY <1>1, SumType
<1> HIDE DEF rest
<1> QED BY <1>1, <1>2, <1>3, <1>4, <1>5

\* Terms that are nothing add up to nothing.
LEMMA SumZero ==
  ASSUME NEW S, IsFiniteSet(S), NEW f, \A x \in S : f[x] = 0
  PROVE  SumFunctionOnSet(f, S) = 0
<1> DEFINE G == {T \in SUBSET S : SumFunctionOnSet(f, T) = 0}
<1>1. ASSUME NEW T \in SUBSET S, \A U \in SUBSET T : U # T => U \in G
      PROVE  T \in G
  <2>1. IsFiniteSet(T)
    BY FS_Subset
  <2>2. CASE T = {}
    BY <2>1, <2>2, SumPick
  <2>3. CASE T # {}
    <3>1. Pick(T) \in T
      BY <2>3 DEF Pick
    <3>2. T \ {Pick(T)} \in G
      BY <1>1, <3>1
    <3>3. SumFunctionOnSet(f, T) = f[Pick(T)] + SumFunctionOnSet(f, T \ {Pick(T)})
      BY <2>1, <2>3, SumPick
    <3>4. f[Pick(T)] = 0
      BY <3>1
    <3> QED BY <3>2, <3>3, <3>4
  <2> QED BY <2>2, <2>3
<1>2. \A T \in SUBSET S : T \in G
  <2> HIDE DEF G
  <2> QED BY <1>1, FiniteInduction
<1> QED BY <1>2

\* Natural terms add up to at least each of them.
LEMMA SumNat ==
  ASSUME NEW S, IsFiniteSet(S), NEW f, \A x \in S : f[x] \in Nat
  PROVE  /\ SumFunctionOnSet(f, S) \in Nat
         /\ \A x \in S : f[x] <= SumFunctionOnSet(f, S)
<1> DEFINE G == {T \in SUBSET S : SumFunctionOnSet(f, T) \in Nat}
<1>1. ASSUME NEW T \in SUBSET S, \A U \in SUBSET T : U # T => U \in G
      PROVE  T \in G
  <2>1. IsFiniteSet(T)
    BY FS_Subset
  <2>2. CASE T = {}
    <3>1. SumFunctionOnSet(f, T) = 0
      BY <2>1, <2>2, SumPick
    <3> QED BY <3>1
  <2>3. CASE T # {}
    <3>1. Pick(T) \in T
      BY <2>3 DEF Pick
    <3>2. T \ {Pick(T)} \in G
      BY <1>1, <3>1
    <3>3. SumFunctionOnSet(f, T) = f[Pick(T)] + SumFunctionOnSet(f, T \ {Pick(T)})
      BY <2>1, <2>3, SumPick
    <3>4. f[Pick(T)] \in Nat
      BY <3>1
    <3> QED BY <3>2, <3>3, <3>4
  <2> QED BY <2>2, <2>3
<1>2. \A T \in SUBSET S : SumFunctionOnSet(f, T) \in Nat
  <2>1. \A T \in SUBSET S : T \in G
    <3> HIDE DEF G
    <3> QED BY <1>1, FiniteInduction
  <2> QED BY <2>1, Zenon
<1>3. ASSUME NEW x \in S PROVE f[x] <= SumFunctionOnSet(f, S)
  <2>1. SumFunctionOnSet(f, S) = f[x] + SumFunctionOnSet(f, S \ {x})
    BY SumTake
  <2>2. SumFunctionOnSet(f, S \ {x}) \in Nat /\ f[x] \in Nat
    BY <1>2
  <2> QED BY <2>1, <2>2
<1> QED BY <1>2, <1>3

\* A queue that gets one more at its end.
LEMMA SumAtEnd ==
  ASSUME NEW n \in Nat, NEW f, NEW g,
         \A i \in 1..n + 1 : g[i] \in Int, \A i \in 1..n : f[i] = g[i]
  PROVE  SumFunctionOnSet(g, 1..n + 1) = SumFunctionOnSet(f, 1..n) + g[n + 1]
<1>1. IsFiniteSet(1..n + 1) /\ IsFiniteSet(1..n) /\ n + 1 \in 1..n + 1
  BY FS_Interval
<1>2. (1..n + 1) \ {n + 1} = 1..n
  OBVIOUS
<1>3. SumFunctionOnSet(g, 1..n + 1) = g[n + 1] + SumFunctionOnSet(g, 1..n)
  BY <1>1, <1>2, SumTake
<1>4. SumFunctionOnSet(g, 1..n) = SumFunctionOnSet(f, 1..n)
  BY <1>1, SumSame
<1>5. SumFunctionOnSet(f, 1..n) \in Int /\ g[n + 1] \in Int
  <2>1. \A i \in 1..n : f[i] \in Int
    OBVIOUS
  <2> QED BY <1>1, <2>1, SumType
<1> QED BY <1>3, <1>4, <1>5

\* A queue whose head is taken.
LEMMA SumAtHead ==
  ASSUME NEW n \in Nat, NEW f, NEW g,
         \A i \in 1..n + 1 : g[i] \in Int, \A i \in 1..n : f[i] = g[i + 1]
  PROVE  SumFunctionOnSet(g, 1..n + 1) = g[1] + SumFunctionOnSet(f, 1..n)
<1> DEFINE Sum(h, k) == SumFunctionOnSet(h, 1..k)
           G == {k \in Nat : k <= n => Sum(g, k + 1) = g[1] + Sum(f, k)}
<1>0. \A k \in Nat : k <= n => Sum(f, k) \in Int
  <2> SUFFICES ASSUME NEW k \in Nat, k <= n PROVE Sum(f, k) \in Int
    OBVIOUS
  <2>1. IsFiniteSet(1..k)
    BY FS_Interval
  <2>2. \A i \in 1..k : f[i] \in Int
    OBVIOUS
  <2> QED BY <2>1, <2>2, SumType
<1>1. 0 \in G
  <2>1. IsFiniteSet(1..0)
    BY FS_Interval
  <2>2. Sum(f, 0) = 0 /\ Sum(g, 0) = 0
    BY <2>1, SumPick
  <2>3. \A i \in 1..0 + 1 : g[i] \in Int
    OBVIOUS
  <2>4. Sum(g, 0 + 1) = Sum(g, 0) + g[0 + 1]
    BY <2>3, SumAtEnd
  <2> HIDE DEF Sum
  <2> QED BY <2>2, <2>4, <2>3
<1>2. ASSUME NEW k \in Nat, k \in G PROVE k + 1 \in G
  <2> SUFFICES ASSUME k + 1 <= n PROVE Sum(g, (k + 1) + 1) = g[1] + Sum(f, k + 1)
    OBVIOUS
  <2>1. Sum(g, k + 1) = g[1] + Sum(f, k)
    BY <1>2
  <2>2. Sum(g, (k + 1) + 1) = Sum(g, k + 1) + g[(k + 1) + 1]
    <3>1. k + 1 \in Nat /\ \A i \in 1..(k + 1) + 1 : g[i] \in Int
      OBVIOUS
    <3> QED BY <3>1, SumAtEnd
  <2>3. Sum(f, k + 1) = Sum(f, k) + f[k + 1]
    <3>1. \A i \in 1..k + 1 : f[i] \in Int
      OBVIOUS
    <3> QED BY <3>1, SumAtEnd
  <2>4. f[k + 1] = g[(k + 1) + 1] /\ f[k + 1] \in Int /\ g[1] \in Int
    OBVIOUS
  <2>5. Sum(f, k) \in Int
    BY <1>0
  <2> HIDE DEF Sum
  <2> QED BY <2>1, <2>2, <2>3, <2>4, <2>5
<1>3. n \in G
  <2> HIDE DEF G
  <2> QED BY <1>1, <1>2, NatInduct
<1> QED BY <1>3
-----------------------------------------------------------------------------
(* Sequences.                                                              *)

\* Sequences whose elements lie in S: one more at the end, the head gone, one
\* element changed.
LEMMA SeqAppend ==
  ASSUME NEW S, NEW q \in Seq(S), NEW e \in S
  PROVE  /\ Append(q, e) \in Seq(S)
         /\ Len(q) \in Nat /\ DOMAIN q = 1..Len(q)
         /\ DOMAIN Append(q, e) = 1..Len(q) + 1 /\ Len(Append(q, e)) = Len(q) + 1
         /\ Append(q, e)[Len(q) + 1] = e
         /\ \A i \in 1..Len(q) : Append(q, e)[i] = q[i] /\ q[i] \in S
OBVIOUS

\* What the tail of a queue holds, the queue holds.
LEMMA SeqTail ==
  ASSUME NEW S, NEW q \in Seq(S), q # <<>>
  PROVE  /\ Tail(q) \in Seq(S)
         /\ Head(q) = q[1] /\ Head(q) \in S
         /\ Len(q) \in Nat \ {0} /\ DOMAIN q = 1..Len(q)
         /\ DOMAIN Tail(q) = 1..Len(q) - 1 /\ Len(Tail(q)) = Len(q) - 1
         /\ \A i \in 1..Len(q) - 1 : Tail(q)[i] = q[i + 1]
OBVIOUS

\* A queue with one element replaced.
LEMMA SeqExcept ==
  ASSUME NEW S, NEW q \in Seq(S), NEW i \in 1..Len(q), NEW e \in S
  PROVE  /\ [q EXCEPT ![i] = e] \in Seq(S)
         /\ Len(q) \in Nat /\ DOMAIN q = 1..Len(q)
         /\ Len([q EXCEPT ![i] = e]) = Len(q)
         /\ DOMAIN [q EXCEPT ![i] = e] = 1..Len(q)
         /\ [q EXCEPT ![i] = e][i] = e
         /\ \A j \in 1..Len(q) : j # i => [q EXCEPT ![i] = e][j] = q[j]
OBVIOUS

\* What the elements of a queue weigh, one by one.
Weigh(q, w) == SumFunction([i \in DOMAIN q |-> w[q[i]]])

\* A queue weighs a whole number.
LEMMA WeighType ==
  ASSUME NEW S, NEW q \in Seq(S), NEW w \in [S -> Int]
  PROVE  Weigh(q, w) \in Int
<1> DEFINE f == [i \in DOMAIN q |-> w[q[i]]]
<1>1. DOMAIN q = 1..Len(q) /\ IsFiniteSet(1..Len(q)) /\ \A i \in 1..Len(q) : q[i] \in S
  BY FS_Interval
<1>2. \A i \in 1..Len(q) : f[i] \in Int
  BY <1>1
<1>3. Weigh(q, w) = SumFunctionOnSet(f, 1..Len(q))
  BY <1>1 DEF Weigh, SumFunction
<1> HIDE DEF f
<1> QED BY <1>1, <1>2, <1>3, SumType

\* Weights that are natural numbers: no element weighs more than the queue.
LEMMA WeighNat ==
  ASSUME NEW S, NEW q \in Seq(S), NEW w \in [S -> Nat]
  PROVE  /\ Weigh(q, w) \in Nat
         /\ \A i \in 1..Len(q) : w[q[i]] <= Weigh(q, w)
         /\ Weigh(q, w) > 0 => \E i \in 1..Len(q) : w[q[i]] > 0
<1> DEFINE f == [i \in DOMAIN q |-> w[q[i]]]
<1>1. DOMAIN q = 1..Len(q) /\ IsFiniteSet(1..Len(q)) /\ \A i \in 1..Len(q) : q[i] \in S
  BY FS_Interval
<1>2. \A i \in 1..Len(q) : f[i] \in Nat /\ f[i] = w[q[i]]
  BY <1>1
<1>3. Weigh(q, w) = SumFunctionOnSet(f, 1..Len(q))
  BY <1>1 DEF Weigh, SumFunction
<1> HIDE DEF f
<1>4. (\A i \in 1..Len(q) : f[i] = 0) => Weigh(q, w) = 0
  BY <1>1, <1>3, SumZero
<1>5. Weigh(q, w) \in Nat /\ \A i \in 1..Len(q) : f[i] <= Weigh(q, w)
  BY <1>1, <1>2, <1>3, SumNat
<1> QED BY <1>2, <1>4, <1>5

\* An empty queue weighs nothing.
LEMMA WeighEmpty ==
  ASSUME NEW w
  PROVE  Weigh(<<>>, w) = 0
<1> DEFINE f == [i \in DOMAIN <<>> |-> w[<<>>[i]]]
<1>1. DOMAIN <<>> = {} /\ DOMAIN f = {}
  OBVIOUS
<1>2. Weigh(<<>>, w) = SumFunctionOnSet(f, {})
  BY <1>1 DEF Weigh, SumFunction
<1> HIDE DEF f
<1> QED BY <1>2, SumPick, FS_EmptySet

\* One more at the end of a queue adds its weight.
LEMMA WeighAppend ==
  ASSUME NEW S, NEW q \in Seq(S), NEW w \in [S -> Int], NEW e \in S
  PROVE  Weigh(Append(q, e), w) = Weigh(q, w) + w[e]
<1> DEFINE k == Len(q)
           f == [i \in DOMAIN q |-> w[q[i]]]
           g == [i \in DOMAIN Append(q, e) |-> w[Append(q, e)[i]]]
<1>1. /\ k \in Nat /\ DOMAIN q = 1..k /\ DOMAIN Append(q, e) = 1..k + 1
      /\ Append(q, e)[k + 1] = e
      /\ \A i \in 1..k : Append(q, e)[i] = q[i] /\ q[i] \in S
  BY SeqAppend
<1>2. Weigh(q, w) = SumFunctionOnSet(f, 1..k)
  BY <1>1 DEF Weigh, SumFunction
<1>3. Weigh(Append(q, e), w) = SumFunctionOnSet(g, 1..k + 1)
  BY <1>1 DEF Weigh, SumFunction
<1>4. g[k + 1] = w[e] /\ w[e] \in Int
  BY <1>1
<1>5. \A i \in 1..k : f[i] = g[i] /\ g[i] \in Int
  BY <1>1
<1> HIDE DEF f, g, k
<1>6. \A i \in 1..k + 1 : g[i] \in Int
  BY <1>1, <1>4, <1>5
<1>7. SumFunctionOnSet(g, 1..k + 1) = SumFunctionOnSet(f, 1..k) + g[k + 1]
  BY <1>1, <1>5, <1>6, SumAtEnd
<1> QED BY <1>2, <1>3, <1>4, <1>7

\* A queue weighs its head and its tail.
LEMMA WeighTail ==
  ASSUME NEW S, NEW q \in Seq(S), NEW w \in [S -> Int], q # <<>>
  PROVE  Weigh(q, w) = w[Head(q)] + Weigh(Tail(q), w)
<1> DEFINE k == Len(q) - 1
           f == [i \in DOMAIN Tail(q) |-> w[Tail(q)[i]]]
           g == [i \in DOMAIN q |-> w[q[i]]]
<1>1. /\ Head(q) = q[1]
      /\ k \in Nat /\ DOMAIN q = 1..k + 1 /\ DOMAIN Tail(q) = 1..k
      /\ \A i \in 1..k : Tail(q)[i] = q[i + 1]
      /\ \A i \in 1..k + 1 : q[i] \in S
  BY SeqTail
<1>2. Weigh(q, w) = SumFunctionOnSet(g, 1..k + 1)
  BY <1>1 DEF Weigh, SumFunction
<1>3. Weigh(Tail(q), w) = SumFunctionOnSet(f, 1..k)
  BY <1>1 DEF Weigh, SumFunction
<1>4. g[1] = w[Head(q)]
  BY <1>1
<1>5. \A i \in 1..k + 1 : g[i] \in Int
  BY <1>1
<1>6. \A i \in 1..k : f[i] = g[i + 1]
  BY <1>1
<1> HIDE DEF f, g, k
<1>7. SumFunctionOnSet(g, 1..k + 1) = g[1] + SumFunctionOnSet(f, 1..k)
  BY <1>1, <1>5, <1>6, SumAtHead
<1> QED BY <1>2, <1>3, <1>4, <1>7

\* r is q with b in the place of a.
Replaces(r, q, a, b) ==
  /\ Len(r) = Len(q)
  /\ \E i \in 1..Len(q) : /\ q[i] = a /\ r[i] = b
                          /\ \A j \in 1..Len(q) : j # i => r[j] = q[j]

\* One element replaced changes the weight by the difference.
LEMMA WeighChange ==
  ASSUME NEW S, NEW q \in Seq(S), NEW r \in Seq(S), NEW w \in [S -> Int], NEW a \in S, NEW b \in S,
         Replaces(r, q, a, b)
  PROVE  Weigh(r, w) = Weigh(q, w) - w[a] + w[b]
<1>0. PICK i \in 1..Len(q) : /\ q[i] = a /\ r[i] = b /\ Len(r) = Len(q)
                             /\ \A j \in 1..Len(q) : j # i => r[j] = q[j]
  BY DEF Replaces
<1> DEFINE D == 1..Len(q)
           f == [j \in DOMAIN q |-> w[q[j]]]
           g == [j \in DOMAIN r |-> w[r[j]]]
<1>1. /\ DOMAIN q = D /\ DOMAIN r = D /\ i \in D
      /\ \A j \in D : q[j] \in S /\ r[j] \in S /\ (j # i => r[j] = q[j])
  BY <1>0
<1>2. IsFiniteSet(D)
  BY FS_Interval
<1> HIDE DEF D
<1>3. f[i] = w[a] /\ g[i] = w[b]
  BY <1>0, <1>1
<1>4. WholeOn(f, D) /\ WholeOn(g, D) /\ AgreeBut(f, g, D, i)
  BY <1>1 DEF WholeOn, AgreeBut
<1>5. Weigh(q, w) = SumFunctionOnSet(f, D) /\ Weigh(r, w) = SumFunctionOnSet(g, D)
  BY <1>1 DEF Weigh, SumFunction
<1> HIDE DEF f, g
<1>6. SumFunctionOnSet(g, D) = SumFunctionOnSet(f, D) - f[i] + g[i]
  BY <1>1, <1>2, <1>4, SumChange
<1> QED BY <1>3, <1>5, <1>6

\* The weights count where the queue's elements are, and nowhere else.
LEMMA WeighSame ==
  ASSUME NEW S, NEW q \in Seq(S), NEW v, NEW w, \A i \in 1..Len(q) : v[q[i]] = w[q[i]]
  PROVE  Weigh(q, v) = Weigh(q, w)
<1> DEFINE f == [i \in DOMAIN q |-> v[q[i]]]
           g == [i \in DOMAIN q |-> w[q[i]]]
<1>1. DOMAIN q = 1..Len(q)
  OBVIOUS
<1>2. f = g
  BY <1>1
<1> QED BY <1>2 DEF Weigh

-----------------------------------------------------------------------------
(* Fractions are closed under the operations used.                         *)

\* Whole numbers are fractions.
LEMMA WholeType == \A i \in Int : Whole(i) \in Fraction
BY DEF Whole, Fraction

\* The negative of a fraction is a fraction.
LEMMA NegativeType == \A a \in Fraction : Negative(a) \in Fraction
BY DEF Negative, Fraction

\* A product of denominators is a denominator.
LEMMA PositiveProduct ==
  ASSUME NEW a \in Nat \ {0}, NEW b \in Nat \ {0}
  PROVE  a * b \in Nat \ {0}
BY SMT

\* A sum of fractions is a fraction, whichever denominator it keeps.
LEMMA PlusType ==
  ASSUME NEW a \in Fraction, NEW b \in Fraction
  PROVE  Plus(a, b) \in Fraction
<1>1. a.n \in Int /\ b.n \in Int /\ a.d \in Nat \ {0} /\ b.d \in Nat \ {0}
  BY DEF Fraction
<1>2. a.d * b.d \in Nat \ {0}
  BY <1>1, PositiveProduct
<1>3. b.d \div a.d \in Int /\ a.d \div b.d \in Int
  BY <1>1
<1>4. /\ a.n * (b.d \div a.d) + b.n \in Int
      /\ a.n + b.n * (a.d \div b.d) \in Int
      /\ a.n * b.d + b.n * a.d \in Int
  BY <1>1, <1>3
<1> QED
  BY <1>1, <1>2, <1>4 DEF Plus, Fraction

\* A difference is one.
LEMMA MinusType ==
  ASSUME NEW a \in Fraction, NEW b \in Fraction
  PROVE  Minus(a, b) \in Fraction
BY PlusType, NegativeType DEF Minus

\* A multiple by a whole number is one.
LEMMA ScaleType ==
  ASSUME NEW k \in Int, NEW a \in Fraction
  PROVE  Scale(k, a) \in Fraction
<1>1. k * a.n \in Int
  BY DEF Fraction
<1> QED
  BY <1>1 DEF Scale, Fraction

\* A quotient by a number that is not zero is one.
LEMMA OverType ==
  ASSUME NEW k \in Nat \ {0}, NEW a \in Fraction
  PROVE  Over(a, k) \in Fraction
<1>1. a.d * k \in Nat \ {0}
  BY PositiveProduct DEF Fraction
<1> QED
  BY <1>1 DEF Over, Fraction

\* A factor that is not zero cancels.
LEMMA Cancel ==
  ASSUME NEW x \in Int, NEW y \in Int, NEW k \in Nat \ {0}, x * k = y * k
  PROVE  x = y
BY SMT

\* A divisor divides.
LEMMA Divides ==
  ASSUME NEW a \in Nat \ {0}, NEW b \in Nat \ {0}, b % a = 0
  PROVE  b \div a \in Int /\ b = a * (b \div a)
BY SMT

\* Adding a whole number keeps the denominator.
LEMMA PlusWhole ==
  ASSUME NEW a \in Fraction, NEW x \in Int
  PROVE  /\ Plus(a, Whole(x)) = [n |-> a.n + x * a.d, d |-> a.d]
         /\ Plus(Whole(x), a) = [n |-> x * a.d + a.n, d |-> a.d]
<1>1. a.n \in Int /\ a.d \in Nat \ {0}
  BY DEF Fraction
<1>2. a.d % 1 = 0 /\ a.d \div 1 = a.d /\ (1 % a.d = 0 => a.d = 1 /\ 1 \div a.d = 1)
  BY <1>1
<1>3. Plus(Whole(x), a) = [n |-> x * a.d + a.n, d |-> a.d]
  BY <1>2 DEF Plus, Whole
<1>4. Plus(a, Whole(x)) = [n |-> a.n + x * a.d, d |-> a.d]
  <2>1. CASE 1 % a.d = 0
    <3>1. Plus(a, Whole(x)) = [n |-> a.n * 1 + x, d |-> 1]
      BY <1>2, <2>1 DEF Plus, Whole
    <3> QED
      BY <1>1, <1>2, <2>1, <3>1
  <2>2. CASE 1 % a.d # 0
    BY <1>2, <2>2 DEF Plus, Whole
  <2> QED
    BY <2>1, <2>2
<1> QED
  BY <1>3, <1>4

\* The sum is the sum of the two quotients.
LEMMA PlusValue ==
  ASSUME NEW a \in Fraction, NEW b \in Fraction
  PROVE  Plus(a, b).n * (a.d * b.d) = (a.n * b.d + b.n * a.d) * Plus(a, b).d
<1>1. a.n \in Int /\ b.n \in Int /\ a.d \in Nat \ {0} /\ b.d \in Nat \ {0}
  BY DEF Fraction
<1>2. CASE b.d % a.d = 0
  <2> DEFINE k == b.d \div a.d
  <2>1. k \in Int /\ b.d = a.d * k
    BY <1>1, <1>2, Divides
  <2>2. Plus(a, b).n = a.n * k + b.n /\ Plus(a, b).d = b.d
    BY <1>2 DEF Plus
  <2> HIDE DEF k
  <2>3. (a.n * k + b.n) * (a.d * (a.d * k)) = (a.n * (a.d * k) + b.n * a.d) * (a.d * k)
    BY <1>1, <2>1
  <2> QED
    BY <2>1, <2>2, <2>3
<1>3. CASE b.d % a.d # 0 /\ a.d % b.d = 0
  <2> DEFINE k == a.d \div b.d
  <2>1. k \in Int /\ a.d = b.d * k
    BY <1>1, <1>3, Divides
  <2>2. Plus(a, b).n = a.n + b.n * k /\ Plus(a, b).d = a.d
    BY <1>3 DEF Plus
  <2> HIDE DEF k
  <2>3. (a.n + b.n * k) * ((b.d * k) * b.d) = (a.n * b.d + b.n * (b.d * k)) * (b.d * k)
    BY <1>1, <2>1
  <2> QED
    BY <2>1, <2>2, <2>3
<1>4. CASE b.d % a.d # 0 /\ a.d % b.d # 0
  BY <1>4 DEF Plus
<1> QED
  BY <1>2, <1>3, <1>4

\* A fraction whose numerator is 0 adds nothing, whatever its denominator.
LEMMA PlusZero ==
  ASSUME NEW a \in Fraction, NEW z \in Fraction, z.n = 0
  PROVE  Equals(Plus(a, z), a) /\ Equals(Plus(z, a), a)
<1>1. /\ a.n \in Int /\ a.d \in Nat \ {0} /\ z.d \in Nat \ {0}
      /\ Plus(a, z).n \in Int /\ Plus(a, z).d \in Int
      /\ Plus(z, a).n \in Int /\ Plus(z, a).d \in Int
  <2>1. Plus(a, z) \in Fraction /\ Plus(z, a) \in Fraction
    BY PlusType
  <2> QED
    BY <2>1 DEF Fraction
<1>2. Plus(a, z).n * a.d = a.n * Plus(a, z).d
  <2>1. Plus(a, z).n * (a.d * z.d) = (a.n * z.d + 0 * a.d) * Plus(a, z).d
    BY PlusValue
  <2>2. (Plus(a, z).n * a.d) * z.d = (a.n * Plus(a, z).d) * z.d
    BY <1>1, <2>1
  <2>3. Plus(a, z).n * a.d \in Int /\ a.n * Plus(a, z).d \in Int
    BY <1>1
  <2> QED
    BY <1>1, <2>2, <2>3, Cancel
<1>3. Plus(z, a).n * a.d = a.n * Plus(z, a).d
  <2>1. Plus(z, a).n * (z.d * a.d) = (0 * a.d + a.n * z.d) * Plus(z, a).d
    BY PlusValue
  <2>2. (Plus(z, a).n * a.d) * z.d = (a.n * Plus(z, a).d) * z.d
    BY <1>1, <2>1
  <2>3. Plus(z, a).n * a.d \in Int /\ a.n * Plus(z, a).d \in Int
    BY <1>1
  <2> QED
    BY <1>1, <2>2, <2>3, Cancel
<1> QED
  BY <1>2, <1>3 DEF Equals

\* A blend does not tell equal entry prices apart, nor any that nothing is held at.
LEMMA BlendEqual ==
  ASSUME NEW a \in Fraction, NEW b \in Fraction, NEW h \in Int, NEW x \in Int, NEW k \in Int,
         h = 0 \/ Equals(a, b)
  PROVE  Equals(Over(Plus(Scale(h, a), Whole(x)), k), Over(Plus(Scale(h, b), Whole(x)), k))
<1>1. a.n \in Int /\ a.d \in Int /\ b.n \in Int /\ b.d \in Int
  BY DEF Fraction
<1>2. /\ Plus(Scale(h, a), Whole(x)) = [n |-> h * a.n + x * a.d, d |-> a.d]
      /\ Plus(Scale(h, b), Whole(x)) = [n |-> h * b.n + x * b.d, d |-> b.d]
  <2>1. Scale(h, a) \in Fraction /\ Scale(h, b) \in Fraction
    BY ScaleType
  <2> QED
    BY <2>1, PlusWhole DEF Scale
<1>3. h * (a.n * b.d) = h * (b.n * a.d)
  BY <1>1 DEF Equals
<1>4. (h * a.n + x * a.d) * (b.d * k) = (h * (a.n * b.d) + x * (a.d * b.d)) * k
  BY <1>1
<1>5. (h * b.n + x * b.d) * (a.d * k) = (h * (b.n * a.d) + x * (a.d * b.d)) * k
  BY <1>1
<1>6. (h * a.n + x * a.d) * (b.d * k) = (h * b.n + x * b.d) * (a.d * k)
  BY <1>3, <1>4, <1>5
<1> QED
  BY <1>2, <1>6 DEF Equals, Over

-----------------------------------------------------------------------------
(* Rounding and quotes.                                                    *)

\* The nearest whole number of t's is within half a t, for any t.
LEMMA NearestWithin ==
  ASSUME NEW p \in Nat, NEW t \in Nat \ {0}
  PROVE  /\ Nearest(p, t) \in Nat
         /\ 2 * (t * Nearest(p, t) - p) <= t
         /\ 2 * (p - t * Nearest(p, t)) <= t
PROOF
  <1> DEFINE down == p \div t
             rest == p % t
             up   == 2 * rest > t \/ (2 * rest = t /\ down % 2 = 1)
  <1>1. down \in Nat /\ rest \in 0..(t - 1) /\ p = t * down + rest
        OBVIOUS
  <1>2. Nearest(p, t) = IF up THEN down + 1 ELSE down
        BY DEF Nearest
  <1>3. up => 2 * rest >= t
        BY <1>1
  <1>4. ~up => 2 * rest <= t
        BY <1>1
  <1> HIDE DEF down, rest, up
  <1>5. t * down \in Nat /\ t * (down + 1) = t * down + t
        BY <1>1
  <1>6. CASE up
        BY <1>1, <1>2, <1>3, <1>5, <1>6
  <1>7. CASE ~up
        BY <1>1, <1>2, <1>4, <1>5, <1>7
  <1> QED BY <1>6, <1>7

\* Rounding to a cent gives whole cents, and moves a price by half a cent at
\* most.
LEMMA RoundToCent ==
  ASSUME NEW p \in Int
  PROVE  \E n \in Int : /\ RoundTo(p, Cent) = 10 * n
                        /\ 10 * n - p <= 5
                        /\ p - 10 * n <= 5
PROOF
  <1> DEFINE down == p \div 10
             rest == p % 10
             up   == 2 * rest > 10 \/ (2 * rest = 10 /\ down % 2 = 1)
  <1>1. p = 10 * down + rest /\ rest \in 0..9 /\ down \in Int
        OBVIOUS
  <1>2. RoundTo(p, Cent) = 10 * (IF up THEN down + 1 ELSE down)
        BY DEF RoundTo, Nearest, Cent
  <1>3. up => rest >= 5
        BY <1>1
  <1>4. ~up => rest <= 5
        BY <1>1
  <1> HIDE DEF down, rest, up
  <1>5. CASE up
    <2>1. RoundTo(p, Cent) = 10 * (down + 1)
          BY <1>2, <1>5
    <2>2. 10 * (down + 1) - p <= 5 /\ p - 10 * (down + 1) <= 5 /\ down + 1 \in Int
          BY <1>1, <1>3, <1>5
    <2> QED BY <2>1, <2>2
  <1>6. CASE ~up
    <2>1. RoundTo(p, Cent) = 10 * down
          BY <1>2, <1>6
    <2>2. 10 * down - p <= 5 /\ p - 10 * down <= 5
          BY <1>1, <1>4, <1>6
    <2> QED BY <2>1, <2>2, <1>1
  <1> QED BY <1>5, <1>6

\* A price in whole cents stays what it is when it is rounded to cents again.
LEMMA RoundToCentKeeps ==
  ASSUME NEW n \in Int
  PROVE  RoundTo(10 * n, Cent) = 10 * n
PROOF
  <1>1. (10 * n) \div 10 = n /\ (10 * n) % 10 = 0
        OBVIOUS
  <1> QED BY <1>1 DEF RoundTo, Nearest, Cent

\* The quotes of any reservation price and half-spread are whole cents between
\* 1 and 99, at least a cent apart, and an order manager that rounds them to
\* ticks of a cent sends just these prices.
THEOREM QuotesAreSane ==
  ASSUME NEW r \in Int, NEW h \in Nat
  PROVE  LET q == QuotePair(r, h)
         IN  /\ q.bid \in 10..990 /\ q.ask \in 10..990
             /\ q.bid + Cent <= q.ask
             /\ RoundToTick(q.bid, Cent) = q.bid
             /\ RoundToTick(q.ask, Cent) = q.ask
PROOF
  <1> DEFINE low  == Clip(r - h, 10, 980)
             high == Clip(r + h, 20, 990)
             q    == QuotePair(r, h)
  <1>1. low \in 10..980 /\ high \in 20..990
        BY DEF Clip
  <1>2. low <= high
        BY DEF Clip
  <1>3. QuotePair(r, h) =
          LET bid == RoundTo(low, Cent)
              ask == RoundTo(high, Cent)
              mid == (bid + ask) \div 2
          IN  IF bid >= ask THEN [bid |-> mid - Cent, ask |-> mid + Cent]
                            ELSE [bid |-> bid, ask |-> ask]
        BY DEF QuotePair
  <1> HIDE DEF low, high
  <1>4. PICK b \in Int : RoundTo(low, Cent) = 10 * b /\ 10 * b - low <= 5 /\ low - 10 * b <= 5
        BY <1>1, RoundToCent
  <1>5. PICK a \in Int : RoundTo(high, Cent) = 10 * a /\ 10 * a - high <= 5 /\ high - 10 * a <= 5
        BY <1>1, RoundToCent
  <1>6. b \in 1..98 /\ a \in 2..99
    <2>1. b \in 1..98
          BY <1>1, <1>4
    <2>2. a \in 2..99
          BY <1>1, <1>5
    <2> QED BY <2>1, <2>2
  <1>7. b <= a
    <2>1. SUFFICES ASSUME b > a PROVE FALSE
          BY <1>6
    <2>2. low = high
          BY <2>1, <1>1, <1>4, <1>5, <1>6, <1>2
    <2> QED BY <2>1, <2>2, <1>4, <1>5, <1>6
  <1>8. PICK m, n \in 1..99 : q.bid = 10 * m /\ q.ask = 10 * n /\ m < n
    <2>1. CASE b < a
      <3>1. q = [bid |-> 10 * b, ask |-> 10 * a]
            BY <1>4, <1>5, <1>6, <1>3, <2>1
      <3> QED BY <3>1, <2>1, <1>6
    <2>2. CASE b = a
      <3>1. q = [bid |-> 10 * (b - 1), ask |-> 10 * (b + 1)]
            BY <1>4, <1>5, <1>6, <1>3, <2>2 DEF Cent
      <3> QED BY <3>1, <2>2, <1>6
    <2>3. b < a \/ b = a
          BY <1>6, <1>7
    <2> HIDE DEF q
    <2> QED BY <2>1, <2>2, <2>3, Zenon
  <1>9. RoundTo(10 * m, Cent) = 10 * m /\ RoundTo(10 * n, Cent) = 10 * n
        BY RoundToCentKeeps, <1>8
  <1> QED BY <1>8, <1>9 DEF RoundToTick, Cent

=============================================================================
